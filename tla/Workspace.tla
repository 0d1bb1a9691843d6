----------------------------- MODULE Workspace -----------------------------
(***************************************************************************)
(* The workspace of a conversation: a directory with one user file, its    *)
(* backups and temporaries, the git repository in it and the rows of       *)
(* project_milestones.  Several runs of the conversation execute file,     *)
(* git and milestone tools at once (tool-registry/src/{tools,git,marcos}), *)
(* the user edits the file with an editor and the app crashes.  A step is  *)
(* what a tool does between two system calls another process can observe.  *)
(*                                                                         *)
(* Contents are version numbers, each used for one write; the clock counts *)
(* the seconds a backup or an automatic milestone is named after.  libgit2 *)
(* (git2) is external and modelled by what git-engine asks of it.          *)
(***************************************************************************)
EXTENDS Naturals, Sequences, Functions

CONSTANTS NActors,      \* runs that use the workspace
          MaxVersion,   \* bound: contents written
          MaxCommits,   \* bound: commits made
          MaxSecond,    \* bound: seconds the clock ticks
          MaxCalls,     \* bound: tool calls started
          MaxCrashes,   \* bound: crashes of the app
          Marks         \* names a milestone is given by hand

ASSUME WorkspaceAssumption ==
    /\ {NActors, MaxVersion, MaxCommits, MaxSecond, MaxCalls} \subseteq Nat \ {0}
    /\ MaxCrashes \in Nat

VARIABLES
    wt,        \* the directory: name of a file -> its content
    index,     \* the index of the repository on disk, as a tree
    commits,   \* the commits: parent and tree; the position is the id
    branches,  \* refs/heads: name -> commit
    head,      \* the branch HEAD names
    tags,      \* refs/tags: name -> commit
    rows,      \* project_milestones: name -> commit_id
    pc, loc,   \* of each run: the step of the tool it executes, its locals
    version,   \* the last content written
    now,       \* the second the clock last showed somebody
    crashes,
    calls      \* tool calls started

repo == <<index, commits, branches, head, tags>>
vars == <<wt, repo, rows, pc, loc, version, now, crashes, calls>>

Actors  == 1..NActors
Partial == 0                       \* a file that is still being written
File    == <<"file", 0>>
Backup(t)    == <<"bak", t>>       \* t = 0: f.bak; else f.bak.<second t>
Temp(a)      == <<"tmp", a + NActors * crashes>>
AutoMark(m, t) == <<"auto", m, t>>
HandMark(m)  == <<"hand", m, 0>>

\* swept is a ghost: a restoration's checkout came between backup and rename.
Idle == [op |-> "none", seen |-> Partial, bak |-> File, swept |-> FALSE,
         tree |-> <<>>, mark |-> <<>>, at |-> 0, goal |-> ""]

Put(dir, n, c) == [x \in DOMAIN dir \union {n} |-> IF x = n THEN c ELSE dir[x]]
Without(dir, n) == Restrict(dir, DOMAIN dir \ {n})

HeadTree == commits[branches[head]].tree

\* With every commit a history has the parent of it.
IsHistory(S) == \A c \in S : commits[c].parent \in S \union {0}

\* Every commit some branch or tag leads to.
Reachable ==
    {c \in DOMAIN commits :
        \A S \in SUBSET DOMAIN commits :
            Range(branches) \union Range(tags) \subseteq S /\ IsHistory(S) => c \in S}

InHistory(c) == \E i \in Reachable : c \in Range(commits[i].tree)

Init ==
    /\ wt \in {<<>>, Put(<<>>, File, 1)}
    /\ index = wt
    /\ commits = <<[parent |-> 0, tree |-> wt]>>
    /\ branches = Put(<<>>, "main", 1) /\ head = "main"
    /\ tags = <<>> /\ rows = <<>>
    /\ pc = [a \in Actors |-> "idle"]
    /\ loc = [a \in Actors |-> Idle]
    /\ version = 1 /\ now = 1 /\ crashes = 0 /\ calls = 0

Go(a, next, l) ==
    /\ pc' = [pc EXCEPT ![a] = next]
    /\ loc' = [loc EXCEPT ![a] = IF next = "idle" THEN Idle ELSE l]
Stop(a) == Go(a, "idle", Idle)

\* A run that executes nothing starts a tool.
Call(a) ==
    /\ pc[a] = "idle"
    /\ calls < MaxCalls
    /\ calls' = calls + 1

----------------------------------------------------------------------------
(* files.write and files.edit.                                            *)

\* files.write resolves the path and reads what is there; without a file
\* there is no backup to make.  A refused call changes nothing.
OpenToWrite(a) ==
    /\ Call(a)
    /\ IF File \in DOMAIN wt
       THEN Go(a, "backup", [Idle EXCEPT !.seen = wt[File]])
       ELSE Go(a, "create", Idle)
    /\ UNCHANGED <<wt, repo, rows, version, now, crashes>>

\* files.edit reads the text it edits, compares the hash it was given, counts
\* the matches, and makes its backup before it replaces.
OpenToEdit(a) ==
    /\ Call(a)
    /\ File \in DOMAIN wt
    /\ Go(a, "backup", [Idle EXCEPT !.seen = wt[File]])
    /\ UNCHANGED <<wt, repo, rows, version, now, crashes>>

\* files.edit of a file that is not there writes it without a backup.
EditFromScratch(a) ==
    /\ Call(a)
    /\ File \notin DOMAIN wt
    /\ Go(a, "create", Idle)
    /\ UNCHANGED <<wt, repo, rows, version, now, crashes>>

\* The clock shows some second from the last one on.
Clock(t) == t \in now..MaxSecond /\ now' = t

\* f.bak, or when it is taken f.bak.<second>: this one is not looked up.
backup_path_for(t) == IF Backup(0) \in DOMAIN wt THEN Backup(t) ELSE Backup(0)

\* A run that finds a backup there makes no second one.
ChooseBackupOnce(a) ==
    /\ pc[a] = "backup"
    /\ Go(a, IF Backup(0) \in DOMAIN wt THEN "create" ELSE "copy",
          [loc[a] EXCEPT !.bak = Backup(0)])
    /\ UNCHANGED <<wt, repo, rows, version, now, crashes, calls>>

ChooseBackup(a) ==
    /\ pc[a] = "backup"
    /\ \E t \in 1..MaxSecond :
          Clock(t) /\ Go(a, "copy", [loc[a] EXCEPT !.bak = backup_path_for(t)])
    /\ UNCHANGED <<wt, repo, rows, version, crashes, calls>>

\* fs::copy of what the file holds now; without a backup the tool gives up.
CopyBackup(a) ==
    /\ pc[a] = "copy"
    /\ \/ /\ File \in DOMAIN wt
          /\ wt' = Put(wt, loc[a].bak, wt[File])
          /\ Go(a, "create", loc[a])
       \/ UNCHANGED wt /\ Stop(a)
    /\ UNCHANGED <<repo, rows, version, now, crashes, calls>>

\* The content goes to a temporary first.
CreateTempInPlace(a) ==
    /\ pc[a] = "create"
    /\ wt' = Put(wt, File, Partial)
    /\ Go(a, "fill", loc[a])
    /\ UNCHANGED <<repo, rows, version, now, crashes, calls>>

CreateTemp(a) ==
    /\ pc[a] = "create"
    /\ \/ wt' = Put(wt, Temp(a), Partial) /\ Go(a, "fill", loc[a])
       \/ UNCHANGED wt /\ Stop(a)
    /\ UNCHANGED <<repo, rows, version, now, crashes, calls>>

FillTemp(a) ==
    /\ pc[a] = "fill"
    /\ \/ /\ version < MaxVersion
          /\ version' = version + 1
          /\ wt' = Put(wt, Temp(a), version')
          /\ Go(a, "rename", loc[a])
       \/ /\ wt' = Without(wt, Temp(a)) /\ Stop(a)
          /\ UNCHANGED version
    /\ UNCHANGED <<repo, rows, now, crashes, calls>>

\* A temporary that a checkout took away fails the rename.
RenameTemp(a) ==
    /\ pc[a] = "rename"
    /\ \/ /\ Temp(a) \in DOMAIN wt
          /\ wt' = Put(Without(wt, Temp(a)), File, wt[Temp(a)])
       \/ wt' = Without(wt, Temp(a))
    /\ Stop(a)
    /\ UNCHANGED <<repo, rows, version, now, crashes, calls>>

----------------------------------------------------------------------------
(* git.commit, git.branch, and the commits a restoration makes.           *)

Clean == wt = HeadTree /\ index = HeadTree

AddAll(a) ==
    /\ index' = wt
    /\ UNCHANGED <<commits, branches, head, tags>>
    /\ Go(a, "commit", [loc[a] EXCEPT !.tree = wt])

StartCommit(a) ==
    /\ Call(a)
    /\ Len(commits) < MaxCommits
    /\ AddAll(a)
    /\ UNCHANGED <<wt, rows, version, now, crashes>>

\* HEAD's branch moves to a new commit on top of the one it names.
Committed(tree, parent) ==
    /\ commits' = Append(commits, [parent |-> parent, tree |-> tree])
    /\ branches' = [branches EXCEPT ![head] = Len(commits) + 1]
    /\ UNCHANGED <<index, head, tags>>

\* libgit2 refuses the commit when HEAD moved since it was read, and the
\* tool refuses one that changes nothing.
CommitTree(a) ==
    /\ pc[a] = "commit"
    /\ \/ /\ loc[a].tree # HeadTree
          /\ Len(commits) < MaxCommits
          /\ Committed(loc[a].tree, branches[head])
          /\ IF loc[a].op = "restore" THEN Go(a, "automark", loc[a]) ELSE Stop(a)
       \/ UNCHANGED repo /\ Stop(a)
    /\ UNCHANGED <<wt, rows, version, now, crashes, calls>>

CreateBranch(a, b) ==
    /\ Call(a)
    /\ b \notin DOMAIN branches
    /\ branches' = Put(branches, b, branches[head])
    /\ \E trocar \in BOOLEAN : Go(a, IF trocar THEN "switch" ELSE "idle", [Idle EXCEPT !.goal = b])
    /\ UNCHANGED <<wt, index, commits, head, tags, rows, version, now, crashes>>

\* What a safe checkout of `target` makes of each file: it keeps what the two
\* commits agree on, replaces what nobody touched and stops at a conflict.
Conflict(target, n) ==
    LET at(d) == IF n \in DOMAIN d THEN {d[n]} ELSE {}
    IN  at(target) # at(HeadTree) /\ at(wt) \notin {at(HeadTree), at(target)}
SafeTree(target) ==
    LET at(d, n) == IF n \in DOMAIN d THEN {d[n]} ELSE {}
        after(n) == IF at(target, n) = at(HeadTree, n) THEN at(wt, n) ELSE at(target, n)
    IN  [n \in {x \in DOMAIN wt \union DOMAIN target : after(x) # {}} |-> CHOOSE c \in after(n) : TRUE]

SwitchBranch(a, b) ==
    /\ \/ Call(a)
       \/ pc[a] = "switch" /\ loc[a].goal = b /\ UNCHANGED calls
    /\ b \in DOMAIN branches
    /\ LET target == commits[branches[b]].tree
       IN  IF \E n \in DOMAIN wt \union DOMAIN target \union DOMAIN HeadTree : Conflict(target, n)
           THEN UNCHANGED <<wt, index>> /\ Stop(a)
           ELSE /\ wt' = SafeTree(target)
                /\ index' = target
                /\ Go(a, "sethead", [Idle EXCEPT !.goal = b])
    /\ UNCHANGED <<commits, branches, head, tags, rows, version, now, crashes>>

SetHead(a) ==
    /\ pc[a] = "sethead"
    /\ head' = loc[a].goal
    /\ Stop(a)
    /\ UNCHANGED <<wt, index, commits, branches, tags, rows, version, now, crashes, calls>>

----------------------------------------------------------------------------
(* milestone.create and milestone.restore.                                *)

\* The row is looked up, then the tag; a tag without a row refuses the name.
CreateTag(a, mark, l) ==
    IF mark \in DOMAIN rows \union DOMAIN tags
    THEN Stop(a) /\ UNCHANGED tags
    ELSE /\ tags' = Put(tags, mark, branches[head])
         /\ Go(a, "insert", [l EXCEPT !.mark = mark, !.at = branches[head]])

\* The row is written before the tag is made.
CreateMarkRowFirst(a, m) ==
    /\ Call(a)
    /\ HandMark(m) \notin DOMAIN rows
    /\ rows' = Put(rows, HandMark(m), branches[head])
    /\ Stop(a)
    /\ UNCHANGED <<wt, repo, version, now, crashes>>

CreateMark(a, m) ==
    /\ Call(a)
    /\ CreateTag(a, HandMark(m), Idle)
    /\ UNCHANGED <<wt, index, commits, branches, head, rows, version, now, crashes>>

\* The row is written by another database than the tag, and may fail.
InsertRow(a) ==
    /\ pc[a] = "insert"
    /\ \/ /\ rows' = Put(rows, loc[a].mark, loc[a].at)
          /\ IF loc[a].op = "restore" THEN Go(a, "recheck", loc[a]) ELSE Stop(a)
       \/ UNCHANGED rows /\ Stop(a)
    /\ UNCHANGED <<wt, repo, version, now, crashes, calls>>

\* A dirty workspace becomes a commit and an automatic milestone first.
StartRestore(a, m) ==
    /\ Call(a)
    /\ HandMark(m) \in DOMAIN rows
    /\ LET l == [Idle EXCEPT !.op = "restore", !.goal = m]
       IN  Go(a, IF Clean THEN "recheck" ELSE "add", l)
    /\ UNCHANGED <<wt, repo, rows, version, now, crashes>>

AddBeforeRestore(a) ==
    /\ pc[a] = "add"
    /\ AddAll(a)
    /\ UNCHANGED <<wt, rows, version, now, crashes, calls>>

MarkBeforeRestore(a) ==
    /\ pc[a] = "automark"
    /\ \E t \in 1..MaxSecond : Clock(t) /\ CreateTag(a, AutoMark(loc[a].goal, t), loc[a])
    /\ UNCHANGED <<wt, index, commits, branches, head, rows, version, crashes, calls>>

\* restaurar_tag looks at the workspace once more.
RecheckNothing(a) ==
    /\ pc[a] = "recheck"
    /\ Go(a, "recommit", [loc[a] EXCEPT !.tree = wt])
    /\ UNCHANGED <<wt, repo, rows, version, now, crashes, calls>>

Recheck(a) ==
    /\ pc[a] = "recheck"
    /\ IF Clean THEN Go(a, "recommit", [loc[a] EXCEPT !.tree = wt]) ELSE Stop(a)
    /\ UNCHANGED <<wt, repo, rows, version, now, crashes, calls>>

MarkTree(m) == commits[tags[HandMark(m)]].tree

\* The restoration as a reset: the branch goes back to the marked commit.
RecommitReset(a) ==
    /\ pc[a] = "recommit"
    /\ branches' = [branches EXCEPT ![head] = tags[HandMark(loc[a].goal)]]
    /\ Go(a, "checkout", loc[a])
    /\ UNCHANGED <<wt, index, commits, head, tags, rows, version, now, crashes, calls>>

\* The tree of the milestone becomes a commit on top of HEAD.
Recommit(a) ==
    /\ pc[a] = "recommit"
    /\ \/ /\ MarkTree(loc[a].goal) # HeadTree
          /\ Len(commits) < MaxCommits
          /\ Committed(MarkTree(loc[a].goal), branches[head])
          /\ Go(a, "checkout", loc[a])
       \/ UNCHANGED repo /\ Stop(a)
    /\ UNCHANGED <<wt, rows, version, now, crashes, calls>>

\* A forced checkout: only files the index does not know survive.
Checkout(a) ==
    /\ pc[a] = "checkout"
    /\ LET target == MarkTree(loc[a].goal)
       IN  /\ wt' = [n \in (DOMAIN wt \ DOMAIN index) \union DOMAIN target |->
                        IF n \in DOMAIN target THEN target[n] ELSE wt[n]]
           /\ index' = target
    /\ pc' = [pc EXCEPT ![a] = "idle"]
    /\ loc' = [b \in Actors |-> IF b = a THEN Idle
                               ELSE IF pc[b] \in {"create", "fill", "rename"}
                                    THEN [loc[b] EXCEPT !.swept = TRUE]
                               ELSE loc[b]]
    /\ UNCHANGED <<commits, branches, head, tags, rows, version, now, crashes, calls>>

----------------------------------------------------------------------------
(* The user's editor and a crash.                                         *)

UserEdits ==
    /\ version < MaxVersion
    /\ version' = version + 1
    /\ wt' = Put(wt, File, version')
    /\ UNCHANGED <<repo, rows, pc, loc, now, crashes, calls>>

\* A copy the crash interrupts leaves a part of it.
Crash ==
    /\ crashes < MaxCrashes
    /\ \E S \in SUBSET {a \in Actors : pc[a] = "copy"} :
          wt' = [n \in DOMAIN wt \union {loc[a].bak : a \in S} |->
                    IF n \in {loc[a].bak : a \in S} THEN Partial ELSE wt[n]]
    /\ pc' = [a \in Actors |-> "idle"] /\ loc' = [a \in Actors |-> Idle]
    /\ crashes' = crashes + 1
    /\ UNCHANGED <<repo, rows, version, now, calls>>

FileTool(a) == \/ OpenToWrite(a) \/ OpenToEdit(a) \/ EditFromScratch(a)
               \/ ChooseBackup(a) \/ CopyBackup(a)
               \/ CreateTemp(a) \/ FillTemp(a) \/ RenameTemp(a)

GitTool(a) == \/ StartCommit(a) \/ CommitTree(a)
              \/ CreateBranch(a, "side")
              \/ \E b \in {"main", "side"} : SwitchBranch(a, b)
              \/ SetHead(a)

MarkTool(a) == \/ \E m \in Marks : CreateMark(a, m) \/ StartRestore(a, m)
               \/ InsertRow(a) \/ AddBeforeRestore(a) \/ MarkBeforeRestore(a)
               \/ Recheck(a) \/ Recommit(a) \/ Checkout(a)

Next == \/ \E a \in Actors : FileTool(a) \/ GitTool(a) \/ MarkTool(a)
        \/ UserEdits \/ Crash

Spec == Init /\ [][Next]_vars

----------------------------------------------------------------------------
\* The user's file is at no moment, a crash included, a half-written one,
\* unless a commit took in the temporary of a tool at work (git.commit adds
\* every file) and a checkout brought it back before the rename.
FileWhole ==
    (File \in DOMAIN wt /\ wt[File] = Partial)
        => \E i \in DOMAIN commits : Partial \in Range(commits[i].tree)

\* A commit some branch or tag leads to is led to for ever: no tool, and no
\* two tools at once, rewrite history.
HistoryKept == [][Reachable \subseteq Reachable']_vars

\* A milestone the panel lists has its tag, on the commit the row names.
MilestoneHasTag == \A m \in DOMAIN rows : m \in DOMAIN tags /\ tags[m] = rows[m]

\* A restoration that overwrites the workspace has everything it last saw
\* there in the history, whoever wrote between its steps.
RestoreKeepsWork ==
    [][\A a \in Actors :
          Checkout(a) => \A n \in DOMAIN loc[a].tree : InHistory(loc[a].tree[n])]_vars

\* A file tool that replaces the content it found leaves that content in a
\* backup or in the history; what others wrote meanwhile it may replace.  Only
\* the checkout of a restoration of another run, if it falls between the backup
\* and the rename, may take the backup away or put an older one in its place.
OverwriteKeepsOld ==
    [][\A a \in Actors :
          /\ RenameTemp(a) /\ File \in DOMAIN wt /\ File \in DOMAIN wt'
          /\ wt[File] = loc[a].seen /\ wt'[File] # wt[File] /\ ~loc[a].swept
          => \/ InHistory(wt[File])
             \/ \E n \in DOMAIN wt' : n[1] = "bak" /\ wt'[n] = wt[File]]_vars
=============================================================================
