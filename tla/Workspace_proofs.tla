--------------------------- MODULE Workspace_proofs ---------------------------
(***************************************************************************)
(* The workspace of a conversation, for any number of runs, calls,         *)
(* versions, commits and crashes: no half-written file, no rewritten       *)
(* history, every milestone with its tag, nothing a restoration or a file  *)
(* tool replaces is lost.                                                  *)
(*                                                                         *)
(* A content is known when a commit has it.  A temporary that waits for    *)
(* its rename holds a content nobody else has seen, or a known one         *)
(* (Fresh): the content a tool found in the user's file can therefore come *)
(* back there, once somebody replaced it, only out of a commit.            *)
(***************************************************************************)
EXTENDS Workspace, SequenceTheorems, TLAPS

(* A function on the numbers from 1 up to its length.                      *)
IsSeq(s) == s \in Seq({s[i] : i \in DOMAIN s})

(* Some commit has the content.                                            *)
Known(c) == \E i \in DOMAIN commits : c \in Range(commits[i].tree)

Backups == {Backup(t) : t \in Nat}

Fields == {"op", "seen", "bak", "swept", "tree", "mark", "at", "goal"}

(* The references of the repository name commits, and every commit is one  *)
(* they lead to.                                                           *)
RefsOK ==
    /\ IsSeq(commits)
    /\ \A c \in DOMAIN commits : commits[c].parent \in DOMAIN commits \union {0}
    /\ \A b \in DOMAIN branches : branches[b] \in DOMAIN commits
    /\ \A t \in DOMAIN tags : tags[t] \in DOMAIN commits
    /\ head \in DOMAIN branches
    /\ DOMAIN commits \subseteq Reachable

(* Whatever is in a file was written before.                               *)
Written(tree, last) == \A n \in DOMAIN tree : tree[n] \in 0 .. last

ContentsOK ==
    /\ version \in Nat \ {0} /\ crashes \in Nat
    /\ Written(wt, version)
    /\ \A i \in DOMAIN commits : Written(commits[i].tree, version)

LocalsOK(a) ==
    /\ DOMAIN loc[a] = Fields
    /\ pc[a] = "idle" => loc[a] = Idle
    /\ loc[a].seen \in 0 .. version /\ Written(loc[a].tree, version)

(* What a restoration and its commits hold between two steps.              *)
RestoreOK(a) ==
    /\ loc[a].op = "restore" => HandMark(loc[a].goal) \in DOMAIN tags
    /\ pc[a] \in {"add", "automark", "recheck", "recommit", "checkout"} => loc[a].op = "restore"
    /\ pc[a] = "insert" => loc[a].mark \in DOMAIN tags /\ tags[loc[a].mark] = loc[a].at
    /\ pc[a] = "sethead" => loc[a].goal \in DOMAIN branches
    /\ pc[a] \in {"recommit", "checkout"} =>
          \E i \in DOMAIN commits : commits[i].tree = loc[a].tree

Writing(a) == pc[a] \in {"create", "fill", "rename"}

(* The content the run found is in the history or in its backup.           *)
Kept(a) ==
    Writing(a) /\ ~loc[a].swept /\ File \in DOMAIN wt /\ wt[File] = loc[a].seen
    => \/ Known(loc[a].seen)
       \/ loc[a].bak \in Backups /\ loc[a].bak \in DOMAIN wt /\ wt[loc[a].bak] = loc[a].seen

(* The content that waits for its rename is nowhere else.                  *)
Fresh(a) ==
    pc[a] = "rename" /\ Temp(a) \in DOMAIN wt
    => \/ Known(wt[Temp(a)])
       \/ /\ wt[Temp(a)] # Partial
          /\ \A n \in DOMAIN wt \ {Temp(a)} : wt[n] # wt[Temp(a)]
          /\ \A b \in Actors : loc[b].seen # wt[Temp(a)]

FileOK(a) ==
    /\ pc[a] = "copy" => loc[a].bak \in Backups
    /\ Kept(a) /\ Fresh(a)

IndInv ==
    /\ DOMAIN pc = Actors /\ DOMAIN loc = Actors
    /\ RefsOK /\ ContentsOK /\ FileWhole /\ MilestoneHasTag
    /\ \A a \in Actors : LocalsOK(a) /\ RestoreOK(a) /\ FileOK(a)

--------------------------------------------------------------------------------
(* The sequence of the commits.                                            *)

(* A function on the numbers from 1 is a sequence.                         *)
LEMMA SeqOf ==
  ASSUME NEW s, NEW n \in Nat, NEW e, s = [i \in 1 .. n |-> e[i]]
  PROVE  IsSeq(s) /\ Len(s) = n
<1> DEFINE S == {s[i] : i \in DOMAIN s}
<1>1. s \in [1 .. n -> S]
  OBVIOUS
<1> HIDE DEF S
<1>2. s \in Seq(S) /\ Len(s) = n
  BY <1>1
<1> QED
  BY <1>2 DEF IsSeq, S

(* What Append does to a sequence.                                         *)
LEMMA SeqAppend ==
  ASSUME NEW s, NEW e, IsSeq(s)
  PROVE  /\ IsSeq(Append(s, e)) /\ Len(s) \in Nat /\ Len(Append(s, e)) = Len(s) + 1
         /\ DOMAIN s = 1 .. Len(s) /\ DOMAIN Append(s, e) = 1 .. Len(s) + 1
         /\ \A i \in 1 .. Len(s) : Append(s, e)[i] = s[i]
         /\ Append(s, e)[Len(s) + 1] = e
<1> DEFINE S == {s[i] : i \in DOMAIN s} \union {e}
           t == Append(s, e)
<1>1. s \in Seq(S) /\ e \in S
  <2>1. PICK U : U = {s[i] : i \in DOMAIN s}
    OBVIOUS
  <2>2. s \in Seq(U) /\ U \subseteq S
    BY <2>1 DEF IsSeq
  <2>3. Seq(U) \subseteq Seq(S)
    BY <2>2
  <2> QED
    BY <2>2, <2>3
<1> HIDE DEF S
<1>2. /\ t \in Seq(S) /\ Len(s) \in Nat /\ Len(t) = Len(s) + 1
      /\ DOMAIN s = 1 .. Len(s) /\ DOMAIN t = 1 .. Len(s) + 1
      /\ \A i \in 1 .. Len(s) : t[i] = s[i]
      /\ t[Len(s) + 1] = e
  BY <1>1
<1> HIDE DEF t
<1>3. IsSeq(t)
  <2>1. t = [i \in 1 .. Len(s) + 1 |-> t[i]] /\ Len(s) + 1 \in Nat
    BY <1>2
  <2> QED
    BY <2>1, SeqOf
<1> QED
  BY <1>2, <1>3 DEF t

--------------------------------------------------------------------------------
(* The history.                                                            *)

(* What the names of a directory are after a file is put or removed.       *)
LEMMA PutFacts ==
  ASSUME NEW dir, NEW n, NEW c
  PROVE  /\ DOMAIN Put(dir, n, c) = DOMAIN dir \union {n} /\ Put(dir, n, c)[n] = c
         /\ \A x \in DOMAIN dir \ {n} : Put(dir, n, c)[x] = dir[x]
         /\ DOMAIN Without(dir, n) = DOMAIN dir \ {n}
         /\ \A x \in DOMAIN dir \ {n} : Without(dir, n)[x] = dir[x]
BY DEF Put, Without, Restrict

(* The steps of the repository: it stays, or a reference or a commit on    *)
(* top of HEAD is added to it.                                             *)
Grows ==
    /\ commits' = commits /\ head' = head
    /\ DOMAIN branches \subseteq DOMAIN branches' /\ DOMAIN tags \subseteq DOMAIN tags'
    /\ \A b \in DOMAIN branches : branches'[b] = branches[b]
    /\ \A t \in DOMAIN tags : tags'[t] = tags[t]
    /\ \A b \in DOMAIN branches' : branches'[b] \in DOMAIN commits
    /\ \A t \in DOMAIN tags' : tags'[t] \in DOMAIN commits

(* A new reference takes nothing out of the history.                       *)
LEMMA GrowsRefs ==
  ASSUME RefsOK, Grows
  PROVE  RefsOK'
<1>1. Range(branches) \subseteq Range(branches') /\ Range(tags) \subseteq Range(tags')
  BY DEF Grows, Range
<1>2. ASSUME NEW c \in Reachable PROVE c \in Reachable'
  <2> SUFFICES ASSUME NEW S \in SUBSET DOMAIN commits,
                      Range(branches') \union Range(tags') \subseteq S, IsHistory(S)
               PROVE  c \in S
    BY DEF Reachable, Grows, IsHistory
  <2>1. Range(branches) \union Range(tags) \subseteq S
    BY <1>1
  <2> QED
    BY <2>1 DEF Reachable
<1>3. DOMAIN commits' \subseteq Reachable'
  BY <1>2 DEF RefsOK, Grows
<1> QED
  BY <1>3 DEF RefsOK, Grows

(* A commit on top of the one HEAD's branch names keeps that one in the    *)
(* history, and all that was there.                                        *)
LEMMA CommittedRefs ==
  ASSUME RefsOK, NEW tree, Committed(tree, branches[head])
  PROVE  /\ RefsOK' /\ DOMAIN commits \subseteq DOMAIN commits'
         /\ \A c \in DOMAIN commits : commits'[c] = commits[c]
         /\ \A c \in DOMAIN commits' \ DOMAIN commits : commits'[c].tree = tree
         /\ DOMAIN branches' = DOMAIN branches /\ tags' = tags
<1> DEFINE tip == branches[head]
           new == [parent |-> tip, tree |-> tree]
<1>1. /\ IsSeq(commits') /\ Len(commits) \in Nat /\ DOMAIN commits = 1 .. Len(commits)
      /\ DOMAIN commits' = 1 .. Len(commits) + 1
      /\ \A c \in 1 .. Len(commits) : commits'[c] = commits[c]
      /\ commits'[Len(commits) + 1] = new
  <2>1. IsSeq(commits) /\ commits' = Append(commits, new)
    BY DEF RefsOK, Committed
  <2> HIDE DEF new
  <2>2. /\ IsSeq(Append(commits, new)) /\ Len(commits) \in Nat /\ DOMAIN commits = 1 .. Len(commits)
        /\ DOMAIN Append(commits, new) = 1 .. Len(commits) + 1
        /\ \A c \in 1 .. Len(commits) : Append(commits, new)[c] = commits[c]
        /\ Append(commits, new)[Len(commits) + 1] = new
    BY <2>1, SeqAppend
  <2> QED
    BY <2>1, <2>2, Zenon
<1>2. tip \in DOMAIN commits /\ head \in DOMAIN branches
  BY DEF RefsOK
<1>3. /\ DOMAIN branches' = DOMAIN branches /\ head' = head /\ tags' = tags
      /\ branches'[head] = Len(commits) + 1
      /\ \A b \in DOMAIN branches \ {head} : branches'[b] = branches[b]
  BY <1>2 DEF Committed
<1>4. /\ DOMAIN commits \subseteq DOMAIN commits' /\ Len(commits) + 1 \in DOMAIN commits'
      /\ \A c \in DOMAIN commits' : c \in DOMAIN commits \/ c = Len(commits) + 1
      /\ Len(commits) + 1 \notin DOMAIN commits
  BY <1>1
<1>5. ASSUME NEW c \in DOMAIN commits' PROVE commits'[c].parent \in DOMAIN commits' \union {0}
  <2>1. CASE c \in DOMAIN commits
    BY <1>1, <1>4, <2>1 DEF RefsOK
  <2>2. CASE c = Len(commits) + 1
    <3>1. commits'[c].parent = tip
      BY <1>1, <2>2
    <3> QED
      BY <1>2, <1>4, <3>1
  <2> QED
    BY <1>4, <2>1, <2>2
<1>6. ASSUME NEW S \in SUBSET DOMAIN commits',
             Range(branches') \union Range(tags') \subseteq S,
             \A c \in S : commits'[c].parent \in S \union {0}
      PROVE  DOMAIN commits' \subseteq S
  <2> DEFINE T == S \cap DOMAIN commits
  <2>1. Len(commits) + 1 \in S
    BY <1>2, <1>3, <1>6 DEF Range
  <2>2. tip \in T
    <3>1. commits'[Len(commits) + 1].parent = tip
      BY <1>1
    <3>2. tip # 0
      BY <1>1, <1>2
    <3> QED
      BY <1>2, <1>6, <2>1, <3>1, <3>2
  <2>3. Range(branches) \union Range(tags) \subseteq T
    <3>1. ASSUME NEW b \in DOMAIN branches PROVE branches[b] \in T
      <4>1. CASE b = head
        BY <2>2, <4>1
      <4>2. CASE b # head
        <5>1. branches[b] \in Range(branches')
          BY <1>3, <4>2 DEF Range
        <5> QED
          BY <1>6, <5>1 DEF RefsOK
      <4> QED
        BY <4>1, <4>2
    <3>2. ASSUME NEW t \in DOMAIN tags PROVE tags[t] \in T
      BY <1>3, <1>6 DEF Range, RefsOK
    <3> QED
      BY <3>1, <3>2 DEF Range
  <2>4. IsHistory(T)
    <3> SUFFICES ASSUME NEW c \in T PROVE commits[c].parent \in T \union {0}
      BY DEF IsHistory
    <3>1. commits'[c] = commits[c]
      BY <1>1
    <3>2. commits[c].parent \in S \union {0}
      BY <1>6, <3>1
    <3> QED
      BY <3>2 DEF RefsOK
  <2>5. DOMAIN commits \subseteq T
    <3>1. \A c \in Reachable : c \in T
      <4>1. T \in SUBSET DOMAIN commits
        OBVIOUS
      <4> HIDE DEF T
      <4> QED
        BY <2>3, <2>4, <4>1 DEF Reachable
    <3> QED
      BY <3>1 DEF RefsOK
  <2> QED
    BY <1>4, <2>1, <2>5
<1>7. DOMAIN commits' \subseteq Reachable'
  BY <1>6 DEF Reachable, IsHistory
<1>8. RefsOK'
  <2>1. \A b \in DOMAIN branches' : branches'[b] \in DOMAIN commits'
    BY <1>3, <1>4 DEF RefsOK
  <2>2. \A t \in DOMAIN tags' : tags'[t] \in DOMAIN commits'
    BY <1>3, <1>4 DEF RefsOK
  <2> QED
    BY <1>1, <1>2, <1>3, <1>5, <1>7, <2>1, <2>2 DEF RefsOK
<1> QED
  BY <1>1, <1>3, <1>4, <1>8

--------------------------------------------------------------------------------
(* What a step leaves of the other runs.                                   *)

(* The repository only grows.                                              *)
Extends ==
    /\ DOMAIN commits \subseteq DOMAIN commits'
    /\ \A c \in DOMAIN commits : commits'[c] = commits[c]
    /\ DOMAIN branches \subseteq DOMAIN branches'
    /\ DOMAIN tags \subseteq DOMAIN tags' /\ \A t \in DOMAIN tags : tags'[t] = tags[t]

(* What is known after the step.                                           *)
KnownThen(c) == \E i \in DOMAIN commits' : c \in Range(commits'[i].tree)

(* Where the content of the user's file comes from in a step: it was there *)
(* or in a commit, it is new, or it is that of a temporary.                *)
FileFrom(c) ==
    \/ File \in DOMAIN wt /\ c = wt[File]
    \/ KnownThen(c)
    \/ c > version
    \/ \E b \in Actors : /\ pc[b] = "rename" /\ pc'[b] # "rename"
                         /\ Temp(b) \in DOMAIN wt /\ c = wt[Temp(b)]

(* Where that of any file does.                                            *)
From(n) ==
    \/ n \in DOMAIN wt /\ wt'[n] = wt[n]
    \/ wt'[n] = Partial
    \/ FileFrom(wt'[n])

(* A backup is kept, replaced by what the user's file holds, or known.     *)
BackupKept(n) ==
    \/ Known(wt[n])
    \/ n \in DOMAIN wt' /\ wt'[n] = wt[n]
    \/ /\ n \in DOMAIN wt' /\ {File} \subseteq DOMAIN wt \cap DOMAIN wt'
       /\ wt'[n] = wt[File] /\ wt'[File] = wt[File]

BackupsKept == \A n \in Backups \cap DOMAIN wt : BackupKept(n)

(* The files of a step: only the temporary of a run that takes a step is   *)
(* written or renamed.                                                     *)
FilesStep ==
    /\ Extends /\ crashes' = crashes
    /\ \A n \in DOMAIN wt' : From(n)
    /\ File \in DOMAIN wt' => FileFrom(wt'[File])
    /\ \A b \in Actors : loc'[b].seen \in {loc[b].seen, Partial}
                                          \/ (File \in DOMAIN wt /\ loc'[b].seen = wt[File])

TempKept(b) ==
    Temp(b) \in DOMAIN wt' =>
        KnownThen(wt'[Temp(b)]) \/ (Temp(b) \in DOMAIN wt /\ wt'[Temp(b)] = wt[Temp(b)])

(* A run that takes no step; a checkout under its feet is noted.           *)
Undisturbed(b) ==
    /\ pc'[b] = pc[b] /\ TempKept(b)
    /\ \/ loc'[b] = loc[b] /\ (Writing(b) => BackupsKept)
       \/ Writing(b) /\ loc'[b] = [loc[b] EXCEPT !.swept = TRUE]

(* What is known stays known.                                              *)
LEMMA KnownKept ==
  ASSUME Extends, NEW c, Known(c)
  PROVE  KnownThen(c)
BY DEF Extends, Known, KnownThen, Range

(* The names of the files.                                                 *)
LEMMA Names ==
  ASSUME crashes \in Nat
  PROVE  /\ \A a \in Actors : Temp(a) # File /\ Temp(a) \notin Backups
         /\ \A a, b \in Actors : a # b => Temp(a) # Temp(b)
         /\ File \notin Backups
<1>1. NActors \in Nat
  BY WorkspaceAssumption
<1>2. \A a, b \in Actors : a # b => a + NActors * crashes # b + NActors * crashes
  <2>1. NActors * crashes \in Nat
    BY <1>1
  <2>2. PICK k \in Nat : k = NActors * crashes
    BY <2>1
  <2>3. \A a, b \in Actors : a \in Nat /\ b \in Nat
    BY <1>1 DEF Actors
  <2>4. \A a, b \in Nat : a # b => a + k # b + k
    OBVIOUS
  <2> QED
    BY <2>2, <2>3, <2>4
<1>3. \A a, b \in Actors : a # b => Temp(a) # Temp(b)
  BY <1>2 DEF Temp
<1> QED
  BY <1>3 DEF Temp, File, Backups, Backup

LEMMA FreshKept ==
  ASSUME IndInv, FilesStep, NEW b \in Actors, pc[b] = "rename", pc'[b] = "rename", TempKept(b)
  PROVE  Fresh(b)'
<1>0. PICK x : x = wt'[Temp(b)]
  OBVIOUS
<1>1. crashes \in Nat /\ Temp(b)' = Temp(b)
  BY DEF IndInv, ContentsOK, FilesStep, Temp
<1> SUFFICES ASSUME Temp(b) \in DOMAIN wt', ~KnownThen(x)
             PROVE  /\ x # Partial
                    /\ \A n \in DOMAIN wt' \ {Temp(b)} : wt'[n] # x
                    /\ \A c \in Actors : loc'[c].seen # x
  BY <1>0, <1>1 DEF Fresh, Known, KnownThen
<1>2. Temp(b) \in DOMAIN wt /\ x = wt[Temp(b)]
  BY <1>0 DEF TempKept
<1>3. \A c : Known(c) => c # x
  BY KnownKept DEF FilesStep
<1>4. /\ x # Partial /\ \A n \in DOMAIN wt \ {Temp(b)} : wt[n] # x
      /\ \A c \in Actors : loc[c].seen # x
  BY <1>2, <1>3 DEF IndInv, FileOK, Fresh
<1>5. x \in 0 .. version /\ version \in Nat
  BY <1>2 DEF IndInv, ContentsOK, Written
<1>6. \A n \in DOMAIN wt : n = File => wt[n] # x
  BY <1>1, <1>4, Names
<1>7. ASSUME NEW c, FileFrom(c) PROVE c # x
  <2>1. CASE File \in DOMAIN wt /\ c = wt[File]
    BY <1>6, <2>1
  <2>2. CASE KnownThen(c)
    BY <2>2
  <2>3. CASE c > version
    BY <1>5, <2>3
  <2>4. ASSUME NEW d \in Actors, pc'[d] # "rename", Temp(d) \in DOMAIN wt, c = wt[Temp(d)]
        PROVE  c # x
    <3>1. Temp(d) # Temp(b)
      BY <1>1, <2>4, Names
    <3> QED
      BY <1>4, <2>4, <3>1
  <2> QED
    BY <1>7, <2>1, <2>2, <2>3, <2>4 DEF FileFrom
<1>8. ASSUME NEW n \in DOMAIN wt' \ {Temp(b)} PROVE wt'[n] # x
  <2>1. From(n)
    BY DEF FilesStep
  <2> QED
    BY <1>4, <1>7, <2>1 DEF From
<1>9. ASSUME NEW c \in Actors PROVE loc'[c].seen # x
  BY <1>4, <1>6 DEF FilesStep
<1> QED
  BY <1>4, <1>8, <1>9

LEMMA KeptKept ==
  ASSUME IndInv, FilesStep, BackupsKept, NEW b \in Actors, Writing(b), Writing(b)',
         loc'[b].seen = loc[b].seen, loc'[b].bak = loc[b].bak, loc'[b].swept = loc[b].swept
  PROVE  Kept(b)'
<1> DEFINE x == loc[b].seen
<1> SUFFICES ASSUME ~loc[b].swept, File \in DOMAIN wt', wt'[File] = x, ~KnownThen(x)
             PROVE  loc[b].bak \in Backups /\ loc[b].bak \in DOMAIN wt' /\ wt'[loc[b].bak] = x
  BY DEF Kept, Known, KnownThen
<1>1. ~Known(x)
  BY KnownKept DEF FilesStep
<1>2. x \in 0 .. version /\ version \in Nat
  BY DEF IndInv, LocalsOK, ContentsOK
<1>3. FileFrom(x)
  BY DEF FilesStep
<1>4. \A c \in Actors : pc[c] = "rename" /\ Temp(c) \in DOMAIN wt => x # wt[Temp(c)]
  BY <1>1 DEF IndInv, FileOK, Fresh
<1>5. File \in DOMAIN wt /\ wt[File] = x
  BY <1>2, <1>3, <1>4 DEF FileFrom
<1>6. loc[b].bak \in Backups /\ loc[b].bak \in DOMAIN wt /\ wt[loc[b].bak] = x
  BY <1>1, <1>5 DEF IndInv, FileOK, Kept
<1>7. BackupKept(loc[b].bak)
  BY <1>6 DEF BackupsKept
<1> QED
  BY <1>1, <1>5, <1>6, <1>7 DEF BackupKept

(* A run that takes no step keeps its part of the invariant.               *)
LEMMA OthersKept ==
  ASSUME IndInv, FilesStep, NEW b \in Actors, Undisturbed(b), version' \in Nat, version <= version'
  PROVE  LocalsOK(b)' /\ RestoreOK(b)' /\ FileOK(b)'
<1>0. LocalsOK(b) /\ RestoreOK(b) /\ FileOK(b) /\ version \in Nat
  BY DEF IndInv, ContentsOK
<1>1. pc'[b] = pc[b] /\ DOMAIN loc'[b] = Fields /\ TempKept(b)
  BY <1>0 DEF Undisturbed, LocalsOK
<1>2. /\ loc'[b].op = loc[b].op /\ loc'[b].seen = loc[b].seen /\ loc'[b].bak = loc[b].bak
      /\ loc'[b].tree = loc[b].tree /\ loc'[b].mark = loc[b].mark
      /\ loc'[b].at = loc[b].at /\ loc'[b].goal = loc[b].goal
  BY <1>0 DEF Undisturbed, LocalsOK, Fields
<1>3. LocalsOK(b)'
  <2>1. pc'[b] = "idle" => loc'[b] = Idle
    BY <1>0 DEF Undisturbed, LocalsOK, Writing
  <2> QED
    BY <1>0, <1>1, <1>2, <2>1 DEF LocalsOK, Written
<1>4. RestoreOK(b)'
  <2>1. \A i \in DOMAIN commits : i \in DOMAIN commits' /\ commits'[i] = commits[i]
    BY DEF FilesStep, Extends
  <2>2. /\ DOMAIN branches \subseteq DOMAIN branches' /\ DOMAIN tags \subseteq DOMAIN tags'
        /\ \A t \in DOMAIN tags : tags'[t] = tags[t]
    BY DEF FilesStep, Extends
  <2>3. /\ loc'[b].op = "restore" => HandMark(loc'[b].goal) \in DOMAIN tags'
        /\ pc'[b] \in {"add", "automark", "recheck", "recommit", "checkout"} => loc'[b].op = "restore"
        /\ pc'[b] = "insert" => loc'[b].mark \in DOMAIN tags' /\ tags'[loc'[b].mark] = loc'[b].at
        /\ pc'[b] = "sethead" => loc'[b].goal \in DOMAIN branches'
    BY <1>0, <1>1, <1>2, <2>2 DEF RestoreOK
  <2>4. pc'[b] \in {"recommit", "checkout"} =>
          \E i \in DOMAIN commits' : commits'[i].tree = loc'[b].tree
    BY <1>0, <1>1, <1>2, <2>1 DEF RestoreOK
  <2>5. HandMark(loc[b].goal)' = HandMark(loc'[b].goal)
    BY DEF HandMark
  <2> QED
    BY <2>3, <2>4, <2>5 DEF RestoreOK
<1>5. Kept(b)'
  <2>1. CASE ~Writing(b)
    BY <1>1, <2>1 DEF Kept, Writing
  <2>2. CASE Writing(b) /\ loc'[b] = loc[b] /\ BackupsKept
    <3>1. Writing(b)'
      BY <1>1, <2>2 DEF Writing
    <3> QED
      BY <2>2, <3>1, KeptKept
  <2>3. CASE loc'[b] = [loc[b] EXCEPT !.swept = TRUE]
    <3>1. loc'[b].swept
      BY <1>0, <2>3 DEF LocalsOK, Fields
    <3> QED
      BY <3>1 DEF Kept
  <2> QED
    BY <2>1, <2>2, <2>3 DEF Undisturbed
<1>6. Fresh(b)'
  <2>1. CASE pc[b] = "rename"
    BY <1>1, <2>1, FreshKept
  <2>2. CASE pc[b] # "rename"
    BY <1>1, <2>2 DEF Fresh
  <2> QED
    BY <2>1, <2>2
<1> QED
  BY <1>0, <1>1, <1>2, <1>3, <1>4, <1>5, <1>6 DEF FileOK

(* The user's file is whole after a step that writes as FilesStep says.    *)
LEMMA WholeKept ==
  ASSUME IndInv, FilesStep
  PROVE  FileWhole'
<1> SUFFICES ASSUME File \in DOMAIN wt', wt'[File] = Partial
             PROVE  KnownThen(Partial)
  BY DEF FileWhole, KnownThen
<1>1. FileFrom(Partial)
  BY DEF FilesStep
<1>2. Known(Partial) => KnownThen(Partial)
  BY KnownKept DEF FilesStep
<1>3. version \in Nat /\ ~(Partial > version)
  BY DEF IndInv, ContentsOK, Partial
<1>4. CASE File \in DOMAIN wt /\ Partial = wt[File]
  BY <1>2, <1>4 DEF IndInv, FileWhole, Known
<1>5. ASSUME NEW b \in Actors, pc[b] = "rename", Temp(b) \in DOMAIN wt, Partial = wt[Temp(b)]
      PROVE  KnownThen(Partial)
  BY <1>2, <1>5 DEF IndInv, FileOK, Fresh
<1> QED
  BY <1>1, <1>3, <1>4, <1>5 DEF FileFrom

(* The step of one run: what is left to show is its own part.              *)
LEMMA StepKept ==
  ASSUME IndInv, FilesStep, RefsOK', ContentsOK', MilestoneHasTag',
         DOMAIN pc' = Actors, DOMAIN loc' = Actors, version <= version',
         NEW a \in Actors, \A b \in Actors \ {a} : Undisturbed(b),
         LocalsOK(a)', RestoreOK(a)', FileOK(a)'
  PROVE  IndInv'
<1>1. FileWhole'
  BY WholeKept
<1>2. version' \in Nat
  BY DEF ContentsOK
<1>3. ASSUME NEW b \in Actors PROVE (LocalsOK(b) /\ RestoreOK(b) /\ FileOK(b))'
  <2>1. CASE b = a
    BY <2>1
  <2>2. CASE b # a
    BY <1>2, <2>2, OthersKept
  <2> QED
    BY <2>1, <2>2
<1> QED
  BY <1>1, <1>3 DEF IndInv

--------------------------------------------------------------------------------
(* The steps that write no file.                                           *)

LEMMA GoFacts ==
  ASSUME IndInv, NEW a \in Actors, NEW next, NEW l, Go(a, next, l)
  PROVE  /\ DOMAIN pc' = Actors /\ DOMAIN loc' = Actors
         /\ pc'[a] = next /\ loc'[a] = IF next = "idle" THEN Idle ELSE l
         /\ \A b \in Actors \ {a} : pc'[b] = pc[b] /\ loc'[b] = loc[b]
<1>1. DOMAIN pc = Actors /\ DOMAIN loc = Actors
  BY DEF IndInv
<1> QED
  BY <1>1 DEF Go

(* The locals of a run that executes nothing.                              *)
LEMMA IdleFields ==
  /\ DOMAIN Idle = Fields
  /\ Idle.op = "none" /\ Idle.seen = Partial /\ Idle.tree = <<>> /\ Idle.swept = FALSE
BY DEF Idle, Fields

LEMMA IdleOK ==
  ASSUME NEW a, pc'[a] = "idle", loc'[a] = Idle, version' \in Nat
  PROVE  LocalsOK(a)' /\ RestoreOK(a)' /\ FileOK(a)'
<1>1. LocalsOK(a)'
  <2>1. Idle.seen \in 0 .. version'
    BY IdleFields DEF Partial
  <2>2. \A n \in DOMAIN Idle.tree : Idle.tree[n] \in 0 .. version'
    BY IdleFields
  <2> QED
    BY <2>1, <2>2, IdleFields DEF LocalsOK, Written
<1>2. RestoreOK(a)'
  BY IdleFields DEF RestoreOK
<1>3. FileOK(a)'
  BY DEF FileOK, Kept, Fresh, Writing
<1> QED
  BY <1>1, <1>2, <1>3

(* A run that writes no file and has no backup to look after.              *)
LEMMA NoFile ==
  ASSUME NEW a, pc'[a] \notin {"copy", "create", "fill", "rename"}
  PROVE  FileOK(a)'
BY DEF FileOK, Kept, Fresh, Writing

(* What a run remembers of the user's file.                                *)
SeenFrom(a, s) == s \in {loc[a].seen, Partial} \/ (File \in DOMAIN wt /\ s = wt[File])

(* Without a write to a file the others are undisturbed.                   *)
LEMMA QuietKept ==
  ASSUME IndInv, NEW a \in Actors, NEW next, NEW l, Go(a, next, l),
         wt' = wt, version' = version, crashes' = crashes,
         Extends, RefsOK', MilestoneHasTag',
         \A c \in DOMAIN commits' : Written(commits'[c].tree, version),
         next # "idle" => /\ DOMAIN l = Fields /\ SeenFrom(a, l.seen)
                          /\ Written(l.tree, version)
                          /\ RestoreOK(a)' /\ FileOK(a)'
  PROVE  IndInv'
<1>1. /\ DOMAIN pc' = Actors /\ DOMAIN loc' = Actors
      /\ pc'[a] = next /\ loc'[a] = IF next = "idle" THEN Idle ELSE l
      /\ \A b \in Actors \ {a} : pc'[b] = pc[b] /\ loc'[b] = loc[b]
  BY GoFacts
<1>2. version \in Nat /\ ContentsOK /\ LocalsOK(a)
  BY DEF IndInv, ContentsOK
<1>3. ContentsOK'
  BY <1>2 DEF ContentsOK, Written
<1>4. SeenFrom(a, loc'[a].seen)
  BY <1>1, IdleFields DEF SeenFrom
<1>5. FilesStep
  <2>1. \A n \in DOMAIN wt' : From(n)
    BY DEF From
  <2>2. File \in DOMAIN wt' => FileFrom(wt'[File])
    BY DEF FileFrom
  <2>3. ASSUME NEW b \in Actors
        PROVE  \/ loc'[b].seen \in {loc[b].seen, Partial}
               \/ File \in DOMAIN wt /\ loc'[b].seen = wt[File]
    BY <1>1, <1>4 DEF SeenFrom
  <2> QED
    BY <2>1, <2>2, <2>3 DEF FilesStep
<1>6. ASSUME NEW b \in Actors \ {a} PROVE Undisturbed(b)
  <2>1. TempKept(b)
    <3>1. Temp(b)' = Temp(b)
      BY DEF Temp
    <3> QED
      BY <3>1 DEF TempKept
  <2>2. BackupsKept
    BY DEF BackupsKept, BackupKept
  <2> QED
    BY <1>1, <2>1, <2>2 DEF Undisturbed
<1>7. LocalsOK(a)' /\ RestoreOK(a)' /\ FileOK(a)'
  <2>1. CASE next = "idle"
    BY <1>1, <1>2, <2>1, IdleOK
  <2>2. CASE next # "idle"
    <3>1. loc'[a] = l
      BY <1>1, <2>2
    <3>2. l.seen \in 0 .. version
      BY <1>2, <2>2 DEF SeenFrom, LocalsOK, ContentsOK, Written, Partial
    <3> QED
      BY <1>1, <2>2, <3>1, <3>2 DEF LocalsOK
  <2> QED
    BY <2>1, <2>2
<1>8. version <= version'
  BY <1>2
<1> QED
  BY <1>1, <1>3, <1>5, <1>6, <1>7, <1>8, StepKept

(* The repository as it is.                                                *)
LEMMA SameRepo ==
  ASSUME IndInv, UNCHANGED <<commits, branches, head, tags>>
  PROVE  /\ Extends /\ RefsOK' /\ (rows' = rows => MilestoneHasTag')
         /\ \A c \in DOMAIN commits' : Written(commits'[c].tree, version)
<1>1. RefsOK /\ MilestoneHasTag /\ \A c \in DOMAIN commits : Written(commits[c].tree, version)
  BY DEF IndInv, ContentsOK
<1>2. RefsOK'
  <2>1. Grows
    BY <1>1 DEF Grows, RefsOK
  <2> QED
    BY <1>1, <2>1, GrowsRefs
<1> QED
  BY <1>1, <1>2 DEF Extends, MilestoneHasTag

(* The tools that write files: looking at the file, choosing a backup.     *)
LEMMA OpenKept ==
  ASSUME IndInv, NEW a \in Actors, OpenToWrite(a) \/ OpenToEdit(a) \/ EditFromScratch(a)
  PROVE  IndInv'
<1>1. PICK next, l :
         /\ Go(a, next, l)
         /\ \/ File \in DOMAIN wt /\ next = "backup" /\ l = [Idle EXCEPT !.seen = wt[File]]
            \/ File \notin DOMAIN wt /\ next = "create" /\ l = Idle
  BY Zenon DEF OpenToWrite, OpenToEdit, EditFromScratch
<1>2. UNCHANGED <<wt, repo, rows, version, crashes>>
  BY DEF OpenToWrite, OpenToEdit, EditFromScratch
<1>3. /\ Extends /\ RefsOK' /\ MilestoneHasTag'
      /\ \A c \in DOMAIN commits' : Written(commits'[c].tree, version)
  BY <1>2, SameRepo DEF repo
<1>4. DOMAIN l = Fields /\ l.op = "none" /\ SeenFrom(a, l.seen) /\ l.tree = <<>>
  BY <1>1, IdleFields DEF SeenFrom, Fields
<1>5. pc'[a] = next /\ loc'[a] = l /\ next \in {"backup", "create"}
  BY <1>1, GoFacts
<1>6. RestoreOK(a)'
  BY <1>4, <1>5 DEF RestoreOK
<1>7. FileOK(a)'
  <2>1. CASE next = "backup"
    BY <1>5, <2>1, NoFile
  <2>2. CASE next = "create"
    BY <1>1, <1>2, <1>5, <2>2 DEF FileOK, Kept, Fresh, Writing
  <2> QED
    BY <1>5, <2>1, <2>2
<1>8. Written(l.tree, version)
  BY <1>4 DEF Written
<1> QED
  BY <1>1, <1>2, <1>3, <1>4, <1>6, <1>7, <1>8, QuietKept

LEMMA ChooseKept ==
  ASSUME IndInv, NEW a \in Actors, ChooseBackup(a)
  PROVE  IndInv'
<1>1. PICK t \in 1 .. MaxSecond : Go(a, "copy", [loc[a] EXCEPT !.bak = backup_path_for(t)])
  BY DEF ChooseBackup
<1>2. UNCHANGED <<wt, repo, rows, version, crashes>> /\ pc[a] = "backup"
  BY DEF ChooseBackup
<1>3. /\ Extends /\ RefsOK' /\ MilestoneHasTag'
      /\ \A c \in DOMAIN commits' : Written(commits'[c].tree, version)
  BY <1>2, SameRepo DEF repo
<1>4. PICK l : l = [loc[a] EXCEPT !.bak = backup_path_for(t)]
  OBVIOUS
<1>5. LocalsOK(a) /\ RestoreOK(a)
  BY DEF IndInv
<1>6. /\ DOMAIN l = Fields /\ l.op = loc[a].op /\ l.goal = loc[a].goal
      /\ l.seen = loc[a].seen /\ l.tree = loc[a].tree /\ l.bak = backup_path_for(t)
  BY <1>4, <1>5 DEF LocalsOK, Fields
<1>7. pc'[a] = "copy" /\ loc'[a] = l
  BY <1>1, <1>4, GoFacts
<1>8. RestoreOK(a)'
  <2>1. HandMark(loc[a].goal)' = HandMark(l.goal) /\ HandMark(loc[a].goal) = HandMark(l.goal)
    BY <1>6, <1>7 DEF HandMark
  <2> QED
    BY <1>2, <1>5, <1>6, <1>7, <2>1 DEF RestoreOK, repo
<1>9. FileOK(a)'
  <2>1. backup_path_for(t) \in Backups
    <3>1. 0 \in Nat /\ t \in Nat
      BY WorkspaceAssumption
    <3> QED
      BY <3>1 DEF backup_path_for, Backups
  <2> QED
    BY <1>6, <1>7, <2>1 DEF FileOK, Kept, Fresh, Writing
<1>10. SeenFrom(a, l.seen) /\ Written(l.tree, version)
  BY <1>5, <1>6 DEF SeenFrom, LocalsOK
<1> QED
  BY <1>1, <1>2, <1>3, <1>4, <1>6, <1>8, <1>9, <1>10, QuietKept

(* The first step of a restoration, and its look at the workspace.         *)
LEMMA StartRestoreKept ==
  ASSUME IndInv, NEW a \in Actors, NEW m \in Marks, StartRestore(a, m)
  PROVE  IndInv'
<1>1. PICK next, l : /\ Go(a, next, l) /\ next \in {"recheck", "add"}
                     /\ l = [Idle EXCEPT !.op = "restore", !.goal = m]
  BY Zenon DEF StartRestore
<1>2. UNCHANGED <<wt, repo, rows, version, crashes>> /\ HandMark(m) \in DOMAIN rows
  BY DEF StartRestore
<1>3. /\ Extends /\ RefsOK' /\ MilestoneHasTag'
      /\ \A c \in DOMAIN commits' : Written(commits'[c].tree, version)
  BY <1>2, SameRepo DEF repo
<1>4. /\ DOMAIN l = Fields /\ l.op = "restore" /\ l.goal = m
      /\ l.seen = Partial /\ l.tree = <<>>
  BY <1>1, IdleFields DEF Fields
<1>5. pc'[a] = next /\ loc'[a] = l
  BY <1>1, GoFacts
<1>6. RestoreOK(a)'
  <2>1. HandMark(loc[a].goal)' = HandMark(m)
    BY <1>4, <1>5 DEF HandMark
  <2>2. HandMark(m) \in DOMAIN tags'
    BY <1>2 DEF IndInv, MilestoneHasTag, repo
  <2> QED
    BY <1>1, <1>4, <1>5, <2>1, <2>2 DEF RestoreOK
<1>7. FileOK(a)'
  BY <1>1, <1>5, NoFile
<1>8. SeenFrom(a, l.seen) /\ Written(l.tree, version)
  BY <1>4 DEF SeenFrom, Written
<1> QED
  BY <1>1, <1>2, <1>3, <1>4, <1>6, <1>7, <1>8, QuietKept

LEMMA RecheckKept ==
  ASSUME IndInv, NEW a \in Actors, Recheck(a)
  PROVE  IndInv'
<1>1. PICK next, l : /\ Go(a, next, l) /\ next \in {"recommit", "idle"}
                     /\ next # "idle" => l = [loc[a] EXCEPT !.tree = wt] /\ wt = HeadTree
  BY Zenon DEF Recheck, Clean, Stop
<1>2. UNCHANGED <<wt, repo, rows, version, crashes>> /\ pc[a] = "recheck"
  BY DEF Recheck
<1>3. /\ Extends /\ RefsOK' /\ MilestoneHasTag'
      /\ \A c \in DOMAIN commits' : Written(commits'[c].tree, version)
  BY <1>2, SameRepo DEF repo
<1>4. LocalsOK(a) /\ RestoreOK(a)
  BY DEF IndInv
<1>5. ASSUME next # "idle"
      PROVE  /\ DOMAIN l = Fields /\ SeenFrom(a, l.seen) /\ Written(l.tree, version)
             /\ RestoreOK(a)' /\ FileOK(a)'
  <2>1. /\ DOMAIN l = Fields /\ l.op = loc[a].op /\ l.goal = loc[a].goal
        /\ l.seen = loc[a].seen /\ l.tree = wt
    BY <1>1, <1>4, <1>5 DEF LocalsOK, Fields
  <2>2. pc'[a] = "recommit" /\ loc'[a] = l
    BY <1>1, <1>5, GoFacts
  <2>3. SeenFrom(a, l.seen) /\ Written(l.tree, version)
    BY <2>1 DEF SeenFrom, IndInv, ContentsOK
  <2>4. RestoreOK(a)'
    <3>1. HandMark(loc[a].goal)' = HandMark(l.goal) /\ HandMark(loc[a].goal) = HandMark(l.goal)
      BY <2>1, <2>2 DEF HandMark
    <3>2. branches[head] \in DOMAIN commits /\ commits[branches[head]].tree = l.tree
      BY <1>1, <1>5, <2>1 DEF IndInv, RefsOK, HeadTree
    <3> QED
      BY <1>2, <1>4, <2>1, <2>2, <3>1, <3>2 DEF RestoreOK, repo
  <2>5. FileOK(a)'
    BY <2>2, NoFile
  <2> QED
    BY <2>1, <2>3, <2>4, <2>5
<1> QED
  BY <1>1, <1>2, <1>3, <1>5, QuietKept

(* The steps that change the repository.                                   *)
LEMMA AddAllKept ==
  ASSUME IndInv, NEW a \in Actors, AddAll(a), UNCHANGED <<wt, rows, version, crashes>>
  PROVE  IndInv'
<1>1. Go(a, "commit", [loc[a] EXCEPT !.tree = wt]) /\ UNCHANGED <<commits, branches, head, tags>>
  BY DEF AddAll
<1>2. /\ Extends /\ RefsOK' /\ MilestoneHasTag'
      /\ \A c \in DOMAIN commits' : Written(commits'[c].tree, version)
  BY <1>1, SameRepo
<1>3. PICK l : l = [loc[a] EXCEPT !.tree = wt]
  OBVIOUS
<1>4. LocalsOK(a) /\ RestoreOK(a)
  BY DEF IndInv
<1>5. /\ DOMAIN l = Fields /\ l.op = loc[a].op /\ l.goal = loc[a].goal
      /\ l.seen = loc[a].seen /\ l.tree = wt
  BY <1>3, <1>4 DEF LocalsOK, Fields
<1>6. pc'[a] = "commit" /\ loc'[a] = l
  BY <1>1, <1>3, GoFacts
<1>7. RestoreOK(a)'
  <2>1. HandMark(loc[a].goal)' = HandMark(l.goal) /\ HandMark(loc[a].goal) = HandMark(l.goal)
    BY <1>5, <1>6 DEF HandMark
  <2> QED
    BY <1>1, <1>4, <1>5, <1>6, <2>1 DEF RestoreOK
<1>8. FileOK(a)'
  BY <1>6, NoFile
<1>9. SeenFrom(a, l.seen) /\ Written(l.tree, version)
  BY <1>5 DEF SeenFrom, IndInv, ContentsOK
<1> QED
  BY <1>1, <1>2, <1>3, <1>5, <1>7, <1>8, <1>9, QuietKept

(* A commit on top of HEAD, and the restoration that goes on after it.     *)
LEMMA CommittedKept ==
  ASSUME IndInv, NEW a \in Actors, NEW next, NEW l, Go(a, next, l),
         NEW tree, Written(tree, version), Committed(tree, branches[head]),
         UNCHANGED <<wt, rows, version, crashes>>,
         (next \in {"automark", "checkout"} /\ l = loc[a] /\ loc[a].op = "restore") \/ next = "idle",
         next = "checkout" => pc[a] = "recommit"
  PROVE  IndInv'
<1>1. RefsOK /\ ContentsOK /\ LocalsOK(a) /\ RestoreOK(a) /\ MilestoneHasTag
  BY DEF IndInv
<1>2. /\ RefsOK' /\ DOMAIN commits \subseteq DOMAIN commits'
      /\ \A c \in DOMAIN commits : commits'[c] = commits[c]
      /\ \A c \in DOMAIN commits' \ DOMAIN commits : commits'[c].tree = tree
      /\ DOMAIN branches' = DOMAIN branches /\ tags' = tags
  BY <1>1, CommittedRefs
<1>3. Extends /\ MilestoneHasTag'
  BY <1>1, <1>2 DEF Extends, MilestoneHasTag
<1>4. ASSUME NEW c \in DOMAIN commits' PROVE Written(commits'[c].tree, version)
  <2>1. CASE c \in DOMAIN commits
    BY <1>1, <1>2, <2>1 DEF ContentsOK
  <2>2. CASE c \notin DOMAIN commits
    BY <1>2, <2>2
  <2> QED
    BY <2>1, <2>2
<1>5. ASSUME next # "idle"
      PROVE  /\ DOMAIN l = Fields /\ SeenFrom(a, l.seen) /\ Written(l.tree, version)
             /\ RestoreOK(a)' /\ FileOK(a)'
  <2>1. l = loc[a] /\ loc[a].op = "restore" /\ next \in {"automark", "checkout"}
    BY <1>5
  <2>2. pc'[a] = next /\ loc'[a] = loc[a]
    BY <1>5, <2>1, GoFacts
  <2>3. RestoreOK(a)'
    <3>1. HandMark(loc[a].goal)' = HandMark(loc[a].goal)
      BY <2>2 DEF HandMark
    <3>2. ASSUME next = "checkout" PROVE \E i \in DOMAIN commits' : commits'[i].tree = loc[a].tree
      BY <1>1, <1>2, <3>2 DEF RestoreOK
    <3> QED
      BY <1>1, <1>2, <2>1, <2>2, <3>1, <3>2 DEF RestoreOK
  <2>4. FileOK(a)'
    BY <2>1, <2>2, NoFile
  <2> QED
    BY <1>1, <2>1, <2>3, <2>4 DEF SeenFrom, LocalsOK
<1> QED
  BY <1>2, <1>3, <1>4, <1>5, QuietKept

(* A step that gives up changes nothing.                                   *)
LEMMA StopKept ==
  ASSUME IndInv, NEW a \in Actors, Stop(a), UNCHANGED <<commits, branches, head, tags>>,
         UNCHANGED <<wt, rows, version, crashes>>
  PROVE  IndInv'
<1>1. Go(a, "idle", Idle)
  BY DEF Stop
<1> QED
  BY <1>1, SameRepo, QuietKept

LEMMA CommitTreeKept ==
  ASSUME IndInv, NEW a \in Actors, CommitTree(a)
  PROVE  IndInv'
<1>1. UNCHANGED <<wt, rows, version, crashes>>
  BY DEF CommitTree
<1>2. CASE /\ Committed(loc[a].tree, branches[head])
           /\ IF loc[a].op = "restore" THEN Go(a, "automark", loc[a]) ELSE Stop(a)
  <2>1. Written(loc[a].tree, version)
    BY DEF IndInv, LocalsOK
  <2>2. PICK next, l : /\ Go(a, next, l)
                       /\ (next = "automark" /\ l = loc[a] /\ loc[a].op = "restore") \/ next = "idle"
    BY <1>2, Zenon DEF Stop
  <2> QED
    BY <1>1, <1>2, <2>1, <2>2, CommittedKept
<1>3. CASE UNCHANGED repo /\ Stop(a)
  BY <1>1, <1>3, StopKept DEF repo
<1> QED
  BY <1>2, <1>3 DEF CommitTree

LEMMA RecommitKept ==
  ASSUME IndInv, NEW a \in Actors, Recommit(a)
  PROVE  IndInv'
<1>1. UNCHANGED <<wt, rows, version, crashes>> /\ pc[a] = "recommit"
  BY DEF Recommit
<1>2. CASE /\ Committed(MarkTree(loc[a].goal), branches[head])
           /\ Go(a, "checkout", loc[a])
  <2>1. loc[a].op = "restore" /\ HandMark(loc[a].goal) \in DOMAIN tags
    BY <1>1 DEF IndInv, RestoreOK
  <2>2. Written(MarkTree(loc[a].goal), version)
    BY <2>1 DEF IndInv, RefsOK, ContentsOK, MarkTree
  <2> QED
    BY <1>1, <1>2, <2>1, <2>2, CommittedKept
<1>3. CASE UNCHANGED repo /\ Stop(a)
  BY <1>1, <1>3, StopKept DEF repo
<1> QED
  BY <1>2, <1>3 DEF Recommit

LEMMA CreateBranchKept ==
  ASSUME IndInv, NEW a \in Actors, NEW b, CreateBranch(a, b)
  PROVE  IndInv'
<1>1. PICK next, l : /\ Go(a, next, l) /\ next \in {"switch", "idle"}
                     /\ l = [Idle EXCEPT !.goal = b]
  BY Zenon DEF CreateBranch
<1>2. /\ UNCHANGED <<wt, commits, head, tags, rows, version, crashes>>
      /\ branches' = Put(branches, b, branches[head]) /\ b \notin DOMAIN branches
  BY DEF CreateBranch
<1>3. RefsOK /\ ContentsOK /\ MilestoneHasTag
  BY DEF IndInv
<1>4. /\ DOMAIN branches' = DOMAIN branches \union {b} /\ branches'[b] = branches[head]
      /\ \A x \in DOMAIN branches : branches'[x] = branches[x]
  BY <1>2 DEF Put
<1>5. Grows
  BY <1>2, <1>3, <1>4 DEF Grows, RefsOK
<1>6. Extends /\ RefsOK' /\ MilestoneHasTag'
  BY <1>2, <1>3, <1>5, GrowsRefs DEF Extends, Grows, MilestoneHasTag
<1>7. \A c \in DOMAIN commits' : Written(commits'[c].tree, version)
  BY <1>2, <1>3 DEF ContentsOK
<1>8. ASSUME next # "idle"
      PROVE  /\ DOMAIN l = Fields /\ SeenFrom(a, l.seen) /\ Written(l.tree, version)
             /\ RestoreOK(a)' /\ FileOK(a)'
  <2>1. DOMAIN l = Fields /\ l.op = "none" /\ l.seen = Partial /\ l.tree = <<>>
    BY <1>1, IdleFields DEF Fields
  <2>2. pc'[a] = "switch" /\ loc'[a] = l
    BY <1>1, <1>8, GoFacts
  <2> QED
    BY <2>1, <2>2, NoFile DEF RestoreOK, SeenFrom, Written
<1> QED
  BY <1>1, <1>2, <1>6, <1>7, <1>8, QuietKept

LEMMA SetHeadKept ==
  ASSUME IndInv, NEW a \in Actors, SetHead(a)
  PROVE  IndInv'
<1>1. /\ UNCHANGED <<wt, commits, branches, tags, rows, version, crashes>>
      /\ head' = loc[a].goal /\ Go(a, "idle", Idle) /\ pc[a] = "sethead"
  BY DEF SetHead, Stop
<1>2. RefsOK /\ ContentsOK /\ MilestoneHasTag /\ RestoreOK(a)
  BY DEF IndInv
<1>3. head' \in DOMAIN branches
  BY <1>1, <1>2 DEF RestoreOK
<1>4. Reachable' = Reachable
  BY <1>1 DEF Reachable, IsHistory
<1>5. RefsOK'
  BY <1>1, <1>2, <1>3, <1>4 DEF RefsOK
<1>6. Extends /\ MilestoneHasTag' /\ \A c \in DOMAIN commits' : Written(commits'[c].tree, version)
  BY <1>1, <1>2 DEF Extends, MilestoneHasTag, ContentsOK
<1> QED
  BY <1>1, <1>5, <1>6, QuietKept

(* A milestone's tag, on the commit HEAD's branch names.                   *)
LEMMA CreateTagKept ==
  ASSUME IndInv, NEW a \in Actors, NEW mark, NEW l, CreateTag(a, mark, l),
         UNCHANGED <<wt, commits, branches, head, rows, version, crashes>>,
         DOMAIN l = Fields, l.seen = Partial \/ l.seen = loc[a].seen,
         Written(l.tree, version),
         l.op = "restore" => HandMark(l.goal) \in DOMAIN tags
  PROVE  IndInv'
<1>1. CASE Stop(a) /\ UNCHANGED tags
  BY <1>1, StopKept
<1>2. CASE /\ mark \notin DOMAIN tags
           /\ tags' = Put(tags, mark, branches[head])
           /\ Go(a, "insert", [l EXCEPT !.mark = mark, !.at = branches[head]])
  <2>1. RefsOK /\ ContentsOK /\ MilestoneHasTag
    BY DEF IndInv
  <2>2. /\ DOMAIN tags' = DOMAIN tags \union {mark} /\ tags'[mark] = branches[head]
        /\ \A t \in DOMAIN tags : tags'[t] = tags[t]
    BY <1>2 DEF Put
  <2>3. Grows
    BY <2>1, <2>2 DEF Grows, RefsOK
  <2>4. Extends /\ RefsOK' /\ MilestoneHasTag'
    BY <2>1, <2>3, GrowsRefs DEF Extends, Grows, MilestoneHasTag
  <2>5. \A c \in DOMAIN commits' : Written(commits'[c].tree, version)
    BY <2>1 DEF ContentsOK
  <2>6. PICK k : k = [l EXCEPT !.mark = mark, !.at = branches[head]]
    OBVIOUS
  <2>7. /\ DOMAIN k = Fields /\ k.op = l.op /\ k.goal = l.goal /\ k.seen = l.seen
        /\ k.tree = l.tree /\ k.mark = mark /\ k.at = branches[head]
    BY <2>6 DEF Fields
  <2>8. pc'[a] = "insert" /\ loc'[a] = k
    BY <1>2, <2>6, GoFacts
  <2>9. RestoreOK(a)'
    <3>1. HandMark(loc[a].goal)' = HandMark(l.goal)
      BY <2>7, <2>8 DEF HandMark
    <3> QED
      BY <2>2, <2>7, <2>8, <3>1 DEF RestoreOK
  <2>10. FileOK(a)' /\ SeenFrom(a, k.seen) /\ Written(k.tree, version)
    BY <2>7, <2>8, NoFile DEF SeenFrom
  <2> QED
    BY <1>2, <2>4, <2>5, <2>6, <2>7, <2>9, <2>10, QuietKept
<1> QED
  BY <1>1, <1>2 DEF CreateTag

LEMMA CreateMarkKept ==
  ASSUME IndInv, NEW a \in Actors, NEW m \in Marks, CreateMark(a, m)
  PROVE  IndInv'
<1>1. CreateTag(a, HandMark(m), Idle)
      /\ UNCHANGED <<wt, commits, branches, head, rows, version, crashes>>
  BY DEF CreateMark
<1>2. Written(Idle.tree, version)
  BY IdleFields DEF Written
<1> QED
  BY <1>1, <1>2, IdleFields, CreateTagKept

LEMMA MarkBeforeRestoreKept ==
  ASSUME IndInv, NEW a \in Actors, MarkBeforeRestore(a)
  PROVE  IndInv'
<1>1. PICK t : CreateTag(a, AutoMark(loc[a].goal, t), loc[a])
  BY DEF MarkBeforeRestore
<1>2. UNCHANGED <<wt, commits, branches, head, rows, version, crashes>>
  BY DEF MarkBeforeRestore
<1>3. LocalsOK(a) /\ RestoreOK(a)
  BY DEF IndInv
<1> QED
  BY <1>1, <1>2, <1>3, CreateTagKept DEF LocalsOK, RestoreOK

LEMMA InsertRowKept ==
  ASSUME IndInv, NEW a \in Actors, InsertRow(a)
  PROVE  IndInv'
<1>1. UNCHANGED <<wt, repo, version, crashes>> /\ pc[a] = "insert"
  BY DEF InsertRow
<1>2. CASE UNCHANGED rows /\ Stop(a)
  BY <1>1, <1>2, StopKept DEF repo
<1>3. CASE /\ rows' = Put(rows, loc[a].mark, loc[a].at)
           /\ IF loc[a].op = "restore" THEN Go(a, "recheck", loc[a]) ELSE Stop(a)
  <2>1. LocalsOK(a) /\ RestoreOK(a) /\ MilestoneHasTag
    BY DEF IndInv
  <2>2. /\ Extends /\ RefsOK'
        /\ \A c \in DOMAIN commits' : Written(commits'[c].tree, version)
    BY <1>1, SameRepo DEF repo
  <2>3. MilestoneHasTag'
    <3>1. /\ DOMAIN rows' = DOMAIN rows \union {loc[a].mark} /\ rows'[loc[a].mark] = loc[a].at
          /\ \A x \in DOMAIN rows \ {loc[a].mark} : rows'[x] = rows[x]
      BY <1>3 DEF Put
    <3>2. loc[a].mark \in DOMAIN tags /\ tags[loc[a].mark] = loc[a].at
      BY <1>1, <2>1 DEF RestoreOK
    <3> QED
      BY <1>1, <2>1, <3>1, <3>2 DEF MilestoneHasTag, repo
  <2>4. PICK next, l : /\ Go(a, next, l)
                       /\ (next = "recheck" /\ l = loc[a] /\ loc[a].op = "restore") \/ next = "idle"
    BY <1>3, Zenon DEF Stop
  <2>5. ASSUME next # "idle"
        PROVE  /\ DOMAIN l = Fields /\ SeenFrom(a, l.seen) /\ Written(l.tree, version)
               /\ RestoreOK(a)' /\ FileOK(a)'
    <3>1. pc'[a] = "recheck" /\ loc'[a] = loc[a] /\ l = loc[a] /\ loc[a].op = "restore"
      BY <2>4, <2>5, GoFacts
    <3>2. RestoreOK(a)'
      <4>1. HandMark(loc[a].goal)' = HandMark(loc[a].goal)
        BY <3>1 DEF HandMark
      <4> QED
        BY <1>1, <2>1, <3>1, <4>1 DEF RestoreOK, repo
    <3> QED
      BY <2>1, <3>1, <3>2, NoFile DEF SeenFrom, LocalsOK
  <2> QED
    BY <1>1, <2>2, <2>3, <2>4, <2>5, QuietKept
<1> QED
  BY <1>2, <1>3 DEF InsertRow

--------------------------------------------------------------------------------
(* The steps that write files.                                             *)

LEMMA FilesKept ==
  ASSUME IndInv, NEW a \in Actors, NEW next, NEW l, Go(a, next, l), FilesStep, BackupsKept,
         UNCHANGED <<commits, branches, head, tags, rows>>,
         version' \in Nat, version <= version',
         \A n \in DOMAIN wt' : wt'[n] \in 0 .. version',
         \A b \in Actors \ {a} : TempKept(b),
         next # "idle" => /\ DOMAIN l = Fields /\ l.seen \in {loc[a].seen, Partial}
                          /\ l.tree \in {loc[a].tree, <<>>}
                          /\ RestoreOK(a)' /\ FileOK(a)'
  PROVE  IndInv'
<1>1. /\ DOMAIN pc' = Actors /\ DOMAIN loc' = Actors
      /\ pc'[a] = next /\ loc'[a] = IF next = "idle" THEN Idle ELSE l
      /\ \A b \in Actors \ {a} : pc'[b] = pc[b] /\ loc'[b] = loc[b]
  BY GoFacts
<1>2. RefsOK' /\ MilestoneHasTag'
  BY SameRepo
<1>3. ContentsOK /\ LocalsOK(a)
  BY DEF IndInv
<1>4. ContentsOK'
  <2>1. crashes' = crashes
    BY DEF FilesStep
  <2>2. version' # 0
    BY <1>3 DEF ContentsOK
  <2> QED
    BY <1>3, <2>1, <2>2 DEF ContentsOK, Written
<1>5. \A b \in Actors \ {a} : Undisturbed(b)
  BY <1>1 DEF Undisturbed
<1>6. LocalsOK(a)' /\ RestoreOK(a)' /\ FileOK(a)'
  <2>1. CASE next = "idle"
    BY <1>1, <2>1, IdleOK
  <2>2. CASE next # "idle"
    <3>1. loc'[a] = l
      BY <1>1, <2>2
    <3>2. l.seen \in 0 .. version'
      BY <1>3, <2>2 DEF LocalsOK, ContentsOK, Partial
    <3>3. \A n \in DOMAIN l.tree : l.tree[n] \in 0 .. version'
      BY <1>3, <2>2 DEF LocalsOK, ContentsOK, Written
    <3> QED
      BY <1>1, <2>2, <3>1, <3>2, <3>3 DEF LocalsOK, Written
  <2> QED
    BY <2>1, <2>2
<1> QED
  BY <1>1, <1>2, <1>4, <1>5, <1>6, StepKept

(* The locals of a file tool that goes on.                                 *)
LEMMA WriterGoesOn ==
  ASSUME IndInv, NEW a \in Actors, pc'[a] \in {"create", "fill", "rename"}, loc'[a] = loc[a],
         UNCHANGED tags
  PROVE  DOMAIN loc[a] = Fields /\ RestoreOK(a)'
<1>1. LocalsOK(a) /\ RestoreOK(a)
  BY DEF IndInv
<1>2. HandMark(loc[a].goal)' = HandMark(loc[a].goal)
  BY DEF HandMark
<1> QED
  BY <1>1, <1>2 DEF LocalsOK, RestoreOK

LEMMA CopyBackupKept ==
  ASSUME IndInv, NEW a \in Actors, CopyBackup(a)
  PROVE  IndInv'
<1>1. UNCHANGED <<repo, rows, version, crashes>> /\ pc[a] = "copy"
  BY DEF CopyBackup
<1>2. CASE UNCHANGED wt /\ Stop(a)
  BY <1>1, <1>2, StopKept DEF repo
<1>3. CASE /\ File \in DOMAIN wt
           /\ wt' = Put(wt, loc[a].bak, wt[File])
           /\ Go(a, "create", loc[a])
  <2>1. ContentsOK /\ loc[a].bak \in Backups /\ crashes \in Nat
    BY <1>1 DEF IndInv, FileOK, ContentsOK
  <2>2. PICK n : n = loc[a].bak
    OBVIOUS
  <2>3. /\ DOMAIN wt' = DOMAIN wt \union {n} /\ wt'[n] = wt[File]
        /\ \A x \in DOMAIN wt \ {n} : wt'[x] = wt[x]
    BY <1>3, <2>2 DEF Put
  <2>4. n # File /\ n \in Backups /\ \A b \in Actors : Temp(b) # n
    BY <2>1, <2>2, Names
  <2>5. wt'[File] = wt[File]
    BY <1>3, <2>3, <2>4
  <2>6. pc'[a] = "create" /\ loc'[a] = loc[a] /\ \A b \in Actors : loc'[b] = loc[b]
    BY <1>3, GoFacts
  <2>7. FilesStep
    <3>1. \A x \in DOMAIN wt' : From(x)
      BY <1>3, <2>3 DEF From, FileFrom
    <3>2. Extends
      BY <1>1, SameRepo DEF repo
    <3> QED
      BY <1>1, <1>3, <2>5, <2>6, <3>1, <3>2 DEF FilesStep, FileFrom
  <2>8. BackupsKept
    BY <1>3, <2>3, <2>4, <2>5 DEF BackupsKept, BackupKept
  <2>9. ASSUME NEW b \in Actors PROVE TempKept(b)
    BY <2>3, <2>4 DEF TempKept
  <2>10. \A x \in DOMAIN wt' : wt'[x] \in 0 .. version'
    BY <1>1, <1>3, <2>1, <2>3 DEF ContentsOK, Written
  <2>11. FileOK(a)'
    <3>1. Kept(a)'
      BY <1>3, <2>2, <2>3, <2>4, <2>5, <2>6 DEF Kept
    <3> QED
      BY <2>6, <3>1 DEF FileOK, Fresh
  <2>12. DOMAIN loc[a] = Fields /\ RestoreOK(a)'
    BY <1>1, <2>6, WriterGoesOn DEF repo
  <2>13. version' \in Nat /\ version <= version'
    BY <1>1, <2>1 DEF ContentsOK
  <2> QED
    BY <1>1, <1>3, <2>7, <2>8, <2>9, <2>10, <2>11, <2>12, <2>13, FilesKept DEF repo
<1> QED
  BY <1>2, <1>3 DEF CopyBackup

(* A temporary is made or filled.                                          *)
LEMMA WriteTempKept ==
  ASSUME IndInv, NEW a \in Actors, Writing(a),
         NEW c, wt' = Put(wt, Temp(a), c), UNCHANGED <<repo, rows, crashes>>,
         \/ Go(a, "fill", loc[a]) /\ c = Partial /\ version' = version
         \/ Go(a, "rename", loc[a]) /\ c = version' /\ version' = version + 1
  PROVE  IndInv'
<1>0. PICK next : /\ Go(a, next, loc[a])
                  /\ \/ next = "fill" /\ c = Partial /\ version' = version
                     \/ next = "rename" /\ c = version' /\ version' = version + 1
  OBVIOUS
<1>1. ContentsOK /\ crashes \in Nat /\ version \in Nat
  BY DEF IndInv, ContentsOK
<1>2. PICK n : n = Temp(a)
  OBVIOUS
<1>3. /\ DOMAIN wt' = DOMAIN wt \union {n} /\ wt'[n] = c
      /\ \A x \in DOMAIN wt \ {n} : wt'[x] = wt[x]
  BY <1>2 DEF Put
<1>4. n # File /\ n \notin Backups /\ \A b \in Actors \ {a} : Temp(b) # n
  BY <1>1, <1>2, Names
<1>5. pc'[a] = next /\ loc'[a] = loc[a] /\ \A b \in Actors : loc'[b] = loc[b]
  BY <1>0, GoFacts
<1>6. c = Partial \/ c > version
  BY <1>0, <1>1
<1>7. FilesStep
  <2>1. \A x \in DOMAIN wt' : From(x)
    BY <1>3, <1>6 DEF From, FileFrom
  <2>2. Extends
    BY SameRepo DEF repo
  <2>3. File \in DOMAIN wt' => FileFrom(wt'[File])
    BY <1>3, <1>4 DEF FileFrom
  <2> QED
    BY <1>5, <2>1, <2>2, <2>3 DEF FilesStep
<1>8. BackupsKept
  BY <1>3, <1>4 DEF BackupsKept, BackupKept
<1>9. ASSUME NEW b \in Actors \ {a} PROVE TempKept(b)
  BY <1>3, <1>4 DEF TempKept
<1>10. version' \in Nat /\ version <= version' /\ c \in 0 .. version'
  BY <1>0, <1>1 DEF Partial
<1>11. \A x \in DOMAIN wt' : wt'[x] \in 0 .. version'
  BY <1>1, <1>3, <1>10 DEF ContentsOK, Written
<1>12. FileOK(a)'
  <2>1. Kept(a)'
    <3>1. Writing(a)'
      BY <1>0, <1>5 DEF Writing
    <3> QED
      BY <1>5, <1>7, <1>8, <3>1, KeptKept
  <2>2. Fresh(a)'
    <3>1. CASE next = "fill"
      BY <1>5, <3>1 DEF Fresh
    <3>2. CASE c = version' /\ version' = version + 1
      <4>1. Temp(a)' = n
        BY <1>2 DEF Temp
      <4>2. \A x \in DOMAIN wt' \ {n} : wt'[x] # c
        BY <1>1, <1>3, <3>2 DEF ContentsOK, Written
      <4>3. \A b \in Actors : loc'[b].seen # c
        BY <1>1, <1>5, <3>2 DEF IndInv, LocalsOK
      <4> QED
        BY <1>1, <1>3, <3>2, <4>1, <4>2, <4>3 DEF Fresh, Partial
    <3> QED
      BY <1>0, <3>1, <3>2
  <2> QED
    BY <1>0, <1>5, <2>1, <2>2 DEF FileOK
<1>13. DOMAIN loc[a] = Fields /\ RestoreOK(a)'
  BY <1>0, <1>5, WriterGoesOn DEF repo
<1> QED
  BY <1>0, <1>7, <1>8, <1>9, <1>10, <1>11, <1>12, <1>13, FilesKept DEF repo

(* A temporary is given up, or renamed.                                    *)
LEMMA EndTempKept ==
  ASSUME IndInv, NEW a \in Actors, Stop(a), UNCHANGED <<repo, rows, version, crashes>>,
         \/ wt' = Without(wt, Temp(a))
         \/ /\ pc[a] = "rename" /\ Temp(a) \in DOMAIN wt
            /\ wt' = Put(Without(wt, Temp(a)), File, wt[Temp(a)])
  PROVE  IndInv'
<1>1. ContentsOK /\ crashes \in Nat /\ version \in Nat
  BY DEF IndInv, ContentsOK
<1>2. PICK n : n = Temp(a)
  OBVIOUS
<1>3. n # File /\ n \notin Backups /\ File \notin Backups /\ \A b \in Actors \ {a} : Temp(b) # n /\ Temp(b) # File
  BY <1>1, <1>2, Names
<1>4. /\ \A x \in DOMAIN wt' \ {File} : x \in DOMAIN wt /\ wt'[x] = wt[x]
      /\ \A x \in DOMAIN wt \ {n, File} : x \in DOMAIN wt' /\ wt'[x] = wt[x]
      /\ File \in DOMAIN wt' =>
            \/ File \in DOMAIN wt /\ wt'[File] = wt[File]
            \/ pc[a] = "rename" /\ n \in DOMAIN wt /\ wt'[File] = wt[n]
  BY <1>2, <1>3 DEF Put, Without, Restrict
<1>5. /\ Go(a, "idle", Idle) /\ pc'[a] = "idle" /\ loc'[a] = Idle
      /\ \A b \in Actors \ {a} : loc'[b] = loc[b]
  BY GoFacts DEF Stop
<1>6. FilesStep
  <2>1. File \in DOMAIN wt' => FileFrom(wt'[File])
    BY <1>2, <1>4, <1>5 DEF FileFrom
  <2>2. \A x \in DOMAIN wt' : From(x)
    BY <1>4, <2>1 DEF From
  <2>3. Extends
    BY SameRepo DEF repo
  <2> QED
    BY <1>5, <2>1, <2>2, <2>3, IdleFields DEF FilesStep
<1>7. BackupsKept
  BY <1>3, <1>4 DEF BackupsKept, BackupKept
<1>8. ASSUME NEW b \in Actors \ {a} PROVE TempKept(b)
  BY <1>3, <1>4 DEF TempKept
<1>9. \A x \in DOMAIN wt' : wt'[x] \in 0 .. version'
  BY <1>1, <1>4 DEF ContentsOK, Written
<1>10. version' \in Nat /\ version <= version'
  BY <1>1
<1> QED
  BY <1>5, <1>6, <1>7, <1>8, <1>9, <1>10, FilesKept DEF repo

LEMMA TempsKept ==
  ASSUME IndInv, NEW a \in Actors, CreateTemp(a) \/ FillTemp(a) \/ RenameTemp(a)
  PROVE  IndInv'
<1>1. CASE CreateTemp(a)
  <2>1. UNCHANGED <<repo, rows, version, crashes>> /\ Writing(a)
    BY <1>1 DEF CreateTemp, Writing
  <2>2. CASE wt' = Put(wt, Temp(a), Partial) /\ Go(a, "fill", loc[a])
    <3>1. UNCHANGED <<repo, rows, crashes>> /\ version' = version /\ Writing(a)
      BY <2>1
    <3>2. PICK c : c = Partial
      OBVIOUS
    <3>3. wt' = Put(wt, Temp(a), c)
      BY <2>2, <3>2
    <3> QED
      BY <2>2, <3>1, <3>2, <3>3, WriteTempKept
  <2>3. CASE UNCHANGED wt /\ Stop(a)
    BY <2>1, <2>3, StopKept DEF repo
  <2> QED
    BY <1>1, <2>2, <2>3 DEF CreateTemp
<1>2. CASE FillTemp(a)
  <2>1. UNCHANGED <<repo, rows, crashes>> /\ Writing(a)
    BY <1>2 DEF FillTemp, Writing
  <2>2. CASE version' = version + 1 /\ wt' = Put(wt, Temp(a), version') /\ Go(a, "rename", loc[a])
    <3>1. PICK c : c = version'
      OBVIOUS
    <3>2. wt' = Put(wt, Temp(a), c)
      BY <2>2, <3>1
    <3> QED
      BY <2>1, <2>2, <3>1, <3>2, WriteTempKept
  <2>3. CASE wt' = Without(wt, Temp(a)) /\ Stop(a) /\ UNCHANGED version
    BY <2>1, <2>3, EndTempKept
  <2> QED
    BY <1>2, <2>2, <2>3 DEF FillTemp
<1>3. CASE RenameTemp(a)
  BY <1>3, EndTempKept DEF RenameTemp
<1> QED
  BY <1>1, <1>2, <1>3

(* What a safe checkout leaves and brings.                                 *)
LEMMA SafeFacts ==
  ASSUME NEW target,
         \A n \in DOMAIN wt \union DOMAIN target \union DOMAIN HeadTree : ~Conflict(target, n)
  PROVE  /\ \A n \in DOMAIN SafeTree(target) :
               \/ n \in DOMAIN wt /\ SafeTree(target)[n] = wt[n]
               \/ n \in DOMAIN target /\ SafeTree(target)[n] = target[n]
         /\ \A n \in DOMAIN wt :
               \/ n \in DOMAIN SafeTree(target) /\ SafeTree(target)[n] = wt[n]
               \/ n \in DOMAIN HeadTree /\ wt[n] = HeadTree[n]
<1> DEFINE at(d, n) == IF n \in DOMAIN d THEN {d[n]} ELSE {}
           after(n) == IF at(target, n) = at(HeadTree, n) THEN at(wt, n) ELSE at(target, n)
           S == {x \in DOMAIN wt \union DOMAIN target : after(x) # {}}
<1>1. SafeTree(target) = [n \in S |-> CHOOSE c \in after(n) : TRUE]
  BY DEF SafeTree
<1>2. DOMAIN SafeTree(target) = S
  BY <1>1
<1>3. ASSUME NEW n \in S PROVE SafeTree(target)[n] \in after(n)
  <2>1. after(n) # {}
    OBVIOUS
  <2>2. SafeTree(target)[n] = CHOOSE c \in after(n) : TRUE
    BY <1>1
  <2> HIDE DEF after
  <2> QED
    BY <2>1, <2>2
<1>4. ASSUME NEW n \in S
      PROVE  \/ n \in DOMAIN wt /\ SafeTree(target)[n] = wt[n]
             \/ n \in DOMAIN target /\ SafeTree(target)[n] = target[n]
  BY <1>3
<1>5. ASSUME NEW n \in DOMAIN wt
      PROVE  \/ n \in S /\ SafeTree(target)[n] = wt[n]
             \/ n \in DOMAIN HeadTree /\ wt[n] = HeadTree[n]
  <2>1. at(target, n) = at(HeadTree, n) \/ at(wt, n) \in {at(HeadTree, n), at(target, n)}
    BY DEF Conflict
  <2>2. at(wt, n) = {wt[n]}
    OBVIOUS
  <2>3. CASE at(wt, n) = at(HeadTree, n)
    BY <2>2, <2>3
  <2>4. CASE after(n) = at(wt, n)
    <3>1. n \in S
      BY <2>2, <2>4
    <3>2. SafeTree(target)[n] \in {wt[n]}
      BY <1>3, <2>2, <2>4, <3>1
    <3> QED
      BY <3>1, <3>2
  <2>5. at(wt, n) = at(HeadTree, n) \/ after(n) = at(wt, n)
    BY <2>1
  <2> QED
    BY <2>3, <2>4, <2>5
<1> QED
  BY <1>2, <1>4, <1>5

LEMMA SwitchBranchKept ==
  ASSUME IndInv, NEW a \in Actors, NEW b, SwitchBranch(a, b)
  PROVE  IndInv'
<1>1. /\ UNCHANGED <<commits, branches, head, tags, rows, version, crashes>>
      /\ b \in DOMAIN branches
  BY DEF SwitchBranch
<1>2. PICK target : target = commits[branches[b]].tree
  OBVIOUS
<1>3. \/ UNCHANGED <<wt, index>> /\ Stop(a)
      \/ /\ \A n \in DOMAIN wt \union DOMAIN target \union DOMAIN HeadTree : ~Conflict(target, n)
         /\ wt' = SafeTree(target)
         /\ Go(a, "sethead", [Idle EXCEPT !.goal = b])
  BY <1>2, Zenon DEF SwitchBranch
<1>4. CASE UNCHANGED <<wt, index>> /\ Stop(a)
  BY <1>1, <1>4, StopKept
<1>5. CASE /\ \A n \in DOMAIN wt \union DOMAIN target \union DOMAIN HeadTree : ~Conflict(target, n)
           /\ wt' = SafeTree(target)
           /\ Go(a, "sethead", [Idle EXCEPT !.goal = b])
  <2>1. RefsOK /\ ContentsOK
    BY DEF IndInv
  <2>2. /\ \A n \in DOMAIN wt' : \/ n \in DOMAIN wt /\ wt'[n] = wt[n]
                                 \/ n \in DOMAIN target /\ wt'[n] = target[n]
        /\ \A n \in DOMAIN wt : \/ n \in DOMAIN wt' /\ wt'[n] = wt[n]
                                \/ n \in DOMAIN HeadTree /\ wt[n] = HeadTree[n]
    <3>1. /\ \A n \in DOMAIN SafeTree(target) :
               \/ n \in DOMAIN wt /\ SafeTree(target)[n] = wt[n]
               \/ n \in DOMAIN target /\ SafeTree(target)[n] = target[n]
          /\ \A n \in DOMAIN wt :
               \/ n \in DOMAIN SafeTree(target) /\ SafeTree(target)[n] = wt[n]
               \/ n \in DOMAIN HeadTree /\ wt[n] = HeadTree[n]
      BY <1>5, SafeFacts
    <3> QED
      BY <1>5, <3>1, Zenon
  <2>3. branches[b] \in DOMAIN commits /\ branches[head] \in DOMAIN commits
    BY <1>1, <2>1 DEF RefsOK
  <2>4. \A n \in DOMAIN target : KnownThen(target[n])
    BY <1>1, <1>2, <2>3 DEF KnownThen, Range
  <2>5. \A n \in DOMAIN HeadTree : Known(HeadTree[n])
    BY <2>3 DEF Known, HeadTree, Range
  <2>6. PICK l : l = [Idle EXCEPT !.goal = b]
    OBVIOUS
  <2>7. DOMAIN l = Fields /\ l.op = "none" /\ l.seen = Partial /\ l.tree = <<>> /\ l.goal = b
    BY <2>6, IdleFields DEF Fields
  <2>8. /\ pc'[a] = "sethead" /\ loc'[a] = l
        /\ \A c \in Actors \ {a} : pc'[c] = pc[c] /\ loc'[c] = loc[c]
    BY <1>5, <2>6, GoFacts
  <2>9. FilesStep
    <3>1. \A n \in DOMAIN wt' : From(n)
      BY <2>2, <2>4 DEF From, FileFrom
    <3>2. File \in DOMAIN wt' => FileFrom(wt'[File])
      BY <2>2, <2>4 DEF FileFrom
    <3>3. Extends
      BY <1>1, SameRepo
    <3> QED
      BY <1>1, <2>7, <2>8, <3>1, <3>2, <3>3 DEF FilesStep
  <2>10. BackupsKept
    BY <2>2, <2>5 DEF BackupsKept, BackupKept
  <2>11. \A c \in Actors \ {a} : TempKept(c)
    BY <2>2, <2>4 DEF TempKept
  <2>12. \A n \in DOMAIN wt' : wt'[n] \in 0 .. version'
    BY <1>1, <1>2, <2>1, <2>2, <2>3 DEF ContentsOK, Written
  <2>13. RestoreOK(a)' /\ FileOK(a)'
    BY <1>1, <2>7, <2>8, NoFile DEF RestoreOK
  <2>14. version' \in Nat /\ version <= version'
    BY <1>1, <2>1 DEF ContentsOK
  <2> QED
    BY <1>1, <1>5, <2>6, <2>7, <2>9, <2>10, <2>11, <2>12, <2>13, <2>14, FilesKept
<1> QED
  BY <1>3, <1>4, <1>5

LEMMA CheckoutKept ==
  ASSUME IndInv, NEW a \in Actors, Checkout(a)
  PROVE  IndInv'
<1>1. UNCHANGED <<commits, branches, head, tags, rows, version, crashes>> /\ pc[a] = "checkout"
  BY DEF Checkout
<1>2. RefsOK /\ ContentsOK /\ RestoreOK(a) /\ DOMAIN pc = Actors
  BY DEF IndInv
<1>3. PICK target : target = MarkTree(loc[a].goal)
  OBVIOUS
<1>4. \A n \in DOMAIN wt' : \/ n \in DOMAIN wt /\ wt'[n] = wt[n]
                            \/ n \in DOMAIN target /\ wt'[n] = target[n]
  BY <1>3 DEF Checkout
<1>5. PICK i \in DOMAIN commits : commits[i].tree = target
  BY <1>1, <1>2, <1>3 DEF RestoreOK, RefsOK, MarkTree
<1>6. \A n \in DOMAIN target : KnownThen(target[n])
  BY <1>1, <1>5 DEF KnownThen, Range
<1>7. /\ DOMAIN pc' = Actors /\ DOMAIN loc' = Actors /\ pc'[a] = "idle" /\ loc'[a] = Idle
      /\ \A b \in Actors \ {a} :
            /\ pc'[b] = pc[b]
            /\ loc'[b] = IF Writing(b) THEN [loc[b] EXCEPT !.swept = TRUE] ELSE loc[b]
  BY <1>2 DEF Checkout, Writing
<1>8. FilesStep
  <2>1. \A n \in DOMAIN wt' : From(n)
    BY <1>4, <1>6 DEF From, FileFrom
  <2>2. File \in DOMAIN wt' => FileFrom(wt'[File])
    BY <1>4, <1>6 DEF FileFrom
  <2>3. Extends
    BY <1>1, SameRepo
  <2>4. ASSUME NEW b \in Actors PROVE loc'[b].seen \in {loc[b].seen, Partial}
    <3>1. CASE b = a
      BY <1>7, <3>1, IdleFields
    <3>2. CASE b # a
      <4>1. "seen" \in DOMAIN loc[b]
        BY DEF IndInv, LocalsOK, Fields
      <4> QED
        BY <1>7, <3>2, <4>1
    <3> QED
      BY <3>1, <3>2
  <2> QED
    BY <1>1, <2>1, <2>2, <2>3, <2>4 DEF FilesStep
<1>9. ASSUME NEW b \in Actors \ {a} PROVE Undisturbed(b)
  <2>1. TempKept(b)
    BY <1>4, <1>6 DEF TempKept
  <2> QED
    BY <1>7, <2>1 DEF Undisturbed
<1>10. RefsOK' /\ MilestoneHasTag'
  BY <1>1, SameRepo
<1>11. ContentsOK'
  <2>1. \A n \in DOMAIN wt' : wt'[n] \in 0 .. version
    BY <1>2, <1>4, <1>5 DEF ContentsOK, Written
  <2> QED
    BY <1>1, <1>2, <2>1 DEF ContentsOK, Written
<1>12. LocalsOK(a)' /\ RestoreOK(a)' /\ FileOK(a)'
  BY <1>7, <1>11, IdleOK DEF ContentsOK
<1>13. version <= version'
  BY <1>1, <1>2 DEF ContentsOK
<1> QED
  BY <1>7, <1>8, <1>9, <1>10, <1>11, <1>12, <1>13, StepKept

(* The user's editor writes a content of its own.                          *)
LEMMA UserEditsKept ==
  ASSUME IndInv, UserEdits
  PROVE  IndInv'
<1>1. /\ UNCHANGED <<commits, branches, head, tags, rows, pc, loc, crashes>>
      /\ version' = version + 1 /\ wt' = Put(wt, File, version')
  BY DEF UserEdits, repo
<1>2. ContentsOK /\ version \in Nat /\ crashes \in Nat /\ DOMAIN pc = Actors /\ DOMAIN loc = Actors
  BY DEF IndInv, ContentsOK
<1>3. /\ DOMAIN wt' = DOMAIN wt \union {File} /\ wt'[File] = version + 1
      /\ \A n \in DOMAIN wt \ {File} : wt'[n] = wt[n]
  BY <1>1 DEF Put
<1>4. FilesStep
  <2>1. FileFrom(wt'[File])
    BY <1>2, <1>3 DEF FileFrom
  <2>2. \A n \in DOMAIN wt' : From(n)
    BY <1>3, <2>1 DEF From
  <2>3. Extends
    BY <1>1, SameRepo
  <2> QED
    BY <1>1, <2>1, <2>2, <2>3 DEF FilesStep
<1>5. ASSUME NEW b \in Actors PROVE Undisturbed(b)
  <2>1. Temp(b) # File /\ File \notin Backups
    BY <1>2, Names
  <2>2. TempKept(b)
    BY <1>3, <2>1 DEF TempKept
  <2>3. BackupsKept
    BY <1>3, <2>1 DEF BackupsKept, BackupKept
  <2> QED
    BY <1>1, <2>2, <2>3 DEF Undisturbed
<1>6. RefsOK' /\ MilestoneHasTag'
  BY <1>1, SameRepo
<1>7. ContentsOK'
  <2>1. \A n \in 0 .. version : n \in 0 .. version + 1
    BY <1>2
  <2>2. version + 1 \in Nat \ {0} /\ version + 1 \in 0 .. version + 1
    BY <1>2
  <2> QED
    BY <1>1, <1>2, <1>3, <2>1, <2>2 DEF ContentsOK, Written
<1>8. version' \in Nat /\ version <= version'
  BY <1>1, <1>2
<1>9. PICK a \in Actors : TRUE
  BY WorkspaceAssumption DEF Actors
<1>10. LocalsOK(a)' /\ RestoreOK(a)' /\ FileOK(a)'
  BY <1>4, <1>5, <1>8, OthersKept
<1> QED
  BY <1>1, <1>2, <1>4, <1>5, <1>6, <1>7, <1>8, <1>10, StepKept

(* A crash ends every tool; a copy it interrupts is no user's file.        *)
LEMMA CrashKept ==
  ASSUME IndInv, Crash
  PROVE  IndInv'
<1>1. /\ UNCHANGED <<commits, branches, head, tags, rows, version>>
      /\ crashes' = crashes + 1
      /\ pc' = [a \in Actors |-> "idle"] /\ loc' = [a \in Actors |-> Idle]
  BY DEF Crash, repo
<1>2. ContentsOK /\ FileWhole /\ RefsOK /\ version \in Nat /\ crashes \in Nat
  BY DEF IndInv, ContentsOK
<1>3. PICK S \in SUBSET {a \in Actors : pc[a] = "copy"} :
         wt' = [n \in DOMAIN wt \union {loc[a].bak : a \in S} |->
                   IF n \in {loc[a].bak : a \in S} THEN Partial ELSE wt[n]]
  BY DEF Crash
<1>4. \A a \in S : loc[a].bak \in Backups
  BY <1>3 DEF IndInv, FileOK
<1>5. \A n \in DOMAIN wt' : \/ n \in DOMAIN wt /\ wt'[n] = wt[n]
                            \/ n \in Backups /\ wt'[n] = Partial
  <2>1. PICK T : T = {loc[a].bak : a \in S}
    OBVIOUS
  <2>2. T \subseteq Backups
    BY <1>4, <2>1
  <2>3. wt' = [n \in DOMAIN wt \union T |-> IF n \in T THEN Partial ELSE wt[n]]
    BY <1>3, <2>1, Zenon
  <2>4. DOMAIN wt' = DOMAIN wt \union T /\ \A n \in DOMAIN wt' : wt'[n] = IF n \in T THEN Partial ELSE wt[n]
    BY <2>3
  <2> QED
    BY <2>2, <2>4
<1>6. File \in DOMAIN wt' => File \in DOMAIN wt /\ wt'[File] = wt[File]
  BY <1>2, <1>5, Names
<1>7. FileWhole'
  BY <1>1, <1>2, <1>6 DEF FileWhole
<1>8. RefsOK' /\ MilestoneHasTag'
  BY <1>1, SameRepo
<1>9. ContentsOK'
  <2>1. \A n \in DOMAIN wt' : wt'[n] \in 0 .. version
    BY <1>2, <1>5 DEF ContentsOK, Written, Partial
  <2> QED
    BY <1>1, <1>2, <2>1 DEF ContentsOK, Written
<1>10. ASSUME NEW a \in Actors PROVE (LocalsOK(a) /\ RestoreOK(a) /\ FileOK(a))'
  BY <1>1, <1>2, IdleOK
<1> QED
  BY <1>1, <1>7, <1>8, <1>9, <1>10 DEF IndInv

--------------------------------------------------------------------------------
(* The invariant and the theorems.                                         *)

LEMMA InitKept ==
  ASSUME Init
  PROVE  IndInv
<1>1. /\ pc = [a \in Actors |-> "idle"] /\ loc = [a \in Actors |-> Idle]
      /\ version = 1 /\ crashes = 0 /\ tags = <<>> /\ rows = <<>> /\ head = "main"
      /\ commits = <<[parent |-> 0, tree |-> wt]>> /\ branches = Put(<<>>, "main", 1)
  BY DEF Init
<1>2. Written(wt, 1) /\ \A n \in DOMAIN wt : wt[n] # Partial
  <2>1. CASE wt = <<>>
    BY <2>1 DEF Written
  <2>2. CASE wt = Put(<<>>, File, 1)
    BY <2>2 DEF Put, Written, Partial
  <2> QED
    BY <2>1, <2>2 DEF Init
<1>3. DOMAIN commits = {1} /\ commits[1].parent = 0 /\ commits[1].tree = wt
  BY <1>1
<1>4. DOMAIN branches = {"main"} /\ branches["main"] = 1 /\ DOMAIN tags = {} /\ DOMAIN rows = {}
  BY <1>1 DEF Put
<1>5. IsSeq(commits)
  <2>1. commits = [i \in 1 .. 1 |-> [parent |-> 0, tree |-> wt]]
    BY <1>1
  <2>2. PICK e : e = [parent |-> 0, tree |-> wt]
    OBVIOUS
  <2>3. DOMAIN commits = 1 .. 1 /\ \A i \in 1 .. 1 : commits[i] = e
    BY <2>1, <2>2
  <2>4. {commits[i] : i \in DOMAIN commits} = {e}
    BY <2>3
  <2>5. commits \in Seq({e})
    BY <1>1, <2>2
  <2> QED
    BY <2>4, <2>5 DEF IsSeq
<1>6. DOMAIN commits \subseteq Reachable
  <2>1. 1 \in Range(branches)
    BY <1>4 DEF Range
  <2> QED
    BY <1>3, <2>1 DEF Reachable
<1>7. RefsOK
  BY <1>1, <1>3, <1>4, <1>5, <1>6 DEF RefsOK
<1>8. ContentsOK
  BY <1>1, <1>2, <1>3 DEF ContentsOK
<1>9. FileWhole /\ MilestoneHasTag
  BY <1>2, <1>4 DEF FileWhole, MilestoneHasTag
<1>10. ASSUME NEW a \in Actors PROVE LocalsOK(a) /\ RestoreOK(a) /\ FileOK(a)
  <2>1. pc[a] = "idle" /\ loc[a] = Idle
    BY <1>1
  <2>2. LocalsOK(a)
    <3>1. Idle.seen \in 0 .. 1 /\ Written(Idle.tree, 1)
      BY IdleFields DEF Partial, Written
    <3> QED
      BY <1>1, <2>1, <3>1, IdleFields DEF LocalsOK
  <2>3. RestoreOK(a)
    BY <2>1, IdleFields DEF RestoreOK
  <2>4. FileOK(a)
    BY <2>1 DEF FileOK, Kept, Fresh, Writing
  <2> QED
    BY <2>2, <2>3, <2>4
<1> QED
  BY <1>1, <1>7, <1>8, <1>9, <1>10 DEF IndInv

(* The step of a run.                                                      *)
LEMMA ToolsKept ==
  ASSUME IndInv, NEW a \in Actors, FileTool(a) \/ GitTool(a) \/ MarkTool(a)
  PROVE  IndInv'
<1>1. CASE FileTool(a)
  BY <1>1, OpenKept, ChooseKept, CopyBackupKept, TempsKept DEF FileTool
<1>2. CASE GitTool(a)
  <2>1. CASE StartCommit(a)
    BY <2>1, AddAllKept DEF StartCommit
  <2> QED
    BY <1>2, <2>1, CommitTreeKept, CreateBranchKept, SwitchBranchKept, SetHeadKept DEF GitTool
<1>3. CASE MarkTool(a)
  <2>1. CASE AddBeforeRestore(a)
    BY <2>1, AddAllKept DEF AddBeforeRestore
  <2> QED
    BY <1>3, <2>1, CreateMarkKept, StartRestoreKept, InsertRowKept, MarkBeforeRestoreKept,
       RecheckKept, RecommitKept, CheckoutKept DEF MarkTool
<1> QED
  BY <1>1, <1>2, <1>3

LEMMA StutterKept ==
  ASSUME IndInv, UNCHANGED vars
  PROVE  IndInv'
<1>1. /\ UNCHANGED <<wt, commits, branches, head, tags, rows, pc, loc, version, crashes>>
  BY DEF vars, repo
<1>2. RefsOK' /\ MilestoneHasTag'
  BY <1>1, SameRepo
<1>3. ContentsOK' /\ FileWhole'
  BY <1>1 DEF IndInv, ContentsOK, FileWhole, Written
<1>4. ASSUME NEW a \in Actors PROVE (LocalsOK(a) /\ RestoreOK(a) /\ FileOK(a))'
  <2>1. LocalsOK(a) /\ RestoreOK(a) /\ FileOK(a)
    BY DEF IndInv
  <2>2. LocalsOK(a)' /\ RestoreOK(a)'
    BY <1>1, <2>1 DEF LocalsOK, RestoreOK, Written, HandMark
  <2>3. Kept(a)'
    BY <1>1, <2>1 DEF FileOK, Kept, Writing, Known
  <2>4. Fresh(a)'
    BY <1>1, <2>1 DEF FileOK, Fresh, Known, Temp
  <2> QED
    BY <1>1, <2>1, <2>2, <2>3, <2>4 DEF FileOK
<1> QED
  BY <1>1, <1>2, <1>3, <1>4 DEF IndInv

LEMMA Inductive == Spec => []IndInv
<1>1. IndInv /\ [Next]_vars => IndInv'
  <2> SUFFICES ASSUME IndInv, [Next]_vars PROVE IndInv'
    OBVIOUS
  <2>1. ASSUME NEW a \in Actors, FileTool(a) \/ GitTool(a) \/ MarkTool(a) PROVE IndInv'
    BY <2>1, ToolsKept
  <2> QED
    BY <2>1, UserEditsKept, CrashKept, StutterKept DEF Next
<1> QED
  BY <1>1, InitKept, PTL DEF Spec

(* The user's file is never a half-written one, whatever runs write it,    *)
(* the user edits and crashes interrupt, unless a commit holds a part.     *)
THEOREM FileAlwaysWhole == Spec => []FileWhole
<1>1. IndInv => FileWhole
  BY DEF IndInv
<1> QED
  BY <1>1, Inductive, PTL

(* A milestone the panel lists has its tag, on the commit its row names,   *)
(* for any number of runs that make milestones and restore them.           *)
THEOREM MilestonesKeepTheirTags == Spec => []MilestoneHasTag
<1>1. IndInv => MilestoneHasTag
  BY DEF IndInv
<1> QED
  BY <1>1, Inductive, PTL

(* No tool, and no two tools at once, take a commit out of the history.    *)
THEOREM HistoryNeverRewritten == Spec => HistoryKept
<1>1. IndInv /\ IndInv' /\ [Next]_vars => [Reachable \subseteq Reachable']_vars
  <2> SUFFICES ASSUME IndInv, IndInv', [Next]_vars PROVE Reachable \subseteq Reachable'
    OBVIOUS
  <2>1. Reachable \subseteq DOMAIN commits /\ DOMAIN commits' \subseteq Reachable'
    BY DEF Reachable, IndInv, RefsOK
  <2>2. DOMAIN commits \subseteq DOMAIN commits'
    <3>1. CASE commits' = commits
      BY <3>1
    <3>2. ASSUME NEW tree, Committed(tree, branches[head]) PROVE DOMAIN commits \subseteq DOMAIN commits'
      BY <3>2, CommittedRefs DEF IndInv
    <3>3. ASSUME NEW a \in Actors, FileTool(a)
          PROVE  commits' = commits
      BY <3>3 DEF FileTool, OpenToWrite, OpenToEdit, EditFromScratch, ChooseBackup, CopyBackup,
                  CreateTemp, FillTemp, RenameTemp, repo
    <3>4. ASSUME NEW a \in Actors, GitTool(a)
          PROVE  commits' = commits \/ \E tree : Committed(tree, branches[head])
      BY <3>4 DEF GitTool, StartCommit, AddAll, CommitTree, CreateBranch, SwitchBranch, SetHead, repo
    <3>5. ASSUME NEW a \in Actors, MarkTool(a)
          PROVE  commits' = commits \/ \E tree : Committed(tree, branches[head])
      BY <3>5 DEF MarkTool, CreateMark, StartRestore, InsertRow, AddBeforeRestore, AddAll,
                  MarkBeforeRestore, Recheck, Recommit, Checkout, repo
    <3>6. CASE UserEdits \/ Crash \/ UNCHANGED vars
      BY <3>6 DEF UserEdits, Crash, vars, repo
    <3> QED
      BY <3>1, <3>2, <3>3, <3>4, <3>5, <3>6 DEF Next
  <2> QED
    BY <2>1, <2>2
<1> QED
  BY <1>1, Inductive, PTL DEF Spec, HistoryKept

(* A content known in a commit is in the history.                          *)
LEMMA KnownInHistory ==
  ASSUME IndInv, NEW c, Known(c)
  PROVE  InHistory(c)
BY DEF IndInv, RefsOK, Known, InHistory

(* A restoration that overwrites the workspace has in the history all it   *)
(* last saw there, whatever the other runs and the user do meanwhile.      *)
THEOREM RestoreLosesNothing == Spec => RestoreKeepsWork
<1>1. ASSUME IndInv, NEW a \in Actors, Checkout(a), NEW n \in DOMAIN loc[a].tree
      PROVE  InHistory(loc[a].tree[n])
  <2>1. pc[a] = "checkout" /\ RestoreOK(a)
    BY <1>1 DEF IndInv, Checkout
  <2>2. PICK i \in DOMAIN commits : commits[i].tree = loc[a].tree
    BY <2>1 DEF RestoreOK
  <2>3. Known(loc[a].tree[n])
    BY <2>2 DEF Known, Range
  <2> QED
    BY <1>1, <2>3, KnownInHistory
<1>2. IndInv =>
        [\A a \in Actors :
           Checkout(a) => \A n \in DOMAIN loc[a].tree : InHistory(loc[a].tree[n])]_vars
  BY <1>1
<1> QED
  BY <1>2, Inductive, PTL DEF RestoreKeepsWork

(* The content a file tool found and replaces is in the history or in a    *)
(* backup after the step, whatever others did between its system calls.    *)
THEOREM OverwriteLosesNothing == Spec => OverwriteKeepsOld
<1>1. ASSUME IndInv, NEW a \in Actors, RenameTemp(a), File \in DOMAIN wt,
             wt[File] = loc[a].seen, ~loc[a].swept
      PROVE  \/ InHistory(wt[File])
             \/ \E n \in DOMAIN wt' : n[1] = "bak" /\ wt'[n] = wt[File]
  <2>1. Kept(a) /\ Writing(a) /\ crashes \in Nat
    BY <1>1 DEF IndInv, FileOK, ContentsOK, RenameTemp, Writing
  <2>2. CASE Known(wt[File])
    BY <1>1, <2>2, KnownInHistory
  <2>3. CASE /\ loc[a].bak \in Backups /\ loc[a].bak \in DOMAIN wt
             /\ wt[loc[a].bak] = wt[File]
    <3>1. PICK n : n = loc[a].bak
      OBVIOUS
    <3>2. n # Temp(a) /\ n # File /\ n \in DOMAIN wt /\ wt[n] = wt[File] /\ n \in Backups
      BY <2>1, <2>3, <3>1, Names
    <3>3. n \in DOMAIN wt' /\ wt'[n] = wt[n]
      BY <1>1, <3>2 DEF RenameTemp, Put, Without, Restrict
    <3>4. n[1] = "bak"
      BY <3>2 DEF Backups, Backup
    <3> QED
      BY <3>2, <3>3, <3>4
  <2> QED
    BY <1>1, <2>1, <2>2, <2>3 DEF Kept
<1>2. IndInv =>
        [\A a \in Actors :
           /\ RenameTemp(a) /\ File \in DOMAIN wt /\ File \in DOMAIN wt'
           /\ wt[File] = loc[a].seen /\ wt'[File] # wt[File] /\ ~loc[a].swept
           => \/ InHistory(wt[File])
              \/ \E n \in DOMAIN wt' : n[1] = "bak" /\ wt'[n] = wt[File]]_vars
  BY <1>1
<1> QED
  BY <1>2, Inductive, PTL DEF OverwriteKeepsOld

===============================================================================
