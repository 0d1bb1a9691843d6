---------------------------- MODULE Permissions ----------------------------
(***************************************************************************)
(* What a run may do (tool-registry/src/permission.rs): the set of         *)
(* permissions as axes, the intersection of two sets and the comparison of *)
(* a child's set with its parent's.  An axis with levels is a number, the  *)
(* order of the enum; the booleans that are on form a set.  The rules of   *)
(* github_repos keep the position they were written at.                    *)
(***************************************************************************)
EXTENDS Naturals

LevelAxes == {"file_read", "terminal", "python", "node", "git", "memory", "documents"}
BoolAxes  == {"file_create", "file_modify", "file_delete", "web_browse", "web_download",
              "network", "screen_capture", "input_control", "credentials", "destructive_ops"}

FileReadPermission == [None |-> 0, WorkspaceOnly |-> 1, WorkspacePlusApproved |-> 2]
RuntimePermission  == [None |-> 0, ReadOnly |-> 1, Sandboxed |-> 2, Unrestricted |-> 3]
TerminalMode       == [None |-> 0, RequireApproval |-> 1, Denylist |-> 2, Allowlist |-> 3]
GitPermission      == [None |-> 0, ReadOnly |-> 1, Local |-> 2, Full |-> 3]
MemoryPermission   == [None |-> 0, ReadOnly |-> 1, ReadWrite |-> 2]
DocumentPermission == [None |-> 0, WorkspaceOnly |-> 1, Full |-> 2]

\* The order of the levels and of the rules, and the fields of a rule.
PermissionTyped(s) ==
    /\ \A x \in LevelAxes : s.level[x] \in Nat
    /\ DOMAIN s.github_repos \subseteq Nat
    /\ \A i \in DOMAIN s.github_repos :
          DOMAIN s.github_repos[i] = {"repo", "branches", "operacoes"}

\* Nothing is allowed that nobody allows.
default ==
    [level |-> [x \in LevelAxes |-> 0], on |-> {}, network_allowlist |-> {}, github_repos |-> <<>>]

allow_all ==
    [level |-> [file_read |-> FileReadPermission.WorkspacePlusApproved,
                terminal  |-> TerminalMode.Allowlist,
                python    |-> RuntimePermission.Unrestricted,
                node      |-> RuntimePermission.Unrestricted,
                git       |-> GitPermission.Full,
                memory    |-> MemoryPermission.ReadWrite,
                documents |-> DocumentPermission.Full],
     on |-> BoolAxes \ {"screen_capture", "input_control"},
     network_allowlist |-> {}, github_repos |-> <<>>]

\* The first rule for a repository is the one that counts.
FirstRule(rules, repo) ==
    rules[CHOOSE i \in DOMAIN rules :
              /\ rules[i].repo = repo
              /\ \A j \in DOMAIN rules : rules[j].repo = repo => i <= j]
Ruled(rules, repo) == \E i \in DOMAIN rules : rules[i].repo = repo

is_subset_of(child, parent) ==
    /\ \A x \in LevelAxes : child.level[x] <= parent.level[x]
    /\ child.on \subseteq parent.on
    /\ child.network_allowlist \subseteq parent.network_allowlist
    /\ \A i \in DOMAIN child.github_repos :
          LET mine == child.github_repos[i]
          IN  /\ Ruled(parent.github_repos, mine.repo)
              /\ LET its == FirstRule(parent.github_repos, mine.repo)
                 IN  mine.branches \subseteq its.branches /\ mine.operacoes \subseteq its.operacoes

\* A rule both sets have, narrowed to what both allow.
Narrowed(rule, rules) ==
    IF Ruled(rules, rule.repo)
    THEN LET its == FirstRule(rules, rule.repo)
         IN  [rule EXCEPT !.branches = @ \cap its.branches, !.operacoes = @ \cap its.operacoes]
    ELSE [rule EXCEPT !.branches = {}]

\* A rule left without a branch or an operation is dropped.
merged_rules(mine, its) ==
    LET narrowed == [i \in DOMAIN mine |-> Narrowed(mine[i], its)]
    IN  [i \in {j \in DOMAIN mine : narrowed[j].branches # {} /\ narrowed[j].operacoes # {}} |->
            narrowed[i]]

\* The more restrictive of two sets, axis by axis.
merge(p, q) ==
    [level |-> [x \in LevelAxes |-> IF p.level[x] <= q.level[x] THEN p.level[x] ELSE q.level[x]],
     on |-> p.on \cap q.on,
     network_allowlist |-> p.network_allowlist \cap q.network_allowlist,
     github_repos |-> merged_rules(p.github_repos, q.github_repos)]

merge3(p, q, r) == merge(merge(p, q), r)
=============================================================================
