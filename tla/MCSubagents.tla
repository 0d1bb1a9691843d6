---------------------------- MODULE MCSubagents ----------------------------
(***************************************************************************)
(* Subagents with two profiles that differ both ways on the axes; a third  *)
(* content of a file is a file that is missing.  One of them names a       *)
(* repository twice.  The coder and the viewer share one tool, and none    *)
(* with the pusher.                                                        *)
(***************************************************************************)
EXTENDS Subagents

MCProfile ==
    [reader |-> [default EXCEPT !.level["file_read"] = FileReadPermission.WorkspaceOnly,
                                !.level["terminal"] = TerminalMode.Denylist,
                                !.on = {"network"}, !.network_allowlist = {"crates.io"},
                                !.github_repos = <<[repo |-> "a/b", branches |-> {"dev"},
                                                    operacoes |-> {"push"}],
                                                   [repo |-> "a/b", branches |-> {"main", "dev"},
                                                    operacoes |-> {"push"}]>>],
     writer |-> [allow_all EXCEPT !.level["file_read"] = FileReadPermission.None,
                                  !.level["terminal"] = TerminalMode.RequireApproval,
                                  !.on = {"file_modify", "network"},
                                    !.network_allowlist = {"crates.io", "pypi.org"},
                                  !.github_repos = <<[repo |-> "a/b", branches |-> {"main"},
                                                      operacoes |-> {"push", "create_pr"}]>>]]

MCSpecialists ==
    [coder  |-> [allowed_tools |-> {}, denied_tools |-> {"git.status", "github.push"}],
     viewer |-> [allowed_tools |-> {"files.read", "git.status"}, denied_tools |-> {}],
     pusher |-> [allowed_tools |-> {"github.push"}, denied_tools |-> {}]]

\* A tree reads neither the files nor the cache: it grows past its first child
\* only where no file was edited.
MCSpec == Init /\ [][Next /\ (spawns' > 1 => edits' = 0)]_vars

MCBudget == [x \in Axes |-> 3]
MCAllocations == {[x \in Axes |-> n] : n \in {1, 2}}
=============================================================================
