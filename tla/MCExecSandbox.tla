--------------------------- MODULE MCExecSandbox ---------------------------
(* ExecSandbox beside Runtimes: any number of bootstraps, and at any step  *)
(* of theirs one call, since the shell runs them in a task of their own    *)
(* (main.rs) and the exec tools do not wait for it.                        *)
(* The hosts are an entry, a host below it and one that only starts like   *)
(* it.                                                                     *)
EXTENDS ExecSandbox

Pypi  == <<"pypi", "org">>
Files == <<"files", "pypi", "org">>
Other == <<"pypi", "org", "example", "com">>

MCAllowed == {Pypi}
\* A request whose target names a host of its own is one of HTTP.
Request(kinds, hosts, target) ==
    {[kind |-> k, host |-> h, target |-> target] : k \in kinds, h \in hosts}
MCRequests == Request({"connect", "http"}, {Pypi, Files, Other}, NoTarget)
                  \union Request({"http"}, {Files, Other}, Other)
                  \union Request({"nothing", "garbage"}, {Other}, NoTarget)
MCArchive == <<"exe", "lib">>
MCExe == "exe"

\* A call has read from the disk what it needs: the rest is forgotten, so
\* that its states are not counted once for each disk.
Forget == /\ kind' = "python" /\ at' = "off" /\ tried' = 0 /\ copied' = 0
          /\ archive' = "none" /\ tree' = [f \in Contents |-> "absent"]
          /\ manifest' = "none" /\ answer' = "none" /\ pins' = 0

\* No step looks at both the output and a connection: a call is followed with
\* the one or with the other, not with every pair of their states.
Apart == (\A c \in Conns : conn[c].phase = "none") \/ (\A s \in Streams : written[s] = 0)

MCInit == BootInit /\ Init
MCNext == \/ step = "idle" /\ BootNext /\ UNCHANGED vars
          \/ step = "idle" /\ Next /\ Forget
          \/ step # "idle" /\ Next /\ Apart' /\ UNCHANGED bootVars

MCSpec == MCInit /\ [][MCNext]_<<vars, bootVars>> /\ Fairness
=============================================================================
