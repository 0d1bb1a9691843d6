---------------------------- MODULE ExecSandbox ----------------------------
(***************************************************************************)
(* One call of exec.python, exec.node or exec.shell: the proxy of the      *)
(* call, the child in its job object, the descendant the child may leave   *)
(* behind, the pipes of its output, the wall clock, and the connections    *)
(* the processes open through the proxy (tool-registry/src/exec,           *)
(* security's jail.rs, raw_child.rs, job_object.rs and network.rs).        *)
(*                                                                         *)
(* execute() runs on one task; the processes, the kernel's timer, the      *)
(* proxy's tasks and the servers move between its steps.  A wait on a      *)
(* handle the code owns does not fail.                                     *)
(* A call of exec.python or exec.node runs the executable that Runtimes    *)
(* has on the disk, manifest or not; exec.shell runs one of Windows.       *)
(***************************************************************************)
EXTENDS Integers, SequencesExt, Runtimes

CONSTANTS Cap,      \* bytes that are kept of each stream (MAX_OUTPUT_BYTES)
          PipeRoom, \* bytes a pipe holds
          MaxOut,   \* bound: bytes the processes write, to both streams
          Conns,    \* connections the processes may open
          Allowed,  \* the network allowlist, hosts as sequences of labels
          Requests  \* [kind, host, target] a connection may send

\* The host of a request is the one of the CONNECT line, or of the Host header;
\* the target of an HTTP request may name one of its own, or none.
Streams  == {"stdout", "stderr"}
NoTarget == <<>>
Hosts    == {r.host : r \in Requests}

ASSUME ExecAssumption == Cap \in Nat \ {0} /\ PipeRoom \in Nat \ {0} /\ MaxOut \in Nat

VARIABLES step,     \* where execute() stands
          usable,   \* the executable of the call is on the disk
          child,    \* "none", "suspended", "alive" or "exited"
          exit,     \* what the kernel keeps of the child's end
          heir,     \* the descendant: "none", "alive" or "dead"
          job,      \* "none", "open" or "closed"
          jailed,   \* the processes in the job
          pipe,     \* who holds the writing end, of each stream
          piped,    \* bytes in each pipe
          written,  \* bytes written so far to each
          got,      \* bytes read_stream_to_cap has kept of each
          reader,   \* of each: "none", "open", "over", or "broken" by a failed read
          deadline, \* the wall clock has run out
          wait,     \* "none", "waiting", "killing", "code", "timeout" or "error"
          result,   \* "none", "refused", "error", "timeout", "failed" or "ok"
          recorded, \* the tool's audit record is written
          proxy,    \* "none", "up", "stopping" or "down"
          portFile, \* .frederico/proxy.port exists
          conn      \* of each: phase, req, the hosts reached for it, whether
                    \* a redirect was followed, whether bytes passed, the log

processVars == <<child, exit, heir, job, jailed, pipe>>
outputVars  == <<piped, written, got, reader>>
callVars    == <<step, usable, deadline, wait, result, recorded>>
proxyVars   == <<proxy, portFile>>
vars == <<processVars, outputVars, callVars, proxyVars, conn>>

Alive == {p \in {"child", "heir"} : IF p = "child" THEN child = "alive" ELSE heir = "alive"}

NotYet == [code |-> 0, late |-> FALSE, own |-> FALSE]
Idle   == [phase |-> "none", req |-> CHOOSE r \in Requests : TRUE, reached |-> {},
           redirected |-> FALSE, passed |-> FALSE, log |-> <<>>]

-----------------------------------------------------------------------------
(* The end of execute(): the locals are dropped in the reverse order of    *)
(* their declaration.                                                      *)

\* The processes dying end, and their ends of the pipes with them.
Reaped(dying) ==
    /\ child' = IF "child" \in dying THEN "exited" ELSE child
    /\ heir' = IF "heir" \in dying /\ heir = "alive" THEN "dead" ELSE heir
    /\ pipe' = [s \in Streams |-> (pipe[s] \ dying) \ {"app"}]

\* Mutant of CloseJob: the child is dropped and the job's handle leaks.
ForgetJob == job' = job /\ Reaped({})

\* The job is closed with the process, and its members die with it.
CloseJob == /\ job' = IF job = "open" THEN "closed" ELSE job
            /\ Reaped(IF job = "open" THEN jailed ELSE {})

\* NetworkProxyGuard: the listener is told to stop and the port file goes.
DropGuard == /\ proxy' = IF proxy = "up" THEN "stopping" ELSE proxy
             /\ portFile' = FALSE

Return(r) == step' = "returned" /\ result' = r

-----------------------------------------------------------------------------
(* The start of a call.                                                    *)

\* check_permission, plan, the runtime, build_args.
Refuse ==
    /\ step = "idle"
    /\ Return("refused")
    /\ UNCHANGED <<processVars, outputVars, usable, deadline, wait, recorded, proxyVars, conn>>

StartProxy ==
    /\ step = "idle"
    /\ usable' \in {tree[Exe] # "absent", TRUE}
    /\ \/ step' = "proxied" /\ proxy' = "up" /\ portFile' = TRUE /\ UNCHANGED result
       \/ Return("error") /\ UNCHANGED proxyVars                        \* no directory, no listener
       \/ Return("error") /\ proxy' = "stopping" /\ UNCHANGED portFile  \* no port file
    /\ UNCHANGED <<processVars, outputVars, deadline, wait, recorded, conn>>

\* CreateProcessAsUserW, suspended; the application holds the pipes too.
Create ==
    /\ step = "proxied" /\ usable
    /\ step' = "created" /\ child' = "suspended"
    /\ pipe' = [s \in Streams |-> {"app", "child"}]
    /\ UNCHANGED <<exit, heir, job, jailed, outputVars, usable, deadline, wait, result, recorded,
                   proxyVars, conn>>

Assign ==
    /\ step = "created"
    /\ step' = "assigned" /\ job' = "open" /\ jailed' = {"child"}
    /\ UNCHANGED <<child, exit, heir, pipe, outputVars, usable, deadline, wait, result, recorded,
                   proxyVars, conn>>

\* Mutant of Resume: the application keeps its copies of the writing ends.
ResumeHolding ==
    /\ step = "assigned"
    /\ step' = "running" /\ child' = "alive" /\ wait' = "waiting"
    /\ reader' = [s \in Streams |-> "open"]
    /\ UNCHANGED <<exit, heir, job, jailed, pipe, piped, written, got, usable, deadline, result,
                   recorded, proxyVars, conn>>

\* The child's ends of the pipes are closed, collect_output takes ours.
Resume ==
    /\ step = "assigned"
    /\ step' = "running" /\ child' = "alive" /\ wait' = "waiting"
    /\ pipe' = [s \in Streams |-> pipe[s] \ {"app"}]
    /\ reader' = [s \in Streams |-> "open"]
    /\ UNCHANGED <<exit, heir, job, jailed, piped, written, got, usable, deadline, result,
                   recorded, proxyVars, conn>>

\* Label, environment, pipes, token, process, job, assign, resume: any of
\* them fails; what was made so far is closed, the child terminated.
SpawnFails ==
    /\ step \in {"proxied", "created", "assigned"}
    /\ job' = IF job = "open" THEN "closed" ELSE job
    /\ Reaped(IF child = "none" THEN {} ELSE {"child"})
    /\ Return("error") /\ DropGuard
    /\ UNCHANGED <<exit, jailed, outputVars, usable, deadline, wait, recorded, conn>>

-----------------------------------------------------------------------------
(* What the processes do: they are not under the application's control.    *)

\* A descendant is born in its parent's job, with any of its parent's pipes.
Fork ==
    /\ child = "alive" /\ heir = "none"
    /\ heir' = "alive"
    /\ jailed' = IF "child" \in jailed THEN jailed \union {"heir"} ELSE jailed
    /\ \E given \in SUBSET {s \in Streams : "child" \in pipe[s]} :
           pipe' = [s \in Streams |-> pipe[s] \union (IF s \in given THEN {"heir"} ELSE {})]
    /\ UNCHANGED <<child, exit, job, outputVars, callVars, proxyVars, conn>>

Exit(p) ==
    /\ p \in Alive
    /\ IF p = "child"
       THEN /\ child' = "exited" /\ UNCHANGED heir
            /\ \E code \in {0, 1} : exit' = [code |-> code, late |-> deadline, own |-> TRUE]
       ELSE heir' = "dead" /\ UNCHANGED <<child, exit>>
    /\ pipe' = [s \in Streams |-> pipe[s] \ {p}]
    /\ UNCHANGED <<job, jailed, outputVars, callVars, proxyVars, conn>>

CloseOutput(p, s) ==
    /\ p \in Alive \intersect pipe[s]
    /\ pipe' = [pipe EXCEPT ![s] = @ \ {p}]
    /\ UNCHANGED <<child, exit, heir, job, jailed, outputVars, callVars, proxyVars, conn>>

\* A write to a pipe nobody reads fails, one to a full pipe blocks.
Write(p, s) ==
    /\ p \in Alive \intersect pipe[s]
    /\ reader[s] = "open" /\ piped[s] < PipeRoom /\ written["stdout"] + written["stderr"] < MaxOut
    /\ piped' = [piped EXCEPT ![s] = @ + 1] /\ written' = [written EXCEPT ![s] = @ + 1]
    /\ UNCHANGED <<processVars, got, reader, callVars, proxyVars, conn>>

\* The wall clock runs while wait_with_timeout waits.
DeadlinePasses ==
    /\ wait = "waiting" /\ ~ deadline
    /\ deadline' = TRUE
    /\ UNCHANGED <<processVars, outputVars, step, usable, wait, result, recorded, proxyVars, conn>>

-----------------------------------------------------------------------------
(* collect_output: the readers and the wait are joined.                    *)

\* The stream is over, and the reading end dropped with what is in the pipe.
Over(s, how) == reader' = [reader EXCEPT ![s] = how] /\ piped' = [piped EXCEPT ![s] = 0]

Read(s) ==
    /\ reader[s] = "open"
    /\ \E n \in 1..piped[s] :
           IF got[s] + n > Cap
           THEN got' = [got EXCEPT ![s] = Cap] /\ Over(s, "over")
           ELSE /\ got' = [got EXCEPT ![s] = @ + n] /\ piped' = [piped EXCEPT ![s] = @ - n]
                /\ UNCHANGED reader
    /\ UNCHANGED <<processVars, written, callVars, proxyVars, conn>>

ReadEnd(s) ==
    /\ reader[s] = "open" /\ piped[s] = 0 /\ pipe[s] = {}
    /\ Over(s, "over")
    /\ UNCHANGED <<processVars, written, got, callVars, proxyVars, conn>>

\* A read that fails ends the stream like its end does: nothing the code keeps
\* tells the two apart.
ReadBreaks(s) ==
    /\ reader[s] = "open"
    /\ Over(s, "broken")
    /\ UNCHANGED <<processVars, written, got, callVars, proxyVars, conn>>

\* The verdict that looks at the deadline when the end is noticed.
ByArrival == IF deadline THEN "timeout" ELSE "code"

\* The verdict on a child that is seen to be over: the kernel's exit time
\* against the deadline, not the moment at which the end was noticed.
ByExitTime == IF exit.late THEN "timeout" ELSE "code"

Verdict ==
    /\ wait = "waiting" /\ (child = "exited" \/ deadline)
    /\ wait' = IF child = "exited" THEN ByExitTime ELSE "killing"
    /\ UNCHANGED <<processVars, outputVars, step, usable, deadline, result, recorded, proxyVars, conn>>

\* kill_inner fails when the child ended by itself in the meantime.
Kill ==
    /\ wait = "killing"
    /\ IF child = "alive"
       THEN /\ Reaped({"child"}) /\ wait' = "timeout"
            /\ exit' = [code |-> 1, late |-> TRUE, own |-> FALSE]
       ELSE wait' = "error" /\ UNCHANGED <<child, heir, pipe, exit>>
    /\ UNCHANGED <<job, jailed, outputVars, step, usable, deadline, result, recorded, proxyVars, conn>>

\* The join is over: the audit record of a call that has an exit code, the
\* result, and the drop of the process, then of the guard.
Finish ==
    /\ step = "running" /\ \A s \in Streams : reader[s] \in {"over", "broken"}
    /\ wait \in {"code", "timeout", "error"}
    /\ Return(IF wait # "code" THEN wait ELSE IF exit.code = 0 THEN "ok" ELSE "failed")
    /\ recorded' = (wait = "code")
    /\ CloseJob /\ DropGuard
    /\ UNCHANGED <<exit, jailed, outputVars, usable, deadline, wait, conn>>

-----------------------------------------------------------------------------
(* The proxy: the loop that accepts, and one task per connection.          *)

\* NetworkAllowlist::contains: the entry itself or a host below it.
contains(host) == \E entry \in Allowed : IsSuffix(entry, host)

Now(c, phase) == conn' = [conn EXCEPT ![c].phase = phase]

\* The record names the host that was checked.
Entry(decision, host) == [decision |-> decision, host |-> host]
Record(c, decision, phase) ==
    conn' = [conn EXCEPT ![c].log = Append(@, Entry(decision, conn[c].req.host)), ![c].phase = phase]
ConnStep == UNCHANGED <<processVars, outputVars, callVars, proxyVars>>

Connect(c) ==
    /\ conn[c].phase = "none" /\ Alive # {} /\ proxy \in {"up", "stopping"}
    /\ \E r \in Requests : conn' = [conn EXCEPT ![c].phase = "queued", ![c].req = r]
    /\ ConnStep

\* select! is not biased: a connection may be accepted after the shutdown.
Accept(c) ==
    /\ conn[c].phase = "queued" /\ proxy \in {"up", "stopping"}
    /\ Now(c, "accepted")
    /\ ConnStep

\* The listener is closed, and what waits in its queue with it.
ProxyStops ==
    /\ proxy = "stopping"
    /\ proxy' = "down"
    /\ conn' = [c \in Conns |-> IF conn[c].phase = "queued"
                                THEN [conn[c] EXCEPT !.phase = "closed"] ELSE conn[c]]
    /\ UNCHANGED <<processVars, outputVars, callVars, portFile>>

\* handle_connection: the request is read and parsed, the host looked up.
HandleConnection(c) ==
    /\ conn[c].phase = "accepted"
    /\ LET req == conn[c].req
       IN  \/ (req.kind = "nothing" \/ Alive = {}) /\ Now(c, "closed")   \* no bytes, an error
           \/ req.kind \in {"nothing", "garbage"} /\ Record(c, "deny", "closed") \* timeout, 400
           \/ req.kind \in {"connect", "http"} /\ ~ contains(req.host) /\ Record(c, "deny", "closed")
           \/ req.kind \in {"connect", "http"} /\ contains(req.host) /\ Now(c, "dialing")
    /\ ConnStep

\* The upstream is not reached, does not answer, or not in time: 502 or 504.
DialFails(c) ==
    /\ conn[c].phase \in {"dialing", "asking"}
    /\ Record(c, "deny", "closed")
    /\ ConnStep

\* The record waits for the byte counts: it is written after the tunnel.
EstablishedUnrecorded(c) ==
    /\ conn[c].phase = "dialing" /\ conn[c].req.kind = "connect"
    /\ conn' = [conn EXCEPT ![c].phase = "tunnel", ![c].reached = {conn[c].req.host}]
    /\ ConnStep

\* handle_connect: the upstream is there, the 200 is written, the record, then
\* the tunnel.  The 200 is lost when the client is gone.
Established(c) ==
    /\ conn[c].phase = "dialing" /\ conn[c].req.kind = "connect"
    /\ LET x     == conn[c]
           there == [x EXCEPT !.reached = {x.req.host}]
       IN  \/ conn' = [conn EXCEPT ![c] = [there EXCEPT !.phase = "tunnel",
                                                        !.log = <<Entry("allow", x.req.host)>>]]
           \/ Alive = {} /\ conn' = [conn EXCEPT ![c] = [there EXCEPT !.phase = "closed"]]
    /\ ConnStep

\* handle_http sends the request to the host of its target, when that names one,
\* and to the host of its header otherwise; the allowlist has seen the latter.
Asked(c) ==
    /\ conn[c].phase = "dialing" /\ conn[c].req.kind = "http"
    /\ LET req == conn[c].req
           to  == IF req.target = NoTarget THEN req.host ELSE req.target
       IN  conn' = [conn EXCEPT ![c].phase = "asking", ![c].reached = {to}]
    /\ ConnStep

\* The HTTP client follows the redirects of the answer by itself.
Redirected(c) ==
    /\ conn[c].phase = "asking"
    /\ \E h \in Hosts \ conn[c].reached :
           conn' = [conn EXCEPT ![c].redirected = TRUE, ![c].reached = @ \union {h}]
    /\ ConnStep

\* The status and the headers are on their way, then the body, then the record.
Answered(c) ==
    /\ conn[c].phase = "asking"
    /\ conn' = [conn EXCEPT ![c].phase = "answering", ![c].passed = TRUE]
    /\ ConnStep

Forwarded(c) ==
    /\ conn[c].phase = "answering"
    /\ Record(c, "allow", "closed")
    /\ ConnStep

\* copy_bidirectional, which no timeout watches.
Transfer(c) ==
    /\ conn[c].phase = "tunnel" /\ ~ conn[c].passed
    /\ conn' = [conn EXCEPT ![c].passed = TRUE]
    /\ ConnStep

TunnelEnds(c) ==
    /\ conn[c].phase = "tunnel"
    /\ Now(c, "closed")
    /\ ConnStep

-----------------------------------------------------------------------------
Init ==
    /\ step = "idle" /\ usable = FALSE /\ child = "none" /\ exit = NotYet /\ heir = "none"
    /\ job = "none" /\ jailed = {} /\ pipe = [s \in Streams |-> {}]
    /\ piped = [s \in Streams |-> 0] /\ written = [s \in Streams |-> 0]
    /\ got = [s \in Streams |-> 0] /\ reader = [s \in Streams |-> "none"]
    /\ deadline = FALSE /\ wait = "none" /\ result = "none" /\ recorded = FALSE
    /\ proxy = "none" /\ portFile = FALSE
    /\ conn = [c \in Conns |-> Idle]

Execute == Refuse \/ StartProxy \/ Create \/ Assign \/ Resume \/ SpawnFails
               \/ (\E s \in Streams : Read(s) \/ ReadEnd(s) \/ ReadBreaks(s))
               \/ Verdict \/ Kill \/ Finish
Processes == \/ Fork
             \/ \E p \in {"child", "heir"} : \/ Exit(p)
                                          \/ \E s \in Streams : CloseOutput(p, s) \/ Write(p, s)
Proxy == \/ ProxyStops
         \/ \E c \in Conns : \/ Accept(c) \/ HandleConnection(c) \/ DialFails(c)
                             \/ Established(c) \/ Asked(c) \/ Answered(c) \/ Forwarded(c)

Next == \/ Execute \/ Processes \/ DeadlinePasses \/ Proxy
        \/ \E c \in Conns : Connect(c) \/ Redirected(c) \/ Transfer(c) \/ TunnelEnds(c)

\* One call beside any number of bootstraps.
Spec == /\ BootInit /\ Init
        /\ [][ \/ BootNext /\ UNCHANGED vars
               \/ Next /\ UNCHANGED bootVars ]_<<vars, bootVars>>

\* The runtime polls the call's task and the proxy's, the kernel's clock
\* runs.  The processes and the tunnels owe nothing.
Fairness == /\ WF_vars(Create \/ Assign \/ Resume) /\ WF_vars(Verdict \/ Kill) /\ WF_vars(Finish)
            /\ \A s \in Streams : WF_vars(Read(s) \/ ReadEnd(s))
            /\ WF_vars(DeadlinePasses) /\ WF_vars(Proxy)

-----------------------------------------------------------------------------
(* What is reported is what the kernel saw: an exit code is that of a      *)
(* child that ended by itself before the deadline, with all it wrote or    *)
(* the mark of a cut; a child that ended before it is never reported as    *)
(* timed out (veredito_do_wall_clock, read_stream_to_cap).  What a failed  *)
(* read lost of a stream is the one loss without a mark (output.rs:181).   *)
ReportTrue ==
    step = "returned" =>
        /\ result \in {"ok", "failed"} =>
               /\ exit.own /\ ~ exit.late
               /\ result = "ok" <=> exit.code = 0
               /\ \A s \in Streams : got[s] = written[s] \/ got[s] = Cap \/ reader[s] = "broken"
        /\ result = "timeout" => exit.late

(* No process outlives the call: whatever step it ended at, its child and  *)
(* what the child left behind are dead, and the listener is on its way     *)
(* down (spawn_windows' order, the job's kill-on-close, the drop order).   *)
NothingOutlives == step = "returned" => Alive = {} /\ child # "suspended" /\ proxy # "up"

(* The host the allowlist has not seen, and the record does not name, is   *)
(* that of an absolute target, or of a redirect (network.rs:839, :849).    *)
Unseen(x) == x.req.kind = "http" /\ (x.req.target # NoTarget \/ x.redirected)

(* No host is reached for a request whose own host is not listed; a tunnel *)
(* reaches that host and no other, and so does an HTTP request that names  *)
(* no other and is not redirected.  The record of a passage is there       *)
(* before the first byte of a tunnel and at the latest when the connection *)
(* ends, once, and a refusal is never the record of a passage              *)
(* (handle_connect, handle_http).                                          *)
TrafficOnRecord ==
    \A c \in Conns :
        LET x == conn[c]
        IN  /\ x.reached # {} => contains(x.req.host)
            /\ x.reached \subseteq {x.req.host} \/ Unseen(x)
            /\ x.passed /\ x.phase \in {"tunnel", "closed"} =>
                   x.reached # {} /\ x.log = <<Entry("allow", x.req.host)>>
            /\ Len(x.log) <= 1

(* A call whose child runs returns, whatever the child does, unless a      *)
(* descendant keeps the output open for ever (wait_with_timeout and the    *)
(* readers are joined, output.rs).                                         *)
ExecReturns == ([]<>(\A s \in Streams : "heir" \notin pipe[s]))
                   => ((step = "running") ~> (step = "returned"))
=============================================================================
