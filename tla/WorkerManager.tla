----------------------------- MODULE WorkerManager -----------------------------
(***************************************************************************)
(* One worker process of process-architecture: the actor that owns its     *)
(* pipe (run_actor of manager.rs), the callers that share a WorkerHandle,  *)
(* WorkerManager::shutdown, and the worker at the other end.               *)
(*                                                                         *)
(* A caller puts a command into the queue of the actor and waits on a      *)
(* oneshot; the actor enters the command into a table, writes the request, *)
(* and hands what the worker sends back to the entry with the same id.     *)
(* The actor writes and reads in one loop: while it does one it does not   *)
(* do the other.  A call is its own request id, since ids are fresh UUIDs. *)
(*                                                                         *)
(* The pipe is the one of Windows: read_line keeps the bytes of the line   *)
(* it is reading in a local buffer, and select! drops it with the future.  *)
(***************************************************************************)
EXTENDS Integers, Sequences, FiniteSets, Functions

CONSTANTS
  Invokes,  (* calls of WorkerHandle::invoke                               *)
  Pings,    (* calls of WorkerHandle::ping                                 *)
  Stop,     (* the call of WorkerManager::shutdown                         *)
  QueueCap, (* slots of the command channel                                *)
  PipeCap,  (* messages a direction of the pipe takes before a write waits *)
  NoCall

ASSUME WorkerAssumption ==
  /\ Invokes \cap Pings = {} /\ Stop \notin Invokes \cup Pings
  /\ NoCall \notin Invokes \cup Pings \cup {Stop}
  /\ QueueCap \in Nat \ {0} /\ PipeCap \in Nat \ {0}

Requests == Invokes \cup Pings
Calls == Requests \cup {Stop}

VARIABLES
  pc,        (* where a call is                                            *)
  verdict,   (* what it returned                                           *)
  source,    (* whose response it returned                                 *)
  queue,     (* the channel of commands                                    *)
  pending,   (* the table of requests in flight                            *)
  actor,     (* select, writing, recording, ended                          *)
  writing,   (* the call whose request the actor writes                    *)
  half,      (* the line read_line has begun to read                       *)
  observed,  (* the health the actor is about to record                    *)
  health,    (* the snapshot                                               *)
  toWorker,  (* requests in the pipe                                       *)
  toManager, (* responses in the pipe                                      *)
  worker,    (* ready, busy, closed (its pipe is), gone                    *)
  job        (* the request it works on                                    *)

calls == << pc, verdict, source >>
act == << queue, pending, actor, writing, half, observed, health >>
peer == << toWorker, toManager, worker, job >>
vars == << calls, act, peer >>

Line(op, id) == [ op |-> op, id |-> id ]
NoLine == Line("none", NoCall)

Init ==
  /\ pc = [c \in Calls |-> "idle"]
  /\ verdict = [c \in Calls |-> "none"]
  /\ source = [c \in Calls |-> NoCall]
  /\ queue = << >> /\ pending = {} /\ actor = "select"
  /\ writing = NoCall /\ half = NoLine
  /\ observed = "Unhealthy" /\ health = "Unhealthy"
  /\ toWorker = << >> /\ toManager = << >>
  /\ worker = "ready" /\ job = NoCall

PipeOpen == worker \in {"ready", "busy"}

--------------------------------------------------------------------------------
(* Replies.  A reply reaches a caller that still waits; the oneshot of one *)
(* that gave up is dropped.                                                *)

(* shutdown goes on to join the actor; when it returns Err the manager is  *)
(* dropped, and its child with it.                                         *)
After(c, v) ==
  IF c # Stop THEN "done" ELSE IF v = "ok" THEN "joining" ELSE "dropping"

(* Every call c of to gets the verdict v[c], taken from a response to from. *)
Reply(to, v, from) ==
  LET heard == { c \in to : pc[c] = "waiting" }
  IN  /\ pc' = [c \in Calls |-> IF c \in heard THEN After(c, v[c]) ELSE pc[c]]
      /\ verdict' = [c \in Calls |-> IF c \in heard THEN v[c] ELSE verdict[c]]
      /\ source' = [c \in Calls |-> IF c \in heard THEN from ELSE source[c]]

ReplyOne(c, v, from) == Reply({c}, [x \in {c} |-> v], from)

--------------------------------------------------------------------------------
(* Callers.                                                                *)

Submit(c) ==
  /\ pc[c] = "idle"
  /\ pc' = [pc EXCEPT ![c] = "sending"]
  /\ UNCHANGED << verdict, source, act, peer >>

(* Mutant: an unbounded channel. *)
EnqueueUnbounded(c) ==
  /\ pc[c] = "sending"
  /\ actor # "ended"
  /\ queue' = Append(queue, c)
  /\ pc' = [pc EXCEPT ![c] = "waiting"]
  /\ UNCHANGED << verdict, source, pending, actor, writing, half, observed >>
  /\ UNCHANGED << health, peer >>

(* send().await: waits for a slot, without a timeout. *)
Enqueue(c) ==
  /\ pc[c] = "sending"
  /\ actor # "ended"
  /\ Len(queue) < QueueCap
  /\ queue' = Append(queue, c)
  /\ pc' = [pc EXCEPT ![c] = "waiting"]
  /\ UNCHANGED << verdict, source, pending, actor, writing, half, observed >>
  /\ UNCHANGED << health, peer >>

SendFails(c) ==
  /\ pc[c] = "sending"
  /\ actor = "ended"
  /\ pc' = [pc EXCEPT ![c] = After(c, "transport")]
  /\ verdict' = [verdict EXCEPT ![c] = "transport"]
  /\ UNCHANGED << source, act, peer >>

(* The command or the table's entry stays where it is.  shutdown does not  *)
(* time out here.                                                          *)
TimesOut(c) ==
  /\ c # Stop
  /\ pc[c] = "waiting"
  /\ pc' = [pc EXCEPT ![c] = "done"]
  /\ verdict' = [verdict EXCEPT ![c] = "timeout"]
  /\ UNCHANGED << source, act, peer >>

(* Once the actor ended, the child has 5 s to exit before it is killed.    *)
JoinActor ==
  /\ pc[Stop] = "joining"
  /\ actor = "ended"
  /\ pc' = [pc EXCEPT ![Stop] = "reaping"]
  /\ UNCHANGED << verdict, source, act, peer >>

(* Mutant: the child that did not exit in time is left alone. *)
ReapChildNoKill ==
  /\ pc[Stop] = "reaping"
  /\ pc' = [pc EXCEPT ![Stop] = "done"]
  /\ UNCHANGED << verdict, source, act, peer >>

ReapChild ==
  /\ pc[Stop] = "reaping"
  /\ pc' = [pc EXCEPT ![Stop] = "done"]
  /\ worker' = "gone"
  /\ UNCHANGED << verdict, source, act, toWorker, toManager, job >>

(* kill_on_drop. *)
DropChild ==
  /\ pc[Stop] = "dropping"
  /\ pc' = [pc EXCEPT ![Stop] = "done"]
  /\ worker' = "gone"
  /\ UNCHANGED << verdict, source, act, toWorker, toManager, job >>

--------------------------------------------------------------------------------
(* The actor.  select! is biased: a command goes before a line, and drops  *)
(* the read_line that was under way with the bytes it had read.            *)

TakeCommand ==
  /\ actor = "select" /\ queue # << >>
  /\ queue' = Tail(queue)
  /\ pending' = pending \cup {Head(queue)}
  /\ actor' = "writing" /\ writing' = Head(queue)
  /\ half' = NoLine
  /\ UNCHANGED << calls, observed, health, peer >>

WriteRequest ==
  /\ actor = "writing"
  /\ PipeOpen /\ Len(toWorker) < PipeCap
  /\ toWorker' = Append(toWorker, writing)
  /\ actor' = "select" /\ writing' = NoCall
  /\ UNCHANGED << calls, queue, pending, half, observed, health >>
  /\ UNCHANGED << toManager, worker, job >>

(* Mutant: the error is only logged. *)
WriteFailsSilently ==
  /\ actor = "writing"
  /\ ~ PipeOpen
  /\ pending' = pending \ {writing}
  /\ actor' = "select" /\ writing' = NoCall
  /\ UNCHANGED << calls, queue, half, observed, health, peer >>

WriteFails ==
  /\ actor = "writing"
  /\ ~ PipeOpen
  /\ pending' = pending \ {writing}
  /\ ReplyOne(writing, "transport", NoCall)
  /\ actor' = "select" /\ writing' = NoCall
  /\ UNCHANGED << queue, half, observed, health, peer >>

BeginLine ==
  /\ actor = "select" /\ queue = << >>
  /\ half = NoLine /\ toManager # << >>
  /\ half' = Head(toManager)
  /\ toManager' = Tail(toManager)
  /\ UNCHANGED << calls, queue, pending, actor, writing, observed, health >>
  /\ UNCHANGED << toWorker, worker, job >>

Expected(c) == IF c \in Invokes THEN "result" ELSE "pong"

(* Mutant: the response goes to whoever waits for one of its kind. *)
AddresseeByKind(line) ==
  LET alike == { c \in pending \ {Stop} : Expected(c) = line.op }
  IN  IF alike = {} THEN {} ELSE { CHOOSE c \in alike : TRUE }

Addressee(line) == { c \in pending : c = line.id }

(* handle_incoming: without an entry the response came too late.  The      *)
(* caller is told before the health is recorded.                           *)
EndLine ==
  /\ actor = "select" /\ queue = << >>
  /\ half # NoLine
  /\ half' = NoLine
  /\ LET to == Addressee(half)
         v == [c \in to |-> IF half.op = Expected(c) THEN "ok" ELSE "error"]
     IN  /\ pending' = pending \ to
         /\ Reply(to, v, half.id)
         /\ IF to # {} /\ half.op \in {"pong", "error"}
              THEN /\ actor' = "recording"
                   /\ observed' = IF half.op = "pong" THEN "Ok" ELSE "Degraded"
              ELSE UNCHANGED << actor, observed >>
  /\ UNCHANGED << queue, writing, health, peer >>

RecordHealth ==
  /\ actor = "recording"
  /\ health' = observed
  /\ actor' = "select"
  /\ UNCHANGED << calls, queue, pending, writing, half, observed, peer >>

(* Mutant: the table is not drained. *)
EndActorUndrained ==
  /\ actor = "select" /\ queue = << >>
  /\ half = NoLine /\ toManager = << >> /\ ~ PipeOpen
  /\ actor' = "ended"
  /\ pending' = {}
  /\ UNCHANGED << calls, queue, writing, half, observed, health, peer >>

(* The end of the pipe: drain_pending_with_error.  Commands that came in   *)
(* since the last poll are dropped with the channel.                       *)
EndActor ==
  /\ actor = "select"
  /\ half = NoLine /\ toManager = << >> /\ ~ PipeOpen
  /\ actor' = "ended"
  /\ Reply(pending \cup Range(queue),
           [c \in Calls |-> IF c = Stop /\ c \in pending THEN "ok" ELSE "transport"],
           NoCall)
  /\ pending' = {} /\ queue' = << >>
  /\ UNCHANGED << writing, half, observed, health, peer >>

--------------------------------------------------------------------------------
(* The worker: one request at a time; its writes wait while the pipe is    *)
(* full.  It may take for ever, and die at any time.                       *)

WorkerReads ==
  /\ worker = "ready" /\ toWorker # << >>
  /\ toWorker' = Tail(toWorker)
  /\ IF Head(toWorker) = Stop
       THEN worker' = "closed" /\ UNCHANGED job
       ELSE worker' = "busy" /\ job' = Head(toWorker)
  /\ UNCHANGED << calls, act, toManager >>

WorkerAnswers ==
  /\ worker = "busy"
  /\ Len(toManager) < PipeCap
  /\ \E op \in {Expected(job)} \cup (IF job \in Invokes THEN {"error"} ELSE {}) :
       toManager' = Append(toManager, Line(op, job))
  /\ worker' = "ready" /\ job' = NoCall
  /\ UNCHANGED << calls, act, toWorker >>

WorkerDies ==
  /\ worker # "gone"
  /\ worker' = "gone"
  /\ UNCHANGED << calls, act, toWorker, toManager, job >>

Actor ==
  \/ TakeCommand \/ WriteRequest \/ WriteFails
  \/ BeginLine \/ EndLine \/ RecordHealth \/ EndActor

Caller(c) == Enqueue(c) \/ SendFails(c)

Shutdown == JoinActor \/ ReapChild \/ DropChild

Next ==
  \/ \E c \in Calls : Submit(c) \/ Caller(c) \/ TimesOut(c)
  \/ Shutdown
  \/ Actor
  \/ WorkerReads \/ WorkerAnswers \/ WorkerDies

Spec == Init /\ [][Next]_vars

(* Tasks of a live runtime whose awaits return: the worker owes nothing,   *)
(* and no call relies on its own timeout.                                  *)
FairSpec ==
  /\ Spec
  /\ WF_vars(Actor) /\ WF_vars(Shutdown)
  /\ \A c \in Calls : WF_vars(Caller(c))

--------------------------------------------------------------------------------
(* Properties.                                                             *)

(* The tables, the channel and the pipe have their types and bounds. *)
TypeOK ==
  /\ pc \in [Calls -> {"idle", "sending", "waiting", "done",
                       "joining", "reaping", "dropping"}]
  /\ verdict \in [Calls -> {"none", "ok", "error", "transport", "timeout"}]
  /\ source \in [Calls -> Calls \cup {NoCall}]
  /\ queue \in Seq(Calls) /\ Len(queue) <= QueueCap
  /\ pending \subseteq Calls
  /\ actor \in {"select", "writing", "recording", "ended"}
  /\ writing \in Calls \cup {NoCall}
  /\ half \in [ op : {"none", "pong", "result", "error"}, id : Calls \cup {NoCall} ]
  /\ {observed, health} \subseteq {"Ok", "Degraded", "Unhealthy"}
  /\ toWorker \in Seq(Calls) /\ Len(toWorker) <= PipeCap
  /\ toManager \in Seq([ op : {"pong", "result", "error"}, id : Requests ])
  /\ Len(toManager) <= PipeCap
  /\ worker \in {"ready", "busy", "closed", "gone"}
  /\ job \in Requests \cup {NoCall}

(* A call that comes back with an answer comes back with the answer to its *)
(* own request, whatever was in flight at the same time.                   *)
AnswerIsOwn ==
  \A c \in Requests : verdict[c] \in {"ok", "error"} => source[c] = c

(* A call that waits is held by exactly one of the channel and the table,  *)
(* so that somebody answers it; an actor that ended leaves none waiting.   *)
NobodyForgotten ==
  \A c \in Calls : pc[c] = "waiting" =>
    /\ actor # "ended"
    /\ (c \in pending) # (c \in Range(queue))

(* The table and the channel serve each caller with what is its own. *)
WorkerInv == TypeOK /\ AnswerIsOwn /\ NobodyForgotten

(* When shutdown returns, Ok or Err, the child is no more. *)
ShutdownReaps == pc[Stop] = "done" => worker = "gone"

(* A worker that dies wakes everyone who waits for it, without their       *)
(* timeouts.                                                               *)
DeathWakesCallers ==
  \A c \in Calls : (worker = "gone" /\ pc[c] = "waiting") ~> pc[c] # "waiting"

================================================================================
