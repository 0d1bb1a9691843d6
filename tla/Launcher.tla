------------------------------- MODULE Launcher --------------------------------
(***************************************************************************)
(* DocumentWorkerLauncher of the app crate (launcher.rs): who starts,      *)
(* probes, condemns and replaces the worker process that several invokes   *)
(* share.  An invoke holds the lock of the state only while it reads or    *)
(* writes it and while it spawns; backoff, ping, call and shutdown happen  *)
(* without it.  A spawn is the handshake of spawn_external (external.rs)   *)
(* with the process it creates.                                            *)
(*                                                                         *)
(* After its handshake a worker is seen through what WorkerManager shows   *)
(* of one: it answers pings, dies, and its actor records a pong after the  *)
(* caller has been told of it.                                             *)
(***************************************************************************)
EXTENDS Integers

CONSTANTS
  Invokers,    (* tasks that call invoke                                   *)
  MaxAttempts, (* LauncherConfig::max_restart_attempts                     *)
  MaxWorkers,  (* bound: spawns ever tried                                 *)
  Free         (* nobody holds the lock                                    *)

ASSUME LauncherAssumption ==
  /\ MaxAttempts \in Nat \ {0} /\ MaxWorkers \in Nat
  /\ Free \notin Invokers

Workers == 1 .. MaxWorkers

VARIABLES
  state,    (* LauncherState                                               *)
  attempts, (* of Restarting and Dead                                      *)
  owned,    (* the worker of Alive, 0 in the other states                  *)
  lock,     (* who holds the mutex of the state                            *)
  pc,       (* where an invoke is                                          *)
  mine,     (* the worker whose handle it holds                            *)
  doomed,   (* the worker whose manager it shuts down                      *)
  spawned,  (* spawns tried so far                                         *)
  proc,     (* none, booting, listening, greeted or gone                   *)
  health,   (* the snapshot of a worker                                    *)
  ponged,   (* its actor has told of a pong and not recorded it yet        *)
  failures  (* spawns that failed since the last success or reset          *)

launcher == << state, attempts, owned, lock >>
invokes == << pc, mine, doomed >>
workers == << spawned, proc, health, ponged >>
vars == << launcher, invokes, workers, failures >>

Init ==
  /\ state = "NotStarted" /\ attempts = 0 /\ owned = 0 /\ lock = Free
  /\ pc = [i \in Invokers |-> "idle"]
  /\ mine = [i \in Invokers |-> 0]
  /\ doomed = [i \in Invokers |-> 0]
  /\ spawned = 0
  /\ proc = [w \in Workers |-> "none"]
  /\ health = [w \in Workers |-> "Unhealthy"]
  /\ ponged = [w \in Workers |-> FALSE]
  /\ failures = 0

Running == {"booting", "listening", "greeted"}

(* Where an invoke is that holds the lock and the child of its spawn.      *)
Handshake == {"creating", "ready", "connecting", "hello", "acking"}

(* The processes after the manager the state owns was dropped: its child   *)
(* has kill_on_drop.  None when the state owns nothing.                    *)
DropOwned(p) == [w \in Workers |-> IF w = owned THEN "gone" ELSE p[w]]

--------------------------------------------------------------------------------
(* invoke.                                                                 *)

(* Mutant: the lock is let go before the spawn. *)
BeginSpawnUnlocked(i) ==
  /\ spawned < MaxWorkers
  /\ spawned' = spawned + 1
  /\ mine' = [mine EXCEPT ![i] = spawned + 1]
  /\ lock' = Free
  /\ pc' = [pc EXCEPT ![i] = "creating"]

BeginSpawn(i) ==
  /\ spawned < MaxWorkers
  /\ spawned' = spawned + 1
  /\ mine' = [mine EXCEPT ![i] = spawned + 1]
  /\ lock' = i
  /\ pc' = [pc EXCEPT ![i] = "creating"]

EnterSpawning(i) ==
  /\ pc[i] = "idle" /\ lock = Free
  /\ state \in {"NotStarted", "Restarting"}
  /\ BeginSpawn(i)
  /\ UNCHANGED << state, attempts, owned, doomed, proc, health, ponged, failures >>

EnterBackoff(i) ==
  /\ pc[i] = "idle" /\ lock = Free
  /\ state = "Restarting"
  /\ pc' = [pc EXCEPT ![i] = "backoff"]
  /\ UNCHANGED << launcher, mine, doomed, workers, failures >>

(* Awake again, the invoke spawns whatever the state has become. *)
LeaveBackoff(i) ==
  /\ pc[i] = "backoff" /\ lock = Free
  /\ BeginSpawn(i)
  /\ UNCHANGED << state, attempts, owned, doomed, proc, health, ponged, failures >>

EnterAlive(i) ==
  /\ pc[i] = "idle" /\ lock = Free
  /\ state = "Alive"
  /\ mine' = [mine EXCEPT ![i] = owned]
  /\ pc' = [pc EXCEPT ![i] = "probe"]
  /\ UNCHANGED << launcher, doomed, workers, failures >>

(* In Dead an invoke returns an error at once and changes nothing. *)

(* spawn_external, with the lock.                                          *)
Advance(i, next) ==
  /\ pc' = [pc EXCEPT ![i] = next]
  /\ UNCHANGED << launcher, mine, doomed, spawned, health, ponged, failures >>

CreateChild(i) ==
  /\ pc[i] = "creating"
  /\ proc' = [proc EXCEPT ![mine[i]] = "booting"]
  /\ Advance(i, "ready")

ReadReady(i) ==
  /\ pc[i] = "ready" /\ proc[mine[i]] = "listening"
  /\ Advance(i, "connecting") /\ UNCHANGED proc

(* Mutant: the worker's first message is not waited for. *)
ConnectBlindly(i) ==
  /\ pc[i] = "connecting" /\ proc[mine[i]] = "listening"
  /\ Advance(i, "acking") /\ UNCHANGED proc

Connect(i) ==
  /\ pc[i] = "connecting" /\ proc[mine[i]] = "listening"
  /\ Advance(i, "hello") /\ UNCHANGED proc

ReadHello(i) ==
  /\ pc[i] = "hello" /\ proc[mine[i]] = "greeted"
  /\ Advance(i, "acking") /\ UNCHANGED proc

(* Mutant: the manager of a race is overwritten without a kill_on_drop. *)
SpawnOkLeaks(i) ==
  /\ pc[i] = "acking" /\ proc[mine[i]] # "gone"
  /\ state' = "Alive" /\ owned' = mine[i] /\ attempts' = 0 /\ lock' = Free
  /\ failures' = 0
  /\ pc' = [pc EXCEPT ![i] = "probe"]
  /\ UNCHANGED << mine, doomed, spawned, proc, health, ponged >>

(* app.ack is written, and the new manager replaces what the state held.   *)
SpawnOk(i) ==
  /\ pc[i] = "acking" /\ proc[mine[i]] # "gone"
  /\ proc' = DropOwned(proc)
  /\ state' = "Alive" /\ owned' = mine[i] /\ attempts' = 0 /\ lock' = Free
  /\ failures' = 0
  /\ pc' = [pc EXCEPT ![i] = "probe"]
  /\ UNCHANGED << mine, doomed, spawned, health, ponged >>

(* Mutant: the invoke and its spawn both count the attempt. *)
NewAttemptsTwice == IF state = "Restarting" THEN attempts + 2 ELSE 1

NewAttempts == IF state = "Restarting" THEN attempts + 1 ELSE 1

(* A step of the handshake returns Err: the process is not created, the    *)
(* READY line is late or not one, the pipe, the message or the ack is bad. *)
(* Only worker.hello is read without a timeout: while the worker is silent *)
(* the invoke waits.                                                       *)
MayFail(i) == pc[i] \in Handshake /\ ~ (pc[i] = "hello" /\ proc[mine[i]] = "listening")

(* cleanup_child on every path that has a child.                           *)
CleanUp(i) ==
  proc' = [DropOwned(proc) EXCEPT ![mine[i]] = IF pc[i] = "creating" THEN @ ELSE "gone"]

(* Mutant: one attempt too many. *)
SpawnFailsOneMore(i) ==
  /\ MayFail(i) /\ CleanUp(i)
  /\ attempts' = NewAttempts
  /\ state' = IF NewAttempts > MaxAttempts THEN "Dead" ELSE "Restarting"
  /\ owned' = 0 /\ lock' = Free
  /\ failures' = failures + 1
  /\ pc' = [pc EXCEPT ![i] = "idle"]
  /\ mine' = [mine EXCEPT ![i] = 0]
  /\ UNCHANGED << doomed, spawned, health, ponged >>

SpawnFails(i) ==
  /\ MayFail(i) /\ CleanUp(i)
  /\ attempts' = NewAttempts
  /\ state' = IF NewAttempts >= MaxAttempts THEN "Dead" ELSE "Restarting"
  /\ owned' = 0 /\ lock' = Free
  /\ failures' = failures + 1
  /\ pc' = [pc EXCEPT ![i] = "idle"]
  /\ mine' = [mine EXCEPT ![i] = 0]
  /\ UNCHANGED << doomed, spawned, health, ponged >>

(* ensure_first_pong: a snapshot that is not Unhealthy is believed. *)
ProbeKnown(i) ==
  /\ pc[i] = "probe"
  /\ health[mine[i]] # "Unhealthy"
  /\ pc' = [pc EXCEPT ![i] = "check"]
  /\ UNCHANGED << launcher, mine, doomed, workers, failures >>

(* The ping is answered, times out or meets a closed pipe; the invoke goes *)
(* on in any case.  A pong that is late still finds its entry.             *)
Ping(i) ==
  /\ pc[i] = "probe"
  /\ health[mine[i]] = "Unhealthy"
  /\ ponged' \in {ponged} \cup
       (IF proc[mine[i]] = "greeted" THEN {[ponged EXCEPT ![mine[i]] = TRUE]} ELSE {})
  /\ pc' = [pc EXCEPT ![i] = "check"]
  /\ UNCHANGED << launcher, mine, doomed, spawned, proc, health, failures >>

Check(i) ==
  /\ pc[i] = "check"
  /\ pc' = [pc EXCEPT ![i] =
              IF health[mine[i]] = "Unhealthy" THEN "condemn" ELSE "call"]
  /\ UNCHANGED << launcher, mine, doomed, workers, failures >>

(* The state becomes NotStarted whatever it was, and the manager it held,  *)
(* if any, is shut down outside of the lock.  This forgets attempts too.   *)
Condemn(i) ==
  /\ pc[i] = "condemn" /\ lock = Free
  /\ state' = "NotStarted" /\ owned' = 0 /\ attempts' = 0
  /\ failures' = 0
  /\ doomed' = [doomed EXCEPT ![i] = owned]
  /\ pc' = [pc EXCEPT ![i] = IF state = "Alive" THEN "retire" ELSE "idle"]
  /\ mine' = [mine EXCEPT ![i] = 0]
  /\ UNCHANGED << lock, workers >>

(* WorkerManager!ShutdownReaps. *)
Retire(i) ==
  /\ pc[i] = "retire"
  /\ proc' = [proc EXCEPT ![doomed[i]] = "gone"]
  /\ doomed' = [doomed EXCEPT ![i] = 0]
  /\ pc' = [pc EXCEPT ![i] = "idle"]
  /\ UNCHANGED << launcher, mine, spawned, health, ponged, failures >>

(* An answer, an error or a timeout: the launcher returns it as it is. *)
Call(i) ==
  /\ pc[i] = "call"
  /\ pc' = [pc EXCEPT ![i] = "idle"]
  /\ mine' = [mine EXCEPT ![i] = 0]
  /\ UNCHANGED << launcher, doomed, workers, failures >>

--------------------------------------------------------------------------------
(* The user and the worker.                                                *)

Reset ==
  /\ lock = Free
  /\ state' = "NotStarted" /\ owned' = 0 /\ attempts' = 0
  /\ proc' = DropOwned(proc)
  /\ failures' = 0
  /\ UNCHANGED << lock, invokes, spawned, health, ponged >>

RecordPong(w) ==
  /\ ponged[w]
  /\ health' = [health EXCEPT ![w] = "Ok"]
  /\ ponged' = [ponged EXCEPT ![w] = FALSE]
  /\ UNCHANGED << launcher, invokes, spawned, proc, failures >>

(* worker_main: the pipe is made and announced on stdout.                  *)
WorkerListens(w) ==
  /\ proc[w] = "booting"
  /\ proc' = [proc EXCEPT ![w] = "listening"]
  /\ UNCHANGED << launcher, invokes, spawned, health, ponged, failures >>

(* A client has connected: worker.hello, then the loop that reads the pipe. *)
WorkerGreets(w) ==
  /\ proc[w] = "listening"
  /\ \E i \in Invokers : mine[i] = w /\ pc[i] \in {"hello", "acking"}
  /\ proc' = [proc EXCEPT ![w] = "greeted"]
  /\ UNCHANGED << launcher, invokes, spawned, health, ponged, failures >>

WorkerDies(w) ==
  /\ proc[w] \in Running
  /\ proc' = [proc EXCEPT ![w] = "gone"]
  /\ UNCHANGED << launcher, invokes, spawned, health, ponged, failures >>

Next ==
  \/ \E i \in Invokers :
       \/ EnterSpawning(i) \/ EnterBackoff(i) \/ LeaveBackoff(i) \/ EnterAlive(i)
       \/ CreateChild(i) \/ ReadReady(i) \/ Connect(i) \/ ReadHello(i)
       \/ SpawnOk(i) \/ SpawnFails(i)
       \/ ProbeKnown(i) \/ Ping(i)
       \/ Check(i) \/ Condemn(i) \/ Retire(i) \/ Call(i)
  \/ Reset
  \/ \E w \in Workers : RecordPong(w) \/ WorkerListens(w) \/ WorkerGreets(w) \/ WorkerDies(w)

Spec == Init /\ [][Next]_vars

--------------------------------------------------------------------------------
(* Properties.                                                             *)

(* The launcher, the invokes and the workers have their types. *)
TypeOK ==
  /\ state \in {"NotStarted", "Alive", "Restarting", "Dead"}
  /\ attempts \in 0 .. MaxAttempts
  /\ owned \in 0 .. spawned /\ (owned # 0 <=> state = "Alive")
  /\ lock \in Invokers \cup {Free}
  /\ pc \in [Invokers -> Handshake \cup {"idle", "backoff", "probe", "check",
                                         "condemn", "retire", "call"}]
  /\ mine \in [Invokers -> 0 .. MaxWorkers]
  /\ doomed \in [Invokers -> 0 .. MaxWorkers]
  /\ spawned \in 0 .. MaxWorkers
  /\ proc \in [Workers -> Running \cup {"none", "gone"}]
  /\ health \in [Workers -> {"Unhealthy", "Ok"}]
  /\ ponged \in [Workers -> BOOLEAN]
  /\ failures \in 0 .. MaxWorkers

(* No process is left that nobody will ever stop: one that runs belongs to *)
(* the state, to the invoke that is starting it, or to the one that shuts  *)
(* it down.                                                                *)
NoOrphan ==
  \A w \in Workers : proc[w] \in Running =>
    \/ owned = w
    \/ \E i \in Invokers : /\ mine[i] = w /\ pc[i] \in Handshake
    \/ \E i \in Invokers : /\ doomed[i] = w /\ pc[i] = "retire"

(* The launcher gives up only after MaxAttempts spawns failed one after    *)
(* the other, whichever invokes made them; it never overstates attempts.   *)
DeadIsEarned ==
  /\ attempts <= failures
  /\ state = "Dead" => failures >= MaxAttempts

(* A worker is spawned and shut down by one invoke at a time, and no       *)
(* invoke shuts down the worker that the state hands out.                  *)
OneKeeper ==
  \A i, j \in Invokers : i # j =>
    /\ ~ (pc[i] \in Handshake /\ pc[j] \in Handshake)
    /\ pc[i] = "retire" => doomed[i] # owned /\ doomed[i] # doomed[j]

(* The worker the launcher hands out has introduced itself, and only one   *)
(* that has was ever found healthy.                                        *)
Introduced ==
  /\ owned # 0 => proc[owned] \in {"greeted", "gone"}
  /\ \A w \in Workers : proc[w] \in Running \ {"greeted"} => health[w] = "Unhealthy"

(* The state of the launcher says what its workers are. *)
LauncherInv == TypeOK /\ DeadIsEarned /\ OneKeeper /\ Introduced

================================================================================
