------------------------- MODULE DocumentWorker_proofs --------------------------
(***************************************************************************)
(* The document worker from its two sides.                                 *)
(*                                                                         *)
(* The launcher, for every number of invokes, of attempts and of spawns:   *)
(* LauncherInv and NoOrphan.  The argument is about who holds a worker.    *)
(* The lock serialises the spawns, so the worker of the one under way is   *)
(* the newest and nobody else's (LockInv); a worker is handed from the     *)
(* invoke that spawned it to the state, from there to the invoke that      *)
(* shuts it down (OwnerInv); what has not greeted has told nobody of a     *)
(* pong (HealthInv).                                                       *)
(*                                                                         *)
(* The tools that write and read through it, for every number of calls and *)
(* of the worker's deaths: OkFileIsGood and LastOkStands.  A call has one  *)
(* request at most on its way (LineInv), the pipe keeps their order        *)
(* (OrderInv), and the file is what the last of them made of it (FileInv). *)
(***************************************************************************)
EXTENDS Launcher, Documents, TLAPS

(* The lock is held exactly during a handshake, whose worker is the newest. *)
LockInv ==
  /\ \A i \in Invokers : pc[i] \in Handshake <=> lock = i
  /\ \A i \in Invokers : pc[i] \in Handshake => mine[i] = spawned /\ spawned # 0
  /\ lock # Free => owned # spawned /\ failures < spawned
  /\ lock # Free => \A i \in Invokers : pc[i] = "retire" => doomed[i] # spawned
  /\ failures <= spawned

(* Who has a worker has one that was spawned. *)
OwnerInv ==
  /\ \A i \in Invokers : pc[i] \in {"probe", "check", "condemn", "call"} => mine[i] # 0
  /\ \A i \in Invokers : pc[i] = "retire" => doomed[i] \in 1 .. spawned
  /\ \A i \in Invokers : pc[i] # "retire" => doomed[i] = 0

(* Where a process is, and what is known of it. *)
HealthInv ==
  /\ \A w \in Workers : w > spawned => proc[w] = "none"
  /\ \A i \in Invokers : pc[i] = "creating" => proc[mine[i]] = "none"
  /\ \A i \in Invokers : pc[i] = "acking" => proc[mine[i]] \in {"greeted", "gone"}
  /\ \A w \in Workers : proc[w] \in {"none", "booting", "listening"} =>
       health[w] = "Unhealthy" /\ ~ ponged[w]

(* The attempts are those of a row of failures that is still open. *)
AttemptsInv ==
  /\ state \in {"NotStarted", "Alive"} => attempts = 0
  /\ state = "Restarting" => attempts \in 1 .. MaxAttempts - 1
  /\ state = "Dead" => attempts = MaxAttempts

(* Invoke i has what it takes to stop w. *)
Keeps(i, w) ==
  \/ mine[i] = w /\ pc[i] \in Handshake
  \/ doomed[i] = w /\ pc[i] = "retire"

IndInv ==
  /\ TypeOK /\ DeadIsEarned /\ OneKeeper /\ Introduced /\ NoOrphan
  /\ LockInv /\ OwnerInv /\ HealthInv /\ AttemptsInv

--------------------------------------------------------------------------------
(* The steps. *)

LEMMA InitInd == Init => IndInv
<1> USE LauncherAssumption DEF IndInv, TypeOK, DeadIsEarned, OneKeeper, Introduced, LockInv,
             OwnerInv, HealthInv, AttemptsInv, Running, Handshake, Workers, launcher, invokes,
             workers
<1> QED
  BY DEF Init, NoOrphan

(* Nobody loses sight of a process: what the state or invoke i would have  *)
(* stopped before a step of i is gone, or one of the two still will.       *)
LEMMA KeepersStay ==
  ASSUME NoOrphan, NEW i \in Invokers,
         \A j \in Invokers \ {i} : \A w \in Workers : Keeps(j, w) => Keeps(j, w)',
         \A w \in Workers : proc'[w] \in Running => proc[w] \in Running \/ Keeps(i, w)',
         \A w \in Workers : /\ owned = w \/ Keeps(i, w)
                            /\ proc'[w] \in Running
                            => owned' = w \/ Keeps(i, w)'
  PROVE  NoOrphan'
<1> SUFFICES ASSUME NEW w \in Workers, proc'[w] \in Running
             PROVE  owned' = w \/ \E j \in Invokers : Keeps(j, w)'
  BY DEF NoOrphan, Keeps
<1>1. proc[w] \in Running => owned = w \/ \E j \in Invokers : Keeps(j, w)
  BY DEF NoOrphan, Keeps
<1> QED
  BY <1>1

(* The same of a step outside of the invokes.                              *)
LEMMA KeepersSame ==
  ASSUME NoOrphan, UNCHANGED invokes,
         \A w \in Workers : proc'[w] \in Running =>
           proc[w] \in Running /\ (owned = w => owned' = w)
  PROVE  NoOrphan'
<1>1. \A j \in Invokers : \A w \in Workers : Keeps(j, w)' <=> Keeps(j, w)
  BY DEF Keeps, invokes
<1>2. \A w \in Workers : proc[w] \in Running => owned = w \/ \E j \in Invokers : Keeps(j, w)
  BY DEF NoOrphan, Keeps
<1>3. \A w \in Workers : proc'[w] \in Running => owned' = w \/ \E j \in Invokers : Keeps(j, w)'
  BY <1>1, <1>2
<1> QED
  BY <1>3 DEF NoOrphan, Keeps

LEMMA EnterSteps ==
  ASSUME IndInv, NEW i \in Invokers,
         EnterSpawning(i) \/ EnterBackoff(i) \/ LeaveBackoff(i) \/ EnterAlive(i)
  PROVE  IndInv'
<1> USE LauncherAssumption DEF IndInv, TypeOK, DeadIsEarned, OneKeeper, Introduced, LockInv,
             OwnerInv, HealthInv, AttemptsInv, Running, Handshake, Workers, launcher, invokes,
             workers
<1>1. CASE EnterSpawning(i)
  <2>1. TypeOK'
    BY <1>1 DEF EnterSpawning, BeginSpawn
  <2>2. (DeadIsEarned /\ OneKeeper /\ Introduced /\ AttemptsInv)'
    BY <1>1 DEF EnterSpawning, BeginSpawn
  <2>3. (LockInv /\ OwnerInv /\ HealthInv)'
    BY <1>1 DEF EnterSpawning, BeginSpawn
  <2>4. NoOrphan'
    BY <1>1, KeepersStay DEF EnterSpawning, BeginSpawn, Keeps
  <2> QED
    BY <2>1, <2>2, <2>3, <2>4
<1>2. CASE EnterBackoff(i)
  <2>1. TypeOK'
    BY <1>2 DEF EnterBackoff
  <2>2. (DeadIsEarned /\ OneKeeper /\ Introduced /\ AttemptsInv)'
    BY <1>2 DEF EnterBackoff
  <2>3. (LockInv /\ OwnerInv /\ HealthInv)'
    BY <1>2 DEF EnterBackoff
  <2>4. NoOrphan'
    BY <1>2, KeepersStay DEF EnterBackoff, Keeps
  <2> QED
    BY <2>1, <2>2, <2>3, <2>4
<1>3. CASE LeaveBackoff(i)
  <2>1. TypeOK'
    BY <1>3 DEF LeaveBackoff, BeginSpawn
  <2>2. (DeadIsEarned /\ OneKeeper /\ Introduced /\ AttemptsInv)'
    BY <1>3 DEF LeaveBackoff, BeginSpawn
  <2>3. (LockInv /\ OwnerInv /\ HealthInv)'
    <3>1. LockInv'
      BY <1>3 DEF LeaveBackoff, BeginSpawn
    <3>2. OwnerInv'
      BY <1>3 DEF LeaveBackoff, BeginSpawn
    <3>3. HealthInv'
      BY <1>3 DEF LeaveBackoff, BeginSpawn
    <3> QED
      BY <3>1, <3>2, <3>3
  <2>4. NoOrphan'
    BY <1>3, KeepersStay, SMTT(30) DEF LeaveBackoff, BeginSpawn, Keeps
  <2> QED
    BY <2>1, <2>2, <2>3, <2>4
<1>4. CASE EnterAlive(i)
  <2>1. TypeOK'
    BY <1>4 DEF EnterAlive
  <2>2. (DeadIsEarned /\ OneKeeper /\ Introduced /\ AttemptsInv)'
    BY <1>4 DEF EnterAlive
  <2>3. (LockInv /\ OwnerInv /\ HealthInv)'
    BY <1>4 DEF EnterAlive
  <2>4. NoOrphan'
    <3>1. \A j \in Invokers \ {i} : \A w \in Workers : Keeps(j, w) => Keeps(j, w)'
      BY <1>4 DEF EnterAlive, Keeps
    <3>2. \A w \in Workers : proc'[w] \in Running => proc[w] \in Running \/ Keeps(i, w)'
      BY <1>4 DEF EnterAlive, Keeps
    <3>3. \A w \in Workers : /\ owned = w \/ Keeps(i, w)
                             /\ proc'[w] \in Running
                             => owned' = w \/ Keeps(i, w)'
      BY <1>4 DEF EnterAlive, Keeps
    <3> QED
      BY <3>1, <3>2, <3>3, KeepersStay
  <2> QED
    BY <2>1, <2>2, <2>3, <2>4
<1> QED
  BY <1>1, <1>2, <1>3, <1>4

LEMMA HandshakeSteps ==
  ASSUME IndInv, NEW i \in Invokers,
         CreateChild(i) \/ ReadReady(i) \/ Connect(i) \/ ReadHello(i)
  PROVE  IndInv'
<1> USE LauncherAssumption DEF IndInv, TypeOK, DeadIsEarned, OneKeeper, Introduced, LockInv,
             OwnerInv, HealthInv, AttemptsInv, Running, Handshake, Workers, launcher, invokes,
             workers
<1>1. CASE CreateChild(i)
  <2>1. TypeOK'
    BY <1>1 DEF CreateChild, Advance
  <2>2. (DeadIsEarned /\ OneKeeper /\ Introduced /\ AttemptsInv)'
    BY <1>1 DEF CreateChild, Advance
  <2>3. (LockInv /\ OwnerInv /\ HealthInv)'
    BY <1>1 DEF CreateChild, Advance
  <2>4. NoOrphan'
    BY <1>1, KeepersStay DEF CreateChild, Advance, Keeps
  <2> QED
    BY <2>1, <2>2, <2>3, <2>4
<1>2. CASE ReadReady(i)
  <2>1. TypeOK'
    BY <1>2 DEF ReadReady, Advance
  <2>2. (DeadIsEarned /\ OneKeeper /\ Introduced /\ AttemptsInv)'
    BY <1>2 DEF ReadReady, Advance
  <2>3. (LockInv /\ OwnerInv /\ HealthInv)'
    BY <1>2 DEF ReadReady, Advance
  <2>4. NoOrphan'
    BY <1>2, KeepersStay DEF ReadReady, Advance, Keeps
  <2> QED
    BY <2>1, <2>2, <2>3, <2>4
<1>3. CASE Connect(i)
  <2>1. TypeOK'
    BY <1>3 DEF Connect, Advance
  <2>2. (DeadIsEarned /\ OneKeeper /\ Introduced /\ AttemptsInv)'
    BY <1>3 DEF Connect, Advance
  <2>3. (LockInv /\ OwnerInv /\ HealthInv)'
    BY <1>3 DEF Connect, Advance
  <2>4. NoOrphan'
    BY <1>3, KeepersStay DEF Connect, Advance, Keeps
  <2> QED
    BY <2>1, <2>2, <2>3, <2>4
<1>4. CASE ReadHello(i)
  <2>1. TypeOK'
    BY <1>4 DEF ReadHello, Advance
  <2>2. (DeadIsEarned /\ OneKeeper /\ Introduced /\ AttemptsInv)'
    BY <1>4 DEF ReadHello, Advance
  <2>3. (LockInv /\ OwnerInv /\ HealthInv)'
    BY <1>4 DEF ReadHello, Advance
  <2>4. NoOrphan'
    BY <1>4, KeepersStay DEF ReadHello, Advance, Keeps
  <2> QED
    BY <2>1, <2>2, <2>3, <2>4
<1> QED
  BY <1>1, <1>2, <1>3, <1>4

LEMMA SpawnSteps ==
  ASSUME IndInv, NEW i \in Invokers,
         SpawnOk(i) \/ SpawnFails(i)
  PROVE  IndInv'
<1> USE LauncherAssumption DEF IndInv, TypeOK, DeadIsEarned, OneKeeper, Introduced, LockInv,
             OwnerInv, HealthInv, AttemptsInv, Running, Handshake, Workers, launcher, invokes,
             workers
<1>1. CASE SpawnOk(i)
  <2>1. TypeOK'
    BY <1>1 DEF SpawnOk, DropOwned
  <2>2. (DeadIsEarned /\ OneKeeper /\ Introduced /\ AttemptsInv)'
    BY <1>1 DEF SpawnOk, DropOwned
  <2>3. (LockInv /\ OwnerInv /\ HealthInv)'
    BY <1>1 DEF SpawnOk, DropOwned
  <2>4. NoOrphan'
    BY <1>1, KeepersStay DEF SpawnOk, DropOwned, Keeps
  <2> QED
    BY <2>1, <2>2, <2>3, <2>4
<1>2. CASE SpawnFails(i)
  <2>1. TypeOK'
    BY <1>2 DEF SpawnFails, MayFail, CleanUp, DropOwned, NewAttempts
  <2>2. (DeadIsEarned /\ OneKeeper /\ Introduced /\ AttemptsInv)'
    BY <1>2 DEF SpawnFails, MayFail, CleanUp, DropOwned, NewAttempts
  <2>3. (LockInv /\ OwnerInv /\ HealthInv)'
    BY <1>2 DEF SpawnFails, MayFail, CleanUp, DropOwned, NewAttempts
  <2>4. NoOrphan'
    <3>1. \A j \in Invokers \ {i} : \A w \in Workers : Keeps(j, w) => Keeps(j, w)'
      BY <1>2 DEF SpawnFails, MayFail, CleanUp, DropOwned, NewAttempts, Keeps
    <3>2. \A w \in Workers : proc'[w] \in Running => proc[w] \in Running \/ Keeps(i, w)'
      BY <1>2 DEF SpawnFails, MayFail, CleanUp, DropOwned, NewAttempts, Keeps
    <3>3. \A w \in Workers : /\ owned = w \/ Keeps(i, w)
                             /\ proc'[w] \in Running
                             => owned' = w \/ Keeps(i, w)'
      BY <1>2 DEF SpawnFails, MayFail, CleanUp, DropOwned, NewAttempts, Keeps
    <3> QED
      BY <3>1, <3>2, <3>3, KeepersStay
  <2> QED
    BY <2>1, <2>2, <2>3, <2>4
<1> QED
  BY <1>1, <1>2

(* These steps take up no worker and let go of none.                       *)
LEMMA UseKeeps ==
  ASSUME TypeOK, NoOrphan, NEW i \in Invokers,
         ProbeKnown(i) \/ Ping(i) \/ Check(i) \/ Call(i)
  PROVE  NoOrphan'
<1>1. /\ pc[i] \notin Handshake \cup {"retire"}
      /\ pc'[i] \notin Handshake \cup {"retire"}
      /\ owned' = owned /\ proc' = proc
      /\ \A j \in Invokers \ {i} : /\ pc'[j] = pc[j] /\ mine'[j] = mine[j]
                                   /\ doomed'[j] = doomed[j]
  BY DEF TypeOK, ProbeKnown, Ping, Check, Call, Handshake, launcher, workers
<1>2. \A j \in Invokers : \A w \in Workers : Keeps(j, w) <=> Keeps(j, w)'
  BY <1>1 DEF Keeps
<1> QED
  BY <1>1, <1>2, KeepersStay

LEMMA UseSteps ==
  ASSUME IndInv, NEW i \in Invokers,
         ProbeKnown(i) \/ Ping(i) \/ Check(i) \/ Condemn(i) \/ Retire(i) \/ Call(i)
  PROVE  IndInv'
<1> USE LauncherAssumption DEF IndInv, TypeOK, DeadIsEarned, OneKeeper, Introduced, LockInv,
             OwnerInv, HealthInv, AttemptsInv, Running, Handshake, Workers, launcher, invokes,
             workers
<1>1. CASE ProbeKnown(i)
  <2>1. TypeOK'
    BY <1>1 DEF ProbeKnown
  <2>2. (DeadIsEarned /\ OneKeeper /\ Introduced /\ AttemptsInv)'
    BY <1>1 DEF ProbeKnown
  <2>3. (LockInv /\ OwnerInv /\ HealthInv)'
    <3>1. LockInv'
      BY <1>1 DEF ProbeKnown
    <3>2. OwnerInv'
      BY <1>1 DEF ProbeKnown
    <3>3. HealthInv'
      BY <1>1 DEF ProbeKnown
    <3> QED
      BY <3>1, <3>2, <3>3
  <2>4. NoOrphan'
    BY <1>1, UseKeeps
  <2> QED
    BY <2>1, <2>2, <2>3, <2>4
<1>2. CASE Ping(i)
  <2>0. \/ ponged' = ponged
        \/ proc[mine[i]] = "greeted" /\ ponged' = [ponged EXCEPT ![mine[i]] = TRUE]
    <3>1. CASE proc[mine[i]] = "greeted"
      BY <1>2, <3>1 DEF Ping
    <3>2. CASE proc[mine[i]] # "greeted"
      BY <1>2, <3>2 DEF Ping
    <3> QED
      BY <3>1, <3>2
  <2>a. pc' = [pc EXCEPT ![i] = "check"]
    BY <1>2 DEF Ping
  <2>1. TypeOK'
    <3>1. ponged' \in [Workers -> BOOLEAN]
      <4>1. ponged \in [Workers -> BOOLEAN]
        OBVIOUS
      <4> HIDE DEF IndInv
      <4> QED
        BY <2>0, <4>1
    <3>2. pc' \in [Invokers -> Handshake \cup {"idle", "backoff", "probe", "check",
                                               "condemn", "retire", "call"}]
      BY <2>a
    <3> QED
      BY <1>2, <3>1, <3>2 DEF Ping
  <2>2. (DeadIsEarned /\ OneKeeper /\ Introduced /\ AttemptsInv)'
    <3>1. DeadIsEarned' /\ AttemptsInv'
      BY <1>2 DEF Ping
    <3>2. OneKeeper'
      BY <1>2 DEF Ping
    <3>3. Introduced'
      BY <1>2 DEF Ping
    <3> QED
      BY <3>1, <3>2, <3>3
  <2>3. (LockInv /\ OwnerInv /\ HealthInv)'
    <3>1. LockInv'
      BY <1>2 DEF Ping
    <3>2. OwnerInv'
      BY <1>2 DEF Ping
    <3>3. HealthInv'
      <4>2. mine[i] \in Workers /\ UNCHANGED << mine, proc, spawned, health >>
        BY <1>2 DEF Ping
      <4>4. \A w \in Workers : ponged'[w] => ponged[w] \/ proc[w] = "greeted"
        <5>1. SUFFICES ASSUME NEW w \in Workers, ponged'[w], proc[w] # "greeted"
                       PROVE  ponged[w]
          OBVIOUS
        <5>2. \/ ponged' = ponged
              \/ mine[i] # w /\ ponged' = [ponged EXCEPT ![mine[i]] = TRUE]
          BY <2>0, <5>1
        <5>3. ponged'[w] = ponged[w]
          BY <5>2
        <5> QED
          BY <5>1, <5>3
      <4> QED
        BY <4>2, <2>a, <4>4
    <3> QED
      BY <3>1, <3>2, <3>3
  <2>4. NoOrphan'
    BY <1>2, UseKeeps
  <2> QED
    BY <2>1, <2>2, <2>3, <2>4
<1>3. CASE Check(i)
  <2>1. TypeOK'
    BY <1>3 DEF Check
  <2>2. (DeadIsEarned /\ OneKeeper /\ Introduced /\ AttemptsInv)'
    BY <1>3 DEF Check
  <2>3. (LockInv /\ OwnerInv /\ HealthInv)'
    <3>1. LockInv'
      BY <1>3 DEF Check
    <3>2. OwnerInv'
      BY <1>3 DEF Check
    <3>3. HealthInv'
      BY <1>3 DEF Check
    <3> QED
      BY <3>1, <3>2, <3>3
  <2>4. NoOrphan'
    BY <1>3, UseKeeps
  <2> QED
    BY <2>1, <2>2, <2>3, <2>4
<1>4. CASE Condemn(i)
  <2>1. TypeOK'
    BY <1>4 DEF Condemn
  <2>2. (DeadIsEarned /\ OneKeeper /\ Introduced /\ AttemptsInv)'
    <3>1. DeadIsEarned'
      BY <1>4 DEF Condemn
    <3>2. OneKeeper'
      <4>1. \A j \in Invokers : pc'[j] \in Handshake => pc[j] \in Handshake
        BY <1>4 DEF Condemn
      <4>2. \A j \in Invokers : pc'[j] = "retire" => doomed'[j] # 0
        BY <1>4 DEF Condemn
      <4>3. ASSUME NEW j \in Invokers, NEW k \in Invokers, j # k, pc'[j] = "retire"
            PROVE  doomed'[j] # doomed'[k]
        BY <1>4, <4>3 DEF Condemn
      <4>4. owned' = 0
        BY <1>4 DEF Condemn
      <4> QED
        BY <4>1, <4>2, <4>3, <4>4
    <3>3. Introduced'
      BY <1>4 DEF Condemn
    <3>4. AttemptsInv'
      BY <1>4 DEF Condemn
    <3> QED
      BY <3>1, <3>2, <3>3, <3>4
  <2>3. (LockInv /\ OwnerInv /\ HealthInv)'
    BY <1>4 DEF Condemn
  <2>4. NoOrphan'
    BY <1>4, KeepersStay DEF Condemn, Keeps
  <2> QED
    BY <2>1, <2>2, <2>3, <2>4
<1>5. CASE Retire(i)
  <2>1. TypeOK'
    BY <1>5 DEF Retire
  <2>2. (DeadIsEarned /\ OneKeeper /\ Introduced /\ AttemptsInv)'
    BY <1>5 DEF Retire
  <2>3. (LockInv /\ OwnerInv /\ HealthInv)'
    BY <1>5 DEF Retire
  <2>4. NoOrphan'
    <3>1. \A j \in Invokers \ {i} : \A w \in Workers : Keeps(j, w) => Keeps(j, w)'
      BY <1>5 DEF Retire, Keeps
    <3>2. \A w \in Workers : proc'[w] \in Running => proc[w] \in Running \/ Keeps(i, w)'
      BY <1>5 DEF Retire
    <3>3. \A w \in Workers : /\ owned = w \/ Keeps(i, w)
                             /\ proc'[w] \in Running
                             => owned' = w \/ Keeps(i, w)'
      BY <1>5 DEF Retire, Keeps
    <3> QED
      BY <3>1, <3>2, <3>3, KeepersStay
  <2> QED
    BY <2>1, <2>2, <2>3, <2>4
<1>6. CASE Call(i)
  <2>1. TypeOK'
    BY <1>6 DEF Call
  <2>2. (DeadIsEarned /\ OneKeeper /\ Introduced /\ AttemptsInv)'
    BY <1>6 DEF Call
  <2>3. (LockInv /\ OwnerInv /\ HealthInv)'
    BY <1>6 DEF Call
  <2>4. NoOrphan'
    BY <1>6, UseKeeps
  <2> QED
    BY <2>1, <2>2, <2>3, <2>4
<1> QED
  BY <1>1, <1>2, <1>3, <1>4, <1>5, <1>6

LEMMA ResetStep ==
  ASSUME IndInv, Reset
  PROVE  IndInv'
<1> USE LauncherAssumption DEF IndInv, TypeOK, DeadIsEarned, OneKeeper, Introduced, LockInv,
             OwnerInv, HealthInv, AttemptsInv, Running, Handshake, Workers, launcher, invokes,
             workers
<1>1. (TypeOK /\ DeadIsEarned /\ OneKeeper /\ Introduced /\ AttemptsInv)'
  BY DEF Reset, DropOwned
<1>2. (LockInv /\ OwnerInv /\ HealthInv)'
  BY DEF Reset, DropOwned
<1>3. NoOrphan'
  BY KeepersSame DEF Reset, DropOwned
<1> QED
  BY <1>1, <1>2, <1>3

LEMMA WorkerSteps ==
  ASSUME IndInv, NEW w \in Workers,
         RecordPong(w) \/ WorkerListens(w) \/ WorkerGreets(w) \/ WorkerDies(w)
  PROVE  IndInv'
<1> USE LauncherAssumption DEF IndInv, TypeOK, DeadIsEarned, OneKeeper, Introduced, LockInv,
             OwnerInv, HealthInv, AttemptsInv, Running, Handshake, Workers, launcher, invokes,
             workers
<1>1. CASE RecordPong(w)
  BY <1>1 DEF RecordPong, NoOrphan
<1>2. ASSUME proc[w] \in Running,
             \/ proc[w] = "booting" /\ proc' = [proc EXCEPT ![w] = "listening"]
             \/ proc[w] = "listening" /\ proc' = [proc EXCEPT ![w] = "greeted"]
             \/ proc' = [proc EXCEPT ![w] = "gone"],
             UNCHANGED << launcher, invokes, spawned, health, ponged, failures >>
      PROVE  IndInv'
  <2>1. (TypeOK /\ DeadIsEarned /\ OneKeeper /\ AttemptsInv)'
    BY <1>2
  <2>2. (Introduced /\ LockInv /\ OwnerInv)'
    BY <1>2
  <2>3. HealthInv'
    BY <1>2
  <2>4. NoOrphan'
    BY <1>2, KeepersSame
  <2> QED
    BY <2>1, <2>2, <2>3, <2>4
<1> QED
  BY <1>1, <1>2 DEF WorkerListens, WorkerGreets, WorkerDies

LEMMA NextInd == IndInv /\ [Next]_vars => IndInv'
<1> SUFFICES ASSUME IndInv, [Next]_vars PROVE IndInv'
  OBVIOUS
<1>1. ASSUME NEW i \in Invokers,
             \/ EnterSpawning(i) \/ EnterBackoff(i) \/ LeaveBackoff(i) \/ EnterAlive(i)
             \/ CreateChild(i) \/ ReadReady(i) \/ Connect(i) \/ ReadHello(i)
             \/ SpawnOk(i) \/ SpawnFails(i)
             \/ ProbeKnown(i) \/ Ping(i)
             \/ Check(i) \/ Condemn(i) \/ Retire(i) \/ Call(i)
      PROVE  IndInv'
  BY <1>1, EnterSteps, HandshakeSteps, SpawnSteps, UseSteps
<1>2. CASE Reset
  BY <1>2, ResetStep
<1>3. ASSUME NEW w \in Workers,
             RecordPong(w) \/ WorkerListens(w) \/ WorkerGreets(w) \/ WorkerDies(w)
      PROVE  IndInv'
  BY <1>3, WorkerSteps
<1>4. CASE UNCHANGED vars
  BY <1>4 DEF IndInv, TypeOK, DeadIsEarned, OneKeeper, Introduced, NoOrphan, LockInv,
              OwnerInv, HealthInv, AttemptsInv, vars, launcher, invokes, workers
<1> QED
  BY <1>1, <1>2, <1>3, <1>4 DEF Next

LEMMA IndInvariant == Spec => []IndInv
<1>1. Init => IndInv
  BY InitInd
<1>2. IndInv /\ [Next]_vars => IndInv'
  BY NextInd
<1> QED
  BY <1>1, <1>2, PTL DEF Spec

--------------------------------------------------------------------------------
(* The theorems. *)

(* However many invokes share the launcher: it gives up only after         *)
(* MaxAttempts failures in a row, one invoke at a time spawns or stops a   *)
(* worker, and the worker handed out has said worker.hello.                *)
THEOREM LauncherSound == Spec => []LauncherInv
<1>1. IndInv => LauncherInv
  BY DEF IndInv, LauncherInv
<1> QED
  BY <1>1, IndInvariant, PTL

(* However spawns, failures, resets and condemnations interleave, a worker *)
(* process that runs has somebody who will stop it.                        *)
THEOREM NoOrphanLeft == Spec => []NoOrphan
<1>1. IndInv => NoOrphan
  BY DEF IndInv
<1> QED
  BY <1>1, IndInvariant, PTL

--------------------------------------------------------------------------------

(* What a call may wait for, and what the worker may have in hand. *)
Requests == [op : {"write", "audit", "read"}, of : Calls]
Savings == [op : {"saving"}, of : Calls]
Files == [has : {"part"}, by : Calls] \cup [has : {"whole"}, by : Calls, sound : BOOLEAN]

DocTyped ==
  /\ step \in [Calls -> {"idle", "writing", "written", "auditing", "reading", "ok", "failed"}]
  /\ spec \in [Calls -> {NoSpec} \cup Specs]
  /\ before \in [Calls -> SUBSET Calls]
  /\ inbox \in Seq(Requests)
  /\ running \in Requests \cup Savings \cup {NoRequest}
  /\ disk \in Files \cup {NoFile}
  /\ up \in BOOLEAN

(* A request of a call is the one it waits for, or waited for until it     *)
(* gave up.                                                                *)
Awaits(k, op) ==
  \/ step[k] = "failed"
  \/ step[k] = "writing" /\ op \in {"write", "saving"}
  \/ step[k] = "auditing" /\ op = "audit"
  \/ step[k] = "reading" /\ op = "read"

(* A call has one request at most, in the pipe or in the worker's hands,   *)
(* and a dead worker leaves none.                                          *)
LineInv ==
  /\ ~ up => inbox = << >> /\ running = NoRequest
  /\ \A i \in 1 .. Len(inbox) : Awaits(inbox[i].of, inbox[i].op)
  /\ \A i, j \in 1 .. Len(inbox) : inbox[i].of = inbox[j].of => i = j
  /\ running # NoRequest =>
       /\ Awaits(running.of, running.op)
       /\ \A i \in 1 .. Len(inbox) : inbox[i].of # running.of

(* Only docs.inspect reads, only docs.generate writes, and the calls that  *)
(* ended before another began are others.                                  *)
AskedInv ==
  \A k \in Calls :
    /\ step[k] = "reading" => spec[k].op = "inspect"
    /\ before[k] \subseteq Ended
    /\ k \notin before[k]

(* The call's document is in the file, as far as the call knows. *)
Handed(k) == step[k] \in {"written", "auditing"} \/ Generated(k)

(* The pipe is a queue: when the document of a call is written, what the   *)
(* calls had asked for that ended before it began has been dealt with.     *)
OrderInv ==
  \A k \in Calls :
    /\ \A i, j \in 1 .. Len(inbox) :
         i < j /\ inbox[i].of = k /\ inbox[i].op = "write" => inbox[j].of \notin before[k]
    /\ \/ Handed(k)
       \/ running # NoRequest /\ running.of = k /\ running.op \in {"write", "saving"}
       => \A j \in 1 .. Len(inbox) : inbox[j].of \notin before[k]
    /\ Handed(k) /\ running # NoRequest => running.of \notin before[k]

(* The file is being written by whom the worker writes for; a document     *)
(* that was handed over is there, or what a later call made of it.         *)
FileInv ==
  /\ running.op = "saving" => disk = [has |-> "part", by |-> running.of]
  /\ \A k \in Calls :
       Handed(k) =>
         /\ disk # NoFile /\ disk.by \notin before[k]
         /\ disk.by = k => /\ disk.has = "whole"
                           /\ Generated(k) /\ spec[k].format = "pdf" => disk.sound

DocInv == DocTyped /\ LineInv /\ AskedInv /\ OrderInv /\ FileInv

(* A request, a save and a file are never what stands for none. *)
LEMMA Shapes ==
  /\ \A r \in Requests \cup Savings : r # NoRequest /\ r.of \in Calls
  /\ \A r \in Requests : r.op \in {"write", "audit", "read"}
  /\ \A f \in Files : f # NoFile /\ f.by \in Calls /\ f.has \in {"part", "whole"}
BY DEF Requests, Savings, Files, NoRequest, NoFile

(* What is in the pipe are requests. *)
LEMMA Lined ==
  ASSUME DocTyped
  PROVE  /\ Len(inbox) \in Nat
         /\ \A i \in 1 .. Len(inbox) : inbox[i] \in Requests /\ inbox[i].of \in Calls
BY Shapes DEF DocTyped

(* A request goes to the end of the pipe: a new pipe is an empty one. *)
LEMMA PipeGrows ==
  ASSUME LineInv, NEW r, inbox' = IF up THEN Append(inbox, r) ELSE << r >>
  PROVE  inbox' = Append(inbox, r)
<1>1. ~ up => inbox = << >>
  BY DEF LineInv
<1>2. Append(<< >>, r) = << r >>
  OBVIOUS
<1>3. CASE up
  BY <1>3, Zenon
<1>4. CASE ~ up
  BY <1>1, <1>2, <1>4, Zenon
<1> QED
  BY <1>3, <1>4

(* Nobody has asked for anything. *)
LEMMA DocInitInv == DocInit => DocInv
<1> SUFFICES ASSUME DocInit PROVE DocInv
  OBVIOUS
<1> USE DEF DocInit
<1>1. DocTyped
  <2>1. inbox \in Seq(Requests)
    OBVIOUS
  <2>2. running = NoRequest /\ disk = NoFile /\ up = FALSE
    OBVIOUS
  <2>3. /\ step \in [Calls -> {"idle", "writing", "written", "auditing", "reading", "ok", "failed"}]
        /\ spec \in [Calls -> {NoSpec} \cup Specs]
        /\ before \in [Calls -> SUBSET Calls]
    OBVIOUS
  <2> QED
    BY <2>1, <2>2, <2>3, Zenon DEF DocTyped
<1>2. LineInv /\ AskedInv
  BY DEF LineInv, AskedInv
<1>3. \A k \in Calls : ~ Handed(k)
  BY DEF Handed, Generated
<1>4. OrderInv
  BY <1>3 DEF OrderInv
<1>5. FileInv
  BY <1>3 DEF FileInv, NoRequest
<1> QED
  BY <1>1, <1>2, <1>4, <1>5 DEF DocInv

(* A call that begins goes behind all that was asked before. *)
LEMMA BeginInv ==
  ASSUME DocInv, NEW k \in Calls, Refuse(k) \/ \E s \in Specs : Start(k, s)
  PROVE  DocInv'
<1> USE Shapes DEF DocInv
<1>1. CASE Refuse(k)
  <2>1. /\ step[k] = "idle" /\ step' = [step EXCEPT ![k] = "failed"]
        /\ spec' = [spec EXCEPT ![k] = NoSpec]
        /\ before' = [before EXCEPT ![k] = Ended]
        /\ UNCHANGED << inbox, running, disk, up >>
    BY <1>1 DEF Refuse, Begin
  <2>2. DocTyped'
    BY <2>1 DEF DocTyped, Ended
  <2>3. LineInv'
    BY <2>1 DEF DocTyped, LineInv, Awaits
  <2>4. AskedInv'
    BY <2>1 DEF DocTyped, AskedInv, Ended
  <2>5. \A j \in Calls : Handed(j)' => Handed(j) /\ j # k
    BY <2>1 DEF DocTyped, Handed, Generated
  <2>6. \A i \in 1 .. Len(inbox) : inbox[i].of # k
    BY <2>1 DEF LineInv, Awaits
  <2>7. running # NoRequest => running.of # k
    BY <2>1 DEF LineInv, Awaits
  <2>8. OrderInv'
    BY <2>1, <2>5, <2>6, <2>7 DEF DocTyped, OrderInv
  <2>9. FileInv'
    BY <2>1, <2>5 DEF DocTyped, FileInv, Generated
  <2> QED
    BY <2>2, <2>3, <2>4, <2>8, <2>9
<1>2. CASE \E s \in Specs : Start(k, s)
  <2>1. PICK s \in Specs : Start(k, s)
    BY <1>2
  <2> DEFINE op == IF s.op = "inspect" THEN "read" ELSE "write"
             r == Request(k, op)
  <2>2. /\ step[k] = "idle"
        /\ step' = [step EXCEPT ![k] = IF s.op = "inspect" THEN "reading" ELSE "writing"]
        /\ spec' = [spec EXCEPT ![k] = s]
        /\ before' = [before EXCEPT ![k] = Ended]
        /\ inbox' = IF up THEN Append(inbox, r) ELSE << r >>
        /\ up' = TRUE
        /\ UNCHANGED << running, disk >>
    BY <2>1 DEF Start, Begin, Send
  <2>3. r \in Requests /\ r.of = k /\ r.op = op /\ op \in {"read", "write"}
    BY DEF Request, Requests
  <2> HIDE DEF r
  <2>4. inbox' = Append(inbox, r)
    BY <2>2, PipeGrows
  <2>5. /\ Len(inbox') = Len(inbox) + 1 /\ Len(inbox) \in Nat
        /\ inbox'[Len(inbox) + 1] = r
        /\ \A i \in 1 .. Len(inbox) : inbox'[i] = inbox[i]
        /\ inbox' \in Seq(Requests)
    BY <2>3, <2>4 DEF DocTyped
  <2>6. DocTyped'
    BY <2>2, <2>5 DEF DocTyped, Ended
  <2>7. \A i \in 1 .. Len(inbox) : inbox[i].of # k /\ inbox[i].of \in Calls
    BY <2>2, Lined DEF LineInv, Awaits
  <2>8. running # NoRequest => running.of # k /\ running.of \in Calls
    BY <2>2 DEF LineInv, Awaits, DocTyped
  <2>9. LineInv'
    BY <2>2, <2>3, <2>5, <2>7, <2>8 DEF DocTyped, LineInv, Awaits
  <2>10. AskedInv'
    BY <2>2 DEF DocTyped, AskedInv, Ended
  <2>11. \A j \in Calls : Handed(j)' => Handed(j) /\ j # k
    BY <2>2 DEF DocTyped, Handed, Generated
  <2>12. \A j \in Calls : k \notin before[j]
    BY <2>2 DEF AskedInv, Ended
  <2>13. OrderInv'
    BY <2>2, <2>3, <2>5, <2>7, <2>8, <2>11, <2>12 DEF DocTyped, OrderInv
  <2>14. FileInv'
    BY <2>2, <2>11 DEF DocTyped, FileInv, Generated
  <2> QED
    BY <2>6, <2>9, <2>10, <2>13, <2>14
<1> QED
  BY <1>1, <1>2

(* So does the audit of a PDF that was written. *)
LEMMA AuditAsked ==
  ASSUME DocInv, NEW k \in Calls, SendAudit(k)
  PROVE  DocInv'
<1> USE Shapes DEF DocInv
<1> DEFINE r == Request(k, "audit")
<1>1. /\ step[k] = "written" /\ step' = [step EXCEPT ![k] = "auditing"]
      /\ inbox' = IF up THEN Append(inbox, r) ELSE << r >>
      /\ up' = TRUE
      /\ UNCHANGED << spec, before, running, disk >>
  BY DEF SendAudit, Send, asked
<1>2. r \in Requests /\ r.of = k /\ r.op = "audit"
  BY DEF Request, Requests
<1> HIDE DEF r
<1>3. inbox' = Append(inbox, r)
  BY <1>1, PipeGrows
<1>4. /\ Len(inbox') = Len(inbox) + 1 /\ Len(inbox) \in Nat
      /\ inbox'[Len(inbox) + 1] = r
      /\ \A i \in 1 .. Len(inbox) : inbox'[i] = inbox[i]
      /\ inbox' \in Seq(Requests)
  BY <1>2, <1>3 DEF DocTyped
<1>5. DocTyped'
  BY <1>1, <1>4 DEF DocTyped
<1>6. \A i \in 1 .. Len(inbox) : inbox[i].of # k /\ inbox[i].of \in Calls
  BY <1>1, Lined DEF LineInv, Awaits
<1>7. running # NoRequest => running.of # k /\ running.of \in Calls
  BY <1>1 DEF LineInv, Awaits, DocTyped
<1>8. LineInv'
  BY <1>1, <1>2, <1>4, <1>6, <1>7 DEF DocTyped, LineInv, Awaits
<1>9. AskedInv'
  BY <1>1 DEF DocTyped, AskedInv, Ended
<1>10. \A j \in Calls : Handed(j)' => Handed(j)
  BY <1>1 DEF DocTyped, Handed, Generated
<1>11. \A j \in Calls : k \notin before[j]
  BY <1>1 DEF AskedInv, Ended
<1>12. OrderInv'
  BY <1>1, <1>2, <1>4, <1>6, <1>7, <1>10, <1>11 DEF DocTyped, OrderInv
<1>13. FileInv'
  BY <1>1, <1>10 DEF DocTyped, FileInv, Generated
<1> QED
  BY <1>5, <1>8, <1>9, <1>12, <1>13

(* A call that gives up hands nothing over. *)
LEMMA GivenUp ==
  ASSUME DocInv, NEW k \in Calls, GiveUp(k)
  PROVE  DocInv'
<1> USE Shapes DEF DocInv
<1>1. /\ step[k] \in {"writing", "written", "auditing", "reading"}
      /\ step' = [step EXCEPT ![k] = "failed"]
      /\ UNCHANGED << spec, before, inbox, running, disk, up >>
  BY DEF GiveUp, asked
<1>2. DocTyped'
  BY <1>1 DEF DocTyped
<1>3. LineInv'
  <2>1. \A j \in Calls : \A op : Awaits(j, op) => Awaits(j, op)'
    BY <1>1 DEF DocTyped, Awaits
  <2> QED
    BY <1>1, <2>1, Lined DEF LineInv, DocTyped
<1>4. AskedInv'
  BY <1>1 DEF DocTyped, AskedInv, Ended
<1>5. \A j \in Calls : Handed(j)' => Handed(j) /\ (Generated(j)' => Generated(j))
  BY <1>1 DEF DocTyped, Handed, Generated
<1>6. OrderInv'
  BY <1>1, <1>5 DEF OrderInv
<1>7. FileInv'
  BY <1>1, <1>5 DEF FileInv
<1> QED
  BY <1>2, <1>3, <1>4, <1>6, <1>7

(* The worker takes the oldest request. *)
LEMMA Taken ==
  ASSUME DocInv, Take
  PROVE  DocInv'
<1> USE Shapes DEF DocInv
<1>1. /\ up /\ running = NoRequest /\ inbox # << >>
      /\ running' = inbox[1] /\ inbox' = Tail(inbox)
      /\ UNCHANGED << step, spec, before, disk, up >>
  BY DEF Take, asked
<1>2. /\ Len(inbox) \in Nat /\ Len(inbox') = Len(inbox) - 1 /\ 1 \in 1 .. Len(inbox)
      /\ inbox' \in Seq(Requests)
      /\ \A i \in 1 .. Len(inbox') : inbox'[i] = inbox[i + 1] /\ i + 1 \in 1 .. Len(inbox)
  BY <1>1 DEF DocTyped
<1>3. running' \in Requests /\ running' # NoRequest /\ running'.of \in Calls
      /\ running'.op # "saving"
  BY <1>1, <1>2, Lined
<1>4. DocTyped'
  BY <1>1, <1>2, <1>3 DEF DocTyped
<1>5. LineInv'
  BY <1>1, <1>2, <1>3 DEF LineInv, Awaits
<1>6. AskedInv'
  BY <1>1 DEF AskedInv, Ended
<1>7. \A j \in Calls : Handed(j)' = Handed(j) /\ Generated(j)' = Generated(j)
  BY <1>1 DEF Handed, Generated
<1>8. OrderInv'
  BY <1>1, <1>2, <1>3, <1>7 DEF OrderInv
<1>9. FileInv'
  BY <1>1, <1>3, <1>7 DEF FileInv
<1> QED
  BY <1>4, <1>5, <1>6, <1>8, <1>9

(* An answer, whatever the file is by then: the request is gone, and a     *)
(* call has its document only by a save, is done only by a save or an      *)
(* audit.                                                                  *)
LEMMA Answered ==
  ASSUME DocInv, NEW op, NEW to \in {"failed", "written", "ok"}, running # NoRequest,
         op = IF running.op = "saving" THEN "write" ELSE running.op,
         to = "written" => op = "write",
         Answer(op, to), disk' \in Files \cup {NoFile}
  PROVE  /\ DocTyped' /\ LineInv' /\ AskedInv' /\ OrderInv'
         /\ \A j \in Calls : /\ Handed(j)' => Handed(j) \/ (j = running.of /\ op = "write")
                             /\ Generated(j)' => \/ Generated(j)
                                                 \/ j = running.of /\ op # "read" /\ to = "ok"
         /\ spec' = spec /\ before' = before /\ running' = NoRequest
<1> USE Shapes DEF DocInv
<1> DEFINE k == running.of
           waits == [write |-> "writing", audit |-> "auditing", read |-> "reading"]
<1>1. /\ running' = NoRequest
      /\ step' = IF step[k] = waits[op] THEN [step EXCEPT ![k] = to] ELSE step
      /\ UNCHANGED << spec, before, inbox, up >>
  BY DEF Answer, asked
<1>2. k \in Calls /\ running \in Requests \cup Savings /\ op \in {"write", "audit", "read"}
  BY DEF DocTyped, Requests, Savings
<1>3. \/ step' = step
      \/ /\ step' = [step EXCEPT ![k] = to]
         /\ \/ op = "write" /\ step[k] = "writing"
            \/ op = "audit" /\ step[k] = "auditing"
            \/ op = "read" /\ step[k] = "reading"
  BY <1>1, <1>2
<1> HIDE DEF k, waits
<1>4. \A i \in 1 .. Len(inbox) : inbox[i].of # k
  BY DEF LineInv, k
<1>5. DocTyped'
  BY <1>1, <1>2, <1>3 DEF DocTyped
<1>6. LineInv'
  <2>1. \A j \in Calls \ {k} : \A o : Awaits(j, o) => Awaits(j, o)'
    BY <1>3 DEF DocTyped, Awaits
  <2> QED
    BY <1>1, <1>4, <2>1, Lined DEF LineInv
<1>7. AskedInv'
  <2>1. step'[k] = "reading" => step[k] = "reading"
    BY <1>2, <1>3 DEF DocTyped
  <2>2. Ended \subseteq Ended'
    BY <1>3 DEF DocTyped, Ended
  <2>3. \A j \in Calls : step'[j] = "reading" => step[j] = "reading"
    BY <1>3, <2>1 DEF DocTyped
  <2> QED
    BY <1>1, <2>2, <2>3 DEF AskedInv
<1>8. ASSUME NEW j \in Calls
      PROVE  /\ Handed(j)' => Handed(j) \/ (j = k /\ op = "write")
             /\ Generated(j)' => Generated(j) \/ (j = k /\ op # "read" /\ to = "ok")
  <2>1. CASE j # k
    BY <1>1, <1>3, <2>1 DEF DocTyped, Handed, Generated
  <2>2. CASE step' = step
    BY <1>1, <2>2 DEF Handed, Generated
  <2>3. CASE j = k /\ step' = [step EXCEPT ![k] = to] /\ op = "read" /\ step[k] = "reading"
    BY <1>1, <1>2, <2>3 DEF DocTyped, AskedInv, Handed, Generated
  <2>4. CASE j = k /\ step' = [step EXCEPT ![k] = to] /\ op = "write"
    BY <1>1, <1>2, <2>4 DEF DocTyped, Handed, Generated
  <2>5. CASE j = k /\ step' = [step EXCEPT ![k] = to] /\ op = "audit" /\ step[k] = "auditing"
    BY <1>1, <1>2, <2>5 DEF DocTyped, Handed, Generated
  <2> QED
    BY <1>3, <2>1, <2>2, <2>3, <2>4, <2>5
<1>9. OrderInv'
  <2>1. op = "write" => running.op \in {"write", "saving"}
    OBVIOUS
  <2> QED
    BY <1>1, <1>2, <1>8, <2>1 DEF OrderInv, k
<1> QED
  BY <1>1, <1>5, <1>6, <1>7, <1>8, <1>9 DEF k

(* The handlers of the worker. *)
LEMMA HandlerSteps ==
  ASSUME DocInv, HandlerRefuses \/ BeginSave \/ SaveFails \/ EndSave \/ Audit \/ ReadFile
  PROVE  DocInv'
<1> USE Shapes DEF DocInv
<1>0. running # NoRequest => /\ running \in Requests \cup Savings /\ running.of \in Calls
                             /\ Awaits(running.of, running.op)
  BY DEF DocTyped, LineInv
<1>n. NoRequest.op = "none"
  BY DEF NoRequest
<1>1. CASE HandlerRefuses \/ SaveFails
  <2>1. PICK op : /\ op = IF running.op = "saving" THEN "write" ELSE running.op
                  /\ running # NoRequest /\ Answer(op, "failed") /\ UNCHANGED disk
    BY <1>1, <1>n DEF HandlerRefuses, SaveFails
  <2>2. disk' \in Files \cup {NoFile}
    BY <2>1 DEF DocTyped
  <2>3. /\ DocTyped' /\ LineInv' /\ AskedInv' /\ OrderInv'
        /\ \A j \in Calls : /\ Handed(j)' => Handed(j) \/ (j = running.of /\ op = "write")
                            /\ Generated(j)' => Generated(j)
        /\ spec' = spec /\ before' = before /\ running' = NoRequest
    BY <2>1, <2>2, Answered
  <2>4. \A j \in Calls : Handed(j)' => Handed(j)
    <3> SUFFICES ASSUME NEW j \in Calls, Handed(j)', ~ Handed(j), j = running.of, op = "write"
                 PROVE  FALSE
      BY <2>3
    <3>1. step[j] \in {"writing", "failed"}
      BY <1>0, <2>1 DEF Awaits
    <3>2. step'[j] = "failed"
      BY <2>1, <3>1 DEF Answer, DocTyped
    <3> QED
      BY <3>2 DEF Handed, Generated
  <2>5. FileInv'
    BY <2>1, <2>3, <2>4, <1>n DEF FileInv
  <2> QED
    BY <2>3, <2>5
<1>2. CASE BeginSave
  <2> DEFINE k == running.of
  <2>1. /\ running.op = "write" /\ running # NoRequest
        /\ disk' = [has |-> "part", by |-> k]
        /\ running' = [running EXCEPT !.op = "saving"]
        /\ UNCHANGED << step, spec, before, inbox, up >>
    BY <1>2, <1>n DEF BeginSave, asked
  <2>2. k \in Calls /\ running \in Requests
    BY <1>0, <2>1 DEF Requests, Savings
  <2>3. running' \in Savings /\ running' # NoRequest /\ running'.of = k /\ running'.op = "saving"
    BY <2>1, <2>2 DEF Requests, Savings
  <2>4. disk' \in Files /\ disk' # NoFile /\ disk'.by = k
    BY <2>1, <2>2 DEF Files
  <2>5. DocTyped'
    BY <2>1, <2>3, <2>4 DEF DocTyped
  <2>6. LineInv'
    BY <2>1, <2>3 DEF LineInv, Awaits
  <2>7. AskedInv'
    BY <2>1 DEF AskedInv, Ended
  <2>8. \A j \in Calls : Handed(j)' = Handed(j) /\ Generated(j)' = Generated(j)
    BY <2>1 DEF Handed, Generated
  <2>9. OrderInv'
    BY <2>1, <2>3, <2>8 DEF OrderInv
  <2>10. \A j \in Calls : Handed(j) => j # k /\ k \notin before[j]
    BY <1>0, <2>1 DEF OrderInv, Awaits, Handed, Generated
  <2>11. FileInv'
    BY <2>1, <2>3, <2>4, <2>8, <2>10 DEF FileInv
  <2> QED
    BY <2>5, <2>6, <2>7, <2>9, <2>11
<1>3. CASE EndSave
  <2> DEFINE k == running.of
             to == IF spec[k].format = "pdf" THEN "written" ELSE "ok"
  <2>1. PICK sound \in Quality(spec[k]) :
          /\ running.op = "saving" /\ running # NoRequest
          /\ disk' = [has |-> "whole", by |-> k, sound |-> sound]
          /\ Answer("write", to)
    BY <1>3, <1>n DEF EndSave
  <2>2. sound \in BOOLEAN /\ k \in Calls
    BY <1>0, <2>1 DEF Quality
  <2>3. disk' \in Files /\ disk' # NoFile /\ disk'.by = k /\ disk'.has = "whole"
    BY <2>1, <2>2 DEF Files
  <2>4. to \in {"written", "ok"} /\ (to = "ok" => spec[k].format # "pdf")
    OBVIOUS
  <2> HIDE DEF to
  <2>5. /\ DocTyped' /\ LineInv' /\ AskedInv' /\ OrderInv'
        /\ \A j \in Calls : /\ Handed(j)' => Handed(j) \/ j = k
                            /\ Generated(j)' => Generated(j) \/ (j = k /\ to = "ok")
        /\ spec' = spec /\ before' = before /\ running' = NoRequest
    BY <2>1, <2>3, <2>4, Answered
  <2>6. step[k] \in {"writing", "failed"}
    BY <1>0, <2>1 DEF Awaits
  <2>7. \A j \in Calls : Handed(j) => k \notin before[j] /\ j # k
    BY <2>1, <2>6 DEF OrderInv, Handed, Generated
  <2>8. k \notin before[k]
    BY <2>2 DEF AskedInv
  <2>9. ASSUME NEW j \in Calls, Handed(j)'
        PROVE  /\ disk' # NoFile /\ disk'.by \notin before'[j]
               /\ disk'.by = j => /\ disk'.has = "whole"
                                  /\ Generated(j)' /\ spec'[j].format = "pdf" => disk'.sound
    <3>1. CASE j = k
      <4>1. ~ Generated(k)
        BY <2>6 DEF Generated
      <4> QED
        BY <3>1, <4>1, <2>3, <2>4, <2>5, <2>8
    <3>2. CASE j # k
      BY <3>2, <2>3, <2>5, <2>7, <2>9
    <3> QED
      BY <3>1, <3>2
  <2>10. FileInv'
    BY <1>n, <2>5, <2>9 DEF FileInv
  <2> QED
    BY <2>5, <2>10
<1>4. CASE Audit
  <2> DEFINE k == running.of
  <2>1. PICK passes \in Passes : /\ running.op = "audit" /\ running # NoRequest
                                 /\ Answer("audit", IF passes THEN "ok" ELSE "failed")
                                 /\ UNCHANGED disk
    BY <1>4, <1>n DEF Audit
  <2> DEFINE to == IF passes THEN "ok" ELSE "failed"
  <2>2. disk' \in Files \cup {NoFile}
    BY <2>1 DEF DocTyped
  <2>3. to \in {"ok", "failed"} /\ Answer("audit", to) /\ (to = "ok" => passes)
    BY <2>1
  <2> HIDE DEF to
  <2>4. /\ DocTyped' /\ LineInv' /\ AskedInv' /\ OrderInv'
        /\ \A j \in Calls : /\ Handed(j)' => Handed(j)
                            /\ Generated(j)' => Generated(j) \/ (j = k /\ to = "ok")
        /\ spec' = spec /\ before' = before /\ running' = NoRequest
    BY <2>1, <2>2, <2>3, Answered
  <2>5. /\ disk # NoFile => disk.has # "nothing"
        /\ disk.has = "whole" /\ to = "ok" /\ spec[disk.by].format = "pdf" => disk.sound
    <3>1. disk = NoFile => disk.has = "nothing"
      BY DEF NoFile
    <3> QED
      BY <2>1, <2>3, <3>1 DEF Passes, DocTyped
  <2>6. FileInv'
    BY <1>n, <2>1, <2>4, <2>5 DEF FileInv
  <2> QED
    BY <2>4, <2>6
<1>5. CASE ReadFile
  <2> DEFINE to == IF disk.has = "whole" /\ spec[disk.by].format = spec[running.of].format
                   THEN "ok" ELSE "failed"
  <2>1. running.op = "read" /\ running # NoRequest /\ Answer("read", to) /\ UNCHANGED disk
    BY <1>5, <1>n DEF ReadFile
  <2>2. disk' \in Files \cup {NoFile}
    BY <2>1 DEF DocTyped
  <2>3. to \in {"ok", "failed"}
    OBVIOUS
  <2> HIDE DEF to
  <2>4. /\ DocTyped' /\ LineInv' /\ AskedInv' /\ OrderInv'
        /\ \A j \in Calls : /\ Handed(j)' => Handed(j)
                            /\ Generated(j)' => Generated(j)
        /\ spec' = spec /\ before' = before /\ running' = NoRequest
    BY <2>1, <2>2, <2>3, Answered
  <2>5. FileInv'
    BY <1>n, <2>1, <2>4 DEF FileInv
  <2> QED
    BY <2>4, <2>5
<1> QED
  BY <1>1, <1>2, <1>3, <1>4, <1>5

(* The death of the worker takes every request and leaves the file. *)
LEMMA Died ==
  ASSUME DocInv, Crash
  PROVE  DocInv'
<1> USE Shapes DEF DocInv
<1>1. /\ up' = FALSE /\ inbox' = << >> /\ running' = NoRequest
      /\ UNCHANGED << step, spec, before, disk >>
  BY DEF Crash, asked
<1>2. DocTyped'
  <2>1. << >> \in Seq(Requests)
    OBVIOUS
  <2>2. /\ inbox' \in Seq(Requests) /\ up' \in BOOLEAN
        /\ running' \in Requests \cup Savings \cup {NoRequest}
    BY <1>1, <2>1
  <2> QED
    BY <1>1, <2>2 DEF DocTyped
<1>3. LineInv' /\ AskedInv'
  BY <1>1 DEF LineInv, AskedInv, Ended
<1>4. \A j \in Calls : Handed(j)' = Handed(j) /\ Generated(j)' = Generated(j)
  BY <1>1 DEF Handed, Generated
<1>5. OrderInv'
  BY <1>1 DEF OrderInv
<1>6. FileInv'
  BY <1>1, <1>4 DEF FileInv, NoRequest
<1> QED
  BY <1>2, <1>3, <1>5, <1>6

(* The invariant of the document tools. *)
LEMMA DocInvHolds == DocSpec => []DocInv
<1>1. ASSUME DocInv, [DocNext]_docVars PROVE DocInv'
  <2>1. CASE UNCHANGED docVars
    BY <1>1, <2>1 DEF docVars, asked, DocInv, DocTyped, LineInv, Awaits, AskedInv, Ended, OrderInv,
       FileInv, Handed, Generated
  <2> QED
    BY <1>1, <2>1, BeginInv, AuditAsked, GivenUp, Taken, HandlerSteps, Died DEF DocNext
<1> QED
  BY <1>1, DocInitInv, PTL DEF DocSpec

(* What a successful docs.generate wrote is a document, and a PDF passes   *)
(* the audit, as long as the file is its own (render of pdfpro.rs): the    *)
(* audit looks at the file at the path, and if that is the call's, it is   *)
(* what the call's own write left whole (FileInv).                         *)
THEOREM HandedIsGood == DocSpec => []OkFileIsGood
<1>1. DocInv => OkFileIsGood
  BY Shapes DEF DocInv, FileInv, Handed, OkFileIsGood, Generated, NoFile
<1> QED
  BY <1>1, DocInvHolds, PTL

(* What a successful docs.generate wrote is not undone by a call that had  *)
(* ended before it began (worker_main, invoke of manager.rs): the worker   *)
(* takes requests in their order, so that such a call has none left when   *)
(* the document is written (OrderInv).                                     *)
THEOREM HandedStands == DocSpec => []LastOkStands
<1>1. DocInv => LastOkStands
  BY Shapes DEF DocInv, DocTyped, FileInv, Handed, LastOkStands, Generated
<1> QED
  BY <1>1, DocInvHolds, PTL
==============================================================================
