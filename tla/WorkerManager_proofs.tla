-------------------------- MODULE WorkerManager_proofs --------------------------
(***************************************************************************)
(* One worker process for every set of calls and every size of the command *)
(* channel and of the pipe: WorkerInv and ShutdownReaps.                   *)
(*                                                                         *)
(* The argument follows a command: before it is sent nobody has it, then   *)
(* the channel has it once, then the table; who removes it from the one    *)
(* either puts it into the other or answers it.                            *)
(***************************************************************************)
EXTENDS WorkerManager, TLAPS

(* No command is in a queue twice. *)
Distinct(s) == \A i, j \in DOMAIN s : s[i] = s[j] => i = j

(* The channel and the table never hold the same call, nor one that was    *)
(* not sent yet; what a caller gave up on may still be in either.          *)
HeldOnce ==
  /\ Distinct(queue)
  /\ pending \cap Range(queue) = {}
  /\ \A c \in Calls : pc[c] \in {"idle", "sending"} => c \notin pending \cup Range(queue)

(* The actor writes, and the worker works on, what was asked. *)
BusyInv ==
  /\ actor = "writing" => writing \in Calls
  /\ worker = "busy" => job \in Requests

IndInv == WorkerInv /\ ShutdownReaps /\ HeldOnce /\ BusyInv

--------------------------------------------------------------------------------
(* The channel. *)

(* A command more is in the channel once. *)
LEMMA ChannelAppend ==
  ASSUME NEW S, NEW s \in Seq(S), NEW x \in S, Distinct(s), x \notin Range(s)
  PROVE  /\ Append(s, x) \in Seq(S)
         /\ Distinct(Append(s, x))
         /\ Range(Append(s, x)) = Range(s) \cup {x}
<1>1. /\ Len(s) \in Nat /\ DOMAIN s = 1 .. Len(s)
      /\ DOMAIN Append(s, x) = 1 .. Len(s) + 1
      /\ \A i \in 1 .. Len(s) : Append(s, x)[i] = s[i]
      /\ Append(s, x)[Len(s) + 1] = x
  OBVIOUS
<1>2. \A i \in 1 .. Len(s) + 1 : i \in 1 .. Len(s) \/ i = Len(s) + 1
  BY <1>1
<1>3. Range(Append(s, x)) = Range(s) \cup {x}
  BY <1>1, <1>2 DEF Range
<1>4. Distinct(Append(s, x))
  BY <1>1, <1>2 DEF Distinct, Range
<1> QED
  BY <1>3, <1>4

(* The command at the head leaves the channel for good. *)
LEMMA ChannelTail ==
  ASSUME NEW S, NEW s \in Seq(S), s # << >>, Distinct(s)
  PROVE  /\ Tail(s) \in Seq(S) /\ Len(Tail(s)) = Len(s) - 1
         /\ Head(s) \in S /\ Head(s) \in Range(s)
         /\ Distinct(Tail(s))
         /\ Range(Tail(s)) = Range(s) \ {Head(s)}
<1>1. Len(s) \in Nat \ {0} /\ DOMAIN s = 1 .. Len(s) /\ Head(s) = s[1]
  OBVIOUS
<1>2. /\ Tail(s) \in Seq(S) /\ Len(Tail(s)) = Len(s) - 1
      /\ DOMAIN Tail(s) = 1 .. Len(s) - 1
      /\ \A i \in 1 .. Len(s) - 1 : Tail(s)[i] = s[i + 1]
  BY <1>1
<1>3. Distinct(Tail(s))
  <2> SUFFICES ASSUME NEW i \in 1 .. Len(s) - 1, NEW j \in 1 .. Len(s) - 1,
                      s[i + 1] = s[j + 1]
               PROVE  i = j
    BY <1>2 DEF Distinct
  <2>1. i + 1 \in DOMAIN s /\ j + 1 \in DOMAIN s
    BY <1>1
  <2>2. i + 1 = j + 1
    BY <2>1 DEF Distinct
  <2> QED
    BY <1>1, <2>2
<1>4. Range(Tail(s)) \subseteq Range(s) \ {Head(s)}
  <2> SUFFICES ASSUME NEW i \in 1 .. Len(s) - 1
               PROVE  s[i + 1] \in Range(s) /\ s[i + 1] # s[1]
    BY <1>1, <1>2 DEF Range
  <2>1. i + 1 \in DOMAIN s /\ 1 \in DOMAIN s /\ i + 1 # 1
    BY <1>1
  <2> QED
    BY <2>1 DEF Distinct, Range
<1>5. Range(s) \ {Head(s)} \subseteq Range(Tail(s))
  <2> SUFFICES ASSUME NEW i \in DOMAIN s, s[i] # s[1]
               PROVE  s[i] \in Range(Tail(s))
    BY <1>1 DEF Range
  <2>1. i - 1 \in 1 .. Len(s) - 1 /\ i = (i - 1) + 1
    BY <1>1
  <2>2. Tail(s)[i - 1] = s[i]
    BY <1>2, <2>1
  <2> QED
    BY <1>2, <2>1, <2>2 DEF Range
<1>6. Head(s) \in S /\ Head(s) \in Range(s)
  BY <1>1 DEF Range
<1> QED
  BY <1>2, <1>3, <1>4, <1>5, <1>6

--------------------------------------------------------------------------------
(* The steps. *)

(* The initial states. *)
LEMMA InitInd == Init => IndInv
<1> SUFFICES ASSUME Init PROVE IndInv
  OBVIOUS
<1> USE WorkerAssumption DEF Init
<1>1. /\ << >> \in Seq(Calls) /\ Len(<< >>) = 0 /\ DOMAIN << >> = {}
      /\ << >> \in Seq([ op : {"pong", "result", "error"}, id : Requests ])
  OBVIOUS
<1>2. TypeOK
  BY <1>1 DEF TypeOK, NoLine, Line
<1>3. HeldOnce
  BY <1>1 DEF HeldOnce, Distinct, Range
<1> QED
  BY <1>2, <1>3 DEF IndInv, WorkerInv, AnswerIsOwn, NobodyForgotten, ShutdownReaps, BusyInv,
                    Calls

Verdicts == {"none", "ok", "error", "transport", "timeout"}
CallPcs == {"idle", "sending", "waiting", "done", "joining", "reaping", "dropping"}

(* What a reply to the callers in to does to all of them. *)
Replied(to, v, from) ==
  /\ pc' \in [Calls -> CallPcs]
  /\ verdict' \in [Calls -> Verdicts]
  /\ source' \in [Calls -> Calls \cup {NoCall}]
  /\ \A c \in Calls : pc'[c] = pc[c] \/ pc'[c] \notin {"idle", "sending", "waiting"}
  /\ \A c \in to : pc'[c] # "waiting"
  /\ pc'[Stop] = "done" => pc[Stop] = "done"
  /\ \A c \in Calls : \/ verdict'[c] = verdict[c] /\ source'[c] = source[c]
                      \/ c \in to /\ verdict'[c] = v[c] /\ source'[c] = from

(* A reply is typed, and wakes whom it is for. *)
LEMMA ReplyTyped ==
  ASSUME TypeOK, NEW to \in SUBSET Calls, NEW v, NEW from \in Calls \cup {NoCall},
         \A c \in to : v[c] \in Verdicts,
         Reply(to, v, from)
  PROVE  Replied(to, v, from)
<1> USE DEF TypeOK, Reply, After, Verdicts, CallPcs, Replied
<1>1. Stop \in Calls
  BY DEF Calls
<1>2. \A c \in Calls : pc'[c] = IF c \in to /\ pc[c] = "waiting" THEN After(c, v[c]) ELSE pc[c]
  OBVIOUS
<1>3. \A c \in Calls : After(c, v[c]) \in {"done", "joining", "dropping"}
  OBVIOUS
<1> HIDE DEF After
<1> QED
  BY <1>1, <1>2, <1>3 DEF After

(* shutdown is a call, and no request. *)
LEMMA StopIsNoRequest == Stop \in Calls /\ Requests \subseteq Calls /\ Stop \notin Requests
  BY WorkerAssumption DEF Calls, Requests

(* The callers. *)
LEMMA CallerSteps ==
  ASSUME IndInv, NEW c \in Calls,
         Submit(c) \/ Enqueue(c) \/ SendFails(c) \/ TimesOut(c)
  PROVE  IndInv'
<1> USE DEF IndInv, WorkerInv, TypeOK, AnswerIsOwn, NobodyForgotten, ShutdownReaps, HeldOnce,
            BusyInv, act, peer
<1>1. CASE Submit(c)
  BY <1>1 DEF Submit
<1>2. CASE Enqueue(c)
  <2>1. /\ queue' = Append(queue, c) /\ c \notin Range(queue) /\ c \notin pending
        /\ Len(queue') = Len(queue) + 1 /\ Len(queue) < QueueCap /\ Len(queue) \in Nat
    BY <1>2 DEF Enqueue
  <2>2. /\ queue' \in Seq(Calls) /\ Distinct(queue')
        /\ Range(queue') = Range(queue) \cup {c}
    BY <2>1, ChannelAppend
  <2>3. TypeOK'
    BY <1>2, <2>1, <2>2, WorkerAssumption DEF Enqueue
  <2>4. (AnswerIsOwn /\ NobodyForgotten /\ ShutdownReaps)'
    BY <1>2, <2>1, <2>2 DEF Enqueue
  <2>5. (HeldOnce /\ BusyInv)'
    BY <1>2, <2>1, <2>2 DEF Enqueue
  <2> QED
    BY <2>3, <2>4, <2>5
<1>3. CASE SendFails(c)
  BY <1>3 DEF SendFails, After
<1>4. CASE TimesOut(c)
  BY <1>4 DEF TimesOut
<1> QED
  BY <1>1, <1>2, <1>3, <1>4

(* What shutdown does after its request. *)
LEMMA ShutdownSteps ==
  ASSUME IndInv, Shutdown
  PROVE  IndInv'
<1> USE DEF IndInv, WorkerInv, TypeOK, AnswerIsOwn, NobodyForgotten, ShutdownReaps, HeldOnce,
            BusyInv, act, peer
<1>1. CASE JoinActor
  BY <1>1, StopIsNoRequest DEF JoinActor
<1>2. CASE ReapChild
  BY <1>2, StopIsNoRequest DEF ReapChild
<1>3. CASE DropChild
  BY <1>3, StopIsNoRequest DEF DropChild
<1> QED
  BY <1>1, <1>2, <1>3 DEF Shutdown

(* The actor, but for the steps that reply. *)
LEMMA ActorSteps ==
  ASSUME IndInv, TakeCommand \/ WriteRequest \/ BeginLine \/ RecordHealth
  PROVE  IndInv'
<1> USE DEF IndInv, WorkerInv, TypeOK, AnswerIsOwn, NobodyForgotten, ShutdownReaps, HeldOnce,
            BusyInv, calls, act, peer
<1>1. CASE TakeCommand
  <2>1. /\ queue' = Tail(queue) /\ pending' = pending \cup {Head(queue)} /\ queue # << >>
        /\ writing' = Head(queue)
    BY <1>1 DEF TakeCommand
  <2>2. /\ queue' \in Seq(Calls) /\ Len(queue') = Len(queue) - 1
        /\ Head(queue) \in Calls /\ Head(queue) \in Range(queue) /\ Distinct(queue')
        /\ Range(queue') = Range(queue) \ {Head(queue)}
    BY <2>1, ChannelTail
  <2>3. TypeOK'
    BY <1>1, <2>1, <2>2, WorkerAssumption DEF TakeCommand, NoLine, Line
  <2>4. (AnswerIsOwn /\ NobodyForgotten /\ ShutdownReaps)'
    BY <1>1, <2>1, <2>2 DEF TakeCommand
  <2>5. (HeldOnce /\ BusyInv)'
    BY <1>1, <2>1, <2>2 DEF TakeCommand
  <2> QED
    BY <2>3, <2>4, <2>5
<1>2. CASE WriteRequest
  <2>1. toWorker' \in Seq(Calls) /\ Len(toWorker') <= PipeCap
    BY <1>2, WorkerAssumption DEF WriteRequest
  <2> QED
    BY <1>2, <2>1 DEF WriteRequest
<1>3. CASE BeginLine
  <2> DEFINE Lines == [ op : {"pong", "result", "error"}, id : Requests ]
  <2>1. /\ Head(toManager) \in Lines /\ Tail(toManager) \in Seq(Lines)
        /\ Len(Tail(toManager)) <= PipeCap
    <3> HIDE DEF Lines
    <3>1. toManager \in Seq(Lines) /\ toManager # << >> /\ Len(toManager) <= PipeCap
      BY <1>3 DEF BeginLine, Lines
    <3> QED
      BY <3>1, WorkerAssumption
  <2>2. half' \in [ op : {"none", "pong", "result", "error"}, id : Calls \cup {NoCall} ]
    BY <1>3, <2>1 DEF BeginLine, Calls
  <2> QED
    BY <1>3, <2>1, <2>2 DEF BeginLine
<1>4. CASE RecordHealth
  BY <1>4 DEF RecordHealth
<1> QED
  BY <1>1, <1>2, <1>3, <1>4

(* The three steps that reply. *)
LEMMA ReplySteps ==
  ASSUME IndInv, WriteFails \/ EndLine \/ EndActor
  PROVE  IndInv'
<1> USE DEF IndInv, WorkerInv, TypeOK, AnswerIsOwn, NobodyForgotten, ShutdownReaps, HeldOnce,
            BusyInv, peer
<1>1. CASE WriteFails
  <2> DEFINE v == [x \in {writing} |-> "transport"]
  <2>1. writing \in Calls /\ Reply({writing}, v, NoCall)
    BY <1>1 DEF WriteFails, ReplyOne
  <2> HIDE DEF v
  <2>2. \A c \in {writing} : v[c] = "transport" /\ v[c] \in Verdicts
    BY DEF v, Verdicts
  <2>3. Replied({writing}, v, NoCall)
    BY <2>1, <2>2, ReplyTyped
  <2>4. TypeOK'
    BY <1>1, <2>3 DEF WriteFails, Replied, Verdicts, CallPcs
  <2>5. (AnswerIsOwn /\ ShutdownReaps /\ BusyInv)'
    BY <1>1, <2>2, <2>3, StopIsNoRequest DEF WriteFails, Replied
  <2>6. (NobodyForgotten /\ HeldOnce)'
    BY <1>1, <2>3 DEF WriteFails, Replied, Verdicts, CallPcs
  <2> QED
    BY <2>4, <2>5, <2>6
<1>2. CASE EndLine
  <2> DEFINE to == Addressee(half)
             v == [c \in to |-> IF half.op = Expected(c) THEN "ok" ELSE "error"]
  <2>1. to \subseteq pending /\ to \subseteq {half.id} /\ half.id \in Calls \cup {NoCall}
    BY DEF Addressee
  <2>2. \A c \in to : v[c] \in Verdicts
    BY DEF Verdicts
  <2> HIDE DEF v, to
  <2>3. Reply(to, v, half.id) /\ pending' = pending \ to
    BY <1>2 DEF EndLine, v, to
  <2>4. Replied(to, v, half.id)
    BY <2>1, <2>2, <2>3, ReplyTyped
  <2>5. /\ actor' \in {"select", "recording"} /\ observed' \in {"Ok", "Degraded", observed}
        /\ half' = NoLine
    BY <1>2 DEF EndLine
  <2>6. TypeOK'
    BY <1>2, <2>3, <2>4, <2>5 DEF EndLine, NoLine, Line, Replied, Verdicts, CallPcs
  <2>7. (AnswerIsOwn /\ ShutdownReaps /\ BusyInv)'
    BY <1>2, <2>1, <2>4, <2>5, StopIsNoRequest DEF EndLine, Replied
  <2>8. (NobodyForgotten /\ HeldOnce)'
    BY <1>2, <2>3, <2>4, <2>5 DEF EndLine, Replied
  <2> QED
    BY <2>6, <2>7, <2>8
<1>3. CASE EndActor
  <2> DEFINE to == pending \cup Range(queue)
             v == [c \in Calls |-> IF c = Stop /\ c \in pending THEN "ok" ELSE "transport"]
  <2>1. to \subseteq Calls
    BY DEF Range
  <2>2. \A c \in Calls : v[c] \in Verdicts /\ (c # Stop => v[c] = "transport")
    BY DEF Verdicts
  <2>3. \A c \in Calls : pc[c] = "waiting" => c \in to
    OBVIOUS
  <2> HIDE DEF v, to
  <2>4. Reply(to, v, NoCall)
    BY <1>3 DEF EndActor, v, to
  <2>5. Replied(to, v, NoCall)
    BY <2>1, <2>2, <2>4, ReplyTyped
  <2>6. /\ queue' = << >> /\ pending' = {} /\ actor' = "ended"
        /\ queue' \in Seq(Calls) /\ Len(queue') = 0 /\ DOMAIN queue' = {}
    BY <1>3 DEF EndActor
  <2>7. TypeOK'
    BY <1>3, <2>5, <2>6, WorkerAssumption DEF EndActor, Replied, Verdicts, CallPcs
  <2>8. (AnswerIsOwn /\ ShutdownReaps /\ BusyInv)'
    BY <1>3, <2>2, <2>5, <2>6, StopIsNoRequest DEF EndActor, Replied
  <2>9. NobodyForgotten'
    BY <2>3, <2>5 DEF Replied
  <2>10. HeldOnce'
    BY <2>6 DEF Distinct, Range
  <2> QED
    BY <2>7, <2>8, <2>9, <2>10
<1> QED
  BY <1>1, <1>2, <1>3

(* The worker at the other end. *)
LEMMA PeerSteps ==
  ASSUME IndInv, WorkerReads \/ WorkerAnswers \/ WorkerDies
  PROVE  IndInv'
<1> USE DEF IndInv, WorkerInv, TypeOK, AnswerIsOwn, NobodyForgotten, ShutdownReaps, HeldOnce,
            BusyInv, calls, act
<1>1. CASE WorkerReads
  <2>1. /\ Head(toWorker) \in Calls /\ Tail(toWorker) \in Seq(Calls)
        /\ Len(Tail(toWorker)) <= PipeCap
    BY <1>1, WorkerAssumption DEF WorkerReads
  <2>2. Head(toWorker) # Stop => Head(toWorker) \in Requests
    BY <2>1 DEF Calls
  <2> QED
    BY <1>1, <2>1, <2>2 DEF WorkerReads
<1>2. CASE WorkerAnswers
  <2> DEFINE Lines == [ op : {"pong", "result", "error"}, id : Requests ]
  <2>1. PICK op \in {Expected(job)} \cup (IF job \in Invokes THEN {"error"} ELSE {}) :
          toManager' = Append(toManager, Line(op, job))
    BY <1>2 DEF WorkerAnswers
  <2>2. Line(op, job) \in Lines
    BY <1>2 DEF WorkerAnswers, Line, Expected
  <2>3. toManager' \in Seq(Lines) /\ Len(toManager') <= PipeCap
    BY <1>2, <2>1, <2>2, WorkerAssumption DEF WorkerAnswers
  <2> QED
    BY <1>2, <2>3 DEF WorkerAnswers
<1>3. CASE WorkerDies
  BY <1>3 DEF WorkerDies
<1> QED
  BY <1>1, <1>2, <1>3

(* Every step keeps IndInv. *)
LEMMA NextInd == IndInv /\ [Next]_vars => IndInv'
<1> SUFFICES ASSUME IndInv, [Next]_vars PROVE IndInv'
  OBVIOUS
<1>1. CASE \E c \in Calls : Submit(c) \/ Caller(c) \/ TimesOut(c)
  BY <1>1, CallerSteps DEF Caller
<1>2. CASE Shutdown
  BY <1>2, ShutdownSteps
<1>3. CASE Actor
  BY <1>3, ActorSteps, ReplySteps DEF Actor
<1>4. CASE WorkerReads \/ WorkerAnswers \/ WorkerDies
  BY <1>4, PeerSteps
<1>5. CASE UNCHANGED vars
  BY <1>5 DEF vars, calls, act, peer, IndInv, WorkerInv, TypeOK, AnswerIsOwn,
              NobodyForgotten, ShutdownReaps, HeldOnce, BusyInv
<1> QED
  BY <1>1, <1>2, <1>3, <1>4, <1>5 DEF Next

(* The invariant holds for the whole run. *)
LEMMA IndInvariant == Spec => []IndInv
  BY InitInd, NextInd, PTL DEF Spec

--------------------------------------------------------------------------------
(* A caller that gets an answer gets the one to its own request, and one   *)
(* that waits is in the channel or in the table, never in neither and      *)
(* never with an actor that ended: run_actor's table, however many calls   *)
(* are in flight and whenever the worker dies.                             *)
THEOREM CallersServed == Spec => []WorkerInv
<1>1. IndInv => WorkerInv
  BY DEF IndInv
<1> QED
  BY <1>1, IndInvariant, PTL

(* When WorkerManager::shutdown returns, with Ok or with Err, the child is *)
(* no more.                                                                *)
THEOREM ShutdownAlwaysReaps == Spec => []ShutdownReaps
<1>1. IndInv => ShutdownReaps
  BY DEF IndInv
<1> QED
  BY <1>1, IndInvariant, PTL

================================================================================
