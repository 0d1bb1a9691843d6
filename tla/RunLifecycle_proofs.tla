--------------------------- MODULE RunLifecycle_proofs --------------------------
(***************************************************************************)
(* What is proved of a run, for every budget, every number of provider     *)
(* events and of recovery passes:                                          *)
(*   with or without a second instance on the same database - types, the   *)
(*   gapless numbering of the journal, the refinement of EventStream, the  *)
(*   accounting of tools, the links between the journals, the cancel;      *)
(*   with one instance - the journal as one path that ends where the row   *)
(*   stands, and the agreement of the verdicts.  With two TLC finds both   *)
(*   broken.                                                               *)
(*                                                                         *)
(* IndInv comes first, and its parts need each other: recovery takes the   *)
(* state it recovers from out of the entry with the greatest number, which *)
(* exists because the numbers have no gap; and they stay gapless because   *)
(* what the four writers hold (last_event_seq, the two numbers computed    *)
(* ahead of an INSERT) never runs past the end of the journal, so that     *)
(* UNIQUE refuses every number but the next.  Each other result has an     *)
(* invariant of its own, inductive beside IndInv, defined after it.        *)
(***************************************************************************)
EXTENDS RunLifecycle, FiniteSetTheorems, TLAPS

(* What apply_transition and run_state_for_event guarantee for every state *)
(* and every event.                                                        *)

StateEdges == [from : RunStates, kind : RunEventKinds, to : RunStates]

(* The table only holds edges between states, out of states that are not   *)
(* terminal.                                                               *)
LEMMA TableTyped ==
  \A e \in Transitions : e \in StateEdges /\ e.from \notin TerminalStates
  BY DEF Transitions, Edge, StateEdges, RunStates, TerminalStates,
         RunEventKinds, GlobalEvents

(* The table alone reaches completed, and from one state.                  *)
LEMMA TableCompletes ==
  \A e \in Transitions :
    /\ e.to = "completed" => e.from = "checkpointing"
    /\ e.to \notin {"failed", "cancelled", "interrupted"}
  BY DEF Transitions, Edge

LEMMA GlobalTargetTyped ==
  \A e \in GlobalEvents : GlobalTarget[e] \in RunStates \ {"completed"}
  BY DEF GlobalEvents, GlobalTarget, RunStates, TerminalStates

LEMMA RejectedIsNoState == Rejected \notin RunStates
  BY DEF Rejected, RunStates, TerminalStates

(* What a lookup in the table finds is an edge of the table.               *)
LEMMA LookupFinds ==
  ASSUME NEW f, NEW k, Structural(f, k) # {}
  PROVE  (CHOOSE e \in Structural(f, k) : TRUE) \in Structural(f, k)
  OBVIOUS

(* apply_transition answers with a state or with an error.                 *)
LEMMA ApplyTransitionTyped ==
  ASSUME NEW f, NEW k
  PROVE  ApplyTransition(f, k) \in RunStates \cup {Rejected}
<1>1. CASE f \in TerminalStates
  BY <1>1 DEF ApplyTransition
<1>2. CASE f \notin TerminalStates /\ Structural(f, k) # {}
  <2>1. (CHOOSE e \in Structural(f, k) : TRUE) \in Transitions
    BY <1>2, LookupFinds DEF Structural
  <2> QED
    BY <1>2, <2>1, TableTyped DEF ApplyTransition, StateEdges
<1>3. CASE f \notin TerminalStates /\ Structural(f, k) = {}
  BY <1>3, GlobalTargetTyped DEF ApplyTransition
<1> QED
  BY <1>1, <1>2, <1>3

(* An accepted pair is a state and an event of the machine: a typo in a    *)
(* `from` or a kind cannot get through the gate.                           *)
LEMMA StructuralTyped ==
  ASSUME NEW f, NEW k, Structural(f, k) # {}
  PROVE  f \in RunStates /\ k \in RunEventKinds
  BY LookupFinds, TableTyped DEF Structural, StateEdges

(* "Nenhuma transicao sai de um estado terminal" (state.rs:109-112).       *)
THEOREM TerminalClosed ==
  \A f \in TerminalStates, k \in RunEventKinds : ApplyTransition(f, k) = Rejected
  BY DEF ApplyTransition

(* A run completes by passing through checkpointing, whatever event asks   *)
(* for it: no event, structural or global, reaches completed from          *)
(* elsewhere.                                                              *)
THEOREM OnlyCheckpointingCompletes ==
  \A f \in RunStates, k \in RunEventKinds :
    ApplyTransition(f, k) = "completed" => f = "checkpointing"
<1> SUFFICES ASSUME NEW f \in RunStates, NEW k \in RunEventKinds,
                    ApplyTransition(f, k) = "completed"
             PROVE  f = "checkpointing"
  OBVIOUS
<1>1. f \notin TerminalStates
  BY DEF ApplyTransition, Rejected
<1>2. CASE Structural(f, k) # {}
  <2>1. (CHOOSE e \in Structural(f, k) : TRUE) \in Structural(f, k)
    BY <1>2, LookupFinds
  <2> QED
    BY <1>1, <1>2, <2>1, TableCompletes DEF ApplyTransition, Structural
<1>3. CASE Structural(f, k) = {}
  BY <1>1, <1>3, GlobalTargetTyped DEF ApplyTransition, Rejected
<1> QED
  BY <1>2, <1>3

(* The causes of a stream event are events of the machine, three at most.  *)
LEMMA CausesTyped ==
  ASSUME NEW st \in RunStates, NEW event \in StreamEvents
  PROVE  /\ Causes(st, event) \in Seq(RunEventKinds)
         /\ \/ Len(Causes(st, event)) = 0
            \/ Len(Causes(st, event)) = 1
            \/ Len(Causes(st, event)) = 2
            \/ Len(Causes(st, event)) = 3
<1>1. "first_token" \in RunEventKinds /\ "tool_call_emitted" \in RunEventKinds
      /\ "message_complete" \in RunEventKinds
      /\ "checkpoint_persisted" \in RunEventKinds
      /\ "unrecoverable_error" \in RunEventKinds
      /\ "user_cancel" \in RunEventKinds
  BY DEF RunEventKinds, GlobalEvents
<1>2. \A a, b, c \in RunEventKinds :
        /\ << >> \in Seq(RunEventKinds) /\ Len(<< >>) = 0
        /\ << a >> \in Seq(RunEventKinds) /\ Len(<< a >>) = 1
        /\ << a, b >> \in Seq(RunEventKinds) /\ Len(<< a, b >>) = 2
        /\ << a, b, c >> \in Seq(RunEventKinds) /\ Len(<< a, b, c >>) = 3
  OBVIOUS
<1> QED
  BY <1>1, <1>2 DEF Causes, StreamEvents

(* run_state_for_event is honest: a walk it accepts starts in the state of *)
(* the executor, every step of it is an edge apply_transition accepts and  *)
(* leaves the state the step before reached.                               *)
THEOREM WalkHonest ==
  \A st \in RunStates, event \in StreamEvents :
    LET answer == StreamTransitions(st, event)
    IN  answer.ok =>
          /\ answer.walk \in Seq(StateEdges)
          /\ \A n \in 1 .. Len(answer.walk) :
               /\ answer.walk[n].to =
                    ApplyTransition(answer.walk[n].from, answer.walk[n].kind)
               /\ answer.walk[n].from =
                    IF n = 1 THEN st ELSE answer.walk[n - 1].to
<1> SUFFICES ASSUME NEW st \in RunStates, NEW event \in StreamEvents,
                    StreamTransitions(st, event).ok
             PROVE  LET path == StreamTransitions(st, event).walk
                    IN  /\ path \in Seq(StateEdges)
                        /\ \A n \in 1 .. Len(path) :
                             /\ path[n].to = ApplyTransition(path[n].from, path[n].kind)
                             /\ path[n].from = IF n = 1 THEN st ELSE path[n - 1].to
  OBVIOUS
<1> DEFINE ks == Causes(st, event)
           Step(n) == Edge(WalkFrom(st, ks, n), ks[n],
                           ApplyTransition(WalkFrom(st, ks, n), ks[n]))
           path == StreamTransitions(st, event).walk
<1> HIDE DEF ks
<1>0. /\ ks \in Seq(RunEventKinds)
      /\ Len(ks) = 0 \/ Len(ks) = 1 \/ Len(ks) = 2 \/ Len(ks) = 3
  BY CausesTyped DEF ks
<1>1. \A n \in 1 .. Len(ks) : n = 1 \/ n = 2 \/ n = 3
  <2> DEFINE k == Len(ks)
  <2>1. k = 0 \/ k = 1 \/ k = 2 \/ k = 3
    BY <1>0
  <2> HIDE DEF k
  <2>2. \A n \in 1 .. k : n = 1 \/ n = 2 \/ n = 3
    BY <2>1
  <2> QED
    BY <2>2 DEF k
<1>2. path = [n \in 1 .. Len(ks) |-> Step(n)]
  BY DEF StreamTransitions, ks
<1>3. \A n \in 1 .. Len(ks) :
        ApplyTransition(WalkFrom(st, ks, n), ks[n]) \in RunStates
  <2>1. \A n \in 1 .. Len(ks) : Step(n).to # Rejected
    BY <1>2 DEF StreamTransitions, ks
  <2> QED
    BY <2>1, ApplyTransitionTyped DEF Edge
<1>4. \A n \in 1 .. Len(ks) :
        WalkFrom(st, ks, n) = IF n = 1 THEN st
                               ELSE ApplyTransition(WalkFrom(st, ks, n - 1), ks[n - 1])
  <2>2. WalkFrom(st, ks, 1) = st
    BY DEF WalkFrom
  <2>3. WalkFrom(st, ks, 2) = ApplyTransition(WalkFrom(st, ks, 2 - 1), ks[2 - 1])
    BY DEF WalkFrom
  <2>4. WalkFrom(st, ks, 3) = ApplyTransition(WalkFrom(st, ks, 3 - 1), ks[3 - 1])
    BY DEF WalkFrom
  <2> QED
    BY <1>1, <2>2, <2>3, <2>4
<1>5. \A n \in 1 .. Len(ks) : WalkFrom(st, ks, n) \in RunStates
  BY <1>1, <1>3, <1>4
<1>6. \A n \in 1 .. Len(ks) : Step(n) \in StateEdges
  BY <1>0, <1>3, <1>5 DEF Edge, StateEdges
<1>7. path \in Seq(StateEdges) /\ Len(path) = Len(ks)
  BY <1>0, <1>2, <1>6
<1>8. \A n \in 1 .. Len(ks) :
        /\ path[n].from = WalkFrom(st, ks, n)
        /\ path[n].kind = ks[n]
        /\ path[n].to = ApplyTransition(WalkFrom(st, ks, n), ks[n])
  BY <1>2 DEF Edge
<1> QED
  BY <1>0, <1>1, <1>4, <1>7, <1>8

--------------------------------------------------------------------------------
(* Types, and the numbers of the journal.                                  *)

(* What the executor holds at each await. *)
ControlInv ==
  /\ pc \in {"init", "walk"} => walk # << >>
  /\ pc \in {"gate", "walk", "link", "handle"} => ev \in StreamEvents
  /\ pc \in {"walk", "link"} =>
       StreamTransitions(cur, ev).ok /\ Causes(cur, ev) # << >>
  /\ pc \in {"finMsg", "finState", "finStatus", "announce", "err"} =>
       verdict \in FinalStatuses

(* What the writers of the journal hold never runs past its end. *)
NumbersInv ==
  /\ lastEventSeq <= Len(runEvents)
  /\ pc \in {"rejectState", "rejectLink"} => rejSeq <= Len(runEvents)
  /\ pc = "rejectInsert" => rejSeq \in 1 .. Len(runEvents) + 1
  /\ rec = "append" => recSeq \in 1 .. Len(runEvents) + 1

IndInv == TypeOK /\ ControlInv /\ SeqGapless /\ NumbersInv

--------------------------------------------------------------------------------
(* What the operations of the store do to a typed, gapless journal.        *)

LEMMA MaxSeqIsLen ==
  ASSUME runEvents \in Seq(JournalRecord), SeqGapless
  PROVE  MaxSeq = Len(runEvents)
<1>1. CASE runEvents = << >>
  BY <1>1 DEF MaxSeq
<1>2. CASE runEvents # << >>
  <2> DEFINE seqs == { runEvents[i].seq : i \in DOMAIN runEvents }
             Greatest(s) == \A i \in DOMAIN runEvents : runEvents[i].seq <= s
  <2>1. Len(runEvents) \in Nat \ {0} /\ DOMAIN runEvents = 1 .. Len(runEvents)
    BY <1>2
  <2>2. \A i \in DOMAIN runEvents : runEvents[i].seq = i
    BY DEF SeqGapless
  <2>3. Len(runEvents) \in seqs /\ Greatest(Len(runEvents))
    BY <2>1, <2>2
  <2>4. \A s \in seqs : Greatest(s) => s = Len(runEvents)
    BY <2>1, <2>2
  <2>5. MaxSeq = CHOOSE s \in seqs : Greatest(s)
    BY <1>2 DEF MaxSeq
  <2> QED
    BY <2>3, <2>4, <2>5
<1> QED
  BY <1>1, <1>2

LEMMA LatestTyped ==
  ASSUME runEvents \in Seq(JournalRecord), SeqGapless, NEW f \in RunStates
  PROVE  LatestTo(f) \in RunStates
<1>1. CASE runEvents = << >>
  BY <1>1 DEF LatestTo
<1>2. CASE runEvents # << >>
  <2>1. Len(runEvents) \in DOMAIN runEvents /\ runEvents[Len(runEvents)].seq = MaxSeq
    BY <1>2, MaxSeqIsLen DEF SeqGapless
  <2>2. (CHOOSE i \in DOMAIN runEvents : runEvents[i].seq = MaxSeq) \in DOMAIN runEvents
    BY <2>1
  <2>3. \A i \in DOMAIN runEvents : runEvents[i].to \in RunStates
    <3>1. \A i \in DOMAIN runEvents : runEvents[i] \in JournalRecord
      OBVIOUS
    <3>2. \A r \in JournalRecord : r.to \in RunStates
      BY DEF JournalRecord
    <3> QED
      BY <3>1, <3>2
  <2> QED
    BY <1>2, <2>2, <2>3 DEF LatestTo
<1> QED
  BY <1>1, <1>2

(* UNIQUE(run_id, seq) leaves one number to a writer whose number is not   *)
(* past the end.                                                           *)
LEMMA OnlyNextIsFree ==
  ASSUME runEvents \in Seq(JournalRecord), SeqGapless,
         NEW s \in 1 .. Len(runEvents) + 1, ~ Journaled(s)
  PROVE  s = Len(runEvents) + 1
  BY DEF SeqGapless, Journaled

LEMMA InsertNext ==
  ASSUME runEvents \in Seq(JournalRecord), SeqGapless,
         NEW s \in 1 .. Len(runEvents) + 1, ~ Journaled(s),
         NEW f \in RunStates, NEW k \in RunEventKinds, NEW t \in RunStates,
         InsertEvent(s, f, k, t)
  PROVE  /\ runEvents' \in Seq(JournalRecord)
         /\ Len(runEvents') = Len(runEvents) + 1
         /\ s = Len(runEvents')
         /\ SeqGapless'
<1> DEFINE entry == [seq |-> s, from |-> f, kind |-> k, to |-> t]
<1>1. s = Len(runEvents) + 1
  BY OnlyNextIsFree
<1>2. entry \in JournalRecord
  BY DEF JournalRecord
<1>3. runEvents' = Append(runEvents, entry)
  BY DEF InsertEvent
<1> HIDE DEF entry
<1>4. /\ runEvents' \in Seq(JournalRecord)
      /\ Len(runEvents') = Len(runEvents) + 1
      /\ \A n \in DOMAIN runEvents' :
           runEvents'[n] = IF n = Len(runEvents) + 1 THEN entry ELSE runEvents[n]
  BY <1>2, <1>3
<1>5. \A n \in DOMAIN runEvents' : n = Len(runEvents) + 1 \/ n \in DOMAIN runEvents
  BY <1>4
<1>6. SeqGapless'
  BY <1>1, <1>4, <1>5 DEF SeqGapless, entry
<1> QED
  BY <1>1, <1>4, <1>6

(* A write that passed the gate took the one free number.                  *)
LEMMA GatedWrite ==
  ASSUME runEvents \in Seq(JournalRecord), SeqGapless,
         lastEventSeq \in Nat, lastEventSeq <= Len(runEvents),
         NEW f \in RunStates, NEW k \in RunEventKinds,
         CanSetState(f, k), SetStateValidated(f, k)
  PROVE  /\ runEvents' \in Seq(JournalRecord)
         /\ Len(runEvents') = Len(runEvents) + 1
         /\ lastEventSeq' = Len(runEvents')
         /\ SeqGapless'
         /\ runState' \in RunStates
         /\ stale' \in BOOLEAN
<1>1. ApplyTransition(f, k) \in RunStates
  BY ApplyTransitionTyped DEF CanSetState
<1>2. lastEventSeq + 1 \in 1 .. Len(runEvents) + 1
  OBVIOUS
<1> QED
  BY <1>1, <1>2, InsertNext DEF CanSetState, SetStateValidated

--------------------------------------------------------------------------------
(* The steps.                                                              *)

LEMMA InitWalkTyped ==
  /\ InitWalk \in Seq(StateEdges)
  /\ InitWalk # << >>
<1>1. \A e \in {InitWalk[1], InitWalk[2], InitWalk[3], InitWalk[4], InitWalk[5]} :
        e \in StateEdges
  BY DEF InitWalk, Edge, StateEdges, RunStates, RunEventKinds
<1> QED
  BY <1>1 DEF InitWalk

LEMMA HeadTail ==
  ASSUME NEW S, NEW s \in Seq(S), s # << >>
  PROVE  /\ Head(s) \in S
         /\ Tail(s) \in Seq(S)
         /\ Len(s) # 1 => Tail(s) # << >>
<1>1. Len(s) \in Nat \ {0}
  OBVIOUS
<1>2. Tail(s) \in Seq(S) /\ Len(Tail(s)) = Len(s) - 1
  BY <1>1
<1>3. Head(s) \in S
  BY <1>1
<1>4. Len(s) # 1 => Len(Tail(s)) # 0
  BY <1>1, <1>2
<1>5. Len(<< >>) = 0
  OBVIOUS
<1> QED
  BY <1>2, <1>3, <1>4, <1>5

(* One edge of the walk through the gate.                                  *)
LEMMA WriteEdgeStep ==
  ASSUME IndInv, pc \in {"init", "walk"}, WriteEdge, pc' \in Pcs,
         pc' \in {"init", "walk"} => pc' = pc /\ Len(walk) # 1,
         pc' \in {"init", "walk", "load"} \/ (pc' = "link" /\ pc = "walk")
  PROVE  IndInv'
<1>1. walk \in Seq(StateEdges) /\ walk # << >>
  BY DEF IndInv, TypeOK, ControlInv, StateEdges
<1>2. Head(walk) \in StateEdges /\ Tail(walk) \in Seq(StateEdges)
      /\ (Len(walk) # 1 => Tail(walk) # << >>)
  BY <1>1, HeadTail
<1>3. Head(walk).from \in RunStates /\ Head(walk).kind \in RunEventKinds
  BY <1>2 DEF StateEdges
<1>4. /\ runEvents' \in Seq(JournalRecord)
      /\ Len(runEvents') = Len(runEvents) + 1
      /\ lastEventSeq' = Len(runEvents')
      /\ SeqGapless'
      /\ runState' \in RunStates
      /\ stale' \in BOOLEAN
  BY <1>3, GatedWrite DEF IndInv, TypeOK, StoreTypeOK, NumbersInv, WriteEdge
<1>5. TypeOK'
  <2>1. StoreTypeOK'
    BY <1>4 DEF IndInv, TypeOK, StoreTypeOK, WriteEdge
  <2>2. walk' \in Seq(StateEdges)
    BY <1>2 DEF WriteEdge
  <2> QED
    BY <2>1, <2>2 DEF IndInv, TypeOK, WriteEdge, seen, recovery, StateEdges
<1>6. ControlInv'
  BY <1>1, <1>2 DEF IndInv, ControlInv, WriteEdge
<1>7. NumbersInv'
  BY <1>4 DEF IndInv, TypeOK, StoreTypeOK, NumbersInv, WriteEdge, recovery
<1> QED
  BY <1>4, <1>5, <1>6, <1>7 DEF IndInv

(* send_message, but for the five init steps.                              *)
LEMMA SetupSteps ==
  ASSUME IndInv, SendMessage \/ RefuseMessage \/ RegisterRun
         \/ OpenMessage \/ StartRun \/ InitStepFails \/ InitFail
  PROVE  IndInv'
<1> USE DEF IndInv, TypeOK, StoreTypeOK, ControlInv, NumbersInv, SeqGapless,
            store, exec, seen, recovery, GoFail, Finalize, FinalStatuses, Tick,
            Pcs, SetupPcs, ExecutorPcs, StreamPcs, RejectPcs, ToolPcs, FinalPcs,
            StoppedPcs
<1>1. CASE SendMessage
  BY <1>1 DEF SendMessage
<1>2. CASE RefuseMessage
  BY <1>2 DEF RefuseMessage
<1>3. CASE RegisterRun
  BY <1>3 DEF RegisterRun
<1>4. CASE OpenMessage
  BY <1>4 DEF OpenMessage, MsgStatuses
<1>5. CASE StartRun
  <2>1. walk' \in Seq(StateEdges) /\ walk' # << >>
    BY <1>5, InitWalkTyped DEF StartRun
  <2> QED
    BY <1>5, <2>1 DEF StartRun, StateEdges, RunStatuses
<1>6. CASE InitStepFails
  BY <1>6 DEF InitStepFails
<1>7. CASE InitFail
  BY <1>7 DEF InitFail, RunStatuses
<1> QED
  BY <1>1, <1>2, <1>3, <1>4, <1>5, <1>6, <1>7

(* Cancel, time and crash.                                                 *)
LEMMA OutsideSteps ==
  ASSUME IndInv, CancelRun \/ GoStale \/ Crash
  PROVE  IndInv'
<1> USE DEF IndInv, TypeOK, StoreTypeOK, ControlInv, NumbersInv, SeqGapless,
            store, exec, seen, recovery, GoFail, Finalize, FinalStatuses, Tick,
            Pcs, SetupPcs, ExecutorPcs, StreamPcs, RejectPcs, ToolPcs, FinalPcs,
            StoppedPcs
<1>1. CASE CancelRun
  BY <1>1 DEF CancelRun, RegisteredPcs
<1>2. CASE GoStale
  BY <1>2 DEF GoStale
<1>3. CASE Crash
  BY <1>3 DEF Crash
<1> QED
  BY <1>1, <1>2, <1>3

(* The head of a round.                                                    *)
LEMMA RoundSteps ==
  ASSUME IndInv, LoadRun \/ LoadFails \/ TopCancelled \/ BudgetExceeded
         \/ OpenStream \/ RecvCancelled \/ Watchdog \/ StreamEnds
  PROVE  IndInv'
<1> USE DEF IndInv, TypeOK, StoreTypeOK, ControlInv, NumbersInv, SeqGapless,
            store, exec, seen, recovery, GoFail, Finalize, FinalStatuses, Tick,
            Pcs, SetupPcs, ExecutorPcs, StreamPcs, RejectPcs, ToolPcs, FinalPcs,
            StoppedPcs
<1>1. CASE LoadRun
  BY <1>1 DEF LoadRun
<1>2. CASE LoadFails
  BY <1>2 DEF LoadFails
<1>3. CASE TopCancelled
  BY <1>3 DEF TopCancelled
<1>4. CASE BudgetExceeded
  BY <1>4 DEF BudgetExceeded
<1>5. CASE OpenStream
  <2>1. pendingCall' \in BOOLEAN
    BY <1>5 DEF OpenStream
  <2>2. pc' \in {"recv", "err"} /\ verdict' \in FinalStatuses \cup {NoVerdict}
        /\ (pc' = "err" => verdict' \in FinalStatuses)
    BY <1>5 DEF OpenStream
  <2> QED
    BY <1>5, <2>1, <2>2 DEF OpenStream
<1>6. CASE RecvCancelled
  BY <1>6 DEF RecvCancelled
<1>7. CASE Watchdog
  BY <1>7 DEF Watchdog
<1>8. CASE StreamEnds
  BY <1>8 DEF StreamEnds
<1> QED
  BY <1>1, <1>2, <1>3, <1>4, <1>5, <1>6, <1>7, <1>8

LEMMA LinkTyped ==
  ASSUME msgEvents \in Seq(MessageRecord), NEW n, NEW q \in Nat, SetRunSeq(n, q)
  PROVE  msgEvents' \in Seq(MessageRecord)
<1>1. \A r \in MessageRecord : [r EXCEPT !.runSeq = q] \in MessageRecord
  BY DEF MessageRecord
<1>2. Len(msgEvents) \in Nat /\ msgEvents \in [1 .. Len(msgEvents) -> MessageRecord]
  OBVIOUS
<1>3. msgEvents' \in [1 .. Len(msgEvents) -> MessageRecord]
  BY <1>1, <1>2 DEF SetRunSeq
<1> QED
  BY <1>2, <1>3

(* One stream event, but for the steps of its walk.                        *)
LEMMA StreamSteps ==
  ASSUME IndInv, (\E e \in StreamEvents : PersistEvent(e)) \/ EmitAndAsk
         \/ WalkStepFails \/ LinkEvent \/ HandleContinue \/ HandleDone
         \/ HandleFinal
  PROVE  IndInv'
<1> USE DEF IndInv, TypeOK, StoreTypeOK, ControlInv, NumbersInv, SeqGapless,
            store, exec, seen, recovery, GoFail, Finalize, FinalStatuses, Tick,
            Pcs, SetupPcs, ExecutorPcs, StreamPcs, RejectPcs, ToolPcs, FinalPcs,
            StoppedPcs
<1>1. CASE (\E e \in StreamEvents : PersistEvent(e))
  <2> PICK e \in StreamEvents : PersistEvent(e)
    BY <1>1
  <2>1. msgEvents' \in Seq(MessageRecord)
    <3>1. [ev |-> e, runSeq |-> 0] \in MessageRecord
      BY DEF MessageRecord
    <3> QED
      BY <3>1 DEF PersistEvent, AppendMessageEvent
  <2> QED
    BY <2>1 DEF PersistEvent
<1>2. CASE EmitAndAsk
  <2> DEFINE answer == StreamTransitions(cur, ev)
  <2>1. ev \in StreamEvents /\ cur \in RunStates
    BY <1>2 DEF EmitAndAsk
  <2>2. answer.ok => answer.walk \in Seq(StateEdges)
    BY <2>1, WalkHonest
  <2>3. answer.walk # << >> => Causes(cur, ev) # << >>
    BY DEF StreamTransitions
  <2>4. << >> \in Seq(StateEdges) /\ Len(msgEvents) \in Nat
    OBVIOUS
  <2> HIDE DEF answer
  <2>5. walk' \in Seq(StateEdges)
    BY <1>2, <2>2, <2>4 DEF EmitAndAsk, answer
  <2> QED
    BY <1>2, <2>1, <2>2, <2>3, <2>4, <2>5 DEF EmitAndAsk, answer, StateEdges
<1>3. CASE WalkStepFails
  BY <1>3 DEF WalkStepFails
<1>4. CASE LinkEvent
  <2> DEFINE ks == Causes(cur, ev)
             reached == ApplyTransition(WalkFrom(cur, ks, Len(ks)), ks[Len(ks)])
  <2>1. StreamTransitions(cur, ev).ok /\ ks # << >>
    BY <1>4 DEF LinkEvent
  <2>2. ev \in StreamEvents /\ cur \in RunStates
    BY <1>4 DEF LinkEvent
  <2>3. Len(ks) \in 1 .. Len(ks)
    BY <2>1, <2>2, CausesTyped
  <2>4. reached # Rejected
    BY <2>1, <2>3 DEF StreamTransitions, Edge
  <2>5. reached \in RunStates
    BY <2>4, ApplyTransitionTyped
  <2>6. msgEvents' \in Seq(MessageRecord)
    BY <1>4, LinkTyped DEF LinkEvent
  <2> HIDE DEF reached
  <2>7. cur' = reached
    BY <1>4 DEF LinkEvent, reached
  <2> QED
    BY <1>4, <2>2, <2>5, <2>6, <2>7 DEF LinkEvent
<1>5. CASE HandleContinue
  BY <1>5 DEF HandleContinue
<1>6. CASE HandleDone
  BY <1>6 DEF HandleDone
<1>7. CASE HandleFinal
  BY <1>7 DEF HandleFinal
<1> QED
  BY <1>1, <1>2, <1>3, <1>4, <1>5, <1>6, <1>7

(* An event the state machine refused.                                     *)
LEMMA RejectSteps ==
  ASSUME IndInv, RejectReadSeq \/ RejectInsert \/ RejectInsertFails
         \/ RejectSetState \/ RejectLink
  PROVE  IndInv'
<1> USE DEF IndInv, TypeOK, StoreTypeOK, ControlInv, NumbersInv, SeqGapless,
            store, exec, seen, recovery, GoFail, Finalize, FinalStatuses, Tick,
            Pcs, SetupPcs, ExecutorPcs, StreamPcs, RejectPcs, ToolPcs, FinalPcs,
            StoppedPcs
<1>1. CASE RejectReadSeq
  <2>1. rejSeq' = Len(runEvents) + 1
    BY <1>1, MaxSeqIsLen DEF RejectReadSeq
  <2> QED
    BY <1>1, <2>1 DEF RejectReadSeq
<1>2. CASE RejectInsert
  <2>1. "unrecoverable_error" \in RunEventKinds /\ "failed" \in RunStates
    BY DEF RunEventKinds, GlobalEvents, RunStates, TerminalStates
  <2>2. /\ runEvents' \in Seq(JournalRecord)
        /\ Len(runEvents') = Len(runEvents) + 1
        /\ rejSeq = Len(runEvents')
        /\ SeqGapless'
    BY <1>2, <2>1, InsertNext DEF RejectInsert
  <2> QED
    BY <1>2, <2>2 DEF RejectInsert
<1>3. CASE RejectInsertFails
  BY <1>3 DEF RejectInsertFails
<1>4. CASE RejectSetState
  <2>1. "failed" \in RunStates /\ stale' \in BOOLEAN
    BY <1>4 DEF RejectSetState, SetStateUnchecked, RunStates, TerminalStates
  <2> QED
    BY <1>4, <2>1 DEF RejectSetState, SetStateUnchecked
<1>5. CASE RejectLink
  <2>1. "failed" \in RunStates
    BY DEF RunStates, TerminalStates
  <2>2. msgEvents' \in Seq(MessageRecord)
    BY <1>5, LinkTyped DEF RejectLink
  <2> QED
    BY <1>5, <2>1, <2>2 DEF RejectLink
<1> QED
  BY <1>1, <1>2, <1>3, <1>4, <1>5

(* After the stream: the tool.                                             *)
LEMMA ToolSteps ==
  ASSUME IndInv, DrainedCancelled \/ DrainedTool \/ DrainedCompleted
         \/ ToolUnknown \/ ToolNeedsApproval \/ ToolExecute
         \/ ToolPersist \/ ToolEmit \/ ToolDone \/ ToolDoneFails
  PROVE  IndInv'
<1> USE DEF IndInv, TypeOK, StoreTypeOK, ControlInv, NumbersInv, SeqGapless,
            store, exec, seen, recovery, GoFail, Finalize, FinalStatuses, Tick,
            Pcs, SetupPcs, ExecutorPcs, StreamPcs, RejectPcs, ToolPcs, FinalPcs,
            StoppedPcs
<1>1. CASE DrainedCancelled
  BY <1>1 DEF DrainedCancelled
<1>2. CASE DrainedTool
  BY <1>2 DEF DrainedTool
<1>3. CASE DrainedCompleted
  BY <1>3 DEF DrainedCompleted
<1>4. CASE ToolUnknown
  BY <1>4 DEF ToolUnknown
<1>5. CASE ToolNeedsApproval
  <2>1. approval' \in BOOLEAN
    BY <1>5 DEF ToolNeedsApproval
  <2> QED
    BY <1>5, <2>1 DEF ToolNeedsApproval
<1>6. CASE ToolExecute
  BY <1>6 DEF ToolExecute
<1>7. CASE ToolPersist
  <2>1. [ev |-> "tool_result", runSeq |-> 0] \in MessageRecord
    BY DEF MessageRecord
  <2>2. msgEvents' \in Seq(MessageRecord)
    BY <1>7, <2>1 DEF ToolPersist, AppendMessageEvent
  <2> QED
    BY <1>7, <2>2 DEF ToolPersist
<1>8. CASE ToolEmit
  BY <1>8 DEF ToolEmit
<1>9. CASE ToolDone
  <2>1. /\ "waiting_tool_call" \in RunStates /\ "continuing_model" \in RunStates
        /\ "result_valid" \in RunEventKinds
    BY DEF RunEventKinds, RunStates
  <2>2. /\ runEvents' \in Seq(JournalRecord)
        /\ Len(runEvents') = Len(runEvents) + 1
        /\ lastEventSeq' = Len(runEvents')
        /\ SeqGapless'
        /\ runState' \in RunStates
        /\ stale' \in BOOLEAN
    BY <1>9, <2>1, GatedWrite DEF ToolDone
  <2> QED
    BY <1>9, <2>1, <2>2 DEF ToolDone
<1>10. CASE ToolDoneFails
  BY <1>10 DEF ToolDoneFails
<1> QED
  BY <1>1, <1>2, <1>3, <1>4, <1>5, <1>6, <1>7, <1>8, <1>9, <1>10

(* The end of the run.                                                     *)
LEMMA FinalSteps ==
  ASSUME IndInv, FinalizeMessage \/ FinalizeState \/ FinalizeStateFails
         \/ FinalizeStatus \/ Announce \/ StorageError
  PROVE  IndInv'
<1> USE DEF IndInv, TypeOK, StoreTypeOK, ControlInv, NumbersInv, SeqGapless,
            store, exec, seen, recovery, GoFail, Finalize, FinalStatuses, Tick,
            Pcs, SetupPcs, ExecutorPcs, StreamPcs, RejectPcs, ToolPcs, FinalPcs,
            StoppedPcs
<1>1. CASE FinalizeMessage
  BY <1>1 DEF FinalizeMessage, MsgStatuses
<1>2. CASE FinalizeState
  <2>1. "checkpointing" \in RunStates /\ "checkpoint_persisted" \in RunEventKinds
    BY DEF RunEventKinds, RunStates
  <2>2. /\ runEvents' \in Seq(JournalRecord)
        /\ Len(runEvents') = Len(runEvents) + 1
        /\ lastEventSeq' = Len(runEvents')
        /\ SeqGapless'
        /\ runState' \in RunStates
        /\ stale' \in BOOLEAN
    BY <1>2, <2>1, GatedWrite DEF FinalizeState
  <2> QED
    BY <1>2, <2>1, <2>2 DEF FinalizeState
<1>3. CASE FinalizeStateFails
  BY <1>3 DEF FinalizeStateFails
<1>4. CASE FinalizeStatus
  BY <1>4 DEF FinalizeStatus, RunStatuses
<1>5. CASE Announce
  BY <1>5 DEF Announce
<1>6. CASE StorageError
  BY <1>6 DEF StorageError, WritingPcs
<1> QED
  BY <1>1, <1>2, <1>3, <1>4, <1>5, <1>6

(* The recovery pass, beside whatever the run is doing.                    *)
LEMMA RecoverySteps ==
  ASSUME IndInv, RecoverList \/ RecoverRead \/ RecoverMark
         \/ RecoverReadSeq \/ RecoverAppend \/ RecoverStops
  PROVE  IndInv'
<1> USE DEF IndInv, TypeOK, StoreTypeOK, ControlInv, NumbersInv, SeqGapless,
            store, exec, seen, recovery, GoFail, Finalize, FinalStatuses, Tick,
            Pcs, SetupPcs, ExecutorPcs, StreamPcs, RejectPcs, ToolPcs, FinalPcs,
            StoppedPcs
<1>1. CASE RecoverList
  BY <1>1 DEF RecoverList, RecPcs
<1>2. CASE RecoverRead
  <2>1. recFrom' \in RunStates
    BY <1>2, LatestTyped DEF RecoverRead
  <2> QED
    BY <1>2, <2>1 DEF RecoverRead, RecPcs
<1>3. CASE RecoverMark
  <2>1. "interrupted" \in RunStates
    BY DEF RunStates, TerminalStates
  <2> QED
    BY <1>3, <2>1 DEF RecoverMark, MarkInterrupted, RecPcs, RunStatuses
<1>4. CASE RecoverReadSeq
  <2>1. recSeq' = Len(runEvents) + 1
    BY <1>4, MaxSeqIsLen DEF RecoverReadSeq
  <2> QED
    BY <1>4, <2>1 DEF RecoverReadSeq, RecPcs
<1>5. CASE RecoverAppend
  <2>1. "app_crash_recovery" \in RunEventKinds /\ "interrupted" \in RunStates
    BY DEF RunEventKinds, GlobalEvents, RunStates, TerminalStates
  <2>2. /\ runEvents' \in Seq(JournalRecord)
        /\ Len(runEvents') = Len(runEvents) + 1
        /\ SeqGapless'
    BY <1>5, <2>1, InsertNext DEF RecoverAppend
  <2> QED
    BY <1>5, <2>2 DEF RecoverAppend, RecPcs
<1>6. CASE RecoverStops
  BY <1>6 DEF RecoverStops, RecPcs
<1> QED
  BY <1>1, <1>2, <1>3, <1>4, <1>5, <1>6

LEMMA WalkSteps ==
  ASSUME IndInv, InitStep \/ WalkStep
  PROVE  IndInv'
<1> USE DEF Pcs, SetupPcs, ExecutorPcs, StreamPcs
<1>1. CASE InitStep
  BY <1>1, WriteEdgeStep DEF InitStep
<1>2. CASE WalkStep
  BY <1>2, WriteEdgeStep DEF WalkStep
<1> QED
  BY <1>1, <1>2

LEMMA InitInd == Init => IndInv
<1> SUFFICES ASSUME Init PROVE IndInv
  OBVIOUS
<1>1. "created" \in RunStates
  BY DEF RunStates
<1>2. /\ << >> \in Seq(JournalRecord) /\ << >> \in Seq(MessageRecord)
      /\ << >> \in Seq(StateEdges) /\ Len(<< >>) = 0
  OBVIOUS
<1>3. TypeOK
  BY <1>1, <1>2 DEF Init, StoreInit, TypeOK, StoreTypeOK, StateEdges, RunStatuses,
                    MsgStatuses, Pcs, RecPcs
<1>4. ControlInv /\ NumbersInv
  BY <1>2 DEF Init, StoreInit, ControlInv, NumbersInv
<1>5. SeqGapless
  BY DEF Init, StoreInit, SeqGapless
<1> QED
  BY <1>3, <1>4, <1>5 DEF IndInv

LEMMA NextInd == IndInv /\ [Next]_vars => IndInv'
<1> SUFFICES ASSUME IndInv, [Next]_vars PROVE IndInv'
  OBVIOUS
<1>1. CASE OrchestratorStep \/ SendMessage
  BY <1>1, SetupSteps, WalkSteps DEF OrchestratorStep
<1>2. CASE ExecutorStep
  BY <1>2, RoundSteps, StreamSteps, WalkSteps, RejectSteps, ToolSteps, FinalSteps
     DEF ExecutorStep
<1>3. CASE ProviderStep
  BY <1>3, RoundSteps, StreamSteps DEF ProviderStep
<1>4. CASE StorageError \/ CancelRun \/ GoStale \/ Crash
  BY <1>4, OutsideSteps, FinalSteps
<1>5. CASE RecoveryPass \/ RecoverStops
  BY <1>5, RecoverySteps DEF RecoveryPass
<1>6. CASE UNCHANGED vars
  BY <1>6 DEF vars, store, exec, seen, recovery, IndInv, TypeOK, StoreTypeOK,
              ControlInv, NumbersInv, SeqGapless
<1> QED
  BY <1>1, <1>2, <1>3, <1>4, <1>5, <1>6 DEF Next, RunStep

LEMMA IndInvariant == Spec => []IndInv
  BY InitInd, NextInd, PTL DEF Spec

--------------------------------------------------------------------------------
(* Every variable keeps its type: in particular a state that is written is *)
(* one of the 22, wherever the gate was bypassed (recovery, rejection).    *)
THEOREM TypeCorrect == Spec => []TypeOK
<1>1. IndInv => TypeOK
  BY DEF IndInv
<1> QED
  BY <1>1, IndInvariant, PTL

(* The n-th entry of run_events has seq n: the two ways the code numbers   *)
(* an entry, last_event_seq + 1 and MAX(seq) + 1, with nothing that locks  *)
(* one out while the other runs, never leave a gap nor use a number twice, *)
(* because UNIQUE(run_id, seq) makes the loser fail.                       *)
THEOREM JournalGapless == Spec => []SeqGapless
<1>1. IndInv => SeqGapless
  BY DEF IndInv
<1> QED
  BY <1>1, IndInvariant, PTL

--------------------------------------------------------------------------------
(* The invariants of the properties that come next, each inductive beside  *)
(* IndInv.                                                                 *)

(* One event at a time is in the journal and not yet with the window, and  *)
(* the message is open until the executor finalizes it.                    *)
ViewInv ==
  /\ pc \in {"gate", "toolEmit"} => Len(msgEvents) = emitted + 1
  /\ pc \notin {"gate", "toolEmit", "dead"} => Len(msgEvents) = emitted
  /\ pc \notin {"finState", "finStatus", "announce", "err"} \cup StoppedPcs =>
       msgStatus \notin FinalStatuses

(* A round that may still run its tool was granted by the budget and has   *)
(* not run one yet.                                                        *)
BudgetInv ==
  /\ executed <= steps /\ executed <= MaxSteps
  /\ pc \in StreamPcs \cup {"drained", "tool"} => executed < steps /\ steps <= MaxSteps

ToolsInv ==
  /\ pc = "toolRan" => Cardinality(ToolResults) + 1 >= executed
  /\ pc \notin {"toolRan", "err", "ended", "dead"} => Cardinality(ToolResults) >= executed

(* The entries an event may point at. *)
LinkKinds(e) ==
  {"unrecoverable_error"} \cup
    CASE e = "delta"     -> {"first_token"}
      [] e = "tool_call" -> {"tool_call_emitted"}
      [] e = "done_stop" -> {"checkpoint_persisted"}
      [] e = "cancelled" -> {"user_cancel"}
      [] OTHER           -> {}

AllLinksBelow(s) == \A n \in DOMAIN msgEvents : msgEvents[n].runSeq < s

(* No link runs past last_event_seq; the event being handled is the last   *)
(* of the journal and has no link yet; the entry it will get was written   *)
(* after all that are linked.                                              *)
LinkInv ==
  /\ EventsLinked
  /\ AllLinksBelow(lastEventSeq + 1)
  /\ pc \in {"gate", "walk", "link"} \cup RejectPcs =>
       msgEvents # << >> /\ Last(msgEvents) = [ev |-> ev, runSeq |-> 0]
  /\ pc = "walk" => Last(walk).kind \in LinkKinds(ev)
  /\ pc = "link" => /\ lastEventSeq \in DOMAIN runEvents
                    /\ runEvents[lastEventSeq].kind \in LinkKinds(ev)
                    /\ AllLinksBelow(lastEventSeq)
  /\ pc \in {"rejectInsert", "rejectState", "rejectLink"} => AllLinksBelow(rejSeq)
  /\ pc \in {"rejectState", "rejectLink"} =>
       rejSeq \in DOMAIN runEvents /\ runEvents[rejSeq].kind = "unrecoverable_error"
  /\ pc = "rejectLink" => lastEventSeq = rejSeq

(* The verdict is open until the run is finalized. *)
OpenVerdictInv ==
  pc \notin {"err", "announce"} \cup FinalPcs \cup StoppedPcs =>
    verdict = NoVerdict /\ runStatus # "completed"

(* Where the journal of transitions ends. *)
JournalEnd == IF runEvents = << >> THEN "created" ELSE Last(runEvents).to

(* Where run_state_for_event takes the run. *)
Reached == ApplyTransition(WalkFrom(cur, Causes(cur, ev), Len(Causes(cur, ev))),
                           Last(Causes(cur, ev)))

(* The transitions still to be written are a path from the state of the    *)
(* run, each with the target that the gate will compute again.             *)
WalkIsPath ==
  /\ walk[1].from = runState
  /\ \A n \in DOMAIN walk : walk[n].to = ApplyTransition(walk[n].from, walk[n].kind)
  /\ \A n \in 2 .. Len(walk) : walk[n].from = walk[n - 1].to

(* Recovery of this instance finds nobody at work. *)
AloneInv ==
  /\ rec # "off" => starts > 0
  /\ starts > 0 => pc \in StoppedPcs

(* While the run is at work its row stands where the journal ends, and the *)
(* executor knows it.                                                      *)
PathInv ==
  /\ pc \in SetupPcs \cup {"idle"} => runEvents = << >>
  /\ pc \notin {"rejectState", "err"} \cup StoppedPcs => runState = JournalEnd
  /\ pc \in {"init", "walk"} => WalkIsPath
  /\ pc \in {"top", "recv", "gate", "handle", "reject", "rejectInsert", "drained"}
            \cup ToolPcs => cur = runState
  /\ pc = "walk" => Last(walk).to = Reached
  /\ pc = "link" => runState = Reached
  /\ pc = "rejectState" => runEvents # << >> /\ Last(runEvents).kind = "unrecoverable_error"
                                            /\ Last(runEvents).to = "failed"

(* A tool call that was collected left the run in waiting_tool_call, which *)
(* only a failure of the stream has changed by the time the tool is run.   *)
CallInv ==
  /\ pc \in {"recv", "gate", "walk", "link"} /\ pendingCall => cur = "waiting_tool_call"
  /\ pc = "handle" /\ (pendingCall \/ ev = "tool_call") =>
       \/ cur = "waiting_tool_call"
       \/ cur = "failed" /\ ev \in {"done_error", "error"}
       \/ ev = "cancelled"
  /\ (pc = "drained" /\ pendingCall) \/ pc \in ToolPcs =>
       cur \in {"waiting_tool_call", "failed"}

(* What recovery read is where the journal ends. *)
RecoveryInv ==
  /\ rec = "listed" => recFrom = runState /\ runState \notin TerminalStates
  /\ rec \in {"read", "marked", "append"} => recFrom = JournalEnd
  /\ rec \in {"marked", "append"} => runState = "interrupted"

SoloInv == AloneInv /\ PathInv /\ CallInv /\ RecoveryInv /\ JournalHonest

(* The order of the writes of the end: message, state, status, window.     *)
VerdictInv ==
  /\ pc \notin {"announce"} \cup StoppedPcs => runStatus \notin FinalStatuses
  /\ pc = "err" => verdict \in {"failed", "cancelled"}
  /\ pc = "finState" => verdict = "completed"
  /\ pc \in {"finState", "finStatus"} => msgStatus = verdict
  /\ pc = "finStatus" /\ verdict = "completed" => runState = "completed"
  /\ pc = "announce" => runStatus = verdict
  /\ pc # "ended" => uiStatus = NoVerdict
  /\ VerdictsAgree

--------------------------------------------------------------------------------
(* The stream as the window sees it.                                       *)

(* Every step keeps ViewInv. *)
LEMMA ViewSteps ==
  ASSUME IndInv, ViewInv, Next
  PROVE  ViewInv'
<1> USE DEF IndInv, TypeOK, StoreTypeOK, ViewInv, store, exec, seen, recovery, GoFail, Finalize,
            FinalStatuses, SetupPcs, ExecutorPcs, StreamPcs, RejectPcs, ToolPcs,
            FinalPcs, StoppedPcs
<1>1. CASE OrchestratorStep \/ SendMessage
  BY <1>1 DEF OrchestratorStep, SendMessage, RefuseMessage, RegisterRun, OpenMessage, StartRun,
              InitStep, WriteEdge, SetStateValidated, InitStepFails, InitFail
<1>2. CASE LoadRun \/ LoadFails \/ TopCancelled \/ BudgetExceeded \/ OpenStream
           \/ RecvCancelled \/ Watchdog \/ StreamEnds
  BY <1>2 DEF LoadRun, LoadFails, TopCancelled, BudgetExceeded, OpenStream, RecvCancelled,
              Watchdog, StreamEnds
<1>3. CASE \E e \in StreamEvents : PersistEvent(e)
  BY <1>3 DEF PersistEvent, AppendMessageEvent
<1>4. CASE EmitAndAsk
  BY <1>4 DEF EmitAndAsk
<1>5. CASE WalkStep \/ WalkStepFails \/ LinkEvent \/ HandleContinue \/ HandleDone \/ HandleFinal
  <2>1. CASE WalkStep
    BY <2>1 DEF WalkStep, WriteEdge, SetStateValidated
  <2>2. CASE WalkStepFails \/ LinkEvent
    BY <2>2 DEF WalkStepFails, LinkEvent, SetRunSeq
  <2>3. CASE HandleContinue \/ HandleDone \/ HandleFinal
    BY <2>3 DEF HandleContinue, HandleDone, HandleFinal
  <2> QED
    BY <1>5, <2>1, <2>2, <2>3
<1>6. CASE RejectReadSeq \/ RejectInsert \/ RejectInsertFails \/ RejectSetState \/ RejectLink
  BY <1>6 DEF RejectReadSeq, RejectInsert, RejectInsertFails, RejectSetState,
              SetStateUnchecked, RejectLink, SetRunSeq
<1>7. CASE DrainedCancelled \/ DrainedTool \/ DrainedCompleted
           \/ ToolUnknown \/ ToolNeedsApproval \/ ToolExecute
  BY <1>7 DEF DrainedCancelled, DrainedTool, DrainedCompleted, ToolUnknown, ToolNeedsApproval,
              ToolExecute
<1>8. CASE ToolPersist \/ ToolEmit \/ ToolDone \/ ToolDoneFails
  <2>1. CASE ToolPersist
    BY <2>1 DEF ToolPersist, AppendMessageEvent
  <2>2. CASE ToolEmit
    BY <2>2 DEF ToolEmit
  <2>3. CASE ToolDone \/ ToolDoneFails
    BY <2>3 DEF ToolDone, SetStateValidated, ToolDoneFails
  <2> QED
    BY <1>8, <2>1, <2>2, <2>3
<1>9. CASE FinalizeMessage \/ FinalizeState \/ FinalizeStateFails \/ FinalizeStatus
           \/ Announce \/ StorageError
  BY <1>9 DEF FinalizeMessage, FinalizeState, SetStateValidated, FinalizeStateFails,
              FinalizeStatus, Announce, StorageError, WritingPcs
<1>10. CASE CancelRun \/ GoStale \/ Crash \/ RecoverStops \/ RecoveryPass
  BY <1>10 DEF CancelRun, GoStale, Crash, RecoverStops, RecoveryPass, RecoverList, RecoverRead,
               RecoverMark, RecoverReadSeq, RecoverAppend, MarkInterrupted
<1> QED
  BY <1>1, <1>2, <1>3, <1>4, <1>5, <1>6, <1>7, <1>8, <1>9, <1>10
     DEF Next, RunStep, ExecutorStep, ProviderStep

(* A step of the run is a step of EventStream, or leaves its view alone:    *)
(* a persisted event is logged, an emitted one delivered, the finalized     *)
(* message closes the stream.                                               *)
LEMMA ViewStepImplements ==
  ASSUME IndInv, ViewInv, Next
  PROVE  [EventStreamView!StreamNext]_(EventStreamView!streamVars)
<1> DEFINE view == EventStreamView!streamVars
<1> USE DEF IndInv, TypeOK, StoreTypeOK, ViewInv, store, exec, seen, recovery, GoFail, Finalize,
            SetupPcs, ExecutorPcs, StreamPcs, RejectPcs, ToolPcs,
            FinalPcs, StoppedPcs, FinalStatuses
<1>0. /\ Len(msgEvents) \in Nat
      /\ \A e : Len(Append(msgEvents, e)) = Len(msgEvents) + 1
      /\ \A n, q : SetRunSeq(n, q) => Len(msgEvents') = Len(msgEvents)
  BY DEF SetRunSeq
<1>1. CASE /\ UNCHANGED << msgStatus, emitted >> 
           /\ Len(msgEvents') = Len(msgEvents)
  BY <1>1 DEF EventStreamView!streamVars
<1>2. CASE OpenMessage
  BY <1>2 DEF OpenMessage, EventStreamView!streamVars, EventStreamView!Open
<1>3. CASE (\E e \in StreamEvents : PersistEvent(e)) \/ ToolPersist
  <2>1. /\ UNCHANGED << msgStatus, emitted >> /\ Len(msgEvents') = Len(msgEvents) + 1
        /\ emitted = Len(msgEvents) /\ msgStatus \notin FinalStatuses
    BY <1>0, <1>3 DEF PersistEvent, ToolPersist, AppendMessageEvent
  <2>2. EventStreamView!Log
    BY <2>1 DEF EventStreamView!Log, EventStreamView!Open
  <2> QED
    BY <2>2 DEF EventStreamView!StreamNext
<1>4. CASE EmitAndAsk \/ ToolEmit
  <2>1. /\ UNCHANGED << msgStatus, msgEvents >> 
        /\ emitted + 1 = Len(msgEvents) /\ emitted' = Len(msgEvents)
    BY <1>0, <1>4 DEF EmitAndAsk, ToolEmit
  <2>2. EventStreamView!Deliver
    BY <1>0, <2>1 DEF EventStreamView!Deliver
  <2> QED
    BY <2>2 DEF EventStreamView!StreamNext
<1>5. CASE FinalizeMessage
  <2>1. /\ UNCHANGED << emitted, msgEvents >> /\ emitted = Len(msgEvents)
        /\ msgStatus \notin FinalStatuses /\ msgStatus' \in FinalStatuses
    BY <1>5 DEF FinalizeMessage, ControlInv
  <2>2. EventStreamView!Close
    BY <2>1 DEF EventStreamView!Close, EventStreamView!Open
  <2> QED
    BY <2>2 DEF EventStreamView!StreamNext
<1> QED
  <2>1. CASE OrchestratorStep \/ SendMessage
    BY <2>1, <1>1, <1>2 DEF OrchestratorStep, SendMessage, RefuseMessage, RegisterRun,
       StartRun, InitStep, WriteEdge, InitStepFails, InitFail
  <2>2. CASE LoadRun \/ LoadFails \/ TopCancelled \/ BudgetExceeded \/ OpenStream
             \/ RecvCancelled \/ Watchdog \/ StreamEnds
    BY <2>2, <1>1 DEF LoadRun, LoadFails, TopCancelled, BudgetExceeded, OpenStream,
       RecvCancelled, Watchdog, StreamEnds
  <2>3. CASE WalkStep \/ WalkStepFails \/ LinkEvent \/ HandleContinue \/ HandleDone
             \/ HandleFinal
    BY <2>3, <1>0, <1>1 DEF WalkStep, WriteEdge, WalkStepFails, LinkEvent, HandleContinue,
       HandleDone, HandleFinal
  <2>4. CASE RejectReadSeq \/ RejectInsert \/ RejectInsertFails \/ RejectSetState
             \/ RejectLink
    BY <2>4, <1>0, <1>1 DEF RejectReadSeq, RejectInsert, RejectInsertFails, RejectSetState,
       RejectLink
  <2>5. CASE DrainedCancelled \/ DrainedTool \/ DrainedCompleted \/ ToolUnknown
             \/ ToolNeedsApproval \/ ToolExecute \/ ToolDone \/ ToolDoneFails
    BY <2>5, <1>1 DEF DrainedCancelled, DrainedTool, DrainedCompleted, ToolUnknown,
       ToolNeedsApproval, ToolExecute, ToolDone, ToolDoneFails
  <2>6. CASE FinalizeState \/ FinalizeStateFails \/ FinalizeStatus \/ Announce \/ StorageError
    BY <2>6, <1>1 DEF FinalizeState, FinalizeStateFails, FinalizeStatus, Announce, StorageError
  <2>7. CASE CancelRun \/ GoStale \/ Crash \/ RecoverStops \/ RecoveryPass
    BY <2>7, <1>1 DEF CancelRun, GoStale, Crash, RecoverStops, RecoveryPass, RecoverList,
       RecoverRead, RecoverMark, RecoverReadSeq, RecoverAppend
  <2> QED
    BY <1>2, <1>3, <1>4, <1>5, <2>1, <2>2, <2>3, <2>4, <2>5, <2>6, <2>7
       DEF Next, RunStep, ExecutorStep, ProviderStep

(* The view is kept for the whole run. *)
LEMMA ViewInvariant == Spec => []ViewInv
<1>1. Init => ViewInv
  BY DEF Init, StoreInit, ViewInv, FinalStatuses, StoppedPcs
<1>2. IndInv /\ ViewInv /\ [Next]_vars => ViewInv'
  <2>1. CASE UNCHANGED vars
    BY <2>1 DEF vars, store, exec, seen, ViewInv
  <2> QED
    BY <2>1, ViewSteps
<1> QED
  BY <1>1, <1>2, IndInvariant, PTL DEF Spec

(* The run implements the event stream the window relies on: each event is  *)
(* journaled before it is sent, all are sent in order before the message is *)
(* closed, and the message is closed once (persist_journal, the emit that   *)
(* follows it, finalize_status).                                            *)
THEOREM StreamRefined == Spec => ImplementsEventStream
<1>1. Init => EventStreamView!StreamInit
  BY DEF Init, StoreInit, EventStreamView!StreamInit, EventStreamView!Open, FinalStatuses
<1>2. IndInv /\ ViewInv /\ [Next]_vars => [EventStreamView!StreamNext]_(EventStreamView!streamVars)
  <2>1. CASE UNCHANGED vars
    BY <2>1 DEF vars, store, exec, seen, EventStreamView!streamVars
  <2> QED
    BY <2>1, ViewStepImplements
<1> QED
  BY <1>1, <1>2, IndInvariant, ViewInvariant, PTL
     DEF Spec, ImplementsEventStream, EventStreamView!StreamSpec

--------------------------------------------------------------------------------
(* The tools.                                                              *)

(* Every step keeps BudgetInv. *)
LEMMA BudgetSteps ==
  ASSUME IndInv, BudgetInv, Next
  PROVE  BudgetInv'
<1> USE DEF IndInv, TypeOK, StoreTypeOK, BudgetInv, store, exec, seen, recovery, GoFail,
            Finalize, FinalStatuses, SetupPcs, ExecutorPcs, StreamPcs, RejectPcs, ToolPcs,
            FinalPcs, StoppedPcs
<1>0. MaxSteps \in Nat
  BY LifecycleAssumption
<1>1. CASE OrchestratorStep \/ SendMessage
  BY <1>1, <1>0 DEF OrchestratorStep, SendMessage, RefuseMessage, RegisterRun, OpenMessage,
           StartRun, InitStep, WriteEdge, SetStateValidated, InitStepFails, InitFail
<1>2. CASE LoadRun \/ LoadFails \/ TopCancelled \/ BudgetExceeded \/ OpenStream \/ RecvCancelled
           \/ Watchdog \/ StreamEnds
  BY <1>2, <1>0 DEF LoadRun, LoadFails, TopCancelled, BudgetExceeded, OpenStream, Tick,
           RecvCancelled, Watchdog, StreamEnds
<1>3. CASE \E e \in StreamEvents : PersistEvent(e)
  BY <1>3, <1>0 DEF PersistEvent, AppendMessageEvent
<1>4. CASE EmitAndAsk
  BY <1>4, <1>0 DEF EmitAndAsk
<1>5. CASE WalkStep \/ WalkStepFails \/ LinkEvent \/ HandleContinue \/ HandleDone \/ HandleFinal
  BY <1>5, <1>0 DEF WalkStep, WriteEdge, SetStateValidated, WalkStepFails, LinkEvent,
           HandleContinue, HandleDone, HandleFinal
<1>6. CASE RejectReadSeq \/ RejectInsert \/ RejectInsertFails \/ RejectSetState \/ RejectLink
  BY <1>6, <1>0 DEF RejectReadSeq, RejectInsert, RejectInsertFails, RejectSetState,
           SetStateUnchecked, RejectLink
<1>7. CASE DrainedCancelled \/ DrainedTool \/ DrainedCompleted
  BY <1>7, <1>0 DEF DrainedCancelled, DrainedTool, DrainedCompleted
<1>8. CASE ToolUnknown \/ ToolExecute
  BY <1>8, <1>0 DEF ToolUnknown, ToolExecute
<1>9. CASE ToolNeedsApproval
  BY <1>9, <1>0 DEF ToolNeedsApproval
<1>10. CASE ToolPersist
  BY <1>10, <1>0 DEF ToolPersist, AppendMessageEvent
<1>11. CASE ToolEmit \/ ToolDone \/ ToolDoneFails
  BY <1>11, <1>0 DEF ToolEmit, ToolDone, SetStateValidated, ToolDoneFails
<1>12. CASE FinalizeMessage \/ FinalizeState \/ FinalizeStateFails \/ FinalizeStatus \/ Announce
           \/ StorageError
  BY <1>12, <1>0 DEF FinalizeMessage, FinalizeState, SetStateValidated, FinalizeStateFails,
           FinalizeStatus, Announce, StorageError, WritingPcs
<1>13. CASE CancelRun \/ GoStale \/ Crash \/ RecoverStops \/ RecoveryPass
  BY <1>13, <1>0 DEF CancelRun, GoStale, Crash, RecoverStops, RecoveryPass, RecoverList,
           RecoverRead, RecoverMark, RecoverReadSeq, RecoverAppend, MarkInterrupted
<1> QED
  BY <1>1, <1>2, <1>3, <1>4, <1>5, <1>6, <1>7, <1>8, <1>9, <1>10, <1>11, <1>12, <1>13
     DEF Next, RunStep, ExecutorStep, ProviderStep

(* Every step keeps OpenVerdictInv. *)
LEMMA OpenVerdictSteps ==
  ASSUME IndInv, OpenVerdictInv, Next
  PROVE  OpenVerdictInv'
<1> USE DEF IndInv, TypeOK, StoreTypeOK, OpenVerdictInv, NoVerdict, store, exec, seen, recovery,
            GoFail, Finalize, FinalStatuses, SetupPcs, ExecutorPcs, StreamPcs, RejectPcs,
            ToolPcs, FinalPcs, StoppedPcs
<1>1. CASE OrchestratorStep \/ SendMessage
  BY <1>1 DEF OrchestratorStep, SendMessage, RefuseMessage, RegisterRun, OpenMessage, StartRun,
           InitStep, WriteEdge, SetStateValidated, InitStepFails, InitFail
<1>2. CASE LoadRun \/ LoadFails \/ TopCancelled \/ BudgetExceeded \/ OpenStream \/ RecvCancelled
           \/ Watchdog \/ StreamEnds
  BY <1>2 DEF LoadRun, LoadFails, TopCancelled, BudgetExceeded, OpenStream, Tick, RecvCancelled,
           Watchdog, StreamEnds
<1>3. CASE \E e \in StreamEvents : PersistEvent(e)
  BY <1>3 DEF PersistEvent, AppendMessageEvent
<1>4. CASE EmitAndAsk
  BY <1>4 DEF EmitAndAsk
<1>5. CASE WalkStep \/ WalkStepFails \/ LinkEvent \/ HandleContinue \/ HandleDone \/ HandleFinal
  BY <1>5 DEF WalkStep, WriteEdge, SetStateValidated, WalkStepFails, LinkEvent, HandleContinue,
           HandleDone, HandleFinal
<1>6. CASE RejectReadSeq \/ RejectInsert \/ RejectInsertFails \/ RejectSetState \/ RejectLink
  BY <1>6 DEF RejectReadSeq, RejectInsert, RejectInsertFails, RejectSetState, SetStateUnchecked,
           RejectLink
<1>7. CASE DrainedCancelled \/ DrainedTool \/ DrainedCompleted
  BY <1>7 DEF DrainedCancelled, DrainedTool, DrainedCompleted
<1>8. CASE ToolUnknown \/ ToolExecute
  BY <1>8 DEF ToolUnknown, ToolExecute
<1>9. CASE ToolNeedsApproval
  BY <1>9 DEF ToolNeedsApproval
<1>10. CASE ToolPersist
  BY <1>10 DEF ToolPersist, AppendMessageEvent
<1>11. CASE ToolEmit \/ ToolDone \/ ToolDoneFails
  BY <1>11 DEF ToolEmit, ToolDone, SetStateValidated, ToolDoneFails
<1>12. CASE FinalizeMessage \/ FinalizeState \/ FinalizeStateFails \/ FinalizeStatus \/ Announce
           \/ StorageError
  BY <1>12 DEF FinalizeMessage, FinalizeState, SetStateValidated, FinalizeStateFails,
           FinalizeStatus, Announce, StorageError, WritingPcs
<1>13. CASE CancelRun \/ GoStale \/ Crash \/ RecoverStops \/ RecoveryPass
  BY <1>13 DEF CancelRun, GoStale, Crash, RecoverStops, RecoveryPass, RecoverList, RecoverRead,
           RecoverMark, RecoverReadSeq, RecoverAppend, MarkInterrupted
<1> QED
  BY <1>1, <1>2, <1>3, <1>4, <1>5, <1>6, <1>7, <1>8, <1>9, <1>10, <1>11, <1>12, <1>13
     DEF Next, RunStep, ExecutorStep, ProviderStep

(* What the writers of the message journal do to the results in it.        *)
LEMMA ResultsFinite ==
  ASSUME msgEvents \in Seq(MessageRecord)
  PROVE  IsFiniteSet(ToolResults) /\ Cardinality(ToolResults) \in Nat
<1>1. DOMAIN msgEvents = 1 .. Len(msgEvents) /\ Len(msgEvents) \in Nat
  OBVIOUS
<1>2. ToolResults \subseteq 1 .. Len(msgEvents)
  BY <1>1 DEF ToolResults
<1>3. IsFiniteSet(1 .. Len(msgEvents))
  BY <1>1, FS_Interval
<1>4. IsFiniteSet(ToolResults)
  BY <1>2, <1>3, FS_Subset
<1> QED
  BY <1>4, FS_CardinalityType

(* An event more adds at most one result, and a ToolResult is one. *)
LEMMA ResultsAfterAppend ==
  ASSUME msgEvents \in Seq(MessageRecord), NEW e, AppendMessageEvent(e)
  PROVE  /\ Cardinality(ToolResults') >= Cardinality(ToolResults)
         /\ Cardinality(ToolResults') \in Nat
         /\ e = "tool_result" => Cardinality(ToolResults') = Cardinality(ToolResults) + 1
<1>1. /\ Len(msgEvents) \in Nat /\ DOMAIN msgEvents = 1 .. Len(msgEvents)
      /\ DOMAIN msgEvents' = 1 .. Len(msgEvents) + 1
      /\ \A n \in DOMAIN msgEvents : msgEvents'[n] = msgEvents[n]
      /\ msgEvents'[Len(msgEvents) + 1].ev = e
      /\ \A n \in DOMAIN msgEvents' : n \in DOMAIN msgEvents \/ n = Len(msgEvents) + 1
  BY DEF AppendMessageEvent
<1>2. IsFiniteSet(ToolResults) /\ Cardinality(ToolResults) \in Nat
  BY ResultsFinite
<1>3. CASE e = "tool_result"
  <2>1. ToolResults' = ToolResults \cup {Len(msgEvents) + 1}
    BY <1>1, <1>3 DEF ToolResults
  <2>2. Len(msgEvents) + 1 \notin ToolResults
    BY <1>1 DEF ToolResults
  <2>3. Cardinality(ToolResults \cup {Len(msgEvents) + 1}) = Cardinality(ToolResults) + 1
    BY <1>2, <2>2, FS_AddElement
  <2> QED
    BY <1>2, <2>1, <2>3
<1>4. CASE e # "tool_result"
  <2>1. \A n : n \in ToolResults' <=> n \in ToolResults
    BY <1>1, <1>4 DEF ToolResults
  <2>2. ToolResults' = ToolResults
    BY <2>1
  <2> QED
    BY <1>2, <1>4, <2>2
<1> QED
  BY <1>3, <1>4

(* A link does not touch the kind of its event. *)
LEMMA ResultsAfterLink ==
  ASSUME msgEvents \in Seq(MessageRecord), NEW n, NEW q \in Nat, SetRunSeq(n, q)
  PROVE  ToolResults' = ToolResults
<1>1. /\ DOMAIN msgEvents' = DOMAIN msgEvents
      /\ \A m \in DOMAIN msgEvents : msgEvents'[m].ev = msgEvents[m].ev
  BY DEF SetRunSeq, MessageRecord
<1> QED
  BY <1>1 DEF ToolResults

(* Every step keeps ToolsInv. *)
LEMMA ToolsSteps ==
  ASSUME IndInv, ToolsInv, Next
  PROVE  ToolsInv'
<1> USE DEF IndInv, TypeOK, StoreTypeOK, ToolsInv, store, exec, seen, recovery, GoFail,
            Finalize, FinalStatuses, SetupPcs, ExecutorPcs, StreamPcs, RejectPcs, ToolPcs,
            FinalPcs, StoppedPcs
<1>0. IsFiniteSet(ToolResults) /\ Cardinality(ToolResults) \in Nat
  BY ResultsFinite
<1>a. UNCHANGED msgEvents => ToolResults' = ToolResults
  BY DEF ToolResults
<1>b. ASSUME NEW n, NEW q \in Nat, SetRunSeq(n, q)
      PROVE  ToolResults' = ToolResults
  BY <1>b, ResultsAfterLink
<1>c. ASSUME NEW e, AppendMessageEvent(e)
      PROVE  /\ Cardinality(ToolResults') >= Cardinality(ToolResults)
             /\ Cardinality(ToolResults') \in Nat
             /\ e = "tool_result" => Cardinality(ToolResults') = Cardinality(ToolResults) + 1
  BY <1>c, ResultsAfterAppend
<1>1. CASE OrchestratorStep \/ SendMessage
  BY <1>1, <1>0, <1>a, <1>b DEF OrchestratorStep, SendMessage, RefuseMessage, RegisterRun,
           OpenMessage, StartRun, InitStep, WriteEdge, SetStateValidated, InitStepFails,
           InitFail
<1>2. CASE LoadRun \/ LoadFails \/ TopCancelled \/ BudgetExceeded \/ OpenStream \/ RecvCancelled
           \/ Watchdog \/ StreamEnds
  BY <1>2, <1>0, <1>a, <1>b DEF LoadRun, LoadFails, TopCancelled, BudgetExceeded, OpenStream,
           Tick, RecvCancelled, Watchdog, StreamEnds
<1>3. CASE \E e \in StreamEvents : PersistEvent(e)
  BY <1>3, <1>0, <1>a, <1>c DEF PersistEvent, AppendMessageEvent
<1>4. CASE EmitAndAsk
  BY <1>4, <1>0, <1>a, <1>b DEF EmitAndAsk
<1>5. CASE WalkStep \/ WalkStepFails \/ LinkEvent \/ HandleContinue \/ HandleDone \/ HandleFinal
  BY <1>5, <1>0, <1>a, <1>b DEF WalkStep, WriteEdge, SetStateValidated, WalkStepFails,
           LinkEvent, HandleContinue, HandleDone, HandleFinal
<1>6. CASE RejectReadSeq \/ RejectInsert \/ RejectInsertFails \/ RejectSetState \/ RejectLink
  BY <1>6, <1>0, <1>a, <1>b DEF RejectReadSeq, RejectInsert, RejectInsertFails, RejectSetState,
           SetStateUnchecked, RejectLink
<1>7. CASE DrainedCancelled \/ DrainedTool \/ DrainedCompleted
  BY <1>7, <1>0, <1>a, <1>b DEF DrainedCancelled, DrainedTool, DrainedCompleted
<1>8. CASE ToolUnknown \/ ToolExecute
  BY <1>8, <1>0, <1>a, <1>b DEF ToolUnknown, ToolExecute
<1>9. CASE ToolNeedsApproval
  BY <1>9, <1>0, <1>a, <1>b DEF ToolNeedsApproval
<1>10. CASE ToolPersist
  BY <1>10, <1>0, <1>a, <1>c DEF ToolPersist, AppendMessageEvent
<1>11. CASE ToolEmit \/ ToolDone \/ ToolDoneFails
  BY <1>11, <1>0, <1>a, <1>b DEF ToolEmit, ToolDone, SetStateValidated, ToolDoneFails
<1>12. CASE FinalizeMessage \/ FinalizeState \/ FinalizeStateFails \/ FinalizeStatus \/ Announce
           \/ StorageError
  BY <1>12, <1>0, <1>a, <1>b DEF FinalizeMessage, FinalizeState, SetStateValidated,
           FinalizeStateFails, FinalizeStatus, Announce, StorageError, WritingPcs
<1>13. CASE CancelRun \/ GoStale \/ Crash \/ RecoverStops \/ RecoveryPass
  BY <1>13, <1>0, <1>a, <1>b DEF CancelRun, GoStale, Crash, RecoverStops, RecoveryPass,
           RecoverList, RecoverRead, RecoverMark, RecoverReadSeq, RecoverAppend, MarkInterrupted
<1> QED
  BY <1>1, <1>2, <1>3, <1>4, <1>5, <1>6, <1>7, <1>8, <1>9, <1>10, <1>11, <1>12, <1>13
     DEF Next, RunStep, ExecutorStep, ProviderStep

(* The budget is kept for the whole run. *)
LEMMA BudgetInvariant == Spec => []BudgetInv
<1>1. Init => BudgetInv
  <2> SUFFICES ASSUME Init PROVE BudgetInv
    OBVIOUS
  <2>1. MaxSteps \in Nat /\ steps = 0 /\ executed = 0 /\ pc = "idle"
    BY LifecycleAssumption DEF Init
  <2> QED
    BY <2>1 DEF BudgetInv, StreamPcs
<1>2. IndInv /\ BudgetInv /\ [Next]_vars => BudgetInv'
  <2>1. CASE UNCHANGED vars
    BY <2>1 DEF vars, store, exec, seen, recovery, BudgetInv
  <2> QED
    BY <2>1, BudgetSteps
<1> QED
  BY <1>1, <1>2, IndInvariant, PTL DEF Spec

(* The results are counted for the whole run. *)
LEMMA ToolsInvariant == Spec => []ToolsInv
<1>1. Init => ToolsInv
  <2> SUFFICES ASSUME Init PROVE ToolsInv
    OBVIOUS
  <2>1. ToolResults = {} /\ executed = 0 /\ pc = "idle"
    BY DEF Init, StoreInit, ToolResults
  <2> QED
    BY <2>1, FS_EmptySet DEF ToolsInv
<1>2. IndInv /\ ToolsInv /\ [Next]_vars => ToolsInv'
  <2>1. CASE UNCHANGED vars
    BY <2>1 DEF vars, store, exec, seen, recovery, ToolsInv, ToolResults
  <2> QED
    BY <2>1, ToolsSteps
<1> QED
  BY <1>1, <1>2, IndInvariant, PTL DEF Spec

(* A tool that ran has its result in the journal before the model is asked  *)
(* to go on, and a tool runs at most max_steps times (handle_tool_call,     *)
(* BudgetEnforcer.tick).                                                    *)
THEOREM ToolsAlwaysAccounted == Spec => []ToolsAccounted
<1>1. IndInv /\ BudgetInv /\ ToolsInv => ToolsAccounted
  <2> SUFFICES ASSUME IndInv, BudgetInv, ToolsInv PROVE ToolsAccounted
    OBVIOUS
  <2> QED
    BY DEF BudgetInv, ToolsInv, ToolsAccounted
<1> QED
  BY <1>1, IndInvariant, BudgetInvariant, ToolsInvariant, PTL

--------------------------------------------------------------------------------
(* The cancel.                                                             *)

(* Nothing is decided before the run is finalized. *)
LEMMA OpenVerdictInvariant == Spec => []OpenVerdictInv
<1>1. Init => OpenVerdictInv
  BY DEF Init, StoreInit, OpenVerdictInv
<1>2. IndInv /\ OpenVerdictInv /\ [Next]_vars => OpenVerdictInv'
  <2>1. CASE UNCHANGED vars
    BY <2>1 DEF vars, store, exec, seen, recovery, OpenVerdictInv
  <2> QED
    BY <2>1, OpenVerdictSteps
<1> QED
  BY <1>1, <1>2, IndInvariant, PTL DEF Spec

(* What a cancelled run has to keep: it cannot complete any more. *)
NotCompleting == token /\ verdict # "completed" /\ runStatus # "completed"

(* Once it is so it stays so: the one step that decides for completed asks  *)
(* the token, and the one that writes the status writes the verdict.        *)
LEMMA NotCompletingStable == NotCompleting /\ [Next]_vars => NotCompleting'
<1> SUFFICES ASSUME NotCompleting, [Next]_vars PROVE NotCompleting'
  OBVIOUS
<1> USE DEF NotCompleting, store, exec, seen, recovery, GoFail, Finalize
<1>1. CASE OrchestratorStep \/ SendMessage
  BY <1>1 DEF OrchestratorStep, SendMessage, RefuseMessage, RegisterRun, OpenMessage, StartRun,
           InitStep, WriteEdge, SetStateValidated, InitStepFails, InitFail
<1>2. CASE LoadRun \/ LoadFails \/ TopCancelled \/ BudgetExceeded \/ OpenStream \/ RecvCancelled
           \/ Watchdog \/ StreamEnds
  BY <1>2 DEF LoadRun, LoadFails, TopCancelled, BudgetExceeded, OpenStream, Tick, RecvCancelled,
           Watchdog, StreamEnds
<1>3. CASE \E e \in StreamEvents : PersistEvent(e)
  BY <1>3 DEF PersistEvent, AppendMessageEvent
<1>4. CASE EmitAndAsk
  BY <1>4 DEF EmitAndAsk
<1>5. CASE WalkStep \/ WalkStepFails \/ LinkEvent \/ HandleContinue \/ HandleDone \/ HandleFinal
  BY <1>5 DEF WalkStep, WriteEdge, SetStateValidated, WalkStepFails, LinkEvent, HandleContinue,
           HandleDone, HandleFinal, SetRunSeq
<1>6. CASE RejectReadSeq \/ RejectInsert \/ RejectInsertFails \/ RejectSetState \/ RejectLink
  BY <1>6 DEF RejectReadSeq, RejectInsert, RejectInsertFails, RejectSetState, SetStateUnchecked,
           RejectLink, SetRunSeq
<1>7. CASE DrainedCancelled \/ DrainedTool \/ DrainedCompleted
  BY <1>7 DEF DrainedCancelled, DrainedTool, DrainedCompleted
<1>8. CASE ToolUnknown \/ ToolExecute
  BY <1>8 DEF ToolUnknown, ToolExecute
<1>9. CASE ToolNeedsApproval
  BY <1>9 DEF ToolNeedsApproval
<1>10. CASE ToolPersist
  BY <1>10 DEF ToolPersist, AppendMessageEvent
<1>11. CASE ToolEmit \/ ToolDone \/ ToolDoneFails
  BY <1>11 DEF ToolEmit, ToolDone, SetStateValidated, ToolDoneFails
<1>12. CASE FinalizeMessage \/ FinalizeState \/ FinalizeStateFails \/ FinalizeStatus \/ Announce
           \/ StorageError
  BY <1>12 DEF FinalizeMessage, FinalizeState, SetStateValidated, FinalizeStateFails,
           FinalizeStatus, Announce, StorageError, WritingPcs
<1>13. CASE CancelRun \/ GoStale \/ Crash \/ RecoverStops \/ RecoveryPass
  BY <1>13 DEF CancelRun, GoStale, Crash, RecoverStops, RecoveryPass, RecoverList, RecoverRead,
           RecoverMark, RecoverReadSeq, RecoverAppend, MarkInterrupted
<1>14. CASE UNCHANGED vars
  BY <1>14 DEF vars
<1> QED
  BY <1>1, <1>2, <1>3, <1>4, <1>5, <1>6, <1>7, <1>8, <1>9, <1>10, <1>11, <1>12, <1>13, <1>14
     DEF Next, RunStep, ExecutorStep, ProviderStep

(* A cancel that arrives between the start of the run and the end of a      *)
(* stream is obeyed, even if the stream had already delivered its Done      *)
(* (cancel_run, the biased select and the check after the stream).          *)
THEOREM CancelIsObeyed == Spec => CancelObeyed
<1>1. OpenVerdictInv /\ token /\ pc \in {"load", "top"} \cup StreamPcs => NotCompleting
  BY DEF OpenVerdictInv, NotCompleting, NoVerdict, StreamPcs, FinalPcs, StoppedPcs
<1>2. NotCompleting => runStatus # "completed"
  BY DEF NotCompleting
<1> QED
  BY <1>1, <1>2, NotCompletingStable, OpenVerdictInvariant, PTL DEF Spec, CancelObeyed

--------------------------------------------------------------------------------
(* The links between the two journals.                                     *)

(* Every link of the events points at an entry it may point at, and those  *)
(* of earlier events at earlier ones.                                      *)
Linked(events, entries) ==
  \A n \in DOMAIN events : events[n].runSeq # 0 =>
    /\ events[n].runSeq \in DOMAIN entries
    /\ entries[events[n].runSeq].kind \in LinkKinds(events[n].ev)
    /\ \A m \in 1 .. n - 1 : events[m].runSeq < events[n].runSeq

(* The last cause of an event is what its link may point at. *)
LEMMA LastCause ==
  ASSUME NEW c, NEW e \in StreamEvents, Causes(c, e) # << >>
  PROVE  /\ Len(Causes(c, e)) \in Nat \ {0}
         /\ Last(Causes(c, e)) \in LinkKinds(e)
         /\ Len(StreamTransitions(c, e).walk) = Len(Causes(c, e))
         /\ Last(StreamTransitions(c, e).walk).kind = Last(Causes(c, e))
<1>1. Len(Causes(c, e)) \in Nat \ {0} /\ Last(Causes(c, e)) \in LinkKinds(e)
  BY DEF Causes, LinkKinds, Last, StreamEvents
<1>2. Len(StreamTransitions(c, e).walk) = Len(Causes(c, e))
  BY <1>1 DEF StreamTransitions
<1>3. Last(StreamTransitions(c, e).walk).kind = Last(Causes(c, e))
  BY <1>1, <1>2 DEF StreamTransitions, Last, Edge
<1> QED
  BY <1>1, <1>2, <1>3

(* An entry more leaves the links as they are. *)
LEMMA EntryKeepsLinks ==
  ASSUME runEvents \in Seq(JournalRecord), EventsLinked, UNCHANGED msgEvents,
         NEW entry, runEvents' = Append(runEvents, entry)
  PROVE  EventsLinked'
<1>1. \A n \in DOMAIN runEvents : n \in DOMAIN runEvents' /\ runEvents'[n] = runEvents[n]
  OBVIOUS
<1>2. Linked(msgEvents, runEvents)
  BY DEF EventsLinked, Linked, LinkKinds
<1>3. Linked(msgEvents', runEvents')
  BY <1>1, <1>2 DEF Linked
<1> QED
  BY <1>3 DEF EventsLinked, Linked, LinkKinds

(* So does an event more, which has no link yet. *)
LEMMA EventKeepsLinks ==
  ASSUME msgEvents \in Seq(MessageRecord), EventsLinked, UNCHANGED runEvents,
         NEW e \in StreamEvents \cup {"tool_result"}, AppendMessageEvent(e)
  PROVE  /\ EventsLinked'
         /\ msgEvents' # << >> /\ Last(msgEvents)' = [ev |-> e, runSeq |-> 0]
         /\ \A n \in DOMAIN msgEvents' :
              \/ n \in DOMAIN msgEvents /\ msgEvents'[n] = msgEvents[n]
              \/ msgEvents'[n].runSeq = 0
<1> DEFINE entry == [ev |-> e, runSeq |-> 0]
<1>1. /\ Len(msgEvents) \in Nat /\ DOMAIN msgEvents = 1 .. Len(msgEvents)
      /\ DOMAIN msgEvents' = 1 .. Len(msgEvents) + 1
      /\ Len(msgEvents') = Len(msgEvents) + 1
      /\ \A n \in DOMAIN msgEvents : msgEvents'[n] = msgEvents[n]
      /\ msgEvents'[Len(msgEvents) + 1] = entry
  BY DEF AppendMessageEvent
<1>2. \A n \in DOMAIN msgEvents' : n \in DOMAIN msgEvents \/ n = Len(msgEvents) + 1
  BY <1>1
<1>3. Linked(msgEvents, runEvents)
  BY DEF EventsLinked, Linked, LinkKinds
<1>4. Linked(msgEvents', runEvents')
  <2> SUFFICES ASSUME NEW n \in DOMAIN msgEvents', msgEvents'[n].runSeq # 0
               PROVE  /\ msgEvents'[n].runSeq \in DOMAIN runEvents'
                      /\ runEvents'[msgEvents'[n].runSeq].kind \in LinkKinds(msgEvents'[n].ev)
                      /\ \A m \in 1 .. n - 1 : msgEvents'[m].runSeq < msgEvents'[n].runSeq
    BY DEF Linked
  <2>1. n \in DOMAIN msgEvents /\ msgEvents'[n] = msgEvents[n]
    BY <1>1, <1>2
  <2>2. \A m \in 1 .. n - 1 : msgEvents'[m] = msgEvents[m]
    BY <1>1, <2>1
  <2> QED
    BY <1>3, <2>1, <2>2 DEF Linked
<1>5. EventsLinked'
  BY <1>4 DEF EventsLinked, Linked, LinkKinds
<1> QED
  BY <1>1, <1>2, <1>5 DEF Last

(* The last event gets a link to an entry of its own that is newer than    *)
(* what is linked.                                                         *)
LEMMA LinkLast ==
  ASSUME msgEvents \in Seq(MessageRecord), EventsLinked, UNCHANGED runEvents,
         msgEvents # << >>, NEW s \in DOMAIN runEvents, s \in Nat,
         runEvents[s].kind \in LinkKinds(Last(msgEvents).ev), AllLinksBelow(s),
         SetRunSeq(Len(msgEvents), s)
  PROVE  /\ EventsLinked'
         /\ \A n \in DOMAIN msgEvents' : msgEvents'[n].runSeq < s + 1
<1>0. \A n \in DOMAIN msgEvents : msgEvents[n] \in MessageRecord
  OBVIOUS
<1>1. /\ Len(msgEvents) \in Nat \ {0} /\ DOMAIN msgEvents = 1 .. Len(msgEvents)
      /\ DOMAIN msgEvents' = DOMAIN msgEvents
      /\ \A n \in DOMAIN msgEvents : n # Len(msgEvents) => msgEvents'[n] = msgEvents[n]
      /\ msgEvents'[Len(msgEvents)].runSeq = s
      /\ msgEvents'[Len(msgEvents)].ev = Last(msgEvents).ev
  BY <1>0 DEF SetRunSeq, Last, MessageRecord
<1>2. \A n \in DOMAIN msgEvents : msgEvents[n].runSeq \in Nat /\ msgEvents[n].runSeq < s
  BY <1>0 DEF AllLinksBelow, MessageRecord
<1>3. Linked(msgEvents, runEvents)
  BY DEF EventsLinked, Linked, LinkKinds
<1>4. Linked(msgEvents', runEvents')
  <2> SUFFICES ASSUME NEW n \in DOMAIN msgEvents', msgEvents'[n].runSeq # 0
               PROVE  /\ msgEvents'[n].runSeq \in DOMAIN runEvents'
                      /\ runEvents'[msgEvents'[n].runSeq].kind \in LinkKinds(msgEvents'[n].ev)
                      /\ \A m \in 1 .. n - 1 : msgEvents'[m].runSeq < msgEvents'[n].runSeq
    BY DEF Linked
  <2>1. \A m \in 1 .. n - 1 : m \in DOMAIN msgEvents /\ msgEvents'[m] = msgEvents[m]
    BY <1>1
  <2>2. CASE n = Len(msgEvents)
    BY <1>1, <1>2, <2>1, <2>2
  <2>3. CASE n # Len(msgEvents)
    BY <1>1, <1>3, <2>1, <2>3 DEF Linked
  <2> QED
    BY <2>2, <2>3
<1>5. EventsLinked'
  BY <1>4 DEF EventsLinked, Linked, LinkKinds
<1>6. \A n \in DOMAIN msgEvents' : msgEvents'[n].runSeq < s + 1
  BY <1>1, <1>2
<1> QED
  BY <1>5, <1>6

(* A link is a number. *)
LEMMA RunSeqTyped ==
  ASSUME msgEvents \in Seq(MessageRecord)
  PROVE  \A n \in DOMAIN msgEvents : msgEvents[n].runSeq \in Nat
<1>1. \A n \in DOMAIN msgEvents : msgEvents[n] \in MessageRecord
  OBVIOUS
<1> QED
  BY <1>1 DEF MessageRecord

(* The last edge of a walk stays the last while the walk is written. *)
LEMMA LastOfTail ==
  ASSUME NEW S, NEW s \in Seq(S), s # << >>
  PROVE  IF Len(s) = 1 THEN Head(s) = Last(s) ELSE Last(Tail(s)) = Last(s)
<1>1. Len(s) \in Nat \ {0}
  OBVIOUS
<1>2. CASE Len(s) = 1
  BY <1>2 DEF Last
<1>3. CASE Len(s) # 1
  <2> DEFINE n == Len(s)
  <2>0. n \in Nat \ {0} /\ n # 1
    BY <1>1, <1>3
  <2>1. n \in Nat /\ n > 1
    <3> HIDE DEF n
    <3> QED
      BY <2>0
  <2>2. Len(Tail(s)) = n - 1 /\ \A i \in 1 .. n - 1 : Tail(s)[i] = s[i + 1]
    BY <1>1
  <2> HIDE DEF n
  <2>3. n - 1 \in 1 .. n - 1 /\ (n - 1) + 1 = n
    BY <2>1
  <2>4. Tail(s)[n - 1] = s[n]
    BY <2>2, <2>3
  <2> QED
    BY <1>3, <2>2, <2>4 DEF Last, n
<1> QED
  BY <1>2, <1>3

(* A write through the gate: the links stay below the number it takes.     *)
LEMMA GatedLinks ==
  ASSUME IndInv, LinkInv, NEW f \in RunStates, NEW k \in RunEventKinds,
         CanSetState(f, k), SetStateValidated(f, k), UNCHANGED msgEvents
  PROVE  /\ EventsLinked' /\ AllLinksBelow(lastEventSeq)' /\ AllLinksBelow(lastEventSeq + 1)'
         /\ lastEventSeq' \in DOMAIN runEvents' /\ runEvents'[lastEventSeq'].kind = k
<1>1. /\ runEvents \in Seq(JournalRecord) /\ SeqGapless
      /\ lastEventSeq \in Nat /\ lastEventSeq <= Len(runEvents)
      /\ msgEvents \in Seq(MessageRecord)
  BY DEF IndInv, TypeOK, StoreTypeOK, NumbersInv
<1>2. /\ runEvents' \in Seq(JournalRecord) /\ Len(runEvents') = Len(runEvents) + 1
      /\ lastEventSeq' = Len(runEvents') /\ lastEventSeq' = lastEventSeq + 1
  BY <1>1, GatedWrite DEF SetStateValidated
<1> DEFINE entry == [seq |-> lastEventSeq + 1, from |-> f, kind |-> k,
                     to |-> ApplyTransition(f, k)]
<1>3. runEvents' = Append(runEvents, entry)
  BY DEF SetStateValidated, InsertEvent
<1>4. EventsLinked'
  BY <1>1, <1>3, EntryKeepsLinks DEF LinkInv
<1>5. runEvents'[Len(runEvents) + 1] = entry
  BY <1>1, <1>3
<1>6. AllLinksBelow(lastEventSeq)' /\ AllLinksBelow(lastEventSeq + 1)'
  <2>1. \A n \in DOMAIN msgEvents : msgEvents[n].runSeq \in Nat
    BY <1>1, RunSeqTyped
  <2> QED
    BY <1>1, <1>2, <2>1 DEF LinkInv, AllLinksBelow
<1> QED
  BY <1>1, <1>2, <1>4, <1>5, <1>6

(* A step of a walk. *)
LEMMA LinkWalk ==
  ASSUME IndInv, LinkInv, InitStep \/ WalkStep
  PROVE  LinkInv'
<1>1. pc \in {"init", "walk"} /\ WriteEdge
  BY DEF InitStep, WalkStep
<1>2. walk \in Seq(StateEdges) /\ walk # << >>
  BY <1>1 DEF IndInv, TypeOK, ControlInv, StateEdges
<1>3. Head(walk).from \in RunStates /\ Head(walk).kind \in RunEventKinds
  <2>1. Head(walk) \in StateEdges
    BY <1>2, HeadTail
  <2> QED
    BY <2>1 DEF StateEdges
<1>4. /\ EventsLinked' /\ AllLinksBelow(lastEventSeq)' /\ AllLinksBelow(lastEventSeq + 1)'
      /\ lastEventSeq' \in DOMAIN runEvents' /\ runEvents'[lastEventSeq'].kind = Head(walk).kind
  BY <1>1, <1>3, GatedLinks DEF WriteEdge
<1>5. Len(walk) = 1 => Head(walk) = Last(walk)
  BY <1>2, LastOfTail
<1>6. Len(walk) # 1 => Last(Tail(walk)) = Last(walk)
  BY <1>2, LastOfTail
<1>7. UNCHANGED << msgEvents, ev >> /\ walk' = Tail(walk)
  BY <1>1 DEF WriteEdge
<1>8. CASE InitStep
  BY <1>4, <1>8 DEF InitStep, LinkInv, RejectPcs
<1>9. CASE WalkStep
  <2>1. pc = "walk" /\ pc' \in {"link", "walk"} /\ (pc' = "link" <=> Len(walk) = 1)
    BY <1>9 DEF WalkStep
  <2>2. /\ Last(msgEvents) = [ev |-> ev, runSeq |-> 0] /\ msgEvents # << >>
        /\ Last(walk).kind \in LinkKinds(ev)
    BY <2>1 DEF LinkInv
  <2>3. Last(msgEvents)' = Last(msgEvents)
    BY <1>7 DEF Last
  <2>4. pc' = "walk" => Last(walk)' = Last(walk)
    BY <1>6, <1>7, <2>1 DEF Last
  <2> QED
    BY <1>4, <1>5, <1>7, <2>1, <2>2, <2>3, <2>4 DEF LinkInv, RejectPcs
<1> QED
  BY <1>8, <1>9

(* A new event, its answer, its link. *)
LEMMA LinkStream ==
  ASSUME IndInv, LinkInv,
         (\E e \in StreamEvents : PersistEvent(e)) \/ EmitAndAsk \/ LinkEvent \/ ToolPersist
  PROVE  LinkInv'
<1>0. /\ msgEvents \in Seq(MessageRecord) /\ lastEventSeq \in Nat /\ EventsLinked
      /\ ev \in StreamEvents \cup {NoEvent} /\ runEvents \in Seq(JournalRecord)
      /\ AllLinksBelow(lastEventSeq + 1)
  BY DEF IndInv, TypeOK, StoreTypeOK, LinkInv
<1>1. CASE \E e \in StreamEvents : PersistEvent(e)
  <2> PICK e \in StreamEvents : PersistEvent(e)
    BY <1>1
  <2>1. /\ AppendMessageEvent(e) /\ UNCHANGED << runEvents, lastEventSeq >>
        /\ pc' = "gate" /\ ev' = e
    BY DEF PersistEvent
  <2>2. EventsLinked' /\ msgEvents' # << >> /\ Last(msgEvents)' = [ev |-> e, runSeq |-> 0]
    BY <1>0, <2>1, EventKeepsLinks
  <2>3. AllLinksBelow(lastEventSeq + 1)'
    BY <1>0, <2>1, EventKeepsLinks DEF AllLinksBelow
  <2> QED
    BY <2>1, <2>2, <2>3 DEF LinkInv, RejectPcs
<1>2. CASE ToolPersist
  <2>1. /\ AppendMessageEvent("tool_result") /\ UNCHANGED << runEvents, lastEventSeq >>
        /\ pc' = "toolEmit"
    BY <1>2 DEF ToolPersist
  <2>2. EventsLinked'
    BY <1>0, <2>1, EventKeepsLinks
  <2>3. AllLinksBelow(lastEventSeq + 1)'
    BY <1>0, <2>1, EventKeepsLinks DEF AllLinksBelow
  <2> QED
    BY <2>1, <2>2, <2>3 DEF LinkInv, RejectPcs
<1>3. CASE EmitAndAsk
  <2>1. /\ pc = "gate" /\ pc' \in {"reject", "handle", "walk"} /\ UNCHANGED << store, ev >>
        /\ pc' = "walk" => /\ walk' = StreamTransitions(cur, ev).walk
                           /\ walk' # << >>
    BY <1>3 DEF EmitAndAsk
  <2>2. ev \in StreamEvents
    BY <2>1 DEF IndInv, ControlInv
  <2>3. pc' = "walk" => Causes(cur, ev) # << >>
    BY <2>1 DEF StreamTransitions
  <2>4. pc' = "walk" => Last(walk)'.kind \in LinkKinds(ev)
    BY <2>1, <2>2, <2>3, LastCause DEF Last
  <2>5. EventsLinked' /\ AllLinksBelow(lastEventSeq + 1)'
    BY <1>0, <2>1 DEF EventsLinked, AllLinksBelow, store
  <2> QED
    BY <2>1, <2>4, <2>5 DEF LinkInv, RejectPcs, store, Last
<1>4. CASE LinkEvent
  <2>1. /\ pc = "link" /\ pc' = "handle" /\ UNCHANGED << runEvents, lastEventSeq >>
        /\ SetRunSeq(Len(msgEvents), lastEventSeq)
    BY <1>4 DEF LinkEvent
  <2>2. /\ msgEvents # << >> /\ Last(msgEvents).ev = ev
        /\ lastEventSeq \in DOMAIN runEvents
        /\ runEvents[lastEventSeq].kind \in LinkKinds(ev) /\ AllLinksBelow(lastEventSeq)
    BY <2>1 DEF LinkInv
  <2>3. EventsLinked' /\ AllLinksBelow(lastEventSeq + 1)'
    BY <1>0, <2>1, <2>2, LinkLast DEF AllLinksBelow
  <2> QED
    BY <2>1, <2>3 DEF LinkInv, RejectPcs
<1> QED
  BY <1>1, <1>2, <1>3, <1>4

(* A rejected event is linked to the entry of its rejection. *)
LEMMA LinkReject ==
  ASSUME IndInv, LinkInv, RejectReadSeq \/ RejectInsert \/ RejectInsertFails
         \/ RejectSetState \/ RejectLink
  PROVE  LinkInv'
<1>0. /\ msgEvents \in Seq(MessageRecord) /\ lastEventSeq \in Nat /\ EventsLinked
      /\ lastEventSeq <= Len(runEvents) /\ runEvents \in Seq(JournalRecord) /\ SeqGapless
      /\ AllLinksBelow(lastEventSeq + 1) /\ Len(runEvents) \in Nat
      /\ \A n \in DOMAIN msgEvents : msgEvents[n].runSeq \in Nat
  BY RunSeqTyped DEF IndInv, TypeOK, StoreTypeOK, LinkInv, NumbersInv
<1>1. CASE RejectReadSeq
  <2>1. /\ rejSeq' = Len(runEvents) + 1 /\ pc = "reject" /\ pc' = "rejectInsert"
        /\ UNCHANGED << store, ev >>
    BY <1>0, <1>1, MaxSeqIsLen DEF RejectReadSeq
  <2>2. AllLinksBelow(rejSeq)' /\ AllLinksBelow(lastEventSeq + 1)'
    BY <1>0, <2>1 DEF AllLinksBelow, store
  <2>3. EventsLinked' /\ Last(msgEvents)' = Last(msgEvents) /\ msgEvents' = msgEvents
    BY <1>0, <2>1 DEF EventsLinked, store, Last
  <2> QED
    BY <2>1, <2>2, <2>3 DEF LinkInv, RejectPcs
<1>2. CASE RejectInsert
  <2>1. /\ InsertEvent(rejSeq, cur, "unrecoverable_error", "failed")
        /\ pc = "rejectInsert" /\ pc' = "rejectState" /\ ~ Journaled(rejSeq)
        /\ UNCHANGED << msgEvents, lastEventSeq, rejSeq, ev >>
        /\ rejSeq \in 1 .. Len(runEvents) + 1 /\ cur \in RunStates
    BY <1>2 DEF RejectInsert, exec, IndInv, TypeOK, NumbersInv
  <2> DEFINE entry == [seq |-> rejSeq, from |-> cur, kind |-> "unrecoverable_error",
                       to |-> "failed"]
  <2>2. rejSeq = Len(runEvents) + 1 /\ runEvents' = Append(runEvents, entry)
    BY <1>0, <2>1, OnlyNextIsFree DEF InsertEvent
  <2>3. rejSeq \in DOMAIN runEvents' /\ runEvents'[rejSeq].kind = "unrecoverable_error"
    BY <1>0, <2>2
  <2>4. EventsLinked'
    BY <1>0, <2>1, <2>2, EntryKeepsLinks
  <2>5. AllLinksBelow(rejSeq)' /\ AllLinksBelow(lastEventSeq + 1)'
    BY <2>1 DEF AllLinksBelow, LinkInv
  <2>6. Last(msgEvents)' = Last(msgEvents)
    BY <2>1 DEF Last
  <2> QED
    BY <2>1, <2>3, <2>4, <2>5, <2>6 DEF LinkInv, RejectPcs
<1>3. CASE RejectInsertFails
  <2>1. UNCHANGED << msgEvents, runEvents, lastEventSeq >> /\ pc' = "err"
    BY <1>3 DEF RejectInsertFails, GoFail, store
  <2> QED
    BY <1>0, <2>1 DEF LinkInv, RejectPcs, EventsLinked, AllLinksBelow
<1>4. CASE RejectSetState
  <2>1. /\ UNCHANGED << msgEvents, runEvents, rejSeq, ev >> /\ lastEventSeq' = rejSeq
        /\ pc = "rejectState" /\ pc' = "rejectLink" /\ rejSeq \in Nat
    BY <1>4 DEF RejectSetState, SetStateUnchecked, exec, IndInv, TypeOK
  <2>2. AllLinksBelow(rejSeq)' /\ AllLinksBelow(lastEventSeq + 1)'
    BY <1>0, <2>1 DEF AllLinksBelow, LinkInv
  <2>3. EventsLinked' /\ Last(msgEvents)' = Last(msgEvents)
    BY <1>0, <2>1 DEF EventsLinked, Last
  <2> QED
    BY <2>1, <2>2, <2>3 DEF LinkInv, RejectPcs
<1>5. CASE RejectLink
  <2>1. /\ SetRunSeq(Len(msgEvents), rejSeq) /\ UNCHANGED << runEvents, lastEventSeq >>
        /\ pc = "rejectLink" /\ pc' = "err"
    BY <1>5 DEF RejectLink
  <2>2. /\ lastEventSeq = rejSeq /\ rejSeq \in DOMAIN runEvents /\ msgEvents # << >>
        /\ runEvents[rejSeq].kind = "unrecoverable_error" /\ AllLinksBelow(rejSeq)
    BY <2>1 DEF LinkInv, RejectPcs
  <2>3. EventsLinked' /\ AllLinksBelow(lastEventSeq + 1)'
    BY <1>0, <2>1, <2>2, LinkLast DEF AllLinksBelow, LinkKinds
  <2> QED
    BY <2>1, <2>3 DEF LinkInv, RejectPcs
<1> QED
  BY <1>1, <1>2, <1>3, <1>4, <1>5

(* The other writes of the journal link nothing. *)
LEMMA LinkWrites ==
  ASSUME IndInv, LinkInv, ToolDone \/ FinalizeState \/ RecoverAppend
  PROVE  LinkInv'
<1>0. /\ runEvents \in Seq(JournalRecord) /\ lastEventSeq \in Nat /\ EventsLinked /\ SeqGapless
  BY DEF IndInv, TypeOK, StoreTypeOK, LinkInv
<1>1. CASE ToolDone \/ FinalizeState
  <2>1. UNCHANGED msgEvents /\ pc' \in {"top", "finStatus"}
    BY <1>1 DEF ToolDone, FinalizeState
  <2>2. {"waiting_tool_call", "checkpointing"} \subseteq RunStates
        /\ {"result_valid", "checkpoint_persisted"} \subseteq RunEventKinds
    BY DEF RunStates, RunEventKinds
  <2>3. \E f \in {"waiting_tool_call", "checkpointing"} :
        \E k \in {"result_valid", "checkpoint_persisted"} :
          CanSetState(f, k) /\ SetStateValidated(f, k)
    BY <1>1 DEF ToolDone, FinalizeState
  <2>4. EventsLinked' /\ AllLinksBelow(lastEventSeq + 1)'
    BY <2>1, <2>2, <2>3, GatedLinks
  <2> QED
    BY <2>1, <2>4 DEF LinkInv, RejectPcs
<1>2. CASE RecoverAppend
  <2>1. /\ UNCHANGED << msgEvents, lastEventSeq, pc, ev, walk, rejSeq >>
        /\ InsertEvent(recSeq, recFrom, "app_crash_recovery", "interrupted")
    BY <1>2 DEF RecoverAppend, exec
  <2>2. \E entry : runEvents' = Append(runEvents, entry)
    BY <2>1 DEF InsertEvent
  <2>3. EventsLinked'
    BY <1>0, <2>1, <2>2, EntryKeepsLinks
  <2>4. \A n \in DOMAIN runEvents : n \in DOMAIN runEvents' /\ runEvents'[n] = runEvents[n]
    BY <1>0, <2>2
  <2> QED
    BY <2>1, <2>3, <2>4 DEF LinkInv, AllLinksBelow, Last
<1> QED
  BY <1>1, <1>2

(* Every other step leaves both journals alone.                            *)
LEMMA LinkFrame ==
  ASSUME IndInv, LinkInv, UNCHANGED << runEvents, msgEvents, lastEventSeq >>,
         \/ pc' \notin {"gate", "walk", "link"} \cup RejectPcs
         \/ UNCHANGED << pc, ev, walk, rejSeq >>
  PROVE  LinkInv'
<1>1. EventsLinked' /\ AllLinksBelow(lastEventSeq + 1)'
  BY DEF LinkInv, EventsLinked, AllLinksBelow
<1> QED
  BY <1>1 DEF LinkInv, RejectPcs, AllLinksBelow, Last

(* Every step keeps LinkInv. *)
LEMMA LinkSteps ==
  ASSUME IndInv, LinkInv, Next
  PROVE  LinkInv'
<1> USE DEF store, exec, seen, recovery, GoFail, Finalize, ExecutorPcs, StreamPcs, RejectPcs,
            FinalPcs, SetupPcs
<1>1. CASE OrchestratorStep \/ SendMessage
  BY <1>1, LinkWalk, LinkFrame DEF OrchestratorStep, SendMessage, RefuseMessage, RegisterRun,
     OpenMessage, StartRun, InitStepFails, InitFail
<1>2. CASE LoadRun \/ LoadFails \/ TopCancelled \/ BudgetExceeded \/ OpenStream
           \/ RecvCancelled \/ Watchdog \/ StreamEnds
  BY <1>2, LinkFrame DEF LoadRun, LoadFails, TopCancelled, BudgetExceeded, OpenStream,
     RecvCancelled, Watchdog, StreamEnds
<1>3. CASE \/ \E e \in StreamEvents : PersistEvent(e)
           \/ EmitAndAsk \/ LinkEvent \/ ToolPersist
  BY <1>3, LinkStream
<1>4. CASE WalkStep
  BY <1>4, LinkWalk
<1>5. CASE WalkStepFails \/ HandleContinue \/ HandleDone \/ HandleFinal
  BY <1>5, LinkFrame DEF WalkStepFails, HandleContinue, HandleDone, HandleFinal
<1>6. CASE RejectReadSeq \/ RejectInsert \/ RejectInsertFails \/ RejectSetState \/ RejectLink
  BY <1>6, LinkReject
<1>7. CASE DrainedCancelled \/ DrainedTool \/ DrainedCompleted
  BY <1>7, LinkFrame DEF DrainedCancelled, DrainedTool, DrainedCompleted
<1>8. CASE ToolUnknown \/ ToolNeedsApproval \/ ToolExecute \/ ToolEmit \/ ToolDoneFails
  BY <1>8, LinkFrame DEF ToolUnknown, ToolNeedsApproval, ToolExecute, ToolEmit, ToolDoneFails
<1>9. CASE ToolDone \/ FinalizeState \/ RecoverAppend
  BY <1>9, LinkWrites
<1>10. CASE FinalizeMessage \/ FinalizeStateFails \/ FinalizeStatus \/ Announce \/ StorageError
  BY <1>10, LinkFrame DEF FinalizeMessage, FinalizeStateFails, FinalizeStatus, Announce,
     StorageError
<1>11. CASE CancelRun \/ GoStale \/ Crash \/ RecoverStops
            \/ RecoverList \/ RecoverRead \/ RecoverMark \/ RecoverReadSeq
  BY <1>11, LinkFrame DEF CancelRun, GoStale, Crash, RecoverStops, RecoverList, RecoverRead,
     RecoverMark, RecoverReadSeq
<1> QED
  BY <1>1, <1>2, <1>3, <1>4, <1>5, <1>6, <1>7, <1>8, <1>9, <1>10, <1>11
     DEF Next, RunStep, ExecutorStep, ProviderStep, RecoveryPass

(* The links are kept for the whole run. *)
LEMMA LinkInvariant == Spec => []LinkInv
<1>1. Init => LinkInv
  <2> SUFFICES ASSUME Init PROVE LinkInv
    OBVIOUS
  <2>1. msgEvents = << >> /\ DOMAIN msgEvents = {} /\ pc = "idle"
    BY DEF Init, StoreInit
  <2> QED
    BY <2>1 DEF LinkInv, EventsLinked, AllLinksBelow, RejectPcs
<1>2. IndInv /\ LinkInv /\ [Next]_vars => LinkInv'
  <2>1. CASE UNCHANGED vars
    BY <2>1 DEF vars, store, exec, seen, recovery, LinkInv, EventsLinked, AllLinksBelow
  <2> QED
    BY <2>1, LinkSteps
<1> QED
  BY <1>1, <1>2, IndInvariant, PTL DEF Spec

(* The join of the two journals: an event that moved the run points at the  *)
(* entry it caused, and later events point at later entries (set_run_seq    *)
(* after the walk, and after a rejection), also while a recovery of another *)
(* instance writes to the same journal.                                     *)
THEOREM EventsAlwaysLinked == Spec => []EventsLinked
<1>1. LinkInv => EventsLinked
  BY DEF LinkInv
<1> QED
  BY <1>1, LinkInvariant, PTL

--------------------------------------------------------------------------------
(* The journal of transitions, without a second instance.                  *)

(* The answers of the table that the executor relies on.                   *)
LEMMA AnswersOfTheTable ==
  /\ ApplyTransition("checkpointing", "checkpoint_persisted") = "completed"
  /\ ApplyTransition("waiting_tool_call", "result_valid") = "continuing_model"
  /\ \A k \in {"first_token", "tool_call_emitted", "message_complete"} :
       ApplyTransition("waiting_tool_call", k) = Rejected
  /\ ApplyTransition("waiting_tool_call", "unrecoverable_error") = "failed"
  /\ \A c : ApplyTransition(c, "tool_call_emitted") \in {"waiting_tool_call", Rejected}
<1>1. \A f, k, t : (\A e \in Structural(f, k) : e.to = t) /\ Structural(f, k) # {} =>
        (CHOOSE e \in Structural(f, k) : TRUE).to = t
  BY LookupFinds
<1>2. /\ \A e \in Structural("checkpointing", "checkpoint_persisted") : e.to = "completed"
      /\ Structural("checkpointing", "checkpoint_persisted") # {}
  <2>1. \A e \in Structural("checkpointing", "checkpoint_persisted") : e.to = "completed"
    BY DEF Structural, Transitions, Edge
  <2>2. Edge("checkpointing", "checkpoint_persisted", "completed")
          \in Structural("checkpointing", "checkpoint_persisted")
    BY DEF Structural, Transitions, Edge
  <2> QED
    BY <2>1, <2>2
<1>3. \A k \in {"first_token", "tool_call_emitted", "message_complete"} :
        Structural("waiting_tool_call", k) = {}
  BY DEF Structural, Transitions, Edge
<1>4. Structural("waiting_tool_call", "unrecoverable_error") = {}
  BY DEF Structural, Transitions, Edge
<1>5. \A c : \A e \in Structural(c, "tool_call_emitted") : e.to = "waiting_tool_call"
  BY DEF Structural, Transitions, Edge
<1>6. ApplyTransition("checkpointing", "checkpoint_persisted") = "completed"
  BY <1>1, <1>2 DEF ApplyTransition, TerminalStates
<1>7. \A k \in {"first_token", "tool_call_emitted", "message_complete"} :
        ApplyTransition("waiting_tool_call", k) = Rejected
  BY <1>3 DEF ApplyTransition, GlobalEvents
<1>8. ApplyTransition("waiting_tool_call", "unrecoverable_error") = "failed"
  BY <1>4 DEF ApplyTransition, TerminalStates, GlobalEvents, GlobalTarget
<1>9. \A c : ApplyTransition(c, "tool_call_emitted") \in {"waiting_tool_call", Rejected}
  BY <1>1, <1>5 DEF ApplyTransition, GlobalEvents
<1>10. ApplyTransition("waiting_tool_call", "result_valid") = "continuing_model"
  <2>1. \A e \in Structural("waiting_tool_call", "result_valid") : e.to = "continuing_model"
    BY DEF Structural, Transitions, Edge
  <2>2. Edge("waiting_tool_call", "result_valid", "continuing_model")
          \in Structural("waiting_tool_call", "result_valid")
    BY DEF Structural, Transitions, Edge
  <2> QED
    BY <1>1, <2>1, <2>2 DEF ApplyTransition, TerminalStates
<1> QED
  BY <1>6, <1>7, <1>8, <1>9, <1>10

(* A walk that is accepted takes the run where its last step says.         *)
LEMMA ReachedByWalk ==
  ASSUME NEW c, NEW e \in StreamEvents, StreamTransitions(c, e).ok, Causes(c, e) # << >>
  PROVE  LET ks == Causes(c, e)
             r  == ApplyTransition(WalkFrom(c, ks, Len(ks)), Last(ks))
         IN  Last(StreamTransitions(c, e).walk).to = r /\ r # Rejected
<1>1. Len(Causes(c, e)) \in 1 .. Len(Causes(c, e))
      /\ Len(StreamTransitions(c, e).walk) = Len(Causes(c, e))
  BY LastCause
<1> QED
  BY <1>1 DEF StreamTransitions, Edge, Last

(* With a tool call pending the run goes on waiting for it, or the stream  *)
(* fails or is cancelled.                                                  *)
LEMMA CallAnswers ==
  ASSUME NEW c \in RunStates, NEW e \in StreamEvents, StreamTransitions(c, e).ok,
         Causes(c, e) # << >>, c = "waiting_tool_call" \/ e = "tool_call"
  PROVE  LET ks == Causes(c, e)
             r  == ApplyTransition(WalkFrom(c, ks, Len(ks)), Last(ks))
         IN  \/ r = "waiting_tool_call"
             \/ r = "failed" /\ e \in {"done_error", "error"}
             \/ e = "cancelled"
<1> DEFINE ks == Causes(c, e)
<1>1. Len(ks) \in Nat \ {0} /\ \A n \in 1 .. Len(ks) : ApplyTransition(WalkFrom(c, ks, n), ks[n]) # Rejected
  BY LastCause DEF StreamTransitions, Edge
<1>2. ApplyTransition(c, ks[1]) # Rejected
  BY <1>1 DEF WalkFrom
<1>3. CASE e = "tool_call"
  BY <1>2, <1>3, AnswersOfTheTable DEF Causes, WalkFrom, Last
<1>4. CASE c = "waiting_tool_call" /\ e \in {"delta", "done_stop"}
  BY <1>2, <1>4, AnswersOfTheTable DEF Causes
<1>5. CASE c = "waiting_tool_call" /\ e \in {"done_error", "error"}
  BY <1>5, AnswersOfTheTable DEF Causes, WalkFrom, Last
<1>6. e \in {"tool_call", "delta", "done_stop", "done_error", "error", "cancelled"}
  BY DEF Causes, StreamEvents
<1> QED
  BY <1>3, <1>4, <1>5, <1>6

(* The five init steps are a path of the table. *)
LEMMA InitWalkIsPath ==
  /\ InitWalk[1].from = "created"
  /\ \A n \in DOMAIN InitWalk :
       InitWalk[n].to = ApplyTransition(InitWalk[n].from, InitWalk[n].kind)
  /\ \A n \in 2 .. Len(InitWalk) : InitWalk[n].from = InitWalk[n - 1].to
<1>1. \A e \in Transitions : e.kind \in {"enqueue", "dequeue", "context_ready", "memory_done",
        "capabilities_ok"} => ApplyTransition(e.from, e.kind) = e.to
  <2> SUFFICES ASSUME NEW e \in Transitions,
                      e.kind \in {"enqueue", "dequeue", "context_ready", "memory_done",
                                  "capabilities_ok"}
               PROVE  ApplyTransition(e.from, e.kind) = e.to
    OBVIOUS
  <2>1. e \in Structural(e.from, e.kind) /\ e.from \notin TerminalStates
    BY TableTyped DEF Structural
  <2>2. \A d \in Structural(e.from, e.kind) : d.to = e.to
    BY DEF Structural, Transitions, Edge
  <2> QED
    BY <2>1, <2>2, LookupFinds DEF ApplyTransition
<1>2. \A n \in 1 .. 5 : /\ InitWalk[n] \in Transitions
                        /\ InitWalk[n].kind \in {"enqueue", "dequeue", "context_ready",
                                                 "memory_done", "capabilities_ok"}
  BY DEF InitWalk, Transitions, Edge
<1>3. DOMAIN InitWalk = 1 .. 5 /\ Len(InitWalk) = 5 /\ InitWalk[1].from = "created"
  BY DEF InitWalk, Edge
<1>4. \A n \in 2 .. 5 : InitWalk[n].from = InitWalk[n - 1].to
  BY DEF InitWalk, Edge
<1> QED
  BY <1>1, <1>2, <1>3, <1>4

(* Every step keeps AloneInv. *)
LEMMA AloneSteps ==
  ASSUME IndInv, AloneInv, Next, ~ SecondInstance
  PROVE  AloneInv'
<1> USE DEF IndInv, TypeOK, StoreTypeOK, AloneInv, store, exec, seen, recovery, GoFail,
            Finalize, FinalStatuses, SetupPcs, ExecutorPcs, StreamPcs, RejectPcs, ToolPcs,
            FinalPcs, StoppedPcs
<1>1. CASE OrchestratorStep \/ SendMessage
  BY <1>1 DEF OrchestratorStep, SendMessage, RefuseMessage, RegisterRun, OpenMessage, StartRun,
           InitStep, WriteEdge, SetStateValidated, InitStepFails, InitFail
<1>2. CASE LoadRun \/ LoadFails \/ TopCancelled \/ BudgetExceeded \/ OpenStream \/ RecvCancelled
           \/ Watchdog \/ StreamEnds
  BY <1>2 DEF LoadRun, LoadFails, TopCancelled, BudgetExceeded, OpenStream, Tick, RecvCancelled,
           Watchdog, StreamEnds
<1>3. CASE \E e \in StreamEvents : PersistEvent(e)
  BY <1>3 DEF PersistEvent, AppendMessageEvent
<1>4. CASE EmitAndAsk
  BY <1>4 DEF EmitAndAsk
<1>5. CASE WalkStep \/ WalkStepFails \/ LinkEvent \/ HandleContinue \/ HandleDone \/ HandleFinal
  BY <1>5 DEF WalkStep, WriteEdge, SetStateValidated, WalkStepFails, LinkEvent, HandleContinue,
           HandleDone, HandleFinal
<1>6. CASE RejectReadSeq \/ RejectInsert \/ RejectInsertFails \/ RejectSetState \/ RejectLink
  BY <1>6 DEF RejectReadSeq, RejectInsert, RejectInsertFails, RejectSetState, SetStateUnchecked,
           RejectLink
<1>7. CASE DrainedCancelled \/ DrainedTool \/ DrainedCompleted
  BY <1>7 DEF DrainedCancelled, DrainedTool, DrainedCompleted
<1>8. CASE ToolUnknown \/ ToolExecute
  BY <1>8 DEF ToolUnknown, ToolExecute
<1>9. CASE ToolNeedsApproval
  BY <1>9 DEF ToolNeedsApproval
<1>10. CASE ToolPersist
  BY <1>10 DEF ToolPersist, AppendMessageEvent
<1>11. CASE ToolEmit \/ ToolDone \/ ToolDoneFails
  BY <1>11 DEF ToolEmit, ToolDone, SetStateValidated, ToolDoneFails
<1>12. CASE FinalizeMessage \/ FinalizeState \/ FinalizeStateFails \/ FinalizeStatus \/ Announce
           \/ StorageError
  BY <1>12 DEF FinalizeMessage, FinalizeState, SetStateValidated, FinalizeStateFails,
           FinalizeStatus, Announce, StorageError, WritingPcs
<1>13. CASE CancelRun \/ GoStale \/ Crash \/ RecoverStops \/ RecoveryPass
  BY <1>13 DEF CancelRun, GoStale, Crash, RecoverStops, RecoveryPass, RecoverList, RecoverRead,
           RecoverMark, RecoverReadSeq, RecoverAppend, MarkInterrupted
<1> QED
  BY <1>1, <1>2, <1>3, <1>4, <1>5, <1>6, <1>7, <1>8, <1>9, <1>10, <1>11, <1>12, <1>13
     DEF Next, RunStep, ExecutorStep, ProviderStep

(* Every step keeps CallInv. *)
LEMMA CallSteps ==
  ASSUME IndInv, CallInv, Next
  PROVE  CallInv'
<1> USE DEF IndInv, TypeOK, StoreTypeOK, CallInv, store, exec, seen, recovery, GoFail, Finalize,
            FinalStatuses, SetupPcs, ExecutorPcs, StreamPcs, RejectPcs, ToolPcs, FinalPcs,
            StoppedPcs
<1>1. CASE OrchestratorStep \/ SendMessage
  BY <1>1 DEF OrchestratorStep, SendMessage, RefuseMessage, RegisterRun, OpenMessage, StartRun,
           InitStep, WriteEdge, SetStateValidated, InitStepFails, InitFail
<1>2. CASE LoadRun \/ LoadFails \/ TopCancelled \/ BudgetExceeded \/ OpenStream \/ RecvCancelled
           \/ Watchdog \/ StreamEnds
  BY <1>2 DEF LoadRun, LoadFails, TopCancelled, BudgetExceeded, OpenStream, Tick, RecvCancelled,
           Watchdog, StreamEnds
<1>3. CASE \E e \in StreamEvents : PersistEvent(e)
  BY <1>3 DEF PersistEvent, AppendMessageEvent
<1>4. CASE EmitAndAsk
  <2>1. /\ pc = "gate" /\ pc' \in {"reject", "handle", "walk"}
        /\ UNCHANGED << cur, pendingCall, ev >>
    BY <1>4 DEF EmitAndAsk
  <2>2. ASSUME pc' = "handle", ev = "tool_call"
        PROVE  FALSE
    <3>1. StreamTransitions(cur, ev).ok /\ StreamTransitions(cur, ev).walk = << >>
      BY <1>4, <2>2 DEF EmitAndAsk
    <3>2. Causes(cur, ev) # << >>
      BY <2>2 DEF Causes
    <3>3. Len(StreamTransitions(cur, ev).walk) # 0
      BY <2>2, <3>2, LastCause DEF StreamEvents
    <3> QED
      BY <3>1, <3>3
  <2> QED
    BY <2>1, <2>2
<1>5. CASE WalkStep \/ WalkStepFails \/ LinkEvent \/ HandleContinue \/ HandleDone \/ HandleFinal
  <2>1. CASE LinkEvent
    <3>1. /\ pc = "link" /\ pc' = "handle" /\ UNCHANGED << pendingCall, ev >>
          /\ cur' = ApplyTransition(WalkFrom(cur, Causes(cur, ev), Len(Causes(cur, ev))),
                                    Last(Causes(cur, ev)))
      BY <2>1 DEF LinkEvent, Last
    <3>2. /\ StreamTransitions(cur, ev).ok /\ Causes(cur, ev) # << >> /\ ev \in StreamEvents
          /\ cur \in RunStates /\ (pendingCall => cur = "waiting_tool_call")
      BY <3>1 DEF ControlInv
    <3>3. pendingCall \/ ev = "tool_call" =>
            \/ cur' = "waiting_tool_call"
            \/ cur' = "failed" /\ ev \in {"done_error", "error"}
            \/ ev = "cancelled"
      BY <3>1, <3>2, CallAnswers
    <3> QED
      BY <3>1, <3>3
  <2> QED
    BY <1>5, <2>1 DEF WalkStep, WriteEdge, WalkStepFails, HandleContinue, HandleDone,
                      HandleFinal
<1>6. CASE RejectReadSeq \/ RejectInsert \/ RejectInsertFails \/ RejectSetState \/ RejectLink
  BY <1>6 DEF RejectReadSeq, RejectInsert, RejectInsertFails, RejectSetState, SetStateUnchecked,
           RejectLink
<1>7. CASE DrainedCancelled \/ DrainedTool \/ DrainedCompleted
  BY <1>7 DEF DrainedCancelled, DrainedTool, DrainedCompleted
<1>8. CASE ToolUnknown \/ ToolExecute
  BY <1>8 DEF ToolUnknown, ToolExecute
<1>9. CASE ToolNeedsApproval
  BY <1>9 DEF ToolNeedsApproval
<1>10. CASE ToolPersist
  BY <1>10 DEF ToolPersist, AppendMessageEvent
<1>11. CASE ToolEmit \/ ToolDone \/ ToolDoneFails
  BY <1>11 DEF ToolEmit, ToolDone, SetStateValidated, ToolDoneFails
<1>12. CASE FinalizeMessage \/ FinalizeState \/ FinalizeStateFails \/ FinalizeStatus \/ Announce
           \/ StorageError
  BY <1>12 DEF FinalizeMessage, FinalizeState, SetStateValidated, FinalizeStateFails,
           FinalizeStatus, Announce, StorageError, WritingPcs
<1>13. CASE CancelRun \/ GoStale \/ Crash \/ RecoverStops \/ RecoveryPass
  BY <1>13 DEF CancelRun, GoStale, Crash, RecoverStops, RecoveryPass, RecoverList, RecoverRead,
           RecoverMark, RecoverReadSeq, RecoverAppend, MarkInterrupted
<1> QED
  BY <1>1, <1>2, <1>3, <1>4, <1>5, <1>6, <1>7, <1>8, <1>9, <1>10, <1>11, <1>12, <1>13
     DEF Next, RunStep, ExecutorStep, ProviderStep

(* An entry more, out of the state where the journal ends or one of the    *)
(* two that name their `from` as a constant, leaves the journal a path.    *)
LEMMA ChainedAppend ==
  ASSUME runEvents \in Seq(JournalRecord), JournalChained, NEW s, NEW f, NEW k, NEW t,
         InsertEvent(s, f, k, t),
         \/ f = JournalEnd
         \/ k = "checkpoint_persisted"
         \/ k = "result_valid" /\ JournalEnd = "failed"
  PROVE  /\ JournalChained'
         /\ JournalEnd' = t
         /\ runEvents' # << >> /\ Last(runEvents)'.kind = k /\ Last(runEvents)'.to = t
<1> DEFINE entry == [seq |-> s, from |-> f, kind |-> k, to |-> t]
<1>1. /\ Len(runEvents) \in Nat /\ DOMAIN runEvents = 1 .. Len(runEvents)
      /\ runEvents' = Append(runEvents, entry)
  BY DEF InsertEvent
<1>2. /\ Len(runEvents') = Len(runEvents) + 1 /\ DOMAIN runEvents' = 1 .. Len(runEvents) + 1
      /\ \A n \in DOMAIN runEvents : runEvents'[n] = runEvents[n]
      /\ runEvents'[Len(runEvents) + 1] = entry
  BY <1>1
<1>3. runEvents' # << >> /\ Last(runEvents)' = entry
  BY <1>1, <1>2 DEF Last
<1>4. runEvents # << >> => Len(runEvents) \in DOMAIN runEvents
  BY <1>1
<1>5. ASSUME NEW n \in DOMAIN runEvents'
      PROVE  LET before == IF n = 1 THEN "created" ELSE runEvents'[n - 1].to
             IN  \/ runEvents'[n].from = before
                 \/ runEvents'[n].kind = "checkpoint_persisted"
                 \/ runEvents'[n].kind = "result_valid" /\ before = "failed"
  <2>1. CASE n \in DOMAIN runEvents
    <3>1. runEvents'[n] = runEvents[n] /\ (n # 1 => runEvents'[n - 1] = runEvents[n - 1])
      BY <1>1, <1>2, <2>1
    <3> QED
      BY <2>1, <3>1 DEF JournalChained
  <2>2. CASE n = Len(runEvents) + 1
    <3>1. (IF n = 1 THEN "created" ELSE runEvents'[n - 1].to) = JournalEnd
      <4>1. CASE runEvents = << >>
        BY <2>2, <4>1 DEF JournalEnd
      <4>2. CASE runEvents # << >>
        <5>1. n # 1 /\ n - 1 = Len(runEvents)
          BY <1>1, <1>4, <2>2, <4>2
        <5> QED
          BY <1>2, <1>4, <4>2, <5>1 DEF JournalEnd, Last
      <4> QED
        BY <4>1, <4>2
    <3> QED
      BY <1>2, <2>2, <3>1
  <2> QED
    BY <1>1, <1>2, <2>1, <2>2
<1>6. JournalChained'
  BY <1>5 DEF JournalChained
<1>7. JournalEnd' = t
  BY <1>3 DEF JournalEnd
<1> QED
  BY <1>3, <1>6, <1>7

(* The same of a write through the gate, which moves the row along.        *)
LEMMA GatedPath ==
  ASSUME runEvents \in Seq(JournalRecord), JournalChained, NEW f, NEW k,
         SetStateValidated(f, k),
         \/ f = JournalEnd
         \/ k = "checkpoint_persisted"
         \/ k = "result_valid" /\ JournalEnd = "failed"
  PROVE  /\ JournalHonest' /\ runEvents' # << >>
         /\ runState' = JournalEnd' /\ runState' = ApplyTransition(f, k)
<1>1. /\ JournalChained' /\ JournalEnd' = ApplyTransition(f, k) /\ runEvents' # << >>
      /\ Last(runEvents)'.to = ApplyTransition(f, k)
  BY ChainedAppend DEF SetStateValidated
<1>2. runState' = ApplyTransition(f, k)
  BY DEF SetStateValidated
<1> QED
  BY <1>1, <1>2 DEF JournalHonest, StateMatchesJournal

(* What is left of a path after its first edge is a path.                  *)
LEMMA TailIsPath ==
  ASSUME walk \in Seq(StateEdges), walk # << >>, Len(walk) # 1, WalkIsPath,
         walk' = Tail(walk), runState' = ApplyTransition(walk[1].from, walk[1].kind)
  PROVE  WalkIsPath'
<1> DEFINE l == Len(walk)
<1>0. l \in Nat /\ l # 0 /\ l # 1 /\ DOMAIN walk = 1 .. l
  OBVIOUS
<1>1. Len(walk') = l - 1 /\ DOMAIN walk' = 1 .. l - 1 /\ \A n \in 1 .. l - 1 : walk'[n] = walk[n + 1]
  BY <1>0
<1>2. /\ \A n \in 1 .. l : walk[n].to = ApplyTransition(walk[n].from, walk[n].kind)
      /\ \A n \in 2 .. l : walk[n].from = walk[n - 1].to
  BY <1>0 DEF WalkIsPath
<1> HIDE DEF l
<1>3. 1 \in 1 .. l - 1 /\ 1 \in 1 .. l /\ 2 \in 2 .. l /\ 1 + 1 = 2 /\ 2 - 1 = 1
  BY <1>0
<1>4. walk'[1].from = runState'
  BY <1>1, <1>2, <1>3
<1>5. \A n \in 1 .. l - 1 : n + 1 \in 1 .. l
  BY <1>0
<1>6. \A n \in 2 .. l - 1 : /\ n + 1 \in 2 .. l /\ (n + 1) - 1 = n
                            /\ n \in 1 .. l - 1 /\ n - 1 \in 1 .. l - 1 /\ (n - 1) + 1 = n
  BY <1>0
<1>7. \A n \in DOMAIN walk' : walk'[n].to = ApplyTransition(walk'[n].from, walk'[n].kind)
  BY <1>1, <1>2, <1>5
<1>8. \A n \in 2 .. Len(walk') : walk'[n].from = walk'[n - 1].to
  BY <1>1, <1>2, <1>6
<1> QED
  BY <1>4, <1>7, <1>8 DEF WalkIsPath

(* A step that touches neither the journal nor the row.                    *)
LEMMA HonestFrame ==
  ASSUME JournalHonest, UNCHANGED << runEvents, runState >>, starts > 0 => starts' > 0,
         pc \in {"rejectState", "err", "ended", "dead"} => pc' \in {"rejectState", "err", "ended", "dead"}
  PROVE  JournalHonest' /\ JournalEnd' = JournalEnd
<1>1. JournalChained'
  BY DEF JournalHonest, JournalChained
<1>2. StateMatchesJournal'
  <2>1. Last(runEvents)' = Last(runEvents)
    BY DEF Last
  <2> QED
    BY <2>1 DEF JournalHonest, StateMatchesJournal
<1> QED
  BY <1>1, <1>2 DEF JournalHonest, JournalEnd, Last

(* A step of a walk. *)
LEMMA PathWalk ==
  ASSUME IndInv, PathInv, JournalHonest, InitStep \/ WalkStep
  PROVE  (PathInv /\ JournalHonest)'
<1>1. pc \in {"init", "walk"} /\ WriteEdge /\ walk \in Seq(StateEdges) /\ walk # << >>
  BY DEF InitStep, WalkStep, IndInv, TypeOK, ControlInv, StateEdges
<1>2. /\ SetStateValidated(walk[1].from, walk[1].kind) /\ walk' = Tail(walk)
      /\ UNCHANGED << cur, ev >> /\ Head(walk) = walk[1]
  BY <1>1 DEF WriteEdge
<1>3. WalkIsPath /\ runState = JournalEnd
  BY <1>1 DEF PathInv, StoppedPcs
<1>4. walk[1].from = JournalEnd /\ walk[1].to = ApplyTransition(walk[1].from, walk[1].kind)
  BY <1>1, <1>3 DEF WalkIsPath
<1>5. /\ JournalHonest' /\ runEvents' # << >>
      /\ runState' = JournalEnd' /\ runState' = ApplyTransition(walk[1].from, walk[1].kind)
  BY <1>2, <1>4, GatedPath DEF IndInv, TypeOK, StoreTypeOK, JournalHonest
<1>6. Len(walk) # 1 => WalkIsPath'
  BY <1>1, <1>2, <1>3, <1>5, TailIsPath
<1>7. CASE InitStep
  <2>1. pc' \in {"load", "init"} /\ (pc' = "init" => Len(walk) # 1)
    BY <1>7 DEF InitStep
  <2> QED
    BY <1>5, <1>6, <2>1 DEF PathInv, SetupPcs, ToolPcs
<1>8. CASE WalkStep
  <2>1. pc = "walk" /\ pc' \in {"link", "walk"} /\ (pc' = "link" <=> Len(walk) = 1)
    BY <1>8 DEF WalkStep
  <2>2. Last(walk).to = Reached /\ Reached' = Reached
    BY <1>2, <2>1 DEF PathInv, Reached
  <2>3. IF Len(walk) = 1 THEN walk[1] = Last(walk) ELSE Last(walk)' = Last(walk)
    <3>1. IF Len(walk) = 1 THEN Head(walk) = Last(walk) ELSE Last(Tail(walk)) = Last(walk)
      BY <1>1, LastOfTail
    <3>2. Last(walk)' = Last(Tail(walk))
      BY <1>2 DEF Last
    <3> QED
      BY <1>2, <3>1, <3>2
  <2> QED
    BY <1>4, <1>5, <1>6, <2>1, <2>2, <2>3 DEF PathInv, SetupPcs, ToolPcs
<1> QED
  BY <1>7, <1>8

(* A walk begins, or ends. *)
LEMMA PathStream ==
  ASSUME IndInv, PathInv, JournalHonest, StartRun \/ EmitAndAsk \/ LinkEvent
  PROVE  (PathInv /\ JournalHonest)'
<1>1. UNCHANGED << runEvents, runState, starts >> /\ pc' \notin StoppedPcs
      /\ pc \notin {"rejectState", "err"} \cup StoppedPcs
  BY DEF StartRun, EmitAndAsk, LinkEvent, store, recovery, StoppedPcs
<1>2. JournalHonest' /\ JournalEnd' = JournalEnd /\ runState = JournalEnd
  BY <1>1, HonestFrame DEF PathInv, StoppedPcs
<1>3. CASE StartRun
  <2>1. pc = "opened" /\ pc' = "init" /\ walk' = InitWalk /\ runState = "created"
    BY <1>2, <1>3 DEF StartRun, PathInv, SetupPcs, JournalEnd
  <2>2. WalkIsPath'
    BY <1>1, <2>1, InitWalkIsPath DEF WalkIsPath
  <2> QED
    BY <1>1, <1>2, <2>1, <2>2 DEF PathInv, SetupPcs, ToolPcs
<1>4. CASE EmitAndAsk
  <2> DEFINE answer == StreamTransitions(cur, ev)
  <2>1. /\ pc = "gate" /\ pc' \in {"reject", "handle", "walk"} /\ UNCHANGED << cur, ev >>
        /\ pc' = "walk" => answer.ok /\ walk' = answer.walk /\ walk' # << >>
    BY <1>4 DEF EmitAndAsk
  <2>2. cur = runState /\ ev \in StreamEvents /\ cur \in RunStates
    BY <2>1 DEF PathInv, IndInv, TypeOK, ControlInv
  <2>3. ASSUME pc' = "walk"
        PROVE  WalkIsPath' /\ Last(walk)'.to = Reached'
    <3>1. /\ answer.walk \in Seq(StateEdges)
          /\ \A n \in 1 .. Len(answer.walk) :
               /\ answer.walk[n].to = ApplyTransition(answer.walk[n].from, answer.walk[n].kind)
               /\ answer.walk[n].from = IF n = 1 THEN cur ELSE answer.walk[n - 1].to
      BY <2>1, <2>2, <2>3, WalkHonest
    <3>2. /\ DOMAIN answer.walk = 1 .. Len(answer.walk) /\ 1 \in 1 .. Len(answer.walk)
          /\ \A n \in 2 .. Len(answer.walk) : n # 1 /\ n \in 1 .. Len(answer.walk)
      BY <2>1, <2>3, <3>1
    <3>3. WalkIsPath'
      <4>1. walk' = answer.walk /\ UNCHANGED runState /\ runState = cur
        BY <1>1, <2>1, <2>2, <2>3
      <4>2. /\ answer.walk[1].from = cur
            /\ \A n \in 2 .. Len(answer.walk) : answer.walk[n].from = answer.walk[n - 1].to
        BY <3>1, <3>2
      <4> QED
        BY <3>1, <3>2, <4>1, <4>2 DEF WalkIsPath
    <3>4. Causes(cur, ev) # << >>
      BY <2>1, <2>3 DEF StreamTransitions
    <3>5. Last(answer.walk).to = Reached
      BY <2>1, <2>2, <2>3, <3>4, ReachedByWalk DEF Reached
    <3>6. Last(walk)' = Last(answer.walk) /\ Reached' = Reached
      BY <2>1, <2>3 DEF Last, Reached
    <3> QED
      BY <3>3, <3>5, <3>6
  <2> QED
    BY <1>1, <1>2, <2>1, <2>2, <2>3 DEF PathInv, SetupPcs, ToolPcs
<1>5. CASE LinkEvent
  <2>1. pc = "link" /\ pc' = "handle" /\ cur' = Reached
    BY <1>5 DEF LinkEvent, Reached, Last
  <2> QED
    BY <1>1, <1>2, <2>1 DEF PathInv, SetupPcs, ToolPcs
<1> QED
  BY <1>3, <1>4, <1>5

(* The three writes that name their states as constants.                   *)
LEMMA PathWrites ==
  ASSUME IndInv, PathInv, CallInv, JournalHonest,
         ToolDone \/ FinalizeState \/ RejectInsert \/ RejectSetState
  PROVE  (PathInv /\ JournalHonest)'
<1>0. runEvents \in Seq(JournalRecord) /\ JournalChained
  BY DEF IndInv, TypeOK, StoreTypeOK, JournalHonest
<1>1. CASE ToolDone
  <2>1. /\ pc = "toolDone" /\ pc' = "top" /\ cur' = "continuing_model"
        /\ SetStateValidated("waiting_tool_call", "result_valid")
    BY <1>1 DEF ToolDone
  <2>2. JournalEnd \in {"waiting_tool_call", "failed"}
    BY <2>1 DEF PathInv, CallInv, ToolPcs, StoppedPcs
  <2>3. /\ JournalHonest' /\ runEvents' # << >> /\ runState' = JournalEnd'
        /\ runState' = ApplyTransition("waiting_tool_call", "result_valid")
    BY <1>0, <2>1, <2>2, GatedPath
  <2> QED
    BY <2>1, <2>3, AnswersOfTheTable DEF PathInv, SetupPcs, ToolPcs
<1>2. CASE FinalizeState
  <2>1. /\ pc' = "finStatus" /\ SetStateValidated("checkpointing", "checkpoint_persisted")
    BY <1>2 DEF FinalizeState
  <2>2. JournalHonest' /\ runState' = JournalEnd'
    BY <1>0, <2>1, GatedPath
  <2> QED
    BY <2>1, <2>2 DEF PathInv, SetupPcs, ToolPcs
<1>3. CASE RejectInsert
  <2>1. /\ pc = "rejectInsert" /\ pc' = "rejectState"
        /\ InsertEvent(rejSeq, cur, "unrecoverable_error", "failed")
    BY <1>3 DEF RejectInsert
  <2>2. cur = JournalEnd
    BY <2>1 DEF PathInv, StoppedPcs
  <2>3. /\ JournalChained' /\ runEvents' # << >>
        /\ Last(runEvents)'.kind = "unrecoverable_error" /\ Last(runEvents)'.to = "failed"
    BY <1>0, <2>1, <2>2, ChainedAppend
  <2> QED
    BY <2>1, <2>3 DEF PathInv, SetupPcs, ToolPcs, JournalHonest, StateMatchesJournal
<1>4. CASE RejectSetState
  <2>1. /\ pc = "rejectState" /\ pc' = "rejectLink" /\ UNCHANGED runEvents
        /\ runState' = "failed"
    BY <1>4 DEF RejectSetState, SetStateUnchecked
  <2>2. runEvents # << >> /\ Last(runEvents).to = "failed" /\ Last(runEvents)' = Last(runEvents)
    BY <2>1 DEF PathInv, Last
  <2>3. JournalChained'
    BY <1>0, <2>1 DEF JournalChained
  <2> QED
    BY <2>1, <2>2, <2>3 DEF PathInv, SetupPcs, ToolPcs, JournalHonest, StateMatchesJournal,
                            JournalEnd
<1> QED
  BY <1>1, <1>2, <1>3, <1>4

(* A step of the run that writes neither.                                  *)
LEMMA PathFrame ==
  ASSUME PathInv, JournalHonest, UNCHANGED << runEvents, runState, starts >>,
         pc' \notin {"init", "walk", "link", "rejectState"},
         pc' \in SetupPcs \cup {"idle"} => pc \in SetupPcs \cup {"idle"},
         pc \in {"rejectState", "err"} \cup StoppedPcs => pc' \in {"err", "ended", "dead"},
         pc' \in {"top", "recv", "gate", "handle", "reject", "rejectInsert", "drained"}
                 \cup ToolPcs => cur' = runState
  PROVE  (PathInv /\ JournalHonest)'
<1>1. JournalHonest' /\ JournalEnd' = JournalEnd
  BY HonestFrame DEF StoppedPcs
<1> QED
  BY <1>1 DEF PathInv, StoppedPcs

(* Every step of the run keeps PathInv. *)
LEMMA PathSteps ==
  ASSUME IndInv, SoloInv, ~ SecondInstance, RunStep
  PROVE  (PathInv /\ JournalHonest)'
<1> USE DEF SoloInv, store, exec, seen, recovery, GoFail, Finalize, ExecutorPcs, StreamPcs,
            RejectPcs, FinalPcs, SetupPcs, StoppedPcs, ToolPcs
<1>0. PathInv /\ JournalHonest /\ CallInv
  OBVIOUS
<1>1. CASE OrchestratorStep \/ SendMessage
  BY <1>0, <1>1, PathWalk, PathStream, PathFrame DEF OrchestratorStep, SendMessage,
     RefuseMessage, RegisterRun, OpenMessage, InitStepFails, InitFail
<1>2. CASE LoadRun \/ LoadFails \/ TopCancelled \/ BudgetExceeded \/ OpenStream \/ RecvCancelled
           \/ Watchdog \/ StreamEnds
  BY <1>0, <1>2, PathFrame DEF PathInv, LoadRun, LoadFails, TopCancelled, BudgetExceeded,
     OpenStream, RecvCancelled, Watchdog, StreamEnds
<1>3. CASE \E e \in StreamEvents : PersistEvent(e)
  BY <1>0, <1>3, PathFrame DEF PathInv, PersistEvent
<1>4. CASE EmitAndAsk \/ WalkStep \/ LinkEvent
  BY <1>0, <1>4, PathWalk, PathStream DEF IndInv
<1>5. CASE WalkStepFails \/ HandleContinue \/ HandleDone \/ HandleFinal
  BY <1>0, <1>5, PathFrame DEF PathInv, WalkStepFails, HandleContinue, HandleDone, HandleFinal
<1>6. CASE RejectInsert \/ RejectSetState \/ ToolDone \/ FinalizeState
  BY <1>0, <1>6, PathWrites DEF IndInv
<1>7. CASE RejectReadSeq \/ RejectInsertFails \/ RejectLink
  BY <1>0, <1>7, PathFrame DEF PathInv, RejectReadSeq, RejectInsertFails, RejectLink
<1>8. CASE DrainedCancelled \/ DrainedTool \/ DrainedCompleted
  BY <1>0, <1>8, PathFrame DEF PathInv, DrainedCancelled, DrainedTool, DrainedCompleted
<1>9. CASE ToolUnknown \/ ToolNeedsApproval \/ ToolExecute \/ ToolPersist \/ ToolEmit \/
           ToolDoneFails
  BY <1>0, <1>9, PathFrame DEF PathInv, ToolUnknown, ToolNeedsApproval, ToolExecute,
     ToolPersist, ToolEmit, ToolDoneFails
<1>10. CASE FinalizeMessage \/ FinalizeStateFails \/ FinalizeStatus \/ Announce
  BY <1>0, <1>10, PathFrame DEF PathInv, FinalizeMessage, FinalizeStateFails, FinalizeStatus,
     Announce
<1>11. CASE StorageError \/ Crash
  BY <1>0, <1>11, PathFrame DEF PathInv, StorageError, WritingPcs, Crash
<1>12. CASE CancelRun \/ GoStale
  <2>1. UNCHANGED << runEvents, runState, starts, pc, walk, cur, ev >>
    BY <1>12 DEF CancelRun, GoStale
  <2>2. JournalHonest' /\ JournalEnd' = JournalEnd
    BY <1>0, <2>1, HonestFrame
  <2> QED
    BY <1>0, <2>1, <2>2 DEF PathInv, WalkIsPath, Reached, Last
<1> QED
  BY <1>1, <1>2, <1>3, <1>4, <1>5, <1>6, <1>7, <1>8, <1>9, <1>10, <1>11, <1>12
     DEF RunStep, ExecutorStep, ProviderStep, OrchestratorStep

(* latest_for_run finds the last entry.                                    *)
LEMMA LatestIsLast ==
  ASSUME runEvents \in Seq(JournalRecord), SeqGapless, runEvents # << >>, NEW f
  PROVE  LatestTo(f) = Last(runEvents).to
<1> DEFINE Newest(i) == runEvents[i].seq = MaxSeq
<1>1. MaxSeq = Len(runEvents) /\ Len(runEvents) \in DOMAIN runEvents
  BY MaxSeqIsLen
<1>2. \A i \in DOMAIN runEvents : Newest(i) <=> i = Len(runEvents)
  BY <1>1 DEF SeqGapless
<1>3. (CHOOSE i \in DOMAIN runEvents : Newest(i)) = Len(runEvents)
  BY <1>1, <1>2
<1> QED
  BY <1>3 DEF LatestTo, Last

(* No step of the run moves the recovery pass.                             *)
LEMMA RunLeavesRecovery == RunStep => UNCHANGED recovery
  BY DEF RunStep, SendMessage, OrchestratorStep, RefuseMessage, RegisterRun, recovery,
      OpenMessage, StartRun, InitStep, WriteEdge, InitStepFails, InitFail, ExecutorStep, ProviderStep,
      LoadRun, LoadFails, TopCancelled, BudgetExceeded, OpenStream, RecvCancelled,
      Watchdog, StreamEnds, PersistEvent, EmitAndAsk, WalkStep, WalkStepFails, LinkEvent,
      HandleContinue, HandleDone, HandleFinal, RejectReadSeq, RejectInsert, RejectInsertFails,
      RejectSetState, RejectLink, DrainedCancelled, DrainedTool, DrainedCompleted, ToolUnknown,
      ToolNeedsApproval, ToolExecute, ToolPersist, ToolEmit, ToolDone, ToolDoneFails,
      FinalizeMessage, FinalizeState, FinalizeStateFails, FinalizeStatus, Announce,
      StorageError, CancelRun, GoStale, Crash

(* Recovery, with nobody else at work.                                     *)
LEMMA PathRecovery ==
  ASSUME IndInv, SoloInv, AloneInv', RecoveryPass \/ RecoverStops, ~ SecondInstance
  PROVE  (PathInv /\ JournalHonest /\ RecoveryInv)'
<1>0. /\ runEvents \in Seq(JournalRecord) /\ JournalChained /\ starts \in Nat
      /\ runState \in RunStates
      /\ PathInv /\ JournalHonest /\ RecoveryInv /\ StateMatchesJournal
  BY DEF IndInv, TypeOK, StoreTypeOK, SoloInv, JournalHonest
<1>1. pc \in StoppedPcs /\ pc' = pc
  BY DEF SoloInv, AloneInv, RecoveryPass, RecoverStops, RecoverList, RecoverRead, RecoverMark,
         RecoverReadSeq, RecoverAppend
<1>2. PathInv'
  BY <1>1 DEF PathInv, StoppedPcs, SetupPcs, ToolPcs
<1>3. CASE RecoverMark
  <2>1. /\ runState' = "interrupted" /\ UNCHANGED << runEvents, recFrom, starts >>
        /\ rec = "read" /\ rec' = "marked"
    BY <1>3 DEF RecoverMark, MarkInterrupted
  <2>2. starts > 0
    BY <2>1 DEF SoloInv, AloneInv
  <2>3. JournalHonest' /\ JournalEnd' = JournalEnd
    BY <1>0, <2>1, <2>2 DEF JournalHonest, JournalChained, StateMatchesJournal, JournalEnd, Last
  <2> QED
    BY <1>0, <1>2, <2>1, <2>3 DEF RecoveryInv
<1>4. CASE RecoverAppend
  <2>1. /\ InsertEvent(recSeq, recFrom, "app_crash_recovery", "interrupted")
        /\ rec = "append" /\ rec' = "off" /\ UNCHANGED << runState, starts >>
    BY <1>4 DEF RecoverAppend
  <2>2. recFrom = JournalEnd /\ runState = "interrupted"
    BY <1>0, <2>1 DEF RecoveryInv
  <2>3. JournalChained' /\ runEvents' # << >> /\ Last(runEvents)'.to = "interrupted"
    BY <1>0, <2>1, <2>2, ChainedAppend
  <2> QED
    BY <1>2, <2>1, <2>2, <2>3 DEF RecoveryInv, JournalHonest, StateMatchesJournal
<1>5. CASE RecoverList \/ RecoverRead \/ RecoverReadSeq \/ RecoverStops
  <2>1. UNCHANGED << runEvents, runState >> /\ (starts > 0 => starts' > 0)
    BY <1>0, <1>5 DEF RecoverList, RecoverRead, RecoverReadSeq, RecoverStops, store
  <2>2. JournalHonest' /\ JournalEnd' = JournalEnd
    BY <1>0, <1>1, <2>1, HonestFrame
  <2>3. CASE RecoverRead
    <3>1. rec = "listed" /\ rec' = "read" /\ recFrom' = LatestTo(recFrom)
      BY <2>3 DEF RecoverRead
    <3>2. CASE runEvents = << >>
      <4>1. recFrom = "created"
        BY <1>0, <3>1, <3>2 DEF RecoveryInv, StateMatchesJournal, TerminalStates
      <4> QED
        BY <1>2, <2>1, <2>2, <3>1, <3>2, <4>1 DEF RecoveryInv, LatestTo, JournalEnd
    <3>3. CASE runEvents # << >>
      <4>1. recFrom' = Last(runEvents).to
        BY <1>0, <3>1, <3>3, LatestIsLast DEF IndInv
      <4> QED
        BY <1>2, <2>1, <2>2, <3>1, <3>3, <4>1 DEF RecoveryInv, JournalEnd
    <3> QED
      BY <3>2, <3>3
  <2>4. CASE RecoverList \/ RecoverReadSeq \/ RecoverStops
    BY <1>0, <1>2, <2>1, <2>2, <2>4 DEF RecoveryInv, RecoverList, RecoverReadSeq, RecoverStops
  <2> QED
    BY <1>5, <2>3, <2>4
<1> QED
  BY <1>3, <1>4, <1>5 DEF RecoveryPass

(* Every step keeps SoloInv. *)
LEMMA SoloSteps ==
  ASSUME IndInv, SoloInv, Next, ~ SecondInstance
  PROVE  SoloInv'
<1>1. AloneInv' /\ CallInv'
  BY AloneSteps, CallSteps DEF SoloInv
<1>2. CASE RecoveryPass \/ RecoverStops
  BY <1>1, <1>2, PathRecovery DEF SoloInv
<1>3. CASE RunStep
  <2>1. (PathInv /\ JournalHonest)'
    BY <1>3, PathSteps
  <2>2. pc \notin StoppedPcs \/ UNCHANGED << store, recovery >> \/ GoStale
    BY <1>3 DEF RunStep, SendMessage, OrchestratorStep, RefuseMessage, RegisterRun,
      OpenMessage, StartRun, InitStep, InitStepFails, InitFail, ExecutorStep, ProviderStep, StoppedPcs,
      LoadRun, LoadFails, TopCancelled, BudgetExceeded, OpenStream, RecvCancelled,
      Watchdog, StreamEnds, PersistEvent, EmitAndAsk, WalkStep, WalkStepFails, LinkEvent,
      HandleContinue, HandleDone, HandleFinal, RejectReadSeq, RejectInsert, RejectInsertFails,
      RejectSetState, RejectLink, DrainedCancelled, DrainedTool, DrainedCompleted, ToolUnknown,
      ToolNeedsApproval, ToolExecute, ToolPersist, ToolEmit, ToolDone, ToolDoneFails,
      FinalizeMessage, FinalizeState, FinalizeStateFails, FinalizeStatus, Announce,
      StorageError, WritingPcs, SetupPcs, RejectPcs, CancelRun, Crash
  <2>3. RecoveryInv'
    <3>1. CASE rec = "off"
      <4>1. rec' = "off"
        BY <1>3, <3>1, RunLeavesRecovery DEF recovery
      <4> QED
        BY <4>1 DEF RecoveryInv
    <3>2. CASE rec # "off"
      <4>1. pc \in StoppedPcs
        BY <3>2 DEF SoloInv, AloneInv, IndInv, TypeOK
      <4>2. UNCHANGED << runEvents, runState, rec, recFrom >>
        BY <2>2, <4>1 DEF store, recovery, GoStale
      <4> QED
        BY <4>2 DEF SoloInv, RecoveryInv, JournalEnd, Last
    <3> QED
      BY <3>1, <3>2
  <2> QED
    BY <1>1, <2>1, <2>3 DEF SoloInv
<1> QED
  BY <1>2, <1>3 DEF Next

(* Without a second instance the journal is honest for the whole run. *)
LEMMA SoloInvariant ==
  ASSUME ~ SecondInstance
  PROVE  Spec => []SoloInv
<1>1. Init => SoloInv
  <2> SUFFICES ASSUME Init PROVE SoloInv
    OBVIOUS
  <2>1. /\ runEvents = << >> /\ DOMAIN runEvents = {} /\ runState = "created"
        /\ pc = "idle" /\ rec = "off" /\ starts = 0
    BY DEF Init, StoreInit
  <2>2. AloneInv /\ RecoveryInv
    BY <2>1 DEF AloneInv, RecoveryInv
  <2>3. PathInv /\ CallInv
    BY <2>1 DEF PathInv, CallInv, JournalEnd, ToolPcs
  <2>4. JournalHonest
    BY <2>1 DEF JournalHonest, JournalChained, StateMatchesJournal
  <2> QED
    BY <2>2, <2>3, <2>4 DEF SoloInv
<1>2. IndInv /\ SoloInv /\ [Next]_vars => SoloInv'
  <2>1. CASE UNCHANGED vars
    BY <2>1 DEF vars, store, exec, seen, recovery, SoloInv, AloneInv, PathInv, CallInv, RecoveryInv, JournalHonest,
                JournalChained, StateMatchesJournal, JournalEnd, Reached, WalkIsPath
  <2> QED
    BY <2>1, SoloSteps
<1> QED
  BY <1>1, <1>2, IndInvariant, PTL DEF Spec

(* Recovery and the next start may trust the journal: it is one path, and   *)
(* the row of the run stands where it ends, but for the two writes of a     *)
(* rejection and of a recovery (executor.rs, recovery.rs).  Two instances   *)
(* on one database break it, see the README: the gate compares runs.state   *)
(* only, and the recovery of the other instance may come in between.        *)
THEOREM JournalStaysHonest ==
  ASSUME ~ SecondInstance
  PROVE  Spec => []JournalHonest
<1>1. SoloInv => JournalHonest
  BY DEF SoloInv
<1> QED
  BY <1>1, SoloInvariant, PTL

--------------------------------------------------------------------------------
(* The verdict, without a second instance.                                 *)

(* Every step keeps VerdictInv. *)
LEMMA VerdictSteps ==
  ASSUME IndInv, VerdictInv, Next, OpenVerdictInv, SoloInv, ~ SecondInstance
  PROVE  VerdictInv'
<1> USE DEF IndInv, TypeOK, StoreTypeOK, VerdictInv, VerdictsAgree, NoVerdict, store, exec,
            seen, recovery, GoFail, Finalize, FinalStatuses, SetupPcs, ExecutorPcs, StreamPcs,
            RejectPcs, ToolPcs, FinalPcs, StoppedPcs
<1> USE DEF OpenVerdictInv
<1>1. CASE OrchestratorStep \/ SendMessage
  BY <1>1 DEF OrchestratorStep, SendMessage, RefuseMessage, RegisterRun, OpenMessage, StartRun,
           InitStep, WriteEdge, SetStateValidated, InitStepFails, InitFail
<1>2. CASE LoadRun \/ LoadFails \/ TopCancelled \/ BudgetExceeded \/ OpenStream \/ RecvCancelled
           \/ Watchdog \/ StreamEnds
  BY <1>2 DEF LoadRun, LoadFails, TopCancelled, BudgetExceeded, OpenStream, Tick, RecvCancelled,
           Watchdog, StreamEnds
<1>3. CASE \E e \in StreamEvents : PersistEvent(e)
  BY <1>3 DEF PersistEvent, AppendMessageEvent
<1>4. CASE EmitAndAsk
  BY <1>4 DEF EmitAndAsk
<1>5. CASE WalkStep \/ WalkStepFails \/ LinkEvent \/ HandleContinue \/ HandleDone \/ HandleFinal
  BY <1>5 DEF WalkStep, WriteEdge, SetStateValidated, WalkStepFails, LinkEvent, HandleContinue,
           HandleDone, HandleFinal
<1>6. CASE RejectReadSeq \/ RejectInsert \/ RejectInsertFails \/ RejectSetState \/ RejectLink
  BY <1>6 DEF RejectReadSeq, RejectInsert, RejectInsertFails, RejectSetState, SetStateUnchecked,
           RejectLink
<1>7. CASE DrainedCancelled \/ DrainedTool \/ DrainedCompleted
  BY <1>7 DEF DrainedCancelled, DrainedTool, DrainedCompleted
<1>8. CASE ToolUnknown \/ ToolExecute
  BY <1>8 DEF ToolUnknown, ToolExecute
<1>9. CASE ToolNeedsApproval
  BY <1>9 DEF ToolNeedsApproval
<1>10. CASE ToolPersist
  BY <1>10 DEF ToolPersist, AppendMessageEvent
<1>11. CASE ToolEmit \/ ToolDone \/ ToolDoneFails
  BY <1>11 DEF ToolEmit, ToolDone, SetStateValidated, ToolDoneFails
<1>12. CASE FinalizeMessage \/ FinalizeState \/ FinalizeStateFails \/ FinalizeStatus \/ Announce
           \/ StorageError
  <2>1. CASE FinalizeState
    <3>1. runState' = "completed"
      BY <2>1, AnswersOfTheTable DEF FinalizeState, SetStateValidated
    <3> QED
      BY <2>1, <3>1 DEF FinalizeState
  <2>2. CASE Announce
    BY <2>2 DEF Announce
  <2> QED
    BY <1>12, <2>1, <2>2 DEF FinalizeMessage, FinalizeStateFails, FinalizeStatus, StorageError,
                             WritingPcs
<1>13. CASE CancelRun \/ GoStale \/ Crash \/ RecoverStops \/ RecoveryPass
  <2>1. rec # "off" => starts > 0
    BY DEF SoloInv, AloneInv
  <2>2. CASE CancelRun \/ GoStale \/ Crash
    BY <2>2 DEF CancelRun, GoStale, Crash
  <2>3. CASE RecoverStops \/ RecoverRead \/ RecoverReadSeq \/ RecoverAppend
    BY <2>3 DEF RecoverStops, RecoverRead, RecoverReadSeq, RecoverAppend
  <2>4. CASE RecoverList
    <3>1. starts \in Nat /\ starts' = starts + 1
      BY <2>4 DEF RecoverList
    <3>2. starts' > 0
      BY <3>1
    <3> QED
      BY <2>4, <3>2 DEF RecoverList
  <2>5. CASE RecoverMark
    <3>1. starts > 0 /\ pc \in StoppedPcs
      BY <2>1, <2>5 DEF RecoverMark, SoloInv, AloneInv
    <3>2. runState' = "interrupted" /\ runStatus' = "failed"
      BY <2>5 DEF RecoverMark, MarkInterrupted
    <3> QED
      BY <2>5, <3>1, <3>2 DEF RecoverMark
  <2> QED
    BY <1>13, <2>2, <2>3, <2>4, <2>5 DEF RecoveryPass
<1> QED
  BY <1>1, <1>2, <1>3, <1>4, <1>5, <1>6, <1>7, <1>8, <1>9, <1>10, <1>11, <1>12, <1>13
     DEF Next, RunStep, ExecutorStep, ProviderStep

(* Without a second instance the writes of the end keep their order. *)
LEMMA VerdictInvariant ==
  ASSUME ~ SecondInstance
  PROVE  Spec => []VerdictInv
<1>1. Init => VerdictInv
  BY DEF Init, StoreInit, VerdictInv, VerdictsAgree, NoVerdict, FinalStatuses, StoppedPcs
<1>2. IndInv /\ OpenVerdictInv /\ SoloInv /\ VerdictInv /\ [Next]_vars => VerdictInv'
  <2>1. CASE UNCHANGED vars
    BY <2>1 DEF vars, store, exec, seen, recovery, VerdictInv, VerdictsAgree
  <2> QED
    BY <2>1, VerdictSteps
<1> QED
  BY <1>1, <1>2, IndInvariant, OpenVerdictInvariant, SoloInvariant, PTL DEF Spec

(* The four places a result shows agree: runs.status, runs.state,           *)
(* messages.status and what the window was told (finalize_status,           *)
(* finalize_error and the emit of the spawned task), for one instance.      *)
THEOREM VerdictsStayTogether ==
  ASSUME ~ SecondInstance
  PROVE  Spec => []VerdictsAgree
<1>1. VerdictInv => VerdictsAgree
  BY DEF VerdictInv
<1> QED
  BY <1>1, VerdictInvariant, PTL

================================================================================
