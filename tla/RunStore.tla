------------------------------- MODULE RunStore --------------------------------
(***************************************************************************)
(* The rows one run owns in SQLite (crates/storage/src/lib.rs) and the     *)
(* operations of RunRepo, RunEventRepo, MessageRepo and MessageEventRepo   *)
(* on them.  Each operator below is one SQL transaction; a storage call    *)
(* that runs two statements outside a transaction is split in two          *)
(* operators, so that other writers may come in between.                   *)
(***************************************************************************)
EXTENDS RunStateMachine

VARIABLES
  runState,     (* runs.state, the canonical state                          *)
  runStatus,    (* runs.status, the projection the UI lists                 *)
  lastEventSeq, (* runs.last_event_seq                                      *)
  stale,        (* runs.last_heartbeat_at is older than the threshold       *)
  runEvents,    (* run_events: the journal of transitions, insertion order  *)
  msgStatus,    (* messages.status of the assistant message                 *)
  msgEvents     (* message_events: the journal of StreamEvents              *)

store == << runState, runStatus, lastEventSeq, stale, runEvents,
            msgStatus, msgEvents >>

FinalStatuses == {"completed", "failed", "cancelled", "timeout"}
RunStatuses   == FinalStatuses \cup {"created", "running"}
MsgStatuses   == FinalStatuses \cup {"pending", "streaming"}

JournalRecord == [ seq : Nat, from : RunStates, kind : RunEventKinds, to : RunStates ]
MessageRecord == [ ev : StreamEvents \cup {"tool_result"}, runSeq : Nat ]

StoreTypeOK ==
  /\ runState \in RunStates
  /\ runStatus \in RunStatuses
  /\ lastEventSeq \in Nat
  /\ stale \in BOOLEAN
  /\ runEvents \in Seq(JournalRecord)
  /\ msgStatus \in MsgStatuses
  /\ msgEvents \in Seq(MessageRecord)

StoreInit ==
  /\ runState = "created"
  /\ runStatus = "created"
  /\ lastEventSeq = 0
  /\ stale = FALSE
  /\ runEvents = << >>
  /\ msgStatus = "pending"
  /\ msgEvents = << >>

--------------------------------------------------------------------------------
(* The transition journal.                                                 *)

Journaled(s) == \E i \in DOMAIN runEvents : runEvents[i].seq = s

(* SELECT MAX(seq) FROM run_events, 0 when the run has none. *)
MaxSeq ==
  IF runEvents = << >> THEN 0
  ELSE CHOOSE s \in { runEvents[i].seq : i \in DOMAIN runEvents } :
         \A i \in DOMAIN runEvents : runEvents[i].seq <= s

(* INSERT INTO run_events: the caller checks UNIQUE(run_id, seq) first.    *)
InsertEvent(s, f, k, t) ==
  runEvents' = Append(runEvents, [seq |-> s, from |-> f, kind |-> k, to |-> t])

(* set_state_validated can commit: apply_transition has an edge for the    *)
(* pair the CALLER passes (the persisted state is not read), and the       *)
(* number last_event_seq + 1 is free.                                      *)
CanSetState(f, k) ==
  /\ ApplyTransition(f, k) # Rejected
  /\ ~ Journaled(lastEventSeq + 1)

(* Mutant of SetStateValidated: last_event_seq holds the next number. *)
SetStateSkipsSeq(f, k) ==
  /\ InsertEvent(lastEventSeq + 1, f, k, ApplyTransition(f, k))
  /\ runState' = ApplyTransition(f, k)
  /\ lastEventSeq' = lastEventSeq + 2
  /\ stale' = FALSE

SetStateValidated(f, k) ==
  /\ InsertEvent(lastEventSeq + 1, f, k, ApplyTransition(f, k))
  /\ runState' = ApplyTransition(f, k)
  /\ lastEventSeq' = lastEventSeq + 1
  /\ stale' = FALSE

(* set_state_and_heartbeat_unchecked_tx: no gate. *)
SetStateUnchecked(t, s) ==
  /\ runState' = t
  /\ lastEventSeq' = s
  /\ stale' = FALSE

(* latest_for_run, as recover_stale_runs uses it: the target of the event  *)
(* with the greatest seq, or the fallback when there is none.              *)
LatestTo(fallback) ==
  IF runEvents = << >> THEN fallback
  ELSE LET last == CHOOSE i \in DOMAIN runEvents : runEvents[i].seq = MaxSeq
       IN  runEvents[last].to

(* mark_interrupted: unconditional, whatever the row holds by now. *)
MarkInterrupted ==
  /\ runState' = "interrupted"
  /\ runStatus' = "failed"

--------------------------------------------------------------------------------
(* The stream journal.                                                     *)

AppendMessageEvent(e) == msgEvents' = Append(msgEvents, [ev |-> e, runSeq |-> 0])

SetRunSeq(n, s) == msgEvents' = [msgEvents EXCEPT ![n].runSeq = s]

================================================================================
