----------------------------- MODULE RunLifecycle ------------------------------
(***************************************************************************)
(* One chat run, from ChatOrchestrator.send_message to the last status the *)
(* window is told, as crates/execution-engine codes it: the orchestrator   *)
(* (orchestrator.rs), the executor it spawns (executor.rs), the user's     *)
(* cancel, the crash of the app and the recovery pass of the next start    *)
(* (recovery.rs).  They share the rows of RunStore.                        *)
(*                                                                         *)
(* The executor is a sequential task; pc is the await it is at.  A step is *)
(* what it does between two awaits, at most one SQL transaction, so a      *)
(* crash, a cancel or the recovery of a second instance falls between any  *)
(* two steps, and a failing transaction (StorageError) replaces a step.    *)
(*                                                                         *)
(* Left out, as no property depends on it: the text of messages and        *)
(* errors, token counts, cost and the audit rows (written best effort).    *)
(***************************************************************************)
EXTENDS RunStore, FiniteSets

CONSTANTS
  MaxSteps,      (* Budget.max_steps                                       *)
  MaxEvents,     (* bound: events a provider sends over the whole run      *)
  MaxStarts,     (* bound: recovery passes                                 *)
  SecondInstance (* TRUE: another process opens the same database while    *)
                 (* this one runs; nothing in the app prevents it          *)

ASSUME LifecycleAssumption ==
  /\ MaxSteps \in Nat
  /\ MaxEvents \in Nat
  /\ MaxStarts \in Nat
  /\ SecondInstance \in BOOLEAN

VARIABLES
  pc,          (* where the run's task is                                  *)
  cur,         (* current_state: the executor's copy of runs.state         *)
  steps,       (* BudgetEnforcer.current_step                              *)
  pendingCall, (* tool_call_collected.is_some()                            *)
  walk,        (* transitions still to be written                          *)
  ev,          (* the stream event being handled                           *)
  verdict,     (* how the run ends, once that is decided                   *)
  rejSeq,      (* the seq RunEventRepo.append computed for the rejection   *)
  token,       (* the CancellationToken has been cancelled                 *)
  executed,    (* number of times a tool ran                               *)
  approval,    (* the run has a row in approval_queue                      *)
  emitted,     (* number of stream events sent to the window               *)
  uiStatus,    (* last RunStatus sent to the window                        *)
  rec,         (* where the recovery pass is                               *)
  recFrom,     (* last_state it read                                       *)
  recSeq,      (* the seq its append computed                              *)
  starts       (* recovery passes so far                                   *)

exec == << cur, steps, pendingCall, walk, ev, verdict, rejSeq >>
seen == << executed, approval, emitted, uiStatus >>
recovery == << rec, recFrom, recSeq, starts >>
vars == << store, pc, exec, token, seen, recovery >>

(* The task of a run, by what it is doing. *)
SetupPcs   == {"created", "registered", "opened"}
StreamPcs  == {"recv", "gate", "walk", "link", "handle"}
RejectPcs  == {"reject", "rejectInsert", "rejectState", "rejectLink"}
ToolPcs    == {"tool", "toolRan", "toolEmit", "toolDone"}
FinalPcs   == {"finMsg", "finState", "finStatus", "announce"}
StoppedPcs == {"ended", "refused", "dead"}
ExecutorPcs == {"load", "top", "drained", "err"}
                 \cup StreamPcs \cup RejectPcs \cup ToolPcs \cup FinalPcs
Pcs == {"idle", "init", "initFail"}
         \cup SetupPcs \cup ExecutorPcs \cup StoppedPcs

(* RunRegistry holds the token: from register to unregister. *)
RegisteredPcs == ExecutorPcs \cup {"registered", "opened", "init", "initFail"}

(* Awaits on SQLite whose error ends the task, see StorageError. *)
WritingPcs ==
  SetupPcs \cup RejectPcs \cup
  {"init", "load", "recv", "walk", "link", "handle", "tool", "toolRan",
   "toolDone", "finMsg", "finState", "finStatus"}

RecPcs == {"off", "listed", "read", "marked", "append"}

(* The five init_steps of send_message. *)
InitWalk ==
  << Edge("created",                 "enqueue",         "queued"),
     Edge("queued",                  "dequeue",         "preparing_context"),
     Edge("preparing_context",       "context_ready",   "retrieving_memory"),
     Edge("retrieving_memory",       "memory_done",     "validating_capabilities"),
     Edge("validating_capabilities", "capabilities_ok", "calling_model") >>

Last(s) == s[Len(s)]

NoVerdict == "none"
NoEvent   == "none"

Init ==
  /\ StoreInit
  /\ pc = "idle"
  /\ cur = "created" /\ steps = 0 /\ pendingCall = FALSE /\ walk = << >>
  /\ ev = NoEvent /\ verdict = NoVerdict /\ rejSeq = 0
  /\ token = FALSE
  /\ executed = 0 /\ approval = FALSE /\ emitted = 0 /\ uiStatus = NoVerdict
  /\ rec = "off" /\ recFrom = "created" /\ recSeq = 0 /\ starts = 0

--------------------------------------------------------------------------------
(* ChatOrchestrator.send_message.                                          *)

(* The rows of the message and of the run are created. *)
SendMessage ==
  /\ pc = "idle"
  /\ pc' = "created"
  /\ UNCHANGED << store, exec, token, seen, recovery >>

(* No adapter, no model or no price: the caller gets the error and the     *)
(* rows stay as they are.                                                  *)
RefuseMessage ==
  /\ pc = "created"
  /\ pc' = "refused"
  /\ UNCHANGED << store, exec, token, seen, recovery >>

RegisterRun ==
  /\ pc = "created"
  /\ pc' = "registered"
  /\ UNCHANGED << store, exec, token, seen, recovery >>

OpenMessage ==
  /\ pc = "registered"
  /\ pc' = "opened"
  /\ msgStatus' = "streaming"
  /\ UNCHANGED << runState, runStatus, lastEventSeq, stale, runEvents, msgEvents >>
  /\ UNCHANGED << exec, token, seen, recovery >>

StartRun ==
  /\ pc = "opened"
  /\ pc' = "init"
  /\ runStatus' = "running"
  /\ walk' = InitWalk
  /\ UNCHANGED << runState, lastEventSeq, stale, runEvents, msgStatus, msgEvents >>
  /\ UNCHANGED << cur, steps, pendingCall, ev, verdict, rejSeq >>
  /\ UNCHANGED << token, seen, recovery >>

(* One edge of walk through the gate of the store. *)
WriteEdge ==
  /\ CanSetState(Head(walk).from, Head(walk).kind)
  /\ SetStateValidated(Head(walk).from, Head(walk).kind)
  /\ walk' = Tail(walk)
  /\ UNCHANGED << runStatus, msgStatus, msgEvents >>
  /\ UNCHANGED << cur, steps, pendingCall, ev, verdict, rejSeq >>
  /\ UNCHANGED << token, seen, recovery >>

InitStep ==
  /\ pc = "init"
  /\ WriteEdge
  /\ pc' = IF Len(walk) = 1 THEN "load" ELSE "init"

InitStepFails ==
  /\ pc = "init"
  /\ ~ CanSetState(Head(walk).from, Head(walk).kind)
  /\ pc' = "initFail"
  /\ UNCHANGED << store, exec, token, seen, recovery >>

(* set_status is best effort here, the window is told anyway. *)
InitFail ==
  /\ pc = "initFail"
  /\ pc' = "ended"
  /\ runStatus' \in {"failed", runStatus}
  /\ uiStatus' = "failed"
  /\ UNCHANGED << runState, lastEventSeq, stale, runEvents, msgStatus, msgEvents >>
  /\ UNCHANGED << exec, token, executed, approval, emitted, recovery >>

--------------------------------------------------------------------------------
(* RunExecutor.run: the head of a round.                                   *)

(* An early return of the executor: Err(_), or finalize with a status. *)
GoFail ==
  /\ pc' = "err"
  /\ verdict' = "failed"
  /\ UNCHANGED << cur, steps, pendingCall, walk, ev, rejSeq >>

Finalize(status) ==
  /\ pc' = "finMsg"
  /\ verdict' = status
  /\ UNCHANGED << cur, walk, ev, rejSeq >>

LoadRun ==
  /\ pc = "load"
  /\ pc' = "top"
  /\ cur' = runState
  /\ UNCHANGED << steps, pendingCall, walk, ev, verdict, rejSeq >>
  /\ UNCHANGED << store, token, seen, recovery >>

LoadFails ==
  /\ pc = "load"
  /\ GoFail
  /\ UNCHANGED << store, token, seen, recovery >>

TopCancelled ==
  /\ pc = "top"
  /\ token
  /\ Finalize("cancelled")
  /\ UNCHANGED << steps, pendingCall, store, token, seen, recovery >>

(* BudgetEnforcer.tick counts the step even when it refuses it. *)
Tick(ok) ==
  /\ steps' = steps + 1
  /\ ok = (steps' <= MaxSteps)

BudgetExceeded ==
  /\ pc = "top"
  /\ ~ token
  /\ Tick(FALSE)
  /\ Finalize("failed")
  /\ UNCHANGED << pendingCall, store, token, seen, recovery >>

OpenStream ==
  /\ pc = "top"
  /\ ~ token
  /\ Tick(TRUE)
  /\ pendingCall' = FALSE
  /\ \/ pc' = "recv" /\ verdict' = verdict
     \/ pc' = "err" /\ verdict' = "failed"
  /\ UNCHANGED << cur, walk, ev, rejSeq, store, token, seen, recovery >>

--------------------------------------------------------------------------------
(* RunExecutor.run: one stream event.  The select is biased: the token     *)
(* wins over the watchdog, the watchdog over the stream.                   *)

RecvCancelled ==
  /\ pc = "recv"
  /\ token
  /\ pc' = "drained"
  /\ UNCHANGED << store, exec, token, seen, recovery >>

(* Mutant of Watchdog: the select has no timer. *)
NoWatchdog == FALSE /\ UNCHANGED vars

Watchdog ==
  /\ pc = "recv"
  /\ ~ token
  /\ Finalize("timeout")
  /\ UNCHANGED << steps, pendingCall, store, token, seen, recovery >>

(* The adapter closes the stream without a Done. *)
StreamEnds ==
  /\ pc = "recv"
  /\ ~ token
  /\ pc' = "drained"
  /\ UNCHANGED << store, exec, token, seen, recovery >>

(* persist_journal.  An adapter yields Cancelled only when it saw the      *)
(* token, after the select had polled it.                                  *)
PersistEvent(e) ==
  /\ pc = "recv"
  /\ Len(msgEvents) < MaxEvents
  /\ token = (e = "cancelled")
  /\ AppendMessageEvent(e)
  /\ ev' = e
  /\ pc' = "gate"
  /\ UNCHANGED << runState, runStatus, lastEventSeq, stale, runEvents, msgStatus >>
  /\ UNCHANGED << cur, steps, pendingCall, walk, verdict, rejSeq >>
  /\ UNCHANGED << token, seen, recovery >>

(* The event goes to the window, then run_state_for_event is asked. *)
EmitAndAsk ==
  LET answer == StreamTransitions(cur, ev)
  IN  /\ pc = "gate"
      /\ emitted' = Len(msgEvents)
      /\ walk' = IF answer.ok THEN answer.walk ELSE << >>
      /\ pc' = IF ~ answer.ok THEN "reject"
               ELSE IF answer.walk = << >> THEN "handle"
               ELSE "walk"
      /\ UNCHANGED << cur, steps, pendingCall, ev, verdict, rejSeq >>
      /\ UNCHANGED << store, token, executed, approval, uiStatus, recovery >>

WalkStep ==
  /\ pc = "walk"
  /\ WriteEdge
  /\ pc' = IF Len(walk) = 1 THEN "link" ELSE "walk"

WalkStepFails ==
  /\ pc = "walk"
  /\ ~ CanSetState(Head(walk).from, Head(walk).kind)
  /\ GoFail
  /\ UNCHANGED << store, token, seen, recovery >>

(* Mutant of LinkEvent: the event points at the last entry but one. *)
LinkEventEarly ==
  /\ pc = "link"
  /\ SetRunSeq(Len(msgEvents), lastEventSeq - 1)
  /\ cur' = Last(runEvents).to
  /\ pc' = "handle"
  /\ UNCHANGED << runState, runStatus, lastEventSeq, stale, runEvents, msgStatus >>
  /\ UNCHANGED << steps, pendingCall, walk, ev, verdict, rejSeq, token, seen, recovery >>

(* set_run_seq, then current_state = last_to.  What the last step of the   *)
(* walk returned is the last entry this executor wrote.                    *)
LinkEvent ==
  /\ pc = "link"
  /\ SetRunSeq(Len(msgEvents), lastEventSeq)
  /\ cur' = LET ks == Causes(cur, ev)
            IN  ApplyTransition(WalkFrom(cur, ks, Len(ks)), ks[Len(ks)])
  /\ pc' = "handle"
  /\ UNCHANGED << runState, runStatus, lastEventSeq, stale, runEvents, msgStatus >>
  /\ UNCHANGED << steps, pendingCall, walk, ev, verdict, rejSeq >>
  /\ UNCHANGED << token, seen, recovery >>

(* The final match on the event. *)
HandleContinue ==
  /\ pc = "handle"
  /\ ev \in {"delta", "usage", "tool_call"}
  /\ pendingCall' = (pendingCall \/ ev = "tool_call")
  /\ pc' = "recv"
  /\ UNCHANGED << cur, steps, walk, ev, verdict, rejSeq >>
  /\ UNCHANGED << store, token, seen, recovery >>

HandleDone ==
  /\ pc = "handle"
  /\ ev \in {"done_stop", "done_tool_calls", "done_error"}
  /\ pc' = "drained"
  /\ UNCHANGED << store, exec, token, seen, recovery >>

HandleFinal ==
  /\ pc = "handle"
  /\ ev \in {"error", "cancelled"}
  /\ Finalize(IF ev = "error" THEN "failed" ELSE "cancelled")
  /\ UNCHANGED << steps, pendingCall, store, token, seen, recovery >>

(* The gate refused the event: RunEventRepo.append reads MAX(seq), then    *)
(* inserts, then the state is written without the gate.                    *)
RejectReadSeq ==
  /\ pc = "reject"
  /\ rejSeq' = MaxSeq + 1
  /\ pc' = "rejectInsert"
  /\ UNCHANGED << cur, steps, pendingCall, walk, ev, verdict >>
  /\ UNCHANGED << store, token, seen, recovery >>

RejectInsert ==
  /\ pc = "rejectInsert"
  /\ ~ Journaled(rejSeq)
  /\ InsertEvent(rejSeq, cur, "unrecoverable_error", "failed")
  /\ pc' = "rejectState"
  /\ UNCHANGED << runState, runStatus, lastEventSeq, stale, msgStatus, msgEvents >>
  /\ UNCHANGED << exec, token, seen, recovery >>

RejectInsertFails ==
  /\ pc = "rejectInsert"
  /\ Journaled(rejSeq)
  /\ GoFail
  /\ UNCHANGED << store, token, seen, recovery >>

(* Mutant of RejectSetState: the state before the rejection is written. *)
RejectKeepsState ==
  /\ pc = "rejectState"
  /\ SetStateUnchecked(cur, rejSeq)
  /\ pc' = "rejectLink"
  /\ UNCHANGED << runStatus, runEvents, msgStatus, msgEvents >>
  /\ UNCHANGED << exec, token, seen, recovery >>

RejectSetState ==
  /\ pc = "rejectState"
  /\ SetStateUnchecked("failed", rejSeq)
  /\ pc' = "rejectLink"
  /\ UNCHANGED << runStatus, runEvents, msgStatus, msgEvents >>
  /\ UNCHANGED << exec, token, seen, recovery >>

RejectLink ==
  /\ pc = "rejectLink"
  /\ SetRunSeq(Len(msgEvents), rejSeq)
  /\ pc' = "err"
  /\ verdict' = "failed"
  /\ cur' = "failed"
  /\ UNCHANGED << runState, runStatus, lastEventSeq, stale, runEvents, msgStatus >>
  /\ UNCHANGED << steps, pendingCall, walk, ev, rejSeq >>
  /\ UNCHANGED << token, seen, recovery >>

--------------------------------------------------------------------------------
(* RunExecutor.run: after the stream, the tool or the end.                 *)

DrainedCancelled ==
  /\ pc = "drained"
  /\ token
  /\ Finalize("cancelled")
  /\ UNCHANGED << steps, pendingCall, store, token, seen, recovery >>

DrainedTool ==
  /\ pc = "drained"
  /\ ~ token
  /\ pendingCall
  /\ pc' = "tool"
  /\ UNCHANGED << store, exec, token, seen, recovery >>

(* Mutant of DrainedCompleted: the token is not checked after the stream. *)
DrainedCompletedAnyway ==
  /\ pc = "drained"
  /\ ~ pendingCall
  /\ Finalize("completed")
  /\ UNCHANGED << steps, pendingCall, store, token, seen, recovery >>

DrainedCompleted ==
  /\ pc = "drained"
  /\ ~ token
  /\ ~ pendingCall
  /\ Finalize("completed")
  /\ UNCHANGED << steps, pendingCall, store, token, seen, recovery >>

(* handle_tool_call: the tool is not registered or has no executor. *)
ToolUnknown ==
  /\ pc = "tool"
  /\ GoFail
  /\ UNCHANGED << store, token, seen, recovery >>

(* ApprovalRequired: the enqueue is best effort, the run ends anyway. *)
ToolNeedsApproval ==
  /\ pc = "tool"
  /\ approval' \in {TRUE, approval}
  /\ pc' = "err"
  /\ verdict' = "cancelled"
  /\ UNCHANGED << cur, steps, pendingCall, walk, ev, rejSeq >>
  /\ UNCHANGED << store, token, executed, emitted, uiStatus, recovery >>

(* Mutant of ToolExecute: the result is sent without being journaled. *)
ToolExecuteUnlogged ==
  /\ pc = "tool"
  /\ executed' = executed + 1
  /\ pc' = "toolEmit"
  /\ UNCHANGED << store, exec, token, approval, emitted, uiStatus, recovery >>

ToolExecute ==
  /\ pc = "tool"
  /\ executed' = executed + 1
  /\ pc' = "toolRan"
  /\ UNCHANGED << store, exec, token, approval, emitted, uiStatus, recovery >>

(* The ToolResult is journaled, of a tool that ran or of a call that       *)
(* validate_tool_call refused.                                             *)
ToolPersist ==
  /\ pc \in {"tool", "toolRan"}
  /\ AppendMessageEvent("tool_result")
  /\ pc' = "toolEmit"
  /\ UNCHANGED << runState, runStatus, lastEventSeq, stale, runEvents, msgStatus >>
  /\ UNCHANGED << exec, token, seen, recovery >>

(* Mutant of ToolEmit: the result stays in SQLite. *)
ToolEmitMissing ==
  /\ pc = "toolEmit"
  /\ pc' = "toolDone"
  /\ UNCHANGED << store, exec, token, seen, recovery >>

(* emit_journaled_event, then the audit row. *)
ToolEmit ==
  /\ pc = "toolEmit"
  /\ emitted' = Len(msgEvents)
  /\ pc' = "toolDone"
  /\ UNCHANGED << store, exec, token, executed, approval, uiStatus, recovery >>

(* Edge 26, written from WaitingToolCall whatever current_state holds. *)
ToolDone ==
  /\ pc = "toolDone"
  /\ CanSetState("waiting_tool_call", "result_valid")
  /\ SetStateValidated("waiting_tool_call", "result_valid")
  /\ cur' = "continuing_model"
  /\ pc' = "top"
  /\ UNCHANGED << runStatus, msgStatus, msgEvents >>
  /\ UNCHANGED << steps, pendingCall, walk, ev, verdict, rejSeq >>
  /\ UNCHANGED << token, seen, recovery >>

ToolDoneFails ==
  /\ pc = "toolDone"
  /\ ~ CanSetState("waiting_tool_call", "result_valid")
  /\ GoFail
  /\ UNCHANGED << store, token, seen, recovery >>

--------------------------------------------------------------------------------
(* finalize_status, finalize_error and the end of the spawned task.        *)

(* Mutant of FinalizeMessage: finalize_status skips the transition, as if  *)
(* the stream had always made it.                                          *)
FinalizeMessageOnly ==
  /\ pc = "finMsg"
  /\ msgStatus' = verdict
  /\ pc' = "finStatus"
  /\ UNCHANGED << runState, runStatus, lastEventSeq, stale, runEvents, msgEvents >>
  /\ UNCHANGED << exec, token, seen, recovery >>

FinalizeMessage ==
  /\ pc = "finMsg"
  /\ msgStatus' = verdict
  /\ pc' = IF verdict = "completed" THEN "finState" ELSE "finStatus"
  /\ UNCHANGED << runState, runStatus, lastEventSeq, stale, runEvents, msgEvents >>
  /\ UNCHANGED << exec, token, seen, recovery >>

(* From Checkpointing, whatever the run's state is by now. *)
FinalizeState ==
  /\ pc = "finState"
  /\ CanSetState("checkpointing", "checkpoint_persisted")
  /\ SetStateValidated("checkpointing", "checkpoint_persisted")
  /\ pc' = "finStatus"
  /\ UNCHANGED << runStatus, msgStatus, msgEvents >>
  /\ UNCHANGED << exec, token, seen, recovery >>

FinalizeStateFails ==
  /\ pc = "finState"
  /\ ~ CanSetState("checkpointing", "checkpoint_persisted")
  /\ GoFail
  /\ UNCHANGED << store, token, seen, recovery >>

FinalizeStatus ==
  /\ pc = "finStatus"
  /\ runStatus' = verdict
  /\ pc' = "announce"
  /\ UNCHANGED << runState, lastEventSeq, stale, runEvents, msgStatus, msgEvents >>
  /\ UNCHANGED << exec, token, seen, recovery >>

(* Err(_) from the executor: the window is told, the database is not. *)
Announce ==
  /\ pc \in {"announce", "err"}
  /\ uiStatus' = verdict
  /\ pc' = "ended"
  /\ UNCHANGED << store, exec, token, executed, approval, emitted, recovery >>

(* Every `?` of the executor on a storage call; in the five init steps it  *)
(* is handled like a rejection, in send_message the caller gets it.        *)
StorageError ==
  /\ pc \in WritingPcs
  /\ pc = "recv" => ~ token
  /\ \/ /\ pc \in SetupPcs
        /\ pc' = "refused"
        /\ verdict' = verdict
     \/ /\ pc = "init"
        /\ pc' = "initFail"
        /\ verdict' = verdict
     \/ /\ pc \in ExecutorPcs
        /\ pc' = "err"
        /\ verdict' = "failed"
  /\ UNCHANGED << cur, steps, pendingCall, walk, ev, rejSeq >>
  /\ UNCHANGED << store, token, seen, recovery >>

ExecutorStep ==
  \/ LoadRun \/ LoadFails \/ TopCancelled \/ BudgetExceeded \/ OpenStream
  \/ RecvCancelled \/ Watchdog
  \/ EmitAndAsk \/ WalkStep \/ WalkStepFails \/ LinkEvent
  \/ HandleContinue \/ HandleDone \/ HandleFinal
  \/ RejectReadSeq \/ RejectInsert \/ RejectInsertFails
  \/ RejectSetState \/ RejectLink
  \/ DrainedCancelled \/ DrainedTool \/ DrainedCompleted
  \/ ToolUnknown \/ ToolNeedsApproval \/ ToolExecute \/ ToolPersist
  \/ ToolEmit \/ ToolDone \/ ToolDoneFails
  \/ FinalizeMessage \/ FinalizeState \/ FinalizeStateFails \/ FinalizeStatus
  \/ Announce

OrchestratorStep ==
  \/ RefuseMessage \/ RegisterRun \/ OpenMessage \/ StartRun
  \/ InitStep \/ InitStepFails \/ InitFail

ProviderStep == StreamEnds \/ \E e \in StreamEvents : PersistEvent(e)

--------------------------------------------------------------------------------
(* What happens to the run from outside.                                   *)

(* cancel_run fires the token, if the registry still holds it. *)
CancelRun ==
  /\ pc \in RegisteredPcs
  /\ ~ token
  /\ token' = TRUE
  /\ UNCHANGED << store, pc, exec, seen, recovery >>

(* 120 seconds pass without a write of last_heartbeat_at. *)
GoStale ==
  /\ pc # "idle"
  /\ ~ stale
  /\ stale' = TRUE
  /\ UNCHANGED << runState, runStatus, lastEventSeq, runEvents, msgStatus, msgEvents >>
  /\ UNCHANGED << pc, exec, token, seen, recovery >>

Crash ==
  /\ pc \notin StoppedPcs \cup {"idle"}
  /\ pc' = "dead"
  /\ UNCHANGED << store, exec, token, seen, recovery >>

--------------------------------------------------------------------------------
(* recover_stale_runs, which the setup of the app runs once.  Its reads    *)
(* and writes are separate statements.                                     *)

(* list_stale_heartbeats: the rows are read once, for the whole pass. *)
RecoverList ==
  /\ rec = "off"
  /\ starts < MaxStarts
  /\ pc # "idle"
  /\ SecondInstance \/ pc \in StoppedPcs
  /\ starts' = starts + 1
  /\ rec' = IF stale /\ runState \notin TerminalStates THEN "listed" ELSE "off"
  /\ recFrom' = runState
  /\ UNCHANGED << recSeq, store, pc, exec, token, seen >>

(* Mutant of RecoverRead: recovery trusts the row, not the journal. *)
RecoverReadRow ==
  /\ rec = "listed"
  /\ rec' = "read"
  /\ UNCHANGED << recFrom, recSeq, starts, store, pc, exec, token, seen >>

(* latest_for_run; the fallback is the state of the row that was listed. *)
RecoverRead ==
  /\ rec = "listed"
  /\ rec' = "read"
  /\ recFrom' = LatestTo(recFrom)
  /\ UNCHANGED << recSeq, starts, store, pc, exec, token, seen >>

RecoverMark ==
  /\ rec = "read"
  /\ MarkInterrupted
  /\ rec' = "marked"
  /\ UNCHANGED << lastEventSeq, stale, runEvents, msgStatus, msgEvents >>
  /\ UNCHANGED << recFrom, recSeq, starts, pc, exec, token, seen >>

RecoverReadSeq ==
  /\ rec = "marked"
  /\ rec' = "append"
  /\ recSeq' = MaxSeq + 1
  /\ UNCHANGED << recFrom, starts, store, pc, exec, token, seen >>

RecoverAppend ==
  /\ rec = "append"
  /\ ~ Journaled(recSeq)
  /\ InsertEvent(recSeq, recFrom, "app_crash_recovery", "interrupted")
  /\ rec' = "off"
  /\ UNCHANGED << runState, runStatus, lastEventSeq, stale, msgStatus, msgEvents >>
  /\ UNCHANGED << recFrom, recSeq, starts, pc, exec, token, seen >>

(* A statement fails (the pass logs and goes on to the next run), the      *)
(* number is taken, or the app that recovers crashes.                      *)
RecoverStops ==
  /\ rec # "off"
  /\ rec' = "off"
  /\ UNCHANGED << recFrom, recSeq, starts, store, pc, exec, token, seen >>

RecoveryPass ==
  \/ RecoverList \/ RecoverRead \/ RecoverMark \/ RecoverReadSeq
  \/ RecoverAppend

RunStep ==
  \/ SendMessage
  \/ OrchestratorStep
  \/ ExecutorStep
  \/ ProviderStep
  \/ StorageError
  \/ CancelRun \/ GoStale \/ Crash

Next == RunStep \/ RecoveryPass \/ RecoverStops

Spec == Init /\ [][Next]_vars

(* The executor is a task of a live runtime and its awaits return: SQLite  *)
(* answers, a tool returns, the timer of the watchdog fires.  Nothing is   *)
(* assumed of the provider, the user, crashes or storage errors.           *)
FairSpec == Spec /\ WF_vars(ExecutorStep) /\ WF_vars(OrchestratorStep)

--------------------------------------------------------------------------------
(* Properties.                                                             *)

(* Every variable keeps its type. *)
TypeOK ==
  /\ StoreTypeOK
  /\ pc \in Pcs
  /\ cur \in RunStates
  /\ steps \in Nat
  /\ pendingCall \in BOOLEAN
  /\ walk \in Seq([from : RunStates, kind : RunEventKinds, to : RunStates])
  /\ ev \in StreamEvents \cup {NoEvent}
  /\ verdict \in FinalStatuses \cup {NoVerdict}
  /\ rejSeq \in Nat
  /\ token \in BOOLEAN
  /\ executed \in Nat
  /\ approval \in BOOLEAN
  /\ emitted \in Nat
  /\ uiStatus \in FinalStatuses \cup {NoVerdict}
  /\ rec \in RecPcs
  /\ recFrom \in RunStates
  /\ recSeq \in Nat
  /\ starts \in Nat

(* Two writers number the journal of a run, last_event_seq + 1 (the gate)  *)
(* and MAX(seq) + 1 (append), and neither locks the other out: still the   *)
(* n-th entry has number n, no number is skipped or used twice.            *)
SeqGapless == \A n \in DOMAIN runEvents : runEvents[n].seq = n

(* The journal is one path: every entry leaves the state the previous one  *)
(* reached.  The two writes that name their `from` as a constant may break *)
(* it: finalize_status, and result_valid after a Done{Error} failed the    *)
(* run while a tool call was pending.                                      *)
JournalChained ==
  \A n \in DOMAIN runEvents :
    LET entry == runEvents[n]
        before == IF n = 1 THEN "created" ELSE runEvents[n - 1].to
    IN  \/ entry.from = before
        \/ entry.kind = "checkpoint_persisted"
        \/ entry.kind = "result_valid" /\ before = "failed"

(* runs.state is the target of the last entry, so that recovery may trust  *)
(* the journal, except between the two writes of a rejection and of a      *)
(* recovery (or for good, when the app stops there).                       *)
StateMatchesJournal ==
  \/ runEvents = << >> /\ runState = "created"
  \/ runEvents # << >> /\ runState = Last(runEvents).to
  \/ runEvents # << >> /\ Last(runEvents).kind = "unrecoverable_error"
       /\ pc \in {"rejectState", "err", "ended", "dead"}
  \/ runState = "interrupted" /\ starts > 0

(* Recovery and the next start can trust the journal: it is a path, and    *)
(* the row of the run stands where it ends (recovery.rs, executor.rs).     *)
JournalHonest == JournalChained /\ StateMatchesJournal

(* The four places a result shows agree: runs.status, runs.state,          *)
(* messages.status and what the window was told.  A run is never told      *)
(* completed, nor timed out, to be something else in the database, unless  *)
(* a later recovery wrote it over.                                         *)
VerdictsAgree ==
  /\ runStatus = "completed" => runState = "completed"
  /\ runStatus \in {"completed", "cancelled", "timeout"} => msgStatus = runStatus
  /\ uiStatus \in {"completed", "timeout"} =>
       runStatus = uiStatus \/ (runState = "interrupted" /\ starts > 0)

ToolResults == { n \in DOMAIN msgEvents : msgEvents[n].ev = "tool_result" }

(* A tool that ran has its result in the journal before the model is asked *)
(* to go on, and a tool never runs more often than the budget has steps.   *)
ToolsAccounted ==
  /\ executed <= MaxSteps
  /\ \/ Cardinality(ToolResults) >= executed
     \/ pc \in {"toolRan", "err", "ended", "dead"}

(* The join of the two journals: an event that moved the run points at the *)
(* entry it caused, and later events point at later entries.               *)
EventsLinked ==
  \A n \in DOMAIN msgEvents :
    LET seq == msgEvents[n].runSeq
    IN  seq # 0 =>
          /\ seq \in DOMAIN runEvents
          /\ runEvents[seq].kind \in
               {"unrecoverable_error"} \cup
               CASE msgEvents[n].ev = "delta"     -> {"first_token"}
                 [] msgEvents[n].ev = "tool_call" -> {"tool_call_emitted"}
                 [] msgEvents[n].ev = "done_stop" -> {"checkpoint_persisted"}
                 [] msgEvents[n].ev = "cancelled" -> {"user_cancel"}
                 [] OTHER                         -> {}
          /\ \A m \in 1 .. n - 1 : msgEvents[m].runSeq < seq

(* A cancel that arrives while the executor is between the start of a run  *)
(* and the end of a stream is obeyed: the run does not complete, even if   *)
(* the stream had already delivered its Done.                              *)
CancelObeyed ==
  [](token /\ pc \in {"load", "top"} \cup StreamPcs =>
       [](runStatus # "completed"))

(* A run that reached its executor ends and the window is told how, or the *)
(* app crashed.                                                            *)
RunReported == (pc = "init") ~> (uiStatus # NoVerdict \/ pc = "dead")

(* The journal of a message as the window may rely on it: see EventStream. *)
EventStreamView ==
  INSTANCE EventStream WITH
    Verdicts  <- FinalStatuses,
    logged    <- Len(msgEvents),
    delivered <- emitted,
    verdict   <- IF msgStatus \in FinalStatuses THEN msgStatus ELSE "open"

ImplementsEventStream == EventStreamView!StreamSpec

--------------------------------------------------------------------------------
(* What the documents and comments of the code say and the code does not   *)
(* do, with a run of its own that finds the counterexample.                *)

(* "Estados terminais sao imutaveis" (agent-state-machine.md:146).         *)
TerminalImmutable ==
  [][(runState \in TerminalStates) => (runState' = runState)]_vars

================================================================================
