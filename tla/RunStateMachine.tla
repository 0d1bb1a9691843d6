---------------------------- MODULE RunStateMachine ----------------------------
(***************************************************************************)
(* The state machine of a Run, as crates/agent-engine codes it: the 22     *)
(* states (state.rs), the 25 events (event.rs), the table of 26 structural *)
(* edges, the 5 global edges and the pure function apply_transition        *)
(* (transition.rs).  Every other module that moves a run consults          *)
(* ApplyTransition, as every writer of runs.state in the code does.        *)
(*                                                                         *)
(* StreamTransitions is run_state_for_event of                             *)
(* crates/execution-engine/src/state_mapping.rs: the list of transitions   *)
(* one provider event causes.                                              *)
(***************************************************************************)
EXTENDS Naturals, Sequences

TerminalStates == {"completed", "failed", "cancelled", "interrupted"}

RunStates == TerminalStates \cup
  { "created", "queued", "preparing_context", "retrieving_memory",
    "validating_capabilities", "calling_model", "streaming",
    "waiting_tool_call", "validating_tool_call", "waiting_user_approval",
    "executing_tool", "validating_tool_result", "continuing_model",
    "generating_artifact", "validating_artifact", "checkpointing",
    "retrying", "paused" }

GlobalEvents ==
  { "user_pause", "user_cancel", "watchdog_timeout", "app_crash_recovery",
    "unrecoverable_error" }

RunEventKinds == GlobalEvents \cup
  { "enqueue", "dequeue", "context_ready", "memory_done", "capabilities_ok",
    "first_token", "tool_call_emitted", "message_complete", "validate_call",
    "approval_required", "approval_granted_or_not_required", "tool_returned",
    "result_valid", "next_iteration", "artifact_requested",
    "artifact_emitted", "artifact_valid", "artifact_invalid",
    "checkpoint_persisted", "resume" }

Edge(f, k, t) == [from |-> f, kind |-> k, to |-> t]

(* The table TRANSITIONS, in the order of the source. *)
Transitions ==
  { Edge("created",                 "enqueue",              "queued"),
    Edge("queued",                  "dequeue",              "preparing_context"),
    Edge("preparing_context",       "context_ready",        "retrieving_memory"),
    Edge("retrieving_memory",       "memory_done",          "validating_capabilities"),
    Edge("validating_capabilities", "capabilities_ok",      "calling_model"),
    Edge("calling_model",           "first_token",          "streaming"),
    Edge("streaming",               "tool_call_emitted",    "waiting_tool_call"),
    Edge("streaming",               "message_complete",     "continuing_model"),
    Edge("waiting_tool_call",       "validate_call",        "validating_tool_call"),
    Edge("validating_tool_call",    "approval_required",    "waiting_user_approval"),
    Edge("validating_tool_call",    "approval_granted_or_not_required", "executing_tool"),
    Edge("executing_tool",          "tool_returned",        "validating_tool_result"),
    Edge("validating_tool_result",  "result_valid",         "continuing_model"),
    Edge("continuing_model",        "next_iteration",       "calling_model"),
    Edge("continuing_model",        "artifact_requested",   "generating_artifact"),
    Edge("generating_artifact",     "artifact_emitted",     "validating_artifact"),
    Edge("validating_artifact",     "artifact_valid",       "checkpointing"),
    Edge("validating_artifact",     "artifact_invalid",     "retrying"),
    Edge("checkpointing",           "checkpoint_persisted", "completed"),
    Edge("retrying",                "next_iteration",       "calling_model"),
    Edge("paused",                  "resume",               "preparing_context"),
    Edge("calling_model",           "message_complete",     "continuing_model"),
    Edge("calling_model",           "tool_call_emitted",    "waiting_tool_call"),
    Edge("continuing_model",        "message_complete",     "checkpointing"),
    Edge("continuing_model",        "first_token",          "streaming"),
    Edge("waiting_tool_call",       "result_valid",         "continuing_model") }

(* GLOBAL_TRANSITIONS: the target of each global event. *)
GlobalTarget ==
  [ e \in GlobalEvents |->
      CASE e = "user_pause"          -> "paused"
        [] e = "user_cancel"         -> "cancelled"
        [] e = "watchdog_timeout"    -> "interrupted"
        [] e = "app_crash_recovery"  -> "interrupted"
        [] e = "unrecoverable_error" -> "failed" ]

(* Stands for both TransitionError variants: FromTerminal and              *)
(* InvalidTransition lead every caller to the same path.                   *)
Rejected == "rejected"

(* lookup_structural: the edges of the table that leave f on event k.  *)
Structural(f, k) == { e \in Transitions : e.kind = k /\ e.from = f }

(* apply_transition: terminal states first, then the table, then the       *)
(* global events.                                                          *)
ApplyTransition(f, k) ==
  IF f \in TerminalStates THEN Rejected
  ELSE IF Structural(f, k) # {} THEN (CHOOSE e \in Structural(f, k) : TRUE).to
  ELSE IF k \in GlobalEvents THEN GlobalTarget[k]
  ELSE Rejected

--------------------------------------------------------------------------------

(* The StreamEvents a provider adapter yields, with Done split by          *)
(* StopReason (Stop and Length are handled alike).  ToolResult is absent:  *)
(* no adapter emits it, the executor does.                                 *)
StreamEvents ==
  { "delta", "usage", "tool_call", "done_stop", "done_tool_calls",
    "done_error", "error", "cancelled" }

(* The events an event may cause, one after the other; a list of           *)
(* transitions is the walk that fires them from the executor's state.      *)
Causes(cur, ev) ==
  CASE ev = "delta"     -> IF cur = "streaming" THEN << >> ELSE << "first_token" >>
    [] ev = "tool_call" -> << "tool_call_emitted" >>
    [] ev = "done_stop" ->
         IF ApplyTransition(cur, "message_complete") = "continuing_model"
         THEN << "message_complete", "message_complete", "checkpoint_persisted" >>
         ELSE << "message_complete", "checkpoint_persisted" >>
    [] ev \in {"done_error", "error"} -> << "unrecoverable_error" >>
    [] ev = "cancelled" -> << "user_cancel" >>
    [] OTHER            -> << >>

(* The state the n-th cause of a walk starts from.  A walk has at most     *)
(* three steps, so the composition is written out.                         *)
WalkFrom(cur, ks, n) ==
  IF n = 1 THEN cur
  ELSE IF n = 2 THEN ApplyTransition(cur, ks[1])
  ELSE ApplyTransition(ApplyTransition(cur, ks[1]), ks[2])

(* Mutant of StreamTransitions: a refused step does not refuse the walk. *)
StreamTransitionsLax(cur, ev) ==
  LET ks == Causes(cur, ev)
  IN  [ ok   |-> TRUE,
        walk |-> [ n \in 1 .. Len(ks) |->
                     Edge(WalkFrom(cur, ks, n), ks[n],
                          ApplyTransition(WalkFrom(cur, ks, n), ks[n])) ] ]

(* run_state_for_event: the whole walk, or Rejected as soon as one step of *)
(* it has no edge (nothing is written then).                               *)
StreamTransitions(cur, ev) ==
  LET ks   == Causes(cur, ev)
      walk == [ n \in 1 .. Len(ks) |->
                  Edge(WalkFrom(cur, ks, n), ks[n],
                       ApplyTransition(WalkFrom(cur, ks, n), ks[n])) ]
  IN  [ ok   |-> \A n \in 1 .. Len(ks) : walk[n].to # Rejected,
        walk |-> walk ]

================================================================================
