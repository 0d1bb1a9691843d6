------------------------------ MODULE EventStream ------------------------------
(***************************************************************************)
(* What the window is promised about the answer it is showing (section     *)
(* "Journal de eventos" of docs/architecture/chat-and-providers.md): the   *)
(* journal only grows, an event is in the journal before the window gets   *)
(* it, the window gets every event in order, and the message is closed at  *)
(* most once, with a final verdict, after its last event.                  *)
(*                                                                         *)
(* The implementation is RunLifecycle (executor, storage, crash and        *)
(* recovery); see EventStreamView there for the refinement mapping.        *)
(***************************************************************************)
EXTENDS Naturals

CONSTANT Verdicts    (* the ways a message may be closed *)

VARIABLES
  logged,      (* number of events in the journal            *)
  delivered,   (* number of events the window has been sent  *)
  verdict      (* "open", or the final status of the message *)

streamVars == << logged, delivered, verdict >>

Open == "open"

StreamTypeOK ==
  /\ logged \in Nat
  /\ delivered \in 0 .. logged
  /\ verdict \in Verdicts \cup {Open}

StreamInit == logged = 0 /\ delivered = 0 /\ verdict = Open

Log ==
  /\ verdict = Open
  /\ delivered = logged
  /\ logged' = logged + 1
  /\ UNCHANGED << delivered, verdict >>

Deliver ==
  /\ delivered < logged
  /\ delivered' = delivered + 1
  /\ UNCHANGED << logged, verdict >>

Close ==
  /\ verdict = Open
  /\ delivered = logged
  /\ verdict' \in Verdicts
  /\ UNCHANGED << logged, delivered >>

StreamNext == Log \/ Deliver \/ Close

StreamSpec == StreamInit /\ [][StreamNext]_streamVars
================================================================================
