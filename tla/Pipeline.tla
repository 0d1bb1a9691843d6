------------------------------- MODULE Pipeline --------------------------------
(***************************************************************************)
(* One sequential pipeline: MultimodelOrchestrator of execution-engine     *)
(* (pipeline_orchestrator.rs) over the three multimodel tables of storage  *)
(* (multimodel.rs).  A pipeline is a task that takes its stages in order;  *)
(* pc is the await it is at.  The user's cancel, the crash of the app and  *)
(* a failing SQL statement fall between any two steps.                     *)
(*                                                                         *)
(* The executor of a stage is a RunLifecycle run, seen here only through   *)
(* what it returns.  A text is a sequence of words; its hash is the text   *)
(* itself, so two texts never collide.  input_hash, tools_used_json and    *)
(* the timestamps are left out: no code reads them back.                   *)
(***************************************************************************)
EXTENDS Integers, Sequences, FiniteSetsExt

CONSTANTS
  NumStages, (* stages of the pipeline                                     *)
  Requests,  (* the inputs of its stages a pipeline is started with        *)
  Outputs,   (* the texts a model answers with                             *)
  Stops,     (* how an executor returns Ok without having completed        *)
  Costs      (* bound: the costs of one stage, in microcents               *)

Empty == << >>

ASSUME PipelineAssumption ==
  /\ NumStages \in Nat \ {0}
  /\ Requests # {} /\ \A r \in Requests : DOMAIN r = 1 .. NumStages
  /\ Empty \in Outputs
  /\ Stops \subseteq {"failed", "cancelled", "interrupted"}
  /\ Costs # {} /\ Costs \subseteq Nat

Stages == 1 .. NumStages

VARIABLES
  specs,      (* the input of every StageSpec                              *)
  row,        (* multimodel_runs.state, "none" before create_run           *)
  total,      (* multimodel_runs.total_cost_microcents                     *)
  stages,     (* multimodel_stages, by seq                                 *)
  artifacts,  (* multimodel_artifacts, by the seq of their stage           *)
  registered, (* cancel_tokens has an entry for the pipeline               *)
  token,      (* the CancellationToken of the pipeline is cancelled        *)
  pc,         (* where the task is                                         *)
  idx,        (* seq of the stage being processed                          *)
  prev,       (* prev_output                                               *)
  results,    (* results.len()                                             *)
  cancelled,  (* the loop has seen the cancel                              *)
  linked,     (* the executor of the stage holds the pipeline's token      *)
  outcome,    (* what that executor returned: its state, text and cost     *)
  error,      (* run_pipeline_loop returned Err                            *)
  hit         (* the stage whose executor the cancel found listening, or 0 *)

table == << row, total, stages, artifacts >>
loop == << idx, prev, results, cancelled, linked, outcome >>
vars == << specs, table, registered, token, pc, loop, error, hit >>

FinalRows == {"completed", "partially_completed", "failed", "cancelled"}
Verdicts == {"completed", "failed", "cancelled", "interrupted"}

(* A row of multimodel_stages.  input is the text the stage was asked, of  *)
(* which the code keeps no copy; output stands for output_hash; artifact   *)
(* is the seq of the stage that made the artifact, 0 for none.             *)
Row(state, input, output, artifact, cost) ==
  [ state |-> state, input |-> input, output |-> output,
    artifact |-> artifact, cost |-> cost ]

NoRow == Row("none", Empty, Empty, 0, 0)
NoOutcome == [ state |-> "none", output |-> Empty, cost |-> 0 ]

(* What a stage is asked: its own input after the previous output, if any. *)
StageInput(before, own) ==
  IF before = Empty THEN own ELSE <<"previous">> \o before \o <<"turn">> \o own

Input == StageInput(prev, specs[idx])

(* list_reusable_stages: completed stages whose output is this input; the  *)
(* first of them by seq lends its artifact.  An empty text has no hash.    *)
Reusable == { i \in Stages : /\ stages[i].state = "completed"
                             /\ stages[i].output = Input }

ReusedArtifact ==
  IF Input = Empty \/ Reusable = {} THEN 0 ELSE stages[Min(Reusable)].artifact

Init ==
  /\ specs \in Requests
  /\ row = "none" /\ total = 0
  /\ stages = [i \in Stages |-> NoRow]
  /\ artifacts = [i \in Stages |-> Empty]
  /\ registered = FALSE /\ token = FALSE
  /\ pc = "idle" /\ idx = 1 /\ prev = Empty /\ results = 0
  /\ cancelled = FALSE /\ linked = FALSE /\ outcome = NoOutcome
  /\ error = FALSE /\ hit = 0

--------------------------------------------------------------------------------
(* start_pipeline and the head of the loop.                                *)

StartPipeline ==
  /\ pc = "idle"
  /\ pc' = "head"
  /\ row' = "running"
  /\ registered' = TRUE
  /\ UNCHANGED << specs, total, stages, artifacts, token, loop, error, hit >>

Advance == idx' = idx + 1 /\ pc' = IF idx = NumStages THEN "finish" ELSE "head"

(* The cancel is looked for through the map.  A stage found cancelled gets *)
(* its row without a call of the model.                                    *)
StageHead ==
  /\ pc = "head"
  /\ cancelled' = (cancelled \/ (registered /\ token))
  /\ IF cancelled'
       THEN /\ stages' = [stages EXCEPT ![idx] = Row("cancelled", Empty, Empty, 0, 0)]
            /\ results' = results + 1
            /\ Advance
       ELSE /\ pc' = "lookup"
            /\ UNCHANGED << stages, results, idx >>
  /\ UNCHANGED << specs, row, total, artifacts, registered, token, prev >>
  /\ UNCHANGED << linked, outcome, error, hit >>

(* Mutants: the reused row gets the previous hash, the reused text is      *)
(* handed to the next stage.                                               *)
ReuseStageOldHash ==
  /\ pc = "lookup"
  /\ ReusedArtifact # 0
  /\ stages' = [stages EXCEPT ![idx] = Row("completed", Input, prev, ReusedArtifact, 0)]
  /\ results' = results + 1
  /\ Advance
  /\ UNCHANGED << specs, row, total, artifacts, registered, token >>
  /\ UNCHANGED << prev, cancelled, linked, outcome, error, hit >>

ReuseStageFeedsNext ==
  /\ pc = "lookup"
  /\ ReusedArtifact # 0
  /\ stages' = [stages EXCEPT ![idx] = Row("completed", Input, Input, ReusedArtifact, 0)]
  /\ results' = results + 1
  /\ Advance
  /\ prev' = Input
  /\ UNCHANGED << specs, row, total, artifacts, registered, token >>
  /\ UNCHANGED << cancelled, linked, outcome, error, hit >>

(* Reuse: a completed stage already produced this very input.  The stage   *)
(* is free, and prev stays as it is.                                       *)
ReuseStage ==
  /\ pc = "lookup"
  /\ ReusedArtifact # 0
  /\ stages' = [stages EXCEPT ![idx] = Row("completed", Input, Input, ReusedArtifact, 0)]
  /\ results' = results + 1
  /\ Advance
  /\ UNCHANGED << specs, row, total, artifacts, registered, token >>
  /\ UNCHANGED << prev, cancelled, linked, outcome, error, hit >>

NotReusable ==
  /\ pc = "lookup"
  /\ ReusedArtifact = 0
  /\ pc' = "create"
  /\ UNCHANGED << specs, table, registered, token, loop, error, hit >>

--------------------------------------------------------------------------------
(* run_one_stage.                                                          *)

CreateStage ==
  /\ pc = "create"
  /\ pc' = "prepare"
  /\ stages' = [stages EXCEPT ![idx] = Row("pending", Input, Empty, 0, 0)]
  /\ UNCHANGED << specs, row, total, artifacts, registered, token, loop, error, hit >>

(* Mutant: the executor always gets a token of its own. *)
PrepareRunUnlinked ==
  /\ pc = "prepare"
  /\ pc' = "running"
  /\ linked' = FALSE
  /\ UNCHANGED << specs, table, registered, token, idx, prev, results, cancelled >>
  /\ UNCHANGED << outcome, error, hit >>

(* The message, the run and its five edges are written, the adapter and    *)
(* the model are found; the executor takes the token of the map, or a new  *)
(* one when the map has none.                                              *)
PrepareRun ==
  /\ pc = "prepare"
  /\ pc' = "running"
  /\ linked' = registered
  /\ UNCHANGED << specs, table, registered, token, idx, prev, results, cancelled >>
  /\ UNCHANGED << outcome, error, hit >>

(* The task leaves the loop with Err. *)
Abort == pc' = "cleanup" /\ error' = TRUE

(* Mutant: a failure rolls the whole pipeline back. *)
FailedRowRollsBack ==
  [i \in Stages |-> IF i <= idx THEN Row("failed", stages[i].input, Empty, 0, -1)
                    ELSE stages[i]]

(* Cost -1 is the mark of a stage that did not run. *)
FailedRow == [stages EXCEPT ![idx] = Row("failed", @.input, Empty, 0, -1)]

(* No adapter or no model: the row of the stage is marked best effort. *)
AdapterMissing ==
  /\ pc = "prepare"
  /\ Abort
  /\ stages' \in {stages, FailedRow}
  /\ UNCHANGED << specs, row, total, artifacts, registered, token, loop, hit >>

(* The executor has looked at its token for the last time and knows how    *)
(* the run ends: completed only if the token was not cancelled by then.  A *)
(* run also ends cancelled when a tool waits for approval.                 *)
ExecutorDecides ==
  /\ pc = "running"
  /\ pc' = "closing"
  /\ \E state \in {"completed"} \cup Stops, output \in Outputs, cost \in Costs :
       /\ state = "completed" => ~ (linked /\ token)
       /\ outcome' = [ state |-> state, output |-> output, cost |-> cost ]
  /\ UNCHANGED << specs, table, registered, token, idx, prev, results, cancelled >>
  /\ UNCHANGED << linked, error, hit >>

(* The run is written, and the executor returns Ok with what it decided,   *)
(* whatever happened to the token since.                                   *)
ExecutorReturns ==
  /\ pc = "closing"
  /\ pc' = "artifact"
  /\ UNCHANGED << specs, table, registered, token, loop, error, hit >>

(* The executor returns Err, from its rounds or from its last writes. *)
ExecutorFails ==
  /\ pc \in {"running", "closing"}
  /\ Abort
  /\ stages' \in {stages, FailedRow}
  /\ UNCHANGED << specs, row, total, artifacts, registered, token, loop, hit >>

(* The text is read back from the message; an unreadable one counts as     *)
(* empty.  A text that is not empty becomes an artifact.                   *)
CreateArtifact ==
  /\ pc = "artifact"
  /\ pc' = "complete"
  /\ \E text \in {outcome.output, Empty} :
       /\ outcome' = [outcome EXCEPT !.output = text]
       /\ artifacts' = [artifacts EXCEPT ![idx] = text]
  /\ UNCHANGED << specs, row, total, stages, registered, token >>
  /\ UNCHANGED << idx, prev, results, cancelled, linked, error, hit >>

(* Mutant: the row of a stage that did not complete stays pending. *)
CompleteStageIfCompleted ==
  /\ pc = "complete"
  /\ pc' = "addCost"
  /\ stages' = IF outcome.state # "completed" THEN stages
               ELSE [stages EXCEPT ![idx] =
                       Row(outcome.state, @.input, outcome.output,
                           IF outcome.output = Empty THEN 0 ELSE idx, outcome.cost)]
  /\ UNCHANGED << specs, row, total, artifacts, registered, token, loop, error, hit >>

CompleteStage ==
  /\ pc = "complete"
  /\ pc' = "addCost"
  /\ stages' = [stages EXCEPT ![idx] =
       Row(outcome.state, @.input, outcome.output,
           IF outcome.output = Empty THEN 0 ELSE idx, outcome.cost)]
  /\ UNCHANGED << specs, row, total, artifacts, registered, token, loop, error, hit >>

(* Mutant: only completed stages are paid for. *)
AddCostIfCompleted ==
  /\ pc = "addCost"
  /\ total' = total + (IF outcome.state = "completed" THEN outcome.cost ELSE 0)
  /\ prev' = outcome.output
  /\ results' = results + 1
  /\ outcome' = NoOutcome
  /\ linked' = FALSE
  /\ Advance
  /\ UNCHANGED << specs, row, stages, artifacts, registered, token >>
  /\ UNCHANGED << cancelled, error, hit >>

(* Mutant: the result of a stage is pushed twice. *)
AddCostTwice ==
  /\ pc = "addCost"
  /\ total' = total + outcome.cost
  /\ prev' = outcome.output
  /\ results' = results + 2
  /\ outcome' = NoOutcome
  /\ linked' = FALSE
  /\ Advance
  /\ UNCHANGED << specs, row, stages, artifacts, registered, token >>
  /\ UNCHANGED << cancelled, error, hit >>

(* Back in the loop, whatever the state of the stage. *)
AddCost ==
  /\ pc = "addCost"
  /\ total' = total + outcome.cost
  /\ prev' = outcome.output
  /\ results' = results + 1
  /\ outcome' = NoOutcome
  /\ linked' = FALSE
  /\ Advance
  /\ UNCHANGED << specs, row, stages, artifacts, registered, token >>
  /\ UNCHANGED << cancelled, error, hit >>

--------------------------------------------------------------------------------
(* The end of the task.                                                    *)

FinalState ==
  IF cancelled THEN "cancelled"
  ELSE IF results = NumStages THEN "completed" ELSE "partially_completed"

FinishLoop ==
  /\ pc = "finish"
  /\ pc' = "cleanup"
  /\ row' = FinalState
  /\ UNCHANGED << specs, total, stages, artifacts, registered, token, loop, error, hit >>

(* Mutants: an entry the cancel has taken is waited for; the failure       *)
(* handler runs after a success too; an error leaves the entry behind.     *)
CleanupExpectsEntry ==
  /\ pc = "cleanup"
  /\ registered
  /\ pc' = IF error THEN "setFailed" ELSE "ended"
  /\ registered' = FALSE
  /\ UNCHANGED << specs, table, token, loop, error, hit >>

CleanupFailsAlways ==
  /\ pc = "cleanup"
  /\ pc' = "setFailed"
  /\ registered' = FALSE
  /\ UNCHANGED << specs, table, token, loop, error, hit >>

CleanupOnlyOnOk ==
  /\ pc = "cleanup"
  /\ pc' = IF error THEN "setFailed" ELSE "ended"
  /\ registered' = (registered /\ error)
  /\ UNCHANGED << specs, table, token, loop, error, hit >>

Cleanup ==
  /\ pc = "cleanup"
  /\ pc' = IF error THEN "setFailed" ELSE "ended"
  /\ registered' = FALSE
  /\ UNCHANGED << specs, table, token, loop, error, hit >>

(* Best effort: the row may stay running. *)
SetFailed ==
  /\ pc = "setFailed"
  /\ pc' = "ended"
  /\ row' \in {row, "failed"}
  /\ UNCHANGED << specs, total, stages, artifacts, registered, token, loop, error, hit >>

(* An await of the loop on SQLite returns Err. *)
StorageError ==
  /\ pc \in {"lookup", "create", "prepare", "artifact", "complete", "addCost", "finish"}
  /\ Abort
  /\ UNCHANGED << specs, table, registered, token, loop, hit >>

(* cancel_pipeline: the entry leaves the map, then its token is cancelled. *)
(* An executor that has decided no longer listens.                         *)
CancelPipeline ==
  /\ registered
  /\ registered' = FALSE
  /\ token' = TRUE
  /\ hit' = IF pc = "running" THEN idx ELSE 0
  /\ UNCHANGED << specs, table, pc, loop, error >>

Crash ==
  /\ pc \notin {"idle", "ended", "dead"}
  /\ pc' = "dead"
  /\ registered' = FALSE
  /\ UNCHANGED << specs, table, token, loop, error, hit >>

Task ==
  \/ StageHead \/ ReuseStage \/ NotReusable
  \/ CreateStage \/ PrepareRun \/ AdapterMissing
  \/ ExecutorDecides \/ ExecutorReturns \/ ExecutorFails
  \/ CreateArtifact \/ CompleteStage \/ AddCost
  \/ FinishLoop \/ Cleanup \/ SetFailed

Next == StartPipeline \/ Task \/ StorageError \/ CancelPipeline \/ Crash

(* The runtime polls the spawned task; the executor of a stage ends, as    *)
(* RunLifecycle shows of its watchdog.  Users and failures owe nothing.    *)
Spec == Init /\ [][Next]_vars /\ WF_vars(Task)

--------------------------------------------------------------------------------
(* Properties.                                                             *)

Pcs == {"idle", "head", "lookup", "create", "prepare", "running", "closing", "artifact",
        "complete", "addCost", "finish", "cleanup", "setFailed", "ended", "dead"}

(* The rows of the three tables and the task have their types. *)
TypeOK ==
  /\ specs \in Requests
  /\ row \in {"none", "running"} \cup FinalRows
  /\ total \in Nat
  /\ \A i \in Stages :
       /\ stages[i].state \in {"none", "pending"} \cup Verdicts
       /\ stages[i].artifact \in 0 .. NumStages
       /\ stages[i].cost \in {-1, 0} \cup Costs
       /\ artifacts[i] \in Outputs
  /\ pc \in Pcs
  /\ idx \in 1 .. NumStages + 1 /\ results \in 0 .. NumStages
  /\ prev \in Outputs /\ outcome.state \in {"none"} \cup Verdicts
  /\ {registered, token, cancelled, linked, error} \subseteq BOOLEAN
  /\ hit \in 0 .. NumStages

Settled(i) == stages[i].state \in Verdicts

(* The rows of the stages are a prefix of the list and only the last may   *)
(* be pending: no stage starts before the one before it is settled, and a  *)
(* pipeline that completed has settled them all.                           *)
StagesInOrder ==
  /\ \A i, j \in Stages : i < j /\ stages[j].state # "none" => Settled(i)
  /\ row = "completed" => \A i \in Stages : Settled(i)

(* The artifact of a stage holds the text whose hash its row records, for  *)
(* a stage that reuses the artifact of another one too.                    *)
ArtifactMatches ==
  \A i \in Stages :
    /\ stages[i].artifact # 0 =>
         artifacts[stages[i].artifact] = stages[i].output
    /\ stages[i].output # Empty => stages[i].artifact # 0

Executed(i) == stages[i].state # "none" /\ stages[i].artifact \in {0, i}

(* A stage that calls its model is asked its own input after the output    *)
(* recorded for the last stage before it that called one.                  *)
InputChained ==
  \A i \in Stages : Executed(i) =>
    LET before == { j \in 1 .. i - 1 : Executed(j) }
    IN  stages[i].input =
          StageInput(IF before = {} THEN Empty ELSE stages[Max(before)].output,
                     specs[i])

StageCost(i) == IF stages[i].cost < 0 THEN 0 ELSE stages[i].cost

(* What the stages cost together. *)
Paid(cost) ==
  LET paid[n \in 0 .. NumStages] == IF n = 0 THEN 0 ELSE paid[n - 1] + cost[n]
  IN  paid[NumStages]

(* The cost of the pipeline is the sum over its stages once it completed,  *)
(* and misses at most the one that was running when the task stopped.      *)
CostAccounted ==
  LET paid == Paid([i \in Stages |-> StageCost(i)])
  IN  \/ total = paid
      \/ row # "completed" /\ idx \in Stages /\ total + StageCost(idx) = paid

(* The task is where cancel_pipeline can find it. *)
Alive == pc \notin {"idle", "setFailed", "ended", "dead"}

(* cancel_pipeline answers Ok exactly while the task runs and nobody has   *)
(* cancelled it: the map leaks no entry and loses none.                    *)
EntryTracksTask == registered <=> Alive /\ ~ token

(* The tables of a pipeline and the map of running tasks are of one        *)
(* opinion at every await of run_pipeline.                                 *)
PipelineInv ==
  /\ TypeOK
  /\ StagesInOrder /\ ArtifactMatches /\ InputChained
  /\ CostAccounted /\ EntryTracksTask

(* A cancel that finds the executor of a stage still listening reaches it, *)
(* through the map and the token: that stage is never recorded as          *)
(* completed.  One that comes while the executor writes how the run ended  *)
(* (executor.rs, after the last is_cancelled) leaves the stage completed.  *)
CancelReachesStage == hit # 0 => stages[hit].state # "completed"

(* The state of a finished pipeline is never rewritten. *)
FinalRowStable == [][(row \in FinalRows) => UNCHANGED row]_vars

(* A settled stage is never touched again: neither a later failure nor a   *)
(* cancel rolls it back.                                                   *)
SettledStageStable ==
  [][\A i \in Stages : Settled(i) => stages'[i] = stages[i]]_vars

(* What is settled stays, whatever fails afterwards or is cancelled. *)
SettledStable == FinalRowStable /\ SettledStageStable

(* A pipeline that started ends.  Unless the app died or an error could    *)
(* not be recorded, its row tells how.                                     *)
PipelineEnds ==
  (row = "running") ~>
    (pc = "dead" \/ (pc = "ended" /\ (error \/ row \in FinalRows)))

================================================================================
