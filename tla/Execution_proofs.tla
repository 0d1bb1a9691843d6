-------------------------- MODULE Execution_proofs --------------------------
(***************************************************************************)
(* What Pipeline promises, proved for any number of stages, any texts and  *)
(* any costs; and what ProviderStream promises of the answer that the      *)
(* executor of a run, or of a stage, accumulates, for any script, any cuts *)
(* and any room in the channel.                                            *)
(*                                                                         *)
(* The pipeline.  The stages before idx are settled, the ones after it do  *)
(* not exist, and the row at idx is what pc says it is (Position); the     *)
(* rest of IndInv says what the task holds between two writes: the text it *)
(* hands on (Chained), the cost a row has and the total does not yet       *)
(* (CostLedger), the token its executor listens to (Listening).  What a    *)
(* recursive definition computes is proved by induction on the set of the  *)
(* lengths for which it is right.                                          *)
(*                                                                         *)
(* The round.  What is on its way, in the channel and in the task's hands, *)
(* is the server's bytes without a gap (ItemsInv); the parser's buffer is  *)
(* what arrived behind the last event that was parsed, so that it finds    *)
(* that event's end and no other (Holds); and the text of the answer, with *)
(* the events that are ready, is what the events parsed so far say (Kept). *)
(***************************************************************************)
EXTENDS Pipeline, ProviderStream, FiniteSetTheorems, SequenceTheorems, TLAPS,
        WellFoundedInduction

(* A set of numbers that has 0 and every successor has them all.           *)
LEMMA Induction ==
  ASSUME NEW S \in SUBSET Nat, 0 \in S, \A n \in S : n + 1 \in S
  PROVE  S = Nat
<1> DEFINE T == Nat \ S
<1> SUFFICES ASSUME T # {} PROVE FALSE
  OBVIOUS
<1>1. IsWellFoundedOn(OpToRel(<, Nat), Nat)
  BY NatLessThanWellFounded
<1>2. PICK x \in T : \A y \in T : ~ (<<y, x>> \in OpToRel(<, Nat))
  <2>1. T \subseteq Nat
    OBVIOUS
  <2> HIDE DEF T
  <2> QED
    BY <1>1, <2>1, WFMin
<1>3. x - 1 \in Nat /\ x - 1 \in T
  OBVIOUS
<1>4. <<x - 1, x>> \in OpToRel(<, Nat)
  BY <1>3 DEF OpToRel
<1> QED
  BY <1>2, <1>3, <1>4

(* The greatest and the least of a set of stages are in it. *)
LEMMA MaxIn ==
  ASSUME NEW n \in Nat, NEW T \in SUBSET (1 .. n), T # {}
  PROVE  Max(T) \in T /\ \A y \in T : y <= Max(T)
<1> DEFINE S == {k \in Nat : \A R \in SUBSET (1 .. k) : R # {} => \E x \in R : \A y \in R : x >= y}
<1>1. 0 \in S
  <2>1. \A R \in SUBSET (1 .. 0) : R = {}
    <3>1. 1 .. 0 = {}
      OBVIOUS
    <3> QED
      BY <3>1
  <2> QED
    BY <2>1
<1>2. ASSUME NEW k \in S PROVE k + 1 \in S
  <2> SUFFICES ASSUME NEW R \in SUBSET (1 .. k + 1), R # {} PROVE \E x \in R : \A y \in R : x >= y
    OBVIOUS
  <2>1. CASE k + 1 \in R
    BY <2>1
  <2>2. CASE k + 1 \notin R
    <3>1. R \in SUBSET (1 .. k)
      BY <2>2
    <3> QED
      BY <3>1
  <2> QED
    BY <2>1, <2>2
<1>3. S = Nat
  <2> HIDE DEF S
  <2>1. S \in SUBSET Nat
    BY DEF S
  <2> QED
    BY <1>1, <1>2, <2>1, Induction
<1>4. \E x \in T : \A y \in T : x >= y
  BY <1>3
<1>5. Max(T) \in T /\ \A y \in T : Max(T) >= y
  BY <1>4 DEF Max
<1> QED
  BY <1>5

(* The same of the least one. *)
LEMMA MinIn ==
  ASSUME NEW n \in Nat, NEW T \in SUBSET (1 .. n), T # {}
  PROVE  Min(T) \in T
<1>1. IsWellFoundedOn(OpToRel(<, Nat), Nat)
  BY NatLessThanWellFounded
<1>2. T \subseteq Nat
  OBVIOUS
<1>3. PICK x \in T : \A y \in T : ~ (<<y, x>> \in OpToRel(<, Nat))
  BY <1>1, <1>2, WFMin
<1>4. ASSUME NEW y \in T PROVE x <= y
  <2>1. y < x => <<y, x>> \in OpToRel(<, Nat)
    BY <1>2 DEF OpToRel
  <2>2. ~ (y < x)
    BY <2>1, <1>3
  <2> QED
    BY <1>2, <2>2
<1> QED
  BY <1>4 DEF Min

(* One step of the recursion in Paid. *)
PaidStep(cost, paid, n) == IF n = 0 THEN 0 ELSE paid[n - 1] + cost[n]

(* The recursion has a solution up to every length. *)
LEMMA PaidDefined ==
  ASSUME NEW cost, NEW n \in Nat
  PROVE  \E f : f = [i \in 0 .. n |-> PaidStep(cost, f, i)]
<1> DEFINE Solved(k) == \E f : f = [i \in 0 .. k |-> PaidStep(cost, f, i)]
           S == {k \in Nat : Solved(k)}
<1>1. 0 \in S
  <2> DEFINE f == [i \in 0 .. 0 |-> 0]
  <2>1. f = [i \in 0 .. 0 |-> PaidStep(cost, f, i)]
    BY DEF PaidStep
  <2> QED
    BY <2>1
<1>2. ASSUME NEW k \in S PROVE k + 1 \in S
  <2>1. PICK f : f = [i \in 0 .. k |-> PaidStep(cost, f, i)]
    OBVIOUS
  <2> DEFINE g == [i \in 0 .. k + 1 |-> IF i = k + 1 THEN PaidStep(cost, f, i) ELSE f[i]]
  <2>2. ASSUME NEW i \in 0 .. k + 1 PROVE g[i] = PaidStep(cost, g, i)
    <3>1. CASE i = 0
      BY <2>1, <3>1 DEF PaidStep
    <3>2. CASE i # 0
      <4>1. i - 1 \in 0 .. k /\ i - 1 # k + 1
        BY <3>2
      <4>2. g[i - 1] = f[i - 1]
        BY <4>1
      <4>3. PaidStep(cost, g, i) = PaidStep(cost, f, i)
        BY <4>2, <3>2 DEF PaidStep
      <4>4. g[i] = PaidStep(cost, f, i)
        BY <2>1
      <4> QED
        BY <4>3, <4>4
    <3> QED
      BY <3>1, <3>2
  <2>3. g = [i \in 0 .. k + 1 |-> g[i]]
    OBVIOUS
  <2>4. g = [i \in 0 .. k + 1 |-> PaidStep(cost, g, i)]
    <3> HIDE DEF g
    <3> QED
      BY <2>2, <2>3, Zenon
  <2>5. Solved(k + 1)
    <3> HIDE DEF g
    <3> QED
      BY <2>4, Zenon
  <2>6. k + 1 \in Nat
    OBVIOUS
  <2> HIDE DEF Solved
  <2> QED
    BY <2>5, <2>6
<1>3. S = Nat
  <2> HIDE DEF S
  <2>1. S \in SUBSET Nat
    BY DEF S
  <2> QED
    BY <1>1, <1>2, <2>1, Induction
<1> QED
  BY <1>3

(* Paid is the last of the partial sums. *)
LEMMA PaidSums ==
  ASSUME NEW cost
  PROVE  \E f : /\ f[0] = 0 /\ Paid(cost) = f[NumStages]
                /\ \A n \in Stages : f[n] = f[n - 1] + cost[n]
<1> DEFINE f == CHOOSE f : f = [i \in 0 .. NumStages |-> PaidStep(cost, f, i)]
<1>0. NumStages \in Nat \ {0}
  BY PipelineAssumption
<1>1. f = [i \in 0 .. NumStages |-> PaidStep(cost, f, i)]
  BY <1>0, PaidDefined
<1>2. Paid(cost) = f[NumStages]
  BY DEF Paid, PaidStep
<1> HIDE DEF f
<1>3. f[0] = 0
  BY <1>0, <1>1 DEF PaidStep
<1>4. ASSUME NEW n \in Stages PROVE f[n] = f[n - 1] + cost[n]
  <2>1. n \in 0 .. NumStages /\ n # 0
    BY <1>0 DEF Stages
  <2>2. f[n] = PaidStep(cost, f, n)
    BY <1>1, <2>1, Zenon
  <2> QED
    BY <2>1, <2>2 DEF PaidStep
<1> QED
  BY <1>2, <1>3, <1>4

(* Nothing was paid for stages that cost nothing. *)
LEMMA PaidNothing ==
  ASSUME NEW cost, \A i \in Stages : cost[i] = 0
  PROVE  Paid(cost) = 0
<1>0. NumStages \in Nat \ {0}
  BY PipelineAssumption
<1>1. PICK f : /\ f[0] = 0 /\ Paid(cost) = f[NumStages]
               /\ \A n \in Stages : f[n] = f[n - 1] + cost[n]
  BY PaidSums
<1> DEFINE S == {k \in Nat : k <= NumStages => f[k] = 0}
<1>2. 0 \in S
  BY <1>1
<1>3. ASSUME NEW k \in S PROVE k + 1 \in S
  <2> SUFFICES ASSUME k + 1 <= NumStages PROVE f[k + 1] = 0
    OBVIOUS
  <2>1. k + 1 \in Stages /\ k + 1 - 1 = k
    BY <1>0 DEF Stages
  <2>2. f[k + 1] = f[k + 1 - 1] + cost[k + 1]
    BY <1>1, <2>1
  <2> QED
    BY <1>0, <2>1, <2>2
<1>4. S = Nat
  <2> HIDE DEF S
  <2>1. S \in SUBSET Nat
    BY DEF S
  <2> QED
    BY <1>2, <1>3, <2>1, Induction
<1> QED
  BY <1>0, <1>1, <1>4

(* The cost of one stage changes the sum by as much. *)
LEMMA PaidAdds ==
  ASSUME NEW before, NEW after, NEW k \in Stages,
         \A i \in Stages : before[i] \in Int /\ after[i] \in Int,
         \A i \in Stages \ {k} : after[i] = before[i]
  PROVE  Paid(before) \in Int /\ Paid(after) = Paid(before) + (after[k] - before[k])
<1>0. NumStages \in Nat \ {0} /\ k \in 1 .. NumStages
  BY PipelineAssumption DEF Stages
<1>1. PICK f : /\ f[0] = 0 /\ Paid(before) = f[NumStages]
               /\ \A n \in Stages : f[n] = f[n - 1] + before[n]
  BY PaidSums
<1>2. PICK g : /\ g[0] = 0 /\ Paid(after) = g[NumStages]
               /\ \A n \in Stages : g[n] = g[n - 1] + after[n]
  BY PaidSums
<1> DEFINE gap == after[k] - before[k]
           S == {n \in Nat : n <= NumStages =>
                   f[n] \in Int /\ g[n] = f[n] + (IF n < k THEN 0 ELSE gap)}
<1>3. 0 \in S
  BY <1>0, <1>1, <1>2
<1>4. ASSUME NEW n \in S PROVE n + 1 \in S
  <2> SUFFICES ASSUME n + 1 <= NumStages
               PROVE  f[n + 1] \in Int /\ g[n + 1] = f[n + 1] + (IF n + 1 < k THEN 0 ELSE gap)
    OBVIOUS
  <2>1. n + 1 \in Stages /\ n + 1 - 1 = n
    BY <1>0 DEF Stages
  <2>2. f[n + 1] = f[n] + before[n + 1] /\ g[n + 1] = g[n] + after[n + 1]
    <3>1. f[n + 1] = f[n + 1 - 1] + before[n + 1] /\ g[n + 1] = g[n + 1 - 1] + after[n + 1]
      BY <1>1, <1>2, <2>1
    <3> QED
      BY <2>1, <3>1
  <2>3. f[n] \in Int /\ g[n] = f[n] + (IF n < k THEN 0 ELSE gap)
    BY <1>0, <2>1
  <2>4. before[n + 1] \in Int /\ after[n + 1] \in Int /\ gap \in Int
    BY <2>1
  <2>5. n + 1 # k => after[n + 1] = before[n + 1]
    BY <2>1
  <2>6. n + 1 = k => after[n + 1] = before[n + 1] + gap
    BY <2>4
  <2> HIDE DEF gap
  <2> QED
    BY <1>0, <2>2, <2>3, <2>4, <2>5, <2>6
<1>5. S = Nat
  <2> HIDE DEF S
  <2>1. S \in SUBSET Nat
    BY DEF S
  <2> QED
    BY <1>3, <1>4, <2>1, Induction
<1>6. NumStages \in S /\ ~ (NumStages < k)
  BY <1>0, <1>5
<1> QED
  BY <1>1, <1>2, <1>6

--------------------------------------------------------------------------------
(* The inductive invariant.                                                *)

(* The awaits between the head of the loop and its next turn. *)
LoopPcs == {"head", "lookup", "create", "prepare", "running", "closing", "artifact", "complete",
            "addCost"}

(* The rows and the variables have their types; a stage may only hold the  *)
(* artifact of itself or of a stage before it.                             *)
RowsTyped ==
  /\ DOMAIN stages = Stages
  /\ \A i \in Stages :
       /\ stages[i].state \in {"none", "pending"} \cup Verdicts
       /\ stages[i].output \in Outputs
       /\ stages[i].artifact \in 0 .. i
       /\ stages[i].cost \in {-1, 0} \cup Costs

Typed ==
  /\ specs \in Requests
  /\ row \in {"none", "running"} \cup FinalRows
  /\ total \in Nat
  /\ RowsTyped
  /\ artifacts \in [Stages -> Outputs]
  /\ pc \in Pcs
  /\ prev \in Outputs
  /\ outcome \in [ state : {"none"} \cup Verdicts, output : Outputs, cost : Costs \cup {0} ]
  /\ registered \in BOOLEAN /\ token \in BOOLEAN /\ linked \in BOOLEAN /\ error \in BOOLEAN

(* The loop never sees a cancel: the entry leaves the map before its token *)
(* is cancelled.                                                           *)
Uncancelled == cancelled = FALSE /\ ~ (registered /\ token)

(* The row of the stage being processed, at every await of the loop. *)
Position ==
  /\ idx \in 1 .. NumStages + 1 /\ results = idx - 1
  /\ pc = "idle" => idx = 1 /\ ~ token
  /\ pc \in LoopPcs => idx \in Stages
  /\ pc = "finish" => idx = NumStages + 1
  /\ row = "completed" => idx = NumStages + 1
  /\ \A i \in Stages :
       /\ i < idx => Settled(i)
       /\ i > idx => stages[i] = NoRow
  /\ pc \in {"idle", "head", "lookup", "create"} => stages[idx] = NoRow
  /\ pc \in {"prepare", "running", "closing", "artifact", "complete"} =>
       /\ stages[idx].state = "pending"
       /\ stages[idx].output = Empty /\ stages[idx].artifact = 0 /\ stages[idx].cost = 0
       /\ stages[idx].input = Input
  /\ pc = "addCost" =>
       /\ stages[idx].state = outcome.state /\ stages[idx].output = outcome.output
       /\ stages[idx].artifact \in {0, idx} /\ stages[idx].cost = outcome.cost
       /\ Settled(idx)

(* What the executor decided, and the artifact made of it. *)
Returned ==
  /\ pc \in {"closing", "artifact", "complete", "addCost"} =>
       outcome.state \in Verdicts /\ outcome.cost \in Costs
  /\ pc = "complete" => artifacts[idx] = outcome.output

(* The row of the pipeline is final once the loop has ended well. *)
RowTracksLoop ==
  /\ pc = "idle" => row = "none" /\ ~ error
  /\ pc \in LoopPcs \cup {"finish"} => row = "running" /\ ~ error
  /\ pc = "cleanup" /\ error => row = "running"
  /\ pc = "cleanup" /\ ~ error => row \in FinalRows
  /\ pc = "setFailed" => row = "running"

(* The executor of the running stage listens to the cancel. *)
Listening ==
  /\ pc = "running" /\ registered => linked
  /\ hit # 0 => token
  /\ hit \in 0 .. NumStages /\ hit <= idx
  /\ pc \in {"head", "lookup", "create", "prepare"} => hit < idx
  /\ hit # 0 /\ hit = idx /\ pc = "running" => linked
  /\ hit # 0 /\ hit = idx /\ pc \in {"closing", "artifact", "complete"} => outcome.state # "completed"

(* What the last stage before i that called its model answered. *)
Before(i) == { j \in 1 .. i - 1 : Executed(j) }
LastOutput(i) == IF Before(i) = {} THEN Empty ELSE stages[Max(Before(i))].output

Chained ==
  /\ \A i \in Stages : Executed(i) => stages[i].input = StageInput(LastOutput(i), specs[i])
  /\ pc \in ({"idle"} \cup LoopPcs) \ {"addCost"} =>
       \A i \in Stages : i = idx => prev = LastOutput(i)

(* The cost of a stage is missing between its row and the total. *)
CostLedger ==
  LET paid == Paid([i \in Stages |-> StageCost(i)])
  IN  /\ pc = "addCost" => total + outcome.cost = paid
      /\ pc \in ({"idle", "finish"} \cup LoopPcs) \ {"addCost"} => total = paid
      /\ CostAccounted

(* All of it, with the parts of PipelineInv that are inductive with it. *)
IndInv ==
  /\ Typed /\ Uncancelled /\ Position /\ Returned /\ RowTracksLoop /\ Listening
  /\ ArtifactMatches /\ Chained /\ CostLedger /\ EntryTracksTask /\ CancelReachesStage

--------------------------------------------------------------------------------

(* What the proofs use of the constants. *)
LEMMA StagesNat == NumStages \in Nat \ {0} /\ Stages = 1 .. NumStages
BY PipelineAssumption DEF Stages

(* A cost is a number. *)
LEMMA CostsNat == ASSUME NEW cost \in Costs \cup {0} PROVE cost \in Nat
BY PipelineAssumption

(* A row that does not exist. *)
LEMMA NoRowFields ==
  /\ NoRow.state = "none" /\ NoRow.input = Empty /\ NoRow.output = Empty
  /\ NoRow.artifact = 0 /\ NoRow.cost = 0
BY DEF NoRow, Row

(* Nothing is started yet. *)
LEMMA InitIndInv == Init => IndInv
<1> SUFFICES ASSUME Init PROVE IndInv
  OBVIOUS
<1> USE PipelineAssumption, StagesNat, NoRowFields DEF Init
<1>1. Typed
  <2>1. outcome \in [ state : {"none"} \cup Verdicts, output : Outputs, cost : Costs \cup {0} ]
    <3>1. NoOutcome \in [ state : {"none"} \cup Verdicts, output : Outputs, cost : Costs \cup {0} ]
      BY DEF NoOutcome
    <3> QED
      BY <3>1
  <2>2. DOMAIN stages = Stages /\ \A i \in Stages : stages[i] = NoRow
    OBVIOUS
  <2>3. artifacts \in [Stages -> Outputs]
    OBVIOUS
  <2>4. row \in {"none", "running"} \cup FinalRows /\ pc \in Pcs
    BY DEF Pcs
  <2>5. RowsTyped
    BY <2>2 DEF RowsTyped
  <2> QED
    BY <2>1, <2>2, <2>3, <2>4, <2>5 DEF Typed
<1>2. Uncancelled /\ EntryTracksTask /\ Position /\ Returned /\ RowTracksLoop /\ Listening
  BY DEF Uncancelled, EntryTracksTask, Alive, Position, Returned, RowTracksLoop, Listening, LoopPcs,
         Settled, Verdicts
<1>3. ArtifactMatches /\ CancelReachesStage
  BY DEF ArtifactMatches, CancelReachesStage
<1>4. Chained
  <2>1. \A i \in Stages : ~ Executed(i)
    BY DEF Executed
  <2>2. Before(idx) = {}
    BY DEF Before
  <2> QED
    BY <2>1, <2>2 DEF Chained, LastOutput
<1>5. CostLedger
  <2>1. Paid([i \in Stages |-> StageCost(i)]) = 0
    <3>1. \A j \in Stages : [i \in Stages |-> StageCost(i)][j] = 0
      BY DEF StageCost
    <3> QED
      BY <3>1, PaidNothing
  <2> QED
    BY <2>1 DEF CostLedger, CostAccounted
<1> QED
  BY <1>1, <1>2, <1>3, <1>4, <1>5 DEF IndInv

(* The rows after the row of the stage being processed was written. *)
RowWritten(mark, input, output, artifact, cost) ==
  /\ idx \in Stages /\ DOMAIN stages' = Stages
  /\ stages'[idx].state = mark /\ stages'[idx].input = input
  /\ stages'[idx].output = output /\ stages'[idx].artifact = artifact
  /\ stages'[idx].cost = cost
  /\ \A i \in Stages \ {idx} : stages'[i] = stages[i]

(* In the loop, idx is a stage. *)
LEMMA InLoop ==
  ASSUME IndInv, pc \in LoopPcs
  PROVE  idx \in Stages /\ idx \in 1 .. NumStages /\ Typed /\ DOMAIN stages = Stages
BY StagesNat DEF IndInv, Position, Typed, RowsTyped

(* An assignment to the row at idx leaves the other rows alone. *)
LEMMA RowWrite ==
  ASSUME IndInv, pc \in LoopPcs,
         NEW mark, NEW input, NEW output, NEW artifact, NEW cost,
         stages' = [stages EXCEPT ![idx] = Row(mark, input, output, artifact, cost)]
  PROVE  RowWritten(mark, input, output, artifact, cost)
<1>1. idx \in Stages /\ DOMAIN stages = Stages
  BY InLoop
<1>2. /\ DOMAIN stages' = Stages /\ stages'[idx] = Row(mark, input, output, artifact, cost)
      /\ \A i \in Stages \ {idx} : stages'[i] = stages[i]
  BY <1>1
<1> QED
  BY <1>1, <1>2 DEF RowWritten, Row

(* What each action writes. *)
LEMMA Writes ==
  ASSUME IndInv
  PROVE  /\ ReuseStage => RowWritten("completed", Input, Input, ReusedArtifact, 0)
         /\ CreateStage => RowWritten("pending", Input, Empty, 0, 0)
         /\ AdapterMissing \/ ExecutorFails =>
              \/ stages' = stages
              \/ RowWritten("failed", stages[idx].input, Empty, 0, -1)
         /\ CompleteStage =>
              RowWritten(outcome.state, stages[idx].input, outcome.output,
                         IF outcome.output = Empty THEN 0 ELSE idx, outcome.cost)
<1>1. ReuseStage => RowWritten("completed", Input, Input, ReusedArtifact, 0)
  BY RowWrite DEF ReuseStage, LoopPcs
<1>2. CreateStage => RowWritten("pending", Input, Empty, 0, 0)
  BY RowWrite DEF CreateStage, LoopPcs
<1>3. ASSUME AdapterMissing \/ ExecutorFails
      PROVE  stages' = stages \/ RowWritten("failed", stages[idx].input, Empty, 0, -1)
  <2>1. pc \in LoopPcs
    BY <1>3 DEF AdapterMissing, ExecutorFails, LoopPcs
  <2>2. \/ stages' = stages
        \/ stages' = [stages EXCEPT ![idx] = Row("failed", stages[idx].input, Empty, 0, -1)]
    BY <1>3, <2>1, InLoop DEF AdapterMissing, ExecutorFails, FailedRow
  <2> QED
    BY <2>1, <2>2, RowWrite
<1>4. ASSUME CompleteStage
      PROVE  RowWritten(outcome.state, stages[idx].input, outcome.output,
                        IF outcome.output = Empty THEN 0 ELSE idx, outcome.cost)
  <2>1. pc \in LoopPcs
    BY <1>4 DEF CompleteStage, LoopPcs
  <2> DEFINE made == IF outcome.output = Empty THEN 0 ELSE idx
  <2>2. stages' = [stages EXCEPT ![idx] =
                     Row(outcome.state, stages[idx].input, outcome.output, made, outcome.cost)]
    BY <1>4, <2>1, InLoop DEF CompleteStage
  <2> HIDE DEF made
  <2>3. RowWritten(outcome.state, stages[idx].input, outcome.output, made, outcome.cost)
    BY <2>1, <2>2, RowWrite
  <2> QED
    BY <2>3 DEF made
<1> QED
  BY <1>1, <1>2, <1>3, <1>4

(* The loop never finds the pipeline cancelled. *)
LEMMA HeadGoesOn ==
  ASSUME IndInv, StageHead
  PROVE  /\ pc = "head" /\ pc' = "lookup"
         /\ UNCHANGED << specs, row, total, stages, artifacts, registered, token >>
         /\ UNCHANGED << idx, prev, results, cancelled, linked, outcome, error, hit >>
BY DEF IndInv, Uncancelled, StageHead

(* A reused artifact was made by an earlier stage and has the text asked. *)
LEMMA ReuseFinds ==
  ASSUME IndInv, pc = "lookup", ReusedArtifact # 0
  PROVE  /\ ReusedArtifact \in 1 .. idx - 1 /\ Input \in Outputs
         /\ artifacts[ReusedArtifact] = Input /\ Input # Empty
<1> USE StagesNat
<1>1. Reusable # {} /\ Input # Empty /\ ReusedArtifact = stages[Min(Reusable)].artifact
  BY DEF ReusedArtifact
<1>2. Min(Reusable) \in Reusable
  <2>1. Reusable \in SUBSET (1 .. NumStages)
    BY DEF Reusable
  <2> QED
    BY <1>1, <2>1, MinIn
<1> DEFINE m == Min(Reusable)
<1>3. m \in Stages /\ stages[m].state = "completed" /\ stages[m].output = Input
  BY <1>2 DEF Reusable
<1> HIDE DEF m
<1>4. m < idx
  <2>1. /\ idx \in Stages /\ stages[idx].state = "none"
        /\ \A i \in Stages : i > idx => stages[i].state = "none"
    BY NoRowFields DEF IndInv, Position, LoopPcs
  <2> QED
    BY <1>3, <2>1
<1>5. ReusedArtifact = stages[m].artifact
  BY <1>1 DEF m
<1>6. /\ stages[m].artifact \in 0 .. m /\ stages[m].output \in Outputs
      /\ artifacts[stages[m].artifact] = stages[m].output
  BY <1>3, <1>5 DEF IndInv, Typed, RowsTyped, ArtifactMatches
<1>7. idx \in Nat
  BY DEF IndInv, Position
<1> QED
  BY <1>1, <1>3, <1>4, <1>5, <1>6, <1>7

(* Every action keeps the types. *)
LEMMA TypedStep == ASSUME IndInv, [Next]_vars PROVE Typed'
<1> USE PipelineAssumption, StagesNat, NoRowFields
    DEF IndInv, table, loop, vars, LoopPcs
<1>1. CASE StartPipeline \/ NotReusable \/ UNCHANGED vars
  BY <1>1 DEF StartPipeline, NotReusable, RowsTyped, Typed, Pcs
<1>p. CASE PrepareRun
  BY <1>p DEF PrepareRun, RowsTyped, Typed, Pcs
<1>s. CASE StorageError
  BY <1>s DEF StorageError, Abort, RowsTyped, Typed, Pcs
<1>c. CASE CancelPipeline \/ Crash
  BY <1>c DEF CancelPipeline, Crash, RowsTyped, Typed, Pcs
<1>a. CASE FinishLoop \/ Cleanup \/ SetFailed
  BY <1>a DEF FinishLoop, FinalState, FinalRows, Cleanup, SetFailed, RowsTyped, Typed, Pcs
<1>2. CASE StageHead
  BY <1>2, HeadGoesOn DEF Typed, RowsTyped, Pcs
<1>r. ASSUME NEW mark \in {"none", "pending"} \cup Verdicts, NEW input, NEW output \in Outputs,
             NEW artifact \in 0 .. idx, NEW cost \in {-1, 0} \cup Costs,
             RowWritten(mark, input, output, artifact, cost)
      PROVE  RowsTyped'
  BY <1>r DEF RowWritten, Typed, RowsTyped
<1>3. CASE ReuseStage
  <2>1. ReusedArtifact \in 0 .. idx /\ Input \in Outputs
    BY <1>3, InLoop, ReuseFinds DEF ReuseStage
  <2>2. RowsTyped'
    BY <1>3, <1>r, <2>1, Writes DEF Verdicts
  <2> QED
    BY <1>3, <2>2 DEF ReuseStage, Advance, Typed, Pcs
<1>4. CASE CreateStage
  <2>1. RowsTyped'
    BY <1>4, <1>r, InLoop, Writes DEF CreateStage
  <2> QED
    BY <1>4, <2>1 DEF CreateStage, Typed, Pcs
<1>5. CASE AdapterMissing \/ ExecutorFails
  <2>1. ASSUME stages' = stages PROVE RowsTyped'
    BY <2>1 DEF Typed, RowsTyped
  <2>2. ASSUME RowWritten("failed", stages[idx].input, Empty, 0, -1) PROVE RowsTyped'
    <3>1. "failed" \in Verdicts /\ 0 \in 0 .. idx /\ -1 \in {-1, 0} \cup Costs
      BY <1>5, InLoop DEF Verdicts, AdapterMissing, ExecutorFails
    <3> QED
      BY <1>r, <2>2, <3>1
  <2>3. RowsTyped'
    BY <1>5, <2>1, <2>2, Writes
  <2> QED
    BY <1>5, <2>3 DEF AdapterMissing, ExecutorFails, Abort, Typed, Pcs
<1>6. CASE ExecutorDecides
  <2>1. PICK mark \in {"completed"} \cup Stops, output \in Outputs, cost \in Costs :
          outcome' = [ state |-> mark, output |-> output, cost |-> cost ]
    BY <1>6 DEF ExecutorDecides
  <2>2. mark \in Verdicts
    <3>1. Stops \subseteq {"failed", "cancelled", "interrupted"}
      OBVIOUS
    <3> QED
      BY <3>1 DEF Verdicts
  <2>3. outcome' \in [ state : {"none"} \cup Verdicts, output : Outputs, cost : Costs \cup {0} ]
    BY <2>1, <2>2
  <2>4. /\ UNCHANGED << specs, row, total, stages, artifacts, registered, token >>
        /\ UNCHANGED << prev, linked, error >>
        /\ pc' = "closing"
    BY <1>6 DEF ExecutorDecides
  <2> QED
    BY <2>3, <2>4 DEF Typed, RowsTyped, Pcs
<1>e. CASE ExecutorReturns
  BY <1>e DEF ExecutorReturns, Typed, RowsTyped, Pcs
<1>7. CASE CreateArtifact
  <2>1. PICK text \in {outcome.output, Empty} : /\ outcome' = [outcome EXCEPT !.output = text]
                                                /\ artifacts' = [artifacts EXCEPT ![idx] = text]
    BY <1>7 DEF CreateArtifact
  <2>2. text \in Outputs
    BY DEF Typed
  <2>3. outcome' \in [ state : {"none"} \cup Verdicts, output : Outputs, cost : Costs \cup {0} ]
    BY <2>1, <2>2 DEF Typed
  <2>4. artifacts' \in [Stages -> Outputs]
    BY <2>1, <2>2 DEF Typed
  <2> QED
    BY <1>7, <2>3, <2>4 DEF CreateArtifact, Typed, RowsTyped, Pcs
<1>8. CASE CompleteStage
  <2> DEFINE made == IF outcome.output = Empty THEN 0 ELSE idx
  <2>1. RowWritten(outcome.state, stages[idx].input, outcome.output, made, outcome.cost)
    BY <1>8, Writes
  <2>2. outcome.state \in Verdicts /\ outcome.output \in Outputs /\ outcome.cost \in Costs
    BY <1>8 DEF CompleteStage, Typed, Returned
  <2>3. made \in 0 .. idx
    BY <1>8, InLoop DEF CompleteStage
  <2> HIDE DEF made
  <2>4. RowsTyped'
    BY <1>r, <2>1, <2>2, <2>3
  <2> QED
    BY <1>8, <2>4 DEF CompleteStage, Typed, Pcs
<1>9. CASE AddCost
  <2>1. NoOutcome \in [ state : {"none"} \cup Verdicts, output : Outputs, cost : Costs \cup {0} ]
    BY DEF NoOutcome
  <2>2. total' \in Nat
    <3>1. outcome.cost \in Costs \cup {0} /\ total \in Nat
      BY DEF Typed
    <3>2. outcome.cost \in Nat
      BY <3>1, CostsNat, Zenon
    <3> QED
      BY <1>9, <3>1, <3>2 DEF AddCost
  <2>3. prev' \in Outputs /\ outcome' = NoOutcome /\ linked' = FALSE /\ pc' \in {"head", "finish"}
    BY <1>9 DEF AddCost, Typed, Advance
  <2>4. UNCHANGED << specs, row, stages, artifacts, registered, token, error >>
    BY <1>9 DEF AddCost
  <2> QED
    BY <2>1, <2>2, <2>3, <2>4 DEF Typed, RowsTyped, Pcs
<1> QED
  BY <1>1, <1>p, <1>s, <1>c, <1>a, <1>e, <1>2, <1>3, <1>4, <1>5, <1>6, <1>7, <1>8, <1>9 DEF Next, Task

(* What the task knows about itself, after each action. *)
LEMMA ControlStep ==
  ASSUME IndInv, [Next]_vars
  PROVE  Uncancelled' /\ EntryTracksTask' /\ RowTracksLoop' /\ Returned'
<1> USE DEF table, loop, vars
<1>0. /\ Uncancelled /\ EntryTracksTask /\ RowTracksLoop /\ Returned /\ Typed
      /\ pc = "idle" => ~ token
  BY DEF IndInv, Position
<1> USE DEF Uncancelled, EntryTracksTask, Alive, RowTracksLoop, LoopPcs
<1>1. CASE StartPipeline
  BY <1>0, <1>1 DEF StartPipeline, Returned
<1>2. CASE StageHead
  BY <1>0, <1>2, HeadGoesOn DEF Returned
<1>3. CASE ReuseStage
  BY <1>0, <1>3 DEF ReuseStage, Returned, Advance
<1>4. CASE NotReusable
  BY <1>0, <1>4 DEF NotReusable, Returned
<1>5. CASE CreateStage
  BY <1>0, <1>5 DEF CreateStage, Returned
<1>6. CASE PrepareRun
  BY <1>0, <1>6 DEF PrepareRun, Returned
<1>7. CASE AdapterMissing
  BY <1>0, <1>7 DEF AdapterMissing, Returned, Abort
<1>e. CASE ExecutorReturns
  BY <1>0, <1>e DEF ExecutorReturns, Returned
<1>8. CASE ExecutorDecides
  <2>1. PICK mark \in {"completed"} \cup Stops, output \in Outputs, cost \in Costs :
          outcome' = [ state |-> mark, output |-> output, cost |-> cost ]
    BY <1>8 DEF ExecutorDecides
  <2>2. mark \in Verdicts
    <3>1. Stops \subseteq {"failed", "cancelled", "interrupted"}
      BY PipelineAssumption
    <3> QED
      BY <3>1 DEF Verdicts
  <2>3. Returned'
    BY <1>8, <2>1, <2>2 DEF ExecutorDecides, Returned
  <2> QED
    BY <1>0, <1>8, <2>3 DEF ExecutorDecides
<1>9. CASE ExecutorFails
  BY <1>0, <1>9 DEF ExecutorFails, Returned, Abort
<1>10. CASE CreateArtifact
  <2>1. PICK text \in {outcome.output, Empty} :
          /\ outcome' = [outcome EXCEPT !.output = text]
          /\ artifacts' = [artifacts EXCEPT ![idx] = text]
    BY <1>10 DEF CreateArtifact
  <2>2. outcome'.state = outcome.state /\ outcome'.cost = outcome.cost /\ outcome'.output = text
    BY <1>0, <2>1 DEF Typed
  <2>3. artifacts'[idx] = text /\ idx' = idx
    BY <1>0, <1>10, <2>1, InLoop DEF CreateArtifact, Typed
  <2>4. Returned'
    BY <1>0, <1>10, <2>2, <2>3 DEF CreateArtifact, Returned
  <2> QED
    BY <1>0, <1>10, <2>4 DEF CreateArtifact
<1>11. CASE CompleteStage
  BY <1>0, <1>11 DEF CompleteStage, Returned
<1>12. CASE AddCost
  BY <1>0, <1>12 DEF AddCost, Returned, Advance
<1>13. CASE FinishLoop
  BY <1>0, <1>13 DEF FinishLoop, Returned, FinalState, FinalRows
<1>14. CASE Cleanup
  BY <1>0, <1>14 DEF Cleanup, Returned
<1>15. CASE SetFailed
  BY <1>0, <1>15 DEF SetFailed, Returned
<1>16. CASE StorageError
  BY <1>0, <1>16 DEF StorageError, Returned, Abort
<1>17. CASE CancelPipeline
  BY <1>0, <1>17 DEF CancelPipeline, Returned
<1>18. CASE Crash
  BY <1>0, <1>18 DEF Crash, Returned, Pcs
<1>19. CASE UNCHANGED vars
  BY <1>0, <1>19 DEF Returned
<1> QED
  BY <1>1, <1>2, <1>3, <1>4, <1>5, <1>6, <1>7, <1>e, <1>8, <1>9, <1>10, <1>11,
     <1>12, <1>13, <1>14, <1>15, <1>16, <1>17, <1>18, <1>19 DEF Next, Task

(* The loop writes the row of its stage and moves on when it is settled.   *)
LEMMA PositionStep == ASSUME IndInv, [Next]_vars PROVE Position'
<1> USE StagesNat, NoRowFields DEF table, loop, vars
<1>0. /\ Position /\ Typed /\ RowTracksLoop /\ Returned
      /\ pc \in LoopPcs => idx \in Stages /\ DOMAIN stages = Stages
  BY InLoop DEF IndInv
<1>1. ASSUME UNCHANGED << specs, stages, prev, idx, results >>,
             row' = "completed" => row = "completed",
             \/ pc' \in {"cleanup", "setFailed", "ended", "dead"}
             \/ pc' = pc /\ outcome' = outcome /\ (pc = "idle" => UNCHANGED token)
             \/ pc = "idle" /\ pc' = "head"
             \/ pc = "head" /\ pc' = "lookup"
             \/ pc = "lookup" /\ pc' = "create"
             \/ pc = "prepare" /\ pc' = "running"
             \/ pc = "running" /\ pc' = "closing"
             \/ pc = "closing" /\ pc' = "artifact" /\ outcome' = outcome
             \/ pc = "artifact" /\ pc' = "complete"
      PROVE  Position'
  <2>1. Input' = Input
    BY <1>1 DEF Input
  <2>2. /\ idx' = idx /\ results' = results
        /\ \A i \in Stages : Settled(i)' = Settled(i)
        /\ stages' = stages
    BY <1>1 DEF Settled
  <2> QED
    BY <1>0, <1>1, <2>1, <2>2 DEF Position, LoopPcs, Settled
<1>2. CASE StartPipeline
  BY <1>1, <1>2 DEF StartPipeline
<1>3. CASE StageHead
  BY <1>0, <1>1, <1>3, HeadGoesOn
<1>4. CASE NotReusable
  BY <1>1, <1>4 DEF NotReusable
<1>5. CASE PrepareRun
  BY <1>1, <1>5 DEF PrepareRun
<1>6. CASE ExecutorDecides \/ ExecutorReturns
  BY <1>1, <1>6 DEF ExecutorDecides, ExecutorReturns
<1>7. CASE CreateArtifact
  BY <1>1, <1>7 DEF CreateArtifact
<1>8. CASE Cleanup
  BY <1>1, <1>8 DEF Cleanup
<1>9. CASE SetFailed
  BY <1>1, <1>9 DEF SetFailed
<1>10. CASE StorageError
  BY <1>1, <1>10 DEF StorageError, Abort
<1>11. CASE CancelPipeline
  BY <1>0, <1>1, <1>11 DEF CancelPipeline, IndInv, EntryTracksTask, Alive
<1>12. CASE Crash
  BY <1>1, <1>12 DEF Crash
<1>13. CASE UNCHANGED vars
  BY <1>1, <1>13
<1>14. CASE FinishLoop
  <2>1. row' = "completed" => idx = NumStages + 1
    BY <1>0, <1>14 DEF FinishLoop, FinalState, Position
  <2>2. UNCHANGED << specs, stages, prev, idx, results >> /\ pc' = "cleanup"
    BY <1>14 DEF FinishLoop
  <2> QED
    BY <1>0, <2>1, <2>2 DEF Position, LoopPcs, Settled
<1>15. ASSUME pc \in LoopPcs, NEW mark \in Verdicts, NEW input, NEW output, NEW artifact, NEW cost,
              RowWritten(mark, input, output, artifact, cost), UNCHANGED row,
              \/ Advance /\ results' = results + 1
              \/ pc' = "cleanup" /\ UNCHANGED << idx, results >>
       PROVE  Position'
  <2>1. \A i \in Stages : i <= idx => Settled(i)'
    BY <1>0, <1>15 DEF RowWritten, Position, Settled
  <2>2. \A i \in Stages : i > idx => stages'[i] = NoRow
    BY <1>0, <1>15 DEF RowWritten, Position
  <2>3. idx \in Stages /\ row' # "completed"
    BY <1>0, <1>15 DEF RowTracksLoop
  <2>4. CASE Advance /\ results' = results + 1
    <3>1. /\ idx' = idx + 1 /\ pc' = IF idx = NumStages THEN "finish" ELSE "head"
          /\ results' = idx' - 1 /\ idx' \in 1 .. NumStages + 1
      BY <1>0, <2>3, <2>4 DEF Advance, Position
    <3>2. pc' = "head" => idx' \in Stages /\ stages'[idx'] = NoRow
      BY <2>2, <2>3, <3>1
    <3> QED
      BY <2>1, <2>2, <2>3, <3>1, <3>2 DEF Position, LoopPcs
  <2>5. CASE pc' = "cleanup" /\ UNCHANGED << idx, results >>
    BY <1>0, <2>1, <2>2, <2>3, <2>5 DEF Position, LoopPcs
  <2> QED
    BY <1>15, <2>4, <2>5
<1>16. CASE ReuseStage
  BY <1>15, <1>16, Writes DEF ReuseStage, LoopPcs, Verdicts
<1>17. CASE CreateStage
  <2>1. RowWritten("pending", Input, Empty, 0, 0) /\ pc = "create" /\ pc' = "prepare"
    BY <1>17, Writes DEF CreateStage
  <2>2. UNCHANGED << specs, row, prev, idx, results >> /\ Input' = Input
    BY <1>17 DEF CreateStage, Input
  <2>3. \A i \in Stages : (i < idx => Settled(i)') /\ (i > idx => stages'[i] = NoRow)
    BY <1>0, <2>1 DEF RowWritten, Position, Settled
  <2> QED
    BY <1>0, <2>1, <2>2, <2>3 DEF RowWritten, Position, LoopPcs
<1>18. CASE AdapterMissing \/ ExecutorFails
  <2>1. /\ pc \in LoopPcs /\ pc' = "cleanup" /\ UNCHANGED << specs, row, prev, idx, results >>
    BY <1>18 DEF AdapterMissing, ExecutorFails, Abort, LoopPcs
  <2>2. CASE stages' = stages
    BY <1>1, <2>1, <2>2
  <2>3. CASE RowWritten("failed", stages[idx].input, Empty, 0, -1)
    BY <1>15, <2>1, <2>3 DEF Verdicts
  <2> QED
    BY <1>18, <2>2, <2>3, Writes
<1>19. CASE CompleteStage
  <2> DEFINE made == IF outcome.output = Empty THEN 0 ELSE idx
  <2>1. /\ RowWritten(outcome.state, stages[idx].input, outcome.output, made, outcome.cost)
        /\ pc = "complete" /\ pc' = "addCost" /\ outcome.state \in Verdicts
        /\ UNCHANGED << specs, row, prev, idx, results, outcome >>
    BY <1>0, <1>19, Writes DEF CompleteStage, Returned
  <2>2. made \in {0, idx}
    OBVIOUS
  <2> HIDE DEF made
  <2>3. \A i \in Stages : (i <= idx => Settled(i)') /\ (i > idx => stages'[i] = NoRow)
    BY <1>0, <2>1 DEF RowWritten, Position, Settled
  <2> QED
    BY <1>0, <2>1, <2>2, <2>3 DEF RowWritten, Position, LoopPcs
<1>20. CASE AddCost
  <2>1. /\ pc = "addCost" /\ Advance /\ results' = results + 1
        /\ UNCHANGED << stages, row >>
    BY <1>20 DEF AddCost
  <2>2. RowWritten(stages[idx].state, stages[idx].input, stages[idx].output,
                   stages[idx].artifact, stages[idx].cost)
    BY <1>0, <2>1 DEF RowWritten, LoopPcs
  <2>3. stages[idx].state \in Verdicts
    BY <1>0, <2>1 DEF Position, Settled
  <2> QED
    BY <1>15, <2>1, <2>2, <2>3 DEF LoopPcs
<1> QED
  BY <1>2, <1>3, <1>4, <1>5, <1>6, <1>7, <1>8, <1>9, <1>10, <1>11, <1>12, <1>13, <1>14, <1>16,
     <1>17, <1>18, <1>19, <1>20 DEF Next, Task

(* A cancel that finds an executor finds it with the token of the map.     *)
LEMMA ListeningStep == ASSUME IndInv, [Next]_vars PROVE Listening' /\ CancelReachesStage'
<1> USE StagesNat DEF table, loop, vars, LoopPcs
<1>0. /\ Listening /\ CancelReachesStage /\ Uncancelled /\ EntryTracksTask
      /\ Position /\ Typed /\ Returned
      /\ pc \in LoopPcs => idx \in Stages
  BY InLoop DEF IndInv
<1>1. ASSUME pc \in LoopPcs, NEW mark, NEW input, NEW output, NEW artifact, NEW cost,
             RowWritten(mark, input, output, artifact, cost), UNCHANGED hit,
             hit < idx \/ mark # "completed"
      PROVE  CancelReachesStage'
  <2>1. hit \in 0 .. NumStages /\ hit <= idx
    BY <1>0 DEF Listening
  <2>2. CASE hit = 0
    BY <1>1, <2>2 DEF CancelReachesStage
  <2>3. CASE hit # 0 /\ hit = idx
    BY <1>1, <2>3 DEF CancelReachesStage, RowWritten
  <2>4. CASE hit # 0 /\ hit # idx
    BY <1>0, <1>1, <2>1, <2>4 DEF CancelReachesStage, RowWritten
  <2> QED
    BY <2>2, <2>3, <2>4
<1>2. ASSUME UNCHANGED << stages, hit >> PROVE CancelReachesStage'
  BY <1>0, <1>2 DEF CancelReachesStage
<1>3. CASE StartPipeline
  BY <1>0, <1>2, <1>3 DEF StartPipeline, Listening, IndInv, Position
<1>4. CASE StageHead
  BY <1>0, <1>2, <1>4, HeadGoesOn DEF Listening
<1>5. CASE ReuseStage
  <2>1. CancelReachesStage'
    BY <1>0, <1>1, <1>5, Writes DEF ReuseStage, Listening
  <2>2. /\ idx \in 1 .. NumStages /\ hit < idx /\ idx' = idx + 1
        /\ UNCHANGED << hit, token >> /\ pc' \in {"head", "finish"}
    BY <1>0, <1>5 DEF ReuseStage, Advance, Listening
  <2> QED
    BY <1>0, <2>1, <2>2 DEF Listening
<1>6. CASE NotReusable
  BY <1>0, <1>2, <1>6 DEF NotReusable, Listening
<1>7. CASE CreateStage
  <2>1. CancelReachesStage'
    BY <1>0, <1>1, <1>7, Writes DEF CreateStage, Listening
  <2> QED
    BY <1>0, <1>7, <2>1 DEF CreateStage, Listening
<1>8. CASE PrepareRun
  BY <1>0, <1>2, <1>8 DEF PrepareRun, Listening
<1>9. CASE AdapterMissing \/ ExecutorFails
  <2>1. pc \in LoopPcs /\ UNCHANGED << token, hit, idx >> /\ pc' = "cleanup"
    BY <1>9 DEF AdapterMissing, ExecutorFails, Abort
  <2>2. CancelReachesStage'
    BY <1>1, <1>2, <1>9, <2>1, Writes
  <2> QED
    BY <1>0, <2>1, <2>2 DEF Listening
<1>e. CASE ExecutorReturns
  BY <1>0, <1>2, <1>e DEF ExecutorReturns, Listening
<1>10. CASE ExecutorDecides
  <2>1. linked /\ token => outcome'.state # "completed"
    <3>1. PICK mark \in {"completed"} \cup Stops, output \in Outputs, cost \in Costs :
            /\ mark = "completed" => ~ (linked /\ token)
            /\ outcome' = [ state |-> mark, output |-> output, cost |-> cost ]
      BY <1>10 DEF ExecutorDecides
    <3> QED
      BY <3>1
  <2>2. /\ UNCHANGED << token, hit, idx, linked, stages >> /\ pc = "running" /\ pc' = "closing"
        /\ Listening /\ CancelReachesStage'
    BY <1>0, <1>2, <1>10 DEF ExecutorDecides
  <2> QED
    BY <2>1, <2>2 DEF Listening
<1>11. CASE CreateArtifact
  <2>1. outcome'.state = outcome.state
    BY <1>0, <1>11 DEF CreateArtifact, Typed
  <2> QED
    BY <1>0, <1>2, <1>11, <2>1 DEF CreateArtifact, Listening
<1>12. CASE CompleteStage
  <2>1. hit < idx \/ outcome.state # "completed"
    <3>1. pc = "complete" /\ idx \in 1 .. NumStages
      BY <1>0, <1>12 DEF CompleteStage
    <3> QED
      BY <1>0, <3>1 DEF Listening
  <2>2. CancelReachesStage'
    BY <1>1, <1>12, <2>1, Writes DEF CompleteStage
  <2> QED
    BY <1>0, <1>12, <2>2 DEF CompleteStage, Listening
<1>13. CASE AddCost
  <2>1. idx' = idx + 1 /\ idx \in 1 .. NumStages /\ UNCHANGED << hit, token >> /\ pc' \in {"head", "finish"}
    BY <1>0, <1>13 DEF AddCost, Advance
  <2> QED
    BY <1>0, <1>2, <1>13, <2>1 DEF AddCost, Listening
<1>14. CASE FinishLoop \/ Cleanup \/ SetFailed \/ StorageError
  <2>1. UNCHANGED << token, hit, idx, stages >> /\ pc' \in {"cleanup", "setFailed", "ended"}
    BY <1>14 DEF FinishLoop, Cleanup, SetFailed, StorageError, Abort
  <2> QED
    BY <1>0, <1>2, <2>1 DEF Listening
<1>15. CASE CancelPipeline
  <2>1. UNCHANGED << stages, pc, idx, linked, outcome >> /\ registered /\ ~ registered' /\ token'
    BY <1>15 DEF CancelPipeline
  <2>2. CASE pc = "running"
    <3>1. hit' = idx /\ idx \in 1 .. NumStages /\ linked /\ stages[idx].state = "pending"
      BY <1>0, <1>15, <2>1, <2>2 DEF CancelPipeline, Listening, Position
    <3> QED
      BY <2>1, <2>2, <3>1 DEF Listening, CancelReachesStage
  <2>3. CASE pc # "running"
    <3>1. hit' = 0 /\ idx \in 1 .. NumStages + 1
      BY <1>0, <1>15, <2>3 DEF CancelPipeline, Position
    <3> QED
      BY <2>1, <2>3, <3>1 DEF Listening, CancelReachesStage
  <2> QED
    BY <2>2, <2>3
<1>16. CASE Crash
  BY <1>0, <1>2, <1>16 DEF Crash, Listening
<1>17. CASE UNCHANGED vars
  BY <1>0, <1>2, <1>17 DEF Listening
<1> QED
  BY <1>3, <1>4, <1>5, <1>6, <1>7, <1>8, <1>9, <1>e, <1>10, <1>11, <1>12, <1>13, <1>14, <1>15, <1>16,
     <1>17 DEF Next, Task

(* An artifact is written once, before any row refers to it.               *)
LEMMA ArtifactStep == ASSUME IndInv, [Next]_vars PROVE ArtifactMatches'
<1> USE StagesNat DEF table, loop, vars, LoopPcs
<1>0. /\ ArtifactMatches /\ Position /\ Typed /\ RowsTyped /\ Returned
      /\ pc \in LoopPcs => idx \in Stages
  BY InLoop DEF IndInv, Typed
<1>1. ASSUME UNCHANGED << stages, artifacts >> PROVE ArtifactMatches'
  BY <1>0, <1>1 DEF ArtifactMatches
<1>2. ASSUME NEW mark, NEW input, NEW output, NEW artifact, NEW cost,
             RowWritten(mark, input, output, artifact, cost), UNCHANGED artifacts,
             artifact # 0 => artifacts[artifact] = output,
             output # Empty => artifact # 0
      PROVE  ArtifactMatches'
  <2> SUFFICES ASSUME NEW i \in Stages
               PROVE  /\ stages'[i].artifact # 0 => artifacts[stages'[i].artifact] = stages'[i].output
                      /\ stages'[i].output # Empty => stages'[i].artifact # 0
    BY <1>2 DEF ArtifactMatches
  <2>1. CASE i = idx
    BY <1>2, <2>1 DEF RowWritten
  <2>2. CASE i # idx
    BY <1>0, <1>2, <2>2 DEF RowWritten, ArtifactMatches
  <2> QED
    BY <2>1, <2>2
<1>3. CASE StageHead
  BY <1>1, <1>3, HeadGoesOn
<1>4. CASE ReuseStage
  BY <1>2, <1>4, Writes, ReuseFinds DEF ReuseStage
<1>5. CASE CreateStage
  BY <1>2, <1>5, Writes DEF CreateStage
<1>6. CASE AdapterMissing \/ ExecutorFails
  <2>1. UNCHANGED artifacts
    BY <1>6 DEF AdapterMissing, ExecutorFails
  <2> QED
    BY <1>1, <1>2, <1>6, <2>1, Writes
<1>7. CASE CreateArtifact
  <2>1. /\ stages' = stages /\ idx \in 1 .. NumStages /\ stages[idx].artifact = 0
        /\ stages[idx].output = Empty
    BY <1>0, <1>7 DEF CreateArtifact, Position
  <2>2. ASSUME NEW i \in Stages PROVE stages[i].artifact \in 0 .. NumStages /\ stages[i].artifact # idx
    <3>1. stages[i].artifact \in 0 .. i
      BY <1>0 DEF RowsTyped
    <3>2. i > idx => stages[i].artifact = 0
      BY <1>0, NoRowFields DEF Position
    <3> QED
      BY <2>1, <3>1, <3>2
  <2>3. ASSUME NEW k \in Stages, k # idx PROVE artifacts'[k] = artifacts[k]
    BY <1>0, <1>7, <2>3 DEF CreateArtifact, Typed
  <2> SUFFICES ASSUME NEW i \in Stages
               PROVE  /\ stages[i].artifact # 0 => artifacts'[stages[i].artifact] = stages[i].output
                      /\ stages[i].output # Empty => stages[i].artifact # 0
    BY <2>1 DEF ArtifactMatches
  <2>4. stages[i].artifact # 0 => artifacts'[stages[i].artifact] = artifacts[stages[i].artifact]
    BY <2>2, <2>3
  <2> QED
    BY <1>0, <2>4 DEF ArtifactMatches
<1>8. CASE CompleteStage
  <2> DEFINE made == IF outcome.output = Empty THEN 0 ELSE idx
  <2>1. /\ RowWritten(outcome.state, stages[idx].input, outcome.output, made, outcome.cost)
        /\ UNCHANGED artifacts /\ artifacts[idx] = outcome.output /\ idx # 0
    BY <1>0, <1>8, Writes DEF CompleteStage, Returned
  <2>2. /\ made # 0 => artifacts[made] = outcome.output
        /\ outcome.output # Empty => made # 0
    BY <2>1
  <2> HIDE DEF made
  <2> QED
    BY <1>2, <2>1, <2>2
<1>9. CASE \/ StartPipeline \/ NotReusable \/ PrepareRun \/ ExecutorDecides
            \/ ExecutorReturns \/ AddCost
           \/ FinishLoop \/ Cleanup \/ SetFailed
           \/ StorageError \/ CancelPipeline \/ Crash \/ UNCHANGED vars
  BY <1>1, <1>9 DEF StartPipeline, NotReusable, PrepareRun, ExecutorDecides, ExecutorReturns,
      AddCost, FinishLoop,
    Cleanup, SetFailed, StorageError, CancelPipeline, Crash
<1> QED
  BY <1>3, <1>4, <1>5, <1>6, <1>7, <1>8, <1>9 DEF Next, Task

(* The stages before i decide what LastOutput says of i.                   *)
LEMMA LastOutputFrame ==
  ASSUME NEW i \in 1 .. NumStages + 1, \A j \in 1 .. i - 1 : stages'[j] = stages[j]
  PROVE  LastOutput(i)' = LastOutput(i)
<1>1. \A j \in 1 .. i - 1 : Executed(j)' <=> Executed(j)
  BY DEF Executed
<1>2. Before(i)' = Before(i)
  BY <1>1 DEF Before
<1>3. CASE Before(i) = {}
  BY <1>2, <1>3 DEF LastOutput
<1>4. CASE Before(i) # {}
  <2>1. Before(i) \in SUBSET (1 .. i - 1) /\ i - 1 \in Nat
    BY StagesNat DEF Before
  <2>2. Max(Before(i)) \in 1 .. i - 1
    BY <1>4, <2>1, MaxIn
  <2> DEFINE m == Max(Before(i))
  <2>3. LastOutput(i) = stages[m].output
    BY <1>4 DEF LastOutput
  <2>4. LastOutput(i)' = stages'[m].output
    BY <1>2, <1>4 DEF LastOutput
  <2> HIDE DEF m
  <2>5. stages'[m] = stages[m]
    BY <2>2 DEF m
  <2> QED
    BY <2>3, <2>4, <2>5
<1> QED
  BY <1>3, <1>4

(* A stage that called its model is the last one before the next stage.    *)
LEMMA LastOutputNext ==
  ASSUME NEW i \in Stages, Executed(i)
  PROVE  LastOutput(i + 1) = stages[i].output
<1>1. i \in Nat /\ i >= 1 /\ i + 1 - 1 = i
  BY StagesNat
<1>2. Before(i + 1) \in SUBSET (1 .. i) /\ i \in Before(i + 1)
  BY <1>1 DEF Before
<1>3. Max(Before(i + 1)) \in 1 .. i /\ i <= Max(Before(i + 1))
  BY <1>1, <1>2, MaxIn
<1>4. Max(Before(i + 1)) = i
  BY <1>1, <1>3
<1> QED
  BY <1>2, <1>4 DEF LastOutput

(* The text handed on is the output of the last stage that called its      *)
(* model.                                                                  *)
LEMMA ChainedStep == ASSUME IndInv, [Next]_vars PROVE Chained'
<1> USE StagesNat, NoRowFields DEF table, loop, vars, LoopPcs
<1>0. /\ Chained /\ Position /\ Typed
      /\ pc \in LoopPcs => idx \in Stages
  BY InLoop DEF IndInv
<1>1. ASSUME UNCHANGED << specs, stages >>
      PROVE  /\ \A i \in Stages :
                  Executed(i)' => stages'[i].input = StageInput(LastOutput(i)', specs'[i])
             /\ \A i \in 1 .. NumStages + 1 : LastOutput(i)' = LastOutput(i)
  <2>1. ASSUME NEW i \in 1 .. NumStages + 1 PROVE LastOutput(i)' = LastOutput(i)
    BY <1>1, <2>1, LastOutputFrame
  <2>2. ASSUME NEW i \in Stages PROVE i \in 1 .. NumStages + 1 /\ (Executed(i)' <=> Executed(i))
    BY <1>1 DEF Executed
  <2> QED
    BY <1>0, <1>1, <2>1, <2>2 DEF Chained
<1>2. ASSUME UNCHANGED << specs, stages, idx, prev >>,
             \/ pc' \notin ({"idle"} \cup LoopPcs) \ {"addCost"}
             \/ pc \in ({"idle"} \cup LoopPcs) \ {"addCost"}
      PROVE  Chained'
  <2>1. \A i \in Stages : i \in 1 .. NumStages + 1
    OBVIOUS
  <2> QED
    BY <1>0, <1>1, <1>2, <2>1 DEF Chained
<1>3. CASE StageHead
  BY <1>2, <1>3, HeadGoesOn
<1>4. ASSUME pc \in LoopPcs, NEW mark, NEW input, NEW output, NEW artifact, NEW cost,
             RowWritten(mark, input, output, artifact, cost), UNCHANGED specs,
             artifact \in {0, idx} => input = StageInput(LastOutput(idx), specs[idx])
      PROVE  /\ \A i \in Stages :
                  Executed(i)' => stages'[i].input = StageInput(LastOutput(i)', specs'[i])
             /\ \A i \in Stages : i = idx => LastOutput(i)' = LastOutput(i)
  <2>1. idx \in 1 .. NumStages /\ \A i \in Stages : i # idx => stages'[i] = stages[i]
    BY <1>0, <1>4 DEF RowWritten
  <2>2. ASSUME NEW i \in Stages, i <= idx PROVE LastOutput(i)' = LastOutput(i)
    <3>1. i \in 1 .. NumStages + 1 /\ \A j \in 1 .. i - 1 : stages'[j] = stages[j]
      BY <2>1, <2>2
    <3> QED
      BY <3>1, LastOutputFrame
  <2>3. ASSUME NEW i \in Stages, Executed(i)'
        PROVE  stages'[i].input = StageInput(LastOutput(i)', specs'[i])
    <3>1. CASE i < idx
      <4>1. Executed(i)
        BY <2>1, <2>3, <3>1 DEF Executed
      <4> QED
        BY <1>0, <1>4, <2>1, <2>2, <3>1, <4>1 DEF Chained
    <3>2. CASE i = idx
      <4>1. artifact \in {0, idx}
        BY <1>4, <2>3, <3>2 DEF RowWritten, Executed
      <4>2. stages'[i].input = input /\ LastOutput(i)' = LastOutput(i)
        BY <1>4, <2>1, <2>2, <3>2 DEF RowWritten
      <4> QED
        BY <1>4, <3>2, <4>1, <4>2
    <3>3. CASE i > idx
      BY <1>0, <2>1, <2>3, <3>3 DEF Executed, Position
    <3> QED
      BY <2>1, <3>1, <3>2, <3>3
  <2> QED
    BY <2>1, <2>2, <2>3
<1>5. ASSUME pc \in LoopPcs, pc # "addCost"
      PROVE  Input = StageInput(LastOutput(idx), specs[idx])
  BY <1>0, <1>5 DEF Chained, Input
<1>6. CASE ReuseStage
  <2>1. /\ RowWritten("completed", Input, Input, ReusedArtifact, 0)
        /\ pc \in LoopPcs /\ pc # "addCost" /\ UNCHANGED << specs, prev >>
        /\ idx' = idx + 1 /\ pc' \in {"head", "finish"} /\ (pc' = "head" => idx # NumStages)
        /\ idx \in 1 .. NumStages
    BY <1>0, <1>6, Writes DEF ReuseStage, Advance
  <2>2. ReusedArtifact \in 1 .. idx - 1
    BY <1>6, ReuseFinds DEF ReuseStage
  <2>3. ReusedArtifact \notin {0, idx}
    BY <2>1, <2>2
  <2>4. PICK k \in Stages : k = idx
    BY <2>1
  <2>5. ~ Executed(k)'
    BY <2>1, <2>3, <2>4 DEF RowWritten, Executed
  <2>6. LastOutput(k + 1)' = LastOutput(k)'
    <3>1. Before(k + 1)' = Before(k)'
      BY <2>5 DEF Before
    <3> QED
      BY <3>1 DEF LastOutput
  <2>7. /\ \A i \in Stages : Executed(i)' => stages'[i].input = StageInput(LastOutput(i)', specs'[i])
        /\ LastOutput(k)' = LastOutput(k)
    BY <1>4, <2>1, <2>3, <2>4
  <2>8. prev = LastOutput(k)
    BY <1>0, <2>1, <2>4 DEF Chained
  <2>9. \A i \in Stages : i = idx' => prev' = LastOutput(i)'
    BY <2>1, <2>4, <2>6, <2>7, <2>8
  <2> QED
    BY <2>7, <2>9 DEF Chained
<1>7. CASE CreateStage
  <2>1. RowWritten("pending", Input, Empty, 0, 0) /\ pc = "create" /\ UNCHANGED << specs, prev, idx >>
    BY <1>7, Writes DEF CreateStage
  <2>2. /\ \A i \in Stages : Executed(i)' => stages'[i].input = StageInput(LastOutput(i)', specs'[i])
        /\ \A i \in Stages : i = idx => LastOutput(i)' = LastOutput(i)
    BY <1>4, <1>5, <2>1
  <2> QED
    BY <1>0, <2>1, <2>2 DEF Chained
<1>8. ASSUME pc \in {"prepare", "running", "closing", "complete"}, NEW mark, NEW output,
             NEW artifact, NEW cost, UNCHANGED specs,
             RowWritten(mark, stages[idx].input, output, artifact, cost),
             pc' \in {"addCost", "cleanup"}
      PROVE  Chained'
  <2>1. stages[idx].input = Input /\ pc \in LoopPcs /\ pc # "addCost"
    BY <1>0, <1>8 DEF Position
  <2>2. stages[idx].input = StageInput(LastOutput(idx), specs[idx])
    BY <1>5, <2>1
  <2>3. \A i \in Stages : Executed(i)' => stages'[i].input = StageInput(LastOutput(i)', specs'[i])
    BY <1>4, <1>8, <2>1, <2>2
  <2> QED
    BY <1>8, <2>3 DEF Chained
<1>9. CASE AdapterMissing \/ ExecutorFails
  <2>1. pc \in {"prepare", "running", "closing"} /\ pc' = "cleanup" /\ UNCHANGED << specs, idx, prev >>
    BY <1>9 DEF AdapterMissing, ExecutorFails, Abort
  <2> QED
    BY <1>2, <1>8, <1>9, <2>1, Writes
<1>10. CASE CompleteStage
  BY <1>8, <1>10, Writes DEF CompleteStage
<1>11. CASE AddCost
  <2>1. /\ UNCHANGED << specs, stages >> /\ prev' = outcome.output /\ idx \in 1 .. NumStages
        /\ idx' = idx + 1 /\ pc' \in {"head", "finish"} /\ pc = "addCost"
    BY <1>0, <1>11 DEF AddCost, Advance
  <2>2. PICK k \in Stages : k = idx
    BY <2>1
  <2>3. Executed(k) /\ stages[k].output = outcome.output
    BY <1>0, <2>1, <2>2 DEF Position, Executed, Settled, Verdicts
  <2>4. LastOutput(k + 1) = outcome.output
    BY <2>3, LastOutputNext
  <2>5. k + 1 \in 1 .. NumStages + 1
    BY <2>2
  <2>6. LastOutput(k + 1)' = LastOutput(k + 1)
    BY <1>1, <2>1, <2>5
  <2>7. \A i \in Stages : i = idx' => prev' = LastOutput(i)'
    BY <2>1, <2>2, <2>4, <2>6
  <2> QED
    BY <1>1, <2>1, <2>7 DEF Chained
<1>12. CASE \/ StartPipeline \/ NotReusable \/ PrepareRun \/ ExecutorDecides
            \/ ExecutorReturns \/ CreateArtifact
            \/ FinishLoop \/ Cleanup \/ SetFailed
            \/ StorageError \/ CancelPipeline \/ Crash \/ UNCHANGED vars
  BY <1>2, <1>12 DEF StartPipeline, NotReusable, PrepareRun, ExecutorDecides,
      ExecutorReturns, CreateArtifact,
    FinishLoop, Cleanup, SetFailed, StorageError, Abort, CancelPipeline, Crash
<1> QED
  BY <1>3, <1>6, <1>7, <1>9, <1>10, <1>11, <1>12 DEF Next, Task

(* What the rows of the stages cost together. *)
Owed == Paid([i \in Stages |-> StageCost(i)])

(* A row written over one that cost nothing adds its cost. *)
LEMMA OwedChanges ==
  ASSUME IndInv, pc \in LoopPcs, stages[idx].cost = 0,
         NEW mark, NEW input, NEW output, NEW artifact, NEW cost \in {-1, 0} \cup Costs,
         RowWritten(mark, input, output, artifact, cost)
  PROVE  /\ Owed \in Int /\ StageCost(idx) = 0
         /\ Owed' = Owed + (IF cost < 0 THEN 0 ELSE cost)
<1>0. idx \in Stages /\ Typed
  BY InLoop
<1> DEFINE before == [i \in Stages |-> StageCost(i)]
           after == [i \in Stages |-> StageCost(i)']
<1>1. \A i \in Stages : stages[i].cost \in Int /\ stages'[i].cost \in Int
  <2>1. \A c \in {-1, 0} \cup Costs : c \in Int
    BY CostsNat
  <2>2. \A i \in Stages : stages[i].cost \in {-1, 0} \cup Costs
    BY <1>0 DEF Typed, RowsTyped
  <2>3. \A i \in Stages : stages'[i].cost \in {-1, 0} \cup Costs
    BY <1>0, <2>2 DEF RowWritten
  <2> QED
    BY <2>1, <2>2, <2>3
<1>2. \A i \in Stages : StageCost(i) \in Int /\ StageCost(i)' \in Int
  BY <1>1 DEF StageCost
<1>3. \A i \in Stages \ {idx} : StageCost(i)' = StageCost(i)
  BY DEF StageCost, RowWritten
<1>4. StageCost(idx) = 0
  BY DEF StageCost
<1>5. \A i \in Stages : i = idx => StageCost(i)' = IF cost < 0 THEN 0 ELSE cost
  BY DEF StageCost, RowWritten
<1>6. /\ \A i \in Stages : before[i] \in Int /\ after[i] \in Int
      /\ \A i \in Stages \ {idx} : after[i] = before[i]
      /\ before[idx] = 0 /\ after[idx] = IF cost < 0 THEN 0 ELSE cost
  BY <1>0, <1>2, <1>3, <1>4, <1>5
<1>7. Owed = Paid(before) /\ Owed' = Paid(after)
  BY DEF Owed
<1> HIDE DEF before, after
<1>8. Paid(before) \in Int /\ Paid(after) = Paid(before) + (after[idx] - before[idx])
  BY <1>0, <1>6, PaidAdds
<1>9. after[idx] \in Int
  BY <1>0, <1>6
<1> QED
  BY <1>4, <1>6, <1>7, <1>8, <1>9

(* CompleteStage charges the row, AddCost the pipeline.                    *)
LEMMA LedgerStep == ASSUME IndInv, [Next]_vars PROVE CostLedger'
<1> USE DEF table, loop, vars, LoopPcs
<1>0. /\ pc = "addCost" => total + outcome.cost = Owed
      /\ pc \in ({"idle", "finish"} \cup LoopPcs) \ {"addCost"} => total = Owed
      /\ \/ total = Owed
         \/ row # "completed" /\ idx \in Stages /\ total + StageCost(idx) = Owed
      /\ total \in Nat /\ Position /\ RowTracksLoop /\ Typed
      /\ pc \in LoopPcs => idx \in Stages
  BY InLoop DEF IndInv, CostLedger, CostAccounted, Owed, Typed
<1>1. ASSUME /\ pc' = "addCost" => total' + outcome'.cost = Owed'
             /\ pc' \in ({"idle", "finish"} \cup LoopPcs) \ {"addCost"} => total' = Owed'
             /\ \/ total' = Owed'
                \/ row' # "completed" /\ idx' \in Stages /\ total' + StageCost(idx)' = Owed'
      PROVE  CostLedger'
  BY <1>1 DEF CostLedger, CostAccounted, Owed
<1>2. ASSUME UNCHANGED << stages, total, idx >>,
             row' = "completed" => row = "completed" \/ pc = "finish",
             \/ pc' \notin {"idle", "finish"} \cup LoopPcs
             \/ pc' # "addCost" /\ pc \in ({"idle", "finish"} \cup LoopPcs) \ {"addCost"}
             \/ UNCHANGED << pc, outcome >>
      PROVE  CostLedger'
  <2>1. Owed' = Owed /\ StageCost(idx)' = StageCost(idx)
    BY <1>2 DEF Owed, StageCost
  <2> QED
    BY <1>0, <1>1, <1>2, <2>1
<1>3. CASE StageHead
  BY <1>2, <1>3, HeadGoesOn
<1>4. ASSUME pc \in LoopPcs, pc # "addCost", stages[idx].cost = 0, UNCHANGED total,
             NEW mark, NEW input, NEW output, NEW artifact, NEW cost \in {-1, 0},
             RowWritten(mark, input, output, artifact, cost), pc' # "addCost"
      PROVE  CostLedger'
  <2>1. Owed' = Owed
    BY <1>4, OwedChanges
  <2> QED
    BY <1>0, <1>1, <1>4, <2>1
<1>5. CASE ReuseStage
  <2>1. pc = "lookup" /\ pc' # "addCost" /\ UNCHANGED total /\ stages[idx].cost = 0
    BY <1>0, <1>5, NoRowFields DEF ReuseStage, Advance, Position
  <2> QED
    BY <1>4, <1>5, <2>1, Writes
<1>6. CASE CreateStage
  <2>1. pc = "create" /\ pc' # "addCost" /\ UNCHANGED total /\ stages[idx].cost = 0
    BY <1>0, <1>6, NoRowFields DEF CreateStage, Position
  <2> QED
    BY <1>4, <1>6, <2>1, Writes
<1>7. CASE AdapterMissing \/ ExecutorFails
  <2>1. /\ pc \in {"prepare", "running", "closing"} /\ pc' = "cleanup"
        /\ UNCHANGED << row, total, idx >> /\ stages[idx].cost = 0
    BY <1>0, <1>7 DEF AdapterMissing, ExecutorFails, Abort, Position
  <2> QED
    BY <1>2, <1>4, <1>7, <2>1, Writes
<1>8. CASE CompleteStage
  <2> DEFINE made == IF outcome.output = Empty THEN 0 ELSE idx
  <2>1. RowWritten(outcome.state, stages[idx].input, outcome.output, made, outcome.cost)
    BY <1>8, Writes
  <2>2. /\ pc = "complete" /\ pc' = "addCost" /\ UNCHANGED << row, total, idx, outcome >>
        /\ stages[idx].cost = 0 /\ idx \in Stages /\ outcome.cost \in Costs
    BY <1>0, <1>8 DEF CompleteStage, Position, IndInv, Returned
  <2>3. outcome.cost \in Nat /\ ~ (outcome.cost < 0)
    BY <2>2, CostsNat
  <2> HIDE DEF made
  <2>4. Owed' = Owed + outcome.cost
    BY <2>1, <2>2, <2>3, OwedChanges
  <2>5. StageCost(idx)' = outcome.cost
    BY <2>1, <2>2, <2>3 DEF RowWritten, StageCost
  <2>6. row # "completed" /\ total = Owed
    BY <1>0, <2>2 DEF RowTracksLoop
  <2> QED
    BY <1>1, <2>2, <2>4, <2>5, <2>6
<1>9. CASE AddCost
  <2>1. total' = Owed' /\ pc' # "addCost"
    BY <1>0, <1>9 DEF AddCost, Advance, Owed, StageCost
  <2> QED
    BY <1>1, <2>1
<1>10. CASE FinishLoop
  BY <1>2, <1>10 DEF FinishLoop
<1>11. CASE StorageError
  BY <1>2, <1>11 DEF StorageError, Abort
<1>12. CASE \/ StartPipeline \/ NotReusable \/ PrepareRun \/ ExecutorDecides
            \/ ExecutorReturns \/ CreateArtifact
            \/ Cleanup \/ SetFailed \/ CancelPipeline \/ Crash \/ UNCHANGED vars
  BY <1>0, <1>2, <1>12 DEF StartPipeline, NotReusable, PrepareRun, ExecutorDecides,
      ExecutorReturns, CreateArtifact,
    Cleanup, SetFailed, CancelPipeline, Crash
<1> QED
  BY <1>3, <1>5, <1>6, <1>7, <1>8, <1>9, <1>10, <1>11, <1>12 DEF Next, Task

(* The invariant is inductive. *)
THEOREM IndInvHolds == Spec => []IndInv
<1>1. IndInv /\ [Next]_vars => IndInv'
  BY TypedStep, ControlStep, PositionStep, ListeningStep, ArtifactStep, ChainedStep, LedgerStep
  DEF IndInv
<1> QED
  BY <1>1, InitIndInv, PTL DEF Spec

--------------------------------------------------------------------------------

(* At every await of run_pipeline the rows are a settled prefix, each      *)
(* artifact is the text its row records, each stage was asked its input    *)
(* after the output before it, the costs add up, and cancel_pipeline finds *)
(* the task exactly while it runs.                                         *)
THEOREM TablesAgree == Spec => []PipelineInv
<1> SUFFICES ASSUME IndInv PROVE PipelineInv
  BY IndInvHolds, PTL
<1> USE StagesNat DEF IndInv
<1>1. TypeOK
  <2>1. \A i \in Stages :
          /\ stages[i].state \in {"none", "pending"} \cup Verdicts
          /\ stages[i].artifact \in 0 .. NumStages
          /\ stages[i].cost \in {-1, 0} \cup Costs
          /\ artifacts[i] \in Outputs
    BY DEF Typed, RowsTyped
  <2>2. {registered, token, cancelled, linked, error} \subseteq BOOLEAN
    BY DEF Typed, Uncancelled
  <2>3. idx \in 1 .. NumStages + 1 /\ results \in 0 .. NumStages /\ hit \in 0 .. NumStages
    BY DEF Position, Listening
  <2> QED
    BY <2>1, <2>2, <2>3 DEF TypeOK, Typed
<1>2. StagesInOrder
  <2>1. ASSUME NEW i \in Stages, NEW j \in Stages, i < j, stages[j].state # "none" PROVE Settled(i)
    <3>1. ~ (j > idx)
      BY <2>1, NoRowFields DEF Position
    <3>2. i < idx
      BY <2>1, <3>1 DEF Position
    <3> QED
      BY <3>2 DEF Position
  <2>2. row = "completed" => \A i \in Stages : Settled(i)
    BY DEF Position
  <2> QED
    BY <2>1, <2>2 DEF StagesInOrder
<1>3. InputChained
  BY DEF InputChained, Chained, LastOutput, Before
<1> QED
  BY <1>1, <1>2, <1>3 DEF PipelineInv, CostLedger

(* The cancel of a pipeline whose stage is running is the cancel of that   *)
(* stage: run_one_stage never records it as completed.                     *)
THEOREM CancelAlwaysReaches == Spec => []CancelReachesStage
BY IndInvHolds, PTL DEF IndInv

(* No step rewrites a final row or a settled stage. *)
FinalStays == (row \in FinalRows) => UNCHANGED row
SettledStays == \A i \in Stages : Settled(i) => stages'[i] = stages[i]

(* Both hold of every step from a state of IndInv. *)
LEMMA StepStands == IndInv /\ [Next]_vars => FinalStays /\ SettledStays
<1> SUFFICES ASSUME IndInv, [Next]_vars PROVE FinalStays /\ SettledStays
  OBVIOUS
<1>0. /\ Position /\ RowTracksLoop
      /\ pc \in LoopPcs => idx \in Stages /\ idx \in 1 .. NumStages
  BY InLoop DEF IndInv
<1>1. FinalStays
  <2>1. UNCHANGED row \/ row \notin FinalRows
    BY <1>0 DEF RowTracksLoop, LoopPcs, FinalRows, Next, Task, vars, table, loop,
      StartPipeline, StageHead, ReuseStage, NotReusable, CreateStage, PrepareRun, AdapterMissing,
      ExecutorDecides, ExecutorReturns, ExecutorFails, CreateArtifact, CompleteStage, AddCost, FinishLoop, Cleanup,
      SetFailed, StorageError, CancelPipeline, Crash
  <2> QED
    BY <2>1 DEF FinalStays
<1>2. ASSUME pc \in LoopPcs, pc # "addCost",
             NEW mark, NEW input, NEW output, NEW artifact, NEW cost,
             RowWritten(mark, input, output, artifact, cost)
      PROVE  SettledStays
  <2>1. ~ Settled(idx)
    BY <1>0, <1>2, NoRowFields DEF Position, LoopPcs, Settled, Verdicts
  <2> QED
    BY <1>2, <2>1 DEF RowWritten, SettledStays
<1>3. ASSUME UNCHANGED stages PROVE SettledStays
  BY <1>3 DEF SettledStays
<1>4. CASE ReuseStage \/ CreateStage \/ CompleteStage
  <2>1. pc \in LoopPcs /\ pc # "addCost"
    BY <1>4 DEF ReuseStage, CreateStage, CompleteStage, LoopPcs
  <2> QED
    BY <1>1, <1>2, <1>4, <2>1, Writes
<1>5. CASE AdapterMissing \/ ExecutorFails
  <2>1. pc \in LoopPcs /\ pc # "addCost"
    BY <1>5 DEF AdapterMissing, ExecutorFails, LoopPcs
  <2> QED
    BY <1>1, <1>2, <1>3, <1>5, <2>1, Writes
<1>6. CASE StageHead
  BY <1>1, <1>3, <1>6, HeadGoesOn
<1>7. CASE \/ StartPipeline \/ NotReusable \/ PrepareRun \/ ExecutorDecides
            \/ ExecutorReturns \/ CreateArtifact
           \/ AddCost \/ FinishLoop \/ Cleanup \/ SetFailed
           \/ StorageError \/ CancelPipeline \/ Crash \/ UNCHANGED vars
  BY <1>1, <1>3, <1>7 DEF StartPipeline, NotReusable, PrepareRun, ExecutorDecides,
      ExecutorReturns, CreateArtifact,
    AddCost, FinishLoop, Cleanup, SetFailed, StorageError, CancelPipeline, Crash, vars, table
<1> QED
  BY <1>4, <1>5, <1>6, <1>7 DEF Next, Task

(* No later error, cancel or failed stage rewrites the verdict of a        *)
(* pipeline or of a stage: there is no rollback (pipeline_orchestrator.rs).*)
THEOREM SettledAlwaysStable == Spec => SettledStable
<1>1. IndInv /\ [Next]_vars => [FinalStays]_vars /\ [SettledStays]_vars
  BY StepStands
<1>2. Spec => [][FinalStays]_vars /\ [][SettledStays]_vars
  BY <1>1, IndInvHolds, PTL DEF Spec
<1> QED
  BY <1>2 DEF SettledStable, FinalRowStable, SettledStageStable, FinalStays, SettledStays


-----------------------------------------------------------------------------
(* The round with the provider: its inductive invariant.                   *)

Items == [kind : {"bytes"}, from : Nat \ {0}, to : Nat] \union
         [kind : {"error", "cancelled"}, from : {0}, to : {0}]

\* What is on its way from the server to the parser.
Coming == channel \o held

\* The bytes that the parser was fed.
Arrived == IF Coming = <<>> \/ Coming[1].kind # "bytes" THEN sent ELSE Coming[1].from - 1

\* An item's bytes end where those of the next one begin.
UpTo(i) == IF i < Len(Coming) /\ Coming[i + 1].kind = "bytes" THEN Coming[i + 1].from - 1 ELSE sent

Dones == {"done_stop", "done_tool_calls", "done_error"}

StreamTyped ==
  /\ script \in Scripts
  /\ sent \in 0 .. Len(Bytes[script])
  /\ channel \in Seq(Items) /\ held \in Seq(Items)
  /\ receiving \in BOOLEAN /\ (verdict = "running" => receiving) /\ (~ receiving => channel = <<>>)

ItemsInv ==
  /\ task \in {"requesting", "reading", "over"} => held = <<>>
  /\ verdict = "running" =>
       \A i \in 1 .. Len(Coming) :
         IF Coming[i].kind = "bytes"
         THEN Coming[i].from <= Coming[i].to /\ Coming[i].to <= sent /\ Coming[i].to = UpTo(i)
         ELSE i = Len(Coming) /\ task \in {"last", "over"}

\* The events of a script of which its adapter makes an end.
Closes(s, ev) ==
  IF s.wire = "openai" THEN Ends(ev)
  ELSE \/ ev.kind \in {"content_block_stop", "message_stop"}
       \/ ev.kind = "message_delta" /\ ~ ev.usage

\* The buffer b is what follows the e-th event, up to byte p.
Holds(b, s, e, p) ==
  /\ e \in Nat /\ p \in Nat /\ e * Width(s) <= p /\ p <= Len(s.events) * Width(s)
  /\ b = SubSeq(Bytes[s], e * Width(s) + 1, p)

\* The answer txt and the ready events rdy say what the first e events say:
\* the i-th ready event brings the text to where it was after event at[i].
\* The first end among them comes when the text is whole, unless the answer
\* has several blocks, and there is one if an event that makes one was parsed.
Kept(s, rdy, txt, e, at) ==
  LET said == Said(s.events)
  IN  /\ at[Len(rdy)] = e /\ txt = said[at[0]]
      /\ \A i \in 1 .. Len(rdy) :
            said[at[i]] = IF rdy[i].kind = "delta" THEN Append(said[at[i - 1]], rdy[i].text)
                          ELSE said[at[i - 1]]
      /\ \A i \in 1 .. Len(rdy) :
            rdy[i].kind \in Dones /\ (\A j \in 1 .. (i - 1) : rdy[j].kind \notin Dones) =>
                SeveralBlocks(s) \/ said[at[i - 1]] = said[FirstEnd(s.events)]
      /\ (\E n \in 1 .. e : Closes(s, s.events[n])) => \E i \in 1 .. Len(rdy) : rdy[i].kind \in Dones

FlowInv ==
  verdict = "running" =>
    /\ ready \in Seq(Range(ready)) /\ IsFiniteSet(DOMAIN partials)
    /\ \E e \in 0 .. Len(script.events) :
          /\ Holds(buf, script, e, Arrived)
          /\ \E at \in [0 .. Len(ready) -> 0 .. Len(script.events)] :
                 Kept(script, ready, content, e, at)

StreamInv == StreamTyped /\ ItemsInv /\ FlowInv /\ AnswerIsPrefix

-----------------------------------------------------------------------------
(* The bytes, the parser and the texts.                                    *)

(* A sequence is one of its own elements. *)
LEMMA OfItsRange ==
  ASSUME NEW D, NEW s \in Seq(D)
  PROVE  s \in Seq(Range(s)) /\ \A i \in 1 .. Len(s) : s[i] \in Range(s)
<1>1. Len(s) \in Nat /\ DOMAIN s = 1 .. Len(s) /\ s = [i \in 1 .. Len(s) |-> s[i]]
  OBVIOUS
<1>2. \A i \in 1 .. Len(s) : s[i] \in Range(s)
  BY <1>1 DEF Range
<1> HIDE DEF Range
<1>3. s \in [1 .. Len(s) -> Range(s)]
  BY <1>1, <1>2
<1> QED
  BY <1>1, <1>2, <1>3

(* The shape of a script. *)
LEMMA ScriptShape ==
  ASSUME NEW s \in Scripts
  PROVE  /\ s.events \in Seq(Events) /\ Len(s.events) \in Nat
         /\ s.wire \in {"openai", "anthropic"}
         /\ \/ s.delim = "lf" /\ Width(s) = 4
            \/ s.delim = "crlf" /\ Width(s) = 6
<1>1. s \in Responses
  BY StreamAssumption
<1>2. s.events \in Seq(Events) /\ s.wire \in {"openai", "anthropic"} /\ s.delim \in {"lf", "crlf"}
  BY <1>1 DEF Responses
<1>3. 2 + Len(Delim("lf")) = 4 /\ 2 + Len(Delim("crlf")) = 6
  BY DEF Delim
<1>4. Len(s.events) \in Nat
  BY <1>2
<1>5. CASE s.delim = "lf"
  <2>1. Width(s) = 2 + Len(Delim("lf"))
    BY <1>5, Zenon DEF Width
  <2>2. Width(s) = 4
    BY <1>3, <2>1, Zenon
  <2> QED
    BY <1>2, <1>4, <1>5, <2>2
<1>6. CASE s.delim = "crlf"
  <2>1. Width(s) = 2 + Len(Delim("crlf"))
    BY <1>6, Zenon DEF Width
  <2>2. Width(s) = 6
    BY <1>3, <2>1, Zenon
  <2> QED
    BY <1>2, <1>4, <1>6, <2>2
<1> QED
  BY <1>2, <1>5, <1>6

(* The r-th byte of the e-th event. *)
LEMMA ByteOf ==
  ASSUME NEW s \in Scripts, NEW e \in Nat, e < Len(s.events), NEW r \in 1 .. Width(s)
  PROVE  /\ e * Width(s) + r \in 1 .. Len(s.events) * Width(s)
         /\ Bytes[s][e * Width(s) + r] = Piece(s, e + 1)[r]
<1> DEFINE W == Width(s)
           p == e * W + r
<1>1. W \in {4, 6} /\ Len(s.events) \in Nat
  BY ScriptShape
<1>2. /\ p \in 1 .. Len(s.events) * W
      /\ (p - 1) \div W = e
      /\ 1 + ((p - 1) % W) = r
  <2>1. CASE W = 4
    <3>1. r \in 1 .. 4
      BY <2>1
    <3> QED
      BY <1>1, <2>1, <3>1
  <2>2. CASE W = 6
    <3>1. r \in 1 .. 6
      BY <2>2
    <3> QED
      BY <1>1, <2>2, <3>1
  <2> QED
    BY <1>1, <2>1, <2>2
<1>3. Bytes[s][p] = Piece(s, 1 + (p - 1) \div W)[1 + ((p - 1) % W)]
  BY <1>2 DEF Bytes
<1>4. 1 + e = e + 1
  OBVIOUS
<1> QED
  BY <1>2, <1>3, <1>4

(* The bytes of an event: two halves of a line, then a blank line. *)
LEMMA PieceShape ==
  ASSUME NEW s \in Scripts, NEW e
  PROVE  /\ Piece(s, e)[1] = Half(s.events[e].kind, e, 1)
         /\ Piece(s, e)[2] = Half(s.events[e].kind, e, 2)
         /\ s.delim = "lf" => Piece(s, e)[3] = LF /\ Piece(s, e)[4] = LF
         /\ s.delim = "crlf" => /\ Piece(s, e)[3] = CR /\ Piece(s, e)[4] = LF
                                /\ Piece(s, e)[5] = CR /\ Piece(s, e)[6] = LF
         /\ LF # CR
         /\ \A h : /\ Half(s.events[e].kind, e, h).c \in {"data", "comment"}
                   /\ Half(s.events[e].kind, e, h) # LF /\ Half(s.events[e].kind, e, h) # CR
<1>1. \A h : /\ Half(s.events[e].kind, e, h).c \in {"data", "comment"}
             /\ LF.c \notin {"data", "comment"} /\ CR.c \notin {"data", "comment"}
  BY DEF Half, LF, CR
<1>2. LF # CR
  BY DEF LF, CR
<1> DEFINE H1 == Half(s.events[e].kind, e, 1)
           H2 == Half(s.events[e].kind, e, 2)
<1> HIDE DEF H1, H2
<1>3. CASE s.delim = "lf"
  <2>1. Piece(s, e) = <<H1, H2>> \o <<LF, LF>>
    BY <1>3 DEF Piece, Delim, H1, H2
  <2>2. /\ Piece(s, e)[1] = H1 /\ Piece(s, e)[2] = H2
        /\ Piece(s, e)[3] = LF /\ Piece(s, e)[4] = LF
    BY <2>1
  <2> QED
    BY <1>1, <1>2, <1>3, <2>2, Zenon DEF H1, H2
<1>4. CASE s.delim = "crlf"
  <2>1. Piece(s, e) = <<H1, H2>> \o <<CR, LF, CR, LF>>
    BY <1>4 DEF Piece, Delim, H1, H2
  <2>2. /\ Piece(s, e)[1] = H1 /\ Piece(s, e)[2] = H2
        /\ Piece(s, e)[3] = CR /\ Piece(s, e)[4] = LF
        /\ Piece(s, e)[5] = CR /\ Piece(s, e)[6] = LF
    BY <2>1
  <2> QED
    BY <1>1, <1>2, <1>4, <2>2, Zenon DEF H1, H2
<1> QED
  BY <1>3, <1>4, ScriptShape

(* What is in such a buffer. *)
LEMMA Buffer ==
  ASSUME NEW s \in Scripts, NEW b, NEW e, NEW p, Holds(b, s, e, p)
  PROVE  /\ e \in Nat /\ p \in Nat /\ Len(b) \in Nat /\ e * Width(s) \in Nat
         /\ Len(b) = p - e * Width(s) /\ DOMAIN b = 1 .. Len(b)
         /\ Len(b) > 0 => e < Len(s.events)
         /\ \A i \in 1 .. Len(b) : i <= Width(s) => b[i] = Piece(s, e + 1)[i]
         /\ \A i \in 1 .. Len(b) : b[i] = Bytes[s][e * Width(s) + i]
<1> DEFINE W == Width(s)
           q == e * W
<1>1. W \in {4, 6} /\ Len(s.events) \in Nat
  BY ScriptShape
<1>2. /\ e \in Nat /\ p \in Nat /\ q <= p /\ p <= Len(s.events) * W
      /\ b = SubSeq(Bytes[s], q + 1, p)
  BY DEF Holds
<1>3. q \in Nat /\ (p > q => e < Len(s.events))
  <2>1. CASE W = 4
    BY <1>1, <1>2, <2>1
  <2>2. CASE W = 6
    BY <1>1, <1>2, <2>2
  <2> QED
    BY <1>1, <2>1, <2>2
<1> HIDE DEF q
<1>4. b = [i \in 1 .. p - q |-> Bytes[s][q + i]]
  BY <1>2, <1>3
<1>5. Len(b) = p - q /\ DOMAIN b = 1 .. Len(b) /\ Len(b) \in Nat
  BY <1>2, <1>3, <1>4
<1>6. \A i \in 1 .. Len(b) : b[i] = Bytes[s][q + i]
  BY <1>4, <1>5
<1>7. ASSUME NEW i \in 1 .. Len(b), i <= W
      PROVE  b[i] = Piece(s, e + 1)[i]
  <2>1. i \in 1 .. W /\ e < Len(s.events)
    BY <1>1, <1>2, <1>3, <1>5, <1>7
  <2>2. Bytes[s][q + i] = Piece(s, e + 1)[i]
    BY <1>2, <2>1, ByteOf DEF q
  <2> QED
    BY <1>6, <2>2
<1> QED
  BY <1>2, <1>3, <1>5, <1>6, <1>7 DEF q

(* The least of a set of numbers is the one that CHOOSE takes. *)
LEMMA Least ==
  ASSUME NEW T \in SUBSET Nat, NEW m \in T, \A j \in T : m <= j
  PROVE  (CHOOSE i \in T : \A j \in T : i <= j) = m
<1> DEFINE c == CHOOSE i \in T : \A j \in T : i <= j
<1>1. c \in T /\ \A j \in T : c <= j
  OBVIOUS
<1>2. c <= m /\ m <= c /\ c \in Nat /\ m \in Nat
  BY <1>1
<1> QED
  BY <1>2

(* The parser finds the blank line of the first event in its buffer when   *)
(* it is there as a whole, and no other one before.                        *)
LEMMA Boundary ==
  ASSUME NEW s \in Scripts, NEW b, NEW e, NEW p, Holds(b, s, e, p)
  PROVE  find_event_boundary(b) = IF Len(b) >= Width(s) THEN 3 ELSE 0
<1> DEFINE n == Len(b)
           P == Piece(s, e + 1)
           lfs == {i \in 1 .. n - 1 : b[i] = LF /\ b[i + 1] = LF}
           at == {i \in 1 .. n - 1 :
                    \/ b[i] = LF /\ b[i + 1] = LF
                    \/ i + 3 <= n /\ SubSeq(b, i, i + 3) = <<CR, LF, CR, LF>>}
<1>1. /\ n \in Nat /\ DOMAIN b = 1 .. n
      /\ \A i \in 1 .. n : i <= Width(s) => b[i] = P[i]
  BY Buffer
<1>2. /\ P[1] # LF /\ P[1] # CR /\ P[2] # LF /\ P[2] # CR
      /\ s.delim = "lf" => P[3] = LF /\ P[4] = LF
      /\ s.delim = "crlf" => P[3] = CR /\ P[4] = LF /\ P[5] = CR /\ P[6] = LF
      /\ LF # CR
  BY PieceShape
<1> HIDE DEF n, P
<1>3. ASSUME NEW i \in 1 .. n - 1, i + 3 <= n
      PROVE  SubSeq(b, i, i + 3) = <<CR, LF, CR, LF>> <=>
               b[i] = CR /\ b[i + 1] = LF /\ b[i + 2] = CR /\ b[i + 3] = LF
  <2> DEFINE F == SubSeq(b, i, i + 3)
             G == <<CR, LF, CR, LF>>
  <2>1. /\ i + 1 - 1 = i /\ i + 2 - 1 = i + 1 /\ i + 3 - 1 = i + 2 /\ i + 4 - 1 = i + 3
        /\ \A k \in 1 .. 4 : k = 1 \/ k = 2 \/ k = 3 \/ k = 4
    BY <1>1
  <2>2. F = [k \in 1 .. 4 |-> b[i + k - 1]]
    BY <1>1, <1>3
  <2>3. F = [k \in 1 .. 4 |-> F[k]] /\ \A k \in 1 .. 4 : F[k] = b[i + k - 1]
    <3> HIDE DEF F
    <3> QED
      BY <2>2
  <2>4. G = [k \in 1 .. 4 |-> G[k]] /\ G[1] = CR /\ G[2] = LF /\ G[3] = CR /\ G[4] = LF
    OBVIOUS
  <2> HIDE DEF F, G
  <2>5. F[1] = b[i] /\ F[2] = b[i + 1] /\ F[3] = b[i + 2] /\ F[4] = b[i + 3]
    BY <2>1, <2>3
  <2>6. F = G <=> \A k \in 1 .. 4 : F[k] = G[k]
    BY <2>3, <2>4
  <2>7. F = G <=> b[i] = CR /\ b[i + 1] = LF /\ b[i + 2] = CR /\ b[i + 3] = LF
    BY <2>1, <2>4, <2>5, <2>6
  <2> QED
    BY <2>7 DEF F, G
<1>4. at \in SUBSET Nat
  BY <1>1
<1>5. CASE s.delim = "lf"
  <2>1. Width(s) = 4
    BY <1>5, ScriptShape
  <2>2. CASE n >= 4
    <3>1. 3 \in at
      BY <1>1, <1>2, <1>5, <2>1, <2>2
    <3>2. \A j \in at : 3 <= j
      BY <1>1, <1>2, <1>3, <1>5, <2>1, <2>2
    <3> HIDE DEF at
    <3>3. (CHOOSE i \in at : \A j \in at : i <= j) = 3
      BY <1>4, <3>1, <3>2, Least
    <3> QED
      BY <2>1, <2>2, <3>1, <3>3 DEF find_event_boundary, at, n
  <2>3. CASE ~ (n >= 4)
    <3>1. at = {}
      BY <1>1, <1>2, <1>5, <2>1, <2>3
    <3> QED
      BY <2>1, <2>3, <3>1 DEF find_event_boundary, n
  <2> QED
    BY <2>2, <2>3
<1>6. CASE s.delim = "crlf"
  <2>1. Width(s) = 6
    BY <1>6, ScriptShape
  <2>2. CASE n >= 6
    <3>1. b[3] = CR /\ b[4] = LF /\ b[5] = CR /\ b[6] = LF
      BY <1>1, <1>2, <1>6, <2>1, <2>2
    <3>2. 3 \in at
      <4>1. 3 \in 1 .. n - 1 /\ 3 + 3 <= n
        BY <1>1, <2>2
      <4> QED
        BY <1>3, <3>1, <4>1
    <3>3. \A j \in at : 3 <= j
      BY <1>1, <1>2, <1>3, <1>6, <2>1, <2>2
    <3> HIDE DEF at
    <3>4. (CHOOSE i \in at : \A j \in at : i <= j) = 3
      BY <1>4, <3>2, <3>3, Least
    <3> QED
      BY <2>1, <2>2, <3>2, <3>4 DEF find_event_boundary, at, n
  <2>3. CASE ~ (n >= 6)
    <3>1. ASSUME NEW i \in at PROVE FALSE
      <4>1. i \in 1 .. n - 1
        OBVIOUS
      <4>2. i \in 1 .. 4 /\ i + 1 \in 1 .. n /\ i + 1 <= 6
        BY <1>1, <2>3, <4>1
      <4>3. ~ (b[i] = LF /\ b[i + 1] = LF)
        <5>1. b[i] = P[i] /\ b[i + 1] = P[i + 1]
          BY <1>1, <2>1, <4>1, <4>2
        <5>2. i = 1 \/ i = 2 \/ i = 3 \/ i = 4
          BY <4>2
        <5> QED
          BY <1>2, <1>6, <5>1, <5>2
      <4>4. i + 3 <= n /\ b[i] = CR
        BY <1>3, <4>1, <4>3
      <4>5. i = 1 \/ i = 2
        BY <1>1, <2>3, <4>2, <4>4
      <4>6. b[i] = P[i]
        BY <1>1, <2>1, <4>2
      <4> QED
        BY <1>2, <4>4, <4>5, <4>6
    <3>2. at = {}
      <4> HIDE DEF at
      <4> QED
        BY <3>1
    <3> QED
      BY <2>1, <2>3, <3>2 DEF find_event_boundary, n
  <2> QED
    BY <2>2, <2>3
<1> QED
  BY <1>5, <1>6, ScriptShape

(* What follows a place of a sequence, up to another. *)
LEMMA Following ==
  ASSUME NEW B, NEW u \in Nat, NEW m \in Nat
  PROVE  SubSeq(B, u + 1, m) = [i \in 1 .. m - u |-> B[u + i]]
OBVIOUS

(* What the parser makes of the bytes before the blank line. *)
LEMMA EventParsed ==
  ASSUME NEW s \in Scripts, NEW b, NEW e, NEW p, Holds(b, s, e, p), Len(b) >= Width(s)
  PROVE  parse_event(SubSeq(b, 1, 3 - 1)) =
           IF s.events[e + 1].kind = "comment" THEN 0 ELSE e + 1
<1> DEFINE k == s.events[e + 1].kind
           H1 == Half(k, e + 1, 1)
           H2 == Half(k, e + 1, 2)
           d == SubSeq(b, 1, 3 - 1)
           data == {i \in DOMAIN d : d[i].c = "data"}
           whole == {i \in data : \E j \in data : /\ data = {i, j} /\ i < j
                                                  /\ d[i].event = d[j].event /\ d[i].half < d[j].half}
<1>1. /\ Len(b) \in Nat /\ DOMAIN b = 1 .. Len(b) /\ e \in Nat /\ Width(s) \in {4, 6}
      /\ \A i \in 1 .. Len(b) : i <= Width(s) => b[i] = Piece(s, e + 1)[i]
  BY Buffer, ScriptShape
<1>2. b[1] = H1 /\ b[2] = H2
  <2>1. 1 \in 1 .. Len(b) /\ 2 \in 1 .. Len(b) /\ 1 <= Width(s) /\ 2 <= Width(s)
    BY <1>1
  <2> QED
    BY <1>1, <2>1, PieceShape
<1>3. DOMAIN d = 1 .. 2 /\ d[1] = H1 /\ d[2] = H2
  <2>1. d = [i \in 1 .. 2 |-> b[i]]
    BY <1>1
  <2> HIDE DEF d, H1, H2
  <2> QED
    BY <1>2, <2>1
<1>4. /\ H1.c = (IF k = "comment" THEN k ELSE "data") /\ H1.event = e + 1 /\ H1.half = 1
      /\ H2.c = (IF k = "comment" THEN k ELSE "data") /\ H2.event = e + 1 /\ H2.half = 2
  BY DEF Half
<1> HIDE DEF d, H1, H2, k
<1>5. CASE k = "comment"
  <2>1. data = {}
    BY <1>3, <1>4, <1>5
  <2> QED
    BY <1>5, <2>1 DEF parse_event, d, k
<1>6. CASE k # "comment"
  <2>1. data = {1, 2}
    BY <1>3, <1>4, <1>6
  <2>2. 1 \in whole
    BY <1>3, <1>4, <2>1
  <2>3. \A i \in whole : d[i].event = e + 1
    BY <1>3, <1>4, <2>1
  <2> HIDE DEF whole
  <2>4. (CHOOSE i \in whole : TRUE) \in whole
    BY <2>2
  <2>5. data # {} /\ whole # {}
    BY <2>1, <2>2
  <2>6. d[CHOOSE i \in whole : TRUE].event = e + 1
    BY <2>3, <2>4
  <2> HIDE DEF data
  <2>7. parse_event(d) = IF data = {} THEN 0
                         ELSE IF whole = {} THEN -1 ELSE d[CHOOSE i \in whole : TRUE].event
    BY DEF parse_event, data, whole
  <2> QED
    BY <1>6, <2>5, <2>6, <2>7 DEF d, k
<1> QED
  BY <1>5, <1>6

(* What it keeps is what follows the event. *)
LEMMA RestKept ==
  ASSUME NEW s \in Scripts, NEW b, NEW e, NEW p, Holds(b, s, e, p), Len(b) >= Width(s)
  PROVE  Holds(Stripped(SubSeq(b, 3, Len(b))), s, e + 1, p)
<1> DEFINE W == Width(s)
           n == Len(b)
           P == Piece(s, e + 1)
           d == SubSeq(b, 3, n)
           at == {i \in DOMAIN d : ~ IsNewline(d[i])}
<1>1. /\ n \in Nat /\ DOMAIN b = 1 .. n /\ e \in Nat /\ p \in Nat /\ W \in {4, 6}
      /\ e * W \in Nat /\ n = p - e * W
      /\ \A i \in 1 .. n : i <= W => b[i] = P[i]
      /\ \A i \in 1 .. n : b[i] = Bytes[s][e * W + i]
      /\ p <= Len(s.events) * W /\ Len(s.events) \in Nat /\ n >= W
  <2>1. W \in {4, 6} /\ Len(s.events) \in Nat
    BY ScriptShape
  <2>2. p <= Len(s.events) * W
    BY DEF Holds
  <2>3. /\ e \in Nat /\ p \in Nat /\ n \in Nat /\ e * W \in Nat
        /\ n = p - e * W /\ DOMAIN b = 1 .. n
    BY Buffer
  <2>4. \A i \in 1 .. n : i <= W => b[i] = P[i]
    BY Buffer
  <2>5. \A i \in 1 .. n : b[i] = Bytes[s][e * W + i]
    BY Buffer
  <2> HIDE DEF n, W, P
  <2>6. n >= W
    BY DEF n, W
  <2> QED
    BY <2>1, <2>2, <2>3, <2>4, <2>5, <2>6, Zenon
<1>2. /\ DOMAIN d = 1 .. n - 2 /\ Len(d) = n - 2
      /\ \A i \in 1 .. n - 2 : d[i] = b[i + 2]
  <2>1. d = [i \in 1 .. n - 2 |-> b[i + 2]]
    BY <1>1
  <2> HIDE DEF d
  <2> QED
    BY <1>1, <2>1
<1>3. /\ s.delim = "lf" => P[3] = LF /\ P[4] = LF
      /\ s.delim = "crlf" => P[3] = CR /\ P[4] = LF /\ P[5] = CR /\ P[6] = LF
      /\ (s.delim = "lf" /\ W = 4) \/ (s.delim = "crlf" /\ W = 6)
  BY PieceShape, ScriptShape
<1>4. (e + 1) * W = e * W + W /\ (e + 1) * W \in Nat
  <2>1. CASE W = 4
    BY <1>1, <2>1
  <2>2. CASE W = 6
    BY <1>1, <2>2
  <2> QED
    BY <1>1, <2>1, <2>2
<1> DEFINE q == e * W
           r == SubSeq(Bytes[s], (e + 1) * W + 1, p)
<1>5. r = SubSeq(Bytes[s], q + W + 1, p)
  BY <1>4
<1> HIDE DEF P, n, d, q, r, W
<1>6. \A i \in 1 .. W - 2 : IsNewline(d[i])
  <2>1. ASSUME NEW i \in 1 .. W - 2 PROVE d[i] = P[i + 2]
    <3>1. i \in 1 .. n - 2 /\ i + 2 \in 1 .. n /\ i + 2 <= W
      BY <1>1
    <3>2. d[i] = b[i + 2]
      BY <1>2, <3>1
    <3>3. b[i + 2] = P[i + 2]
      BY <1>1, <3>1
    <3> QED
      BY <3>2, <3>3
  <2>2. CASE W = 4
    <3>1. \A i \in 1 .. 2 : (i = 1 /\ i + 2 = 3) \/ (i = 2 /\ i + 2 = 4)
      OBVIOUS
    <3> QED
      BY <1>3, <2>1, <2>2, <3>1 DEF IsNewline
  <2>3. CASE W = 6
    <3>1. \A i \in 1 .. 4 : \/ i = 1 /\ i + 2 = 3
                            \/ i = 2 /\ i + 2 = 4
                            \/ i = 3 /\ i + 2 = 5
                            \/ i = 4 /\ i + 2 = 6
      OBVIOUS
    <3> QED
      BY <1>3, <2>1, <2>3, <3>1 DEF IsNewline
  <2> QED
    BY <1>1, <2>2, <2>3
<1>7. at \in SUBSET Nat /\ \A j \in at : W - 1 <= j
  BY <1>1, <1>2, <1>6
<1>8. Stripped(d) = r
  <2>1. CASE n = W
    <3>1. at = {}
      BY <1>1, <1>2, <1>6, <2>1
    <3>2. r = <<>>
      <4>1. q + W + 1 = p + 1 /\ q \in Nat
        BY <1>1, <2>1 DEF q
      <4> QED
        BY <1>1, <1>5, <4>1
    <3> QED
      BY <3>1, <3>2 DEF Stripped
  <2>2. CASE n # W
    <3>1. W - 1 \in 1 .. n - 2 /\ W + 1 \in 1 .. n /\ q \in Nat
      BY <1>1, <2>2 DEF q
    <3>2. d[W - 1] = Bytes[s][q + W + 1]
      <4>1. W - 1 + 2 = W + 1 /\ q + (W + 1) = q + W + 1
        BY <1>1, <3>1
      <4>2. d[W - 1] = b[W - 1 + 2]
        BY <1>2, <3>1
      <4>3. b[W + 1] = Bytes[s][q + (W + 1)]
        BY <1>1, <3>1 DEF q
      <4> QED
        BY <4>1, <4>2, <4>3
    <3>3. ~ IsNewline(Bytes[s][q + W + 1])
      <4>1. (e + 1) * Width(s) = q + W /\ e + 1 \in Nat /\ e + 1 < Len(s.events)
        <5>1. q + W < Len(s.events) * W
          BY <1>1, <2>2, <3>1 DEF q
        <5>2. e + 1 < Len(s.events)
          <6>1. CASE W = 4
            BY <1>1, <5>1, <6>1 DEF q
          <6>2. CASE W = 6
            BY <1>1, <5>1, <6>2 DEF q
          <6> QED
            BY <1>1, <6>1, <6>2
        <5> QED
          BY <1>1, <1>4, <5>2 DEF q, W
      <4>2. 1 \in 1 .. Width(s)
        BY <1>1 DEF W
      <4>3. Bytes[s][(e + 1) * Width(s) + 1] = Piece(s, e + 1 + 1)[1]
        BY <4>1, <4>2, ByteOf
      <4>4. Piece(s, e + 1 + 1)[1] # LF /\ Piece(s, e + 1 + 1)[1] # CR
        BY PieceShape
      <4>5. (e + 1) * Width(s) + 1 = q + W + 1
        BY <4>1
      <4> QED
        BY <4>3, <4>4, <4>5 DEF IsNewline
    <3>4. W - 1 \in at
      BY <1>2, <3>1, <3>2, <3>3
    <3> HIDE DEF at
    <3>5. (CHOOSE i \in at : \A j \in at : i <= j) = W - 1
      BY <1>7, <3>4, Least
    <3>6. Stripped(d) = SubSeq(d, W - 1, Len(d))
      BY <3>4, <3>5 DEF Stripped, at
    <3>7. SubSeq(d, W - 1, Len(d)) = [i \in 1 .. n - W |-> d[i + W - 2]]
      BY <1>1, <1>2, <3>1
    <3>8. r = [i \in 1 .. n - W |-> Bytes[s][q + W + i]]
      <4>1. p - (q + W) = n - W /\ q + W \in Nat
        BY <1>1, <3>1 DEF q
      <4> DEFINE u == q + W
      <4> HIDE DEF u
      <4>2. SubSeq(Bytes[s], u + 1, p) = [i \in 1 .. p - u |-> Bytes[s][u + i]]
        <5>1. u \in Nat /\ p \in Nat
          BY <1>1, <4>1 DEF u
        <5> QED
          BY <5>1, Following
      <4>3. r = [i \in 1 .. p - (q + W) |-> Bytes[s][(q + W) + i]]
        BY <1>5, <4>2, Zenon DEF u
      <4> QED
        BY <4>1, <4>3
    <3>9. ASSUME NEW i \in 1 .. n - W PROVE d[i + W - 2] = Bytes[s][q + W + i]
      <4>1. i + W - 2 \in 1 .. n - 2 /\ i + W - 2 + 2 = i + W /\ i + W \in 1 .. n
            /\ q + (i + W) = q + W + i
        BY <1>1, <3>1
      <4>2. d[i + W - 2] = b[i + W - 2 + 2]
        BY <1>2, <4>1
      <4>3. b[i + W] = Bytes[s][q + (i + W)]
        BY <1>1, <4>1 DEF q
      <4> QED
        BY <4>1, <4>2, <4>3
    <3> QED
      BY <3>6, <3>7, <3>8, <3>9
  <2> QED
    BY <2>1, <2>2
<1>9. (e + 1) * W <= p /\ e + 1 \in Nat
  <2>1. n = p - q /\ n >= W /\ q \in Nat /\ p \in Nat /\ W \in Nat /\ (e + 1) * W = q + W
    BY <1>1, <1>4 DEF q
  <2>2. q + W <= p
    BY <2>1
  <2>3. e + 1 \in Nat
    BY <1>1
  <2> QED
    BY <2>1, <2>2, <2>3
<1> QED
  BY <1>1, <1>8, <1>9 DEF Holds, d, r, n, W

(* Two pieces of a sequence, one behind the other. *)
LEMMA Pieces ==
  ASSUME NEW B, NEW q \in Nat, NEW p \in Nat, NEW m \in Nat, q <= p, p <= m
  PROVE  SubSeq(B, q + 1, p) \o SubSeq(B, p + 1, m) = SubSeq(B, q + 1, m)
<1> DEFINE S == {B[i] : i \in 1 .. m}
           b == SubSeq(B, q + 1, p)
           a == SubSeq(B, p + 1, m)
           c == b \o a
<1>1. b = [i \in 1 .. p - q |-> B[q + i]] /\ Len(b) = p - q /\ b \in Seq(S)
  <2>1. b = [i \in 1 .. p - q |-> B[q + i]]
    BY Following
  <2>2. \A i \in 1 .. p - q : B[q + i] \in S
    OBVIOUS
  <2> HIDE DEF S, b
  <2> QED
    BY <2>1, <2>2
<1>2. a = [i \in 1 .. m - p |-> B[p + i]] /\ Len(a) = m - p /\ a \in Seq(S)
  <2>1. a = [i \in 1 .. m - p |-> B[p + i]]
    BY Following
  <2>2. \A i \in 1 .. m - p : B[p + i] \in S
    OBVIOUS
  <2> HIDE DEF S, a
  <2> QED
    BY <2>1, <2>2
<1> HIDE DEF a, b, S
<1>3. /\ c \in Seq(S) /\ Len(c) = m - q
      /\ \A i \in 1 .. m - q : c[i] = IF i <= p - q THEN b[i] ELSE a[i - (p - q)]
  <2>1. b \in Seq(S) /\ a \in Seq(S) /\ Len(b) = p - q /\ Len(a) = m - p
    BY <1>1, <1>2
  <2>2. /\ c \in Seq(S) /\ Len(c) = Len(b) + Len(a)
        /\ \A i \in 1 .. Len(b) + Len(a) :
             c[i] = IF i <= Len(b) THEN b[i] ELSE a[i - Len(b)]
    BY <2>1, ConcatProperties
  <2>3. Len(c) = m - q /\ Len(b) + Len(a) = m - q
    BY <2>1, <2>2
  <2> HIDE DEF c
  <2> QED
    BY <2>1, <2>2, <2>3
<1>4. ASSUME NEW i \in 1 .. m - q PROVE c[i] = B[q + i]
  <2>1. CASE i <= p - q
    BY <1>1, <1>3, <2>1
  <2>2. CASE ~ (i <= p - q)
    <3>1. i - (p - q) \in 1 .. m - p /\ p + (i - (p - q)) = q + i
      BY <2>2
    <3> QED
      BY <1>2, <1>3, <2>2, <3>1
  <2> QED
    BY <2>1, <2>2
<1> HIDE DEF c
<1>5. c = [i \in 1 .. m - q |-> B[q + i]]
  <2>1. c = [i \in 1 .. Len(c) |-> c[i]]
    BY <1>3
  <2> QED
    BY <1>3, <1>4, <2>1
<1>6. SubSeq(B, q + 1, m) = [i \in 1 .. m - q |-> B[q + i]]
  BY Following
<1> QED
  BY <1>5, <1>6 DEF a, b, c

(* Bytes that arrive go to the end of the buffer. *)
LEMMA BytesArrive ==
  ASSUME NEW s \in Scripts, NEW b, NEW e, NEW p, Holds(b, s, e, p),
         NEW m \in Nat, p <= m, m <= Len(s.events) * Width(s)
  PROVE  Holds(Fed(b, SubSeq(Bytes[s], p + 1, m)), s, e, m)
<1> DEFINE q == e * Width(s)
<1>1. e \in Nat /\ p \in Nat /\ q \in Nat /\ q <= p
  BY Buffer DEF Holds
<1>2. b = SubSeq(Bytes[s], q + 1, p)
  BY DEF Holds
<1> HIDE DEF q
<1>3. SubSeq(Bytes[s], q + 1, p) \o SubSeq(Bytes[s], p + 1, m) = SubSeq(Bytes[s], q + 1, m)
  BY <1>1, Pieces
<1>4. q <= m
  BY <1>1
<1> QED
  BY <1>1, <1>2, <1>3, <1>4, Zenon DEF Holds, Fed, q

(* An event without text. *)
Silent(e) == e.text = ""

(* One step of the recursion in Said. *)
Further(before, e) == IF Silent(e) THEN before ELSE Append(before, e.text)
SaidStep(es, said, n) == IF n = 0 THEN <<>> ELSE Further(said[n - 1], es[n])

(* The recursion has a solution up to every length. *)
LEMMA SaidDefined ==
  ASSUME NEW es, NEW n \in Nat
  PROVE  \E f : f = [i \in 0 .. n |-> SaidStep(es, f, i)]
<1> DEFINE Solved(k) == \E f : f = [i \in 0 .. k |-> SaidStep(es, f, i)]
           S == {k \in Nat : Solved(k)}
<1>1. 0 \in S
  <2> DEFINE f == [i \in 0 .. 0 |-> <<>>]
  <2>1. f = [i \in 0 .. 0 |-> SaidStep(es, f, i)]
    BY DEF SaidStep
  <2> QED
    BY <2>1
<1>2. ASSUME NEW k \in S PROVE k + 1 \in S
  <2>1. PICK f : f = [i \in 0 .. k |-> SaidStep(es, f, i)]
    OBVIOUS
  <2> DEFINE g == [i \in 0 .. k + 1 |-> IF i = k + 1 THEN SaidStep(es, f, i) ELSE f[i]]
  <2>2. ASSUME NEW i \in 0 .. k + 1 PROVE g[i] = SaidStep(es, g, i)
    <3>1. CASE i = 0
      BY <2>1, <3>1 DEF SaidStep
    <3>2. CASE i # 0
      <4>1. i - 1 \in 0 .. k /\ i - 1 # k + 1
        BY <3>2
      <4>2. g[i - 1] = f[i - 1]
        BY <4>1
      <4>3. SaidStep(es, g, i) = SaidStep(es, f, i)
        BY <4>2, <3>2 DEF SaidStep
      <4>4. g[i] = SaidStep(es, f, i)
        BY <2>1
      <4> QED
        BY <4>3, <4>4
    <3> QED
      BY <3>1, <3>2
  <2>3. g = [i \in 0 .. k + 1 |-> g[i]]
    OBVIOUS
  <2>4. g = [i \in 0 .. k + 1 |-> SaidStep(es, g, i)]
    <3> HIDE DEF g
    <3> QED
      BY <2>2, <2>3, Zenon
  <2>5. Solved(k + 1)
    <3> HIDE DEF g
    <3> QED
      BY <2>4, Zenon
  <2>6. k + 1 \in Nat
    OBVIOUS
  <2> HIDE DEF Solved
  <2> QED
    BY <2>5, <2>6
<1>3. S = Nat
  <2> HIDE DEF S
  <2>1. S \in SUBSET Nat
    BY DEF S
  <2> QED
    BY <1>1, <1>2, <2>1, Induction
<1> QED
  BY <1>3

LEMMA FurtherTyped ==
  ASSUME NEW t \in Seq(STRING), NEW e \in Events
  PROVE  Further(t, e) \in Seq(STRING)
<1>1. e.text \in STRING
  BY DEF Events
<1>2. ASSUME NEW D, NEW d \in Seq(D), NEW x \in D PROVE Append(d, x) \in Seq(D)
  OBVIOUS
<1>3. Append(t, e.text) \in Seq(STRING)
  BY <1>1, <1>2, Zenon
<1> QED
  BY <1>3, Zenon DEF Further

(* What Said is, event by event. *)
LEMMA SaidIs ==
  ASSUME NEW es \in Seq(Events)
  PROVE  /\ Said(es)[0] = <<>>
         /\ \A n \in 1 .. Len(es) :
              Said(es)[n] = Further(Said(es)[n - 1], es[n])
         /\ \A n \in 0 .. Len(es) : Said(es)[n] \in Seq(STRING)
<1> DEFINE f == CHOOSE f : f = [n \in 0 .. Len(es) |-> SaidStep(es, f, n)]
<1>1. f = [n \in 0 .. Len(es) |-> SaidStep(es, f, n)]
  <2>1. Len(es) \in Nat
    OBVIOUS
  <2> QED
    BY <2>1, SaidDefined
<1>2. Said(es) = f
  BY DEF Said, SaidStep, Further, Silent
<1> HIDE DEF f
<1>3. f[0] = <<>>
  BY <1>1 DEF SaidStep
<1>4. \A n \in 1 .. Len(es) : f[n] = Further(f[n - 1], es[n])
  BY <1>1 DEF SaidStep
<1> DEFINE S == {k \in Nat : k <= Len(es) => f[k] \in Seq(STRING)}
<1>5. 0 \in S
  <2>1. <<>> \in Seq(STRING)
    OBVIOUS
  <2> QED
    BY <1>3, <2>1
<1>6. ASSUME NEW k \in S PROVE k + 1 \in S
  <2>1. SUFFICES ASSUME k + 1 <= Len(es) PROVE f[k + 1] \in Seq(STRING)
    OBVIOUS
  <2>2. k + 1 \in 1 .. Len(es) /\ k + 1 - 1 = k /\ f[k] \in Seq(STRING)
    BY <2>1
  <2>3. es[k + 1] \in Events
    BY <2>2
  <2>4. Further(f[k], es[k + 1]) \in Seq(STRING)
    BY <2>2, <2>3, FurtherTyped
  <2>5. f[k + 1] = Further(f[k], es[k + 1])
    BY <1>4, <2>2
  <2> QED
    BY <2>4, <2>5
<1>7. S = Nat
  <2> HIDE DEF S
  <2>1. S \in SUBSET Nat
    BY DEF S
  <2> QED
    BY <1>5, <1>6, <2>1, Induction
<1> QED
  BY <1>2, <1>3, <1>4, <1>7

(* A longer text begins with the shorter one. *)
LEMMA PrefixAppend ==
  ASSUME NEW D, NEW s \in Seq(D), NEW t \in Seq(D), NEW x \in D, IsPrefix(s, t)
  PROVE  IsPrefix(s, Append(t, x))
<1>1. Len(s) \in Nat /\ Len(t) \in Nat /\ Len(s) <= Len(t) /\ SubSeq(s, 1, Len(s)) = SubSeq(t, 1, Len(s))
  BY DEF IsPrefix
<1>2. /\ Len(Append(t, x)) = Len(t) + 1
      /\ \A i \in 1 .. Len(t) : Append(t, x)[i] = t[i]
  OBVIOUS
<1> DEFINE u == Append(t, x)
           n == Len(s)
<1> HIDE DEF u
<1>3. SubSeq(u, 1, n) = [i \in 1 .. n |-> u[i]] /\ SubSeq(t, 1, n) = [i \in 1 .. n |-> t[i]]
  BY <1>1
<1>4. \A i \in 1 .. n : u[i] = t[i]
  BY <1>1, <1>2 DEF u
<1>5. SubSeq(u, 1, n) = SubSeq(t, 1, n)
  BY <1>3, <1>4
<1> QED
  BY <1>1, <1>2, <1>5 DEF IsPrefix, u

LEMMA PrefixSelf ==
  ASSUME NEW D, NEW s \in Seq(D)
  PROVE  IsPrefix(s, s)
BY DEF IsPrefix

LEMMA PrefixFurther ==
  ASSUME NEW s \in Seq(STRING), NEW t \in Seq(STRING), NEW e \in Events, IsPrefix(s, t)
  PROVE  IsPrefix(s, Further(t, e))
<1>1. e.text \in STRING
  BY DEF Events
<1>2. IsPrefix(s, Append(t, e.text))
  BY <1>1, PrefixAppend, Zenon
<1> QED
  BY <1>2, Zenon DEF Further

(* What was said up to an event is a beginning of what was said later. *)
LEMMA SaidGrows ==
  ASSUME NEW es \in Seq(Events), NEW m \in 0 .. Len(es), NEW n \in m .. Len(es)
  PROVE  IsPrefix(Said(es)[m], Said(es)[n])
<1> DEFINE f == Said(es)
           S == {k \in Nat : m + k <= Len(es) => IsPrefix(f[m], f[m + k])}
<1>1. \A k \in 0 .. Len(es) : f[k] \in Seq(STRING)
  BY SaidIs
<1>2. \A k \in 1 .. Len(es) : f[k] = Further(f[k - 1], es[k])
  BY SaidIs
<1>3. Len(es) \in Nat /\ m \in Nat /\ m <= Len(es)
  OBVIOUS
<1> HIDE DEF f
<1>4. 0 \in S
  <2>1. m + 0 = m /\ f[m] \in Seq(STRING)
    BY <1>1, <1>3
  <2>2. IsPrefix(f[m], f[m])
    BY <2>1, PrefixSelf
  <2> QED
    BY <2>1, <2>2
<1>5. ASSUME NEW k \in S PROVE k + 1 \in S
  <2>1. SUFFICES ASSUME m + (k + 1) <= Len(es) PROVE IsPrefix(f[m], f[m + (k + 1)])
    OBVIOUS
  <2>2. /\ m + k \in 0 .. Len(es) /\ m + (k + 1) \in 1 .. Len(es) /\ m + (k + 1) - 1 = m + k
        /\ m \in 0 .. Len(es)
    BY <1>3, <2>1
  <2>3. IsPrefix(f[m], f[m + k])
    BY <1>3, <2>2
  <2>4. f[m + (k + 1)] = Further(f[m + k], es[m + (k + 1)])
    BY <1>2, <2>2
  <2>5. es[m + (k + 1)] \in Events
    BY <2>2
  <2>6. f[m] \in Seq(STRING) /\ f[m + k] \in Seq(STRING)
    BY <1>1, <2>2
  <2>7. IsPrefix(f[m], Further(f[m + k], es[m + (k + 1)]))
    BY <2>3, <2>5, <2>6, PrefixFurther
  <2> QED
    BY <2>4, <2>7
<1>6. S = Nat
  <2> HIDE DEF S
  <2>1. S \in SUBSET Nat
    BY DEF S
  <2> QED
    BY <1>4, <1>5, <2>1, Induction
<1>7. n - m \in S /\ m + (n - m) = n /\ n <= Len(es)
  <2>1. n - m \in Nat /\ m + (n - m) = n /\ n <= Len(es)
    BY <1>3
  <2> HIDE DEF S
  <2> QED
    BY <1>6, <2>1
<1> QED
  BY <1>7 DEF f

(* Events without text add nothing. *)
LEMMA SaidSame ==
  ASSUME NEW es \in Seq(Events), NEW m \in 0 .. Len(es), NEW n \in m .. Len(es),
         \A i \in 1 .. Len(es) : m < i => Silent(es[i])
  PROVE  Said(es)[m] = Said(es)[n]
<1> DEFINE f == Said(es)
           S == {k \in Nat : m + k <= Len(es) => f[m] = f[m + k]}
<1>1. \A k \in 1 .. Len(es) : f[k] = Further(f[k - 1], es[k])
  BY SaidIs
<1>2. Len(es) \in Nat /\ m \in Nat /\ m <= Len(es)
  OBVIOUS
<1> HIDE DEF f
<1>3. 0 \in S
  BY <1>2
<1>4. ASSUME NEW k \in S PROVE k + 1 \in S
  <2>1. SUFFICES ASSUME m + (k + 1) <= Len(es) PROVE f[m] = f[m + (k + 1)]
    OBVIOUS
  <2>2. /\ m + k <= Len(es) /\ m + (k + 1) \in 1 .. Len(es) /\ m + (k + 1) - 1 = m + k
        /\ m < m + (k + 1)
    BY <1>2, <2>1
  <2>3. f[m + (k + 1)] = Further(f[m + k], es[m + (k + 1)])
    BY <1>1, <2>2
  <2>4. f[m + (k + 1)] = f[m + k]
    BY <2>2, <2>3 DEF Further
  <2> QED
    BY <2>2, <2>4
<1>5. S = Nat
  <2> HIDE DEF S
  <2>1. S \in SUBSET Nat
    BY DEF S
  <2> QED
    BY <1>3, <1>4, <2>1, Induction
<1>6. n - m \in S /\ m + (n - m) = n /\ n <= Len(es)
  <2>1. n - m \in Nat /\ m + (n - m) = n /\ n <= Len(es)
    BY <1>2
  <2> HIDE DEF S
  <2> QED
    BY <1>5, <2>1
<1> QED
  BY <1>6 DEF f

(* One step of the recursion in accumulate. *)
AfterStep(p, tools, after, k) == IF k = 0 THEN p ELSE Joined(after[k - 1], tools[k])

LEMMA AfterDefined ==
  ASSUME NEW p, NEW tools, NEW n \in Nat
  PROVE  \E f : f = [i \in 0 .. n |-> AfterStep(p, tools, f, i)]
<1> DEFINE Solved(k) == \E f : f = [i \in 0 .. k |-> AfterStep(p, tools, f, i)]
           S == {k \in Nat : Solved(k)}
<1>1. 0 \in S
  <2> DEFINE f == [i \in 0 .. 0 |-> p]
  <2>1. f = [i \in 0 .. 0 |-> AfterStep(p, tools, f, i)]
    BY DEF AfterStep
  <2> QED
    BY <2>1
<1>2. ASSUME NEW k \in S PROVE k + 1 \in S
  <2>1. PICK f : f = [i \in 0 .. k |-> AfterStep(p, tools, f, i)]
    OBVIOUS
  <2> DEFINE g == [i \in 0 .. k + 1 |-> IF i = k + 1 THEN AfterStep(p, tools, f, i) ELSE f[i]]
  <2>2. ASSUME NEW i \in 0 .. k + 1 PROVE g[i] = AfterStep(p, tools, g, i)
    <3>1. CASE i = 0
      BY <2>1, <3>1 DEF AfterStep
    <3>2. CASE i # 0
      <4>1. i - 1 \in 0 .. k /\ i - 1 # k + 1
        BY <3>2
      <4>2. g[i - 1] = f[i - 1]
        BY <4>1
      <4>3. AfterStep(p, tools, g, i) = AfterStep(p, tools, f, i)
        BY <4>2, <3>2 DEF AfterStep
      <4>4. g[i] = AfterStep(p, tools, f, i)
        BY <2>1
      <4> QED
        BY <4>3, <4>4
    <3> QED
      BY <3>1, <3>2
  <2>3. g = [i \in 0 .. k + 1 |-> g[i]]
    OBVIOUS
  <2>4. g = [i \in 0 .. k + 1 |-> AfterStep(p, tools, g, i)]
    <3> HIDE DEF g
    <3> QED
      BY <2>2, <2>3, Zenon
  <2>5. Solved(k + 1)
    <3> HIDE DEF g
    <3> QED
      BY <2>4, Zenon
  <2>6. k + 1 \in Nat
    OBVIOUS
  <2> HIDE DEF Solved
  <2> QED
    BY <2>5, <2>6
<1>3. S = Nat
  <2> HIDE DEF S
  <2>1. S \in SUBSET Nat
    BY DEF S
  <2> QED
    BY <1>1, <1>2, <2>1, Induction
<1> QED
  BY <1>3

(* However many fragments come, finitely many calls are under way. *)
LEMMA AfterFinite ==
  ASSUME NEW p, IsFiniteSet(DOMAIN p), NEW tools \in Seq(Fragments), NEW f,
         f = [k \in 0 .. Len(tools) |-> AfterStep(p, tools, f, k)]
  PROVE  \A k \in 0 .. Len(tools) : IsFiniteSet(DOMAIN f[k])
<1> DEFINE S == {k \in Nat : k <= Len(tools) => IsFiniteSet(DOMAIN f[k])}
<1>1. Len(tools) \in Nat
  OBVIOUS
<1>2. 0 \in S
  <2>1. f[0] = p
    BY <1>1 DEF AfterStep
  <2> QED
    BY <2>1
<1>3. ASSUME NEW k \in S PROVE k + 1 \in S
  <2>1. SUFFICES ASSUME k + 1 <= Len(tools) PROVE IsFiniteSet(DOMAIN f[k + 1])
    OBVIOUS
  <2>2. k + 1 \in 0 .. Len(tools) /\ k + 1 # 0 /\ k + 1 - 1 = k /\ IsFiniteSet(DOMAIN f[k])
    BY <1>1, <2>1
  <2>3. f[k + 1] = Joined(f[k], tools[k + 1])
    BY <2>2 DEF AfterStep
  <2>4. DOMAIN Joined(f[k], tools[k + 1]) = DOMAIN f[k] \union {tools[k + 1].index}
    BY DEF Joined
  <2>5. IsFiniteSet(DOMAIN f[k] \union {tools[k + 1].index})
    BY <2>2, FS_AddElement
  <2> QED
    BY <2>3, <2>4, <2>5
<1>4. S = Nat
  <2> HIDE DEF S
  <2>1. S \in SUBSET Nat
    BY DEF S
  <2> QED
    BY <1>2, <1>3, <2>1, Induction
<1> QED
  BY <1>1, <1>4

(* What the accumulator gives out are calls. *)
LEMMA Accumulated ==
  ASSUME NEW p, IsFiniteSet(DOMAIN p), NEW ev \in Events
  PROVE  LET acc == accumulate(p, ev)
         IN  /\ IsFiniteSet(DOMAIN acc.partials)
             /\ acc.calls \in Seq(Range(acc.calls))
             /\ \A i \in 1 .. Len(acc.calls) : acc.calls[i].kind = "call"
<1> DEFINE n == Len(ev.tools)
           f == CHOOSE f : f = [k \in 0 .. n |-> AfterStep(p, ev.tools, f, k)]
           all == f[n]
           complete == {k \in DOMAIN ev.tools : LooksComplete(f[k][ev.tools[k].index])}
           index == ev.tools[CHOOSE k \in complete : \A j \in complete : j <= k].index
           left == IF complete = {} THEN all ELSE [i \in DOMAIN all \ {index} |-> all[i]]
           drained == {i \in DOMAIN left : Named(left[i])}
           nth(k) == CHOOSE i \in drained : Cardinality({j \in drained : j < i}) = k - 1
           first == IF complete = {} THEN <<>> ELSE <<ToolCall(all[index])>>
           others == IF ev.finish = "tool_calls"
                     THEN [k \in 1 .. Cardinality(drained) |-> ToolCall(left[nth(k)])] ELSE <<>>
           rest == IF ev.finish = "tool_calls" THEN <<>> ELSE left
<1>1. ev.tools \in Seq(Fragments) /\ n \in Nat
  BY DEF Events
<1>2. f = [k \in 0 .. n |-> AfterStep(p, ev.tools, f, k)]
  BY <1>1, AfterDefined
<1>3. accumulate(p, ev) = [partials |-> rest, calls |-> first \o others]
  BY DEF accumulate, AfterStep
<1> HIDE DEF f
<1>4. IsFiniteSet(DOMAIN all)
  BY <1>1, <1>2, AfterFinite
<1> HIDE DEF all, complete, index
<1>5. IsFiniteSet(DOMAIN left)
  <2>1. DOMAIN left \subseteq DOMAIN all
    OBVIOUS
  <2> QED
    BY <1>4, <2>1, FS_Subset
<1>6. IsFiniteSet(DOMAIN rest)
  <2>1. DOMAIN <<>> = {}
    OBVIOUS
  <2> HIDE DEF left
  <2> QED
    BY <1>5, <2>1, FS_EmptySet
<1> HIDE DEF left, rest
<1>7. Cardinality(drained) \in Nat
  <2>1. drained \subseteq DOMAIN left
    OBVIOUS
  <2> HIDE DEF drained
  <2>2. IsFiniteSet(drained)
    BY <1>5, <2>1, FS_Subset
  <2> QED
    BY <2>2, FS_CardinalityType
<1> HIDE DEF drained, nth
<1>8. \A c : ToolCall(c).kind = "call"
  BY DEF ToolCall, Ev
<1> DEFINE D == {ToolCall(all[index])} \union {ToolCall(left[nth(k)]) : k \in 1 .. Cardinality(drained)}
<1>9. first \in Seq(D) /\ others \in Seq(D)
  <2> DEFINE m == Cardinality(drained)
             one == ToolCall(all[index])
             other(k) == ToolCall(left[nth(k)])
  <2>1. m \in Nat /\ one \in D /\ \A k \in 1 .. m : other(k) \in D
    BY <1>7
  <2>2. <<>> \in Seq(D)
    OBVIOUS
  <2> HIDE DEF D, m, one, other
  <2>3. <<one>> \in Seq(D)
    BY <2>1
  <2>4. [k \in 1 .. m |-> other(k)] \in Seq(D)
    BY <2>1
  <2>5. first \in Seq(D)
    BY <2>2, <2>3, Zenon DEF one
  <2>6. others \in Seq(D)
    BY <2>2, <2>4, Zenon DEF other, m
  <2> QED
    BY <2>5, <2>6
<1>10. \A d \in D : d.kind = "call"
  BY <1>8
<1> HIDE DEF D, first, others
<1> DEFINE calls == first \o others
<1>11. calls \in Seq(D)
  BY <1>9
<1>12. calls \in Seq(Range(calls)) /\ \A i \in 1 .. Len(calls) : calls[i].kind = "call"
  <2> HIDE DEF calls
  <2>1. \A i \in 1 .. Len(calls) : calls[i] \in D
    BY <1>11
  <2>2. \A i \in 1 .. Len(calls) : calls[i].kind = "call"
    BY <1>10, <2>1, Zenon
  <2> QED
    BY <1>11, <2>2, OfItsRange, Zenon
<1> HIDE DEF calls
<1>13. accumulate(p, ev).partials = rest /\ accumulate(p, ev).calls = calls
  BY <1>3 DEF calls
<1> QED
  BY <1>6, <1>12, <1>13

(* What one event of the server becomes: calls, then at most one more,     *)
(* which is its text or its end when it has one.                           *)
Tells(out, ev) ==
  /\ out \in Seq(Range(out))
  /\ \A i \in 1 .. Len(out) : out[i].kind \in {"delta"} \union Dones => i = Len(out)
  /\ \A i \in 1 .. Len(out) : out[i].kind = "delta" => ~ Silent(ev) /\ out[i].text = ev.text
  /\ \A i \in 1 .. Len(out) : out[i].kind \in Dones => Closes(script, ev)
  /\ ~ Silent(ev) => Len(out) > 0 /\ out[Len(out)].kind = "delta"
  /\ Closes(script, ev) => Len(out) > 0 /\ out[Len(out)].kind \in Dones

(* What an event other than its calls becomes. *)
TellsLast(x, ev) ==
  /\ x.kind = "delta" => ~ Silent(ev) /\ x.text = ev.text
  /\ x.kind \in Dones => Closes(script, ev)
  /\ ~ Silent(ev) => x.kind = "delta"
  /\ Closes(script, ev) => x.kind \in Dones

LEMMA TellsNothing ==
  ASSUME NEW C, NEW calls \in Seq(C), NEW ev,
         \A i \in 1 .. Len(calls) : calls[i].kind = "call", Silent(ev), ~ Closes(script, ev)
  PROVE  Tells(calls \o <<>>, ev)
<1>1. calls \o <<>> = calls
  OBVIOUS
<1>2. calls \in Seq(Range(calls))
  BY OfItsRange
<1>3. "call" \notin {"delta"} \union Dones
  BY DEF Dones
<1> QED
  BY <1>1, <1>2, <1>3 DEF Tells

LEMMA TellsOne ==
  ASSUME NEW C, NEW calls \in Seq(C), NEW ev, NEW x,
         \A i \in 1 .. Len(calls) : calls[i].kind = "call", TellsLast(x, ev)
  PROVE  Tells(calls \o <<x>>, ev)
<1> DEFINE out == calls \o <<x>>
           n == Len(calls)
<1>1. /\ out \in Seq(C \union {x}) /\ Len(out) = n + 1 /\ n \in Nat
      /\ \A i \in 1 .. n : out[i] = calls[i]
      /\ out[n + 1] = x
  OBVIOUS
<1>2. "call" \notin {"delta"} \union Dones
  BY DEF Dones
<1> HIDE DEF out, n
<1>3. out \in Seq(Range(out))
  BY <1>1, OfItsRange
<1>4. \A i \in 1 .. Len(out) : \/ i = Len(out) /\ out[i] = x
                               \/ out[i].kind = "call"
  <2>1. ASSUME NEW i \in 1 .. Len(out), i # n + 1 PROVE out[i].kind = "call"
    <3>1. i \in 1 .. n
      BY <1>1, <2>1
    <3> QED
      BY <1>1, <3>1 DEF n
  <2> QED
    BY <1>1, <2>1
<1>5. out[Len(out)] = x /\ Len(out) > 0
  BY <1>1
<1>6. Tells(out, ev)
  <2>1. \A i \in 1 .. Len(out) : out[i].kind \in {"delta"} \union Dones => i = Len(out)
    BY <1>2, <1>4
  <2>2. \A i \in 1 .. Len(out) : out[i].kind = "delta" => ~ Silent(ev) /\ out[i].text = ev.text
    BY <1>2, <1>4 DEF TellsLast
  <2>3. \A i \in 1 .. Len(out) : out[i].kind \in Dones => Closes(script, ev)
    BY <1>2, <1>4 DEF TellsLast
  <2>4. ~ Silent(ev) => Len(out) > 0 /\ out[Len(out)].kind = "delta"
    BY <1>5 DEF TellsLast
  <2>5. Closes(script, ev) => Len(out) > 0 /\ out[Len(out)].kind \in Dones
    BY <1>5 DEF TellsLast
  <2> QED
    BY <1>3, <2>1, <2>2, <2>3, <2>4, <2>5 DEF Tells
<1> QED
  BY <1>6 DEF out

(* The events of the adapters. *)
LEMMA Kinds ==
  /\ \A k : Ev(k).kind = k
  /\ \A t : Delta(t).kind = "delta" /\ Delta(t).text = t
  /\ \A c : ToolCall(c).kind = "call"
  /\ \A r : Stop(r).kind \in Dones
  /\ "delta" \notin Dones /\ "call" \notin Dones /\ "usage" \notin Dones /\ "error" \notin Dones
BY DEF Ev, Delta, ToolCall, Stop, Dones

(* An event of a script keeps to what its API documents. *)
LEMMA EventShape ==
  ASSUME script \in Scripts, NEW e \in 1 .. Len(script.events)
  PROVE  /\ script.events[e] \in Events
         /\ script.wire = "openai" => OpenAiEvent(script.events[e])
         /\ script.wire # "openai" => AnthropicEvent(script.events[e])
<1>1. script.events \in Seq(Events)
  BY ScriptShape
<1>2. DOMAIN script.events = 1 .. Len(script.events) /\ script.events[e] \in Events
  BY <1>1
<1>3. IF script.wire = "openai" THEN OpenAiEvent(script.events[e]) ELSE AnthropicEvent(script.events[e])
  BY <1>2, StreamAssumption, Zenon
<1> QED
  BY <1>2, <1>3

(* The OpenAI translation. *)
LEMMA OpenAiTells ==
  ASSUME script.wire = "openai", NEW ev \in Events, OpenAiEvent(ev),
         NEW C, NEW calls \in Seq(C), \A i \in 1 .. Len(calls) : calls[i].kind = "call"
  PROVE  Tells(calls \o openai_compat_translate(ev), ev)
<1> DEFINE named == {k \in DOMAIN ev.tools : FullyNamed(ev.tools[k])}
           first == ev.tools[CHOOSE k \in named : \A j \in named : k <= j]
           c == [id |-> first.id, name |-> NameOf(first),
                 args |-> IF first.keyed THEN first.args ELSE EmptyObject]
<1>1. openai_compat_translate(ev) =
        IF ev.text # "" THEN <<Delta(ev.text)>>
        ELSE IF named # {} THEN <<ToolCall(c)>>
        ELSE IF ev.finish # "" THEN <<Stop(ev.finish)>>
        ELSE IF ev.usage THEN <<Ev("usage")>> ELSE <<>>
  BY DEF openai_compat_translate
<1>2. Closes(script, ev) <=> Ends(ev)
  BY DEF Closes
<1>3. ev.text # "" <=> ~ Silent(ev)
  BY DEF Silent
<1>4. Ends(ev) => Silent(ev) /\ named = {}
  BY <1>3 DEF OpenAiEvent
<1>5. Ends(ev) <=> ev.finish # ""
  BY DEF Ends, OpenAiEvent
<1> HIDE DEF named, c
<1>6. CASE ev.text # ""
  <2>1. TellsLast(Delta(ev.text), ev)
    BY <1>2, <1>3, <1>4, <1>6, Kinds DEF TellsLast
  <2> QED
    BY <1>1, <1>6, <2>1, TellsOne, Zenon
<1>7. CASE ev.text = "" /\ named # {}
  <2>1. TellsLast(ToolCall(c), ev)
    BY <1>2, <1>3, <1>4, <1>7, Kinds DEF TellsLast
  <2> QED
    BY <1>1, <1>7, <2>1, TellsOne, Zenon
<1>8. CASE ev.text = "" /\ named = {} /\ ev.finish # ""
  <2>1. TellsLast(Stop(ev.finish), ev)
    BY <1>2, <1>3, <1>5, <1>8, Kinds DEF TellsLast
  <2> QED
    BY <1>1, <1>8, <2>1, TellsOne, Zenon
<1>9. CASE ev.text = "" /\ named = {} /\ ev.finish = "" /\ ev.usage
  <2>1. TellsLast(Ev("usage"), ev)
    BY <1>2, <1>3, <1>5, <1>9, Kinds DEF TellsLast
  <2> QED
    BY <1>1, <1>9, <2>1, TellsOne, Zenon
<1>10. CASE ev.text = "" /\ named = {} /\ ev.finish = "" /\ ~ ev.usage
  <2>1. Silent(ev) /\ ~ Closes(script, ev)
    BY <1>2, <1>3, <1>5, <1>10
  <2> QED
    BY <1>1, <1>10, <2>1, TellsNothing, Zenon
<1> QED
  BY <1>6, <1>7, <1>8, <1>9, <1>10

(* The Anthropic translation. *)
LEMMA AnthropicTells ==
  ASSUME script.wire # "openai", NEW ev \in Events, AnthropicEvent(ev)
  PROVE  Tells(<<>> \o translate_anthropic_event(ev), ev)
<1> DEFINE t == translate_anthropic_event(ev)
<1>1. Closes(script, ev) <=> \/ ev.kind \in {"content_block_stop", "message_stop"}
                             \/ ev.kind = "message_delta" /\ ~ ev.usage
  BY DEF Closes
<1>2. ev.text # "" <=> ~ Silent(ev)
  BY DEF Silent
<1>3. ~ Silent(ev) => ev.kind = "content_block_delta"
  BY <1>2 DEF AnthropicEvent
<1>4. <<>> \in Seq({}) /\ \A i \in 1 .. Len(<<>>) : <<>>[i].kind = "call"
  OBVIOUS
<1>5. \A x : TellsLast(x, ev) => Tells(<<>> \o <<x>>, ev)
  BY <1>4, TellsOne, Zenon
<1>6. Silent(ev) /\ ~ Closes(script, ev) => Tells(<<>> \o <<>>, ev)
  BY <1>4, TellsNothing, Zenon
<1>7. CASE ev.kind = "content_block_delta"
  <2>1. t = IF ev.text = "" THEN <<>> ELSE <<Delta(ev.text)>>
    BY <1>7 DEF translate_anthropic_event
  <2>2. ev.text # "" => TellsLast(Delta(ev.text), ev)
    BY <1>1, <1>2, <1>3, <1>7, Kinds DEF TellsLast
  <2>3. ~ Closes(script, ev)
    BY <1>1, <1>3, <1>7
  <2> QED
    BY <1>2, <1>5, <1>6, <2>1, <2>2, <2>3, Zenon
<1>8. CASE ev.kind = "message_delta"
  <2>1. t = IF ev.usage THEN <<Ev("usage")>> ELSE <<Stop(ev.finish)>>
    BY <1>8 DEF translate_anthropic_event
  <2>2. Silent(ev) /\ (Closes(script, ev) <=> ~ ev.usage)
    BY <1>1, <1>3, <1>8
  <2>3. ev.usage => TellsLast(Ev("usage"), ev)
    BY <2>2, Kinds DEF TellsLast
  <2>4. ~ ev.usage => TellsLast(Stop(ev.finish), ev)
    BY <2>2, Kinds DEF TellsLast
  <2> QED
    BY <1>5, <2>1, <2>3, <2>4, Zenon
<1>9. CASE ev.kind \in {"content_block_stop", "message_stop"}
  <2>1. t = <<Stop("stop")>>
    BY <1>9 DEF translate_anthropic_event
  <2>2. TellsLast(Stop("stop"), ev)
    BY <1>1, <1>3, <1>9, Kinds DEF TellsLast
  <2> QED
    BY <1>5, <2>1, <2>2, Zenon
<1>10. CASE ev.kind = "garbage"
  <2>1. t = <<Ev("error")>>
    BY <1>10 DEF translate_anthropic_event
  <2>2. TellsLast(Ev("error"), ev)
    BY <1>1, <1>3, <1>10, Kinds DEF TellsLast
  <2> QED
    BY <1>5, <2>1, <2>2, Zenon
<1>11. CASE ev.kind \notin {"content_block_delta", "message_delta", "content_block_stop",
                            "message_stop", "garbage"}
  <2>1. t = <<>>
    BY <1>11 DEF translate_anthropic_event
  <2>2. Silent(ev) /\ ~ Closes(script, ev)
    BY <1>1, <1>3, <1>11
  <2> QED
    BY <1>6, <2>1, <2>2, Zenon
<1> QED
  BY <1>7, <1>8, <1>9, <1>10, <1>11

(* What the adapter makes of a parsed event tells the event. *)
LEMMA EventTold ==
  ASSUME script \in Scripts, NEW e \in 1 .. Len(script.events),
         NEW p, IsFiniteSet(DOMAIN p)
  PROVE  LET one == OneEvent(p, IF script.events[e].kind = "comment" THEN 0 ELSE e)
         IN  Tells(one.out, script.events[e]) /\ IsFiniteSet(DOMAIN one.partials)
<1> DEFINE ev == script.events[e]
           acc == accumulate(p, ev)
<1>1. /\ ev \in Events
      /\ script.wire = "openai" => OpenAiEvent(ev)
      /\ script.wire # "openai" => AnthropicEvent(ev)
  BY EventShape
<1>2. /\ <<>> \in Seq({}) /\ \A i \in 1 .. Len(<<>>) : <<>>[i].kind = "call"
      /\ \A S, s : s \in Seq(S) => <<>> \o s = s
  OBVIOUS
<1>3. e # 0 /\ e # -1
  OBVIOUS
<1> HIDE DEF ev
<1>4. ASSUME ev.kind # "chunk", script.wire = "openai" PROVE Silent(ev) /\ ~ Closes(script, ev)
  BY <1>1, <1>4 DEF OpenAiEvent, Silent, Closes
<1>5. CASE ev.kind = "comment"
  <2>1. OneEvent(p, 0) = [partials |-> p, out |-> <<>>]
    BY DEF OneEvent
  <2>2. Silent(ev) /\ ~ Closes(script, ev)
    <3>1. CASE script.wire = "openai"
      BY <1>4, <1>5, <3>1
    <3>2. CASE script.wire # "openai"
      BY <1>1, <1>5, <3>2 DEF AnthropicEvent, Silent, Closes, Ends
    <3> QED
      BY <3>1, <3>2
  <2>3. Tells(<<>> \o <<>>, ev)
    BY <1>2, <2>2, TellsNothing, Zenon
  <2>4. <<>> \o <<>> = <<>>
    OBVIOUS
  <2> QED
    BY <1>5, <2>1, <2>3, <2>4 DEF ev
<1>6. CASE ev.kind # "comment"
  <2>1. CASE script.wire # "openai"
    <3>1. script.wire = "anthropic"
      BY <2>1, ScriptShape
    <3>2. OneEvent(p, e) = [partials |-> p, out |-> translate_anthropic_event(ev)]
      BY <1>3, <3>1 DEF OneEvent, ev
    <3>3. Tells(<<>> \o translate_anthropic_event(ev), ev)
      BY <1>1, <2>1, AnthropicTells
    <3>4. <<>> \o translate_anthropic_event(ev) = translate_anthropic_event(ev)
      BY DEF translate_anthropic_event
    <3> QED
      BY <1>6, <3>2, <3>3, <3>4 DEF ev
  <2>2. CASE script.wire = "openai" /\ ev.kind \in {"marker", "garbage"}
    <3>1. OneEvent(p, e) = [partials |-> p, out |-> <<Ev("error")>>]
      BY <1>3, <2>2 DEF OneEvent, ev
    <3>2. TellsLast(Ev("error"), ev)
      BY <1>4, <2>2, Kinds DEF TellsLast
    <3>3. Tells(<<>> \o <<Ev("error")>>, ev)
      BY <1>2, <3>2, TellsOne, Zenon
    <3>4. <<>> \o <<Ev("error")>> = <<Ev("error")>>
      OBVIOUS
    <3> QED
      BY <1>6, <3>1, <3>3, <3>4 DEF ev
  <2>3. CASE script.wire = "openai" /\ ev.kind \notin {"marker", "garbage"}
    <3>1. OneEvent(p, e) = [partials |-> acc.partials,
                            out |-> acc.calls \o openai_compat_translate(ev)]
      BY <1>3, <2>3 DEF OneEvent, ev
    <3>2. /\ IsFiniteSet(DOMAIN acc.partials) /\ acc.calls \in Seq(Range(acc.calls))
          /\ \A i \in 1 .. Len(acc.calls) : acc.calls[i].kind = "call"
      BY <1>1, Accumulated
    <3> HIDE DEF acc
    <3>3. Tells(acc.calls \o openai_compat_translate(ev), ev)
      BY <1>1, <2>3, <3>2, OpenAiTells
    <3>4. /\ OneEvent(p, e).partials = acc.partials
          /\ OneEvent(p, e).out = acc.calls \o openai_compat_translate(ev)
      BY <3>1
    <3> QED
      BY <1>6, <3>2, <3>3, <3>4, Zenon DEF ev
  <2> QED
    BY <2>1, <2>2, <2>3
<1> QED
  BY <1>5, <1>6

(* The bytes of a script. *)
LEMMA BytesLength ==
  ASSUME NEW s \in Scripts
  PROVE  /\ Len(Bytes[s]) = Len(s.events) * Width(s)
         /\ Len(Bytes[s]) \in Nat
<1>1. Len(s.events) \in Nat /\ Width(s) \in Nat
  BY ScriptShape
<1>2. Len(s.events) * Width(s) \in Nat
  BY <1>1
<1> QED
  BY <1>2 DEF Bytes

LEMMA StreamInitInv == StreamInit => StreamInv
<1> SUFFICES ASSUME StreamInit PROVE StreamInv
  OBVIOUS
<1>1. /\ script \in Scripts /\ sent = 0 /\ task = "requesting" /\ held = <<>> /\ channel = <<>>
      /\ buf = <<>> /\ partials = <<>> /\ ready = <<>> /\ content = <<>>
      /\ verdict = "running" /\ receiving = TRUE
  BY DEF StreamInit
<1>2. script.events \in Seq(Events) /\ Len(script.events) \in Nat
  BY <1>1, ScriptShape
<1>3. Said(script.events)[0] = <<>> /\ \A n \in 0 .. Len(script.events) : Said(script.events)[n] \in Seq(STRING)
  BY <1>2, SaidIs
<1>4. StreamTyped
  <2>1. <<>> \in Seq(Items)
    OBVIOUS
  <2>2. sent \in 0 .. Len(Bytes[script])
    BY <1>1, BytesLength
  <2> QED
    BY <1>1, <2>1, <2>2 DEF StreamTyped
<1>5. Coming = <<>> /\ Len(Coming) = 0
  BY <1>1 DEF Coming
<1>6. ItemsInv
  BY <1>1, <1>5 DEF ItemsInv
<1>7. AnswerIsPrefix
  <2> DEFINE n == Len(script.events)
  <2>1. IsPrefix(content, Said(script.events)[Len(script.events)])
    <3>1. 0 \in 0 .. n /\ n \in 0 .. n
      BY <1>2
    <3>2. IsPrefix(Said(script.events)[0], Said(script.events)[n])
      BY <1>2, <3>1, SaidGrows
    <3> QED
      BY <1>1, <1>3, <3>2, Zenon
  <2>2. ~ (verdict = "done")
    BY <1>1
  <2> QED
    BY <2>1, <2>2, Zenon DEF AnswerIsPrefix
<1>8. Holds(buf, script, 0, Arrived)
  <2>1. 0 * Width(script) = 0 /\ Arrived = 0
    BY <1>1, <1>5, ScriptShape DEF Arrived
  <2>2. SubSeq(Bytes[script], 0 + 1, 0) = <<>>
    OBVIOUS
  <2>3. 0 <= Len(script.events) * Width(script)
    BY <1>1, BytesLength
  <2> QED
    BY <1>1, <2>1, <2>2, <2>3 DEF Holds
<1>9. Kept(script, ready, content, 0, [i \in 0 .. 0 |-> 0])
  BY <1>1, <1>3 DEF Kept
<1>10. Len(ready) = 0 /\ 0 \in 0 .. Len(script.events)
  BY <1>1, <1>2
<1>11. [i \in 0 .. 0 |-> 0] \in [0 .. Len(ready) -> 0 .. Len(script.events)]
  BY <1>10
<1>12. FlowInv
  <2>1. DOMAIN partials = {} /\ <<>> \in Seq(Range(<<>>))
    BY <1>1
  <2> QED
    BY <1>1, <1>8, <1>9, <1>10, <1>11, <2>1, FS_EmptySet DEF FlowInv
<1> QED
  BY <1>4, <1>6, <1>7, <1>12 DEF StreamInv

-----------------------------------------------------------------------------
(* The steps.                                                              *)

(* What is on its way, item by item. *)
LEMMA ComingTyped ==
  ASSUME StreamTyped
  PROVE  Coming \in Seq(Items) /\ Len(Coming) \in Nat
BY DEF StreamTyped, Coming

(* What is on its way is a function of the channel and of what is held. *)
LEMMA ComingSame ==
  ASSUME UNCHANGED <<channel, held, sent>>
  PROVE  Coming' = Coming /\ Arrived' = Arrived /\ \A i : UpTo(i)' = UpTo(i)
BY DEF Coming, Arrived, UpTo

(* A step that touches nothing of what a lemma is about. *)
LEMMA TypedSame ==
  ASSUME StreamTyped, UNCHANGED <<script, sent, channel, held, receiving>>,
         verdict' = "running" => verdict = "running"
  PROVE  StreamTyped'
BY DEF StreamTyped

LEMMA ItemsSame ==
  ASSUME ItemsInv, Coming' = Coming, UNCHANGED sent,
         verdict' = "running" => verdict = "running",
         task' \in {"requesting", "reading", "over"} => held' = <<>>,
         task \in {"last", "over"} => task' \in {"last", "over"}
  PROVE  ItemsInv'
<1> SUFFICES ASSUME verdict' = "running", NEW i \in 1 .. Len(Coming)
             PROVE  (IF Coming[i].kind = "bytes"
                     THEN Coming[i].from <= Coming[i].to /\ Coming[i].to <= sent /\ Coming[i].to = UpTo(i)
                     ELSE i = Len(Coming) /\ task \in {"last", "over"})'
  BY DEF ItemsInv
<1>1. UpTo(i)' = UpTo(i)
  BY DEF UpTo
<1>2. IF Coming[i].kind = "bytes"
      THEN Coming[i].from <= Coming[i].to /\ Coming[i].to <= sent /\ Coming[i].to = UpTo(i)
      ELSE i = Len(Coming) /\ task \in {"last", "over"}
  BY DEF ItemsInv
<1> QED
  BY <1>1, <1>2

LEMMA FlowSame ==
  ASSUME FlowInv, UNCHANGED <<script, buf, partials, ready, content>>, Arrived' = Arrived,
         verdict' = "running" => verdict = "running"
  PROVE  FlowInv'
BY DEF FlowInv

LEMMA AnswerSame ==
  ASSUME AnswerIsPrefix, UNCHANGED <<script, content>>, verdict' = "done" => verdict = "done"
  PROVE  AnswerIsPrefix'
BY DEF AnswerIsPrefix

(* What the task holds goes behind all that is on its way. *)
LEMMA Joins ==
  ASSUME StreamTyped, ItemsInv, task \in {"requesting", "reading"},
         UNCHANGED <<script, channel, receiving, verdict>>,
         sent' \in 0 .. Len(Bytes[script]),
         NEW x \in Items, held' = <<x>>, task' \in {"sending", "last"},
         \/ x.kind = "bytes" /\ x.from = sent + 1 /\ x.to = sent' /\ sent < sent'
         \/ x.kind # "bytes" /\ sent' = sent /\ task' = "last"
  PROVE  StreamTyped' /\ ItemsInv' /\ (verdict = "running" => Arrived' = Arrived)
<1> DEFINE n == Len(Coming)
<1>1. /\ held = <<>> /\ Coming \in Seq(Items) /\ n \in Nat /\ sent \in Nat /\ sent' \in Nat
      /\ \A i \in 1 .. n : Coming[i] \in Items
  BY ComingTyped DEF StreamTyped, ItemsInv
<1>2. Coming' = Append(Coming, x)
  BY <1>1 DEF Coming, StreamTyped
<1> DEFINE c == Coming'
<1>3. /\ Len(c) = n + 1 /\ c[n + 1] = x
      /\ \A i \in 1 .. n : c[i] = Coming[i]
  BY <1>1, <1>2
<1>4. StreamTyped'
  <2>1. <<x>> \in Seq(Items)
    OBVIOUS
  <2> QED
    BY <2>1 DEF StreamTyped
<1>5. ASSUME verdict = "running"
      PROVE  \A i \in 1 .. n : /\ Coming[i].kind = "bytes" /\ Coming[i].from <= Coming[i].to
                               /\ Coming[i].to <= sent /\ Coming[i].to = UpTo(i)
                               /\ Coming[i].to \in Nat
  <2>1. \A i \in 1 .. n : Coming[i].kind = "bytes" => Coming[i].to \in Nat
    BY <1>1 DEF Items
  <2> QED
    BY <1>5, <2>1 DEF ItemsInv
<1>6. ASSUME verdict = "running", NEW i \in 1 .. n PROVE UpTo(i)' = UpTo(i)
  <2>1. UpTo(i)' = IF i < n + 1 /\ c[i + 1].kind = "bytes" THEN c[i + 1].from - 1 ELSE sent'
    BY <1>3 DEF UpTo
  <2>2. CASE i < n
    <3>1. i + 1 \in 1 .. n
      BY <1>1, <2>2
    <3>2. c[i + 1] = Coming[i + 1] /\ Coming[i + 1].kind = "bytes"
      BY <1>3, <1>5, <1>6, <3>1
    <3> QED
      BY <1>1, <2>1, <2>2, <3>2 DEF UpTo
  <2>3. CASE i = n
    <3>1. c[i + 1] = x /\ UpTo(i) = sent
      BY <1>1, <1>3, <2>3 DEF UpTo
    <3> QED
      BY <1>1, <2>1, <2>3, <3>1
  <2> QED
    BY <1>1, <2>2, <2>3
<1>7. ASSUME NEW i, i = n + 1 PROVE UpTo(i)' = sent'
  BY <1>1, <1>3, <1>7 DEF UpTo
<1>8. ItemsInv'
  <2>1. ASSUME verdict = "running", NEW i \in 1 .. n + 1
        PROVE  IF c[i].kind = "bytes"
               THEN c[i].from <= c[i].to /\ c[i].to <= sent' /\ c[i].to = UpTo(i)'
               ELSE i = Len(c) /\ task' \in {"last", "over"}
    <3>1. CASE i = n + 1
      <4>1. c[i] = x /\ Len(c) = i /\ UpTo(i)' = sent'
        BY <1>3, <1>7, <3>1
      <4> HIDE DEF c
      <4> QED
        BY <1>1, <4>1
    <3>2. CASE i # n + 1
      <4>1. i \in 1 .. n
        BY <1>1, <3>2
      <4>2. /\ c[i] = Coming[i] /\ UpTo(i)' = UpTo(i)
            /\ Coming[i].kind = "bytes" /\ Coming[i].from <= Coming[i].to
            /\ Coming[i].to <= sent /\ Coming[i].to = UpTo(i) /\ Coming[i].to \in Nat
        BY <1>3, <1>5, <1>6, <2>1, <4>1
      <4>3. sent <= sent'
        BY <1>1
      <4>4. Coming[i].to <= sent'
        BY <1>1, <4>2, <4>3
      <4> HIDE DEF c
      <4> QED
        BY <4>2, <4>4
    <3> QED
      BY <3>1, <3>2
  <2>2. task' \notin {"requesting", "reading", "over"}
    OBVIOUS
  <2> QED
    BY <1>3, <2>1, <2>2 DEF ItemsInv
<1>9. ASSUME verdict = "running" PROVE Arrived' = Arrived
  <2>1. Arrived' = IF c = <<>> \/ c[1].kind # "bytes" THEN sent' ELSE c[1].from - 1
    BY DEF Arrived
  <2>2. c # <<>>
    BY <1>1, <1>2
  <2>3. CASE n = 0
    <3>1. Coming = <<>> /\ c[1] = x
      BY <1>1, <1>3, <2>3
    <3>2. Arrived = sent
      BY <3>1 DEF Arrived
    <3> HIDE DEF c
    <3> QED
      BY <1>1, <2>1, <2>2, <3>1, <3>2
  <2>4. CASE n # 0
    <3>1. 1 \in 1 .. n
      BY <1>1, <2>4
    <3>2. c[1] = Coming[1] /\ Coming[1].kind = "bytes" /\ Coming # <<>>
      BY <1>1, <1>3, <1>5, <1>9, <2>4, <3>1
    <3> HIDE DEF c
    <3> QED
      BY <2>1, <2>2, <3>2 DEF Arrived
  <2> QED
    BY <2>3, <2>4
<1> QED
  BY <1>4, <1>8, <1>9

(* The steps of the server and of the task that reads what it writes. *)
LEMMA TaskStepsKeep ==
  ASSUME StreamInv, Respond \/ ReadBytes \/ ReadEnd \/ CancelTask \/ Send
  PROVE  StreamInv'
<1>1. StreamTyped /\ ItemsInv /\ FlowInv /\ AnswerIsPrefix
  BY DEF StreamInv
<1>2. UNCHANGED <<script, buf, partials, ready, content, verdict, receiving>>
  BY DEF Respond, ReadBytes, ReadEnd, CancelTask, Send, consumerVars
<1>3. AnswerIsPrefix'
  BY <1>1, <1>2, AnswerSame
<1>4. sent \in 0 .. Len(Bytes[script]) /\ script \in Scripts /\ Len(Bytes[script]) \in Nat
  BY <1>1, BytesLength DEF StreamTyped
<1>5. ASSUME StreamTyped', ItemsInv', verdict = "running" => Arrived' = Arrived
      PROVE  StreamInv'
  <2>1. FlowInv'
    <3>1. CASE verdict = "running"
      BY <1>1, <1>2, <1>5, <3>1, FlowSame
    <3>2. CASE verdict # "running"
      BY <1>2, <3>2 DEF FlowInv
    <3> QED
      BY <3>1, <3>2
  <2> QED
    BY <1>3, <1>5, <2>1 DEF StreamInv
\* A step that sends nothing.
<1>6. ASSUME UNCHANGED <<sent, channel, held>>,
             task' \in {"requesting", "reading", "over"} => held' = <<>>,
             task \in {"last", "over"} => task' \in {"last", "over"}
      PROVE  StreamInv'
  <2>1. Coming' = Coming /\ Arrived' = Arrived
    BY <1>6, ComingSame
  <2>2. StreamTyped'
    BY <1>1, <1>2, <1>6, TypedSame
  <2>3. ItemsInv'
    BY <1>1, <1>2, <1>6, <2>1, ItemsSame
  <2> QED
    BY <1>5, <2>1, <2>2, <2>3
\* A step that ends the response with a word of its own.
<1>7. ASSUME task \in {"requesting", "reading"}, task' = "last", UNCHANGED <<sent, channel>>,
             NEW k \in {"error", "cancelled"}, held' = <<Item(k, 0, 0)>>
      PROVE  StreamInv'
  <2>1. Item(k, 0, 0) \in Items /\ Item(k, 0, 0).kind # "bytes"
    BY DEF Item, Items
  <2>2. StreamTyped' /\ ItemsInv' /\ (verdict = "running" => Arrived' = Arrived)
    BY <1>1, <1>2, <1>4, <1>7, <2>1, Joins
  <2> QED
    BY <1>5, <2>2
<1>8. CASE Respond
  <2>1. held = <<>> /\ task = "requesting" /\ UNCHANGED <<sent, channel>>
    BY <1>1, <1>8 DEF Respond, ItemsInv
  <2>2. CASE task' = "reading" /\ UNCHANGED held
    BY <1>6, <2>1, <2>2
  <2>3. CASE task' = "last" /\ held' = <<Item("error", 0, 0)>>
    BY <1>7, <2>1, <2>3
  <2> QED
    BY <1>8, <2>2, <2>3 DEF Respond
<1>9. CASE ReadEnd
  <2>1. held = <<>> /\ task = "reading" /\ UNCHANGED <<sent, channel>>
    BY <1>1, <1>9 DEF ReadEnd, ItemsInv
  <2>2. CASE task' = "over" /\ UNCHANGED held
    BY <1>6, <2>1, <2>2
  <2>3. CASE task' = "last" /\ held' = <<Item("error", 0, 0)>>
    BY <1>7, <2>1, <2>3
  <2> QED
    BY <1>9, <2>2, <2>3 DEF ReadEnd
<1>10. CASE CancelTask
  <2>1. held = <<>> /\ task = "reading" /\ UNCHANGED <<sent, channel>>
    BY <1>1, <1>10 DEF CancelTask, ItemsInv
  <2>2. CASE task' = "over" /\ UNCHANGED held
    BY <1>6, <2>1, <2>2
  <2>3. CASE task' = "last" /\ held' = <<Item("cancelled", 0, 0)>>
    BY <1>7, <2>1, <2>3
  <2> QED
    BY <1>10, <2>2, <2>3 DEF CancelTask
<1>11. CASE ReadBytes
  <2>1. PICK n \in Cuts : /\ sent + n <= Len(Bytes[script])
                          /\ sent' = sent + n
                          /\ held' = <<Item("bytes", sent + 1, sent + n)>>
    BY <1>11 DEF ReadBytes
  <2>2. task = "reading" /\ task' = "sending" /\ UNCHANGED channel
    BY <1>11 DEF ReadBytes
  <2>3. n \in Nat \ {0}
    BY StreamAssumption
  <2> DEFINE x == Item("bytes", sent + 1, sent + n)
  <2>4. /\ x \in Items /\ x.kind = "bytes" /\ x.from = sent + 1 /\ x.to = sent'
        /\ sent' \in 0 .. Len(Bytes[script]) /\ sent < sent'
    BY <1>4, <2>1, <2>3 DEF Item, Items
  <2> HIDE DEF x
  <2>5. held' = <<x>>
    BY <2>1 DEF x
  <2>6. StreamTyped' /\ ItemsInv' /\ (verdict = "running" => Arrived' = Arrived)
    BY <1>1, <1>2, <2>2, <2>4, <2>5, Joins
  <2> QED
    BY <1>5, <2>6
<1>12. CASE Send
  <2>1. /\ task \in {"sending", "last"} /\ held' = <<>> /\ UNCHANGED <<script, sent>>
        /\ channel \in Seq(Items) /\ held \in Seq(Items)
    BY <1>1, <1>12 DEF Send, StreamTyped
  <2>2. <<>> \in Seq(Items)
    OBVIOUS
  <2>3. CASE receiving /\ channel' = channel \o held /\ task' = IF task = "sending" THEN "reading" ELSE "over"
    <3>1. Coming' = Coming
      BY <2>1, <2>3 DEF Coming
    <3>2. Arrived' = Arrived
      BY <2>1, <3>1 DEF Arrived
    <3>3. channel' \in Seq(Items)
      BY <2>1, <2>3
    <3>4. StreamTyped'
      BY <1>1, <1>2, <2>1, <2>2, <2>3, <3>3 DEF StreamTyped
    <3>5. ItemsInv'
      BY <1>1, <1>2, <2>1, <2>3, <3>1, ItemsSame
    <3> QED
      BY <1>5, <3>2, <3>4, <3>5
  <2>4. CASE ~ receiving /\ task' = "over" /\ UNCHANGED channel
    <3>1. verdict # "running"
      BY <1>1, <2>4 DEF StreamTyped
    <3>2. StreamTyped'
      BY <1>1, <1>2, <2>1, <2>2, <2>4 DEF StreamTyped
    <3>3. ItemsInv'
      BY <1>2, <2>1, <3>1 DEF ItemsInv
    <3> QED
      BY <1>5, <3>1, <3>2, <3>3
  <2> QED
    BY <1>12, <2>3, <2>4 DEF Send
<1> QED
  BY <1>8, <1>9, <1>10, <1>11, <1>12

(* The steps that end the loop, the drop of the stream and a cancellation. *)
LEMMA EndStepsKeep ==
  ASSUME StreamInv, StreamClosed \/ SeeCancel \/ Timeout \/ Drop \/ Cancel \/ UNCHANGED streamVars
  PROVE  StreamInv'
<1>1. StreamTyped /\ ItemsInv /\ FlowInv /\ AnswerIsPrefix
  BY DEF StreamInv
<1>2. CASE StreamClosed \/ SeeCancel \/ Timeout
  <2>1. /\ UNCHANGED <<script, sent, task, held, channel, content, receiving>>
        /\ verdict' \notin {"running", "done"}
    BY <1>2 DEF StreamClosed, SeeCancel, Timeout, taskVars
  <2>2. StreamTyped'
    BY <1>1, <2>1, TypedSame
  <2>3. ItemsInv'
    BY <1>1, <2>1 DEF ItemsInv
  <2>4. FlowInv'
    BY <2>1 DEF FlowInv
  <2>5. AnswerIsPrefix'
    BY <1>1, <2>1, AnswerSame
  <2> QED
    BY <2>2, <2>3, <2>4, <2>5 DEF StreamInv
<1>3. CASE Drop
  <2>1. /\ verdict # "running" /\ receiving' = FALSE /\ channel' = <<>>
        /\ UNCHANGED <<script, sent, task, held, content, verdict>>
    BY <1>3 DEF Drop, taskVars
  <2>2. <<>> \in Seq(Items)
    OBVIOUS
  <2>3. StreamTyped'
    BY <1>1, <2>1, <2>2 DEF StreamTyped
  <2>4. ItemsInv'
    BY <1>1, <2>1 DEF ItemsInv
  <2>5. FlowInv'
    BY <2>1 DEF FlowInv
  <2>6. AnswerIsPrefix'
    BY <1>1, <2>1, AnswerSame
  <2> QED
    BY <2>3, <2>4, <2>5, <2>6 DEF StreamInv
<1>4. CASE Cancel \/ UNCHANGED streamVars
  <2>1. UNCHANGED <<script, sent, task, held, channel, buf, partials, ready, content, verdict, receiving>>
    BY <1>4 DEF Cancel, streamVars, taskVars, consumerVars
  <2>2. Coming' = Coming /\ Arrived' = Arrived
    BY <2>1, ComingSame
  <2>3. StreamTyped'
    BY <1>1, <2>1, TypedSame
  <2>4. ItemsInv'
    <3>1. task \in {"requesting", "reading", "over"} => held = <<>>
      BY <1>1 DEF ItemsInv
    <3> QED
      BY <1>1, <2>1, <2>2, <3>1, ItemsSame
  <2>5. FlowInv'
    BY <1>1, <2>1, <2>2, FlowSame
  <2>6. AnswerIsPrefix'
    BY <1>1, <2>1, AnswerSame
  <2> QED
    BY <2>3, <2>4, <2>5, <2>6 DEF StreamInv
<1> QED
  BY <1>2, <1>3, <1>4

(* An item that is received reaches the buffer, or is an event of its own. *)
LEMMA NextItemKeeps ==
  ASSUME StreamInv, NextItem
  PROVE  StreamInv'
<1> DEFINE x == Head(channel)
           c == Coming
           n == Len(Coming)
<1>1. /\ StreamTyped /\ ItemsInv /\ FlowInv /\ AnswerIsPrefix
      /\ verdict = "running" /\ ready = <<>> /\ channel # <<>> /\ channel' = Tail(channel)
      /\ UNCHANGED <<script, sent, task, held, partials, content, verdict, receiving>>
  BY DEF StreamInv, NextItem, Receive, Idle, taskVars
<1>2. /\ channel \in Seq(Items) /\ held \in Seq(Items) /\ script \in Scripts
      /\ sent \in 0 .. Len(Bytes[script])
  BY <1>1 DEF StreamTyped
<1>3. /\ c \in Seq(Items) /\ n \in Nat /\ n > 0 /\ c[1] = x /\ x \in Items /\ c # <<>>
      /\ Coming' = Tail(c) /\ channel' \in Seq(Items)
  <2>1. channel \o held \in Seq(Items) /\ Len(channel \o held) > 0 /\ (channel \o held)[1] = Head(channel)
    BY <1>1, <1>2
  <2>2. Head(channel) \in Items /\ Tail(channel) \in Seq(Items)
    BY <1>1, <1>2
  <2>3. Tail(channel) \o held = Tail(channel \o held)
    BY <1>1, <1>2
  <2>4. channel \o held # <<>>
    BY <2>1
  <2> QED
    BY <1>1, <2>1, <2>2, <2>3, <2>4, ComingTyped DEF Coming
<1> DEFINE d == Coming'
<1>4. Len(d) = n - 1 /\ \A i \in 1 .. n - 1 : d[i] = c[i + 1]
  BY <1>3
<1>5. \A i \in 1 .. n :
         IF c[i].kind = "bytes"
         THEN c[i].from <= c[i].to /\ c[i].to <= sent /\ c[i].to = UpTo(i)
         ELSE i = n /\ task \in {"last", "over"}
  BY <1>1 DEF ItemsInv
<1>6. StreamTyped'
  BY <1>1, <1>3 DEF StreamTyped
<1>7. AnswerIsPrefix'
  BY <1>1, AnswerSame
<1>8. ItemsInv'
  <2>1. ASSUME NEW i \in 1 .. n - 1
        PROVE  IF d[i].kind = "bytes"
               THEN d[i].from <= d[i].to /\ d[i].to <= sent /\ d[i].to = UpTo(i)'
               ELSE i = n - 1 /\ task \in {"last", "over"}
    <3>1. i + 1 \in 1 .. n /\ d[i] = c[i + 1]
      BY <1>3, <1>4
    <3>2. UpTo(i)' = IF i < n - 1 /\ d[i + 1].kind = "bytes" THEN d[i + 1].from - 1 ELSE sent
      BY <1>1, <1>4 DEF UpTo
    <3>3. i < n - 1 => d[i + 1] = c[i + 1 + 1]
      BY <1>3, <1>4
    <3>4. UpTo(i + 1) = IF i + 1 < n /\ c[i + 1 + 1].kind = "bytes" THEN c[i + 1 + 1].from - 1 ELSE sent
      BY DEF UpTo
    <3>5. UpTo(i)' = UpTo(i + 1)
      <4> HIDE DEF c, d, n
      <4>1. i < n - 1 <=> i + 1 < n
        BY <1>3
      <4> QED
        BY <3>2, <3>3, <3>4, <4>1
    <3>6. IF c[i + 1].kind = "bytes"
          THEN c[i + 1].from <= c[i + 1].to /\ c[i + 1].to <= sent /\ c[i + 1].to = UpTo(i + 1)
          ELSE i + 1 = n /\ task \in {"last", "over"}
      BY <1>5, <3>1
    <3> HIDE DEF c, d, n
    <3> QED
      BY <1>3, <3>1, <3>5, <3>6
  <2>2. task \in {"requesting", "reading", "over"} => held = <<>>
    BY <1>1 DEF ItemsInv
  <2> QED
    BY <1>1, <1>4, <2>1, <2>2 DEF ItemsInv
<1>9. PICK e \in 0 .. Len(script.events) :
          /\ Holds(buf, script, e, Arrived)
          /\ \E at \in [0 .. Len(ready) -> 0 .. Len(script.events)] : Kept(script, ready, content, e, at)
  BY <1>1 DEF FlowInv
<1>10. PICK at \in [0 .. Len(ready) -> 0 .. Len(script.events)] : Kept(script, ready, content, e, at)
  BY <1>9
<1>11. IsFiniteSet(DOMAIN partials) /\ Len(ready) = 0
  BY <1>1 DEF FlowInv
<1>12. CASE x.kind = "bytes"
  <2>1. buf' = Fed(buf, SubSeq(Bytes[script], x.from, x.to)) /\ ready' = ready
    BY <1>12 DEF NextItem
  <2>2. x.from \in Nat /\ x.to \in Nat /\ x.from <= x.to /\ x.to <= sent /\ x.to = UpTo(1)
    <3>1. x.from \in Nat /\ x.to \in Nat
      BY <1>3, <1>12 DEF Items
    <3>2. 1 \in 1 .. n
      BY <1>3
    <3> QED
      BY <1>3, <1>5, <1>12, <3>1, <3>2
  <2>3. Arrived = x.from - 1
    BY <1>3, <1>12 DEF Arrived
  <2>4. Arrived' = x.to
    <3>1. Arrived' = IF d = <<>> \/ d[1].kind # "bytes" THEN sent ELSE d[1].from - 1
      BY <1>1 DEF Arrived
    <3>2. UpTo(1) = IF 1 < n /\ c[1 + 1].kind = "bytes" THEN c[1 + 1].from - 1 ELSE sent
      BY DEF UpTo
    <3>3. CASE n = 1
      <4>1. d = <<>>
        BY <1>3, <3>3
      <4> QED
        BY <2>2, <3>1, <3>2, <3>3, <4>1
    <3>4. CASE n # 1
      <4>0. n \in Nat /\ n > 0 /\ Len(d) = n - 1
        BY <1>3, <1>4
      <4>1. 1 \in 1 .. n - 1 /\ 1 < n
        <5> HIDE DEF n
        <5> QED
          BY <3>4, <4>0
      <4>2. d[1] = c[1 + 1] /\ d # <<>>
        <5>1. d[1] = c[1 + 1]
          BY <1>4, <4>1
        <5> HIDE DEF c, d, n
        <5>2. Len(d) > 0
          BY <4>0, <4>1
        <5> QED
          BY <5>1, <5>2
      <4> HIDE DEF c, d, n
      <4> QED
        BY <2>2, <3>1, <3>2, <4>1, <4>2
    <3> QED
      BY <3>3, <3>4
  <2>5. Arrived + 1 = x.from /\ Arrived <= x.to /\ x.to <= Len(script.events) * Width(script)
    <3>1. Len(Bytes[script]) = Len(script.events) * Width(script) /\ Len(Bytes[script]) \in Nat
      BY <1>2, BytesLength
    <3>2. x.to <= Len(Bytes[script])
      <4> HIDE DEF x
      <4> QED
        BY <1>2, <2>2, <3>1
    <3>3. Arrived + 1 = x.from /\ Arrived <= x.to
      <4> HIDE DEF x
      <4> QED
        BY <2>2, <2>3
    <3> QED
      BY <3>1, <3>2, <3>3
  <2>6. Holds(buf', script, e, x.to)
    <3>1. Holds(Fed(buf, SubSeq(Bytes[script], Arrived + 1, x.to)), script, e, x.to)
      BY <1>2, <1>9, <2>2, <2>5, BytesArrive
    <3> QED
      BY <2>1, <2>5, <3>1
  <2>7. FlowInv'
    <3>1. ready' \in Seq(Range(ready'))
      BY <1>1, <2>1 DEF FlowInv
    <3> QED
      BY <1>1, <1>10, <1>11, <2>1, <2>4, <2>6, <3>1 DEF FlowInv
  <2> QED
    BY <1>6, <1>7, <1>8, <2>7 DEF StreamInv
<1>13. CASE x.kind # "bytes"
  <2> DEFINE v == Ev(x.kind)
  <2>1. ready' = <<v>> /\ UNCHANGED buf
    BY <1>13 DEF NextItem
  <2>2. v.kind \in {"error", "cancelled"} /\ "delta" \notin {"error", "cancelled"}
        /\ Dones \intersect {"error", "cancelled"} = {}
    BY <1>3, <1>13 DEF Items, Ev, Dones
  <2>3. Arrived' = Arrived
    <3>1. n = 1
      <4>1. 1 \in 1 .. n
        BY <1>3
      <4> QED
        BY <1>3, <1>5, <1>13, <4>1
    <3>2. d = <<>>
      BY <1>3, <3>1
    <3>3. Arrived = sent
      BY <1>3, <1>13 DEF Arrived
    <3> QED
      BY <1>1, <3>2, <3>3 DEF Arrived
  <2> DEFINE bt == [i \in 0 .. 1 |-> e]
             t == Said(script.events)
  <2> HIDE DEF v, t
  <2>4. Len(ready') = 1 /\ ready'[1] = v /\ ready' \in Seq(Range(ready'))
    <3>1. <<v>> \in Seq({v})
      OBVIOUS
    <3>2. <<v>> \in Seq(Range(<<v>>))
      BY <3>1, OfItsRange
    <3> QED
      BY <2>1, <3>2
  <2>5. at[0] = e /\ content = t[e] /\ ~ \E m \in 1 .. e : Closes(script, script.events[m])
    BY <1>10, <1>11 DEF Kept, t
  <2>6. bt[0] = e /\ bt[1] = e /\ bt \in [0 .. Len(ready') -> 0 .. Len(script.events)]
    BY <2>4
  <2> HIDE DEF bt
  <2>7. \A i \in 1 .. Len(ready') : i = 1 /\ ready'[i] = v /\ i - 1 = 0
    BY <2>4
  <2>8. /\ bt[Len(ready')] = e /\ content = t[bt[0]]
        /\ \A i \in 1 .. Len(ready') : ready'[i].kind # "delta" /\ ready'[i].kind \notin Dones
        /\ \A i \in 1 .. Len(ready') : t[bt[i]] = t[bt[i - 1]]
    BY <2>2, <2>4, <2>5, <2>6, <2>7
  <2>9. Kept(script, ready', content, e, bt)
    BY <2>5, <2>8 DEF Kept, t
  <2>10. FlowInv'
    BY <1>1, <1>9, <1>11, <2>1, <2>3, <2>4, <2>6, <2>9 DEF FlowInv
  <2> QED
    BY <1>6, <1>7, <1>8, <2>10 DEF StreamInv
<1> QED
  BY <1>12, <1>13

(* A set of numbers that is not empty has a first one. *)
LEMMA FirstOne ==
  ASSUME NEW T \in SUBSET Nat, NEW k \in T
  PROVE  \E m \in T : \A j \in T : m <= j
<1> DEFINE HasFirst == \E m \in T : \A j \in T : m <= j
           S == {n \in Nat : (\E a \in T : a <= n) => HasFirst}
<1>1. 0 \in S
  <2>1. ASSUME NEW a \in T, a <= 0 PROVE HasFirst
    <3>1. a = 0 /\ \A j \in T : a <= j
      BY <2>1
    <3> QED
      BY <3>1
  <2> HIDE DEF HasFirst
  <2> QED
    BY <2>1
<1>2. ASSUME NEW n \in S PROVE n + 1 \in S
  <2>1. ASSUME NEW a \in T, a <= n + 1 PROVE HasFirst
    <3>1. CASE \E b \in T : b <= n
      BY <3>1
    <3>2. CASE ~ \E b \in T : b <= n
      <4>1. \A j \in T : a <= j
        BY <2>1, <3>2
      <4> QED
        BY <4>1
    <3> QED
      BY <3>1, <3>2
  <2> HIDE DEF HasFirst
  <2> QED
    BY <2>1
<1>3. S = Nat
  <2> HIDE DEF S
  <2>1. S \in SUBSET Nat
    BY DEF S
  <2> QED
    BY <1>1, <1>2, <2>1, Induction
<1>4. k \in S /\ k <= k
  <2>1. k \in Nat
    OBVIOUS
  <2> HIDE DEF S
  <2> QED
    BY <1>3, <2>1
<1> HIDE DEF HasFirst
<1>5. HasFirst
  BY <1>4
<1> QED
  BY <1>5 DEF HasFirst

(* The first event that its adapter takes for an end comes right after all *)
(* the text there is up to the server's own end, but for an answer of      *)
(* several blocks.                                                         *)
LEMMA FirstEndSaid ==
  ASSUME script \in Scripts, ~ SeveralBlocks(script),
         NEW e \in Nat, e + 1 \in 1 .. Len(script.events),
         Closes(script, script.events[e + 1]),
         \A n \in 1 .. e : ~ Closes(script, script.events[n])
  PROVE  Said(script.events)[e] = Said(script.events)[FirstEnd(script.events)]
<1> DEFINE es == script.events
           at == {i \in DOMAIN es : Ends(es[i])}
           f == FirstEnd(es)
           t == Said(es)
<1>1. es \in Seq(Events) /\ DOMAIN es = 1 .. Len(es) /\ Len(es) \in Nat
  BY ScriptShape
<1>2. f \in 1 .. Len(es) /\ (at # {} => Ends(es[f]) /\ \A j \in at : f <= j)
  <2>1. CASE at = {}
    BY <1>1, <2>1 DEF FirstEnd
  <2>2. CASE at # {}
    <3>1. PICK i : i \in at
      BY <2>2
    <3>2. f = CHOOSE k \in at : \A j \in at : k <= j
      BY <2>2 DEF FirstEnd
    <3>3. at \in SUBSET Nat /\ \A k \in at : k \in 1 .. Len(es) /\ Ends(es[k])
      BY <1>1
    <3> HIDE DEF at, f
    <3>4. \E m \in at : \A j \in at : m <= j
      BY <3>1, <3>3, FirstOne
    <3>5. f \in at /\ \A j \in at : f <= j
      BY <3>2, <3>4
    <3> QED
      BY <3>3, <3>5
  <2> QED
    BY <2>1, <2>2
<1>3. Silent(es[e + 1]) /\ t[e + 1] = Further(t[e], es[e + 1])
  <2>1. Silent(es[e + 1])
    BY EventShape DEF OpenAiEvent, AnthropicEvent, Closes, Silent
  <2>2. \A n \in 1 .. Len(es) : t[n] = Further(t[n - 1], es[n])
    BY <1>1, SaidIs
  <2>3. e + 1 \in 1 .. Len(es) /\ e + 1 - 1 = e
    OBVIOUS
  <2> HIDE DEF t, es
  <2> QED
    BY <2>1, <2>2, <2>3
<1>4. t[e] = t[e + 1]
  BY <1>3 DEF Further
<1>5. CASE f = e + 1
  <2> HIDE DEF f, t
  <2> QED
    BY <1>4, <1>5 DEF f, t
\* The adapter saw no end in the server's own: only usage.
<1>6. CASE f < e + 1
  <2>1. f \in 1 .. e /\ f \in 0 .. Len(es) /\ e \in f .. Len(es)
    BY <1>1, <1>2, <1>6
  <2>2. ~ Closes(script, es[f])
    BY <2>1
  <2>3. at # {}
    <3>1. f # Len(es)
      BY <1>1, <2>1
    <3> QED
      BY <3>1 DEF FirstEnd
  <2>4. Ends(es[f])
    BY <1>2, <2>3
  <2>5. script.wire # "openai" /\ es[f].kind = "message_delta"
    <3>1. script.wire # "openai"
      BY <2>2, <2>4 DEF Closes
    <3>2. AnthropicEvent(es[f])
      BY <1>2, <3>1, EventShape
    <3> QED
      BY <2>2, <2>4, <3>1, <3>2 DEF Closes, Ends, AnthropicEvent
  <2>6. \A j \in DOMAIN es : f < j => es[j].text = ""
    <3> HIDE DEF f
    <3> QED
      BY <1>1, <1>2, <2>5, StreamAssumption, Zenon
  <2>7. \A j \in 1 .. Len(es) : f < j => Silent(es[j])
    BY <1>1, <2>6 DEF Silent
  <2> HIDE DEF f
  <2>8. t[f] = t[e]
    BY <1>1, <2>1, <2>7, SaidSame
  <2> QED
    BY <2>8 DEF f
\* The adapter took the end of the only block for it.
<1>7. CASE f > e + 1
  <2>1. ~ Ends(es[e + 1])
    <3>1. e + 1 \in DOMAIN es
      BY <1>1
    <3>2. e + 1 \in at => f <= e + 1
      BY <1>2
    <3> HIDE DEF f
    <3> QED
      BY <1>1, <1>2, <1>7, <3>1, <3>2
  <2>2. script.wire = "anthropic" /\ es[e + 1].kind = "content_block_stop"
    <3>1. script.wire # "openai" /\ script.wire = "anthropic"
      BY <2>1, ScriptShape DEF Closes
    <3>2. AnthropicEvent(es[e + 1])
      BY <3>1, EventShape
    <3> QED
      BY <2>1, <3>1, <3>2 DEF Closes, Ends, AnthropicEvent
  <2>3. \A j \in 1 .. Len(es) : e + 1 < j => Silent(es[j])
    BY <1>1, <2>2 DEF SeveralBlocks, Silent
  <2>4. e + 1 \in 0 .. Len(es) /\ f \in (e + 1) .. Len(es)
    BY <1>1, <1>2, <1>7
  <2> HIDE DEF f
  <2>5. t[e + 1] = t[f]
    BY <1>1, <2>3, <2>4, SaidSame
  <2> QED
    BY <1>4, <2>5 DEF f, t
<1>8. f < e + 1 \/ f = e + 1 \/ f > e + 1
  <2> HIDE DEF f
  <2> QED
    BY <1>1, <1>2
<1> QED
  BY <1>5, <1>6, <1>7, <1>8

(* What the adapter makes of the next event goes behind what it made of    *)
(* those before.                                                           *)
LEMMA KeptFurther ==
  ASSUME script \in Scripts, NEW e \in Nat, e + 1 \in 1 .. Len(script.events),
         NEW R, NEW rdy \in Seq(R), NEW txt,
         NEW at \in [0 .. Len(rdy) -> 0 .. Len(script.events)], Kept(script, rdy, txt, e, at),
         NEW Q, NEW out \in Seq(Q), Tells(out, script.events[e + 1])
  PROVE  \E bt \in [0 .. Len(rdy \o out) -> 0 .. Len(script.events)] :
             Kept(script, rdy \o out, txt, e + 1, bt)
<1> DEFINE es == script.events
           ev == es[e + 1]
           t == Said(es)
           L == Len(rdy)
           M == Len(rdy \o out)
           all == rdy \o out
           bt == [i \in 0 .. M |-> IF i = M THEN e + 1 ELSE IF i <= L THEN at[i] ELSE e]
           end == t[FirstEnd(es)]
           several == SeveralBlocks(script)
<1>1. /\ L \in Nat /\ Len(out) \in Nat /\ M = L + Len(out) /\ M \in Nat
      /\ \A i \in 1 .. L : all[i] = rdy[i]
      /\ \A i \in 1 .. Len(out) : all[L + i] = out[i]
  OBVIOUS
<1>2. /\ at[L] = e /\ txt = t[at[0]]
      /\ \A i \in 1 .. L : t[at[i]] = IF rdy[i].kind = "delta" THEN Append(t[at[i - 1]], rdy[i].text)
                                      ELSE t[at[i - 1]]
      /\ \A i \in 1 .. L :
            rdy[i].kind \in Dones /\ (\A j \in 1 .. i - 1 : rdy[j].kind \notin Dones) =>
                several \/ t[at[i - 1]] = end
      /\ (\E n \in 1 .. e : Closes(script, es[n])) => \E i \in 1 .. L : rdy[i].kind \in Dones
  BY DEF Kept
<1>3. t[e + 1] = Further(t[e], ev)
  <2>1. es \in Seq(Events)
    BY ScriptShape
  <2>2. \A n \in 1 .. Len(es) : t[n] = Further(t[n - 1], es[n])
    BY <2>1, SaidIs
  <2>3. e + 1 \in 1 .. Len(es) /\ e + 1 - 1 = e
    OBVIOUS
  <2> HIDE DEF t, es
  <2>4. t[e + 1] = Further(t[e + 1 - 1], es[e + 1])
    BY <2>2, <2>3
  <2> QED
    BY <2>3, <2>4
<1>4. /\ \A i \in 1 .. Len(out) : out[i].kind \in {"delta"} \union Dones => i = Len(out)
      /\ \A i \in 1 .. Len(out) : out[i].kind = "delta" => ~ Silent(ev) /\ out[i].text = ev.text
      /\ \A i \in 1 .. Len(out) : out[i].kind \in Dones => Closes(script, ev)
      /\ ~ Silent(ev) => Len(out) > 0 /\ out[Len(out)].kind = "delta"
      /\ Closes(script, ev) => Len(out) > 0 /\ out[Len(out)].kind \in Dones
  BY DEF Tells
<1>5. ASSUME NEW i \in 1 .. L PROVE at[i] \in 0 .. Len(es) /\ at[i - 1] \in 0 .. Len(es)
  BY <1>1
<1>6. bt \in [0 .. M -> 0 .. Len(es)] /\ bt[M] = e + 1
  <2>1. e + 1 \in 0 .. Len(es) /\ e \in 0 .. Len(es)
    BY ScriptShape
  <2>2. \A i \in 0 .. M : i <= L => at[i] \in 0 .. Len(es)
    BY <1>1
  <2> HIDE DEF M, L, all, es
  <2> QED
    BY <1>1, <2>1, <2>2
\* The text up to each of the events.
<1>7. /\ \A i \in 0 .. M : i <= L => t[bt[i]] = t[at[i]]
      /\ \A i \in 0 .. M : L <= i /\ i < M => t[bt[i]] = t[e]
      /\ t[bt[M]] = t[e + 1]
      /\ L \in 0 .. M /\ 0 \in 0 .. M
  <2>1. \A i \in 0 .. M : i # M => bt[i] = IF i <= L THEN at[i] ELSE e
    OBVIOUS
  <2>2. M = L => t[e + 1] = t[e]
    <3>1. M = L => Silent(ev)
      BY <1>1, <1>4
    <3> HIDE DEF M, L, t, ev
    <3> QED
      BY <1>3, <3>1 DEF Further
  <2> HIDE DEF M, L, t, bt
  <2>3. L \in 0 .. M /\ 0 \in 0 .. M
    BY <1>1
  <2>4. t[bt[M]] = t[e + 1]
    BY <1>6
  <2>5. ASSUME NEW i \in 0 .. M, i # M
        PROVE  (i <= L => t[bt[i]] = t[at[i]]) /\ (L <= i => t[bt[i]] = t[e])
    <3>1. bt[i] = IF i <= L THEN at[i] ELSE e
      BY <2>1, <2>5
    <3>2. L <= i /\ i <= L => i = L
      BY <1>1
    <3>3. at[L] = e
      BY <1>2
    <3> QED
      BY <3>1, <3>2, <3>3
  <2>6. M <= L => M = L /\ t[bt[M]] = t[at[M]]
    BY <1>1, <1>2, <2>2, <2>4
  <2> QED
    BY <1>1, <2>3, <2>4, <2>5, <2>6
<1> HIDE DEF L, M, all, bt, t, es, end, ev, several
<1>8. ASSUME NEW i \in 1 .. M
      PROVE  \/ /\ i \in 1 .. L /\ all[i] = rdy[i]
                /\ t[bt[i]] = t[at[i]] /\ t[bt[i - 1]] = t[at[i - 1]]
             \/ /\ i > L /\ i - L \in 1 .. Len(out) /\ all[i] = out[i - L] /\ t[bt[i - 1]] = t[e]
                /\ t[bt[i]] = IF i = M THEN t[e + 1] ELSE t[e]
  <2>1. CASE i <= L
    <3>1. i \in 1 .. L /\ i \in 0 .. M /\ i - 1 \in 0 .. M /\ i - 1 <= L
      BY <1>1, <2>1
    <3> QED
      BY <1>1, <1>7, <2>1, <3>1
  <2>2. CASE ~ (i <= L)
    <3>1. /\ i - L \in 1 .. Len(out) /\ L + (i - L) = i /\ i > L
          /\ i - 1 \in 0 .. M /\ L <= i - 1 /\ i - 1 < M /\ i \in 0 .. M /\ L <= i
          /\ (i # M => i < M)
      <4>1. L \in Nat /\ Len(out) \in Nat /\ M = L + Len(out) /\ M \in Nat
        BY <1>1
      <4>2. i \in Nat /\ i <= M /\ i > L
        BY <2>2, <4>1
      <4> DEFINE K == Len(out)
      <4> HIDE DEF K
      <4>3. i - L \in 1 .. K /\ L + (i - L) = i
        BY <4>1, <4>2 DEF K
      <4>4. /\ i - 1 \in 0 .. M /\ L <= i - 1 /\ i - 1 < M /\ i \in 0 .. M /\ L <= i
            /\ (i # M => i < M)
        BY <4>1, <4>2
      <4> QED
        BY <4>2, <4>3, <4>4 DEF K
    <3>2. all[i] = out[i - L]
      BY <1>1, <3>1
    <3>3. t[bt[i - 1]] = t[e]
      BY <1>7, <3>1
    <3>4. t[bt[i]] = IF i = M THEN t[e + 1] ELSE t[e]
      BY <1>7, <3>1
    <3> QED
      BY <3>1, <3>2, <3>3, <3>4
  <2> QED
    BY <1>1, <2>1, <2>2
<1>9. txt = t[bt[0]]
  BY <1>1, <1>2, <1>7
<1>10. ASSUME NEW i \in 1 .. M
       PROVE  t[bt[i]] = IF all[i].kind = "delta" THEN Append(t[bt[i - 1]], all[i].text)
                         ELSE t[bt[i - 1]]
  <2>1. CASE i \in 1 .. L /\ all[i] = rdy[i] /\ t[bt[i]] = t[at[i]] /\ t[bt[i - 1]] = t[at[i - 1]]
    <3>1. t[at[i]] = IF rdy[i].kind = "delta" THEN Append(t[at[i - 1]], rdy[i].text) ELSE t[at[i - 1]]
      BY <1>2, <2>1
    <3> QED
      BY <2>1, <3>1, Zenon
  <2>2. CASE /\ i > L /\ i - L \in 1 .. Len(out) /\ all[i] = out[i - L] /\ t[bt[i - 1]] = t[e]
             /\ t[bt[i]] = IF i = M THEN t[e + 1] ELSE t[e]
    <3>1. i = M <=> i - L = Len(out)
      BY <1>1, <2>2
    <3>2. CASE all[i].kind = "delta"
      <4>1. i = M /\ ~ Silent(ev) /\ all[i].text = ev.text
        BY <1>4, <2>2, <3>1, <3>2
      <4>2. t[e + 1] = Append(t[e], ev.text)
        BY <1>3, <4>1 DEF Further
      <4> QED
        BY <2>2, <3>2, <4>1, <4>2, Zenon
    <3>3. CASE all[i].kind # "delta"
      <4>1. i = M => Silent(ev)
        <5>1. i = M => all[i] = out[Len(out)]
          BY <2>2, <3>1
        <5> QED
          BY <1>4, <3>3, <5>1
      <4>2. Silent(ev) => t[e + 1] = t[e]
        BY <1>3 DEF Further
      <4> QED
        BY <2>2, <3>3, <4>1, <4>2, Zenon
    <3> QED
      BY <3>2, <3>3
  <2> QED
    BY <1>8, <2>1, <2>2
<1>11. ASSUME NEW i \in 1 .. M, all[i].kind \in Dones, \A j \in 1 .. i - 1 : all[j].kind \notin Dones
       PROVE  several \/ t[bt[i - 1]] = end
  <2>1. CASE i \in 1 .. L /\ all[i] = rdy[i] /\ t[bt[i]] = t[at[i]] /\ t[bt[i - 1]] = t[at[i - 1]]
    <3>1. \A j \in 1 .. i - 1 : j \in 1 .. L /\ rdy[j].kind \notin Dones
      <4>1. \A j \in 1 .. i - 1 : j \in 1 .. L
        BY <1>1, <2>1
      <4> QED
        BY <1>1, <1>11, <4>1
    <3> QED
      BY <1>2, <1>11, <2>1, <3>1
  <2>2. CASE /\ i > L /\ i - L \in 1 .. Len(out) /\ all[i] = out[i - L] /\ t[bt[i - 1]] = t[e]
             /\ t[bt[i]] = IF i = M THEN t[e + 1] ELSE t[e]
    <3>1. Closes(script, ev)
      BY <1>4, <1>11, <2>2
    <3>2. \A j \in 1 .. L : rdy[j].kind \notin Dones
      <4>1. \A j \in 1 .. L : j \in 1 .. i - 1
        BY <1>1, <2>2
      <4> QED
        BY <1>1, <1>11, <4>1
    <3>3. \A n \in 1 .. e : ~ Closes(script, es[n])
      BY <1>2, <3>2
    <3>4. several \/ t[e] = end
      BY <3>1, <3>3, FirstEndSaid DEF t, es, end, ev, several
    <3> QED
      BY <2>2, <3>4
  <2> QED
    BY <1>8, <2>1, <2>2
<1>12. ASSUME NEW n \in 1 .. e + 1, Closes(script, es[n])
       PROVE  \E i \in 1 .. M : all[i].kind \in Dones
  <2>1. CASE n \in 1 .. e
    <3>1. PICK i \in 1 .. L : rdy[i].kind \in Dones
      BY <1>2, <1>12, <2>1
    <3>2. i \in 1 .. M /\ all[i] = rdy[i]
      BY <1>1
    <3> QED
      BY <3>1, <3>2
  <2>2. CASE n = e + 1
    <3>1. Len(out) > 0 /\ out[Len(out)].kind \in Dones
      BY <1>4, <1>12, <2>2 DEF ev
    <3>2. L + Len(out) \in 1 .. M /\ Len(out) \in 1 .. Len(out)
      BY <1>1, <3>1
    <3>3. all[L + Len(out)] = out[Len(out)]
      BY <1>1, <3>2
    <3> QED
      BY <3>1, <3>2, <3>3
  <2> QED
    BY <2>1, <2>2
<1>13. Kept(script, all, txt, e + 1, bt)
  <2>1. bt[M] = e + 1
    BY <1>6
  <2> QED
    BY <1>9, <1>10, <1>11, <1>12, <2>1 DEF Kept, t, es, end, several, M, all
<1> QED
  BY <1>6, <1>13 DEF M, all, es

(* A turn of the parser's loop takes the next event. *)
LEMMA ParseKeeps ==
  ASSUME StreamInv, Parse
  PROVE  StreamInv'
<1>1. /\ StreamTyped /\ ItemsInv /\ FlowInv /\ AnswerIsPrefix /\ script \in Scripts
      /\ UNCHANGED <<script, sent, task, held, channel, content, verdict, receiving>>
      /\ find_event_boundary(buf) # 0
  BY DEF StreamInv, StreamTyped, Parse, ParseFirst, taskVars
<1>2. Coming' = Coming /\ Arrived' = Arrived
  BY <1>1, ComingSame
<1>3. StreamTyped'
  BY <1>1, TypedSame
<1>4. ItemsInv'
  <2>1. task \in {"requesting", "reading", "over"} => held = <<>>
    BY <1>1 DEF ItemsInv
  <2> QED
    BY <1>1, <1>2, <2>1, ItemsSame
<1>5. AnswerIsPrefix'
  BY <1>1, AnswerSame
<1>6. FlowInv'
  <2>1. SUFFICES ASSUME verdict = "running" PROVE FlowInv'
    BY <1>1 DEF FlowInv
  <2>2. ready \in Seq(Range(ready)) /\ IsFiniteSet(DOMAIN partials)
    BY <1>1, <2>1 DEF FlowInv
  <2>3. PICK e \in 0 .. Len(script.events) :
            /\ Holds(buf, script, e, Arrived)
            /\ \E at \in [0 .. Len(ready) -> 0 .. Len(script.events)] :
                   Kept(script, ready, content, e, at)
    BY <1>1, <2>1 DEF FlowInv
  <2>4. PICK at \in [0 .. Len(ready) -> 0 .. Len(script.events)] : Kept(script, ready, content, e, at)
    BY <2>3
  <2> DEFINE ev == script.events[e + 1]
             k == IF ev.kind = "comment" THEN 0 ELSE e + 1
             one == OneEvent(partials, k)
  <2>5. find_event_boundary(buf) = 3 /\ Len(buf) >= Width(script)
    BY <1>1, <2>3, Boundary
  <2>6. e \in Nat /\ e + 1 \in 1 .. Len(script.events)
    <3>1. Width(script) \in {4, 6} /\ Len(buf) \in Nat /\ Len(script.events) \in Nat
      BY <1>1, <2>3, ScriptShape, Buffer
    <3>2. Len(buf) > 0
      BY <2>5, <3>1
    <3>3. e < Len(script.events) /\ e \in Nat
      BY <1>1, <2>3, <3>2, Buffer
    <3> QED
      BY <3>1, <3>3
  <2>7. parse_event(SubSeq(buf, 1, 3 - 1)) = k
    BY <1>1, <2>3, <2>5, EventParsed
  <2>8. Holds(buf', script, e + 1, Arrived)
    <3>1. buf' = Stripped(SubSeq(buf, 3, Len(buf)))
      BY <2>5 DEF Parse, ParseFirst
    <3> QED
      BY <1>1, <2>3, <2>5, <3>1, RestKept
  <2>9. partials' = one.partials /\ ready' = ready \o one.out
    <3> HIDE DEF k
    <3> QED
      BY <2>5, <2>7, Zenon DEF Parse
  <2>10. Tells(one.out, ev) /\ IsFiniteSet(DOMAIN one.partials)
    BY <1>1, <2>2, <2>6, EventTold
  <2> HIDE DEF one
  <2>11. one.out \in Seq(Range(one.out))
    BY <2>10 DEF Tells
  <2>12. \E bt \in [0 .. Len(ready \o one.out) -> 0 .. Len(script.events)] :
             Kept(script, ready \o one.out, content, e + 1, bt)
    BY <1>1, <2>2, <2>4, <2>6, <2>10, <2>11, KeptFurther
  <2>13. ready' \in Seq(Range(ready'))
    <3> DEFINE D == Range(ready) \union Range(one.out)
    <3>1. ready \o one.out \in Seq(D)
      <4>1. ASSUME NEW A, NEW B, NEW a \in Seq(A), NEW b \in Seq(B) PROVE a \o b \in Seq(A \union B)
        OBVIOUS
      <4> QED
        BY <2>2, <2>11, <4>1, Zenon
    <3> HIDE DEF D
    <3> QED
      BY <2>9, <3>1, OfItsRange
  <2>14. e + 1 \in 0 .. Len(script.events)
    BY <2>6
  <2> QED
    BY <1>1, <1>2, <2>8, <2>9, <2>10, <2>12, <2>13, <2>14 DEF FlowInv
<1> QED
  BY <1>3, <1>4, <1>5, <1>6 DEF StreamInv

(* The executor takes the first event that is ready. *)
LEMMA TakeKeeps ==
  ASSUME StreamInv, Take
  PROVE  StreamInv'
<1> DEFINE es == script.events
           t == Said(es)
           x == ready[1]
           n == Len(ready)
           r == Tail(ready)
           end == t[FirstEnd(es)]
           several == SeveralBlocks(script)
<1>1. /\ StreamTyped /\ ItemsInv /\ FlowInv /\ AnswerIsPrefix /\ script \in Scripts
      /\ UNCHANGED <<script, sent, task, held, channel, buf, partials, receiving>>
      /\ verdict = "running" /\ ready # <<>> /\ ready' = r
  BY DEF StreamInv, StreamTyped, Take, TakeFirst, taskVars
<1>2. Coming' = Coming /\ Arrived' = Arrived
  BY <1>1, ComingSame
<1>3. StreamTyped'
  BY <1>1, TypedSame
<1>4. ItemsInv'
  <2>1. task \in {"requesting", "reading", "over"} => held = <<>>
    BY <1>1 DEF ItemsInv
  <2> QED
    BY <1>1, <1>2, <2>1, ItemsSame
<1>5. ready \in Seq(Range(ready)) /\ IsFiniteSet(DOMAIN partials)
  BY <1>1 DEF FlowInv
<1>6. /\ n \in Nat /\ n > 0 /\ Head(ready) = x /\ Len(r) = n - 1 /\ r \in Seq(Range(ready))
      /\ \A i \in 1 .. n - 1 : r[i] = ready[i + 1]
  <2>1. ASSUME NEW D, NEW s \in Seq(D), s # <<>>
        PROVE  /\ Len(s) \in Nat /\ Len(s) > 0 /\ Head(s) = s[1] /\ Len(Tail(s)) = Len(s) - 1
               /\ Tail(s) \in Seq(D)
               /\ \A i \in 1 .. Len(s) - 1 : Tail(s)[i] = s[i + 1]
    BY <2>1
  <2> QED
    BY <1>1, <1>5, <2>1, Zenon
<1>7. PICK e \in 0 .. Len(es) :
          /\ Holds(buf, script, e, Arrived)
          /\ \E at \in [0 .. n -> 0 .. Len(es)] : Kept(script, ready, content, e, at)
  BY <1>1 DEF FlowInv
<1>8. PICK at \in [0 .. n -> 0 .. Len(es)] : Kept(script, ready, content, e, at)
  BY <1>7
<1>9. /\ at[n] = e /\ content = t[at[0]]
      /\ \A i \in 1 .. n : t[at[i]] = IF ready[i].kind = "delta" THEN Append(t[at[i - 1]], ready[i].text)
                                      ELSE t[at[i - 1]]
      /\ \A i \in 1 .. n :
            ready[i].kind \in Dones /\ (\A j \in 1 .. i - 1 : ready[j].kind \notin Dones) =>
                several \/ t[at[i - 1]] = end
      /\ (\E m \in 1 .. e : Closes(script, es[m])) => \E i \in 1 .. n : ready[i].kind \in Dones
  BY <1>8 DEF Kept
<1>10. es \in Seq(Events) /\ Len(es) \in Nat
  BY <1>1, ScriptShape
<1>11. \A i \in 0 .. n : at[i] \in 0 .. Len(es) /\ IsPrefix(t[at[i]], t[Len(es)])
  <2>1. ASSUME NEW i \in 0 .. n PROVE at[i] \in 0 .. Len(es)
    OBVIOUS
  <2>2. ASSUME NEW m \in 0 .. Len(es) PROVE IsPrefix(t[m], t[Len(es)])
    <3>1. Len(es) \in m .. Len(es)
      BY <1>10
    <3> QED
      BY <1>10, <3>1, SaidGrows
  <2> QED
    BY <2>1, <2>2
<1>12. 0 \in 0 .. n /\ 1 \in 0 .. n /\ 1 \in 1 .. n /\ 1 - 1 = 0
  <2> HIDE DEF n
  <2> QED
    BY <1>6
<1>13. "delta" \notin Dones
  BY DEF Dones
<1> HIDE DEF t, es, n, r, x, end, several
\* What is left keeps its places.
<1>14. ASSUME content' = IF x.kind = "delta" THEN Append(content, x.text) ELSE content,
              verdict' = "running", x.kind \notin Dones
       PROVE  FlowInv'
  <2> DEFINE bt == [i \in 0 .. n - 1 |-> at[i + 1]]
  <2>1. bt \in [0 .. Len(r) -> 0 .. Len(es)]
    <3>1. \A i \in 0 .. n - 1 : i + 1 \in 0 .. n
      BY <1>6
    <3> QED
      BY <1>6, <1>11, <3>1
  <2>2. \A i \in 0 .. n - 1 : bt[i] = at[i + 1]
    OBVIOUS
  <2>3. \A i \in 1 .. n - 1 : /\ i + 1 \in 1 .. n /\ r[i] = ready[i + 1]
                              /\ bt[i] = at[i + 1] /\ bt[i - 1] = at[i + 1 - 1]
    <3>1. \A i \in 1 .. n - 1 : /\ i + 1 \in 1 .. n /\ i - 1 \in 0 .. n - 1 /\ i \in 0 .. n - 1
                                /\ i - 1 + 1 = i + 1 - 1
      BY <1>6
    <3> HIDE DEF bt
    <3> QED
      BY <1>6, <2>2, <3>1
  <2> HIDE DEF bt
  <2>4. bt[Len(r)] = e
    <3>1. n - 1 \in 0 .. n - 1 /\ n - 1 + 1 = n
      BY <1>6
    <3> QED
      BY <1>6, <1>9, <2>2, <3>1
  <2>5. content' = t[bt[0]]
    <3>1. 0 \in 0 .. n - 1 /\ 0 + 1 = 1
      BY <1>6
    <3>2. bt[0] = at[1]
      BY <2>2, <3>1
    <3>3. t[at[1]] = IF x.kind = "delta" THEN Append(t[at[0]], x.text) ELSE t[at[0]]
      BY <1>9, <1>12 DEF x
    <3> QED
      BY <1>9, <1>14, <3>2, <3>3, Zenon
  <2>6. ASSUME NEW i \in 1 .. n - 1
        PROVE  t[bt[i]] = IF r[i].kind = "delta" THEN Append(t[bt[i - 1]], r[i].text)
                          ELSE t[bt[i - 1]]
    <3>1. i + 1 \in 1 .. n /\ r[i] = ready[i + 1] /\ bt[i] = at[i + 1] /\ bt[i - 1] = at[i + 1 - 1]
      BY <2>3
    <3>2. t[at[i + 1]] = IF ready[i + 1].kind = "delta"
                         THEN Append(t[at[i + 1 - 1]], ready[i + 1].text) ELSE t[at[i + 1 - 1]]
      BY <1>9, <3>1
    <3> QED
      BY <3>1, <3>2, Zenon
  <2>7. ASSUME NEW i \in 1 .. n - 1, r[i].kind \in Dones, \A j \in 1 .. i - 1 : r[j].kind \notin Dones
        PROVE  several \/ t[bt[i - 1]] = end
    <3>1. i + 1 \in 1 .. n /\ r[i] = ready[i + 1] /\ bt[i - 1] = at[i + 1 - 1]
      BY <2>3
    <3>2. ASSUME NEW j \in 1 .. i + 1 - 1 PROVE ready[j].kind \notin Dones
      <4>1. CASE j = 1
        BY <1>14, <4>1 DEF x
      <4>2. CASE j # 1
        <5>1. j - 1 \in 1 .. i - 1 /\ j - 1 \in 1 .. n - 1 /\ j - 1 + 1 = j
          BY <1>6, <4>2
        <5>2. r[j - 1] = ready[j]
          BY <2>3, <5>1
        <5> QED
          BY <2>7, <5>1, <5>2
      <4> QED
        BY <4>1, <4>2
    <3>3. several \/ t[at[i + 1 - 1]] = end
      BY <1>9, <2>7, <3>1, <3>2
    <3> QED
      BY <3>1, <3>3
  <2>8. ASSUME NEW m \in 1 .. e, Closes(script, es[m])
        PROVE  \E i \in 1 .. n - 1 : r[i].kind \in Dones
    <3>1. PICK i \in 1 .. n : ready[i].kind \in Dones
      BY <1>9, <2>8
    <3>2. i # 1
      BY <1>14, <3>1 DEF x
    <3>3. i - 1 \in 1 .. n - 1 /\ i - 1 + 1 = i
      BY <1>6, <3>2
    <3>4. r[i - 1] = ready[i]
      BY <2>3, <3>3
    <3> QED
      BY <3>1, <3>3, <3>4
  <2>9. Kept(script, r, content', e, bt)
    <3>1. Len(r) = n - 1
      BY <1>6
    <3> HIDE DEF r
    <3> QED
      BY <2>4, <2>5, <2>6, <2>7, <2>8, <3>1 DEF Kept, t, es, end, several
  <2>10. r \in Seq(Range(r))
    BY <1>6, OfItsRange
  <2> QED
    BY <1>1, <1>2, <1>5, <1>7, <2>1, <2>9, <2>10 DEF FlowInv, es
<1>15. ASSUME content' = IF x.kind = "delta" THEN Append(content, x.text) ELSE content,
              verdict' = "done" => x.kind \in Dones
       PROVE  AnswerIsPrefix'
  <2>1. content' = t[at[1]]
    <3>1. t[at[1]] = IF x.kind = "delta" THEN Append(t[at[0]], x.text) ELSE t[at[0]]
      BY <1>9, <1>12 DEF x
    <3> QED
      BY <1>9, <1>15, <3>1, Zenon
  <2>2. IsPrefix(content', t[Len(es)])
    BY <1>11, <1>12, <2>1
  <2>3. verdict' = "done" => several \/ content' = end
    <3>1. \A j \in 1 .. 1 - 1 : ready[j].kind \notin Dones
      OBVIOUS
    <3>2. x.kind \in Dones => several \/ t[at[0]] = end
      BY <1>9, <1>12, <3>1 DEF x
    <3> QED
      BY <1>9, <1>13, <1>15, <3>2
  <2> QED
    BY <1>1, <2>2, <2>3 DEF AnswerIsPrefix, t, es, end, several
<1>16. CASE ~ StreamTransitions(state, GateKind(Head(ready))).ok
  <2>1. verdict' = "refused" /\ UNCHANGED content
    BY <1>16, Zenon DEF Take
  <2>2. AnswerIsPrefix' /\ FlowInv'
    BY <1>1, <2>1, AnswerSame DEF FlowInv
  <2> QED
    BY <1>3, <1>4, <2>2 DEF StreamInv
<1>17. CASE StreamTransitions(state, GateKind(Head(ready))).ok
  <2>1. /\ content' = IF Head(ready).kind = "delta" THEN Append(content, Head(ready).text) ELSE content
        /\ verdict' = CASE Head(ready).kind \in {"done_stop", "done_tool_calls", "done_error"} -> "done"
                        [] Head(ready).kind = "error" -> "failed"
                        [] Head(ready).kind = "cancelled" -> "cancelled"
                        [] OTHER -> "running"
    BY <1>17 DEF Take
  <2>2. content' = IF x.kind = "delta" THEN Append(content, x.text) ELSE content
    BY <1>6, <2>1
  <2>3. (verdict' = "done" => x.kind \in Dones) /\ (verdict' = "running" => x.kind \notin Dones)
    BY <1>6, <2>1 DEF Dones
  <2>4. AnswerIsPrefix'
    BY <1>15, <2>2, <2>3
  <2>5. FlowInv'
    <3>1. CASE verdict' = "running"
      BY <1>14, <2>2, <2>3, <3>1
    <3>2. CASE verdict' # "running"
      BY <3>2 DEF FlowInv
    <3> QED
      BY <3>1, <3>2
  <2> QED
    BY <1>3, <1>4, <2>4, <2>5 DEF StreamInv
<1> QED
  BY <1>16, <1>17

LEMMA StreamInvHolds == StreamSpec => []StreamInv
<1>1. StreamInv /\ [StreamNext]_streamVars => StreamInv'
  <2> SUFFICES ASSUME StreamInv, [StreamNext]_streamVars PROVE StreamInv'
    OBVIOUS
  <2>1. CASE Respond \/ ReadBytes \/ ReadEnd \/ CancelTask \/ Send
    BY <2>1, TaskStepsKeep
  <2>2. CASE StreamClosed \/ SeeCancel \/ Timeout \/ Drop \/ Cancel \/ UNCHANGED streamVars
    BY <2>2, EndStepsKeep
  <2>3. CASE NextItem
    BY <2>3, NextItemKeeps
  <2>4. CASE Parse
    BY <2>4, ParseKeeps
  <2>5. CASE Take
    BY <2>5, TakeKeeps
  <2> QED
    BY <2>1, <2>2, <2>3, <2>4, <2>5 DEF StreamNext, Server, OwnTask, LoopEnds
<1> QED
  BY <1>1, StreamInitInv, PTL DEF StreamSpec

(* Wherever the network cuts the bytes, and whatever ends the round, the   *)
(* answer that was accumulated is a beginning of what the server wrote,    *)
(* and all of it up to the server's own end when the round is done, but    *)
(* for an answer of several blocks.                                        *)
THEOREM AnswerAlwaysPrefix == StreamSpec => []AnswerIsPrefix
<1>1. StreamInv => AnswerIsPrefix
  BY DEF StreamInv
<1> QED
  BY <1>1, StreamInvHolds, PTL

=============================================================================
