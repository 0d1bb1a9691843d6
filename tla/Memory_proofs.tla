---------------------------- MODULE Memory_proofs ----------------------------
(***************************************************************************)
(* Proofs about the long-term memory: nothing that came from a tool is     *)
(* found unreviewed, what is ready has its vector, what is kept stays and  *)
(* what was corrected is gone for good, for any number of memories, any    *)
(* conversations, channels, batches and clock.                             *)
(*                                                                         *)
(* The list of the rows a batch is made of is computed by recursion over   *)
(* the length of a list, Keep: the first lemmas prove by induction what it *)
(* returns.  The inductive invariant IndInv ties the batch of the worker,  *)
(* which outlives the rows it names, to the tables the user changes        *)
(* meanwhile.                                                              *)
(***************************************************************************)
EXTENDS Memory, TLAPS, WellFoundedInduction

(* A set of numbers that has 0 and every successor has them all.           *)
LEMMA Induction ==
  ASSUME NEW S \in SUBSET Nat, 0 \in S, \A n \in S : n + 1 \in S
  PROVE  S = Nat
<1> DEFINE T == Nat \ S
<1> SUFFICES ASSUME T # {} PROVE FALSE
  OBVIOUS
<1>1. IsWellFoundedOn(OpToRel(<, Nat), Nat)
  BY NatLessThanWellFounded
<1>2. PICK x \in T : \A y \in T : ~ (<<y, x>> \in OpToRel(<, Nat))
  <2>1. T \subseteq Nat
    OBVIOUS
  <2> HIDE DEF T
  <2> QED
    BY <1>1, <2>1, WFMin
<1>3. x - 1 \in Nat /\ x - 1 \in T
  OBVIOUS
<1>4. <<x - 1, x>> \in OpToRel(<, Nat)
  BY <1>3 DEF OpToRel
<1> QED
  BY <1>2, <1>3, <1>4

(* One step of the recursion in Keep. *)
KeepStep(rows, wanted, kept, i) ==
  IF i = 0 THEN << >>
  ELSE IF rows[i] \in wanted THEN Append(kept[i - 1], rows[i])
  ELSE kept[i - 1]

(* The recursion has a solution up to every length. *)
LEMMA KeepDefined ==
  ASSUME NEW rows, NEW wanted, NEW n \in Nat
  PROVE  \E f : f = [i \in 0 .. n |-> KeepStep(rows, wanted, f, i)]
<1> DEFINE Solved(k) == \E f : f = [i \in 0 .. k |-> KeepStep(rows, wanted, f, i)]
           S == {k \in Nat : Solved(k)}
<1>1. 0 \in S
  <2> DEFINE f == [i \in 0 .. 0 |-> << >>]
  <2>1. f = [i \in 0 .. 0 |-> KeepStep(rows, wanted, f, i)]
    BY DEF KeepStep
  <2> QED
    BY <2>1
<1>2. ASSUME NEW k \in S PROVE k + 1 \in S
  <2>1. PICK f : f = [i \in 0 .. k |-> KeepStep(rows, wanted, f, i)]
    OBVIOUS
  <2> DEFINE g == [i \in 0 .. k + 1 |-> IF i = k + 1 THEN KeepStep(rows, wanted, f, i) ELSE f[i]]
  <2>2. ASSUME NEW i \in 0 .. k + 1 PROVE g[i] = KeepStep(rows, wanted, g, i)
    <3>1. CASE i = 0
      BY <2>1, <3>1 DEF KeepStep
    <3>2. CASE i # 0
      <4>1. i - 1 \in 0 .. k /\ i - 1 # k + 1
        BY <3>2
      <4>2. g[i - 1] = f[i - 1]
        BY <4>1
      <4>3. KeepStep(rows, wanted, g, i) = KeepStep(rows, wanted, f, i)
        BY <4>2, <3>2 DEF KeepStep
      <4>4. g[i] = KeepStep(rows, wanted, f, i)
        BY <2>1
      <4> QED
        BY <4>3, <4>4
    <3> QED
      BY <3>1, <3>2
  <2>3. g = [i \in 0 .. k + 1 |-> g[i]]
    OBVIOUS
  <2>4. g = [i \in 0 .. k + 1 |-> KeepStep(rows, wanted, g, i)]
    <3> HIDE DEF g
    <3> QED
      BY <2>2, <2>3, Zenon
  <2>5. Solved(k + 1)
    <3> HIDE DEF g
    <3> QED
      BY <2>4, Zenon
  <2>6. k + 1 \in Nat
    OBVIOUS
  <2> HIDE DEF Solved
  <2> QED
    BY <2>5, <2>6
<1>3. S = Nat
  <2> HIDE DEF S
  <2>1. S \in SUBSET Nat
    BY DEF S
  <2> QED
    BY <1>1, <1>2, <2>1, Induction
<1> QED
  BY <1>3

(* Keep yields wanted rows and nothing else. *)
LEMMA KeepWanted ==
  ASSUME NEW D, NEW rows \in Seq(D), NEW wanted
  PROVE  Keep(rows, wanted) \in Seq(D \cap wanted)
<1> DEFINE f == CHOOSE f : f = [i \in 0 .. Len(rows) |-> KeepStep(rows, wanted, f, i)]
           S == {k \in Nat : k <= Len(rows) => f[k] \in Seq(D \cap wanted)}
<1>1. f = [i \in 0 .. Len(rows) |-> KeepStep(rows, wanted, f, i)]
  <2>1. Len(rows) \in Nat
    OBVIOUS
  <2> QED
    BY <2>1, KeepDefined
<1>2. Keep(rows, wanted) = f[Len(rows)]
  BY DEF Keep, KeepStep
<1> HIDE DEF f
<1>3. 0 \in S
  <2>1. Len(rows) \in Nat /\ 0 \in 0 .. Len(rows)
    OBVIOUS
  <2>2. f[0] = << >>
    BY <1>1, <2>1 DEF KeepStep
  <2>3. << >> \in Seq(D \cap wanted)
    OBVIOUS
  <2>4. f[0] \in Seq(D \cap wanted)
    BY <2>2, <2>3, Zenon
  <2> QED
    BY <2>4
<1>4. ASSUME NEW k \in S PROVE k + 1 \in S
  <2> SUFFICES ASSUME k + 1 <= Len(rows) PROVE f[k + 1] \in Seq(D \cap wanted)
    OBVIOUS
  <2>1. f[k] \in Seq(D \cap wanted)
    OBVIOUS
  <2>2. f[k + 1] = IF rows[k + 1] \in wanted THEN Append(f[k], rows[k + 1]) ELSE f[k]
    <3>1. k + 1 \in 0 .. Len(rows) /\ k + 1 # 0 /\ k + 1 - 1 = k
      OBVIOUS
    <3>2. f[k + 1] = KeepStep(rows, wanted, f, k + 1)
      BY <1>1, <3>1, Zenon
    <3> QED
      BY <3>1, <3>2 DEF KeepStep
  <2>3. rows[k + 1] \in D
    OBVIOUS
  <2> QED
    BY <2>1, <2>2, <2>3
<1>5. S = Nat
  <2> HIDE DEF S
  <2>1. S \in SUBSET Nat
    BY DEF S
  <2> QED
    BY <1>3, <1>4, <2>1, Induction
<1>6. Len(rows) \in S
  BY <1>5
<1> QED
  BY <1>2, <1>6

--------------------------------------------------------------------------------

(* The rows of memory_records. *)
Rows ==
  [from : SUBSET {"tool"}, confirmed : BOOLEAN, pinned : BOOLEAN, expires : Int,
   pending : BOOLEAN, sup : Int, status : {"pending", "ready", "failed"}]

(* Ids are given out once, in order, and only they have rows. *)
MemoryTyped ==
  /\ now \in Nat
  /\ used \in Nat /\ used <= MaxMemories
  /\ live \subseteq 1 .. used
  /\ rec \in [Ids -> Rows]
  /\ jobs \in Seq(Conversations)
  /\ cmds \in Seq(Ids \cup {Poll}) /\ queue \in Seq(Ids)

(* The worker has a batch while it works on one, of ids given out before. *)
BatchUsed ==
  /\ batch \in Seq(Ids)
  /\ \A i \in 1 .. Len(batch) : batch[i] <= used
  /\ wpc \in {"idle", "embed", "store", "ready", "failed"}
  /\ wpc # "idle" => batch # << >>

(* A vector whose mark is still missing is there as long as its memory is. *)
VectorFirst ==
  wpc = "ready" => Head(batch) \notin live \/ Head(batch) \in vec

(* A memory taken from a tool waits for review until it is confirmed. *)
ReviewFirst ==
  \A m \in live : "tool" \in rec[m].from => rec[m].pending \/ rec[m].confirmed

(* A correction is a memory given out and never one that waits for review: *)
(* no rejection can undo it.                                               *)
CorrectionsFirm ==
  \A m \in Ids : rec[m].sup # 0 =>
    /\ rec[m].sup \in 1 .. used
    /\ ~ rec[rec[m].sup].pending

(* The parts of the inductive invariant. *)
IndInv ==
  /\ MemoryTyped /\ BatchUsed
  /\ ReadyHasVector /\ VectorFirst
  /\ ReviewFirst /\ CorrectionsFirm

(* Empty tables and an idle worker satisfy it. *)
LEMMA InitIndInv == Init => IndInv
<1> SUFFICES ASSUME Init PROVE IndInv
  OBVIOUS
<1> USE MemoryAssumption DEF Init
<1>1. MemoryTyped
  <2>1. NoRow \in Rows
    BY DEF NoRow, Row, Rows, Forever
  <2> QED
    BY <2>1 DEF MemoryTyped
<1>2. BatchUsed /\ ReadyHasVector /\ VectorFirst /\ ReviewFirst
  BY DEF BatchUsed, ReadyHasVector, VectorFirst, ReviewFirst
<1>3. CorrectionsFirm
  BY DEF CorrectionsFirm, NoRow, Row
<1> QED
  BY <1>1, <1>2, <1>3 DEF IndInv

(* Tables that stand still. *)
LEMMA TablesStand ==
  ASSUME IndInv, UNCHANGED << used, live, rec, vec >>
  PROVE  ReadyHasVector' /\ ReviewFirst' /\ CorrectionsFirm'
BY DEF IndInv, ReadyHasVector, ReviewFirst, CorrectionsFirm

(* What rejects no memory and corrects none, disturbs no correction. *)
LEMMA CorrectionsStand ==
  ASSUME IndInv, UNCHANGED used,
         \A k \in Ids : rec'[k].sup = rec[k].sup,
         \A k \in Ids : rec'[k].pending => rec[k].pending
  PROVE  CorrectionsFirm'
<1> SUFFICES ASSUME NEW k \in Ids, rec'[k].sup # 0
             PROVE  rec'[k].sup \in 1 .. used /\ ~ rec'[rec'[k].sup].pending
  BY DEF CorrectionsFirm
<1>1. rec'[k].sup = rec[k].sup
  OBVIOUS
<1>2. rec[k].sup \in 1 .. used /\ ~ rec[rec[k].sup].pending /\ rec[k].sup \in Ids
  BY <1>1, MemoryAssumption DEF IndInv, MemoryTyped, CorrectionsFirm, Ids
<1>3. ~ rec'[rec[k].sup].pending
  BY <1>2
<1> QED
  BY <1>1, <1>2, <1>3

(* Two rows that differ at most in what replaced them. *)
Same(a, b) ==
  /\ a.from = b.from /\ a.confirmed = b.confirmed /\ a.pinned = b.pinned
  /\ a.expires = b.expires /\ a.pending = b.pending /\ a.status = b.status

(* A row that is superseded, or is no longer, stays a row. *)
LEMMA SupRow ==
  ASSUME NEW r \in Rows, NEW n \in Int
  PROVE  /\ [r EXCEPT !.sup = n] \in Rows /\ [r EXCEPT !.sup = n].sup = n
         /\ Same([r EXCEPT !.sup = n], r)
BY DEF Rows, Same

(* A new row, and the row it replaces if it replaces one.                  *)
Inserted(row) ==
  /\ Insert(row)
  /\ rec' \in [Ids -> Rows]
  /\ used + 1 \in Ids /\ rec'[used + 1] = row
  /\ \A k \in Ids \ {used + 1} :
       /\ Same(rec'[k], rec[k])
       /\ \/ rec'[k].sup = rec[k].sup
          \/ rec[k].sup = 0 /\ rec'[k].sup = used + 1 /\ ~ row.pending

(* A row the extractor or a correction writes: what was taken from a tool  *)
(* waits for review.                                                       *)
Fresh(row) ==
  /\ row.sup = 0
  /\ row.status = "pending"
  /\ "tool" \in row.from => row.pending

(* Such a row disturbs no memory that is there. *)
LEMMA InsertKeeps ==
  ASSUME IndInv, NEW row \in Rows, Inserted(row), Fresh(row), UNCHANGED vec
  PROVE  /\ used' \in Nat /\ used' <= MaxMemories /\ live' \subseteq 1 .. used'
         /\ ReadyHasVector' /\ ReviewFirst' /\ CorrectionsFirm'
<1> USE MemoryAssumption DEF IndInv, MemoryTyped, Insert, Inserted, Fresh, Ids
<1>1. used + 1 \notin live
  OBVIOUS
<1>2. used' \in Nat /\ used' <= MaxMemories /\ live' \subseteq 1 .. used'
  OBVIOUS
<1>3. \A k \in live : k \in Ids \ {used + 1}
  OBVIOUS
<1>5. ReadyHasVector'
  BY <1>1, <1>3 DEF ReadyHasVector, Same
<1>6. ReviewFirst'
  BY <1>1, <1>3 DEF ReviewFirst, Same
<1>7. CorrectionsFirm'
  <2> SUFFICES ASSUME NEW k \in Ids, rec'[k].sup # 0
               PROVE  rec'[k].sup \in 1 .. used + 1 /\ ~ rec'[rec'[k].sup].pending
    BY DEF CorrectionsFirm
  <2>1. k # used + 1
    OBVIOUS
  <2>2. CASE rec'[k].sup = rec[k].sup
    <3>1. rec[k].sup \in 1 .. used /\ ~ rec[rec[k].sup].pending
      BY <2>2 DEF CorrectionsFirm
    <3>2. rec[k].sup \in Ids \ {used + 1}
      BY <3>1
    <3>3. ~ rec'[rec[k].sup].pending
      BY <3>1, <3>2 DEF Same
    <3> QED
      BY <2>2, <3>1, <3>3
  <2>3. CASE rec'[k].sup = used + 1 /\ ~ row.pending
    BY <2>3
  <2> QED
    BY <2>1, <2>2, <2>3
<1> QED
  BY <1>2, <1>5, <1>6, <1>7

(* The rows that stay after a deletion. *)
Deleted(gone) ==
  /\ rec' \in [Ids -> Rows]
  /\ \A k \in Ids \ gone :
       /\ Same(rec'[k], rec[k])
       /\ rec'[k].sup = IF rec[k].sup \in gone THEN 0 ELSE rec[k].sup

(* Whatever is deleted, its vectors and the pointers to it go with it. *)
LEMMA DeleteKeeps ==
  ASSUME IndInv, NEW gone, Delete(gone), UNCHANGED << now, used >>
  PROVE  /\ live' \subseteq 1 .. used
         /\ Deleted(gone)
         /\ ReadyHasVector' /\ ReviewFirst' /\ CorrectionsFirm'
         /\ UNCHANGED << batch, wpc >> => VectorFirst'
<1> USE MemoryAssumption DEF IndInv, MemoryTyped, Delete, Ids
<1>1. NoRow \in Rows /\ NoRow.sup = 0 /\ ~ NoRow.pending
  BY DEF NoRow, Row, Rows, Forever
<1>0. \A k \in Ids : rec[k] \in Rows
  OBVIOUS
<1>2. rec' \in [Ids -> Rows]
  <2>1. \A k \in Ids : [rec[k] EXCEPT !.sup = 0] \in Rows
    BY <1>0, SupRow, 0 \in Int, Zenon
  <2> QED
    BY <1>1, <2>1
<1>3. \A k \in Ids \ gone :
        /\ Same(rec'[k], rec[k])
        /\ rec'[k].sup = IF rec[k].sup \in gone THEN 0 ELSE rec[k].sup
  <2>1. \A k \in Ids : LET r == [rec[k] EXCEPT !.sup = 0] IN r.sup = 0 /\ Same(r, rec[k])
    BY <1>0, SupRow, 0 \in Int, Zenon
  <2>2. \A k \in Ids : Same(rec[k], rec[k])
    BY DEF Same
  <2> QED
    BY <2>1, <2>2
<1>4. ReadyHasVector'
  BY <1>3 DEF ReadyHasVector, Same
<1>5. ReviewFirst'
  BY <1>3 DEF ReviewFirst, Same
<1>6. CorrectionsFirm'
  <2> SUFFICES ASSUME NEW k \in Ids, rec'[k].sup # 0
               PROVE  rec'[k].sup \in 1 .. used /\ ~ rec'[rec'[k].sup].pending
    BY DEF CorrectionsFirm
  <2>1. k \notin gone
    BY <1>1
  <2>2. rec'[k].sup = rec[k].sup
    BY <1>3, <2>1
  <2>3. rec[k].sup \in 1 .. used /\ ~ rec[rec[k].sup].pending
    BY <2>2 DEF CorrectionsFirm
  <2>4. ~ rec'[rec[k].sup].pending
    BY <1>1, <1>3, <2>3 DEF Same
  <2> QED
    BY <2>2, <2>3, <2>4
<1>7. UNCHANGED << batch, wpc >> => VectorFirst'
  BY DEF VectorFirst
<1>8. Deleted(gone)
  BY <1>2, <1>3 DEF Deleted
<1> QED
  BY <1>4, <1>5, <1>6, <1>7, <1>8

(* The extractor writes a fresh row: determine_real_origin overrules the   *)
(* classifier on what a tool said.                                         *)
LEMMA ExtractInserts ==
  ASSUME IndInv, NEW proposed, NEW expires \in {MaxTime, Forever},
         ExtractRow(proposed, expires)
  PROVE  \E row \in Rows : Inserted(row) /\ Fresh(row)
<1> DEFINE external == RealOrigin(Head(jobs), proposed) = "external"
           from == Head(jobs) \cap {"tool"}
           row == Row(from, FALSE, FALSE, expires, external)
<1>1. expires \in Int /\ external \in BOOLEAN /\ from \in SUBSET {"tool"}
  BY MemoryAssumption DEF Forever
<1>2. /\ row \in Rows /\ row.sup = 0 /\ row.status = "pending"
      /\ row.from = from /\ row.pending = external
  <2> HIDE DEF from, external
  <2> QED
    BY <1>1 DEF Row, Rows
<1>3. "tool" \in row.from => row.pending
  BY <1>2 DEF RealOrigin
<1>4. Insert(row) /\ rec' = [rec EXCEPT ![used + 1] = row]
  BY DEF ExtractRow
<1> HIDE DEF row
<1>5. Inserted(row)
  BY <1>2, <1>4, MemoryAssumption DEF Inserted, Insert, IndInv, MemoryTyped, Ids, Same
<1> QED
  BY <1>2, <1>3, <1>5 DEF Fresh

(* apply_correction writes one too, whether the memory it corrects is      *)
(* still there or not.                                                     *)
LEMMA CorrectInserts ==
  ASSUME IndInv, NEW m, NEW pinned \in BOOLEAN, NEW expires \in {MaxTime, Forever},
         Correct(m, pinned, expires)
  PROVE  \E row \in Rows : Inserted(row) /\ Fresh(row)
<1> DEFINE row == Row({}, TRUE, pinned, expires, FALSE)
           new == [rec EXCEPT ![used + 1] = row]
           replaced == [new EXCEPT ![m].sup = used + 1]
<1> USE MemoryAssumption DEF IndInv, MemoryTyped, Ids
<1>1. expires \in Int
  BY DEF Forever
<1>2. /\ row \in Rows /\ row.sup = 0 /\ row.status = "pending"
      /\ row.from = {} /\ row.pending = FALSE
  BY <1>1 DEF Row, Rows
<1>4. /\ Insert(row) /\ m \in 1 .. used
      /\ rec' = IF m \in live /\ Supersede(m) THEN replaced ELSE new
  BY DEF Correct
<1> HIDE DEF row
<1>5. used + 1 \in Ids /\ m \in Ids /\ m # used + 1 /\ used + 1 \in Int
  BY <1>4 DEF Insert
<1>6. new \in [Ids -> Rows] /\ new[used + 1] = row /\ \A k \in Ids \ {used + 1} : new[k] = rec[k]
  BY <1>2, <1>5
<1>7. [new[m] EXCEPT !.sup = used + 1] \in Rows
  BY <1>5, <1>6, SupRow, Zenon
<1>8. LET r == [new[m] EXCEPT !.sup = used + 1] IN r.sup = used + 1 /\ Same(r, new[m])
  BY <1>5, <1>6, SupRow, Zenon
<1> HIDE DEF new
<1>9. replaced \in [Ids -> Rows] /\ replaced[m] = [new[m] EXCEPT !.sup = used + 1]
      /\ \A k \in Ids \ {m} : replaced[k] = new[k]
  BY <1>5, <1>6, <1>7
<1>10. \A k \in Ids : Same(rec[k], rec[k])
  BY DEF Same
<1> HIDE DEF replaced
<1>11. Inserted(row)
  <2>1. CASE m \in live /\ Supersede(m)
    <3>1. rec' = replaced /\ rec[m].sup = 0
      BY <2>1, <1>4 DEF Supersede
    <3>2. rec'[m].sup = used + 1 /\ Same(rec'[m], rec[m])
      BY <3>1, <1>5, <1>6, <1>8, <1>9
    <3>3. \A k \in Ids \ {m, used + 1} : rec'[k] = rec[k]
      BY <3>1, <1>6, <1>9
    <3>4. rec'[used + 1] = row
      BY <3>1, <1>5, <1>6, <1>9
    <3> QED
      BY <3>1, <3>2, <3>3, <3>4, <1>2, <1>4, <1>5, <1>9, <1>10 DEF Inserted
  <2>2. CASE ~ (m \in live /\ Supersede(m))
    BY <2>2, <1>2, <1>4, <1>5, <1>6, <1>10 DEF Inserted
  <2> QED
    BY <2>1, <2>2
<1> QED
  BY <1>2, <1>11 DEF Fresh

(* LIMIT keeps a list a list. *)
LEMMA PrefixTyped ==
  ASSUME NEW D, NEW rows \in Seq(D), NEW n \in Nat, n <= Len(rows)
  PROVE  SubSeq(rows, 1, n) \in Seq(D)
OBVIOUS

(* What a command adds to the queue are ids. *)
LEMMA CollectedTyped ==
  ASSUME IndInv, cmds # << >>
  PROVE  Collected \in Seq(Ids)
<1> USE MemoryAssumption DEF IndInv, MemoryTyped
<1>1. CASE Head(cmds) # Poll
  <2>1. Head(cmds) \in Ids
    BY <1>1
  <2> QED
    BY <1>1, <2>1 DEF Collected
<1>2. CASE Head(cmds) = Poll
  <2> DEFINE all == [m \in Ids |-> m]
             rows == Keep(all, Open)
             n == IF Len(rows) < BatchSize THEN Len(rows) ELSE BatchSize
             room == IF Len(queue) < BatchSize THEN BatchSize - Len(queue) ELSE 0
             k == IF Len(PendingEmbeddings) < room THEN Len(PendingEmbeddings) ELSE room
  <2>1. all \in Seq(Ids)
    BY DEF Ids
  <2>2. rows \in Seq(Ids \cap Open)
    BY <2>1, KeepWanted
  <2>3. rows \in Seq(Ids)
    <3> HIDE DEF rows
    <3> QED
      BY <2>2
  <2>4. PendingEmbeddings = SubSeq(rows, 1, n)
    BY DEF PendingEmbeddings
  <2>5. PendingEmbeddings \in Seq(Ids)
    <3> HIDE DEF rows
    <3>1. n \in Nat /\ n <= Len(rows)
      BY <2>3
    <3> QED
      BY <2>3, <2>4, <3>1, PrefixTyped
  <2> HIDE DEF rows
  <2>6. k \in Nat /\ k <= Len(PendingEmbeddings)
    BY <2>5
  <2>7. SubSeq(PendingEmbeddings, 1, k) \in Seq(Ids)
    BY <2>5, <2>6, PrefixTyped
  <2>8. Collected = queue \o SubSeq(PendingEmbeddings, 1, k)
    BY <1>2 DEF Collected
  <2> QED
    BY <2>7, <2>8
<1> QED
  BY <1>1, <1>2

(* Every step of the extractor, the user, the worker, the clock and the    *)
(* restart preserves the invariant.                                        *)
LEMMA StepIndInv == IndInv /\ [Next]_vars => IndInv'
<1> SUFFICES ASSUME IndInv, [Next]_vars PROVE IndInv'
  OBVIOUS
<1> USE MemoryAssumption
<1>0. IndInv
  OBVIOUS
<1>1. ASSUME NEW c \in Conversations, Enqueue(c) PROVE IndInv'
  <2>1. ReadyHasVector' /\ ReviewFirst' /\ CorrectionsFirm'
    BY <1>0, <1>1, TablesStand DEF Enqueue
  <2>2. MemoryTyped'
    BY <1>0, <1>1 DEF Enqueue, IndInv, MemoryTyped, worker
  <2> QED
    BY <1>0, <1>1, <2>1, <2>2 DEF Enqueue, IndInv, worker, BatchUsed, VectorFirst
<1>2. CASE ExtractNothing
  <2>1. ReadyHasVector' /\ ReviewFirst' /\ CorrectionsFirm'
    BY <1>0, <1>2, TablesStand DEF ExtractNothing
  <2>2. MemoryTyped'
    BY <1>0, <1>2 DEF ExtractNothing, IndInv, MemoryTyped, worker
  <2> QED
    BY <1>0, <1>2, <2>1, <2>2 DEF ExtractNothing, IndInv, worker, BatchUsed, VectorFirst
<1>3. ASSUME NEW proposed, NEW expires \in {MaxTime, Forever}, ExtractRow(proposed, expires)
      PROVE  IndInv'
  <2>1. PICK row \in Rows : Inserted(row) /\ Fresh(row)
    BY <1>0, <1>3, ExtractInserts
  <2>2. /\ UNCHANGED << now, vec, cmds, queue, batch, wpc >>
        /\ jobs # << >> /\ jobs' = Tail(jobs)
    BY <1>3 DEF ExtractRow, worker
  <2>3. /\ used' \in Nat /\ used' <= MaxMemories /\ live' \subseteq 1 .. used'
        /\ ReadyHasVector' /\ ReviewFirst' /\ CorrectionsFirm'
    BY <1>0, <2>1, <2>2, InsertKeeps
  <2>4. MemoryTyped'
    BY <1>0, <2>1, <2>2, <2>3 DEF IndInv, MemoryTyped, worker, Inserted
  <2>5. BatchUsed'
    <3>1. used' = used + 1 /\ used \in Nat
      BY <1>0, <2>1 DEF IndInv, MemoryTyped, Inserted, Insert
    <3>2. \A i \in 1 .. Len(batch) : batch[i] \in Int /\ batch[i] <= used
      BY <1>0 DEF IndInv, BatchUsed, Ids
    <3> QED
      BY <1>0, <2>2, <3>1, <3>2 DEF IndInv, BatchUsed
  <2>6. VectorFirst'
    <3>1. used \in Nat /\ live' = live \cup {used + 1}
      BY <1>0, <2>1 DEF IndInv, MemoryTyped, Inserted, Insert
    <3>2. wpc = "ready" => Head(batch) <= used /\ Head(batch) \in Int
      <4>1. batch \in Seq(Int) /\ (wpc # "idle" => batch # << >>)
        BY <1>0 DEF IndInv, BatchUsed, Ids
      <4> QED
        BY <1>0, <4>1 DEF IndInv, BatchUsed
    <3>3. wpc = "ready" => Head(batch) # used + 1
      BY <3>1, <3>2
    <3> QED
      BY <1>0, <2>2, <3>1, <3>3 DEF IndInv, VectorFirst
  <2> QED
    BY <2>3, <2>4, <2>5, <2>6 DEF IndInv
<1>4. ASSUME NEW m \in Ids, Confirm(m) PROVE IndInv'
  <2> DEFINE r == [rec[m] EXCEPT !.pending = FALSE, !.confirmed = TRUE]
  <2>0. rec \in [Ids -> Rows] /\ rec[m] \in Rows /\ live \subseteq Ids
    BY <1>0 DEF IndInv, MemoryTyped, Ids
  <2>a. /\ r \in Rows /\ r.from = rec[m].from /\ r.sup = rec[m].sup
        /\ r.status = rec[m].status /\ ~ r.pending /\ r.confirmed
    BY <2>0 DEF Rows
  <2>b. rec' = [rec EXCEPT ![m] = r]
    BY <1>4, <2>0 DEF Confirm
  <2> HIDE DEF r
  <2>1. rec' \in [Ids -> Rows] /\ rec'[m] = r /\ \A k \in Ids \ {m} : rec'[k] = rec[k]
    BY <2>0, <2>a, <2>b
  <2>2. UNCHANGED << now, used, live, vec, jobs, worker >>
    BY <1>4 DEF Confirm
  <2>3. ReadyHasVector'
    BY <1>0, <2>0, <2>a, <2>1, <2>2 DEF IndInv, MemoryTyped, ReadyHasVector, Ids
  <2>4. ReviewFirst'
    BY <1>0, <2>0, <2>a, <2>1, <2>2 DEF IndInv, MemoryTyped, ReviewFirst, Ids
  <2>5. CorrectionsFirm'
    BY <1>0, <2>a, <2>1, <2>2, CorrectionsStand
  <2> QED
    BY <1>0, <2>1, <2>2, <2>3, <2>4, <2>5
    DEF IndInv, MemoryTyped, BatchUsed, VectorFirst, worker
<1>5. ASSUME NEW gone, Delete(gone), UNCHANGED << now, used, jobs, worker >> PROVE IndInv'
  <2>1. /\ live' \subseteq 1 .. used /\ Deleted(gone)
        /\ ReadyHasVector' /\ ReviewFirst' /\ CorrectionsFirm' /\ VectorFirst'
    BY <1>0, <1>5, DeleteKeeps DEF worker
  <2> QED
    BY <1>0, <1>5, <2>1 DEF IndInv, MemoryTyped, BatchUsed, worker, Deleted
<1>6. ASSUME NEW m, NEW pinned \in BOOLEAN, NEW expires \in {MaxTime, Forever},
             Correct(m, pinned, expires)
      PROVE  IndInv'
  <2>1. PICK row \in Rows : Inserted(row) /\ Fresh(row)
    BY <1>0, <1>6, CorrectInserts
  <2>2. UNCHANGED << now, vec, jobs, cmds, queue, batch, wpc >>
    BY <1>6 DEF Correct, worker
  <2>3. /\ used' \in Nat /\ used' <= MaxMemories /\ live' \subseteq 1 .. used'
        /\ ReadyHasVector' /\ ReviewFirst' /\ CorrectionsFirm'
    BY <1>0, <2>1, <2>2, InsertKeeps
  <2>4. MemoryTyped'
    BY <1>0, <2>1, <2>2, <2>3 DEF IndInv, MemoryTyped, worker, Inserted
  <2>5. BatchUsed'
    <3>1. used' = used + 1 /\ used \in Nat
      BY <1>0, <2>1 DEF IndInv, MemoryTyped, Inserted, Insert
    <3>2. \A i \in 1 .. Len(batch) : batch[i] \in Int /\ batch[i] <= used
      BY <1>0 DEF IndInv, BatchUsed, Ids
    <3> QED
      BY <1>0, <2>2, <3>1, <3>2 DEF IndInv, BatchUsed
  <2>6. VectorFirst'
    <3>1. used \in Nat /\ live' = live \cup {used + 1}
      BY <1>0, <2>1 DEF IndInv, MemoryTyped, Inserted, Insert
    <3>2. wpc = "ready" => Head(batch) <= used /\ Head(batch) \in Int
      <4>1. batch \in Seq(Int) /\ (wpc # "idle" => batch # << >>)
        BY <1>0 DEF IndInv, BatchUsed, Ids
      <4> QED
        BY <1>0, <4>1 DEF IndInv, BatchUsed
    <3>3. wpc = "ready" => Head(batch) # used + 1
      BY <3>1, <3>2
    <3> QED
      BY <1>0, <2>2, <3>1, <3>3 DEF IndInv, VectorFirst
  <2> QED
    BY <2>3, <2>4, <2>5, <2>6 DEF IndInv
<1>7. ASSUME NEW c \in Ids \cup {Poll}, Send(c) PROVE IndInv'
  <2>1. ReadyHasVector' /\ ReviewFirst' /\ CorrectionsFirm'
    BY <1>0, <1>7, TablesStand DEF Send
  <2>2. MemoryTyped'
    BY <1>0, <1>7 DEF Send, IndInv, MemoryTyped
  <2> QED
    BY <1>0, <1>7, <2>1, <2>2 DEF Send, IndInv, BatchUsed, VectorFirst
<1>8. CASE Gather
  <2>1. ReadyHasVector' /\ ReviewFirst' /\ CorrectionsFirm'
    BY <1>0, <1>8, TablesStand DEF Gather
  <2>2. MemoryTyped'
    BY <1>0, <1>8 DEF Gather, IndInv, MemoryTyped
  <2>3. batch' \in Seq(Ids \cap Open)
    <3>1. batch' = Keep(Collected, Open)
      BY <1>8 DEF Gather
    <3>2. Collected \in Seq(Ids)
      BY <1>0, <1>8, CollectedTyped DEF Gather
    <3> QED
      BY <3>1, <3>2, KeepWanted
  <2>4. BatchUsed'
    <3>1. batch' \in Seq(Ids) /\ \A i \in 1 .. Len(batch') : batch'[i] \in Open
      BY <2>3
    <3>2. \A k \in Open : k <= used
      BY <1>0 DEF Open, IndInv, MemoryTyped
    <3>3. \A i \in 1 .. Len(batch') : batch'[i] <= used
      BY <3>1, <3>2
    <3>4. used' = used
      BY <1>8 DEF Gather
    <3> QED
      BY <1>8, <3>1, <3>3, <3>4 DEF Gather, BatchUsed
  <2>5. VectorFirst'
    BY <1>8 DEF Gather, VectorFirst
  <2> QED
    BY <2>1, <2>2, <2>4, <2>5 DEF IndInv
<1>9. CASE GatherFails
  <2>1. ReadyHasVector' /\ ReviewFirst' /\ CorrectionsFirm'
    BY <1>0, <1>9, TablesStand DEF GatherFails
  <2>2. queue' \in Seq(Ids)
    BY <1>0, <1>9, CollectedTyped DEF GatherFails, IndInv, MemoryTyped
  <2>3. MemoryTyped'
    BY <1>0, <1>9, <2>2 DEF GatherFails, IndInv, MemoryTyped
  <2> QED
    BY <1>0, <1>9, <2>1, <2>3 DEF GatherFails, IndInv, BatchUsed, VectorFirst
<1>10. CASE Embedded
  <2>1. ReadyHasVector' /\ ReviewFirst' /\ CorrectionsFirm'
    BY <1>0, <1>10, TablesStand DEF Embedded
  <2> QED
    BY <1>0, <1>10, <2>1 DEF Embedded, IndInv, MemoryTyped, BatchUsed, VectorFirst
<1>11. CASE StoreVector
  <2>1. ReadyHasVector' /\ VectorFirst'
    BY <1>0, <1>11 DEF StoreVector, IndInv, ReadyHasVector, VectorFirst
  <2>2. ReviewFirst' /\ CorrectionsFirm'
    BY <1>0, <1>11 DEF StoreVector, IndInv, ReviewFirst, CorrectionsFirm
  <2> QED
    BY <1>0, <1>11, <2>1, <2>2 DEF StoreVector, IndInv, MemoryTyped, BatchUsed
<1>12. ASSUME NEW status \in {"ready", "failed"}, NEW next \in {"store", "failed"},
              batch # << >>, Advance(next),
              \/ rec' = rec
              \/ /\ Head(batch) \in live
                 /\ rec' = [rec EXCEPT ![Head(batch)].status = status]
                 /\ status = "ready" => Head(batch) \in vec,
              UNCHANGED << now, used, live, vec, jobs, cmds, queue >>
       PROVE  IndInv'
  <2> DEFINE b == Head(batch)
             r == [rec[b] EXCEPT !.status = status]
  <2>3. live \subseteq Ids /\ rec \in [Ids -> Rows]
    BY <1>0 DEF IndInv, MemoryTyped, Ids
  <2>a. b \in Ids
    BY <1>0, <1>12 DEF IndInv, BatchUsed
  <2> HIDE DEF b
  <2>b. /\ r \in Rows /\ r.from = rec[b].from /\ r.sup = rec[b].sup /\ r.status = status
        /\ r.pending = rec[b].pending /\ r.confirmed = rec[b].confirmed
    <3>1. rec[b] \in Rows /\ status \in {"pending", "ready", "failed"}
      BY <2>3, <2>a
    <3> QED
      BY <3>1 DEF Rows
  <2>c. \/ rec' = rec
        \/ rec' = [rec EXCEPT ![b] = r] /\ (status = "ready" => b \in vec)
    BY <1>12, <2>3, <2>a DEF b
  <2> HIDE DEF r
  <2>1. rec' \in [Ids -> Rows]
    BY <2>3, <2>a, <2>b, <2>c
  <2>d. \A k \in Ids : \/ rec'[k] = rec[k]
                       \/ k = b /\ rec'[k] = r /\ (status = "ready" => k \in vec)
    BY <2>3, <2>a, <2>c
  <2>2. \A k \in Ids : /\ rec'[k].from = rec[k].from /\ rec'[k].sup = rec[k].sup
                       /\ rec'[k].pending = rec[k].pending
                       /\ rec'[k].confirmed = rec[k].confirmed
                       /\ \/ rec'[k].status = rec[k].status
                          \/ rec'[k].status = "ready" => k \in vec
    BY <2>b, <2>d
  <2>4. ReadyHasVector'
    BY <1>0, <1>12, <2>2, <2>3 DEF IndInv, ReadyHasVector
  <2>5. ReviewFirst'
    BY <1>0, <1>12, <2>2, <2>3 DEF IndInv, ReviewFirst
  <2>6. CorrectionsFirm'
    BY <1>0, <1>12, <2>2, CorrectionsStand
  <2>7. BatchUsed' /\ wpc' # "ready"
    <3>1. batch' = Tail(batch) /\ wpc' = (IF Len(batch) = 1 THEN "idle" ELSE next)
      BY <1>12 DEF Advance
    <3>2. /\ batch' \in Seq(Ids) /\ Len(batch') = Len(batch) - 1
          /\ \A i \in 1 .. Len(batch') : batch'[i] = batch[i + 1]
      BY <1>0, <1>12, <3>1 DEF IndInv, BatchUsed
    <3>3. Len(batch) # 1 => batch' # << >>
      BY <1>0, <1>12, <3>2 DEF IndInv, BatchUsed
    <3>4. Len(batch) \in Nat
      BY <1>0 DEF IndInv, BatchUsed
    <3>5. \A i \in 1 .. Len(batch') : batch'[i] <= used
      BY <1>0, <3>2, <3>4 DEF IndInv, BatchUsed
    <3> QED
      BY <1>12, <3>1, <3>2, <3>3, <3>5 DEF BatchUsed
  <2>8. MemoryTyped'
    BY <1>0, <1>12, <2>1 DEF IndInv, MemoryTyped
  <2> QED
    BY <2>4, <2>5, <2>6, <2>7, <2>8 DEF IndInv, VectorFirst
<1>13. CASE StoreReady
  BY <1>0, <1>12, <1>13 DEF StoreReady, IndInv, BatchUsed, VectorFirst
<1>14. CASE MarkFailed
  BY <1>0, <1>12, <1>14 DEF MarkFailed, IndInv, BatchUsed
<1>15. CASE Tick
  <2>1. ReadyHasVector' /\ ReviewFirst' /\ CorrectionsFirm'
    BY <1>0, <1>15, TablesStand DEF Tick
  <2> QED
    BY <1>0, <1>15, <2>1 DEF Tick, IndInv, MemoryTyped, worker, BatchUsed, VectorFirst
<1>16. CASE Restart
  <2>1. UNCHANGED << now, used >> /\ jobs' = << >> /\ cmds' = << >> /\ queue' = << >>
        /\ batch' = << >> /\ wpc' = "idle"
    BY <1>16 DEF Restart
  <2>2. /\ live' \subseteq 1 .. used /\ rec' \in [Ids -> Rows]
        /\ ReadyHasVector' /\ ReviewFirst' /\ CorrectionsFirm'
    <3>1. CASE Delete({m \in Ids : Purgeable(m)})
      BY <1>0, <2>1, <3>1, DeleteKeeps DEF Deleted
    <3>2. CASE UNCHANGED << live, rec, vec >>
      BY <1>0, <2>1, <3>2, TablesStand DEF IndInv, MemoryTyped
    <3> QED
      BY <1>16, <3>1, <3>2 DEF Restart
  <2>3. MemoryTyped'
    BY <1>0, <2>1, <2>2 DEF IndInv, MemoryTyped
  <2> QED
    BY <2>1, <2>2, <2>3 DEF IndInv, BatchUsed, VectorFirst
<1>17. CASE UNCHANGED vars
  <2>1. ReadyHasVector' /\ ReviewFirst' /\ CorrectionsFirm'
    BY <1>0, <1>17, TablesStand DEF vars
  <2> QED
    BY <1>0, <1>17, <2>1 DEF vars, IndInv, MemoryTyped, worker, BatchUsed, VectorFirst
<1>18. CASE Command
  <2>1. ASSUME NEW m \in Ids, Reject(m) PROVE IndInv'
    BY <1>5, <2>1 DEF Reject
  <2>2. CASE Purge
    BY <1>5, <2>2 DEF Purge
  <2> QED
    BY <1>18, <1>4, <1>6, <2>1, <2>2 DEF Command
<1> QED
  BY <1>1, <1>2, <1>3, <1>7, <1>8, <1>9, <1>10, <1>11, <1>13, <1>14, <1>15, <1>16, <1>17, <1>18
  DEF Next

(* The invariant holds. *)
THEOREM IndInvHolds == Spec => []IndInv
<1>1. IndInv /\ [Next]_vars => IndInv'
  BY StepIndInv
<1> QED
  BY <1>1, InitIndInv, PTL DEF Spec

(* A memory the extractor took from a tool is found by no search before    *)
(* the user confirmed it, whatever origin the classifier proposed          *)
(* (determine_real_origin, search_lexical, confirm_pending).               *)
THEOREM NothingExternalUnreviewed == Spec => []ReviewGate
<1>1. IndInv => ReviewGate
  BY DEF IndInv, ReviewFirst, ReviewGate, Found
<1> QED
  BY <1>1, IndInvHolds, PTL

(* A memory marked ready has its vector and no vector outlives its memory, *)
(* whatever the user deletes or corrects between the read of a batch, the  *)
(* answer of the provider and the two statements of set_embedding.         *)
THEOREM ReadyAlwaysHasVector == Spec => []ReadyHasVector
<1>1. IndInv => ReadyHasVector
  BY DEF IndInv
<1> QED
  BY <1>1, IndInvHolds, PTL

(* NothingLost and SupersededForGood, of one step. *)
NoLoss ==
  \A m \in Ids : Found(m) /\ ~ Found(m)' =>
    \/ m \in live' /\ rec'[m].sup # 0
    \/ rec[m].expires <= now' /\ ~ rec[m].pinned

StaysSuperseded ==
  \A m \in live : rec[m].sup # 0 => m \notin live' \/ rec'[m].sup = rec[m].sup

(* A new row loses no memory and brings none back. *)
LEMMA InsertStands ==
  ASSUME IndInv, NEW row \in Rows, Inserted(row), UNCHANGED now
  PROVE  NoLoss /\ StaysSuperseded
<1>1. live \subseteq Ids \ {used + 1} /\ live \subseteq live'
  BY MemoryAssumption DEF IndInv, MemoryTyped, Ids, Inserted, Insert
<1>2. NoLoss
  BY <1>1 DEF NoLoss, Found, Expired, Inserted, Same
<1>3. StaysSuperseded
  BY <1>1 DEF StaysSuperseded, Inserted
<1> QED
  BY <1>2, <1>3

(* Neither does a purge, nor the rejection of a memory that waits for      *)
(* review: it is never the replacement of another one.                     *)
LEMMA DeleteStands ==
  ASSUME IndInv, NEW gone, Delete(gone), UNCHANGED << now, used >>,
         \/ gone = {m \in Ids : Purgeable(m)}
         \/ \E m \in live : gone = {m} /\ rec[m].pending
  PROVE  NoLoss /\ StaysSuperseded
<1>1. Deleted(gone) /\ live' = live \ gone
  BY DeleteKeeps DEF Delete
<1>2. live \subseteq Ids
  BY MemoryAssumption DEF IndInv, MemoryTyped, Ids
<1>3. \A m \in Ids : Found(m) => m \notin gone
  BY <1>2 DEF Found, Purgeable
<1>4. NoLoss
  BY <1>1, <1>2, <1>3 DEF NoLoss, Found, Expired, Deleted, Same
<1>5. StaysSuperseded
  <2> SUFFICES ASSUME NEW m \in live, rec[m].sup # 0, m \in live'
               PROVE  rec'[m].sup = rec[m].sup
    BY DEF StaysSuperseded
  <2>1. m \in Ids \ gone
    BY <1>1, <1>2
  <2>2. ~ (gone = {k \in Ids : Purgeable(k)})
    BY <2>1 DEF Purgeable
  <2>3. PICK r \in live : gone = {r} /\ rec[r].pending
    BY <2>2
  <2>4. rec[m].sup # r
    BY <2>1, <2>3 DEF IndInv, CorrectionsFirm
  <2> QED
    BY <1>1, <2>1, <2>3, <2>4 DEF Deleted
<1> QED
  BY <1>4, <1>5

(* No step loses a memory that was found or brings a corrected one back. *)
LEMMA StepStands == IndInv /\ [Next]_vars => NoLoss /\ StaysSuperseded
<1> SUFFICES ASSUME IndInv, [Next]_vars PROVE NoLoss /\ StaysSuperseded
  OBVIOUS
<1>0. IndInv
  OBVIOUS
<1>1. ASSUME UNCHANGED << now, live, rec >> PROVE NoLoss /\ StaysSuperseded
  BY <1>1 DEF NoLoss, StaysSuperseded, Found, Expired
<1>2. ASSUME NEW proposed, NEW expires \in {MaxTime, Forever}, ExtractRow(proposed, expires)
      PROVE  NoLoss /\ StaysSuperseded
  BY <1>0, <1>2, ExtractInserts, InsertStands DEF ExtractRow
<1>3. ASSUME NEW m, NEW pinned \in BOOLEAN, NEW expires \in {MaxTime, Forever},
             Correct(m, pinned, expires)
      PROVE  NoLoss /\ StaysSuperseded
  BY <1>0, <1>3, CorrectInserts, InsertStands DEF Correct
<1>4. ASSUME UNCHANGED << now, live >>, NEW m \in Ids,
             \/ rec' = [rec EXCEPT ![m].pending = FALSE, ![m].confirmed = TRUE]
             \/ rec' = [rec EXCEPT ![m].status = "ready"]
             \/ rec' = [rec EXCEPT ![m].status = "failed"]
      PROVE  NoLoss /\ StaysSuperseded
  <2>0. rec \in [Ids -> Rows]
    BY <1>0 DEF IndInv, MemoryTyped
  <2>1. \A k \in Ids :
          /\ rec'[k].sup = rec[k].sup /\ rec'[k].expires = rec[k].expires
          /\ rec'[k].pinned = rec[k].pinned
          /\ rec'[k].pending => rec[k].pending
    <3>1. CASE rec' = [rec EXCEPT ![m].pending = FALSE, ![m].confirmed = TRUE]
      BY <2>0, <3>1 DEF Rows
    <3>2. CASE rec' = [rec EXCEPT ![m].status = "ready"]
      BY <2>0, <3>2 DEF Rows
    <3>3. CASE rec' = [rec EXCEPT ![m].status = "failed"]
      BY <2>0, <3>3 DEF Rows
    <3> QED
      BY <1>4, <3>1, <3>2, <3>3
  <2>2. live \subseteq Ids
    BY <1>0, MemoryAssumption DEF IndInv, MemoryTyped, Ids
  <2> QED
    BY <1>4, <2>1, <2>2 DEF NoLoss, StaysSuperseded, Found, Expired
<1>5. ASSUME NEW m \in Ids, Reject(m) PROVE NoLoss /\ StaysSuperseded
  BY <1>0, <1>5, DeleteStands DEF Reject
<1>6. CASE Purge
  BY <1>0, <1>6, DeleteStands DEF Purge
<1>7. CASE Command
  <2>1. ASSUME NEW m \in Ids, Confirm(m) PROVE NoLoss /\ StaysSuperseded
    BY <1>4, <2>1 DEF Confirm
  <2> QED
    BY <1>3, <1>5, <1>6, <1>7, <2>1 DEF Command
<1>8. CASE StoreReady \/ MarkFailed
  <2>1. batch # << >> => Head(batch) \in Ids
    BY <1>0 DEF IndInv, BatchUsed
  <2>2. batch # << >>
    BY <1>0, <1>8 DEF IndInv, BatchUsed, StoreReady, MarkFailed
  <2>3. UNCHANGED << now, live >>
    BY <1>8 DEF StoreReady, MarkFailed
  <2>4. \/ rec' = rec
        \/ rec' = [rec EXCEPT ![Head(batch)].status = "ready"]
        \/ rec' = [rec EXCEPT ![Head(batch)].status = "failed"]
    BY <1>8 DEF StoreReady, MarkFailed
  <2> QED
    BY <1>1, <1>4, <2>1, <2>2, <2>3, <2>4
<1>9. CASE Tick
  <2>1. \A m \in Ids : Found(m) /\ ~ Found(m)' => rec[m].expires <= now' /\ ~ rec[m].pinned
    BY <1>9 DEF Tick, Found, Expired
  <2> QED
    BY <1>9, <2>1 DEF Tick, NoLoss, StaysSuperseded
<1>10. CASE Restart
  BY <1>0, <1>1, <1>10, DeleteStands DEF Restart
<1>11. CASE UNCHANGED vars
  BY <1>1, <1>11 DEF vars
<1>12. ASSUME NEW c, Enqueue(c) \/ Send(c) PROVE NoLoss /\ StaysSuperseded
  BY <1>1, <1>12 DEF Enqueue, Send
<1>13. CASE ExtractNothing \/ Gather \/ GatherFails \/ Embedded \/ StoreVector
  BY <1>1, <1>13 DEF ExtractNothing, Gather, GatherFails, Embedded, StoreVector
<1> QED
  BY <1>2, <1>7, <1>8, <1>9, <1>10, <1>11, <1>12, <1>13 DEF Next

(* What a search found is lost only by a correction or its own expiry, and *)
(* what was corrected never comes back (reject_pending, purge_expired and  *)
(* the foreign key of superseded_by).                                      *)
THEOREM RowsAlwaysStand == Spec => RowsStand
<1>1. IndInv /\ [Next]_vars => [NoLoss]_vars /\ [StaysSuperseded]_vars
  BY StepStands
<1>2. Spec => [][NoLoss]_vars /\ [][StaysSuperseded]_vars
  BY <1>1, IndInvHolds, PTL DEF Spec
<1> QED
  BY <1>2 DEF RowsStand, NothingLost, SupersededForGood, NoLoss, StaysSuperseded

=============================================================================
