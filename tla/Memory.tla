-------------------------------- MODULE Memory --------------------------------
(***************************************************************************)
(* The long-term memory (crates/memory): what the extractor writes after a *)
(* run, what the user confirms, rejects, corrects and purges, what a       *)
(* search may return, and the worker that computes the vectors in the      *)
(* background.  The tables are kept as the set of the ids that exist, the  *)
(* row of each and the ids that have a vector; the statements of a         *)
(* transaction are one step, two statements without one are two.           *)
(***************************************************************************)
EXTENDS Integers, Sequences

CONSTANTS
  Conversations, (* the roles of the messages a job may carry              *)
  BatchSize,     (* of the embedding worker                                *)
  JobCap,        (* places of the extractor's channel                      *)
  CommandCap,    (* places of the embedding worker's channel               *)
  MaxMemories,   (* bound: rows ever inserted                              *)
  MaxTime        (* bound: of the clock                                    *)

ASSUME MemoryAssumption ==
  /\ \A c \in Conversations : c \subseteq {"user", "assistant", "tool"}
  /\ BatchSize \in Nat \ {0} /\ JobCap \in Nat /\ CommandCap \in Nat
  /\ MaxMemories \in Nat /\ MaxTime \in Nat

Ids == 1 .. MaxMemories

Poll == 0         (* the command PollPending; EmbedOne(m) is m             *)
Forever == MaxTime + 1

VARIABLES
  now,    (* the clock                                                     *)
  used,   (* how many ids were given out                                   *)
  live,   (* the ids of memory_records                                     *)
  rec,    (* their rows                                                    *)
  vec,    (* the ids of memory_embeddings                                  *)
  jobs,   (* the extractor's channel                                       *)
  cmds,   (* the embedding worker's channel                                *)
  queue,  (* the ids it has collected                                      *)
  batch,  (* the records whose vectors it asked for and has not stored     *)
  wpc     (* idle, embed, store, ready, failed                             *)

worker == << cmds, queue, batch, wpc >>
vars == << now, used, live, rec, vec, jobs, worker >>

(* What the row of a new memory holds; from: the tools it was taken from. *)
Row(from, confirmed, pinned, expires, pending) ==
  [from |-> from, confirmed |-> confirmed, pinned |-> pinned, expires |-> expires,
   pending |-> pending, sup |-> 0, status |-> "pending"]

NoRow == Row({}, FALSE, FALSE, Forever, FALSE)

Init ==
  /\ now = 0 /\ used = 0 /\ live = {}
  /\ rec = [m \in Ids |-> NoRow]
  /\ vec = {}
  /\ jobs = << >> /\ cmds = << >> /\ queue = << >> /\ batch = << >> /\ wpc = "idle"

Expired(m) == rec[m].expires <= now /\ ~ rec[m].pinned

(* The rows that search_lexical, list_by_scope and so the retriever return *)
(* for the scope of the row.                                               *)
Found(m) ==
  /\ m \in live
  /\ rec[m].sup = 0
  /\ ~ rec[m].pending
  /\ ~ Expired(m)

--------------------------------------------------------------------------------
(* The extractor.                                                          *)

(* enqueue after a run: a job that finds no place is dropped.              *)
Enqueue(c) ==
  /\ Len(jobs) < JobCap
  /\ jobs' = Append(jobs, c)
  /\ UNCHANGED << now, used, live, rec, vec, worker >>

(* Mutant: an answer of the assistant hides the message of the tool. *)
RealOriginAssistantFirst(msgs, proposed) ==
  IF "assistant" \in msgs THEN "assistant"
  ELSE IF "tool" \in msgs THEN "external" ELSE proposed

(* determine_real_origin. *)
RealOrigin(msgs, proposed) ==
  IF "tool" \in msgs THEN "external"
  ELSE IF "assistant" \in msgs THEN "assistant" ELSE proposed

(* The classifier fails, proposes nothing or proposes a row that does not  *)
(* pass validate or that the database does not take.                       *)
ExtractNothing ==
  /\ jobs # << >>
  /\ jobs' = Tail(jobs)
  /\ UNCHANGED << now, used, live, rec, vec, worker >>

Insert(row) ==
  /\ used < MaxMemories
  /\ used' = used + 1
  /\ live' = live \cup {used + 1}

ExtractRow(proposed, expires) ==
  /\ jobs # << >>
  /\ LET external == RealOrigin(Head(jobs), proposed) = "external"
         row == Row(Head(jobs) \cap {"tool"}, FALSE, FALSE, expires, external)
     IN Insert(row) /\ rec' = [rec EXCEPT ![used + 1] = row]
  /\ jobs' = Tail(jobs)
  /\ UNCHANGED << now, vec, worker >>

--------------------------------------------------------------------------------
(* The user.                                                               *)

(* Any id, shown or not, seen in this window or in an old list of it. *)
Confirm(m) ==
  /\ m \in live /\ rec[m].pending
  /\ rec' = [rec EXCEPT ![m].pending = FALSE, ![m].confirmed = TRUE]
  /\ UNCHANGED << now, used, live, vec, jobs, worker >>

(* DELETE: the vectors go with the rows, and superseded_by of the rows     *)
(* that pointed to them becomes NULL.                                      *)
Delete(gone) ==
  /\ live' = live \ gone
  /\ vec' = vec \ gone
  /\ rec' = [m \in Ids |-> IF m \in gone THEN NoRow
                          ELSE IF rec[m].sup \in gone THEN [rec[m] EXCEPT !.sup = 0]
                          ELSE rec[m]]

(* Mutant: the row is deleted whether it still waits for review or not. *)
RejectAnything(m) ==
  /\ m \in live
  /\ Delete({m})
  /\ UNCHANGED << now, used, jobs, worker >>

Reject(m) ==
  /\ m \in live /\ rec[m].pending
  /\ Delete({m})
  /\ UNCHANGED << now, used, jobs, worker >>

(* WHERE superseded_by IS NULL. *)
Supersede(m) == rec[m].sup = 0

(* apply_correction: the replacement is inserted even when there is no row *)
(* to supersede.  (A pin only matters to a row that expires.)              *)
Correct(m, pinned, expires) ==
  /\ m \in 1 .. used
  /\ pinned => expires # Forever
  /\ LET row == Row({}, TRUE, pinned, expires, FALSE)
         new == [rec EXCEPT ![used + 1] = row]
     IN /\ Insert(row)
        /\ rec' = IF m \in live /\ Supersede(m)
                  THEN [new EXCEPT ![m].sup = used + 1] ELSE new
  /\ UNCHANGED << now, vec, jobs, worker >>

(* Mutant: superseded rows stay. *)
PurgeableExpired(m) == m \in live /\ Expired(m)

Purgeable(m) == m \in live /\ (rec[m].sup # 0 \/ Expired(m))

Purge ==
  /\ Delete({m \in Ids : Purgeable(m)})
  /\ UNCHANGED << now, used, jobs, worker >>

(* The commands of the memory panel; each is one statement or transaction. *)
Command ==
  \/ \E m \in Ids :
       \/ Confirm(m) \/ Reject(m)
       \/ \E pinned \in BOOLEAN, expires \in {MaxTime, Forever} :
            Correct(m, pinned, expires)
  \/ Purge

--------------------------------------------------------------------------------
(* The embedding worker.                                                   *)

(* enqueue and tick: a command that finds no place is dropped. *)
Send(c) ==
  /\ Len(cmds) < CommandCap
  /\ c = Poll \/ c \in 1 .. used
  /\ cmds' = Append(cmds, c)
  /\ UNCHANGED << now, used, live, rec, vec, jobs, queue, batch, wpc >>

(* The rows of a list that are in a set, in their order. *)
Keep(rows, wanted) ==
  LET kept[i \in 0 .. Len(rows)] ==
        IF i = 0 THEN << >>
        ELSE IF rows[i] \in wanted THEN Append(kept[i - 1], rows[i])
        ELSE kept[i - 1]
  IN kept[Len(rows)]

(* The rows whose vector is missing and still of use.  One that waits for  *)
(* review is among them.                                                   *)
Open == {m \in live : rec[m].sup = 0 /\ rec[m].status = "pending"}

(* list_pending_embeddings: the oldest BatchSize rows. *)
PendingEmbeddings ==
  LET rows == Keep([m \in Ids |-> m], Open)
  IN SubSeq(rows, 1, IF Len(rows) < BatchSize THEN Len(rows) ELSE BatchSize)

Collected ==
  IF Head(cmds) # Poll THEN Append(queue, Head(cmds))
  ELSE LET room == IF Len(queue) < BatchSize THEN BatchSize - Len(queue) ELSE 0
           rows == PendingEmbeddings
       IN queue \o SubSeq(rows, 1, IF Len(rows) < room THEN Len(rows) ELSE room)

(* A command, then process_batch: the rows it reads are what it embeds.    *)
(* The queue, cleared at its end, is not read before that.                 *)
Gather ==
  /\ wpc = "idle" /\ cmds # << >>
  /\ cmds' = Tail(cmds)
  /\ batch' = Keep(Collected, Open)
  /\ wpc' = IF batch' = << >> THEN "idle" ELSE "embed"
  /\ queue' = << >>
  /\ UNCHANGED << now, used, live, rec, vec, jobs >>

(* The database fails: a poll collects nothing, a batch leaves the queue.  *)
GatherFails ==
  /\ wpc = "idle" /\ cmds # << >>
  /\ cmds' = Tail(cmds)
  /\ queue' \in {queue, Collected}
  /\ Len(queue') <= BatchSize
  /\ UNCHANGED << now, used, live, rec, vec, jobs, batch, wpc >>

(* The provider answers for every row or for none. *)
Embedded ==
  /\ wpc = "embed"
  /\ wpc' \in {"store", "failed"}
  /\ UNCHANGED << now, used, live, rec, vec, jobs, cmds, queue, batch >>

(* The next row of the batch.  Once a provider has failed, it fails all.   *)
Advance(next) ==
  /\ batch' = Tail(batch)
  /\ wpc' = IF Len(batch) = 1 THEN "idle" ELSE next

(* Mutant: the error of the first statement is ignored. *)
StoreVectorUnchecked ==
  /\ wpc = "store"
  /\ vec' \in {vec} \cup (IF Head(batch) \in live THEN {vec \cup {Head(batch)}} ELSE {})
  /\ wpc' = "ready"
  /\ UNCHANGED << now, used, live, rec, jobs, cmds, queue, batch >>

(* The first statement of set_embedding; the foreign key refuses the       *)
(* vector of a row that was deleted meanwhile.                             *)
StoreVector ==
  /\ wpc = "store"
  /\ Head(batch) \in live
  /\ vec' = vec \cup {Head(batch)}
  /\ wpc' = "ready"
  /\ UNCHANGED << now, used, live, rec, jobs, cmds, queue, batch >>

(* The second: no row, no effect. *)
StoreReady ==
  /\ wpc = "ready"
  /\ rec' = IF Head(batch) \in live
            THEN [rec EXCEPT ![Head(batch)].status = "ready"] ELSE rec
  /\ Advance("store")
  /\ UNCHANGED << now, used, live, vec, jobs, cmds, queue >>

(* Either statement fails, or the provider did: mark_embedding_failed,     *)
(* whose own error is ignored.                                             *)
MarkFailed ==
  /\ wpc \in {"store", "ready", "failed"}
  /\ rec' \in {rec} \cup (IF Head(batch) \in live
                          THEN {[rec EXCEPT ![Head(batch)].status = "failed"]} ELSE {})
  /\ Advance(IF wpc = "failed" THEN "failed" ELSE "store")
  /\ UNCHANGED << now, used, live, vec, jobs, cmds, queue >>

--------------------------------------------------------------------------------
(* Time, and the end of the process: the channels and the batch are lost;  *)
(* the next start purges when the database lets it.                        *)

Tick ==
  /\ now < MaxTime
  /\ now' = now + 1
  /\ UNCHANGED << used, live, rec, vec, jobs, worker >>

Restart ==
  /\ jobs' = << >> /\ cmds' = << >> /\ queue' = << >> /\ batch' = << >> /\ wpc' = "idle"
  /\ \/ Delete({m \in Ids : Purgeable(m)})
     \/ UNCHANGED << live, rec, vec >>
  /\ UNCHANGED << now, used >>

Next ==
  \/ \E c \in Conversations : Enqueue(c)
  \/ ExtractNothing
  \/ \E proposed \in {"user", "external"}, expires \in {MaxTime, Forever} :
       ExtractRow(proposed, expires)
  \/ Command
  \/ \E c \in Ids \cup {Poll} : Send(c)
  \/ Gather \/ GatherFails \/ Embedded \/ StoreVector \/ StoreReady \/ MarkFailed
  \/ Tick \/ Restart

Spec == Init /\ [][Next]_vars

--------------------------------------------------------------------------------
(* Properties.                                                             *)

(* Text that the extractor was told came from a tool is found only after   *)
(* the user confirmed it, whatever origin the classifier proposed.         *)
ReviewGate == \A m \in Ids : Found(m) /\ "tool" \in rec[m].from => rec[m].confirmed

(* A memory that a search found is lost only by a correction of it or by   *)
(* its own expiry: neither a rejection that comes after the confirmation   *)
(* nor a purge takes it, and a pinned one never expires.                   *)
NothingLost ==
  [][\A m \in Ids : Found(m) /\ ~ Found(m)' =>
       \/ m \in live' /\ rec'[m].sup # 0
       \/ rec[m].expires <= now' /\ ~ rec[m].pinned]_vars

(* A memory that was corrected never comes back, not even when its         *)
(* replacement expires and is purged, and its replacement never changes.   *)
SupersededForGood ==
  [][\A m \in live : rec[m].sup # 0 =>
       m \notin live' \/ rec'[m].sup = rec[m].sup]_vars

(* What the user kept is kept and what he replaced is gone for good. *)
RowsStand == NothingLost /\ SupersededForGood

(* A memory that is marked ready has its vector, whatever was deleted,     *)
(* corrected or lost while the provider computed it, and no vector         *)
(* outlives its memory.                                                    *)
ReadyHasVector ==
  /\ \A m \in live : rec[m].status = "ready" => m \in vec
  /\ vec \subseteq live

================================================================================
