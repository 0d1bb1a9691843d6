# Formal models of Frederico IA Studio

TLA+ specifications of the parts of Frederico IA Studio whose correctness
depends on the order of things: what a chat run writes, in which order, and
what is left when it is cancelled, times out, fails half-way or dies with the
app; and the components around a run that have a protocol of their own. The
modules are translated from the sources under `crates/` and `workers/`; TLC
checks them on small instances and TLAPS proves the theorems listed below.

## The system

| Component | State it keeps | Operations | What makes it correct | Module |
|---|---|---|---|---|
| agent-engine: state machine (`state.rs`, `event.rs`, `transition.rs`) | none (pure) | `apply_transition` | terminal states are closed, completion only through checkpointing | `RunStateMachine` |
| execution-engine: executor (`executor.rs`, `state_mapping.rs`, `budget.rs`) | `current_state`, step counter, pending tool call | one loop per round: cancel check, budget tick, stream, gate, tool, finalize | journals gapless and chained, the four verdicts agree, tools accounted for, a cancel is obeyed, every run ends | `RunLifecycle` |
| execution-engine: orchestrator, `RunRegistry` | tokens of live runs | `send_message`, `cancel_run` | the window is told how a run ended | `RunLifecycle`, `EventStream` |
| execution-engine: recovery | none | `recover_stale_runs` at start-up | takes over what died, whatever it died in the middle of | `RunLifecycle` |
| storage (`lib.rs`, migrations) | `runs`, `run_events`, `messages`, `message_events`, ... | repositories over SQLite | one numbering per run, a write passes the gate | `RunStore` |
| execution-engine: pipeline (`pipeline_orchestrator.rs`, `multimodel.rs`) | pipeline, stage and artifact rows, map of cancellation tokens | `start_pipeline`, stage loop, `cancel_pipeline` | stages in order, each with the right input and its cost counted, reuse, cancellation | `Pipeline` |
| execution-engine: subagents (`subagent_runner.rs`, agent-engine `subagent_budget.rs`) | ledger of allocations, counters | `try_spawn`, `release`, `record_spent` | children never get more than the parent has, in budget or in rights | `Subagents` |
| tool-registry: permissions, catalogue, validation | cache of profiles | `load_effective_permissions`, `merge`, `validate_tool_call` | the most restrictive layer wins | `Permissions`, `ToolCatalog`, `Subagents` |
| tool-registry: file, git and milestone tools; git-engine; project-engine | the directory, its repository, `project_milestones` | write, edit, commit, branch, mark, restore | files whole, history never rewritten, nothing replaced is lost | `Workspace` |
| tool-registry: exec tools; security | job object, pipes, wall clock, proxy | one call of `exec.*` | nothing outlives the call, the report is true, traffic is on record | `ExecSandbox` |
| provider-engine | parser buffer, partial tool calls, channel of bytes | `stream_chat` of two adapters | nothing lost or doubled, wherever the bytes are cut; no call with a part of its arguments | `ProviderStream` |
| memory (`worker.rs`, `memory_repo.rs`) | entries, vectors, two channels | extract, review, correct, expire, purge, embed | nothing external is found unreviewed, nothing corrected comes back | `Memory` |
| process-architecture: worker manager (`manager.rs`, `external.rs`) | table of requests in flight, command channel, health | `invoke`, `ping`, `shutdown`, the actor's `select!` | each answer to its own request, nobody waits for an actor that ended, no child left | `WorkerManager` |
| app: launcher (`launcher.rs`) | `LauncherState` behind a mutex | `invoke`, `reset` | no process without an owner, gives up only after enough attempts | `Launcher` |
| document-engine, document-kits, document worker | the file, the pipe | `docs.generate`, `docs.inspect` | what was handed over is good and stays, no block is lost | `DocumentKits`, `Documents` |
| runtimes (`bootstrap.rs`, `python.rs`, `node.rs`, `manifest.rs`) | the directory of a runtime, its archive and manifest | `bootstrap_if_needed` | what a start believes installed is whole | `Runtimes` |
| github-engine, model-catalog, shell | none that changes after the start | single requests, catalogues, views | | not modelled |

The window calls `send_message`; the orchestrator writes the rows, registers a
`CancellationToken` and spawns a task. The task drives the run to
`calling_model` and hands it to the executor, which reads `StreamEvent`s from a
provider adapter, journals each (`message_events`) before it sends it to the
window, asks the state machine which transitions it causes, and writes those
(`run_events` plus `runs.state`). Tool calls pass `validate_tool_call` and then
touch the workspace, a sandboxed process or, through the launcher and the worker
manager, a Python worker over a pipe. The user cancels by firing the token. When
a run is over, a job goes to the memory extractor. Nothing but SQLite and the
workspace survives the process; the next start runs the recovery pass once.

A multi-model pipeline is a task of its own that runs one executor per stage
and writes three more tables around it.

What is hard here: the writes of one logical step are several transactions, any
of which can fail or be the last one before a crash; the cancel, the watchdog
and the provider race in one `select!`; two writers number the same journal in
two ways; constants (`Checkpointing`, `WaitingToolCall`) stand in for the state
that was read long before; no lock stops a second process from recovering a run
the first one is still executing, nor a second run of a conversation from
writing in the same directory. The pipeline's cancel and its cleanup race for
one map entry. The worker's actor reads and writes in one loop and cancels its
own reads; the launcher lets go of its lock at every wait. A tool's effects are
several system calls, with the user's editor, other tools and a crash between
them. The child of an exec call ends, forks, writes and connects while its wall
clock, its reader and its proxy move on their own. `PROJECT.json` lists each
hazard at its line with the properties that cover it.

## Modules

* `RunStateMachine` (pure): states, events, the 26 structural and 5 global
  edges, `ApplyTransition`, and `StreamTransitions`, the list of transitions a
  provider event causes (`run_state_for_event`). `RunLifecycle` and
  `ProviderStream` both stand on it.
* `RunStore`: the rows of one run and the SQL operations on them, one operator
  per transaction. `RunEventRepo.append` is two statements outside a
  transaction, so `MaxSeq` and `InsertEvent` are separate operators and callers
  put a step between them.
* `RunLifecycle`: one run. `pc` is the `await` the task is at; an action is what
  happens from one await to the next, at most one transaction. `SendMessage` ..
  `InitFail` are `send_message`; `LoadRun` .. `OpenStream` the head of a round;
  `RecvCancelled`, `Watchdog`, `StreamEnds`, `PersistEvent` the arms of the
  biased `select!`; `EmitAndAsk`, `WalkStep`, `LinkEvent`, `Handle*` one stream
  event; `Reject*` the path of a refused event; `Drained*` and `Tool*` what
  follows the stream; `Finalize*` and `Announce` the end; `StorageError` every
  `?` on a storage call. `CancelRun`, `GoStale` and `Crash` come from outside,
  `Recover*` are the statements of `recover_stale_runs`.
* `EventStream`: the abstract promise to the window, three counters and a
  verdict. `RunLifecycle!EventStreamView` is the refinement mapping.
* `RunLifecycle_proofs`, `Execution_proofs`, `WorkerManager_proofs`,
  `DocumentWorker_proofs`, `Memory_proofs`, `Workspace_proofs`,
  `Subagents_proofs`, `ExecSandbox_proofs`: the theorems, beside the modules
  they extend. `RunLifecycle_proofs` begins with those about `RunStateMachine`,
  `ExecSandbox_proofs` with those about `Runtimes`, `Subagents_proofs` covers
  `Permissions` and `ToolCatalog`. Two modules are about two sides of one thing:
  `Execution_proofs` about the pipeline and the round its executors make with a
  provider (`Pipeline`, `ProviderStream`), `DocumentWorker_proofs` about the
  launcher and the tools that call through it (`Launcher`, `Documents`). That is
  why `ProviderStream` and `Documents` name their specifications `StreamSpec` and
  `DocSpec`.
* `Pipeline`: one pipeline. Between two actions is an await; each action is at
  most one storage call. `StageHead`, `ReuseStage`, `NotReusable` are the head
  of `run_pipeline_loop`; `CreateStage` .. `CompleteStage` are `run_one_stage`,
  where `ExecutorDecides` and `ExecutorReturns` stand for the whole run of
  `RunLifecycle`: the first is the executor's last look at its token
  (`executor.rs:852`), the second its return, after the writes of
  `finalize_status`, with what it decided whatever happened to the token in
  between; `AddCost`, `FinalState`, `FinishLoop` the tail of the loop;
  `Cleanup`, `SetFailed` the spawned task around it. A content hash is the
  content: SHA-256 is taken to be injective.
* `WorkerManager`: one worker process. `queue` is the mpsc channel, `pending` the
  table, `half` the local buffer of `read_line`, `toWorker` and `toManager` the
  two directions of the pipe. `TakeCommand` empties `half`, since the biased
  `select!` drops the future that owns it. A call is its own request id.
* `Launcher`: the mutex and what each `invoke` does with and without it.
  `CreateChild`, `ReadReady`, `Connect`, `ReadHello`, `SpawnOk` are the
  handshake of `spawn_external`, made under the lock, with the child's side
  (`WorkerListens`, `WorkerGreets`); `SpawnFails` is every early return of it. A
  worker that has greeted is what `WorkerManager` shows of one: it answers
  pings, dies, and its pong reaches the caller before the health snapshot;
  `Retire` rests on `WorkerManager!ShutdownReaps`. `failures` is a history
  variable, no guard reads it.
* `Memory`: the tables as the set of live ids, their rows and the ids that have
  a vector. `ExtractNothing`, `ExtractRow` are one job of the extractor;
  `Confirm`, `Reject`, `Correct`, `Purge` the panel's commands, `Delete` with
  the foreign key that sets `superseded_by` to NULL; `Command` .. `MarkFailed`
  the embedding worker, which computes between `Gather` and `StoreVector`.
* `Workspace`: a directory with one user file, its backups and temporaries, the
  repository and the milestone rows. `OpenToWrite` .. `RenameTemp` are
  `files.write` and `files.edit`, `AddAll`, `StartCommit`, `CommitTree`,
  `CreateBranch`, `SwitchBranch`, `SetHead` the git tools, `CreateMark` ..
  `Checkout` the milestones and their restoration. Several runs take turns at
  every system call; `UserEdits` and `Crash` come from outside. `swept` is a
  history variable: a restoration's checkout came while the run had its backup
  and not yet its rename.
* `Permissions`, `ToolCatalog` (pure): the order of permission sets, `merge`,
  the manifests, `validate_tool_call`.
* `Subagents`: the load of three profiles through the cache while the user edits
  them (`EditProfile`, `CacheKey`), and the tree of runs with the ledger each
  parent keeps (`MaySpawn`, `Charged`, `Round`, `record_spent`, `release`): a
  function from a child's id to what it was given and has spent. That id is the
  one `try_spawn` draws for the ledger (`subagent_runner.rs:298`), not the one
  `Run::new_subagent` draws for the run. The gate is asked as the executor asks
  it (`ContextOf`, `Calls`): with the run's own permissions and tools, without
  its parent's permissions and without an approval policy.
  `WithinLayers` compares rights with `Covers`, and not with `is_subset_of`,
  which does not hold of a profile and itself when the profile names a
  repository twice (the reader's profile of the run does).
* `ProviderStream`: a script of events as the server's bytes, cut anywhere; the
  task that forwards them (`Respond`, `ReadBytes`, `Send`, `CancelTask`), the
  parser (`Fed`), the accumulator (`accumulate`), the names on the wire, and
  the executor's loop (`Take`, `SeeCancel`, `Timeout`), with what `serde_json`
  makes of a call's arguments (`Parsed`).
* `Runtimes`: the bootstrap of one portable runtime. `Look` is the cache,
  `Clear` the removal of what is spoilt, one file at a time; `Fetch`, `Compare`,
  `CreateFile`, `CopyFile`, `Validate`, `WriteManifest`, `Sweep` the
  installation; `StepFails` and `AppEnds` may come at every step, and `Repin` is
  a build of the app that pins another archive under the same version.
* `ExecSandbox`: one call, on the disk as `Runtimes` has it by then: whether there is an
  executable (`usable`) is all the tools look at. `StartProxy`, `Create`, `Assign`, `Resume` and
  `SpawnFails` are the start; `Fork`, `Exit`, `Write`, `CloseOutput` the
  processes; `Read`, `ReadEnd`, `ReadBreaks` the reader of each of the two
  streams; `Verdict`, `Kill`, `Finish` the wait; `Accept` .. `TunnelEnds` the
  proxy's connections. The host a request is checked by and the hosts reached
  for it are kept apart (`req.host`, `reached`): the proxy sends an HTTP request
  to the host of an absolute target (`Asked`), and its client follows redirects
  (`Redirected`).
* `DocumentKits` (pure): `Valid`, the docx walk (`Sections`, `RoundTrip`), the
  names of sheets (`SanitizeSheetName`, `Sheets`, `Mapping`, `Workbook`), the
  PDF story and its glyph check. `Documents`: calls on one path, the pipe as a
  queue and the worker that handles one request after the other.

The `MC*` modules give values to constants. `MCExecSandbox` also composes: any
number of bootstraps and, at any step of theirs, one call; what the call no longer reads of the disk
is forgotten, so that the states of the two add up and do not multiply. No step
looks at both the output and a connection, so a call is followed with output or
with a connection (`Apart`), not with every pair of their states.
`MCSubagents!MCSpec` lets a tree grow past its first child only where no file
was edited, since a tree reads neither the files nor the cache.

## Runs

| Run | Bounds | Question |
|---|---|---|
| `run_races` | 2 rounds, 3 journaled events, 1 recovery, a second process | numbering, join of the journals, tool rows and the refinement of `EventStream` with a recovery that runs beside the executor |
| `run_liveness` | 2 rounds, 4 events, 2 recoveries, one process | does every run end, is a cancel obeyed, do journal, row, message and window agree |
| `doc_terminal` | 1 round, 2 events | is a terminal state final (it is not: see the finding) |
| `pipeline` | 4 stages, costs {1}, stop verdict `cancelled` | order, chaining, cost, reuse and cancel, with failures of the database and of the app at any point; does its task end |
| `worker` | 2 invokes, 1 ping, shutdown; 1 slot in the channel, 1 message per direction of the pipe | answers, lost calls, death and shutdown of a worker |
| `launcher` | 2 invokes (each repeated at will), 3 attempts, 5 spawns tried | owners of processes, attempts, handshakes, races of invokes and reset |
| `memory` | 2 memories, batch of 2, channels of 1, 1 tick, two kinds of conversation | what a search may find, with review, correction, expiry, purge, embedding and restart in any order |
| `workspace` | 2 runs, 4 tool calls, 3 contents, 3 commits, 1 tick, 1 crash | files, history and milestones under concurrent tools |
| `subagents` | 2 profiles and a missing one, 3 specialists, 1 edit, 3 spawns (2 and 3 without an edit), depth 2, 2 children, budget 3 | rights and budgets down the tree |
| `provider` | 14 scripts, channel of 2, reads of 1, 3 or 6 half-tokens | one round from bytes to verdict |
| `exec` | 1 child, 1 descendant, 3 bytes over two streams, each with a pipe of 2 and a cap of 2, 1 connection with any of 10 requests (of 3 hosts, with a target of their own or none); an archive of 2 files, 1 new pin | one call of the sandbox beside the bootstraps of its runtime |
| `documents` | 3 calls, 1 death of the worker; all sequences of 4 blocks of prose and of 3 tables | what calls leave on the disk; the translations |

In a joint invariant the conjuncts keep their names and each has its mutants:

* `run_races`: `SeqGapless` (the n-th entry has number n), `ToolsAccounted` (a
  tool that ran has its result, once, and its step), `EventsLinked` (a message
  event is joined to the run event it caused), `ImplementsEventStream` (journal
  before window, one end, nothing after it). With a second process
  `StateMatchesJournal` and `VerdictsAgree` do not hold: nothing in the
  repository promises them then, and they are checked with one process.
* `run_liveness`: `JournalHonest` is `JournalChained` (the journal is a path,
  with the two exceptions the code makes) and `StateMatchesJournal` (the row is
  the end of the journal, except in two windows); `VerdictsAgree` (row, state,
  message and window); `RunReported`, `CancelObeyed`.
* `pipeline`: `PipelineInv` is `StagesInOrder`, `ArtifactMatches`,
  `InputChained`, `CostAccounted`, which relate rows of different stages and
  tables, and `EntryTracksTask`, which ties the map of tokens to the life of the
  task; `SettledStable` says that the failure handler rewrites nothing the loop
  has settled; `CancelReachesStage` that a cancel which finds a stage's
  executor still listening fires the token of that stage, which is then never
  recorded completed; `PipelineEnds`.
* `worker`: `WorkerInv` is `AnswerIsOwn` and `NobodyForgotten`; `ShutdownReaps`;
  `DeathWakesCallers`. `launcher`: `LauncherInv` is `DeadIsEarned`,
  `OneKeeper` and `Introduced` (what the launcher hands out has finished its
  handshake); `NoOrphan`.
* `memory`: `ReviewGate`, `ReadyHasVector`, `RowsStand` (what the user kept is
  kept, what he replaced is gone for good).
* `workspace`: `FileWhole`, `HistoryKept`, `MilestoneHasTag`,
  `RestoreKeepsWork`, `OverwriteKeepsOld`.
* `subagents`: `WithinLayers`, `LedgerWithinBudget`, `CallsAuthorised`, the last
  over every call at every state: what the executor runs at any depth reads
  only, every profile the root read lets it read, and no run and no specialist
  from the root down is without its tool, although the executor does not show
  the gate the parent's rights.
* `provider`: `AnswerIsPrefix` (the answer is a beginning of what the server
  wrote, and all of it when the round is done; an answer of several content
  blocks is the exception the adapter makes); `CallWhole` (a collected call,
  however the round ended, has the id and the tool of one index and all its
  arguments or none: null or an empty object, never a part); `RoundEnds` is
  `StreamSettles` and `TaskEnds`.
* `exec`: `ReportTrue` (the verdict is the kernel's, and of each stream all was
  kept, or it was cut at the cap, or a read of it failed), `NothingOutlives`,
  `TrafficOnRecord` (no host is reached for a request whose own host is not
  listed; another host only by an absolute target or a redirect; the record of a
  passage is there, once, before a tunnel's first byte), `ExecReturns`, and
  `RuntimeWhole`: over a manifest of the pinned archive every file is the pinned
  one, whatever was interrupted before.
* `documents`: `OkFileIsGood`, `LastOkStands`; `TranslationFaithful` is about
  the pure translations and ranges over `Drafts`.

### Why the bounds are enough

Two rounds are the smallest number with a second stream after a tool result;
four events let both rounds call a tool, so that a third finds the budget empty,
or one carry text, a call, its result and an end; two recoveries let the second
find what an interrupted first one left. With a second process three events
suffice for a refused event and a tool result beside it. Four stages
are needed because a row can be reused from the third on, and something must run
after a reused stage to receive its input. One slot and one message per
direction are the smallest capacities, with which each wait for room happens;
larger ones only postpone the waits. Three attempts are the launcher's default,
and five spawns let it give up, be reset and start again. An archive of two
files has an executable that is whole beside a library that is not, in both
orders of removal; a second pin gives an older tree and a stale manifest. Two memories are
what a correction relates; the embedding batch holds both. Two runs of a
conversation race for one file, and four calls let one of them write, commit,
mark and restore. Three spawns give two siblings and a grandchild, a budget of 3
is filled by a sum of 1 and 2. The scripts of `provider` are a text, the forms
in which servers send tool calls (whole, in fragments, the identity alone first
with or without a key for the arguments, interleaved, a fragment that ends in an
inner brace, names equal on the wire), data that is no JSON, one content block
and two, both line ends and both wire formats; cuts of 1, 3 and 6 fall at every
place of a delimiter. A child writes one byte more than a stream's cap and than
its pipe holds, or some to each stream. Three specialists are one that denies a
tool and two that list theirs, of which two share a tool and one pair none. Three calls on one path are a call that timed out, its
retry and a reader or an auditor between.

### Fairness

`RunLifecycle!FairSpec` is weakly fair to the steps of the executor and of the
orchestrator: they are tasks of a live tokio runtime whose awaits return (SQLite
answers, a tool returns, the 60 s timer fires). Nothing is assumed of the
provider, of the user, of crashes or of storage errors. `RunReported` therefore
shows that the watchdog, not the provider, is what ends a silent stream. That a
provider sends finitely many events per run is the bound `MaxEvents`: a provider
that streams for ever does keep a run alive, the timer restarts with each event.

`Pipeline!Spec` is weakly fair to the task of the pipeline, whose executor
returns (`RunReported`); crashes, cancels and errors are free.
`WorkerManager!FairSpec` is fair to the actor, to the callers that wait for the
channel, and to `shutdown`; nothing is assumed of the worker and no timeout is
assumed to fire, so `DeathWakesCallers` shows that the end of the pipe alone
wakes the callers.

`ProviderStream!StreamSpec` is fair to the forwarding task, to the loop's ends (the
timer and the token) and to its taking an item, an event or a parsed line; the
server owes nothing. `TaskEnds` takes fairness of the server as its hypothesis,
because a read on an open connection may wait for ever.
`MCExecSandbox!MCSpec` is fair to the call's own steps, to the reader of each
stream, to the timer of the kernel and to the proxy's tasks, not to the child,
its descendant or the servers; that a read fails is never assumed.
`ExecReturns` has as its hypothesis that no descendant holds the pipe for ever:
the code does wait for the end of the output.

`Launcher`, `Memory`, `Workspace`, `Subagents` and `Documents` state safety only.
No line of the repository promises that a call of a document tool ends: the
timeout covers the request, not the handshake before it.

Deadlock is not checked, but in `memory`: a run, a pipeline, a call or a worker
that ended stays ended, and a worker that never answers may stop everything
around it.

## Finding

`doc_terminal`: `docs/architecture/agent-state-machine.md` says that terminal
states are immutable. A stream that ends with `Done{Error}` moves the run to
`failed`; the loop then falls into the branch of a stream without a tool call
and finalizes the run as completed (`executor.rs:947`), and the state walks out
of `failed` since `finalize_status` starts from the constant `Checkpointing`.

## Proofs

TLAPS proves what follows for all values of the constants. The only facts taken
of those are the named assumptions of the modules, which say that bounds are
numbers, that sets named in the text are of the kind they should be and, of a
provider, what its API documents of a response; no more: `LifecycleAssumption`, `PipelineAssumption`, `WorkerAssumption`,
`LauncherAssumption`, `MemoryAssumption`, `WorkspaceAssumption`,
`ProfileAssumption`, `RunAssumption`, `ExecAssumption`, `RuntimesAssumption`,
`StreamAssumption`, `DraftsAssumption`, `MaxSheetNameAssumption`.
TLC evaluates each of them in the run of its module. Fairness plays no part: a
theorem is about `Spec`, and a fair specification implies it.

In every module the property is a consequence of an inductive invariant; the
proof has one lemma for each group of actions, and TLC checked the invariants on
the run's instance before they were proved.

**The state machine** (`RunLifecycle_proofs`): `TerminalClosed`,
`OnlyCheckpointingCompletes`, about every state and event; `WalkHonest`: a walk
that `run_state_for_event` accepts starts at the executor's state, and each of
its steps is the edge `apply_transition` gives.

**The run** (`RunLifecycle_proofs`), with or without a second process:

* `TypeCorrect` (`TypeOK`) and `JournalGapless` (`SeqGapless`) rest on `IndInv`.
  `TypeOK` is not inductive, because recovery reads its `from` out of the entry
  with the greatest number, which is known to exist only when the numbers have no
  gap; `SeqGapless` is not, because an `INSERT` uses a number computed one or more
  awaits ago. `NumbersInv` supplies the missing fact: what each writer holds is
  at most one past the end of the journal, so `UNIQUE(run_id, seq)` refuses every
  number but the next one. `ControlInv` says what the executor holds at each await.
* `StreamRefined` (`ImplementsEventStream`): the initial states of the run map to
  an initial state of `EventStream` and every step to a step or a stutter.
  `ViewInv` relates what was journaled, sent and closed at each `pc`.
* `ToolsAlwaysAccounted` (`ToolsAccounted`): `BudgetInv` counts rounds and
  `ToolsInv` says which of result, step and journal entry a tool at work has.
* `EventsAlwaysLinked` (`EventsLinked`): `LinkInv` has the number the executor
  will join an event to, past every number joined before.
* `CancelIsObeyed` (`CancelObeyed`): an action property from `IndInv` alone.

And for one process, `ASSUME ~SecondInstance`, because TLC shows both violated
with a second one:

* `JournalStaysHonest` (`JournalHonest`): `SoloInv` says that recovery and the
  executor are never at work together (`AloneInv`), that the journal is a path to
  the executor's `cur` (`PathInv`), where the state stands while the model is called
  (`CallInv`), and what an interrupted recovery left (`RecoveryInv`).
* `VerdictsStayTogether` (`VerdictsAgree`): `OpenVerdictInv` (nothing has a
  verdict before the finalization) and `VerdictInv`, over `SoloInv`.

**The pipeline** (`Execution_proofs`), for any number of stages: `TablesAgree`
(`PipelineInv`), `CancelAlwaysReaches` (`CancelReachesStage`),
`SettledAlwaysStable` (`SettledStable`). The stages before `idx` are settled and
those after it do not exist (`Position`); the text the task hands on is the last
executed stage's (`Chained`); what a row has cost and the total does not have
yet is in the task's hands (`CostLedger`); the executor listens to the token the
map holds or that was fired (`Listening`). `CancelAlwaysReaches` is about the
cancel that comes before the executor's last look at its token; one that comes
between that look and the executor's return leaves the stage completed, and the
property does not count it. `Uncancelled` is a fact found while
proving: the loop's test at the head of a stage never sees its flag set, since
`cancel_pipeline` removes the entry first (see the observations).

**The round with the provider** (`Execution_proofs`), for any script, any cuts of
its bytes and any room in the channel: `AnswerAlwaysPrefix` (`AnswerIsPrefix`).
`StreamAssumption` is what the APIs document of a response: an end comes in an
event of its own, without text or the identity of a call (the code would drop
the end otherwise, see the observations), and Anthropic sends no text after
`message_delta`. The end of a content block is not an end of the answer: the
adapter takes it for one, so the theorem excepts the answers that go on with
text after it (`SeveralBlocks`). The argument goes along the way of the bytes. What is on its way, in
the channel and in the task's hands, has no gap and ends where the server is
(`ItemsInv`). The parser's buffer is what arrived behind the last event it
parsed (`Holds`), so the first blank line it finds is that of the next event, in
both line ends and wherever a delimiter was cut (`Boundary`); it reads that
event and no other (`EventParsed`) and keeps what follows it (`RestKept`). Each
event becomes calls and then at most one more, its text or its end (`Tells`), so
the answer together with the ready events says what the parsed events say
(`Kept`), and the first end among them comes when the text is whole
(`FirstEndSaid`). What the recursive functions compute (`Said`, the fragments
joined by `accumulate`) is proved by induction on the length.

**The worker** (`WorkerManager_proofs`): `CallersServed` (`WorkerInv`) and
`ShutdownAlwaysReaps` (`ShutdownReaps`). A command is in one place: not sent, in
the channel once, in the table, or answered (`HeldOnce`); `BusyInv` says the
same of the actor's half of it.

**The launcher** (`DocumentWorker_proofs`): `LauncherSound` (`LauncherInv`) and
`NoOrphanLeft` (`NoOrphan`). The argument is who holds a worker: the lock
serialises handshakes, so the worker of the one under way is the newest and
nobody else's (`LockInv`); from the invoke that spawned it it goes to the state,
and from there to the one invoke that shuts it down (`OwnerInv`); what has not
greeted has answered no ping (`HealthInv`); the attempts the state carries are
zero before a failure, less than the maximum while it is restarting and the
maximum when it is dead (`AttemptsInv`).

**The documents** (`DocumentWorker_proofs`), for any drafts, calls and deaths of
the worker: `HandedIsGood` (`OkFileIsGood`) and `HandedStands` (`LastOkStands`).
A call has one request at most in the pipe or in the worker's hands (`LineInv`),
and the calls that had ended before it began are others (`AskedInv`). The pipe is
a queue: when the document of a call is written, what the calls that ended
before it began had asked for is dealt with, timed out or not (`OrderInv`). So
the document a call hands out is the file at its path, or what a later call made
of it (`FileInv`). The translations play no part in it.

**The memory** (`Memory_proofs`): `NothingExternalUnreviewed` (`ReviewGate`),
`ReadyAlwaysHasVector` (`ReadyHasVector`), `RowsAlwaysStand` (`RowsStand`). The
batch of the embedding worker outlives the rows it names: `BatchUsed` and
`VectorFirst` tie it to the tables, `ReviewFirst` and `CorrectionsFirm` say which
rows may be valid at all. What the recursive selection of a batch returns is
proved by induction on the length (`KeepDefined` and the lemmas after it).

**The workspace** (`Workspace_proofs`), for any number of runs, calls, commits
and crashes: `FileAlwaysWhole` (`FileWhole`), `MilestonesKeepTheirTags`
(`MilestoneHasTag`), `HistoryNeverRewritten` (`HistoryKept`),
`RestoreLosesNothing` (`RestoreKeepsWork`), `OverwriteLosesNothing`
(`OverwriteKeepsOld`). History: every commit ever made is reachable (`RefsOK`),
kept because a commit goes on top of the one HEAD's branch names and a reference
is only added. Files: a temporary that waits for its rename holds a content that
nobody has seen, or one a commit has (`Fresh`); so the content a tool found in
the user's file cannot come back there once somebody replaced it, unless it is
in a commit, and the run's backup still has it (`Kept`). That argument is where
the first statement of `OverwriteKeepsOld` failed: see the observations.

**Subagents** (`Subagents_proofs`): `NobodyExceedsAProfile` (`WithinLayers`),
`LedgersAlwaysWithin` (`LedgerWithinBudget`), `CallsAlwaysAuthorised`
(`CallsAuthorised`), `DepthAlwaysBounded` (part of `TypeOK`). `RunOK` says of
each run what its counters, rights and ledger are (among it that its specialist
grants its tools), `InTree` that a child is younger than its parent and may use
no tool its parent may not. `LineageAllows` carries the latter up to the root:
the runs that may use a tool are closed under parents, and the lineage of a run
is the least such set with it. The load of the three profiles needs that the
cache holds, under each key, a content the file has had. The sum of a ledger is
a recursive function; what adding, changing and removing an entry does to it is
proved by induction.

**Exec** (`ExecSandbox_proofs`): `RuntimeStaysWhole` (`RuntimeWhole`),
`ReportAlwaysTrue` (`ReportTrue`), `NothingEverOutlives` (`NothingOutlives`),
`TrafficAlwaysOnRecord` (`TrafficOnRecord`). They are about `ExecSandbox!Spec`,
where a bootstrap and a call take steps in any order; the run's `MCSpec` is its
reduction. `BootInv` says what each step of an installation has left of the
tree and that a manifest is written last, `CallInv` what the call knows of the
child, `OutputInv` what each stream's reader, pipe and counters owe each other,
`ConnInv` what a connection's record, the hosts reached for it and the proxy's
answer owe each other.

The library's induction theorems take an operator and cannot be instantiated
here; where a lemma is about a recursive function (the batch of `Memory`, the
sums of `Pipeline` and `Subagents`), the induction is over the set of the numbers
for which it holds, with the well-foundedness of the naturals.

Only model-checked:

* everything temporal beyond a step: `RunReported`, `PipelineEnds`,
  `DeathWakesCallers`, `RoundEnds`, `ExecReturns`. Liveness and `ENABLED` are out
  of the prover's reach;
* `CallWhole` of `ProviderStream`: that the names on the wire are told apart is a
  fact about `ToString`, which no prover knows; that a call joins all the
  fragments of its index and no others needs a script's fragments folded and
  selected, and that a part of an object does not parse needs its braces
  counted: inductions over data;
* `TranslationFaithful` of `DocumentKits`: the translations are folds over
  sequences of blocks, and so is what they are compared with.

## Observations

What the models brought out and no run reports. Each is a fact of the code next
to the line that says or suggests otherwise; where a property would be violated
by it, the property says so in its comment or excludes it by name.

Runs and the provider:

* A second `ToolCall` in one round is refused by the gate (`state_mapping.rs:145`,
  `executor.rs:494-497`), as are a `stop` after a call and text after it.
* When the executor waits for an approval, the orchestrator tells the window
  `Cancelled` and writes nothing (`orchestrator.rs:483`): the row stays running
  until the next start. The watchdog's timeout does not write the state
  `interrupted` (`executor.rs:517`). Recovery does not ask whether another
  process is alive (`recovery.rs:84`).
* A connection cut after the first chunk of a tool call ends the stream like a
  finished one and the tool runs with null arguments; a cut stream without `Done`
  counts as completed. A fragment of arguments that ends in an inner brace is
  emitted as if it were whole (`accumulator.rs:116-126`), and does not parse:
  null again (`executor.rs:781`). `CallWhole` allows null by name. Text and `finish_reason` in one
  chunk lose the end; `[DONE]` is parsed as JSON first and yields an `Error`.
* A call in the form most servers use becomes two events, of which the first has
  no arguments and the gate refuses the second (`openai_compat.rs:514-515`),
  where `docs/modules/provider-engine.md:123-127` promises one. Anthropic's
  `content_block_stop` ends the stream (`anthropic.rs:432`): the text of every
  block after the first is lost in a round that is done, and `tool_use` never
  becomes a call.
* Before the headers of a response arrive nobody watches the cancellation.

Pipelines, subagents, permissions:

* The executor looks at its token for the last time at `executor.rs:852`. A
  cancel that `cancel_pipeline` accepts while `finalize_status` writes finds the
  stage completed afterwards (`pipeline_orchestrator.rs:891-894`).
* A cancel does not keep the following stages from their model
  (`pipeline_orchestrator.rs:406`, `:47-49`): the loop's own test (`:441`) never
  fires, since `cancel_pipeline` takes the entry out of the map first. A pipeline
  whose stage failed is recorded completed (`:617`, `:595-598`). The break on a
  negative cost is unreachable; `partially_completed` is never written; a reused
  stage leaves `prev_output` alone, though the comment at line 558 takes the two
  to be equal; nothing resumes a pipeline that was running at a crash.
* A refused subagent has left its allocation in the ledger and its count
  (`subagent_runner.rs:361`, `:156-159`, `:286-297`). `try_spawn` has no
  production caller; the wall clock is never discounted; the ledger's doc speaks
  of a sum that is compared at a spawn only.
* The executor passes no parent permissions and no approval policy
  (`executor.rs:1001`, `:1013-1019`), so the gate's comparison of a subagent with
  its parent compares nothing in production, and what holds of a child's calls
  holds by what it was given at its spawn. `validate` enforces `file_read` and
  asks for approval of everything else. Two rules for one repository make
  `is_subset_of` irreflexive: the `debug_assert` of `try_spawn` would fire.
* A child has two ids: `child_run_id`, under which the ledger knows it
  (`subagent_runner.rs:298`), and the id `Run::new_subagent` draws
  (`agent-engine/src/run.rs:145`), although `subagent_runner.rs:463` says they
  are equal. The model has the first.
* The ledger's invariant also subtracts what the parent itself has spent
  (`subagent_budget.rs:6-12`); `LedgerWithinBudget` is the comparison the code
  makes, without it.

Worker and launcher:

* `shutdown` waits for the end of the pipe without a timeout (`manager.rs:503`).
  `ping` returns before the health is recorded (`manager.rs:832`). The actor's own
  `WorkerState` holds a sender of its channel, so dropping every handle does not
  end it. The table may hold requests that are in flight no more
  (`manager.rs:668`, `:143`). The timeout of `invoke` starts after the command has
  a slot (`manager.rs:202`); a call that timed out is still carried out.
* After a backoff an invoke spawns whatever the state has become
  (`launcher.rs:249-267`). A worker that died keeps the health `Ok`
  (`launcher.rs:361`, `:11-13`). In `Dead`, `invoke` returns `InvokeFailed`, not
  the `PermanentlyDead` of `launcher.rs:204-206`.

Memory and workspace:

* `orchestrator.rs:685` hands external content to the extractor, against
  `0007_memory.sql:70` ("ExternalContent NUNCA vira memória automática"). The
  embedding worker is started by no production code. Correcting a corrected
  memory leaves two valid replacements (`memory_repo.rs:632`).
* Two writes in one second share a backup's name (`files_write.rs:197-202`).
  `files.edit` does not notice a change between its read and the rename
  (ADR-0035). `commitar` adds the backups and temporaries ADR-0035 keeps out of
  git. A milestone whose INSERT fails leaves its tag, and the name is refused for
  ever. An edit between the check of `restaurar_tag` and its checkout is lost.
* The forced checkout of a restoration may also fall between another run's backup
  and its rename. A backup the index knows is then removed, or replaced by the
  older one of the milestone, and the rename replaces the file's content: when no
  commit has it, it is gone. The shortest such behaviour found has 32 steps and lies
  beyond the bounds of the run; the attempt to prove `OverwriteKeepsOld` without
  the exception showed it, and the property now names it (`swept`).

Sandbox:

* The cap of the output is per stream, the doc says summed (`output.rs:34`);
  output of exactly the cap is marked as cut; a read that fails ends its stream
  without a mark (`output.rs:181`).
* The proxy checks the host of an HTTP request's header (`network.rs:799`), sends
  it to the host of an absolute target (`:839-842`), and its client follows
  redirects (`:849-852`): the record names the header's host, whichever was
  reached.
* A call that timed out leaves no
  audit record. A cancel is not watched while a tool runs. `proxy.port` is one
  file per directory, which overlapping calls overwrite (`exec/mod.rs:447`).
  Tunnels have no timeout. An upstream that was reached while the answer to the
  client is lost leaves no record.
* `runtime.rs:163` and `:183` say that a hash that differs deletes the archive
  and fetches it again, and that a failed validation deletes `target_dir`;
  `manifest.rs:64` that the caller deletes it when the manifest does not parse.
  The code returns the error in all three cases and leaves the directory as it
  is (`python.rs:278-302`). The next start repairs it, but until then the exec
  tools run an executable that may stand in a half-extracted tree: they look
  for the file, never at the manifest. `bootstrap_all` reports every success as
  `cached` (`registry.rs:213-220`). `main.rs:908-913` expects the exec tools to
  return "nao registrado" after a failed bootstrap; the registry knows a runtime
  whether or not it was installed.

Documents:

* The kits drop parts of a spec without a warning (`kit.rs:126-132` promises
  one): of a PDF the totals, labels of changes, inner lists, all footers but the
  last; of a docx totals, sources, inner lists, places of signatures. Tables
  whose names differ in case, or one named as the sheet of the KPIs, get a mapping
  that names another sheet (`excelpro.rs:222-224`). The glyph check does not look
  at every text that is drawn.
* A PDF that fails its audit stays on the disk in place of the older one
  (`kit.rs:76-78`), and writes are not atomic. `PdfA2b` always fails the audit.
  `pdf.read` and `ocr.run` have no caller but tests.

## Not modelled

Text of messages and errors, token counts of runs, audit rows (best effort, no
property depends on them). Of the worker: the in-process fake, lines that do not
decode, requests that do not encode. Of the documents: texts, styles, cell
formats, the layout of reportlab, the overlap of a condemned worker with its
successor (a race of `manager.rs:832` and `launcher.rs:382`, in which a late
write of the old one could undo a newer one). Of the memory: the ranking of a
search and the rules of the classifier. The path jail, the filter of the
environment, the redaction of logs and the parsers of arguments are text
processing without a protocol between steps. The GitHub engine makes single
requests; the catalogues are static. Of the runtimes: two apps that bootstrap
into one directory at once, a return to an earlier pin (after an interrupted
removal its old manifest would be believed), and `cleanup_old_versions`. Of the
storage: the deletion of a conversation whose run is still in flight
(`ON DELETE CASCADE` under the executor). Of the window: replies of commands
that arrive after the view has moved on.

The share of the lines the map covers is low for these reasons: about a quarter
of the Rust lines are tests inside the sources, and most of what remains and is
not mapped is type declarations, documentation, wiring (`composition.rs`, Tauri
commands), views, row mapping, drawing of documents and text processing.

## Plan

What is left. That `MCExecSandbox!MCSpec` forgets only what no later step reads.
`TranslationFaithful` for every draft, which would need the folds of
`DocumentKits` as recursive functions and an invariant of each walk over the
blocks; `CallWhole` for every script, given that the names differ on the wire.
To model next: the deletion of a conversation under a run in flight, and the
ranking of a search in the memory.
