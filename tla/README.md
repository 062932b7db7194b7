# Abbey runtime: specifications, model checks and proofs

This directory holds TLA+ specifications of the durable runtime of Abbey: the run manager of the
daemon, the SQLite stores under it, the journalled mirrors of the conversation identity, the
protocol-v4 conversations that stream provider output into a transcript, tool approvals and the
effects they release, the operations on local models, and the supervisor of child processes. TLC
checks them on small instances; TLAPS proves the most important results for every instance. `PROJECT.json` lists the
runs, the source lines behind every definition, the hazards and the theorems.

Paths below are relative to the root of the repository (in `PROJECT.json` they are prefixed with
`src/`).

## Inventory

| Component | State | Operations | Where it is hard |
|---|---|---|---|
| Run manager (`src/runtime/manager.rs`, `manager/helpers.rs`) | bounded channel, `admitted`, `active` with cancellation tokens, `shutting_down`, `worker_failed`, a condition variable | `submit`, `submit_v4_turn`, `cancel`, `wait_for_terminal`, `shutdown`, the worker | client threads, one worker and the shutdown caller interleave between critical sections; stale reads before a compare-and-set; a full queue; panics and store failures of the worker |
| Run store (`src/runtime/store.rs`, `store/projection.rs`, `src/app_core/run.rs`) | tables `runs`, `run_events` | `create_or_get_run`, `transition_run`, `append_event`, `recover_interrupted`, `run_events_page`, `run_snapshot` | a crash between two transitions; a ledger that its own reader refuses |
| Conversation identity (`src/state/conversation.rs`, `conversation/clear.rs`, `src/runtime/store/identity.rs`, `identity_receipts.rs`) | canonical rows, tombstones, commit marker, receipts; mirror files, history, `pending.json` | save, clear one scope, clear everything, read, compact, recover | two stores (SQLite and files) that cannot commit together; crashes anywhere; lossy file names; foreign writers |
| Protocol-v4 turns (`src/runtime/store/v4.rs`, `v4_turn.rs`, `v4_context.rs`, `src/runtime/provider.rs`, `provider/conversation.rs`, `provider/content_sink.rs`) | conversations, messages, content events | create, delete, submit a turn, append content, settle, build the context, page the content | capacity limits that must leave room for the terminal marker; bytes against characters; every ending of a turn must be readable by the next one |
| Tool approvals, tool executions, governed tools (`src/runtime/store/tool_approval.rs`, `tool_execution.rs`, `governed.rs`, `governed/local.rs`, `src/daemon/runtime_v3.rs`) | approvals, executions, intents, previews, outcomes, stage events; reserved call ids in memory | request, decide, cancel, prepare, act, complete, compensate, audit, validate, recover | single use, expiry against a late decision, a crash between intent and outcome, two interfaces over the same rows, a clock that is set back |
| Model operations (`src/runtime/store/model_operation.rs`, `src/daemon/runtime_v3/model_lifecycle.rs`) | operation records, audit; active and loaded models in memory | download, load, unload, infer, cancel, recover | a thread that goes on after its operation was cancelled; stale progress; keys that must return |
| Delegated executor and supervisor (`src/runtime/delegated.rs`, `supervisor.rs`, `supervisor/unix.rs`) | a process group, two capture threads, a deadline, a guard | spawn, poll, drain, terminate, reap, collect, drop | timeout against exit, descendants that outlive the child or leave its group, late messages, errors halfway |
| Daemon server and client (`src/daemon/`) | one connection, frames, deadlines | accept, negotiate, dispatch, answer | deadlines against slow peers, retries of mutations, protocol downgrade |
| MCP host (`src/mcp_host/`) | session, pending requests, limits | initialise, call, cancel | limits and cancellation |
| Automation schedule (`src/automation_schedule*`) | none | next occurrence of a cron expression | calendar edges |
| Desktop client (`desktop/`) | cursors, view state | page, follow, cancel | a page that is empty is not the end |
| Memory, training, improvement, learning, TUI, agent, CLI, voice, media, host control, mesh, extensions, tools | files, terminals, processes | various | mostly I/O |

How they interact: the daemon answers one connection at a time and calls the manager; the manager's
worker calls an executor, which for a v4 turn reads its context from the store and appends content
through a sink; `transition_run` and the content store meet in the same transaction
(`sync_message_state`); the manager is shut down only by `Drop`; the store is opened with recovery
once per process. The conversation identity is used by short-lived processes of the CLI that
exclude one another by an advisory lock. The desktop client pages through the content of a turn by
cursor until a page says the turn is terminal.

What makes each part correct:

* manager: an executor starts at most once per run; an acknowledged cancellation never becomes a
  success; admitted work settles; nobody sleeps through a terminal state; shutdown returns, and
  leaves nothing in flight;
* store: every ledger can be read back; a restart interrupts what was in flight and replays nothing;
* identity: files follow the committed rows exactly once, whatever crashes; a cleared identity does
  not come back; clearing one directory spares the others;
* turns: questions and answers alternate and belong to one turn at a time; a preview is a faithful
  prefix; success means the whole text; a finished turn has its marker; no turn leaves rows that the
  next one refuses; a reader stops only when it has everything;
* tools: an effect needs an explicit approval of that very input and happens at most once, whatever
  crashes; the records claim no more than is known; neither interface releases what the other owns;
  a store that was valid can be opened again;
* models: one operation at a time has a model, an end is final and told once, every operation ends
  and every key returns that is not lost with a thread that could not be spawned;
* supervisor: no outcome leaves a process of the group behind, a capture is whole or an error, limits
  are told, and the call returns unless the child leaves its own group and lives on.

## Modules

| Module | Contents |
|---|---|
| `RunStates` | states of a run, the transition graph, event kinds, projection of a ledger |
| `RunLifecycle` | abstract specification: what the runtime promises about durable runs |
| `RunLifecycleProofs` | theorems about the promise |
| `RunManager`, `MCRunManager` | the manager over the store; checked to implement `RunLifecycle` |
| `RunManagerProofs` | the proof that it does, what follows, and the invariants of its threads |
| `ConversationMirror`, `MCConversationMirror` | rows, receipts, journal and mirrors of the identity |
| `ConversationMirrorProofs` | the proofs about journal, rows, mirrors, history and reads |
| `AssistantTurns`, `MCAssistantTurns` | protocol-v4 conversations, sink, context, reader |
| `AssistantTurnsProofs` | the proofs about markers, the order of transcripts, texts, contexts and readers |
| `ToolLedger` | the tables of approvals and executions and the transactions over them |
| `ApprovedEffects` | abstract specification: what approvals promise about effects |
| `DaemonTools`, `MCDaemonTools` | how the daemon invokes tools over `ToolLedger`; implements `ApprovedEffects` |
| `DaemonToolsProofs` | the proof that it does, and of its other invariants |
| `GovernedTools`, `MCGovernedTools` | the governed adapter over the same tables, with both interfaces in use |
| `GovernedToolsProofs` | the proofs of its properties |
| `ModelOperations` | downloads, loads, unloads, inferences and cancellations of models |
| `ModelOperationsProofs` | the proofs about keys, loads, records and the audit |
| `Supervisor` | one supervised child, its group and its readers |
| `SupervisorProofs` | the proofs about the group, the guard and the captures |

Operators whose comment starts with "Faulty variant" are not part of any specification: each is a
plausible error in the definition that follows it, and `PROJECT.json` ("mutants") names the property
that detects it.

### RunManager

A step is one critical section: a SQLite transaction, one hold of a mutex, one channel operation or
one access of an atomic flag. `pc` names the place between two of them and `run`, `seen`, `tries`,
`ids` and `plan` are the local variables that survive it, so everything a thread read earlier may be
stale when it is used. The places correspond to the code as follows.

* `submit` and `submit_v4_turn`: flag, `create_or_get_run` (`SubmitCreate`, or `SubmitExisting` when
  the key is known), insertion into `admitted`, clone of the sender, `try_send`, and the rejection
  of a full or closed queue with its own retry loop (`RejectRead`, `RejectWrite`). A store error in
  `reject_admission` returns at once and leaves the run admitted (`RejectStoreFault`). A v4 turn that
  exists is answered and never enqueued again. A key that is submitted with another digest leaves
  through the same exit as an existing run that needs nothing.
* `cancel`: read, cancel the token when the run is live, compare-and-set with retries.
* the worker: receive, cancelled-in-queue, to `starting`, register the token, check for stop,
  reread, to `running`, execute, settle. The executor is an outcome (completed, failed, cancelled);
  a panic is caught by the manager and counts as failed. `WorkerStoreFault` fails any store call of
  the worker outside `interrupt_admitted`, after which the worker interrupts what is admitted and
  leaves.
* store calls of the other threads fail too: a client returns the error (`ClientStoreFault`), and
  `interrupt_admitted` ends where it is (`InterruptStoreFault`). `MaxFaults` bounds all failures
  together; `faults` counts those of the worker and `callFaults` the others.
* `wait_for_terminal`: read, sleep on the condition variable, wake or time out. The read and the
  start of the sleep are one step with respect to notifications, since both sides hold the progress
  mutex; the transition that the waiter waits for is a step of its own, before its notification.
* `shutdown`: flag, tokens, drop of the sender, join, `interrupt_admitted`. It has one caller,
  because `Drop` is the only one in the program.
* `Restart`: the process ends at any step; `recover_interrupted_on` runs over the database and a new
  manager starts.

`executions` is a history variable that counts the starts of an executor, and `abandoned` one that
holds the runs whose rejection a store error cut short in this process. The transition of a v4
turn also writes its message and its marker in the same transaction; that half is in
`AssistantTurns`.

### ConversationMirror

One edition and its scopes (a scope per working directory and the global one). A step is one durable
effect: the atomic replacement of `pending.json`, the commit of the canonical transaction, the
replacement or removal of one file. `Abort` ends a process, by a crash or an I/O error, between any
two effects; the lock goes with it. `Edit` is a foreign program that writes a mirror; it leaves the
history alone. `CwdFile` is the lossy file name of a directory. Tokens are UUIDs, hence fresh
numbers: the branches that detect a replayed token are unreachable here. Rows migrated from schema 3
(scopes without receipts) and a second edition in the same database are left out. While the lock is
held the journal on disk and the plan in memory are the same, so there is one variable for both.
`RecoverRefused` is the refusal of a plan whose clear of everything meets a file that appeared since.

### AssistantTurns

Tables are sequences: a sequence number is a position. Characters have a width, so the byte limits of
a delta, of the preview, of the text and of the context differ from lengths. The worker streams one
turn at a time: it builds its prompt from the pairs of earlier turns, may append a notice, receives
the events of the provider, cuts a delta at `MaxDelta` between two characters and appends chunk by
chunk; the store refuses a chunk without room for the terminal marker or above the limit of the text.
When the run is settled, and by whom, is `RunManager`'s business: here a run may be cancelled or
settled whenever the lifecycle allows. `WorkerFails` and `InterruptAdmitted` are the end of a worker
whose store call failed. `Restart` is the recovery of the store and empties the queue;
`DeleteConversation` removes the rows of an idle conversation. `ReadPage` is the client that follows
a turn by cursor.

All turns use one route; the bound of 32 pairs of a context is never reached with two turns;
the legacy `[admitted]` markers and encodings of migrated databases are left out; submitting a known
key again changes nothing and is a stuttering step; the aggregate bound on the encoded events of a
turn in its context (24 MiB) is out of reach of a pair that fits into 24 KiB of history; renaming, archiving, listing and the paging of
messages are left out, as they touch single rows. `mark_interrupted` has no caller. While a
cancellation is requested and text still arrives, the message shows `running` until the run settles,
as the code does.

### ToolLedger, DaemonTools, GovernedTools

`ToolLedger` has one operator per transaction; a call that answers with an error commits nothing, so
the refusals are the negations of the conjuncts, and the one error that does commit (an approval
found to be expired) is `Expire`. Digests are values; the name of the tool is part of what a digest
covers. Decision, cancellation and execution identifiers share one name space, as
`resolution_exists` looks through all tables. The CHECKs of the tables are `Checked` and, where an
operation can hit one, part of its guard: an update that is dated before its row is refused.

`DaemonTools` is the protocol-v3 service. `job` is the frame of `invoke_approved_memory_effect`, with
a step for each durable effect: intent and consumption (one transaction), authorisation audit, effect,
result. `Crash` ends the process between any two, `ActFails` fails before or after the record was
written. `used` is the in-memory set of reserved call ids, rebuilt from the audit on `Reopen`. The
clock may be set back. `effects` is the external memory backend.

`GovernedTools` adds intents with their bindings, previews, owners, outcomes, audit stages,
compensation, and the validation and the two recoveries of a reopen, which are separate transactions
and hence separate actions. A route is the store or the authority of one local user. The validity of
an envelope is decided by a crate outside the repository; here it is that an approval is present
exactly when one is required.

### ModelOperations

The daemon's request and every background thread interleave between any two calls of the store;
`active` is the only lock between them. `note` is the progress that a thread has read, and may be
stale when it is written back. `WorkFails`, the mishaps of the store and failing spawns are separate
actions because their early returns release different things. Dates are left out: a clock that was
set back is one of the ways a transition is refused. `create_model_operation` inserts in one statement
and reads the row back in another, so a request may fail with its record queued (`AcceptUnread`). What a
download or load does inside the `abi` crates is success or failure. Of an inference only the key is
modelled, not the checks of its evidence or its audit row, which no operation refers to. `leaked` holds
the models whose key was lost (see below): `KeysHeld` and `KeysReturn` except them.

### Supervisor

The supervising thread, one reader per stream and the operating system interleave. A process is
alive, dying (killed, but still there), a zombie or gone; it may fork, leave the group, write, close
its pipes and exit whenever it likes. The child may leave the group too: it leads a group and not a
session, so it may move itself with `setpgid`. A process that left does not come back to the group.
SIGTERM obliges nobody. The deadline passes at some moment
(`late`) and a grace period may be over whenever its loop looks, so that a wait loop is left either
because of what it waits for or because time is up. An error leaves `supervise` at the place where
the code says `?`, through the guard's `Drop`. `inTime` and `denied` (the SIGKILL of `Drop` was refused)
are history variables. What the delegated executor makes of the result is a translation and left out.

### One process at a time

`Restart` and `Reopen` need the process before to have ended, in all modules with a recovery
(`RunManager`, `AssistantTurns`, `DaemonTools`, `GovernedTools`, `ModelOperations`). The code does not
enforce this: `abbeyd` opens the store, and recovers it, before it binds its socket
(`src/bin/abbeyd.rs`), so a second daemon started by mistake recovers the rows of a live one before it
fails to bind. What happens then is not covered. `ConversationMirror` is the exception: its processes
run side by side, under the lock that the code takes.

## Runs

| Run | Instance | Checks |
|---|---|---|
| `manager_ends` | a legacy run and a v4 turn, two submitters, a queue of one, shutdown, one store failure of any thread, one restart | `WorkerSurvives`, `NothingStranded`, `AtMostOnce`, `ShutdownComplete`, `ImplementsLifecycle` |
| `manager_liveness` | one run, one thread of each kind, shutdown | `CancellationWins`, `AdmittedSettles`, `WaitersReturn`, `ShutdownReturns` |
| `mirror` | two processes, two ids, two directories with one file name, three plans, history of two lines, one foreign write | `MirrorsFollowReceipts`, `HistoryExactlyOnce`, `DiscardSafe`, `RowsFollowReceipts`, `NoResurrection`, `ClearSparesOthers` |
| `turns` | two turns of one conversation that are read while they run, every limit within reach, one restart | `SettledTurns`, `PreviewFaithful`, `Transcript`, `ContextReadable`, `ReaderSeesAll`, `SucceededWhole` |
| `tools_effects` | two calls, two inputs, four identifiers, two faults, a clock of three instants that moves both ways | `TypeOK`, `ResultsHonest`, `IdsSingleUse`, `ImplementsPromise` |
| `tools_reopen` | one call, one restart | violates `CallIdsSingleUse` |
| `governed` | three calls, two users, four identifiers, three bindings, tables of three rows, one crash | `OneRelease`, `LocalConsent`, `CompensatedOnce`, `NothingOrphaned`, `StoreSound` |
| `governed_capacity` | two calls, tables of one row | violates `StoreOpens` |
| `models` | two operations and inferences on one model of two parts, two mishaps, one crash | `KeysHeld`, `AuditHonest`, `LedgerMonotone`, `OperationsEnd`, `KeysReturn` |
| `supervisor` | a child that may fork once, limits of one unit, one fault | `GroupEnded`, `DropEnds`, `CaptureWhole`, `LimitsTold`, `Returns` |
| `supervisor_deadline` | the same | violates `ExitBeatsDeadline` |
| `supervisor_teardown` | a child that forks nobody, no fault | violates `TeardownEnds` |

Why the bounds are enough to be interesting. The manager has one worker and per-run retries, so two
submitters and shutdown on two runs with a queue of one, and a canceller and shutdown on one run,
produce the conflicts its loops handle; the conflicts a loop can meet are bounded by the rank of a run (`RunStates!Rank`), not by the number of
threads; a loop that ran out would end the worker, which `WorkerSurvives` excludes in the first
instance, `AdmittedSettles` in the second, and its proof for all of them. The v4 and the legacy run are together because they take
different exits of `submit`. For the mirrors, three plans allow a commit before and after a plan that
was abandoned, and every sequence of a save, a clear and another save; a history of two lines is
shorter than the saves, so that it is truncated. For turns, six events let a first turn leave just
enough room for a second one, which then meets the limit, and characters of one and two bytes with
limits of two, three and five bytes make the limits fall inside a text. For tools, two calls compete for
identifiers and two inputs tell a changed resubmission from the same one; a time to live of two
instants lets an approval be created, decided and used in time or late, and two faults allow a failed
write followed by a crash. The governed run begins in a store that has one failed intent (`AfterFailure`,
which two operations reach from an empty store), so that its compensation by two competing intents
fits the bound; `MaxRefusals` bounds the refusals that are recorded, and three rows let a table fill
up. For models, a second operation is enough to meet every state of the first; a table that is full
refuses like a used identifier. For the supervisor, one descendant either stays in the group or
leaves it, and a limit of one unit is exceeded by the second. Deadlock is checked in `mirror`; elsewhere the instance really may stop: a manager that was shut down, turns
that are all done, identifiers that are used up, a store that is full, a child that was supervised.

Fairness. In `manager_liveness` the worker, a submitter, canceller or waiter inside a call, and the
shutdown caller are threads of the operating system, so each gets weak fairness on its own steps. The
step that ends an execution is among them because executors run under a deadline. For a child process
the supervisor enforces it, as `Returns` of `supervisor` checks, unless the child leaves its process
group (`supervisor_teardown`): then `AdmittedSettles` and `ShutdownReturns` rest on the child. Nobody is obliged to call the manager: the actions
that begin a call, time-outs of waiters, restarts and store failures have no fairness, and
`WaitersReturn` therefore says that the notification suffices without the deadline. `AdmittedSettles`
is checked without store failures: after one, `interrupt_admitted` makes a single pass, and a run
whose cancellation comes between its read and its write stays admitted until shutdown.
In `models` the request being handled and every background thread are scheduled; nobody has to make a
request, and crashes and mishaps have none. In the `supervisor` runs the supervising thread is scheduled,
the deadline comes, and a process that was sent SIGKILL ends; readers, cancellation and processes are
obliged to nothing. `Returns` says that the call returns or the child stays alive outside its group for
ever.

## What the runs found

* `tools_reopen`: `docs/runtime.md` says that call ids remain single-use after the daemon is reopened,
  because reservations are recovered from the audit. A call that waits for its approval has no audit
  row yet, so after a reopen its id is free: a read-only tool is authorised under it, and later the
  approved effect is authorised under the same one. (`ImplementsPromise` holds nevertheless: the
  effect is still approved and happens once.)
* `governed_capacity`: `request_local_approval` looks at the room of `local_governed_approvals` and
  then also inserts into `governed_approval_previews`, which `create_governed_tool_approval` fills
  too (and checks). The previews can therefore outnumber `CAPACITY`, and `validate_on`, which counts
  them, answers "governed capacity exceeded" as corrupt data: the store refuses every preparation
  and completion and does not open again. Nothing else can make it refuse: `StoreSound`, all of
  `validate_on` but this count, is checked by `governed` and proved.
* `supervisor_deadline`: `supervise` polls the child before it looks at the deadline, so
  that a completion is not misreported as a timeout (the comment in `unix.rs`, and its test). The
  decision that follows does not look at the status just read, so a child that ended before the
  deadline and is first polled after it is reported as timed out.
* `supervisor_teardown`: `supervisor/tests.rs` says that `terminate` "returns the instant the group
  disappears" and spends up to three grace periods. It signals the group only and then waits for the
  child without a limit (`reap_leader`). A child that has moved to another group of its session makes
  the group disappear, is sent no SIGKILL, and keeps `terminate` waiting for as long as it likes, past
  the deadline and a cancellation. (`Drop` kills the child itself and does not have this gap.)

Behaviour that the models show and no document contradicts:

* a run submitted after a failing worker has interrupted what was admitted, and before its receiver
  is dropped, is accepted by the channel and stays admitted until shutdown interrupts it;
* a store error while a full or closed queue is being reported leaves the run admitted and queued with
  nobody to run it, although the worker lives: a resubmission is answered with the existing run, and it
  stays so until it is cancelled, or shutdown or a restart comes (`abandoned` in `RunManager`);
* a second caller of `shutdown` would find the join handle taken; the program has one, `Drop`;
* a file that appears under `by-cwd` while a clear of everything is pending makes the journal refused,
  and with it every later operation (`RecoverRefused`); the code fails closed on purpose;
* a v4 turn that was queued when the process ended stays queued; a repeated submission is answered as
  a duplicate, and its conversation admits no other turn until it is cancelled;
* `recover_prepared_on` dates an interrupted execution with the current time; after the clock was set
  back behind its start the table refuses this, and the store does not open until the clock has
  caught up. The governed and the model recoveries use the later of the two times instead;
* when the thread of a model operation cannot be spawned and that cannot be recorded, the early
  return skips `release_active`, and the model is locked until a restart (`leaked` in
  `ModelOperations`); an unload whose first audit fails leaves its record queued until a restart;
* a load that is cancelled while it works still loads the model (the repository's completion plan
  lists this), and its key returns before its record ends;
* after the leader was reaped and its group was empty, the guard and `finish_after_exit` still refer
  to the group by number; the model has no other processes that could be given it.

## Proofs

`RunLifecycleProofs`. `LifecycleSafety` is `Spec => [](StartsOnce /\ LedgersProject)` for any set of
runs. "At most one start" is not inductive; `StartsOnce` adds that a run in `queued` or `starting` has
none. The ledger part needs that only a terminal state can have a manager stop as its latest entry
(`AppendProjects`) and that terminal states have no successor (`TransitionRaisesRank`).
`TerminalStaysFinal` proves that settled runs keep status and ledger.

`RunManagerProofs`. `Implements` is `Spec => ImplementsLifecycle`: every critical section of every
thread is one step of the lifecycle or none. The lemmas treat one thread at a time (`SubmitStore`,
`CancelStore`, `WorkerStore`, `InterruptStore`). The invariant `SafeControl` is needed because the
event a step writes depends on local variables: the worker's `plan` decides which terminal state it
writes and its place which values of `plan` are possible, so the labels and plans of `ControlType`
are proved inductive together with the types of the store. `ExecutesAtMostOnce` and
`LedgersStayProjectable` follow through the theorem about the lifecycle. They hold for every number
of runs, clients, restarts and faults and for every capacity from 1 to 32.

The second half of the module proves `WorkerSurvives`, `NothingStranded`, `ShutdownComplete` and
`CancellationWins`, with store failures in every thread. `NothingStranded` and `ShutdownComplete` except
the runs in `abandoned`: that a store error of its own rejection is the only way for a run to be stranded
while the worker lives is what they say of the code. None is inductive, and they need each other. `Service` says how far the run of
the worker is, given the place of the worker (`Working`); that a run in flight is the worker's, until
it fails (`InFlightOwned`); that a submit call holds a recorded run and a share of the channel while
it sends (`Submitting`); and how worker and shutdown end (`Ending`: a worker that left without a
failure saw the channel closed and empty, and nobody is sending). That the retry loops do not run out
is a ranking argument, `Converging`: a conflict means that the status moved up (`Rank`), and the
tries of a loop stay below the rank of the status it last saw. A step is first classified by the
thread that takes it and by what it does to the statuses, so that each conjunct is proved once per
class. `CancellationWins` follows from the place where the worker writes a success: what it compares
against is not `cancel_requested`.

`ConversationMirrorProofs`. All properties of `mirror` are theorems, for any processes, ids,
directories, file names, plans and foreign writes. The invariant `MirrorInv` has five parts.

* `TokenInv`: only the holder of the lock is inside an operation; no receipt has a token that was not
  handed out, and the journal has the last one; the journal is empty in the body of an operation, and
  before the commit its token is newer than every receipt's. `DiscardSafe` is part of it.
* `RowsInv`: the rows of a scope are exactly those that its last mutation writes, or there is none
  and no row. `RowsFollowReceipts` follows by cases on that mutation; that `LatestReceipt` is a
  maximum at all is carried along (`HasLatest`).
* `JournalInv`: the plan in the journal lists the files that its commit projects onto, what a process
  has left to apply is part of the plan, and the plan is committed while it is being applied. `Spared`
  keeps what the clear of a scope was authorised on: no other directory has selected what the file
  held. `ClearSparesOthers` follows, because a target is removed only while it still holds that.
* `MirrorsShow`: files outside a committed plan show their last commit, targets that were dealt with
  show the plan, and a clear of everything overlooks no file; as long as nobody else writes mirrors.
* `HistoryKept`: the history holds the last saves, or the lines in the committed plan do, without the
  save that it commits; so appending again is idempotent. It holds whatever is written into mirrors.

`Answered` adds that an answer stands only while nobody is inside an operation, and `NoResurrection`
of it comes from `RowsInv` by the cases of `read_chat`. The order of the targets and `SetToSeq` are
handled by lemmas about ranges of sequences; that needs finitely many files (`FilesAssumption`).

`AssistantTurnsProofs`. `TurnsSettle` is `Spec => []SettledTurns`, for any conversations, turns, texts
and limits. `sync_message_state` silently leaves the marker out when no sequence number is left, so
the property rests on a reservation made elsewhere: `MarkerFits` (while a turn is active its
conversation is open and has a number left) holds because admission needs two free numbers, every
append leaves one, and `ActiveAlone` (no two active turns in a conversation) keeps others from taking
it. `Opened`, `EventsAdmitted` and `WorkerAdmitted` say that turns, events and the worker's turn
belong to what was admitted. The sets of texts and sizes in `Rows` are arbitrary, so that nothing
about the lengths of texts is needed.

`TranscriptAlways` is `Spec => []Transcript`. `Ordered` adds what an active turn may rely on: the last
message of its conversation is its own, and once it has an event no other turn has a later one. A new
turn is admitted only when no other is active (`ActiveAlone`), so what it appends goes behind whole
pairs and whole groups.

The rest of the module proves the properties that speak of the text of a turn: `PreviewsFaithful`,
`ContextsReadable`, `ReadersSeeAll`, `SuccessWhole` (an action property), and `RowsTyped`, the types
and limits of all tables. They hold for any characters and widths, any deltas and any limits.

* *What the folds compute.* Sizes, the events of a turn, its text, its questions and its context are
  folds over sequences, and the provers cannot instantiate an induction theorem that takes a
  predicate. Induction is therefore stated about sets: a set of numbers that contains 0 and the
  successor of each of its members is `Nat` (`NatInductive`), and likewise for sequences
  (`SeqInductive`) and for sets of positions (`PositionsInductive`). The first follows from the
  library's theorem that `<` is well-founded. The recursion inside `FoldLeft` and `FlattenSeq` is then
  shown to have a solution (`FoldSolved`, `FlatSolved`) and only one (`SameFold`, `FlatSame`), from
  which what one more element adds is read off: `BytesAppend`, `OwnAppend`, `FlattenAppend`,
  `TextAppend`. The facts the properties need come from these: sizes add up (`BytesConcat`), a chunk
  and what is left of it are the delta (`FitSplits`), a preview that is extended stays a prefix of the
  text and within its limit (`ExtendPrefix`), and a history is accepted if each of its turns is
  (`ContextReads`).
* *The invariant.* `TextInv` says, next to `Inv`: rows keep their types and limits (`Tables`); the
  events of a turn are at most one notice, at the front, then text, and its marker exactly if it has
  ended (`Told`), and the reply quotes the text and counts it, or there is neither (`Previewed`); a
  turn has no events before its prompt is built (`QueuedFresh`, `WorkerFresh`); as long as the stream is
  valid, what is stored followed by what is left of the delta is what the provider said (`Streams`);
  a reader has read the text up to its cursor (`Readers`).
* *The steps.* Each action is first reduced to what it does to the rows of one turn: nothing, a move to
  another state, the question, the notice, a chunk, or deletion (`Effect`, `NextStepped`). Then each
  part of the invariant is proved once per effect. Both parts of a preview are needed: that it is a
  prefix keeps it one only because `update_assistant_preview` extends it while its size equals the
  size of the text, and a prefix of the same size is the text (`PrefixWhole`; every character has a
  width). `WorkerFresh` is what keeps a notice at the front, which `validate_empty_success` relies on.

`DaemonToolsProofs`. `EffectsKeepPromise` is `Spec => ImplementsPromise`, and the other properties of
`tools_effects` are theorems as well, like `EvidenceComplete`. "At most one effect" is not inductive: `IInv` adds that
the frame of a request that acts holds the only unfinished intent of its call, made from an
approval of the input that it carries (`FrameHolds`), that its call has had no effect before
(`FrameEffect`), and that intents exist exactly for consumed approvals (`IntentsMatch`), so that a
lost frame is never resumed. Every step commits one of the transactions of the ledger or none
(`StepCommits`), and the results about the evidence, the identifiers and the CHECKs are proved per
transaction. The log is tied to the state of its row by `Stories`.

`ModelOperationsProofs`. The keys are followed from the request that takes one to the thread it is
handed to. `MInv` says that everybody at work has the key of the model, that no two have the same one
and that every key has somebody (`Exclusive`), that threads and requests know their records (`Known`),
and that a process that ended left nothing (`Down`). `KeysHeld` and `LoadsOnce` follow. `LedgerMonotone`
needs it because a thread and a cancellation write back what they read earlier. `AuditHonest`
needs `Account`: only one party, the thread or a request, is about to tell of the end of an operation,
only after the record has ended, and nobody has told yet.

`GovernedToolsProofs`. The five properties of `governed` hold together or not at all. An approved
intent shares the execution row of its call with the old operations; that they leave it alone is part
of `Sound`, and that they find it as it was is what makes a release unique. `Support` adds: a call that
nobody asked for has no preview and no owner, an execution exists only for an approval that was used
up (`Unasked`); an identifier without an intent has no evidence (`Traceless`); every release shows in an
intent or an execution (`ReleasesShow`), from which `OneRelease` follows; what a local user approved is
the preview that is still there (`Consented`); and between the two recoveries nothing is unfinished
(`Recovered`), so that `recover_prepared_on` finds no row of an intent. The theorems are about `Spec`,
from an empty store; the run starts behind a failed intent, a state that `Spec` reaches.

`SupervisorProofs`. `IInv` says what the guard knows (`Guarded`: it is disarmed only after the leader was
waited for and the group was seen empty, and an empty group stays empty since only members fork into
it), what each place of the supervising thread has established (`Placed`) and what a result says
(`Told`). `GroupEnded` and `DropEnds` follow. `CInv` relates what was written, read, drained and taken,
for `CaptureWhole` and `LimitsTold`.

Assumptions of the proofs are the `ASSUME`s of the modules (distinct names, files distinct from the
reserved names and finitely many, positive limits), which TLC evaluates on every run. Every inductive
invariant was checked by TLC on the instances of the runs before it was proved.

Model-checked only: all liveness (`AdmittedSettles`, `WaitersReturn`, `ShutdownReturns`,
`OperationsEnd`, `KeysReturn`, `Returns`), as the prover has no rules for fairness and `ENABLED` here.
Every safety property of a passing run is a theorem. `TypeOK` is a property of a run
only in `DaemonTools`, where it includes the CHECKs of the tables; in the other modules it documents
the types of the variables, and the proofs carry the part of it that they need (of `AssistantTurns` all of it, `RowsTyped`). `LedgerProjectable`,
`LoadsOnce` and `EvidenceComplete` are proved and not listed with a run.

## Not modelled

Everything outside the components above; `PROJECT.json` gives the reason for each part. Of the
modelled parts: migrations and legacy import, paging of run events by watermark, request digests, the
audit views, wording of errors, the construction and the startup checks of delegated recipes, and the
platforms without process groups. The provider executor is one call of the supervisor and a
translation of its outcome. The vendored Discord library under `extensions/bot/patches` and the bulk
of the remaining code (retrieval, training, presentation, host control) is third-party or I/O without
a state machine to check.

## Plan

Done, in this order: the manager with its lifecycle and refinement proof; the mirrors with the proof
about the journal; conversations and turns with the proofs about markers, order and texts; tool approvals with
the promise about effects and its refinement proof, and the governed adapter; model operations and
the supervisor, each with its proofs.

1. Paging of run events with watermarks over a ledger that grows and is recovered, as an extension of
   the reader of `AssistantTurns`.
2. `DaemonServer`: one connection, deadlines, retries of mutations by idempotency key; composed with
   `RunManager`.
3. Cron arithmetic of the automation schedule as operators against a reference.
4. MCP host limits and cancellation; the prompt queue of the TUI's worker and the turn lock.

Theorems next: the safety part of what liveness rests on, so that every wait of the manager has
somebody who ends it. Liveness next: a reader that keeps paging finishes once its turn has settled.
