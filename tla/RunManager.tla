----------------------------- MODULE RunManager -----------------------------
(***************************************************************************)
(* RunManager (src/runtime/manager.rs, manager/helpers.rs) over the store  *)
(* (src/runtime/store.rs): client threads that submit, cancel and wait, a  *)
(* single worker behind a bounded queue, one shutdown caller, and restarts *)
(* of the process over the same database.                                  *)
(*                                                                         *)
(* A step is one critical section of the code: one SQLite transaction, one *)
(* hold of a mutex, one channel operation or one access of an atomic flag. *)
(* Everything a thread keeps between two of them is thread-local state, so *)
(* every interleaving of the critical sections is a behaviour.             *)
(*                                                                         *)
(* A restart follows the end of the process before it.  The daemon opens   *)
(* and recovers the store before it binds its socket, so a second daemon   *)
(* could recover the runs of a live one; that is not modelled.             *)
(***************************************************************************)
EXTENDS RunStates

CONSTANTS Runs,        \* idempotency keys; a key names at most one durable run
          V4Runs,      \* the keys that are submitted as protocol-v4 turns
          Submitters, Cancellers, Waiters,     \* client threads, by operation
          Worker, Stopper,                     \* the worker and the shutdown caller
          NoRun,
          QueueCapacity,
          MayStop,                             \* whether anybody calls shutdown
          MaxRestarts, MaxFaults               \* bounds: ends of the process, store
                                               \* calls that fail

Clients == Submitters \cup Cancellers \cup Waiters
Threads == Clients \cup {Worker, Stopper}

ASSUME RunsAssumption == V4Runs \subseteq Runs /\ NoRun \notin Runs

ASSUME ThreadsAssumption ==
    /\ Worker # Stopper
    /\ Worker \notin Clients /\ Stopper \notin Clients
    /\ Submitters \cap Cancellers = {}
    /\ Submitters \cap Waiters = {}
    /\ Cancellers \cap Waiters = {}

\* effective_queue_capacity clamps the configured value into 1..32.
ASSUME CapacityAssumption == QueueCapacity \in 1 .. 32

ASSUME BoundsAssumption == MayStop \in BOOLEAN /\ MaxRestarts \in Nat /\ MaxFaults \in Nat

\* Every retry loop over a status conflict is `for _ in 0..8`.
MaxTries == 8

VARIABLES
    status, ledger, executions,   \* durable: the rows of runs and run_events, and
                                  \* how often an executor was started for a run
    queue,          \* contents of the sync_channel
    sender,         \* RunManager::sender is Some
    holders,        \* threads that hold a clone of the sender
    admitted,       \* Shared::admitted
    active,         \* keys of Shared::active
    signalled,      \* runs whose live cancellation token is cancelled
    shuttingDown,   \* Shared::shutting_down
    workerFailed,   \* Shared::worker_failed
    pc, run,        \* where each thread is, and the run it works on
    seen,           \* the status it read last
    tries,          \* conflicts met by its current retry loop
    ids,            \* runs that interrupt_admitted has still to visit
    plan,           \* the worker's next move: where finish_cancelled returns to, or
                    \* the outcome of the attempt that is being settled
    restarts,
    faults, callFaults,   \* store calls that failed, of the worker and of other threads
    abandoned       \* history: runs whose rejection ended in a store error, which
                    \* leaves them admitted with nobody working on them

store   == <<status, ledger, executions>>
maps    == <<admitted, active>>
flags   == <<shuttingDown, workerFailed>>
frame   == <<run, seen, tries, holders, signalled, plan>>
env     == <<restarts, faults, callFaults, abandoned>>
vars    == <<store, queue, sender, maps, flags, pc, frame, ids, env>>

SubmitterPC == {"idle", "s_create", "s_admit", "s_sender", "s_send",
                "rj_read", "rj_cas", "finish", "notify"}
CancellerPC == {"idle", "c_read", "c_token", "c_cas", "notify"}
WaiterPC    == {"idle", "w_read", "asleep"}
InterruptPC == {"ia_snapshot", "ia_read", "ia_cas", "ia_notify"}
WorkerPC    == {"recv", "received", "cq_cas", "start", "conflict", "register", "check_stop",
                "reread", "running", "execute", "st_read", "st_decide", "st_cas",
                "fc_read", "fc_cas", "settled", "finalize", "finish", "notify",
                "dying", "leaving", "exited"} \cup InterruptPC
StopperPC   == {"serving", "sh_tokens", "sh_sender", "sh_join", "stopped", "stop_failed"}
                   \cup InterruptPC

PC == SubmitterPC \cup CancellerPC \cup WaiterPC \cup WorkerPC \cup StopperPC

StartPC(t) == IF t = Worker THEN "recv" ELSE IF t = Stopper THEN "serving" ELSE "idle"

-----------------------------------------------------------------------------
(* Building blocks of the steps.                                           *)

At(t, label) == pc[t] = label

Goto(t, label) == pc' = [pc EXCEPT ![t] = label]

\* The thread goes on inside its call.
Step(t, label) == Goto(t, label) /\ UNCHANGED frame

\* What a call keeps on its stack ends with it: the clone of the sender with enqueue,
\* the token and the plan of the worker with execute_item.
EndCall(t) ==
    /\ run' = [run EXCEPT ![t] = NoRun]
    /\ seen' = [seen EXCEPT ![t] = Absent]
    /\ tries' = [tries EXCEPT ![t] = 0]
    /\ holders' = holders \ {t}
    /\ signalled' = IF t = Worker THEN signalled \ {run[t]} ELSE signalled
    /\ plan' = IF t = Worker THEN "none" ELSE plan

Return(t) == Goto(t, StartPC(t)) /\ EndCall(t)

Status(t) == status[run[t]]

\* update_and_append: the status column and one ledger entry, in one transaction.
Write(r, to, kind) ==
    /\ status' = [status EXCEPT ![r] = to]
    /\ ledger' = [ledger EXCEPT ![r] = Append(@, kind)]

\* transition_run on the run of thread t: a compare-and-set on the status.
Transition(t, expected, to, kind) ==
    /\ Status(t) = expected
    /\ ValidTransition(expected, to)
    /\ Write(run[t], to, kind)

\* transition_run finds another status: UnexpectedStatus, nothing is written.
Conflict(t, expected) ==
    /\ Status(t) # expected
    /\ UNCHANGED <<status, ledger>>

\* The loop goes round again after a conflict; after MaxTries it gives up.
Retry(t, again, giveUp) ==
    /\ tries' = [tries EXCEPT ![t] = @ + 1]
    /\ Goto(t, IF tries[t] + 1 = MaxTries THEN giveUp ELSE again)
    /\ UNCHANGED <<run, seen, holders, signalled, plan>>

\* get_run inside a call: the status is a snapshot from here on.
Read(t, label) ==
    /\ seen' = [seen EXCEPT ![t] = Status(t)]
    /\ Goto(t, label)
    /\ UNCHANGED <<run, tries, holders, signalled, plan>>

\* A store call may fail: an I/O error, a busy database.
StoreMayFail == faults + callFaults < MaxFaults

CallFault == StoreMayFail /\ callFaults' = callFaults + 1

\* notify bumps the generation and wakes every thread waiting on the condvar.
Woken == [u \in Threads |-> IF u \in Waiters /\ pc[u] = "asleep" THEN "w_read" ELSE pc[u]]

-----------------------------------------------------------------------------
(* RunManager::submit and submit_v4, enqueue, reject_admission.            *)

\* The early return on shutting_down changes nothing and is left out.
SubmitBegin(t) ==
    /\ At(t, "idle")
    /\ ~shuttingDown
    /\ \E r \in Runs : run' = [run EXCEPT ![t] = r]
    /\ Goto(t, "s_create")
    /\ UNCHANGED <<store, queue, sender, maps, flags, seen, tries, holders, signalled, plan,
                   ids, env>>

\* create_or_get_run and v4_admit_turn insert a queued run for a new key.
SubmitCreate(t) ==
    /\ At(t, "s_create")
    /\ Status(t) = Absent
    /\ Write(run[t], "queued", "run_queued")
    /\ Step(t, "s_admit")
    /\ UNCHANGED <<executions, queue, sender, maps, flags, ids, env>>

\* The key exists. A queued run is offered for admission again, unless it is a v4
\* duplicate. A request with another digest returns IdempotencyConflict, the same exit.
SubmitExisting(t) ==
    /\ At(t, "s_create")
    /\ Status(t) # Absent
    /\ \/ Status(t) = "queued" /\ run[t] \notin V4Runs /\ Step(t, "s_admit")
       \/ Return(t)
    /\ UNCHANGED <<store, queue, sender, maps, flags, ids, env>>

\* The record read before is stale from here on: only admitted is consulted.
SubmitAdmit(t) ==
    /\ At(t, "s_admit")
    /\ admitted' = admitted \cup {run[t]}
    /\ IF run[t] \in admitted THEN Return(t) ELSE Step(t, "s_sender")
    /\ UNCHANGED <<store, queue, sender, active, flags, ids, env>>

\* enqueue clones the sender, or finds it taken by shutdown.
SubmitSender(t) ==
    /\ At(t, "s_sender")
    /\ Goto(t, IF sender THEN "s_send" ELSE "rj_read")
    /\ holders' = IF sender THEN holders \cup {t} ELSE holders
    /\ UNCHANGED <<store, queue, sender, maps, flags, run, seen, tries, signalled, plan,
                   ids, env>>

SubmitSend(t) ==
    /\ At(t, "s_send")
    /\ pc[Worker] # "exited"
    /\ Len(queue) < QueueCapacity
    /\ queue' = Append(queue, run[t])
    /\ Return(t)
    /\ UNCHANGED <<store, sender, maps, flags, ids, env>>

\* Faulty variant: a refused item is dropped and its run is not rejected.
SubmitRefusedDropped(t) ==
    /\ At(t, "s_send")
    /\ pc[Worker] = "exited" \/ Len(queue) >= QueueCapacity
    /\ Return(t)
    /\ UNCHANGED <<store, queue, sender, maps, flags, ids, env>>

\* TrySendError::Full or Disconnected.
SubmitRefused(t) ==
    /\ At(t, "s_send")
    /\ pc[Worker] = "exited" \/ Len(queue) >= QueueCapacity
    /\ Step(t, "rj_read")
    /\ UNCHANGED <<store, queue, sender, maps, flags, ids, env>>

\* A run that is neither terminal nor queued ends the call with an error and keeps
\* its admission.
RejectRead(t) ==
    /\ At(t, "rj_read")
    /\ CASE Status(t) \in Terminal -> Step(t, "finish")
         [] Status(t) = "queued"   -> Read(t, "rj_cas")
         [] OTHER                  -> Return(t)
    /\ UNCHANGED <<store, queue, sender, maps, flags, ids, env>>

RejectWrite(t) ==
    /\ At(t, "rj_cas")
    /\ \/ Transition(t, "queued", "failed", "run_failed") /\ Step(t, "finish")
       \/ Conflict(t, "queued") /\ Retry(t, "rj_read", "idle")
    /\ UNCHANGED <<executions, queue, sender, maps, flags, ids, env>>

\* A store call of reject_admission fails: the read or the transition, which then has
\* changed nothing, or the read-back of transition_with_failure, after its commit. The
\* error ends the call and the run stays admitted; submitting it again is answered
\* with the existing run.
RejectStoreFault(t) ==
    /\ CallFault
    /\ \/ pc[t] \in {"rj_read", "rj_cas"} /\ UNCHANGED <<status, ledger>>
       \/ At(t, "rj_cas") /\ Transition(t, "queued", "failed", "run_failed")
    /\ abandoned' = abandoned \cup {run[t]}
    /\ Return(t)
    /\ UNCHANGED <<executions, queue, sender, maps, flags, ids, restarts, faults>>

\* finish_admission releases the run in both maps, then notifies.
FinishAdmission(t) ==
    /\ At(t, "finish")
    /\ active' = active \ {run[t]}
    /\ admitted' = admitted \ {run[t]}
    /\ Step(t, "notify")
    /\ UNCHANGED <<store, queue, sender, flags, ids, env>>

\* Faulty variant: the generation is bumped but nobody is woken.
NotifyNobody(t) ==
    /\ At(t, "notify")
    /\ Return(t)
    /\ UNCHANGED <<store, queue, sender, maps, flags, ids, env>>

NotifyProgress(t) ==
    /\ At(t, "notify")
    /\ pc' = [Woken EXCEPT ![t] = StartPC(t)]
    /\ EndCall(t)
    /\ UNCHANGED <<store, queue, sender, maps, flags, ids, env>>

-----------------------------------------------------------------------------
(* RunManager::cancel and wait_for_terminal.                               *)

CancelBegin(t) ==
    /\ At(t, "idle")
    /\ \E r \in Runs : status[r] # Absent /\ run' = [run EXCEPT ![t] = r]
    /\ Goto(t, "c_read")
    /\ UNCHANGED <<store, queue, sender, maps, flags, seen, tries, holders, signalled, plan,
                   ids, env>>

CancelRead(t) ==
    /\ At(t, "c_read")
    /\ IF Status(t) \in Terminal THEN Return(t) ELSE Read(t, "c_token")
    /\ UNCHANGED <<store, queue, sender, maps, flags, ids, env>>

\* The token of an active run is signalled before the transition is tried.
CancelToken(t) ==
    /\ At(t, "c_token")
    /\ signalled' = signalled \cup ({run[t]} \cap active)
    /\ IF seen[t] = "cancel_requested"
       THEN /\ Goto(t, "idle")
            /\ run' = [run EXCEPT ![t] = NoRun]
            /\ seen' = [seen EXCEPT ![t] = Absent]
            /\ tries' = [tries EXCEPT ![t] = 0]
       ELSE Goto(t, "c_cas") /\ UNCHANGED <<run, seen, tries>>
    /\ UNCHANGED <<store, queue, sender, maps, flags, holders, plan, ids, env>>

CancelWrite(t) ==
    /\ At(t, "c_cas")
    /\ \/ /\ IF seen[t] = "queued"
             THEN Transition(t, seen[t], "cancelled", "run_cancelled")
             ELSE Transition(t, seen[t], "cancel_requested", "run_cancel_requested")
          /\ Step(t, "notify")
       \/ Conflict(t, seen[t]) /\ Retry(t, "c_read", "idle")
    /\ UNCHANGED <<executions, queue, sender, maps, flags, ids, env>>

WaitBegin(t) ==
    /\ At(t, "idle")
    /\ \E r \in Runs : status[r] # Absent /\ run' = [run EXCEPT ![t] = r]
    /\ Goto(t, "w_read")
    /\ UNCHANGED <<store, queue, sender, maps, flags, seen, tries, holders, signalled, plan,
                   ids, env>>

\* The generation mutex is held from the read to the wait, and notify needs it:
\* reading the run and falling asleep is one step.
WaitRead(t) ==
    /\ At(t, "w_read")
    /\ IF Status(t) \in Terminal THEN Return(t) ELSE Step(t, "asleep")
    /\ UNCHANGED <<store, queue, sender, maps, flags, ids, env>>

\* The deadline passes without a notification.
WaitTimeout(t) ==
    /\ At(t, "asleep")
    /\ Return(t)
    /\ UNCHANGED <<store, queue, sender, maps, flags, ids, env>>

\* A store call of submit, cancel or wait_for_terminal fails and changes nothing: the
\* error ends the call. A cancellation has signalled the token by then.
ClientStoreFault(t) ==
    /\ CallFault
    /\ pc[t] \in {"s_create", "c_read", "c_cas", "w_read"}
    /\ Return(t)
    /\ UNCHANGED <<store, queue, sender, maps, flags, ids, restarts, faults, abandoned>>

-----------------------------------------------------------------------------
(* The worker: worker_entry and execute_item.                              *)

WorkerReceive ==
    /\ At(Worker, "recv")
    /\ queue # <<>>
    /\ run' = [run EXCEPT ![Worker] = Head(queue)]
    /\ queue' = Tail(queue)
    /\ Goto(Worker, "received")
    /\ UNCHANGED <<store, sender, maps, flags, seen, tries, holders, signalled, plan, ids, env>>

\* recv fails once the channel is empty and every sender is gone.
WorkerDisconnected ==
    /\ At(Worker, "recv")
    /\ queue = <<>> /\ ~sender /\ holders = {}
    /\ Step(Worker, "exited")
    /\ UNCHANGED <<store, queue, sender, maps, flags, ids, env>>

WorkerReceived ==
    /\ At(Worker, "received")
    /\ Step(Worker, IF shuttingDown THEN "cq_cas" ELSE "start")
    /\ UNCHANGED <<store, queue, sender, maps, flags, ids, env>>

EnterFinishCancelled(goOn) ==
    /\ plan' = goOn
    /\ Goto(Worker, "fc_read")
    /\ UNCHANGED <<run, seen, tries, holders>>

\* cancel_queued.
WorkerCancelQueued ==
    /\ At(Worker, "cq_cas")
    /\ \/ Transition(Worker, "queued", "cancelled", "run_cancelled") /\ Step(Worker, "finish")
       \/ /\ Conflict(Worker, "queued")
          /\ EnterFinishCancelled("finish")
          /\ UNCHANGED signalled
    /\ UNCHANGED <<executions, queue, sender, maps, flags, ids, env>>

WorkerStart ==
    /\ At(Worker, "start")
    /\ \/ Transition(Worker, "queued", "starting", "run_starting") /\ Step(Worker, "register")
       \/ Conflict(Worker, "queued") /\ Step(Worker, "conflict")
    /\ UNCHANGED <<executions, queue, sender, maps, flags, ids, env>>

\* Faulty variant: a run that was cancelled while it waited is not expected here.
StartConflictStrict ==
    /\ At(Worker, "conflict")
    /\ IF Status(Worker) = "cancel_requested"
       THEN EnterFinishCancelled("finish") /\ UNCHANGED signalled
       ELSE Step(Worker, "dying")
    /\ UNCHANGED <<store, queue, sender, maps, flags, ids, env>>

\* settle_start_conflict: anything but a terminal or cancelling run is an error that
\* ends the worker.
WorkerStartConflict ==
    /\ At(Worker, "conflict")
    /\ CASE Status(Worker) \in Terminal -> Step(Worker, "finish")
         [] Status(Worker) = "cancel_requested" -> /\ EnterFinishCancelled("finish")
                                                   /\ UNCHANGED signalled
         [] OTHER -> Step(Worker, "dying")
    /\ UNCHANGED <<store, queue, sender, maps, flags, ids, env>>

WorkerRegister ==
    /\ At(Worker, "register")
    /\ active' = active \cup {run[Worker]}
    /\ Step(Worker, "check_stop")
    /\ UNCHANGED <<store, queue, sender, admitted, flags, ids, env>>

WorkerCheckStop ==
    /\ At(Worker, "check_stop")
    /\ signalled' = IF shuttingDown THEN signalled \cup {run[Worker]} ELSE signalled
    /\ Goto(Worker, "reread")
    /\ UNCHANGED <<store, queue, sender, maps, flags, run, seen, tries, holders, plan, ids, env>>

FinalizeIfTurn == IF run[Worker] \in V4Runs THEN "finalize" ELSE "finish"

\* The cancelled exits of execute_item: cancel the token, then finish_cancelled.
AbandonStart ==
    /\ signalled' = signalled \cup {run[Worker]}
    /\ EnterFinishCancelled(FinalizeIfTurn)

WorkerReread ==
    /\ At(Worker, "reread")
    /\ IF Status(Worker) = "cancel_requested" \/ run[Worker] \in signalled
       THEN AbandonStart
       ELSE Step(Worker, "running")
    /\ UNCHANGED <<store, queue, sender, maps, flags, ids, env>>

\* Starting becomes Running and the executor is called.
WorkerRun ==
    /\ At(Worker, "running")
    /\ Transition(Worker, "starting", "running", "run_started")
    /\ executions' = [executions EXCEPT ![run[Worker]] = @ + 1]
    /\ Step(Worker, "execute")
    /\ UNCHANGED <<queue, sender, maps, flags, ids, env>>

WorkerRunConflict ==
    /\ At(Worker, "running")
    /\ Conflict(Worker, "starting")
    /\ AbandonStart
    /\ UNCHANGED <<executions, queue, sender, maps, flags, ids, env>>

\* execute_catching_panics returns: completed, or a failure or a contained panic.
WorkerExecuted ==
    /\ At(Worker, "execute")
    /\ plan' \in {"succeeded", "failed"}
    /\ Goto(Worker, "st_read")
    /\ UNCHANGED <<store, queue, sender, maps, flags, run, seen, tries, holders, signalled,
                   ids, env>>

\* settle_attempt reads the run, decides on the outcome, then writes it.
SettleRead ==
    /\ At(Worker, "st_read")
    /\ IF Status(Worker) \in Terminal THEN Step(Worker, "settled") ELSE Read(Worker, "st_decide")
    /\ UNCHANGED <<store, queue, sender, maps, flags, ids, env>>

\* Faulty variant: only the shutdown flag holds a completed attempt back.
SettleDecideDeaf ==
    /\ At(Worker, "st_decide")
    /\ plan' = IF plan = "failed" THEN "failed"
               ELSE IF shuttingDown THEN "cancelled" ELSE "succeeded"
    /\ Goto(Worker, "st_cas")
    /\ UNCHANGED <<store, queue, sender, maps, flags, run, seen, tries, holders, signalled,
                   ids, env>>

\* A completed attempt is held back as cancelled when a cancellation or a shutdown
\* was seen; a failed one stays a failure.
SettleDecide ==
    /\ At(Worker, "st_decide")
    /\ LET cancelling == \/ run[Worker] \in signalled
                         \/ seen[Worker] = "cancel_requested"
                         \/ shuttingDown
       IN plan' = IF plan = "failed" THEN "failed"
                  ELSE IF cancelling THEN "cancelled" ELSE "succeeded"
    /\ Goto(Worker, "st_cas")
    /\ UNCHANGED <<store, queue, sender, maps, flags, run, seen, tries, holders, signalled,
                   ids, env>>

OutcomeEvent(outcome) ==
    CASE outcome = "failed"    -> "run_failed"
      [] outcome = "cancelled" -> "run_cancelled"
      [] OTHER                 -> "run_succeeded"

\* Faulty variant: the first conflict is taken for an answer.
SettleWriteOnce ==
    /\ At(Worker, "st_cas")
    /\ \/ Transition(Worker, seen[Worker], plan, OutcomeEvent(plan)) /\ Step(Worker, "settled")
       \/ Conflict(Worker, seen[Worker]) /\ Step(Worker, "settled")
    /\ UNCHANGED <<executions, queue, sender, maps, flags, ids, env>>

SettleWrite ==
    /\ At(Worker, "st_cas")
    /\ \/ Transition(Worker, seen[Worker], plan, OutcomeEvent(plan)) /\ Step(Worker, "settled")
       \/ Conflict(Worker, seen[Worker]) /\ Retry(Worker, "st_read", "dying")
    /\ UNCHANGED <<executions, queue, sender, maps, flags, ids, env>>

\* After settle_attempt a v4 turn is finalised with the terminal status read back.
WorkerSettled ==
    /\ At(Worker, "settled")
    /\ Read(Worker, IF Status(Worker) \in Terminal THEN FinalizeIfTurn ELSE "finish")
    /\ UNCHANGED <<store, queue, sender, maps, flags, ids, env>>

\* finish_cancelled; its caller goes on as if the run had become cancelled.
Finished ==
    /\ seen' = [seen EXCEPT ![Worker] = "cancelled"]
    /\ Goto(Worker, plan)
    /\ UNCHANGED <<run, tries, holders, signalled, plan>>

FinishCancelledRead ==
    /\ At(Worker, "fc_read")
    /\ IF Status(Worker) \in Terminal THEN Finished ELSE Read(Worker, "fc_cas")
    /\ UNCHANGED <<store, queue, sender, maps, flags, ids, env>>

FinishCancelledWrite ==
    /\ At(Worker, "fc_cas")
    /\ \/ Transition(Worker, seen[Worker], "cancelled", "run_cancelled") /\ Finished
       \/ Conflict(Worker, seen[Worker]) /\ Retry(Worker, "fc_read", "dying")
    /\ UNCHANGED <<executions, queue, sender, maps, flags, ids, env>>

\* v4_finalize_turn refuses a state that is not the durable status of the run, and
\* the refusal ends the worker.
WorkerFinalize ==
    /\ At(Worker, "finalize")
    /\ Step(Worker, IF Status(Worker) = seen[Worker] THEN "finish" ELSE "dying")
    /\ UNCHANGED <<store, queue, sender, maps, flags, ids, env>>

\* A store call of the worker fails and ends the loop.
StorePC == {"cq_cas", "start", "conflict", "reread", "running", "st_read", "st_cas",
            "fc_read", "fc_cas", "settled", "finalize"}

WorkerStoreFault ==
    /\ pc[Worker] \in StorePC
    /\ StoreMayFail
    /\ faults' = faults + 1
    /\ Step(Worker, "dying")
    /\ UNCHANGED <<store, queue, sender, maps, flags, ids, restarts, callFaults, abandoned>>

WorkerDying ==
    /\ At(Worker, "dying")
    /\ shuttingDown' = TRUE
    /\ workerFailed' = TRUE
    /\ Step(Worker, "ia_snapshot")
    /\ UNCHANGED <<store, queue, sender, maps, ids, env>>

\* worker_entry returns and drops the receiver with whatever it still holds.
WorkerLeave ==
    /\ At(Worker, "leaving")
    /\ queue' = <<>>
    /\ Goto(Worker, "exited")
    /\ EndCall(Worker)
    /\ UNCHANGED <<store, sender, maps, flags, ids, env>>

-----------------------------------------------------------------------------
(* interrupt_admitted, run by a failing worker and by shutdown.            *)

AfterInterrupt(t, ok) ==
    IF t = Worker THEN "leaving" ELSE IF ok /\ ~workerFailed THEN "stopped" ELSE "stop_failed"

InterruptSnapshot(t) ==
    /\ At(t, "ia_snapshot")
    /\ ids' = [ids EXCEPT ![t] = admitted]
    /\ Step(t, "ia_read")
    /\ UNCHANGED <<store, queue, sender, maps, flags, env>>

\* get_run of the next id; a terminal run is skipped.
InterruptRead(t) ==
    /\ At(t, "ia_read")
    /\ \E r \in ids[t] :
          /\ run' = [run EXCEPT ![t] = r]
          /\ seen' = [seen EXCEPT ![t] = status[r]]
          /\ ids' = [ids EXCEPT ![t] = @ \ {r}]
          /\ Goto(t, IF status[r] \in Terminal THEN "ia_read" ELSE "ia_cas")
    /\ UNCHANGED <<store, queue, sender, maps, flags, tries, holders, signalled, plan, env>>

\* A conflict is not retried: the error leaves admitted and active as they are.
InterruptWrite(t) ==
    /\ At(t, "ia_cas")
    /\ \/ /\ Transition(t, seen[t], IF seen[t] = "queued" THEN "cancelled" ELSE "interrupted",
                        "run_manager_stopped")
          /\ Step(t, "ia_read")
       \/ Conflict(t, seen[t]) /\ Step(t, AfterInterrupt(t, FALSE))
    /\ UNCHANGED <<executions, queue, sender, maps, flags, ids, env>>

\* A store call of interrupt_admitted fails.
InterruptStoreFault(t) ==
    /\ CallFault
    /\ \/ At(t, "ia_read") /\ ids[t] # {}
       \/ At(t, "ia_cas")
    /\ Step(t, AfterInterrupt(t, FALSE))
    /\ UNCHANGED <<store, queue, sender, maps, flags, ids, restarts, faults, abandoned>>

InterruptClear(t) ==
    /\ At(t, "ia_read")
    /\ ids[t] = {}
    /\ admitted' = {}
    /\ active' = {}
    /\ Step(t, "ia_notify")
    /\ UNCHANGED <<store, queue, sender, flags, ids, env>>

InterruptNotify(t) ==
    /\ At(t, "ia_notify")
    /\ pc' = [Woken EXCEPT ![t] = AfterInterrupt(t, TRUE)]
    /\ UNCHANGED <<store, queue, sender, maps, flags, frame, ids, env>>

-----------------------------------------------------------------------------
(* RunManager::shutdown.                                                   *)

\* swap(true): when the worker has failed already the flag is set and the tokens
\* and the sender are left alone.
ShutdownFlag ==
    /\ MayStop
    /\ At(Stopper, "serving")
    /\ shuttingDown' = TRUE
    /\ Step(Stopper, IF shuttingDown THEN "sh_join" ELSE "sh_tokens")
    /\ UNCHANGED <<store, queue, sender, maps, workerFailed, ids, env>>

ShutdownTokens ==
    /\ At(Stopper, "sh_tokens")
    /\ signalled' = signalled \cup active
    /\ Goto(Stopper, "sh_sender")
    /\ UNCHANGED <<store, queue, sender, maps, flags, run, seen, tries, holders, plan, ids, env>>

\* Faulty variant: the sender stays in place.
ShutdownSenderKept ==
    /\ At(Stopper, "sh_sender")
    /\ Step(Stopper, "sh_join")
    /\ UNCHANGED <<store, queue, sender, maps, flags, ids, env>>

ShutdownSender ==
    /\ At(Stopper, "sh_sender")
    /\ sender' = FALSE
    /\ Step(Stopper, "sh_join")
    /\ UNCHANGED <<store, queue, maps, flags, ids, env>>

\* Faulty variant: shutdown does not wait for the worker.
ShutdownDetached ==
    /\ At(Stopper, "sh_join")
    /\ Step(Stopper, "ia_snapshot")
    /\ UNCHANGED <<store, queue, sender, maps, flags, ids, env>>

ShutdownJoin ==
    /\ At(Stopper, "sh_join")
    /\ At(Worker, "exited")
    /\ Step(Stopper, "ia_snapshot")
    /\ UNCHANGED <<store, queue, sender, maps, flags, ids, env>>

-----------------------------------------------------------------------------
(* The process ends, cleanly or not, and starts again over its database:   *)
(* finish_open with recovery, then RunManager::start.                      *)

\* RunManager::start: a new channel, empty maps, cleared flags, a new worker.
Start ==
    /\ queue' = <<>> /\ sender' = TRUE /\ holders' = {}
    /\ admitted' = {} /\ active' = {} /\ signalled' = {}
    /\ shuttingDown' = FALSE /\ workerFailed' = FALSE
    /\ pc' = [t \in Threads |-> StartPC(t)]
    /\ run' = [t \in Threads |-> NoRun]
    /\ seen' = [t \in Threads |-> Absent]
    /\ tries' = [t \in Threads |-> 0]
    /\ ids' = [t \in Threads |-> {}]
    /\ plan' = "none"

\* Faulty variant: runs that were in flight are queued again.
RecoverRequeued ==
    /\ status' = [r \in Runs |-> IF status[r] \in InFlight THEN "queued" ELSE status[r]]
    /\ ledger' = [r \in Runs |-> IF status[r] \in InFlight
                                 THEN Append(ledger[r], "run_queued") ELSE ledger[r]]
    /\ UNCHANGED executions

\* recover_interrupted_on.
RecoverInterrupted ==
    /\ status' = [r \in Runs |-> IF status[r] \in InFlight THEN "interrupted" ELSE status[r]]
    /\ ledger' = [r \in Runs |-> IF status[r] \in InFlight
                                 THEN Append(ledger[r], "run_recovered_interrupted")
                                 ELSE ledger[r]]
    /\ UNCHANGED executions

Restart ==
    /\ restarts < MaxRestarts
    /\ restarts' = restarts + 1
    /\ RecoverInterrupted
    /\ Start
    /\ abandoned' = {}
    /\ UNCHANGED <<faults, callFaults>>

-----------------------------------------------------------------------------
Init ==
    /\ status = [r \in Runs |-> Absent]
    /\ ledger = [r \in Runs |-> <<>>]
    /\ executions = [r \in Runs |-> 0]
    /\ queue = <<>> /\ sender = TRUE /\ holders = {}
    /\ admitted = {} /\ active = {} /\ signalled = {}
    /\ shuttingDown = FALSE /\ workerFailed = FALSE
    /\ pc = [t \in Threads |-> StartPC(t)]
    /\ run = [t \in Threads |-> NoRun]
    /\ seen = [t \in Threads |-> Absent]
    /\ tries = [t \in Threads |-> 0]
    /\ ids = [t \in Threads |-> {}]
    /\ plan = "none"
    /\ restarts = 0 /\ faults = 0 /\ callFaults = 0 /\ abandoned = {}

SubmitStep(t) ==
    \/ SubmitCreate(t) \/ SubmitExisting(t) \/ SubmitAdmit(t) \/ SubmitSender(t)
    \/ SubmitSend(t) \/ SubmitRefused(t)
    \/ RejectRead(t) \/ RejectWrite(t) \/ FinishAdmission(t) \/ NotifyProgress(t)

CancelStep(t) == CancelRead(t) \/ CancelToken(t) \/ CancelWrite(t) \/ NotifyProgress(t)

InterruptStep(t) ==
    \/ InterruptSnapshot(t) \/ InterruptRead(t) \/ InterruptWrite(t)
    \/ InterruptClear(t) \/ InterruptNotify(t)

WorkerStep ==
    \/ WorkerReceive \/ WorkerDisconnected \/ WorkerReceived \/ WorkerCancelQueued
    \/ WorkerStart \/ WorkerStartConflict \/ WorkerRegister \/ WorkerCheckStop
    \/ WorkerReread \/ WorkerRun \/ WorkerRunConflict \/ WorkerExecuted
    \/ SettleRead \/ SettleDecide \/ SettleWrite \/ WorkerSettled
    \/ FinishCancelledRead \/ FinishCancelledWrite \/ WorkerFinalize
    \/ WorkerDying \/ WorkerLeave
    \/ FinishAdmission(Worker) \/ NotifyProgress(Worker) \/ InterruptStep(Worker)

ShutdownStep ==
    ShutdownTokens \/ ShutdownSender \/ ShutdownJoin \/ InterruptStep(Stopper)

Next ==
    \/ \E t \in Submitters : SubmitBegin(t) \/ SubmitStep(t) \/ RejectStoreFault(t)
    \/ \E t \in Cancellers : CancelBegin(t) \/ CancelStep(t)
    \/ \E t \in Waiters : WaitBegin(t) \/ WaitRead(t) \/ WaitTimeout(t)
    \/ \E t \in Clients : ClientStoreFault(t)
    \/ \E t \in {Worker, Stopper} : InterruptStoreFault(t)
    \/ WorkerStep \/ WorkerStoreFault
    \/ ShutdownFlag \/ ShutdownStep
    \/ Restart

Spec == Init /\ [][Next]_vars

\* Threads that are inside a call are scheduled and executors return (a child runs under
\* a deadline, and Supervisor says when that is enough); nobody is obliged to call the
\* manager.
Fairness ==
    /\ WF_vars(WorkerStep)
    /\ WF_vars(ShutdownStep)
    /\ \A t \in Submitters : WF_vars(SubmitStep(t))
    /\ \A t \in Cancellers : WF_vars(CancelStep(t))
    /\ \A t \in Waiters : WF_vars(WaitRead(t))

FairSpec == Spec /\ Fairness

-----------------------------------------------------------------------------
(* Properties.                                                             *)

StoreType ==
    /\ status \in [Runs -> RunState \cup {Absent}]
    /\ ledger \in [Runs -> Seq(EventKind)]
    /\ executions \in [Runs -> Nat]

SharedType ==
    /\ queue \in Seq(Runs) /\ Len(queue) <= QueueCapacity
    /\ admitted \subseteq Runs /\ active \subseteq Runs /\ signalled \subseteq Runs
    /\ shuttingDown \in BOOLEAN /\ workerFailed \in BOOLEAN /\ sender \in BOOLEAN
    /\ holders \subseteq Submitters

CallType ==
    /\ run \in [Threads -> Runs \cup {NoRun}]
    /\ seen \in [Threads -> RunState \cup {Absent}]
    /\ tries \in [Threads -> Nat]
    /\ ids \in [Threads -> SUBSET Runs]

\* The labels of each kind of thread, and the plans that go with them.
ControlType ==
    /\ pc \in [Threads -> PC]
    /\ \A t \in Submitters : pc[t] \in SubmitterPC
    /\ \A t \in Cancellers : pc[t] \in CancellerPC
    /\ \A t \in Waiters : pc[t] \in WaiterPC
    /\ pc[Worker] \in WorkerPC
    /\ pc[Stopper] \in StopperPC
    /\ plan \in {"none", "finish", "finalize", "succeeded", "failed", "cancelled"}
    /\ pc[Worker] \in {"fc_read", "fc_cas"} => plan \in {"finish", "finalize"}
    /\ pc[Worker] \in {"st_read", "st_decide", "st_cas"} =>
           plan \in {"succeeded", "failed", "cancelled"}

\* Types of the variables of the store, of the manager and of its threads.
TypeOK ==
    /\ StoreType /\ SharedType /\ CallType /\ ControlType
    /\ restarts \in 0 .. MaxRestarts /\ faults \in Nat /\ callFaults \in Nat
    /\ abandoned \subseteq Runs

\* Resubmission, stale duplicate submits, restarts and races never start the
\* executor of one durable run twice: "executes an idempotent request at most once".
AtMostOnce == \A r \in Runs : executions[r] <= 1

\* run_events_page and run_snapshot never meet a ledger they must refuse as corrupt:
\* the latest event agrees with the status and a manager stop is always the last.
LedgerProjectable ==
    \A r \in Runs : IF status[r] = Absent THEN ledger[r] = <<>>
                    ELSE Projectable(status[r], ledger[r])

\* Only a failure of one of its own store calls ends the worker: no interleaving makes it meet a start
\* conflict it cannot settle, a loop that does not converge or a turn it cannot
\* finalise.
WorkerSurvives == workerFailed \/ At(Worker, "dying") => faults > 0

\* "returns from a successful shutdown only after admitted work has a terminal
\* state": no run is in flight, the worker is gone with an empty queue, and what
\* is still admitted belongs to a submit call that is being refused, or to one whose
\* refusal a store error cut short.
ShutdownComplete ==
    At(Stopper, "stopped") =>
        /\ At(Worker, "exited") /\ queue = <<>>
        /\ \A r \in Runs : status[r] \notin InFlight
        /\ \A r \in admitted :
              \/ status[r] \in Terminal
              \/ \E t \in Submitters : /\ run[t] = r
                                       /\ pc[t] \in {"s_sender", "rj_read", "rj_cas"}
              \/ r \in abandoned

\* Work that was admitted and is still queued is on its way: in the channel, with the
\* worker or with the submitter that admitted it. Two store failures break the chain: one
\* that ends the worker, and one that ends reject_admission, which strands its run
\* although the worker lives.
NothingStranded ==
    \A r \in Runs : r \in admitted /\ status[r] = "queued" =>
        \/ \E i \in 1 .. Len(queue) : queue[i] = r
        \/ run[Worker] = r /\ pc[Worker] \in {"received", "cq_cas", "start"}
        \/ \E t \in Submitters : run[t] = r /\ pc[t] \in {"s_sender", "s_send", "rj_read", "rj_cas"}
        \/ workerFailed \/ At(Worker, "dying")
        \/ r \in abandoned

\* A cancellation the manager has acknowledged is never overtaken by success, though
\* the lifecycle graph has that edge: the settling worker reads the token and the
\* status it compares against.
CancellationWins ==
    [][\A r \in Runs : status[r] = "cancel_requested" => status'[r] # "succeeded"]_vars

Lifecycle ==
    INSTANCE RunLifecycle WITH status <- status, ledger <- ledger, executions <- executions

\* The manager implements the promise of RunLifecycle.
ImplementsLifecycle == Lifecycle!Spec

\* Every admitted run reaches a terminal state, whatever the clients do.
AdmittedSettles == \A r \in Runs : r \in admitted ~> status[r] \in Terminal

\* A waiter on a terminal run returns without the help of its deadline.
WaitersReturn ==
    \A w \in Waiters : (pc[w] \in {"w_read", "asleep"} /\ run[w] # NoRun /\ Status(w) \in Terminal)
                          ~> At(w, "idle")

\* shutdown returns: it never waits for a worker that waits for it.
ShutdownReturns == At(Stopper, "sh_join") ~> pc[Stopper] \in {"stopped", "stop_failed"}
=============================================================================
