-------------------------- MODULE RunManagerProofs --------------------------
(***************************************************************************)
(* RunManager implements RunLifecycle, for any sets of runs and threads    *)
(* and any number of restarts and store failures, and inherits what        *)
(* RunLifecycleProofs proves of it. The second half is about the threads:  *)
(* the worker never meets what it cannot settle, no admitted run is left   *)
(* behind, shutdown is complete, and a cancellation is not overtaken.      *)
(***************************************************************************)
EXTENDS RunManager, TLAPS

Promise == INSTANCE RunLifecycleProofs

\* The steps of each kind of thread, with the ends that a failing store call gives them.
SubmitMove(t)    == SubmitBegin(t) \/ SubmitStep(t) \/ RejectStoreFault(t) \/ ClientStoreFault(t)
CancelMove(t)    == CancelBegin(t) \/ CancelStep(t) \/ ClientStoreFault(t)
WaitMove(t)      == WaitBegin(t) \/ WaitRead(t) \/ WaitTimeout(t) \/ ClientStoreFault(t)
InterruptMove(t) == InterruptStep(t) \/ InterruptStoreFault(t)
WorkerMove       == WorkerStep \/ WorkerStoreFault \/ InterruptStoreFault(Worker)
StopperMove      == ShutdownFlag \/ ShutdownStep \/ InterruptStoreFault(Stopper)

LEMMA NextMoves ==
    ASSUME Next
    PROVE  \/ \E t \in Submitters : SubmitMove(t)
           \/ \E t \in Cancellers : CancelMove(t)
           \/ \E t \in Waiters : WaitMove(t)
           \/ WorkerMove \/ StopperMove \/ Restart
BY DEF Next, Clients, SubmitMove, CancelMove, WaitMove, WorkerMove, StopperMove

-----------------------------------------------------------------------------
(* Every step of the manager is a step of the lifecycle, or none.          *)

\* A successful transition_run other than the one that begins an execution.
LEMMA TransitionSettles ==
    ASSUME StoreType, NEW t, NEW expected, NEW to \in RunState \ {"running"},
           NEW kind \in EventKind, ProjectsLatest(kind, to),
           Transition(t, expected, to, kind), UNCHANGED executions
    PROVE  [Promise!Next]_(Promise!lifecycle)
<1>1. CASE run[t] \in Runs
  <2>1. Promise!Advance(run[t], to, kind)
    BY <1>1 DEF Transition, Write, Status, Promise!Advance, ValidTransition,
       Promise!ValidTransition, ProjectsLatest, ProjectedStates, Promise!ProjectsLatest,
       Promise!ProjectedStates, Terminal, Promise!Terminal
  <2>2. Promise!Settle(run[t])
    <3>1. to \in Promise!RunState \ {"running"} /\ kind \in Promise!EventKind
      BY DEF RunState, EventKind, Promise!RunState, Promise!EventKind,
         InFlight, Terminal, Promise!InFlight, Promise!Terminal
    <3>2. Promise!ValidTransition(status[run[t]], to)
      BY <2>1 DEF Promise!Advance
    <3> QED  BY <2>1, <3>1, <3>2 DEF Promise!Settle
  <2> QED  BY <1>1, <2>2 DEF Promise!Next
<1>2. CASE run[t] \notin Runs
  <2>1. status' = status /\ ledger' = ledger
    BY <1>2 DEF Transition, Write, StoreType
  <2> QED  BY <2>1 DEF Promise!lifecycle
<1> QED  BY <1>1, <1>2

\* transition_run reports a conflict, or the step does not touch the store.
LEMMA NothingWritten ==
    ASSUME UNCHANGED <<status, ledger>>, UNCHANGED executions
    PROVE  [Promise!Next]_(Promise!lifecycle)
BY DEF Promise!lifecycle

LEMMA SubmitStore ==
    ASSUME StoreType, NEW t \in Submitters, SubmitMove(t)
    PROVE  [Promise!Next]_(Promise!lifecycle)
<1>1. CASE SubmitCreate(t)
  <2>1. CASE run[t] \in Runs
    <3>1. Promise!Admit(run[t])
      BY <1>1, <2>1 DEF SubmitCreate, Status, Write, Promise!Admit, Absent, Promise!Absent
    <3> QED  BY <2>1, <3>1 DEF Promise!Next
  <2>2. CASE run[t] \notin Runs
    BY <1>1, <2>2, NothingWritten DEF SubmitCreate, Write, StoreType
  <2> QED  BY <2>1, <2>2
<1>2. CASE RejectWrite(t) \/ RejectStoreFault(t)
  <2>1. CASE Transition(t, "queued", "failed", "run_failed")
    <3>1. "failed" \in RunState \ {"running"} /\ "run_failed" \in EventKind
          /\ ProjectsLatest("run_failed", "failed")
      BY DEF RunState, Terminal, EventKind, ProjectsLatest, ProjectedStates
    <3> QED  BY <1>2, <2>1, <3>1, TransitionSettles DEF RejectWrite, RejectStoreFault
  <2>2. CASE UNCHANGED <<status, ledger>>
    BY <1>2, <2>2, NothingWritten DEF RejectWrite, RejectStoreFault
  <2> QED  BY <1>2, <2>1, <2>2 DEF RejectWrite, RejectStoreFault, Conflict
<1>3. CASE \/ SubmitBegin(t) \/ SubmitExisting(t) \/ SubmitAdmit(t) \/ SubmitSender(t)
           \/ SubmitSend(t) \/ SubmitRefused(t) \/ RejectRead(t) \/ FinishAdmission(t)
           \/ NotifyProgress(t) \/ ClientStoreFault(t)
  BY <1>3, NothingWritten DEF SubmitBegin, SubmitExisting, SubmitAdmit, SubmitSender,
     SubmitSend, SubmitRefused, RejectRead, FinishAdmission, NotifyProgress, ClientStoreFault, store
<1> QED  BY <1>1, <1>2, <1>3 DEF SubmitMove, SubmitStep

LEMMA CancelStore ==
    ASSUME StoreType, NEW t \in Cancellers, CancelMove(t)
    PROVE  [Promise!Next]_(Promise!lifecycle)
<1>1. CASE CancelWrite(t)
  <2>1. /\ "cancelled" \in RunState \ {"running"} /\ "run_cancelled" \in EventKind
        /\ ProjectsLatest("run_cancelled", "cancelled")
        /\ "cancel_requested" \in RunState \ {"running"} /\ "run_cancel_requested" \in EventKind
        /\ ProjectsLatest("run_cancel_requested", "cancel_requested")
    BY DEF RunState, InFlight, Terminal, EventKind, ProjectsLatest, ProjectedStates
  <2>2. CASE Transition(t, seen[t], "cancelled", "run_cancelled")
    BY <1>1, <2>1, <2>2, TransitionSettles DEF CancelWrite
  <2>3. CASE Transition(t, seen[t], "cancel_requested", "run_cancel_requested")
    BY <1>1, <2>1, <2>3, TransitionSettles DEF CancelWrite
  <2>4. CASE Conflict(t, seen[t])
    BY <1>1, <2>4, NothingWritten DEF CancelWrite, Conflict
  <2> QED  BY <1>1, <2>2, <2>3, <2>4 DEF CancelWrite
<1>2. CASE CancelBegin(t) \/ CancelRead(t) \/ CancelToken(t) \/ NotifyProgress(t) \/ ClientStoreFault(t)
  BY <1>2, NothingWritten DEF CancelBegin, CancelRead, CancelToken, NotifyProgress, ClientStoreFault, store
<1> QED  BY <1>1, <1>2 DEF CancelMove, CancelStep

\* interrupt_admitted, by the worker or by the shutdown caller.
LEMMA InterruptStore ==
    ASSUME StoreType, NEW t, InterruptMove(t)
    PROVE  [Promise!Next]_(Promise!lifecycle)
<1>1. CASE InterruptWrite(t)
  <2> DEFINE to == IF seen[t] = "queued" THEN "cancelled" ELSE "interrupted"
  <2>1. /\ to \in RunState \ {"running"} /\ "run_manager_stopped" \in EventKind
        /\ ProjectsLatest("run_manager_stopped", to)
    BY DEF RunState, Terminal, EventKind, ProjectsLatest, ProjectedStates
  <2>2. CASE Transition(t, seen[t], to, "run_manager_stopped")
    <3> HIDE DEF to
    <3> QED  BY <1>1, <2>1, <2>2, TransitionSettles DEF InterruptWrite
  <2>3. CASE Conflict(t, seen[t])
    BY <1>1, <2>3, NothingWritten DEF InterruptWrite, Conflict
  <2> QED  BY <1>1, <2>2, <2>3 DEF InterruptWrite
<1>2. CASE \/ InterruptSnapshot(t) \/ InterruptRead(t) \/ InterruptClear(t) \/ InterruptNotify(t)
           \/ InterruptStoreFault(t)
  BY <1>2, NothingWritten DEF InterruptSnapshot, InterruptRead, InterruptClear,
     InterruptNotify, InterruptStoreFault, store
<1> QED  BY <1>1, <1>2 DEF InterruptMove, InterruptStep

LEMMA WorkerStore ==
    ASSUME StoreType, ControlType, WorkerMove
    PROVE  [Promise!Next]_(Promise!lifecycle)
<1>0. /\ "cancelled" \in RunState \ {"running"} /\ "run_cancelled" \in EventKind
      /\ ProjectsLatest("run_cancelled", "cancelled")
      /\ "starting" \in RunState \ {"running"} /\ "run_starting" \in EventKind
      /\ ProjectsLatest("run_starting", "starting")
  BY DEF RunState, InFlight, Terminal, EventKind, ProjectsLatest, ProjectedStates
<1>1. CASE WorkerCancelQueued
  <2>1. CASE Transition(Worker, "queued", "cancelled", "run_cancelled")
    BY <1>0, <1>1, <2>1, TransitionSettles DEF WorkerCancelQueued
  <2>2. CASE Conflict(Worker, "queued")
    BY <1>1, <2>2, NothingWritten DEF WorkerCancelQueued, Conflict
  <2> QED  BY <1>1, <2>1, <2>2 DEF WorkerCancelQueued
<1>2. CASE WorkerStart
  <2>1. CASE Transition(Worker, "queued", "starting", "run_starting")
    BY <1>0, <1>2, <2>1, TransitionSettles DEF WorkerStart
  <2>2. CASE Conflict(Worker, "queued")
    BY <1>2, <2>2, NothingWritten DEF WorkerStart, Conflict
  <2> QED  BY <1>2, <2>1, <2>2 DEF WorkerStart
<1>3. CASE WorkerRun
  <2>1. CASE run[Worker] \in Runs
    <3>1. Promise!Advance(run[Worker], "running", "run_started")
      BY <1>3, <2>1 DEF WorkerRun, Transition, Write, Status, Promise!Advance,
         Promise!ValidTransition, Promise!ProjectsLatest, Promise!ProjectedStates
    <3>2. Promise!Begin(run[Worker])
      BY <1>3, <3>1 DEF WorkerRun, Promise!Begin
    <3> QED  BY <2>1, <3>2 DEF Promise!Next
  <2>2. CASE run[Worker] \notin Runs
    BY <1>3, <2>2, NothingWritten DEF WorkerRun, Transition, Write, StoreType
  <2> QED  BY <2>1, <2>2
<1>4. CASE WorkerRunConflict
  BY <1>4, NothingWritten DEF WorkerRunConflict, Conflict
<1>5. CASE SettleWrite
  <2>1. /\ plan \in RunState \ {"running"} /\ OutcomeEvent(plan) \in EventKind
        /\ ProjectsLatest(OutcomeEvent(plan), plan)
    <3>1. plan \in {"succeeded", "failed", "cancelled"}
      BY <1>5 DEF SettleWrite, At, ControlType
    <3> QED  BY <3>1 DEF RunState, Terminal, EventKind, ProjectsLatest, ProjectedStates,
                OutcomeEvent
  <2>2. CASE Transition(Worker, seen[Worker], plan, OutcomeEvent(plan))
    BY <1>5, <2>1, <2>2, TransitionSettles DEF SettleWrite
  <2>3. CASE Conflict(Worker, seen[Worker])
    BY <1>5, <2>3, NothingWritten DEF SettleWrite, Conflict
  <2> QED  BY <1>5, <2>2, <2>3 DEF SettleWrite
<1>6. CASE FinishCancelledWrite
  <2>1. CASE Transition(Worker, seen[Worker], "cancelled", "run_cancelled")
    BY <1>0, <1>6, <2>1, TransitionSettles DEF FinishCancelledWrite
  <2>2. CASE Conflict(Worker, seen[Worker])
    BY <1>6, <2>2, NothingWritten DEF FinishCancelledWrite, Conflict
  <2> QED  BY <1>6, <2>1, <2>2 DEF FinishCancelledWrite
<1>7. CASE InterruptMove(Worker)
  BY <1>7, InterruptStore
<1>8. CASE \/ WorkerReceive \/ WorkerDisconnected \/ WorkerReceived \/ WorkerStartConflict
           \/ WorkerRegister \/ WorkerCheckStop \/ WorkerReread \/ WorkerExecuted
           \/ SettleRead \/ SettleDecide \/ WorkerSettled \/ FinishCancelledRead
           \/ WorkerFinalize \/ WorkerDying \/ WorkerLeave \/ WorkerStoreFault
           \/ FinishAdmission(Worker) \/ NotifyProgress(Worker)
  BY <1>8, NothingWritten DEF WorkerReceive, WorkerDisconnected, WorkerReceived,
     WorkerStartConflict, WorkerRegister, WorkerCheckStop, WorkerReread, WorkerExecuted,
     SettleRead, SettleDecide, WorkerSettled, FinishCancelledRead, WorkerFinalize,
     WorkerDying, WorkerLeave, WorkerStoreFault, FinishAdmission, NotifyProgress, store
<1> QED  BY <1>1, <1>2, <1>3, <1>4, <1>5, <1>6, <1>7, <1>8 DEF WorkerMove, WorkerStep, InterruptMove

LEMMA StoreStep ==
    ASSUME StoreType, ControlType, [Next]_vars
    PROVE  [Promise!Next]_(Promise!lifecycle)
<1>1. ASSUME NEW t \in Waiters, WaitMove(t)
      PROVE  [Promise!Next]_(Promise!lifecycle)
  BY <1>1, NothingWritten DEF WaitMove, WaitBegin, WaitRead, WaitTimeout, ClientStoreFault, store
<1>2. CASE StopperMove
  BY <1>2, NothingWritten, InterruptStore DEF StopperMove, InterruptMove, ShutdownFlag, ShutdownStep,
     ShutdownTokens, ShutdownSender, ShutdownJoin, store
<1>3. CASE Restart
  <2>1. Promise!Recover
    BY <1>3 DEF Restart, RecoverInterrupted, Promise!Recover, InFlight, Promise!InFlight
  <2> QED  BY <2>1 DEF Promise!Next
<1>4. CASE UNCHANGED vars
  BY <1>4, NothingWritten DEF vars, store
<1> QED  BY SubmitStore, CancelStore, WorkerStore, NextMoves, <1>1, <1>2, <1>3, <1>4

-----------------------------------------------------------------------------
(* Where the threads can be.                                               *)

\* What a move does to the labels, whether it wakes the waiters or not.
LEMMA MoveEffect ==
    ASSUME ControlType, NEW t \in Threads, NEW label \in PC,
           pc' = [pc EXCEPT ![t] = label] \/ pc' = [Woken EXCEPT ![t] = label]
    PROVE  /\ pc' \in [Threads -> PC]
           /\ pc'[t] = label
           /\ \A u \in Threads \ {t} : \/ pc'[u] = pc[u]
                                       \/ u \in Waiters /\ pc'[u] = "w_read"
<1>1. Woken \in [Threads -> PC]
  BY DEF Woken, ControlType, PC, WaiterPC
<1>2. \A u \in Threads : Woken[u] = pc[u] \/ (u \in Waiters /\ Woken[u] = "w_read")
  BY DEF Woken
<1> HIDE DEF Woken
<1> QED  BY <1>1, <1>2 DEF ControlType

\* A move of one client thread leaves the labels of the others in place.
LEMMA ClientMoves ==
    ASSUME ControlType, NEW t \in Clients, NEW label \in PC, plan' = plan,
           pc' = [pc EXCEPT ![t] = label] \/ pc' = [Woken EXCEPT ![t] = label],
           t \in Submitters => label \in SubmitterPC,
           t \in Cancellers => label \in CancellerPC,
           t \in Waiters => label \in WaiterPC
    PROVE  ControlType'
<1>1. t \in Threads /\ t # Worker /\ t # Stopper /\ Worker \in Threads /\ Stopper \in Threads
  BY ThreadsAssumption DEF Threads
<1>2. /\ pc' \in [Threads -> PC]
      /\ pc'[t] = label
      /\ \A u \in Threads \ {t} : \/ pc'[u] = pc[u]
                                  \/ u \in Waiters /\ pc'[u] = "w_read"
  BY <1>1, MoveEffect
<1>3. pc'[Worker] = pc[Worker] /\ pc'[Stopper] = pc[Stopper]
  BY <1>1, <1>2, ThreadsAssumption DEF Clients
<1>4. /\ \A u \in Submitters : pc'[u] \in SubmitterPC
      /\ \A u \in Cancellers : pc'[u] \in CancellerPC
      /\ \A u \in Waiters : pc'[u] \in WaiterPC
  BY <1>2, ThreadsAssumption DEF ControlType, Clients, Threads, WaiterPC
<1> QED  BY <1>2, <1>3, <1>4 DEF ControlType

\* So does a move of the worker, to a label that goes with its plan.
LEMMA WorkerMoves ==
    ASSUME ControlType, NEW label \in WorkerPC,
           pc' = [pc EXCEPT ![Worker] = label] \/ pc' = [Woken EXCEPT ![Worker] = label],
           plan' \in {"none", "finish", "finalize", "succeeded", "failed", "cancelled"},
           label \in {"fc_read", "fc_cas"} => plan' \in {"finish", "finalize"},
           label \in {"st_read", "st_decide", "st_cas"} =>
               plan' \in {"succeeded", "failed", "cancelled"}
    PROVE  ControlType'
<1>1. Worker \in Threads /\ label \in PC
  BY DEF Threads, PC
<1>2. /\ pc' \in [Threads -> PC]
      /\ pc'[Worker] = label
      /\ \A u \in Threads \ {Worker} : \/ pc'[u] = pc[u]
                                       \/ u \in Waiters /\ pc'[u] = "w_read"
  BY <1>1, MoveEffect
<1>3. pc'[Stopper] = pc[Stopper]
  BY <1>2, ThreadsAssumption DEF Clients, Threads
<1>4. /\ \A u \in Submitters : pc'[u] \in SubmitterPC
      /\ \A u \in Cancellers : pc'[u] \in CancellerPC
      /\ \A u \in Waiters : pc'[u] \in WaiterPC
  BY <1>2, ThreadsAssumption DEF ControlType, Clients, Threads, WaiterPC
<1> QED  BY <1>2, <1>3, <1>4 DEF ControlType

LEMMA StopperMoves ==
    ASSUME ControlType, NEW label \in StopperPC, plan' = plan,
           pc' = [pc EXCEPT ![Stopper] = label] \/ pc' = [Woken EXCEPT ![Stopper] = label]
    PROVE  ControlType'
<1>1. Stopper \in Threads /\ label \in PC
  BY DEF Threads, PC
<1>2. /\ pc' \in [Threads -> PC]
      /\ pc'[Stopper] = label
      /\ \A u \in Threads \ {Stopper} : \/ pc'[u] = pc[u]
                                        \/ u \in Waiters /\ pc'[u] = "w_read"
  BY <1>1, MoveEffect
<1>3. pc'[Worker] = pc[Worker]
  BY <1>2, ThreadsAssumption DEF Clients, Threads
<1>4. /\ \A u \in Submitters : pc'[u] \in SubmitterPC
      /\ \A u \in Cancellers : pc'[u] \in CancellerPC
      /\ \A u \in Waiters : pc'[u] \in WaiterPC
  BY <1>2, ThreadsAssumption DEF ControlType, Clients, Threads, WaiterPC
<1> QED  BY <1>2, <1>3, <1>4 DEF ControlType

LEMMA SubmitControl ==
    ASSUME ControlType, NEW t \in Submitters, SubmitMove(t)
    PROVE  ControlType'
<1>1. t \in Clients /\ t # Worker /\ t # Stopper /\ t \notin Cancellers /\ t \notin Waiters
  BY ThreadsAssumption DEF Clients
<1>2. /\ plan' = plan
      /\ \E label \in SubmitterPC : \/ pc' = [pc EXCEPT ![t] = label]
                                    \/ pc' = [Woken EXCEPT ![t] = label]
  BY <1>1 DEF SubmitMove, RejectStoreFault, ClientStoreFault, SubmitStep, SubmitBegin, SubmitCreate, SubmitExisting, SubmitAdmit, SubmitSender,
     SubmitSend, SubmitRefused, RejectRead, RejectWrite, FinishAdmission, NotifyProgress,
     Goto, Step, Return, EndCall, Read, Retry, frame, StartPC, SubmitterPC
<1>3. SubmitterPC \subseteq PC
  BY DEF PC
<1> QED  BY <1>1, <1>2, <1>3, ClientMoves

LEMMA CancelControl ==
    ASSUME ControlType, NEW t \in Cancellers, CancelMove(t)
    PROVE  ControlType'
<1>1. t \in Clients /\ t # Worker /\ t # Stopper /\ t \notin Submitters /\ t \notin Waiters
  BY ThreadsAssumption DEF Clients
<1>2. /\ plan' = plan
      /\ \E label \in CancellerPC : \/ pc' = [pc EXCEPT ![t] = label]
                                    \/ pc' = [Woken EXCEPT ![t] = label]
  BY <1>1 DEF CancelMove, ClientStoreFault, CancelStep, CancelBegin, CancelRead, CancelToken, CancelWrite, NotifyProgress,
     Goto, Step, Return, EndCall, Read, Retry, frame, StartPC, CancellerPC
<1>3. CancellerPC \subseteq PC
  BY DEF PC
<1> QED  BY <1>1, <1>2, <1>3, ClientMoves

LEMMA WaitControl ==
    ASSUME ControlType, NEW t \in Waiters, WaitMove(t)
    PROVE  ControlType'
<1>1. t \in Clients /\ t # Worker /\ t # Stopper /\ t \notin Submitters /\ t \notin Cancellers
  BY ThreadsAssumption DEF Clients
<1>2. /\ plan' = plan
      /\ \E label \in WaiterPC : pc' = [pc EXCEPT ![t] = label]
  BY <1>1 DEF WaitMove, ClientStoreFault, WaitBegin, WaitRead, WaitTimeout, Goto, Step, Return, EndCall, frame, StartPC,
     WaiterPC
<1>3. WaiterPC \subseteq PC
  BY DEF PC
<1> QED  BY <1>1, <1>2, <1>3, ClientMoves

LEMMA WorkerControl ==
    ASSUME ControlType, WorkerMove
    PROVE  ControlType'
<1> USE DEF Goto, Step, Return, EndCall, Read, Retry, frame, StartPC, WorkerPC, InterruptPC
<1>1. CASE \/ WorkerReceive \/ WorkerDisconnected \/ WorkerReceived \/ WorkerCancelQueued
           \/ WorkerStart \/ WorkerStartConflict \/ WorkerRegister \/ WorkerCheckStop
  BY <1>1, WorkerMoves DEF ControlType, WorkerReceive, WorkerDisconnected, WorkerReceived,
     WorkerCancelQueued, WorkerStart, WorkerStartConflict, WorkerRegister, WorkerCheckStop,
     EnterFinishCancelled
<1>2. CASE WorkerReread \/ WorkerRun \/ WorkerRunConflict \/ WorkerExecuted
  BY <1>2, WorkerMoves DEF ControlType, WorkerReread, WorkerRun, WorkerRunConflict,
     WorkerExecuted, AbandonStart, EnterFinishCancelled, FinalizeIfTurn
<1>3. CASE SettleRead \/ SettleDecide \/ SettleWrite \/ WorkerSettled
  BY <1>3, WorkerMoves DEF ControlType, At, SettleRead, SettleDecide, SettleWrite,
     WorkerSettled, FinalizeIfTurn
<1>4. CASE FinishCancelledRead \/ FinishCancelledWrite \/ WorkerFinalize
  BY <1>4, WorkerMoves DEF ControlType, At, FinishCancelledRead, FinishCancelledWrite,
     WorkerFinalize, Finished
<1>5. CASE \/ WorkerDying \/ WorkerLeave \/ WorkerStoreFault
           \/ FinishAdmission(Worker) \/ NotifyProgress(Worker)
  BY <1>5, WorkerMoves DEF ControlType, WorkerDying, WorkerLeave, WorkerStoreFault,
     FinishAdmission, NotifyProgress
<1>6. CASE InterruptMove(Worker)
  BY <1>6, WorkerMoves DEF ControlType, InterruptMove, InterruptStoreFault, InterruptStep, InterruptSnapshot, InterruptRead,
     InterruptWrite, InterruptClear, InterruptNotify, AfterInterrupt
<1> QED  BY <1>1, <1>2, <1>3, <1>4, <1>5, <1>6 DEF WorkerMove, WorkerStep, InterruptMove

LEMMA StopperControl ==
    ASSUME ControlType, StopperMove
    PROVE  ControlType'
<1>1. Stopper # Worker
  BY ThreadsAssumption
<1>2. \E label \in StopperPC : /\ plan' = plan
                               /\ \/ pc' = [pc EXCEPT ![Stopper] = label]
                                  \/ pc' = [Woken EXCEPT ![Stopper] = label]
  BY <1>1 DEF StopperMove, InterruptStoreFault, ShutdownFlag, ShutdownStep, ShutdownTokens, ShutdownSender,
     ShutdownJoin, InterruptStep, InterruptSnapshot, InterruptRead, InterruptWrite, InterruptClear,
     InterruptNotify, AfterInterrupt, Goto, Step, frame, StopperPC, InterruptPC
<1> QED  BY <1>2, StopperMoves

LEMMA ControlStep ==
    ASSUME ControlType, [Next]_vars
    PROVE  ControlType'
<1>1. CASE Restart
  <2>1. pc' = [t \in Threads |-> StartPC(t)] /\ plan' = "none"
    BY <1>1 DEF Restart, Start
  <2> QED  BY <2>1, ThreadsAssumption DEF ControlType, StartPC, Threads, Clients, PC,
              SubmitterPC, CancellerPC, WaiterPC, WorkerPC, StopperPC
<1>2. CASE UNCHANGED vars
  BY <1>2 DEF vars, frame, ControlType
<1> QED  BY SubmitControl, CancelControl, WaitControl, WorkerControl, StopperControl, NextMoves,
            <1>1, <1>2

-----------------------------------------------------------------------------
(* The theorems.                                                           *)

SafeControl == StoreType /\ ControlType

LEMMA SafeControlInit == Init => SafeControl /\ Promise!Init
<1> SUFFICES ASSUME Init PROVE SafeControl /\ Promise!Init
  OBVIOUS
<1>1. StoreType /\ Promise!Init
  BY DEF Init, StoreType, Promise!Init, Absent, Promise!Absent
<1>2. ControlType
  BY ThreadsAssumption DEF Init, ControlType, StartPC, Threads, Clients, PC,
     SubmitterPC, CancellerPC, WaiterPC, WorkerPC, StopperPC
<1> QED  BY <1>1, <1>2 DEF SafeControl

LEMMA SafeControlStep ==
    SafeControl /\ [Next]_vars => SafeControl' /\ [Promise!Next]_(Promise!lifecycle)
<1> SUFFICES ASSUME SafeControl, [Next]_vars
             PROVE  SafeControl' /\ [Promise!Next]_(Promise!lifecycle)
  OBVIOUS
<1>1. [Promise!Next]_(Promise!lifecycle)
  BY StoreStep DEF SafeControl
<1>2. ControlType'
  BY ControlStep DEF SafeControl
<1>3. RunState = Promise!RunState /\ EventKind = Promise!EventKind /\ Absent = Promise!Absent
  BY DEF RunState, Promise!RunState, EventKind, Promise!EventKind, Absent, Promise!Absent,
     InFlight, Promise!InFlight, Terminal, Promise!Terminal
<1>4. StoreType <=> Promise!TypeOK
  BY <1>3 DEF StoreType, Promise!TypeOK
<1>5. StoreType' <=> Promise!TypeOK'
  BY <1>3 DEF StoreType, Promise!TypeOK
<1>6. StoreType'
  BY <1>1, <1>4, <1>5, Promise!TypeStep DEF SafeControl
<1> QED  BY <1>1, <1>2, <1>6 DEF SafeControl

\* Every behaviour of the manager maps to a behaviour of the lifecycle: its initial states
\* have no run recorded, and each of its steps is one lifecycle step or none.
THEOREM KeepsPromise == Spec => Promise!Spec
BY SafeControlInit, SafeControlStep, PTL DEF Spec, Promise!Spec

\* The queue, the worker, cancellation, shutdown, store failures and restarts together
\* implement the durable promise of RunLifecycle, for any number of runs and threads.
THEOREM Implements == Spec => ImplementsLifecycle
<1>1. Promise!Init => Lifecycle!Init
  BY DEF Promise!Init, Lifecycle!Init, Promise!Absent, Lifecycle!Absent
<1>2. [Promise!Next]_(Promise!lifecycle) => [Lifecycle!Next]_(Lifecycle!lifecycle)
  BY DEF Promise!Next, Lifecycle!Next, Promise!lifecycle, Lifecycle!lifecycle, 
    Promise!Admit, Lifecycle!Admit, Promise!Begin, Lifecycle!Begin, Promise!Settle, Lifecycle!Settle,
    Promise!Advance, Lifecycle!Advance, Promise!Recover, Lifecycle!Recover,
    Promise!ValidTransition, Lifecycle!ValidTransition, Promise!ProjectsLatest, Lifecycle!ProjectsLatest,
    Promise!ProjectedStates, Lifecycle!ProjectedStates, Promise!RunState, Lifecycle!RunState,
    Promise!EventKind, Lifecycle!EventKind, Promise!InFlight, Lifecycle!InFlight,
    Promise!Terminal, Lifecycle!Terminal, Promise!Absent, Lifecycle!Absent
<1> QED  BY KeepsPromise, <1>1, <1>2, PTL DEF Promise!Spec, ImplementsLifecycle, Lifecycle!Spec

\* No interleaving of submits, cancels, worker steps, shutdowns, store failures and
\* restarts starts the executor of one durable run twice.
THEOREM ExecutesAtMostOnce == Spec => []AtMostOnce
<1>1. Promise!StartsOnce => AtMostOnce
  BY DEF Promise!StartsOnce, AtMostOnce
<1> QED  BY KeepsPromise, Promise!LifecycleSafety, <1>1, PTL

\* No ledger the manager writes is refused as corrupt by the readers of it.
THEOREM LedgersStayProjectable == Spec => []LedgerProjectable
<1>1. Promise!LedgersProject => LedgerProjectable
  BY DEF Promise!LedgersProject, LedgerProjectable, Promise!Projectable, Projectable,
     Promise!ProjectsLatest, ProjectsLatest, Promise!ProjectsEarlier, ProjectsEarlier,
     Promise!ProjectedStates, ProjectedStates, Promise!Absent, Absent, Promise!Terminal, Terminal
<1> QED  BY KeepsPromise, Promise!LifecycleSafety, <1>1, PTL

-----------------------------------------------------------------------------
(* What a run in flight, a submit call and the worker owe each other. The  *)
(* worker is alone, so a run is in flight only between its start and its   *)
(* end in execute_item; a status only moves up, so its loops converge.     *)

\* The worker got a store failure, or took what it found for one.
Failing == workerFailed \/ pc[Worker] = "dying"

\* The labels of execute_item: before the run starts, while it is in flight, after its end.
BeforePC  == {"received", "cq_cas", "start"}
FlightPC  == {"register", "check_stop", "reread", "running", "execute", "st_read", "st_decide", "st_cas"}
AbandonPC == {"fc_read", "fc_cas"}
AfterPC   == {"conflict", "settled", "finalize", "finish"}

Frames ==
    /\ DOMAIN run = Threads /\ DOMAIN seen = Threads
    /\ tries \in [Threads -> Nat] /\ faults \in Nat

\* A submit call works on a recorded run, and has it settled before it lets go of it.
SubmitOK(t) ==
    /\ pc[t] # "idle" => run[t] \in Runs
    /\ pc[t] \notin {"idle", "s_create"} => status[run[t]] # Absent
    /\ pc[t] = "finish" => status[run[t]] \in Terminal
    /\ pc[t] = "s_send" => t \in holders

Submitting == \A t \in Submitters : SubmitOK(t)

Recorded ==
    /\ admitted \subseteq Runs /\ queue \in Seq(Runs)
    /\ \A r \in admitted : status[r] # Absent
    /\ \A i \in DOMAIN queue : status[queue[i]] # Absent

\* The run of the worker is as far as the worker is.
Working ==
    /\ pc[Worker] \in BeforePC \cup FlightPC \cup AbandonPC \cup AfterPC =>
           run[Worker] \in Runs /\ status[run[Worker]] # Absent
    /\ pc[Worker] \in FlightPC => status[run[Worker]] \in InFlight
    /\ pc[Worker] \in AbandonPC => /\ status[run[Worker]] # "queued"
                                   /\ plan = "finalize" => status[run[Worker]] \in InFlight
    /\ pc[Worker] \in AfterPC => status[run[Worker]] \in Terminal
    /\ pc[Worker] = "finalize" => seen[Worker] = status[run[Worker]]
    /\ pc[Worker] = "st_cas" /\ plan = "succeeded" => seen[Worker] # "cancel_requested"

\* Every conflict it met was a status that moved up.
Converging ==
    /\ pc[Worker] \in {"recv", "conflict"} \cup BeforePC \cup (FlightPC \ {"st_read", "st_decide", "st_cas"}) =>
           tries[Worker] = 0
    /\ pc[Worker] \in {"st_read", "fc_read"} => tries[Worker] < Rank(status[run[Worker]])
    /\ pc[Worker] \in {"st_decide", "st_cas", "fc_cas"} =>
           /\ seen[Worker] \in {"queued"} \cup InFlight
           /\ tries[Worker] < Rank(seen[Worker])
           /\ seen[Worker] = status[run[Worker]] \/ Rank(seen[Worker]) < Rank(status[run[Worker]])

InFlightOwned ==
    ~Failing => \A r \in Runs : status[r] \in InFlight =>
                    run[Worker] = r /\ pc[Worker] \in FlightPC \cup AbandonPC

\* How the worker and the shutdown caller come to their ends.
Ending ==
    /\ Failing => faults > 0
    /\ pc[Worker] \in InterruptPC \cup {"leaving"} => workerFailed
    /\ workerFailed => pc[Worker] \in InterruptPC \cup {"leaving", "exited"}
    /\ pc[Stopper] \in InterruptPC \cup {"stopped", "stop_failed"} => pc[Worker] = "exited"
    /\ pc[Stopper] = "stopped" => ~workerFailed
    /\ pc[Worker] = "exited" /\ ~workerFailed =>
           ~sender /\ queue = <<>> /\ \A t \in Submitters : pc[t] # "s_send"

Service == Submitting /\ Recorded /\ Working /\ Converging /\ InFlightOwned /\ Ending /\ NothingStranded

-----------------------------------------------------------------------------
(* Steps, told by thread.                                                  *)

\* Only thread t moves, apart from waiters that are woken.
Moves(t, label) == pc'[t] = label /\ \A u \in Threads \ Waiters : u # t => pc'[u] = pc[u]

\* Only the frame of t changes.
Frame(t) == \A u \in Threads : u # t => run'[u] = run[u] /\ seen'[u] = seen[u] /\ tries'[u] = tries[u]

\* What the statuses do while neither the worker nor interrupt_admitted writes them.
Outside ==
    \A r \in Runs : \/ status'[r] = status[r]
                    \/ status[r] = Absent /\ status'[r] = "queued"
                    \/ status[r] = "queued" /\ status'[r] \in {"failed", "cancelled"}
                    \/ status[r] \in {"starting", "running"} /\ status'[r] = "cancel_requested"

\* The worker, its plan and the flags stay as they are.
WorkerRests ==
    /\ pc'[Worker] = pc[Worker] /\ run'[Worker] = run[Worker]
    /\ seen'[Worker] = seen[Worker] /\ tries'[Worker] = tries[Worker]
    /\ UNCHANGED <<plan, workerFailed, faults>>

\* So do the submit calls.
SubmittersRest ==
    /\ \A t \in Submitters : /\ pc'[t] = pc[t] /\ run'[t] = run[t]
                             /\ t \in holders => t \in holders'
    /\ UNCHANGED <<queue, admitted, abandoned>>

\* Every thread is of one kind.
LEMMA Kinds ==
    /\ Worker \in Threads \ Waiters /\ Stopper \in Threads \ Waiters /\ Worker # Stopper
    /\ Submitters \subseteq Threads \ Waiters /\ Cancellers \subseteq Threads \ Waiters
    /\ Worker \notin Submitters /\ Stopper \notin Submitters
    /\ Worker \notin Cancellers /\ Stopper \notin Cancellers
    /\ Submitters \cap Cancellers = {} /\ Waiters \subseteq Threads
    /\ Worker \notin Waiters /\ Stopper \notin Waiters /\ Submitters \cap Waiters = {}
BY ThreadsAssumption DEF Threads, Clients

\* A move, whether it wakes the waiters or not.
LEMMA MovesByThread ==
    ASSUME ControlType, NEW t \in Threads, NEW label,
           pc' = [pc EXCEPT ![t] = label] \/ pc' = [Woken EXCEPT ![t] = label]
    PROVE  Moves(t, label)
<1>1. DOMAIN Woken = Threads /\ \A u \in Threads \ Waiters : Woken[u] = pc[u]
  BY DEF Woken
<1>2. DOMAIN pc = Threads
  BY DEF ControlType
<1> HIDE DEF Woken
<1> QED  BY <1>1, <1>2 DEF Moves

\* A write of one status.
LEMMA OneWritten ==
    ASSUME StoreType, NEW t, NEW from, NEW to, NEW kind, Transition(t, from, to, kind)
    PROVE  /\ ValidTransition(from, to) /\ status[run[t]] = from
           /\ \A r \in Runs : IF r = run[t] THEN status'[r] = to ELSE status'[r] = status[r]
BY DEF Transition, Write, Status, StoreType

\* What every step of thread t does to the labels and the frames.
Own(t) == Frames' /\ Frame(t) /\ \A u \in Threads \ Waiters : u # t => pc'[u] = pc[u]

\* The ways in which the code changes them.
Changes(t) ==
    /\ \E label : pc' = [pc EXCEPT ![t] = label] \/ pc' = [Woken EXCEPT ![t] = label]
    /\ run' = run \/ \E r : run' = [run EXCEPT ![t] = r]
    /\ seen' = seen \/ \E st : seen' = [seen EXCEPT ![t] = st]
    /\ tries' = tries \/ tries' = [tries EXCEPT ![t] = 0] \/ tries' = [tries EXCEPT ![t] = @ + 1]
    /\ faults' = faults \/ faults' = faults + 1

LEMMA ChangesOwn ==
    ASSUME ControlType, Frames, NEW t \in Threads, Changes(t)
    PROVE  Own(t)
<1>1. \A u \in Threads \ Waiters : u # t => pc'[u] = pc[u]
  BY MovesByThread DEF Changes, Moves
<1>2. Frames' /\ Frame(t)
  BY DEF Changes, Frames, Frame
<1> QED  BY <1>1, <1>2 DEF Own

LEMMA SubmitOwn ==
    ASSUME ControlType, Frames, NEW t \in Submitters, SubmitMove(t)
    PROVE  Own(t)
<1>1. Changes(t)
  BY DEF SubmitMove, SubmitStep, SubmitBegin, SubmitCreate, SubmitExisting, SubmitAdmit, SubmitSender, SubmitSend,
     SubmitRefused, RejectStoreFault, ClientStoreFault, RejectRead, RejectWrite, FinishAdmission, NotifyProgress, Goto, Step, Return, EndCall, Read, Retry, frame, env, Changes
<1> QED  BY <1>1, ChangesOwn, Kinds

LEMMA CancelOwn ==
    ASSUME ControlType, Frames, NEW t \in Cancellers, CancelMove(t)
    PROVE  Own(t)
<1>1. Changes(t)
  BY DEF CancelMove, ClientStoreFault, CancelStep, CancelBegin, CancelRead, CancelToken, CancelWrite, NotifyProgress, Goto, Step, Return, EndCall, Read,
     Retry, frame, env, Changes
<1> QED  BY <1>1, ChangesOwn, Kinds

LEMMA WaitOwn ==
    ASSUME ControlType, Frames, NEW t \in Waiters, WaitMove(t)
    PROVE  Own(t)
<1>1. Changes(t)
  BY DEF WaitMove, ClientStoreFault, WaitBegin, WaitRead, WaitTimeout, Goto, Step, Return, EndCall, frame, env, Changes
<1> QED  BY <1>1, ChangesOwn, Kinds

LEMMA InterruptOwn ==
    ASSUME ControlType, Frames, NEW t \in Threads, InterruptMove(t)
    PROVE  Own(t)
<1>1. Changes(t)
  BY DEF InterruptMove, InterruptStoreFault, InterruptStep, InterruptSnapshot, InterruptRead, InterruptWrite,
     InterruptClear, InterruptNotify, Goto, Step, frame, env, Changes
<1> QED  BY <1>1, ChangesOwn

LEMMA WorkerOwn ==
    ASSUME ControlType, Frames, WorkerMove
    PROVE  Own(Worker)
<1> USE DEF Goto, Step, Return, EndCall, Read, Retry, frame, env, Changes
<1>1. CASE \/ WorkerReceive \/ WorkerDisconnected \/ WorkerReceived \/ WorkerCancelQueued
           \/ WorkerStart \/ WorkerStartConflict \/ WorkerRegister \/ WorkerCheckStop
  <2>1. Changes(Worker)
    BY <1>1 DEF WorkerReceive, WorkerDisconnected, WorkerReceived,
       WorkerCancelQueued, WorkerStart, WorkerStartConflict, WorkerRegister, WorkerCheckStop, EnterFinishCancelled
  <2> QED  BY <2>1, ChangesOwn, Kinds
<1>2. CASE WorkerReread \/ WorkerRun \/ WorkerRunConflict \/ WorkerExecuted
  <2>1. Changes(Worker)
    BY <1>2 DEF WorkerReread, WorkerRun, WorkerRunConflict, WorkerExecuted, AbandonStart, EnterFinishCancelled
  <2> QED  BY <2>1, ChangesOwn, Kinds
<1>3. CASE \/ SettleRead \/ SettleDecide \/ SettleWrite \/ WorkerSettled
           \/ FinishCancelledRead \/ FinishCancelledWrite \/ WorkerFinalize
  <2>1. Changes(Worker)
    BY <1>3 DEF SettleRead, SettleDecide, SettleWrite, WorkerSettled, FinishCancelledRead,
       FinishCancelledWrite, WorkerFinalize, Finished
  <2> QED  BY <2>1, ChangesOwn, Kinds
<1>4. CASE \/ WorkerDying \/ WorkerLeave \/ WorkerStoreFault
           \/ FinishAdmission(Worker) \/ NotifyProgress(Worker)
  <2>1. Changes(Worker)
    BY <1>4 DEF WorkerDying, WorkerLeave, WorkerStoreFault, FinishAdmission, NotifyProgress
  <2> QED  BY <2>1, ChangesOwn, Kinds
<1>5. CASE InterruptMove(Worker)
  BY <1>5, InterruptOwn, Kinds
<1> QED  BY <1>1, <1>2, <1>3, <1>4, <1>5 DEF WorkerMove, WorkerStep, InterruptMove

LEMMA StopperOwn ==
    ASSUME ControlType, Frames, StopperMove
    PROVE  Own(Stopper)
<1>1. CASE ShutdownFlag \/ ShutdownTokens \/ ShutdownSender \/ ShutdownJoin
  <2>1. Changes(Stopper)
    BY <1>1 DEF ShutdownFlag, ShutdownTokens, ShutdownSender, ShutdownJoin, Goto, Step, frame, env, Changes
  <2> QED  BY <2>1, ChangesOwn, Kinds
<1> QED  BY <1>1, InterruptOwn, Kinds DEF StopperMove, ShutdownStep, InterruptMove

-----------------------------------------------------------------------------
(* What other threads do not disturb.                                      *)

LEMMA OutsideFacts ==
    ASSUME StoreType, Outside, NEW r \in Runs
    PROVE  /\ status[r] # Absent => status'[r] # Absent
           /\ status[r] \in Terminal => status'[r] = status[r]
           /\ status[r] \in InFlight => status'[r] \in InFlight
           /\ status'[r] \in InFlight => status[r] \in InFlight
           /\ status[r] # Absent /\ status[r] # "queued" => status'[r] # "queued"
           /\ status'[r] = status[r] \/ Rank(status[r]) < Rank(status'[r])
BY DEF StoreType, Outside, Absent, InFlight, Terminal, RunState, Rank

\* The worker's view of its run stays right while others write.
LEMMA WorkerKeeps ==
    ASSUME StoreType, Frames, Outside, WorkerRests, Working, Converging, InFlightOwned
    PROVE  Working' /\ Converging' /\ InFlightOwned'
<1>1. /\ \A x \in RunState \cup {Absent} : Rank(x) \in Nat
      /\ \A r \in Runs : status[r] \in RunState \cup {Absent} /\ Rank(status[r]) \in Nat
  BY DEF Rank, StoreType
<1>2. Working'
  BY OutsideFacts DEF WorkerRests, Working, BeforePC, FlightPC, AbandonPC, AfterPC
<1>3. InFlightOwned'
  BY OutsideFacts DEF WorkerRests, InFlightOwned, Failing
<1>4. Converging'
  <2>1. CASE pc[Worker] \in {"st_read", "fc_read", "st_decide", "st_cas", "fc_cas"}
    <3>1. run[Worker] \in Runs
      BY <2>1 DEF Working, FlightPC, AbandonPC
    <3>2. PICK old, new : /\ old \in Nat /\ old = Rank(status[run[Worker]]) /\ new = Rank(status'[run[Worker]])
                          /\ status'[run[Worker]] = status[run[Worker]] \/ old < new
      BY <1>1, <3>1, OutsideFacts
    <3>3. status'[run[Worker]] \in RunState \cup {Absent} /\ new \in Nat
      <4>1. status'[run[Worker]] \in RunState \cup {Absent}
        BY <1>1, <3>1 DEF Outside, RunState, InFlight, Terminal
      <4> QED  BY <1>1, <3>2, <4>1
    <3>4. seen[Worker] \in {"queued"} \cup InFlight => Rank(seen[Worker]) \in Nat
      BY DEF Rank, InFlight
    <3>5. CASE pc[Worker] \in {"st_read", "fc_read"}
      BY <3>2, <3>3, <3>5, Kinds DEF Frames, Converging, WorkerRests, BeforePC, FlightPC
    <3>6. CASE pc[Worker] \in {"st_decide", "st_cas", "fc_cas"}
      BY <3>2, <3>3, <3>4, <3>6, Kinds DEF Frames, Converging, WorkerRests, BeforePC, FlightPC
    <3> QED  BY <2>1, <3>5, <3>6
  <2>2. CASE pc[Worker] \notin {"st_read", "fc_read", "st_decide", "st_cas", "fc_cas"}
    BY <2>2 DEF Converging, WorkerRests
  <2> QED  BY <2>1, <2>2
<1> QED  BY <1>2, <1>3, <1>4

\* A submit call is not disturbed either.
LEMMA SubmitKept ==
    ASSUME StoreType, Outside, NEW t \in Submitters, SubmitOK(t), pc'[t] = pc[t], run'[t] = run[t],
           t \in holders => t \in holders'
    PROVE  SubmitOK(t)'
BY OutsideFacts DEF SubmitOK

CarryPC == {"s_sender", "s_send", "rj_read", "rj_cas"}

\* Where an admitted run is that has not started.
Carried(r) ==
    \/ \E i \in 1 .. Len(queue) : queue[i] = r
    \/ run[Worker] = r /\ pc[Worker] \in BeforePC
    \/ \E t \in Submitters : run[t] = r /\ pc[t] \in CarryPC
    \/ Failing
    \/ r \in abandoned

LEMMA StrandedIff == NothingStranded <=> \A r \in Runs : r \in admitted /\ status[r] = "queued" => Carried(r)
BY DEF NothingStranded, Carried, CarryPC, BeforePC, Failing, At

\* A step by somebody who carries nothing.
LEMMA Bystander ==
    ASSUME StoreType, Frames, Service, Outside, WorkerRests, SubmittersRest, sender' => sender,
           pc'[Stopper] \in InterruptPC \cup {"stopped", "stop_failed"} => pc[Worker] = "exited",
           pc'[Stopper] = "stopped" => ~workerFailed
    PROVE  Service'
<1>1. Working' /\ Converging' /\ InFlightOwned'
  BY WorkerKeeps DEF Service
<1>2. Submitting'
  BY SubmitKept DEF Service, Submitting, SubmittersRest
<1>3. Recorded'
  BY OutsideFacts DEF Service, Recorded, SubmittersRest
<1>4. Ending'
  <2>1. /\ pc'[Worker] = pc[Worker] /\ workerFailed' = workerFailed /\ faults' = faults /\ queue' = queue
        /\ \A t \in Submitters : pc'[t] = pc[t]
    BY DEF WorkerRests, SubmittersRest
  <2> QED  BY <2>1, Zenon DEF Service, Ending, Failing
<1>5. NothingStranded'
  <2> SUFFICES ASSUME NEW r \in Runs, r \in admitted', status'[r] = "queued" PROVE Carried(r)'
    BY StrandedIff DEF NothingStranded, Carried, CarryPC, BeforePC, Failing, At
  <2>1. r \in admitted /\ status[r] = "queued"
    BY OutsideFacts DEF Service, Recorded, SubmittersRest
  <2>2. Carried(r)
    BY <2>1, StrandedIff DEF Service
  <2> QED  BY <2>2 DEF Carried, WorkerRests, SubmittersRest, Failing
<1> QED  BY <1>1, <1>2, <1>3, <1>4, <1>5 DEF Service

-----------------------------------------------------------------------------
(* The steps.                                                              *)

\* A submit call: what its own part of the invariant needs, and the rest follows.
LEMMA SubmitKeeps ==
    ASSUME StoreType, Frames, Service, NEW t \in Submitters, Own(t), Outside,
           UNCHANGED <<plan, workerFailed, faults, sender>>, holders \ {t} \subseteq holders',
           SubmitOK(t)', Recorded',
           pc'[t] = "s_send" => pc[t] = "s_send" \/ sender,
           queue' = queue \/ pc[Worker] # "exited",
           \A r \in Runs : r \in admitted' /\ status'[r] = "queued" => Carried(r)'
    PROVE  Service'
<1>1. /\ pc'[Worker] = pc[Worker] /\ pc'[Stopper] = pc[Stopper]
      /\ \A u \in Submitters : u # t => pc'[u] = pc[u] /\ run'[u] = run[u]
      /\ WorkerRests
  BY Kinds DEF Own, Frame, WorkerRests
<1>2. Working' /\ Converging' /\ InFlightOwned'
  BY <1>1, WorkerKeeps DEF Service
<1>3. Submitting'
  <2> SUFFICES ASSUME NEW u \in Submitters, u # t PROVE SubmitOK(u)'
    BY DEF Submitting
  <2> QED  BY <1>1, SubmitKept DEF Service, Submitting
<1>4. Ending'
  <2>1. /\ Ending /\ workerFailed' = workerFailed /\ faults' = faults /\ sender' = sender
    BY DEF Service
  <2>2. pc[Worker] = "exited" /\ ~workerFailed => queue' = <<>> /\ pc'[t] # "s_send"
    BY <2>1 DEF Ending
  <2>3. pc[Worker] = "exited" /\ ~workerFailed => \A u \in Submitters : pc'[u] # "s_send"
    BY <1>1, <2>1, <2>2 DEF Ending
  <2>4. pc'[Worker] = "exited" /\ ~workerFailed' =>
            ~sender' /\ queue' = <<>> /\ \A u \in Submitters : pc'[u] # "s_send"
    BY <1>1, <2>1, <2>2, <2>3 DEF Ending
  <2>5. pc'[Worker] = pc[Worker] /\ pc'[Stopper] = pc[Stopper]
    BY <1>1
  <2> QED  BY <2>1, <2>4, <2>5 DEF Ending, Failing
<1>5. NothingStranded'
  BY DEF NothingStranded, Carried, CarryPC, BeforePC, Failing, At
<1> QED  BY <1>2, <1>3, <1>4, <1>5 DEF Service

\* What t does not carry stays where it is.
LEMMA CarriedByOthers ==
    ASSUME NEW t \in Submitters, Own(t), NEW r \in Runs, Carried(r),
           UNCHANGED workerFailed, abandoned \subseteq abandoned',
           \A i \in 1 .. Len(queue) : \E j \in 1 .. Len(queue') : queue'[j] = queue[i],
           run[t] = r /\ pc[t] \in CarryPC => Carried(r)'
    PROVE  Carried(r)'
<1>1. /\ pc'[Worker] = pc[Worker] /\ run'[Worker] = run[Worker]
      /\ \A u \in Submitters : u # t => pc'[u] = pc[u] /\ run'[u] = run[u]
  BY Kinds DEF Own, Frame
<1> QED  BY <1>1 DEF Carried, Failing

LEMMA SubmitService ==
    ASSUME StoreType, ControlType, Frames, Service, NEW t \in Submitters, SubmitMove(t)
    PROVE  Service'
<1>0. /\ Own(t) /\ SubmitOK(t) /\ Recorded /\ t # Worker
      /\ \A r \in Runs : r \in admitted /\ status[r] = "queued" => Carried(r)
  BY SubmitOwn, StrandedIff, Kinds DEF Service, Submitting
<1>1. /\ UNCHANGED <<plan, workerFailed, faults, sender>> /\ holders \ {t} \subseteq holders'
      /\ abandoned \subseteq abandoned'
  BY <1>0 DEF SubmitMove, RejectStoreFault, ClientStoreFault, SubmitBegin, SubmitStep, SubmitCreate, SubmitExisting, SubmitAdmit, SubmitSender, SubmitSend, SubmitRefused,
     RejectRead, RejectWrite, FinishAdmission, NotifyProgress, Goto, Step, Return, EndCall, Read, Retry, frame, env, flags
<1> USE Kinds DEF At, Goto, Step, Return, EndCall, Read, Retry, frame, StartPC, store, maps, Status
<1>a. DOMAIN pc = Threads /\ DOMAIN run = Threads /\ DOMAIN Woken = Threads
  BY DEF ControlType, Frames, Woken
<1>2. ASSUME UNCHANGED <<status, queue>>, admitted' \subseteq admitted, SubmitOK(t)', pc'[t] # "s_send" \/ sender,
             \/ pc[t] \in CarryPC => (pc'[t] \in CarryPC /\ run'[t] = run[t]) \/ status[run[t]] # "queued"
             \/ run[t] \in abandoned'
      PROVE  Service'
  <2>1. Outside /\ Recorded'
    BY <1>0, <1>2 DEF Outside, Recorded
  <2>2. ASSUME NEW r \in Runs, r \in admitted', status'[r] = "queued" PROVE Carried(r)'
    <3>1. Carried(r) /\ status[r] = "queued"
      BY <1>0, <1>2, <2>2
    <3>2. run[t] = r /\ pc[t] \in CarryPC => Carried(r)'
      BY <1>2, <3>1 DEF Carried
    <3> QED  BY <1>0, <1>1, <1>2, <3>1, <3>2, CarriedByOthers
  <2> QED  BY <1>0, <1>1, <1>2, <2>1, <2>2, SubmitKeeps
<1>3. CASE SubmitBegin(t)
  <2>1. pc[t] = "idle" /\ pc'[t] = "s_create" /\ run'[t] \in Runs /\ UNCHANGED <<status, queue, admitted>>
    BY <1>a, <1>3 DEF SubmitBegin
  <2> QED  BY <1>2, <2>1 DEF SubmitOK, CarryPC
<1>4. CASE SubmitCreate(t)
  <2>1. /\ pc[t] = "s_create" /\ pc'[t] = "s_admit" /\ run'[t] = run[t] /\ UNCHANGED <<queue, admitted>>
        /\ run[t] \in Runs /\ status[run[t]] = Absent
    BY <1>0, <1>a, <1>4 DEF SubmitCreate, SubmitOK
  <2>2. \A r \in Runs : IF r = run[t] THEN status'[r] = "queued" ELSE status'[r] = status[r]
    BY <1>4, <2>1 DEF SubmitCreate, Write, StoreType
  <2>3. Outside
    BY <2>1, <2>2 DEF Outside
  <2>4. SubmitOK(t)'
    BY <2>1, <2>2 DEF SubmitOK, Absent
  <2>5. Recorded'
    BY <1>0, <2>1, <2>3, OutsideFacts DEF Recorded
  <2>6. ASSUME NEW r \in Runs, r \in admitted', status'[r] = "queued" PROVE Carried(r)'
    <3>1. Carried(r) /\ r # run[t]
      BY <1>0, <2>1, <2>2, <2>6 DEF Recorded
    <3> QED  BY <1>0, <1>1, <2>1, <3>1, CarriedByOthers
  <2> QED  BY <1>0, <1>1, <2>1, <2>3, <2>4, <2>5, <2>6, SubmitKeeps
<1>5. CASE SubmitExisting(t)
  <2>1. /\ pc[t] = "s_create" /\ UNCHANGED <<status, queue, admitted>>
        /\ \/ pc'[t] = "s_admit" /\ run'[t] = run[t]
           \/ pc'[t] = "idle"
        /\ run[t] \in Runs /\ status[run[t]] # Absent
    BY <1>0, <1>a, <1>5 DEF SubmitExisting, SubmitOK
  <2> QED  BY <1>2, <2>1 DEF SubmitOK, CarryPC
<1>6. CASE SubmitAdmit(t)
  <2>1. /\ pc[t] = "s_admit" /\ UNCHANGED <<status, queue>> /\ admitted' = admitted \cup {run[t]}
        /\ \/ pc'[t] = "s_sender" /\ run'[t] = run[t]
           \/ pc'[t] = "idle" /\ run[t] \in admitted
        /\ run[t] \in Runs /\ status[run[t]] # Absent
    BY <1>0, <1>a, <1>6 DEF SubmitAdmit, SubmitOK
  <2>2. Outside /\ Recorded' /\ SubmitOK(t)'
    BY <1>0, <2>1 DEF Outside, Recorded, SubmitOK
  <2>3. ASSUME NEW r \in Runs, r \in admitted', status'[r] = "queued" PROVE Carried(r)'
    <3>1. CASE r \in admitted
      BY <1>0, <1>1, <2>1, <2>3, <3>1, CarriedByOthers DEF CarryPC
    <3>2. CASE r \notin admitted
      BY <2>1, <2>3, <3>2 DEF Carried, CarryPC
    <3> QED  BY <3>1, <3>2
  <2> QED  BY <1>0, <1>1, <2>1, <2>2, <2>3, SubmitKeeps
<1>7. CASE SubmitSender(t)
  <2>1. /\ pc[t] = "s_sender" /\ run'[t] = run[t] /\ UNCHANGED <<status, queue, admitted>>
        /\ IF sender THEN pc'[t] = "s_send" /\ t \in holders' ELSE pc'[t] = "rj_read"
        /\ run[t] \in Runs /\ status[run[t]] # Absent
    BY <1>0, <1>a, <1>7 DEF SubmitSender, SubmitOK
  <2> QED  BY <1>2, <2>1 DEF SubmitOK, CarryPC
<1>8. CASE SubmitSend(t)
  <2>1. /\ pc[t] = "s_send" /\ pc'[t] = "idle" /\ pc[Worker] # "exited" /\ UNCHANGED <<status, admitted>>
        /\ queue' = Append(queue, run[t])
        /\ run[t] \in Runs /\ status[run[t]] # Absent
    BY <1>0, <1>a, <1>8 DEF SubmitSend, SubmitOK
  <2>2. /\ queue' \in Seq(Runs) /\ Len(queue') = Len(queue) + 1 /\ Len(queue) \in Nat
        /\ \A i \in 1 .. Len(queue) : queue'[i] = queue[i]
        /\ queue'[Len(queue) + 1] = run[t]
        /\ DOMAIN queue' = 1 .. Len(queue) + 1 /\ DOMAIN queue = 1 .. Len(queue)
    BY <1>0, <2>1 DEF Recorded
  <2>3. Outside /\ SubmitOK(t)' /\ Recorded'
    BY <1>0, <2>1, <2>2 DEF Outside, SubmitOK, Recorded
  <2>4. ASSUME NEW r \in Runs, r \in admitted', status'[r] = "queued" PROVE Carried(r)'
    <3>1. \A i \in 1 .. Len(queue) : \E j \in 1 .. Len(queue') : queue'[j] = queue[i]
      BY <2>2
    <3>2. run[t] = r => Carried(r)'
      BY <2>2 DEF Carried
    <3> QED  BY <1>0, <1>1, <2>1, <2>4, <3>1, <3>2, CarriedByOthers
  <2> QED  BY <1>0, <1>1, <2>1, <2>3, <2>4, SubmitKeeps
<1>9. CASE SubmitRefused(t)
  <2>1. /\ pc[t] = "s_send" /\ pc'[t] = "rj_read" /\ run'[t] = run[t] /\ UNCHANGED <<status, queue, admitted>>
        /\ run[t] \in Runs /\ status[run[t]] # Absent
    BY <1>0, <1>a, <1>9 DEF SubmitRefused, SubmitOK
  <2> QED  BY <1>2, <2>1 DEF SubmitOK, CarryPC
<1>10. CASE RejectRead(t)
  <2>1. /\ pc[t] = "rj_read" /\ UNCHANGED <<status, queue, admitted>>
        /\ \/ pc'[t] = "finish" /\ run'[t] = run[t] /\ status[run[t]] \in Terminal
           \/ pc'[t] = "rj_cas" /\ run'[t] = run[t]
           \/ pc'[t] = "idle" /\ status[run[t]] # "queued"
        /\ run[t] \in Runs /\ status[run[t]] # Absent
    BY <1>0, <1>a, <1>10 DEF RejectRead, SubmitOK
  <2> QED  BY <1>2, <2>1 DEF SubmitOK, CarryPC, Terminal
<1>11. CASE RejectWrite(t)
  <2>1. CASE Conflict(t, "queued") /\ Retry(t, "rj_read", "idle")
    <3>1. /\ pc[t] = "rj_cas" /\ UNCHANGED <<status, queue, admitted>> /\ run'[t] = run[t]
          /\ pc'[t] \in {"rj_read", "idle"} /\ status[run[t]] # "queued"
          /\ run[t] \in Runs /\ status[run[t]] # Absent
      BY <1>0, <1>a, <1>11, <2>1 DEF RejectWrite, SubmitOK, Conflict
    <3> QED  BY <1>2, <3>1 DEF SubmitOK
  <2>2. CASE Transition(t, "queued", "failed", "run_failed") /\ Step(t, "finish")
    <3>1. /\ pc[t] = "rj_cas" /\ UNCHANGED <<queue, admitted>> /\ run'[t] = run[t] /\ pc'[t] = "finish"
          /\ run[t] \in Runs
      BY <1>0, <1>a, <1>11, <2>2 DEF RejectWrite, SubmitOK
    <3>2. status[run[t]] = "queued" /\ \A r \in Runs : IF r = run[t] THEN status'[r] = "failed" ELSE status'[r] = status[r]
      BY <2>2, OneWritten
    <3>3. Outside
      BY <3>2 DEF Outside
    <3>4. SubmitOK(t)'
      BY <3>1, <3>2 DEF SubmitOK, Terminal, Absent
    <3>5. Recorded'
      BY <1>0, <3>1, <3>3, OutsideFacts DEF Recorded
    <3>6. ASSUME NEW r \in Runs, r \in admitted', status'[r] = "queued" PROVE Carried(r)'
      <4>1. Carried(r) /\ r # run[t]
        BY <1>0, <3>1, <3>2, <3>6
      <4> QED  BY <1>0, <1>1, <3>1, <4>1, CarriedByOthers
    <3> QED  BY <1>0, <1>1, <3>1, <3>3, <3>4, <3>5, <3>6, SubmitKeeps
  <2> QED  BY <1>11, <2>1, <2>2 DEF RejectWrite
<1>12. CASE FinishAdmission(t)
  <2>1. /\ pc[t] = "finish" /\ pc'[t] = "notify" /\ run'[t] = run[t] /\ UNCHANGED <<status, queue>>
        /\ admitted' \subseteq admitted
        /\ run[t] \in Runs /\ status[run[t]] # Absent
    BY <1>0, <1>a, <1>12 DEF FinishAdmission, SubmitOK
  <2> QED  BY <1>2, <2>1 DEF SubmitOK, CarryPC
<1>13. CASE NotifyProgress(t)
  <2>1. pc[t] = "notify" /\ pc'[t] = "idle" /\ UNCHANGED <<status, queue, admitted>>
    BY <1>0, <1>a, <1>13 DEF NotifyProgress
  <2> QED  BY <1>2, <2>1 DEF SubmitOK, CarryPC
<1>14. CASE ClientStoreFault(t)
  <2>1. pc[t] = "s_create" /\ pc'[t] = "idle" /\ UNCHANGED <<status, queue, admitted>>
    BY <1>a, <1>14 DEF ClientStoreFault, ControlType, SubmitterPC
  <2> QED  BY <1>2, <2>1 DEF SubmitOK, CarryPC
<1>15. CASE RejectStoreFault(t)
  <2>1. /\ pc[t] \in {"rj_read", "rj_cas"} /\ pc'[t] = "idle" /\ UNCHANGED <<queue, admitted>>
        /\ run[t] \in abandoned' /\ run[t] \in Runs
    BY <1>0, <1>a, <1>15 DEF RejectStoreFault, SubmitOK
  <2>2. SubmitOK(t)'
    BY <2>1 DEF SubmitOK
  <2>3. CASE UNCHANGED status
    BY <1>2, <2>1, <2>2, <2>3
  <2>4. CASE Transition(t, "queued", "failed", "run_failed")
    <3>1. status[run[t]] = "queued" /\ \A r \in Runs : IF r = run[t] THEN status'[r] = "failed" ELSE status'[r] = status[r]
      BY <2>4, OneWritten
    <3>2. Outside
      BY <3>1 DEF Outside
    <3>3. Recorded'
      BY <1>0, <2>1, <3>2, OutsideFacts DEF Recorded
    <3>4. ASSUME NEW r \in Runs, r \in admitted', status'[r] = "queued" PROVE Carried(r)'
      <4>1. Carried(r) /\ r # run[t]
        BY <1>0, <2>1, <3>1, <3>4
      <4> QED  BY <1>0, <1>1, <2>1, <4>1, CarriedByOthers
    <3> QED  BY <1>0, <1>1, <2>1, <2>2, <3>2, <3>3, <3>4, SubmitKeeps
  <2> QED  BY <1>15, <2>3, <2>4 DEF RejectStoreFault
<1> QED  BY <1>3, <1>4, <1>5, <1>6, <1>7, <1>8, <1>9, <1>10, <1>11, <1>12, <1>13, <1>14, <1>15
         DEF SubmitMove, SubmitStep

\* Cancellers and waiters.
LEMMA ClientService ==
    ASSUME StoreType, ControlType, Frames, Service,
           NEW t \in Cancellers \cup Waiters,
           \/ t \in Cancellers /\ CancelMove(t)
           \/ t \in Waiters /\ WaitMove(t)
    PROVE  Service'
<1>1. t # Worker /\ t # Stopper /\ t \notin Submitters /\ Own(t)
  BY Kinds, CancelOwn, WaitOwn
<1>2. /\ UNCHANGED <<plan, workerFailed, faults, sender, queue, admitted, abandoned>> /\ holders \ {t} \subseteq holders'
  BY <1>1 DEF CancelMove, WaitMove, ClientStoreFault, CancelBegin, CancelStep, CancelRead, CancelToken, CancelWrite, NotifyProgress, WaitBegin, WaitRead, WaitTimeout,
     Goto, Step, Return, EndCall, Read, Retry, frame, env, flags, maps
<1>3. WorkerRests /\ SubmittersRest /\ pc'[Stopper] = pc[Stopper]
  BY <1>1, <1>2, Kinds DEF Own, Frame, WorkerRests, SubmittersRest
<1>4. Outside
  <2>1. CASE CancelWrite(t)
    <3>1. CASE Transition(t, seen[t], "cancelled", "run_cancelled") /\ seen[t] = "queued"
      BY <3>1, OneWritten DEF Outside
    <3>2. CASE Transition(t, seen[t], "cancel_requested", "run_cancel_requested") /\ seen[t] # "queued"
      BY <3>2, OneWritten DEF Outside, ValidTransition, Terminal
    <3>3. CASE Conflict(t, seen[t])
      BY <3>3 DEF Conflict, Outside
    <3> QED  BY <2>1, <3>1, <3>2, <3>3 DEF CancelWrite
  <2>2. CASE ~CancelWrite(t)
    <3>1. UNCHANGED status
      BY <2>2 DEF CancelMove, WaitMove, ClientStoreFault, CancelBegin, CancelStep, CancelRead, CancelToken, NotifyProgress,
         WaitBegin, WaitRead, WaitTimeout, store
    <3> QED  BY <3>1 DEF Outside
  <2> QED  BY <2>1, <2>2
<1> QED  BY <1>2, <1>3, <1>4, Bystander DEF Service, Ending

\* shutdown, up to interrupt_admitted.
LEMMA ShutdownService ==
    ASSUME StoreType, ControlType, Frames, Service,
           ShutdownFlag \/ ShutdownTokens \/ ShutdownSender \/ ShutdownJoin
    PROVE  Service'
<1>1. Own(Stopper) /\ DOMAIN pc = Threads
  BY StopperOwn DEF StopperMove, ShutdownStep, ControlType
<1>2. /\ UNCHANGED <<plan, workerFailed, faults, queue, admitted, abandoned, status, holders>> /\ (sender' => sender)
  BY DEF ShutdownFlag, ShutdownTokens, ShutdownSender, ShutdownJoin, Goto, Step, frame, env, flags, maps, store
<1>3. WorkerRests /\ SubmittersRest /\ Outside
  BY <1>1, <1>2, Kinds DEF Own, Frame, WorkerRests, SubmittersRest, Outside
<1>4. /\ pc'[Stopper] \notin {"stopped", "stop_failed"}
      /\ pc'[Stopper] \in InterruptPC => pc[Worker] = "exited"
  BY <1>1, Kinds DEF ShutdownFlag, ShutdownTokens, ShutdownSender, ShutdownJoin, Goto, Step, At, InterruptPC
<1> QED  BY <1>2, <1>3, <1>4, Bystander

ServePC == BeforePC \cup FlightPC \cup AbandonPC \cup AfterPC \cup {"recv", "notify"}

\* What the worker writes to its run.
Inside ==
    \A r \in Runs : \/ status'[r] = status[r]
                    \/ /\ r = run[Worker] /\ status[r] \notin Terminal \cup {Absent}
                       /\ status'[r] \notin {Absent, "queued"}

\* Runs that are recorded stay so.
LEMMA InsideKeeps ==
    ASSUME Service, Inside, Own(Worker), \A t \in Submitters : t \in holders => t \in holders',
           queue' = queue \/ queue' = <<>>, admitted' \subseteq admitted
    PROVE  Submitting' /\ Recorded'
<1>1. \A t \in Submitters : pc'[t] = pc[t] /\ run'[t] = run[t]
  BY Kinds DEF Own, Frame
<1>2. Submitting'
  <2> SUFFICES ASSUME NEW t \in Submitters PROVE SubmitOK(t)'
    BY DEF Submitting
  <2> QED  BY <1>1 DEF Service, Submitting, SubmitOK, Inside
<1>3. Recorded'
  <2>1. admitted' \subseteq Runs /\ \A r \in admitted' : status'[r] # Absent
    BY DEF Service, Recorded, Inside
  <2>2. CASE queue' = queue
    BY <2>1, <2>2 DEF Service, Recorded, Inside
  <2>3. CASE queue' = <<>>
    BY <2>1, <2>3 DEF Recorded
  <2> QED  BY <2>2, <2>3
<1> QED  BY <1>2, <1>3

\* A step of a worker that serves and goes on.
LEMMA Serves ==
    ASSUME Service, Own(Worker), Inside, Working', Converging',
           pc[Worker] \in ServePC, pc'[Worker] \in ServePC,
           UNCHANGED <<workerFailed, sender, faults, queue, abandoned>>, admitted' \subseteq admitted,
           \A t \in Submitters : t \in holders => t \in holders',
           \A r \in Runs : r = run[Worker] /\ status'[r] \in InFlight =>
               run'[Worker] = r /\ pc'[Worker] \in FlightPC \cup AbandonPC,
           pc[Worker] \in BeforePC => \/ pc'[Worker] \in BeforePC /\ run'[Worker] = run[Worker]
                                      \/ status'[run[Worker]] # "queued"
    PROVE  Service'
<1>1. /\ pc'[Stopper] = pc[Stopper]
      /\ \A t \in Submitters : pc'[t] = pc[t] /\ run'[t] = run[t]
  BY Kinds DEF Own, Frame
<1>2. /\ pc[Worker] \notin InterruptPC \cup {"leaving", "exited", "dying"}
      /\ pc'[Worker] \notin InterruptPC \cup {"leaving", "exited", "dying"}
  BY DEF ServePC, BeforePC, FlightPC, AbandonPC, AfterPC, InterruptPC
<1>3. ~workerFailed /\ pc[Stopper] \notin InterruptPC \cup {"stopped", "stop_failed"} /\ ~Failing /\ ~Failing'
  BY <1>2 DEF Service, Ending, Failing
<1>4. Submitting' /\ Recorded'
  BY InsideKeeps
<1>5. InFlightOwned'
  <2> SUFFICES ASSUME NEW r \in Runs, status'[r] \in InFlight
               PROVE  run'[Worker] = r /\ pc'[Worker] \in FlightPC \cup AbandonPC
    BY DEF InFlightOwned
  <2>1. CASE r = run[Worker]
    BY <2>1
  <2>2. CASE r # run[Worker]
    BY <1>3, <2>2 DEF Inside, Service, InFlightOwned
  <2> QED  BY <2>1, <2>2
<1>6. Ending'
  BY <1>1, <1>2, <1>3 DEF Ending
<1>7. NothingStranded'
  <2> SUFFICES ASSUME NEW r \in Runs, r \in admitted', status'[r] = "queued" PROVE Carried(r)'
    BY DEF NothingStranded, Carried, CarryPC, BeforePC, Failing, At
  <2>1. Carried(r)
    BY StrandedIff DEF Service, Inside
  <2> QED  BY <1>1, <1>3, <2>1 DEF Carried
<1> QED  BY <1>4, <1>5, <1>6, <1>7 DEF Service

\* How high the states are.
LEMMA RankFacts ==
    /\ \A st \in {"queued"} \cup InFlight : Rank(st) \in 1 .. 4
    /\ \A st \in RunState : Rank(st) \in Nat /\ 0 < Rank(st)
    /\ InFlight \subseteq RunState /\ Terminal \subseteq RunState
    /\ \A st \in Terminal : Rank(st) = 5
    /\ RunState = {"queued"} \cup InFlight \cup Terminal /\ Absent \notin RunState
    /\ InFlight \cap Terminal = {} /\ "queued" \notin InFlight \cup Terminal
BY DEF Rank, RunState, InFlight, Terminal, Absent

\* execute_item.
LEMMA ExecuteService ==
    ASSUME StoreType, ControlType, Frames, Service,
           \/ WorkerReceived \/ WorkerCancelQueued \/ WorkerStart \/ WorkerStartConflict
           \/ WorkerRegister \/ WorkerCheckStop \/ WorkerReread \/ WorkerRun \/ WorkerRunConflict
           \/ WorkerExecuted
    PROVE  Service'
<1>0. /\ Own(Worker) /\ Working /\ Converging /\ Ending /\ InFlightOwned
      /\ DOMAIN pc = Threads /\ DOMAIN run = Threads /\ DOMAIN seen = Threads /\ DOMAIN tries = Threads
  BY WorkerOwn DEF WorkerMove, WorkerStep, Service, ControlType, Frames
<1>1. /\ UNCHANGED <<workerFailed, sender, faults, queue, abandoned, admitted, run, seen, tries, holders>>
  BY DEF WorkerReceived, WorkerCancelQueued, WorkerStart, WorkerStartConflict, WorkerRegister, WorkerCheckStop, WorkerReread,
     WorkerRun, WorkerRunConflict, WorkerExecuted, AbandonStart, EnterFinishCancelled,
     Goto, Step, frame, env, flags, maps
<1>2. /\ pc[Worker] \in ServePC \ {"recv", "notify", "settled", "finalize", "finish"}
      /\ pc[Worker] \notin {"st_read", "st_decide", "st_cas", "fc_read", "fc_cas"}
  BY DEF WorkerReceived, WorkerCancelQueued, WorkerStart, WorkerStartConflict, WorkerRegister, WorkerCheckStop, WorkerReread,
     WorkerRun, WorkerRunConflict, WorkerExecuted, At, ServePC, BeforePC, FlightPC, AfterPC
<1>3. PICK r \in Runs : r = run[Worker] /\ status[r] # Absent
  BY <1>0, <1>2 DEF Working, ServePC
<1>4. tries[Worker] = 0
  BY <1>0, <1>2 DEF Converging, ServePC, AbandonPC, AfterPC
<1>5. pc[Worker] \in BeforePC => status[r] \in {"queued"} \cup Terminal
  <2>1. pc[Worker] \in BeforePC => status[r] \notin InFlight
    BY <1>0, <1>3 DEF InFlightOwned, Ending, Failing, BeforePC, FlightPC, AbandonPC, InterruptPC
  <2>2. status[r] \in RunState
    BY <1>3 DEF StoreType
  <2> QED  BY <2>1, <2>2 DEF RunState
<1> USE <1>3, Kinds, RankFacts DEF At, Goto, Step, Status, frame, store
<1>6. ASSUME Inside, Working', Converging', pc'[Worker] \in ServePC,
             status'[r] \in InFlight => pc'[Worker] \in FlightPC \cup AbandonPC,
             pc'[Worker] \in BeforePC \/ status'[r] # "queued"
      PROVE  Service'
  BY <1>0, <1>1, <1>2, <1>6, Serves DEF Service
<1> DEFINE Same == \A q \in Runs : status'[q] = status[q]
<1>7. ASSUME Same PROVE Inside
  BY <1>7 DEF Inside
<1>8. CASE WorkerReceived
  <2>1. pc[Worker] = "received" /\ pc'[Worker] \in {"cq_cas", "start"} /\ Same
    BY <1>0, <1>8 DEF WorkerReceived
  <2>2. Working' /\ Converging'
    BY <1>1, <1>4, <2>1 DEF Working, Converging, BeforePC, FlightPC, AbandonPC, AfterPC
  <2> QED  BY <1>5, <1>6, <1>7, <2>1, <2>2 DEF BeforePC, ServePC
<1>9. ASSUME Same, status[r] # "queued", pc'[Worker] = "fc_read", plan' \in {"finish", "finalize"},
             plan' = "finalize" \/ pc[Worker] \in FlightPC => status[r] \in InFlight
      PROVE  Service'
  <2>1. status[r] \in RunState
    BY DEF StoreType
  <2>2. Working'
    BY <1>1, <1>9, <2>1 DEF Working, BeforePC, FlightPC, AbandonPC, AfterPC
  <2>3. 0 < Rank(status[r])
    BY <2>1, RankFacts, Zenon
  <2>4. Converging'
    BY <1>1, <1>4, <1>9, <2>3 DEF Converging, BeforePC, FlightPC
  <2> QED  BY <1>6, <1>7, <1>9, <2>2, <2>4 DEF AbandonPC, ServePC
<1>10. CASE WorkerCancelQueued
  <2>1. pc[Worker] = "cq_cas"
    BY <1>10 DEF WorkerCancelQueued
  <2>2. CASE Conflict(Worker, "queued") /\ EnterFinishCancelled("finish")
    <3>1. Same /\ status[r] # "queued" /\ pc'[Worker] = "fc_read" /\ plan' = "finish"
      BY <1>0, <2>2 DEF Conflict, EnterFinishCancelled
    <3> QED  BY <1>9, <2>1, <3>1 DEF FlightPC
  <2>3. CASE Transition(Worker, "queued", "cancelled", "run_cancelled") /\ Step(Worker, "finish")
    <3>1. /\ status[r] = "queued" /\ \A q \in Runs : IF q = r THEN status'[q] = "cancelled" ELSE status'[q] = status[q]
          /\ pc'[Worker] = "finish" /\ "cancelled" \in Terminal
      BY <1>0, <2>3, OneWritten DEF Terminal
    <3>2. Inside /\ Working' /\ Converging'
      BY <1>1, <1>4, <3>1 DEF Inside, Working, Converging, BeforePC, FlightPC, AbandonPC, AfterPC
    <3> QED  BY <1>6, <3>1, <3>2 DEF AfterPC, ServePC
  <2> QED  BY <1>10, <2>2, <2>3 DEF WorkerCancelQueued
<1>11. CASE WorkerStart
  <2>1. CASE Conflict(Worker, "queued") /\ Step(Worker, "conflict")
    <3>1. Same /\ status[r] \in Terminal /\ pc'[Worker] = "conflict"
      BY <1>0, <1>5, <1>11, <2>1 DEF WorkerStart, Conflict, BeforePC
    <3>2. Working' /\ Converging'
      BY <1>1, <1>4, <3>1 DEF Working, Converging, BeforePC, FlightPC, AbandonPC, AfterPC
    <3> QED  BY <1>6, <1>7, <3>1, <3>2 DEF AfterPC, ServePC
  <2>2. CASE Transition(Worker, "queued", "starting", "run_starting") /\ Step(Worker, "register")
    <3>1. /\ status[r] = "queued" /\ \A q \in Runs : IF q = r THEN status'[q] = "starting" ELSE status'[q] = status[q]
          /\ pc'[Worker] = "register" /\ "starting" \in InFlight
      BY <1>0, <2>2, OneWritten DEF InFlight
    <3>2. Inside /\ Working' /\ Converging'
      BY <1>1, <1>4, <3>1 DEF Inside, Working, Converging, BeforePC, FlightPC, AbandonPC, AfterPC
    <3> QED  BY <1>6, <3>1, <3>2 DEF FlightPC, ServePC
  <2> QED  BY <1>11, <2>1, <2>2 DEF WorkerStart
<1>12. CASE WorkerStartConflict
  <2>1. pc[Worker] = "conflict" /\ status[r] \in Terminal
    BY <1>0, <1>12 DEF WorkerStartConflict, Working, AfterPC
  <2>2. Same /\ Step(Worker, "finish")
    BY <1>12, <2>1 DEF WorkerStartConflict, Terminal
  <2>4. pc'[Worker] = "finish"
    BY <1>0, <2>2
  <2>3. Working' /\ Converging'
    BY <1>1, <1>4, <2>1, <2>2, <2>4 DEF Working, Converging, BeforePC, FlightPC, AbandonPC, AfterPC
  <2> QED  BY <1>6, <1>7, <2>1, <2>2, <2>3, <2>4 DEF AfterPC, ServePC
<1>13. ASSUME Same, pc[Worker] \in FlightPC, pc'[Worker] \in {"check_stop", "reread", "running"} PROVE Service'
  <2>1. status[r] \in InFlight
    BY <1>0, <1>13 DEF Working
  <2>2. Working' /\ Converging'
    BY <1>1, <1>4, <1>13, <2>1 DEF Working, Converging, BeforePC, FlightPC, AbandonPC, AfterPC
  <2> QED  BY <1>6, <1>7, <1>13, <2>1, <2>2 DEF FlightPC, ServePC
<1>14. CASE WorkerRegister \/ WorkerCheckStop
  BY <1>0, <1>13, <1>14 DEF WorkerRegister, WorkerCheckStop, FlightPC
<1>15. ASSUME pc[Worker] \in FlightPC, Same, AbandonStart PROVE Service'
  <2>1. status[r] \in InFlight
    BY <1>0, <1>15 DEF Working
  <2>2. pc'[Worker] = "fc_read" /\ plan' \in {"finish", "finalize"}
    BY <1>0, <1>15 DEF AbandonStart, EnterFinishCancelled, FinalizeIfTurn
  <2> QED  BY <1>9, <1>15, <2>1, <2>2
<1>16. CASE WorkerReread
  <2>1. Same /\ pc[Worker] \in FlightPC
    BY <1>16 DEF WorkerReread, FlightPC
  <2>2. AbandonStart \/ pc'[Worker] = "running"
    BY <1>0, <1>16 DEF WorkerReread
  <2> QED  BY <1>13, <1>15, <2>1, <2>2
<1>17. CASE WorkerRun
  <2>1. /\ status[r] = "starting" /\ \A q \in Runs : IF q = r THEN status'[q] = "running" ELSE status'[q] = status[q]
        /\ pc'[Worker] = "execute" /\ {"starting", "running"} \subseteq InFlight
    BY <1>0, <1>17, OneWritten DEF WorkerRun, InFlight
  <2>2. Inside /\ Working' /\ Converging'
    BY <1>1, <1>4, <2>1 DEF Inside, Working, Converging, BeforePC, FlightPC, AbandonPC, AfterPC
  <2> QED  BY <1>6, <2>1, <2>2 DEF FlightPC, ServePC
<1>18. CASE WorkerRunConflict
  <2>1. Same /\ pc[Worker] \in FlightPC /\ AbandonStart
    BY <1>18 DEF WorkerRunConflict, Conflict, FlightPC
  <2> QED  BY <1>15, <2>1
<1>19. CASE WorkerExecuted
  <2>1. Same /\ pc[Worker] = "execute" /\ pc'[Worker] = "st_read"
    BY <1>0, <1>19 DEF WorkerExecuted
  <2>2. status[r] \in InFlight
    BY <1>0, <2>1 DEF Working, FlightPC
  <2>4. 0 < Rank(status[r])
    BY <2>2, RankFacts, Zenon
  <2>3. Working' /\ Converging'
    BY <1>1, <1>4, <2>1, <2>2, <2>4 DEF Working, Converging, BeforePC, FlightPC, AbandonPC, AfterPC
  <2> QED  BY <1>6, <1>7, <2>1, <2>2, <2>3 DEF FlightPC, ServePC
<1> QED  BY <1>8, <1>10, <1>11, <1>12, <1>14, <1>16, <1>17, <1>18, <1>19

\* settle_attempt, finish_cancelled and the end of execute_item. A loop that met a conflict
\* found its run higher up, so it never comes to its last try.
LEMMA SettleService ==
    ASSUME StoreType, ControlType, Frames, Service,
           \/ SettleRead \/ SettleDecide \/ SettleWrite \/ WorkerSettled \/ FinishCancelledRead
           \/ FinishCancelledWrite \/ WorkerFinalize \/ FinishAdmission(Worker) \/ NotifyProgress(Worker)
    PROVE  Service'
<1>0. /\ Own(Worker) /\ Working /\ Converging
      /\ DOMAIN pc = Threads /\ DOMAIN run = Threads /\ DOMAIN seen = Threads /\ DOMAIN tries = Threads
      /\ DOMAIN Woken = Threads
  BY WorkerOwn DEF WorkerMove, WorkerStep, Service, ControlType, Frames, Woken
<1>1. /\ UNCHANGED <<workerFailed, sender, faults, queue, abandoned>> /\ admitted' \subseteq admitted
      /\ \A t \in Submitters : t \in holders => t \in holders'
      /\ pc[Worker] \in ServePC \ (BeforePC \cup {"recv"})
  BY Kinds DEF SettleRead, SettleDecide, SettleWrite, WorkerSettled, FinishCancelledRead, FinishCancelledWrite, WorkerFinalize,
     FinishAdmission, NotifyProgress, Finished, At, Return, EndCall, Goto, Step, Read, Retry, frame, env, flags, maps,
     ServePC, BeforePC, FlightPC, AbandonPC, AfterPC
<1> USE Kinds DEF At, Goto, Step, Read, Retry, Status, frame, store
<1> DEFINE Same == \A q \in Runs : status'[q] = status[q]
<1>2. CASE NotifyProgress(Worker)
  <2>1. pc[Worker] = "notify" /\ pc'[Worker] = "recv" /\ Same /\ tries'[Worker] = 0
    BY <1>0, <1>2 DEF NotifyProgress, EndCall, StartPC
  <2>2. Inside /\ Working' /\ Converging'
    BY <2>1 DEF Inside, Working, Converging, BeforePC, FlightPC, AbandonPC, AfterPC
  <2>3. \A r \in Runs : status'[r] \notin InFlight
    BY <2>1 DEF Service, InFlightOwned, Ending, Failing, FlightPC, AbandonPC, InterruptPC
  <2> QED  BY <1>0, <1>1, <2>1, <2>2, <2>3, Serves DEF ServePC
<1> SUFFICES ASSUME ~NotifyProgress(Worker) PROVE Service'
  BY <1>2
<1>3. pc[Worker] \in FlightPC \cup AbandonPC \cup AfterPC
  BY DEF SettleRead, SettleDecide, SettleWrite, WorkerSettled, FinishCancelledRead, FinishCancelledWrite, WorkerFinalize,
     FinishAdmission, FlightPC, AbandonPC, AfterPC
<1>4. PICK r \in Runs : r = run[Worker] /\ status[r] \in RunState
  BY <1>0, <1>3 DEF Working, StoreType
<1>5. UNCHANGED run
  BY DEF SettleRead, SettleDecide, SettleWrite, WorkerSettled, FinishCancelledRead, FinishCancelledWrite, WorkerFinalize,
     FinishAdmission, Finished
<1>6. ASSUME Inside, Working', Converging', pc'[Worker] \in ServePC,
             status'[r] \in InFlight => pc'[Worker] \in FlightPC \cup AbandonPC
      PROVE  Service'
  BY <1>0, <1>1, <1>4, <1>5, <1>6, Serves
<1>7. ASSUME Same PROVE Inside
  BY <1>7 DEF Inside
<1> USE <1>4, <1>5
<1>8. CASE SettleRead
  <2>1. pc[Worker] = "st_read" /\ status[r] \in InFlight /\ tries[Worker] < Rank(status[r]) /\ status[r] \notin Terminal
    BY <1>0, <1>8, RankFacts DEF SettleRead, Working, Converging, FlightPC
  <2>2. Same /\ pc'[Worker] = "st_decide" /\ seen'[Worker] = status[r] /\ tries' = tries
    BY <1>0, <1>8, <2>1 DEF SettleRead
  <2>3. Working'
    BY <2>1, <2>2, RankFacts DEF Working, BeforePC, FlightPC, AbandonPC, AfterPC
  <2>4. Converging'
    BY <2>1, <2>2 DEF Converging, BeforePC, FlightPC
  <2> QED  BY <1>6, <1>7, <2>2, <2>3, <2>4 DEF FlightPC, ServePC
<1>9. CASE SettleDecide
  <2>1. /\ pc[Worker] = "st_decide" /\ status[r] \in InFlight /\ Same /\ pc'[Worker] = "st_cas"
        /\ seen' = seen /\ tries' = tries
    BY <1>0, <1>9 DEF SettleDecide, Working, FlightPC
  <2>2. plan' = "succeeded" => seen[Worker] # "cancel_requested"
    BY <1>9 DEF SettleDecide
  <2>3. Working'
    BY <2>1, <2>2, RankFacts DEF Working, BeforePC, FlightPC, AbandonPC, AfterPC
  <2>4. Converging'
    BY <1>0, <2>1 DEF Converging, BeforePC, FlightPC
  <2> QED  BY <1>6, <1>7, <2>1, <2>3, <2>4 DEF FlightPC, ServePC
<1>10. ASSUME NEW label \in {"st_read", "fc_read"}, pc[Worker] \in {"st_cas", "fc_cas"}, status[r] # seen[Worker], Same,
              Retry(Worker, label, "dying"),
              label = "st_read" => pc[Worker] = "st_cas", label = "fc_read" => pc[Worker] = "fc_cas"
       PROVE  Service'
  <2>1. /\ tries[Worker] \in Nat /\ tries[Worker] < Rank(seen[Worker]) /\ Rank(seen[Worker]) < Rank(status[r])
        /\ seen[Worker] \in {"queued"} \cup InFlight
    BY <1>0, <1>10 DEF Converging, Frames
  <2>2. Rank(seen[Worker]) \in 1 .. 4 /\ Rank(status[r]) \in Nat
    BY <2>1, RankFacts, Zenon
  <2>3. tries'[Worker] = tries[Worker] + 1 /\ tries[Worker] + 1 # MaxTries
    BY <1>0, <1>10, <2>1, <2>2 DEF MaxTries
  <2>4. pc'[Worker] = label /\ UNCHANGED <<seen, plan>>
    BY <1>0, <1>10, <2>3
  <2>5. Working'
    BY <1>0, <1>10, <2>4 DEF Working, BeforePC, FlightPC, AbandonPC, AfterPC
  <2>6. Converging'
    BY <1>10, <2>1, <2>2, <2>3, <2>4 DEF Converging, BeforePC, FlightPC
  <2> QED  BY <1>6, <1>7, <1>10, <2>4, <2>5, <2>6 DEF FlightPC, AbandonPC, ServePC
<1>11. CASE SettleWrite
  <2>1. CASE Conflict(Worker, seen[Worker]) /\ Retry(Worker, "st_read", "dying")
    BY <1>10, <1>11, <2>1 DEF SettleWrite, Conflict
  <2>2. CASE Transition(Worker, seen[Worker], plan, OutcomeEvent(plan)) /\ Step(Worker, "settled")
    <3>1. plan \in Terminal
      BY <1>11 DEF SettleWrite, ControlType, Terminal
    <3>2. \A q \in Runs : IF q = r THEN status'[q] = plan ELSE status'[q] = status[q]
      BY <2>2, OneWritten
    <3>3. pc'[Worker] = "settled" /\ status[r] \in InFlight
      BY <1>0, <1>11, <2>2 DEF SettleWrite, Working, FlightPC
    <3>4. plan \notin {Absent, "queued"} /\ status[r] \notin Terminal \cup {Absent} /\ plan \notin InFlight
      BY <3>1, <3>3 DEF Terminal, InFlight, Absent
    <3>5. Inside /\ Working' /\ Converging'
      BY <3>1, <3>2, <3>3, <3>4 DEF Inside, Working, Converging, BeforePC, FlightPC, AbandonPC, AfterPC
    <3> QED  BY <1>6, <3>2, <3>3, <3>4, <3>5 DEF AfterPC, ServePC
  <2> QED  BY <1>11, <2>1, <2>2 DEF SettleWrite
<1>12. CASE WorkerSettled
  <2>1. pc[Worker] = "settled" /\ status[r] \in Terminal
    BY <1>0, <1>12 DEF WorkerSettled, Working, AfterPC
  <2>2. Same /\ pc'[Worker] \in {"finalize", "finish"} /\ seen'[Worker] = status[r]
    BY <1>0, <1>12, <2>1 DEF WorkerSettled, FinalizeIfTurn
  <2>3. Working' /\ Converging'
    BY <2>1, <2>2, RankFacts DEF Working, Converging, BeforePC, FlightPC, AbandonPC, AfterPC
  <2> QED  BY <1>6, <1>7, <2>1, <2>2, <2>3, RankFacts DEF AfterPC, ServePC
<1>13. CASE FinishCancelledRead
  <2>1. pc[Worker] = "fc_read" /\ status[r] # "queued" /\ (plan = "finalize" => status[r] \in InFlight)
    BY <1>0, <1>13 DEF FinishCancelledRead, Working, AbandonPC
  <2>2. CASE status[r] \in Terminal
    <3>1. Same /\ plan = "finish" /\ pc'[Worker] = "finish"
      BY <1>0, <1>13, <2>1, <2>2, RankFacts DEF FinishCancelledRead, Finished, ControlType
    <3>2. Working' /\ Converging'
      BY <2>2, <3>1, RankFacts DEF Working, Converging, BeforePC, FlightPC, AbandonPC, AfterPC
    <3> QED  BY <1>6, <1>7, <2>2, <3>1, <3>2, RankFacts DEF AfterPC, ServePC
  <2>3. CASE status[r] \notin Terminal
    <3>1. Same /\ pc'[Worker] = "fc_cas" /\ seen'[Worker] = status[r] /\ UNCHANGED <<plan, tries>>
      BY <1>0, <1>13, <2>3 DEF FinishCancelledRead
    <3>2. status[r] \in InFlight /\ tries[Worker] < Rank(status[r])
      BY <1>0, <2>1, <2>3, RankFacts DEF Converging
    <3>3. Working'
      BY <3>1, <3>2, RankFacts DEF Working, BeforePC, FlightPC, AbandonPC, AfterPC
    <3>4. Converging'
      BY <3>1, <3>2 DEF Converging, BeforePC, FlightPC
    <3> QED  BY <1>6, <1>7, <3>1, <3>3, <3>4 DEF AbandonPC, ServePC
  <2> QED  BY <2>2, <2>3
<1>14. CASE FinishCancelledWrite
  <2>1. CASE Conflict(Worker, seen[Worker]) /\ Retry(Worker, "fc_read", "dying")
    BY <1>10, <1>14, <2>1 DEF FinishCancelledWrite, Conflict
  <2>2. CASE Transition(Worker, seen[Worker], "cancelled", "run_cancelled") /\ Finished
    <3>1. /\ \A q \in Runs : IF q = r THEN status'[q] = "cancelled" ELSE status'[q] = status[q]
          /\ status[r] = seen[Worker]
      BY <2>2, OneWritten
    <3>2. pc'[Worker] = plan /\ seen'[Worker] = "cancelled" /\ plan \in {"finish", "finalize"}
      BY <1>0, <1>14, <2>2 DEF FinishCancelledWrite, Finished, ControlType
    <3>3. status[r] \in {"queued"} \cup InFlight
      BY <1>0, <1>14, <3>1 DEF FinishCancelledWrite, Converging
    <3>4. "cancelled" \in Terminal /\ status[r] \notin Terminal \cup {Absent} /\ "cancelled" \notin InFlight \cup {Absent}
      BY <3>3 DEF Terminal, InFlight, Absent
    <3>5. Inside /\ Working' /\ Converging'
      BY <3>1, <3>2, <3>4 DEF Inside, Working, Converging, BeforePC, FlightPC, AbandonPC, AfterPC
    <3> QED  BY <1>6, <3>1, <3>2, <3>4, <3>5 DEF AfterPC, ServePC
  <2> QED  BY <1>14, <2>1, <2>2 DEF FinishCancelledWrite
<1>15. CASE WorkerFinalize
  <2>1. pc[Worker] = "finalize" /\ status[r] \in Terminal /\ seen[Worker] = status[r]
    BY <1>0, <1>15 DEF WorkerFinalize, Working, AfterPC
  <2>2. Same /\ pc'[Worker] = "finish"
    BY <1>0, <1>15, <2>1 DEF WorkerFinalize
  <2>3. Working' /\ Converging'
    BY <2>1, <2>2, RankFacts DEF Working, Converging, BeforePC, FlightPC, AbandonPC, AfterPC
  <2> QED  BY <1>6, <1>7, <2>1, <2>2, <2>3, RankFacts DEF AfterPC, ServePC
<1>16. CASE FinishAdmission(Worker)
  <2>1. pc[Worker] = "finish" /\ status[r] \in Terminal /\ Same /\ pc'[Worker] = "notify"
    BY <1>0, <1>16 DEF FinishAdmission, Working, AfterPC
  <2>2. Working' /\ Converging'
    BY <2>1 DEF Working, Converging, BeforePC, FlightPC, AbandonPC, AfterPC
  <2> QED  BY <1>6, <1>7, <2>1, <2>2, RankFacts DEF ServePC
<1> QED  BY <1>8, <1>9, <1>11, <1>12, <1>13, <1>14, <1>15, <1>16

\* recv: an item, or the end of the channel.
LEMMA ReceiveService ==
    ASSUME StoreType, ControlType, Frames, Service, WorkerReceive \/ WorkerDisconnected
    PROVE  Service'
<1>0. /\ Own(Worker) /\ Recorded /\ pc[Worker] = "recv" /\ tries[Worker] = 0
      /\ DOMAIN pc = Threads /\ DOMAIN run = Threads
      /\ UNCHANGED <<status, admitted, abandoned, workerFailed, sender, faults, tries>>
      /\ \A t \in Submitters : t \in holders => t \in holders'
  BY WorkerOwn DEF WorkerMove, WorkerStep, WorkerReceive, WorkerDisconnected, At, Step, Goto, Service, ControlType, Frames, Converging,
     store, maps, flags, env, frame
<1>1. /\ pc'[Stopper] = pc[Stopper]
      /\ \A t \in Submitters : pc'[t] = pc[t] /\ run'[t] = run[t]
  BY <1>0, Kinds DEF Own, Frame
<1>2. ~Failing /\ ~workerFailed /\ pc[Stopper] \notin InterruptPC \cup {"stopped", "stop_failed"}
  BY <1>0 DEF Service, Ending, Failing, InterruptPC
<1>3. \A r \in Runs : status[r] \notin InFlight
  BY <1>0, <1>2 DEF Service, InFlightOwned, FlightPC, AbandonPC
<1>4. Submitting'
  <2> SUFFICES ASSUME NEW t \in Submitters PROVE SubmitOK(t)'
    BY DEF Submitting
  <2> QED  BY <1>0, <1>1 DEF Service, Submitting, SubmitOK
<1>5. InFlightOwned'
  BY <1>0, <1>3 DEF InFlightOwned
<1>6. CASE WorkerReceive
  <2>1. /\ queue # <<>> /\ queue' = Tail(queue) /\ run'[Worker] = Head(queue) /\ pc'[Worker] = "received"
    BY <1>0, <1>6, Kinds DEF WorkerReceive, Goto
  <2>2. /\ queue' \in Seq(Runs) /\ Head(queue) \in Runs /\ Head(queue) = queue[1] /\ Len(queue) \in Nat /\ Len(queue) > 0
        /\ Len(queue') = Len(queue) - 1 /\ DOMAIN queue = 1 .. Len(queue) /\ DOMAIN queue' = 1 .. Len(queue) - 1
        /\ \A i \in 1 .. Len(queue) - 1 : queue'[i] = queue[i + 1]
    <3>1. queue \in Seq(Runs) /\ queue # <<>>
      BY <1>0, <2>1 DEF Recorded
    <3>2. /\ Head(queue) = queue[1] /\ Len(queue) \in Nat /\ Len(queue) > 0 /\ DOMAIN queue = 1 .. Len(queue)
          /\ Head(queue) \in Runs
      BY <3>1
    <3>3. /\ Tail(queue) \in Seq(Runs) /\ Len(Tail(queue)) = Len(queue) - 1
          /\ \A i \in 1 .. Len(queue) - 1 : Tail(queue)[i] = queue[i + 1]
      BY <3>1
    <3>4. DOMAIN Tail(queue) = 1 .. Len(Tail(queue))
      BY <3>3
    <3> QED  BY <2>1, <3>2, <3>3, <3>4
  <2>3. Recorded' /\ status[Head(queue)] # Absent
    <3>1. 1 \in DOMAIN queue /\ \A i \in DOMAIN queue' : i + 1 \in DOMAIN queue /\ queue'[i] = queue[i + 1]
      BY <2>2
    <3> QED  BY <1>0, <2>2, <3>1 DEF Recorded
  <2>4. Working' /\ Converging'
    BY <1>0, <2>1, <2>2, <2>3 DEF Working, Converging, BeforePC, FlightPC, AbandonPC, AfterPC
  <2>5. Ending' /\ ~Failing'
    BY <1>0, <1>1, <1>2, <2>1 DEF Ending, Failing, InterruptPC
  <2>6. NothingStranded'
    <3> SUFFICES ASSUME NEW r \in Runs, r \in admitted', status'[r] = "queued" PROVE Carried(r)'
      BY DEF NothingStranded, Carried, CarryPC, BeforePC, Failing, At
    <3>1. Carried(r)
      BY <1>0, StrandedIff DEF Service
    <3>2. CASE \E i \in 1 .. Len(queue) : queue[i] = r
      <4>1. PICK i \in 1 .. Len(queue) : queue[i] = r
        BY <3>2
      <4>2. CASE i = 1
        BY <2>1, <2>2, <4>1, <4>2 DEF Carried, BeforePC
      <4>3. CASE i # 1
        <5>1. i - 1 \in 1 .. Len(queue) - 1 /\ queue'[i - 1] = r
          BY <2>2, <4>1, <4>3
        <5> QED  BY <2>2, <5>1 DEF Carried
      <4> QED  BY <4>2, <4>3
    <3>3. CASE \E t \in Submitters : run[t] = r /\ pc[t] \in CarryPC
      BY <1>1, <3>3 DEF Carried
    <3> QED  BY <1>0, <1>2, <3>1, <3>2, <3>3 DEF Carried, BeforePC
  <2> QED  BY <1>4, <1>5, <2>3, <2>4, <2>5, <2>6 DEF Service
<1>7. CASE WorkerDisconnected
  <2>1. queue = <<>> /\ queue' = queue /\ ~sender /\ holders = {} /\ pc'[Worker] = "exited" /\ run' = run
    BY <1>0, <1>7, Kinds DEF WorkerDisconnected, Step, Goto, frame
  <2>2. Recorded' /\ Working' /\ Converging'
    BY <1>0, <2>1 DEF Recorded, Working, Converging, BeforePC, FlightPC, AbandonPC, AfterPC
  <2>3. \A t \in Submitters : pc[t] # "s_send"
    BY <2>1 DEF Service, Submitting, SubmitOK
  <2>4. Ending'
    BY <1>0, <1>1, <1>2, <2>1, <2>3 DEF Ending, Failing, InterruptPC
  <2>5. NothingStranded'
    <3> SUFFICES ASSUME NEW r \in Runs, r \in admitted', status'[r] = "queued" PROVE Carried(r)'
      BY DEF NothingStranded, Carried, CarryPC, BeforePC, Failing, At
    <3>1. Carried(r)
      BY <1>0, StrandedIff DEF Service
    <3> QED  BY <1>0, <1>1, <1>2, <2>1, <3>1 DEF Carried, BeforePC
  <2> QED  BY <1>4, <1>5, <2>2, <2>4, <2>5 DEF Service
<1> QED  BY <1>6, <1>7

\* A worker that fails, interrupts what is admitted and leaves.
LEMMA FailService ==
    ASSUME StoreType, ControlType, Frames, Service,
           WorkerStoreFault \/ WorkerDying \/ WorkerLeave \/ InterruptMove(Worker)
    PROVE  Service'
<1>0. Own(Worker) /\ Ending /\ DOMAIN pc = Threads /\ DOMAIN Woken = Threads /\ faults \in Nat
  BY WorkerOwn DEF WorkerMove, WorkerStep, InterruptMove, Service, ControlType, Woken, Frames
<1>1. /\ pc'[Stopper] = pc[Stopper] /\ \A t \in Submitters : pc'[t] = pc[t] /\ run'[t] = run[t]
  BY <1>0, Kinds DEF Own, Frame
<1>2. /\ pc[Worker] \in StorePC \cup InterruptPC \cup {"dying", "leaving"} /\ sender' = sender
      /\ pc[Worker] # "exited"
  BY DEF WorkerStoreFault, WorkerDying, WorkerLeave, InterruptMove, InterruptStoreFault, InterruptStep, InterruptSnapshot, InterruptRead,
     InterruptWrite, InterruptClear, InterruptNotify, At, InterruptPC, StorePC
<1>3. pc[Stopper] \notin InterruptPC \cup {"stopped", "stop_failed"}
  BY <1>0, <1>2 DEF Ending
<1>4. /\ \A t \in Submitters : t \in holders => t \in holders'
      /\ queue' = queue \/ queue' = <<>>
      /\ admitted \subseteq Runs /\ admitted' \subseteq admitted
  BY Kinds DEF WorkerStoreFault, WorkerDying, WorkerLeave, InterruptMove, InterruptStoreFault, InterruptStep, InterruptSnapshot, InterruptRead,
     InterruptWrite, InterruptClear, InterruptNotify, EndCall, Goto, Step, frame, maps, Service, Recorded
<1>5. Inside
  <2>1. CASE InterruptWrite(Worker) /\ ~Conflict(Worker, seen[Worker])
    <3>1. PICK to \in {"cancelled", "interrupted"} : Transition(Worker, seen[Worker], to, "run_manager_stopped")
      BY <2>1 DEF InterruptWrite
    <3>2. /\ ValidTransition(seen[Worker], to) /\ status[run[Worker]] = seen[Worker]
          /\ \A r \in Runs : IF r = run[Worker] THEN status'[r] = to ELSE status'[r] = status[r]
      BY <3>1, OneWritten
    <3>3. seen[Worker] \notin Terminal \cup {Absent} /\ to \notin {Absent, "queued"}
      BY <3>1, <3>2 DEF ValidTransition, Terminal, Absent
    <3> QED  BY <3>2, <3>3 DEF Inside
  <2>2. CASE ~InterruptWrite(Worker) \/ Conflict(Worker, seen[Worker])
    <3>1. UNCHANGED status
      BY <2>2 DEF Conflict, WorkerStoreFault, WorkerDying, WorkerLeave, InterruptMove, InterruptStoreFault, InterruptStep, InterruptSnapshot, InterruptRead,
         InterruptClear, InterruptNotify, store
    <3> QED  BY <3>1 DEF Inside
  <2> QED  BY <2>1, <2>2
<1>6. /\ faults' > 0 /\ Failing'
      /\ pc'[Worker] \in InterruptPC \cup {"dying", "leaving", "exited"}
      /\ pc'[Worker] # "dying" => workerFailed'
      /\ pc'[Worker] = "dying" => ~workerFailed'
  <2>1. CASE WorkerStoreFault
    <3>1. pc'[Worker] = "dying" /\ workerFailed' = workerFailed /\ faults' = faults + 1 /\ pc[Worker] \in StorePC
      BY <1>0, <2>1, Kinds DEF WorkerStoreFault, Step, Goto, flags
    <3>2. ~workerFailed
      BY <1>0, <3>1 DEF Ending, StorePC, InterruptPC
    <3> QED  BY <1>0, <3>1, <3>2 DEF Failing
  <2>2. CASE WorkerDying
    <3>1. pc[Worker] = "dying" /\ pc'[Worker] = "ia_snapshot" /\ workerFailed' /\ faults' = faults
      BY <1>0, <2>2, Kinds DEF WorkerDying, Step, Goto, At, env
    <3> QED  BY <1>0, <3>1 DEF Failing, Ending, InterruptPC
  <2>3. CASE WorkerLeave \/ InterruptMove(Worker)
    <3>1. pc[Worker] \in InterruptPC \cup {"leaving"} /\ workerFailed' = workerFailed /\ faults' = faults
      BY <2>3 DEF WorkerLeave, InterruptMove, InterruptStoreFault, InterruptStep, InterruptSnapshot, InterruptRead, InterruptWrite, InterruptClear,
         InterruptNotify, At, InterruptPC, flags, env
    <3>2. pc'[Worker] \in InterruptPC \cup {"leaving", "exited"} /\ pc'[Worker] # "dying"
      BY <1>0, <2>3, Kinds DEF WorkerLeave, InterruptMove, InterruptStoreFault, InterruptStep, InterruptSnapshot, InterruptRead, InterruptWrite, InterruptClear,
         InterruptNotify, AfterInterrupt, Goto, Step, InterruptPC
    <3>3. workerFailed /\ faults > 0
      BY <1>0, <3>1 DEF Ending, Failing
    <3> QED  BY <3>1, <3>2, <3>3 DEF Failing
  <2> QED  BY <2>1, <2>2, <2>3
<1>7. Submitting' /\ Recorded'
  BY <1>0, <1>4, <1>5, InsideKeeps
<1>8. Working' /\ Converging' /\ InFlightOwned'
  BY <1>6 DEF Working, Converging, InFlightOwned, InterruptPC, BeforePC, FlightPC, AbandonPC, AfterPC
<1>9. Ending'
  BY <1>1, <1>3, <1>6 DEF Ending, InterruptPC
<1>10. NothingStranded'
  BY <1>6 DEF NothingStranded, Failing, At
<1> QED  BY <1>7, <1>8, <1>9, <1>10 DEF Service

\* interrupt_admitted after the worker has been joined.
LEMMA StopService ==
    ASSUME StoreType, ControlType, Frames, Service, InterruptMove(Stopper)
    PROVE  Service'
<1>0. Own(Stopper) /\ Ending /\ DOMAIN pc = Threads /\ DOMAIN Woken = Threads
  BY StopperOwn DEF StopperMove, InterruptMove, ShutdownStep, Service, ControlType, Woken
<1>1. /\ pc[Stopper] \in InterruptPC /\ pc[Worker] = "exited"
      /\ UNCHANGED <<workerFailed, sender, faults, queue, abandoned, holders>>
      /\ admitted \subseteq Runs /\ admitted' \subseteq admitted
  BY <1>0 DEF InterruptMove, InterruptStoreFault, InterruptStep, InterruptSnapshot, InterruptRead, InterruptWrite, InterruptClear, InterruptNotify,
     Ending, At, InterruptPC, Goto, Step, flags, env, frame, maps, Service, Recorded
<1>2. /\ pc'[Worker] = pc[Worker] /\ run'[Worker] = run[Worker]
      /\ \A t \in Submitters : pc'[t] = pc[t] /\ run'[t] = run[t]
  BY <1>0, Kinds DEF Own, Frame
<1>3. /\ pc'[Stopper] = "stopped" => ~workerFailed
  BY <1>0, Kinds DEF InterruptMove, InterruptStoreFault, InterruptStep, InterruptSnapshot, InterruptRead, InterruptWrite, InterruptClear, InterruptNotify,
     AfterInterrupt, Goto, Step
<1>4. \A r \in Runs : \/ status'[r] = status[r]
                      \/ status[r] \notin Terminal \cup {Absent} /\ status'[r] \in {"cancelled", "interrupted"}
  <2>1. CASE InterruptWrite(Stopper) /\ ~Conflict(Stopper, seen[Stopper])
    <3>1. PICK to \in {"cancelled", "interrupted"} : Transition(Stopper, seen[Stopper], to, "run_manager_stopped")
      BY <2>1 DEF InterruptWrite
    <3>2. /\ ValidTransition(seen[Stopper], to) /\ status[run[Stopper]] = seen[Stopper]
          /\ \A r \in Runs : IF r = run[Stopper] THEN status'[r] = to ELSE status'[r] = status[r]
      BY <3>1, OneWritten
    <3>3. seen[Stopper] \notin Terminal \cup {Absent}
      BY <3>1, <3>2 DEF ValidTransition, Terminal, Absent
    <3> QED  BY <3>2, <3>3
  <2>2. CASE ~InterruptWrite(Stopper) \/ Conflict(Stopper, seen[Stopper])
    <3>1. UNCHANGED status
      BY <2>2 DEF Conflict, InterruptMove, InterruptStoreFault, InterruptStep, InterruptSnapshot, InterruptRead, InterruptClear, InterruptNotify, store
    <3> QED  BY <3>1
  <2> QED  BY <2>1, <2>2
<1>5. {"cancelled", "interrupted"} \cap (InFlight \cup {Absent, "queued"}) = {}
  BY DEF InFlight, Absent
<1>6. Submitting'
  <2> SUFFICES ASSUME NEW t \in Submitters PROVE SubmitOK(t)'
    BY DEF Submitting
  <2> QED  BY <1>1, <1>2, <1>4, <1>5 DEF Service, Submitting, SubmitOK
<1>7. Recorded'
  BY <1>1, <1>4, <1>5 DEF Service, Recorded
<1>8. Working' /\ Converging'
  BY <1>1, <1>2 DEF Working, Converging, BeforePC, FlightPC, AbandonPC, AfterPC
<1>9. InFlightOwned'
  BY <1>1, <1>2, <1>4, <1>5 DEF Service, InFlightOwned, Failing, FlightPC, AbandonPC
<1>10. Ending'
  BY <1>0, <1>1, <1>2, <1>3 DEF Ending, Failing
<1>11. NothingStranded'
  <2> SUFFICES ASSUME NEW r \in Runs, r \in admitted', status'[r] = "queued" PROVE Carried(r)'
    BY DEF NothingStranded, Carried, CarryPC, BeforePC, Failing, At
  <2>1. Carried(r)
    BY <1>1, <1>4, StrandedIff DEF Service
  <2> QED  BY <1>1, <1>2, <2>1 DEF Carried, Failing
<1> QED  BY <1>6, <1>7, <1>8, <1>9, <1>10, <1>11 DEF Service

\* A new process finds no run in flight, and nobody in a call.
LEMMA FreshService ==
    ASSUME pc = [t \in Threads |-> StartPC(t)], queue = <<>>, admitted = {}, ~workerFailed,
           tries = [t \in Threads |-> 0], \A r \in Runs : status[r] \notin InFlight
    PROVE  Service
<1>1. pc[Worker] = "recv" /\ pc[Stopper] = "serving" /\ tries[Worker] = 0 /\ \A t \in Submitters : pc[t] = "idle"
  BY Kinds DEF StartPC
<1>2. Submitting
  BY <1>1 DEF Submitting, SubmitOK
<1>3. Recorded
  BY DEF Recorded
<1>4. Working /\ Converging
  BY <1>1 DEF Working, Converging, BeforePC, FlightPC, AbandonPC, AfterPC
<1>5. Ending
  BY <1>1 DEF Ending, Failing, InterruptPC
<1>6. InFlightOwned /\ NothingStranded
  BY DEF InFlightOwned, NothingStranded
<1> QED  BY <1>2, <1>3, <1>4, <1>5, <1>6 DEF Service

LEMMA RestartService ==
    ASSUME StoreType, Frames, Restart
    PROVE  Service' /\ Frames'
<1>1. /\ pc' = [t \in Threads |-> StartPC(t)] /\ queue' = <<>> /\ admitted' = {} /\ ~workerFailed'
      /\ tries' = [t \in Threads |-> 0] /\ run' = [t \in Threads |-> NoRun] /\ seen' = [t \in Threads |-> Absent]
      /\ faults' = faults
  BY DEF Restart, Start
<1>2. \A r \in Runs : status'[r] \notin InFlight
  BY DEF Restart, RecoverInterrupted, InFlight
<1>3. Frames'
  BY <1>1 DEF Frames
<1>4. pc'[Worker] = "recv" /\ pc'[Stopper] = "serving" /\ tries'[Worker] = 0 /\ \A t \in Submitters : pc'[t] = "idle"
  BY <1>1, Kinds DEF StartPC
<1>5. Submitting' /\ Recorded'
  <2>1. Submitting'
    BY <1>4 DEF Submitting, SubmitOK
  <2>2. admitted' \subseteq Runs /\ queue' \in Seq(Runs) /\ DOMAIN queue' = {}
    BY <1>1
  <2>3. Recorded'
    BY <1>1, <2>2 DEF Recorded
  <2> QED  BY <2>1, <2>3
<1>6. Working' /\ Converging'
  BY <1>4 DEF Working, Converging, BeforePC, FlightPC, AbandonPC, AfterPC
<1>7. Ending' /\ InFlightOwned' /\ NothingStranded'
  BY <1>1, <1>2, <1>4 DEF Ending, Failing, InterruptPC, InFlightOwned, NothingStranded
<1> QED  BY <1>3, <1>5, <1>6, <1>7 DEF Service

\* Every step.
ServiceInv == SafeControl /\ Frames /\ Service

LEMMA ServiceStep == ServiceInv /\ [Next]_vars => ServiceInv'
<1> SUFFICES ASSUME ServiceInv, [Next]_vars PROVE ServiceInv'
  OBVIOUS
<1>0. StoreType /\ ControlType /\ Frames /\ Service /\ SafeControl'
  BY SafeControlStep DEF ServiceInv, SafeControl
<1> SUFFICES Frames' /\ Service'
  BY <1>0 DEF ServiceInv
<1>1. ASSUME NEW t \in Submitters, SubmitMove(t) PROVE Frames' /\ Service'
  BY <1>0, <1>1, SubmitService, SubmitOwn DEF Own
<1>2. ASSUME NEW t \in Cancellers, CancelMove(t) PROVE Frames' /\ Service'
  BY <1>0, <1>2, ClientService, CancelOwn DEF Own
<1>3. ASSUME NEW t \in Waiters, WaitMove(t) PROVE Frames' /\ Service'
  BY <1>0, <1>3, ClientService, WaitOwn DEF Own
<1>4. CASE WorkerMove
  <2>1. Frames'
    BY <1>0, <1>4, WorkerOwn DEF Own
  <2>2. CASE \/ WorkerReceived \/ WorkerCancelQueued \/ WorkerStart \/ WorkerStartConflict
            \/ WorkerRegister \/ WorkerCheckStop \/ WorkerReread \/ WorkerRun \/ WorkerRunConflict
            \/ WorkerExecuted
    BY <1>0, <2>1, <2>2, ExecuteService
  <2>3. CASE \/ SettleRead \/ SettleDecide \/ SettleWrite \/ WorkerSettled \/ FinishCancelledRead
            \/ FinishCancelledWrite \/ WorkerFinalize \/ FinishAdmission(Worker) \/ NotifyProgress(Worker)
    BY <1>0, <2>1, <2>3, SettleService
  <2>4. CASE WorkerReceive \/ WorkerDisconnected
    BY <1>0, <2>1, <2>4, ReceiveService
  <2>5. CASE WorkerStoreFault \/ WorkerDying \/ WorkerLeave \/ InterruptMove(Worker)
    BY <1>0, <2>1, <2>5, FailService
  <2> QED  BY <1>4, <2>2, <2>3, <2>4, <2>5 DEF WorkerMove, WorkerStep, InterruptMove
<1>5. CASE StopperMove
  <2>1. Frames'
    BY <1>0, <1>5, StopperOwn DEF Own
  <2>2. CASE ShutdownFlag \/ ShutdownTokens \/ ShutdownSender \/ ShutdownJoin
    BY <1>0, <2>1, <2>2, ShutdownService
  <2>3. CASE InterruptMove(Stopper)
    BY <1>0, <2>1, <2>3, StopService
  <2> QED  BY <1>5, <2>2, <2>3 DEF StopperMove, ShutdownStep, InterruptMove
<1>6. CASE Restart
  BY <1>0, <1>6, RestartService
<1>7. CASE UNCHANGED vars
  <2>1. UNCHANGED <<status, pc, run, seen, tries, queue, admitted, abandoned, holders, sender, workerFailed, faults, plan>>
    BY <1>7 DEF vars, store, maps, flags, frame, env
  <2>2. Frames' /\ Submitting' /\ Recorded'
    BY <1>0, <2>1 DEF Frames, Service, Submitting, SubmitOK, Recorded
  <2>3. Working' /\ Converging'
    BY <1>0, <2>1 DEF Service, Working, Converging
  <2>4. InFlightOwned'
    BY <1>0, <2>1, Zenon DEF Service, InFlightOwned, Failing
  <2>5. Ending'
    BY <1>0, <2>1, Zenon DEF Service, Ending, Failing
  <2>6. NothingStranded'
    BY <1>0, <2>1, Zenon DEF Service, NothingStranded, At
  <2> QED  BY <2>2, <2>3, <2>4, <2>5, <2>6 DEF Service
<1> QED  BY <1>0, <1>1, <1>2, <1>3, <1>4, <1>5, <1>6, <1>7, NextMoves

LEMMA ServiceInit == Init => ServiceInv
<1> SUFFICES ASSUME Init PROVE ServiceInv
  OBVIOUS
<1>1. SafeControl
  BY SafeControlInit
<1>2. Frames
  BY DEF Init, Frames
<1>3. \A r \in Runs : status[r] \notin InFlight
  BY DEF Init, Absent, InFlight
<1>4. Service
  BY <1>3, FreshService DEF Init
<1> QED  BY <1>1, <1>2, <1>4 DEF ServiceInv

\* ServiceInv is an invariant of every behaviour.
THEOREM ServiceInductive == Spec => []ServiceInv
BY ServiceInit, ServiceStep, PTL DEF Spec

\* Only a failing store call of its own ends the worker: no interleaving of submits, cancels,
\* shutdowns and failing calls of other threads makes
\* it meet a start conflict it cannot settle, a loop that gives up or a turn it cannot finalise.
THEOREM WorkerAlwaysSurvives == Spec => []WorkerSurvives
<1>1. ServiceInv => WorkerSurvives
  BY DEF ServiceInv, Service, Ending, Failing, WorkerSurvives, At
<1> QED  BY <1>1, ServiceInductive, PTL

\* While the worker has not failed, an admitted run that is still queued is in the channel, with
\* the worker or with the submitter that admitted it, or it is one of the runs whose own
\* rejection ended in a store error: no other step of reject_admission, enqueue, execute_item,
\* cancel or shutdown leaves a run behind.
THEOREM NothingEverStranded == Spec => []NothingStranded
<1>1. ServiceInv => NothingStranded
  BY DEF ServiceInv, Service
<1> QED  BY <1>1, ServiceInductive, PTL

\* A shutdown that reports success left no run in flight and nothing admitted, apart from submit
\* calls that are being refused and runs whose refusal ended in a store error.
THEOREM ShutdownAlwaysComplete == Spec => []ShutdownComplete
<1>1. ServiceInv => ShutdownComplete
  <2> SUFFICES ASSUME ServiceInv, pc[Stopper] = "stopped"
               PROVE  /\ pc[Worker] = "exited" /\ queue = <<>>
                      /\ \A r \in Runs : status[r] \notin InFlight
                      /\ \A r \in admitted :
                            \/ status[r] \in Terminal
                            \/ \E t \in Submitters : run[t] = r /\ pc[t] \in {"s_sender", "rj_read", "rj_cas"}
                            \/ r \in abandoned
    BY DEF ShutdownComplete, At
  <2>1. pc[Worker] = "exited" /\ ~workerFailed /\ queue = <<>> /\ \A t \in Submitters : pc[t] # "s_send"
    BY DEF ServiceInv, Service, Ending
  <2>2. \A r \in Runs : status[r] \notin InFlight
    BY <2>1 DEF ServiceInv, Service, InFlightOwned, Failing, FlightPC, AbandonPC
  <2>3. ASSUME NEW r \in admitted, status[r] \notin Terminal
        PROVE  \/ \E t \in Submitters : run[t] = r /\ pc[t] \in {"s_sender", "rj_read", "rj_cas"}
               \/ r \in abandoned
    <3>1. r \in Runs /\ status[r] = "queued"
      BY <2>2, <2>3 DEF ServiceInv, SafeControl, StoreType, Service, Recorded, RunState
    <3>2. Carried(r)
      BY <2>3, <3>1, StrandedIff DEF ServiceInv, Service
    <3> QED  BY <2>1, <3>2 DEF Carried, CarryPC, BeforePC, Failing
  <2> QED  BY <2>1, <2>2, <2>3
<1> QED  BY <1>1, ServiceInductive, PTL

-----------------------------------------------------------------------------
(* Who writes a success.                                                   *)

\* A step that does not make a run with a pending cancellation succeed.
Honours == \A r \in Runs : status[r] = "cancel_requested" => status'[r] # "succeeded"

LEMMA WriteHonours ==
    ASSUME StoreType, NEW t, NEW from, NEW to, NEW kind, Transition(t, from, to, kind),
           to # "succeeded" \/ from # "cancel_requested"
    PROVE  Honours
BY OneWritten DEF Honours

LEMMA UnchangedHonours ==
    ASSUME UNCHANGED status
    PROVE  Honours
BY DEF Honours

LEMMA InterruptHonours ==
    ASSUME StoreType, NEW t, InterruptMove(t)
    PROVE  Honours
<1>1. CASE InterruptWrite(t)
  <2> DEFINE to == IF seen[t] = "queued" THEN "cancelled" ELSE "interrupted"
  <2>1. to # "succeeded"
    OBVIOUS
  <2>2. Transition(t, seen[t], to, "run_manager_stopped") \/ Conflict(t, seen[t])
    BY <1>1 DEF InterruptWrite
  <2> HIDE DEF to
  <2> QED  BY <2>1, <2>2, WriteHonours, UnchangedHonours DEF Conflict
<1>2. CASE \/ InterruptSnapshot(t) \/ InterruptRead(t) \/ InterruptClear(t) \/ InterruptNotify(t)
           \/ InterruptStoreFault(t)
  BY <1>2, UnchangedHonours DEF InterruptSnapshot, InterruptRead, InterruptClear, InterruptNotify,
     InterruptStoreFault, store
<1> QED  BY <1>1, <1>2 DEF InterruptMove, InterruptStep

LEMMA WorkerHonours ==
    ASSUME StoreType, ControlType, Service, WorkerMove
    PROVE  Honours
<1>1. CASE WorkerCancelQueued
  BY <1>1, WriteHonours, UnchangedHonours DEF WorkerCancelQueued, Conflict
<1>2. CASE WorkerStart
  BY <1>2, WriteHonours, UnchangedHonours DEF WorkerStart, Conflict
<1>3. CASE WorkerRun
  BY <1>3, WriteHonours DEF WorkerRun
<1>4. CASE WorkerRunConflict
  BY <1>4, UnchangedHonours DEF WorkerRunConflict, Conflict
<1>5. CASE SettleWrite
  <2>1. plan # "succeeded" \/ seen[Worker] # "cancel_requested"
    BY <1>5 DEF SettleWrite, At, Service, Working
  <2>2. Transition(Worker, seen[Worker], plan, OutcomeEvent(plan)) \/ Conflict(Worker, seen[Worker])
    BY <1>5 DEF SettleWrite
  <2> QED  BY <2>1, <2>2, WriteHonours, UnchangedHonours DEF Conflict
<1>6. CASE FinishCancelledWrite
  BY <1>6, WriteHonours, UnchangedHonours DEF FinishCancelledWrite, Conflict
<1>7. CASE InterruptMove(Worker)
  BY <1>7, InterruptHonours
<1>8. CASE \/ WorkerReceive \/ WorkerDisconnected \/ WorkerReceived \/ WorkerStartConflict
           \/ WorkerRegister \/ WorkerCheckStop \/ WorkerReread \/ WorkerExecuted
           \/ SettleRead \/ SettleDecide \/ WorkerSettled \/ FinishCancelledRead
           \/ WorkerFinalize \/ WorkerDying \/ WorkerLeave \/ WorkerStoreFault
           \/ FinishAdmission(Worker) \/ NotifyProgress(Worker)
  BY <1>8, UnchangedHonours DEF WorkerReceive, WorkerDisconnected, WorkerReceived,
     WorkerStartConflict, WorkerRegister, WorkerCheckStop, WorkerReread, WorkerExecuted,
     SettleRead, SettleDecide, WorkerSettled, FinishCancelledRead, WorkerFinalize,
     WorkerDying, WorkerLeave, WorkerStoreFault, FinishAdmission, NotifyProgress, store
<1> QED  BY <1>1, <1>2, <1>3, <1>4, <1>5, <1>6, <1>7, <1>8 DEF WorkerMove, WorkerStep, InterruptMove

LEMMA StepHonours == ServiceInv /\ [Next]_vars => [Honours]_vars
<1> SUFFICES ASSUME ServiceInv, Next PROVE Honours
  OBVIOUS
<1>0. StoreType /\ ControlType /\ Service
  BY DEF ServiceInv, SafeControl
<1>1. ASSUME NEW t \in Submitters, SubmitMove(t) PROVE Honours
  <2>1. CASE SubmitCreate(t)
    BY <1>0, <2>1 DEF SubmitCreate, Write, Status, Absent, Honours, StoreType
  <2>2. CASE RejectWrite(t) \/ RejectStoreFault(t)
    BY <1>0, <2>2, WriteHonours, UnchangedHonours DEF RejectWrite, RejectStoreFault, Conflict
  <2>3. CASE \/ SubmitBegin(t) \/ SubmitExisting(t) \/ SubmitAdmit(t) \/ SubmitSender(t)
             \/ SubmitSend(t) \/ SubmitRefused(t) \/ RejectRead(t) \/ FinishAdmission(t)
             \/ NotifyProgress(t) \/ ClientStoreFault(t)
    BY <2>3, UnchangedHonours DEF SubmitBegin, SubmitExisting, SubmitAdmit, SubmitSender,
       SubmitSend, SubmitRefused, RejectRead, FinishAdmission, NotifyProgress, ClientStoreFault, store
  <2> QED  BY <1>1, <2>1, <2>2, <2>3 DEF SubmitMove, SubmitStep
<1>2. ASSUME NEW t \in Cancellers, CancelMove(t) PROVE Honours
  <2>1. CASE CancelWrite(t)
    BY <1>0, <2>1, WriteHonours, UnchangedHonours DEF CancelWrite, Conflict
  <2>2. CASE CancelBegin(t) \/ CancelRead(t) \/ CancelToken(t) \/ NotifyProgress(t) \/ ClientStoreFault(t)
    BY <2>2, UnchangedHonours DEF CancelBegin, CancelRead, CancelToken, NotifyProgress, ClientStoreFault, store
  <2> QED  BY <1>2, <2>1, <2>2 DEF CancelMove, CancelStep
<1>3. ASSUME NEW t \in Waiters, WaitMove(t) PROVE Honours
  BY <1>3, UnchangedHonours DEF WaitMove, ClientStoreFault, WaitBegin, WaitRead, WaitTimeout, store
<1>4. CASE WorkerMove
  BY <1>0, <1>4, WorkerHonours
<1>5. CASE StopperMove
  BY <1>0, <1>5, UnchangedHonours, InterruptHonours DEF StopperMove, InterruptMove, ShutdownFlag, ShutdownStep, ShutdownTokens,
     ShutdownSender, ShutdownJoin, store
<1>6. CASE Restart
  BY <1>6 DEF Restart, RecoverInterrupted, InFlight, Honours
<1> QED  BY <1>1, <1>2, <1>3, <1>4, <1>5, <1>6, NextMoves

\* A cancellation the manager acknowledged while the run was in flight is never overtaken by a
\* success: the worker compares against a status it has seen, and plans a success only when that
\* status is not cancel_requested.
THEOREM CancellationAlwaysWins == Spec => CancellationWins
BY ServiceInductive, StepHonours, PTL DEF Spec, CancellationWins, Honours

=============================================================================
