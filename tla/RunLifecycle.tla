---------------------------- MODULE RunLifecycle ----------------------------
(***************************************************************************)
(* What the runtime promises about its durable runs, whatever threads,     *)
(* queues, cancellations, shutdowns and restarts produce it: a run is      *)
(* admitted once, advances only along the lifecycle graph, records every   *)
(* advance as one ledger entry in the same transaction, starts its         *)
(* executor at most once, and after a restart is interrupted or still      *)
(* queued, never replayed.                                                 *)
(***************************************************************************)
EXTENDS RunStates

CONSTANT Runs

VARIABLES status,      \* the status column of each run
          ledger,      \* the ordered run_events of each run
          executions   \* how often an executor was started for each run

lifecycle == <<status, ledger, executions>>

Init ==
    /\ status = [r \in Runs |-> Absent]
    /\ ledger = [r \in Runs |-> <<>>]
    /\ executions = [r \in Runs |-> 0]

\* A new idempotency key becomes a queued run.
Admit(r) ==
    /\ status[r] = Absent
    /\ status' = [status EXCEPT ![r] = "queued"]
    /\ ledger' = [ledger EXCEPT ![r] = Append(@, "run_queued")]
    /\ UNCHANGED executions

\* One run advances one edge of the graph, with the event that says so.
Advance(r, to, kind) ==
    /\ ValidTransition(status[r], to)
    /\ ProjectsLatest(kind, to)
    /\ status' = [status EXCEPT ![r] = to]
    /\ ledger' = [ledger EXCEPT ![r] = Append(@, kind)]

\* Starting a run is the only edge on which its executor begins.
Begin(r) ==
    /\ Advance(r, "running", "run_started")
    /\ executions' = [executions EXCEPT ![r] = @ + 1]

Settle(r) ==
    /\ \E to \in {s \in RunState \ {"running"} : ValidTransition(status[r], s)}, kind \in EventKind :
          Advance(r, to, kind)
    /\ UNCHANGED executions

\* A restart interrupts every run that was in flight, all in one transaction, and
\* leaves the queued ones queued.
Recover ==
    /\ status' = [r \in Runs |-> IF status[r] \in InFlight THEN "interrupted" ELSE status[r]]
    /\ ledger' = [r \in Runs |-> IF status[r] \in InFlight
                                 THEN Append(ledger[r], "run_recovered_interrupted")
                                 ELSE ledger[r]]
    /\ UNCHANGED executions

Next ==
    \/ \E r \in Runs : Admit(r) \/ Begin(r) \/ Settle(r)
    \/ Recover

Spec == Init /\ [][Next]_lifecycle

-----------------------------------------------------------------------------
TypeOK ==
    /\ status \in [Runs -> RunState \cup {Absent}]
    /\ ledger \in [Runs -> Seq(EventKind)]
    /\ executions \in [Runs -> Nat]

\* An executor is started at most once for a run, and not before the run leaves
\* starting: transition_run cannot take the edge into running twice.
StartsOnce ==
    \A r \in Runs : /\ executions[r] <= 1
                    /\ status[r] \in {Absent, "queued", "starting"} => executions[r] = 0

\* Every ledger is accepted by run_events_page and run_snapshot.
LedgersProject ==
    \A r \in Runs : IF status[r] = Absent THEN ledger[r] = <<>>
                    ELSE Projectable(status[r], ledger[r])

\* A step leaves the status and the ledger of every settled run alone.
SettledStay ==
    \A r \in Runs : status[r] \in Terminal => status'[r] = status[r] /\ ledger'[r] = ledger[r]

\* A terminal state is final, for the status and for the ledger.
TerminalIsFinal == [][SettledStay]_lifecycle
=============================================================================
