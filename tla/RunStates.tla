----------------------------- MODULE RunStates -----------------------------
(***************************************************************************)
(* The durable vocabulary of a run: its lifecycle states, the transition   *)
(* graph the store enforces, the kinds of event the ledger holds, and the  *)
(* projection of a ledger entry at the application boundary.               *)
(*   src/app_core/run.rs, src/runtime/store/projection.rs                  *)
(***************************************************************************)
EXTENDS Naturals, Sequences

\* A run that has no row in the runs table.
Absent == "absent"

InFlight == {"starting", "running", "cancel_requested"}

Terminal == {"succeeded", "failed", "cancelled", "interrupted"}

RunState == {"queued"} \cup InFlight \cup Terminal

\* RunState::validate_transition.
ValidTransition(from, to) ==
    \/ /\ from = "queued"
       /\ to \in {"starting", "cancel_requested", "cancelled", "failed", "interrupted"}
    \/ /\ from = "starting"
       /\ to \in {"running", "cancel_requested", "cancelled", "failed", "interrupted"}
    \/ /\ from = "running"
       /\ to \in {"cancel_requested", "succeeded", "failed", "cancelled", "interrupted"}
    \/ /\ from = "cancel_requested"
       /\ to \in Terminal

EventKind == {"run_queued", "run_starting", "run_started", "run_cancel_requested",
              "run_succeeded", "run_failed", "run_cancelled",
              "run_manager_stopped", "run_recovered_interrupted"}

\* The states that lifecycle_state(project_run_event(kind)) may report. Only
\* run_manager_stopped depends on the state of the run.
ProjectedStates(kind) ==
    CASE kind = "run_queued"                -> {"queued"}
      [] kind = "run_starting"              -> {"starting"}
      [] kind = "run_started"               -> {"running"}
      [] kind = "run_cancel_requested"      -> {"cancel_requested"}
      [] kind = "run_succeeded"             -> {"succeeded"}
      [] kind = "run_failed"                -> {"failed"}
      [] kind = "run_cancelled"             -> {"cancelled"}
      [] kind = "run_manager_stopped"       -> {"cancelled", "interrupted"}
      [] kind = "run_recovered_interrupted" -> {"interrupted"}

\* project_run_event(event, Some(state)): the latest event must agree with the
\* status column of the run.
ProjectsLatest(kind, state) == state \in ProjectedStates(kind)

\* project_run_event(event, None): an event that is not the latest one. A
\* manager-stop entry cannot be projected without the state of the run.
ProjectsEarlier(kind) == kind # "run_manager_stopped"

\* run_events_page and project_run_snapshot accept the ledger of a run: no entry
\* is refused as corrupt.
Projectable(state, ledger) ==
    /\ Len(ledger) > 0
    /\ ProjectsLatest(ledger[Len(ledger)], state)
    /\ \A i \in 1 .. Len(ledger) - 1 : ProjectsEarlier(ledger[i])

\* How far a run has advanced. Every transition of the graph raises it.
Rank(state) ==
    CASE state = Absent             -> 0
      [] state = "queued"           -> 1
      [] state = "starting"         -> 2
      [] state = "running"          -> 3
      [] state = "cancel_requested" -> 4
      [] OTHER                      -> 5
=============================================================================
