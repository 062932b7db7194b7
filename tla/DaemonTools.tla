----------------------------- MODULE DaemonTools -----------------------------
(***************************************************************************)
(* How the daemon invokes tools for protocol v3 (src/daemon/runtime_v3.rs) *)
(* over ToolLedger: read-only tools run at once; the tool that obsoletes a *)
(* memory record runs when the identical call is submitted again after it  *)
(* was approved.  The daemon serves one request at a time; it can end      *)
(* between any two durable steps, and its clock is the system's.  Nobody   *)
(* reopens the store while it is up.                                       *)
(***************************************************************************)
EXTENDS ToolLedger

CONSTANTS MaxFaults,    \* bound: failing writes, failing effects and crashes
          Adjustable    \* whether the clock can also be set back

ASSUME FaultsAssumption == MaxFaults \in Nat /\ Adjustable \in BOOLEAN

VARIABLES up,           \* whether the daemon runs
          used,         \* used_tool_call_ids
          authorised,   \* audit rows "v3_tool_authorization", counted by call
          effects,      \* what the memory backend was asked to do: digests, by call
          job,          \* the frame of invoke_approved_memory_effect
          faults

ledger == <<approvals, executions, governed>>
vars   == <<clock, ledger, up, used, authorised, effects, job, faults>>

Idle == [step |-> "idle", call |-> None, digest |-> None, id |-> None, outcome |-> "failed"]

Steps == {"idle", "prepared", "authorised", "acted"}

\* The types of the variables, and the CHECKs of the tables: no operation writes a row that
\* its table would refuse.
TypeOK ==
    /\ clock \in Times
    /\ approval \in [Calls -> ApprovalRow]
    /\ execution \in [Calls -> ExecutionRow]
    /\ \A c \in Calls : Checked(approval[c], execution[c])
    /\ up \in BOOLEAN
    /\ used \subseteq Calls
    /\ authorised \in [Calls -> Nat]
    /\ effects \in [Calls -> Seq(Digests)]
    /\ job \in [step : Steps, call : Calls \cup {None}, digest : Digests \cup {None},
                id : Ids \cup {None}, outcome : Outcomes]
    /\ faults \in 0 .. MaxFaults

-----------------------------------------------------------------------------
\* The daemon takes its next request.
Ready == up /\ job = Idle

Fault == faults < MaxFaults /\ faults' = faults + 1

\* InvokeTool, approval required, no approval yet: reserve the call and ask.
RequestApproval(c, d) ==
    /\ Ready
    /\ ~Known(c)
    /\ c \notin used
    /\ CreateOn(c, d, clock, clock + MaxTtl)
    /\ used' = used \cup {c}
    /\ UNCHANGED <<clock, executions, governed, up, authorised, effects, job, faults>>

\* InvokeTool reads the approval first, which expires it durably when it is due.
ReadExpired(c) ==
    /\ Ready
    /\ Expire(c, clock)
    /\ UNCHANGED <<clock, executions, governed, up, used, authorised, effects, job, faults>>

\* Faulty variant: the input of the resubmitted call is not compared.
BeginAnyInput(c, d, i) ==
    /\ Ready
    /\ Ungoverned(c, i)
    /\ Consume(c, i, clock)
    /\ job' = [Idle EXCEPT !.step = "prepared", !.call = c, !.digest = d, !.id = i]
    /\ UNCHANGED <<clock, governed, up, used, authorised, effects, faults>>

\* InvokeTool of an approved call: nothing runs between reading the approval and
\* consuming it, and both use the same reading of the clock.
BeginEffect(c, d, i) ==
    /\ Ready
    /\ Prepare(c, d, i, clock)
    /\ job' = [Idle EXCEPT !.step = "prepared", !.call = c, !.digest = d, !.id = i]
    /\ UNCHANGED <<clock, governed, up, used, authorised, effects, faults>>

\* The request ends with an error; the ledger keeps the prepared intent.
Abandon ==
    /\ Fault
    /\ job' = Idle
    /\ UNCHANGED <<clock, ledger, up, used, authorised, effects>>

\* record_mutating_tool_audit.
Authorise ==
    /\ up /\ job.step = "prepared"
    /\ authorised' = [authorised EXCEPT ![job.call] = @ + 1]
    /\ job' = [job EXCEPT !.step = "authorised"]
    /\ UNCHANGED <<clock, ledger, up, used, effects, faults>>

AuthoriseFails == up /\ job.step = "prepared" /\ Abandon

\* memory.invalidate succeeds.
Act ==
    /\ up /\ job.step = "authorised"
    /\ effects' = [effects EXCEPT ![job.call] = Append(@, job.digest)]
    /\ job' = [job EXCEPT !.step = "acted", !.outcome = "succeeded"]
    /\ UNCHANGED <<clock, ledger, up, used, authorised, faults>>

\* memory.invalidate fails, before or after the record was written.
ActFails ==
    /\ up /\ job.step = "authorised"
    /\ Fault
    /\ \/ effects' = [effects EXCEPT ![job.call] = Append(@, job.digest)]
       \/ UNCHANGED effects
    /\ job' = [job EXCEPT !.step = "acted", !.outcome = "failed"]
    /\ UNCHANGED <<clock, ledger, up, used, authorised>>

\* Faulty variant: whatever the backend said, the result is a success.
FinishGladly ==
    /\ up /\ job.step = "acted"
    /\ Complete(job.call, job.id, "succeeded", clock)
    /\ job' = Idle
    /\ UNCHANGED <<clock, approvals, governed, up, used, authorised, effects, faults>>

\* The terminal result and the answer; the clock is read again.
FinishEffect ==
    /\ up /\ job.step = "acted"
    /\ Complete(job.call, job.id, job.outcome, clock)
    /\ job' = Idle
    /\ UNCHANGED <<clock, approvals, governed, up, used, authorised, effects, faults>>

\* complete_tool_execution refuses a result dated before the intent, or cannot write.
FinishFails ==
    /\ up /\ job.step = "acted"
    /\ \/ /\ clock < execution[job.call].started
          /\ job' = Idle
          /\ UNCHANGED <<clock, ledger, up, used, authorised, effects, faults>>
       \/ Abandon

\* InvokeTool of a read-only tool: reserve the call, write the audit row, run.
\* A failing audit releases the reservation, which leaves no trace.
InvokeSafe(c) ==
    /\ Ready
    /\ c \notin used
    /\ used' = used \cup {c}
    /\ authorised' = [authorised EXCEPT ![c] = @ + 1]
    /\ UNCHANGED <<clock, ledger, up, effects, job, faults>>

\* ApproveTool and DenyTool.
DecideTool(c, d, i, verdict) ==
    /\ Ready
    /\ Decide(c, d, i, verdict, clock)
    /\ UNCHANGED <<clock, executions, governed, up, used, authorised, effects, job, faults>>

CancelTool(c, i) ==
    /\ Ready
    /\ Cancel(c, i, clock)
    /\ UNCHANGED <<clock, executions, governed, up, used, authorised, effects, job, faults>>

\* The process ends; what was in memory is gone.
Crash ==
    /\ up /\ up' = FALSE
    /\ Fault
    /\ job' = Idle /\ used' = {}
    /\ UNCHANGED <<clock, ledger, authorised, effects>>

\* finish_open and from_provider_routes: interrupt what was prepared, and reserve the
\* calls that the audit knows.  When the recovery is refused the daemon stays down.
Reopen ==
    /\ ~up /\ up' = TRUE
    /\ RecoverPrepared(clock)
    /\ used' = {c \in Calls : authorised[c] > 0}
    /\ UNCHANGED <<clock, approvals, governed, authorised, effects, job, faults>>

\* The system's clock (not code of the repository).
Clock ==
    /\ Tick \/ (Adjustable /\ SetClock)
    /\ UNCHANGED <<ledger, up, used, authorised, effects, job, faults>>

-----------------------------------------------------------------------------
Init ==
    /\ LedgerInit
    /\ up = TRUE /\ used = {}
    /\ authorised = [c \in Calls |-> 0]
    /\ effects = [c \in Calls |-> <<>>]
    /\ job = Idle /\ faults = 0

Next ==
    \/ \E c \in Calls :
          \/ InvokeSafe(c)
          \/ ReadExpired(c)
          \/ \E d \in Digests : RequestApproval(c, d)
          \/ \E d \in Digests, i \in Ids :
                \/ BeginEffect(c, d, i)
                \/ \E verdict \in {"approved", "denied"} : DecideTool(c, d, i, verdict)
          \/ \E i \in Ids : CancelTool(c, i)
    \/ Authorise \/ AuthoriseFails
    \/ Act \/ ActFails
    \/ FinishEffect \/ FinishFails
    \/ Crash \/ Reopen
    \/ Clock

Spec == Init /\ [][Next]_vars

-----------------------------------------------------------------------------
\* Where a call stands, as ApprovedEffects counts it.
PhaseOf(c) ==
    CASE approval[c].state = "none" -> "new"
      [] approval[c].state = "pending" -> "asked"
      [] approval[c].state = "approved" -> "granted"
      [] approval[c].state \in {"denied", "cancelled", "expired"} -> "closed"
      [] approval[c].state = "consumed" ->
            IF execution[c].state = "prepared" THEN "spent" ELSE "ended"

Promise == INSTANCE ApprovedEffects
           WITH phase <- [c \in Calls |-> PhaseOf(c)],
                shown <- [c \in Calls |-> approval[c].digest],
                effects <- effects

\* The tables and the daemon over them implement ApprovedEffects: across crashes,
\* failing writes, expiry and repeated submissions an effect needs an explicit approval
\* of that very input, which is used up first, and happens at most once.
ImplementsPromise == Promise!Spec

\* The recorded result is honest: "succeeded" is recorded only after the effect, and
\* a call that was never consumed had none.  Only interrupted and failed calls leave it
\* open whether the record was written.
ResultsHonest ==
    \A c \in Calls :
        /\ execution[c].state = "succeeded" => Len(effects[c]) = 1
        /\ execution[c].state = "none" => effects[c] = <<>>

\* The evidence tells the story of the row: the log of a call is a path of the approval's
\* state machine that ends in the row's state, and an execution row exists exactly for
\* consumed approvals.
EvidenceComplete ==
    \A c \in Calls :
        /\ approvalLog[c] \in
              {<<>>, <<"pending">>}
              \cup {<<"pending", s>> : s \in {"approved", "denied", "cancelled", "expired"}}
              \cup {<<"pending", "approved", s>> : s \in {"cancelled", "expired", "consumed"}}
        /\ IF Known(c) THEN approvalLog[c] # <<>> /\ approvalLog[c][Len(approvalLog[c])]
                                                        = approval[c].state
                       ELSE approvalLog[c] = <<>>
        /\ (execution[c].state # "none") <=> (approval[c].state = "consumed")

\* The identifiers in the rows of a call.
UsedFor(c) == [decision |-> approval[c].decision, cancellation |-> approval[c].cancellation,
               execution |-> execution[c].id]

\* An identifier settles one thing: no two of the decisions, cancellations and executions
\* in the tables share one.
IdsSingleUse ==
    \A c1 \in Calls : \A k1 \in {"decision", "cancellation", "execution"} :
        UsedFor(c1)[k1] # None =>
            \A c2 \in Calls : \A k2 \in {"decision", "cancellation", "execution"} :
                UsedFor(c1)[k1] = UsedFor(c2)[k2] => c1 = c2 /\ k1 = k2

\* docs/runtime.md: "Call IDs remain single-use after daemon reopen because the
\* authority recovers reservations from that audit."
CallIdsSingleUse == \A c \in Calls : authorised[c] <= 1
=============================================================================
