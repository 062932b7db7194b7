----------------------------- MODULE ToolLedger -----------------------------
(***************************************************************************)
(* The tables of tool approvals and tool executions of the runtime store   *)
(* (src/runtime/store/tool_approval.rs, tool_execution.rs) and the         *)
(* transactions over them.  Each transaction is an operator that says what *)
(* it commits; a call that returns an error commits nothing, so its        *)
(* refusals are the negations of the conjuncts here.  The modules that     *)
(* extend this one add the callers.                                        *)
(*                                                                         *)
(* Decision, cancellation and execution identifiers share one name space   *)
(* (resolution_exists).  The tool's name is part of what a digest covers.  *)
(***************************************************************************)
EXTENDS Naturals, Sequences, FiniteSets

CONSTANTS Calls,      \* call identifiers
          Digests,    \* digests of exact calls
          Ids,        \* decision, cancellation and execution identifiers
          None,
          MaxTime,    \* bound of the clock
          MaxTtl      \* MAX_TOOL_APPROVAL_TTL_MS

ASSUME NamesAssumption == None \notin Digests \cup Ids \cup Calls
ASSUME TimeAssumption == MaxTime \in Nat /\ MaxTtl \in Nat \ {0}

Times == 0 .. MaxTime

VARIABLES clock,                     \* the system's clock
          approval, approvalLog,     \* tool_approvals and tool_approval_events
          execution, executionLog,   \* tool_executions and tool_execution_events
          intents,                   \* governed_tool_intents, by execution id
          previews                   \* governed_approval_previews, by call

approvals  == <<approval, approvalLog>>
executions == <<execution, executionLog>>
governed   == <<intents, previews>>

OpenStates     == {"pending", "approved"}
ClosedStates   == {"denied", "cancelled", "expired", "consumed"}
ApprovalStates == OpenStates \cup ClosedStates
Outcomes       == {"succeeded", "failed"}
ExecutionStates == Outcomes \cup {"prepared", "interrupted"}

NoApproval == [state |-> "none", digest |-> None, decision |-> None, cancellation |-> None,
               created |-> 0, expires |-> 0, updated |-> 0]

NoExecution == [state |-> "none", id |-> None, started |-> 0, finished |-> 0]

\* A governed intent: the authority it was admitted under, the approval it used up (None
\* for a call that needs none) and the outcome.
NoIntent == [state |-> "none", call |-> None, binding |-> None, exact |-> None,
             outcome |-> None, started |-> 0]

ApprovalRow == [state : ApprovalStates \cup {"none"}, digest : Digests \cup {None},
                decision : Ids \cup {None}, cancellation : Ids \cup {None},
                created : Times, expires : Nat, updated : Times]

ExecutionRow == [state : ExecutionStates \cup {"none"}, id : Ids \cup {None},
                 started : Times, finished : Times]

\* The CHECKs of the two tables: which identifiers and times go with which state.
Checked(a, x) ==
    /\ a.updated >= a.created /\ (a.state # "none" => a.expires > a.created)
    /\ CASE a.state = "pending" -> a.decision = None /\ a.cancellation = None
         [] a.state \in {"approved", "denied", "consumed"} ->
                a.decision # None /\ a.cancellation = None
         [] a.state = "cancelled" -> a.cancellation # None
         [] a.state \in {"expired", "none"} -> a.cancellation = None
    /\ x.state \notin {"none", "prepared"} => x.finished >= x.started

-----------------------------------------------------------------------------
Known(c) == approval[c].state # "none"

Intended(c) == \E i \in Ids : intents[i].call = c

\* Faulty variant: only decisions are looked up.
ResolvedByDecision(i) == \E c \in Calls : approval[c].decision = i

\* resolution_exists: an identifier that was used for anything is never used again.
Resolved(i) ==
    \/ \E c \in Calls : i \in {approval[c].decision, approval[c].cancellation, execution[c].id}
    \/ intents[i].state # "none"

\* One UPDATE of tool_approvals and the event that goes with it.
WriteApproval(c, row) ==
    /\ approval' = [approval EXCEPT ![c] = row]
    /\ approvalLog' = [approvalLog EXCEPT ![c] = Append(@, row.state)]

WriteExecution(c, row) ==
    /\ execution' = [execution EXCEPT ![c] = row]
    /\ executionLog' = [executionLog EXCEPT ![c] = Append(@, row.state)]

\* expire_if_needed: the condition, and what it commits.
Due(c, now) == approval[c].state \in OpenStates /\ now >= approval[c].expires

Expire(c, now) ==
    /\ Due(c, now)
    /\ WriteApproval(c, [approval[c] EXCEPT !.state = "expired", !.updated = now])

\* create_on.
CreateOn(c, d, created, expires) ==
    /\ expires > created /\ expires - created <= MaxTtl
    /\ ~Intended(c)
    /\ ~Known(c)
    /\ WriteApproval(c, [NoApproval EXCEPT !.state = "pending", !.digest = d, !.created = created,
                                           !.expires = expires, !.updated = created])

\* The second half of decide_tool_approval.  The table refuses an update dated before
\* the row's creation.
Settle(c, i, verdict, now) ==
    /\ ~Due(c, now)
    /\ approval[c].state = "pending" /\ ~Resolved(i)
    /\ now >= approval[c].created
    /\ WriteApproval(c, [approval[c] EXCEPT !.state = verdict, !.decision = i, !.updated = now])

\* decide_tool_approval: an expired approval is committed as expired, not decided.
Decide(c, d, i, verdict, now) ==
    /\ Known(c) /\ approval[c].digest = d
    /\ Expire(c, now) \/ Settle(c, i, verdict, now)

\* Faulty variant: the cancellation's identifier is not stored.
WithdrawNameless(c, i, now) ==
    /\ ~Due(c, now)
    /\ approval[c].state \in OpenStates /\ ~Resolved(i)
    /\ now >= approval[c].created
    /\ WriteApproval(c, [approval[c] EXCEPT !.state = "cancelled", !.updated = now])

\* The second half of cancel_tool_approval.
Withdraw(c, i, now) ==
    /\ ~Due(c, now)
    /\ approval[c].state \in OpenStates /\ ~Resolved(i)
    /\ now >= approval[c].created
    /\ WriteApproval(c, [approval[c] EXCEPT !.state = "cancelled", !.cancellation = i,
                                            !.updated = now])

Cancel(c, i, now) == Known(c) /\ (Expire(c, now) \/ Withdraw(c, i, now))

\* Consuming an approval and recording the intent to act are one transaction.
Consume(c, i, now) ==
    /\ approval[c].state = "approved" /\ ~Due(c, now)
    /\ ~Resolved(i)
    /\ execution[c].state = "none"
    /\ now >= approval[c].created
    /\ WriteApproval(c, [approval[c] EXCEPT !.state = "consumed", !.updated = now])
    /\ WriteExecution(c, [NoExecution EXCEPT !.state = "prepared", !.id = i, !.started = now])

\* The rows that prepare_tool_execution and complete_tool_execution may touch: the
\* calls the governed adapter owns are not theirs.
Ungoverned(c, i) == ~Intended(c) /\ intents[i].state = "none" /\ previews[c] = None

\* prepare_tool_execution when it does not answer Expired.
Prepare(c, d, i, now) ==
    /\ Ungoverned(c, i)
    /\ Known(c) /\ approval[c].digest = d
    /\ Consume(c, i, now)

\* complete_tool_execution.
Complete(c, i, outcome, now) ==
    /\ ~Intended(c)
    /\ execution[c].state = "prepared" /\ execution[c].id = i /\ now >= execution[c].started
    /\ WriteExecution(c, [execution[c] EXCEPT !.state = outcome, !.finished = now])

Prepared == {c \in Calls : execution[c].state = "prepared"}

\* The CHECK of tool_executions: no row finishes before it started.
Recoverable(now) == \A c \in Prepared : now >= execution[c].started

\* recover_prepared_on: every unfinished intent becomes interrupted, or nothing does.
RecoverPrepared(now) ==
    /\ Recoverable(now)
    /\ execution' = [c \in Calls |->
            IF c \in Prepared
            THEN [execution[c] EXCEPT !.state = "interrupted", !.finished = now]
            ELSE execution[c]]
    /\ executionLog' = [c \in Calls |->
            IF c \in Prepared THEN Append(executionLog[c], "interrupted") ELSE executionLog[c]]

-----------------------------------------------------------------------------
\* An empty database.
LedgerInit ==
    /\ clock = 0
    /\ approval = [c \in Calls |-> NoApproval] /\ approvalLog = [c \in Calls |-> <<>>]
    /\ execution = [c \in Calls |-> NoExecution] /\ executionLog = [c \in Calls |-> <<>>]
    /\ previews = [c \in Calls |-> None]
    /\ intents = [i \in Ids |-> NoIntent]

\* Time passes.
Tick == clock < MaxTime /\ clock' = clock + 1

\* An administrator or a time service moves the clock.
SetClock == clock' \in Times \ {clock}
=============================================================================
