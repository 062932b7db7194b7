---------------------------- MODULE GovernedTools ----------------------------
(***************************************************************************)
(* The governed adapter on the same tables (src/runtime/store/governed.rs, *)
(* governed/local.rs): approvals bound to a full preview, approvals that   *)
(* belong to one local user, intents admitted atomically with the approval *)
(* they use up, compensation of a failed intent, audit stages, and what a  *)
(* reopened store does with an intent that never finished.                 *)
(*                                                                         *)
(* The old operations (ToolLedger) and the governed ones are called by one *)
(* process, in any order.  A route is the store itself (None) or the       *)
(* authority of one local user, which checks ownership first.  The store   *)
(* is reopened, with its recoveries, after that process has ended.         *)
(***************************************************************************)
EXTENDS ToolLedger

CONSTANTS Owners,      \* local users
          Bindings,    \* AuthorizationBinding values
          Capacity,    \* CAPACITY
          MaxRefusals, \* bound: rows of governed_admission_refusals (CAPACITY in the code)
          MaxFaults,   \* bound: crashes
          Adjustable   \* whether the clock can also be set back

ASSUME CapacityAssumption == Capacity \in Nat \ {0} /\ MaxRefusals \in 0 .. Capacity /\ MaxFaults \in Nat /\ Adjustable \in BOOLEAN
ASSUME OwnersAssumption == None \notin Owners \cup [decision : Ids, approver : Owners]
ASSUME BindingsAssumption ==
    /\ None \notin Bindings
    /\ \A b \in Bindings :
          /\ b.digest \in Digests /\ b.principal \in Owners
          /\ b.level \in {"A0", "A1"}
          /\ b.origin \in Ids \cup {None}

VARIABLES local,       \* local_governed_approvals: owner and exact approval, by call
          outcomes,    \* governed_outcome_events, by intent
          admits,      \* stage 11 rows of governed_stage_events, by intent
          posts,       \* the bindings of its rows of stage 12 and later
          events,      \* rows of governed_stage_events
          refusals,    \* rows of governed_admission_refusals
          tokens,      \* PreparedExecution values in memory
          phase,       \* the process: up, down, or between its two recoveries
          faults,
          released,    \* history: preparations granted for a call, by any route
          consent      \* history: what the local users approved

audits  == <<admits, posts, events, refusals>>
process == <<tokens, phase, faults>>
vars    == <<clock, approvals, executions, governed, local, outcomes, audits, process,
             released, consent>>

Routes == Owners \cup {None}

NoLocal == [owner |-> None, exact |-> None]

Exact == [decision : Ids, approver : Owners]

Terminals == {"succeeded", "failed", "unverifiable", "uncertain", "not_dispatched"}

IntentRow ==
    [state : ExecutionStates, call : Calls, binding : Bindings, exact : Exact \cup {None},
     outcome : Terminals \cup {"prepared"}, started : Times] \cup {NoIntent}

\* The types of the variables, the CHECKs of the tables and their capacity.
TypeOK ==
    /\ clock \in Times
    /\ approval \in [Calls -> ApprovalRow] /\ execution \in [Calls -> ExecutionRow]
    /\ \A c \in Calls : Checked(approval[c], execution[c])
    /\ intents \in [Ids -> IntentRow] /\ previews \in [Calls -> Bindings \cup {None}]
    /\ local \in [Calls -> [owner : Owners \cup {None}, exact : Exact \cup {None}]]
    /\ admits \in [Ids -> Nat] /\ posts \in [Ids -> SUBSET Bindings]
    /\ events \in 0 .. Capacity /\ refusals \in 0 .. Capacity
    /\ tokens \subseteq Ids /\ phase \in {"up", "down", "recovered"}

-----------------------------------------------------------------------------
Intents == {i \in Ids : intents[i].state # "none"}

\* room: a table takes another row.
Room(count) == count < Capacity

Previews == {c \in Calls : previews[c] # None}

Locals == {c \in Calls : local[c].owner # None}

BaseState(outcome) ==
    CASE outcome \in {"prepared", "succeeded"} -> outcome
      [] outcome \in {"uncertain", "not_dispatched"} -> "interrupted"
      [] OTHER -> "failed"

\* valid_origin: a compensation names a failed intent, its very binding and its scope.
ValidOrigin(b) ==
    b.origin # None =>
        /\ b.origin \in Intents
        /\ intents[b.origin].outcome = "failed"
        /\ intents[b.origin].binding.name = b.originBinding
        /\ intents[b.origin].binding.scope = b.scope

\* What validate_on asks of one intent.
ValidIntent(i) ==
    LET row == intents[i]
        c   == row.call
    IN  /\ outcomes[i] = IF row.outcome = "prepared" THEN <<"prepared">>
                                                     ELSE <<"prepared", row.outcome>>
        /\ ValidOrigin(row.binding)
        /\ BaseState(row.outcome) = row.state
        /\ admits[i] = 1
        /\ row.exact # None =>
              /\ previews[c] = row.binding
              /\ approval[c].digest = row.binding.digest
              /\ approval[c].decision = row.exact.decision
              /\ approval[c].state = "consumed"
              /\ execution[c].state = row.state /\ execution[c].id = i

\* validate_on: what the store must satisfy to be opened and used.  Its tables are not
\* overfull, and its rows fit together.
RowsFit == \A n \in {Cardinality(Intents), events, refusals} : n <= Capacity

PreviewsFit == Cardinality(Previews) <= Capacity

Sound ==
    /\ \A c \in Previews : previews[c].digest = approval[c].digest /\ previews[c].level # "A0"
    /\ \A i \in Ids : posts[i] # {} => i \in Intents /\ posts[i] = {intents[i].binding}
    /\ \A i \in Intents : ValidIntent(i)

Valid == RowsFit /\ PreviewsFit /\ Sound

\* execution_owner.
OwnerOf(i) ==
    IF intents[i].exact = None THEN None ELSE local[intents[i].call].owner

\* The checks of AbbeyLocalApprovalAuthority on an intent.
MayUse(r, i) == r # None => i \in Intents /\ OwnerOf(i) = r

\* local::exact_matches.
ExactMatches(c, exact) == local[c].owner # None => local[c].exact = exact

Up == phase = "up"

-----------------------------------------------------------------------------
\* create_tool_approval: a call outside the governed adapter.
CreateLegacy(c, d, created) ==
    /\ Up
    /\ CreateOn(c, d, created, created + MaxTtl)
    /\ UNCHANGED <<clock, executions, governed, local, outcomes, audits, process, released, consent>>

\* create_governed_tool_approval.
CreateGoverned(c, b, created) ==
    /\ Up
    /\ b.level # "A0"
    /\ Room(Cardinality(Previews))
    /\ CreateOn(c, b.digest, created, created + MaxTtl)
    /\ previews' = [previews EXCEPT ![c] = b]
    /\ UNCHANGED <<clock, executions, intents, local, outcomes, audits, process, released, consent>>

\* request_local_approval of a new call: the preview's principal and approval level are the
\* owner's, and the room of its own table is looked at.
RequestLocal(o, c, b, created) ==
    /\ Up
    /\ b.principal = o /\ b.level = "A1"
    /\ local[c].owner = None
    /\ Room(Cardinality(Locals))
    /\ CreateOn(c, b.digest, created, created + MaxTtl)
    /\ previews' = [previews EXCEPT ![c] = b]
    /\ local' = [local EXCEPT ![c].owner = o]
    /\ UNCHANGED <<clock, executions, intents, outcomes, audits, process, released, consent>>

\* decide_local_approval when the approval has not expired; an approval records the exact
\* envelope that will be asked for.
DecideLocal(o, c, i, verdict) ==
    /\ Up
    /\ local[c].owner = o
    /\ clock >= approval[c].updated
    /\ Settle(c, i, verdict, clock)
    /\ IF verdict = "approved"
       THEN /\ local' = [local EXCEPT ![c].exact = [decision |-> i, approver |-> o]]
            /\ consent' = consent \cup {<<c, previews[c]>>}
       ELSE UNCHANGED <<local, consent>>
    /\ UNCHANGED <<clock, executions, governed, outcomes, audits, process, released>>

\* Any operation that finds the approval due commits its expiry and nothing else.
FindExpired(c) ==
    /\ Up
    /\ Expire(c, clock)
    /\ UNCHANGED <<clock, executions, governed, local, outcomes, audits, process, released, consent>>

\* decide_tool_approval and cancel_tool_approval take any call.
DecideLegacy(c, d, i, verdict) ==
    /\ Up
    /\ approval[c].digest = d
    /\ Settle(c, i, verdict, clock)
    /\ UNCHANGED <<clock, executions, governed, local, outcomes, audits, process, released, consent>>

CancelLegacy(c, i) ==
    /\ Up
    /\ Withdraw(c, i, clock)
    /\ UNCHANGED <<clock, executions, governed, local, outcomes, audits, process, released, consent>>

PrepareLegacy(c, d, i) ==
    /\ Up
    /\ Prepare(c, d, i, clock)
    /\ released' = [released EXCEPT ![c] = @ + 1]
    /\ UNCHANGED <<clock, governed, local, outcomes, audits, process, consent>>

CompleteLegacy(c, i, outcome) ==
    /\ Up
    /\ Complete(c, i, outcome, clock)
    /\ UNCHANGED <<clock, approvals, governed, local, outcomes, audits, process, released, consent>>

-----------------------------------------------------------------------------
\* The intent, its first outcome and its admission audit: one transaction with what
\* happens to the approval.
Admit(c, i, b, exact) ==
    /\ intents' = [intents EXCEPT ![i] =
            [state |-> "prepared", call |-> c, binding |-> b, exact |-> exact,
             outcome |-> "prepared", started |-> clock]]
    /\ outcomes' = [outcomes EXCEPT ![i] = Append(@, "prepared")]
    /\ admits' = [admits EXCEPT ![i] = @ + 1]
    /\ events' = events + 1
    /\ tokens' = tokens \cup {i}
    /\ released' = [released EXCEPT ![c] = @ + 1]
    /\ UNCHANGED <<clock, previews, local, posts, refusals, phase, faults, consent>>

\* Faulty variant: a failed intent can be compensated again.
AdmissibleAgain(c, i, b) ==
    /\ Up
    /\ ~Intended(c) /\ ~Resolved(i)
    /\ Room(Cardinality(Intents)) /\ Room(events)
    /\ ValidOrigin(b)
    /\ Valid

\* What prepare asks of every request: a new call, an unused identifier, and a failed
\* origin that nobody else compensates.
Admissible(c, i, b) ==
    /\ Up
    /\ ~Intended(c) /\ ~Resolved(i)
    /\ Room(Cardinality(Intents)) /\ Room(events)
    /\ ValidOrigin(b)
    /\ Valid
    /\ b.origin # None => \A j \in Intents : intents[j].binding.origin # b.origin

\* The authority of a local user: its principal, its level, its origin, its call.
LocalMay(r, c, b, exact) ==
    r # None =>
        /\ b.principal = r /\ b.level = "A1"
        /\ b.origin # None => MayUse(r, b.origin)
        /\ local[c].owner = r
        /\ exact.approver = r

\* Faulty variant: what the owner decided is not compared.
PrepareApprovedByAnyone(r, c, i, b, exact) ==
    /\ Admissible(c, i, b) /\ b.level = "A1"
    /\ previews[c] = b
    /\ approval[c].updated <= clock
    /\ approval[c].digest = b.digest /\ approval[c].decision = exact.decision
    /\ Consume(c, i, clock)
    /\ Admit(c, i, b, exact)

\* prepare with an approval: it is the approval of exactly this binding, it is still open,
\* and it is used up.
PrepareApproved(r, c, i, b, exact) ==
    /\ b.level = "A1" /\ LocalMay(r, c, b, exact)
    /\ previews[c] = b /\ ExactMatches(c, exact)
    /\ approval[c].updated <= clock
    /\ approval[c].digest = b.digest /\ approval[c].decision = exact.decision
    /\ Admissible(c, i, b)
    /\ Consume(c, i, clock)
    /\ Admit(c, i, b, exact)

\* Faulty variant: the name of a call whose approval is used up is taken again.
PrepareFreeUsedUp(c, i, b) ==
    /\ b.level = "A0" /\ approval[c].state \in {"none", "consumed"}
    /\ Admissible(c, i, b)
    /\ UNCHANGED <<approvals, executions>>
    /\ Admit(c, i, b, None)

\* prepare of a call that needs no approval; it may not shadow one that has.
PrepareFree(c, i, b) ==
    /\ b.level = "A0" /\ ~Known(c)
    /\ Admissible(c, i, b)
    /\ UNCHANGED <<approvals, executions>>
    /\ Admit(c, i, b, None)

\* finish: only the holder of the token, only once.
Finish(r, i, outcome) ==
    LET row  == intents[i]
        base == BaseState(outcome)
        late == IF clock < row.started THEN row.started ELSE clock
    IN  /\ Up
        /\ i \in tokens /\ MayUse(r, i)
        /\ row.state = "prepared"
        /\ Valid
        /\ IF row.exact = None
           THEN UNCHANGED executions
           ELSE WriteExecution(row.call, [execution[row.call] EXCEPT !.state = base,
                                                                     !.finished = late])
        /\ intents' = [intents EXCEPT ![i].state = base, ![i].outcome = outcome]
        /\ outcomes' = [outcomes EXCEPT ![i] = Append(@, outcome)]
        /\ UNCHANGED <<clock, approvals, previews, local, audits, process, released, consent>>

\* refuse_replay of a known intent.
RefuseReplay(r, i) ==
    /\ Up
    /\ i \in Intents /\ MayUse(r, i)
    /\ Valid
    /\ Room(refusals) /\ refusals < MaxRefusals /\ refusals' = refusals + 1
    /\ UNCHANGED <<clock, approvals, executions, governed, local, outcomes, admits, posts, events,
                   process, released, consent>>

\* The binding that an audit record must carry.
Bound(i, b) == i \in Intents => b = intents[i].binding

\* append_stage, stages 0 to 10, stage 11 as a denial, and the stages after admission.
AppendEarly(r, i, b) ==
    /\ Up /\ Bound(i, b) /\ (i \in Intents => MayUse(r, i))
    /\ Room(events) /\ events' = events + 1
    /\ UNCHANGED <<clock, approvals, executions, governed, local, outcomes, admits, posts, refusals,
                   process, released, consent>>

AppendDenial(r, i, b) ==
    /\ Up /\ Bound(i, b) /\ (i \in Intents => MayUse(r, i))
    /\ Room(refusals) /\ refusals < MaxRefusals /\ refusals' = refusals + 1
    /\ UNCHANGED <<clock, approvals, executions, governed, local, outcomes, admits, posts, events,
                   process, released, consent>>

AppendLate(r, i, b) ==
    /\ Up /\ i \in Intents /\ Bound(i, b) /\ MayUse(r, i)
    /\ Room(events) /\ events' = events + 1
    /\ posts' = [posts EXCEPT ![i] = @ \cup {b}]
    /\ UNCHANGED <<clock, approvals, executions, governed, local, outcomes, admits, refusals,
                   process, released, consent>>

-----------------------------------------------------------------------------
Crash ==
    /\ phase # "down" /\ phase' = "down"
    /\ faults < MaxFaults /\ faults' = faults + 1
    /\ tokens' = {}
    /\ UNCHANGED <<clock, approvals, executions, governed, local, outcomes, audits, released, consent>>

Unfinished == {i \in Ids : intents[i].state = "prepared"}

\* Faulty variant: an intent without an approval is not recovered.
RecoverApprovedOnly ==
    LET stale == {i \in Unfinished : intents[i].exact # None}
    IN  /\ phase = "down" /\ Valid
        /\ phase' = "recovered"
        /\ execution' = [c \in Calls |->
              IF \E i \in stale : intents[i].call = c
              THEN [execution[c] EXCEPT !.state = "interrupted"] ELSE execution[c]]
        /\ intents' = [i \in Ids |->
              IF i \in stale
              THEN [intents[i] EXCEPT !.state = "interrupted", !.outcome = "uncertain"]
              ELSE intents[i]]
        /\ outcomes' = [i \in Ids |->
              IF i \in stale THEN Append(outcomes[i], "uncertain") ELSE outcomes[i]]
        /\ UNCHANGED <<clock, approvals, executionLog, previews, local, audits, tokens, faults,
                       released, consent>>

\* finish_open, first half: a store that validate_on rejects is not opened; then recover_on
\* closes what never finished as uncertain, dated no earlier than its start.
RecoverGoverned ==
    LET stale == {intents[i].call : i \in {j \in Unfinished : intents[j].exact # None}}
        late(c) == IF clock < execution[c].started THEN execution[c].started ELSE clock
    IN  /\ phase = "down" /\ Valid
        /\ phase' = "recovered"
        /\ execution' = [c \in Calls |->
              IF c \in stale
              THEN [execution[c] EXCEPT !.state = "interrupted", !.finished = late(c)]
              ELSE execution[c]]
        /\ executionLog' = [c \in Calls |->
              IF c \in stale THEN Append(executionLog[c], "interrupted") ELSE executionLog[c]]
        /\ intents' = [i \in Ids |->
              IF i \in Unfinished
              THEN [intents[i] EXCEPT !.state = "interrupted", !.outcome = "uncertain"]
              ELSE intents[i]]
        /\ outcomes' = [i \in Ids |->
              IF i \in Unfinished THEN Append(outcomes[i], "uncertain") ELSE outcomes[i]]
        /\ UNCHANGED <<clock, approvals, previews, local, audits, tokens, faults, released, consent>>

\* Faulty variant: the two recoveries in the other order.
RecoverLegacyFirst ==
    /\ phase = "down" /\ phase' = "down"
    /\ RecoverPrepared(clock)
    /\ UNCHANGED <<clock, approvals, governed, local, outcomes, audits, tokens, faults, released,
                   consent>>

\* finish_open, second half: recover_prepared_on.
RecoverLegacy ==
    /\ phase = "recovered" /\ phase' = "up"
    /\ RecoverPrepared(clock)
    /\ UNCHANGED <<clock, approvals, governed, local, outcomes, audits, tokens, faults, released,
                   consent>>

\* The system's clock (not code of the repository).
Clock ==
    /\ Tick \/ (Adjustable /\ SetClock)
    /\ UNCHANGED <<approvals, executions, governed, local, outcomes, audits, process, released,
                   consent>>

-----------------------------------------------------------------------------
Init ==
    /\ LedgerInit
    /\ local = [c \in Calls |-> NoLocal]
    /\ outcomes = [i \in Ids |-> <<>>]
    /\ admits = [i \in Ids |-> 0] /\ posts = [i \in Ids |-> {}]
    /\ events = 0 /\ refusals = 0
    /\ tokens = {} /\ phase = "up" /\ faults = 0
    /\ released = [c \in Calls |-> 0] /\ consent = {}

Next ==
    \/ \E c \in Calls :
          \/ FindExpired(c)
          \/ \E created \in Times :
                \/ \E d \in Digests : CreateLegacy(c, d, created)
                \/ \E b \in Bindings : CreateGoverned(c, b, created)
                \/ \E o \in Owners, b \in Bindings : RequestLocal(o, c, b, created)
          \/ \E i \in Ids, verdict \in {"approved", "denied"} :
                \/ \E o \in Owners : DecideLocal(o, c, i, verdict)
                \/ \E d \in Digests : DecideLegacy(c, d, i, verdict)
          \/ \E i \in Ids : CancelLegacy(c, i)
          \/ \E i \in Ids, d \in Digests : PrepareLegacy(c, d, i)
          \/ \E i \in Ids, outcome \in Outcomes : CompleteLegacy(c, i, outcome)
          \/ \E i \in Ids, b \in Bindings :
                \/ PrepareFree(c, i, b)
                \/ \E r \in Routes, o \in Owners :  \* an envelope of another decision is refused
                      PrepareApproved(r, c, i, b, [decision |-> approval[c].decision, approver |-> o])
    \/ \E r \in Routes, i \in Ids :
          \/ RefuseReplay(r, i)
          \/ \E outcome \in Terminals : Finish(r, i, outcome)
          \/ \E b \in Bindings :
                AppendEarly(r, i, b) \/ AppendDenial(r, i, b) \/ AppendLate(r, i, b)
    \/ Crash \/ RecoverGoverned \/ RecoverLegacy
    \/ Clock

Spec == Init /\ [][Next]_vars

-----------------------------------------------------------------------------
\* What validate_on asserts of every store that is opened or used, with CorruptData for an
\* answer ("governed capacity exceeded"): no sequence of accepted requests makes it fail.
StoreOpens == Valid

\* Whatever the old and the governed operations did, in whatever order, and wherever the
\* process ended, validate_on has nothing to complain of but the number of previews: the
\* evidence, the approvals and the executions of the two interfaces fit together.
StoreSound == RowsFit /\ Sound

\* One call is released once: neither route, nor both together, nor a restart hands out the
\* right to act on a call twice.
OneRelease == \A c \in Calls : released[c] <= 1

\* A call that belongs to a local user runs only under what that user approved in person:
\* the decision of the old interface does not release it.
LocalConsent ==
    \A i \in Intents :
        LET c == intents[i].call
        IN  local[c].owner # None => /\ intents[i].exact # None
                                     /\ intents[i].exact.approver = local[c].owner
                                     /\ <<c, intents[i].binding>> \in consent

\* A failed intent is compensated at most once and stays the failed intent it was.
CompensatedOnce ==
    \A i \in Intents :
        intents[i].binding.origin # None =>
            /\ intents[intents[i].binding.origin].outcome = "failed"
            /\ \A j \in Intents : intents[j].binding.origin = intents[i].binding.origin => i = j

\* Nothing is left half done: while the process serves requests, every intent that is still
\* prepared has somebody in this very process who can finish it.
NothingOrphaned == Up => Unfinished \subseteq tokens
=============================================================================
