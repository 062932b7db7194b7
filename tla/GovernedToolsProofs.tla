------------------------ MODULE GovernedToolsProofs ------------------------
(***************************************************************************)
(* Proofs about GovernedTools, for any calls, identifiers, users, bindings *)
(* and capacity: one call is released once, by whatever route; a local     *)
(* user's call runs only under that user's consent; a failed intent is     *)
(* compensated once; no intent is orphaned; and the rows always fit.       *)
(*                                                                         *)
(* The five hold together or not at all.  An approved intent shares its    *)
(* call's execution row with the old operations; that they leave it alone  *)
(* is what validate_on asks (Sound), and that in turn needs to know which  *)
(* rows a call nobody asked for can have, that a finished recovery leaves  *)
(* no prepared intent for recover_prepared_on to touch, and that what a    *)
(* local user approved is the preview that is still there.                 *)
(***************************************************************************)
EXTENDS GovernedTools, FiniteSetTheorems, SequenceTheorems, TLAPS

\* The types that the argument needs.
Tables ==
    /\ clock \in Times
    /\ approval \in [Calls -> ApprovalRow] /\ execution \in [Calls -> ExecutionRow]
    /\ intents \in [Ids -> IntentRow] /\ previews \in [Calls -> Bindings \cup {None}]
    /\ local \in [Calls -> [owner : Owners \cup {None}, exact : Exact \cup {None}]]
    /\ outcomes \in [Ids -> Seq(Terminals \cup {"prepared"})]
    /\ admits \in [Ids -> Nat] /\ posts \in [Ids -> SUBSET Bindings]
    /\ events \in Nat /\ refusals \in Nat
    /\ released \in [Calls -> Nat]

\* The table only ever holds finitely many intents.
FewRows == IsFiniteSet(Intents)

\* A call nobody asked an approval for has no preview and no owner, only an approval that was
\* used up has an execution, and only a decision opens one.
Unasked ==
    \A c \in Calls :
        /\ approval[c].state \in {"approved", "consumed"} => approval[c].decision \in Ids
        /\ approval[c].state = "none" =>
              previews[c] = None /\ local[c].owner = None /\ local[c].exact = None
        /\ execution[c].state # "none" => approval[c].state = "consumed"

\* An identifier without an intent has no evidence.
Traceless == \A i \in Ids : i \notin Intents => outcomes[i] = <<>> /\ admits[i] = 0

\* Every release shows, in an intent or in an execution.
Acts(c) == Intended(c) \/ execution[c].state # "none"
ReleasesShow == \A c \in Calls : released[c] = IF Acts(c) THEN 1 ELSE 0

\* What an owner's approval stands for is the preview that is there.
Consented ==
    \A c \in Calls :
        local[c].exact # None => /\ local[c].exact.approver = local[c].owner
                                 /\ <<c, previews[c]>> \in consent

\* Between the two recoveries no intent is unfinished.
Recovered == phase = "recovered" => Unfinished = {}

Support == FewRows /\ Unasked /\ Traceless /\ ReleasesShow /\ Consented /\ Recovered

IInv == Tables /\ Support /\ StoreSound /\ LocalConsent /\ CompensatedOnce /\ NothingOrphaned

-----------------------------------------------------------------------------
LEMMA InitHolds == Init => IInv
<1> SUFFICES ASSUME Init PROVE IInv
  OBVIOUS
<1> USE DEF Init, LedgerInit
<1>1. Tables
  <2>1. NoApproval \in ApprovalRow /\ NoExecution \in ExecutionRow /\ NoIntent \in IntentRow
    BY TimeAssumption DEF NoApproval, NoExecution, ApprovalRow, ExecutionRow, IntentRow, Times
  <2>2. NoLocal \in [owner : Owners \cup {None}, exact : Exact \cup {None}]
    BY DEF NoLocal
  <2> QED  BY <2>1, <2>2, TimeAssumption DEF Tables, Times
<1>2. Intents = {} /\ Previews = {} /\ Unfinished = {}
  BY DEF Intents, Previews, Unfinished, NoIntent
<1>3. FewRows
  BY <1>2, FS_EmptySet DEF FewRows
<1>4. \A c \in Calls : ~Intended(c)
  BY NamesAssumption DEF Intended, NoIntent
<1>5. Unasked /\ Traceless /\ ReleasesShow /\ Consented /\ Recovered
  BY <1>4 DEF Unasked, Traceless, ReleasesShow, Acts, Consented, Recovered, NoApproval,
              NoExecution, NoLocal
<1>6. StoreSound
  <2>1. Cardinality({}) = 0
    BY FS_EmptySet
  <2> QED  BY <1>2, <2>1, CapacityAssumption DEF StoreSound, RowsFit, Sound
<1>7. LocalConsent /\ CompensatedOnce /\ NothingOrphaned
  BY <1>2 DEF LocalConsent, CompensatedOnce, NothingOrphaned
<1> QED  BY <1>1, <1>3, <1>5, <1>6, <1>7 DEF IInv, Support

\* The columns of an intent.
LEMMA IntentColumns ==
    ASSUME Tables, NEW i \in Ids, i \in Intents
    PROVE  /\ intents[i].state \in ExecutionStates /\ intents[i].call \in Calls
           /\ intents[i].binding \in Bindings /\ intents[i].exact \in Exact \cup {None}
           /\ intents[i].outcome \in Terminals \cup {"prepared"} /\ intents[i].started \in Times
BY DEF Tables, Intents, IntentRow, NoIntent

\* A call that has an intent or none.
LEMMA IntendedColumns ==
    ASSUME Tables, NEW c \in Calls
    PROVE  Intended(c) <=> \E i \in Intents : intents[i].call = c
<1>1. ASSUME NEW i \in Ids, i \notin Intents PROVE intents[i].call = None
  <2>1. intents[i].state = "none" /\ intents[i] \in IntentRow
    BY <1>1 DEF Intents, Tables
  <2>2. intents[i] = NoIntent
    BY <2>1 DEF IntentRow, ExecutionStates, Outcomes
  <2> QED  BY <2>2 DEF NoIntent
<1> QED  BY <1>1, NamesAssumption DEF Intended, Intents

\* An approval that is not used up, before or after, with the preview and the owner that go
\* with it.
LEMMA ApprovalWritten ==
    ASSUME IInv, NEW c \in Calls, NEW row \in ApprovalRow,
           approval[c].state # "consumed", row.state \notin {"none", "consumed"},
           row.state = "approved" => row.decision \in Ids,
           approval' = [approval EXCEPT ![c] = row],
           UNCHANGED <<clock, execution, intents, outcomes, admits, posts, events, refusals,
                       tokens, phase, released>>,
           previews' \in [Calls -> Bindings \cup {None}],
           local' \in [Calls -> [owner : Owners \cup {None}, exact : Exact \cup {None}]],
           \A x \in Calls : x # c => previews'[x] = previews[x] /\ local'[x] = local[x],
           previews'[c] # None => previews'[c].digest = row.digest /\ previews'[c].level # "A0",
           local'[c].owner = local[c].owner \/ ~Intended(c),
           consent \subseteq consent',
           Consented'
    PROVE  IInv'
<1> USE DEF IInv, Support
<1>1. Tables'
  BY DEF Tables
<1>2. approval'[c] = row /\ \A x \in Calls : x # c => approval'[x] = approval[x]
  BY DEF Tables
<1>3. Intents' = Intents /\ Unfinished' = Unfinished /\ \A x \in Calls : Intended(x)' = Intended(x)
  BY DEF Intents, Unfinished, Intended
<1>4. FewRows'
  BY <1>3 DEF FewRows
<1>5. Unasked'
  BY <1>2 DEF Unasked
<1>6. Traceless' /\ ReleasesShow' /\ Recovered' /\ NothingOrphaned'
  BY <1>3 DEF Traceless, ReleasesShow, Acts, Recovered, NothingOrphaned, Up
<1>7. \A i \in Intents : ValidIntent(i)'
  <2> SUFFICES ASSUME NEW i \in Intents PROVE ValidIntent(i)'
    OBVIOUS
  <2>1. ValidIntent(i) /\ i \in Ids
    BY DEF StoreSound, Sound, Intents
  <2>2. intents[i].call \in Calls
    BY <2>1, IntentColumns
  <2>3. ValidOrigin(intents[i].binding)'
    BY <2>1, <1>3 DEF ValidIntent, ValidOrigin
  <2>4. intents[i].exact # None => intents[i].call # c
    BY <2>1 DEF ValidIntent
  <2> QED  BY <1>2, <2>1, <2>2, <2>3, <2>4 DEF ValidIntent
<1>8. \A x \in Previews' : previews'[x].digest = approval'[x].digest /\ previews'[x].level # "A0"
  BY <1>2 DEF StoreSound, Sound, Previews
<1>9. StoreSound'
  BY <1>3, <1>7, <1>8 DEF StoreSound, RowsFit, Sound
<1>10. LocalConsent'
  <2> SUFFICES ASSUME NEW i \in Intents, local'[intents[i].call].owner # None
               PROVE  /\ intents[i].exact # None
                      /\ intents[i].exact.approver = local'[intents[i].call].owner
                      /\ <<intents[i].call, intents[i].binding>> \in consent'
    BY <1>3 DEF LocalConsent
  <2>1. intents[i].call \in Calls
    BY IntentColumns DEF Intents
  <2>2. local'[intents[i].call].owner = local[intents[i].call].owner
    BY <2>1, IntendedColumns
  <2> QED  BY <2>2 DEF LocalConsent
<1>11. CompensatedOnce'
  BY <1>3 DEF CompensatedOnce
<1> QED  BY <1>1, <1>4, <1>5, <1>6, <1>9, <1>10, <1>11

\* What create_on, decide and cancel write.
LEMMA CreatedRow ==
    ASSUME Tables, NEW c \in Calls, NEW d \in Digests, NEW created \in Times,
           CreateOn(c, d, created, created + MaxTtl)
    PROVE  \E row \in ApprovalRow :
              /\ approval[c].state = "none" /\ ~Intended(c)
              /\ row.state = "pending" /\ row.digest = d
              /\ approval' = [approval EXCEPT ![c] = row]
<1> DEFINE row == [NoApproval EXCEPT !.state = "pending", !.digest = d, !.created = created,
                                     !.expires = created + MaxTtl, !.updated = created]
<1>1. row \in ApprovalRow /\ row.state = "pending" /\ row.digest = d
  <2>1. NoApproval \in ApprovalRow
    BY TimeAssumption DEF NoApproval, ApprovalRow, Times
  <2>2. created + MaxTtl \in Nat
    BY TimeAssumption DEF Times
  <2> QED  BY <2>1, <2>2 DEF ApprovalRow, ApprovalStates, OpenStates
<1>2. approval[c].state = "none" /\ ~Intended(c) /\ approval' = [approval EXCEPT ![c] = row]
  BY DEF CreateOn, Known, WriteApproval
<1> HIDE DEF row
<1> QED  BY <1>1, <1>2

LEMMA SettledRow ==
    ASSUME Tables, NEW c \in Calls, NEW i \in Ids, NEW verdict \in {"approved", "denied"},
           Settle(c, i, verdict, clock)
    PROVE  \E row \in ApprovalRow :
              /\ approval[c].state = "pending" /\ row.state = verdict
              /\ row.decision = i /\ row.digest = approval[c].digest
              /\ approval' = [approval EXCEPT ![c] = row]
<1> DEFINE row == [approval[c] EXCEPT !.state = verdict, !.decision = i, !.updated = clock]
<1>1. row \in ApprovalRow /\ row.state = verdict /\ row.decision = i /\ row.digest = approval[c].digest
  BY DEF Tables, ApprovalRow, ApprovalStates, OpenStates, ClosedStates
<1>2. approval[c].state = "pending" /\ approval' = [approval EXCEPT ![c] = row]
  BY DEF Settle, WriteApproval
<1> HIDE DEF row
<1> QED  BY <1>1, <1>2

\* A request of the old interface that closes an open approval.
LEMMA ClosedRow ==
    ASSUME Tables, NEW c \in Calls, Expire(c, clock) \/ \E i \in Ids : Withdraw(c, i, clock)
    PROVE  \E row \in ApprovalRow :
              /\ approval[c].state \in OpenStates /\ row.state \in {"expired", "cancelled"}
              /\ row.digest = approval[c].digest
              /\ approval' = [approval EXCEPT ![c] = row]
<1>1. CASE Expire(c, clock)
  <2> DEFINE row == [approval[c] EXCEPT !.state = "expired", !.updated = clock]
  <2>1. row \in ApprovalRow /\ row.state = "expired" /\ row.digest = approval[c].digest
    BY DEF Tables, ApprovalRow, ApprovalStates, OpenStates, ClosedStates
  <2>2. approval[c].state \in OpenStates /\ approval' = [approval EXCEPT ![c] = row]
    BY <1>1 DEF Expire, Due, WriteApproval
  <2> HIDE DEF row
  <2> QED  BY <2>1, <2>2
<1>2. ASSUME NEW i \in Ids, Withdraw(c, i, clock)
      PROVE  \E row \in ApprovalRow :
                /\ approval[c].state \in OpenStates /\ row.state \in {"expired", "cancelled"}
                /\ row.digest = approval[c].digest
                /\ approval' = [approval EXCEPT ![c] = row]
  <2> DEFINE row == [approval[c] EXCEPT !.state = "cancelled", !.cancellation = i,
                                        !.updated = clock]
  <2>1. row \in ApprovalRow /\ row.state = "cancelled" /\ row.digest = approval[c].digest
    BY DEF Tables, ApprovalRow, ApprovalStates, OpenStates, ClosedStates
  <2>2. approval[c].state \in OpenStates /\ approval' = [approval EXCEPT ![c] = row]
    BY <1>2 DEF Withdraw, WriteApproval
  <2> HIDE DEF row
  <2> QED  BY <2>1, <2>2
<1> QED  BY <1>1, <1>2

-----------------------------------------------------------------------------
\* The old interface on an approval that is there or that it makes.
LEMMA LegacyApproval ==
    ASSUME IInv, NEW c \in Calls, NEW row \in ApprovalRow,
           approval[c].state # "consumed", row.state \notin {"none", "consumed"},
           row.state = "approved" => row.decision \in Ids,
           approval[c].state = "none" \/ row.digest = approval[c].digest,
           approval' = [approval EXCEPT ![c] = row],
           UNCHANGED <<clock, executions, governed, local, outcomes, audits, process, released,
                       consent>>
    PROVE  IInv'
<1> USE DEF IInv, Support
<1>1. UNCHANGED <<clock, execution, intents, previews, local, outcomes, admits, posts, events,
                  refusals, tokens, phase, released, consent>>
  BY DEF executions, governed, audits, process
<1>2. previews[c] # None => previews[c].digest = row.digest /\ previews[c].level # "A0"
  BY DEF Unasked, StoreSound, Sound, Previews
<1>3. Consented'
  BY <1>1 DEF Consented
<1>4. /\ previews' \in [Calls -> Bindings \cup {None}]
      /\ local' \in [Calls -> [owner : Owners \cup {None}, exact : Exact \cup {None}]]
  BY <1>1 DEF Tables
<1> QED  BY <1>1, <1>2, <1>3, <1>4, ApprovalWritten

LEMMA CreateLegacyStep ==
    ASSUME IInv, NEW c \in Calls, NEW d \in Digests, NEW created \in Times,
           CreateLegacy(c, d, created)
    PROVE  IInv'
<1>1. /\ CreateOn(c, d, created, created + MaxTtl)
      /\ UNCHANGED <<clock, executions, governed, local, outcomes, audits, process, released,
                     consent>>
  BY DEF CreateLegacy
<1>2. PICK row \in ApprovalRow :
          /\ approval[c].state = "none" /\ row.state = "pending" /\ row.digest = d
          /\ approval' = [approval EXCEPT ![c] = row]
  BY <1>1, CreatedRow DEF IInv
<1> QED  BY <1>1, <1>2, LegacyApproval

LEMMA DecideLegacyStep ==
    ASSUME IInv, NEW c \in Calls, NEW d \in Digests, NEW i \in Ids,
           NEW verdict \in {"approved", "denied"}, DecideLegacy(c, d, i, verdict)
    PROVE  IInv'
<1>1. /\ Settle(c, i, verdict, clock)
      /\ UNCHANGED <<clock, executions, governed, local, outcomes, audits, process, released,
                     consent>>
  BY DEF DecideLegacy
<1>2. PICK row \in ApprovalRow :
          /\ approval[c].state = "pending" /\ row.state = verdict
          /\ row.decision = i /\ row.digest = approval[c].digest
          /\ approval' = [approval EXCEPT ![c] = row]
  BY <1>1, SettledRow DEF IInv
<1> QED  BY <1>1, <1>2, LegacyApproval

LEMMA CloseStep ==
    ASSUME IInv, NEW c \in Calls, FindExpired(c) \/ \E i \in Ids : CancelLegacy(c, i)
    PROVE  IInv'
<1>1. /\ Expire(c, clock) \/ \E i \in Ids : Withdraw(c, i, clock)
      /\ UNCHANGED <<clock, executions, governed, local, outcomes, audits, process, released,
                     consent>>
  BY DEF FindExpired, CancelLegacy
<1>2. PICK row \in ApprovalRow :
          /\ approval[c].state \in OpenStates /\ row.state \in {"expired", "cancelled"}
          /\ row.digest = approval[c].digest
          /\ approval' = [approval EXCEPT ![c] = row]
  BY <1>1, ClosedRow DEF IInv
<1> QED  BY <1>1, <1>2, LegacyApproval DEF OpenStates

\* A governed request adds the preview and, for a local user, the owner.
LEMMA RequestStep ==
    ASSUME IInv, NEW c \in Calls, NEW b \in Bindings, NEW created \in Times,
           CreateOn(c, b.digest, created, created + MaxTtl), b.level # "A0",
           previews' = [previews EXCEPT ![c] = b],
           local' = local \/ \E o \in Owners : local' = [local EXCEPT ![c].owner = o],
           UNCHANGED <<clock, execution, intents, outcomes, admits, posts, events, refusals,
                       tokens, phase, released, consent>>
    PROVE  IInv'
<1> USE DEF IInv, Support
<1>1. b # None /\ b.digest \in Digests
  BY BindingsAssumption
<1>2. PICK row \in ApprovalRow :
          /\ approval[c].state = "none" /\ ~Intended(c)
          /\ row.state = "pending" /\ row.digest = b.digest
          /\ approval' = [approval EXCEPT ![c] = row]
  BY <1>1, CreatedRow
<1>3. previews[c] = None /\ local[c].owner = None /\ local[c].exact = None
  BY <1>2 DEF Unasked
<1>4. /\ previews' \in [Calls -> Bindings \cup {None}]
      /\ local' \in [Calls -> [owner : Owners \cup {None}, exact : Exact \cup {None}]]
      /\ \A x \in Calls : x # c => previews'[x] = previews[x] /\ local'[x] = local[x]
      /\ previews'[c] = b /\ local'[c].exact = None
  BY <1>3 DEF Tables
<1>5. Consented'
  BY <1>4 DEF Consented
<1> QED  BY <1>1, <1>2, <1>4, <1>5, ApprovalWritten

LEMMA CreateGovernedStep ==
    ASSUME IInv, NEW c \in Calls, NEW b \in Bindings, NEW created \in Times,
           \/ CreateGoverned(c, b, created)
           \/ \E o \in Owners : RequestLocal(o, c, b, created)
    PROVE  IInv'
<1>1. /\ CreateOn(c, b.digest, created, created + MaxTtl) /\ b.level # "A0"
      /\ previews' = [previews EXCEPT ![c] = b]
      /\ local' = local \/ \E o \in Owners : local' = [local EXCEPT ![c].owner = o]
      /\ UNCHANGED <<clock, execution, intents, outcomes, admits, posts, events, refusals,
                     tokens, phase, released, consent>>
  BY DEF CreateGoverned, RequestLocal, executions, audits, process
<1> QED  BY <1>1, RequestStep

\* The owner's decision is about the preview that is there.
LEMMA DecideLocalStep ==
    ASSUME IInv, NEW o \in Owners, NEW c \in Calls, NEW i \in Ids,
           NEW verdict \in {"approved", "denied"}, DecideLocal(o, c, i, verdict)
    PROVE  IInv'
<1> USE DEF IInv, Support
<1> DEFINE exact == [decision |-> i, approver |-> o]
<1>1. /\ Settle(c, i, verdict, clock) /\ local[c].owner = o
      /\ \/ local' = [local EXCEPT ![c].exact = exact] /\ consent' = consent \cup {<<c, previews[c]>>}
         \/ UNCHANGED <<local, consent>>
      /\ UNCHANGED <<clock, execution, intents, previews, outcomes, admits, posts, events, refusals,
                     tokens, phase, released>>
  BY DEF DecideLocal, executions, governed, audits, process
<1>2. PICK row \in ApprovalRow :
          /\ approval[c].state = "pending" /\ row.state = verdict
          /\ row.decision = i /\ row.digest = approval[c].digest
          /\ approval' = [approval EXCEPT ![c] = row]
  BY <1>1, SettledRow
<1>3. exact \in Exact /\ exact.approver = o
  BY DEF Exact
<1> HIDE DEF exact
<1>4. /\ local' \in [Calls -> [owner : Owners \cup {None}, exact : Exact \cup {None}]]
      /\ \A x \in Calls : x # c => local'[x] = local[x]
      /\ local'[c].owner = local[c].owner
      /\ local'[c].exact = local[c].exact \/ (local'[c].exact = exact /\ <<c, previews[c]>> \in consent')
      /\ consent \subseteq consent'
  BY <1>1, <1>3 DEF Tables
<1>5. previews[c] # None => previews[c].digest = row.digest /\ previews[c].level # "A0"
  BY <1>2 DEF StoreSound, Sound, Previews
<1>6. Consented'
  BY <1>1, <1>3, <1>4 DEF Consented
<1>7. previews' \in [Calls -> Bindings \cup {None}]
  BY <1>1 DEF Tables
<1> QED  BY <1>1, <1>2, <1>4, <1>5, <1>6, <1>7, ApprovalWritten

-----------------------------------------------------------------------------
\* Consuming the approval of a call that has no intent and making its execution: the rows of
\* every other call stay.
LEMMA ConsumedRows ==
    ASSUME IInv, NEW c \in Calls, NEW i \in Ids, Consume(c, i, clock)
    PROVE  /\ approval' \in [Calls -> ApprovalRow] /\ execution' \in [Calls -> ExecutionRow]
           /\ approval[c].state = "approved" /\ execution[c].state = "none"
           /\ approval'[c].state = "consumed" /\ approval'[c].digest = approval[c].digest
           /\ approval'[c].decision = approval[c].decision
           /\ execution'[c].state = "prepared" /\ execution'[c].id = i
           /\ \A x \in Calls : x # c => approval'[x] = approval[x] /\ execution'[x] = execution[x]
<1> USE DEF IInv
<1> DEFINE arow == [approval[c] EXCEPT !.state = "consumed", !.updated = clock]
           xrow == [NoExecution EXCEPT !.state = "prepared", !.id = i, !.started = clock]
<1>1. /\ approval[c].state = "approved" /\ execution[c].state = "none"
      /\ approval' = [approval EXCEPT ![c] = arow] /\ execution' = [execution EXCEPT ![c] = xrow]
  BY DEF Consume, WriteApproval, WriteExecution
<1>2. /\ arow \in ApprovalRow /\ arow.state = "consumed" /\ arow.digest = approval[c].digest
      /\ arow.decision = approval[c].decision
  BY DEF Tables, ApprovalRow, ApprovalStates, OpenStates, ClosedStates
<1>3. xrow \in ExecutionRow /\ xrow.state = "prepared" /\ xrow.id = i
  <2>1. NoExecution \in ExecutionRow
    BY TimeAssumption DEF NoExecution, ExecutionRow, Times
  <2>2. clock \in Times
    BY DEF Tables
  <2> QED  BY <2>1, <2>2 DEF ExecutionRow, ExecutionStates
<1> HIDE DEF arow, xrow
<1> QED  BY <1>1, <1>2, <1>3 DEF Tables

\* What a step outside the adapter may do to the rows of a call: nothing that shows, ending an
\* execution that is no intent's, or using up the approval of a call that has no intent.
KeepsIntents(c) ==
    /\ approval'[c].digest = approval[c].digest
    /\ \/ /\ approval'[c] = approval[c]
          /\ execution'[c].state = execution[c].state /\ execution'[c].id = execution[c].id
       \/ /\ approval'[c] = approval[c]
          /\ execution[c].state # "none" /\ execution'[c].state # "none"
          /\ \A i \in Intents : intents[i].exact # None => intents[i].call # c
       \/ /\ approval[c].state = "approved" /\ approval'[c].state = "consumed"
          /\ execution'[c].state # "none" /\ approval'[c].decision = approval[c].decision
          /\ ~Intended(c)

\* A step on the execution of calls that have no intent.
LEMMA UngovernedStep ==
    ASSUME IInv,
           approval' \in [Calls -> ApprovalRow], execution' \in [Calls -> ExecutionRow],
           UNCHANGED <<clock, intents, previews, local, outcomes, admits, posts, events, refusals,
                       tokens, consent>>,
           phase' = phase \/ (Unfinished = {} /\ phase' = "up"),
           \A c \in Calls : KeepsIntents(c),
           ReleasesShow', released' \in [Calls -> Nat]
    PROVE  IInv'
<1> USE DEF IInv, Support
<1>1. Tables'
  BY DEF Tables
<1>2. Intents' = Intents /\ Unfinished' = Unfinished /\ Previews' = Previews
  BY DEF Intents, Unfinished, Previews
<1>3. FewRows' /\ Traceless' /\ Consented' /\ Recovered' /\ NothingOrphaned'
  BY <1>2 DEF FewRows, Traceless, Consented, Recovered, NothingOrphaned, Up
<1>4. Unasked'
  BY DEF Unasked, KeepsIntents
<1>5. \A i \in Intents : ValidIntent(i)'
  <2> SUFFICES ASSUME NEW i \in Intents PROVE ValidIntent(i)'
    OBVIOUS
  <2>1. ValidIntent(i) /\ i \in Ids
    BY DEF StoreSound, Sound, Intents
  <2>2. intents[i].call \in Calls
    BY <2>1, IntentColumns
  <2>3. ValidOrigin(intents[i].binding)'
    BY <2>1, <1>2 DEF ValidIntent, ValidOrigin
  <2>4. intents[i].exact # None =>
            LET c == intents[i].call
            IN  /\ approval'[c] = approval[c] /\ execution'[c].state = execution[c].state
                /\ execution'[c].id = execution[c].id
    BY <2>1, <2>2, IntendedColumns DEF KeepsIntents, ValidIntent
  <2> QED  BY <2>1, <2>2, <2>3, <2>4 DEF ValidIntent
<1>6. StoreSound'
  BY <1>2, <1>5 DEF StoreSound, RowsFit, Sound, Previews, KeepsIntents
<1>7. LocalConsent' /\ CompensatedOnce'
  BY <1>2 DEF LocalConsent, CompensatedOnce
<1> QED  BY <1>1, <1>3, <1>4, <1>6, <1>7

LEMMA PrepareLegacyStep ==
    ASSUME IInv, NEW c \in Calls, NEW d \in Digests, NEW i \in Ids, PrepareLegacy(c, d, i)
    PROVE  IInv'
<1>1. /\ Consume(c, i, clock) /\ ~Intended(c) /\ released' = [released EXCEPT ![c] = @ + 1]
      /\ UNCHANGED <<clock, intents, previews, local, outcomes, admits, posts, events, refusals,
                     tokens, phase, consent>>
  BY DEF PrepareLegacy, Prepare, Ungoverned, governed, audits, process
<1>2. /\ approval' \in [Calls -> ApprovalRow] /\ execution' \in [Calls -> ExecutionRow]
      /\ approval[c].state = "approved" /\ execution[c].state = "none"
      /\ approval'[c].state = "consumed" /\ approval'[c].digest = approval[c].digest
      /\ approval'[c].decision = approval[c].decision
      /\ execution'[c].state = "prepared"
      /\ \A x \in Calls : x # c => approval'[x] = approval[x] /\ execution'[x] = execution[x]
  BY <1>1, ConsumedRows
<1>3. (ReleasesShow /\ released \in [Calls -> Nat])'
  <2>1. \A x \in Calls : Intended(x)' = Intended(x)
    BY <1>1 DEF Intended
  <2>2. released[c] = 0 /\ released \in [Calls -> Nat]
    BY <1>1, <1>2 DEF IInv, Support, Tables, ReleasesShow, Acts
  <2>3. released' = [released EXCEPT ![c] = 1]
    BY <1>1, <2>2
  <2> QED  BY <1>1, <1>2, <2>1, <2>2, <2>3 DEF IInv, Support, ReleasesShow, Acts
<1>4. \A x \in Calls : KeepsIntents(x)
  BY <1>1, <1>2 DEF KeepsIntents
<1> QED  BY <1>1, <1>2, <1>3, <1>4, UngovernedStep

\* Executions that end outside the governed adapter.
EndsOutside(c) ==
    \/ execution'[c] = execution[c]
    \/ /\ execution[c].state = "prepared" /\ execution'[c].state # "none"
       /\ \A i \in Intents : intents[i].exact # None => intents[i].call # c

LEMMA ExecutionsEnd ==
    ASSUME IInv, execution' \in [Calls -> ExecutionRow],
           UNCHANGED <<clock, approval, intents, previews, local, outcomes, admits, posts, events,
                       refusals, tokens, released, consent>>,
           phase' = phase \/ (Unfinished = {} /\ phase' = "up"),
           \A c \in Calls : EndsOutside(c)
    PROVE  IInv'
<1>1. (ReleasesShow /\ released \in [Calls -> Nat])'
  <2>1. \A x \in Calls : Intended(x)' = Intended(x)
    BY DEF Intended
  <2> QED  BY <2>1 DEF IInv, Support, Tables, ReleasesShow, Acts, EndsOutside
<1>2. approval' \in [Calls -> ApprovalRow]
  BY DEF IInv, Tables
<1>3. \A c \in Calls : KeepsIntents(c)
  BY DEF KeepsIntents, EndsOutside
<1> QED  BY <1>1, <1>2, <1>3, UngovernedStep

LEMMA CompleteLegacyStep ==
    ASSUME IInv, NEW c \in Calls, NEW i \in Ids, NEW outcome \in Outcomes,
           CompleteLegacy(c, i, outcome)
    PROVE  IInv'
<1> DEFINE row == [execution[c] EXCEPT !.state = outcome, !.finished = clock]
<1>1. /\ ~Intended(c) /\ execution[c].state = "prepared"
      /\ execution' = [execution EXCEPT ![c] = row]
      /\ UNCHANGED <<clock, approval, intents, previews, local, outcomes, admits, posts, events,
                     refusals, tokens, phase, released, consent>>
  BY DEF CompleteLegacy, Complete, WriteExecution, approvals, governed, audits, process
<1>2. row \in ExecutionRow /\ row.state # "none"
  BY DEF IInv, Tables, ExecutionRow, ExecutionStates, Outcomes
<1> HIDE DEF row
<1>3. /\ execution' \in [Calls -> ExecutionRow] /\ execution'[c] = row
      /\ \A x \in Calls : x # c => execution'[x] = execution[x]
  BY <1>1, <1>2 DEF IInv, Tables
<1>4. \A j \in Intents : intents[j].call # c
  BY <1>1, IntendedColumns DEF IInv
<1>5. \A x \in Calls : EndsOutside(x)
  BY <1>1, <1>2, <1>3, <1>4 DEF EndsOutside
<1> QED  BY <1>1, <1>3, <1>5, ExecutionsEnd

\* recover_prepared_on comes when no intent is unfinished, and so meets no execution of one.
LEMMA RecoverLegacyStep ==
    ASSUME IInv, RecoverLegacy
    PROVE  IInv'
<1> USE DEF IInv, Support
<1>1. /\ Unfinished = {} /\ phase' = "up"
      /\ UNCHANGED <<clock, approval, intents, previews, local, outcomes, admits, posts, events,
                     refusals, tokens, released, consent>>
  BY DEF RecoverLegacy, Recovered, approvals, governed, audits
<1>2. /\ execution' \in [Calls -> ExecutionRow]
      /\ \A c \in Calls : \/ execution'[c] = execution[c]
                          \/ execution[c].state = "prepared" /\ execution'[c].state = "interrupted"
  <2>1. \A c \in Calls : [execution[c] EXCEPT !.state = "interrupted", !.finished = clock] \in ExecutionRow
    BY DEF Tables, ExecutionRow, ExecutionStates
  <2>2. /\ execution \in [Calls -> ExecutionRow]
        /\ execution' = [c \in Calls |->
              IF c \in Prepared
              THEN [execution[c] EXCEPT !.state = "interrupted", !.finished = clock]
              ELSE execution[c]]
    BY DEF RecoverLegacy, RecoverPrepared, Tables
  <2> HIDE DEF IInv
  <2> QED  BY <2>1, <2>2 DEF Prepared, ExecutionRow
<1>3. ASSUME NEW c \in Calls, execution[c].state = "prepared", NEW i \in Intents,
             intents[i].exact # None
      PROVE  intents[i].call # c
  <2>1. ValidIntent(i) /\ intents[i].state # "prepared"
    BY <1>1 DEF StoreSound, Sound, Intents, Unfinished
  <2> QED  BY <1>3, <2>1 DEF ValidIntent
<1>4. \A c \in Calls : EndsOutside(c)
  BY <1>2, <1>3 DEF EndsOutside
<1> QED  BY <1>1, <1>2, <1>4, ExecutionsEnd

-----------------------------------------------------------------------------
\* An intent is admitted: with the approval it has just used up, or without one for a call
\* that nobody has asked an approval for.
LEMMA AdmitStep ==
    ASSUME IInv, NEW c \in Calls, NEW i \in Ids, NEW b \in Bindings, NEW exact \in Exact \cup {None},
           Admissible(c, i, b), Admit(c, i, b, exact),
           approval' \in [Calls -> ApprovalRow], execution' \in [Calls -> ExecutionRow],
           execution[c].state = "none", approval'[c].digest = approval[c].digest,
           \A x \in Calls : x # c => approval'[x] = approval[x] /\ execution'[x] = execution[x],
           exact = None => approval' = approval /\ execution' = execution,
           exact # None => /\ previews[c] = b /\ approval[c].state # "none"
                           /\ approval'[c].digest = b.digest
                           /\ approval'[c].decision = exact.decision
                           /\ approval'[c].state = "consumed"
                           /\ execution'[c].state = "prepared" /\ execution'[c].id = i,
           local[c].owner # None => /\ exact # None /\ exact.approver = local[c].owner
                                    /\ <<c, b>> \in consent
    PROVE  IInv'
<1> USE DEF IInv, Support
<1> DEFINE row == [state |-> "prepared", call |-> c, binding |-> b, exact |-> exact,
                   outcome |-> "prepared", started |-> clock]
<1>1. /\ ~Intended(c) /\ intents[i].state = "none" /\ Up
      /\ Cardinality(Intents) < Capacity /\ events < Capacity /\ ValidOrigin(b)
      /\ b.origin # None => \A j \in Intents : intents[j].binding.origin # b.origin
  BY DEF Admissible, Resolved, Room
<1>2. /\ intents' = [intents EXCEPT ![i] = row]
      /\ outcomes' = [outcomes EXCEPT ![i] = Append(@, "prepared")]
      /\ admits' = [admits EXCEPT ![i] = @ + 1]
      /\ events' = events + 1 /\ tokens' = tokens \cup {i}
      /\ released' = [released EXCEPT ![c] = @ + 1]
      /\ UNCHANGED <<clock, previews, local, posts, refusals, phase, consent>>
  BY DEF Admit
<1>3. /\ row \in IntentRow /\ row.state = "prepared" /\ row.call = c /\ row.binding = b
      /\ row.exact = exact /\ row.outcome = "prepared"
  BY DEF IntentRow, ExecutionStates, Terminals, Tables
<1> HIDE DEF row
<1>4. /\ intents' \in [Ids -> IntentRow] /\ intents'[i] = row
      /\ \A j \in Ids : j # i => intents'[j] = intents[j]
  BY <1>2, <1>3 DEF Tables
<1>5. i \notin Intents /\ Intents' = Intents \cup {i} /\ Unfinished' = Unfinished \cup {i}
  BY <1>1, <1>3, <1>4 DEF Intents, Unfinished
<1>6. outcomes[i] = <<>> /\ admits[i] = 0 /\ released[c] = 0 /\ posts[i] = {}
  BY <1>1, <1>5 DEF Traceless, ReleasesShow, Acts, StoreSound, Sound
<1>7. /\ outcomes' = [outcomes EXCEPT ![i] = <<"prepared">>]
      /\ admits' = [admits EXCEPT ![i] = 1] /\ released' = [released EXCEPT ![c] = 1]
  <2>1. Append(outcomes[i], "prepared") = <<"prepared">>
    BY <1>6
  <2> QED  BY <1>2, <1>6, <2>1 DEF Tables
<1>8. Tables'
  <2>1. <<"prepared">> \in Seq(Terminals \cup {"prepared"})
    OBVIOUS
  <2>2. outcomes' \in [Ids -> Seq(Terminals \cup {"prepared"})]
    BY <1>7, <2>1 DEF Tables
  <2>3. admits' \in [Ids -> Nat] /\ released' \in [Calls -> Nat]
    BY <1>7 DEF Tables
  <2>4. events' \in Nat
    BY <1>2 DEF Tables
  <2> QED  BY <1>2, <1>4, <2>2, <2>3, <2>4 DEF Tables
<1>9. \A x \in Calls : Intended(x)' <=> Intended(x) \/ x = c
  BY <1>3, <1>4, <1>5, IntendedColumns, <1>8, NamesAssumption DEF Intended, Intents
<1>10. IsFiniteSet(Intents') /\ Cardinality(Intents') <= Capacity
  <2>1. IsFiniteSet(Intents) /\ Cardinality(Intents) \in Nat
    BY FS_CardinalityType DEF FewRows
  <2>2. IsFiniteSet(Intents \cup {i}) /\ Cardinality(Intents \cup {i}) = Cardinality(Intents) + 1
    BY <1>5, <2>1, FS_AddElement
  <2>3. Cardinality(Intents) + 1 <= Capacity
    BY <1>1, <2>1, CapacityAssumption
  <2> QED  BY <1>5, <2>2, <2>3
<1>11. FewRows' /\ Consented' /\ Recovered' /\ NothingOrphaned'
  BY <1>1, <1>2, <1>5, <1>10 DEF FewRows, Consented, Recovered, NothingOrphaned, Up
<1>12. Unasked'
  BY <1>2 DEF Unasked, Tables, Exact
<1>13. Traceless' /\ ReleasesShow'
  BY <1>2, <1>5, <1>7, <1>9 DEF Traceless, ReleasesShow, Acts, Tables
<1>14. \A j \in Intents' : ValidIntent(j)'
  <2>1. ASSUME NEW d \in Bindings, ValidOrigin(d) PROVE ValidOrigin(d)'
    BY <2>1, <1>4, <1>5 DEF ValidOrigin, Intents
  <2>2. ValidIntent(i)'
    BY <1>1, <1>2, <1>3, <1>4, <1>5, <1>7, <2>1 DEF ValidIntent, BaseState, Tables
  <2>3. ASSUME NEW j \in Intents PROVE ValidIntent(j)'
    <3>1. ValidIntent(j) /\ j \in Ids /\ j # i
      BY <1>5 DEF StoreSound, Sound, Intents
    <3>2. intents[j].call \in Calls /\ intents[j].call # c /\ intents[j].binding \in Bindings
      BY <1>1, <3>1, IntentColumns, IntendedColumns
    <3> QED  BY <1>2, <1>4, <1>7, <2>1, <3>1, <3>2 DEF ValidIntent, Tables
  <2> QED  BY <1>5, <2>2, <2>3
<1>15. StoreSound'
  <2>1. \A x \in Calls : approval'[x].digest = approval[x].digest
    OBVIOUS
  <2>2. events' <= Capacity
    BY <1>1, <1>2, CapacityAssumption DEF Tables
  <2> QED  BY <1>2, <1>4, <1>5, <1>6, <1>10, <1>14, <2>1, <2>2
           DEF StoreSound, RowsFit, Sound, Previews, Intents
<1>16. LocalConsent'
  BY <1>2, <1>3, <1>4, <1>5 DEF LocalConsent, Intents
<1>17. CompensatedOnce'
  <2>1. \A j \in Intents' : j \in Ids
    BY DEF Intents
  <2>2. \A j \in Intents' : ValidOrigin(intents[j].binding)'
    BY <1>14 DEF ValidIntent
  <2> QED  BY <1>1, <1>3, <1>4, <1>5, <2>1, <2>2 DEF CompensatedOnce, ValidOrigin
<1> QED  BY <1>8, <1>11, <1>12, <1>13, <1>15, <1>16, <1>17

\* prepare under an approval.  For a local user's call the envelope is the one that the owner
\* approved, and that stands for the preview that is there.
LEMMA PrepareApprovedStep ==
    ASSUME IInv, NEW r \in Routes, NEW c \in Calls, NEW i \in Ids, NEW b \in Bindings,
           NEW o \in Owners,
           PrepareApproved(r, c, i, b, [decision |-> approval[c].decision, approver |-> o])
    PROVE  IInv'
<1> DEFINE exact == [decision |-> approval[c].decision, approver |-> o]
<1>1. /\ previews[c] = b /\ ExactMatches(c, exact)
      /\ approval[c].digest = b.digest /\ approval[c].decision = exact.decision
      /\ Admissible(c, i, b) /\ Consume(c, i, clock) /\ Admit(c, i, b, exact)
  BY DEF PrepareApproved
<1>2. /\ approval' \in [Calls -> ApprovalRow] /\ execution' \in [Calls -> ExecutionRow]
      /\ approval[c].state = "approved" /\ execution[c].state = "none"
      /\ approval'[c].state = "consumed" /\ approval'[c].digest = approval[c].digest
      /\ approval'[c].decision = approval[c].decision
      /\ execution'[c].state = "prepared" /\ execution'[c].id = i
      /\ \A x \in Calls : x # c => approval'[x] = approval[x] /\ execution'[x] = execution[x]
  BY <1>1, ConsumedRows
<1>3. approval[c].decision \in Ids
  BY <1>2 DEF IInv, Support, Unasked
<1>4. exact \in Exact /\ exact # None
  BY <1>3, OwnersAssumption DEF Exact
<1> HIDE DEF exact
<1>5. local[c].owner # None => exact.approver = local[c].owner /\ <<c, b>> \in consent
  BY <1>1, <1>4 DEF ExactMatches, IInv, Support, Consented
<1> QED  BY <1>1, <1>2, <1>4, <1>5, AdmitStep

LEMMA PrepareFreeStep ==
    ASSUME IInv, NEW c \in Calls, NEW i \in Ids, NEW b \in Bindings, PrepareFree(c, i, b)
    PROVE  IInv'
<1>1. /\ approval[c].state = "none" /\ Admissible(c, i, b) /\ Admit(c, i, b, None)
      /\ approval' = approval /\ execution' = execution
  BY DEF PrepareFree, Known, approvals, executions
<1>2. execution[c].state = "none" /\ local[c].owner = None
  BY <1>1 DEF IInv, Support, Unasked
<1>3. approval' \in [Calls -> ApprovalRow] /\ execution' \in [Calls -> ExecutionRow]
  BY <1>1 DEF IInv, Tables
<1> QED  BY <1>1, <1>2, <1>3, AdmitStep

-----------------------------------------------------------------------------
\* The second event of an intent.
LEMMA AppendToOne ==
    ASSUME NEW S, NEW p \in S, NEW e \in S
    PROVE  Append(<<p>>, e) = <<p, e>>
<1>1. <<p>> \in Seq(S) /\ Len(<<p>>) = 1 /\ <<p>>[1] = p
  OBVIOUS
<1>2. <<p, e>> \in Seq(S) /\ Len(<<p, e>>) = 2 /\ <<p, e>>[1] = p /\ <<p, e>>[2] = e
  OBVIOUS
<1>3. /\ Append(<<p>>, e) \in Seq(S) /\ Len(Append(<<p>>, e)) = 2
      /\ Append(<<p>>, e)[1] = p /\ Append(<<p>>, e)[2] = e
  BY <1>1, AppendProperties
<1> DEFINE a == Append(<<p>>, e)
           t == <<p, e>>
<1> HIDE DEF a, t
<1>4. a \in Seq(S) /\ t \in Seq(S) /\ Len(a) = 2 /\ Len(t) = 2 /\ a[1] = t[1] /\ a[2] = t[2]
  BY <1>2, <1>3 DEF a, t
<1>5. a = t
  BY <1>4, SeqEqual
<1> QED  BY <1>5 DEF a, t

\* How an unfinished intent ends: by finish, or by recover_on as uncertain.
Ended(i, outcome) ==
    /\ intents'[i].state = BaseState(outcome) /\ intents'[i].outcome = outcome
    /\ intents'[i].call = intents[i].call /\ intents'[i].binding = intents[i].binding
    /\ intents'[i].exact = intents[i].exact
    /\ outcomes'[i] = Append(outcomes[i], outcome)
    /\ intents[i].exact # None => /\ execution'[intents[i].call].state = BaseState(outcome)
                                  /\ execution'[intents[i].call].id = execution[intents[i].call].id

\* Intents end, and with them the executions of the approvals they used up.
LEMMA IntentsEnd ==
    ASSUME IInv, NEW S \in SUBSET Unfinished,
           intents' \in [Ids -> IntentRow], execution' \in [Calls -> ExecutionRow],
           outcomes' \in [Ids -> Seq(Terminals \cup {"prepared"})],
           \A i \in S : \E outcome \in Terminals : Ended(i, outcome),
           \A i \in Ids \ S : intents'[i] = intents[i] /\ outcomes'[i] = outcomes[i],
           \A c \in Calls : \/ execution'[c] = execution[c]
                            \/ /\ execution'[c].state # "none" /\ execution[c].state # "none"
                               /\ \E i \in S : intents[i].call = c /\ intents[i].exact # None,
           UNCHANGED <<clock, approval, previews, local, admits, posts, events, refusals, released,
                       consent>>,
           (phase' = phase /\ tokens' = tokens) \/ (S = Unfinished /\ phase' = "recovered")
    PROVE  IInv'
<1> USE DEF IInv, Support
<1>1. S \subseteq Ids /\ S \subseteq Intents
  BY DEF Unfinished, Intents
<1>2. \A outcome \in Terminals : BaseState(outcome) \in {"succeeded", "failed", "interrupted"}
  BY DEF BaseState, Terminals
<1>3. /\ Intents' = Intents /\ Unfinished' = Unfinished \ S
      /\ \A i \in Ids : /\ intents'[i].call = intents[i].call
                        /\ intents'[i].binding = intents[i].binding
                        /\ intents'[i].exact = intents[i].exact
  <2>1. ASSUME NEW i \in S
        PROVE  /\ intents[i].state = "prepared" /\ intents'[i].state \notin {"none", "prepared"}
               /\ intents'[i].call = intents[i].call /\ intents'[i].binding = intents[i].binding
               /\ intents'[i].exact = intents[i].exact
    <3>1. PICK outcome \in Terminals : Ended(i, outcome)
      OBVIOUS
    <3> QED  BY <1>2, <3>1 DEF Ended, Unfinished
  <2>2. \A i \in Ids \ S : intents'[i] = intents[i]
    OBVIOUS
  <2> HIDE DEF IInv
  <2> QED  BY <1>1, <2>1, <2>2 DEF Intents, Unfinished
<1>4. Tables'
  BY DEF Tables
<1>5. FewRows' /\ Consented' /\ Recovered' /\ NothingOrphaned'
  BY <1>3 DEF FewRows, Consented, Recovered, NothingOrphaned, Up
<1>6. Unasked'
  BY DEF Unasked
<1>7. Traceless'
  BY <1>1, <1>3 DEF Traceless
<1>8. ReleasesShow'
  <2>1. \A c \in Calls : Intended(c)' = Intended(c)
    BY <1>3 DEF Intended
  <2>2. \A c \in Calls : (execution'[c].state = "none") <=> (execution[c].state = "none")
    OBVIOUS
  <2> QED  BY <2>1, <2>2 DEF ReleasesShow, Acts
<1>9. \A d \in Bindings : ValidOrigin(d) => ValidOrigin(d)'
  <2> SUFFICES ASSUME NEW d \in Bindings, ValidOrigin(d), d.origin # None
               PROVE  intents'[d.origin] = intents[d.origin]
    BY <1>3 DEF ValidOrigin
  <2>1. d.origin \in Intents /\ d.origin \in Ids /\ intents[d.origin].outcome = "failed"
    BY DEF ValidOrigin, Intents
  <2>2. intents[d.origin].state = "failed"
    BY <2>1 DEF StoreSound, Sound, ValidIntent, BaseState
  <2>3. d.origin \notin S
    BY <2>2 DEF Unfinished
  <2> QED  BY <2>1, <2>3
<1>10. \A i \in Intents : ValidIntent(i)'
  <2> SUFFICES ASSUME NEW i \in Intents PROVE ValidIntent(i)'
    OBVIOUS
  <2>1. ValidIntent(i) /\ i \in Ids
    BY DEF StoreSound, Sound, Intents
  <2>2. intents[i].call \in Calls /\ intents[i].binding \in Bindings
    BY <2>1, IntentColumns
  <2>3. ValidOrigin(intents[i].binding)'
    <3>1. ValidOrigin(intents[i].binding) /\ intents'[i].binding = intents[i].binding
      BY <1>3, <2>1 DEF ValidIntent
    <3> QED  BY <1>9, <2>2, <3>1
  <2>4. CASE i \in S
    <3>1. PICK outcome \in Terminals : Ended(i, outcome)
      BY <2>4
    <3>2. intents[i].outcome = "prepared" /\ outcome # "prepared"
      BY <2>1, <2>2, <2>4, IntentColumns DEF Unfinished, ValidIntent, BaseState, Terminals
    <3>3. outcomes'[i] = <<"prepared", outcome>>
      <4>1. outcomes[i] = <<"prepared">>
        BY <2>1, <3>2 DEF ValidIntent
      <4>2. outcomes'[i] = Append(<<"prepared">>, outcome)
        BY <3>1, <4>1 DEF Ended
      <4>3. "prepared" \in Terminals \cup {"prepared"} /\ outcome \in Terminals \cup {"prepared"}
        OBVIOUS
      <4>4. Append(<<"prepared">>, outcome) = <<"prepared", outcome>>
        BY <4>3, AppendToOne
      <4> QED  BY <4>2, <4>4
    <3> QED  BY <1>3, <2>1, <2>2, <2>3, <3>1, <3>2, <3>3 DEF ValidIntent, Ended
  <2>5. CASE i \notin S
    <3>1. intents'[i] = intents[i] /\ outcomes'[i] = outcomes[i]
      BY <2>1, <2>5
    <3>2. intents[i].exact # None => execution'[intents[i].call] = execution[intents[i].call]
      <4> SUFFICES ASSUME intents[i].exact # None, NEW j \in S, intents[j].exact # None,
                          intents[j].call = intents[i].call
                   PROVE  FALSE
        BY <2>2
      <4>1. ValidIntent(j)
        BY <1>1 DEF StoreSound, Sound
      <4>2. execution[intents[i].call].id = i /\ execution[intents[i].call].id = j
        BY <2>1, <4>1 DEF ValidIntent
      <4> QED  BY <2>5, <4>2
    <3> QED  BY <2>1, <2>2, <2>3, <3>1, <3>2 DEF ValidIntent
  <2> QED  BY <2>4, <2>5
<1>11. StoreSound'
  BY <1>1, <1>3, <1>10 DEF StoreSound, RowsFit, Sound, Previews, Intents
<1>12. LocalConsent'
  BY <1>3 DEF LocalConsent, Intents
<1>13. CompensatedOnce'
  <2>1. \A j \in Intents' : j \in Ids /\ ValidOrigin(intents[j].binding)'
    BY <1>3, <1>10 DEF ValidIntent, Intents
  <2>2. \A j \in Intents' : LET x == intents'[j].binding.origin
                           IN  x # None => intents'[x].outcome = "failed"
    BY <2>1 DEF ValidOrigin
  <2> QED  BY <1>3, <2>1, <2>2 DEF CompensatedOnce
<1> QED  BY <1>4, <1>5, <1>6, <1>7, <1>8, <1>11, <1>12, <1>13

LEMMA FinishStep ==
    ASSUME IInv, NEW r \in Routes, NEW i \in Ids, NEW outcome \in Terminals, Finish(r, i, outcome)
    PROVE  IInv'
<1> DEFINE c == intents[i].call
           base == BaseState(outcome)
           late == IF clock < intents[i].started THEN intents[i].started ELSE clock
           irow == [intents[i] EXCEPT !.state = base, !.outcome = outcome]
           xrow == [execution[c] EXCEPT !.state = base, !.finished = late]
<1>1. /\ intents[i].state = "prepared"
      /\ \/ intents[i].exact = None /\ UNCHANGED execution
         \/ intents[i].exact # None /\ execution' = [execution EXCEPT ![c] = xrow]
      /\ intents' = [intents EXCEPT ![i].state = base, ![i].outcome = outcome]
      /\ outcomes' = [outcomes EXCEPT ![i] = Append(@, outcome)]
      /\ UNCHANGED <<clock, approval, previews, local, admits, posts, events, refusals, tokens,
                     phase, released, consent>>
  BY DEF Finish, WriteExecution, executions, approvals, audits, process
<1>2. /\ i \in Intents /\ i \in Unfinished /\ c \in Calls /\ intents[i].started \in Times
      /\ intents[i] \in [state : ExecutionStates, call : Calls, binding : Bindings,
                         exact : Exact \cup {None}, outcome : Terminals \cup {"prepared"},
                         started : Times]
  BY <1>1, IntentColumns DEF IInv, Tables, Intents, Unfinished, IntentRow, NoIntent
<1>3. base \in {"succeeded", "failed", "interrupted"} /\ base \in ExecutionStates
  BY DEF BaseState, Terminals, ExecutionStates, Outcomes
<1>4. late \in Times
  BY <1>2 DEF IInv, Tables
<1> HIDE DEF c, base, late
<1>5. /\ irow \in IntentRow /\ irow.state = base /\ irow.outcome = outcome
      /\ irow.call = intents[i].call /\ irow.binding = intents[i].binding
      /\ irow.exact = intents[i].exact
  BY <1>2, <1>3 DEF IntentRow
<1>6. xrow \in ExecutionRow /\ xrow.state = base /\ xrow.id = execution[c].id
  <2>1. execution[c] \in ExecutionRow
    BY <1>2 DEF IInv, Tables
  <2> QED  BY <1>3, <1>4, <2>1 DEF ExecutionRow
<1>7. /\ intents' \in [Ids -> IntentRow] /\ intents'[i] = irow
      /\ \A j \in Ids \ {i} : intents'[j] = intents[j]
  <2>1. intents' = [intents EXCEPT ![i] = irow]
    BY <1>1 DEF IInv, Tables
  <2> HIDE DEF irow
  <2> QED  BY <1>5, <2>1 DEF IInv, Tables
<1> HIDE DEF irow, xrow
<1>8. /\ outcomes' \in [Ids -> Seq(Terminals \cup {"prepared"})]
      /\ outcomes'[i] = Append(outcomes[i], outcome)
      /\ \A j \in Ids \ {i} : outcomes'[j] = outcomes[j]
  BY <1>1 DEF IInv, Tables
<1>9. intents[i].exact # None => execution[c].state = "prepared"
  BY <1>1, <1>2 DEF IInv, StoreSound, Sound, ValidIntent, c
<1>10. /\ execution' \in [Calls -> ExecutionRow]
       /\ intents[i].exact # None => execution'[c] = xrow
       /\ \A x \in Calls : \/ execution'[x] = execution[x]
                           \/ /\ execution'[x].state # "none" /\ execution[x].state # "none"
                              /\ x = c /\ intents[i].exact # None
  BY <1>1, <1>2, <1>3, <1>6, <1>9 DEF IInv, Tables
<1>11. Ended(i, outcome)
  BY <1>5, <1>6, <1>7, <1>8, <1>10 DEF Ended, c, base
<1>12. /\ {i} \in SUBSET Unfinished /\ \A j \in {i} : \E o \in Terminals : Ended(j, o)
       /\ \A x \in Calls : \/ execution'[x] = execution[x]
                           \/ /\ execution'[x].state # "none" /\ execution[x].state # "none"
                              /\ \E j \in {i} : intents[j].call = x /\ intents[j].exact # None
  BY <1>2, <1>10, <1>11 DEF c
<1> QED  BY <1>1, <1>7, <1>8, <1>10, <1>12, IntentsEnd

\* recover_on, at the next opening.
LEMMA RecoverGovernedStep ==
    ASSUME IInv, RecoverGoverned
    PROVE  IInv'
<1> DEFINE stale == {intents[i].call : i \in {j \in Unfinished : intents[j].exact # None}}
           late(c) == IF clock < execution[c].started THEN execution[c].started ELSE clock
           irow(i) == [intents[i] EXCEPT !.state = "interrupted", !.outcome = "uncertain"]
           xrow(c) == [execution[c] EXCEPT !.state = "interrupted", !.finished = late(c)]
<1>1. /\ phase' = "recovered"
      /\ execution' = [c \in Calls |-> IF c \in stale THEN xrow(c) ELSE execution[c]]
      /\ intents' = [i \in Ids |-> IF i \in Unfinished THEN irow(i) ELSE intents[i]]
      /\ outcomes' = [i \in Ids |->
            IF i \in Unfinished THEN Append(outcomes[i], "uncertain") ELSE outcomes[i]]
      /\ UNCHANGED <<clock, approval, previews, local, admits, posts, events, refusals, released,
                     consent>>
  BY DEF RecoverGoverned, approvals, audits
<1>2. \A c \in Calls : /\ xrow(c) \in ExecutionRow /\ xrow(c).state = "interrupted"
                       /\ xrow(c).id = execution[c].id
  BY DEF IInv, Tables, ExecutionRow, ExecutionStates
<1>3. \A i \in Unfinished :
          /\ i \in Ids /\ i \in Intents
          /\ irow(i) \in IntentRow /\ irow(i).state = "interrupted" /\ irow(i).outcome = "uncertain"
          /\ irow(i).call = intents[i].call /\ irow(i).binding = intents[i].binding
          /\ irow(i).exact = intents[i].exact
  <2> SUFFICES ASSUME NEW i \in Unfinished
               PROVE  /\ i \in Ids /\ i \in Intents
                      /\ irow(i) \in IntentRow /\ irow(i).state = "interrupted"
                      /\ irow(i).outcome = "uncertain"
                      /\ irow(i).call = intents[i].call /\ irow(i).binding = intents[i].binding
                      /\ irow(i).exact = intents[i].exact
    OBVIOUS
  <2>1. i \in Ids /\ i \in Intents
    BY DEF Unfinished, Intents
  <2>2. intents[i] \in [state : ExecutionStates, call : Calls, binding : Bindings,
                        exact : Exact \cup {None}, outcome : Terminals \cup {"prepared"},
                        started : Times]
    BY <2>1 DEF IInv, Tables, Intents, IntentRow, NoIntent
  <2> QED  BY <2>1, <2>2 DEF IntentRow, ExecutionStates, Terminals
<1> HIDE DEF irow, xrow
<1>4. /\ intents' \in [Ids -> IntentRow] /\ execution' \in [Calls -> ExecutionRow]
      /\ outcomes' \in [Ids -> Seq(Terminals \cup {"prepared"})]
  <2>1. intents' \in [Ids -> IntentRow]
    BY <1>1, <1>3 DEF IInv, Tables
  <2>2. execution' \in [Calls -> ExecutionRow]
    BY <1>1, <1>2 DEF IInv, Tables
  <2>3. \A i \in Ids : Append(outcomes[i], "uncertain") \in Seq(Terminals \cup {"prepared"})
    BY DEF IInv, Tables, Terminals
  <2> QED  BY <1>1, <2>1, <2>2, <2>3 DEF IInv, Tables
<1>5. \A i \in Unfinished : intents[i].exact # None =>
          /\ intents[i].call \in Calls /\ intents[i].call \in stale
          /\ execution[intents[i].call].state = "prepared"
  BY <1>3, IntentColumns DEF IInv, StoreSound, Sound, ValidIntent, Unfinished
<1>6. \A c \in Calls : \/ execution'[c] = execution[c]
                       \/ /\ execution'[c].state # "none" /\ execution[c].state # "none"
                          /\ \E i \in Unfinished : intents[i].call = c /\ intents[i].exact # None
  BY <1>1, <1>2, <1>5
<1>7. \A i \in Unfinished : \E outcome \in Terminals : Ended(i, outcome)
  <2> SUFFICES ASSUME NEW i \in Unfinished PROVE Ended(i, "uncertain")
    BY DEF Terminals
  <2>1. BaseState("uncertain") = "interrupted"
    BY DEF BaseState
  <2>2. intents'[i] = irow(i) /\ outcomes'[i] = Append(outcomes[i], "uncertain")
    BY <1>1, <1>3
  <2>3. intents[i].exact # None => execution'[intents[i].call] = xrow(intents[i].call)
    BY <1>1, <1>5
  <2> QED  BY <1>2, <1>3, <1>5, <2>1, <2>2, <2>3 DEF Ended
<1>8. \A i \in Ids \ Unfinished : intents'[i] = intents[i] /\ outcomes'[i] = outcomes[i]
  BY <1>1
<1> QED  BY <1>1, <1>4, <1>6, <1>7, <1>8, IntentsEnd

-----------------------------------------------------------------------------
\* Audit records, the end of the process and the clock touch no row of an intent or a call.
LEMMA QuietStep ==
    ASSUME IInv, clock' \in Times,
           UNCHANGED <<approval, execution, intents, previews, local, outcomes, admits, released,
                       consent>>,
           events' \in Nat /\ events' <= Capacity, refusals' \in Nat /\ refusals' <= Capacity,
           posts' \in [Ids -> SUBSET Bindings],
           \A i \in Ids : posts'[i] # {} => i \in Intents /\ posts'[i] = {intents[i].binding},
           phase' = "down" \/ (phase' = phase /\ tokens' = tokens)
    PROVE  IInv'
<1> USE DEF IInv, Support
<1>1. Tables'
  BY DEF Tables
<1>2. /\ Intents' = Intents /\ Unfinished' = Unfinished /\ Previews' = Previews
      /\ \A c \in Calls : Intended(c)' = Intended(c)
  BY DEF Intents, Unfinished, Previews, Intended
<1>3. FewRows' /\ Unasked' /\ Traceless' /\ ReleasesShow' /\ Consented'
  BY <1>2 DEF FewRows, Unasked, Traceless, ReleasesShow, Acts, Consented
<1>4. Recovered' /\ NothingOrphaned'
  BY <1>2 DEF Recovered, NothingOrphaned, Up
<1>5. \A i \in Intents : ValidIntent(i)'
  BY <1>2 DEF StoreSound, Sound, ValidIntent, ValidOrigin
<1>6. StoreSound'
  BY <1>2, <1>5 DEF StoreSound, RowsFit, Sound
<1>7. LocalConsent' /\ CompensatedOnce'
  BY <1>2 DEF LocalConsent, CompensatedOnce
<1> QED  BY <1>1, <1>3, <1>4, <1>6, <1>7

LEMMA AuditStep ==
    ASSUME IInv, NEW r \in Routes, NEW i \in Ids,
           \/ RefuseReplay(r, i)
           \/ \E b \in Bindings :
                 AppendEarly(r, i, b) \/ AppendDenial(r, i, b) \/ AppendLate(r, i, b)
    PROVE  IInv'
<1> USE DEF IInv, Tables
<1>1. /\ UNCHANGED <<clock, approval, execution, intents, previews, local, outcomes, admits,
                     released, consent, tokens, phase>>
      /\ events' = events \/ (events < Capacity /\ events' = events + 1)
      /\ refusals' = refusals \/ (refusals < Capacity /\ refusals' = refusals + 1)
      /\ posts' = posts \/ (i \in Intents
                            /\ posts' = [posts EXCEPT ![i] = @ \cup {intents[i].binding}])
  BY DEF RefuseReplay, AppendEarly, AppendDenial, AppendLate, Room, Bound, approvals, executions,
         governed, process
<1>2. /\ events' \in Nat /\ events' <= Capacity /\ refusals' \in Nat /\ refusals' <= Capacity
  BY <1>1, CapacityAssumption DEF StoreSound, RowsFit
<1>3. /\ posts' \in [Ids -> SUBSET Bindings]
      /\ \A j \in Ids : posts'[j] # {} => j \in Intents /\ posts'[j] = {intents[j].binding}
  <2>1. \A j \in Ids : posts[j] # {} => j \in Intents /\ posts[j] = {intents[j].binding}
    BY DEF StoreSound, Sound
  <2>2. CASE posts' = posts
    BY <2>1, <2>2
  <2>3. CASE i \in Intents /\ posts' = [posts EXCEPT ![i] = @ \cup {intents[i].binding}]
    <3> DEFINE b == intents[i].binding
    <3>0. b \in Bindings
      BY <2>3, IntentColumns
    <3> HIDE DEF b
    <3>1. posts'[i] = posts[i] \cup {b} /\ \A j \in Ids \ {i} : posts'[j] = posts[j]
      BY <2>3 DEF b
    <3>2. posts[i] \cup {b} = {b}
      BY <2>1, <2>3 DEF b
    <3>3. posts' \in [Ids -> SUBSET Bindings]
      BY <2>3, <3>0 DEF b
    <3> QED  BY <2>1, <2>3, <3>1, <3>2, <3>3 DEF b
  <2> QED  BY <1>1, <2>2, <2>3
<1> QED  BY <1>1, <1>2, <1>3, QuietStep

LEMMA ProcessStep ==
    ASSUME IInv, Crash \/ Clock \/ UNCHANGED vars
    PROVE  IInv'
<1> USE DEF IInv, Tables
<1>1. /\ UNCHANGED <<approval, execution, intents, previews, local, outcomes, admits, posts, events,
                     refusals, released, consent>>
      /\ clock' \in Times
      /\ phase' = "down" \/ (phase' = phase /\ tokens' = tokens)
  BY TimeAssumption DEF Crash, Clock, Tick, SetClock, Times, vars, approvals, executions, governed,
                        audits, process
<1>2. /\ events' \in Nat /\ events' <= Capacity /\ refusals' \in Nat /\ refusals' <= Capacity
      /\ posts' \in [Ids -> SUBSET Bindings]
      /\ \A i \in Ids : posts'[i] # {} => i \in Intents /\ posts'[i] = {intents[i].binding}
  BY <1>1 DEF StoreSound, RowsFit, Sound
<1> QED  BY <1>1, <1>2, QuietStep

LEMMA StepHolds == IInv /\ [Next]_vars => IInv'
<1> SUFFICES ASSUME IInv, [Next]_vars PROVE IInv'
  OBVIOUS
<1>1. ASSUME NEW c \in Calls, FindExpired(c) PROVE IInv'
  BY <1>1, CloseStep
<1>2. ASSUME NEW c \in Calls, NEW created \in Times, NEW d \in Digests, CreateLegacy(c, d, created)
      PROVE  IInv'
  BY <1>2, CreateLegacyStep
<1>3. ASSUME NEW c \in Calls, NEW created \in Times, NEW b \in Bindings,
             CreateGoverned(c, b, created) \/ \E o \in Owners : RequestLocal(o, c, b, created)
      PROVE  IInv'
  BY <1>3, CreateGovernedStep
<1>4. ASSUME NEW c \in Calls, NEW i \in Ids, NEW verdict \in {"approved", "denied"},
             \/ \E o \in Owners : DecideLocal(o, c, i, verdict)
             \/ \E d \in Digests : DecideLegacy(c, d, i, verdict)
      PROVE  IInv'
  BY <1>4, DecideLocalStep, DecideLegacyStep
<1>5. ASSUME NEW c \in Calls, NEW i \in Ids, CancelLegacy(c, i) PROVE IInv'
  BY <1>5, CloseStep
<1>6. ASSUME NEW c \in Calls, NEW i \in Ids, NEW d \in Digests, PrepareLegacy(c, d, i) PROVE IInv'
  BY <1>6, PrepareLegacyStep
<1>7. ASSUME NEW c \in Calls, NEW i \in Ids, NEW outcome \in Outcomes, CompleteLegacy(c, i, outcome)
      PROVE  IInv'
  BY <1>7, CompleteLegacyStep
<1>8. ASSUME NEW c \in Calls, NEW i \in Ids, NEW b \in Bindings, PrepareFree(c, i, b) PROVE IInv'
  BY <1>8, PrepareFreeStep
<1>9. ASSUME NEW c \in Calls, NEW i \in Ids, NEW b \in Bindings, NEW r \in Routes, NEW o \in Owners,
             PrepareApproved(r, c, i, b, [decision |-> approval[c].decision, approver |-> o])
      PROVE  IInv'
  BY <1>9, PrepareApprovedStep
<1>10. ASSUME NEW r \in Routes, NEW i \in Ids, NEW outcome \in Terminals, Finish(r, i, outcome)
       PROVE  IInv'
  BY <1>10, FinishStep
<1>11. ASSUME NEW r \in Routes, NEW i \in Ids, RefuseReplay(r, i) PROVE IInv'
  BY <1>11, AuditStep
<1>12. ASSUME NEW r \in Routes, NEW i \in Ids, NEW b \in Bindings,
              AppendEarly(r, i, b) \/ AppendDenial(r, i, b) \/ AppendLate(r, i, b)
       PROVE  IInv'
  BY <1>12, AuditStep
<1>13. CASE RecoverGoverned
  BY <1>13, RecoverGovernedStep
<1>14. CASE RecoverLegacy
  BY <1>14, RecoverLegacyStep
<1>15. CASE Crash \/ Clock \/ UNCHANGED vars
  BY <1>15, ProcessStep
<1> QED  BY <1>1, <1>2, <1>3, <1>4, <1>5, <1>6, <1>7, <1>8, <1>9, <1>10, <1>11, <1>12, <1>13,
            <1>14, <1>15 DEF Next

LEMMA Invariance == Spec => []IInv
BY InitHolds, StepHolds, PTL DEF Spec

\* One call is released once: whatever the approvals, the adapter and the old operations do,
\* in whatever order and across restarts, prepare and prepare_tool_execution together grant
\* the right to act on a call at most once.
THEOREM ReleasedOnceAlways == Spec => []OneRelease
<1>1. IInv => OneRelease
  BY DEF IInv, Support, ReleasesShow, OneRelease
<1> QED  BY <1>1, Invariance, PTL

\* An intent of a local user's call was admitted under an envelope of that user, who had
\* approved that very binding in decide_local_approval.
THEOREM LocalConsentAlways == Spec => []LocalConsent
<1>1. IInv => LocalConsent
  BY DEF IInv
<1> QED  BY <1>1, Invariance, PTL

\* A compensation names a failed intent that stays failed, and no other intent names it.
THEOREM CompensatedOnceAlways == Spec => []CompensatedOnce
<1>1. IInv => CompensatedOnce
  BY DEF IInv
<1> QED  BY <1>1, Invariance, PTL

\* While the process serves requests every prepared intent has its token: an intent that lost
\* its token to the end of a process was closed before the next one served anything.
THEOREM NothingOrphanedAlways == Spec => []NothingOrphaned
<1>1. IInv => NothingOrphaned
  BY DEF IInv
<1> QED  BY <1>1, Invariance, PTL

\* validate_on never finds rows that do not fit together, nor too many intents or audit rows.
THEOREM StoreStaysSound == Spec => []StoreSound
<1>1. IInv => StoreSound
  BY DEF IInv
<1> QED  BY <1>1, Invariance, PTL
=============================================================================
