-------------------------- MODULE DaemonToolsProofs --------------------------
(***************************************************************************)
(* Proofs about DaemonTools, for any calls, inputs, identifiers and number *)
(* of faults: it implements ApprovedEffects, its results are honest, its   *)
(* evidence is complete, identifiers are used once, and the rows satisfy   *)
(* the CHECKs of their tables.                                             *)
(*                                                                         *)
(* That an effect happens once is not inductive.  It holds because a frame *)
(* that is about to act has the only prepared intent of its call, made     *)
(* from the approval of the very input it holds, and because an intent     *)
(* whose frame is lost is never picked up again.                           *)
(***************************************************************************)
EXTENDS DaemonTools, SequenceTheorems, TLAPS

\* The types that the argument needs.
Rows ==
    /\ clock \in Times
    /\ approval \in [Calls -> ApprovalRow]
    /\ execution \in [Calls -> ExecutionRow]
    /\ effects \in [Calls -> Seq(Digests)]
    /\ job \in [step : Steps, call : Calls \cup {None}, digest : Digests \cup {None},
                id : Ids \cup {None}, outcome : Outcomes]

\* An intent is there exactly when the approval was used up.
IntentsMatch == \A c \in Calls : (execution[c].state # "none") <=> (approval[c].state = "consumed")

\* The frame of a request that acts: its intent is unfinished and made for its input.
FrameHolds ==
    job.step # "idle" =>
        /\ up
        /\ job.call \in Calls
        /\ job.digest \in Digests
        /\ approval[job.call].digest = job.digest
        /\ execution[job.call].state = "prepared"

\* How far the effect of the frame has come.
FrameEffect ==
    /\ job.step \in {"prepared", "authorised"} => effects[job.call] = <<>>
    /\ job.step = "acted" /\ job.outcome = "succeeded" => Len(effects[job.call]) = 1

IInv == Rows /\ IntentsMatch /\ FrameHolds /\ FrameEffect /\ ResultsHonest

-----------------------------------------------------------------------------
LEMMA InitHolds == Init => IInv /\ Promise!Init
<1> SUFFICES ASSUME Init PROVE IInv /\ Promise!Init
  OBVIOUS
<1> USE DEF Init, LedgerInit, NoApproval, NoExecution, Idle
<1>1. Rows
  BY TimeAssumption DEF Rows, Times, ApprovalRow, ExecutionRow, Steps, Outcomes
<1>2. IntentsMatch /\ FrameHolds /\ FrameEffect /\ ResultsHonest
  BY DEF IntentsMatch, FrameHolds, FrameEffect, ResultsHonest
<1>3. Promise!Init
  BY DEF Promise!Init, PhaseOf
<1> QED  BY <1>1, <1>2, <1>3 DEF IInv

\* One UPDATE of an approval that neither uses it up nor meets one that was.
LEMMA ApprovalWritten ==
    ASSUME IInv, NEW c \in Calls, NEW row \in ApprovalRow,
           job = Idle, approval[c].state # "consumed", row.state # "consumed",
           approval' = [approval EXCEPT ![c] = row],
           clock' = clock, UNCHANGED <<execution, effects, job>>
    PROVE  IInv'
<1> USE DEF IInv
<1>1. Rows'
  BY DEF Rows
<1>2. IntentsMatch'
  BY DEF IntentsMatch, Rows
<1>3. FrameHolds' /\ FrameEffect'
  BY DEF FrameHolds, FrameEffect, Idle
<1>4. ResultsHonest'
  BY DEF ResultsHonest
<1> QED  BY <1>1, <1>2, <1>3, <1>4

\* A call moves in ApprovedEffects when its own phase does and no other.
LEMMA PhaseMoves ==
    ASSUME NEW c \in Calls, NEW from, NEW to, PhaseOf(c) = from, PhaseOf(c)' = to,
           \A x \in Calls : x # c => PhaseOf(x)' = PhaseOf(x)
    PROVE  Promise!Move(c, from, to)
BY DEF Promise!Move

\* An approval is asked for, granted or closed.
LEMMA ApprovalStep ==
    ASSUME IInv, NEW c \in Calls, NEW row \in ApprovalRow,
           approval' = [approval EXCEPT ![c] = row], UNCHANGED <<execution, effects>>,
           \/ approval[c].state = "none" /\ row.state = "pending" /\ row.digest \in Digests
           \/ approval[c].state = "pending" /\ row.state \in {"approved", "denied"}
           \/ approval[c].state \in OpenStates /\ row.state \in {"cancelled", "expired"},
           approval[c].state = "none" \/ row.digest = approval[c].digest
    PROVE  Promise!Next
<1> USE DEF IInv, Rows
<1>1. \A x \in Calls : x # c => PhaseOf(x)' = PhaseOf(x)
  BY DEF PhaseOf
<1>2. CASE approval[c].state = "none"
  <2>1. PhaseOf(c) = "new" /\ PhaseOf(c)' = "asked" /\ row.digest \in Digests
    BY <1>2 DEF PhaseOf, OpenStates
  <2>2. Promise!Move(c, "new", "asked")
    BY <1>1, <2>1, PhaseMoves
  <2> QED  BY <2>1, <2>2 DEF Promise!Ask, Promise!Next
<1>3. CASE approval[c].state # "none"
  <2>1. approval'[c].digest = approval[c].digest
    BY <1>3
  <2>2. [x \in Calls |-> approval[x].digest]' = [x \in Calls |-> approval[x].digest]
    BY <2>1
  <2>3. CASE row.state = "approved"
    <3>1. PhaseOf(c) = "asked" /\ PhaseOf(c)' = "granted"
      BY <2>3, <1>3 DEF PhaseOf, OpenStates
    <3> QED  BY <1>1, <2>2, <3>1, PhaseMoves DEF Promise!Grant, Promise!Next
  <2>4. CASE row.state # "approved"
    <3>1. PhaseOf(c) \in {"asked", "granted"} /\ PhaseOf(c)' = "closed"
      BY <2>4, <1>3 DEF PhaseOf, OpenStates
    <3>2. Promise!Move(c, "asked", "closed") \/ Promise!Move(c, "granted", "closed")
      BY <1>1, <3>1, PhaseMoves
    <3> QED  BY <2>2, <3>2 DEF Promise!Close, Promise!Next
  <2> QED  BY <2>3, <2>4
<1> QED  BY <1>2, <1>3

\* Steps that touch neither rows nor effects do not show.
LEMMA Unseen ==
    ASSUME UNCHANGED <<approval, execution, effects>>
    PROVE  UNCHANGED Promise!vars
BY DEF Promise!vars, PhaseOf

-----------------------------------------------------------------------------
LEMMA RequestApprovalStep ==
    ASSUME IInv, NEW c \in Calls, NEW d \in Digests, RequestApproval(c, d)
    PROVE  IInv' /\ Promise!Next
<1> DEFINE row == [NoApproval EXCEPT !.state = "pending", !.digest = d, !.created = clock,
                                     !.expires = clock + MaxTtl, !.updated = clock]
<1>1. /\ job = Idle /\ approval[c].state = "none"
      /\ approval' = [approval EXCEPT ![c] = row]
      /\ UNCHANGED <<clock, execution, effects, job>>
  BY DEF RequestApproval, Ready, Known, CreateOn, WriteApproval, executions
<1>2. row \in ApprovalRow /\ row.state = "pending" /\ row.digest = d
  <2>1. NoApproval \in ApprovalRow
    BY TimeAssumption DEF NoApproval, ApprovalRow, Times
  <2>2. clock \in Times /\ clock + MaxTtl \in Nat
    BY TimeAssumption DEF IInv, Rows, Times
  <2> QED  BY <2>1, <2>2 DEF ApprovalRow, ApprovalStates, OpenStates
<1> HIDE DEF row
<1>3. IInv'
  BY <1>1, <1>2, ApprovalWritten
<1>4. Promise!Next
  BY <1>1, <1>2, ApprovalStep
<1> QED  BY <1>3, <1>4

\* expire_if_needed, called by a read, a decision or a cancellation.
LEMMA ExpireStep ==
    ASSUME IInv, NEW c \in Calls, Expire(c, clock), job = Idle,
           UNCHANGED <<clock, execution, effects, job>>
    PROVE  IInv' /\ Promise!Next
<1> DEFINE row == [approval[c] EXCEPT !.state = "expired", !.updated = clock]
<1>1. approval[c].state \in OpenStates /\ approval' = [approval EXCEPT ![c] = row]
  BY DEF Expire, Due, WriteApproval
<1>2. /\ row \in ApprovalRow /\ row.state = "expired" /\ row.digest = approval[c].digest
      /\ approval[c].state \notin {"consumed", "none"}
  BY <1>1 DEF IInv, Rows, ApprovalRow, ApprovalStates, OpenStates, ClosedStates
<1> HIDE DEF row
<1>3. IInv'
  BY <1>1, <1>2, ApprovalWritten
<1>4. Promise!Next
  BY <1>1, <1>2, ApprovalStep
<1> QED  BY <1>3, <1>4

LEMMA DecideToolStep ==
    ASSUME IInv, NEW c \in Calls, NEW d \in Digests, NEW i \in Ids,
           NEW verdict \in {"approved", "denied"}, DecideTool(c, d, i, verdict)
    PROVE  IInv' /\ Promise!Next
<1>1. job = Idle /\ UNCHANGED <<clock, execution, effects, job>>
  BY DEF DecideTool, Ready, executions
<1>2. CASE Expire(c, clock)
  BY <1>1, <1>2, ExpireStep
<1>3. CASE Settle(c, i, verdict, clock)
  <2> DEFINE row == [approval[c] EXCEPT !.state = verdict, !.decision = i, !.updated = clock]
  <2>1. approval[c].state = "pending" /\ approval' = [approval EXCEPT ![c] = row]
    BY <1>3 DEF Settle, WriteApproval
  <2>2. row \in ApprovalRow /\ row.state = verdict /\ row.digest = approval[c].digest
    BY DEF IInv, Rows, ApprovalRow, ApprovalStates, OpenStates, ClosedStates
  <2> HIDE DEF row
  <2>3. IInv'
    BY <1>1, <2>1, <2>2, ApprovalWritten
  <2>4. Promise!Next
    BY <1>1, <2>1, <2>2, ApprovalStep
  <2> QED  BY <2>3, <2>4
<1> QED  BY <1>2, <1>3 DEF DecideTool, Decide

LEMMA CancelToolStep ==
    ASSUME IInv, NEW c \in Calls, NEW i \in Ids, CancelTool(c, i)
    PROVE  IInv' /\ Promise!Next
<1>1. job = Idle /\ UNCHANGED <<clock, execution, effects, job>>
  BY DEF CancelTool, Ready, executions
<1>2. CASE Expire(c, clock)
  BY <1>1, <1>2, ExpireStep
<1>3. CASE Withdraw(c, i, clock)
  <2> DEFINE row == [approval[c] EXCEPT !.state = "cancelled", !.cancellation = i,
                                        !.updated = clock]
  <2>1. approval[c].state \in OpenStates /\ approval' = [approval EXCEPT ![c] = row]
    BY <1>3 DEF Withdraw, WriteApproval
  <2>2. /\ row \in ApprovalRow /\ row.state = "cancelled" /\ row.digest = approval[c].digest
        /\ approval[c].state \notin {"consumed", "none"}
    BY <2>1 DEF IInv, Rows, ApprovalRow, ApprovalStates, OpenStates, ClosedStates
  <2> HIDE DEF row
  <2>3. IInv'
    BY <1>1, <2>1, <2>2, ApprovalWritten
  <2>4. Promise!Next
    BY <1>1, <2>1, <2>2, ApprovalStep
  <2> QED  BY <2>3, <2>4
<1> QED  BY <1>2, <1>3 DEF CancelTool, Cancel

\* Consuming the approval and recording the intent are one transaction, so that an intent
\* belongs to a call that has had none and hence no effect.
LEMMA BeginEffectStep ==
    ASSUME IInv, NEW c \in Calls, NEW d \in Digests, NEW i \in Ids, BeginEffect(c, d, i)
    PROVE  IInv' /\ Promise!Next
<1> DEFINE arow == [approval[c] EXCEPT !.state = "consumed", !.updated = clock]
           xrow == [NoExecution EXCEPT !.state = "prepared", !.id = i, !.started = clock]
<1>1. /\ up /\ job = Idle /\ approval[c].state = "approved" /\ approval[c].digest = d
      /\ execution[c].state = "none"
      /\ approval' = [approval EXCEPT ![c] = arow] /\ execution' = [execution EXCEPT ![c] = xrow]
      /\ job' = [Idle EXCEPT !.step = "prepared", !.call = c, !.digest = d, !.id = i]
      /\ UNCHANGED <<clock, up, effects>>
  BY DEF BeginEffect, Ready, Prepare, Consume, WriteApproval, WriteExecution
<1>2. arow \in ApprovalRow /\ arow.state = "consumed" /\ arow.digest = d
  BY <1>1 DEF IInv, Rows, ApprovalRow, ApprovalStates, OpenStates, ClosedStates
<1>3. xrow \in ExecutionRow /\ xrow.state = "prepared"
  <2>1. NoExecution \in ExecutionRow
    BY TimeAssumption DEF NoExecution, ExecutionRow, Times
  <2>2. clock \in Times
    BY DEF IInv, Rows
  <2> QED  BY <2>1, <2>2 DEF ExecutionRow, ExecutionStates
<1>4. job'.step = "prepared" /\ job'.call = c /\ job'.digest = d
  BY <1>1 DEF Idle
<1>5. Rows'
  <2>1. job' \in [step : Steps, call : Calls \cup {None}, digest : Digests \cup {None},
                  id : Ids \cup {None}, outcome : Outcomes]
    BY <1>1 DEF Idle, Steps, Outcomes
  <2> HIDE DEF arow, xrow
  <2> QED  BY <1>1, <1>2, <1>3, <2>1 DEF IInv, Rows
<1> HIDE DEF arow, xrow
<1>6. approval'[c] = arow /\ execution'[c] = xrow /\ effects[c] = <<>>
  BY <1>1 DEF IInv, Rows, ResultsHonest
<1>7. IntentsMatch'
  BY <1>1, <1>2, <1>3, <1>6 DEF IInv, Rows, IntentsMatch
<1>8. FrameHolds' /\ FrameEffect'
  BY <1>1, <1>2, <1>3, <1>4, <1>6 DEF FrameHolds, FrameEffect
<1>9. ResultsHonest'
  BY <1>1, <1>3, <1>6 DEF IInv, Rows, ResultsHonest
<1>10. Promise!Next
  <2>1. \A x \in Calls : x # c => PhaseOf(x)' = PhaseOf(x)
    BY <1>1 DEF IInv, Rows, PhaseOf
  <2>2. PhaseOf(c) = "granted" /\ PhaseOf(c)' = "spent"
    BY <1>1, <1>2, <1>3, <1>6 DEF PhaseOf
  <2>3. [x \in Calls |-> approval[x].digest]' = [x \in Calls |-> approval[x].digest]
    BY <1>1, <1>2, <1>6 DEF IInv, Rows
  <2> QED  BY <1>1, <2>1, <2>2, <2>3, PhaseMoves DEF Promise!Spend, Promise!Next
<1> QED  BY <1>5, <1>7, <1>8, <1>9, <1>10 DEF IInv

\* A step that touches neither rows nor effects, and leaves the frame alone or gives it up.
LEMMA QuietStep ==
    ASSUME IInv, UNCHANGED <<approval, execution, effects>>, clock' \in Times,
           job' = Idle \/ (job' = job /\ up' = up)
    PROVE  IInv' /\ UNCHANGED Promise!vars
<1> USE DEF IInv
<1>1. Rows'
  BY DEF Rows, Idle, Steps, Outcomes
<1>2. FrameHolds' /\ FrameEffect'
  BY DEF FrameHolds, FrameEffect, Idle
<1>3. IntentsMatch' /\ ResultsHonest'
  BY DEF IntentsMatch, ResultsHonest
<1> QED  BY <1>1, <1>2, <1>3, Unseen

LEMMA AuthoriseStep ==
    ASSUME IInv, Authorise
    PROVE  IInv' /\ UNCHANGED Promise!vars
<1>1. /\ job.step = "prepared" /\ job' = [job EXCEPT !.step = "authorised"]
      /\ UNCHANGED <<clock, approval, execution, effects, up>>
  BY DEF Authorise, ledger, approvals, executions
<1>2. /\ job'.step = "authorised" /\ job'.call = job.call /\ job'.digest = job.digest
      /\ Rows'
  BY <1>1 DEF IInv, Rows, Steps
<1>3. FrameHolds' /\ FrameEffect'
  BY <1>1, <1>2 DEF IInv, FrameHolds, FrameEffect
<1>4. IntentsMatch' /\ ResultsHonest'
  BY <1>1 DEF IInv, IntentsMatch, ResultsHonest
<1> QED  BY <1>1, <1>2, <1>3, <1>4, Unseen DEF IInv

\* memory.invalidate returns, whether the record was written or not.
LEMMA ActedStep ==
    ASSUME IInv, job.step = "authorised", NEW outcome \in Outcomes,
           \/ effects' = [effects EXCEPT ![job.call] = Append(@, job.digest)]
           \/ outcome = "failed" /\ UNCHANGED effects,
           job' = [job EXCEPT !.step = "acted", !.outcome = outcome],
           UNCHANGED <<clock, approval, execution, up>>
    PROVE  IInv' /\ [Promise!Next]_(Promise!vars)
<1> USE DEF IInv
<1>1. /\ job'.step = "acted" /\ job'.outcome = outcome
      /\ job'.call = job.call /\ job'.digest = job.digest
  BY DEF Rows
<1>2. /\ job.call \in Calls /\ job.digest \in Digests /\ effects[job.call] = <<>>
      /\ approval[job.call].digest = job.digest /\ execution[job.call].state = "prepared"
  BY DEF FrameHolds, FrameEffect
<1>3. CASE UNCHANGED effects /\ outcome = "failed"
  <2>1. Rows'
    BY <1>3 DEF Rows, Steps
  <2>2. FrameHolds' /\ FrameEffect'
    BY <1>1, <1>3 DEF FrameHolds, FrameEffect
  <2>3. IntentsMatch' /\ ResultsHonest'
    BY <1>3 DEF IntentsMatch, ResultsHonest
  <2> QED  BY <1>3, <2>1, <2>2, <2>3, Unseen
<1>4. CASE effects' = [effects EXCEPT ![job.call] = Append(@, job.digest)]
  <2>1. effects' = [effects EXCEPT ![job.call] = <<job.digest>>]
    <3>1. Append(effects[job.call], job.digest) = <<job.digest>>
      BY <1>2
    <3> QED  BY <1>4, <3>1
  <2>2. effects' \in [Calls -> Seq(Digests)]
    BY <1>2, <2>1 DEF Rows
  <2>3. effects'[job.call] = <<job.digest>> /\ Len(<<job.digest>>) = 1
    BY <1>2, <2>1 DEF Rows
  <2>4. Rows'
    BY <2>2 DEF Rows, Steps
  <2>5. FrameHolds'
    BY <1>1 DEF FrameHolds
  <2>6. FrameEffect'
    BY <1>1, <2>3 DEF FrameEffect
  <2>7. IntentsMatch'
    BY DEF IntentsMatch
  <2>8. ResultsHonest'
    BY <1>2, <2>1, <2>3 DEF Rows, ResultsHonest
  <2>9. Promise!Act(job.call)
    <3>1. PhaseOf(job.call) = "spent"
      BY <1>2 DEF PhaseOf, IntentsMatch
    <3>2. \A x \in Calls : PhaseOf(x)' = PhaseOf(x)
      BY DEF PhaseOf
    <3> QED  BY <1>2, <2>1, <3>1, <3>2 DEF Promise!Act
  <2> QED  BY <1>2, <2>4, <2>5, <2>6, <2>7, <2>8, <2>9 DEF Promise!Next
<1> QED  BY <1>3, <1>4

\* Intents end, with their result or interrupted by a reopen.
LEMMA IntentsEnd ==
    ASSUME IInv, execution' \in [Calls -> ExecutionRow], UNCHANGED <<approval, effects>>,
           \A c \in Calls : \/ execution'[c] = execution[c]
                            \/ /\ execution[c].state = "prepared"
                               /\ execution'[c].state \in {"succeeded", "failed", "interrupted"}
    PROVE  IntentsMatch' /\ Promise!Next
<1> USE DEF IInv
<1>1. IntentsMatch'
  BY DEF IntentsMatch
<1>2. \A c \in Calls : PhaseOf(c)' = PhaseOf(c) \/ (PhaseOf(c) = "spent" /\ PhaseOf(c)' = "ended")
  BY DEF PhaseOf, IntentsMatch
<1>3. \A c \in Calls : PhaseOf(c)' \in Promise!Phases
  BY DEF PhaseOf, Promise!Phases, Rows, ApprovalRow, ApprovalStates, OpenStates, ClosedStates
<1>4. Promise!End
  BY <1>2, <1>3 DEF Promise!End
<1> QED  BY <1>1, <1>4 DEF Promise!Next

LEMMA FinishEffectStep ==
    ASSUME IInv, FinishEffect
    PROVE  IInv' /\ Promise!Next
<1> DEFINE c == job.call
           row == [execution[c] EXCEPT !.state = job.outcome, !.finished = clock]
<1>1. /\ job.step = "acted" /\ execution[c].state = "prepared"
      /\ execution' = [execution EXCEPT ![c] = row] /\ job' = Idle
      /\ UNCHANGED <<clock, approval, up, effects>>
  BY DEF FinishEffect, Complete, WriteExecution, approvals
<1>2. c \in Calls /\ job.outcome \in {"succeeded", "failed"}
  BY <1>1 DEF IInv, Rows, FrameHolds, Outcomes
<1>3. row \in ExecutionRow /\ row.state = job.outcome
  BY <1>2 DEF IInv, Rows, ExecutionRow, ExecutionStates, Outcomes
<1>4. job.outcome = "succeeded" => Len(effects[c]) = 1
  BY <1>1 DEF IInv, FrameEffect
<1> HIDE DEF c, row
<1>5. /\ execution' \in [Calls -> ExecutionRow] /\ execution'[c] = row
      /\ \A x \in Calls : x # c => execution'[x] = execution[x]
  BY <1>1, <1>2, <1>3 DEF IInv, Rows
<1>6. IntentsMatch' /\ Promise!Next
  <2>1. \A x \in Calls : \/ execution'[x] = execution[x]
                         \/ /\ execution[x].state = "prepared"
                            /\ execution'[x].state \in {"succeeded", "failed", "interrupted"}
    BY <1>1, <1>2, <1>3, <1>5
  <2> QED  BY <1>1, <1>5, <2>1, IntentsEnd
<1>7. Rows'
  BY <1>1, <1>5 DEF IInv, Rows, Idle, Steps, Outcomes
<1>8. FrameHolds' /\ FrameEffect'
  BY <1>1 DEF FrameHolds, FrameEffect, Idle
<1>9. ResultsHonest'
  BY <1>1, <1>2, <1>3, <1>4, <1>5 DEF IInv, ResultsHonest
<1> QED  BY <1>6, <1>7, <1>8, <1>9 DEF IInv

LEMMA ReopenStep ==
    ASSUME IInv, Reopen
    PROVE  IInv' /\ Promise!Next
<1>1. ~up /\ job.step = "idle" /\ UNCHANGED <<clock, approval, effects, job>>
  BY DEF Reopen, approvals, IInv, FrameHolds
<1>2. /\ execution' \in [Calls -> ExecutionRow]
      /\ \A c \in Calls : \/ execution'[c] = execution[c]
                           \/ /\ execution[c].state = "prepared"
                              /\ execution'[c].state = "interrupted"
  <2>1. \A c \in Calls : [execution[c] EXCEPT !.state = "interrupted", !.finished = clock] \in ExecutionRow
    BY DEF IInv, Rows, ExecutionRow, ExecutionStates
  <2> QED  BY <2>1 DEF Reopen, RecoverPrepared, Prepared, IInv, Rows, ExecutionRow
<1>3. IntentsMatch' /\ Promise!Next
  BY <1>1, <1>2, IntentsEnd
<1>4. Rows' /\ FrameHolds' /\ FrameEffect'
  BY <1>1, <1>2 DEF IInv, Rows, FrameHolds, FrameEffect
<1>5. ResultsHonest'
  BY <1>1, <1>2 DEF IInv, ResultsHonest
<1> QED  BY <1>3, <1>4, <1>5 DEF IInv

-----------------------------------------------------------------------------
LEMMA StepHolds == IInv /\ [Next]_vars => IInv' /\ [Promise!Next]_(Promise!vars)
<1> SUFFICES ASSUME IInv, [Next]_vars PROVE IInv' /\ [Promise!Next]_(Promise!vars)
  OBVIOUS
<1>1. clock \in Times
  BY DEF IInv, Rows
<1>2. ASSUME NEW c \in Calls, InvokeSafe(c) PROVE IInv' /\ [Promise!Next]_(Promise!vars)
  BY <1>1, <1>2, QuietStep DEF InvokeSafe, ledger, approvals, executions
<1>3. ASSUME NEW c \in Calls, ReadExpired(c) PROVE IInv' /\ [Promise!Next]_(Promise!vars)
  BY <1>3, ExpireStep DEF ReadExpired, Ready, executions
<1>4. CASE AuthoriseFails
  BY <1>1, <1>4, QuietStep DEF AuthoriseFails, Abandon, ledger, approvals, executions
<1>5. CASE Act
  <2>1. "succeeded" \in Outcomes
    BY DEF Outcomes
  <2> QED  BY <1>5, <2>1, ActedStep DEF Act, ledger, approvals, executions
<1>6. CASE ActFails
  <2>1. "failed" \in Outcomes
    BY DEF Outcomes
  <2> QED  BY <1>6, <2>1, ActedStep DEF ActFails, ledger, approvals, executions
<1>7. CASE FinishFails
  BY <1>1, <1>7, QuietStep DEF FinishFails, Abandon, ledger, approvals, executions
<1>8. CASE Crash
  BY <1>1, <1>8, QuietStep DEF Crash, ledger, approvals, executions
<1>9. CASE Clock
  <2>1. clock' \in Times
    BY <1>1, <1>9, TimeAssumption DEF Clock, Tick, SetClock, Times
  <2> QED  BY <1>9, <2>1, QuietStep DEF Clock, ledger, approvals, executions
<1>10. CASE UNCHANGED vars
  BY <1>1, <1>10, QuietStep DEF vars, ledger, approvals, executions
<1> QED
  BY <1>2, <1>3, <1>4, <1>5, <1>6, <1>7, <1>8, <1>9, <1>10, RequestApprovalStep, BeginEffectStep,
     DecideToolStep, CancelToolStep, AuthoriseStep, FinishEffectStep, ReopenStep DEF Next

\* The tables and the daemon over them implement ApprovedEffects, for any number of calls,
\* inputs, failing writes and restarts and however the clock is moved: an effect needs an
\* explicit approval of that very input, which is used up first, and happens at most once.
THEOREM EffectsKeepPromise == Spec => ImplementsPromise
BY InitHolds, StepHolds, PTL DEF Spec, ImplementsPromise, Promise!Spec

\* A result that says succeeded had exactly one effect, and a call without an intent none.
THEOREM ResultsAlwaysHonest == Spec => []ResultsHonest
<1>1. IInv => ResultsHonest
  BY DEF IInv
<1> QED  BY InitHolds, StepHolds, <1>1, PTL DEF Spec
-----------------------------------------------------------------------------
\* The transactions over the two tables that a step can commit.
Transaction ==
    \/ /\ UNCHANGED executions
       /\ \E c \in Calls :
             \/ \E d \in Digests : CreateOn(c, d, clock, clock + MaxTtl)
             \/ Expire(c, clock)
             \/ \E i \in Ids :
                   \/ \E verdict \in {"approved", "denied"} : Settle(c, i, verdict, clock)
                   \/ Withdraw(c, i, clock)
    \/ \E c \in Calls, i \in Ids : Consume(c, i, clock)
    \/ /\ UNCHANGED approvals
       /\ \/ \E c \in Calls, i \in Ids \cup {None}, outcome \in Outcomes : Complete(c, i, outcome, clock)
          \/ RecoverPrepared(clock)
    \/ UNCHANGED <<approvals, executions>>

LEMMA StepCommits == IInv /\ [Next]_vars => Transaction
<1> SUFFICES ASSUME IInv, [Next]_vars PROVE Transaction
  OBVIOUS
<1>1. ASSUME NEW c \in Calls, NEW d \in Digests, RequestApproval(c, d) PROVE Transaction
  BY <1>1 DEF RequestApproval, Transaction
<1>2. ASSUME NEW c \in Calls, ReadExpired(c) PROVE Transaction
  BY <1>2 DEF ReadExpired, Transaction
<1>3. ASSUME NEW c \in Calls, NEW d \in Digests, NEW i \in Ids, BeginEffect(c, d, i) PROVE Transaction
  BY <1>3 DEF BeginEffect, Prepare, Transaction
<1>4. ASSUME NEW c \in Calls, NEW d \in Digests, NEW i \in Ids,
             NEW verdict \in {"approved", "denied"}, DecideTool(c, d, i, verdict)
      PROVE  Transaction
  BY <1>4 DEF DecideTool, Decide, Transaction
<1>5. ASSUME NEW c \in Calls, NEW i \in Ids, CancelTool(c, i) PROVE Transaction
  BY <1>5 DEF CancelTool, Cancel, Transaction
<1>6. CASE FinishEffect
  <2>1. job.call \in Calls /\ job.id \in Ids \cup {None} /\ job.outcome \in Outcomes
    BY <1>6 DEF FinishEffect, IInv, Rows, FrameHolds
  <2> QED  BY <1>6, <2>1 DEF FinishEffect, Transaction
<1>7. CASE Reopen
  BY <1>7 DEF Reopen, Transaction
<1>8. CASE \/ \E c \in Calls : InvokeSafe(c)
           \/ Authorise \/ AuthoriseFails \/ Act \/ ActFails \/ FinishFails \/ Crash \/ Clock
           \/ UNCHANGED vars
  BY <1>8 DEF InvokeSafe, Authorise, AuthoriseFails, Act, ActFails, FinishFails, Abandon, Crash, Clock,
     vars, ledger, Transaction
<1> QED  BY <1>1, <1>2, <1>3, <1>4, <1>5, <1>6, <1>7, <1>8 DEF Next

-----------------------------------------------------------------------------
\* A fresh identifier is written at one place.
LEMMA FreshId ==
    ASSUME IInv, IdsSingleUse, NEW c \in Calls, NEW i \in Ids, ~Resolved(i),
           NEW k \in {"decision", "cancellation", "execution"},
           \A x \in Calls : x # c => UsedFor(x)' = UsedFor(x),
           \A j \in {"decision", "cancellation", "execution"} :
               UsedFor(c)'[j] = IF j = k THEN i ELSE UsedFor(c)[j]
    PROVE  IdsSingleUse'
<1>1. \A x \in Calls : \A j \in {"decision", "cancellation", "execution"} : UsedFor(x)[j] # i
  BY DEF Resolved, UsedFor
<1>2. \A x \in Calls : \A j \in {"decision", "cancellation", "execution"} :
         UsedFor(x)'[j] = IF x = c /\ j = k THEN i ELSE UsedFor(x)[j]
  BY DEF UsedFor
<1> QED  BY <1>1, <1>2 DEF IdsSingleUse

LEMMA IdsStep == IInv /\ IdsSingleUse /\ Transaction => IdsSingleUse'
<1> SUFFICES ASSUME IInv, IdsSingleUse, Transaction PROVE IdsSingleUse'
  OBVIOUS
<1> USE DEF IInv, Rows, ApprovalRow, ExecutionRow
<1>1. ASSUME NEW c \in Calls, NEW d \in Digests, CreateOn(c, d, clock, clock + MaxTtl), UNCHANGED executions
      PROVE  IdsSingleUse'
  <2>1. \A x \in Calls : x # c => UsedFor(x)' = UsedFor(x)
    BY <1>1 DEF CreateOn, WriteApproval, executions, UsedFor
  <2>2. /\ UsedFor(c)'.decision = None /\ UsedFor(c)'.cancellation = None
        /\ UsedFor(c)'.execution = UsedFor(c).execution
    BY <1>1 DEF CreateOn, WriteApproval, executions, UsedFor, NoApproval
  <2>3. \A x \in Calls : \A j \in {"decision", "cancellation", "execution"} :
           UsedFor(x)'[j] = UsedFor(x)[j] \/ UsedFor(x)'[j] = None
    BY <2>1, <2>2
  <2> HIDE DEF IInv, Rows
  <2> QED  BY <2>3 DEF IdsSingleUse
<1>2. ASSUME NEW c \in Calls, Expire(c, clock), UNCHANGED executions PROVE IdsSingleUse'
  <2>1. \A x \in Calls : UsedFor(x)' = UsedFor(x)
    BY <1>2 DEF Expire, WriteApproval, executions, UsedFor
  <2> QED  BY <2>1 DEF IdsSingleUse
<1>3. ASSUME NEW c \in Calls, NEW i \in Ids, NEW verdict \in {"approved", "denied"},
             Settle(c, i, verdict, clock), UNCHANGED executions
      PROVE  IdsSingleUse'
  <2>1. /\ ~Resolved(i)
        /\ approval' = [approval EXCEPT ![c] = [approval[c] EXCEPT !.state = verdict, !.decision = i,
                                                                  !.updated = clock]]
        /\ execution' = execution
    BY <1>3 DEF Settle, WriteApproval, executions
  <2>2. \A x \in Calls : x # c => UsedFor(x)' = UsedFor(x)
    BY <2>1 DEF UsedFor
  <2>3. approval'[c].decision = i /\ approval'[c].cancellation = approval[c].cancellation
    BY <2>1
  <2>4. \A j \in {"decision", "cancellation", "execution"} :
           UsedFor(c)'[j] = IF j = "decision" THEN i ELSE UsedFor(c)[j]
    BY <2>1, <2>3 DEF UsedFor
  <2> QED  BY <2>1, <2>2, <2>4, FreshId
<1>4. ASSUME NEW c \in Calls, NEW i \in Ids, Withdraw(c, i, clock), UNCHANGED executions
      PROVE  IdsSingleUse'
  <2>1. /\ ~Resolved(i)
        /\ \A x \in Calls : x # c => UsedFor(x)' = UsedFor(x)
        /\ \A j \in {"decision", "cancellation", "execution"} :
              UsedFor(c)'[j] = IF j = "cancellation" THEN i ELSE UsedFor(c)[j]
    BY <1>4 DEF Withdraw, WriteApproval, executions, UsedFor
  <2> QED  BY <2>1, FreshId
<1>5. ASSUME NEW c \in Calls, NEW i \in Ids, Consume(c, i, clock) PROVE IdsSingleUse'
  <2>1. /\ ~Resolved(i)
        /\ \A x \in Calls : x # c => UsedFor(x)' = UsedFor(x)
        /\ \A j \in {"decision", "cancellation", "execution"} :
              UsedFor(c)'[j] = IF j = "execution" THEN i ELSE UsedFor(c)[j]
    BY <1>5 DEF Consume, WriteApproval, WriteExecution, NoExecution, UsedFor
  <2> QED  BY <2>1, FreshId
<1>6. ASSUME UNCHANGED approvals,
             \/ RecoverPrepared(clock)
             \/ \E c \in Calls, i \in Ids \cup {None}, outcome \in Outcomes : Complete(c, i, outcome, clock)
             \/ UNCHANGED executions
      PROVE  IdsSingleUse'
  <2>1. approval' = approval /\ \A x \in Calls : execution'[x].id = execution[x].id
    <3>1. CASE RecoverPrepared(clock)
      BY <1>6, <3>1 DEF RecoverPrepared, approvals
    <3>2. CASE \E c \in Calls, i \in Ids \cup {None}, outcome \in Outcomes : Complete(c, i, outcome, clock)
      <4>1. PICK c \in Calls, outcome \in Outcomes :
                execution' = [execution EXCEPT ![c] = [execution[c] EXCEPT !.state = outcome,
                                                                           !.finished = clock]]
        BY <3>2 DEF Complete, WriteExecution
      <4> QED  BY <1>6, <4>1 DEF approvals
    <3>3. CASE UNCHANGED executions
      BY <1>6, <3>3 DEF approvals, executions
    <3> QED  BY <1>6, <3>1, <3>2, <3>3
  <2>2. \A x \in Calls : UsedFor(x)' = UsedFor(x)
    BY <2>1 DEF UsedFor
  <2> QED  BY <2>2 DEF IdsSingleUse
<1> QED  BY <1>1, <1>2, <1>3, <1>4, <1>5, <1>6 DEF Transaction

\* Decisions, cancellations and executions never share an identifier, although they are
\* kept in two tables and asked for by separate requests, across any number of restarts.
THEOREM IdsAlwaysSingleUse == Spec => []IdsSingleUse
<1>1. Init => IdsSingleUse
  BY DEF Init, LedgerInit, NoApproval, NoExecution, UsedFor, IdsSingleUse
<1>2. IInv /\ IdsSingleUse /\ [Next]_vars => IInv' /\ IdsSingleUse'
  BY StepHolds, StepCommits, IdsStep
<1> QED  BY InitHolds, <1>1, <1>2, PTL DEF Spec
-----------------------------------------------------------------------------
\* The log that goes with the state of an approval.
Story(c, state) ==
    \/ state = "none" /\ approvalLog[c] = <<>>
    \/ state = "pending" /\ approvalLog[c] = <<"pending">>
    \/ state = "approved" /\ approvalLog[c] = <<"pending", "approved">>
    \/ state \in {"denied", "cancelled", "expired"} /\ approvalLog[c] = <<"pending", state>>
    \/ state \in {"cancelled", "expired", "consumed"} /\ approvalLog[c] = <<"pending", "approved", state>>

Stories == approvalLog \in [Calls -> Seq(ApprovalStates)] /\ \A c \in Calls : Story(c, approval[c].state)

\* Appending to short logs.
LEMMA AppendToOne ==
    ASSUME NEW S, NEW p \in S, NEW e \in S
    PROVE  Append(<<p>>, e) = <<p, e>>
<1>1. <<p>> \in Seq(S) /\ Len(<<p>>) = 1 /\ <<p>>[1] = p
  OBVIOUS
<1>2. <<p, e>> \in Seq(S) /\ Len(<<p, e>>) = 2 /\ <<p, e>>[1] = p /\ <<p, e>>[2] = e
  OBVIOUS
<1>3. /\ Append(<<p>>, e) \in Seq(S) /\ Len(Append(<<p>>, e)) = 2
      /\ Append(<<p>>, e)[1] = p /\ Append(<<p>>, e)[2] = e
  BY <1>1, AppendProperties
<1> DEFINE a == Append(<<p>>, e)
           t == <<p, e>>
<1> HIDE DEF a, t
<1>4. a \in Seq(S) /\ t \in Seq(S) /\ Len(a) = 2 /\ Len(t) = 2 /\ a[1] = t[1] /\ a[2] = t[2]
  BY <1>2, <1>3 DEF a, t
<1>5. a = t
  BY <1>4, SeqEqual
<1> QED  BY <1>5 DEF a, t

LEMMA AppendToTwo ==
    ASSUME NEW S, NEW p \in S, NEW q \in S, NEW e \in S
    PROVE  Append(<<p, q>>, e) = <<p, q, e>>
<1>1. <<p, q>> \in Seq(S) /\ Len(<<p, q>>) = 2 /\ <<p, q>>[1] = p /\ <<p, q>>[2] = q
  OBVIOUS
<1>2. /\ <<p, q, e>> \in Seq(S) /\ Len(<<p, q, e>>) = 3
      /\ <<p, q, e>>[1] = p /\ <<p, q, e>>[2] = q /\ <<p, q, e>>[3] = e
  OBVIOUS
<1>3. /\ Append(<<p, q>>, e) \in Seq(S) /\ Len(Append(<<p, q>>, e)) = 3
      /\ Append(<<p, q>>, e)[1] = p /\ Append(<<p, q>>, e)[2] = q /\ Append(<<p, q>>, e)[3] = e
  BY <1>1, AppendProperties
<1> DEFINE a == Append(<<p, q>>, e)
           t == <<p, q, e>>
<1> HIDE DEF a, t
<1>4. /\ a \in Seq(S) /\ t \in Seq(S) /\ Len(a) = 3 /\ Len(t) = 3
      /\ a[1] = t[1] /\ a[2] = t[2] /\ a[3] = t[3]
  BY <1>2, <1>3 DEF a, t
<1>5. a = t
  BY <1>4, SeqEqual
<1> QED  BY <1>5 DEF a, t

\* One event is appended for one UPDATE.
LEMMA StoryGoesOn ==
    ASSUME IInv, Stories, NEW c \in Calls, NEW row \in ApprovalRow, WriteApproval(c, row),
           \/ approval[c].state = "none" /\ row.state = "pending"
           \/ approval[c].state = "pending" /\ row.state \in {"approved", "denied"}
           \/ approval[c].state \in OpenStates /\ row.state \in {"cancelled", "expired"}
           \/ approval[c].state = "approved" /\ row.state = "consumed"
    PROVE  Stories'
<1>1. approval \in [Calls -> ApprovalRow] /\ approvalLog \in [Calls -> Seq(ApprovalStates)]
  BY DEF IInv, Rows, Stories
<1>2. /\ approval'[c] = row /\ approvalLog'[c] = Append(approvalLog[c], row.state)
      /\ \A x \in Calls : x # c => approval'[x] = approval[x] /\ approvalLog'[x] = approvalLog[x]
  BY <1>1 DEF WriteApproval
<1>3. row.state \in ApprovalStates
  BY DEF ApprovalStates, OpenStates, ClosedStates
<1>4. approvalLog' \in [Calls -> Seq(ApprovalStates)]
  BY <1>1, <1>3 DEF WriteApproval
<1>5. Story(c, approval[c].state)
  BY DEF Stories
<1>6. /\ Append(<<>>, row.state) = <<row.state>>
      /\ Append(<<"pending">>, row.state) = <<"pending", row.state>>
      /\ Append(<<"pending", "approved">>, row.state) = <<"pending", "approved", row.state>>
  <2>1. Append(<<>>, row.state) = <<row.state>>
    OBVIOUS
  <2>2. "pending" \in ApprovalStates /\ "approved" \in ApprovalStates
    BY DEF ApprovalStates, OpenStates
  <2> QED  BY <1>3, <2>1, <2>2, AppendToOne, AppendToTwo
<1>7. /\ approval[c].state = "none" => approvalLog[c] = <<>>
      /\ approval[c].state = "pending" => approvalLog[c] = <<"pending">>
      /\ approval[c].state = "approved" => approvalLog[c] = <<"pending", "approved">>
  BY <1>5 DEF Story
<1>8. Story(c, approval[c].state)'
  BY <1>2, <1>6, <1>7 DEF Story, OpenStates
<1>9. \A x \in Calls : x # c => Story(x, approval[x].state)'
  BY <1>2 DEF Stories, Story
<1> QED  BY <1>4, <1>8, <1>9 DEF Stories

LEMMA StoriesStep == IInv /\ Stories /\ Transaction => Stories'
<1> SUFFICES ASSUME IInv, Stories, Transaction PROVE Stories'
  OBVIOUS
<1>0. /\ clock \in Times /\ clock + MaxTtl \in Nat /\ NoApproval \in ApprovalRow
      /\ approval \in [Calls -> ApprovalRow]
  BY TimeAssumption DEF IInv, Rows, Times, NoApproval, ApprovalRow
<1>1. ASSUME NEW c \in Calls, NEW d \in Digests, CreateOn(c, d, clock, clock + MaxTtl)
      PROVE  Stories'
  <2> DEFINE row == [NoApproval EXCEPT !.state = "pending", !.digest = d, !.created = clock,
                                       !.expires = clock + MaxTtl, !.updated = clock]
  <2>1. row \in ApprovalRow /\ row.state = "pending"
    BY <1>0 DEF ApprovalRow, ApprovalStates, OpenStates
  <2>2. WriteApproval(c, row) /\ approval[c].state = "none"
    BY <1>1 DEF CreateOn, Known
  <2> HIDE DEF row
  <2> QED  BY <2>1, <2>2, StoryGoesOn
<1>2. ASSUME NEW c \in Calls, Expire(c, clock) PROVE Stories'
  <2> DEFINE row == [approval[c] EXCEPT !.state = "expired", !.updated = clock]
  <2>1. row \in ApprovalRow /\ row.state = "expired"
    BY <1>0 DEF ApprovalRow, ApprovalStates, ClosedStates
  <2>2. WriteApproval(c, row) /\ approval[c].state \in OpenStates
    BY <1>2 DEF Expire, Due
  <2> HIDE DEF row
  <2> QED  BY <2>1, <2>2, StoryGoesOn
<1>3. ASSUME NEW c \in Calls, NEW i \in Ids, NEW verdict \in {"approved", "denied"},
             Settle(c, i, verdict, clock)
      PROVE  Stories'
  <2> DEFINE row == [approval[c] EXCEPT !.state = verdict, !.decision = i, !.updated = clock]
  <2>1. row \in ApprovalRow /\ row.state = verdict
    BY <1>0 DEF ApprovalRow, ApprovalStates, OpenStates, ClosedStates
  <2>2. WriteApproval(c, row) /\ approval[c].state = "pending"
    BY <1>3 DEF Settle
  <2> HIDE DEF row
  <2> QED  BY <2>1, <2>2, StoryGoesOn
<1>4. ASSUME NEW c \in Calls, NEW i \in Ids, Withdraw(c, i, clock) PROVE Stories'
  <2> DEFINE row == [approval[c] EXCEPT !.state = "cancelled", !.cancellation = i, !.updated = clock]
  <2>1. row \in ApprovalRow /\ row.state = "cancelled"
    BY <1>0 DEF ApprovalRow, ApprovalStates, ClosedStates
  <2>2. WriteApproval(c, row) /\ approval[c].state \in OpenStates
    BY <1>4 DEF Withdraw
  <2> HIDE DEF row
  <2> QED  BY <2>1, <2>2, StoryGoesOn
<1>5. ASSUME NEW c \in Calls, NEW i \in Ids, Consume(c, i, clock) PROVE Stories'
  <2> DEFINE row == [approval[c] EXCEPT !.state = "consumed", !.updated = clock]
  <2>1. row \in ApprovalRow /\ row.state = "consumed"
    BY <1>0 DEF ApprovalRow, ApprovalStates, ClosedStates
  <2>2. WriteApproval(c, row) /\ approval[c].state = "approved"
    BY <1>5 DEF Consume
  <2> HIDE DEF row
  <2> QED  BY <2>1, <2>2, StoryGoesOn
<1>6. CASE UNCHANGED approvals
  BY <1>6 DEF approvals, Stories, Story
<1> QED  BY <1>1, <1>2, <1>3, <1>4, <1>5, <1>6 DEF Transaction

\* The log of every call is a path of the approval's state machine that ends in the state
\* of its row, and an execution row exists exactly for a consumed approval, whatever failed.
THEOREM EvidenceAlwaysComplete == Spec => []EvidenceComplete
<1>1. Init => Stories
  BY DEF Init, LedgerInit, NoApproval, Stories, Story
<1>2. IInv /\ Stories /\ [Next]_vars => IInv' /\ Stories'
  BY StepHolds, StepCommits, StoriesStep
<1>3. IInv /\ Stories => EvidenceComplete
  <2> SUFFICES ASSUME IInv, Stories, NEW c \in Calls
               PROVE  /\ approvalLog[c] \in
                            {<<>>, <<"pending">>}
                            \cup {<<"pending", s>> : s \in {"approved", "denied", "cancelled", "expired"}}
                            \cup {<<"pending", "approved", s>> : s \in {"cancelled", "expired", "consumed"}}
                      /\ IF Known(c) THEN approvalLog[c] # <<>> /\ approvalLog[c][Len(approvalLog[c])]
                                                                      = approval[c].state
                                     ELSE approvalLog[c] = <<>>
                      /\ (execution[c].state # "none") <=> (approval[c].state = "consumed")
    BY DEF EvidenceComplete
  <2>1. Story(c, approval[c].state)
    BY DEF Stories
  <2>2. (execution[c].state # "none") <=> (approval[c].state = "consumed")
    BY DEF IInv, IntentsMatch
  <2>3. approvalLog[c] \in {<<>>, <<"pending">>}
            \cup {<<"pending", s>> : s \in {"approved", "denied", "cancelled", "expired"}}
            \cup {<<"pending", "approved", s>> : s \in {"cancelled", "expired", "consumed"}}
    BY <2>1 DEF Story
  <2>4. IF Known(c) THEN approvalLog[c] # <<>> /\ approvalLog[c][Len(approvalLog[c])] = approval[c].state
                    ELSE approvalLog[c] = <<>>
    <3> DEFINE log == approvalLog[c]
               state == approval[c].state
    <3>1. CASE state = "none" /\ log = <<>>
      BY <3>1 DEF Known
    <3>2. CASE state = "pending" /\ log = <<"pending">>
      BY <3>2 DEF Known
    <3>3. CASE state \in {"approved", "denied", "cancelled", "expired"} /\ log = <<"pending", state>>
      BY <3>3 DEF Known
    <3>4. CASE state \in {"cancelled", "expired", "consumed"} /\ log = <<"pending", "approved", state>>
      BY <3>4 DEF Known
    <3> QED  BY <2>1, <3>1, <3>2, <3>3, <3>4 DEF Story
  <2> QED  BY <2>2, <2>3, <2>4
<1> QED  BY InitHolds, <1>1, <1>2, <1>3, PTL DEF Spec

-----------------------------------------------------------------------------
\* The CHECKs of the two tables.
RowsChecked == \A c \in Calls : Checked(approval[c], execution[c])

LEMMA ChecksStep == IInv /\ RowsChecked /\ Transaction => RowsChecked'
<1> SUFFICES ASSUME IInv, RowsChecked, Transaction PROVE RowsChecked'
  OBVIOUS
<1>0. /\ clock \in Nat /\ clock + MaxTtl > clock
      /\ approval \in [Calls -> ApprovalRow] /\ execution \in [Calls -> ExecutionRow]
      /\ Times \subseteq Nat
  BY TimeAssumption DEF IInv, Rows, Times
<1> USE NamesAssumption DEF ApprovalRow, ExecutionRow
<1>1. ASSUME NEW c \in Calls, NEW d \in Digests, CreateOn(c, d, clock, clock + MaxTtl), UNCHANGED executions
      PROVE  RowsChecked'
  <2> DEFINE row == [NoApproval EXCEPT !.state = "pending", !.digest = d, !.created = clock,
                                       !.expires = clock + MaxTtl, !.updated = clock]
  <2>1. NoApproval \in ApprovalRow
    BY TimeAssumption DEF NoApproval, Times
  <2>2. /\ row.state = "pending" /\ row.created = clock /\ row.updated = clock
        /\ row.expires = clock + MaxTtl /\ row.decision = NoApproval.decision
        /\ row.cancellation = NoApproval.cancellation
    BY <2>1
  <2>3. NoApproval.decision = None /\ NoApproval.cancellation = None
    BY DEF NoApproval
  <2>4. approval' = [approval EXCEPT ![c] = row] /\ execution' = execution
    BY <1>1 DEF CreateOn, WriteApproval, executions
  <2> HIDE DEF row
  <2>5. execution[c].state \notin {"none", "prepared"} => execution[c].finished >= execution[c].started
    BY DEF RowsChecked, Checked
  <2>6. Checked(row, execution[c])
    BY <1>0, <2>2, <2>3, <2>5 DEF Checked
  <2> QED  BY <1>0, <2>4, <2>6 DEF RowsChecked
<1>2. ASSUME NEW c \in Calls, Expire(c, clock), UNCHANGED executions PROVE RowsChecked'
  <2> DEFINE row == [approval[c] EXCEPT !.state = "expired", !.updated = clock]
  <2>1. /\ row.state = "expired" /\ row.created = approval[c].created /\ row.updated = clock
        /\ row.expires = approval[c].expires /\ row.cancellation = approval[c].cancellation
    BY <1>0
  <2>2. /\ approval[c].state \in {"pending", "approved"} /\ clock >= approval[c].expires
        /\ approval' = [approval EXCEPT ![c] = row] /\ execution' = execution
    BY <1>2 DEF Expire, Due, OpenStates, WriteApproval, executions
  <2> HIDE DEF row
  <2>3. /\ approval[c].cancellation = None /\ approval[c].expires > approval[c].created
        /\ execution[c].state \notin {"none", "prepared"} => execution[c].finished >= execution[c].started
    BY <2>2 DEF RowsChecked, Checked
  <2>4. approval[c].created \in Nat /\ approval[c].expires \in Nat
    BY <1>0
  <2>5. Checked(row, execution[c])
    BY <1>0, <2>1, <2>2, <2>3, <2>4 DEF Checked
  <2> QED  BY <1>0, <2>2, <2>5 DEF RowsChecked
<1>3. ASSUME NEW c \in Calls, NEW i \in Ids, NEW verdict \in {"approved", "denied"},
             Settle(c, i, verdict, clock), UNCHANGED executions
      PROVE  RowsChecked'
  <2> DEFINE row == [approval[c] EXCEPT !.state = verdict, !.decision = i, !.updated = clock]
  <2>1. /\ row.state = verdict /\ row.created = approval[c].created /\ row.updated = clock
        /\ row.expires = approval[c].expires /\ row.cancellation = approval[c].cancellation
        /\ row.decision = i
    BY <1>0
  <2>2. /\ approval[c].state = "pending" /\ clock >= approval[c].created
        /\ approval' = [approval EXCEPT ![c] = row] /\ execution' = execution
    BY <1>3 DEF Settle, WriteApproval, executions
  <2> HIDE DEF row
  <2>3. /\ approval[c].cancellation = None /\ approval[c].expires > approval[c].created
        /\ execution[c].state \notin {"none", "prepared"} => execution[c].finished >= execution[c].started
    BY <2>2 DEF RowsChecked, Checked
  <2>4. Checked(row, execution[c])
    BY <2>1, <2>2, <2>3 DEF Checked
  <2> QED  BY <1>0, <2>2, <2>4 DEF RowsChecked
<1>4. ASSUME NEW c \in Calls, NEW i \in Ids, Withdraw(c, i, clock), UNCHANGED executions PROVE RowsChecked'
  <2> DEFINE row == [approval[c] EXCEPT !.state = "cancelled", !.cancellation = i, !.updated = clock]
  <2>1. /\ row.state = "cancelled" /\ row.created = approval[c].created /\ row.updated = clock
        /\ row.expires = approval[c].expires /\ row.cancellation = i
    BY <1>0
  <2>2. /\ approval[c].state \in {"pending", "approved"} /\ clock >= approval[c].created
        /\ approval' = [approval EXCEPT ![c] = row] /\ execution' = execution
    BY <1>4 DEF Withdraw, OpenStates, WriteApproval, executions
  <2> HIDE DEF row
  <2>3. /\ approval[c].expires > approval[c].created
        /\ execution[c].state \notin {"none", "prepared"} => execution[c].finished >= execution[c].started
    BY <2>2 DEF RowsChecked, Checked
  <2>4. Checked(row, execution[c])
    BY <2>1, <2>2, <2>3 DEF Checked
  <2> QED  BY <1>0, <2>2, <2>4 DEF RowsChecked
<1>5. ASSUME NEW c \in Calls, NEW i \in Ids, Consume(c, i, clock) PROVE RowsChecked'
  <2> DEFINE row == [approval[c] EXCEPT !.state = "consumed", !.updated = clock]
             intent == [NoExecution EXCEPT !.state = "prepared", !.id = i, !.started = clock]
  <2>1. /\ row.state = "consumed" /\ row.created = approval[c].created /\ row.updated = clock
        /\ row.expires = approval[c].expires /\ row.cancellation = approval[c].cancellation
        /\ row.decision = approval[c].decision
    BY <1>0
  <2>2. intent.state = "prepared"
    BY DEF NoExecution
  <2>3. /\ approval[c].state = "approved" /\ clock >= approval[c].created
        /\ approval' = [approval EXCEPT ![c] = row] /\ execution' = [execution EXCEPT ![c] = intent]
    BY <1>5 DEF Consume, WriteApproval, WriteExecution
  <2> HIDE DEF row, intent
  <2>4. /\ approval[c].cancellation = None /\ approval[c].decision # None
        /\ approval[c].expires > approval[c].created
    BY <2>3 DEF RowsChecked, Checked
  <2>5. Checked(row, intent)
    BY <2>1, <2>2, <2>3, <2>4 DEF Checked
  <2> QED  BY <1>0, <2>3, <2>5 DEF RowsChecked
<1>6. ASSUME UNCHANGED approvals, NEW c \in Calls, NEW i \in Ids \cup {None}, NEW outcome \in Outcomes,
             Complete(c, i, outcome, clock)
      PROVE  RowsChecked'
  BY <1>0, <1>6 DEF Complete, WriteExecution, approvals, RowsChecked, Checked
<1>7. CASE UNCHANGED approvals /\ RecoverPrepared(clock)
  BY <1>0, <1>7 DEF RecoverPrepared, Recoverable, Prepared, approvals, RowsChecked, Checked
<1>8. CASE UNCHANGED <<approvals, executions>>
  BY <1>8 DEF approvals, executions, RowsChecked
<1> QED  BY <1>1, <1>2, <1>3, <1>4, <1>5, <1>6, <1>7, <1>8 DEF Transaction
\* The variables have their types, and no transaction writes a row that the CHECKs of its
\* table would refuse, however the clock was set.
THEOREM TypesAlways == Spec => []TypeOK
<1> DEFINE Rest == up \in BOOLEAN /\ used \subseteq Calls /\ authorised \in [Calls -> Nat] /\ faults \in 0 .. MaxFaults
<1>1. Init => RowsChecked /\ Rest
  BY FaultsAssumption DEF Init, LedgerInit, NoApproval, NoExecution, RowsChecked, Checked
<1>2. IInv /\ Rest /\ [Next]_vars => Rest'
  <2> SUFFICES ASSUME IInv, Rest, [Next]_vars PROVE Rest'
    OBVIOUS
  <2>1. CASE Authorise
    <3>1. job.call \in Calls
      BY <2>1 DEF Authorise, IInv, FrameHolds
    <3> QED  BY <2>1, <3>1 DEF Authorise
  <2>2. CASE Reopen
    BY <2>2 DEF Reopen
  <2>3. ASSUME NEW c \in Calls, InvokeSafe(c) PROVE Rest'
    BY <2>3 DEF InvokeSafe
  <2>4. ASSUME NEW c \in Calls, NEW d \in Digests, RequestApproval(c, d) PROVE Rest'
    BY <2>4 DEF RequestApproval
  <2>5. CASE AuthoriseFails \/ ActFails \/ FinishFails \/ Crash
    <3>1. /\ used' \in {used, {}} /\ up' \in {up, FALSE} /\ authorised' = authorised
          /\ faults' = faults \/ Fault
      BY <2>5 DEF AuthoriseFails, ActFails, FinishFails, Crash, Abandon
    <3>2. faults' \in 0 .. MaxFaults
      BY <3>1, FaultsAssumption DEF Fault
    <3> QED  BY <3>1, <3>2
  <2>6. CASE Act \/ FinishEffect \/ Clock \/ UNCHANGED vars
    BY <2>6 DEF Act, FinishEffect, Clock, vars
  <2>7. ASSUME NEW c \in Calls, NEW d \in Digests, NEW i \in Ids, NEW verdict \in {"approved", "denied"},
               DecideTool(c, d, i, verdict)
        PROVE  Rest'
    BY <2>7 DEF DecideTool
  <2>8. ASSUME NEW c \in Calls, ReadExpired(c) \/ \E i \in Ids : CancelTool(c, i) PROVE Rest'
    BY <2>8 DEF ReadExpired, CancelTool
  <2>9. ASSUME NEW c \in Calls, NEW d \in Digests, NEW i \in Ids, BeginEffect(c, d, i) PROVE Rest'
    BY <2>9 DEF BeginEffect
  <2> HIDE DEF Rest
  <2> QED  BY <2>1, <2>2, <2>3, <2>4, <2>5, <2>6, <2>7, <2>8, <2>9 DEF Next
<1>3. IInv /\ RowsChecked /\ [Next]_vars => IInv' /\ RowsChecked'
  BY StepHolds, StepCommits, ChecksStep
<1>4. IInv /\ RowsChecked /\ Rest => TypeOK
  BY DEF IInv, Rows, RowsChecked, TypeOK
<1> HIDE DEF Rest
<1> QED  BY InitHolds, <1>1, <1>2, <1>3, <1>4, PTL DEF Spec
=============================================================================
