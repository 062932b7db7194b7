------------------------- MODULE RunLifecycleProofs -------------------------
(***************************************************************************)
(* What every implementation of RunLifecycle inherits: types, at most one  *)
(* start per run, ledgers that can be projected, final terminal states.    *)
(***************************************************************************)
EXTENDS RunLifecycle, TLAPS

\* Every edge of the graph raises the rank of a run, and terminal states have none.
LEMMA TransitionRaisesRank ==
    ASSUME NEW from, NEW to, ValidTransition(from, to)
    PROVE  /\ Rank(from) < Rank(to)
           /\ Rank(to) \in 1 .. 5
           /\ from \in RunState \ Terminal
           /\ to \in RunState \ {"queued"}
BY DEF ValidTransition, Rank, RunState, InFlight, Terminal, Absent

\* Typing of the store, action by action.
LEMMA TypeStep == TypeOK /\ [Next]_lifecycle => TypeOK'
<1> SUFFICES ASSUME TypeOK, [Next]_lifecycle PROVE TypeOK'
  OBVIOUS
<1> USE DEF TypeOK
<1>1. ASSUME NEW r \in Runs, Admit(r) PROVE TypeOK'
  BY <1>1 DEF Admit, RunState, EventKind
<1>2. ASSUME NEW r \in Runs, NEW to \in RunState, NEW kind \in EventKind,
             Advance(r, to, kind), executions' \in [Runs -> Nat]
      PROVE  TypeOK'
  BY <1>2 DEF Advance
<1>3. ASSUME NEW r \in Runs, Begin(r) PROVE TypeOK'
  <2>1. Advance(r, "running", "run_started") /\ executions' \in [Runs -> Nat]
    BY <1>3 DEF Begin
  <2> QED  BY <2>1, <1>2 DEF RunState, InFlight, EventKind
<1>4. ASSUME NEW r \in Runs, Settle(r) PROVE TypeOK'
  <2>1. executions' \in [Runs -> Nat]
    BY <1>4 DEF Settle
  <2>2. PICK to \in RunState, kind \in EventKind : Advance(r, to, kind)
    BY <1>4 DEF Settle
  <2> QED  BY <2>1, <2>2, <1>2
<1>5. CASE Recover
  <2>1. status' \in [Runs -> RunState \cup {Absent}]
    BY <1>5 DEF Recover, RunState, Terminal
  <2>2. ledger' \in [Runs -> Seq(EventKind)]
    <3>1. \A r \in Runs : Append(ledger[r], "run_recovered_interrupted") \in Seq(EventKind)
      BY DEF EventKind
    <3> QED  BY <1>5, <3>1 DEF Recover
  <2> QED  BY <1>5, <2>1, <2>2 DEF Recover
<1>6. CASE UNCHANGED lifecycle
  BY <1>6 DEF lifecycle
<1> QED  BY <1>1, <1>3, <1>4, <1>5, <1>6 DEF Next

\* Appending an event that agrees with the new state keeps a ledger projectable, as
\* long as the entry it covers was not a manager stop.
LEMMA AppendProjects ==
    ASSUME NEW l \in Seq(EventKind), NEW s, NEW to, NEW kind \in EventKind,
           Projectable(s, l), s \notin Terminal, ProjectsLatest(kind, to)
    PROVE  Projectable(to, Append(l, kind))
<1>1. /\ Append(l, kind) \in Seq(EventKind)
      /\ Len(Append(l, kind)) = Len(l) + 1
      /\ Append(l, kind)[Len(l) + 1] = kind
      /\ \A i \in 1 .. Len(l) : Append(l, kind)[i] = l[i]
  OBVIOUS
<1>2. ProjectsEarlier(l[Len(l)])
  BY DEF Projectable, ProjectsLatest, ProjectsEarlier, ProjectedStates, Terminal
<1>3. \A i \in 1 .. Len(l) : ProjectsEarlier(l[i])
  BY <1>2 DEF Projectable
<1> QED  BY <1>1, <1>3 DEF Projectable

Inv == TypeOK /\ StartsOnce /\ LedgersProject

LEMMA InvInit == Init => Inv
BY DEF Init, Inv, TypeOK, StartsOnce, LedgersProject, Absent

LEMMA StartsOnceStep == Inv /\ [Next]_lifecycle => StartsOnce'
<1> SUFFICES ASSUME Inv, [Next]_lifecycle PROVE StartsOnce'
  OBVIOUS
<1> USE DEF Inv, TypeOK, StartsOnce
<1>1. ASSUME NEW r \in Runs, Admit(r) PROVE StartsOnce'
  BY <1>1 DEF Admit, Absent
<1>2. ASSUME NEW r \in Runs, Begin(r) PROVE StartsOnce'
  BY <1>2 DEF Begin, Advance, ValidTransition, Absent, Terminal
<1>3. ASSUME NEW r \in Runs, Settle(r) PROVE StartsOnce'
  BY <1>3 DEF Settle, Advance, ValidTransition, Absent, Terminal, RunState, InFlight
<1>4. CASE Recover
  BY <1>4 DEF Recover, InFlight, Absent
<1>5. CASE UNCHANGED lifecycle
  BY <1>5 DEF lifecycle
<1> QED  BY <1>1, <1>2, <1>3, <1>4, <1>5 DEF Next

LEMMA LedgersProjectStep == Inv /\ [Next]_lifecycle => LedgersProject'
<1> SUFFICES ASSUME Inv, [Next]_lifecycle, NEW r \in Runs
             PROVE  IF status'[r] = Absent THEN ledger'[r] = <<>>
                    ELSE Projectable(status'[r], ledger'[r])
  BY DEF LedgersProject
<1> USE DEF Inv, TypeOK
<1>0. IF status[r] = Absent THEN ledger[r] = <<>> ELSE Projectable(status[r], ledger[r])
  BY DEF LedgersProject
<1>1. ASSUME NEW q \in Runs, NEW to \in RunState, NEW kind \in EventKind, Advance(q, to, kind)
      PROVE  IF status'[r] = Absent THEN ledger'[r] = <<>>
             ELSE Projectable(status'[r], ledger'[r])
  <2>1. CASE q = r
    <3>1. status[r] \in RunState \ Terminal
      BY <1>1, <2>1, TransitionRaisesRank DEF Advance
    <3>2. status[r] # Absent /\ to # Absent
      BY <3>1 DEF RunState, InFlight, Terminal, Absent
    <3>3. status'[r] = to /\ ledger'[r] = Append(ledger[r], kind)
      BY <1>1, <2>1 DEF Advance
    <3> QED  BY <1>0, <1>1, <3>1, <3>2, <3>3, AppendProjects DEF Advance
  <2>2. CASE q # r
    BY <1>0, <1>1, <2>2 DEF Advance
  <2> QED  BY <2>1, <2>2
<1>2. ASSUME NEW q \in Runs, Admit(q)
      PROVE  IF status'[r] = Absent THEN ledger'[r] = <<>>
             ELSE Projectable(status'[r], ledger'[r])
  <2>1. CASE q = r
    <3>1. status'[r] = "queued" /\ ledger'[r] = <<"run_queued">>
      BY <1>0, <1>2, <2>1 DEF Admit
    <3>2. Projectable("queued", <<"run_queued">>)
      BY DEF Projectable, ProjectsLatest, ProjectedStates
    <3> QED  BY <3>1, <3>2 DEF Absent
  <2>2. CASE q # r
    BY <1>0, <1>2, <2>2 DEF Admit
  <2> QED  BY <2>1, <2>2
<1>3. CASE Recover
  <2>1. CASE status[r] \in InFlight
    <3>1. status'[r] = "interrupted"
          /\ ledger'[r] = Append(ledger[r], "run_recovered_interrupted")
      BY <1>3, <2>1 DEF Recover
    <3>2. status[r] # Absent /\ status[r] \notin Terminal
      BY <2>1 DEF InFlight, Terminal, Absent
    <3>3. /\ "run_recovered_interrupted" \in EventKind
          /\ ProjectsLatest("run_recovered_interrupted", "interrupted")
      BY DEF EventKind, ProjectsLatest, ProjectedStates
    <3> QED  BY <1>0, <3>1, <3>2, <3>3, AppendProjects DEF Absent
  <2>2. CASE status[r] \notin InFlight
    BY <1>0, <1>3, <2>2 DEF Recover
  <2> QED  BY <2>1, <2>2
<1>4. CASE UNCHANGED lifecycle
  BY <1>0, <1>4 DEF lifecycle
<1>5. ASSUME NEW q \in Runs, Begin(q)
      PROVE  IF status'[r] = Absent THEN ledger'[r] = <<>>
             ELSE Projectable(status'[r], ledger'[r])
  BY <1>5, <1>1 DEF Begin, RunState, InFlight, EventKind
<1>6. ASSUME NEW q \in Runs, Settle(q)
      PROVE  IF status'[r] = Absent THEN ledger'[r] = <<>>
             ELSE Projectable(status'[r], ledger'[r])
  BY <1>6, <1>1 DEF Settle
<1> QED  BY <1>2, <1>3, <1>4, <1>5, <1>6 DEF Next

\* The durable promise, for any set of runs: no second start and no corrupt ledger.
THEOREM LifecycleSafety == Spec => [](StartsOnce /\ LedgersProject)
<1>1. Inv /\ [Next]_lifecycle => Inv'
  BY TypeStep, StartsOnceStep, LedgersProjectStep DEF Inv
<1>2. Inv => StartsOnce /\ LedgersProject
  BY DEF Inv
<1> QED  BY InvInit, <1>1, <1>2, PTL DEF Spec

\* A run that has settled keeps its status and its ledger: transition_run refuses every
\* edge out of a terminal state and recovery passes settled runs by.
THEOREM TerminalStaysFinal == Spec => TerminalIsFinal
<1>1. ASSUME TypeOK, [Next]_lifecycle, NEW r \in Runs, status[r] \in Terminal
      PROVE  status'[r] = status[r] /\ ledger'[r] = ledger[r]
  <2> USE DEF TypeOK
  <2>1. ASSUME NEW q \in Runs, NEW to, NEW kind, Advance(q, to, kind)
        PROVE  status'[r] = status[r] /\ ledger'[r] = ledger[r]
    <3>1. q # r
      BY <1>1, <2>1, TransitionRaisesRank DEF Advance
    <3> QED  BY <1>1, <2>1, <3>1 DEF Advance
  <2>2. ASSUME NEW q \in Runs, Admit(q)
        PROVE  status'[r] = status[r] /\ ledger'[r] = ledger[r]
    BY <1>1, <2>2 DEF Admit, Absent, Terminal
  <2>3. CASE Recover
    BY <1>1, <2>3 DEF Recover, InFlight, Terminal
  <2>4. CASE UNCHANGED lifecycle
    BY <2>4 DEF lifecycle
  <2> QED  BY <1>1, <2>1, <2>2, <2>3, <2>4 DEF Next, Begin, Settle
<1>2. TypeOK /\ [Next]_lifecycle => [SettledStay]_lifecycle
  BY <1>1 DEF SettledStay
<1>3. Init => TypeOK
  BY InvInit DEF Inv
<1> QED  BY <1>2, <1>3, TypeStep, PTL DEF Spec, TerminalIsFinal
=============================================================================
