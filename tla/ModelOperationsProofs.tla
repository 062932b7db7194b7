------------------------ MODULE ModelOperationsProofs ------------------------
(***************************************************************************)
(* For any operations, models and failures: a model is worked on by at     *)
(* most one request or thread, a load never replaces a provider, the       *)
(* records only move forward and the audit agrees with them. The keys of the models are the only lock, so *)
(* the argument follows a key: from the request that takes it to the       *)
(* thread it is handed to, whatever becomes of the record meanwhile.       *)
(***************************************************************************)
EXTENDS ModelOperations, TLAPS

Busy(o)  == worker[o] \in WorkerHolds
Handling == request.at \in RequestHolds

OpRow == [state : {"none"} \cup Pending \cup Terminal, kind : Kinds \cup {"none"},
          model : Models \cup {None}, progress : Nat]

Call == [at : RequestPC, kind : Kinds \cup {"none"}, op : Ops \cup {None},
         model : Models \cup {None}, found : Nat]

Types ==
    /\ ops \in [Ops -> OpRow]
    /\ worker \in [Ops -> WorkerPC] /\ note \in [Ops -> Nat]
    /\ active \subseteq Models /\ loaded \subseteq Models /\ leaked \subseteq active
    /\ request \in Call
    /\ up \in BOOLEAN

\* A thread and a request know the record they work for; the record of a request that was
\* just accepted is still queued and has no thread.
Known ==
    /\ \A o \in Ops : worker[o] # "none" => ops[o].state # "none"
    /\ \A o \in Ops : ops[o].state # "none" => ops[o].model \in Models
    /\ Handling => request.model \in Models
    /\ request.at \notin {"idle", "inferring"} => /\ request.op \in Ops
                                                /\ ops[request.op].state # "none"
    /\ request.at = "audit" => /\ ops[request.op].state = "queued"
                               /\ ops[request.op].model = request.model
                               /\ worker[request.op] = "none"

\* Every key in use has one owner, and every owner its key.
Exclusive ==
    /\ \A o, q \in Ops : Busy(o) /\ Busy(q) /\ ops[o].model = ops[q].model => o = q
    /\ \A o \in Ops : Busy(o) /\ Handling => ops[o].model # request.model
    /\ \A o \in Ops : Busy(o) => ops[o].model \in active \ leaked
    /\ Handling => request.model \in active \ leaked
    /\ \A m \in active \ leaked : \/ \E o \in Ops : Busy(o) /\ ops[o].model = m
                                  \/ Handling /\ request.model = m

\* A process that ended left nothing in memory.
Down == ~up => active = {} /\ request.at = "idle" /\ \A o \in Ops : ~Busy(o)

MInv == Types /\ Known /\ Exclusive /\ Down /\ LoadsOnce

-----------------------------------------------------------------------------
(* The moves of a key. Every step but the taking of a key, the handing over *)
(* to a thread and the loss of a key is one of these.                       *)

\* Records are rewritten, none appears or disappears.
Rewritten ==
    /\ ops' \in [Ops -> OpRow]
    /\ \A q \in Ops : ops'[q].model = ops[q].model /\ (ops'[q].state = "none" <=> ops[q].state = "none")

\* The request gives its key back and ends.
GiveBack ==
    /\ Handling /\ up /\ Rewritten
    /\ active' = active \ {request.model} /\ loaded' \subseteq loaded
    /\ request' = Idle
    /\ UNCHANGED <<worker, note, leaked, up>>

\* The request keeps its key.
KeepOn ==
    /\ Handling /\ up /\ Rewritten /\ request.at # "inferring"
    /\ request' \in Call /\ request'.at \in {"run", "end", "end_audit"}
    /\ request'.op = request.op /\ request'.model = request.model
    /\ loaded' \subseteq loaded
    /\ UNCHANGED <<active, worker, note, leaked, up>>

\* The request has no key.
Keyless ==
    /\ ~Handling /\ up /\ Rewritten
    /\ request' \in Call /\ request'.at \in {"idle", "cancel", "cancel_audit"}
    /\ request'.at # "idle" => request'.op \in Ops /\ ops[request'.op].state # "none"
    /\ UNCHANGED <<active, loaded, worker, note, leaked, up>>

\* Only the record of o is rewritten.
Own(o) == Rewritten /\ \A q \in Ops : q # o => ops'[q] = ops[q]

\* A thread keeps its key.
WorkOn(o) ==
    /\ Busy(o) /\ up /\ Own(o) /\ note' \in [Ops -> Nat]
    /\ \E to \in WorkerHolds \ {"load"} : worker' = [worker EXCEPT ![o] = to]
    /\ UNCHANGED <<active, loaded, leaked, request, up>>

\* A thread that has no key any more.
WindUp(o) ==
    /\ worker[o] \in {"read", "finish_ok", "finish_err", "audit"} /\ up /\ Own(o) /\ note' \in [Ops -> Nat]
    /\ \E to \in {"finish_err", "audit", "gone"} : worker' = [worker EXCEPT ![o] = to]
    /\ UNCHANGED <<active, loaded, leaked, request, up>>

\* Giving a key back keeps the invariant: nobody else had it.
LEMMA GiveBackMInv == ASSUME MInv, GiveBack PROVE MInv'
<1> USE DEF GiveBack, Rewritten, Busy, Handling, WorkerHolds, RequestHolds
<1>1. Types'
    BY DEF MInv, Types, Exclusive, Idle, Call, RequestPC, Kinds, WorkerPC
<1>2. Known'
    BY <1>1 DEF MInv, Types, Known, Idle
<1>3. Exclusive'
    BY <1>1 DEF MInv, Types, Known, Exclusive, Idle
<1>4. Down' /\ LoadsOnce'
    BY <1>1 DEF MInv, Types, Known, Exclusive, Down, LoadsOnce, Idle
<1> QED
    BY <1>1, <1>2, <1>3, <1>4 DEF MInv

\* So does going on with it.
LEMMA KeepOnMInv == ASSUME MInv, KeepOn PROVE MInv'
<1> USE DEF KeepOn, Rewritten, Busy, Handling, WorkerHolds, RequestHolds
<1>1. Types'
    BY DEF MInv, Types, Idle, Call, RequestPC, Kinds, WorkerPC
<1>2. Known'
    BY <1>1 DEF MInv, Types, Known, Idle
<1>3. Exclusive'
    BY <1>1 DEF MInv, Types, Known, Exclusive, Idle
<1>4. Down' /\ LoadsOnce'
    BY <1>1 DEF MInv, Types, Known, Exclusive, Down, LoadsOnce, Idle
<1> QED
    BY <1>1, <1>2, <1>3, <1>4 DEF MInv

\* A request without a key disturbs no other.
LEMMA KeylessMInv == ASSUME MInv, Keyless PROVE MInv'
<1> USE DEF Keyless, Rewritten, Busy, Handling, WorkerHolds, RequestHolds
<1>1. Types'
    BY DEF MInv, Types, Idle, Call, RequestPC, Kinds, WorkerPC
<1>2. Known'
    BY <1>1 DEF MInv, Types, Known, Idle
<1>3. Exclusive'
    BY <1>1 DEF MInv, Types, Known, Exclusive, Idle
<1>4. Down' /\ LoadsOnce'
    BY <1>1 DEF MInv, Types, Known, Exclusive, Down, LoadsOnce, Idle
<1> QED
    BY <1>1, <1>2, <1>3, <1>4 DEF MInv

\* A thread goes on with its key; the record of the request is not its own.
LEMMA WorkOnMInv == ASSUME NEW o \in Ops, MInv, WorkOn(o) PROVE MInv'
<1> USE DEF WorkOn, Own, Rewritten, Busy, Handling, WorkerHolds, RequestHolds
<1>1. Types'
    BY DEF MInv, Types, Idle, Call, RequestPC, Kinds, WorkerPC
<1>2. Known'
    BY <1>1 DEF MInv, Types, Known, Idle
<1>3. Exclusive'
    BY <1>1 DEF MInv, Types, Known, Exclusive, Idle
<1>4. Down' /\ LoadsOnce'
    BY <1>1 DEF MInv, Types, Known, Exclusive, Down, LoadsOnce, Idle
<1> QED
    BY <1>1, <1>2, <1>3, <1>4 DEF MInv

\* A thread without a key disturbs nobody.
LEMMA WindUpMInv == ASSUME NEW o \in Ops, MInv, WindUp(o) PROVE MInv'
<1> USE DEF WindUp, Own, Rewritten, Busy, Handling, WorkerHolds, RequestHolds
<1>1. Types'
    BY DEF MInv, Types, Idle, Call, RequestPC, Kinds, WorkerPC
<1>2. Known'
    BY <1>1 DEF MInv, Types, Known, Idle
<1>3. Exclusive'
    BY <1>1 DEF MInv, Types, Known, Exclusive, Idle
<1>4. Down' /\ LoadsOnce'
    BY <1>1 DEF MInv, Types, Known, Exclusive, Down, LoadsOnce, Idle
<1> QED
    BY <1>1, <1>2, <1>3, <1>4 DEF MInv

\* What the store does to a record.
LEMMA StoreMoves ==
    ASSUME Types, NEW o \in Ops, ops[o].state # "none"
    PROVE  /\ UNCHANGED ops \/ AuditFails => Own(o)
           /\ Audit(o) => Own(o)
           /\ Fail(o) => Own(o)
           /\ \A to \in Pending \cup Terminal, n \in Nat :
                 Transition(o, to, n) \/ TransitionFails(o, to, n) => Own(o)
<1> USE DEF Types, Own, Rewritten, OpRow, Pending, Terminal, rows
<1>1. ASSUME UNCHANGED ops PROVE Own(o)
    BY <1>1
<1>2. ASSUME Fail(o) PROVE Own(o)
    BY <1>2 DEF Fail
<1>3. ASSUME NEW to \in Pending \cup Terminal, NEW n \in Nat, Transition(o, to, n) PROVE Own(o)
  <2>1. ops' = [ops EXCEPT ![o] = [ops[o] EXCEPT !.state = to, !.progress = n]]
    BY <1>3 DEF Transition
  <2> QED
    BY <2>1
<1> QED
    BY <1>1, <1>2, <1>3 DEF TransitionFails, AuditFails, Audit

\* Nobody has a key at first.
LEMMA InitMInv == Init => MInv
BY PartsAssumption DEF Init, MInv, Types, Known, Exclusive, Down, LoadsOnce, Busy, Handling, NoRow, Idle,
   OpRow, Call, Pending, Terminal, Kinds, WorkerPC, WorkerHolds, RequestHolds, RequestPC

\* The steps of the request thread.
LEMMA RequestMInv == MInv /\ RequestStep => MInv'
<1> SUFFICES ASSUME MInv, RequestStep PROVE MInv'
    OBVIOUS
<1>0. Types /\ Known
    BY DEF MInv
<1> DEFINE o == request.op
<1> USE DEF At, Handling, RequestHolds, rows, memory, thread, world
<1>1. CASE Spawn
    BY <1>1 DEF Spawn, Audit, Reply, Idle, MInv, Types, Known, Exclusive, Down, LoadsOnce, Busy, Call,
            WorkerPC, WorkerHolds, RequestPC, Kinds
<1>2. CASE SpawnFails \/ AuditQueuedFails
  <2>1. o \in Ops /\ ops[o].state # "none"
    BY <1>0, <1>2 DEF Known, SpawnFails, AuditQueuedFails
  <2>2. Own(o)
    BY <1>0, <1>2, <2>1, StoreMoves DEF SpawnFails, AuditQueuedFails
  <2>3. GiveBack
    BY <1>2, <2>2 DEF SpawnFails, AuditQueuedFails, GiveBack, Own, Release, Reply, Mishap
  <2> QED
    BY <2>3, GiveBackMInv
<1>3. CASE SpawnFailsUnrecorded
  <2>1. o \in Ops /\ ops[o].state # "none"
    BY <1>0, <1>3 DEF Known, SpawnFailsUnrecorded
  <2>2. Own(o)
    BY <1>0, <1>3, <2>1, StoreMoves DEF SpawnFailsUnrecorded
  <2>3. /\ request.at = "audit" /\ request' = Idle /\ leaked' = leaked \cup {request.model} /\ up
        /\ UNCHANGED <<active, loaded, worker, note, up>>
    BY <1>3 DEF SpawnFailsUnrecorded, Reply
  <2>4. Types'
    BY <2>2, <2>3 DEF MInv, Types, Known, Exclusive, Own, Rewritten, Idle, Call, RequestPC, Kinds
  <2>5. Known' /\ Down' /\ LoadsOnce'
    BY <2>2, <2>3 DEF MInv, Types, Known, Down, LoadsOnce, Own, Rewritten, Idle, Busy, WorkerHolds
  <2>6. Exclusive'
    BY <2>2, <2>3 DEF MInv, Types, Known, Exclusive, Own, Rewritten, Idle, Busy
  <2> QED
    BY <2>4, <2>5, <2>6 DEF MInv
<1>4. CASE UnloadAudited
  <2>1. o \in Ops /\ ops[o].state # "none"
    BY <1>0, <1>4 DEF Known, UnloadAudited
  <2>2. Own(o)
    BY <1>0, <1>4, <2>1, StoreMoves DEF UnloadAudited
  <2>3. KeepOn
    BY <1>0, <1>4, <2>2 DEF UnloadAudited, KeepOn, Own, Types, Call, RequestPC, Audit
  <2> QED
    BY <2>3, KeepOnMInv
<1>5. CASE UnloadRun
  <2>1. o \in Ops /\ ops[o].state # "none"
    BY <1>0, <1>5 DEF Known, UnloadRun
  <2>2. Own(o)
    BY <1>0, <1>5, <2>1, StoreMoves DEF UnloadRun, Pending, Terminal
  <2>3. KeepOn \/ GiveBack
    BY <1>0, <1>5, <2>2 DEF UnloadRun, KeepOn, GiveBack, Own, Types, Call, RequestPC, Release, Reply,
            Transition, TransitionFails, Mishap
  <2> QED
    BY <2>3, KeepOnMInv, GiveBackMInv
<1>6. CASE UnloadEnd
  <2>1. o \in Ops /\ ops[o].state # "none"
    BY <1>0, <1>6 DEF Known, UnloadEnd
  <2>2. Own(o)
    BY <1>0, <1>6, <2>1, StoreMoves, PartsAssumption DEF UnloadEnd, Pending, Terminal
  <2>3. KeepOn \/ GiveBack
    BY <1>0, <1>6, <2>2 DEF UnloadEnd, KeepOn, GiveBack, Own, Types, Call, RequestPC, Release, Reply,
            Transition, TransitionFails, Mishap
  <2> QED
    BY <2>3, KeepOnMInv, GiveBackMInv
<1>7. CASE UnloadAudit
  <2>1. o \in Ops /\ ops[o].state # "none"
    BY <1>0, <1>7 DEF Known, UnloadAudit
  <2>2. Own(o)
    BY <1>0, <1>7, <2>1, StoreMoves DEF UnloadAudit
  <2>3. GiveBack
    BY <1>7, <2>2 DEF UnloadAudit, GiveBack, Own, Release, Reply, Audit, AuditFails, Mishap
  <2> QED
    BY <2>3, GiveBackMInv
<1>8. CASE CancelWrite \/ CancelAudit
  <2>1. o \in Ops /\ ops[o].state # "none"
    BY <1>0, <1>8 DEF Known, CancelWrite, CancelAudit
  <2>2. request \in Call /\ request.found \in Nat
    BY <1>0 DEF Types, Call
  <2>3. Own(o)
    BY <1>0, <1>8, <2>1, <2>2, StoreMoves DEF CancelWrite, CancelAudit, Terminal
  <2>4. Keyless
    BY <1>8, <2>1, <2>2, <2>3, NoneAssumption DEF CancelWrite, CancelAudit, Keyless, Own, Call,
            RequestPC, Reply, Idle, Kinds, Transition, TransitionFails, Audit, AuditFails, Mishap
  <2> QED
    BY <2>4, KeylessMInv
<1>9. CASE InferEnd
  <2>1. GiveBack
    BY <1>0, <1>9 DEF InferEnd, GiveBack, Rewritten, Types, Release, Reply
  <2> QED
    BY <2>1, GiveBackMInv
<1> QED
    BY <1>1, <1>2, <1>3, <1>4, <1>5, <1>6, <1>7, <1>8, <1>9 DEF RequestStep

\* The steps of a background thread.
LEMMA WorkerMInv == ASSUME NEW o \in Ops, MInv, WorkerStep(o) PROVE MInv'
<1>0. Types /\ Known
    BY DEF MInv
<1> USE DEF Works, Goes, rows, memory, thread, world
<1>1. CASE Begin(o)
  <2>1. Own(o)
    BY <1>0, <1>1, StoreMoves DEF Begin, Known, Pending, Terminal
  <2>2. WorkOn(o)
    BY <1>0, <1>1, <2>1 DEF Begin, WorkOn, Busy, WorkerHolds, Types, Transition, TransitionFails, Mishap
  <2> QED
    BY <2>2, WorkOnMInv
<1>2. CASE Fetch(o)
  <2>1. note[o] + 1 \in Nat /\ note' \in [Ops -> Nat]
    BY <1>0, <1>2 DEF Types, Fetch
  <2>2. Own(o)
    BY <1>0, <1>2, <2>1, StoreMoves DEF Fetch, Known, Pending, Terminal
  <2>3. WorkOn(o)
    BY <1>0, <1>2, <2>1, <2>2 DEF Fetch, WorkOn, Busy, WorkerHolds, Types, Transition, TransitionFails, Mishap
  <2> QED
    BY <2>3, WorkOnMInv
<1>3. CASE Check(o)
    BY <1>3 DEF Check, MInv, Types, Known, Exclusive, Down, LoadsOnce, Busy, Handling, WorkerPC, WorkerHolds,
            RequestHolds
<1>4. CASE Load(o)
    BY <1>4 DEF Load, MInv, Types, Known, Exclusive, Down, LoadsOnce, Busy, Handling, WorkerPC, WorkerHolds,
            RequestHolds
<1>5. CASE WorkFails(o)
  <2>1. WorkOn(o)
    BY <1>0, <1>5 DEF WorkFails, WorkOn, Own, Rewritten, Busy, WorkerHolds, Types
  <2> QED
    BY <2>1, WorkOnMInv
<1>6. CASE ReleaseKey(o)
    BY <1>6 DEF ReleaseKey, Release, Forget, MInv, Types, Known, Exclusive, Down, LoadsOnce, Busy, Handling,
            WorkerPC, WorkerHolds, RequestHolds
<1>7. CASE ReadProgress(o)
  <2>1. ops[o].progress \in Nat /\ ops[o].state # "none"
    BY <1>0, <1>7 DEF Types, Known, OpRow, ReadProgress
  <2>2. note' \in [Ops -> Nat]
    <3>1. \E n \in Nat : note' = [note EXCEPT ![o] = n]
      BY <1>7, <2>1 DEF ReadProgress
    <3> QED
      BY <1>0, <3>1 DEF Types
  <2>3. Own(o)
    BY <1>0, <1>7, <2>1, StoreMoves DEF ReadProgress
  <2>4. WindUp(o)
    BY <1>0, <1>7, <2>2, <2>3 DEF ReadProgress, WindUp, Types, Mishap
  <2> QED
    BY <2>4, WindUpMInv
<1>8. CASE Finish(o)
  <2>1. note[o] \in Nat /\ note' \in [Ops -> Nat] /\ ops[o].state # "none"
    BY <1>0, <1>8 DEF Types, Known, Finish, Forget
  <2>2. Own(o)
    BY <1>0, <1>8, <2>1, StoreMoves, PartsAssumption DEF Finish, Terminal
  <2>3. WindUp(o)
    BY <1>0, <1>8, <2>1, <2>2 DEF Finish, WindUp, Types, Transition, TransitionFails, Mishap
  <2> QED
    BY <2>3, WindUpMInv
<1>9. CASE AuditEnd(o)
  <2>1. Own(o)
    BY <1>0, <1>9, StoreMoves DEF AuditEnd, Known
  <2>2. WindUp(o)
    BY <1>0, <1>9, <2>1 DEF AuditEnd, WindUp, Types, Audit, AuditFails, Mishap
  <2> QED
    BY <2>2, WindUpMInv
<1> QED
    BY <1>1, <1>2, <1>3, <1>4, <1>5, <1>6, <1>7, <1>8, <1>9 DEF WorkerStep

\* Every step. A key is taken only when it is free, by a request that holds none.
LEMMA NextMInv == MInv /\ [Next]_vars => MInv'
<1> SUFFICES ASSUME MInv, [Next]_vars PROVE MInv'
    OBVIOUS
<1> USE DEF At, rows, memory, thread, world
<1>1. ASSUME NEW kind \in Kinds, NEW o \in Ops, NEW m \in Models, Accept(kind, o, m) PROVE MInv'
  <2> DEFINE row  == [NoRow EXCEPT !.state = "queued", !.kind = kind, !.model = m]
             call == [Idle EXCEPT !.at = "audit", !.kind = kind, !.op = o, !.model = m]
  <2>a. row \in OpRow /\ row.state = "queued" /\ row.model = m
    BY DEF NoRow, OpRow, Pending
  <2>b. call \in Call /\ call.at = "audit" /\ call.op = o /\ call.model = m
    BY DEF Idle, Call, RequestPC, RequestHolds
  <2>c. ops[o].state = "none" /\ worker[o] = "none" /\ m \notin active /\ up /\ ~Handling
    BY <1>1 DEF Accept, Acquire, Insert, MInv, Known, Handling, RequestHolds
  <2>d. /\ ops' = [ops EXCEPT ![o] = row] /\ request' = call /\ active' = active \cup {m}
        /\ UNCHANGED <<loaded, worker, note, leaked, up>>
    BY <1>1 DEF Accept, Acquire, Insert
  <2> HIDE DEF row, call
  <2>2. Types'
    BY <2>a, <2>b, <2>c, <2>d DEF MInv, Types
  <2>3. Known'
    BY <2>a, <2>b, <2>c, <2>d DEF MInv, Types, Known, Handling, RequestHolds
  <2>4. Exclusive'
    BY <2>a, <2>b, <2>c, <2>d DEF MInv, Types, Known, Exclusive, Handling, RequestHolds, Busy, WorkerHolds
  <2>5. Down' /\ LoadsOnce'
    BY <2>a, <2>b, <2>c, <2>d DEF MInv, Types, Down, LoadsOnce
  <2> QED
    BY <2>2, <2>3, <2>4, <2>5 DEF MInv
<1>9. ASSUME NEW kind \in Kinds, NEW o \in Ops, NEW m \in Models, AcceptUnread(kind, o, m) PROVE MInv'
  <2> DEFINE row == [NoRow EXCEPT !.state = "queued", !.kind = kind, !.model = m]
  <2>a. row \in OpRow /\ row.state = "queued" /\ row.model = m
    BY DEF NoRow, OpRow, Pending
  <2>b. ops[o].state = "none" /\ worker[o] = "none" /\ up /\ request.at = "idle" /\ ~Handling
    BY <1>9 DEF AcceptUnread, Insert, MInv, Known, Handling, RequestHolds
  <2>c. /\ ops' = [ops EXCEPT ![o] = row]
        /\ UNCHANGED <<request, active, loaded, worker, note, leaked, up>>
    BY <1>9 DEF AcceptUnread, Insert, Mishap
  <2> HIDE DEF row
  <2>1. Types' /\ Known'
    BY <2>a, <2>b, <2>c DEF MInv, Types, Known, Handling, RequestHolds
  <2>2. Exclusive'
    BY <2>a, <2>b, <2>c DEF MInv, Types, Known, Exclusive, Handling, RequestHolds, Busy, WorkerHolds
  <2>3. Down' /\ LoadsOnce'
    BY <2>a, <2>b, <2>c DEF MInv, Types, Down, LoadsOnce, Busy
  <2> QED
    BY <2>1, <2>2, <2>3 DEF MInv
<1>2. ASSUME NEW o \in Ops, CancelRead(o) PROVE MInv'
  <2>1. Keyless
    BY <1>2 DEF CancelRead, Records, Keyless, Rewritten, Idle, MInv, Types, OpRow, Call, RequestPC, RequestHolds,
            Handling, Kinds
  <2> QED
    BY <2>1, KeylessMInv
<1>3. ASSUME NEW m \in Models, Infer(m) PROVE MInv'
  <2>1. /\ m \notin active /\ up /\ ~Handling
        /\ request' = [at |-> "inferring", kind |-> "none", op |-> None, model |-> m, found |-> 0]
        /\ active' = active \cup {m}
        /\ UNCHANGED <<ops, loaded, worker, note, leaked, up>>
    BY <1>3 DEF Infer, Acquire, Idle, Handling, RequestHolds
  <2>2. Types' /\ Known'
    BY <2>1 DEF MInv, Types, Known, Call, RequestPC, RequestHolds, Handling
  <2>3. Exclusive'
    BY <2>1 DEF MInv, Types, Known, Exclusive, Handling, RequestHolds, Busy
  <2>4. Down' /\ LoadsOnce'
    BY <2>1 DEF MInv, Types, Down, LoadsOnce
  <2> QED
    BY <2>2, <2>3, <2>4 DEF MInv
<1>4. CASE Crash
    BY <1>4 DEF Crash, Reply, Idle, MInv, Types, Known, Exclusive, Down, LoadsOnce, Busy, Handling, Call,
            Kinds, WorkerPC, WorkerHolds, RequestHolds, RequestPC
<1>5. CASE Reopen
    BY <1>5 DEF Reopen, MInv, Types, Known, Exclusive, Down, LoadsOnce, Busy, Handling, OpRow, Pending,
            Terminal, WorkerHolds, RequestHolds
<1>6. CASE UNCHANGED vars
    BY <1>6 DEF vars, MInv, Types, Known, Exclusive, Down, LoadsOnce, Busy, Handling
<1>7. ASSUME NEW o \in Ops, WorkerStep(o) PROVE MInv'
    BY <1>7, WorkerMInv
<1>8. CASE RequestStep
    BY <1>8, RequestMInv
<1> QED
    BY <1>1, <1>2, <1>3, <1>4, <1>5, <1>6, <1>7, <1>8, <1>9 DEF Next

\* MInv is an invariant of every behaviour.
THEOREM KeysInductive == Spec => []MInv
BY InitMInv, NextMInv, PTL DEF Spec

\* One request or thread at a time works on a model, and only a lost key is kept by nobody,
\* for any number of operations, models, failures and restarts.
THEOREM KeysAlwaysHeld == Spec => []KeysHeld
<1>1. MInv => KeysHeld
  <2> SUFFICES ASSUME MInv, NEW m \in Models
               PROVE  /\ \A x, y \in Holders(m) : x = y
                      /\ m \in active <=> Holders(m) # {} \/ m \in leaked
    BY DEF KeysHeld
  <2>1. \A x \in Holders(m) : \/ x \in Ops /\ Busy(x) /\ ops[x].model = m
                              \/ x = None /\ Handling /\ request.model = m
    BY DEF Holders, Busy, Handling
  <2>2. /\ \A o \in Ops : Busy(o) /\ ops[o].model = m => o \in Holders(m)
        /\ Handling /\ request.model = m => None \in Holders(m)
    BY DEF Holders, Busy, Handling
  <2> QED
    BY <2>1, <2>2 DEF MInv, Types, Exclusive
<1> QED
    BY <1>1, KeysInductive, PTL

\* A load never replaces a provider.
THEOREM LoadsAlwaysOnce == Spec => []LoadsOnce
<1>1. MInv => LoadsOnce
    BY DEF MInv
<1> QED
    BY <1>1, KeysInductive, PTL

-----------------------------------------------------------------------------
(* The records.                                                            *)

\* The ways in which a step writes the records.
Writes ==
    \/ UNCHANGED ops
    \/ \E o \in Ops, to \in Pending \cup Terminal, n \in Nat : Transition(o, to, n)
    \/ request.at = "audit" /\ Fail(request.op)
    \/ \E kind \in Kinds, o \in Ops, m \in Models : Insert(kind, o, m)
    \/ Reopen

\* No step writes them in another way.
LEMMA NextWrites == MInv /\ Next => Writes
<1> SUFFICES ASSUME MInv, Next PROVE Writes
    OBVIOUS
<1>0. /\ \A o \in Ops : note[o] \in Nat /\ note[o] + 1 \in Nat
      /\ request.found \in Nat
      /\ request.at \notin {"idle", "inferring"} => request.op \in Ops
      /\ 0 \in Nat /\ Parts \in Nat
    BY PartsAssumption DEF MInv, Types, Known, Call
<1> USE DEF rows, world, Pending, Terminal
<1>1. ASSUME NEW o \in Ops, WorkerStep(o) PROVE Writes
  <2>1. CASE Begin(o) \/ Fetch(o) \/ Finish(o)
    BY <1>0, <2>1 DEF Begin, Fetch, Finish, TransitionFails, Writes
  <2>2. CASE Check(o) \/ Load(o) \/ WorkFails(o) \/ ReleaseKey(o) \/ ReadProgress(o) \/ AuditEnd(o)
    BY <2>2 DEF Check, Load, WorkFails, ReleaseKey, ReadProgress, AuditEnd, Audit, AuditFails, Writes
  <2> QED
    BY <1>1, <2>1, <2>2 DEF WorkerStep
<1>2. CASE RequestStep
  <2>1. CASE Spawn \/ UnloadAudited \/ UnloadAudit \/ CancelAudit \/ InferEnd
    BY <2>1 DEF Spawn, UnloadAudited, UnloadAudit, CancelAudit, InferEnd, Audit, AuditFails, Writes
  <2>2. CASE SpawnFails \/ SpawnFailsUnrecorded \/ AuditQueuedFails
    BY <2>2 DEF SpawnFails, SpawnFailsUnrecorded, AuditQueuedFails, At, Writes
  <2>3. CASE UnloadRun \/ UnloadEnd \/ CancelWrite
    BY <1>0, <2>3 DEF UnloadRun, UnloadEnd, CancelWrite, At, TransitionFails, Writes
  <2> QED
    BY <1>2, <2>1, <2>2, <2>3 DEF RequestStep
<1>3. ASSUME NEW o \in Ops, CancelRead(o) PROVE Writes
    BY <1>3 DEF CancelRead, Writes
<1>4. ASSUME NEW m \in Models, Infer(m) PROVE Writes
    BY <1>4 DEF Infer, Writes
<1>5. CASE Crash
    BY <1>5 DEF Crash, Writes
<1>6. ASSUME NEW kind \in Kinds, NEW o \in Ops, NEW m \in Models,
             Accept(kind, o, m) \/ AcceptUnread(kind, o, m)
      PROVE  Writes
    BY <1>6 DEF Accept, AcceptUnread, Writes
<1> QED
    BY <1>1, <1>2, <1>3, <1>4, <1>5, <1>6 DEF Next, Writes

\* Each of them moves the records forward: an end is not overwritten, because no
\* transition leaves it, and the record that start fails is still queued.
LEMMA WritesForward == ASSUME MInv, Writes PROVE Forward
<1>0. Types
    BY DEF MInv
<1>1. CASE UNCHANGED ops
    BY <1>0, <1>1 DEF Forward, Records, Types, OpRow
<1>2. ASSUME NEW o \in Ops, NEW to \in Pending \cup Terminal, NEW n \in Nat, Transition(o, to, n)
      PROVE  Forward
  <2>1. ops' = [ops EXCEPT ![o] = [ops[o] EXCEPT !.state = to, !.progress = n]]
    BY <1>2 DEF Transition
  <2>2. n >= ops[o].progress /\ ops[o].state \notin Terminal
    BY <1>0, <1>2, PartsAssumption DEF Transition, Allowed, Permitted, Types, OpRow, Terminal
  <2> QED
    BY <1>0, <2>1, <2>2 DEF Forward, Records, Types, OpRow
<1>3. CASE request.at = "audit" /\ Fail(request.op)
  <2>1. request.op \in Ops /\ ops[request.op].state \notin Terminal
    BY <1>3 DEF MInv, Known, Terminal
  <2>2. ops' = [ops EXCEPT ![request.op] = [ops[request.op] EXCEPT !.state = "failed"]]
    BY <1>3 DEF Fail
  <2> QED
    BY <1>0, <2>1, <2>2 DEF Forward, Records, Types, OpRow
<1>4. ASSUME NEW kind \in Kinds, NEW o \in Ops, NEW m \in Models, Insert(kind, o, m) PROVE Forward
  <2>1. ops[o].state = "none" /\ \A q \in Ops : q # o => ops'[q] = ops[q]
    BY <1>0, <1>4 DEF Insert, Types
  <2> QED
    BY <1>0, <2>1 DEF Forward, Records, Types, OpRow
<1>5. CASE Reopen
    BY <1>0, <1>5 DEF Reopen, Forward, Records, Types, OpRow, Pending, Terminal
<1> QED
    BY <1>1, <1>2, <1>3, <1>4, <1>5 DEF Writes

\* An end is final, progress never goes back and no identifier is used twice.
THEOREM RecordsMoveForward == Spec => LedgerMonotone
<1>1. MInv /\ [Next]_vars => [Forward]_vars
    BY NextWrites, WritesForward
<1> QED
    BY <1>1, KeysInductive, PTL DEF Spec, LedgerMonotone

-----------------------------------------------------------------------------
(* The audit.                                                              *)

\* The stages of the request that handles operation o.
Opening(o)   == request.at = "audit" /\ request.op = o
Unloading(o) == request.at \in {"run", "end", "end_audit"} /\ request.op = o
Telling(o)   == request.at \in {"cancel_audit", "end_audit"} /\ request.op = o

Asked(trail) == trail # <<>> /\ trail[1] = "queued"

\* The audit of an operation starts when its request is audited; only one party, and only
\* after the record has ended, is about to tell of the end, and nobody has told yet.
Account(o) ==
    /\ ops[o].state = "none" \/ Opening(o) => audits[o] = <<>>
    /\ worker[o] # "none" \/ Unloading(o) \/ ops[o].state \in {"running", "succeeded"} => Asked(audits[o])
    /\ worker[o] = "audit" \/ Telling(o) => Ends(audits[o]) = {} /\ ops[o].state \in Terminal
    /\ ~(worker[o] = "audit" /\ Telling(o))
    /\ \A i, j \in Ends(audits[o]) : i = j
    /\ \A i \in Ends(audits[o]) : audits[o][i] = ops[o].state

Trail == Seq({"queued"} \cup Terminal)

Accounts == audits \in [Ops -> Trail] /\ \A o \in Ops : Account(o)

\* The request goes no stage further for q.
NoFurther(q) ==
    /\ Opening(q)' => Opening(q)
    /\ Unloading(q)' => Unloading(q)
    /\ Telling(q)' => Telling(q)

\* The thread of q neither starts nor comes to its audit.
SameThread(q) == /\ worker'[q] # "none" => worker[q] # "none"
                 /\ worker'[q] = "audit" => worker[q] = "audit"

\* Only a pending record moves, and it has told nothing.
LEMMA PendingSilent ==
    ASSUME NEW o \in Ops, Account(o), ops[o].state \in Pending
    PROVE  Ends(audits[o]) = {} /\ worker[o] # "audit" /\ ~Telling(o)
BY DEF Account, Pending, Terminal, Ends

\* A step that leaves the record and the audit of an operation alone.
LEMMA QuietAccount ==
    ASSUME NEW o \in Ops, Account(o), ops'[o].state = ops[o].state, audits'[o] = audits[o],
           NoFurther(o), SameThread(o)
    PROVE  Account(o)'
BY DEF Account, NoFurther, SameThread

\* A step that moves a pending record.
LEMMA MovedAccount ==
    ASSUME NEW o \in Ops, Account(o), ops[o].state \in Pending, audits'[o] = audits[o],
           ops'[o].state \in Pending \cup Terminal,
           ops'[o].state \in {"running", "succeeded"} => Asked(audits[o]),
           ~Opening(o)', Unloading(o)' => Unloading(o), worker'[o] # "none" => worker[o] # "none",
           worker'[o] = "audit" \/ Telling(o)' => ops'[o].state \in Terminal,
           ~(worker'[o] = "audit" /\ Telling(o)')
    PROVE  Account(o)'
<1>1. Ends(audits'[o]) = {}
    BY PendingSilent
<1>2. ops'[o].state # "none"
    BY DEF Pending, Terminal
<1> QED
    BY <1>1, <1>2 DEF Account

\* What one more entry does to an audit.
LEMMA OneMore ==
    ASSUME NEW trail \in Trail, NEW entry \in {"queued"} \cup Terminal
    PROVE  /\ Append(trail, entry) \in Trail
           /\ Asked(trail) => Asked(Append(trail, entry))
           /\ trail = <<>> /\ entry = "queued" => Asked(Append(trail, entry))
           /\ entry = "queued" => Ends(Append(trail, entry)) = Ends(trail)
           /\ entry # "queued" => /\ Ends(Append(trail, entry)) = Ends(trail) \cup {Len(trail) + 1}
                                  /\ Append(trail, entry)[Len(trail) + 1] = entry
<1> DEFINE more == Append(trail, entry)
<1>1. /\ more \in Trail /\ DOMAIN more = 1 .. Len(trail) + 1 /\ DOMAIN trail = 1 .. Len(trail)
      /\ Len(trail) \in Nat /\ Len(more) = Len(trail) + 1
      /\ \A i \in 1 .. Len(trail) : more[i] = trail[i]
      /\ more[Len(trail) + 1] = entry
    BY DEF Trail
<1>2. trail # <<>> => Len(trail) # 0
    BY DEF Trail
<1>3. trail = <<>> => Len(trail) = 0
    OBVIOUS
<1>4. more # <<>>
    BY <1>1
<1>5. "queued" \notin Terminal
    BY DEF Terminal
<1> HIDE DEF more
<1>6. Asked(trail) => Asked(more)
    BY <1>1, <1>2, <1>4 DEF Asked
<1>7. trail = <<>> /\ entry = "queued" => Asked(more)
    BY <1>1, <1>3, <1>4 DEF Asked
<1>8. entry = "queued" => Ends(more) = Ends(trail)
    BY <1>1, <1>5 DEF Ends
<1>9. entry # "queued" => Ends(more) = Ends(trail) \cup {Len(trail) + 1}
    BY <1>1 DEF Ends
<1> QED
    BY <1>1, <1>6, <1>7, <1>8, <1>9 DEF more

\* The one that is at the audit of an end tells of it, and leaves.
LEMMA ToldAccount ==
    ASSUME NEW o \in Ops, Account(o), audits[o] \in Trail,
           worker[o] = "audit" \/ Telling(o),
           ops'[o].state = ops[o].state, audits'[o] = Append(audits[o], ops[o].state),
           worker'[o] # "audit", worker'[o] # "none" => worker[o] # "none",
           ~Opening(o)', Unloading(o)' => Unloading(o), ~Telling(o)'
    PROVE  Account(o)'
<1>1. Ends(audits[o]) = {} /\ ops[o].state \in Terminal
    BY DEF Account
<1>2. ops[o].state # "queued"
    BY <1>1 DEF Terminal
<1>3. /\ Ends(audits'[o]) = {Len(audits[o]) + 1} /\ audits'[o][Len(audits[o]) + 1] = ops'[o].state
      /\ Asked(audits[o]) => Asked(audits'[o])
  <2>1. PICK more : more = Append(audits[o], ops[o].state)
    OBVIOUS
  <2>2. /\ Ends(more) = Ends(audits[o]) \cup {Len(audits[o]) + 1} /\ more[Len(audits[o]) + 1] = ops[o].state
        /\ Asked(audits[o]) => Asked(more)
    BY <1>1, <1>2, <2>1, OneMore, Zenon
  <2>3. more = audits'[o]
    BY <2>1
  <2> QED
    BY <1>1, <2>2, <2>3
<1> QED
    BY <1>1, <1>3 DEF Account, Terminal

\* The request is audited, or its failure with it.
LEMMA OpenedAccount ==
    ASSUME NEW o \in Ops, Asked(audits'[o]), ops'[o].state # "none", worker'[o] # "audit",
           ~Opening(o)', ~Telling(o)',
           \A i, j \in Ends(audits'[o]) : i = j,
           \A i \in Ends(audits'[o]) : audits'[o][i] = ops'[o].state
    PROVE  Account(o)'
BY DEF Account

\* What a transition does, told by operation.
LEMMA TransitionRows ==
    ASSUME Types, NEW o \in Ops, NEW to, NEW n, Transition(o, to, n)
    PROVE  /\ ops[o].state \in Pending /\ ops'[o].state = to
           /\ \A q \in Ops : q # o => ops'[q] = ops[q]
           /\ audits' = audits
<1>1. ops' = [ops EXCEPT ![o] = [ops[o] EXCEPT !.state = to, !.progress = n]]
    BY DEF Transition
<1>2. [ops[o] EXCEPT !.state = to, !.progress = n].state = to
    BY DEF Types, OpRow
<1>3. ops[o].state \in Pending /\ audits' = audits
    BY DEF Transition, Allowed, Permitted, Pending
<1> QED
    BY <1>1, <1>2, <1>3 DEF Types

\* What an audit does.
LEMMA AuditRows ==
    ASSUME Accounts, NEW o \in Ops, ops[o].state \in {"queued"} \cup Terminal, Audit(o)
    PROVE  /\ audits' \in [Ops -> Trail] /\ audits'[o] = Append(audits[o], ops[o].state)
           /\ \A q \in Ops : q # o => audits'[q] = audits[q]
           /\ ops' = ops
<1>1. Append(audits[o], ops[o].state) \in Trail
    BY OneMore DEF Accounts
<1> QED
    BY <1>1 DEF Accounts, Audit

\* The steps of a thread.
LEMMA WorkerAccounts == ASSUME NEW o \in Ops, MInv, Accounts, WorkerStep(o) PROVE Accounts'
<1>0. Types /\ Known /\ audits \in [Ops -> Trail] /\ \A q \in Ops : Account(q)
    BY DEF MInv, Accounts
<1> USE DEF Works, Goes, rows, memory, thread, world
<1>1. UNCHANGED request
    BY DEF WorkerStep, Begin, Fetch, Check, Load, WorkFails, ReleaseKey, ReadProgress, Finish, AuditEnd
<1>2. /\ worker[o] # "none" /\ \A q \in Ops : NoFurther(q)
      /\ \A q \in Ops : q # o => SameThread(q)
    BY <1>0, <1>1 DEF WorkerStep, Begin, Fetch, Check, Load, WorkFails, ReleaseKey, ReadProgress, Finish, AuditEnd,
       Types, NoFurther, Opening, Unloading, Telling, SameThread
<1>3. CASE UNCHANGED rows /\ worker'[o] # "audit"
    BY <1>0, <1>2, <1>3, QuietAccount DEF Accounts, SameThread
<1>4. ASSUME NEW to \in Pending \cup Terminal, NEW n, Transition(o, to, n), worker'[o] # "audit" \/ to \in Terminal
      PROVE  Accounts'
  <2>1. /\ ops[o].state \in Pending /\ ops'[o].state = to /\ audits' = audits
        /\ \A q \in Ops : q # o => ops'[q] = ops[q]
    BY <1>0, <1>4, TransitionRows
  <2>2. \A q \in Ops : q # o => Account(q)'
    BY <1>0, <1>2, <2>1, QuietAccount
  <2>3. /\ Asked(audits[o]) /\ ~Telling(o) /\ ~Opening(o)
    BY <1>0, <1>2, <2>1, PendingSilent DEF Account, Known, Opening
  <2>4. Account(o)'
    BY <1>0, <1>2, <1>4, <2>1, <2>3, MovedAccount DEF NoFurther
  <2> QED
    BY <1>0, <2>1, <2>2, <2>4 DEF Accounts
<1>5. CASE Begin(o) \/ Fetch(o)
  <2>1. worker'[o] # "audit"
    BY <1>0, <1>5 DEF Begin, Fetch, Types
  <2>2. \/ UNCHANGED rows
        \/ \E n : Transition(o, "running", n)
    BY <1>5 DEF Begin, Fetch, TransitionFails
  <2> QED
    BY <1>3, <1>4, <2>1, <2>2 DEF Pending
<1>6. CASE Check(o) \/ Load(o) \/ WorkFails(o) \/ ReleaseKey(o) \/ ReadProgress(o)
  <2>1. UNCHANGED rows /\ worker'[o] # "audit"
    BY <1>0, <1>6 DEF Check, Load, WorkFails, ReleaseKey, ReadProgress, Types
  <2> QED
    BY <1>3, <2>1
<1>7. CASE Finish(o)
  <2>1. \/ UNCHANGED rows /\ worker'[o] # "audit"
        \/ \E to \in Terminal : \E n : Transition(o, to, n)
    BY <1>0, <1>7 DEF Finish, TransitionFails, Types, Terminal
  <2> QED
    BY <1>3, <1>4, <2>1
<1>8. CASE AuditEnd(o)
  <2>1. worker'[o] = "gone" /\ worker[o] = "audit"
    BY <1>0, <1>8 DEF AuditEnd, Types
  <2>2. CASE AuditFails
    BY <1>3, <2>1, <2>2 DEF AuditFails
  <2>3. CASE Audit(o)
    <3>1. ops[o].state \in Terminal /\ ~Telling(o) /\ ~Opening(o)
      BY <1>0, <2>1 DEF Account, Known, Opening
    <3>3. /\ audits' \in [Ops -> Trail] /\ audits'[o] = Append(audits[o], ops[o].state) /\ ops' = ops
          /\ \A q \in Ops : q # o => audits'[q] = audits[q]
      BY <2>3, <3>1, AuditRows
    <3>4. Account(o)'
      BY <1>0, <1>2, <2>1, <3>1, <3>3, ToldAccount DEF NoFurther
    <3>5. \A q \in Ops : q # o => Account(q)'
      BY <1>0, <1>2, <3>3, QuietAccount
    <3> QED
      BY <3>3, <3>4, <3>5 DEF Accounts
  <2> QED
    BY <1>8, <2>2, <2>3 DEF AuditEnd
<1> QED
    BY <1>5, <1>6, <1>7, <1>8 DEF WorkerStep

\* The steps of the request thread.
LEMMA RequestAccounts == ASSUME MInv, Accounts, RequestStep PROVE Accounts'
<1>0. Types /\ Known /\ audits \in [Ops -> Trail] /\ \A q \in Ops : Account(q)
    BY DEF MInv, Accounts
<1>a. PICK o : o = request.op
    OBVIOUS
<1> USE <1>a DEF At, rows, memory, thread, world
<1>1. /\ \A q \in Ops : q # o => ~Opening(q) /\ ~Unloading(q) /\ ~Telling(q)
      /\ request.at \notin {"idle", "inferring"} => o \in Ops /\ ops[o].state # "none"
    BY <1>0 DEF Opening, Unloading, Telling, Known
<1>2. /\ request' = Idle \/ request'.op = o
      /\ request'.at \notin {"idle", "inferring"} => request'.op = o
    BY <1>0 DEF RequestStep, Spawn, SpawnFails, SpawnFailsUnrecorded, AuditQueuedFails, UnloadAudited, UnloadRun,
       UnloadEnd, UnloadAudit, CancelWrite, CancelAudit, InferEnd, Reply, Idle, Types, Call
<1>3. /\ request'.at # "audit" /\ \A q \in Ops : ~Opening(q)'
      /\ \A q \in Ops : q # o => NoFurther(q)
    BY <1>0, <1>2 DEF RequestStep, Spawn, SpawnFails, SpawnFailsUnrecorded, AuditQueuedFails, UnloadAudited, UnloadRun,
       UnloadEnd, UnloadAudit, CancelWrite, CancelAudit, InferEnd, Reply, Idle, Types, Call, NoFurther, Opening, Unloading, Telling
<1>4. CASE UNCHANGED rows /\ UNCHANGED worker /\ request'.at \notin {"run", "end", "end_audit", "cancel_audit"}
  <2>1. \A q \in Ops : NoFurther(q) /\ SameThread(q)
    BY <1>3, <1>4 DEF NoFurther, SameThread, Opening, Unloading, Telling
  <2> QED
    BY <1>0, <1>4, <2>1, QuietAccount DEF Accounts
<1>5. ASSUME o \in Ops, UNCHANGED worker, audits' = audits, ops[o].state \in Pending,
             ops'[o].state \in Pending \cup Terminal, \A q \in Ops : q # o => ops'[q] = ops[q],
             ops'[o].state \in {"running", "succeeded"} \/ Unloading(o)' => Unloading(o),
             Telling(o)' => ops'[o].state \in Terminal
      PROVE  Accounts'
  <2>1. \A q \in Ops : q # o => Account(q)'
    BY <1>0, <1>3, <1>5, QuietAccount DEF SameThread
  <2>2. Unloading(o) => Asked(audits[o])
    BY <1>0, <1>5 DEF Account
  <2>3. worker'[o] # "audit"
    BY <1>0, <1>5, PendingSilent
  <2>4. Account(o)'
    BY <1>0, <1>3, <1>5, <2>2, <2>3, MovedAccount
  <2> QED
    BY <1>0, <1>5, <2>1, <2>4 DEF Accounts
<1>6. ASSUME NEW to \in Pending \cup Terminal, NEW n, o \in Ops, Transition(o, to, n), UNCHANGED worker,
             to \in {"running", "succeeded"} \/ Unloading(o)' => Unloading(o),
             Telling(o)' => to \in Terminal
      PROVE  Accounts'
    BY <1>0, <1>5, <1>6, TransitionRows
<1>7. CASE Spawn \/ UnloadAudited
  <2>1. /\ request.at = "audit" /\ o \in Ops /\ ops[o].state = "queued" /\ Audit(o) /\ audits[o] = <<>>
        /\ worker'[o] # "audit" /\ ~Telling(o)'
        /\ \A q \in Ops : q # o => worker'[q] = worker[q]
    BY <1>0, <1>1, <1>7 DEF Spawn, UnloadAudited, Known, Account, Opening, Telling, Types, Reply, Idle, Call
  <2>2. /\ audits' \in [Ops -> Trail] /\ audits'[o] = Append(audits[o], "queued") /\ ops' = ops
        /\ \A q \in Ops : q # o => audits'[q] = audits[q]
    BY <2>1, AuditRows
  <2>3. Asked(audits'[o]) /\ Ends(audits'[o]) = {}
    <3>1. PICK more : more = Append(audits[o], "queued")
      OBVIOUS
    <3>2. Asked(more) /\ Ends(more) = Ends(audits[o])
      BY <1>0, <2>1, <3>1, OneMore, Zenon
    <3>3. Ends(audits[o]) = {}
      BY <2>1 DEF Ends
    <3> QED
      BY <2>2, <3>1, <3>2, <3>3
  <2>4. Account(o)'
    BY <1>3, <2>1, <2>2, <2>3, OpenedAccount
  <2>5. \A q \in Ops : q # o => Account(q)'
    BY <1>0, <1>3, <2>1, <2>2, QuietAccount DEF SameThread
  <2> QED
    BY <2>2, <2>4, <2>5 DEF Accounts
<1>8. CASE SpawnFails \/ SpawnFailsUnrecorded
  <2>1. /\ request.at = "audit" /\ o \in Ops /\ ops[o].state = "queued" /\ audits[o] = <<>>
        /\ worker' = worker /\ worker[o] = "none" /\ ~Telling(o)'
    BY <1>0, <1>1, <1>8 DEF SpawnFails, SpawnFailsUnrecorded, Known, Account, Opening, Telling, Reply, Idle
  <2>2. /\ ops'[o].state \in {"queued", "failed"} /\ (SpawnFails => ops'[o].state = "failed")
        /\ \A q \in Ops : q # o => ops'[q] = ops[q]
    BY <1>0, <1>8, <2>1 DEF SpawnFails, SpawnFailsUnrecorded, Fail, Types, OpRow
  <2>3. PICK trail \in {<<"queued">>, <<"queued", "failed">>} :
            audits' = [audits EXCEPT ![o] = trail] /\ (trail = <<"queued", "failed">> => ops'[o].state = "failed")
    <3>1. CASE SpawnFails
      <4>1. audits[o] \o <<"queued", "failed">> = <<"queued", "failed">>
        BY <2>1
      <4> QED  BY <1>0, <2>2, <3>1, <4>1 DEF SpawnFails
    <3>2. CASE SpawnFailsUnrecorded
      <4>1. Append(audits[o], "queued") = <<"queued">> /\ <<"queued">> # <<"queued", "failed">>
        BY <2>1
      <4> QED  BY <1>0, <3>2, <4>1 DEF SpawnFailsUnrecorded
    <3> QED  BY <1>8, <3>1, <3>2
  <2>4. /\ trail \in Trail /\ Asked(trail)
        /\ \A i \in Ends(trail) : i = 2 /\ trail[i] = "failed" /\ trail = <<"queued", "failed">>
    <3>1. CASE trail = <<"queued">>
      BY <3>1 DEF Trail, Terminal, Asked, Ends
    <3>2. CASE trail = <<"queued", "failed">>
      <4>1. trail \in Trail /\ DOMAIN trail = {1, 2} /\ trail[1] = "queued" /\ trail[2] = "failed" /\ trail # <<>>
        BY <3>2 DEF Trail, Terminal
      <4> QED  BY <3>2, <4>1 DEF Terminal, Asked, Ends
    <3> QED  BY <2>3, <3>1, <3>2
  <2>5. audits' \in [Ops -> Trail] /\ audits'[o] = trail /\ \A q \in Ops : q # o => audits'[q] = audits[q]
    BY <1>0, <2>1, <2>3, <2>4
  <2>6. Account(o)'
    BY <1>3, <2>1, <2>2, <2>3, <2>4, <2>5, OpenedAccount
  <2>7. \A q \in Ops : q # o => Account(q)'
    BY <1>0, <1>3, <2>1, <2>2, <2>5, QuietAccount DEF SameThread
  <2> QED
    BY <2>5, <2>6, <2>7 DEF Accounts
<1>9. CASE AuditQueuedFails
  <2>1. /\ request.at = "audit" /\ o \in Ops /\ ops[o].state = "queued" /\ request' = Idle
        /\ UNCHANGED worker /\ audits' = audits
    BY <1>0, <1>1, <1>9 DEF AuditQueuedFails, Known, Reply
  <2>2. ~Unloading(o)' /\ ~Telling(o)'
    BY <2>1 DEF Unloading, Telling, Idle
  <2>3. /\ ops'[o].state \in {"queued", "failed"}
        /\ \A q \in Ops : q # o => ops'[q] = ops[q]
    BY <1>0, <1>9, <2>1 DEF AuditQueuedFails, Fail, Types, OpRow
  <2> QED
    BY <1>5, <2>1, <2>2, <2>3 DEF Pending, Terminal
<1>10. CASE UnloadRun
  <2>1. CASE TransitionFails(o, "running", 0) /\ Reply
    BY <1>4, <1>10, <2>1 DEF UnloadRun, TransitionFails, Reply, Idle
  <2>2. CASE Transition(o, "running", 0) /\ request' = [request EXCEPT !.at = "end"]
    <3>1. Unloading(o) /\ ~Telling(o)' /\ UNCHANGED worker
      BY <1>0, <1>10, <2>2 DEF UnloadRun, Unloading, Telling, Types, Call
    <3> QED
      BY <1>1, <1>6, <1>10, <2>2, <3>1 DEF Pending, UnloadRun
  <2> QED
    BY <1>10, <2>1, <2>2 DEF UnloadRun
<1>11. CASE UnloadEnd
  <2>0. PICK to, n :
            /\ to \in {"succeeded", "failed"}
            /\ \/ TransitionFails(o, to, n) /\ Reply
               \/ Transition(o, to, n) /\ request' = [request EXCEPT !.at = "end_audit"]
    BY <1>11 DEF UnloadEnd
  <2>1. CASE TransitionFails(o, to, n) /\ Reply
    BY <1>4, <1>11, <2>1 DEF UnloadEnd, TransitionFails, Reply, Idle
  <2>2. CASE Transition(o, to, n)
    <3>1. Unloading(o) /\ UNCHANGED worker
      BY <1>0, <1>11 DEF UnloadEnd, Unloading
    <3>2. to \in Terminal
      BY <2>0 DEF Terminal
    <3> QED
      BY <1>1, <1>6, <1>11, <2>2, <3>1, <3>2 DEF UnloadEnd
  <2> QED
    BY <2>0, <2>1, <2>2
<1>12. CASE CancelWrite
  <2>1. CASE TransitionFails(o, "cancelled", request.found) /\ Reply
    BY <1>4, <1>12, <2>1 DEF CancelWrite, TransitionFails, Reply, Idle
  <2>2. CASE Transition(o, "cancelled", request.found) /\ request' = [request EXCEPT !.at = "cancel_audit"]
    <3>1. ~Unloading(o)' /\ UNCHANGED worker
      BY <1>0, <1>12, <2>2 DEF CancelWrite, Unloading, Types, Call
    <3> QED
      BY <1>1, <1>6, <1>12, <2>2, <3>1 DEF Terminal, CancelWrite
  <2> QED
    BY <1>12, <2>1, <2>2 DEF CancelWrite
<1>13. CASE UnloadAudit \/ CancelAudit
  <2>1. request' = Idle /\ UNCHANGED worker /\ o \in Ops /\ Telling(o) /\ (Audit(o) \/ AuditFails)
    BY <1>1, <1>13 DEF UnloadAudit, CancelAudit, Reply, Telling
  <2>2. ~Unloading(o)' /\ ~Telling(o)' /\ request'.at = "idle"
    BY <2>1 DEF Unloading, Telling, Idle
  <2>3. CASE AuditFails
    BY <1>4, <2>1, <2>2, <2>3 DEF AuditFails
  <2>4. CASE Audit(o)
    <3>1. ops[o].state \in Terminal /\ worker[o] # "audit"
      BY <1>0, <2>1 DEF Account
    <3>2. /\ audits' \in [Ops -> Trail] /\ audits'[o] = Append(audits[o], ops[o].state) /\ ops' = ops
          /\ \A q \in Ops : q # o => audits'[q] = audits[q]
      BY <2>1, <2>4, <3>1, AuditRows
    <3>3. Account(o)'
      BY <1>0, <1>3, <2>1, <2>2, <3>1, <3>2, ToldAccount
    <3>4. \A q \in Ops : q # o => Account(q)'
      BY <1>0, <1>3, <2>1, <3>2, QuietAccount DEF SameThread
    <3> QED
      BY <3>2, <3>3, <3>4 DEF Accounts
  <2> QED
    BY <2>1, <2>3, <2>4
<1>14. CASE InferEnd
    BY <1>4, <1>14 DEF InferEnd, Reply, Idle
<1> QED
    BY <1>7, <1>8, <1>9, <1>10, <1>11, <1>12, <1>13, <1>14 DEF RequestStep

\* Nothing is told at first.
LEMMA InitAccounts == Init => Accounts
<1> SUFFICES ASSUME Init PROVE Accounts
    OBVIOUS
<1>1. /\ audits \in [Ops -> Trail] /\ \A o \in Ops : audits[o] = <<>>
    BY DEF Init, Trail
<1>2. \A o \in Ops : ops[o].state = "none" /\ worker[o] = "none"
    BY DEF Init, NoRow
<1>3. \A o \in Ops : ~Opening(o) /\ ~Unloading(o) /\ ~Telling(o)
    BY DEF Init, Idle, Opening, Unloading, Telling
<1>4. \A o \in Ops : Ends(audits[o]) = {}
    BY <1>1 DEF Ends
<1> QED
    BY <1>1, <1>2, <1>3, <1>4 DEF Accounts, Account

\* Every step keeps the accounts.
LEMMA NextAccounts == MInv /\ Accounts /\ [Next]_vars => Accounts'
<1> SUFFICES ASSUME MInv, Accounts, [Next]_vars PROVE Accounts'
    OBVIOUS
<1>0. Types /\ Known /\ Down /\ audits \in [Ops -> Trail] /\ \A q \in Ops : Account(q)
    BY DEF MInv, Accounts
<1> USE DEF At, rows, memory, thread, world
<1>1. ASSUME NEW kind \in Kinds, NEW o \in Ops, NEW m \in Models, Accept(kind, o, m) PROVE Accounts'
  <2>1. /\ ops[o].state = "none" /\ worker[o] = "none" /\ UNCHANGED <<audits, worker>>
        /\ \A q \in Ops : q # o => ops'[q] = ops[q]
        /\ ops'[o].state = "queued"
        /\ request'.at = "audit" /\ request'.op = o
    BY <1>0, <1>1 DEF Accept, Insert, Types, Known, NoRow, Idle
  <2>2. \A q \in Ops : ~Unloading(q)' /\ ~Telling(q)' /\ (q # o => ~Opening(q)')
    BY <2>1 DEF Unloading, Telling, Opening
  <2>3. \A q \in Ops : q # o => Account(q)'
    BY <1>0, <2>1, <2>2, QuietAccount DEF NoFurther, SameThread
  <2>4. Account(o)'
    <3>1. audits'[o] = <<>> /\ Ends(audits'[o]) = {}
      BY <1>0, <2>1 DEF Account, Ends
    <3> QED  BY <2>1, <2>2, <3>1 DEF Account
  <2> QED
    BY <1>0, <2>1, <2>3, <2>4 DEF Accounts
<1>10. ASSUME NEW kind \in Kinds, NEW o \in Ops, NEW m \in Models, AcceptUnread(kind, o, m) PROVE Accounts'
  <2>1. /\ ops[o].state = "none" /\ worker[o] = "none" /\ UNCHANGED <<audits, worker, request>>
        /\ \A q \in Ops : q # o => ops'[q] = ops[q]
        /\ ops'[o].state = "queued" /\ request.at = "idle"
    BY <1>0, <1>10 DEF AcceptUnread, Insert, Types, Known, NoRow
  <2>2. \A q \in Ops : ~Unloading(q)' /\ ~Telling(q)' /\ ~Opening(q)'
    BY <2>1 DEF Unloading, Telling, Opening
  <2>3. \A q \in Ops : q # o => Account(q)'
    BY <1>0, <2>1, <2>2, QuietAccount DEF NoFurther, SameThread
  <2>4. Account(o)'
    <3>1. audits'[o] = <<>> /\ Ends(audits'[o]) = {}
      BY <1>0, <2>1 DEF Account, Ends
    <3> QED  BY <2>1, <2>2, <3>1 DEF Account
  <2> QED
    BY <1>0, <2>1, <2>3, <2>4 DEF Accounts
<1>2. ASSUME UNCHANGED <<rows, worker>>, request'.at \in {"idle", "inferring", "cancel"} \/ UNCHANGED request
      PROVE  Accounts'
  <2>1. \A q \in Ops : NoFurther(q) /\ SameThread(q)
    BY <1>2 DEF NoFurther, SameThread, Opening, Unloading, Telling
  <2> QED
    BY <1>0, <1>2, <2>1, QuietAccount DEF Accounts
<1>3. ASSUME NEW o \in Ops, CancelRead(o) PROVE Accounts'
    BY <1>2, <1>3 DEF CancelRead, Idle
<1>4. ASSUME NEW m \in Models, Infer(m) PROVE Accounts'
    BY <1>2, <1>4 DEF Infer, Idle
<1>5. CASE UNCHANGED vars
    BY <1>2, <1>5 DEF vars
<1>6. CASE Crash
  <2>1. \A q \in Ops : NoFurther(q) /\ SameThread(q)
    BY <1>6 DEF Crash, Reply, Idle, NoFurther, SameThread, Opening, Unloading, Telling
  <2> QED
    BY <1>0, <1>6, <2>1, QuietAccount DEF Crash, Accounts
<1>7. CASE Reopen
  <2>1. /\ UNCHANGED <<audits, worker, request>> /\ request.at = "idle"
        /\ \A q \in Ops : IF ops[q].state \in Pending THEN ops'[q].state = "failed" ELSE ops'[q] = ops[q]
    BY <1>0, <1>7 DEF Reopen, Down, Types, OpRow
  <2>2. \A q \in Ops : ~Opening(q)' /\ ~Unloading(q)' /\ ~Telling(q)'
    BY <2>1 DEF Opening, Unloading, Telling
  <2>3. ASSUME NEW q \in Ops PROVE Account(q)'
    <3>1. CASE ops[q].state \in Pending
      BY <1>0, <2>1, <2>2, <3>1, MovedAccount, PendingSilent DEF Terminal
    <3>2. CASE ops[q].state \notin Pending
      BY <1>0, <2>1, <2>2, <3>2, QuietAccount DEF NoFurther, SameThread
    <3> QED  BY <3>1, <3>2
  <2> QED
    BY <1>0, <2>1, <2>3 DEF Accounts
<1>8. ASSUME NEW o \in Ops, WorkerStep(o) PROVE Accounts'
    BY <1>8, WorkerAccounts
<1>9. CASE RequestStep
    BY <1>9, RequestAccounts
<1> QED
    BY <1>1, <1>3, <1>4, <1>5, <1>6, <1>7, <1>8, <1>9, <1>10 DEF Next

\* The audit of an operation that ran says it was asked for, and tells at most one end, which
\* is the one the record has, although a cancellation, a thread and a restart race for it.
THEOREM AuditAlwaysHonest == Spec => []AuditHonest
<1>1. Accounts => AuditHonest
    BY DEF Accounts, Account, AuditHonest, Asked
<1> QED
    BY <1>1, KeysInductive, InitAccounts, NextAccounts, PTL DEF Spec

=============================================================================
