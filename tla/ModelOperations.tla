--------------------------- MODULE ModelOperations ---------------------------
(***************************************************************************)
(* Downloading, loading, unloading, cancelling and using local models      *)
(* (src/daemon/runtime_v3/model_lifecycle.rs) over their durable operation *)
(* records (src/runtime/store/model_operation.rs).                         *)
(*                                                                         *)
(* Requests are handled one after the other by the daemon's thread, but a  *)
(* download or a load goes on in a thread of its own, and a request and    *)
(* every such thread interleave between any two calls of the store.  The   *)
(* set of active models is the only lock between them.                     *)
(*                                                                         *)
(* The operations left pending are recovered when the store is opened.     *)
(* Here that happens after the process before has ended: nothing is said   *)
(* of a second daemon that opens the store under a live one.               *)
(***************************************************************************)
EXTENDS Naturals, FiniteSets, Sequences

CONSTANTS Ops,         \* operation identifiers
          Models,      \* exact model revisions
          Parts,       \* artifacts of a model
          None,
          Capacity,    \* MAX_MODEL_OPERATIONS
          MaxMishaps,  \* bound: writes that fail and threads that cannot be spawned
          MaxCrashes   \* bound: ends of the process

ASSUME PartsAssumption == Parts \in Nat \ {0}
ASSUME BoundsAssumption == Capacity \in Nat /\ MaxMishaps \in Nat /\ MaxCrashes \in Nat
ASSUME NoneAssumption == None \notin Ops \cup Models

VARIABLES ops,       \* model_operations
          audits,    \* outcomes recorded under v3_model_lifecycle, by operation
          active,    \* models an action is under way for
          loaded,    \* models with a provider in memory
          worker,    \* the background thread of an operation: what it does next
          note,      \* the progress it holds
          request,   \* the request being handled
          up, mishaps, crashes,
          leaked     \* history: keys lost when a thread could not be spawned

rows   == <<ops, audits>>
memory == <<active, loaded>>
thread == <<worker, note>>
world  == <<up, mishaps, crashes, leaked>>
vars   == <<rows, memory, thread, request, world>>

Kinds    == {"download", "load", "unload"}
Pending  == {"queued", "running"}
Terminal == {"succeeded", "failed", "cancelled"}

NoRow == [state |-> "none", kind |-> "none", model |-> None, progress |-> 0]

Row == [state : Pending \cup Terminal, kind : Kinds, model : Models, progress : 0 .. Parts]
       \cup {NoRow}

WorkerPC == {"none", "begin", "fetch", "check", "load", "release_ok", "release_err", "read",
             "finish_ok", "finish_err", "audit", "gone"}

\* Where a thread holds the key of its model.
WorkerHolds == {"begin", "fetch", "check", "load", "release_ok", "release_err"}

Idle == [at |-> "idle", kind |-> "none", op |-> None, model |-> None, found |-> 0]

RequestHolds == {"audit", "run", "end", "end_audit", "inferring"}

RequestPC == RequestHolds \cup {"idle", "cancel", "cancel_audit"}

Records == {o \in Ops : ops[o].state # "none"}

\* The types of the variables, the CHECKs of the table and its capacity.
TypeOK ==
    /\ ops \in [Ops -> Row] /\ Cardinality(Records) <= Capacity
    /\ audits \in [Ops -> Seq({"queued"} \cup Terminal)]
    /\ active \subseteq Models /\ loaded \subseteq Models
    /\ worker \in [Ops -> WorkerPC] /\ note \in [Ops -> 0 .. Parts]
    /\ request.at \in RequestPC
    /\ up \in BOOLEAN
    /\ mishaps \in 0 .. MaxMishaps /\ crashes \in 0 .. MaxCrashes /\ leaked \subseteq Models

-----------------------------------------------------------------------------
(* The store.                                                              *)

Mishaps(n) == mishaps + n <= MaxMishaps /\ mishaps' = mishaps + n

Mishap == Mishaps(1) /\ UNCHANGED <<up, crashes, leaked>>

Permitted(from, to) ==
    \/ from = "queued" /\ to \in {"running", "cancelled", "failed"}
    \/ from = "running" /\ to \in {"running"} \cup Terminal

\* Full progress is 10000 basis points.
Allowed(o, to, progress) ==
    /\ Permitted(ops[o].state, to)
    /\ progress \in ops[o].progress .. Parts
    /\ to = "succeeded" => progress = Parts

Transition(o, to, progress) ==
    /\ Allowed(o, to, progress)
    /\ ops' = [ops EXCEPT ![o].state = to, ![o].progress = progress]
    /\ UNCHANGED <<audits, world>>

\* The state machine refuses, the write fails, or the clock was set back behind the record,
\* which transition_model_operation refuses too.
TransitionFails(o, to, progress) ==
    /\ \/ ~Allowed(o, to, progress) /\ UNCHANGED world
       \/ Mishap
    /\ UNCHANGED rows

Audit(o) ==
    /\ audits' = [audits EXCEPT ![o] = Append(@, ops[o].state)]
    /\ UNCHANGED <<ops, world>>

AuditFails == Mishap /\ UNCHANGED rows

-----------------------------------------------------------------------------
(* Requests.                                                               *)

At(label) == up /\ request.at = label

Reply == request' = Idle

\* acquire_exact; a model that is active is a conflict and nothing changes.
Acquire(m) == m \notin active /\ active' = active \cup {m}

Release(m) == active' = active \ {m}

\* create_model_operation: the insert commits by itself.
Insert(kind, o, m) ==
    /\ ops[o].state = "none" /\ Cardinality(Records) < Capacity
    /\ ops' = [ops EXCEPT ![o] = [NoRow EXCEPT !.state = "queued", !.kind = kind, !.model = m]]
    /\ UNCHANGED audits

\* download, load and unload of an exact revision that the principal may use: the key and
\* the queued record.  When the identifier is used, the table is full or the insert fails,
\* the key is released again.
Accept(kind, o, m) ==
    /\ At("idle") /\ Acquire(m)
    /\ Insert(kind, o, m)
    /\ request' = [Idle EXCEPT !.at = "audit", !.kind = kind, !.op = o, !.model = m]
    /\ UNCHANGED <<loaded, thread, world>>

\* The record is inserted but cannot be read back: the key is released, the error returned,
\* and the record stays queued with nobody at work on it.
AcceptUnread(kind, o, m) ==
    /\ At("idle") /\ m \notin active
    /\ Insert(kind, o, m)
    /\ Mishap
    /\ UNCHANGED <<memory, thread, request>>

\* A download or a load is audited and goes on in a thread of its own.
Spawn ==
    /\ At("audit") /\ request.kind # "unload"
    /\ Audit(request.op)
    /\ worker' = [worker EXCEPT ![request.op] = "begin"]
    /\ Reply
    /\ UNCHANGED <<memory, note>>

Fail(o) == ops' = [ops EXCEPT ![o].state = "failed"]

\* Without the audit start fails the operation if it can, and unload leaves it queued.
AuditQueuedFails ==
    /\ At("audit")
    /\ \/ request.kind # "unload" /\ Mishaps(1) /\ Fail(request.op)
       \/ request.kind # "unload" /\ Mishaps(2) /\ UNCHANGED ops
       \/ request.kind = "unload" /\ Mishaps(1) /\ UNCHANGED ops
    /\ Release(request.model) /\ Reply
    /\ UNCHANGED <<audits, loaded, thread, up, crashes, leaked>>

\* The thread cannot be spawned: the operation fails, is audited and the key is released.
SpawnFails ==
    LET o == request.op
    IN  /\ At("audit") /\ request.kind # "unload"
        /\ Mishap
        /\ Fail(o)
        /\ audits' = [audits EXCEPT ![o] = @ \o <<"queued", "failed">>]
        /\ Release(request.model) /\ Reply
        /\ UNCHANGED <<loaded, thread>>

\* The same, when the failure cannot be recorded or not be audited: the early return keeps
\* the key.
SpawnFailsUnrecorded ==
    LET o == request.op
    IN  /\ At("audit") /\ request.kind # "unload"
        /\ Mishaps(2)
        /\ Fail(o) \/ UNCHANGED ops
        /\ audits' = [audits EXCEPT ![o] = Append(@, "queued")]
        /\ leaked' = leaked \cup {request.model}
        /\ Reply
        /\ UNCHANGED <<memory, thread, up, crashes>>

\* unload goes on in the request.
UnloadAudited ==
    /\ At("audit") /\ request.kind = "unload"
    /\ Audit(request.op)
    /\ request' = [request EXCEPT !.at = "run"]
    /\ UNCHANGED <<memory, thread>>

UnloadRun ==
    /\ At("run")
    /\ \/ /\ Transition(request.op, "running", 0)
          /\ request' = [request EXCEPT !.at = "end"]
          /\ UNCHANGED active
       \/ /\ TransitionFails(request.op, "running", 0)
          /\ Release(request.model) /\ Reply
    /\ UNCHANGED <<loaded, thread>>

\* The provider is dropped, and whether there was one decides how the operation ends.
UnloadEnd ==
    LET found    == request.model \in loaded
        to       == IF found THEN "succeeded" ELSE "failed"
        progress == IF found THEN Parts ELSE 0
    IN  /\ At("end")
        /\ loaded' = loaded \ {request.model}
        /\ \/ /\ Transition(request.op, to, progress)
              /\ request' = [request EXCEPT !.at = "end_audit"]
              /\ UNCHANGED active
           \/ /\ TransitionFails(request.op, to, progress)
              /\ Release(request.model) /\ Reply
        /\ UNCHANGED thread

UnloadAudit ==
    /\ At("end_audit")
    /\ Audit(request.op) \/ AuditFails
    /\ Release(request.model) /\ Reply
    /\ UNCHANGED <<loaded, thread>>

\* cancel: it reads the progress, and writes it back with the new state.
CancelRead(o) ==
    /\ At("idle") /\ o \in Records
    /\ request' = [Idle EXCEPT !.at = "cancel", !.op = o, !.found = ops[o].progress]
    /\ UNCHANGED <<rows, memory, thread, world>>

\* Faulty variant: the model is free again once its operation is cancelled.
CancelWriteReleases ==
    /\ At("cancel")
    /\ \/ /\ Transition(request.op, "cancelled", request.found)
          /\ request' = [request EXCEPT !.at = "cancel_audit"]
          /\ Release(ops[request.op].model)
       \/ TransitionFails(request.op, "cancelled", request.found) /\ Reply /\ UNCHANGED active
    /\ UNCHANGED <<loaded, thread>>

CancelWrite ==
    /\ At("cancel")
    /\ \/ /\ Transition(request.op, "cancelled", request.found)
          /\ request' = [request EXCEPT !.at = "cancel_audit"]
       \/ TransitionFails(request.op, "cancelled", request.found) /\ Reply
    /\ UNCHANGED <<memory, thread>>

CancelAudit ==
    /\ At("cancel_audit")
    /\ Audit(request.op) \/ AuditFails
    /\ Reply
    /\ UNCHANGED <<memory, thread>>

\* infer, under the same key; without a provider the key is released at once. Of the
\* inference only its key is modelled: its answer and its own audit row, which belong to no
\* operation, are not.
Infer(m) ==
    /\ At("idle") /\ Acquire(m)
    /\ m \in loaded
    /\ request' = [Idle EXCEPT !.at = "inferring", !.model = m]
    /\ UNCHANGED <<rows, loaded, thread, world>>

InferEnd ==
    /\ At("inferring")
    /\ Release(request.model) /\ Reply
    /\ UNCHANGED <<rows, loaded, thread, world>>

-----------------------------------------------------------------------------
(* Background threads.                                                     *)

Works(o, label) == up /\ worker[o] = label

Goes(o, label) == worker' = [worker EXCEPT ![o] = label]

Forget(o) == note' = [note EXCEPT ![o] = 0]

\* The first step of download_all and of load_exact.
Begin(o) ==
    /\ Works(o, "begin")
    /\ \/ /\ Transition(o, "running", 0)
          /\ Goes(o, IF ops[o].kind = "download" THEN "fetch" ELSE "check")
       \/ TransitionFails(o, "running", 0) /\ Goes(o, "release_err")
    /\ UNCHANGED <<memory, note, request>>

\* One artifact is there and the progress is recorded.
Fetch(o) ==
    /\ Works(o, "fetch")
    /\ \/ /\ Transition(o, "running", note[o] + 1)
          /\ note' = [note EXCEPT ![o] = @ + 1]
          /\ Goes(o, IF note[o] + 1 = Parts THEN "release_ok" ELSE "fetch")
       \/ TransitionFails(o, "running", note[o] + 1) /\ Goes(o, "release_err") /\ UNCHANGED note
    /\ UNCHANGED <<memory, request>>

Check(o) ==
    /\ Works(o, "check")
    /\ Goes(o, IF ops[o].model \in loaded THEN "release_err" ELSE "load")
    /\ UNCHANGED <<rows, memory, note, request, world>>

\* LocalModelProvider::load returns and its provider is inserted.
Load(o) ==
    /\ Works(o, "load")
    /\ loaded' = loaded \cup {ops[o].model}
    /\ Goes(o, "release_ok")
    /\ UNCHANGED <<rows, active, note, request, world>>

\* The artifact cannot be fetched, or the model not be loaded.
WorkFails(o) ==
    /\ Works(o, "fetch") \/ Works(o, "load")
    /\ Goes(o, "release_err")
    /\ UNCHANGED <<rows, memory, note, request, world>>

\* Faulty variant: the key is released only after success.
ReleaseOnSuccess(o) ==
    /\ \/ Works(o, "release_ok") /\ Goes(o, "finish_ok") /\ Release(ops[o].model)
       \/ Works(o, "release_err") /\ Goes(o, "read") /\ UNCHANGED active
    /\ UNCHANGED <<rows, loaded, note, request, world>>

\* run_download and run_load release the key before the record ends.
ReleaseKey(o) ==
    /\ \/ Works(o, "release_ok") /\ Goes(o, "finish_ok")
       \/ Works(o, "release_err") /\ Goes(o, "read")
    /\ Release(ops[o].model) /\ Forget(o)
    /\ UNCHANGED <<rows, loaded, request, world>>

\* Faulty variant: a failure is recorded without progress.
ReadNothing(o) ==
    /\ Works(o, "read") /\ Goes(o, "finish_err")
    /\ note' = [note EXCEPT ![o] = 0]
    /\ UNCHANGED <<rows, memory, request, world>>

\* finish_background: the progress of a failure is read again, or zero if that fails.
ReadProgress(o) ==
    /\ Works(o, "read") /\ Goes(o, "finish_err")
    /\ \/ note' = [note EXCEPT ![o] = ops[o].progress] /\ UNCHANGED world
       \/ note' = [note EXCEPT ![o] = 0] /\ Mishap
    /\ UNCHANGED <<rows, memory, request>>

\* Faulty variant: an end that is refused is audited all the same.
FinishAudited(o) ==
    /\ \/ /\ Works(o, "finish_ok")
          /\ Transition(o, "succeeded", Parts) \/ TransitionFails(o, "succeeded", Parts)
       \/ /\ Works(o, "finish_err")
          /\ Transition(o, "failed", note[o]) \/ TransitionFails(o, "failed", note[o])
    /\ Goes(o, "audit")
    /\ UNCHANGED <<memory, note, request>>

Finish(o) ==
    /\ \/ /\ Works(o, "finish_ok")
          /\ \/ Transition(o, "succeeded", Parts) /\ Goes(o, "audit")
             \/ TransitionFails(o, "succeeded", Parts) /\ Goes(o, "gone")
       \/ /\ Works(o, "finish_err")
          /\ \/ Transition(o, "failed", note[o]) /\ Goes(o, "audit")
             \/ TransitionFails(o, "failed", note[o]) /\ Goes(o, "gone")
    /\ Forget(o)
    /\ UNCHANGED <<memory, request>>

AuditEnd(o) ==
    /\ Works(o, "audit") /\ Goes(o, "gone")
    /\ Audit(o) \/ AuditFails
    /\ UNCHANGED <<memory, note, request>>

-----------------------------------------------------------------------------
(* The process.                                                            *)

Crash ==
    /\ up /\ up' = FALSE
    /\ crashes < MaxCrashes /\ crashes' = crashes + 1
    /\ active' = {} /\ loaded' = {} /\ leaked' = {}
    /\ worker' = [o \in Ops |-> IF worker[o] = "none" THEN "none" ELSE "gone"]
    /\ note' = [o \in Ops |-> 0]
    /\ Reply
    /\ UNCHANGED <<rows, mishaps>>

\* Faulty variant: every record that did not succeed.
ReopenAllFailed ==
    /\ ~up /\ up' = TRUE
    /\ ops' = [o \in Ops |-> IF ops[o].state \in Pending \cup {"cancelled"}
                             THEN [ops[o] EXCEPT !.state = "failed"] ELSE ops[o]]
    /\ UNCHANGED <<audits, memory, thread, request, mishaps, crashes, leaked>>

\* recover_incomplete_on.
Reopen ==
    /\ ~up /\ up' = TRUE
    /\ ops' = [o \in Ops |-> IF ops[o].state \in Pending
                             THEN [ops[o] EXCEPT !.state = "failed"] ELSE ops[o]]
    /\ UNCHANGED <<audits, memory, thread, request, mishaps, crashes, leaked>>

-----------------------------------------------------------------------------
Init ==
    /\ ops = [o \in Ops |-> NoRow] /\ audits = [o \in Ops |-> <<>>]
    /\ active = {} /\ loaded = {}
    /\ worker = [o \in Ops |-> "none"] /\ note = [o \in Ops |-> 0]
    /\ request = Idle
    /\ up = TRUE /\ mishaps = 0 /\ crashes = 0 /\ leaked = {}

WorkerStep(o) ==
    \/ Begin(o) \/ Fetch(o) \/ Check(o) \/ Load(o) \/ WorkFails(o)
    \/ ReleaseKey(o) \/ ReadProgress(o) \/ Finish(o) \/ AuditEnd(o)

RequestStep ==
    \/ Spawn \/ SpawnFails \/ SpawnFailsUnrecorded \/ AuditQueuedFails
    \/ UnloadAudited \/ UnloadRun \/ UnloadEnd \/ UnloadAudit
    \/ CancelWrite \/ CancelAudit \/ InferEnd

Next ==
    \/ \E kind \in Kinds, o \in Ops, m \in Models :
          Accept(kind, o, m) \/ AcceptUnread(kind, o, m)
    \/ \E o \in Ops : CancelRead(o) \/ WorkerStep(o)
    \/ \E m \in Models : Infer(m)
    \/ RequestStep
    \/ Crash \/ Reopen

Spec == Init /\ [][Next]_vars

\* The daemon's thread finishes the request it handles and every background thread is
\* scheduled; downloads and loads end one way or the other.
Fairness == WF_vars(RequestStep) /\ \A o \in Ops : WF_vars(WorkerStep(o))

FairSpec == Spec /\ Fairness

-----------------------------------------------------------------------------
\* Who is at work on a model under its key.
Holders(m) ==
    {o \in Ops : worker[o] \in WorkerHolds /\ ops[o].model = m}
        \cup (IF request.at \in RequestHolds /\ request.model = m THEN {None} ELSE {})

\* Downloads, loads, unloads and inferences of one model take turns, although an operation
\* can be cancelled while its thread goes on, and no key is kept by nobody, except the one
\* that is lost when a thread could not be spawned and that could not be recorded.
KeysHeld ==
    \A m \in Models :
        /\ \A x, y \in Holders(m) : x = y
        /\ m \in active <=> Holders(m) # {} \/ m \in leaked

\* A load never replaces a provider: what load_exact saw when it looked is still true when it
\* inserts.
LoadsOnce == \A o \in Ops : worker[o] = "load" => ops[o].model \notin loaded

\* The entries of an operation's audit that tell of an end.
Ends(trail) == {i \in DOMAIN trail : trail[i] \in Terminal}

\* The audit tells of an operation that ran that it was asked for, and at most one end; the
\* end it tells is the end of the record, whoever won the race for it.
AuditHonest ==
    \A o \in Ops :
        /\ ops[o].state \in {"running", "succeeded"} => audits[o] # <<>> /\ audits[o][1] = "queued"
        /\ \A i, j \in Ends(audits[o]) : i = j
        /\ \A i \in Ends(audits[o]) : audits[o][i] = ops[o].state

\* What a step may do to the records that are there.
Forward ==
    \A o \in Records :
        /\ ops'[o].kind = ops[o].kind /\ ops'[o].model = ops[o].model
        /\ ops'[o].progress >= ops[o].progress
        /\ ops[o].state \in Terminal => ops'[o] = ops[o]

\* An end is final, progress never goes back and an identifier is never used again, across
\* cancellations, late threads and restarts.
LedgerMonotone == [][Forward]_vars

\* Every operation ends: unless a write or a thread failed, a record is not left
\* pending by a daemon that stays up, and a restarted one does not leave it pending either.
OperationsEnd ==
    \A o \in Ops : ops[o].state \in Pending ~> ops[o].state \in Terminal \/ ~up \/ mishaps > 0

\* No model stays locked, except the one that SpawnFailsUnrecorded leaves locked until a
\* restart: its key is lost, and this property exempts it.
KeysReturn == \A m \in Models : m \in active ~> m \notin active \/ m \in leaked
=============================================================================
