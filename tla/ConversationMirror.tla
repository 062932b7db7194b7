------------------------- MODULE ConversationMirror -------------------------
(***************************************************************************)
(* The conversation identity of one edition: canonical rows in SQLite      *)
(* (src/runtime/store/identity.rs) and the compatibility mirrors that are  *)
(* projected from them through a journal (src/state/conversation.rs,       *)
(* src/state/conversation/clear.rs).                                       *)
(*                                                                         *)
(* Every process that saves, clears or reads takes one advisory lock and   *)
(* recovers the journal first. A step is one durable effect: the atomic    *)
(* replacement of the journal, the SQLite transaction, the replacement or  *)
(* the removal of one mirror. A process may end between any two of them.   *)
(* Between lock and unlock the plan in memory is the one in the journal.   *)
(* An operation that only recovers and then touches neither rows nor       *)
(* mirrors (history, write_model, clear_model, lock_legacy_capture) is one *)
(* that ends in "body" by Abort. The check of ensure_commit_effect inside  *)
(* the clear itself sees the rows its own transaction just wrote.          *)
(***************************************************************************)
EXTENDS FiniteSetsExt, SequencesExt

CONSTANTS Procs, NoProc,
          Ids, NoId,           \* external conversation ids
          Cwds,                \* working directories, each a scope
          ByCwd, CwdFile,      \* files under by-cwd, and cwd_key, which is lossy
          MaxPlans,            \* bound on the plans ever prepared
          MaxHistory,          \* MAX_HISTORY_BYTES, in lines
          MaxEdits             \* bound on foreign writes to the mirrors

Global  == "global"            \* the global scope, and its mirror
Export  == "export"
History == "history"

Scopes  == Cwds \cup {Global}
Files   == ByCwd \cup {Global, Export}

ASSUME FilesAssumption ==
    /\ CwdFile \in [Cwds -> ByCwd]
    /\ {Global, Export, History} \cap (Cwds \cup ByCwd) = {}
    /\ IsFiniteSet(ByCwd)

\* An id is never mistaken for another outcome of a read.
ASSUME NamesAssumption ==
    /\ NoProc \notin Procs /\ NoId \notin Ids
    /\ (Ids \cup {NoId}) \cap {"untracked", "tombstoned", "corrupt", "error"} = {}

ASSUME LimitsAssumption == MaxPlans \in Nat /\ MaxHistory \in Nat \ {0} /\ MaxEdits \in Nat

\* A process that keeps one conversation per working directory works in the scope of
\* its directory (per_cwd, the default), any other in the global scope.
Mirror(s) == IF s = Global THEN Global ELSE CwdFile[s]

VARIABLES
    selection,   \* conversation_identity_scopes; revision 0 stands for no row
    tombstone,   \* conversation_identity_tombstones: revision, 0 for no row
    clearAll,    \* conversation_identity_clear_all: revision, 0 for no row
    marker,      \* the singleton conversation_identity_commit
    receipts,    \* conversation_identity_mutations with their scopes
    mirror,      \* contents of the mirror files
    history,     \* lines of history.log, each the revision of its save
    pending,     \* pending.json
    holder,      \* who holds the journal lock
    pc, call, left,     \* each process: place, operation, targets still to apply
    answer,      \* what the last read_chat returned, and to whom
    tokens, edits

tables == <<selection, tombstone, clearAll, marker, receipts>>
disk   == <<mirror, history>>
local  == <<holder, pc, call, left>>
vars   == <<tables, disk, pending, local, answer, tokens, edits>>

NoMarker == [revision |-> 0]
NoPlan   == [token |-> 0]
NoCall   == [op |-> "none"]
NoAnswer == [result |-> NoId]

-----------------------------------------------------------------------------
(* Scopes and targets of an operation.                                     *)

\* JournalPlan::scopes and ClearPlan::scopes.
PlanScopes(op, s) ==
    CASE op = "save"        -> {s, Global}
      [] op = "clear_scope" -> {s}
      [] op = "clear_all"   -> {}

\* configured_targets_for, current_targets, all_targets: the files of an operation, in
\* the order in which they are projected.
PlanTargets(op, s) ==
    CASE op = "save"        -> (IF s = Global THEN <<>> ELSE <<Mirror(s)>>)
                                   \o <<Global, Export, History>>
      [] op = "clear_scope" -> IF s = Global THEN <<Global, Export>> ELSE <<Mirror(s)>>
      [] op = "clear_all"   -> <<Global, Export>> \o SetToSeq({f \in ByCwd : mirror[f] # NoId})

Snapshot(targets) == [f \in Files \cap Range(targets) |-> mirror[f]]

\* Contents of a target now, when the plan was made, and wanted (desired_bytes): a save
\* writes its id and appends its line to the history it saw, a clear removes.
Current(f)      == IF f = History THEN history ELSE mirror[f]
Before(plan, f) == IF f = History THEN plan.lines ELSE plan.before[f]
Desired(plan, f) == IF f = History THEN Append(plan.lines, marker.revision) ELSE plan.id

\* validate_plan: what it checks and the disk can change is that a clear_all lists every
\* file under by-cwd.
ValidPlan(plan) ==
    plan.op = "clear_all" => \A f \in ByCwd : mirror[f] # NoId => f \in DOMAIN plan.before

\* matches_save_scopes, matches_clear_scopes, matches_clear_all.
Matches(plan) ==
    /\ marker # NoMarker
    /\ marker.op = plan.op /\ marker.scopes = plan.scopes
    /\ marker.id = plan.id /\ marker.token = plan.token

\* The journal holds a plan and the canonical commit marker vouches for it.
Committed == pending # NoPlan /\ Matches(pending)

-----------------------------------------------------------------------------
(* Reading the canonical rows: identity_scope_selection.                   *)

Touches(c, s) == c.op = "clear_all" \/ s \in c.scopes

\* The revision of the latest receipt of one kind for a scope; 0 when there is none.
LatestReceipt(op, s) ==
    Max({0} \cup {c.revision : c \in {x \in receipts : x.op = op /\ Touches(x, s)}})

Larger(a, b) == IF a > b THEN a ELSE b

Untracked  == "untracked"
Tombstoned == "tombstoned"
Corrupt    == "corrupt"

\* The checks that end in CorruptData: a clear or a save whose effect is missing, an
\* effect or a selection without its receipt.
CorruptRows(s) ==
    LET row          == selection[s]
        cleared      == Larger(tombstone[s], clearAll)
        receiptClear == Larger(LatestReceipt("clear_scope", s), LatestReceipt("clear_all", s))
        receiptSave  == LatestReceipt("save", s)
    IN  \/ receiptClear > 0 /\ row.revision <= receiptClear /\ cleared < receiptClear
        \/ receiptSave > receiptClear /\ row.revision < receiptSave
        \/ tombstone[s] > 0 /\ ~ \E c \in receipts : /\ c.op = "clear_scope" /\ s \in c.scopes
                                                     /\ c.revision = tombstone[s]
        \/ clearAll > 0 /\ ~ \E c \in receipts : c.op = "clear_all" /\ c.revision = clearAll
        \/ row.revision > 0 /\ ~ \E c \in receipts : /\ c.op = "save" /\ s \in c.scopes
                                                     /\ c.id = row.id /\ c.revision = row.revision

\* Untracked, Tombstoned, the selected id, or the error.
Selection(s) ==
    LET row     == selection[s]
        cleared == Larger(tombstone[s], clearAll)
    IN  IF CorruptRows(s) THEN Corrupt
        ELSE IF row.revision = 0 THEN (IF cleared > 0 THEN Tombstoned ELSE Untracked)
        ELSE IF cleared >= row.revision THEN Tombstoned
        ELSE row.id

\* Faulty variant: the mirror is believed whatever the rows say.
ResolveUnchecked(s) == mirror[Mirror(s)]

\* read_authoritative_mirror.
Resolve(s) ==
    CASE Selection(s) = Untracked         -> mirror[Mirror(s)]
      [] Selection(s) = Tombstoned        -> NoId
      [] Selection(s) = mirror[Mirror(s)] -> mirror[Mirror(s)]
      [] OTHER                            -> "error"

\* read_chat: the working directory first, then the global mirror.
ReadChat(s) == IF s # Global /\ Resolve(s) # NoId THEN Resolve(s) ELSE Resolve(Global)

\* Faulty variant: other working directories are not asked.
ClearAuthorizedAlone(s) ==
    IF mirror[Mirror(s)] = NoId THEN Selection(s) \in {Untracked, Tombstoned}
    ELSE Selection(s) \in {Untracked, mirror[Mirror(s)]}

\* authorize_clear_scope_candidate: the mirror is the one of the scope, or there is
\* nothing to remove, and no other working directory owns the same identity.
ClearAuthorized(s) ==
    IF mirror[Mirror(s)] = NoId THEN Selection(s) \in {Untracked, Tombstoned}
    ELSE /\ Selection(s) \in {Untracked, mirror[Mirror(s)]}
         /\ s = Global \/ \A o \in Cwds \ {s} : selection[o].id # mirror[Mirror(s)]

-----------------------------------------------------------------------------
(* An operation: lock, recover, prepare, commit, apply, remove.            *)

Labels == {"idle", "recover", "redo", "body", "commit", "apply"}

Goto(p, label) == pc' = [pc EXCEPT ![p] = label]

\* The guard is dropped, by a return, by an error or by the end of the process.
Release(p) ==
    /\ Goto(p, "idle")
    /\ call' = [call EXCEPT ![p] = NoCall]
    /\ left' = [left EXCEPT ![p] = <<>>]
    /\ holder' = NoProc

Calls == [op : {"save"}, scope : Scopes, id : Ids]
             \cup [op : {"clear_scope", "clear_all", "read", "compact"}, scope : Scopes, id : {NoId}]

\* lock_journal blocks until the lock is free.
Begin(p) ==
    /\ pc[p] = "idle"
    /\ holder = NoProc
    /\ holder' = p
    /\ \E c \in Calls : call' = [call EXCEPT ![p] = c]
    /\ Goto(p, "recover")
    /\ answer' = NoAnswer
    /\ UNCHANGED <<tables, disk, pending, left, tokens, edits>>

\* verify_clear_conversation_identity: the rows show the clear of the marker.
ClearEffect(plan) ==
    IF plan.op = "clear_all"
    THEN /\ clearAll = marker.revision
         /\ \A s \in Scopes : selection[s].revision = 0 /\ tombstone[s] = 0
    ELSE \A s \in plan.scopes : selection[s].revision = 0 /\ tombstone[s] = marker.revision

\* recover_pending without a journal, or with a plan the marker does not vouch for:
\* the plan is discarded.
RecoverNothing(p) ==
    /\ pc[p] = "recover"
    /\ pending # NoPlan => ValidPlan(pending)
    /\ ~Committed
    /\ pending' = NoPlan
    /\ Goto(p, "body")
    /\ UNCHANGED <<tables, disk, holder, call, left, answer, tokens, edits>>

\* recover_pending refuses a plan that is not valid, and leaves it.
RecoverRefused(p) ==
    /\ pc[p] = "recover"
    /\ pending # NoPlan /\ ~ValidPlan(pending)
    /\ Release(p)
    /\ UNCHANGED <<tables, disk, pending, answer, tokens, edits>>

\* Faulty variant: recovery forgets the journal before the mirrors are projected.
RecoverCommittedEarly(p) ==
    /\ pc[p] = "recover"
    /\ Committed
    /\ pending' = NoPlan
    /\ Goto(p, "body")
    /\ UNCHANGED <<tables, disk, holder, call, left, answer, tokens, edits>>

\* recover_pending with a committed plan: its projection is resumed.
RecoverCommitted(p) ==
    /\ pc[p] = "recover"
    /\ Committed
    /\ ValidPlan(pending)
    /\ IF pending.op = "save" \/ ClearEffect(pending)
       THEN /\ Goto(p, "redo")
            /\ left' = [left EXCEPT ![p] = pending.targets]
            /\ UNCHANGED <<holder, call>>
       ELSE Release(p)
    /\ UNCHANGED <<tables, disk, pending, answer, tokens, edits>>

\* prepare_plan and write_pending of a save; a history at its limit refuses it.
PrepareSave(p) ==
    /\ pc[p] = "body" /\ call[p].op = "save"
    /\ IF Len(history) < MaxHistory
       THEN /\ tokens < MaxPlans
            /\ tokens' = tokens + 1
            /\ pending' = [op      |-> "save",
                           scopes  |-> PlanScopes("save", call[p].scope),
                           id      |-> call[p].id,
                           token   |-> tokens + 1,
                           targets |-> PlanTargets("save", call[p].scope),
                           before  |-> Snapshot(PlanTargets("save", call[p].scope)),
                           lines   |-> history]
            /\ Goto(p, "commit")
            /\ UNCHANGED <<holder, call, left>>
       ELSE Release(p) /\ UNCHANGED <<pending, tokens>>
    /\ UNCHANGED <<tables, disk, answer, edits>>

\* prepare_plan and write_plan of a clear.
PrepareClear(p) ==
    /\ pc[p] = "body" /\ call[p].op \in {"clear_scope", "clear_all"}
    /\ IF call[p].op = "clear_all" \/ ClearAuthorized(call[p].scope)
       THEN /\ tokens < MaxPlans
            /\ tokens' = tokens + 1
            /\ pending' = [op      |-> call[p].op,
                           scopes  |-> PlanScopes(call[p].op, call[p].scope),
                           id      |-> NoId,
                           token   |-> tokens + 1,
                           targets |-> PlanTargets(call[p].op, call[p].scope),
                           before  |-> Snapshot(PlanTargets(call[p].op, call[p].scope))]
            /\ Goto(p, "commit")
            /\ UNCHANGED <<holder, call, left>>
       ELSE Release(p) /\ UNCHANGED <<pending, tokens>>
    /\ UNCHANGED <<tables, disk, answer, edits>>

\* Faulty variant: replacing the marker leaves the token of the first one.
RecordOldToken(plan) ==
    LET c == [revision |-> marker.revision + 1, op |-> plan.op, scopes |-> plan.scopes,
              id |-> plan.id, token |-> plan.token]
    IN  /\ marker' = IF marker = NoMarker THEN c ELSE [c EXCEPT !.token = marker.token]
        /\ receipts' = receipts \cup {c}

\* The marker and the receipt that every canonical transaction writes.
Record(plan) ==
    LET c == [revision |-> marker.revision + 1, op |-> plan.op, scopes |-> plan.scopes,
              id |-> plan.id, token |-> plan.token]
    IN  marker' = c /\ receipts' = receipts \cup {c}

\* save_conversation_identity.
CommitSave(p) ==
    /\ pc[p] = "commit" /\ pending.op = "save"
    /\ Record(pending)
    /\ selection' = [s \in Scopes |-> IF s \in pending.scopes
                                      THEN [id |-> pending.id, revision |-> marker.revision + 1]
                                      ELSE selection[s]]
    /\ tombstone' = [s \in Scopes |-> IF s \in pending.scopes THEN 0 ELSE tombstone[s]]
    /\ Goto(p, "apply")
    /\ left' = [left EXCEPT ![p] = pending.targets]
    /\ UNCHANGED <<clearAll, disk, pending, holder, call, answer, tokens, edits>>

NoRow == [id |-> NoId, revision |-> 0]

\* Faulty variant: clear_all leaves the rows of single scopes alone.
CommitClearKeepingRows(p) ==
    /\ pc[p] = "commit" /\ pending.op \in {"clear_scope", "clear_all"}
    /\ Record(pending)
    /\ selection' = [s \in Scopes |-> IF s \in pending.scopes THEN NoRow ELSE selection[s]]
    /\ tombstone' = [s \in Scopes |-> IF s \in pending.scopes THEN marker.revision + 1
                                      ELSE tombstone[s]]
    /\ clearAll' = clearAll
    /\ Goto(p, "apply")
    /\ left' = [left EXCEPT ![p] = pending.targets]
    /\ UNCHANGED <<disk, pending, holder, call, answer, tokens, edits>>

\* clear_conversation_identity.
CommitClear(p) ==
    /\ pc[p] = "commit" /\ pending.op \in {"clear_scope", "clear_all"}
    /\ Record(pending)
    /\ LET all == pending.op = "clear_all"
       IN  /\ selection' = [s \in Scopes |-> IF all \/ s \in pending.scopes THEN NoRow
                                             ELSE selection[s]]
           /\ tombstone' = [s \in Scopes |-> IF all THEN 0
                                             ELSE IF s \in pending.scopes THEN marker.revision + 1
                                             ELSE tombstone[s]]
           /\ clearAll' = IF all THEN marker.revision + 1 ELSE clearAll
    /\ Goto(p, "apply")
    /\ left' = [left EXCEPT ![p] = pending.targets]
    /\ UNCHANGED <<disk, pending, holder, call, answer, tokens, edits>>

\* The plan is validated before its first target; no target may have diverged.
Projectable(p) ==
    /\ left[p] = pending.targets => ValidPlan(pending)
    /\ LET f == Head(left[p]) IN Current(f) \in {Before(pending, f), Desired(pending, f)}

\* Faulty variant: the line is appended to whatever the history holds now.
ApplyTargetAgain(p) ==
    /\ pc[p] \in {"redo", "apply"} /\ left[p] # <<>>
    /\ Projectable(p)
    /\ LET f == Head(left[p])
       IN  IF f = History
           THEN history' = Append(history, marker.revision) /\ UNCHANGED mirror
           ELSE mirror' = [mirror EXCEPT ![f] = Desired(pending, f)] /\ UNCHANGED history
    /\ left' = [left EXCEPT ![p] = Tail(@)]
    /\ UNCHANGED <<tables, pending, holder, pc, call, answer, tokens, edits>>

\* apply_committed, one target: one that already has the desired contents is skipped, one
\* that has the contents of the plan is replaced or removed.
ApplyTarget(p) ==
    /\ pc[p] \in {"redo", "apply"} /\ left[p] # <<>>
    /\ Projectable(p)
    /\ LET f == Head(left[p])
       IN  IF f = History
           THEN history' = Desired(pending, f) /\ UNCHANGED mirror
           ELSE mirror' = [mirror EXCEPT ![f] = Desired(pending, f)] /\ UNCHANGED history
    /\ left' = [left EXCEPT ![p] = Tail(@)]
    /\ UNCHANGED <<tables, pending, holder, pc, call, answer, tokens, edits>>

\* A target that has neither is left alone: the operation fails and keeps its journal.
ApplyDiverged(p) ==
    /\ pc[p] \in {"redo", "apply"} /\ left[p] # <<>>
    /\ ~Projectable(p)
    /\ Release(p)
    /\ UNCHANGED <<tables, disk, pending, answer, tokens, edits>>

\* remove_pending: the end of a save or a clear, or of the recovery before an operation.
ApplyDone(p) ==
    /\ pc[p] \in {"redo", "apply"}
    /\ left[p] = <<>>
    /\ pending' = NoPlan
    /\ IF pc[p] = "redo" THEN Goto(p, "body") /\ UNCHANGED <<holder, call, left>> ELSE Release(p)
    /\ UNCHANGED <<tables, disk, answer, tokens, edits>>

Read(p) ==
    /\ pc[p] = "body" /\ call[p].op = "read"
    /\ answer' = [scope |-> call[p].scope, result |-> ReadChat(call[p].scope)]
    /\ Release(p)
    /\ UNCHANGED <<tables, disk, pending, tokens, edits>>

\* compact_history keeps the last lines, at least one.
Compact(p) ==
    /\ pc[p] = "body" /\ call[p].op = "compact"
    /\ \E keep \in 1 .. MaxHistory :
          history' = IF Len(history) <= keep THEN history
                     ELSE SubSeq(history, Len(history) - keep + 1, Len(history))
    /\ Release(p)
    /\ UNCHANGED <<tables, mirror, pending, answer, tokens, edits>>

\* The process ends, or an I/O error ends the operation, anywhere.
Abort(p) ==
    /\ pc[p] # "idle"
    /\ Release(p)
    /\ UNCHANGED <<tables, disk, pending, answer, tokens, edits>>

\* Somebody else writes or removes a mirror, under no lock.
Edit ==
    /\ edits < MaxEdits
    /\ edits' = edits + 1
    /\ \E f \in Files, x \in Ids \cup {NoId} : mirror' = [mirror EXCEPT ![f] = x]
    /\ UNCHANGED <<tables, history, pending, local, answer, tokens>>

-----------------------------------------------------------------------------
\* Mirrors may exist from before the rows did.
Init ==
    /\ selection = [s \in Scopes |-> NoRow]
    /\ tombstone = [s \in Scopes |-> 0]
    /\ clearAll = 0 /\ marker = NoMarker /\ receipts = {}
    /\ mirror \in {m \in [Files -> Ids \cup {NoId}] : m[Export] = m[Global]}
    /\ history = <<>> /\ pending = NoPlan
    /\ holder = NoProc
    /\ pc = [p \in Procs |-> "idle"]
    /\ call = [p \in Procs |-> NoCall]
    /\ left = [p \in Procs |-> <<>>]
    /\ answer = NoAnswer /\ tokens = 0 /\ edits = 0

Step(p) ==
    \/ RecoverNothing(p) \/ RecoverCommitted(p) \/ RecoverRefused(p)
    \/ PrepareSave(p) \/ PrepareClear(p) \/ CommitSave(p) \/ CommitClear(p)
    \/ ApplyTarget(p) \/ ApplyDiverged(p) \/ ApplyDone(p)
    \/ Read(p) \/ Compact(p)

Next == (\E p \in Procs : Begin(p) \/ Step(p) \/ Abort(p)) \/ Edit

Spec == Init /\ [][Next]_vars

-----------------------------------------------------------------------------
(* Properties.                                                             *)

Kinds == {"save", "clear_scope", "clear_all"}

Commits == [revision : Nat \ {0}, op : Kinds, scopes : SUBSET Scopes, id : Ids \cup {NoId},
            token : Nat]

\* Types of the rows, the mirrors and the processes; only the holder of the lock is
\* inside an operation.
TypeOK ==
    /\ selection \in [Scopes -> [id : Ids \cup {NoId}, revision : Nat]]
    /\ tombstone \in [Scopes -> Nat] /\ clearAll \in Nat
    /\ marker \in Commits \cup {NoMarker} /\ receipts \subseteq Commits
    /\ mirror \in [Files -> Ids \cup {NoId}]
    /\ history \in Seq(Nat) /\ Len(history) <= MaxHistory
    /\ holder \in Procs \cup {NoProc}
    /\ pc \in [Procs -> Labels]
    /\ \A p \in Procs : pc[p] # "idle" <=> holder = p
    /\ call \in [Procs -> Calls \cup {NoCall}]
    /\ left \in [Procs -> Seq(Files \cup {History})]
    /\ tokens \in 0 .. MaxPlans /\ edits \in 0 .. MaxEdits

\* A commit is the last one of those that a predicate selects.
IsLatest(c, Selects(_)) ==
    Selects(c) /\ \A d \in receipts : Selects(d) => d.revision <= c.revision

\* The rows that identity_scope_selection combines always say what the log of receipts
\* says: the last mutation of a scope decides, and no sequence of saves and clears makes
\* the rows look corrupt.
RowsFollowReceipts ==
    \A s \in Scopes :
        LET Of(c) == Touches(c, s)
        IN  /\ (\A c \in receipts : ~Of(c)) => Selection(s) = Untracked
            /\ \A c \in receipts :
                  IsLatest(c, Of) => Selection(s) = (IF c.op = "save" THEN c.id ELSE Tombstoned)

\* The mirror files that the projection of a commit writes or removes.
Projects(c, f) ==
    \/ c.op = "clear_all"
    \/ Global \in c.scopes /\ f \in {Global, Export}
    \/ \E s \in c.scopes \cap Cwds : f = CwdFile[s]

\* Wherever processes ended, once no journal is left every mirror shows the last commit
\* that projects onto it: commits are neither lost nor projected in part, and plans that
\* did not commit leave no trace.
MirrorsFollowReceipts ==
    pending = NoPlan /\ edits = 0 =>
        \A f \in Files : LET Onto(c) == Projects(c, f)
                         IN  \A c \in receipts : IsLatest(c, Onto) => mirror[f] = c.id

SaveRevisions == {c.revision : c \in {x \in receipts : x.op = "save"}}

\* "completes exactly marked saves once without duplicating history": the history holds
\* the last saves, each once and in order, and never lacks the most recent one.
HistoryExactlyOnce ==
    pending = NoPlan =>
        /\ \A i, j \in 1 .. Len(history) : i < j => history[i] < history[j]
        /\ \A i \in 1 .. Len(history) : history[i] \in SaveRevisions
        /\ \A r \in SaveRevisions : \/ \E i \in 1 .. Len(history) : history[i] = r
                                    \/ Len(history) > 0 /\ r < history[1]

\* "A mismatched marker proves this prepared plan never committed."
DiscardSafe ==
    pending # NoPlan /\ ~Committed => \A c \in receipts : c.token # pending.token

\* What the receipts say of a scope.
Says(s, x) ==
    LET Of(c) == Touches(c, s)
    IN  IF \A c \in receipts : ~Of(c) THEN x = Untracked
        ELSE \E c \in receipts : IsLatest(c, Of) /\ x = (IF c.op = "save" THEN c.id ELSE Tombstoned)

\* "prevents stale identity resurrection": whatever was written into the mirrors, an id
\* that read_chat returns is the one last saved for the scope that answers, unless that
\* scope was never saved or cleared.
NoResurrection ==
    answer # NoAnswer /\ answer.result \in Ids =>
        \/ Says(answer.scope, answer.result) \/ Says(answer.scope, Untracked)
        \/ /\ Says(answer.scope, Tombstoned)
           /\ Says(Global, answer.result) \/ Says(Global, Untracked)

\* "lossy_cwd_key_collision_never_deletes_another_scope_mirror": a scope clear never
\* removes a file that mirrors the selection of another working directory.
ClearSparesOthers ==
    [][\A f \in ByCwd, o \in Cwds :
          (/\ mirror[f] # NoId /\ mirror'[f] = NoId /\ edits' = edits
           /\ pending.op = "clear_scope" /\ o \notin pending.scopes /\ CwdFile[o] = f)
              => selection[o].revision = 0 \/ selection[o].id # mirror[f]]_vars
=============================================================================
