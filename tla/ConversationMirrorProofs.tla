---------------------- MODULE ConversationMirrorProofs ----------------------
(***************************************************************************)
(* What holds of the canonical rows, the journal, the mirrors and the      *)
(* history, proved for any number of processes, plans, scopes and edits.   *)
(*                                                                         *)
(* TokenInv. A process about to commit must know that its token is fresh.  *)
(* Tokens are handed out in order, a journal always holds the last one,    *)
(* and only the holder of the lock is inside an operation, so nobody else  *)
(* prepares or commits in between.                                         *)
(*                                                                         *)
(* RowsInv. The rows of a scope are the ones its last mutation writes.     *)
(*                                                                         *)
(* JournalInv. A plan lists the files its commit projects onto, and what   *)
(* a process still has to apply is part of it.                             *)
(*                                                                         *)
(* MirrorsShow, HistoryKept. Every file outside a committed plan shows its *)
(* last commit; a target that has been dealt with shows the plan; the      *)
(* lines in the plan are the history without the save it commits.          *)
(***************************************************************************)
EXTENDS ConversationMirror, FiniteSetTheorems, TLAPS

Revisions == marker.revision \in Nat

\* Only the holder of the lock is inside an operation.
Locked == pc \in [Procs -> Labels] /\ \A p \in Procs : pc[p] # "idle" => holder = p

\* No receipt has a token that was not handed out; the journal has the last one.
TokensOrdered ==
    /\ tokens \in Nat
    /\ \A c \in receipts : c.token \in Nat /\ c.token <= tokens
    /\ pending # NoPlan => pending.token = tokens

\* The journal is empty in the body of an operation; before the commit its token is new.
JournalOf(p) ==
    /\ pc[p] = "body" => pending = NoPlan
    /\ pc[p] = "commit" => pending # NoPlan /\ \A c \in receipts : c.token < pending.token

TokenInv ==
    /\ Revisions
    /\ Locked
    /\ TokensOrdered
    /\ \A p \in Procs : JournalOf(p)
    /\ DiscardSafe

LEMMA TokenInvInit == Init => TokenInv
<1> SUFFICES ASSUME Init PROVE TokenInv
  OBVIOUS
<1>1. Revisions /\ TokensOrdered /\ DiscardSafe
  BY DEF Init, Revisions, TokensOrdered, DiscardSafe, NoMarker
<1>2. Locked
  BY DEF Init, Locked, Labels
<1>3. \A p \in Procs : JournalOf(p)
  BY DEF Init, JournalOf
<1> QED BY <1>1, <1>2, <1>3 DEF TokenInv

Quiet == UNCHANGED <<marker, receipts, pending, tokens>>

\* A step that leaves the rows, the journal and the tokens alone, by the holder of the
\* lock or by one that takes or releases it.
LEMMA QuietStep ==
  ASSUME TokenInv, NEW p \in Procs, Quiet,
         NEW l \in Labels, l \notin {"body", "commit"} \/ l = pc[p],
         pc' = [pc EXCEPT ![p] = l],
         \/ holder' = holder /\ holder = p
         \/ holder' = p /\ holder = NoProc
         \/ l = "idle" /\ holder = p
  PROVE  TokenInv'
<1> USE DEF TokenInv, Quiet
<1>1. Revisions' /\ TokensOrdered' /\ DiscardSafe'
  BY DEF Revisions, TokensOrdered, DiscardSafe, Committed, Matches
<1>2. Locked'
  BY NamesAssumption DEF Locked, Labels
<1>3. ASSUME NEW q \in Procs PROVE JournalOf(q)'
  BY DEF JournalOf, Locked
<1> QED BY <1>1, <1>2, <1>3

LEMMA LeaveStep ==
  ASSUME TokenInv, NEW p \in Procs, pc[p] # "idle", Quiet, Release(p)
  PROVE  TokenInv'
<1>1. pc' = [pc EXCEPT ![p] = "idle"] /\ holder = p
  BY DEF Release, Goto, TokenInv, Locked
<1> QED BY <1>1, QuietStep DEF Labels

LEMMA EnterStep ==
  ASSUME TokenInv, NEW p \in Procs, Quiet, NEW l \in {"recover", "redo", "apply"},
         Goto(p, l), holder' = p, holder \in {p, NoProc}
  PROVE  TokenInv'
<1>1. pc' = [pc EXCEPT ![p] = l] /\ l \in Labels /\ l \notin {"body", "commit"}
  BY DEF Goto, Labels
<1> QED BY <1>1, QuietStep DEF Labels

\* A step that removes the journal.
LEMMA RemoveStep ==
  ASSUME TokenInv, NEW p \in Procs, UNCHANGED <<marker, receipts, tokens>>, pending' = NoPlan,
         holder = p, NEW l \in {"body", "idle"}, pc' = [pc EXCEPT ![p] = l],
         holder' = p \/ l = "idle"
  PROVE  TokenInv'
<1> USE DEF TokenInv
<1>1. Revisions' /\ TokensOrdered' /\ DiscardSafe'
  BY DEF Revisions, TokensOrdered, DiscardSafe
<1>2. Locked'
  BY DEF Locked, Labels
<1>3. ASSUME NEW q \in Procs PROVE JournalOf(q)'
  BY DEF JournalOf, Locked
<1> QED BY <1>1, <1>2, <1>3

\* A step that writes a new plan into the empty journal.
LEMMA PrepareStep ==
  ASSUME TokenInv, NEW p \in Procs, UNCHANGED <<marker, receipts, holder>>, holder = p,
         tokens' = tokens + 1, pending'.token = tokens + 1, pc' = [pc EXCEPT ![p] = "commit"]
  PROVE  TokenInv'
<1> USE DEF TokenInv
<1>1. pending' # NoPlan
  BY DEF NoPlan, TokensOrdered
<1>2. \A c \in receipts' : c.token < pending'.token
  BY DEF TokensOrdered
<1>3. Revisions' /\ TokensOrdered' /\ DiscardSafe'
  BY <1>1, <1>2 DEF Revisions, TokensOrdered, DiscardSafe
<1>4. Locked'
  BY DEF Locked, Labels
<1>5. ASSUME NEW q \in Procs PROVE JournalOf(q)'
  BY <1>1, <1>2 DEF JournalOf, Locked
<1> QED BY <1>3, <1>4, <1>5

\* A canonical transaction: the marker vouches for the journal from now on.
LEMMA RecordStep ==
  ASSUME TokenInv, NEW p \in Procs, UNCHANGED <<pending, tokens, holder>>,
         pc[p] = "commit", pc' = [pc EXCEPT ![p] = "apply"], Record(pending)
  PROVE  TokenInv'
<1> DEFINE c == [revision |-> marker.revision + 1, op |-> pending.op, scopes |-> pending.scopes,
                 id |-> pending.id, token |-> pending.token]
<1> USE DEF TokenInv
<1>1. marker' = c /\ receipts' = receipts \cup {c}
  BY DEF Record
<1>2. pending # NoPlan /\ pending.token = tokens
  BY DEF JournalOf, TokensOrdered
<1>3. Revisions'
  BY <1>1 DEF Revisions
<1>4. TokensOrdered'
  BY <1>1, <1>2 DEF TokensOrdered
<1>5. DiscardSafe'
  <2>1. marker' # NoMarker
    BY <1>1 DEF Revisions, NoMarker
  <2>2. Committed'
    BY <1>1, <1>2, <2>1 DEF Committed, Matches
  <2> QED BY <2>2 DEF DiscardSafe
<1>6. Locked'
  BY DEF Locked, Labels
<1>7. ASSUME NEW q \in Procs PROVE JournalOf(q)'
  BY DEF JournalOf, Locked
<1> QED BY <1>3, <1>4, <1>5, <1>6, <1>7

\* One step per action.
LEMMA TokenInvStep == TokenInv /\ [Next]_vars => TokenInv'
<1> SUFFICES ASSUME TokenInv, [Next]_vars PROVE TokenInv'
  OBVIOUS
<1>0. pc \in [Procs -> Labels] /\ \A p \in Procs : pc[p] # "idle" => holder = p
  BY DEF TokenInv, Locked
<1>1. ASSUME NEW p \in Procs, Begin(p) PROVE TokenInv'
  <2>1. Quiet /\ Goto(p, "recover") /\ holder' = p /\ holder = NoProc
    BY <1>1 DEF Begin, Quiet, tables
  <2> QED BY <2>1, EnterStep
<1>2. ASSUME NEW p \in Procs, RecoverNothing(p) PROVE TokenInv'
  <2>1. /\ UNCHANGED <<marker, receipts, tokens, holder>> /\ pending' = NoPlan
        /\ pc' = [pc EXCEPT ![p] = "body"] /\ holder = p
    BY <1>0, <1>2 DEF RecoverNothing, Goto, tables
  <2> QED BY <2>1, RemoveStep
<1>3. ASSUME NEW p \in Procs, RecoverCommitted(p) PROVE TokenInv'
  <2>1. Quiet /\ pc[p] # "idle" /\ holder = p
    BY <1>0, <1>3 DEF RecoverCommitted, Quiet, tables
  <2>2. CASE Goto(p, "redo") /\ UNCHANGED holder
    BY <2>1, <2>2, EnterStep
  <2>3. CASE Release(p)
    BY <2>1, <2>3, LeaveStep
  <2> QED BY <1>3, <2>2, <2>3 DEF RecoverCommitted
<1>4. ASSUME NEW p \in Procs, RecoverRefused(p) PROVE TokenInv'
  BY <1>4, LeaveStep DEF RecoverRefused, Quiet, tables
<1>5. ASSUME NEW p \in Procs, PrepareSave(p) PROVE TokenInv'
  <2>1. UNCHANGED <<marker, receipts>> /\ pc[p] # "idle" /\ holder = p
    BY <1>0, <1>5 DEF PrepareSave, tables
  <2>2. CASE Len(history) < MaxHistory
    <3>1. /\ tokens' = tokens + 1 /\ pending'.token = tokens + 1 /\ UNCHANGED holder
          /\ pc' = [pc EXCEPT ![p] = "commit"]
      BY <1>5, <2>2 DEF PrepareSave, Goto
    <3> QED BY <2>1, <3>1, PrepareStep
  <2>3. CASE ~(Len(history) < MaxHistory)
    BY <1>5, <2>1, <2>3, LeaveStep DEF PrepareSave, Quiet
  <2> QED BY <2>2, <2>3
<1>6. ASSUME NEW p \in Procs, PrepareClear(p) PROVE TokenInv'
  <2> DEFINE ok == call[p].op = "clear_all" \/ ClearAuthorized(call[p].scope)
  <2>1. UNCHANGED <<marker, receipts>> /\ pc[p] # "idle" /\ holder = p
    BY <1>0, <1>6 DEF PrepareClear, tables
  <2>2. CASE ok
    <3>1. /\ tokens' = tokens + 1 /\ pending'.token = tokens + 1 /\ UNCHANGED holder
          /\ pc' = [pc EXCEPT ![p] = "commit"]
      BY <1>6, <2>2 DEF PrepareClear, Goto
    <3> QED BY <2>1, <3>1, PrepareStep
  <2>3. CASE ~ok
    BY <1>6, <2>1, <2>3, LeaveStep DEF PrepareClear, Quiet
  <2> QED BY <2>2, <2>3
<1>7. ASSUME NEW p \in Procs, CommitSave(p) PROVE TokenInv'
  BY <1>7, RecordStep DEF CommitSave, Goto
<1>8. ASSUME NEW p \in Procs, CommitClear(p) PROVE TokenInv'
  BY <1>8, RecordStep DEF CommitClear, Goto
<1>9. ASSUME NEW p \in Procs, ApplyTarget(p) PROVE TokenInv'
  <2>1. UNCHANGED <<tables, pending, tokens, holder, pc>>
    BY <1>9 DEF ApplyTarget
  <2> QED BY <2>1 DEF TokenInv, Revisions, Locked, TokensOrdered, JournalOf, DiscardSafe,
                      Committed, Matches, tables
<1>10. ASSUME NEW p \in Procs, ApplyDiverged(p) PROVE TokenInv'
  BY <1>10, LeaveStep DEF ApplyDiverged, Quiet, tables
<1>11. ASSUME NEW p \in Procs, ApplyDone(p) PROVE TokenInv'
  <2>1. UNCHANGED <<marker, receipts, tokens>> /\ pending' = NoPlan /\ holder = p
    BY <1>0, <1>11 DEF ApplyDone, tables
  <2>2. CASE pc[p] = "redo"
    <3>1. pc' = [pc EXCEPT ![p] = "body"] /\ holder' = p
      BY <1>11, <2>1, <2>2 DEF ApplyDone, Goto
    <3> QED BY <2>1, <3>1, RemoveStep
  <2>3. CASE pc[p] # "redo"
    <3>1. pc' = [pc EXCEPT ![p] = "idle"]
      BY <1>11, <2>3 DEF ApplyDone, Release, Goto
    <3> QED BY <2>1, <3>1, RemoveStep
  <2> QED BY <2>2, <2>3
<1>12. ASSUME NEW p \in Procs, Read(p) PROVE TokenInv'
  BY <1>12, LeaveStep DEF Read, Quiet, tables
<1>13. ASSUME NEW p \in Procs, Compact(p) PROVE TokenInv'
  BY <1>13, LeaveStep DEF Compact, Quiet, tables
<1>14. ASSUME NEW p \in Procs, Abort(p) PROVE TokenInv'
  BY <1>14, LeaveStep DEF Abort, Quiet, tables
<1>15. CASE Edit \/ UNCHANGED vars
  <2>1. UNCHANGED <<tables, pending, tokens, holder, pc>>
    BY <1>15 DEF Edit, vars, local
  <2> QED BY <2>1 DEF TokenInv, Revisions, Locked, TokensOrdered, JournalOf, DiscardSafe,
                      Committed, Matches, tables
<1> QED
  BY <1>1, <1>2, <1>3, <1>4, <1>5, <1>6, <1>7, <1>8, <1>9, <1>10, <1>11, <1>12, <1>13,
     <1>14, <1>15 DEF Next, Step

\* recover_pending never discards a plan that committed: while the journal holds a plan
\* that the marker does not match, no receipt carries its token, whatever processes end
\* where and whatever is written into the mirrors.
THEOREM DiscardIsSafe == Spec => []DiscardSafe
<1>1. Spec => []TokenInv
  BY TokenInvInit, TokenInvStep, PTL DEF Spec
<1>2. TokenInv => DiscardSafe
  BY DEF TokenInv
<1> QED BY <1>1, <1>2, PTL
-----------------------------------------------------------------------------
(* The log of receipts, and what the rows of a scope owe it.               *)

Log ==
    /\ \A c \in receipts : /\ c.revision \in Nat \ {0} /\ c.revision <= marker.revision
                           /\ c.op \in Kinds
                           /\ c.op = "save" => c.id \in Ids
    /\ \A c, d \in receipts : c.revision = d.revision => c = d
    /\ marker # NoMarker => marker \in receipts

LastOf(c, s) == Touches(c, s) /\ \A d \in receipts : Touches(d, s) => d.revision <= c.revision

\* The rows of a scope are those that its last mutation writes.
RowsBy(c, s) ==
    /\ c.op = "save" => /\ selection[s].id = c.id /\ selection[s].revision = c.revision
                        /\ tombstone[s] = 0 /\ clearAll < c.revision
    /\ c.op = "clear_scope" => selection[s].revision = 0 /\ tombstone[s] = c.revision /\ clearAll < c.revision
    /\ c.op = "clear_all" => selection[s].revision = 0 /\ tombstone[s] = 0 /\ clearAll = c.revision

Untouched(s) ==
    /\ \A c \in receipts : ~Touches(c, s)
    /\ selection[s].revision = 0 /\ tombstone[s] = 0 /\ clearAll = 0

RowsOf(s) == Untouched(s) \/ \E c \in receipts : LastOf(c, s) /\ RowsBy(c, s)

ClearedAll == clearAll \in Nat /\ (clearAll > 0 => \E c \in receipts : c.op = "clear_all" /\ c.revision = clearAll)

\* LatestReceipt is the maximum of a set that has one.
Found(op, s) == {0} \cup {c.revision : c \in {x \in receipts : x.op = op /\ Touches(x, s)}}

HasLatest(op, s) == \E m \in Found(op, s) : \A n \in Found(op, s) : n <= m

RowsInv ==
    /\ Log /\ ClearedAll
    /\ \A s \in Scopes : RowsOf(s)
    /\ \A s \in Scopes, op \in Kinds : HasLatest(op, s)

-----------------------------------------------------------------------------
(* What a plan in the journal says, and how far its projection is.         *)

Targets == Range(pending.targets)

Plan ==
    pending # NoPlan =>
        /\ pending.op \in Kinds
        /\ IF pending.op = "save" THEN pending.id \in Ids ELSE pending.id = NoId
        /\ pending.targets \in Seq(Files \cup {History})
        /\ (History \in Targets) <=> (pending.op = "save")
        /\ \A f \in Files : /\ f \in Targets => Projects(pending, f)
                            /\ Projects(pending, f) /\ pending.op # "clear_all" => f \in Targets
        /\ \A f \in Files \cap Targets : f \in DOMAIN pending.before

\* Others own no mirror that a scope clear removes.
Spared ==
    pending # NoPlan /\ pending.op = "clear_scope" =>
        \A f \in ByCwd \cap Targets : pending.before[f] # NoId =>
            \A o \in Cwds \ pending.scopes : selection[o].id # pending.before[f]

Projecting(p) ==
    pc[p] \in {"redo", "apply"} =>
        /\ Committed
        /\ left[p] \in Seq(Files \cup {History}) /\ Range(left[p]) \subseteq Targets

InCall ==
    /\ DOMAIN call = Procs /\ DOMAIN left = Procs
    /\ \A p \in Procs : pc[p] # "idle" => call[p] \in Calls

\* A mirror shows the last commit that projects onto it.
ShowsLast(f) ==
    \A c \in receipts :
        Projects(c, f) /\ (\A d \in receipts : Projects(d, f) => d.revision <= c.revision) => mirror[f] = c.id

\* Those that the committed plan does not project onto do.
OthersShow == \A f \in Files : ~Committed \/ f \notin Targets => ShowsLast(f)

\* The targets that have been dealt with are as desired.
AppliedShow ==
    \A p \in Procs : pc[p] \in {"redo", "apply"} =>
        \A f \in Files \cap Targets : f \in Range(left[p]) \/ mirror[f] = pending.id

\* A clear of everything overlooks nothing.
NoneOverlooked ==
    pending # NoPlan /\ pending.op = "clear_all" => \A f \in Files \ Targets : mirror[f] = NoId

MirrorsShow ==
    /\ DOMAIN mirror = Files /\ edits \in Nat
    /\ edits = 0 => OthersShow /\ AppliedShow /\ NoneOverlooked

\* A history that holds the last of some saves, each once and in order.
Faithful(h, saves) ==
    /\ h \in Seq(Nat)
    /\ \A i, j \in 1 .. Len(h) : i < j => h[i] < h[j]
    /\ \A i \in 1 .. Len(h) : h[i] \in saves
    /\ \A r \in saves : (\E i \in 1 .. Len(h) : h[i] = r) \/ (Len(h) > 0 /\ r < h[1])

HistoryKept ==
    /\ ~Committed \/ pending.op # "save" => Faithful(history, SaveRevisions)
    /\ Committed /\ pending.op = "save" => Faithful(pending.lines, SaveRevisions \ {marker.revision})
    /\ pending # NoPlan /\ ~Committed /\ pending.op = "save" => pending.lines = history
    /\ \A p \in Procs : pc[p] \in {"redo", "apply"} /\ pending.op = "save" =>
           History \in Range(left[p]) \/ history = Append(pending.lines, marker.revision)

Answered ==
    answer # NoAnswer => holder = NoProc /\ NoResurrection

JournalInv == Plan /\ Spared /\ InCall /\ \A p \in Procs : Projecting(p)
-----------------------------------------------------------------------------
(* The rows follow the receipts.                                           *)

\* The commit that a transaction records.
Recorded(c, plan) ==
    /\ marker' = c /\ receipts' = receipts \cup {c}
    /\ c.revision = marker.revision + 1 /\ c.op = plan.op /\ c.scopes = plan.scopes
    /\ c.id = plan.id /\ c.token = plan.token

LEMMA RecordedOne ==
    ASSUME NEW plan, Record(plan)
    PROVE  \E c : Recorded(c, plan)
BY DEF Record, Recorded

LEMMA LogStep ==
    ASSUME Revisions, Log, NEW plan, NEW c, Recorded(c, plan), plan.op \in Kinds,
           plan.op = "save" => plan.id \in Ids
    PROVE  Log'
<1>1. /\ marker' = c /\ receipts' = receipts \cup {c} /\ c.revision = marker.revision + 1
      /\ c.op \in Kinds /\ (c.op = "save" => c.id \in Ids) /\ marker.revision \in Nat
  BY DEF Recorded, Revisions
<1>2. \A d \in receipts : d.revision \in Nat /\ d.revision < c.revision
  BY <1>1 DEF Log
<1> QED  BY <1>1, <1>2 DEF Log

\* LatestReceipt finds what it looks for.
LEMMA LatestFound ==
    ASSUME Log, NEW op, NEW s, HasLatest(op, s)
    PROVE  /\ LatestReceipt(op, s) \in Found(op, s)
           /\ \A n \in Found(op, s) : n \in Nat /\ n <= LatestReceipt(op, s)
<1>1. Found(op, s) \subseteq Nat
  BY DEF Found, Log
<1>2. LatestReceipt(op, s) = Max(Found(op, s))
  BY DEF LatestReceipt, Found
<1> HIDE DEF Found
<1>3. \E m \in Found(op, s) : \A n \in Found(op, s) : m >= n
  BY <1>1 DEF HasLatest
<1>4. LatestReceipt(op, s) \in Found(op, s) /\ \A n \in Found(op, s) : LatestReceipt(op, s) >= n
  BY <1>2, <1>3 DEF Max
<1> QED  BY <1>1, <1>4

LEMMA LatestStep ==
    ASSUME Revisions, Log, NEW plan, NEW c, Recorded(c, plan), NEW op, NEW s, HasLatest(op, s)
    PROVE  HasLatest(op, s)'
<1>1. receipts' = receipts \cup {c} /\ c.revision = marker.revision + 1 /\ marker.revision \in Nat
  BY DEF Recorded, Revisions
<1>2. Found(op, s) \subseteq 0 .. marker.revision
  BY <1>1 DEF Found, Log
<1>3. PICK m \in Found(op, s) : \A n \in Found(op, s) : n <= m
  BY DEF HasLatest
<1>4. CASE c.op = op /\ Touches(c, s)
  <2>1. Found(op, s)' = Found(op, s) \cup {c.revision}
    BY <1>1, <1>4 DEF Found, Touches
  <2>2. \A n \in Found(op, s)' : n <= c.revision
    BY <1>1, <1>2, <2>1
  <2> QED  BY <2>1, <2>2 DEF HasLatest
<1>5. CASE ~(c.op = op /\ Touches(c, s))
  <2>1. Found(op, s)' = Found(op, s)
    BY <1>1, <1>5 DEF Found, Touches
  <2> QED  BY <1>3, <2>1 DEF HasLatest
<1> QED  BY <1>4, <1>5

\* A transaction rewrites the rows of the scopes it touches and of no other.
LEMMA RowsStep ==
    ASSUME Revisions, RowsInv, NEW plan, NEW c, Recorded(c, plan), plan.op \in Kinds,
           plan.op = "save" => plan.id \in Ids,
           \A s \in Scopes : Touches(c, s) => RowsBy(c, s)',
           \A s \in Scopes : ~Touches(c, s) => selection'[s] = selection[s] /\ tombstone'[s] = tombstone[s],
           clearAll' = IF plan.op = "clear_all" THEN c.revision ELSE clearAll
    PROVE  RowsInv'
<1>0. /\ receipts' = receipts \cup {c} /\ c.revision = marker.revision + 1 /\ marker.revision \in Nat
      /\ c.op = plan.op
  BY DEF Recorded, Revisions
<1>1. Log'
  BY LogStep DEF RowsInv
<1>2. \A d \in receipts : d.revision \in Nat /\ d.revision < c.revision
  BY <1>0 DEF RowsInv, Log
<1>3. ClearedAll'
  BY <1>0 DEF RowsInv, ClearedAll
<1>4. \A s \in Scopes, op \in Kinds : HasLatest(op, s)'
  BY LatestStep DEF RowsInv
<1>5. ASSUME NEW s \in Scopes PROVE RowsOf(s)'
  <2>1. CASE Touches(c, s)
    <3>1. LastOf(c, s)'
      BY <1>0, <1>2, <2>1 DEF LastOf, Touches
    <3> QED  BY <1>0, <2>1, <3>1 DEF RowsOf
  <2>2. CASE ~Touches(c, s)
    <3>1. UNCHANGED clearAll /\ selection'[s] = selection[s] /\ tombstone'[s] = tombstone[s]
      BY <1>0, <2>2 DEF Touches
    <3>2. CASE Untouched(s)
      BY <1>0, <2>2, <3>1, <3>2 DEF Untouched, RowsOf, Touches
    <3>3. ASSUME NEW d \in receipts, LastOf(d, s), RowsBy(d, s) PROVE RowsOf(s)'
      <4>1. LastOf(d, s)'
        BY <1>0, <2>2, <3>3 DEF LastOf, Touches
      <4>2. RowsBy(d, s)'
        BY <3>1, <3>3 DEF RowsBy
      <4> QED  BY <1>0, <4>1, <4>2 DEF RowsOf
    <3> QED  BY <3>2, <3>3 DEF RowsInv, RowsOf
  <2> QED  BY <2>1, <2>2
<1> QED  BY <1>1, <1>3, <1>4, <1>5 DEF RowsInv

LEMMA CommitSaveRows ==
    ASSUME Revisions, RowsInv, Plan, pending # NoPlan, NEW p \in Procs, CommitSave(p)
    PROVE  RowsInv'
<1>1. PICK c : Recorded(c, pending)
  BY RecordedOne DEF CommitSave
<1>2. /\ pending.op = "save" /\ pending.id \in Ids /\ c.op = "save" /\ c.scopes = pending.scopes
      /\ c.id = pending.id /\ c.revision = marker.revision + 1 /\ marker.revision \in Nat
  BY <1>1 DEF CommitSave, Plan, Recorded, Revisions
<1>3. UNCHANGED clearAll /\ \A s \in Scopes :
        IF s \in c.scopes
        THEN selection'[s] = [id |-> c.id, revision |-> c.revision] /\ tombstone'[s] = 0
        ELSE selection'[s] = selection[s] /\ tombstone'[s] = tombstone[s]
  BY <1>2 DEF CommitSave
<1>4. clearAll < c.revision
  BY <1>2 DEF RowsInv, ClearedAll, Log
<1>5. ASSUME NEW s \in Scopes, Touches(c, s) PROVE RowsBy(c, s)'
  BY <1>2, <1>3, <1>4, <1>5 DEF Touches, RowsBy
<1>6. \A s \in Scopes : ~Touches(c, s) => selection'[s] = selection[s] /\ tombstone'[s] = tombstone[s]
  BY <1>3 DEF Touches
<1> QED  BY <1>1, <1>2, <1>3, <1>5, <1>6, RowsStep DEF Kinds

LEMMA CommitClearRows ==
    ASSUME Revisions, RowsInv, NEW p \in Procs, CommitClear(p)
    PROVE  RowsInv'
<1>1. PICK c : Recorded(c, pending)
  BY RecordedOne DEF CommitClear
<1>2. /\ pending.op \in {"clear_scope", "clear_all"} /\ c.op = pending.op /\ c.scopes = pending.scopes
      /\ c.id = pending.id /\ c.revision = marker.revision + 1 /\ marker.revision \in Nat
  BY <1>1 DEF CommitClear, Recorded, Revisions
<1>3. /\ clearAll' = IF pending.op = "clear_all" THEN c.revision ELSE clearAll
      /\ \A s \in Scopes :
        IF pending.op = "clear_all" THEN selection'[s] = NoRow /\ tombstone'[s] = 0
        ELSE IF s \in c.scopes THEN selection'[s] = NoRow /\ tombstone'[s] = c.revision
        ELSE selection'[s] = selection[s] /\ tombstone'[s] = tombstone[s]
  BY <1>2 DEF CommitClear
<1>4. clearAll < c.revision
  BY <1>2 DEF RowsInv, ClearedAll, Log
<1>5. ASSUME NEW s \in Scopes, Touches(c, s) PROVE RowsBy(c, s)'
  BY <1>2, <1>3, <1>4, <1>5 DEF Touches, RowsBy, NoRow
<1>6. \A s \in Scopes : ~Touches(c, s) => selection'[s] = selection[s] /\ tombstone'[s] = tombstone[s]
  BY <1>2, <1>3 DEF Touches
<1> QED  BY <1>1, <1>2, <1>3, <1>5, <1>6, RowsStep DEF Kinds

\* identity_scope_selection of the rows, for a scope whose last mutation is known.
LEMMA SelectionOfLast ==
    ASSUME RowsInv, NEW s \in Scopes, NEW c \in receipts, LastOf(c, s)
    PROVE  Selection(s) = IF c.op = "save" THEN c.id ELSE Tombstoned
<1>0. Log /\ ClearedAll /\ HasLatest("save", s) /\ HasLatest("clear_scope", s) /\ HasLatest("clear_all", s)
  BY DEF RowsInv, Kinds
<1>1. RowsBy(c, s)
  <2>1. \A d \in receipts : LastOf(d, s) => d = c
    BY <1>0 DEF LastOf, Log
  <2>2. ~Untouched(s)
    BY DEF Untouched, LastOf
  <2> QED  BY <2>1, <2>2 DEF RowsInv, RowsOf
<1>2. c.revision \in Nat \ {0} /\ c.op \in Kinds /\ clearAll \in Nat
  BY <1>0 DEF Log, ClearedAll
<1> DEFINE S == LatestReceipt("save", s)
           C == LatestReceipt("clear_scope", s)
           A == LatestReceipt("clear_all", s)
<1>3. S \in Nat /\ C \in Nat /\ A \in Nat
  BY <1>0, LatestFound
<1>4. ASSUME NEW op, NEW n \in Found(op, s) PROVE n <= c.revision /\ (n = c.revision => op = c.op)
  BY <1>0, <1>2 DEF Found, LastOf, Log
<1>5. S <= c.revision /\ C <= c.revision /\ A <= c.revision
  BY <1>0, <1>4, LatestFound
<1>6. /\ S = c.revision => c.op = "save"
      /\ C = c.revision => c.op = "clear_scope"
      /\ A = c.revision => c.op = "clear_all"
  BY <1>0, <1>4, LatestFound
<1>7. c.revision \in Found(c.op, s)
  BY DEF Found, LastOf
<1>8. /\ c.op = "save" => S = c.revision
      /\ c.op = "clear_scope" => C = c.revision
      /\ c.op = "clear_all" => A = c.revision
  BY <1>0, <1>2, <1>3, <1>5, <1>7, LatestFound
<1> HIDE DEF S, C, A
<1>9. ~CorruptRows(s)
  <2>2. CASE c.op = "save"
    <3>1. /\ selection[s].id = c.id /\ selection[s].revision = c.revision /\ tombstone[s] = 0
          /\ clearAll < c.revision /\ s \in c.scopes /\ S = c.revision /\ C < c.revision /\ A < c.revision
      BY <1>1, <1>2, <1>3, <1>5, <1>6, <1>8, <2>2 DEF RowsBy, LastOf, Touches
    <3>2. clearAll > 0 => \E d \in receipts : d.op = "clear_all" /\ d.revision = clearAll
      BY <1>0 DEF ClearedAll
    <3>3. \E d \in receipts : d.op = "save" /\ s \in d.scopes /\ d.id = selection[s].id /\ d.revision = selection[s].revision
      BY <2>2, <3>1
    <3> QED  BY <1>2, <1>3, <3>1, <3>2, <3>3 DEF CorruptRows, Larger, S, C, A
  <2>3. CASE c.op = "clear_scope"
    <3>1. /\ selection[s].revision = 0 /\ tombstone[s] = c.revision
          /\ clearAll < c.revision /\ s \in c.scopes /\ C = c.revision /\ S < c.revision /\ A < c.revision
      BY <1>1, <1>2, <1>3, <1>5, <1>6, <1>8, <2>3 DEF RowsBy, LastOf, Touches
    <3>2. clearAll > 0 => \E d \in receipts : d.op = "clear_all" /\ d.revision = clearAll
      BY <1>0 DEF ClearedAll
    <3>3. \E d \in receipts : d.op = "clear_scope" /\ s \in d.scopes /\ d.revision = tombstone[s]
      BY <2>3, <3>1
    <3> QED  BY <1>2, <1>3, <3>1, <3>2, <3>3 DEF CorruptRows, Larger, S, C, A
  <2>4. CASE c.op = "clear_all"
    <3>1. /\ selection[s].revision = 0 /\ tombstone[s] = 0
          /\ clearAll = c.revision /\ A = c.revision /\ S < c.revision /\ C < c.revision
      BY <1>1, <1>2, <1>3, <1>5, <1>6, <1>8, <2>4 DEF RowsBy
    <3>2. \E d \in receipts : d.op = "clear_all" /\ d.revision = clearAll
      BY <2>4, <3>1
    <3> QED  BY <1>2, <1>3, <3>1, <3>2 DEF CorruptRows, Larger, S, C, A
  <2> QED  BY <1>2, <2>2, <2>3, <2>4 DEF Kinds
<1> QED  BY <1>1, <1>2, <1>9 DEF Selection, RowsBy, Larger, Kinds

LEMMA SelectionUntouched ==
    ASSUME RowsInv, NEW s \in Scopes, \A c \in receipts : ~Touches(c, s)
    PROVE  Selection(s) = Untracked
<1>0. Log /\ HasLatest("save", s) /\ HasLatest("clear_scope", s) /\ HasLatest("clear_all", s)
  BY DEF RowsInv, Kinds
<1>1. selection[s].revision = 0 /\ tombstone[s] = 0 /\ clearAll = 0
  BY DEF RowsInv, RowsOf, Untouched, LastOf
<1>2. \A op : Found(op, s) = {0}
  BY DEF Found
<1>3. LatestReceipt("save", s) = 0 /\ LatestReceipt("clear_scope", s) = 0 /\ LatestReceipt("clear_all", s) = 0
  BY <1>0, <1>2, LatestFound
<1>4. ~CorruptRows(s)
  BY <1>1, <1>3 DEF CorruptRows, Larger
<1> QED  BY <1>1, <1>4 DEF Selection, Larger

\* Every scope has its last mutation, or none; either way the rows say so.
LEMMA RowsSay ==
    ASSUME RowsInv, NEW s \in Scopes
    PROVE  Says(s, Selection(s))
<1>1. CASE \A c \in receipts : ~Touches(c, s)
  BY <1>1, SelectionUntouched DEF Says
<1>2. CASE \E c \in receipts : Touches(c, s)
  <2>1. PICK c \in receipts : LastOf(c, s)
    BY <1>2 DEF RowsInv, RowsOf, Untouched
  <2>2. Selection(s) = IF c.op = "save" THEN c.id ELSE Tombstoned
    BY <2>1, SelectionOfLast
  <2> QED  BY <1>2, <2>1, <2>2 DEF Says, IsLatest, LastOf
<1> QED  BY <1>1, <1>2

LEMMA RowsInvFollow == RowsInv => RowsFollowReceipts
BY SelectionOfLast, SelectionUntouched DEF RowsFollowReceipts, IsLatest, LastOf
-----------------------------------------------------------------------------
(* The files of a plan.                                                    *)

LEMMA ConcatRange ==
    ASSUME NEW S, NEW a \in Seq(S), NEW b \in Seq(S)
    PROVE  a \o b \in Seq(S) /\ Range(a \o b) = Range(a) \cup Range(b)
<1>1. PICK ab : ab = a \o b
  OBVIOUS
<1>2. /\ DOMAIN ab = 1 .. Len(a) + Len(b) /\ DOMAIN a = 1 .. Len(a) /\ DOMAIN b = 1 .. Len(b)
      /\ Len(a) \in Nat /\ Len(b) \in Nat
      /\ \A i \in 1 .. Len(a) : ab[i] = a[i]
      /\ \A i \in 1 .. Len(b) : ab[i + Len(a)] = b[i]
  BY <1>1
<1>3. ASSUME NEW i \in DOMAIN ab PROVE ab[i] \in Range(a) \cup Range(b)
  <2>1. CASE i <= Len(a)
    <3>1. i \in 1 .. Len(a)
      BY <1>2, <2>1
    <3> QED  BY <1>2, <3>1 DEF Range
  <2>2. CASE i > Len(a)
    <3>1. i - Len(a) \in 1 .. Len(b) /\ i = (i - Len(a)) + Len(a)
      BY <1>2, <2>2
    <3>2. ab[i] = b[i - Len(a)]
      BY <1>2, <3>1
    <3> QED  BY <1>2, <3>1, <3>2 DEF Range
  <2> QED  BY <1>2, <2>1, <2>2
<1>4. Range(ab) \subseteq Range(a) \cup Range(b)
  BY <1>3 DEF Range
<1>5. Range(a) \subseteq Range(ab)
  <2>1. \A i \in DOMAIN a : i \in DOMAIN ab /\ ab[i] = a[i]
    BY <1>2
  <2> QED  BY <2>1 DEF Range
<1>6. Range(b) \subseteq Range(ab)
  <2>1. \A i \in DOMAIN b : i + Len(a) \in DOMAIN ab /\ ab[i + Len(a)] = b[i]
    BY <1>2
  <2> QED  BY <2>1 DEF Range
<1> QED  BY <1>1, <1>4, <1>5, <1>6

\* SetToSeq lists every element of a finite set.
LEMMA ListsAll ==
    ASSUME NEW S, IsFiniteSet(S)
    PROVE  SetToSeq(S) \in Seq(S) /\ Range(SetToSeq(S)) = S
<1> DEFINE n == Cardinality(S)
<1>1. n \in Nat /\ ExistsBijection(1 .. n, S)
  BY FS_CardinalityType
<1>2. \E f \in [1 .. n -> S] : IsInjective(f)
  BY <1>1 DEF ExistsBijection, Bijection, Injection, IsInjective
<1>3. PICK f : f = SetToSeq(S)
  OBVIOUS
<1>4. f \in [1 .. n -> S] /\ IsInjective(f)
  BY <1>2, <1>3 DEF SetToSeq
<1>5. f \in Injection(1 .. n, S)
  BY <1>4 DEF Injection, IsInjective
<1>6. IsFiniteSet(1 .. n) /\ Cardinality(1 .. n) = n
  BY <1>1, FS_Interval
<1>7. f \in Surjection(1 .. n, S)
  BY <1>5, <1>6, FS_Injection
<1>8. Range(f) = S
  BY <1>4, <1>7 DEF Surjection, Range
<1> QED  BY <1>1, <1>3, <1>4, <1>8

LEMMA FilesApart ==
    /\ Global \in Files /\ Export \in Files /\ History \notin Files /\ ByCwd \subseteq Files
    /\ Global \notin Cwds \cup ByCwd /\ Export \notin Cwds \cup ByCwd /\ Global # Export
    /\ \A s \in Cwds : CwdFile[s] \in ByCwd
BY FilesAssumption DEF Files, Global, Export, History

\* configured_targets_for, current_targets, all_targets: the files they list.
LEMMA TargetsOf ==
    ASSUME NEW op \in Kinds, NEW s \in Scopes
    PROVE  /\ PlanTargets(op, s) \in Seq(Files \cup {History})
           /\ Range(PlanTargets(op, s)) =
                  CASE op = "save"        -> (IF s = Global THEN {} ELSE {CwdFile[s]})
                                                 \cup {Global, Export, History}
                    [] op = "clear_scope" -> IF s = Global THEN {Global, Export} ELSE {CwdFile[s]}
                    [] op = "clear_all"   -> {Global, Export} \cup {f \in ByCwd : mirror[f] # NoId}
<1> DEFINE F == Files \cup {History}
<1>0. s # Global => s \in Cwds /\ Mirror(s) = CwdFile[s] /\ CwdFile[s] \in F
  BY FilesApart DEF Scopes, Mirror
<1>1. /\ <<Global, Export, History>> \in Seq(F) /\ Range(<<Global, Export, History>>) = {Global, Export, History}
      /\ <<Global, Export>> \in Seq(F) /\ Range(<<Global, Export>>) = {Global, Export}
      /\ <<>> \in Seq(F) /\ Range(<<>>) = {}
      /\ \A x \in F : <<x>> \in Seq(F) /\ Range(<<x>>) = {x}
  BY FilesApart DEF Range
<1>2. CASE op = "save"
  <2>1. CASE s = Global
    <3>1. PlanTargets(op, s) = <<>> \o <<Global, Export, History>>
      BY <1>2, <2>1 DEF PlanTargets
    <3>2. PlanTargets(op, s) \in Seq(F) /\ Range(PlanTargets(op, s)) = {} \cup {Global, Export, History}
      BY <1>1, <3>1, ConcatRange
    <3> QED  BY <1>2, <2>1, <3>2
  <2>2. CASE s # Global
    <3>1. PlanTargets(op, s) = <<CwdFile[s]>> \o <<Global, Export, History>>
      BY <1>0, <1>2, <2>2 DEF PlanTargets
    <3>2. PICK a, b : a = <<CwdFile[s]>> /\ b = <<Global, Export, History>>
      OBVIOUS
    <3>3. a \in Seq(F) /\ b \in Seq(F) /\ Range(a) = {CwdFile[s]} /\ Range(b) = {Global, Export, History}
      BY <1>0, <1>1, <2>2, <3>2
    <3>4. a \o b \in Seq(F) /\ Range(a \o b) = Range(a) \cup Range(b)
      BY <3>3, ConcatRange
    <3>5. PlanTargets(op, s) \in Seq(F) /\ Range(PlanTargets(op, s)) = {CwdFile[s]} \cup {Global, Export, History}
      BY <3>1, <3>2, <3>3, <3>4
    <3> QED  BY <1>2, <2>2, <3>5
  <2> QED  BY <2>1, <2>2
<1>3. CASE op = "clear_scope"
  <2>1. PlanTargets(op, s) = IF s = Global THEN <<Global, Export>> ELSE <<CwdFile[s]>>
    BY <1>0, <1>3 DEF PlanTargets
  <2> QED  BY <1>0, <1>1, <1>3, <2>1
<1>4. CASE op = "clear_all"
  <2> DEFINE S == {f \in ByCwd : mirror[f] # NoId}
  <2>1. IsFiniteSet(S) /\ S \subseteq F
    BY FilesAssumption, FilesApart, FS_Subset
  <2>2. PlanTargets(op, s) = <<Global, Export>> \o SetToSeq(S)
    BY <1>4 DEF PlanTargets
  <2> HIDE DEF S
  <2>3. SetToSeq(S) \in Seq(F) /\ Range(SetToSeq(S)) = S
    <3>1. SetToSeq(S) \in Seq(S) /\ Range(SetToSeq(S)) = S
      BY <2>1, ListsAll
    <3> QED  BY <2>1, <3>1
  <2>4. PlanTargets(op, s) \in Seq(F) /\ Range(PlanTargets(op, s)) = {Global, Export} \cup S
    <3>1. PICK a, b : a = <<Global, Export>> /\ b = SetToSeq(S)
      OBVIOUS
    <3>2. a \in Seq(F) /\ b \in Seq(F) /\ Range(a) = {Global, Export} /\ Range(b) = S
      BY <1>1, <2>3, <3>1
    <3>3. a \o b \in Seq(F) /\ Range(a \o b) = Range(a) \cup Range(b)
      BY <3>2, ConcatRange
    <3> QED  BY <2>2, <3>1, <3>2, <3>3
  <2> QED  BY <1>4, <2>4 DEF S
<1> QED  BY <1>2, <1>3, <1>4 DEF Kinds

LEMMA HeadOfRange ==
    ASSUME NEW S, NEW a \in Seq(S), a # <<>>
    PROVE  Tail(a) \in Seq(S) /\ Head(a) \in S /\ Range(a) = {Head(a)} \cup Range(Tail(a))
<1>1. PICK b : b = Tail(a)
  OBVIOUS
<1>2. /\ Len(a) \in Nat \ {0} /\ DOMAIN a = 1 .. Len(a) /\ DOMAIN b = 1 .. Len(a) - 1 /\ Head(a) = a[1]
      /\ \A i \in 1 .. Len(a) - 1 : b[i] = a[i + 1]
      /\ b \in Seq(S) /\ a[1] \in S
  BY <1>1
<1>3. ASSUME NEW i \in DOMAIN a PROVE a[i] \in {a[1]} \cup Range(b)
  <2>1. CASE i = 1
    BY <2>1
  <2>2. CASE i # 1
    <3>1. i - 1 \in DOMAIN b /\ i = (i - 1) + 1
      BY <1>2, <2>2
    <3>2. b[i - 1] = a[i]
      BY <1>2, <3>1
    <3> QED  BY <3>1, <3>2 DEF Range
  <2> QED  BY <2>1, <2>2
<1>4. ASSUME NEW i \in DOMAIN b PROVE b[i] \in Range(a)
  <2>1. i + 1 \in DOMAIN a /\ b[i] = a[i + 1]
    BY <1>2
  <2> QED  BY <2>1 DEF Range
<1>5. a[1] \in Range(a)
  BY <1>2 DEF Range
<1>6. Range(a) \subseteq {a[1]} \cup Range(b) /\ Range(b) \subseteq Range(a)
  BY <1>3, <1>4 DEF Range
<1> QED  BY <1>1, <1>2, <1>5, <1>6
-----------------------------------------------------------------------------
(* The journal. One process at a time is inside an operation, so a step is *)
(* told by what it does to the plan and where it leaves that process.      *)

\* Everybody else is outside.
Alone(p) == \A q \in Procs : q # p => pc'[q] = "idle"

LEMMA Sole ==
    ASSUME TokenInv, NEW p \in Procs, pc[p] # "idle" \/ holder = NoProc, NEW l,
           pc' = [pc EXCEPT ![p] = l] \/ (pc' = pc /\ l = pc[p])
    PROVE  Alone(p) /\ pc'[p] = l
BY NamesAssumption DEF TokenInv, Locked, Alone

\* The token of a plan before its commit, or of a plan yet to be written, is not in the marker.
LEMMA FreshToken ==
    ASSUME TokenInv, Log, marker # NoMarker
    PROVE  /\ marker.token <= tokens /\ marker.token \in Nat
           /\ \A p \in Procs : pc[p] = "commit" => ~Committed
BY DEF TokenInv, TokensOrdered, Log, JournalOf, Committed, Matches

LEMMA BeforeCommit ==
    ASSUME TokenInv, Log, NEW p \in Procs, pc[p] = "commit"
    PROVE  pending # NoPlan /\ ~Committed
BY FreshToken DEF TokenInv, JournalOf, Committed, Matches

LEMMA AfterCommit ==
    ASSUME TokenInv, NEW p \in Procs, pc[p] = "commit", Record(pending), pending' = pending
    PROVE  Committed'
<1>1. PICK c : Recorded(c, pending)
  BY RecordedOne
<1>2. marker' # NoMarker
  BY <1>1 DEF Recorded, NoMarker, TokenInv, Revisions
<1>3. pending # NoPlan
  BY DEF TokenInv, JournalOf
<1> QED  BY <1>1, <1>2, <1>3 DEF Committed, Matches, Recorded

LEMMA SameCommitted ==
    ASSUME UNCHANGED <<marker, pending>>
    PROVE  Committed' = Committed
BY DEF Committed, Matches

\* What holds of a step that leaves rows and journal alone.
LEMMA JournalStays ==
    ASSUME JournalInv, NEW p \in Procs, Alone(p), UNCHANGED <<marker, selection, pending>>,
           DOMAIN call' = Procs, DOMAIN left' = Procs, pc'[p] # "idle" => call'[p] \in Calls,
           Projecting(p)'
    PROVE  JournalInv'
<1>1. Plan' /\ Spared'
  BY DEF JournalInv, Plan, Spared, Targets, Projects
<1>2. InCall'
  BY DEF InCall, Alone
<1>3. \A q \in Procs : Projecting(q)'
  BY DEF Projecting, Alone
<1> QED  BY <1>1, <1>2, <1>3 DEF JournalInv

LEMMA LeaveJournal ==
    ASSUME TokenInv, JournalInv, NEW p \in Procs, pc[p] # "idle", Release(p),
           UNCHANGED <<marker, selection, pending>>
    PROVE  JournalInv' /\ Alone(p) /\ pc'[p] = "idle"
<1>1. Alone(p) /\ pc'[p] = "idle"
  BY Sole DEF Release, Goto
<1>2. DOMAIN call' = Procs /\ DOMAIN left' = Procs
  BY DEF Release, JournalInv, InCall
<1>3. Projecting(p)'
  BY <1>1 DEF Projecting
<1> QED  BY <1>1, <1>2, <1>3, JournalStays

LEMMA EmptyJournal ==
    ASSUME JournalInv, NEW p \in Procs, Alone(p), pending' = NoPlan, pc'[p] \notin {"redo", "apply"},
           DOMAIN call' = Procs, DOMAIN left' = Procs, pc'[p] # "idle" => call'[p] \in Calls
    PROVE  JournalInv'
<1>1. Plan' /\ Spared'
  BY DEF Plan, Spared
<1>2. InCall'
  BY DEF InCall, Alone
<1>3. \A q \in Procs : Projecting(q)'
  BY DEF Projecting, Alone
<1> QED  BY <1>1, <1>2, <1>3 DEF JournalInv

\* prepare_plan writes down what the operation will touch.
Prepared(op, s) ==
    /\ pending'.op = op /\ pending'.scopes = PlanScopes(op, s)
    /\ IF op = "save" THEN pending'.id \in Ids ELSE pending'.id = NoId
    /\ pending'.targets = PlanTargets(op, s) /\ pending'.before = Snapshot(PlanTargets(op, s))

LEMMA PreparedPlan ==
    ASSUME NEW op \in Kinds, NEW s \in Scopes, Prepared(op, s)
    PROVE  /\ Plan'
           /\ \A f \in Files \cap Targets' : pending'.before[f] = mirror[f]
           /\ op = "clear_all" => \A f \in Files \ Targets' : mirror[f] = NoId
           /\ op = "clear_scope" => \A f \in ByCwd \cap Targets' : s \in Cwds /\ f = Mirror(s)
<1>1. PICK T : T = Range(PlanTargets(op, s))
  OBVIOUS
<1>2. /\ Targets' = T /\ pending'.targets \in Seq(Files \cup {History})
      /\ pending'.before = [f \in Files \cap T |-> mirror[f]]
  BY <1>1, TargetsOf DEF Prepared, Targets, Snapshot
<1>3. /\ op = "save" => T = (IF s = Global THEN {} ELSE {CwdFile[s]}) \cup {Global, Export, History}
      /\ op = "clear_scope" => T = IF s = Global THEN {Global, Export} ELSE {CwdFile[s]}
      /\ op = "clear_all" => T = {Global, Export} \cup {f \in ByCwd : mirror[f] # NoId}
  BY <1>1, TargetsOf
<1>4. s = Global \/ s \in Cwds
  BY DEF Scopes
<1>5. (History \in T) <=> (op = "save")
  BY <1>3, <1>4, FilesApart DEF Kinds, Global, Export, History
<1>6. pending'.op = op /\ pending'.scopes = PlanScopes(op, s)
  BY DEF Prepared
<1>7. ASSUME NEW f \in Files
      PROVE  /\ f \in T => Projects(pending, f)'
             /\ Projects(pending, f)' /\ op # "clear_all" => f \in T
  <2>1. CASE op = "save"
    <3>1. pending'.scopes = {s, Global}
      BY <1>6, <2>1 DEF PlanScopes
    <3> QED  BY <1>3, <1>4, <1>6, <1>7, <2>1, <3>1, FilesApart DEF Projects
  <2>2. CASE op = "clear_scope"
    <3>1. pending'.scopes = {s}
      BY <1>6, <2>2 DEF PlanScopes
    <3> QED  BY <1>3, <1>4, <1>6, <1>7, <2>2, <3>1, FilesApart DEF Projects
  <2>3. CASE op = "clear_all"
    BY <1>6, <2>3 DEF Projects
  <2> QED  BY <2>1, <2>2, <2>3 DEF Kinds
<1>8. Plan'
  BY <1>2, <1>5, <1>6, <1>7 DEF Plan, Prepared
<1>9. op = "clear_all" => \A f \in Files \ T : mirror[f] = NoId
  BY <1>3, FilesApart DEF Files
<1>10. op = "clear_scope" => \A f \in ByCwd \cap T : s \in Cwds /\ f = Mirror(s)
  BY <1>3, <1>4, FilesApart DEF Mirror
<1> QED  BY <1>2, <1>8, <1>9, <1>10

LEMMA PrepareJournal ==
    ASSUME TokenInv, JournalInv, NEW p \in Procs, NEW op \in Kinds, NEW s \in Scopes, Prepared(op, s),
           op = "clear_scope" => ClearAuthorized(s),
           pc[p] = "body", pc' = [pc EXCEPT ![p] = "commit"], UNCHANGED <<call, left, selection, mirror>>
    PROVE  JournalInv' /\ Alone(p) /\ pc'[p] = "commit"
<1>1. Alone(p) /\ pc'[p] = "commit"
  BY Sole
<1>2. Spared'
  <2> SUFFICES ASSUME pending'.op = "clear_scope", NEW f \in ByCwd \cap Targets', pending'.before[f] # NoId,
                      NEW o \in Cwds \ pending'.scopes
               PROVE  selection[o].id # pending'.before[f]
    BY DEF Spared
  <2>1. op = "clear_scope" /\ pending'.scopes = {s}
    BY DEF Prepared, PlanScopes
  <2>2. s \in Cwds /\ f = Mirror(s) /\ pending'.before[f] = mirror[f]
    BY <2>1, PreparedPlan, FilesApart
  <2>3. s # Global
    BY <2>2, FilesApart
  <2> QED  BY <2>1, <2>2, <2>3 DEF ClearAuthorized
<1>3. InCall'
  BY <1>1 DEF JournalInv, InCall, Alone
<1>4. \A q \in Procs : Projecting(q)'
  BY <1>1 DEF Projecting, Alone
<1>5. Plan'
  BY PreparedPlan
<1> QED  BY <1>1, <1>2, <1>3, <1>4, <1>5 DEF JournalInv

LEMMA CommitJournal ==
    ASSUME TokenInv, JournalInv, NEW p \in Procs, CommitSave(p) \/ CommitClear(p)
    PROVE  JournalInv' /\ Alone(p) /\ pc'[p] = "apply" /\ Committed' /\ left'[p] = pending.targets
<1>1. /\ pc[p] = "commit" /\ pc' = [pc EXCEPT ![p] = "apply"] /\ Record(pending) /\ UNCHANGED <<pending, call>>
      /\ left' = [left EXCEPT ![p] = pending.targets]
  BY DEF CommitSave, CommitClear, Goto
<1>2. Alone(p) /\ pc'[p] = "apply" /\ Committed' /\ pending # NoPlan
  BY <1>1, Sole, AfterCommit DEF TokenInv, JournalOf
<1>3. DOMAIN left' = Procs /\ left'[p] = pending.targets
  BY <1>1 DEF JournalInv, InCall
<1>4. Plan'
  BY <1>1 DEF JournalInv, Plan, Targets, Projects
<1>5. Spared'
  <2> SUFFICES ASSUME pending.op = "clear_scope", NEW o \in Cwds \ pending.scopes
               PROVE  selection'[o].id = selection[o].id
    BY <1>1 DEF Spared, JournalInv, Targets
  <2> QED  BY DEF CommitSave, CommitClear, Scopes
<1>6. InCall'
  BY <1>1, <1>2, <1>3 DEF JournalInv, InCall, Alone
<1>7. Projecting(p)'
  BY <1>1, <1>2, <1>3 DEF Projecting, JournalInv, Plan, Targets
<1>8. \A q \in Procs : Projecting(q)'
  BY <1>2, <1>7 DEF Projecting, Alone
<1> QED  BY <1>2, <1>3, <1>4, <1>5, <1>6, <1>8 DEF JournalInv

LEMMA RedoJournal ==
    ASSUME TokenInv, JournalInv, NEW p \in Procs, pc[p] = "recover", Committed, Goto(p, "redo"),
           left' = [left EXCEPT ![p] = pending.targets], UNCHANGED <<call, marker, selection, pending>>
    PROVE  JournalInv' /\ Alone(p) /\ pc'[p] = "redo" /\ left'[p] = pending.targets
<1>1. Alone(p) /\ pc'[p] = "redo"
  BY Sole DEF Goto
<1>2. DOMAIN left' = Procs /\ left'[p] = pending.targets /\ DOMAIN call' = Procs /\ call'[p] \in Calls
  BY DEF JournalInv, InCall
<1>3. Committed' /\ pending # NoPlan
  BY SameCommitted DEF Committed
<1>4. Projecting(p)'
  BY <1>2, <1>3 DEF Projecting, JournalInv, Plan, Targets
<1> QED  BY <1>1, <1>2, <1>4, JournalStays

LEMMA ApplyJournal ==
    ASSUME TokenInv, JournalInv, NEW p \in Procs, ApplyTarget(p)
    PROVE  JournalInv' /\ Alone(p) /\ pc'[p] = pc[p] /\ left'[p] = Tail(left[p])
<1>1. /\ pc[p] \in {"redo", "apply"} /\ left[p] # <<>> /\ left' = [left EXCEPT ![p] = Tail(left[p])]
      /\ UNCHANGED <<marker, selection, pending, pc, call>>
  BY DEF ApplyTarget, tables
<1>2. Alone(p) /\ pc'[p] = pc[p]
  BY <1>1, Sole
<1>3. DOMAIN left' = Procs /\ left'[p] = Tail(left[p]) /\ DOMAIN call' = Procs /\ call'[p] \in Calls
  BY <1>1 DEF JournalInv, InCall
<1>4. Committed /\ left[p] \in Seq(Files \cup {History}) /\ Range(left[p]) \subseteq Targets
  BY <1>1 DEF JournalInv, Projecting
<1>5. Tail(left[p]) \in Seq(Files \cup {History}) /\ Range(Tail(left[p])) \subseteq Targets
  BY <1>1, <1>4, HeadOfRange
<1>6. Projecting(p)'
  BY <1>1, <1>3, <1>4, <1>5, SameCommitted DEF Projecting, Targets
<1> QED  BY <1>1, <1>2, <1>3, <1>6, JournalStays
-----------------------------------------------------------------------------
(* The mirrors and the history follow the receipts.                        *)

LEMMA SaveRevisionsFacts ==
    ASSUME Log, Revisions
    PROVE  SaveRevisions \subseteq 0 .. marker.revision
BY DEF Log, Revisions, SaveRevisions

LEMMA AppendFaithful ==
    ASSUME NEW saves \in SUBSET Nat, NEW h, NEW r \in saves, \A x \in saves : x <= r, Faithful(h, saves \ {r})
    PROVE  Faithful(Append(h, r), saves)
<1>1. PICK new : new = Append(h, r)
  OBVIOUS
<1>2. h \in Seq(Nat) /\ r \in Nat
  BY DEF Faithful
<1>3. /\ new \in Seq(Nat) /\ Len(new) = Len(h) + 1 /\ Len(h) \in Nat
      /\ new[Len(h) + 1] = r /\ \A i \in 1 .. Len(h) : new[i] = h[i]
  BY <1>1, <1>2
<1>4. \A i \in 1 .. Len(h) : h[i] \in saves /\ h[i] < r
  BY <1>2 DEF Faithful
<1>5. ASSUME NEW i \in 1 .. Len(new), NEW j \in 1 .. Len(new), i < j PROVE new[i] < new[j]
  <2>1. i \in 1 .. Len(h)
    BY <1>3, <1>5
  <2>2. CASE j = Len(h) + 1
    BY <1>3, <1>4, <2>1, <2>2
  <2>3. CASE j \in 1 .. Len(h)
    BY <1>3, <1>5, <2>1, <2>3 DEF Faithful
  <2> QED  BY <1>3, <2>2, <2>3
<1>6. \A i \in 1 .. Len(new) : new[i] \in saves
  BY <1>3, <1>4
<1>7. ASSUME NEW x \in saves PROVE (\E i \in 1 .. Len(new) : new[i] = x) \/ (Len(new) > 0 /\ x < new[1])
  <2>1. CASE x = r
    BY <1>3, <2>1
  <2>2. CASE x # r
    <3>1. (\E i \in 1 .. Len(h) : h[i] = x) \/ (Len(h) > 0 /\ x < h[1])
      BY <2>2 DEF Faithful
    <3> QED  BY <1>3, <3>1
  <2> QED  BY <2>1, <2>2
<1>8. Faithful(new, saves)
  BY <1>3, <1>5, <1>6, <1>7 DEF Faithful
<1> QED  BY <1>1, <1>8

LEMMA CompactFaithful ==
    ASSUME NEW saves \in SUBSET Nat, NEW h, Faithful(h, saves), NEW keep \in Nat \ {0}, Len(h) > keep
    PROVE  Faithful(SubSeq(h, Len(h) - keep + 1, Len(h)), saves)
<1>1. PICK new : new = SubSeq(h, Len(h) - keep + 1, Len(h))
  OBVIOUS
<1>2. h \in Seq(Nat)
  BY DEF Faithful
<1>3. PICK d \in Nat : d = Len(h) - keep /\ Len(h) \in Nat /\ Len(h) = d + keep
  BY <1>2
<1>4. /\ new \in Seq(Nat) /\ Len(new) = keep
      /\ \A i \in 1 .. keep : new[i] = h[i + d]
  <2>1. Len(h) - keep + 1 = d + 1 /\ d + 1 \in 1 .. Len(h) /\ Len(h) \in 1 .. Len(h)
    BY <1>2, <1>3
  <2>2. \A i \in 1 .. keep : d + 1 + i - 1 = i + d
    BY <1>3
  <2>3. new = SubSeq(h, d + 1, d + keep)
    BY <1>1, <1>3, <2>1
  <2>4. Len(new) = keep
    BY <1>2, <1>3, <2>1, <2>3
  <2>5. \A i \in 1 .. keep : new[i] = h[i + d]
    BY <1>2, <1>3, <2>1, <2>2, <2>3
  <2>6. new \in Seq(Nat)
    BY <1>2, <1>3, <2>1, <2>3
  <2> QED  BY <2>4, <2>5, <2>6
<1>5. \A i \in 1 .. keep : i + d \in 1 .. Len(h)
  BY <1>3
<1>6. ASSUME NEW i \in 1 .. Len(new), NEW j \in 1 .. Len(new), i < j PROVE new[i] < new[j]
  <2>1. i + d \in 1 .. Len(h) /\ j + d \in 1 .. Len(h) /\ i + d < j + d
    BY <1>3, <1>4, <1>6
  <2>2. h[i + d] < h[j + d]
    BY <2>1 DEF Faithful
  <2> QED  BY <1>4, <2>2
<1>7. \A i \in 1 .. Len(new) : new[i] \in saves
  BY <1>4, <1>5 DEF Faithful
<1>8. new[1] = h[1 + d] /\ 1 + d \in 1 .. Len(h) /\ Len(new) > 0
  BY <1>3, <1>4
<1>9. ASSUME NEW x \in saves PROVE (\E i \in 1 .. Len(new) : new[i] = x) \/ (Len(new) > 0 /\ x < new[1])
  <2>1. CASE x < h[1]
    <3>1. h[1] <= h[1 + d] /\ h[1] \in Nat /\ h[1 + d] \in Nat
      <4>1. h[1] \in Nat /\ h[1 + d] \in Nat /\ 1 \in 1 .. Len(h)
        BY <1>2, <1>3, <1>8
      <4>2. CASE d = 0
        BY <4>1, <4>2
      <4>3. CASE d > 0
        <5>1. 1 < 1 + d
          BY <1>3, <4>3
        <5>2. h[1] < h[1 + d]
          BY <1>8, <4>1, <5>1 DEF Faithful
        <5> QED  BY <4>1, <5>2
      <4> QED  BY <1>3, <4>1, <4>2, <4>3
    <3> QED  BY <1>8, <2>1, <3>1
  <2>2. ASSUME NEW i \in 1 .. Len(h), h[i] = x
        PROVE  (\E k \in 1 .. Len(new) : new[k] = x) \/ (Len(new) > 0 /\ x < new[1])
    <3>1. CASE i < 1 + d
      <4>1. h[i] < h[1 + d]
        BY <1>8, <3>1 DEF Faithful
      <4> QED  BY <1>8, <2>2, <4>1
    <3>2. CASE i >= 1 + d
      <4>1. i - d \in 1 .. Len(new) /\ (i - d) + d = i
        BY <1>3, <1>4, <3>2
      <4>2. new[i - d] = h[i]
        BY <1>4, <4>1
      <4> QED  BY <2>2, <4>1, <4>2
    <3> QED  BY <1>3, <3>1, <3>2
  <2> QED  BY <2>1, <2>2 DEF Faithful
<1>10. Faithful(new, saves)
  BY <1>4, <1>6, <1>7, <1>9 DEF Faithful
<1> QED  BY <1>1, <1>10

\* Nothing is written; a process may begin to project the plan.
LEMMA StillShown ==
    ASSUME JournalInv, MirrorsShow, HistoryKept, NEW p \in Procs, Alone(p),
           UNCHANGED <<marker, receipts, mirror, history, pending, edits>>,
           pc'[p] \in {"redo", "apply"} => pending # NoPlan /\ left'[p] = pending.targets
    PROVE  MirrorsShow' /\ HistoryKept'
<1>0. Committed' = Committed /\ Targets' = Targets /\ SaveRevisions' = SaveRevisions
  BY SameCommitted DEF Targets, SaveRevisions
<1>1. OthersShow => OthersShow'
  BY <1>0 DEF OthersShow, ShowsLast, Projects
<1>2. AppliedShow'
  BY <1>0 DEF AppliedShow, Alone, Targets
<1>3. NoneOverlooked => NoneOverlooked'
  BY <1>0 DEF NoneOverlooked
<1>4. MirrorsShow'
  BY <1>1, <1>2, <1>3 DEF MirrorsShow
<1>5. pc'[p] \in {"redo", "apply"} /\ pending.op = "save" => History \in Range(left'[p])
  BY DEF JournalInv, Plan, Targets
<1>6. HistoryKept'
  BY <1>0, <1>5 DEF HistoryKept, Alone
<1> QED  BY <1>4, <1>6

\* A journal that holds no committed plan is removed.
LEMMA DiscardShown ==
    ASSUME MirrorsShow, HistoryKept, NEW p \in Procs, Alone(p), ~Committed, pending' = NoPlan,
           UNCHANGED <<marker, receipts, mirror, history, edits>>, pc'[p] \notin {"redo", "apply"}
    PROVE  MirrorsShow' /\ HistoryKept'
<1>0. ~Committed' /\ SaveRevisions' = SaveRevisions
  BY DEF Committed, SaveRevisions
<1>1. OthersShow => OthersShow'
  BY DEF OthersShow, ShowsLast, Projects
<1>2. AppliedShow' /\ NoneOverlooked'
  BY DEF AppliedShow, NoneOverlooked, Alone
<1>3. HistoryKept'
  BY <1>0 DEF HistoryKept, Alone
<1> QED  BY <1>1, <1>2, <1>3 DEF MirrorsShow

\* The journal of a plan that has been projected is removed.
LEMMA DoneShown ==
    ASSUME Log, Revisions, JournalInv, MirrorsShow, HistoryKept, NEW p \in Procs, Alone(p),
           pc[p] \in {"redo", "apply"}, left[p] = <<>>, pending' = NoPlan,
           UNCHANGED <<marker, receipts, mirror, history, edits>>, pc'[p] \notin {"redo", "apply"}
    PROVE  MirrorsShow' /\ HistoryKept'
<1>0. /\ ~Committed' /\ SaveRevisions' = SaveRevisions /\ Committed /\ pending # NoPlan /\ Plan
      /\ Range(left[p]) = {}
  BY DEF Committed, SaveRevisions, JournalInv, Projecting, Range
<1>1. /\ marker \in receipts /\ marker.op = pending.op /\ marker.scopes = pending.scopes
      /\ marker.id = pending.id
  BY <1>0 DEF Committed, Matches, Log
<1>2. ASSUME OthersShow, AppliedShow, NEW f \in Files PROVE ShowsLast(f)
  <2>1. CASE f \notin Targets
    BY <1>2, <2>1 DEF OthersShow
  <2>2. CASE f \in Targets
    <3>1. mirror[f] = marker.id
      BY <1>0, <1>1, <1>2, <2>2 DEF AppliedShow
    <3>2. Projects(marker, f)
      BY <1>0, <1>1, <2>2 DEF Plan, Projects
    <3>3. ASSUME NEW c \in receipts, \A d \in receipts : Projects(d, f) => d.revision <= c.revision
          PROVE  c = marker
      BY <1>1, <3>2, <3>3 DEF Log
    <3> QED  BY <3>1, <3>3 DEF ShowsLast
  <2> QED  BY <2>1, <2>2
<1>3. OthersShow /\ AppliedShow => OthersShow'
  BY <1>2 DEF OthersShow, ShowsLast, Projects
<1>4. AppliedShow' /\ NoneOverlooked'
  BY DEF AppliedShow, NoneOverlooked, Alone
<1>5. Faithful(history, SaveRevisions)
  <2>1. CASE pending.op = "save"
    <3>1. history = Append(pending.lines, marker.revision)
      BY <1>0, <2>1 DEF HistoryKept
    <3>2. Faithful(pending.lines, SaveRevisions \ {marker.revision})
      BY <1>0, <2>1 DEF HistoryKept
    <3>3. marker.revision \in SaveRevisions
      BY <1>1, <2>1 DEF SaveRevisions
    <3>4. SaveRevisions \in SUBSET Nat /\ \A x \in SaveRevisions : x <= marker.revision
      BY SaveRevisionsFacts DEF Revisions
    <3> QED  BY <3>1, <3>2, <3>3, <3>4, AppendFaithful
  <2>2. CASE pending.op # "save"
    BY <2>2 DEF HistoryKept
  <2> QED  BY <2>1, <2>2
<1>6. HistoryKept'
  BY <1>0, <1>5 DEF HistoryKept, Alone
<1> QED  BY <1>3, <1>4, <1>6 DEF MirrorsShow

LEMMA PrepareShown ==
    ASSUME TokenInv, Log, MirrorsShow, HistoryKept, NEW p \in Procs, Alone(p), pc[p] = "body",
           pc'[p] = "commit", NEW op \in Kinds, NEW s \in Scopes, Prepared(op, s),
           pending'.token = tokens + 1, op = "save" => pending'.lines = history,
           UNCHANGED <<marker, receipts, mirror, history, edits>>
    PROVE  MirrorsShow' /\ HistoryKept'
<1>0. ~Committed /\ SaveRevisions' = SaveRevisions
  BY DEF TokenInv, JournalOf, Committed, SaveRevisions
<1>1. ~Committed'
  <2>1. marker # NoMarker => marker.token # tokens + 1
    BY FreshToken DEF TokenInv, TokensOrdered
  <2> QED  BY <2>1 DEF Committed, Matches
<1>2. OthersShow => OthersShow'
  BY <1>0 DEF OthersShow, ShowsLast, Projects
<1>3. AppliedShow'
  BY DEF AppliedShow, Alone
<1>4. NoneOverlooked'
  BY PreparedPlan DEF NoneOverlooked, Prepared
<1>5. HistoryKept'
  BY <1>0, <1>1 DEF HistoryKept, Alone, Prepared
<1> QED  BY <1>2, <1>3, <1>4, <1>5 DEF MirrorsShow

LEMMA CommitShown ==
    ASSUME TokenInv, Log, JournalInv, MirrorsShow, HistoryKept, NEW p \in Procs,
           CommitSave(p) \/ CommitClear(p)
    PROVE  MirrorsShow' /\ HistoryKept'
<1>0. Alone(p) /\ pc'[p] = "apply" /\ Committed' /\ left'[p] = pending.targets
  BY CommitJournal
<1>1. pc[p] = "commit" /\ UNCHANGED <<mirror, history, pending, edits>> /\ Record(pending)
  BY DEF CommitSave, CommitClear, disk
<1>2. pending # NoPlan /\ ~Committed /\ Plan
  BY <1>1, BeforeCommit DEF JournalInv
<1>3. PICK c : Recorded(c, pending)
  BY <1>1, RecordedOne
<1>4. /\ receipts' = receipts \cup {c} /\ c.op = pending.op /\ c.scopes = pending.scopes /\ c.id = pending.id
      /\ marker'.revision = c.revision /\ c.revision \in Nat
      /\ \A d \in receipts : d.revision \in Nat /\ d.revision < c.revision
  BY <1>3 DEF Recorded, Log, TokenInv, Revisions
<1>5. Targets' = Targets
  BY <1>1 DEF Targets
<1>6. ASSUME OthersShow, NoneOverlooked, NEW f \in Files, f \notin Targets PROVE ShowsLast(f)'
  <2> SUFFICES ASSUME NEW d \in receipts', Projects(d, f),
                      \A e \in receipts' : Projects(e, f) => e.revision <= d.revision
               PROVE  mirror[f] = d.id
    BY <1>1 DEF ShowsLast, Projects
  <2>1. CASE pending.op = "clear_all"
    <3>1. mirror[f] = pending.id
      BY <1>2, <1>6, <2>1 DEF NoneOverlooked, Plan
    <3>2. Projects(c, f)
      BY <1>4, <2>1 DEF Projects
    <3>3. d = c
      BY <1>4, <3>2
    <3> QED  BY <1>4, <3>1, <3>3
  <2>2. CASE pending.op # "clear_all"
    <3>1. ~Projects(c, f)
      BY <1>2, <1>4, <1>6, <2>2 DEF Plan, Projects
    <3>2. d \in receipts
      BY <1>4, <3>1
    <3>3. ShowsLast(f)
      BY <1>2, <1>6 DEF OthersShow
    <3> QED  BY <1>4, <3>2, <3>3 DEF ShowsLast
  <2> QED  BY <2>1, <2>2
<1>7. OthersShow /\ NoneOverlooked => OthersShow'
  BY <1>0, <1>5, <1>6 DEF OthersShow
<1>8. AppliedShow'
  BY <1>0, <1>1 DEF AppliedShow, Alone, Targets
<1>9. NoneOverlooked => NoneOverlooked'
  BY <1>1, <1>5 DEF NoneOverlooked
<1>10. HistoryKept'
  <2>1. CASE pending.op = "save"
    <3>1. SaveRevisions' \ {marker'.revision} = SaveRevisions
      BY <1>4, <2>1 DEF SaveRevisions
    <3>2. Faithful(pending'.lines, SaveRevisions' \ {marker'.revision})
      BY <1>1, <1>2, <2>1, <3>1 DEF HistoryKept
    <3>3. History \in Range(left'[p])
      BY <1>0, <1>2, <2>1 DEF Plan, Targets
    <3> QED  BY <1>0, <1>1, <2>1, <3>2, <3>3 DEF HistoryKept, Alone
  <2>2. CASE pending.op # "save"
    <3>1. SaveRevisions' = SaveRevisions
      BY <1>4, <2>2 DEF SaveRevisions
    <3> QED  BY <1>0, <1>1, <1>2, <2>2, <3>1 DEF HistoryKept
  <2> QED  BY <2>1, <2>2
<1> QED  BY <1>1, <1>7, <1>8, <1>9, <1>10 DEF MirrorsShow

LEMMA ApplyShown ==
    ASSUME TokenInv, JournalInv, MirrorsShow, HistoryKept, NEW p \in Procs, ApplyTarget(p)
    PROVE  MirrorsShow' /\ HistoryKept'
<1>0. Alone(p) /\ pc'[p] = pc[p] /\ left'[p] = Tail(left[p])
  BY ApplyJournal
<1>1. /\ pc[p] \in {"redo", "apply"} /\ left[p] # <<>>
      /\ UNCHANGED <<marker, receipts, pending, edits>>
  BY DEF ApplyTarget, tables
<1>2. /\ Committed /\ pending # NoPlan /\ Plan
      /\ left[p] \in Seq(Files \cup {History}) /\ Range(left[p]) \subseteq Targets
  BY <1>1 DEF JournalInv, Projecting, Committed
<1>3. Committed' /\ Targets' = Targets /\ SaveRevisions' = SaveRevisions
  BY <1>1, <1>2, SameCommitted DEF Targets, SaveRevisions
<1>4. PICK f : f = Head(left[p])
  OBVIOUS
<1>5. f \in Files \cup {History} /\ f \in Targets /\ Range(left[p]) = {f} \cup Range(left'[p])
  BY <1>0, <1>1, <1>2, <1>4, HeadOfRange
<1>6. /\ f = History => history' = Append(pending.lines, marker.revision) /\ mirror' = mirror
      /\ f # History => mirror' = [mirror EXCEPT ![f] = pending.id] /\ history' = history
  BY <1>4 DEF ApplyTarget, Desired
<1>7. DOMAIN mirror' = Files /\ edits' \in Nat
  BY <1>1, <1>6 DEF MirrorsShow
<1>8. \A g \in Files : (g # f => mirror'[g] = mirror[g]) /\ (g = f => mirror'[g] = pending.id)
  BY <1>6, FilesApart DEF MirrorsShow
<1>9. OthersShow => OthersShow'
  BY <1>1, <1>2, <1>3, <1>5, <1>8 DEF OthersShow, ShowsLast, Projects
<1>10. AppliedShow => AppliedShow'
  <2> SUFFICES ASSUME AppliedShow, NEW g \in Files \cap Targets
               PROVE  g \in Range(left'[p]) \/ mirror'[g] = pending.id
    BY <1>0, <1>1, <1>3 DEF AppliedShow, Alone
  <2>1. g \in Range(left[p]) \/ mirror[g] = pending.id
    BY <1>1 DEF AppliedShow
  <2> QED  BY <1>5, <1>8, <2>1
<1>11. NoneOverlooked => NoneOverlooked'
  BY <1>1, <1>3, <1>5, <1>8 DEF NoneOverlooked
<1>12. HistoryKept'
  <2>1. CASE pending.op = "save"
    <3>1. Faithful(pending'.lines, SaveRevisions' \ {marker'.revision})
      BY <1>1, <1>2, <1>3, <2>1 DEF HistoryKept
    <3>2. History \in Range(left'[p]) \/ history' = Append(pending.lines, marker.revision)
      BY <1>1, <1>5, <1>6, <2>1 DEF HistoryKept
    <3> QED  BY <1>0, <1>1, <1>3, <2>1, <3>1, <3>2 DEF HistoryKept, Alone
  <2>2. CASE pending.op # "save"
    <3>1. f # History
      BY <1>2, <1>5, <2>2 DEF Plan
    <3> QED  BY <1>1, <1>3, <1>6, <2>2, <3>1 DEF HistoryKept
  <2> QED  BY <2>1, <2>2
<1> QED  BY <1>1, <1>7, <1>9, <1>10, <1>11, <1>12 DEF MirrorsShow

LEMMA CompactShown ==
    ASSUME TokenInv, Log, MirrorsShow, HistoryKept, NEW p \in Procs, Alone(p), pc'[p] = "idle", Compact(p)
    PROVE  MirrorsShow' /\ HistoryKept'
<1>0. pc[p] = "body" /\ UNCHANGED <<marker, receipts, mirror, pending, edits>>
  BY DEF Compact, tables
<1>1. ~Committed /\ ~Committed' /\ pending' = NoPlan /\ SaveRevisions' = SaveRevisions
  BY <1>0 DEF TokenInv, JournalOf, Committed, SaveRevisions
<1>2. OthersShow => OthersShow'
  BY <1>0, <1>1 DEF OthersShow, ShowsLast, Projects
<1>3. AppliedShow' /\ NoneOverlooked'
  BY <1>1 DEF AppliedShow, NoneOverlooked, Alone
<1>4. Faithful(history, SaveRevisions)
  BY <1>1 DEF HistoryKept
<1>5. PICK keep \in 1 .. MaxHistory :
        history' = IF Len(history) <= keep THEN history
                   ELSE SubSeq(history, Len(history) - keep + 1, Len(history))
  BY DEF Compact
<1>6. keep \in Nat \ {0} /\ Len(history) \in Nat /\ SaveRevisions \in SUBSET Nat
  BY <1>4, LimitsAssumption, SaveRevisionsFacts DEF Faithful, TokenInv, Revisions
<1>7. Faithful(history', SaveRevisions)
  <2>1. CASE Len(history) <= keep
    BY <1>4, <1>5, <2>1
  <2>2. CASE Len(history) > keep
    <3>1. history' = SubSeq(history, Len(history) - keep + 1, Len(history))
      BY <1>5, <1>6, <2>2
    <3> QED  BY <1>4, <1>6, <2>2, <3>1, CompactFaithful
  <2> QED  BY <1>6, <2>1, <2>2
<1>8. HistoryKept'
  BY <1>1, <1>7 DEF HistoryKept, Alone
<1> QED  BY <1>0, <1>2, <1>3, <1>8 DEF MirrorsShow
-----------------------------------------------------------------------------
(* What read_chat returns.                                                 *)

LEMMA ResolveSays ==
    ASSUME RowsInv, NEW s \in Scopes
    PROVE  /\ Resolve(s) \in Ids => Says(s, Resolve(s)) \/ Says(s, Untracked)
           /\ Resolve(s) = NoId => Says(s, Untracked) \/ Says(s, Tombstoned)
<1>1. PICK x : x = Selection(s)
  OBVIOUS
<1>2. Says(s, x)
  BY <1>1, RowsSay
<1>3. x \in {Untracked, Tombstoned} \/ x \in Ids
  <2>1. \A c \in receipts : c.op = "save" => c.id \in Ids
    BY DEF RowsInv, Log
  <2> QED  BY <1>2, <2>1 DEF Says
<1>4. PICK y : y = mirror[Mirror(s)]
  OBVIOUS
<1>5. Resolve(s) = CASE x = Untracked -> y [] x = Tombstoned -> NoId [] x = y -> y [] OTHER -> "error"
  BY <1>1, <1>4 DEF Resolve
<1>6. CASE x = Untracked
  BY <1>2, <1>6
<1>7. CASE x = Tombstoned
  <2>1. CASE y = x
    BY <1>2, <1>5, <1>7, <2>1, NamesAssumption DEF Untracked, Tombstoned
  <2>2. CASE y # x
    BY <1>2, <1>5, <1>7, <2>2, NamesAssumption DEF Untracked, Tombstoned
  <2> QED  BY <2>1, <2>2
<1>8. CASE x \in Ids
  <2>1. x # Untracked /\ x # Tombstoned /\ x # NoId
    BY <1>8, NamesAssumption DEF Untracked, Tombstoned
  <2>2. Resolve(s) = IF x = y THEN x ELSE "error"
    BY <1>5, <2>1
  <2> QED  BY <1>2, <2>1, <2>2, NamesAssumption
<1> QED  BY <1>3, <1>6, <1>7, <1>8

LEMMA AnswerSays ==
    ASSUME RowsInv, NEW s \in Scopes, answer' = [scope |-> s, result |-> ReadChat(s)],
           UNCHANGED receipts
    PROVE  NoResurrection'
<1>1. answer'.scope = s /\ answer'.result = ReadChat(s) /\ Global \in Scopes
  BY DEF Scopes
<1>2. \A o, x : Says(o, x)' = Says(o, x)
  BY DEF Says, IsLatest, Touches
<1>3. CASE s = Global \/ Resolve(s) # NoId
  <2>1. ReadChat(s) = Resolve(s)
    BY <1>3 DEF ReadChat
  <2> QED  BY <1>1, <1>2, <2>1, ResolveSays DEF NoResurrection
<1>4. CASE s # Global /\ Resolve(s) = NoId
  <2>1. ReadChat(s) = Resolve(Global)
    BY <1>4 DEF ReadChat
  <2>2. Says(s, Untracked) \/ Says(s, Tombstoned)
    BY <1>4, ResolveSays
  <2> QED  BY <1>1, <1>2, <2>1, <2>2, ResolveSays DEF NoResurrection
<1> QED  BY <1>3, <1>4

-----------------------------------------------------------------------------
(* The whole invariant.                                                    *)

Rest == RowsInv /\ JournalInv /\ MirrorsShow /\ HistoryKept

MirrorInv == TokenInv /\ Rest /\ Answered

LEMMA MirrorInvInit == Init => MirrorInv
<1> SUFFICES ASSUME Init PROVE MirrorInv
  OBVIOUS
<1>0. /\ receipts = {} /\ marker = NoMarker /\ clearAll = 0 /\ pending = NoPlan /\ edits = 0
      /\ history = <<>> /\ answer = NoAnswer /\ DOMAIN mirror = Files
      /\ DOMAIN call = Procs /\ DOMAIN left = Procs /\ \A p \in Procs : pc[p] = "idle"
  BY DEF Init
<1>1. RowsInv
  <2>1. Log /\ ClearedAll
    BY <1>0 DEF Log, ClearedAll
  <2>2. \A s \in Scopes : RowsOf(s)
    BY <1>0 DEF RowsOf, Untouched, Init, NoRow
  <2>3. ASSUME NEW s, NEW op PROVE HasLatest(op, s)
    <3>1. Found(op, s) = {0}
      BY <1>0 DEF Found
    <3> QED  BY <3>1 DEF HasLatest
  <2> QED  BY <2>1, <2>2, <2>3 DEF RowsInv
<1>2. JournalInv
  BY <1>0 DEF JournalInv, Plan, Spared, InCall, Projecting
<1>3. MirrorsShow
  BY <1>0 DEF MirrorsShow, OthersShow, ShowsLast, AppliedShow, NoneOverlooked
<1>4. HistoryKept
  <2>1. SaveRevisions = {} /\ ~Committed
    BY <1>0 DEF SaveRevisions, Committed
  <2>2. Faithful(history, SaveRevisions)
    BY <1>0, <2>1 DEF Faithful
  <2> QED  BY <1>0, <2>1, <2>2 DEF HistoryKept
<1> QED  BY <1>0, <1>1, <1>2, <1>3, <1>4, TokenInvInit DEF MirrorInv, Rest, Answered

LEMMA SameRows ==
    ASSUME RowsInv, UNCHANGED tables
    PROVE  RowsInv'
BY DEF RowsInv, tables, Log, ClearedAll, RowsOf, Untouched, LastOf, RowsBy, HasLatest, Found, Touches

\* The operation ends and nothing is written.
LEMMA LeaveRest ==
    ASSUME TokenInv, Rest, NEW p \in Procs, pc[p] # "idle", Release(p),
           UNCHANGED <<tables, disk, pending, edits>>
    PROVE  Rest'
<1>1. RowsInv'
  BY SameRows DEF Rest
<1>2. UNCHANGED <<marker, selection, receipts, mirror, history>>
  BY DEF tables, disk
<1>3. JournalInv' /\ Alone(p) /\ pc'[p] = "idle"
  BY <1>2, LeaveJournal DEF Rest
<1>4. MirrorsShow' /\ HistoryKept'
  BY <1>2, <1>3, StillShown DEF Rest
<1> QED  BY <1>1, <1>3, <1>4 DEF Rest

\* The journal is written.
LEMMA PrepareRest ==
    ASSUME TokenInv, Rest, NEW p \in Procs, NEW op \in Kinds, NEW s \in Scopes, Prepared(op, s),
           op = "clear_scope" => ClearAuthorized(s), pending'.token = tokens + 1,
           op = "save" => pending'.lines = history, pc[p] = "body", Goto(p, "commit"),
           UNCHANGED <<tables, disk, call, left, edits>>
    PROVE  Rest'
<1>1. RowsInv'
  BY SameRows DEF Rest
<1>2. UNCHANGED <<marker, selection, receipts, mirror, history>> /\ pc' = [pc EXCEPT ![p] = "commit"]
  BY DEF tables, disk, Goto
<1>3. JournalInv' /\ Alone(p) /\ pc'[p] = "commit"
  BY <1>2, PrepareJournal DEF Rest
<1>4. MirrorsShow' /\ HistoryKept'
  BY <1>2, <1>3, PrepareShown DEF Rest, RowsInv
<1> QED  BY <1>1, <1>3, <1>4 DEF Rest
LEMMA BeginRest ==
    ASSUME TokenInv, Rest, NEW p \in Procs, Begin(p)
    PROVE  Rest'
<1>1. RowsInv'
  BY SameRows DEF Rest, Begin
<1>2. UNCHANGED <<marker, selection, receipts, mirror, history, pending, left, edits>>
  BY DEF Begin, tables, disk
<1>3. Alone(p) /\ pc'[p] = "recover"
  BY Sole DEF Begin, Goto
<1>4. DOMAIN call' = Procs /\ DOMAIN left' = Procs /\ call'[p] \in Calls
  BY <1>2 DEF Begin, Rest, JournalInv, InCall
<1>5. JournalInv'
  BY <1>2, <1>3, <1>4, JournalStays DEF Rest, Projecting
<1>6. MirrorsShow' /\ HistoryKept'
  BY <1>2, <1>3, StillShown DEF Rest
<1> QED  BY <1>1, <1>5, <1>6 DEF Rest

LEMMA RecoverNothingRest ==
    ASSUME TokenInv, Rest, NEW p \in Procs, RecoverNothing(p)
    PROVE  Rest'
<1>1. RowsInv'
  BY SameRows DEF Rest, RecoverNothing
<1>2. UNCHANGED <<marker, receipts, mirror, history, call, left, edits>> /\ pending' = NoPlan /\ ~Committed
  BY DEF RecoverNothing, tables, disk
<1>3. Alone(p) /\ pc'[p] = "body"
  BY Sole DEF RecoverNothing, Goto
<1>4. DOMAIN call' = Procs /\ DOMAIN left' = Procs /\ call'[p] \in Calls
  BY <1>2 DEF RecoverNothing, Rest, JournalInv, InCall
<1>5. JournalInv'
  BY <1>2, <1>3, <1>4, EmptyJournal DEF Rest
<1>6. MirrorsShow' /\ HistoryKept'
  BY <1>2, <1>3, DiscardShown DEF Rest
<1> QED  BY <1>1, <1>5, <1>6 DEF Rest

LEMMA RecoverCommittedRest ==
    ASSUME TokenInv, Rest, NEW p \in Procs, RecoverCommitted(p)
    PROVE  Rest'
<1>1. /\ pc[p] = "recover" /\ Committed /\ pending # NoPlan /\ UNCHANGED <<tables, disk, pending, edits>>
      /\ UNCHANGED <<marker, selection, receipts, mirror, history>>
  BY DEF RecoverCommitted, tables, disk, Committed
<1>2. CASE Release(p)
  BY <1>1, <1>2, LeaveRest
<1>3. CASE Goto(p, "redo") /\ left' = [left EXCEPT ![p] = pending.targets] /\ UNCHANGED <<holder, call>>
  <2>1. RowsInv'
    BY <1>1, SameRows DEF Rest
  <2>2. JournalInv' /\ Alone(p) /\ pc'[p] = "redo" /\ left'[p] = pending.targets
    BY <1>1, <1>3, RedoJournal DEF Rest
  <2>3. MirrorsShow' /\ HistoryKept'
    BY <1>1, <2>2, StillShown DEF Rest
  <2> QED  BY <2>1, <2>2, <2>3 DEF Rest
<1> QED  BY <1>2, <1>3 DEF RecoverCommitted

LEMMA PrepareSaveRest ==
    ASSUME TokenInv, Rest, NEW p \in Procs, PrepareSave(p)
    PROVE  Rest'
<1>1. pc[p] = "body" /\ call[p].op = "save" /\ UNCHANGED <<tables, disk, edits>>
  BY DEF PrepareSave
<1>2. CASE Release(p) /\ UNCHANGED <<pending, tokens>>
  BY <1>1, <1>2, LeaveRest
<1>3. CASE Len(history) < MaxHistory
  <2>1. call[p] \in Calls
    BY <1>1 DEF Rest, JournalInv, InCall
  <2>2. PICK s \in Scopes, i \in Ids : s = call[p].scope /\ i = call[p].id
    BY <1>1, <2>1 DEF Calls
  <2>3. pending' = [op      |-> "save",
                    scopes  |-> PlanScopes("save", s),
                    id      |-> i,
                    token   |-> tokens + 1,
                    targets |-> PlanTargets("save", s),
                    before  |-> Snapshot(PlanTargets("save", s)),
                    lines   |-> history]
    BY <1>3, <2>2 DEF PrepareSave
  <2>4. Prepared("save", s) /\ pending'.token = tokens + 1 /\ pending'.lines = history
    BY <2>3 DEF Prepared
  <2>5. Goto(p, "commit") /\ UNCHANGED <<call, left>>
    BY <1>3 DEF PrepareSave
  <2> QED  BY <1>1, <2>4, <2>5, PrepareRest DEF Kinds
<1> QED  BY <1>2, <1>3 DEF PrepareSave

LEMMA PrepareClearRest ==
    ASSUME TokenInv, Rest, NEW p \in Procs, PrepareClear(p)
    PROVE  Rest'
<1>1. pc[p] = "body" /\ call[p].op \in {"clear_scope", "clear_all"} /\ UNCHANGED <<tables, disk, edits>>
  BY DEF PrepareClear
<1>2. CASE Release(p) /\ UNCHANGED <<pending, tokens>>
  BY <1>1, <1>2, LeaveRest
<1>3. CASE call[p].op = "clear_all" \/ ClearAuthorized(call[p].scope)
  <2>1. call[p] \in Calls
    BY <1>1 DEF Rest, JournalInv, InCall
  <2>2. PICK s \in Scopes, op \in Kinds : s = call[p].scope /\ op = call[p].op /\ op # "save"
    BY <1>1, <2>1 DEF Calls, Kinds
  <2>3. pending' = [op      |-> op,
                    scopes  |-> PlanScopes(op, s),
                    id      |-> NoId,
                    token   |-> tokens + 1,
                    targets |-> PlanTargets(op, s),
                    before  |-> Snapshot(PlanTargets(op, s))]
    BY <1>3, <2>2 DEF PrepareClear
  <2>4. Prepared(op, s) /\ pending'.token = tokens + 1
    BY <2>2, <2>3 DEF Prepared
  <2>5. Goto(p, "commit") /\ UNCHANGED <<call, left>>
    BY <1>3 DEF PrepareClear
  <2>6. op = "clear_scope" => ClearAuthorized(s)
    BY <1>3, <2>2
  <2> QED  BY <1>1, <2>2, <2>4, <2>5, <2>6, PrepareRest
<1> QED  BY <1>2, <1>3 DEF PrepareClear

LEMMA CommitRest ==
    ASSUME TokenInv, Rest, NEW p \in Procs, CommitSave(p) \/ CommitClear(p)
    PROVE  Rest'
<1>1. pc[p] = "commit"
  BY DEF CommitSave, CommitClear
<1>2. pending # NoPlan /\ Revisions /\ Plan
  BY <1>1 DEF TokenInv, JournalOf, Rest, JournalInv
<1>3. RowsInv'
  BY <1>2, CommitSaveRows, CommitClearRows DEF Rest
<1>4. JournalInv'
  BY CommitJournal DEF Rest
<1>5. MirrorsShow' /\ HistoryKept'
  BY CommitShown DEF Rest, RowsInv
<1> QED  BY <1>3, <1>4, <1>5 DEF Rest

LEMMA ApplyDoneRest ==
    ASSUME TokenInv, Rest, NEW p \in Procs, ApplyDone(p)
    PROVE  Rest'
<1>1. RowsInv'
  BY SameRows DEF Rest, ApplyDone
<1>2. /\ UNCHANGED <<marker, receipts, mirror, history, edits>> /\ pending' = NoPlan
      /\ pc[p] \in {"redo", "apply"} /\ left[p] = <<>>
  BY DEF ApplyDone, tables, disk
<1>3. PICK l \in {"body", "idle"} : pc' = [pc EXCEPT ![p] = l] /\ (l = "body" => UNCHANGED call)
  BY DEF ApplyDone, Goto, Release
<1>4. Alone(p) /\ pc'[p] = l
  BY <1>2, <1>3, Sole
<1>5. DOMAIN call' = Procs /\ DOMAIN left' = Procs
  BY DEF ApplyDone, Release, Rest, JournalInv, InCall
<1>6. l = "body" => call'[p] \in Calls
  BY <1>2, <1>3 DEF Rest, JournalInv, InCall
<1>7. JournalInv'
  BY <1>2, <1>4, <1>5, <1>6, EmptyJournal DEF Rest
<1>8. MirrorsShow' /\ HistoryKept'
  BY <1>2, <1>4, DoneShown DEF Rest, RowsInv, TokenInv
<1> QED  BY <1>1, <1>7, <1>8 DEF Rest

LEMMA CompactRest ==
    ASSUME TokenInv, Rest, NEW p \in Procs, Compact(p)
    PROVE  Rest'
<1>1. /\ pc[p] # "idle" /\ Release(p) /\ UNCHANGED tables /\ UNCHANGED <<marker, selection, pending>>
  BY DEF Compact, tables
<1>2. RowsInv'
  BY <1>1, SameRows DEF Rest
<1>3. JournalInv' /\ Alone(p) /\ pc'[p] = "idle"
  BY <1>1, LeaveJournal DEF Rest
<1>4. MirrorsShow' /\ HistoryKept'
  BY <1>3, CompactShown DEF Rest, RowsInv
<1> QED  BY <1>2, <1>3, <1>4 DEF Rest

\* Whoever writes into a mirror touches neither rows nor journal nor history.
LEMMA EditRest ==
    ASSUME Rest, Edit
    PROVE  Rest'
<1>1. UNCHANGED <<tables, history, pending, local>> /\ edits' = edits + 1
  BY DEF Edit
<1>2. UNCHANGED <<marker, receipts, selection, pc, call, left>>
  BY <1>1 DEF tables, local
<1>3. RowsInv'
  BY <1>1, SameRows DEF Rest
<1>4. JournalInv'
  BY <1>1, <1>2, SameCommitted DEF Rest, JournalInv, Plan, Spared, InCall, Projecting, Targets, Projects
<1>5. MirrorsShow'
  <2>1. DOMAIN mirror' = Files /\ edits' \in Nat /\ edits' # 0
    BY <1>1 DEF Edit, Rest, MirrorsShow
  <2> QED  BY <2>1 DEF MirrorsShow
<1>6. HistoryKept'
  BY <1>1, <1>2, SameCommitted DEF Rest, HistoryKept, SaveRevisions
<1> QED  BY <1>3, <1>4, <1>5, <1>6 DEF Rest

LEMMA StutterRest ==
    ASSUME Rest, UNCHANGED vars
    PROVE  Rest'
<1>1. /\ UNCHANGED tables
      /\ UNCHANGED <<marker, receipts, selection, mirror, history, pending, pc, call, left, edits>>
  BY DEF vars, tables, disk, local
<1>2. RowsInv'
  BY <1>1, SameRows DEF Rest
<1>3. JournalInv'
  BY <1>1, SameCommitted DEF Rest, JournalInv, Plan, Spared, InCall, Projecting, Targets, Projects
<1>4. MirrorsShow'
  BY <1>1, SameCommitted DEF Rest, MirrorsShow, OthersShow, ShowsLast, AppliedShow, NoneOverlooked, Targets, Projects
<1>5. HistoryKept'
  BY <1>1, SameCommitted DEF Rest, HistoryKept, SaveRevisions
<1> QED  BY <1>2, <1>3, <1>4, <1>5 DEF Rest
\* One step per action.
LEMMA RestStep == TokenInv /\ Rest /\ [Next]_vars => Rest'
<1> SUFFICES ASSUME TokenInv, Rest, [Next]_vars PROVE Rest'
  OBVIOUS
<1>1. ASSUME NEW p \in Procs, Begin(p) PROVE Rest'
  BY <1>1, BeginRest
<1>2. ASSUME NEW p \in Procs, RecoverNothing(p) PROVE Rest'
  BY <1>2, RecoverNothingRest
<1>3. ASSUME NEW p \in Procs, RecoverCommitted(p) PROVE Rest'
  BY <1>3, RecoverCommittedRest
<1>4. ASSUME NEW p \in Procs, RecoverRefused(p) PROVE Rest'
  BY <1>4, LeaveRest DEF RecoverRefused
<1>5. ASSUME NEW p \in Procs, PrepareSave(p) PROVE Rest'
  BY <1>5, PrepareSaveRest
<1>6. ASSUME NEW p \in Procs, PrepareClear(p) PROVE Rest'
  BY <1>6, PrepareClearRest
<1>7. ASSUME NEW p \in Procs, CommitSave(p) \/ CommitClear(p) PROVE Rest'
  BY <1>7, CommitRest
<1>8. ASSUME NEW p \in Procs, ApplyTarget(p) PROVE Rest'
  <2>1. RowsInv'
    BY <1>8, SameRows DEF Rest, ApplyTarget
  <2> QED  BY <1>8, <2>1, ApplyJournal, ApplyShown DEF Rest
<1>9. ASSUME NEW p \in Procs, ApplyDiverged(p) PROVE Rest'
  BY <1>9, LeaveRest DEF ApplyDiverged
<1>10. ASSUME NEW p \in Procs, ApplyDone(p) PROVE Rest'
  BY <1>10, ApplyDoneRest
<1>11. ASSUME NEW p \in Procs, Read(p) PROVE Rest'
  BY <1>11, LeaveRest DEF Read
<1>12. ASSUME NEW p \in Procs, Compact(p) PROVE Rest'
  BY <1>12, CompactRest
<1>13. ASSUME NEW p \in Procs, Abort(p) PROVE Rest'
  BY <1>13, LeaveRest DEF Abort
<1> QED
  BY <1>1, <1>2, <1>3, <1>4, <1>5, <1>6, <1>7, <1>8, <1>9, <1>10, <1>11, <1>12, <1>13,
     EditRest, StutterRest DEF Next, Step

\* An answer stands until the next operation begins, and nobody writes rows meanwhile.
LEMMA AnsweredStep == TokenInv /\ Rest /\ Answered /\ [Next]_vars => Answered'
<1> SUFFICES ASSUME TokenInv, Rest, Answered, [Next]_vars PROVE Answered'
  OBVIOUS
<1>1. ASSUME NEW p \in Procs, Begin(p) PROVE Answered'
  BY <1>1 DEF Begin, Answered
<1>2. ASSUME NEW p \in Procs, Read(p) PROVE Answered'
  <2>1. holder' = NoProc /\ pc[p] = "body" /\ call[p].op = "read" /\ UNCHANGED receipts
    BY <1>2 DEF Read, Release, tables
  <2>2. call[p].scope \in Scopes
    BY <2>1 DEF Rest, JournalInv, InCall, Calls
  <2>3. NoResurrection'
    BY <1>2, <2>1, <2>2, AnswerSays DEF Read, Rest
  <2> QED  BY <2>1, <2>3 DEF Answered
<1>3. ASSUME NEW p \in Procs, pc[p] # "idle", UNCHANGED answer PROVE Answered'
  <2>1. holder = p /\ p # NoProc
    BY <1>3, NamesAssumption DEF TokenInv, Locked
  <2> QED  BY <1>3, <2>1 DEF Answered
<1>4. CASE UNCHANGED <<answer, holder, receipts>>
  <2>1. NoResurrection => NoResurrection'
    BY <1>4 DEF NoResurrection, Says, IsLatest, Touches
  <2> QED  BY <1>4, <2>1 DEF Answered
<1>5. ASSUME NEW p \in Procs, Step(p) \/ Abort(p), ~Read(p) PROVE pc[p] # "idle" /\ UNCHANGED answer
  BY <1>5 DEF Step, Abort, RecoverNothing, RecoverCommitted, RecoverRefused, PrepareSave, PrepareClear,
              CommitSave, CommitClear, ApplyTarget, ApplyDiverged, ApplyDone, Compact
<1>6. CASE Edit \/ UNCHANGED vars
  BY <1>4, <1>6 DEF Edit, vars, tables, local
<1> QED  BY <1>1, <1>2, <1>3, <1>5, <1>6 DEF Next

LEMMA MirrorInvariant == Spec => []MirrorInv
<1>1. MirrorInv /\ [Next]_vars => MirrorInv'
  BY TokenInvStep, RestStep, AnsweredStep DEF MirrorInv
<1> QED  BY <1>1, MirrorInvInit, PTL DEF Spec

\* identity_scope_selection always answers with the last mutation of a scope and never
\* with CorruptData, after any number of saves and clears of any scopes and any crashes.
THEOREM RowsAlwaysFollow == Spec => []RowsFollowReceipts
<1>1. MirrorInv => RowsFollowReceipts
  BY RowsInvFollow DEF MirrorInv, Rest
<1> QED  BY <1>1, MirrorInvariant, PTL

\* Once recover_pending has left no journal behind, every mirror that nobody else wrote to
\* shows the last commit projected onto it, wherever in prepare, commit and projection
\* processes ended before.
THEOREM MirrorsAlwaysFollow == Spec => []MirrorsFollowReceipts
<1>1. ASSUME MirrorInv PROVE MirrorsFollowReceipts
  <2> SUFFICES ASSUME pending = NoPlan, edits = 0, NEW f \in Files PROVE ShowsLast(f)
    BY DEF MirrorsFollowReceipts, IsLatest, ShowsLast
  <2>1. ~Committed
    BY DEF Committed
  <2> QED  BY <1>1, <2>1 DEF MirrorInv, Rest, MirrorsShow, OthersShow
<1> QED  BY <1>1, MirrorInvariant, PTL

\* apply_committed appends the line of a save once, however often its projection is
\* resumed, and compact_history drops only the oldest lines: without a journal the history
\* is the last saves in order, foreign writes to the mirrors or not.
THEOREM HistoryAlwaysExact == Spec => []HistoryExactlyOnce
<1>1. ASSUME MirrorInv PROVE HistoryExactlyOnce
  <2> SUFFICES ASSUME pending = NoPlan PROVE Faithful(history, SaveRevisions)
    BY DEF HistoryExactlyOnce, Faithful
  <2>1. ~Committed
    BY DEF Committed
  <2> QED  BY <1>1, <2>1 DEF MirrorInv, Rest, HistoryKept
<1> QED  BY <1>1, MirrorInvariant, PTL

\* read_chat never returns an id that was cleared or replaced, whatever was written into
\* the mirrors.
THEOREM NothingResurrected == Spec => []NoResurrection
<1>1. MirrorInv => NoResurrection
  BY DEF MirrorInv, Answered, NoResurrection
<1> QED  BY <1>1, MirrorInvariant, PTL

Spares ==
    \A f \in ByCwd, o \in Cwds :
        (/\ mirror[f] # NoId /\ mirror'[f] = NoId /\ edits' = edits
         /\ pending.op = "clear_scope" /\ o \notin pending.scopes /\ CwdFile[o] = f)
            => selection[o].revision = 0 \/ selection[o].id # mirror[f]

LEMMA StepSpares == MirrorInv /\ [Next]_vars => Spares
<1> SUFFICES ASSUME MirrorInv, [Next]_vars, NEW f \in ByCwd, NEW o \in Cwds,
                    mirror[f] # NoId, mirror'[f] = NoId, edits' = edits,
                    pending.op = "clear_scope", o \notin pending.scopes
             PROVE  selection[o].id # mirror[f]
  BY DEF Spares
<1>1. ASSUME NEW p \in Procs, ApplyTarget(p) PROVE selection[o].id # mirror[f]
  <2>1. PICK g : g = Head(left[p])
    OBVIOUS
  <2>2. /\ pc[p] \in {"redo", "apply"} /\ left[p] # <<>> /\ Plan /\ Spared /\ pending # NoPlan
        /\ left[p] \in Seq(Files \cup {History}) /\ Range(left[p]) \subseteq Targets
    BY <1>1 DEF ApplyTarget, MirrorInv, Rest, JournalInv, Projecting, Committed
  <2>3. g \in Targets
    BY <2>1, <2>2, HeadOfRange
  <2>4. g = f
    <3>1. f \in DOMAIN mirror
      BY FilesApart DEF MirrorInv, Rest, MirrorsShow
    <3>2. mirror' = mirror \/ \E x : mirror' = [mirror EXCEPT ![g] = x]
      BY <1>1, <2>1 DEF ApplyTarget
    <3> QED  BY <3>1, <3>2
  <2>5. f # History
    BY FilesApart
  <2>6. mirror[f] \in {pending.before[f], pending.id}
    BY <1>1, <2>1, <2>4, <2>5 DEF ApplyTarget, Projectable, Current, Before, Desired
  <2>7. pending.id = NoId
    BY <2>2 DEF Plan
  <2> QED  BY <2>2, <2>3, <2>4, <2>6, <2>7 DEF Spared
<1>2. ASSUME NEW p \in Procs, Begin(p) \/ Step(p) \/ Abort(p), ~ApplyTarget(p) PROVE mirror' = mirror
  BY <1>2 DEF Begin, Step, Abort, RecoverNothing, RecoverCommitted, RecoverRefused, PrepareSave, PrepareClear,
              CommitSave, CommitClear, ApplyDiverged, ApplyDone, Read, Compact, disk
<1>3. ~Edit
  BY DEF Edit, MirrorInv, Rest, MirrorsShow
<1>4. ~UNCHANGED vars
  BY DEF vars, disk
<1> QED  BY <1>1, <1>2, <1>3, <1>4 DEF Next

\* authorize_clear_scope_candidate is enough although the file is removed only later, by
\* another process perhaps: a scope clear never removes a file that mirrors what another
\* directory has selected, even when their keys collide.
THEOREM ClearAlwaysSparesOthers == Spec => ClearSparesOthers
BY MirrorInvariant, StepSpares, PTL DEF Spec, ClearSparesOthers, Spares
=============================================================================
