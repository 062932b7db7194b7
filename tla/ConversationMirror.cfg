\* Processes end anywhere, somebody else writes a mirror, two working directories share a key.
CONSTANTS
    c1 = c1
    c2 = c2
    f1 = f1
    Procs = {p1,p2}
    NoProc = noproc
    Ids = {a,b}
    NoId = noid
    Cwds = {c1,c2}
    ByCwd = {f1}
    CwdFile <- Shared
    MaxPlans = 3
    MaxHistory = 2
    MaxEdits = 1
SPECIFICATION Spec
SYMMETRY Symmetry
INVARIANTS
    MirrorsFollowReceipts
    HistoryExactlyOnce
    DiscardSafe
    RowsFollowReceipts
    NoResurrection
PROPERTIES
    ClearSparesOthers
