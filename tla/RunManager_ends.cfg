\* Shutdown, a store failure and an end of the process at every point of two submit calls.
CONSTANTS
    Runs = {r1,r2}
    V4Runs = {r2}
    Submitters = {s1,s2}
    Cancellers = {}
    Waiters = {}
    Worker = worker
    Stopper = stopper
    NoRun = norun
    QueueCapacity = 1
    MayStop = TRUE
    MaxRestarts = 1
    MaxFaults = 1
SPECIFICATION Spec
SYMMETRY Symmetry
CHECK_DEADLOCK FALSE
INVARIANTS
    WorkerSurvives
    AtMostOnce
    ShutdownComplete
    NothingStranded
PROPERTIES
    ImplementsLifecycle
