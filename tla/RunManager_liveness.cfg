\* One run; every thread inside a call is scheduled.
CONSTANTS
    Runs = {r1}
    V4Runs = {}
    Submitters = {s1}
    Cancellers = {c1}
    Waiters = {w1}
    Worker = worker
    Stopper = stopper
    NoRun = norun
    QueueCapacity = 1
    MayStop = TRUE
    MaxRestarts = 0
    MaxFaults = 0
SPECIFICATION FairSpec
PROPERTIES
    CancellationWins
    AdmittedSettles
    WaitersReturn
    ShutdownReturns
CHECK_DEADLOCK FALSE
