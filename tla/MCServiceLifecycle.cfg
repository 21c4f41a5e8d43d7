\* The main thread in run(), one tray or library thread that calls anything at
\* any time, two shutdown requests at once, and every step that may raise.
CONSTANTS
    Main = main
    Callers = {c1}
    Requests = {r1, r2}
    Handlers = {}
    Faults <- AllFaults
    NoOne = noone
SPECIFICATION FairSpec
INVARIANTS
    TypeOK
    StoppedMeansReleased
    ClientOutlivesUsers
    RunningIsWhole
PROPERTIES
    OwnershipSpec
    StopReturns
    DeadServerIsStopped
    RunReturns
