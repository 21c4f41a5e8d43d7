\* Two signals: handled at the safe points, raised at every point.
CONSTANTS
    Main = main
    Callers = {}
    Requests = {r1}
    Handlers = {h1, h2}
    Faults <- ClearWorks
    NoOne = noone
    HandlerPoints <- SafePoints
    RaisePoints <- AllPoints
SPECIFICATION FairSignalSpec
INVARIANTS
    HandledSignalsRelease
    ClientClosedOnce
PROPERTY SignalEndsRun
