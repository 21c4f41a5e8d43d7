\* Two handled signals, as when Ctrl-C is pressed twice, anywhere after start().
CONSTANTS
    Main = main
    Callers = {}
    Requests = {}
    Handlers = {h1, h2}
    Faults <- Nowhere
    NoOne = noone
    HandlerPoints <- AfterStart
    RaisePoints <- Nowhere
SPECIFICATION FairSignalSpec
PROPERTY SignalEndsRun
\* The main thread waits for a lock it holds: the process hangs, which is what
\* this run shows.
CHECK_DEADLOCK FALSE
