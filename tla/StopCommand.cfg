\* A command, with and without --force, against two instances that may run
\* side by side, the second without a process identity, on the same or
\* different URLs and PIDs, and a stranger that gets a used PID.
CONSTANTS
    Instances = {i1, i2}
    Strangers = {s1}
    Commands = {c1}
    Legacy = {i2}
    Pids = {p1, p2}
    Urls = {u1, u2}
    MaxPolls = 1
    Nobody = nobody
SPECIFICATION FairSpec
INVARIANTS
    TypeOK
    KillsOnlyTheOwner
    StoppedIsTrue
    StoppedIsForgotten
PROPERTY CommandReturns
\* Nothing has to happen once every process is gone.
CHECK_DEADLOCK FALSE
