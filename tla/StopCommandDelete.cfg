\* One command, no stranger: a new service writes its record between the
\* comparison and the removal of the old one.
CONSTANTS
    Instances = {i1, i2}
    Strangers = {}
    Commands = {c1}
    Legacy = {}
    Pids = {p1, p2}
    Urls = {u1, u2}
    MaxPolls = 1
    Nobody = nobody
SPECIFICATION Spec
PROPERTY OnlyOwnStateDeleted
CHECK_DEADLOCK FALSE
