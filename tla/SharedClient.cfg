\* The scheduler and one request thread, two more logins.
CONSTANTS
    Worker = worker
    Requests = {r1}
    Nothing = nothing
    MaxLogins = 2
SPECIFICATION FairSpec
INVARIANTS
    TypeOK
    ChatAndSchedulerSendOneBundle
    SchedulerFindsClientOpen
    CallsBounded
PROPERTY RefreshRecovers
