CONSTANTS
    c1 = c1
    c2 = c2
    Ids = {e1, e2}
    Owners = {o1}
    NoOwner = NoOwner
    Clients = {c1, c2}
    Workers = {w1}
    Connections = 2
    MaxActive = 1
    MaxRetained = 2
    Idle = 1
    Recovery = 1
    MaxTime = 2
    MaxKeys = 2
    MaxDeaths = 1

SPECIFICATION DutiesSpec
INVARIANTS
    EnvironmentsTypeOK
    LeaseFences
    ActiveIsBounded
    SomeoneProceeds
PROPERTY
    RecoverableIsKept
    DeletedOwnersEnd

CHECK_DEADLOCK FALSE
