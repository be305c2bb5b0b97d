SPECIFICATION Spec
CONSTANTS
    o1 = o1
    o2 = o2
    r1 = r1
    r2 = r2
    c1 = c1
    c2 = c2
    k1 = k1
    k2 = k2
    s1 = s1
    s2 = s2
    Clients = {c1, c2}
    Owners = {o1}
    Targets = {r1}
    Asks <- SomeAsks
    Limit = 1
    KeepAnswer = 1
    MaxTime = 1
    MaxEffects = 2
    Nodes = {c1, c2}
    Hooks = {h1, h2}
    MaxActive = 1
    KeepEnded = 1
    MaxDay = 2
    MaxVersion = 4
    Callers = {c1, c2}
    Senders = {c1, c2}
    Keys = {k1, k2}
    MaxRecent = 1
    Hour = 2
    Lease = 1
    Pause = 1
    MaxAttempts = 2
    MaxMinute = 2
    Checks = {c1, c2}
    KeyNumbers = {1, 2}
    MaxAge = 2
    Interval = 2
    Reuse = 1
    Trip = 1
    MaxSecond = 2
    Rows = {1, 2, 3, 4}
    Created <- SomeCreated
    Limits = {1, 2}
    Spenders = {c1, c2}
    Window = 2
    PerWindow = 2
    Tracked = 1
    LastInstant = 4
    Principals = {r1, r2}
    Spellings = {s1, s2, r2}
    PrincipalOf <- SomePrincipalOf
    AccountIds = {o1, o2}
    Files <- SomeFiles
    Revoked = {r1, r2}
    Operators = {c1, c2}
    Drainers = {k1}
    Batch = 1
    MaxRuns = 3
SYMMETRY Symmetry
INVARIANTS
    RequestsTypeOK
    EffectOncePerKey AnswersAreTrue
    LimitsHold EveryoneCanRead NewestClaimDecides RevokedTokensEnd ListingIsExact
    NeverMerged RunsComplete LinkedIsKept
PROPERTIES EndedStaysEnded ImplementsLedger
CHECK_DEADLOCK FALSE
