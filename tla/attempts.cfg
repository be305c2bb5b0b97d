SPECIFICATION Spec
CONSTANTS
    a1 = a1
    s1 = s1
    s2 = s2
    w1 = w1
    w2 = w2
    r1 = r1
    r2 = r2
    q1 = q1
    q2 = q2
    c1 = c1
    c2 = c2
    Accounts = {a1}
    Schedules = {s1}
    Receivers = {r1, r2}
    Workers = {w1}
    NoWorker = NoWorker
    Crons = {c1}
    Owner <- OneOwner
    Subscriber <- OneSubscriber
    Fires <- OneCron
    MaxTime = 3
    Retention = 2
    Requests = {}
    Lag = 0
    BatchSize = 1
    MaxConcurrency = 1
    Lease = 1
    BaseDelay = 1
    MaxDelay = 1
    JitterPercent = 100
    MaxAttempts = 2
    MaxFaults = 0
INVARIANTS
    AttemptsAreBounded
CHECK_DEADLOCK FALSE
