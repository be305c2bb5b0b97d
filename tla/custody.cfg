CONSTANTS
    c1 = c1
    c2 = c2
    s1 = s1
    p1 = p1
    p2 = p2
    q1 = q1
    NoOne = NoOne
    Carbons = {c1, c2}
    Silicons = {s1}
    Known = {c1, s1}
    FirstCustodian <- FirstC1
    Handlers = {p1}
    Requests = {q1}
    Granule = 2
    LookupTtl = 4
    MaxTime = 2

SPECIFICATION AccountsSpec
INVARIANT
    DelegationIsCurrent

CHECK_DEADLOCK FALSE
