SPECIFICATION SpecOfAll
CONSTANTS
    c1 = c1
    c2 = c2
    s1 = s1
    p1 = p1
    p2 = p2
    q1 = q1
    NoOne = NoOne
    Carbons = {c1, c2}
    Silicons = {s1}
    Known = {c1, s1}
    FirstCustodian <- FirstC1
    Handlers = {p1}
    Requests = {q1}
    Granule = 2
    LookupTtl = 4
    MaxTime = 2
    f1 = f1
    f2 = f2
    f3 = f3
    a1 = a1
    a2 = a2
    Processes = {p1, p2}
    Families = {f1, f3}
    Accounts = {a1, a2}
    AccountOf <- TwoAccounts
    Slots = {production, test}
    Production = production
    MaxGen = 2
    MaxFaults = 1
    Trips = {t1, t2}
    Servers = {s1}
    Leads = {0, 1}
    TokenLife = 7
    Memo = 3
    Blink = 0
    CallTime = 1
    Travel = 1
    WayBack = 2
    MaxToken = 3
    MaxMoment = 15
INVARIANTS AccountsTypeOK AccessFollowsSignIns SessionTypeOK NoReuse NoOrphans RefreshedOnce
PROPERTIES DeletionIsFinal DelegationEnds WorkingSignInsStay
CHECK_DEADLOCK FALSE
