SPECIFICATION PartsSpec
CONSTANTS
    Findings = {f1, f2}
    Scans = {s1, s2}
    MaxScans = 2
    MaxRequests = 2
    MaxCode = 1
    Sites = {g1, g2}
    Paired = {g1}
    Passes = {p1, p2}
    CommitEvery = 1
    TTL = 2
    MaxClock = 3
    MaxPasses = 2
    MaxAsks = 1
    Callers = {c1, c2}
    Unit = 2
    Capacity = 4
    Rate = 1
    MaxWait = 2
    MaxDelay = 1
    KeyTTL = 5
    MaxTime = 7
    a = a b = b i1 = i1 i2 = i2 i3 = i3 k1 = k1 k2 = k2 k3 = k3
    Items = {a, b}
    Secrets = {a, b}
    SecretOf <- MCSecretOf
    Imports = {i1, i2, i3}
    Keys = {k1, k2, k3}
    Payloads <- MCPayloads
    Nobody = Nobody
    NoItem = NoItem
    MaxUpsets = 1
    Walks = {w1, w2, w3}
    Budget = 4
    MaxGauge = 4
SYMMETRY PartsSymmetry
INVARIANTS
    
    GrantsBounded
    OneJobPerKey CompletedMeansStored DuplicateNeedsOverlap CountsAreExact
    SlotsInv
PROPERTIES
    PersonalVerdictKept MachinesNeverOverrule ReplayIsFaithful
    
CHECK_DEADLOCK FALSE
