SPECIFICATION FairSpec
CONSTANTS
    r1 = r1
    r2 = r2
    k1 = k1
    k2 = k2
    k3 = k3
    None = None
    Runs <- TwoRuns
    Keys <- ThreeKeys
    EndpointsOf <- SharedEndpoints
    MaxEntries = 2
    TTL = 2
    Timeout = 1
    MaxLag = 1
    MaxTime = 1
    MaxChanges = 1
INVARIANT Capacity
INVARIANT Timely
INVARIANT ChecksComplete
PROPERTY FreshAnswers
PROPERTY EvictsOldest
PROPERTY EveryCheckReturns
