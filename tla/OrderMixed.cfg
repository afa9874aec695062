\* One call of insertMisOrder beside two of insertMisOrder2, whose locks can lapse.
CONSTANTS
    c1 = c1
    c2 = c2
    c3 = c3
    c4 = c4
    p1 = p1
    p2 = p2
    Null = Null
    Calls = {c1, c2, c3}
    Prods = {p1}
    Keys = {p1}
    ProdOf <- OneProduct
    Stocks = {0, 2}
    Isolation = "RC"
    DefaultVersion = 0
    LockCalls = {c2, c3}
    MaxTries = 2
    LockTtl = 1
    MaxTime = 2
SPECIFICATION FairSpec
INVARIANTS TypeOK AccountedFor VersionCountsSales ExclusiveWhileFresh
PROPERTY EveryCallReturns
CHECK_DEADLOCK FALSE
