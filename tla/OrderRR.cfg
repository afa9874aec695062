\* Three calls of insertMisOrder, two of them for one product and one for another,
\* repeatable read.
CONSTANTS
    c1 = c1
    c2 = c2
    c3 = c3
    c4 = c4
    p1 = p1
    p2 = p2
    Null = Null
    Calls = {c1, c2, c3}
    Prods = {p1, p2}
    Keys = {p1, p2}
    ProdOf <- TwoProducts
    Stocks = {1, 2}
    Isolation = "RR"
    DefaultVersion = 0
    LockCalls = {}
    MaxTries = 3
    LockTtl = 1
    MaxTime = 0
SPECIFICATION FairSpec
INVARIANTS Conservation RefusalIsJustified
PROPERTY EveryCallReturns
CHECK_DEADLOCK FALSE
