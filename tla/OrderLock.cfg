\* Two calls of insertMisOrder2, read committed; the clock stands still, so no
\* lock lapses.
CONSTANTS
    c1 = c1
    c2 = c2
    c3 = c3
    c4 = c4
    p1 = p1
    p2 = p2
    Null = Null
    Calls = {c1, c2}
    Prods = {p1}
    Keys = {p1}
    ProdOf <- OneProduct
    Stocks = {2}
    Isolation = "RC"
    DefaultVersion = 0
    LockCalls = {c1, c2}
    MaxTries = 3
    LockTtl = 1
    MaxTime = 0
SPECIFICATION Spec
INVARIANT Conservation
CHECK_DEADLOCK FALSE
