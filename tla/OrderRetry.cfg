\* Two calls, five turns and two units, repeatable read.
CONSTANTS
    c1 = c1
    c2 = c2
    c3 = c3
    c4 = c4
    p1 = p1
    p2 = p2
    Null = Null
    Calls = {c1, c2}
    Prods = {p1}
    Keys = {p1}
    ProdOf <- OneProduct
    Stocks = {2}
    Isolation = "RR"
    DefaultVersion = 0
    LockCalls = {}
    MaxTries = 5
    LockTtl = 1
    MaxTime = 0
SPECIFICATION Spec
INVARIANT RefusedOnlyWhenSoldOut
CHECK_DEADLOCK FALSE
