\* Four calls of insertMisOrder for one product, read committed, two turns each.
CONSTANTS
    c1 = c1
    c2 = c2
    c3 = c3
    c4 = c4
    p1 = p1
    p2 = p2
    Null = Null
    Calls = {c1, c2, c3, c4}
    Prods = {p1}
    Keys = {p1}
    ProdOf <- OneProduct
    Stocks = {0, 2, 3}
    Isolation = "RC"
    DefaultVersion = 0
    LockCalls = {}
    MaxTries = 2
    LockTtl = 1
    MaxTime = 0
SPECIFICATION Spec
INVARIANTS TypeOK Conservation VersionCountsSales ResultTellsOrder RefusalIsJustified
PROPERTY SaleSpec
SYMMETRY AnyCalls
CHECK_DEADLOCK FALSE
