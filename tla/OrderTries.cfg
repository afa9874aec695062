\* Three calls of insertMisOrder for one product, read committed, as many turns as
\* calls, on two JVMs that may restart.
CONSTANTS
    c1 = c1
    c2 = c2
    c3 = c3
    p1 = p1
    j1 = j1
    j2 = j2
    Null = Null
    Calls = {c1, c2, c3}
    Prods = {p1}
    Keys = {p1}
    ProdOf <- OneProduct
    Stocks = {1, 3}
    Isolation = "RC"
    DefaultVersion = 0
    LockCalls = {}
    MaxTries = 3
    LockTtl = 1
    MaxTime = 0
    Jvms = {j1, j2}
    Host <- TwoOfThree
    MaxRestarts = 1
SPECIFICATION CodesSpec
INVARIANT RefusedOnlyWhenSoldOut
PROPERTY CodesInSaleOrder
CHECK_DEADLOCK FALSE
