\* Two calls in one JVM and one in another; names with a bean and blank.
CONSTANTS
    c1 = c1
    c2 = c2
    c3 = c3
    j1 = j1
    j2 = j2
    nf = nf
    blank = blank
    Null = Null
    Default = Default
    Blank = blank
    Calls = {c1, c2, c3}
    Jvms = {j1, j2}
    JvmOf <- TwoJvms
    Names = {nf, blank}
    Beans = {nf}
    MaxCacheTime = 2
    MaxTime = 2
    MaxEdits = 1
SPECIFICATION FairSpec
INVARIANTS TypeOK StaleForLifeAndDelay
PROPERTIES FilledOncePerLife JvmFillsForward EveryCallEnds
CHECK_DEADLOCK FALSE
