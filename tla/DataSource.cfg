\* Two threads serve two requests of the dynamic test, one that adds a student and
\* one that does not switch.
CONSTANTS
    d1 = d1
    d2 = d2
    s1 = s1
    o1 = o1
    t1 = t1
    t2 = t2
    Null = Null
    Threads = {t1, t2}
    Requests = {d1, d2, s1, o1}
    Kind <- OneOfEach
SPECIFICATION Spec
INVARIANTS RowsWhereNamed SecondOnlyAfterFirst ThreadsComeBackClean
CHECK_DEADLOCK FALSE
