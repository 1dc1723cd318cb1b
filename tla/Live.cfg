SPECIFICATION LiveSpec
CONSTANTS
    t1 = t1  t2 = t2  t3 = t3  m1 = m1  m2 = m2  c1 = c1
    Threads = {t1, t2, t3}
    Idle = Idle
    NULL = NULL
    HIGHPRIO = 4
    CH_TIME_QUANTUM = 2
    Mutexes = {m1, m2}
    CondVars = {c1}
    InitPrio <- DistinctPrios
    SetPrios = {3}
    MaxItems = 1
INVARIANT InheritsFromWaiters
PROPERTIES InversionIsBounded ConsumersAreWoken EqualsTakeTurns
CHECK_DEADLOCK FALSE
