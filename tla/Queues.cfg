SPECIFICATION SerialSpec
CONSTANTS
    t1 = t1  t2 = t2  x = x  y = y  z = z
    Threads = {t1, t2}
    Idle = Idle
    NULL = NULL
    HIGHPRIO = 3
    CH_TIME_QUANTUM = 0
    Bytes <- Values
    Size <- Sizes
    Readers = {t1, t2}
    Writers = {t1}
    MaxN = 2
    InitPrio <- Priorities
INVARIANTS NobodyIsStranded BytesAreSent
PROPERTY QueuesAreStreams
CHECK_DEADLOCK FALSE
SYMMETRY Exchange
