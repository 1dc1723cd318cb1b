SPECIFICATION ServicesSpec
CONSTANTS
    t1 = t1  t2 = t2
    Threads = {t1, t2}
    HEADER = 2
    BASE = 1
    ENDMEM = 11
    Requests = {0, 1, 2, 3}
    Timers = {v1, v2, v3}
    MaxDelay = 4
    TimeRange = 6
    NULL = NULL
INVARIANTS MemoryIsPartitioned FreeBlocksAreMerged WindowsWrap
PROPERTY TimersAreExact
SYMMETRY Exchange
