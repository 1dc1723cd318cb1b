SPECIFICATION SemLiveSpec
CONSTANTS
    t1 = t1  t2 = t2  t3 = t3  s1 = s1  s2 = s2
    Threads = {t1, t2, t3}
    Idle = Idle
    NULL = NULL
    HIGHPRIO = 3
    CH_TIME_QUANTUM = 0
    Sems = {s1, s2}
    Calls = {"none", "sleep", "semwait"}
    InitPrio <- Priorities
    InitCounts <- OneUnit
    ResetCounts = {0}
    MaxCnt = 1
INVARIANTS CountersMatchQueues NoDanglingTimer
PROPERTIES CountingSemaphore TimedWaitsEnd
