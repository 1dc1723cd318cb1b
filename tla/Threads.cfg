SPECIFICATION ThreadsSpec
CONSTANTS
    main = main  s1 = s1  d1 = d1  d2 = d2
    Threads = {main, s1, d1, d2}
    Idle = Idle
    NULL = NULL
    rlist = rlist
    HIGHPRIO = 3
    CH_TIME_QUANTUM = 1
    Main = main
    Statics = {s1}
    HeapAreas = {d1}
    PoolAreas = {d2}
    ThdPrio <- Priorities
    Users = {main}
    Scanners = {main, s1}
    Clients = {main, s1}
    MaxRefs = 2
INVARIANTS SafeUnlessRaced RefsAreCounted RegistryComplete JoinersWait Rendezvous
CONSTRAINTS NotExempt FewHolders
