SPECIFICATION EventsSpec
CONSTANTS
    t1 = t1  t2 = t2  l1 = l1  l2 = l2
    Threads = {t1, t2}
    Idle = Idle
    NULL = NULL
    HIGHPRIO = 3
    CH_TIME_QUANTUM = 0
    Events = {0, 1}
    Sources = {src}
    Listeners = {l1, l2}
    Owner <- Owners
    Flags = {f}
    el_mask <- ListenMasks
    WaitMasks = {{0}, {0, 1}}
    InitPrio <- Priorities
INVARIANTS NoMissedEvent FlagsAreAnnounced
PROPERTY EventsAreDelivered
