SPECIFICATION MailboxSpec
CONSTANTS
    t1 = t1  t2 = t2  m1 = m1  m2 = m2
    Threads = {t1, t2}
    Idle = Idle
    NULL = NULL
    HIGHPRIO = 3
    CH_TIME_QUANTUM = 0
    Sems = {"empty", "full"}
    Calls = {"none", "sleep", "post", "ahead", "fetch"}
    InitPrio <- Priorities
    Messages = {m1, m2}
    Size = 2
INVARIANT SlotsConserved
PROPERTY MailboxIsQueue
