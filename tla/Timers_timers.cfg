SPECIFICATION MCFairSpec
CONSTANTS
    Timers = {t1, t2, t3}
    None = None
    N = 3
    SI = 1
    Timeouts <- MCTimeouts
    Delays = {0, 1, 2}
    MaxOverdue = 1
    Wild = Wild
    Capacities = {1, 3}
    ServerTimers = {t1, t2}
    Lifetime = 3
    MaxUnread = 2
    MaxLate = 1
INVARIANTS
    TypesOK
    ListIsSound
    HeapIsSound
PROPERTIES
    ImplementsTimerService
    ListImplementsTimerService
    DepartedAreClosed
    TermStops

\* Nothing is said of a heap after an undefined read, and the server stops after SIGTERM.
CHECK_DEADLOCK FALSE
