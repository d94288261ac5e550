SPECIFICATION MCSpec
CONSTANTS
    Timers = {t1, t2}
    Threads = {w1, w2}
    Fds = {1, 2}
    None = None
    Lifetime = 3
    MaxUnread = 2
    MaxLate = 1
SYMMETRY Symmetry
INVARIANTS
    TypesOK
    TimersOfConnections
    AlarmNeverLost
    NothingLeftBehind
    OneThreadEach
PROPERTIES
    OnlySilentAreClosed

\* clear_dead_connection stops after SIGTERM, the threads of the one-shot server may
\* all be used up.
CHECK_DEADLOCK FALSE
