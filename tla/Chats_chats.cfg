SPECIFICATION MCFairSpec
CONSTANTS
    Conns = {5, 6}
    None = None
    UserLimit = 2
    MaxUnread = 1
    P1 = p1
    P2 = p2
    Pids = {p1, p2, p3}
    LeavingPids = {p1, p2}
    Zero = Zero
    Leaked = Leaked
    LeaveLimit = 2
    TalkLimit = 3
    MaxPipes = 4
    MaxSends = 1
    Processes = 2
    MaxBacklog = 2
    MaxConns = 2
    MaxSignals = 1
INVARIANTS
    TypesOK
    ArrayIsSound
    CountIsChildren
    LastChildStopsServer
    DeadAreAnnounced
PROPERTIES
    DepartedAreRemoved
    TurnsToWrite
    LoneMessageIsHeard
    LoneClientIsAccepted

\* The chat server of 13-6 stops after SIGTERM.
CHECK_DEADLOCK FALSE
