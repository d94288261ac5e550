CONSTANTS
    Fds = {1, 2, 3}
    Workers = {w1, w2}
    Main = Main
    None = None
    MaxRequests = 2
    MaxFd = 2
    Outcomes = {"no_request", "reply"}
    MaxConns = 3
    Backlog = 2

SPECIFICATION FairSpec

INVARIANTS
    ExclusiveWorker
    NoForgottenConnection
    DescriptorsMatch

PROPERTIES
    HangupIsClosed
    BytesAreRead

\* Nothing happens any more once the last client's connection is closed.
CHECK_DEADLOCK FALSE
