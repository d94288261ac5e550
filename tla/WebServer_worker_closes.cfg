SPECIFICATION FairSpec
CONSTANTS
    Fds = {1, 2}
    Workers = {w1, w2}
    Main = Main
    None = None
    MaxRequests = 4
    MaxFd = 2
    Outcomes = {"no_request", "empty_file"}
    MaxConns = 3
    Backlog = 1
PROPERTIES
    HangupClosedUnlessErased

\* Nothing happens any more once the last client's connection is closed.
CHECK_DEADLOCK FALSE
