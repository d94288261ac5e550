CONSTANTS
    Fds = {1, 2}
    Workers = {w1, w2}
    Main = Main
    None = None
    MaxRequests = 1
    MaxFd = 2
    Outcomes = {"no_request", "reply", "empty_file"}
    MaxConns = 3
    Backlog = 1

SPECIFICATION Spec

INVARIANT OutMeansReply

\* Nothing happens any more once the last client's connection is closed.
CHECK_DEADLOCK FALSE
