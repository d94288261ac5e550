CONSTANTS
    Workers = {w1, w2}
    Producers = {p1}
    Requests = {r1}
    Null = Null
    None = None
    MaxRequests = 1
    MaxInterrupts = 0

SPECIFICATION FairSpec

PROPERTY WorkersExit

\* The pool stops once it has been destroyed.
CHECK_DEADLOCK FALSE
