CONSTANTS
    Workers = {w1, w2}
    Producers = {p1, p2}
    Requests = {r1}
    Null = Null
    None = None
    MaxRequests = 1
    MaxInterrupts = 1

SPECIFICATION FairSpec

INVARIANTS
    TypeOK
    CheckedStateHolds
    TokensCoverQueue
    TokensNotInvented

PROPERTIES
    ImplementsTaskQueue
    EveryRequestServed

\* The pool stops once it has been destroyed.
CHECK_DEADLOCK FALSE
