------------------------------ MODULE TaskQueue ------------------------------
(***************************************************************************)
(* What ThreadPool<T> (src/linux_server/15-5_thread_pool.h) promises to    *)
(* its callers, with no locks, semaphores or program counters: a bounded   *)
(* FIFO of requests from which every accepted request is taken exactly     *)
(* once, by one worker, in the order of acceptance.                        *)
(*                                                                         *)
(* ThreadPool.tla is shown to implement this specification; WebServer.tla  *)
(* uses its actions in place of the pool.                                  *)
(***************************************************************************)
EXTENDS Naturals, Sequences

CONSTANTS Workers,    \* the threads created by the constructor
          Requests,   \* what Append may be handed
          Capacity,   \* how many requests may wait at once
          None        \* "this worker runs nothing"

VARIABLES pending,    \* accepted and not yet taken, oldest first
          running     \* the request each worker is busy with

queueVars == <<pending, running>>

QueueTypeOK ==
    /\ pending \in Seq(Requests)
    /\ running \in [Workers -> Requests \cup {None}]

Init ==
    /\ pending = <<>>
    /\ running = [w \in Workers |-> None]

\* Append returns true.
Accept(r) ==
    /\ Len(pending) < Capacity
    /\ pending' = Append(pending, r)
    /\ UNCHANGED running

\* Append returns false and leaves the queue alone.
Reject ==
    /\ Len(pending) >= Capacity
    /\ UNCHANGED queueVars

\* A worker that is free takes the oldest request.
Take(w) ==
    /\ running[w] = None
    /\ pending # <<>>
    /\ running' = [running EXCEPT ![w] = Head(pending)]
    /\ pending' = Tail(pending)

\* The request's Process returns.
Finish(w) ==
    /\ running[w] # None
    /\ running' = [running EXCEPT ![w] = None]
    /\ UNCHANGED pending

Next ==
    \/ \E r \in Requests : Accept(r)
    \/ Reject
    \/ \E w \in Workers : Take(w) \/ Finish(w)

Spec == Init /\ [][Next]_queueVars
=============================================================================
