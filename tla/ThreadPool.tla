----------------------------- MODULE ThreadPool ------------------------------
(***************************************************************************)
(* ThreadPool<T> of src/linux_server/15-5_thread_pool.h together with the  *)
(* Locker and Sem of src/linux_server/14-7_locker.h it is built from.      *)
(*                                                                         *)
(* Every statement of Append, Run and the destructor that touches shared   *)
(* state is a step of its own, so that TLC interleaves producers, workers  *)
(* and the thread that destroys the pool as the machine may.               *)
(***************************************************************************)
EXTENDS Naturals, FiniteSets, Sequences

CONSTANTS
    Workers,        \* the m_thread_number threads that execute Run
    Producers,      \* the threads that call Append (the web server has one)
    Requests,       \* the objects whose addresses are passed to Append
    Null,           \* the null pointer, which Run skips
    MaxRequests,    \* the constructor's max_requests
    MaxInterrupts,  \* bound: how many calls of sem_wait fail (EINTR)
    None            \* no thread, no request

ASSUME MaxRequestsAssumption   == MaxRequests \in Nat \ {0}
ASSUME MaxInterruptsAssumption == MaxInterrupts \in Nat
ASSUME ThreadsAssumption ==
    /\ Workers \cap Producers = {}
    /\ IsFiniteSet(Workers) /\ Workers # {}
    /\ IsFiniteSet(Producers)
    /\ None \notin Workers \cup Producers
ASSUME RequestsAssumption == Null \notin Requests /\ None \notin Requests \cup {Null}

Threads  == Workers \cup Producers
Pointers == Requests \cup {Null}

VARIABLES
    queue,       \* m_work_queue
    lock,        \* the owner of m_queue_locker, or None
    sem,         \* the value of m_queue_stat
    stop,        \* m_stop
    freed,       \* the members have been destroyed
    pc,          \* where each thread is
    req,         \* each thread's request: an argument or a local variable
    interrupts   \* sem_wait calls that failed so far

vars == <<queue, lock, sem, stop, freed, pc, req, interrupts>>

----------------------------------------------------------------------------
(* Program counters, by the statement the thread executes next.            *)

ProducerPC == {"idle", "append_lock", "append_check", "append_push",
               "append_unlock", "append_post", "append_full"}

WorkerPC == {"test", "wait", "lock", "check", "front", "pop", "unlock",
             "unlock_empty", "dispatch", "process", "exited", "undefined"}

\* Between Lock() and Unlock() of m_queue_locker.
CriticalPC == {"append_check", "append_push", "append_unlock", "append_full",
               "check", "front", "pop", "unlock", "unlock_empty"}

\* The next statement reads or writes a member of the pool.
PoolPC == WorkerPC \ {"dispatch", "process", "exited", "undefined"}

Goto(t, from, to) ==
    /\ pc[t] = from
    /\ pc' = [pc EXCEPT ![t] = to]

Lock(t) ==
    /\ lock = None
    /\ lock' = t

Unlock == lock' = None

Post == sem' = sem + 1

\* Mutant of Wait: Wait takes a unit that is not there.
WaitWithoutBlocking ==
    sem' = sem - 1

\* sem_wait: blocks until it can take a unit.
Wait ==
    /\ sem > 0
    /\ sem' = sem - 1

TypeOK ==
    /\ queue \in Seq(Pointers)
    /\ lock \in Threads \cup {None}
    /\ sem \in Nat
    /\ stop \in BOOLEAN
    /\ freed \in BOOLEAN
    /\ pc \in [Threads -> ProducerPC \cup WorkerPC]
    /\ \A p \in Producers : pc[p] \in ProducerPC
    /\ \A w \in Workers : pc[w] \in WorkerPC
    /\ req \in [Threads -> Pointers \cup {None}]
    /\ interrupts \in 0..MaxInterrupts

\* The constructor has created and detached every thread.
Init ==
    /\ queue = <<>>
    /\ lock = None
    /\ sem = 0
    /\ stop = FALSE
    /\ freed = FALSE
    /\ pc = [t \in Threads |-> IF t \in Workers THEN "test" ELSE "idle"]
    /\ req = [t \in Threads |-> None]
    /\ interrupts = 0

----------------------------------------------------------------------------
(* bool Append(T* request)                                                 *)

\* A producer may call Append while nobody has begun to destroy the pool.
CallAppend(p, r) ==
    /\ ~stop
    /\ Goto(p, "idle", "append_lock")
    /\ req' = [req EXCEPT ![p] = r]
    /\ UNCHANGED <<queue, lock, sem, stop, freed, interrupts>>

\* Mutant of AppendLock: Append never locks m_queue_locker.
AppendForgetsLock(p) ==
    /\ Goto(p, "append_lock", "append_check")
    /\ UNCHANGED <<queue, lock, sem, stop, freed, req, interrupts>>

AppendLock(p) ==
    /\ Lock(p)
    /\ Goto(p, "append_lock", "append_check")
    /\ UNCHANGED <<queue, sem, stop, freed, req, interrupts>>

IsFull == Len(queue) > MaxRequests

\* Mutant of AppendFull: the early return is missing and Append goes on to Post.
AppendFullFallsThrough(p) ==
    /\ IsFull
    /\ Goto(p, "append_check", "append_unlock")
    /\ UNCHANGED <<queue, lock, sem, stop, freed, req, interrupts>>

AppendFull(p) ==
    /\ IsFull
    /\ Goto(p, "append_check", "append_full")
    /\ UNCHANGED <<queue, lock, sem, stop, freed, req, interrupts>>

AppendNotFull(p) ==
    /\ ~IsFull
    /\ Goto(p, "append_check", "append_push")
    /\ UNCHANGED <<queue, lock, sem, stop, freed, req, interrupts>>

\* Unlock and return false.
AppendReturnFalse(p) ==
    /\ Goto(p, "append_full", "idle")
    /\ Unlock
    /\ req' = [req EXCEPT ![p] = None]
    /\ UNCHANGED <<queue, sem, stop, freed, interrupts>>

\* Mutant of AppendPush: push_front in place of push_back.
AppendPushFront(p) ==
    /\ Goto(p, "append_push", "append_unlock")
    /\ queue' = <<req[p]>> \o queue
    /\ UNCHANGED <<lock, sem, stop, freed, req, interrupts>>

AppendPush(p) ==
    /\ Goto(p, "append_push", "append_unlock")
    /\ queue' = Append(queue, req[p])
    /\ UNCHANGED <<lock, sem, stop, freed, req, interrupts>>

\* Mutant of AppendUnlock: Append returns without raising the semaphore.
AppendWithoutPost(p) ==
    /\ Goto(p, "append_unlock", "idle")
    /\ Unlock
    /\ req' = [req EXCEPT ![p] = None]
    /\ UNCHANGED <<queue, sem, stop, freed, interrupts>>

AppendUnlock(p) ==
    /\ Goto(p, "append_unlock", "append_post")
    /\ Unlock
    /\ UNCHANGED <<queue, sem, stop, freed, req, interrupts>>

\* The semaphore is raised after the lock is released; return true.
AppendPost(p) ==
    /\ Goto(p, "append_post", "idle")
    /\ Post
    /\ req' = [req EXCEPT ![p] = None]
    /\ UNCHANGED <<queue, lock, stop, freed, interrupts>>

AppendStep(p) ==
    \/ AppendLock(p) \/ AppendFull(p) \/ AppendNotFull(p)
    \/ AppendReturnFalse(p)
    \/ AppendPush(p) \/ AppendUnlock(p) \/ AppendPost(p)

----------------------------------------------------------------------------
(* void Run()                                                              *)

RunTest(w) ==
    /\ ~freed
    /\ Goto(w, "test", IF stop THEN "exited" ELSE "wait")
    /\ UNCHANGED <<queue, lock, sem, stop, freed, req, interrupts>>

RunWait(w) ==
    /\ ~freed
    /\ Wait
    /\ Goto(w, "wait", "lock")
    /\ UNCHANGED <<queue, lock, stop, freed, req, interrupts>>

\* Sem::Wait returns false, which Run does not look at.
RunWaitInterrupted(w) ==
    /\ ~freed
    /\ interrupts < MaxInterrupts
    /\ Goto(w, "wait", "lock")
    /\ interrupts' = interrupts + 1
    /\ UNCHANGED <<queue, lock, sem, stop, freed, req>>

RunLock(w) ==
    /\ ~freed
    /\ Lock(w)
    /\ Goto(w, "lock", "check")
    /\ UNCHANGED <<queue, sem, stop, freed, req, interrupts>>

RunCheck(w) ==
    /\ ~freed
    /\ Goto(w, "check", IF queue = <<>> THEN "unlock_empty" ELSE "front")
    /\ UNCHANGED <<queue, lock, sem, stop, freed, req, interrupts>>

\* continue: another worker took the request.
RunUnlockEmpty(w) ==
    /\ ~freed
    /\ Goto(w, "unlock_empty", "test")
    /\ Unlock
    /\ UNCHANGED <<queue, sem, stop, freed, req, interrupts>>

RunFront(w) ==
    /\ ~freed
    /\ Goto(w, "front", "pop")
    /\ req' = [req EXCEPT ![w] = Head(queue)]
    /\ UNCHANGED <<queue, lock, sem, stop, freed, interrupts>>

RunPop(w) ==
    /\ ~freed
    /\ Goto(w, "pop", "unlock")
    /\ queue' = Tail(queue)
    /\ UNCHANGED <<lock, sem, stop, freed, req, interrupts>>

RunUnlock(w) ==
    /\ ~freed
    /\ Goto(w, "unlock", "dispatch")
    /\ Unlock
    /\ UNCHANGED <<queue, sem, stop, freed, req, interrupts>>

\* if(!request) continue;
RunSkipNull(w) ==
    /\ req[w] = Null
    /\ Goto(w, "dispatch", "test")
    /\ req' = [req EXCEPT ![w] = None]
    /\ UNCHANGED <<queue, lock, sem, stop, freed, interrupts>>

RunDispatch(w) ==
    /\ req[w] # Null
    /\ Goto(w, "dispatch", "process")
    /\ UNCHANGED <<queue, lock, sem, stop, freed, req, interrupts>>

\* request->Process() returns.
RunProcess(w) ==
    /\ Goto(w, "process", "test")
    /\ req' = [req EXCEPT ![w] = None]
    /\ UNCHANGED <<queue, lock, sem, stop, freed, interrupts>>

\* The thread touches a member of a pool that no longer exists: from here on
\* the program promises nothing about it.
RunUseFreed(w) ==
    /\ freed
    /\ pc[w] \in PoolPC
    /\ pc' = [pc EXCEPT ![w] = "undefined"]
    /\ UNCHANGED <<queue, lock, sem, stop, freed, req, interrupts>>

RunStep(w) ==
    \/ RunTest(w) \/ RunWait(w) \/ RunLock(w) \/ RunCheck(w)
    \/ RunUnlockEmpty(w) \/ RunFront(w) \/ RunPop(w) \/ RunUnlock(w)
    \/ RunSkipNull(w) \/ RunDispatch(w) \/ RunProcess(w)

----------------------------------------------------------------------------
(* ~ThreadPool(), called when no Append is in progress.                    *)

SetStop ==
    /\ ~stop
    /\ \A p \in Producers : pc[p] = "idle"
    /\ stop' = TRUE
    /\ UNCHANGED <<queue, lock, sem, freed, pc, req, interrupts>>

\* The members' own destructors, then delete releases the memory.
FreeMembers ==
    /\ stop /\ ~freed
    /\ freed' = TRUE
    /\ UNCHANGED <<queue, lock, sem, stop, pc, req, interrupts>>

----------------------------------------------------------------------------
Next ==
    \/ \E p \in Producers : (\E r \in Pointers : CallAppend(p, r)) \/ AppendStep(p)
    \/ \E w \in Workers : RunStep(w) \/ RunWaitInterrupted(w) \/ RunUseFreed(w)
    \/ SetStop \/ FreeMembers

Spec == Init /\ [][Next]_vars

\* The scheduler runs every thread, and a thread blocked on the mutex gets it in
\* the end: its holders keep it for a few instructions only.
Fairness ==
    /\ \A p \in Producers : WF_vars(AppendStep(p)) /\ SF_vars(AppendLock(p))
    /\ \A w \in Workers : WF_vars(RunStep(w)) /\ SF_vars(RunLock(w))

FairSpec == Spec /\ Fairness

----------------------------------------------------------------------------
(* Properties                                                              *)

\* The mutex does its work: a thread that is about to touch m_work_queue owns
\* m_queue_locker, so no two of them touch it at once, and every path through
\* Append and Run that took the lock gives it back (no owner outside the
\* critical section, unless the pool was destroyed under it).
QueueGuarded ==
    \A t \in Threads :
        /\ pc[t] \in CriticalPC => lock = t
        /\ lock = t => pc[t] \in CriticalPC \cup {"undefined"}

\* What a thread checked about the queue is still so when it acts on it: the
\* size test of Append when it pushes or refuses, the empty test of Run when it
\* takes the front, and the request it copied is the one it removes.
CheckedStateHolds ==
    /\ \A p \in Producers : /\ pc[p] = "append_push" => ~IsFull
                            /\ pc[p] = "append_full" => IsFull
    /\ \A w \in Workers : /\ pc[w] \in {"front", "pop"} => queue # <<>>
                          /\ pc[w] = "pop" => req[w] = Head(queue)
                          /\ pc[w] = "unlock_empty" => queue = <<>>

\* A thread that is going to use its request has one: Append is called with a
\* pointer, and Run uses its local variable only after it copied the front.
RequestHeld ==
    /\ \A p \in Producers : pc[p] # "idle" => req[p] \in Pointers
    /\ \A w \in Workers :
          pc[w] \in {"pop", "unlock", "dispatch", "process"} => req[w] \in Pointers

\* The queue never holds more than max_requests + 1 requests.
QueueBound == Len(queue) <= MaxRequests + 1

\* Together these are inductive: each needs the lock discipline, and the lock
\* discipline needs the program counters to be what TypeOK says.
IInv == TypeOK /\ RequestHeld /\ QueueGuarded /\ CheckedStateHolds /\ QueueBound

\* The producers that pushed a request and have not raised the semaphore yet.
Posting == {p \in Producers : pc[p] \in {"append_unlock", "append_post"}}

\* The workers that came back from sem_wait and have not popped yet.
Claiming == {w \in Workers : pc[w] \in {"lock", "check", "front", "pop"}}

\* No lost wake-up: for every waiting request there is a unit in the semaphore,
\* a worker that already took one, or a producer about to add one. A request can
\* not be left in the queue with every worker blocked in sem_wait.
TokensCoverQueue ==
    ~freed => Len(queue) <= sem + Cardinality(Claiming) + Cardinality(Posting)

\* Nor are there more units than requests, beyond one for each sem_wait whose
\* failure Run ignored: a worker that takes a unit finds its request.
TokensNotInvented ==
    sem + Cardinality(Claiming) + Cardinality(Posting) <= Len(queue) + interrupts

\* The "taken by another thread" branch of Run is reached only after a sem_wait
\* that failed: as long as none does, the semaphore never promises a request
\* that is not there.
EmptyOnlyAfterInterrupt ==
    (\E w \in Workers : pc[w] = "unlock_empty") => interrupts > 0

\* The pool as its callers see it: the queue, and what each worker runs.
Running ==
    [w \in Workers |-> IF pc[w] \in {"unlock", "dispatch", "process"}
                       THEN req[w] ELSE None]

Abstract == INSTANCE TaskQueue WITH
                pending <- queue, running <- Running,
                Requests <- Pointers, Capacity <- MaxRequests + 1

\* Append and Run implement the bounded FIFO of TaskQueue: every accepted request
\* is taken once, by one worker, in order, whatever the interleaving.
ImplementsTaskQueue == Abstract!Spec

\* A request that was accepted is eventually processed, unless the pool is being
\* destroyed.
EveryRequestServed ==
    \A r \in Requests :
        (\E i \in DOMAIN queue : queue[i] = r)
            ~> (stop \/ \E w \in Workers : pc[w] = "process" /\ req[w] = r)

----------------------------------------------------------------------------
(* What the comments say and the code does not do                          *)

\* Line 15: m_max_requests is the largest number of requests in the queue.
QueueWithinMaxRequests == Len(queue) <= MaxRequests

\* Line 59: deleting the array is enough because the threads exit by themselves
\* once the destructor has run ("undefined" is let pass as an exit).
WorkersExit ==
    stop ~> \A w \in Workers : pc[w] \in {"exited", "undefined"}
=============================================================================
