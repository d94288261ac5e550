-------------------------- MODULE ThreadPool_proofs --------------------------
(***************************************************************************)
(* Proofs about ThreadPool for any number of workers, producers and        *)
(* requests and any MaxRequests.                                           *)
(***************************************************************************)
EXTENDS ThreadPool, FiniteSetTheorems, SequenceTheorems, TLAPS

\* A producer is not a worker, and neither is the absent thread.
LEMMA ThreadsDistinct ==
    /\ \A p \in Producers, w \in Workers : p # w
    /\ \A t \in Threads : t # None
BY ThreadsAssumption DEF Threads

\* Removing the front of a non-empty sequence shortens it by one.
LEMMA TailFacts ==
    ASSUME NEW S, NEW s \in Seq(S), s # <<>>
    PROVE  /\ Tail(s) \in Seq(S) /\ Head(s) \in S
           /\ Len(s) \in Nat /\ Len(s) >= 1
           /\ Len(Tail(s)) = Len(s) - 1
OBVIOUS

\* The invariant holds when the constructor returns.
LEMMA InitIInv == Init => IInv
<1> SUFFICES ASSUME Init PROVE IInv
    OBVIOUS
<1>1. TypeOK
  <2>1. queue \in Seq(Pointers) /\ lock \in Threads \cup {None} /\ sem \in Nat
      BY DEF Init
  <2>2. stop \in BOOLEAN /\ freed \in BOOLEAN
      BY DEF Init
  <2>3. interrupts \in 0..MaxInterrupts
      BY MaxInterruptsAssumption DEF Init
  <2>4. /\ pc \in [Threads -> ProducerPC \cup WorkerPC]
        /\ \A p \in Producers : pc[p] \in ProducerPC
        /\ \A w \in Workers : pc[w] \in WorkerPC
      BY ThreadsDistinct DEF Init, Threads, ProducerPC, WorkerPC
  <2>5. req \in [Threads -> Pointers \cup {None}]
      BY DEF Init
  <2> QED BY <2>1, <2>2, <2>3, <2>4, <2>5 DEF TypeOK
<1>2. RequestHeld
    BY ThreadsDistinct DEF Init, RequestHeld, Threads
<1>3. QueueGuarded
    BY ThreadsDistinct DEF Init, QueueGuarded, CriticalPC, Threads
<1>4. CheckedStateHolds
    BY ThreadsDistinct DEF Init, CheckedStateHolds, Threads
<1>5. QueueBound
    BY MaxRequestsAssumption DEF Init, QueueBound
<1> QED BY <1>1, <1>2, <1>3, <1>4, <1>5 DEF IInv

\* Every step keeps the invariant.
LEMMA NextIInv == IInv /\ [Next]_vars => IInv'
<1> SUFFICES ASSUME IInv, [Next]_vars PROVE IInv'
    OBVIOUS
<1> USE ThreadsDistinct, MaxRequestsAssumption, MaxInterruptsAssumption
    DEF IInv, TypeOK, RequestHeld, QueueGuarded, CheckedStateHolds, QueueBound,
        ProducerPC, WorkerPC, CriticalPC, Threads, Goto, IsFull
<1>1. ASSUME NEW p \in Producers, NEW r \in Pointers, CallAppend(p, r) PROVE IInv'
    BY <1>1 DEF CallAppend
<1>2. ASSUME NEW p \in Producers, AppendLock(p) PROVE IInv'
    BY <1>2 DEF AppendLock, Lock
<1>3. ASSUME NEW p \in Producers, AppendFull(p) PROVE IInv'
    BY <1>3 DEF AppendFull
<1>4. ASSUME NEW p \in Producers, AppendNotFull(p) PROVE IInv'
    BY <1>4 DEF AppendNotFull
<1>5. ASSUME NEW p \in Producers, AppendReturnFalse(p) PROVE IInv'
    BY <1>5 DEF AppendReturnFalse, Unlock
<1>6. ASSUME NEW p \in Producers, AppendPush(p) PROVE IInv'
  <2> USE <1>6 DEF AppendPush
  <2>1. queue' \in Seq(Pointers) /\ Len(queue') = Len(queue) + 1
      OBVIOUS
  <2>2. lock = p /\ \A t \in Threads \ {p} : pc[t] \notin CriticalPC
      OBVIOUS
  <2>3. QueueBound'
      BY <2>1
  <2>4. CheckedStateHolds'
      BY <2>2
  <2> QED BY <2>1, <2>2, <2>3, <2>4
<1>7. ASSUME NEW p \in Producers, AppendUnlock(p) PROVE IInv'
    BY <1>7 DEF AppendUnlock, Unlock
<1>8. ASSUME NEW p \in Producers, AppendPost(p) PROVE IInv'
    BY <1>8 DEF AppendPost, Post
<1>9. ASSUME NEW w \in Workers, RunTest(w) PROVE IInv'
    BY <1>9 DEF RunTest
<1>10. ASSUME NEW w \in Workers, RunWait(w) PROVE IInv'
    BY <1>10 DEF RunWait, Wait
<1>11. ASSUME NEW w \in Workers, RunWaitInterrupted(w) PROVE IInv'
    BY <1>11 DEF RunWaitInterrupted
<1>12. ASSUME NEW w \in Workers, RunLock(w) PROVE IInv'
    BY <1>12 DEF RunLock, Lock
<1>13. ASSUME NEW w \in Workers, RunCheck(w) PROVE IInv'
    BY <1>13 DEF RunCheck
<1>14. ASSUME NEW w \in Workers, RunUnlockEmpty(w) PROVE IInv'
    BY <1>14 DEF RunUnlockEmpty, Unlock
<1>15. ASSUME NEW w \in Workers, RunFront(w) PROVE IInv'
    BY <1>15 DEF RunFront
<1>16. ASSUME NEW w \in Workers, RunPop(w) PROVE IInv'
  <2> USE <1>16 DEF RunPop
  <2>1. queue' \in Seq(Pointers) /\ Len(queue') = Len(queue) - 1
      BY TailFacts
  <2>2. lock = w /\ \A t \in Threads \ {w} : pc[t] \notin CriticalPC
      OBVIOUS
  <2>3. QueueBound'
      BY <2>1
  <2>4. CheckedStateHolds'
      BY <2>2
  <2> QED BY <2>1, <2>2, <2>3, <2>4
<1>17. ASSUME NEW w \in Workers, RunUnlock(w) PROVE IInv'
    BY <1>17 DEF RunUnlock, Unlock
<1>18. ASSUME NEW w \in Workers, RunSkipNull(w) PROVE IInv'
    BY <1>18 DEF RunSkipNull
<1>19. ASSUME NEW w \in Workers, RunDispatch(w) PROVE IInv'
    BY <1>19 DEF RunDispatch
<1>20. ASSUME NEW w \in Workers, RunProcess(w) PROVE IInv'
    BY <1>20 DEF RunProcess
<1>21. ASSUME NEW w \in Workers, RunUseFreed(w) PROVE IInv'
    BY <1>21 DEF RunUseFreed, PoolPC
<1>22. ASSUME SetStop PROVE IInv'
    BY <1>22 DEF SetStop
<1>23. ASSUME FreeMembers PROVE IInv'
    BY <1>23 DEF FreeMembers
<1>24. CASE UNCHANGED vars
    BY <1>24 DEF vars
<1> QED BY <1>1, <1>2, <1>3, <1>4, <1>5, <1>6, <1>7, <1>8, <1>9, <1>10, <1>11, <1>12, <1>13, <1>14, <1>15, <1>16, <1>17, <1>18, <1>19, <1>20, <1>21, <1>22, <1>23, <1>24 DEF Next, AppendStep, RunStep

----------------------------------------------------------------------------
\* The variables keep their types: ThreadPool never leaves its declared states.
THEOREM TypeCorrect == Spec => []TypeOK
<1>1. IInv => TypeOK
    BY DEF IInv
<1> QED BY InitIInv, NextIInv, <1>1, PTL DEF Spec

\* The mutex protects every access to m_work_queue and is always given back.
THEOREM QueueIsGuarded == Spec => []QueueGuarded
<1>1. IInv => QueueGuarded
    BY DEF IInv
<1> QED BY InitIInv, NextIInv, <1>1, PTL DEF Spec

\* What Append and Run check about the queue is still so when they act on it.
THEOREM ChecksHold == Spec => []CheckedStateHolds
<1>1. IInv => CheckedStateHolds
    BY DEF IInv
<1> QED BY InitIInv, NextIInv, <1>1, PTL DEF Spec

\* At most max_requests + 1 requests wait, whatever the number of producers.
THEOREM QueueIsBounded == Spec => []QueueBound
<1>1. IInv => QueueBound
    BY DEF IInv
<1> QED BY InitIInv, NextIInv, <1>1, PTL DEF Spec

----------------------------------------------------------------------------
(* Accounting for the units of the semaphore.                              *)

\* Both sets of threads are finite, so that their sizes are numbers.
LEMMA CountsAreNumbers ==
    /\ IsFiniteSet(Claiming) /\ Cardinality(Claiming) \in Nat
    /\ IsFiniteSet(Posting)  /\ Cardinality(Posting) \in Nat
<1>1. IsFiniteSet(Claiming)
    BY FS_Subset, ThreadsAssumption DEF Claiming
<1>2. IsFiniteSet(Posting)
    BY FS_Subset, ThreadsAssumption DEF Posting
<1> QED BY <1>1, <1>2, FS_CardinalityType

\* The same in the next state.
LEMMA CountsAreNumbersNext ==
    /\ IsFiniteSet(Claiming') /\ Cardinality(Claiming') \in Nat
    /\ IsFiniteSet(Posting')  /\ Cardinality(Posting') \in Nat
<1>1. IsFiniteSet(Claiming')
    BY FS_Subset, ThreadsAssumption DEF Claiming
<1>2. IsFiniteSet(Posting')
    BY FS_Subset, ThreadsAssumption DEF Posting
<1> QED BY <1>1, <1>2, FS_CardinalityType

\* Two sets that agree on everything but x differ in size by their views of x.
LEMMA CardinalityOfMove ==
    ASSUME NEW S, NEW T, NEW x, IsFiniteSet(S),
           \A y : y # x => (y \in S <=> y \in T)
    PROVE  Cardinality(T) = Cardinality(S) + (IF x \in T THEN 1 ELSE 0)
                                           - (IF x \in S THEN 1 ELSE 0)
<1> Cardinality(S) \in Nat
    BY FS_CardinalityType
<1>1. CASE x \in T
  <2>1. T = S \cup {x}
      BY <1>1
  <2> QED BY <1>1, <2>1, FS_AddElement
<1>2. CASE x \notin T
  <2>1. T = S \ {x}
      BY <1>2
  <2> QED BY <1>2, <2>1, FS_RemoveElement
<1> QED BY <1>1, <1>2

PostingPC  == {"append_unlock", "append_post"}
ClaimingPC == {"lock", "check", "front", "pop"}

\* A producer's move changes the number of posting producers only.
LEMMA ProducerMoves ==
    ASSUME NEW p \in Producers, \A t \in Threads : t # p => pc'[t] = pc[t]
    PROVE  /\ Claiming' = Claiming
           /\ Cardinality(Posting') = Cardinality(Posting)
                + (IF pc'[p] \in PostingPC THEN 1 ELSE 0)
                - (IF pc[p] \in PostingPC THEN 1 ELSE 0)
<1>1. Claiming' = Claiming
    BY ThreadsDistinct DEF Claiming, Threads
<1>2. /\ p \in Posting <=> pc[p] \in PostingPC
      /\ p \in Posting' <=> pc'[p] \in PostingPC
    BY DEF Posting, PostingPC
<1>3. \A y : y # p => (y \in Posting <=> y \in Posting')
    BY DEF Posting, Threads
<1>4. Cardinality(Posting') = Cardinality(Posting)
                + (IF p \in Posting' THEN 1 ELSE 0) - (IF p \in Posting THEN 1 ELSE 0)
    BY <1>3, CountsAreNumbers, CardinalityOfMove
<1> QED BY <1>1, <1>2, <1>4

\* A worker's move changes the number of claiming workers only.
LEMMA WorkerMoves ==
    ASSUME NEW w \in Workers, \A t \in Threads : t # w => pc'[t] = pc[t]
    PROVE  /\ Posting' = Posting
           /\ Cardinality(Claiming') = Cardinality(Claiming)
                + (IF pc'[w] \in ClaimingPC THEN 1 ELSE 0)
                - (IF pc[w] \in ClaimingPC THEN 1 ELSE 0)
<1>1. Posting' = Posting
    BY ThreadsDistinct DEF Posting, Threads
<1>2. /\ w \in Claiming <=> pc[w] \in ClaimingPC
      /\ w \in Claiming' <=> pc'[w] \in ClaimingPC
    BY DEF Claiming, ClaimingPC
<1>3. \A y : y # w => (y \in Claiming <=> y \in Claiming')
    BY DEF Claiming, Threads
<1>4. Cardinality(Claiming') = Cardinality(Claiming)
                + (IF w \in Claiming' THEN 1 ELSE 0) - (IF w \in Claiming THEN 1 ELSE 0)
    BY <1>3, CountsAreNumbers, CardinalityOfMove
<1> QED BY <1>1, <1>2, <1>4

\* The two halves of the accounting: a unit for every request, and no more.
Accounting == TokensCoverQueue /\ TokensNotInvented

\* Initially no request waits and nobody claims or posts.
LEMMA InitAccounting == Init => Accounting
<1> SUFFICES ASSUME Init PROVE Accounting
    OBVIOUS
<1>1. Claiming = {} /\ Posting = {}
    BY ThreadsDistinct DEF Init, Claiming, Posting, Threads
<1> QED BY <1>1, FS_EmptySet, MaxInterruptsAssumption
        DEF Init, Accounting, TokensCoverQueue, TokensNotInvented

\* Every step keeps the balance: a request enters the queue together with a
\* posting producer, whose Post becomes a unit of the semaphore, which becomes a
\* claiming worker, which leaves together with the request it pops.
LEMMA NextAccounting == IInv /\ Accounting /\ [Next]_vars => Accounting'
<1> SUFFICES ASSUME IInv, Accounting, [Next]_vars PROVE Accounting'
    OBVIOUS
<1> USE CountsAreNumbers, CountsAreNumbersNext
    DEF IInv, TypeOK, Accounting, TokensCoverQueue, TokensNotInvented
<1>1. ASSUME NEW p \in Producers, NEW r \in Pointers, CallAppend(p, r) \/ AppendStep(p)
      PROVE  Accounting'
  <2>1. \A t \in Threads : t # p => pc'[t] = pc[t]
      BY <1>1
      DEF CallAppend, AppendStep, AppendLock, AppendFull, AppendNotFull, AppendReturnFalse,
          AppendPush, AppendUnlock, AppendPost, Goto
  <2>2. /\ Claiming' = Claiming
        /\ Cardinality(Posting') = Cardinality(Posting)
                + (IF pc'[p] \in PostingPC THEN 1 ELSE 0)
                - (IF pc[p] \in PostingPC THEN 1 ELSE 0)
      BY <2>1, ProducerMoves
  <2> USE <2>2 DEF Goto, PostingPC, Threads
  <2>3. CASE CallAppend(p, r)
      BY <2>3 DEF CallAppend
  <2>4. CASE AppendLock(p)
      BY <2>4 DEF AppendLock, Lock
  <2>5. CASE AppendFull(p)
      BY <2>5 DEF AppendFull
  <2>6. CASE AppendNotFull(p)
      BY <2>6 DEF AppendNotFull
  <2>7. CASE AppendReturnFalse(p)
      BY <2>7 DEF AppendReturnFalse, Unlock
  <2>8. CASE AppendPush(p)
      BY <2>8 DEF AppendPush
  <2>9. CASE AppendUnlock(p)
      BY <2>9 DEF AppendUnlock, Unlock
  <2>10. CASE AppendPost(p)
      BY <2>10 DEF AppendPost, Post
  <2> QED BY <1>1, <2>3, <2>4, <2>5, <2>6, <2>7, <2>8, <2>9, <2>10 DEF AppendStep
<1>2. ASSUME NEW w \in Workers, RunStep(w) \/ RunWaitInterrupted(w) \/ RunUseFreed(w)
      PROVE  Accounting'
  <2>1. \A t \in Threads : t # w => pc'[t] = pc[t]
      BY <1>2
      DEF RunStep, RunTest, RunWait, RunWaitInterrupted, RunLock, RunCheck, RunUnlockEmpty,
          RunFront, RunPop, RunUnlock, RunSkipNull, RunDispatch, RunProcess, RunUseFreed,
          Goto
  <2>2. /\ Posting' = Posting
        /\ Cardinality(Claiming') = Cardinality(Claiming)
                + (IF pc'[w] \in ClaimingPC THEN 1 ELSE 0)
                - (IF pc[w] \in ClaimingPC THEN 1 ELSE 0)
      BY <2>1, WorkerMoves
  <2> USE <2>2 DEF Goto, ClaimingPC, Threads
  <2>3. CASE RunTest(w)
      BY <2>3 DEF RunTest
  <2>4. CASE RunWait(w)
      BY <2>4 DEF RunWait, Wait
  <2>5. CASE RunWaitInterrupted(w)
      BY <2>5 DEF RunWaitInterrupted
  <2>6. CASE RunLock(w)
      BY <2>6 DEF RunLock, Lock
  <2>7. CASE RunCheck(w)
      BY <2>7 DEF RunCheck
  <2>8. CASE RunUnlockEmpty(w)
      BY <2>8 DEF RunUnlockEmpty, Unlock
  <2>9. CASE RunFront(w)
      BY <2>9 DEF RunFront
  <2>10. CASE RunPop(w)
      BY <2>10, TailFacts DEF RunPop
  <2>11. CASE RunUnlock(w)
      BY <2>11 DEF RunUnlock, Unlock
  <2>12. CASE RunSkipNull(w)
      BY <2>12 DEF RunSkipNull
  <2>13. CASE RunDispatch(w)
      BY <2>13 DEF RunDispatch
  <2>14. CASE RunProcess(w)
      BY <2>14 DEF RunProcess
  <2>15. CASE RunUseFreed(w)
      BY <2>15 DEF RunUseFreed, PoolPC
  <2> QED BY <1>2,
            <2>3, <2>4, <2>5, <2>6, <2>7, <2>8, <2>9, <2>10, <2>11, <2>12, <2>13,
            <2>14, <2>15 DEF RunStep
<1>3. CASE SetStop \/ FreeMembers \/ UNCHANGED vars
  <2>1. Claiming' = Claiming /\ Posting' = Posting
      BY <1>3 DEF SetStop, FreeMembers, vars, Claiming, Posting
  <2> QED BY <1>3, <2>1 DEF SetStop, FreeMembers, vars
<1> QED BY <1>1, <1>2, <1>3 DEF Next, Pointers

\* No lost wake-up: a waiting request always has a unit, a worker or a producer
\* that will lead to its being taken.
THEOREM NoLostWakeup == Spec => []TokensCoverQueue
<1>1. IInv /\ Accounting /\ [Next]_vars => (IInv /\ Accounting)'
    BY NextIInv, NextAccounting
<1>2. Accounting => TokensCoverQueue
    BY DEF Accounting
<1> QED BY InitIInv, InitAccounting, <1>1, <1>2, PTL DEF Spec

\* A unit is never raised without a request behind it.
THEOREM NoInventedToken == Spec => []TokensNotInvented
<1>1. IInv /\ Accounting /\ [Next]_vars => (IInv /\ Accounting)'
    BY NextIInv, NextAccounting
<1>2. Accounting => TokensNotInvented
    BY DEF Accounting
<1> QED BY InitIInv, InitAccounting, <1>1, <1>2, PTL DEF Spec

\* The empty-queue branch of Run is dead code as long as no sem_wait fails.
THEOREM EmptyBranch == Spec => []EmptyOnlyAfterInterrupt
<1> DEFINE Inv == IInv /\ Accounting /\ EmptyOnlyAfterInterrupt
<1>1. Init => Inv
  <2>1. Init => EmptyOnlyAfterInterrupt
      BY DEF Init, EmptyOnlyAfterInterrupt, Threads
  <2> QED BY <2>1, InitIInv, InitAccounting
<1>2. Inv /\ [Next]_vars => Inv'
  <2> SUFFICES ASSUME Inv, [Next]_vars PROVE EmptyOnlyAfterInterrupt'
      BY NextIInv, NextAccounting
  <2>1. interrupts \in Nat /\ interrupts' \in Nat /\ interrupts' >= interrupts
      BY DEF IInv, TypeOK, Next, vars, CallAppend, AppendStep, AppendLock, AppendFull,
             AppendNotFull, AppendReturnFalse, AppendPush, AppendUnlock, AppendPost,
             RunStep, RunTest, RunWait, RunWaitInterrupted, RunLock, RunCheck,
             RunUnlockEmpty, RunFront, RunPop, RunUnlock, RunSkipNull, RunDispatch,
             RunProcess, RunUseFreed, SetStop, FreeMembers
  <2>2. ASSUME NEW w \in Workers, pc'[w] = "unlock_empty"
        PROVE  pc[w] = "unlock_empty" \/ (RunCheck(w) /\ queue = <<>>)
      BY <2>2, ThreadsDistinct
      DEF IInv, TypeOK, Next, vars, CallAppend, AppendStep, AppendLock, AppendFull,
          AppendNotFull, AppendReturnFalse, AppendPush, AppendUnlock, AppendPost,
          RunStep, RunTest, RunWait, RunWaitInterrupted, RunLock, RunCheck,
          RunUnlockEmpty, RunFront, RunPop, RunUnlock, RunSkipNull, RunDispatch,
          RunProcess, RunUseFreed, SetStop, FreeMembers, Goto, Threads
  <2>3. ASSUME NEW w \in Workers, RunCheck(w), queue = <<>>
        PROVE  interrupts > 0
    <3>1. w \in Claiming
        BY <2>3 DEF RunCheck, Goto, Claiming
    <3>2. Cardinality(Claiming) # 0
        BY <3>1, CountsAreNumbers, FS_EmptySet
    <3>3. sem \in Nat /\ Len(queue) = 0
        BY <2>3 DEF IInv, TypeOK
    <3>4. sem + Cardinality(Claiming) + Cardinality(Posting) <= Len(queue) + interrupts
        BY DEF Accounting, TokensNotInvented
    <3> HIDE DEF Inv
    <3> QED BY <3>2, <3>3, <3>4, <2>1, CountsAreNumbers
  <2>4. ASSUME NEW w \in Workers, pc'[w] = "unlock_empty"
        PROVE  interrupts > 0
      BY <2>4, <2>2, <2>3 DEF EmptyOnlyAfterInterrupt
  <2> QED BY <2>1, <2>4 DEF EmptyOnlyAfterInterrupt
<1>3. Inv => EmptyOnlyAfterInterrupt
    OBVIOUS
<1> HIDE DEF Inv
<1> QED BY <1>1, <1>2, <1>3, PTL DEF Spec

----------------------------------------------------------------------------
(* The pool implements the bounded queue.                                  *)

\* The initial pool is an empty queue with idle workers.
LEMMA RefineInit == Init => Abstract!Init
BY ThreadsDistinct DEF Init, Abstract!Init, Running, Threads

\* A producer's push is Accept; every other producer step leaves the abstract
\* queue alone. A worker's pop is Take, the end of a request is Finish.
LEMMA RefineNext == IInv /\ [Next]_vars => [Abstract!Next]_(Abstract!queueVars)
<1> SUFFICES ASSUME IInv, [Next]_vars PROVE [Abstract!Next]_(Abstract!queueVars)
    OBVIOUS
<1> USE ThreadsDistinct DEF IInv, TypeOK, Abstract!queueVars
<1>1. ASSUME NEW p \in Producers, AppendPush(p) PROVE Abstract!Next
  <2>1. Running' = Running
      BY <1>1 DEF AppendPush, Goto, Running, Threads
  <2>2. Len(queue) < MaxRequests + 1
      BY <1>1, MaxRequestsAssumption DEF AppendPush, Goto, CheckedStateHolds, IsFull
  <2>3. req[p] \in Pointers
      BY <1>1 DEF AppendPush, Goto, RequestHeld
  <2>4. Abstract!Accept(req[p])
      BY <1>1, <2>1, <2>2 DEF AppendPush, Abstract!Accept
  <2> QED BY <2>3, <2>4 DEF Abstract!Next
<1>2. ASSUME NEW w \in Workers, RunPop(w) PROVE Abstract!Next
  <2>1. queue # <<>> /\ req[w] = Head(queue)
      BY <1>2 DEF RunPop, Goto, CheckedStateHolds
  <2>2. Running[w] = None /\ Running' = [Running EXCEPT ![w] = Head(queue)]
      BY <1>2, <2>1 DEF RunPop, Goto, Running, Threads
  <2>3. Abstract!Take(w)
      BY <1>2, <2>1, <2>2 DEF RunPop, Abstract!Take
  <2> QED BY <2>3 DEF Abstract!Next
<1>3. ASSUME NEW w \in Workers, RunSkipNull(w) \/ RunProcess(w) PROVE Abstract!Next
  <2>1. Running[w] # None
      BY <1>3, RequestsAssumption
      DEF RunSkipNull, RunProcess, Goto, Running, RequestHeld, Pointers
  <2>2. Running' = [Running EXCEPT ![w] = None]
      BY <1>3 DEF RunSkipNull, RunProcess, Goto, Running, Threads
  <2>3. Abstract!Finish(w)
      BY <1>3, <2>1, <2>2 DEF RunSkipNull, RunProcess, Abstract!Finish
  <2> QED BY <2>3 DEF Abstract!Next
<1>4. ASSUME NEW w \in Workers, RunUseFreed(w)
      PROVE  [Abstract!Next]_(Abstract!queueVars)
  <2>1. CASE pc[w] = "unlock"
    <3>1. Running[w] # None
        BY <2>1, RequestsAssumption DEF Running, RequestHeld, Pointers
    <3>2. Running' = [Running EXCEPT ![w] = None]
        BY <1>4 DEF RunUseFreed, Running, Threads
    <3>3. Abstract!Finish(w)
        BY <1>4, <3>1, <3>2 DEF RunUseFreed, Abstract!Finish
    <3> QED BY <3>3 DEF Abstract!Next
  <2>2. CASE pc[w] # "unlock"
    <3>1. Running' = Running
        BY <1>4, <2>2 DEF RunUseFreed, PoolPC, Running, Threads
    <3> QED BY <1>4, <3>1 DEF RunUseFreed
  <2> QED BY <2>1, <2>2
<1>5. ASSUME NEW p \in Producers, NEW r \in Pointers,
             \/ CallAppend(p, r) \/ AppendLock(p) \/ AppendFull(p) \/ AppendNotFull(p)
             \/ AppendReturnFalse(p) \/ AppendUnlock(p) \/ AppendPost(p)
      PROVE  UNCHANGED Abstract!queueVars
  <2>1. Running' = Running
      BY <1>5
      DEF CallAppend, AppendLock, AppendFull, AppendNotFull, AppendReturnFalse,
          AppendUnlock, AppendPost, Goto, Running, Threads
  <2> QED BY <1>5, <2>1
          DEF CallAppend, AppendLock, AppendFull, AppendNotFull, AppendReturnFalse,
              AppendUnlock, AppendPost
<1>6. ASSUME NEW w \in Workers,
             \/ RunTest(w) \/ RunWait(w) \/ RunWaitInterrupted(w) \/ RunLock(w)
             \/ RunCheck(w) \/ RunUnlockEmpty(w) \/ RunFront(w) \/ RunUnlock(w)
             \/ RunDispatch(w)
      PROVE  UNCHANGED Abstract!queueVars
  <2>1. Running' = Running
      BY <1>6
      DEF RunTest, RunWait, RunWaitInterrupted, RunLock, RunCheck, RunUnlockEmpty,
          RunFront, RunUnlock, RunDispatch, Goto, Running, Threads
  <2> QED BY <1>6, <2>1
          DEF RunTest, RunWait, RunWaitInterrupted, RunLock, RunCheck, RunUnlockEmpty,
              RunFront, RunUnlock, RunDispatch
<1>7. CASE SetStop \/ FreeMembers \/ UNCHANGED vars
    BY <1>7 DEF SetStop, FreeMembers, vars, Running
<1> QED BY <1>1, <1>2, <1>3, <1>4, <1>5, <1>6, <1>7
        DEF Next, AppendStep, RunStep, Pointers

\* The pool is the bounded FIFO its callers rely on: every accepted request is
\* taken exactly once, by one worker, in the order of acceptance.
THEOREM PoolImplementsTaskQueue == Spec => ImplementsTaskQueue
<1> QED BY InitIInv, NextIInv, RefineInit, RefineNext, PTL
        DEF Spec, ImplementsTaskQueue, Abstract!Spec
=============================================================================
