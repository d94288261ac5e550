--------------------------- MODULE WebServer_proofs ---------------------------
(***************************************************************************)
(* Proofs about WebServer, for any numbers of descriptors, workers and     *)
(* clients, of a server that sends no empty file: then ProcessWrite never  *)
(* returns false and workers close nothing. (With empty files the          *)
(* properties below do not hold of the code: see OutMeansReply.)           *)
(***************************************************************************)
EXTENDS WebServer, FiniteSetTheorems, WellFoundedInduction, TLAPS

NoEmptyFiles == "empty_file" \notin Outcomes

(***************************************************************************)
(* The inductive invariant                                                 *)
(***************************************************************************)

\* Workers close nothing, and one has a connection exactly while it is at work.
WorkersProcess ==
    \A w \in Workers :
        /\ pc[w] \in {"idle", "process", "rearm"}
        /\ pc[w] = "idle" <=> running[w] = None

\* main handles a connection exactly inside Init and CloseConn, and waits for
\* new events only when it has handled the old ones.
MainHandles ==
    /\ handling = None <=> pc[Main] \in {"wait", "dispatch"}
    /\ pc[Main] = "wait" => batch = {}

Queued(fd)    == \E i \in DOMAIN pending : pending[i] = fd
Processed(fd) == \E w \in Workers : running[w] = fd
Busy(fd)      == Queued(fd) \/ Processed(fd)

\* The pool has no connection twice.
PoolHasOnce ==
    /\ \A i, j \in DOMAIN pending : pending[i] = pending[j] => i = j
    /\ \A v, w \in Workers : running[v] = running[w] /\ running[v] # None => v = w
    /\ \A i \in DOMAIN pending, w \in Workers : pending[i] # running[w]

Told(fd) == \E k \in {"hup", "in", "out"} : <<fd, k>> \in batch

\* A batch has one event for a connection.
OneEvent ==
    \A fd \in Fds, j, k \in {"hup", "in", "out"} :
        <<fd, j>> \in batch /\ <<fd, k>> \in batch => j = k

\* What the kernel knows of a free descriptor is nothing, and nobody has it.
FreeIsBlank ==
    \A fd \in Fds \ Open : kern[fd] = Closed /\ ~Busy(fd) /\ ~Told(fd)

\* An open connection is in exactly one place: armed, in main's batch, in
\* main's hands, or in the pool. (main arms it while it is still in Init.)
OneHolder ==
    \A fd \in Open :
        /\ Busy(fd) => ~Armed(fd) /\ ~Told(fd) /\ handling # fd
        /\ Told(fd) => ~Armed(fd) /\ handling # fd
        /\ Armed(fd) \/ Told(fd) \/ handling = fd \/ Busy(fd)

\* The steps of Init and CloseConn before and after the descriptor is in the
\* epoll set, and after it has left it.
Accepting == {"init_sock", "init_add"}
Added     == {"init_load", "init_store", "init_rest"}
Opened    == {"init_sock", "init_add", "init_load", "init_store", "init_rest",
              "close_check", "close_remove"}
Removed   == {"close_reset", "close_load", "close_store"}

Registered ==
    /\ \A fd \in Open :
           kern[fd].arm = "none" <=> handling = fd /\ pc[Main] \in Accepting
    /\ pc[Main] \in Added => Armed(handling)
    /\ pc[Main] \in Opened => handling \in Open
    /\ pc[Main] \in Removed => handling \notin Open

\* An object names its own descriptor from InitSock to CloseReset.
SockSet(fd) ==
    \/ fd \in Open /\ ~(pc[Main] = "init_sock" /\ handling = fd)
    \/ pc[Main] = "close_reset" /\ handling = fd

SockMatches == \A fd \in Fds : sockfd[fd] = IF SockSet(fd) THEN fd ELSE NoFd

IInv ==
    /\ TypeOK
    /\ WorkersProcess /\ MainHandles
    /\ PoolHasOnce /\ OneEvent
    /\ FreeIsBlank /\ OneHolder
    /\ Registered /\ SockMatches

\* The type invariant, variable by variable.
KernState == [open : BOOLEAN, arm : {"none", "off", "in", "out"},
              data : BOOLEAN, gone : BOOLEAN, full : BOOLEAN]
Events    == (Fds \X {"hup", "in", "out"}) \cup {<<Listen, "in">>}

CountsOK  == /\ backlog \in 0..Backlog /\ conns \in 0..MaxConns
             /\ userCount \in Int /\ tmp \in [Threads -> Int]
ObjectsOK == /\ sockfd \in [Fds -> Fds \cup {NoFd}]
             /\ reply \in [Fds -> BOOLEAN]
             /\ edge \in BOOLEAN
KernOK    == kern \in [Fds -> KernState]
MainOK    == batch \subseteq Events /\ handling \in Fds \cup {None}
PcOK      == /\ pc \in [Threads -> MainPC \cup WorkPC]
             /\ pc[Main] \in MainPC /\ \A w \in Workers : pc[w] \in WorkPC
PoolOK    == pending \in Seq(Fds) /\ running \in [Workers -> Fds \cup {None}]

(***************************************************************************)
(* Lemmas                                                                  *)
(***************************************************************************)

\* A client's descriptor is neither listenfd nor a missing one, and main is no worker.
LEMMA Distinct ==
    /\ \A fd \in Fds : fd \in Nat /\ fd # Listen /\ fd # NoFd /\ fd # None
    /\ \A w \in Workers : w # Main
    /\ Main \in Threads /\ Workers \subseteq Threads
BY FdsAssumption, ThreadsAssumption DEF Listen, NoFd, Threads

\* InBatch speaks of events, Told of the kinds a connection's event can have.
LEMMA InBatchIsTold ==
    ASSUME TypeOK, NEW fd \in Fds
    PROVE  InBatch(fd) <=> Told(fd)
BY Distinct DEF InBatch, Told, TypeOK

\* The descriptor an object names while its connection is not in Init's first step.
LEMMA BusyIsOpen ==
    ASSUME IInv, NEW fd \in Fds, Busy(fd) \/ Told(fd)
    PROVE  fd \in Open /\ sockfd[fd] = fd /\ kern[fd].arm = "off" /\ handling # fd
BY DEF IInv, FreeIsBlank, OneHolder, Registered, SockMatches, SockSet, TypeOK, Armed, Open,
    Removed

\* What the pool holds is a descriptor.
LEMMA PoolHolds ==
    ASSUME TypeOK
    PROVE  /\ \A i \in DOMAIN pending : pending[i] \in Fds /\ Queued(pending[i])
           /\ \A w \in Workers : running[w] # None => running[w] \in Fds /\ Processed(running[w])
BY DEF TypeOK, Pool!QueueTypeOK, Queued, Processed

\* The initial state.
LEMMA InitIInv == Init => IInv
<1> SUFFICES ASSUME Init PROVE IInv
    OBVIOUS
<1> USE Distinct
<1>1. TypeOK
  <2>1. backlog \in 0..Backlog /\ conns \in 0..MaxConns
      BY BoundsAssumption DEF Init
  <2>7. edge \in BOOLEAN
      BY DEF Init
  <2>2. kern \in [Fds -> [open : BOOLEAN, arm : {"none", "off", "in", "out"},
                         data : BOOLEAN, gone : BOOLEAN, full : BOOLEAN]]
      BY DEF Init, Closed
  <2>3. /\ sockfd \in [Fds -> Fds \cup {NoFd}] /\ reply \in [Fds -> BOOLEAN]
        /\ userCount \in Int /\ tmp \in [Threads -> Int]
      BY DEF Init
  <2>4. /\ batch \subseteq (Fds \X {"hup", "in", "out"}) \cup {<<Listen, "in">>}
        /\ handling \in Fds \cup {None}
      BY DEF Init
  <2>5. /\ pc \in [Threads -> MainPC \cup WorkPC]
        /\ pc[Main] \in MainPC /\ \A w \in Workers : pc[w] \in WorkPC
      BY DEF Init, MainPC, WorkPC, Threads
  <2>6. Pool!QueueTypeOK
      BY DEF Init, Pool!Init, Pool!QueueTypeOK
  <2> QED BY <2>1, <2>2, <2>3, <2>4, <2>5, <2>6, <2>7 DEF TypeOK
<1>2. Open = {}
    BY DEF Init, Open, Closed
<1>3. \A fd \in Fds : ~Busy(fd) /\ ~Told(fd)
    BY DEF Init, Pool!Init, Busy, Queued, Processed, Told
<1>4. WorkersProcess /\ MainHandles
    BY DEF Init, Pool!Init, WorkersProcess, MainHandles
<1>5. PoolHasOnce /\ OneEvent
    BY DEF Init, Pool!Init, PoolHasOnce, OneEvent
<1>6. FreeIsBlank /\ OneHolder
    BY <1>2, <1>3 DEF Init, FreeIsBlank, OneHolder
<1>7. Registered /\ SockMatches
    BY <1>2 DEF Init, Registered, SockMatches, SockSet, Opened, Removed, Added
<1> QED BY <1>1, <1>4, <1>5, <1>6, <1>7 DEF IInv

\* The type invariant in parts, so that a step is asked only about those it touches.
LEMMA TypeParts ==
    TypeOK <=> CountsOK /\ ObjectsOK /\ KernOK /\ MainOK /\ PcOK /\ PoolOK
BY DEF TypeOK, CountsOK, ObjectsOK, KernOK, MainOK, PcOK, PoolOK, KernState, Events,
    Pool!QueueTypeOK

\* The same, of the next state.
LEMMA TypePartsNext ==
    TypeOK' <=> CountsOK' /\ ObjectsOK' /\ KernOK' /\ MainOK' /\ PcOK' /\ PoolOK'
BY DEF TypeOK, CountsOK, ObjectsOK, KernOK, MainOK, PcOK, PoolOK, KernState, Events,
    Pool!QueueTypeOK

\* The parts of the invariant, as a step of a proof can cite them.
LEMMA Parts ==
    ASSUME IInv
    PROVE  /\ CountsOK /\ ObjectsOK /\ KernOK /\ MainOK /\ PcOK /\ PoolOK
           /\ WorkersProcess /\ MainHandles /\ PoolHasOnce /\ OneEvent
           /\ FreeIsBlank /\ OneHolder /\ Registered /\ SockMatches
BY TypeParts DEF IInv

\* And put together again.
LEMMA PartsNext ==
    ASSUME CountsOK', ObjectsOK', KernOK', MainOK', PcOK', PoolOK',
           WorkersProcess', MainHandles', PoolHasOnce', OneEvent',
           FreeIsBlank', OneHolder', Registered', SockMatches'
    PROVE  IInv'
BY TypePartsNext DEF IInv

(***************************************************************************)
(* What the helpers do                                                     *)
(***************************************************************************)

\* A set of descriptors that is not empty has a lowest one: what accept returns.
LEMMA LowestIsOne ==
    ASSUME NEW S \in SUBSET Nat, S # {}
    PROVE  Min(S) \in S
<1> DEFINE R == OpToRel(<, Nat)
<1>1. \E x \in S : \A y \in S : ~(<<y, x>> \in R)
    BY NatLessThanWellFounded, WFMin
<1>2. \A x, y \in S : <<y, x>> \notin R => x =< y
    BY DEF OpToRel
<1>3. \E x \in S : \A y \in S : x =< y
    BY <1>1, <1>2
<1> QED BY <1>3 DEF Min

\* Append hands the pool one connection more, which it had not.
LEMMA AppendGives ==
    ASSUME PoolOK, PoolHasOnce, NEW fd \in Fds, ~Busy(fd), Pool!Accept(fd)
    PROVE  PoolOK' /\ PoolHasOnce' /\ \A f \in Fds : Busy(f)' <=> Busy(f) \/ f = fd
<1>1. /\ pending' \in Seq(Fds) /\ running' = running
      /\ DOMAIN pending' = DOMAIN pending \cup {Len(pending) + 1}
      /\ \A i \in DOMAIN pending : pending'[i] = pending[i] /\ i # Len(pending) + 1
      /\ pending'[Len(pending) + 1] = fd
    BY DEF Pool!Accept, PoolOK
<1>2. \A i \in DOMAIN pending : pending[i] # fd
    BY DEF Busy, Queued
<1>3. \A w \in Workers : running[w] # fd
    BY DEF Busy, Processed
<1>4. PoolHasOnce'
    BY <1>1, <1>2, <1>3 DEF PoolHasOnce
<1>5. \A f \in Fds : Busy(f)' <=> Busy(f) \/ f = fd
    BY <1>1 DEF Busy, Queued, Processed
<1> QED BY <1>1, <1>4, <1>5 DEF PoolOK

\* A request that is taken moves from the queue to the worker.
LEMMA TakeMoves ==
    ASSUME PoolOK, PoolHasOnce, NEW w \in Workers, Pool!Take(w)
    PROVE  /\ PoolOK' /\ PoolHasOnce' /\ running'[w] # None
           /\ \A v \in Workers \ {w} : running'[v] = running[v]
           /\ \A f \in Fds : Busy(f)' <=> Busy(f)
<1>1. /\ pending' \in Seq(Fds) /\ Len(pending) \in Nat /\ Len(pending) >= 1
      /\ DOMAIN pending = 1..Len(pending) /\ DOMAIN pending' = 1..(Len(pending) - 1)
      /\ \A i \in 1..(Len(pending) - 1) : pending'[i] = pending[i + 1]
    BY DEF Pool!Take, PoolOK
<1>2. /\ running[w] = None /\ running'[w] = pending[1] /\ pending[1] \in Fds
      /\ \A v \in Workers \ {w} : running'[v] = running[v]
      /\ running' \in [Workers -> Fds \cup {None}]
    BY <1>1 DEF Pool!Take, PoolOK
<1>3. \A i \in DOMAIN pending' : i + 1 \in DOMAIN pending /\ i + 1 # 1 /\ 1 \in DOMAIN pending
    BY <1>1
<1>4. PoolHasOnce'
  <2>1. ASSUME NEW i \in DOMAIN pending', NEW j \in DOMAIN pending', pending'[i] = pending'[j]
        PROVE  i = j
      BY <2>1, <1>1, <1>3 DEF PoolHasOnce
  <2>2. ASSUME NEW u \in Workers, NEW v \in Workers, running'[u] = running'[v],
               running'[u] # None
        PROVE  u = v
      BY <2>2, <1>1, <1>2, <1>3 DEF PoolHasOnce
  <2>3. ASSUME NEW i \in DOMAIN pending', NEW v \in Workers
        PROVE  pending'[i] # running'[v]
      BY <1>1, <1>2, <1>3 DEF PoolHasOnce
  <2> QED BY <2>1, <2>2, <2>3 DEF PoolHasOnce
<1>5. ASSUME NEW f \in Fds PROVE Busy(f)' <=> Busy(f)
  <2>1. ASSUME NEW i \in DOMAIN pending, pending[i] = f PROVE Busy(f)'
    <3>1. CASE i = 1
        BY <2>1, <3>1, <1>2 DEF Busy, Processed
    <3>2. CASE i # 1
      <4>1. i - 1 \in DOMAIN pending' /\ pending'[i - 1] = f
          BY <2>1, <3>2, <1>1
      <4> QED BY <4>1 DEF Busy, Queued
    <3> QED BY <3>1, <3>2
  <2>2. ASSUME NEW v \in Workers, running[v] = f PROVE Busy(f)'
      BY <2>2, <1>2, Distinct DEF Busy, Processed
  <2>3. ASSUME NEW i \in DOMAIN pending', pending'[i] = f PROVE Busy(f)
      BY <2>3, <1>1, <1>3 DEF Busy, Queued
  <2>4. ASSUME NEW v \in Workers, running'[v] = f PROVE Busy(f)
      BY <2>4, <1>2, <1>3, <1>1 DEF Busy, Queued, Processed
  <2> QED BY <2>1, <2>2, <2>3, <2>4 DEF Busy, Queued, Processed
<1> QED BY <1>1, <1>2, <1>4, <1>5, Distinct DEF PoolOK

\* When Process returns, the pool has done with the worker's connection.
LEMMA FinishFrees ==
    ASSUME PoolOK, PoolHasOnce, NEW w \in Workers, Pool!Finish(w)
    PROVE  /\ PoolOK' /\ PoolHasOnce' /\ running'[w] = None
           /\ \A v \in Workers \ {w} : running'[v] = running[v]
           /\ running[w] \in Fds /\ Busy(running[w])
           /\ \A f \in Fds : Busy(f)' <=> Busy(f) /\ f # running[w]
<1>1. /\ pending' = pending /\ running' \in [Workers -> Fds \cup {None}]
      /\ running[w] \in Fds /\ running'[w] = None
      /\ \A v \in Workers \ {w} : running'[v] = running[v]
    BY DEF Pool!Finish, PoolOK
<1>2. \A i \in DOMAIN pending : pending[i] \in Fds /\ pending[i] # running[w]
    BY DEF PoolHasOnce, PoolOK
<1>3. \A v \in Workers \ {w} : running[v] # running[w]
    BY <1>1, Distinct DEF PoolHasOnce
<1>4. PoolHasOnce'
    BY <1>1, <1>2, Distinct DEF PoolHasOnce
<1>5. \A f \in Fds : Busy(f)' <=> Busy(f) /\ f # running[w]
    BY <1>1, <1>2, <1>3, Distinct DEF Busy, Queued, Processed
<1>6. Busy(running[w])
    BY <1>1 DEF Busy, Processed
<1> QED BY <1>1, <1>4, <1>5, <1>6 DEF PoolOK

\* The pool always has room for a connection it does not have: its queue is a
\* list without repetition of the other descriptors.
LEMMA PoolHasRoom ==
    ASSUME PoolOK, PoolHasOnce, NEW fd \in Fds, ~Busy(fd)
    PROVE  Len(pending) < MaxRequests + 1
<1> DEFINE Others == Fds \ {fd}
<1>1. /\ IsFiniteSet(Others) /\ Cardinality(Others) = Cardinality(Fds) - 1
      /\ Cardinality(Fds) \in Nat
    BY FdsAssumption, FS_RemoveElement, FS_CardinalityType
<1>2. Len(pending) \in Nat /\ DOMAIN pending = 1..Len(pending)
      /\ \A i \in 1..Len(pending) : pending[i] \in Others
    BY DEF PoolOK, Busy, Queued
<1>3. pending \in Injection(1..Len(pending), Others)
    BY <1>2 DEF Injection, IsInjective, PoolHasOnce, PoolOK
<1>4. Cardinality(1..Len(pending)) <= Cardinality(Others)
    BY <1>1, <1>3, FS_Injection
<1>5. Cardinality(1..Len(pending)) = Len(pending)
    BY <1>2, FS_Interval
<1> QED BY <1>1, <1>2, <1>4, <1>5, PoolIsLargeEnough, BoundsAssumption

\* Handling a connection's event takes the only one it has in the batch.
LEMMA EventTaken ==
    ASSUME OneEvent, NEW fd \in Fds, NEW k \in {"hup", "in", "out"}, <<fd, k>> \in batch,
           batch' = batch \ {<<fd, k>>}
    PROVE  OneEvent' /\ Told(fd) /\ \A f \in Fds : Told(f)' <=> Told(f) /\ f # fd
<1>1. OneEvent'
    BY DEF OneEvent
<1>2. Told(fd) /\ ~Told(fd)'
    BY DEF Told, OneEvent
<1>3. \A f \in Fds \ {fd} : Told(f)' <=> Told(f)
    BY DEF Told
<1> QED BY <1>1, <1>2, <1>3

\* Handling the event of listenfd takes no connection's event.
LEMMA ListenTaken ==
    ASSUME OneEvent, batch' = batch \ {<<Listen, "in">>}
    PROVE  OneEvent' /\ \A f \in Fds : Told(f)' <=> Told(f)
BY Distinct DEF OneEvent, Told

\* Modfd on a registered descriptor changes what epoll reports of it, and no more.
LEMMA ModfdArms ==
    ASSUME KernOK, NEW fd \in Fds, kern[fd].arm # "none", NEW ev \in {"in", "out"},
           Modfd(fd, ev)
    PROVE  /\ KernOK'
           /\ \A f \in Fds : kern'[f].open = kern[f].open
           /\ \A f \in Fds \ {fd} : kern'[f] = kern[f]
           /\ kern'[fd].arm = ev
<1>1. kern' = [kern EXCEPT ![fd].arm = ev]
    BY Distinct DEF Modfd
<1> QED BY <1>1 DEF KernOK, KernState

\* One field of what the kernel knows may change.
LEMMA FieldsOfKern ==
    ASSUME NEW r \in KernState, NEW b \in BOOLEAN, NEW a \in {"none", "off", "in", "out"}
    PROVE  /\ [r EXCEPT !.arm = a] \in KernState /\ [r EXCEPT !.open = b] \in KernState
           /\ [r EXCEPT !.data = b] \in KernState /\ [r EXCEPT !.gone = b] \in KernState
           /\ [r EXCEPT !.full = b] \in KernState
BY DEF KernState

\* A client connects.
LEMMA ConnectStep ==
    ASSUME NoEmptyFiles, IInv, Connect
    PROVE  IInv'
<1> USE Distinct, Parts DEF Connect, mainVars, connVars, poolVars
<1>1. \A f \in Fds : Busy(f)' <=> Busy(f)
    BY DEF Busy, Queued, Processed
<1>2. \A f \in Fds : Told(f)' <=> Told(f)
    BY DEF Told
<1>3. CountsOK' /\ ObjectsOK' /\ KernOK' /\ MainOK' /\ PcOK' /\ PoolOK' /\ WorkersProcess' /\
      MainHandles' /\ PoolHasOnce' /\ OneEvent'
    BY BoundsAssumption DEF CountsOK, ObjectsOK, KernOK, KernState, Closed, MainOK, Events,
        PcOK, MainPC, WorkPC, ClosePC, Threads, PoolOK, WorkersProcess, MainHandles,
        PoolHasOnce, OneEvent
<1>4. FreeIsBlank' /\ OneHolder'
    BY <1>1, <1>2 DEF FreeIsBlank, Open, OneHolder, Armed
<1>5. Registered' /\ SockMatches'
    BY DEF Registered, Open, Opened, Removed, Added, Armed, Accepting, KernOK, KernState,
        PcOK, MainHandles, Threads, SockMatches, SockSet, ObjectsOK
<1> QED BY <1>3, <1>4, <1>5, PartsNext

\* What a client does to its connection.
LEMMA ClientStepStep ==
    ASSUME NoEmptyFiles, IInv, NEW fd \in Fds, ClientStep(fd)
    PROVE  IInv'
<1> USE Distinct, Parts DEF ClientStep, clientVars, mainVars, connVars, poolVars
<1>1. /\ KernOK' /\ fd \in Open
      /\ \A f \in Fds : kern'[f].open = kern[f].open /\ kern'[f].arm = kern[f].arm
      /\ \A f \in Fds \ {fd} : kern'[f] = kern[f]
  <2>1. fd \in Open /\ \A f \in Fds \ {fd} : kern'[f] = kern[f]
      BY DEF KernOK, Open
  <2>2. kern'[fd] \in KernState /\ kern'[fd].open = kern[fd].open /\
        kern'[fd].arm = kern[fd].arm
    <3> USE DEF KernOK
    <3>1. CASE kern' = [kern EXCEPT ![fd].data = TRUE]
      <4>1. kern'[fd] = [kern[fd] EXCEPT !.data = TRUE]
          BY <3>1
      <4>2. [kern[fd] EXCEPT !.data = TRUE] \in KernState
          BY FieldsOfKern
      <4> QED BY <4>1, <4>2 DEF KernState
    <3>2. CASE kern' = [kern EXCEPT ![fd].gone = TRUE]
      <4>1. kern'[fd] = [kern[fd] EXCEPT !.gone = TRUE]
          BY <3>2
      <4>2. [kern[fd] EXCEPT !.gone = TRUE] \in KernState
          BY FieldsOfKern
      <4> QED BY <4>1, <4>2 DEF KernState
    <3>3. CASE kern' = [kern EXCEPT ![fd].full = FALSE]
      <4>1. kern'[fd] = [kern[fd] EXCEPT !.full = FALSE]
          BY <3>3
      <4>2. [kern[fd] EXCEPT !.full = FALSE] \in KernState
          BY FieldsOfKern
      <4> QED BY <4>1, <4>2 DEF KernState
    <3> QED BY <3>1, <3>2, <3>3
  <2>3. KernOK'
      BY <2>1, <2>2 DEF KernOK
  <2> QED BY <2>1, <2>2, <2>3
<1>2. \A f \in Fds : Busy(f)' <=> Busy(f)
    BY DEF Busy, Queued, Processed
<1>3. \A f \in Fds : Told(f)' <=> Told(f)
    BY DEF Told
<1>4. CountsOK' /\ ObjectsOK' /\ MainOK' /\ PcOK' /\ PoolOK' /\ WorkersProcess' /\
      MainHandles' /\ PoolHasOnce' /\ OneEvent'
    BY BoundsAssumption DEF CountsOK, ObjectsOK, MainOK, Events, PcOK, MainPC, WorkPC,
        ClosePC, Threads, PoolOK, WorkersProcess, MainHandles, PoolHasOnce, OneEvent
<1>5. FreeIsBlank' /\ OneHolder'
    BY <1>1, <1>2, <1>3 DEF FreeIsBlank, Open, OneHolder, Armed
<1>6. Registered'
    BY <1>1 DEF Registered, Open, Armed, MainHandles, MainOK, Added, Opened, PcOK
<1>7. SockMatches'
    BY <1>1 DEF SockMatches, SockSet, Open
<1> QED BY <1>1, <1>4, <1>5, <1>6, <1>7, PartsNext

\* epoll_wait moves the connections that are armed and ready into the batch.
LEMMA EpollWaitStep ==
    ASSUME NoEmptyFiles, IInv, EpollWait
    PROVE  IInv'
<1> USE Distinct, Parts DEF EpollWait, Goto, connVars, poolVars
<1>1. \A f \in Fds : Ready(f) => Armed(f) /\ f \in Open /\ ~Busy(f) /\ Event(f) \in {"hup",
      "in", "out"}
    BY DEF Ready, Armed, Event, KernOK, KernState, FreeIsBlank, OneHolder, Closed
<1>2. /\ KernOK' /\ \A f \in Fds : kern'[f].open = kern[f].open
      /\ \A f \in Fds : IF Ready(f) THEN kern'[f].arm = "off" ELSE kern'[f] = kern[f]
    BY DEF KernOK, KernState
<1>3. MainOK' /\ OneEvent' /\ handling' = None
    BY <1>1 DEF MainOK, Events, OneEvent, MainHandles
<1>4. \A f \in Fds : Busy(f)' <=> Busy(f)
    BY DEF Busy, Queued, Processed
<1>5. \A f \in Fds : Told(f)' <=> Ready(f)
    BY <1>1 DEF Told
<1>6. CountsOK' /\ ObjectsOK' /\ PcOK' /\ PoolOK' /\ WorkersProcess' /\ MainHandles' /\
      PoolHasOnce'
    BY BoundsAssumption DEF CountsOK, ObjectsOK, PcOK, MainPC, WorkPC, ClosePC, Threads,
        PoolOK, WorkersProcess, MainHandles, MainOK, PoolHasOnce
<1>7. FreeIsBlank'
    BY <1>1, <1>2, <1>3, <1>4, <1>5 DEF FreeIsBlank, Open
<1>8. OneHolder'
  <2> SUFFICES ASSUME NEW f \in Open'
               PROVE  /\ Busy(f)' => ~Armed(f)' /\ ~Told(f)' /\ handling' # f
                      /\ Told(f)' => ~Armed(f)' /\ handling' # f
                      /\ Armed(f)' \/ Told(f)' \/ handling' = f \/ Busy(f)'
      BY DEF OneHolder
  <2>1. f \in Open /\ handling = None /\ ~Told(f)
      BY <1>2 DEF Open, MainHandles, Told
  <2>2. CASE Ready(f)
      BY <2>1, <2>2, <1>1, <1>2, <1>3, <1>4, <1>5 DEF Armed, Open
  <2>3. CASE ~Ready(f)
      BY <2>1, <2>3, <1>2, <1>3, <1>4, <1>5 DEF Armed, Open, OneHolder
  <2> QED BY <2>2, <2>3
<1>9. Registered'
    BY <1>1, <1>2, <1>3 DEF Registered, Open, Opened, Removed, Added, Armed, PcOK, Threads
<1>10. SockMatches'
    BY <1>2 DEF SockMatches, SockSet, Open, PcOK, Threads
<1> QED BY <1>2, <1>3, <1>6, <1>7, <1>8, <1>9, <1>10, PartsNext

\* The batch is done.
LEMMA BatchDoneStep ==
    ASSUME NoEmptyFiles, IInv, BatchDone
    PROVE  IInv'
<1> USE Distinct, Parts DEF BatchDone, Goto, clientVars, mainVars, connVars, poolVars
<1>1. \A f \in Fds : Busy(f)' <=> Busy(f)
    BY DEF Busy, Queued, Processed
<1>2. \A f \in Fds : Told(f)' <=> Told(f)
    BY DEF Told
<1>3. CountsOK' /\ ObjectsOK' /\ KernOK' /\ MainOK' /\ PcOK' /\ PoolOK' /\ WorkersProcess' /\
      MainHandles' /\ PoolHasOnce' /\ OneEvent'
    BY BoundsAssumption DEF CountsOK, ObjectsOK, KernOK, KernState, Closed, MainOK, Events,
        PcOK, MainPC, WorkPC, ClosePC, Threads, PoolOK, WorkersProcess, MainHandles,
        PoolHasOnce, OneEvent
<1>4. FreeIsBlank' /\ OneHolder'
    BY <1>1, <1>2 DEF FreeIsBlank, Open, OneHolder, Armed
<1>5. Registered' /\ SockMatches'
    BY DEF Registered, Open, Opened, Removed, Added, Armed, Accepting, KernOK, KernState,
        PcOK, MainHandles, Threads, SockMatches, SockSet, ObjectsOK
<1> QED BY <1>3, <1>4, <1>5, PartsNext

\* accept returns a free descriptor; main has it from then on.
LEMMA AcceptStep ==
    ASSUME NoEmptyFiles, IInv, Accept
    PROVE  IInv'
<1> USE Distinct, Parts DEF Accept, Goto, connVars, poolVars
<1>1. handling' \in Fds \ Open
  <2>1. Fds \ Open \in SUBSET Nat /\ Fds \ Open # {}
      BY FdsAssumption DEF Open
  <2> QED BY <2>1, LowestIsOne
<1>2. /\ KernOK' /\ kern' = [kern EXCEPT ![handling'].open = TRUE]
    BY <1>1 DEF KernOK, KernState
<1>3. /\ Open' = Open \cup {handling'} /\ kern'[handling'].arm = "none"
      /\ \A f \in Fds \ {handling'} : kern'[f] = kern[f]
    BY <1>1, <1>2 DEF Open, KernOK, KernState, FreeIsBlank, Closed
<1>4. /\ batch' = batch \ {<<Listen, "in">>} /\ handling = None
      /\ pc[Main] = "dispatch" /\ pc'[Main] = "init_sock"
    BY DEF MainHandles, PcOK, Threads
<1>5. \A f \in Fds : Busy(f)' <=> Busy(f)
    BY DEF Busy, Queued, Processed
<1>6. OneEvent' /\ \A f \in Fds : Told(f)' <=> Told(f)
    BY <1>4, ListenTaken
<1>7. CountsOK' /\ ObjectsOK' /\ PcOK' /\ PoolOK' /\ WorkersProcess' /\ PoolHasOnce'
    BY BoundsAssumption DEF CountsOK, ObjectsOK, PcOK, MainPC, WorkPC, ClosePC, Threads,
        PoolOK, WorkersProcess, PoolHasOnce
<1>8. MainOK'
    BY <1>1, <1>4 DEF MainOK
<1>9. MainHandles'
    BY <1>1, <1>4 DEF MainHandles
<1>10. FreeIsBlank'
    BY <1>1, <1>3, <1>5, <1>6 DEF FreeIsBlank
<1>11. OneHolder'
  <2>1. ~Busy(handling') /\ ~Told(handling')
      BY <1>1 DEF FreeIsBlank
  <2>2. \A f \in Open : f # handling' /\ Armed(f)' = Armed(f)
      BY <1>1, <1>3 DEF Armed, Open
  <2> QED BY <1>1, <1>3, <2>1, <2>2, <1>4, <1>5, <1>6 DEF OneHolder, Open, Armed
<1>12. Registered'
  <2>1. \A f \in Open : f # handling' /\ kern'[f].arm = kern[f].arm /\ kern[f].arm # "none"
      BY <1>1, <1>3, <1>4 DEF Registered, Open, Accepting
  <2> QED BY <2>1, <1>1, <1>3, <1>4 DEF Registered, Opened, Removed, Added, Armed, Accepting
<1>13. SockMatches'
    BY <1>1, <1>3, <1>4 DEF SockMatches, SockSet
<1> QED BY <1>2, <1>6, <1>7, <1>8, <1>9, <1>10, <1>11, <1>12, <1>13, PartsNext

\* A client too many.
LEMMA AcceptBusyStep ==
    ASSUME NoEmptyFiles, IInv, AcceptBusy
    PROVE  IInv'
<1> USE Distinct, Parts DEF AcceptBusy, connVars, poolVars
<1>1. \A f \in Fds : Busy(f)' <=> Busy(f)
    BY DEF Busy, Queued, Processed
<1>2. OneEvent' /\ \A f \in Fds : Told(f)' <=> Told(f)
    BY ListenTaken
<1>3. CountsOK' /\ ObjectsOK' /\ KernOK' /\ MainOK' /\ PcOK' /\ PoolOK' /\ WorkersProcess' /\
      MainHandles' /\ PoolHasOnce'
    BY BoundsAssumption DEF CountsOK, ObjectsOK, KernOK, KernState, Closed, MainOK, Events,
        PcOK, MainPC, WorkPC, ClosePC, Threads, PoolOK, WorkersProcess, MainHandles, PoolHasOnce
<1>4. FreeIsBlank' /\ OneHolder'
    BY <1>1, <1>2 DEF FreeIsBlank, Open, OneHolder, Armed
<1>5. Registered' /\ SockMatches'
    BY DEF Registered, Open, Opened, Removed, Added, Armed, Accepting, KernOK, KernState,
        PcOK, MainHandles, Threads, SockMatches, SockSet, ObjectsOK
<1> QED BY <1>2, <1>3, <1>4, <1>5, PartsNext

\* accept fails.
LEMMA AcceptFailsStep ==
    ASSUME NoEmptyFiles, IInv, AcceptFails
    PROVE  IInv'
<1> USE Distinct, Parts DEF AcceptFails, clientVars, connVars, poolVars
<1>1. \A f \in Fds : Busy(f)' <=> Busy(f)
    BY DEF Busy, Queued, Processed
<1>2. OneEvent' /\ \A f \in Fds : Told(f)' <=> Told(f)
    BY ListenTaken
<1>3. CountsOK' /\ ObjectsOK' /\ KernOK' /\ MainOK' /\ PcOK' /\ PoolOK' /\ WorkersProcess' /\
      MainHandles' /\ PoolHasOnce'
    BY BoundsAssumption DEF CountsOK, ObjectsOK, KernOK, KernState, Closed, MainOK, Events,
        PcOK, MainPC, WorkPC, ClosePC, Threads, PoolOK, WorkersProcess, MainHandles, PoolHasOnce
<1>4. FreeIsBlank' /\ OneHolder'
    BY <1>1, <1>2 DEF FreeIsBlank, Open, OneHolder, Armed
<1>5. Registered' /\ SockMatches'
    BY DEF Registered, Open, Opened, Removed, Added, Armed, Accepting, KernOK, KernState,
        PcOK, MainHandles, Threads, SockMatches, SockSet, ObjectsOK
<1> QED BY <1>2, <1>3, <1>4, <1>5, PartsNext

\* A connection leaves the batch for main to close it.
LEMMA HandleHupStep ==
    ASSUME NoEmptyFiles, IInv, NEW fd \in Fds, HandleHup(fd)
    PROVE  IInv'
<1> USE Distinct, Parts DEF HandleHup, Goto, clientVars, connVars, poolVars
<1>1. /\ OneEvent' /\ Told(fd)
      /\ \A f \in Fds : Told(f)' <=> Told(f) /\ f # fd
    BY EventTaken
<1>2. fd \in Open /\ ~Armed(fd) /\ ~Busy(fd) /\ handling # fd /\ sockfd[fd] = fd /\
      kern[fd].arm # "none"
    BY <1>1, BusyIsOpen DEF OneHolder, FreeIsBlank, Armed
<1>3. pc[Main] = "dispatch" /\ pc'[Main] = "close_check" /\ handling' = fd /\ handling = None
    BY DEF PcOK, Threads, MainHandles
<1>4. \A f \in Fds : Busy(f)' <=> Busy(f)
    BY DEF Busy, Queued, Processed
<1>5. CountsOK' /\ ObjectsOK' /\ KernOK' /\ MainOK' /\ PcOK' /\ PoolOK' /\ WorkersProcess' /\
      PoolHasOnce'
    BY BoundsAssumption DEF CountsOK, ObjectsOK, KernOK, KernState, Closed, MainOK, Events,
        PcOK, MainPC, WorkPC, ClosePC, Threads, PoolOK, WorkersProcess, PoolHasOnce
<1>6. MainHandles'
    BY <1>3 DEF MainHandles
<1>7. FreeIsBlank' /\ OneHolder'
    BY <1>1, <1>2, <1>3, <1>4 DEF FreeIsBlank, Open, OneHolder, Armed
<1>8. Registered'
    BY <1>2, <1>3 DEF Registered, Open, Opened, Removed, Added, Armed, Accepting
<1>9. SockMatches'
    BY <1>2, <1>3 DEF SockMatches, SockSet, Open
<1> QED BY <1>1, <1>5, <1>6, <1>7, <1>8, <1>9, PartsNext

\* A connection leaves the batch for the pool, which takes it.
LEMMA HandleInStep ==
    ASSUME NoEmptyFiles, IInv, NEW fd \in Fds, HandleIn(fd)
    PROVE  IInv'
<1> USE Distinct, Parts DEF HandleIn, clientVars, connVars
<1>1. /\ OneEvent' /\ Told(fd)
      /\ \A f \in Fds : Told(f)' <=> Told(f) /\ f # fd
    BY EventTaken
<1>2. fd \in Open /\ ~Armed(fd) /\ ~Busy(fd) /\ handling # fd /\ sockfd[fd] = fd /\
      kern[fd].arm # "none"
    BY <1>1, BusyIsOpen DEF OneHolder, FreeIsBlank, Armed
<1>3. PoolOK' /\ PoolHasOnce' /\ running' = running /\
      \A f \in Fds : Busy(f)' <=> Busy(f) \/ f = fd
  <2>1. Len(pending) < MaxRequests + 1 /\ Len(pending) \in Nat
      BY <1>2, PoolHasRoom DEF PoolOK
  <2>2. Pool!Accept(fd)
      BY <2>1, BoundsAssumption DEF Pool!Reject
  <2> QED BY <2>2, <1>2, AppendGives DEF Pool!Accept
<1>4. /\ KernOK' /\ \A f \in Fds : kern'[f].open = kern[f].open /\ kern'[f].arm = kern[f].arm
      /\ \A f \in Fds \ {fd} : kern'[f] = kern[f]
    BY <1>2 DEF KernOK, KernState
<1>5. CountsOK' /\ ObjectsOK' /\ MainOK' /\ PcOK'
    BY BoundsAssumption DEF CountsOK, ObjectsOK, MainOK, Events, PcOK, MainPC, WorkPC,
        ClosePC, Threads
<1>6. WorkersProcess'
    BY <1>3 DEF WorkersProcess
<1>7. MainHandles'
    BY DEF MainHandles
<1>8. FreeIsBlank' /\ OneHolder'
    BY <1>1, <1>2, <1>3, <1>4 DEF FreeIsBlank, Open, OneHolder, Armed
<1>9. Registered'
    BY <1>4 DEF Registered, Open, Armed
<1>10. SockMatches'
    BY <1>4 DEF SockMatches, SockSet, Open
<1> QED BY <1>1, <1>3, <1>4, <1>5, <1>6, <1>7, <1>8, <1>9, <1>10, PartsNext

\* Read fails.
LEMMA HandleInFailsStep ==
    ASSUME NoEmptyFiles, IInv, NEW fd \in Fds, HandleInFails(fd)
    PROVE  IInv'
<1> USE Distinct, Parts DEF HandleInFails, Goto, clientVars, connVars, poolVars
<1>1. /\ OneEvent' /\ Told(fd)
      /\ \A f \in Fds : Told(f)' <=> Told(f) /\ f # fd
    BY EventTaken
<1>2. fd \in Open /\ ~Armed(fd) /\ ~Busy(fd) /\ handling # fd /\ sockfd[fd] = fd /\
      kern[fd].arm # "none"
    BY <1>1, BusyIsOpen DEF OneHolder, FreeIsBlank, Armed
<1>3. pc[Main] = "dispatch" /\ pc'[Main] = "close_check" /\ handling' = fd /\ handling = None
    BY DEF PcOK, Threads, MainHandles
<1>4. \A f \in Fds : Busy(f)' <=> Busy(f)
    BY DEF Busy, Queued, Processed
<1>5. CountsOK' /\ ObjectsOK' /\ KernOK' /\ MainOK' /\ PcOK' /\ PoolOK' /\ WorkersProcess' /\
      PoolHasOnce'
    BY BoundsAssumption DEF CountsOK, ObjectsOK, KernOK, KernState, Closed, MainOK, Events,
        PcOK, MainPC, WorkPC, ClosePC, Threads, PoolOK, WorkersProcess, PoolHasOnce
<1>6. MainHandles'
    BY <1>3 DEF MainHandles
<1>7. FreeIsBlank' /\ OneHolder'
    BY <1>1, <1>2, <1>3, <1>4 DEF FreeIsBlank, Open, OneHolder, Armed
<1>8. Registered'
    BY <1>2, <1>3 DEF Registered, Open, Opened, Removed, Added, Armed, Accepting
<1>9. SockMatches'
    BY <1>2, <1>3 DEF SockMatches, SockSet, Open
<1> QED BY <1>1, <1>5, <1>6, <1>7, <1>8, <1>9, PartsNext

\* Write arms the connection again.
LEMMA HandleOutStep ==
    ASSUME NoEmptyFiles, IInv, NEW fd \in Fds, HandleOut(fd)
    PROVE  IInv'
<1> USE Distinct, Parts DEF HandleOut, clientVars, poolVars
<1>1. /\ OneEvent' /\ Told(fd)
      /\ \A f \in Fds : Told(f)' <=> Told(f) /\ f # fd
    BY EventTaken
<1>2. fd \in Open /\ ~Armed(fd) /\ ~Busy(fd) /\ handling # fd /\ sockfd[fd] = fd /\
      kern[fd].arm # "none"
    BY <1>1, BusyIsOpen DEF OneHolder, FreeIsBlank, Armed
<1>3. /\ KernOK' /\ \A f \in Fds : kern'[f].open = kern[f].open
      /\ \A f \in Fds \ {fd} : kern'[f] = kern[f]
      /\ kern'[fd].arm \in {"in", "out"}
  <2>1. CASE Modfd(sockfd[fd], "in")
      BY <2>1, <1>2, ModfdArms
  <2>2. CASE kern' = [kern EXCEPT ![sockfd[fd]].arm = "out", ![sockfd[fd]].full = TRUE]
    <3>1. kern' = [kern EXCEPT ![fd] = [[kern[fd] EXCEPT !.arm = "out"] EXCEPT !.full = TRUE]]
        BY <2>2, <1>2
    <3>2. [[kern[fd] EXCEPT !.arm = "out"] EXCEPT !.full = TRUE] \in KernState
        BY FieldsOfKern DEF KernOK
    <3> QED BY <3>1, <3>2 DEF KernOK, KernState
  <2> QED BY <2>1, <2>2
<1>4. \A f \in Fds : Busy(f)' <=> Busy(f)
    BY DEF Busy, Queued, Processed
<1>5. CountsOK' /\ ObjectsOK' /\ MainOK' /\ PcOK' /\ PoolOK' /\ WorkersProcess' /\
      MainHandles' /\ PoolHasOnce'
    BY BoundsAssumption DEF CountsOK, ObjectsOK, MainOK, Events, PcOK, MainPC, WorkPC,
        ClosePC, Threads, PoolOK, WorkersProcess, MainHandles, PoolHasOnce
<1>6. FreeIsBlank' /\ OneHolder'
    BY <1>1, <1>2, <1>3, <1>4 DEF FreeIsBlank, Open, OneHolder, Armed
<1>7. Registered'
    BY <1>2, <1>3 DEF Registered, Open, Added, Armed, PcOK, Threads
<1>8. SockMatches'
    BY <1>2, <1>3 DEF SockMatches, SockSet, Open
<1> QED BY <1>1, <1>3, <1>5, <1>6, <1>7, <1>8, PartsNext

\* Write fails, having armed the connection or not.
LEMMA HandleOutFailsStep ==
    ASSUME NoEmptyFiles, IInv, NEW fd \in Fds, HandleOutFails(fd)
    PROVE  IInv'
<1> USE Distinct, Parts DEF HandleOutFails, Goto, clientVars, connVars, poolVars
<1>1. /\ OneEvent' /\ Told(fd)
      /\ \A f \in Fds : Told(f)' <=> Told(f) /\ f # fd
    BY EventTaken
<1>2. fd \in Open /\ ~Armed(fd) /\ ~Busy(fd) /\ handling # fd /\ sockfd[fd] = fd /\
      kern[fd].arm # "none"
    BY <1>1, BusyIsOpen DEF OneHolder, FreeIsBlank, Armed
<1>3. pc[Main] = "dispatch" /\ pc'[Main] = "close_check" /\ handling' = fd /\ handling = None
    BY DEF PcOK, Threads, MainHandles
<1>4. /\ KernOK' /\ \A f \in Fds : kern'[f].open = kern[f].open
      /\ \A f \in Fds \ {fd} : kern'[f] = kern[f]
      /\ kern'[fd].arm \in {"off", "in"}
  <2>1. CASE Modfd(sockfd[fd], "in")
      BY <2>1, <1>2, ModfdArms
  <2>2. CASE UNCHANGED kern
      BY <2>2, <1>2 DEF Armed, KernOK, KernState
  <2> QED BY <2>1, <2>2
<1>5. \A f \in Fds : Busy(f)' <=> Busy(f)
    BY DEF Busy, Queued, Processed
<1>6. CountsOK' /\ ObjectsOK' /\ MainOK' /\ PcOK' /\ PoolOK' /\ WorkersProcess' /\ PoolHasOnce'
    BY BoundsAssumption DEF CountsOK, ObjectsOK, MainOK, Events, PcOK, MainPC, WorkPC,
        ClosePC, Threads, PoolOK, WorkersProcess, PoolHasOnce
<1>7. MainHandles'
    BY <1>3 DEF MainHandles
<1>8. FreeIsBlank' /\ OneHolder'
    BY <1>1, <1>2, <1>3, <1>4, <1>5 DEF FreeIsBlank, Open, OneHolder, Armed
<1>9. Registered'
    BY <1>2, <1>4, <1>3 DEF Registered, Open, Opened, Removed, Added, Armed, Accepting
<1>10. SockMatches'
    BY <1>2, <1>4, <1>3 DEF SockMatches, SockSet, Open
<1> QED BY <1>1, <1>4, <1>6, <1>7, <1>8, <1>9, <1>10, PartsNext

\* Init: m_sockfd is set.
LEMMA InitSockStep ==
    ASSUME NoEmptyFiles, IInv, InitSock
    PROVE  IInv'
<1> USE Distinct, Parts DEF InitSock, Goto, clientVars, mainVars, poolVars
<1>1. \A f \in Fds : Busy(f)' <=> Busy(f)
    BY DEF Busy, Queued, Processed
<1>2. \A f \in Fds : Told(f)' <=> Told(f)
    BY DEF Told
<1>3. CountsOK' /\ ObjectsOK' /\ KernOK' /\ MainOK' /\ PcOK' /\ PoolOK' /\ WorkersProcess' /\
      MainHandles' /\ PoolHasOnce' /\ OneEvent'
    BY BoundsAssumption DEF CountsOK, ObjectsOK, KernOK, KernState, Closed, MainOK, Events,
        PcOK, MainPC, WorkPC, ClosePC, Threads, PoolOK, WorkersProcess, MainHandles,
        PoolHasOnce, OneEvent
<1>4. FreeIsBlank' /\ OneHolder'
    BY <1>1, <1>2 DEF FreeIsBlank, Open, OneHolder, Armed
<1>5. Registered'
    BY DEF Registered, Open, Opened, Removed, Added, Armed, Accepting, KernOK, KernState,
        PcOK, MainHandles, Threads
<1>6. SockMatches'
  <2>1. /\ pc[Main] = "init_sock" /\ pc'[Main] = "init_add" /\ handling \in Open
        /\ sockfd'[handling] = handling
        /\ \A f \in Fds \ {handling} : sockfd'[f] = sockfd[f]
      BY DEF PcOK, Threads, Registered, Opened, ObjectsOK, Open
  <2> QED BY <2>1 DEF SockMatches, SockSet, Open
<1> QED BY <1>3, <1>4, <1>5, <1>6, PartsNext

\* Init: the descriptor enters the epoll set.
LEMMA AddfdStep ==
    ASSUME NoEmptyFiles, IInv, Addfd
    PROVE  IInv'
<1> USE Distinct, Parts DEF Addfd, Goto, clientVars, connVars, mainVars, poolVars
<1>1. /\ pc[Main] = "init_add" /\ pc'[Main] = "init_load" /\ handling \in Open
    BY DEF PcOK, Threads, Registered, Opened
<1>2. /\ KernOK' /\ Open' = Open /\ kern'[handling].arm = "in"
      /\ \A f \in Fds \ {handling} : kern'[f] = kern[f]
    BY <1>1 DEF KernOK, KernState, Open
<1>3. \A f \in Fds : Busy(f)' <=> Busy(f)
    BY DEF Busy, Queued, Processed
<1>4. \A f \in Fds : Told(f)' <=> Told(f)
    BY DEF Told
<1>5. CountsOK' /\ ObjectsOK' /\ MainOK' /\ PcOK' /\ PoolOK' /\ WorkersProcess' /\
      MainHandles' /\ PoolHasOnce' /\ OneEvent'
    BY BoundsAssumption DEF CountsOK, ObjectsOK, MainOK, Events, PcOK, MainPC, WorkPC,
        ClosePC, Threads, PoolOK, WorkersProcess, MainHandles, PoolHasOnce, OneEvent
<1>6. FreeIsBlank'
    BY <1>1, <1>2, <1>3, <1>4 DEF FreeIsBlank
<1>7. OneHolder'
    BY <1>1, <1>2, <1>3, <1>4 DEF OneHolder, Open, Armed
<1>8. Registered'
    BY <1>1, <1>2 DEF Registered, Opened, Removed, Added, Armed, Accepting, Open
<1>9. SockMatches'
    BY <1>1, <1>2 DEF SockMatches, SockSet
<1> QED BY <1>2, <1>5, <1>6, <1>7, <1>8, <1>9, PartsNext

\* Init: m_user_count is loaded.
LEMMA InitLoadStep ==
    ASSUME NoEmptyFiles, IInv, InitLoad
    PROVE  IInv'
<1> USE Distinct, Parts DEF InitLoad, Goto, clientVars, connVars, mainVars, poolVars
<1>1. \A f \in Fds : Busy(f)' <=> Busy(f)
    BY DEF Busy, Queued, Processed
<1>2. \A f \in Fds : Told(f)' <=> Told(f)
    BY DEF Told
<1>3. CountsOK' /\ ObjectsOK' /\ KernOK' /\ MainOK' /\ PcOK' /\ PoolOK' /\ WorkersProcess' /\
      MainHandles' /\ PoolHasOnce' /\ OneEvent'
    BY BoundsAssumption DEF CountsOK, ObjectsOK, KernOK, KernState, Closed, MainOK, Events,
        PcOK, MainPC, WorkPC, ClosePC, Threads, PoolOK, WorkersProcess, MainHandles,
        PoolHasOnce, OneEvent
<1>4. FreeIsBlank' /\ OneHolder'
    BY <1>1, <1>2 DEF FreeIsBlank, Open, OneHolder, Armed
<1>5. Registered' /\ SockMatches'
    BY DEF Registered, Open, Opened, Removed, Added, Armed, Accepting, KernOK, KernState,
        PcOK, MainHandles, Threads, SockMatches, SockSet, ObjectsOK
<1> QED BY <1>3, <1>4, <1>5, PartsNext

\* Init: m_user_count is stored.
LEMMA InitStoreStep ==
    ASSUME NoEmptyFiles, IInv, InitStore
    PROVE  IInv'
<1> USE Distinct, Parts DEF InitStore, Goto, clientVars, connVars, mainVars, poolVars
<1>1. \A f \in Fds : Busy(f)' <=> Busy(f)
    BY DEF Busy, Queued, Processed
<1>2. \A f \in Fds : Told(f)' <=> Told(f)
    BY DEF Told
<1>3. CountsOK' /\ ObjectsOK' /\ KernOK' /\ MainOK' /\ PcOK' /\ PoolOK' /\ WorkersProcess' /\
      MainHandles' /\ PoolHasOnce' /\ OneEvent'
    BY BoundsAssumption DEF CountsOK, ObjectsOK, KernOK, KernState, Closed, MainOK, Events,
        PcOK, MainPC, WorkPC, ClosePC, Threads, PoolOK, WorkersProcess, MainHandles,
        PoolHasOnce, OneEvent
<1>4. FreeIsBlank' /\ OneHolder'
    BY <1>1, <1>2 DEF FreeIsBlank, Open, OneHolder, Armed
<1>5. Registered' /\ SockMatches'
    BY DEF Registered, Open, Opened, Removed, Added, Armed, Accepting, KernOK, KernState,
        PcOK, MainHandles, Threads, SockMatches, SockSet, ObjectsOK
<1> QED BY <1>3, <1>4, <1>5, PartsNext

\* Init ends: epoll has the connection.
LEMMA InitRestStep ==
    ASSUME NoEmptyFiles, IInv, InitRest
    PROVE  IInv'
<1> USE Distinct, Parts DEF InitRest, Goto, clientVars, poolVars
<1>1. \A f \in Fds : Busy(f)' <=> Busy(f)
    BY DEF Busy, Queued, Processed
<1>2. \A f \in Fds : Told(f)' <=> Told(f)
    BY DEF Told
<1>3. CountsOK' /\ ObjectsOK' /\ KernOK' /\ MainOK' /\ PcOK' /\ PoolOK' /\ WorkersProcess' /\
      MainHandles' /\ PoolHasOnce' /\ OneEvent'
    BY BoundsAssumption DEF CountsOK, ObjectsOK, KernOK, KernState, Closed, MainOK, Events,
        PcOK, MainPC, WorkPC, ClosePC, Threads, PoolOK, WorkersProcess, MainHandles,
        PoolHasOnce, OneEvent
<1>4. FreeIsBlank'
    BY <1>1, <1>2 DEF FreeIsBlank, Open
<1>5. OneHolder'
  <2>1. Armed(handling) /\ handling' = None
      BY DEF Registered, Added
  <2> QED BY <2>1, <1>1, <1>2 DEF OneHolder, Open, Armed
<1>6. Registered' /\ SockMatches'
    BY DEF Registered, Open, Opened, Removed, Added, Armed, Accepting, KernOK, KernState,
        PcOK, MainHandles, Threads, SockMatches, SockSet, ObjectsOK
<1> QED BY <1>3, <1>4, <1>5, <1>6, PartsNext

\* CloseConn: the object is in use.
LEMMA CloseCheckStep ==
    ASSUME NoEmptyFiles, IInv, CloseCheck(Main)
    PROVE  IInv'
<1> USE Distinct, Parts DEF CloseCheck, Goto, clientVars, connVars, mainVars, poolVars
<1>1. \A f \in Fds : Busy(f)' <=> Busy(f)
    BY DEF Busy, Queued, Processed
<1>2. \A f \in Fds : Told(f)' <=> Told(f)
    BY DEF Told
<1>3. CountsOK' /\ ObjectsOK' /\ KernOK' /\ MainOK' /\ PcOK' /\ PoolOK' /\ WorkersProcess' /\
      MainHandles' /\ PoolHasOnce' /\ OneEvent'
    BY BoundsAssumption DEF CountsOK, ObjectsOK, KernOK, KernState, Closed, MainOK, Events,
        PcOK, MainPC, WorkPC, ClosePC, Threads, PoolOK, WorkersProcess, MainHandles,
        PoolHasOnce, OneEvent
<1>4. FreeIsBlank' /\ OneHolder'
    BY <1>1, <1>2 DEF FreeIsBlank, Open, OneHolder, Armed
<1>5. Registered' /\ SockMatches'
    BY DEF Registered, Open, Opened, Removed, Added, Armed, Accepting, KernOK, KernState,
        PcOK, MainHandles, Threads, SockMatches, SockSet, ObjectsOK
<1> QED BY <1>3, <1>4, <1>5, PartsNext

\* CloseConn: the object main closes is always in use.
LEMMA CloseNothingStep ==
    ASSUME NoEmptyFiles, IInv, CloseNothing(Main)
    PROVE  IInv'
<1> USE Distinct, Parts DEF CloseNothing, Goto
<1>1. pc[Main] = "close_check" /\ handling \in Open /\ sockfd[handling] = NoFd
    BY DEF Registered, Opened, Conn
<1>2. sockfd[handling] = handling
    BY <1>1 DEF SockMatches, SockSet, Open
<1> QED BY <1>1, <1>2 DEF Open

\* CloseConn: the descriptor is free again.
LEMMA CloseRemoveStep ==
    ASSUME NoEmptyFiles, IInv, CloseRemove(Main)
    PROVE  IInv'
<1> USE Distinct, Parts DEF CloseRemove, Conn, Goto, clientVars, connVars, mainVars, poolVars
<1>1. /\ pc[Main] = "close_remove" /\ pc'[Main] = "close_reset" /\ handling \in Open
      /\ sockfd[handling] = handling
    BY DEF PcOK, Threads, Registered, Opened, SockMatches, SockSet, Open
<1>2. /\ KernOK' /\ Open' = Open \ {handling} /\ kern'[handling] = Closed
      /\ \A f \in Fds \ {handling} : kern'[f] = kern[f]
    BY <1>1 DEF KernOK, KernState, Open, Closed
<1>3. \A f \in Fds : Busy(f)' <=> Busy(f)
    BY DEF Busy, Queued, Processed
<1>4. \A f \in Fds : Told(f)' <=> Told(f)
    BY DEF Told
<1>5. CountsOK' /\ ObjectsOK' /\ MainOK' /\ PcOK' /\ PoolOK' /\ WorkersProcess' /\
      MainHandles' /\ PoolHasOnce' /\ OneEvent'
    BY BoundsAssumption DEF CountsOK, ObjectsOK, MainOK, Events, PcOK, MainPC, WorkPC,
        ClosePC, Threads, PoolOK, WorkersProcess, MainHandles, PoolHasOnce, OneEvent
<1>6. FreeIsBlank'
    BY <1>1, <1>2, <1>3, <1>4 DEF FreeIsBlank, OneHolder
<1>7. OneHolder'
    BY <1>1, <1>2, <1>3, <1>4 DEF OneHolder, Open, Armed
<1>8. Registered'
    BY <1>1, <1>2 DEF Registered, Opened, Removed, Added, Armed, Accepting, Open
<1>9. SockMatches'
    BY <1>1, <1>2 DEF SockMatches, SockSet
<1> QED BY <1>2, <1>5, <1>6, <1>7, <1>8, <1>9, PartsNext

\* CloseConn: m_sockfd is reset.
LEMMA CloseResetStep ==
    ASSUME NoEmptyFiles, IInv, CloseReset(Main)
    PROVE  IInv'
<1> USE Distinct, Parts DEF CloseReset, Conn, Goto, clientVars, mainVars, poolVars
<1>1. \A f \in Fds : Busy(f)' <=> Busy(f)
    BY DEF Busy, Queued, Processed
<1>2. \A f \in Fds : Told(f)' <=> Told(f)
    BY DEF Told
<1>3. CountsOK' /\ ObjectsOK' /\ KernOK' /\ MainOK' /\ PcOK' /\ PoolOK' /\ WorkersProcess' /\
      MainHandles' /\ PoolHasOnce' /\ OneEvent'
    BY BoundsAssumption DEF CountsOK, ObjectsOK, KernOK, KernState, Closed, MainOK, Events,
        PcOK, MainPC, WorkPC, ClosePC, Threads, PoolOK, WorkersProcess, MainHandles,
        PoolHasOnce, OneEvent
<1>4. FreeIsBlank' /\ OneHolder'
    BY <1>1, <1>2 DEF FreeIsBlank, Open, OneHolder, Armed
<1>5. Registered'
    BY DEF Registered, Open, Opened, Removed, Added, Armed, Accepting, KernOK, KernState,
        PcOK, MainHandles, Threads
<1>6. SockMatches'
  <2>1. /\ pc[Main] = "close_reset" /\ pc'[Main] = "close_load" /\ handling \in Fds \ Open
        /\ sockfd'[handling] = NoFd
        /\ \A f \in Fds \ {handling} : sockfd'[f] = sockfd[f]
      BY DEF PcOK, Threads, Registered, Removed, ObjectsOK, MainHandles, MainOK
  <2> QED BY <2>1 DEF SockMatches, SockSet, Open
<1> QED BY <1>3, <1>4, <1>5, <1>6, PartsNext

\* CloseConn: m_user_count is loaded.
LEMMA CloseLoadStep ==
    ASSUME NoEmptyFiles, IInv, CloseLoad(Main)
    PROVE  IInv'
<1> USE Distinct, Parts DEF CloseLoad, Goto, clientVars, connVars, mainVars, poolVars
<1>1. \A f \in Fds : Busy(f)' <=> Busy(f)
    BY DEF Busy, Queued, Processed
<1>2. \A f \in Fds : Told(f)' <=> Told(f)
    BY DEF Told
<1>3. CountsOK' /\ ObjectsOK' /\ KernOK' /\ MainOK' /\ PcOK' /\ PoolOK' /\ WorkersProcess' /\
      MainHandles' /\ PoolHasOnce' /\ OneEvent'
    BY BoundsAssumption DEF CountsOK, ObjectsOK, KernOK, KernState, Closed, MainOK, Events,
        PcOK, MainPC, WorkPC, ClosePC, Threads, PoolOK, WorkersProcess, MainHandles,
        PoolHasOnce, OneEvent
<1>4. FreeIsBlank' /\ OneHolder'
    BY <1>1, <1>2 DEF FreeIsBlank, Open, OneHolder, Armed
<1>5. Registered' /\ SockMatches'
    BY DEF Registered, Open, Opened, Removed, Added, Armed, Accepting, KernOK, KernState,
        PcOK, MainHandles, Threads, SockMatches, SockSet, ObjectsOK
<1> QED BY <1>3, <1>4, <1>5, PartsNext

\* CloseConn: m_user_count is stored, and main has done with the connection.
LEMMA CloseStoreStep ==
    ASSUME NoEmptyFiles, IInv, CloseStore(Main)
    PROVE  IInv'
<1> USE Distinct, Parts DEF CloseStore, AfterClose, LeaveClose, Goto, clientVars, connVars,
      poolVars
<1>1. \A f \in Fds : Busy(f)' <=> Busy(f)
    BY DEF Busy, Queued, Processed
<1>2. \A f \in Fds : Told(f)' <=> Told(f)
    BY DEF Told
<1>3. CountsOK' /\ ObjectsOK' /\ KernOK' /\ MainOK' /\ PcOK' /\ PoolOK' /\ WorkersProcess' /\
      MainHandles' /\ PoolHasOnce' /\ OneEvent'
    BY BoundsAssumption DEF CountsOK, ObjectsOK, KernOK, KernState, Closed, MainOK, Events,
        PcOK, MainPC, WorkPC, ClosePC, Threads, PoolOK, WorkersProcess, MainHandles,
        PoolHasOnce, OneEvent
<1>4. FreeIsBlank'
    BY <1>1, <1>2 DEF FreeIsBlank, Open
<1>5. OneHolder'
    BY <1>1, <1>2 DEF OneHolder, Open, Armed, Registered, Removed
<1>6. Registered' /\ SockMatches'
    BY DEF Registered, Open, Opened, Removed, Added, Armed, Accepting, KernOK, KernState,
        PcOK, MainHandles, Threads, SockMatches, SockSet, ObjectsOK
<1> QED BY <1>3, <1>4, <1>5, <1>6, PartsNext

\* A worker takes a connection from the queue.
LEMMA TakeRequestStep ==
    ASSUME NoEmptyFiles, IInv, NEW w \in Workers, TakeRequest(w)
    PROVE  IInv'
<1> USE Distinct, Parts DEF TakeRequest, Goto, clientVars, connVars, mainVars
<1>1. /\ PoolOK' /\ PoolHasOnce' /\ running'[w] # None
      /\ \A v \in Workers \ {w} : running'[v] = running[v]
      /\ \A f \in Fds : Busy(f)' <=> Busy(f)
    BY TakeMoves
<1>2. \A f \in Fds : Told(f)' <=> Told(f)
    BY DEF Told
<1>3. CountsOK' /\ ObjectsOK' /\ KernOK' /\ MainOK' /\ PcOK' /\ MainHandles' /\ OneEvent'
    BY BoundsAssumption DEF CountsOK, ObjectsOK, KernOK, KernState, Closed, MainOK, Events,
        PcOK, MainPC, WorkPC, ClosePC, Threads, MainHandles, OneEvent
<1>4. WorkersProcess'
    BY <1>1 DEF WorkersProcess, PcOK, Threads
<1>5. FreeIsBlank' /\ OneHolder'
    BY <1>1, <1>2 DEF FreeIsBlank, Open, OneHolder, Armed
<1>6. Registered' /\ SockMatches'
    BY DEF Registered, Open, Opened, Removed, Added, Armed, Accepting, KernOK, KernState,
        PcOK, MainHandles, Threads, SockMatches, SockSet, ObjectsOK
<1> QED BY <1>1, <1>3, <1>4, <1>5, <1>6, PartsNext

\* A worker arms the connection of an incomplete request.
LEMMA ProcessIncompleteStep ==
    ASSUME NoEmptyFiles, IInv, NEW w \in Workers, ProcessIncomplete(w)
    PROVE  IInv'
<1> USE Distinct, Parts DEF ProcessIncomplete, Goto, clientVars, connVars, mainVars
<1>1. /\ PoolOK' /\ PoolHasOnce' /\ running'[w] = None
      /\ \A v \in Workers \ {w} : running'[v] = running[v]
      /\ running[w] \in Fds /\ Busy(running[w])
      /\ \A f \in Fds : Busy(f)' <=> Busy(f) /\ f # running[w]
    BY FinishFrees
<1>2. /\ running[w] \in Open /\ sockfd[running[w]] = running[w]
      /\ kern[running[w]].arm = "off" /\ handling # running[w] /\ ~Told(running[w])
    BY <1>1, BusyIsOpen DEF OneHolder
<1>3. /\ KernOK' /\ \A f \in Fds : kern'[f].open = kern[f].open
      /\ \A f \in Fds \ {running[w]} : kern'[f] = kern[f]
      /\ kern'[running[w]].arm = "in"
    BY <1>1, <1>2, ModfdArms
<1>4. \A f \in Fds : Told(f)' <=> Told(f)
    BY DEF Told
<1>5. CountsOK' /\ ObjectsOK' /\ MainOK' /\ PcOK' /\ MainHandles' /\ OneEvent'
    BY BoundsAssumption DEF CountsOK, ObjectsOK, MainOK, Events, PcOK, MainPC, WorkPC,
        ClosePC, Threads, MainHandles, OneEvent
<1>6. WorkersProcess'
    BY <1>1 DEF WorkersProcess, PcOK, Threads
<1>7. FreeIsBlank' /\ OneHolder'
    BY <1>1, <1>2, <1>3, <1>4 DEF FreeIsBlank, Open, OneHolder, Armed
<1>8. Registered'
    BY <1>2, <1>3 DEF Registered, Open, Opened, Removed, Added, Armed, Accepting, PcOK, Threads
<1>9. SockMatches'
    BY <1>2, <1>3 DEF SockMatches, SockSet, Open, PcOK, Threads
<1> QED BY <1>1, <1>3, <1>5, <1>6, <1>7, <1>8, <1>9, PartsNext

\* A worker writes a reply.
LEMMA ProcessReplyStep ==
    ASSUME NoEmptyFiles, IInv, NEW w \in Workers, ProcessReply(w)
    PROVE  IInv'
<1> USE Distinct, Parts DEF ProcessReply, Goto, poolVars, clientVars, mainVars
<1>1. \A f \in Fds : Busy(f)' <=> Busy(f)
    BY DEF Busy, Queued, Processed
<1>2. \A f \in Fds : Told(f)' <=> Told(f)
    BY DEF Told
<1>3. CountsOK' /\ ObjectsOK' /\ KernOK' /\ MainOK' /\ PcOK' /\ PoolOK' /\ WorkersProcess' /\
      MainHandles' /\ PoolHasOnce' /\ OneEvent'
    BY BoundsAssumption DEF CountsOK, ObjectsOK, KernOK, KernState, Closed, MainOK, Events,
        PcOK, MainPC, WorkPC, ClosePC, Threads, PoolOK, WorkersProcess, MainHandles,
        PoolHasOnce, OneEvent
<1>4. FreeIsBlank' /\ OneHolder'
    BY <1>1, <1>2 DEF FreeIsBlank, Open, OneHolder, Armed
<1>5. Registered' /\ SockMatches'
    BY DEF Registered, Open, Opened, Removed, Added, Armed, Accepting, KernOK, KernState,
        PcOK, MainHandles, Threads, SockMatches, SockSet, ObjectsOK
<1> QED BY <1>3, <1>4, <1>5, PartsNext

\* A worker arms the connection for writing.
LEMMA ProcessRearmStep ==
    ASSUME NoEmptyFiles, IInv, NEW w \in Workers, ProcessRearm(w)
    PROVE  IInv'
<1> USE Distinct, Parts DEF ProcessRearm, Goto, clientVars, connVars, mainVars
<1>1. /\ PoolOK' /\ PoolHasOnce' /\ running'[w] = None
      /\ \A v \in Workers \ {w} : running'[v] = running[v]
      /\ running[w] \in Fds /\ Busy(running[w])
      /\ \A f \in Fds : Busy(f)' <=> Busy(f) /\ f # running[w]
    BY FinishFrees
<1>2. /\ running[w] \in Open /\ sockfd[running[w]] = running[w]
      /\ kern[running[w]].arm = "off" /\ handling # running[w] /\ ~Told(running[w])
    BY <1>1, BusyIsOpen DEF OneHolder
<1>3. /\ KernOK' /\ \A f \in Fds : kern'[f].open = kern[f].open
      /\ \A f \in Fds \ {running[w]} : kern'[f] = kern[f]
      /\ kern'[running[w]].arm = "out"
    BY <1>1, <1>2, ModfdArms
<1>4. \A f \in Fds : Told(f)' <=> Told(f)
    BY DEF Told
<1>5. CountsOK' /\ ObjectsOK' /\ MainOK' /\ PcOK' /\ MainHandles' /\ OneEvent'
    BY BoundsAssumption DEF CountsOK, ObjectsOK, MainOK, Events, PcOK, MainPC, WorkPC,
        ClosePC, Threads, MainHandles, OneEvent
<1>6. WorkersProcess'
    BY <1>1 DEF WorkersProcess, PcOK, Threads
<1>7. FreeIsBlank' /\ OneHolder'
    BY <1>1, <1>2, <1>3, <1>4 DEF FreeIsBlank, Open, OneHolder, Armed
<1>8. Registered'
    BY <1>2, <1>3 DEF Registered, Open, Opened, Removed, Added, Armed, Accepting, PcOK, Threads
<1>9. SockMatches'
    BY <1>2, <1>3 DEF SockMatches, SockSet, Open, PcOK, Threads
<1> QED BY <1>1, <1>3, <1>5, <1>6, <1>7, <1>8, <1>9, PartsNext

\* A step that changes nothing.
LEMMA StutterStep ==
    ASSUME IInv, UNCHANGED vars
    PROVE  IInv'
<1> USE Distinct, Parts DEF vars, clientVars, connVars, mainVars, poolVars
<1>1. CountsOK' /\ ObjectsOK' /\ KernOK' /\ MainOK' /\ PcOK' /\ PoolOK'
    BY DEF CountsOK, ObjectsOK, KernOK, MainOK, PcOK, PoolOK
<1>2. WorkersProcess' /\ MainHandles' /\ PoolHasOnce' /\ OneEvent'
    BY DEF WorkersProcess, MainHandles, PoolHasOnce, OneEvent
<1>3. /\ Open' = Open /\ \A f \in Fds : Armed(f)' = Armed(f)
      /\ \A f \in Fds : (Busy(f)' <=> Busy(f)) /\ (Told(f)' <=> Told(f))
    BY DEF Open, Armed, Busy, Queued, Processed, Told
<1>4. FreeIsBlank' /\ OneHolder'
    BY <1>3 DEF FreeIsBlank, OneHolder, Open
<1>5. Registered' /\ SockMatches'
    BY <1>3 DEF Registered, SockMatches, SockSet, MainHandles, MainOK, Added, Armed
<1> QED BY <1>1, <1>2, <1>4, <1>5, PartsNext

\* Without empty files a worker never closes a connection.
LEMMA WorkersDoNotClose ==
    ASSUME NoEmptyFiles, IInv, NEW w \in Workers
    PROVE  ~CloseConn(w) /\ ~ProcessWriteFails(w)
<1>1. pc[w] \in {"idle", "process", "rearm"}
    BY Parts DEF WorkersProcess
<1> QED BY <1>1 DEF NoEmptyFiles, CloseConn, ProcessWriteFails, CloseCheck, CloseNothing,
           CloseRemove, CloseReset, CloseLoad, CloseStore, Goto

\* Every step keeps the invariant.
LEMMA NextIInv ==
    ASSUME NoEmptyFiles, IInv, [Next]_vars
    PROVE  IInv'
<1>1. CASE UNCHANGED vars
    BY <1>1, StutterStep
<1>2. CASE Connect \/ \E fd \in Fds : ClientStep(fd)
    BY <1>2, ConnectStep, ClientStepStep
<1>3. CASE MainStep
    BY <1>3, EpollWaitStep, BatchDoneStep, AcceptStep, AcceptBusyStep, AcceptFailsStep,
       HandleHupStep, HandleInStep, HandleInFailsStep, HandleOutStep, HandleOutFailsStep,
       InitSockStep, AddfdStep, InitLoadStep, InitStoreStep, InitRestStep, CloseCheckStep,
       CloseNothingStep, CloseRemoveStep, CloseResetStep, CloseLoadStep, CloseStoreStep
    DEF MainStep, CloseConn
<1>4. ASSUME NEW w \in Workers, WorkerStep(w) PROVE IInv'
    BY <1>4, WorkersDoNotClose, TakeRequestStep, ProcessIncompleteStep, ProcessReplyStep,
       ProcessRearmStep DEF WorkerStep
<1> QED BY <1>1, <1>2, <1>3, <1>4 DEF Next

\* The invariant holds in every state of a server without empty files.
LEMMA Invariance ==
    ASSUME NoEmptyFiles
    PROVE  Spec => []IInv
<1>1. IInv /\ [Next]_vars => IInv'
    BY NextIInv
<1> QED BY <1>1, InitIInv, PTL DEF Spec

\* What the pool has it has once, so that Assigned counts to one.
LEMMA AssignedOnce ==
    ASSUME PoolOK, PoolHasOnce, NEW fd \in Fds
    PROVE  Assigned(fd) = IF Busy(fd) THEN 1 ELSE 0
<1> DEFINE Q == {i \in DOMAIN pending : pending[i] = fd}
           P == {w \in Workers : running[w] = fd}
<1>1. CASE Queued(fd)
  <2>1. PICK i \in DOMAIN pending : pending[i] = fd
      BY <1>1 DEF Queued
  <2>2. Q = {i}
      BY <2>1 DEF PoolHasOnce
  <2>3. P = {}
      BY <2>1 DEF PoolHasOnce
  <2>4. Cardinality(Q) = 1 /\ Cardinality(P) = 0
      BY <2>2, <2>3, FS_Singleton, FS_EmptySet
  <2> QED BY <1>1, <2>4 DEF Assigned, Busy
<1>2. CASE ~Queued(fd) /\ Processed(fd)
  <2>1. PICK w \in Workers : running[w] = fd
      BY <1>2 DEF Processed
  <2>2. P = {w}
      BY <2>1, Distinct DEF PoolHasOnce
  <2>3. Q = {}
      BY <1>2 DEF Queued
  <2>4. Cardinality(P) = 1 /\ Cardinality(Q) = 0
      BY <2>2, <2>3, FS_Singleton, FS_EmptySet
  <2> QED BY <1>2, <2>4 DEF Assigned, Busy
<1>3. CASE ~Busy(fd)
  <2>1. Q = {} /\ P = {}
      BY <1>3 DEF Busy, Queued, Processed
  <2> QED BY <1>3, <2>1, FS_EmptySet DEF Assigned
<1> QED BY <1>1, <1>2, <1>3 DEF Busy

(***************************************************************************)
(* The theorems                                                            *)
(***************************************************************************)

\* Every variable keeps its type (Init and CloseConn run in the order of the code).
THEOREM TypeCorrect ==
    ASSUME NoEmptyFiles
    PROVE  Spec => []TypeOK
BY Invariance, PTL DEF IInv

\* EPOLLONESHOT gives every connection one user: what the pool has, it has once,
\* main does not touch it and epoll does not report it (Process and the dispatch of main).
THEOREM WorkersAreExclusive ==
    ASSUME NoEmptyFiles
    PROVE  Spec => []ExclusiveWorker
<1>1. ASSUME IInv PROVE ExclusiveWorker
  <2> SUFFICES ASSUME NEW fd \in Fds, Assigned(fd) > 0
               PROVE  Assigned(fd) = 1 /\ ~Armed(fd) /\ ~InBatch(fd) /\ handling # fd
      BY DEF ExclusiveWorker
  <2>1. Busy(fd) /\ Assigned(fd) = 1
      BY <1>1, Parts, AssignedOnce
  <2>2. fd \in Open
      BY <1>1, <2>1, BusyIsOpen
  <2> QED BY <1>1, <2>1, <2>2, Parts, InBatchIsTold DEF OneHolder, IInv
<1> QED BY <1>1, Invariance, PTL

\* No path through main, Process and Write drops a connection.
THEOREM NoneIsForgotten ==
    ASSUME NoEmptyFiles
    PROVE  Spec => []NoForgottenConnection
<1>1. ASSUME IInv PROVE NoForgottenConnection
  <2> SUFFICES ASSUME NEW fd \in Open
               PROVE  Armed(fd) \/ InBatch(fd) \/ handling = fd \/ Assigned(fd) > 0
      BY DEF NoForgottenConnection
  <2>1. fd \in Fds
      BY DEF Open
  <2>2. Busy(fd) => Assigned(fd) = 1
      BY <1>1, <2>1, Parts, AssignedOnce
  <2> QED BY <1>1, <2>1, <2>2, Parts, InBatchIsTold DEF OneHolder, IInv
<1> QED BY <1>1, Invariance, PTL

\* Objects and descriptors match (Init, Removefd and CloseConn).
THEOREM ObjectsMatchDescriptors ==
    ASSUME NoEmptyFiles
    PROVE  Spec => []DescriptorsMatch
<1>1. ASSUME IInv PROVE DescriptorsMatch
  <2> SUFFICES ASSUME NEW fd \in Fds
               PROVE  /\ sockfd[fd] \in {fd, NoFd}
                      /\ sockfd[fd] = fd /\ fd \notin Open
                             => \E t \in Threads : pc[t] = "close_reset" /\ Conn(t) = fd
                      /\ fd \in Open /\ sockfd[fd] = NoFd
                             => pc[Main] = "init_sock" /\ handling = fd
      BY DEF DescriptorsMatch
  <2>1. sockfd[fd] = IF SockSet(fd) THEN fd ELSE NoFd
      BY <1>1, Parts DEF SockMatches
  <2> QED BY <2>1, Distinct DEF SockSet, Conn
<1> QED BY <1>1, Invariance, PTL

(***************************************************************************)
(* What goes wrong with empty files is right without them                  *)
(***************************************************************************)

\* A worker that is about to arm for writing has a reply, and Init ends with a
\* connection armed for reading.
RepliesReady ==
    /\ OutMeansReply
    /\ \A w \in Workers : pc[w] = "rearm" => reply[running[w]]
    /\ pc[Main] \in Added => kern[handling].arm = "in"

\* Every step keeps it.
LEMMA RepliesStep ==
    ASSUME NoEmptyFiles, IInv, RepliesReady, [Next]_vars
    PROVE  RepliesReady'
<1> USE Distinct, Parts
    DEF RepliesReady, OutMeansReply, Goto, Added, PcOK, Threads, clientVars, connVars, mainVars,
        poolVars
<1>1. CASE UNCHANGED vars
    BY <1>1 DEF vars
<1>2. CASE Connect
    BY <1>2 DEF Connect
<1>3. ASSUME NEW fd \in Fds, ClientStep(fd) PROVE RepliesReady'
    BY <1>3 DEF ClientStep, KernOK, KernState, MainHandles, MainOK
<1>4. CASE EpollWait
    BY <1>4 DEF EpollWait, KernOK, KernState
<1>5. CASE BatchDone \/ AcceptBusy \/ AcceptFails
    BY <1>5 DEF BatchDone, AcceptBusy, AcceptFails
<1>6. CASE Accept
    BY <1>6 DEF Accept, KernOK, KernState
<1>7. ASSUME NEW fd \in Fds, HandleHup(fd) \/ HandleInFails(fd) PROVE RepliesReady'
    BY <1>7 DEF HandleHup, HandleInFails
<1>8. ASSUME NEW fd \in Fds, HandleIn(fd) PROVE RepliesReady'
    BY <1>8 DEF HandleIn, KernOK, KernState, Pool!Accept, Pool!Reject, Pool!queueVars
<1>9. ASSUME NEW fd \in Fds, HandleOut(fd) PROVE RepliesReady'
  <2>1. <<fd, "out">> \in batch /\ pc[Main] = "dispatch"
        /\ UNCHANGED <<handling, pc, running, sockfd>>
      BY <1>9 DEF HandleOut
  <2>2. Told(fd)
      BY <2>1 DEF Told
  <2>3. /\ sockfd[fd] = fd /\ kern[fd].arm # "none" /\ ~Busy(fd)
      BY <2>2, BusyIsOpen DEF OneHolder
  <2>4. \A w \in Workers : running[w] # fd
      BY <2>3 DEF Busy, Processed
  <2>5. CASE Modfd(fd, "in") /\ UNCHANGED reply
      BY <2>1, <2>3, <2>5 DEF Modfd, KernOK, KernState
  <2>6. CASE /\ reply[fd] /\ UNCHANGED reply
             /\ kern' = [kern EXCEPT ![fd].arm = "out", ![fd].full = TRUE]
      BY <2>1, <2>6 DEF KernOK, KernState
  <2>7. CASE Modfd(fd, "in") /\ reply' = [reply EXCEPT ![fd] = FALSE]
      BY <2>1, <2>3, <2>4, <2>7 DEF Modfd, KernOK, KernState, ObjectsOK
  <2> QED BY <1>9, <2>3, <2>5, <2>6, <2>7 DEF HandleOut
<1>10. ASSUME NEW fd \in Fds, HandleOutFails(fd) PROVE RepliesReady'
    BY <1>10, BusyIsOpen DEF HandleOutFails, Modfd, KernOK, KernState, Told
<1>11. CASE InitSock \/ InitLoad \/ InitStore
    BY <1>11 DEF InitSock, InitLoad, InitStore
<1>12. CASE Addfd
    BY <1>12 DEF Addfd, KernOK, KernState, Registered, Opened, Open
<1>13. CASE InitRest
    BY <1>13, BusyIsOpen, PoolHolds DEF InitRest, Registered, Opened, Open, ObjectsOK, IInv,
        Busy
<1>14. CASE CloseConn(Main)
  <2>1. CASE CloseRemove(Main)
      BY <2>1 DEF CloseRemove, Conn, Closed, KernOK, KernState
  <2>2. CASE \/ CloseCheck(Main) \/ CloseNothing(Main) \/ CloseReset(Main)
             \/ CloseLoad(Main) \/ CloseStore(Main)
      BY <2>2 DEF CloseCheck, CloseNothing, CloseReset, CloseLoad, CloseStore, AfterClose
  <2> QED BY <1>14, <2>1, <2>2 DEF CloseConn
<1>15. ASSUME NEW w \in Workers, WorkerStep(w) PROVE RepliesReady'
  <2>1. CASE TakeRequest(w)
      BY <2>1, TakeMoves DEF TakeRequest
  <2>2. CASE ProcessReply(w)
    <3>1. running[w] \in Fds
        BY <2>2 DEF ProcessReply, WorkersProcess, PoolOK
    <3>2. reply' = [reply EXCEPT ![running[w]] = TRUE] /\ UNCHANGED <<kern, handling, running>>
        BY <2>2 DEF ProcessReply
    <3>3. \A f \in Fds : reply[f] => reply'[f]
        BY <3>2 DEF ObjectsOK
    <3>4. reply'[running[w]]
        BY <3>1, <3>2 DEF ObjectsOK
    <3>5. OutMeansReply'
        BY <3>2, <3>3
    <3>6. ASSUME NEW v \in Workers, pc'[v] = "rearm" PROVE reply'[running'[v]]
      <4>1. pc[v] # "idle" /\ running[v] \in Fds
          BY <2>2, <3>6 DEF ProcessReply, WorkersProcess, PoolOK
      <4> QED BY <2>2, <3>2, <3>3, <3>4, <3>6, <4>1 DEF ProcessReply
    <3> QED BY <2>2, <3>2, <3>5, <3>6 DEF ProcessReply
  <2>3. ASSUME NEW ev \in {"in", "out"}, Modfd(sockfd[running[w]], ev), Pool!Finish(w),
               ev = "out" => reply[running[w]], Goto(w, pc[w], "idle"), UNCHANGED <<reply,
               handling>>
        PROVE  RepliesReady'
    <3>1. /\ running[w] \in Fds /\ Busy(running[w])
          /\ \A v \in Workers \ {w} : running'[v] = running[v]
        BY <2>3, FinishFrees
    <3>2. /\ sockfd[running[w]] = running[w] /\ kern[running[w]].arm = "off"
          /\ handling # running[w]
        BY <3>1, BusyIsOpen
    <3>3. /\ kern'[running[w]].arm = ev
          /\ \A f \in Fds \ {running[w]} : kern'[f] = kern[f]
        BY <2>3, <3>1, <3>2, ModfdArms
    <3>4. pc[Main] \in Added => handling \in Fds
        BY DEF Registered, Opened, Open
    <3> QED BY <2>3, <3>1, <3>2, <3>3, <3>4
  <2>4. CASE ProcessIncomplete(w)
      BY <2>3, <2>4 DEF ProcessIncomplete
  <2>5. CASE ProcessRearm(w)
      BY <2>3, <2>5 DEF ProcessRearm
  <2> QED BY <1>15, <2>1, <2>2, <2>4, <2>5, WorkersDoNotClose DEF WorkerStep
<1> QED BY <1>1, <1>2, <1>3, <1>4, <1>5, <1>6, <1>7, <1>8, <1>9, <1>10, <1>11, <1>12, <1>13,
           <1>14, <1>15 DEF Next, MainStep

\* The objects in use.
Live == {c \in Fds : sockfd[c] # NoFd}

\* m_user_count is one behind while Init has not stored it, one ahead while CloseConn
\* has not, and what main loaded is still what it says.
CountBalance ==
    /\ userCount = Cardinality(Live)
                   + IF pc[Main] \in {"init_add", "init_load", "init_store"} THEN -1
                     ELSE IF pc[Main] \in {"close_load", "close_store"} THEN 1 ELSE 0
    /\ pc[Main] \in {"init_store", "close_store"} => tmp[Main] = userCount

\* Every step keeps it.
LEMMA CountStep ==
    ASSUME NoEmptyFiles, IInv, CountBalance, [Next]_vars
    PROVE  CountBalance'
<1> USE Distinct, Parts
    DEF CountBalance, Goto, PcOK, CountsOK, Threads, clientVars, connVars, mainVars, poolVars
<1>1. IsFiniteSet(Live) /\ Cardinality(Live) \in Nat
    BY FdsAssumption, FS_Subset, FS_CardinalityType DEF Live
<1>2. CASE InitSock
  <2>1. handling \in Fds \ Live /\ Live' = Live \cup {handling}
      BY <1>2 DEF InitSock, Live, Registered, Opened, Open, SockMatches, SockSet, ObjectsOK
  <2>2. Cardinality(Live') = Cardinality(Live) + 1
      BY <1>1, <2>1, FS_AddElement
  <2> QED BY <1>1, <1>2, <2>2 DEF InitSock
<1>3. CASE CloseReset(Main)
  <2>1. handling \in Live /\ Live' = Live \ {handling}
      BY <1>3 DEF CloseReset, Conn, Live, MainHandles, MainOK, SockMatches, SockSet, ObjectsOK
  <2>2. Cardinality(Live') = Cardinality(Live) - 1
      BY <1>1, <2>1, FS_RemoveElement
  <2> QED BY <1>1, <1>3, <2>2 DEF CloseReset
<1>4. ASSUME sockfd' = sockfd PROVE Cardinality(Live)' = Cardinality(Live)
    BY <1>4 DEF Live
<1>5. CASE UNCHANGED vars
    BY <1>1, <1>4, <1>5 DEF vars
<1>6. CASE Connect \/ \E fd \in Fds : ClientStep(fd)
    BY <1>1, <1>4, <1>6 DEF Connect, ClientStep
<1>7. CASE EpollWait \/ BatchDone \/ Accept \/ AcceptBusy \/ AcceptFails
    BY <1>1, <1>4, <1>7 DEF EpollWait, BatchDone, Accept, AcceptBusy, AcceptFails
<1>8. ASSUME NEW fd \in Fds,
             HandleHup(fd) \/ HandleIn(fd) \/ HandleInFails(fd) \/ HandleOut(fd) \/ HandleOutFails(fd)
      PROVE  CountBalance'
    BY <1>1, <1>4, <1>8 DEF HandleHup, HandleIn, HandleInFails, HandleOut, HandleOutFails
<1>9. CASE Addfd \/ InitLoad \/ InitStore \/ InitRest
    BY <1>1, <1>4, <1>9 DEF Addfd, InitLoad, InitStore, InitRest
<1>10. CASE CloseCheck(Main) \/ CloseRemove(Main) \/ CloseLoad(Main) \/ CloseStore(Main)
    BY <1>1, <1>4, <1>10 DEF CloseCheck, CloseRemove, CloseLoad, CloseStore, AfterClose
<1>11. CASE CloseNothing(Main)
    BY <1>1, <1>4, <1>11 DEF CloseNothing, AfterClose
<1>12. ASSUME NEW w \in Workers, WorkerStep(w) PROVE CountBalance'
    BY <1>1, <1>4, <1>12, WorkersDoNotClose
    DEF WorkerStep, TakeRequest, ProcessIncomplete, ProcessReply, ProcessRearm
<1> QED BY <1>2, <1>3, <1>5, <1>6, <1>7, <1>8, <1>9, <1>10, <1>11, <1>12
    DEF Next, MainStep, CloseConn

\* Without empty files EPOLLOUT is armed only when there is a reply to write: what
\* Process does after a failed ProcessWrite is all that is wrong with it.
THEOREM WriteArmedWithReply ==
    ASSUME NoEmptyFiles
    PROVE  Spec => []OutMeansReply
<1>1. Init => RepliesReady
    BY Distinct DEF Init, RepliesReady, OutMeansReply, Closed, Threads, Added
<1>2. IInv /\ RepliesReady /\ [Next]_vars => RepliesReady'
    BY RepliesStep
<1>3. RepliesReady => OutMeansReply
    BY DEF RepliesReady
<1> QED BY <1>1, <1>2, <1>3, Invariance, PTL DEF Spec

\* Without empty files m_user_count is the number of open connections: only main
\* changes it then (Init and CloseConn), and loses none of its own updates. The
\* count follows the objects in use, which are the open descriptors except while
\* main is between accept and Init, or between close and m_sockfd = -1.
THEOREM CountIsExact ==
    ASSUME NoEmptyFiles
    PROVE  Spec => []UserCountExact
<1>1. Init => CountBalance
  <2> SUFFICES ASSUME Init PROVE CountBalance
      OBVIOUS
  <2>1. Live = {}
      BY DEF Init, Live
  <2> QED BY <2>1, FS_EmptySet, Distinct DEF Init, CountBalance
<1>2. IInv /\ CountBalance /\ [Next]_vars => CountBalance'
    BY CountStep
<1>3. IInv /\ CountBalance => UserCountExact
  <2> SUFFICES ASSUME IInv, CountBalance,
                      pc[Main] \notin {"init_sock", "init_add", "init_load", "init_store",
                                       "close_reset", "close_load", "close_store"}
               PROVE  userCount = Cardinality(Open)
      BY Distinct DEF UserCountExact, Threads
  <2>1. IsFiniteSet(Live) /\ Cardinality(Live) \in Nat
      BY FdsAssumption, FS_Subset, FS_CardinalityType DEF Live
  <2>2. Live = Open
      BY Distinct, Parts DEF Live, SockMatches, SockSet, Open, ObjectsOK
  <2> QED BY <2>1, <2>2 DEF CountBalance
<1> QED BY <1>1, <1>2, <1>3, Invariance, PTL DEF Spec
=============================================================================
