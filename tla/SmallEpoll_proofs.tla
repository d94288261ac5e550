-------------------------- MODULE SmallEpoll_proofs ---------------------------
(***************************************************************************)
(* Proofs about the two demonstration servers of chapter 9, OneShotServer  *)
(* and TriggerModes, for any number of connections and threads and any     *)
(* amount of data; and the types of all that ClearDeadMC puts together,    *)
(* where SortTimerList_proofs has those of ClearDeadConnection.            *)
(***************************************************************************)
EXTENDS ClearDeadMC, SortTimerList_proofs

\* Descriptors are numbers other than listenfd's, and there are finitely many.
ConnsAssumption == Fds \subseteq Nat \ {Listen} /\ IsFiniteSet(Fds)

LEMMA FdsAreConns == ConnsAssumption
BY FdsAssumption DEF ConnsAssumption, Listen

(***************************************************************************)
(* The listening socket of both                                            *)
(***************************************************************************)

\* There is a descriptor for every client, and one client in the queue for every
\* event of the listening socket that has not been handled.
Fits(conns, queue, gone, new, events) ==
    /\ conns \subseteq Fds /\ gone \subseteq conns
    /\ queue \in Nat
    /\ queue + Cardinality(conns) <= Cardinality(Fds)
    /\ Listen \in new /\ Listen \in events => queue > 1
    /\ Listen \in new \cup events => queue > 0

\* When there is a client in the queue, accept finds a free descriptor.
LEMMA AcceptFindsOne ==
    ASSUME ConnsAssumption, NEW conns \in SUBSET Fds, NEW queue \in Nat,
           queue + Cardinality(conns) <= Cardinality(Fds), queue > 0
    PROVE  /\ Min(Fds \ conns) \in Fds \ conns
           /\ Cardinality(conns \cup {Min(Fds \ conns)}) = Cardinality(conns) + 1
<1>1. IsFiniteSet(conns) /\ Cardinality(conns) \in Nat /\ Cardinality(Fds) \in Nat
    BY FS_Subset, FS_CardinalityType DEF ConnsAssumption
<1>2. Fds \ conns # {}
  <2>1. SUFFICES ASSUME Fds \ conns = {} PROVE FALSE
      OBVIOUS
  <2>2. conns = Fds
      BY <2>1
  <2> QED BY <1>1, <2>2
<1>3. Min(Fds \ conns) \in Fds \ conns
    BY <1>2, LowestIsOne DEF ConnsAssumption
<1> QED BY <1>1, <1>3, FS_AddElement

\* A descriptor that is closed is one less.
LEMMA CloseFreesOne ==
    ASSUME ConnsAssumption, NEW conns \in SUBSET Fds, NEW c \in conns
    PROVE  Cardinality(conns \ {c}) = Cardinality(conns) - 1 /\ Cardinality(conns) \in Nat
<1>1. IsFiniteSet(conns) /\ Cardinality(conns) \in Nat
    BY FS_Subset, FS_CardinalityType DEF ConnsAssumption
<1> QED BY <1>1, FS_RemoveElement

(***************************************************************************)
(* TriggerModes                                                            *)
(***************************************************************************)

MFit == Fits(modeOpen, modeBacklog, modeHung, modeEdge, modeBatch)

\* A descriptor that is not open is blank; main waits when its batch is done and
\* ET's loop has ended; and nothing is left behind.
MInv ==
    /\ MFit
    /\ modeUnread \in [Fds -> Nat] /\ mode \in {"LT", "ET"}
    /\ modeEdge \subseteq Fds \cup {Listen} /\ modeBatch \subseteq Fds \cup {Listen}
    /\ current \in Fds \cup {Listen}
    /\ \A c \in Fds \ modeOpen : modeUnread[c] = 0
    /\ ~inLoop => modeBatch = {} /\ current = Listen
    /\ M!NothingLeftBehind

\* The library as the two servers see it.
LEMMA SameLibrary ==
    /\ \A S : M!Cardinality(S) = Cardinality(S) /\ O!Cardinality(S) = Cardinality(S)
    /\ \A S : M!Min(S) = Min(S) /\ O!Min(S) = Min(S)
BY DEF M!Cardinality, O!Cardinality, Cardinality, M!IsFiniteSet, O!IsFiniteSet, IsFiniteSet,
       M!Min, O!Min, Min

\* Every step of TriggerModes keeps its invariant.
LEMMA TriggerModesStep ==
    ASSUME ConnsAssumption, MInv, [M!Next]_(M!triggerVars)
    PROVE  MInv'
<1> USE DEF MInv, M!NothingLeftBehind, M!Reported, M!Listen, Listen
<1>0. \A c \in Fds : c # Listen
    BY DEF ConnsAssumption
<1>0a. /\ Cardinality(modeOpen) \in Nat /\ Cardinality(Fds) \in Nat
    BY FS_Subset, FS_CardinalityType DEF ConnsAssumption, MFit, Fits
<1>1. CASE UNCHANGED M!triggerVars
    BY <1>1 DEF M!triggerVars, MFit, Fits
<1>2. CASE M!Connect
  <2>1. MFit'
      BY <1>0a, <1>2, SameLibrary DEF M!Connect, MFit, Fits
  <2> QED BY <1>0, <1>2, <2>1 DEF M!Connect
<1>3. CASE M!EpollWait
    BY <1>0, <1>0a, <1>3 DEF M!EpollWait, MFit, Fits
<1>4. CASE M!Accept
  <2> DEFINE fd == Min(Fds \ modeOpen)
  <2>1. /\ modeBacklog > 0 /\ Listen \in modeBatch
        /\ modeOpen' = modeOpen \cup {fd} /\ modeBacklog' = modeBacklog - 1
        /\ UNCHANGED <<modeHung, modeEdge>> /\ modeBatch' = modeBatch \ {Listen}
      BY <1>4, SameLibrary DEF M!Accept, M!Handle, MFit, Fits
  <2>2. fd \in Fds \ modeOpen /\ Cardinality(modeOpen') = Cardinality(modeOpen) + 1
    <3>1. /\ modeOpen \in SUBSET Fds /\ modeBacklog \in Nat
          /\ modeBacklog + Cardinality(modeOpen) <= Cardinality(Fds)
        BY DEF MFit, Fits
    <3> QED BY <2>1, <3>1, AcceptFindsOne
  <2> HIDE DEF fd
  <2>3. MFit'
      BY <1>0a, <2>1, <2>2 DEF MFit, Fits
  <2> QED BY <1>0, <1>4, <2>1, <2>2, <2>3 DEF M!Accept, M!Handle, MFit, Fits
<1>5. CASE M!Receive \/ M!ReceiveAgain
    BY <1>0, <1>0a, <1>5 DEF M!Receive, M!ReceiveAgain, M!Take, MFit, Fits
<1>6. ASSUME NEW c \in Fds, M!Close(c), UNCHANGED <<mode, modeBacklog, modeUnread, inLoop>>,
             \/ M!Handle(c) /\ UNCHANGED current
             \/ current = c /\ current' = Listen /\ UNCHANGED modeBatch
      PROVE MInv'
  <2>1. c \in modeOpen /\ Cardinality(modeOpen') = Cardinality(modeOpen) - 1
      BY <1>6, CloseFreesOne DEF M!Close, MFit, Fits
  <2> QED BY <1>0, <1>0a, <1>6, <2>1 DEF M!Close, M!Handle, MFit, Fits
<1>7. CASE M!ReceiveZero
    BY <1>6, <1>7 DEF M!ReceiveZero
<1>8. CASE M!EndOfBatch
    BY <1>0, <1>8 DEF M!EndOfBatch, MFit, Fits
<1>9. ASSUME NEW c \in Fds, M!Send(c) \/ M!HangUp(c) PROVE MInv'
    BY <1>0, <1>0a, <1>9 DEF M!Send, M!HangUp, MFit, Fits
<1>10. ASSUME NEW c \in Fds, M!ReceiveOnce(c) PROVE MInv'
  <2>1. CASE M!Take(c) /\ UNCHANGED <<modeOpen, modeHung, modeEdge>>
      BY <1>0, <1>0a, <1>10, <2>1 DEF M!ReceiveOnce, M!Handle, M!Take, MFit, Fits
  <2>2. CASE M!Close(c) /\ UNCHANGED modeUnread
      BY <1>6, <1>10, <2>2 DEF M!ReceiveOnce, M!Handle
  <2> QED BY <1>10, <2>1, <2>2 DEF M!ReceiveOnce
<1>11. ASSUME NEW c \in Fds, M!Enter(c) PROVE MInv'
    BY <1>0, <1>0a, <1>11 DEF M!Enter, M!Handle, MFit, Fits
<1> QED BY <1>1, <1>2, <1>3, <1>4, <1>5, <1>7, <1>8, <1>9, <1>10, <1>11 DEF M!Next

\* Without clients it holds.
LEMMA ModesStart == ConnsAssumption /\ M!Init => MInv
<1> SUFFICES ASSUME ConnsAssumption, M!Init PROVE MInv
    OBVIOUS
<1>1. Cardinality(modeOpen) = 0 /\ Cardinality(Fds) \in Nat
    BY FS_EmptySet, FS_CardinalityType DEF M!Init, ConnsAssumption
<1> QED BY <1>1 DEF M!Init, MInv, MFit, Fits, M!NothingLeftBehind, M!Listen, Listen

\* The loop of ET reads everything, whatever comes in meanwhile, and LT is told again.
THEOREM ModesLeaveNothingBehind ==
    M!Spec => []NothingLeftBehind
<1>1. M!Init => MInv
    BY ModesStart, FdsAreConns
<1>2. MInv /\ [M!Next]_(M!triggerVars) => MInv'
    BY TriggerModesStep, FdsAreConns
<1>3. MInv => NothingLeftBehind
    BY DEF MInv, NothingLeftBehind
<1> QED BY <1>1, <1>2, <1>3, PTL DEF M!Spec

(***************************************************************************)
(* OneShotServer                                                           *)
(***************************************************************************)

NoneAssumption == None \notin Fds

\* The threads that work on a connection, or will when they read their argument.
Holders(c) == O!WorkOn(c) \cup (IF argument = c THEN O!Starting ELSE {})

\* As long as no argument has been overwritten, only open connections are in the batch
\* or have threads, and a thread that starts finds an open one.
OnlyOpen ==
    /\ shotBatch \subseteq shotOpen \cup {Listen}
    /\ \A t \in Threads : thread[t] \in {"receives", "resets"} => sockfd[t] \in shotOpen
    /\ O!Starting # {} => argument \in shotOpen

\* And each open connection is armed, in the batch, or with one thread.
HeldOnce ==
    /\ armed \cap shotBatch = {}
    /\ \A c \in shotOpen \cap (armed \cup shotBatch) : Holders(c) = {}
    /\ \A c \in shotOpen \ (armed \cup shotBatch) : \E t \in Threads : Holders(c) = {t}

OneHolderEach == OnlyOpen /\ HeldOnce

ClientsFit == Fits(shotOpen, shotBacklog, shotHung, shotEdge, shotBatch)

OTypes ==
    /\ ClientsFit
    /\ armed \subseteq shotOpen /\ argument \in Fds \cup {None}
    /\ shotEdge \subseteq Fds \cup {Listen} /\ shotBatch \subseteq Fds \cup {Listen}
    /\ thread \in [Threads -> {"none", "starts", "receives", "resets"}]
    /\ sockfd \in [Threads -> Fds \cup {None}]
    /\ \A t \in Threads : /\ thread[t] \in {"none", "starts"} => sockfd[t] = None
                          /\ thread[t] = "resets" => sockfd[t] \in Fds
    /\ ~shotInLoop => shotBatch = {}
    /\ overwritten \in BOOLEAN

OInv == OTypes /\ (~overwritten => OneHolderEach)

\* A thread that works has its connection for itself.
LEMMA WorkerIsAlone ==
    ASSUME OTypes, OneHolderEach, NEW t \in Threads, thread[t] \in {"receives", "resets"}
    PROVE  /\ sockfd[t] \in shotOpen /\ Holders(sockfd[t]) = {t}
           /\ sockfd[t] \notin armed \cup shotBatch
<1>1. sockfd[t] \in shotOpen /\ t \in Holders(sockfd[t])
    BY DEF OneHolderEach, OnlyOpen, Holders, O!WorkOn
<1> QED BY <1>1 DEF OneHolderEach, HeldOnce

\* So has one that starts.
LEMMA StarterIsAlone ==
    ASSUME OTypes, OneHolderEach, NEW t \in Threads, thread[t] = "starts"
    PROVE  /\ argument \in shotOpen /\ Holders(argument) = {t} /\ O!Starting = {t}
           /\ argument \notin armed \cup shotBatch
<1>1. argument \in shotOpen /\ t \in Holders(argument) /\ t \in O!Starting
    BY DEF OneHolderEach, OnlyOpen, Holders, O!Starting
<1>2. Holders(argument) = {t} /\ argument \notin armed \cup shotBatch
    BY <1>1 DEF OneHolderEach, HeldOnce
<1>3. O!Starting \subseteq {t}
    BY <1>2 DEF Holders
<1> QED BY <1>1, <1>2, <1>3

\* What the threads are to the connections depends on three variables only.
LEMMA SameHolders ==
    ASSUME UNCHANGED <<argument, thread, sockfd>>
    PROVE  O!Starting' = O!Starting /\ \A c \in Fds : Holders(c)' = Holders(c)
BY DEF Holders, O!WorkOn, O!Starting

\* A thread that ends leaves its connection to nobody, and the others to their threads.
LEMMA EndLeavesNobody ==
    ASSUME ConnsAssumption, NoneAssumption, OTypes, OneHolderEach,
           NEW t \in Threads, NEW c, sockfd[t] = c,
           thread[t] \in {"receives", "resets"}, O!Ends(t), UNCHANGED argument
    PROVE  /\ O!Starting' = O!Starting /\ Holders(c)' = {}
           /\ argument = c => O!Starting = {}
           /\ \A d \in Fds \ {c} : Holders(d)' = Holders(d)
           /\ \A u \in Threads : thread'[u] \in {"receives", "resets"}
                  => thread'[u] = thread[u] /\ sockfd'[u] = sockfd[u] /\ sockfd[u] # c
<1>1. c \in Fds /\ Holders(c) = {t} /\ c # None
    BY WorkerIsAlone DEF OTypes, ClientsFit, Fits, NoneAssumption
<1>2. /\ \A u \in Threads \ {t} : thread'[u] = thread[u] /\ sockfd'[u] = sockfd[u]
      /\ thread'[t] = "none" /\ sockfd'[t] = None
    BY DEF O!Ends, OTypes
<1>3. O!Starting' = O!Starting /\ t \notin O!Starting
  <2>1. \A u \in Threads : thread'[u] = "starts" <=> thread[u] = "starts"
      BY <1>2
  <2> QED BY <2>1 DEF O!Starting
<1>4. \A u \in Threads \ {t} : sockfd[u] # c
    BY <1>1 DEF Holders, O!WorkOn
<1>5. argument = c => O!Starting = {}
  <2>1. argument = c => O!Starting \subseteq {t}
      BY <1>1 DEF Holders
  <2> QED BY <2>1, <1>3
<1>6. O!WorkOn(c)' = {}
    BY <1>1, <1>2, <1>4 DEF O!WorkOn
<1>7. \A d \in Fds \ {c} : O!WorkOn(d)' = O!WorkOn(d)
  <2>1. \A d \in Fds \ {c} : \A u \in Threads : sockfd'[u] = d <=> sockfd[u] = d
      BY <1>2 DEF NoneAssumption
  <2> QED BY <2>1 DEF O!WorkOn
<1>8. Holders(c)' = {} /\ \A d \in Fds \ {c} : Holders(d)' = Holders(d)
    BY <1>3, <1>5, <1>6, <1>7 DEF Holders
<1>9. ASSUME NEW u \in Threads, thread'[u] \in {"receives", "resets"}
      PROVE  thread'[u] = thread[u] /\ sockfd'[u] = sockfd[u] /\ sockfd[u] # c
    BY <1>2, <1>4, <1>9
<1> QED BY <1>3, <1>5, <1>8, <1>9

\* Every step of OneShotServer keeps what its variables hold.
LEMMA OneShotTypes ==
    ASSUME ConnsAssumption, NoneAssumption, OTypes, [O!Next]_(O!oneShotVars)
    PROVE  OTypes'
<1> USE SameLibrary DEF OTypes, Listen, O!Listen, O!clientVars, O!threadVars
<1>0. /\ \A c \in Fds : c # Listen /\ c # None
      /\ Cardinality(shotOpen) \in Nat /\ Cardinality(Fds) \in Nat
    BY FS_Subset, FS_CardinalityType DEF ConnsAssumption, NoneAssumption, ClientsFit, Fits
<1>1. CASE UNCHANGED O!oneShotVars
    BY <1>1 DEF O!oneShotVars, ClientsFit, Fits
<1>2. CASE O!Connect
  <2>1. ClientsFit'
      BY <1>0, <1>2 DEF O!Connect, ClientsFit, Fits
  <2> QED BY <1>0, <1>2, <2>1 DEF O!Connect
<1>3. CASE O!EpollWait
  <2>1. ClientsFit'
      BY <1>0, <1>3 DEF O!EpollWait, O!Reported, ClientsFit, Fits
  <2> QED BY <1>0, <1>3, <2>1 DEF O!EpollWait, O!Reported
<1>4. CASE O!Accept
  <2> DEFINE fd == Min(Fds \ shotOpen)
  <2>1. /\ shotBacklog > 0 /\ Listen \in shotBatch
        /\ shotOpen' = shotOpen \cup {fd} /\ shotBacklog' = shotBacklog - 1
        /\ UNCHANGED <<shotHung, shotEdge>> /\ shotBatch' = shotBatch \ {Listen}
        /\ armed' = armed \cup {fd} /\ UNCHANGED <<thread, sockfd, shotInLoop>>
        /\ argument' \in {argument, None}
        /\ overwritten' \in BOOLEAN
      BY <1>4 DEF O!Accept, O!Handle, ClientsFit, Fits
  <2>2. fd \in Fds \ shotOpen /\ Cardinality(shotOpen') = Cardinality(shotOpen) + 1
    <3>1. /\ shotOpen \in SUBSET Fds /\ shotBacklog \in Nat
          /\ shotBacklog + Cardinality(shotOpen) <= Cardinality(Fds)
        BY DEF ClientsFit, Fits
    <3> QED BY <2>1, <3>1, AcceptFindsOne
  <2> HIDE DEF fd
  <2>3. ClientsFit'
      BY <1>0, <2>1, <2>2 DEF ClientsFit, Fits
  <2> QED BY <1>0, <2>1, <2>2, <2>3
<1>5. CASE O!EndOfBatch
    BY <1>0, <1>5 DEF O!EndOfBatch, ClientsFit, Fits
<1>6. ASSUME NEW c \in Fds, O!ClientSends(c) \/ O!ClientCloses(c) PROVE OTypes'
    BY <1>0, <1>6 DEF O!ClientSends, O!ClientCloses, ClientsFit, Fits
<1>7. ASSUME NEW c \in Fds, O!StartThread(c) PROVE OTypes'
  <2>1. PICK t \in Threads : thread[t] = "none" /\ thread' = [thread EXCEPT ![t] = "starts"]
      BY <1>7 DEF O!StartThread
  <2> QED BY <1>0, <1>7, <2>1 DEF O!StartThread, O!Handle, ClientsFit, Fits
<1>8. ASSUME NEW t \in Threads, O!ReadArgument(t) PROVE OTypes'
    BY <1>0, <1>8 DEF O!ReadArgument, ClientsFit, Fits
<1>9. ASSUME NEW t \in Threads, O!Receive(t) \/ O!ReceiveAgain(t) PROVE OTypes'
    BY <1>0, <1>9 DEF O!Receive, O!ReceiveAgain, O!Receives, ClientsFit, Fits
<1>10. ASSUME NEW t \in Threads, O!ReceiveZero(t) PROVE OTypes'
  <2>1. /\ sockfd[t] \in shotOpen /\ Cardinality(shotOpen') = Cardinality(shotOpen) - 1
        /\ shotOpen' = shotOpen \ {sockfd[t]} /\ shotHung' = shotHung \ {sockfd[t]}
        /\ armed' = armed \ {sockfd[t]} /\ shotEdge' = shotEdge \ {sockfd[t]}
        /\ UNCHANGED <<shotBacklog, shotBatch, shotInLoop, argument, overwritten>> /\ O!Ends(t)
    <3>1. shotOpen \in SUBSET Fds
        BY DEF ClientsFit, Fits
    <3> QED BY <1>10, <3>1, CloseFreesOne DEF O!ReceiveZero, O!Receives
  <2>2. ClientsFit'
      BY <1>0, <2>1 DEF ClientsFit, Fits
  <2> QED BY <1>0, <2>1, <2>2 DEF O!Ends
<1>11. ASSUME NEW t \in Threads, O!ResetOneShot(t) PROVE OTypes'
  <2>1. /\ sockfd[t] \in Fds /\ shotEdge' \in {shotEdge \cup {sockfd[t]}, shotEdge \ {sockfd[t]}}
        /\ armed' = armed \cup ({sockfd[t]} \cap shotOpen) /\ O!Ends(t)
        /\ UNCHANGED <<shotOpen, shotBacklog, shotHung, shotBatch, shotInLoop, argument,
                       overwritten>>
      BY <1>11 DEF O!ResetOneShot
  <2> QED BY <1>0, <2>1 DEF O!Ends, ClientsFit, Fits
<1> QED BY <1>1, <1>2, <1>3, <1>4, <1>5, <1>6, <1>7, <1>8, <1>9, <1>10, <1>11 DEF O!Next

\* Every step of OneShotServer that overwrites no argument keeps one holder for each
\* connection.
LEMMA OneShotHolders ==
    ASSUME ConnsAssumption, NoneAssumption, OTypes, OneHolderEach, [O!Next]_(O!oneShotVars),
           ~overwritten'
    PROVE  OneHolderEach'
<1>0. /\ \A c \in Fds : c # Listen /\ c # None
      /\ shotOpen \subseteq Fds /\ armed \subseteq shotOpen
      /\ shotBatch \subseteq shotOpen \cup {Listen}
      /\ ~shotInLoop => shotBatch = {}
    BY DEF ConnsAssumption, NoneAssumption, ClientsFit, Fits, OTypes, OneHolderEach, OnlyOpen
<1> USE DEF OneHolderEach
<1>h. ASSUME UNCHANGED <<argument, thread, sockfd>>
      PROVE  O!Starting' = O!Starting /\ \A c \in Fds : Holders(c)' = Holders(c)
    BY <1>h, SameHolders
<1>u. ASSUME UNCHANGED <<shotOpen, armed, shotBatch, argument, thread, sockfd>> PROVE OneHolderEach'
  <2>1. HeldOnce'
      BY <1>0, <1>u, <1>h DEF HeldOnce
  <2> QED BY <1>u, <1>h, <2>1 DEF OnlyOpen
<1>1. CASE UNCHANGED O!oneShotVars \/ O!Connect \/ O!EndOfBatch
    BY <1>1, <1>u DEF O!oneShotVars, O!clientVars, O!threadVars, O!Connect, O!EndOfBatch
<1>3. CASE O!EpollWait
  <2>1. /\ shotBatch = {} /\ shotBatch' \subseteq armed \cup {Listen} /\ armed' = armed \ shotBatch'
        /\ UNCHANGED <<shotOpen, argument, thread, sockfd>>
      BY <1>0, <1>3 DEF O!EpollWait, O!Reported, O!threadVars, O!Listen, Listen
  <2>2. OnlyOpen'
      BY <1>0, <2>1, <1>h DEF OnlyOpen
  <2>3. \A c \in Fds : Holders(c)' = Holders(c)
      BY <2>1, <1>h
  <2>4. /\ (armed \cap shotBatch)' = {}
        /\ (shotOpen \ (armed \cup shotBatch))' = shotOpen \ (armed \cup shotBatch)
        /\ (shotOpen \cap (armed \cup shotBatch))' = shotOpen \cap (armed \cup shotBatch)
      BY <1>0, <2>1
  <2> QED BY <1>0, <2>2, <2>3, <2>4 DEF HeldOnce
<1>4. CASE O!Accept
  <2> DEFINE fd == Min(Fds \ shotOpen)
  <2>1. /\ shotBatch' = shotBatch \ {Listen} /\ shotOpen' = shotOpen \cup {fd}
        /\ armed' = armed \cup {fd}
        /\ UNCHANGED <<thread, sockfd>> /\ argument' \in {argument, None}
        /\ argument' # argument => O!Starting = {}
      BY <1>4, SameLibrary DEF O!Accept, O!Handle, O!threadVars, O!Listen, Listen
  <2>2. fd \in Fds \ shotOpen
    <3>1. shotBacklog > 0
        BY <1>4 DEF O!Accept, O!Handle, OTypes, ClientsFit, Fits, O!Listen, Listen
    <3>2. /\ shotOpen \in SUBSET Fds /\ shotBacklog \in Nat
          /\ shotBacklog + Cardinality(shotOpen) <= Cardinality(Fds)
        BY DEF OTypes, ClientsFit, Fits
    <3> QED BY <3>1, <3>2, AcceptFindsOne
  <2> HIDE DEF fd
  <2>3. O!Starting' = O!Starting /\ \A c \in Fds : O!WorkOn(c)' = O!WorkOn(c)
      BY <2>1 DEF O!Starting, O!WorkOn
  <2>4. \A c \in Fds : Holders(c)' = Holders(c)
      BY <2>1, <2>3 DEF Holders
  <2>5. Holders(fd) = {}
    <3>1. \A t \in Threads : sockfd[t] # fd
        BY <1>0, <2>2 DEF OnlyOpen, OTypes
    <3>2. argument = fd => O!Starting = {}
        BY <2>2 DEF OnlyOpen
    <3> QED BY <3>1, <3>2 DEF Holders, O!WorkOn
  <2>6. OnlyOpen'
    <3>1. shotBatch' \subseteq shotOpen' \cup {Listen}
        BY <1>0, <2>1
    <3>2. O!Starting' # {} => argument' \in shotOpen'
        BY <2>1, <2>3 DEF OnlyOpen
    <3> QED BY <2>1, <3>1, <3>2 DEF OnlyOpen
  <2>7. /\ (armed \cap shotBatch)' = {}
        /\ (shotOpen \ (armed \cup shotBatch))' = shotOpen \ (armed \cup shotBatch)
        /\ (shotOpen \cap (armed \cup shotBatch))'
               = (shotOpen \cap (armed \cup shotBatch)) \cup {fd}
    <3>1. fd \notin shotBatch /\ fd # Listen /\ Listen \notin shotOpen
        BY <1>0, <2>2
    <3> QED BY <1>0, <2>1, <2>2, <3>1 DEF HeldOnce
  <2> QED BY <1>0, <2>2, <2>4, <2>5, <2>6, <2>7 DEF HeldOnce
<1>6. ASSUME NEW c \in Fds, O!ClientSends(c) \/ O!ClientCloses(c) PROVE OneHolderEach'
    BY <1>6, <1>u DEF O!ClientSends, O!ClientCloses, O!threadVars
<1>7. ASSUME NEW c \in Fds, O!StartThread(c) PROVE OneHolderEach'
  <2>1. PICK t \in Threads : thread[t] = "none" /\ thread' = [thread EXCEPT ![t] = "starts"]
      BY <1>7 DEF O!StartThread
  <2>2. /\ c \in shotBatch /\ shotBatch' = shotBatch \ {c}
        /\ argument' = c /\ (c # argument => O!Starting = {})
        /\ UNCHANGED <<shotOpen, armed, sockfd>>
      BY <1>7 DEF O!StartThread, O!Handle
  <2>3. c \in shotOpen /\ c \notin armed /\ Holders(c) = {}
      BY <1>0, <2>2 DEF HeldOnce
  <2>4. O!Starting = {}
      BY <2>2, <2>3 DEF Holders
  <2>5. O!Starting' = {t}
    <3>1. \A u \in Threads : thread'[u] = "starts" <=> u = t
        BY <2>1, <2>4 DEF O!Starting, OTypes
    <3> QED BY <3>1 DEF O!Starting
  <2>6. O!WorkOn(c) = {} /\ \A d \in Fds : O!WorkOn(d)' = O!WorkOn(d)
      BY <2>2, <2>3 DEF Holders, O!WorkOn
  <2>7. Holders(c)' = {t} /\ \A d \in Fds \ {c} : Holders(d)' = Holders(d)
      BY <2>2, <2>4, <2>5, <2>6 DEF Holders
  <2>8. OnlyOpen'
    <3>1. \A u \in Threads : thread'[u] \in {"receives", "resets"} => thread[u] = thread'[u]
        BY <2>1 DEF OTypes
    <3> QED BY <1>0, <2>2, <2>3, <3>1 DEF OnlyOpen
  <2>9. /\ (armed \cap shotBatch)' = {}
        /\ (shotOpen \ (armed \cup shotBatch))' = (shotOpen \ (armed \cup shotBatch)) \cup {c}
        /\ (shotOpen \cap (armed \cup shotBatch))' = (shotOpen \cap (armed \cup shotBatch)) \ {c}
      BY <2>2, <2>3 DEF HeldOnce
  <2> QED BY <1>0, <2>7, <2>8, <2>9 DEF HeldOnce
<1>8. ASSUME NEW t \in Threads, NEW c, argument = c, O!ReadArgument(t) PROVE OneHolderEach'
  <2>1. /\ thread[t] = "starts" /\ thread' = [thread EXCEPT ![t] = "receives"]
        /\ sockfd' = [sockfd EXCEPT ![t] = c]
        /\ UNCHANGED <<shotOpen, armed, shotBatch, argument>>
      BY <1>8 DEF O!ReadArgument
  <2>2. c \in shotOpen /\ Holders(c) = {t} /\ O!Starting = {t} /\ c \notin armed \cup shotBatch
      BY <1>8, <2>1, StarterIsAlone
  <2>3. /\ \A u \in Threads \ {t} : thread'[u] = thread[u] /\ sockfd'[u] = sockfd[u]
        /\ thread'[t] = "receives" /\ sockfd'[t] = c /\ sockfd[t] = None
      BY <2>1 DEF OTypes
  <2>4. O!Starting' = {}
      BY <2>2, <2>3 DEF O!Starting
  <2>5. \A u \in Threads \ {t} : sockfd[u] # c
      BY <2>2 DEF Holders, O!WorkOn
  <2>6. O!WorkOn(c)' = {t}
      BY <2>3, <2>5 DEF O!WorkOn
  <2>7. \A d \in Fds \ {c} : O!WorkOn(d)' = O!WorkOn(d)
    <3>1. \A d \in Fds \ {c} : \A u \in Threads : sockfd'[u] = d <=> sockfd[u] = d
        BY <1>0, <2>3
    <3> QED BY <3>1 DEF O!WorkOn
  <2>8. \A d \in Fds : Holders(d)' = Holders(d)
    <3>1. Holders(c)' = Holders(c)
        BY <2>2, <2>4, <2>6 DEF Holders
    <3>2. \A d \in Fds \ {c} : Holders(d)' = Holders(d)
        BY <1>8, <2>1, <2>4, <2>7 DEF Holders
    <3> QED BY <3>1, <3>2
  <2>9. OnlyOpen'
      BY <2>1, <2>2, <2>3, <2>4 DEF OnlyOpen
  <2> QED BY <1>0, <2>1, <2>8, <2>9 DEF HeldOnce
<1>9. ASSUME NEW t \in Threads, O!Receive(t) \/ O!ReceiveAgain(t) PROVE OneHolderEach'
  <2>1. /\ UNCHANGED <<shotOpen, armed, shotBatch, argument, sockfd>> /\ thread[t] = "receives"
        /\ thread' = [thread EXCEPT ![t] = "resets"] \/ UNCHANGED thread
      BY <1>9 DEF O!Receive, O!ReceiveAgain, O!Receives, O!threadVars
  <2>2. \A u \in Threads : /\ thread'[u] = "starts" <=> thread[u] = "starts"
                           /\ thread'[u] \in {"receives", "resets"}
                              <=> thread[u] \in {"receives", "resets"}
      BY <2>1 DEF OTypes
  <2>3. O!Starting' = O!Starting
      BY <2>2 DEF O!Starting
  <2>4. \A d \in Fds : Holders(d)' = Holders(d)
      BY <2>1, <2>3 DEF Holders, O!WorkOn
  <2>5. OnlyOpen'
      BY <2>1, <2>2, <2>3 DEF OnlyOpen
  <2> QED BY <1>0, <2>1, <2>4, <2>5 DEF HeldOnce
<1>10. ASSUME NEW t \in Threads, NEW c, sockfd[t] = c, O!ReceiveZero(t) PROVE OneHolderEach'
  <2>1. /\ c \in shotOpen /\ shotOpen' = shotOpen \ {c}
        /\ armed' = armed \ {c} /\ thread[t] = "receives"
        /\ UNCHANGED <<shotBatch, argument>> /\ O!Ends(t)
      BY <1>10 DEF O!ReceiveZero, O!Receives
  <2>2. Holders(c) = {t} /\ c \notin armed \cup shotBatch
      BY <1>10, <2>1, WorkerIsAlone
  <2>3. /\ O!Starting' = O!Starting /\ Holders(c)' = {}
        /\ argument = c => O!Starting = {}
        /\ \A d \in Fds \ {c} : Holders(d)' = Holders(d)
        /\ \A u \in Threads : thread'[u] \in {"receives", "resets"}
               => thread'[u] = thread[u] /\ sockfd'[u] = sockfd[u] /\ sockfd[u] # c
      BY <1>10, <2>1, EndLeavesNobody
  <2>4. OnlyOpen'
    <3>1. O!Starting' # {} => argument' \in shotOpen'
        BY <2>1, <2>3 DEF OnlyOpen
    <3> QED BY <1>0, <2>1, <2>2, <2>3, <3>1 DEF OnlyOpen
  <2>5. /\ (armed \cap shotBatch)' = {}
        /\ (shotOpen \ (armed \cup shotBatch))' = (shotOpen \ (armed \cup shotBatch)) \ {c}
        /\ (shotOpen \cap (armed \cup shotBatch))' = shotOpen \cap (armed \cup shotBatch)
      BY <2>1, <2>2 DEF HeldOnce
  <2> QED BY <1>0, <2>2, <2>3, <2>4, <2>5 DEF HeldOnce
<1>11. ASSUME NEW t \in Threads, NEW c, sockfd[t] = c, O!ResetOneShot(t) PROVE OneHolderEach'
  <2>1. /\ thread[t] = "resets" /\ O!Ends(t) /\ armed' = armed \cup ({c} \cap shotOpen)
        /\ UNCHANGED <<shotOpen, shotBatch, argument>>
      BY <1>11 DEF O!ResetOneShot
  <2>2. c \in shotOpen /\ Holders(c) = {t} /\ c \notin armed \cup shotBatch
      BY <1>11, <2>1, WorkerIsAlone
  <2>3. /\ O!Starting' = O!Starting /\ Holders(c)' = {}
        /\ argument = c => O!Starting = {}
        /\ \A d \in Fds \ {c} : Holders(d)' = Holders(d)
        /\ \A u \in Threads : thread'[u] \in {"receives", "resets"}
               => thread'[u] = thread[u] /\ sockfd'[u] = sockfd[u] /\ sockfd[u] # c
      BY <1>11, <2>1, EndLeavesNobody
  <2>4. OnlyOpen'
      BY <2>1, <2>3 DEF OnlyOpen
  <2>5. /\ (armed \cap shotBatch)' = {}
        /\ (shotOpen \ (armed \cup shotBatch))' = (shotOpen \ (armed \cup shotBatch)) \ {c}
        /\ (shotOpen \cap (armed \cup shotBatch))' = (shotOpen \cap (armed \cup shotBatch)) \cup {c}
      BY <2>1, <2>2 DEF HeldOnce
  <2> QED BY <1>0, <2>2, <2>3, <2>4, <2>5 DEF HeldOnce
<1> QED BY <1>1, <1>3, <1>4, <1>6, <1>7, <1>8, <1>9, <1>10, <1>11 DEF O!Next

\* Every step of OneShotServer keeps its invariant.
LEMMA OneShotStep ==
    ASSUME ConnsAssumption, NoneAssumption, OInv, [O!Next]_(O!oneShotVars)
    PROVE  OInv'
<1>1. OTypes'
    BY OneShotTypes DEF OInv
<1>2. overwritten => overwritten'
    BY DEF O!Next, O!oneShotVars, O!Connect, O!EpollWait, O!Accept, O!EndOfBatch, O!ClientSends,
           O!ClientCloses, O!StartThread, O!ReadArgument, O!Receive, O!ReceiveAgain,
           O!ReceiveZero, O!ResetOneShot, O!Receives
<1>3. ASSUME ~overwritten' PROVE OneHolderEach'
    BY <1>2, <1>3, OneShotHolders DEF OInv
<1> QED BY <1>1, <1>3 DEF OInv

\* Without clients it holds.
LEMMA OneShotStart == ConnsAssumption /\ O!Init => OInv
<1> SUFFICES ASSUME ConnsAssumption, O!Init PROVE OInv
    OBVIOUS
<1>1. Cardinality(shotOpen) = 0 /\ Cardinality(Fds) \in Nat
    BY FS_EmptySet, FS_CardinalityType DEF O!Init, ConnsAssumption
<1>2. ClientsFit
    BY <1>1 DEF O!Init, ClientsFit, Fits, Listen, O!Listen
<1>3. OTypes
    BY <1>2 DEF O!Init, OTypes
<1> QED BY <1>3 DEF O!Init, OInv, OneHolderEach, OnlyOpen, HeldOnce, O!Starting

\* "At any time one process or thread works on a descriptor", and none is forgotten.
THEOREM OneShotGivesOneThread ==
    ASSUME NoneAssumption
    PROVE  O!Spec => []OneThreadEach
<1>1. O!Init => OInv
    BY OneShotStart, FdsAreConns
<1>2. OInv /\ [O!Next]_(O!oneShotVars) => OInv'
    BY OneShotStep, FdsAreConns
<1>3. OInv => OneThreadEach
  <2> SUFFICES ASSUME OInv, ~overwritten, NEW c \in shotOpen
               PROVE  Cardinality(Holders(c)) + Cardinality({x \in {"armed"} : c \in armed})
                        + Cardinality({c} \cap shotBatch) = 1
      BY SameLibrary DEF OInv, OneHolderEach, OnlyOpen, OneThreadEach, O!OneThreadEach, Holders
  <2> DEFINE A == {x \in {"armed"} : c \in armed}
             B == {c} \cap shotBatch
  <2>1. CASE c \in armed
    <3>1. Holders(c) = {} /\ A = {"armed"} /\ B = {}
        BY <2>1 DEF OInv, OneHolderEach, HeldOnce
    <3>2. Cardinality(Holders(c)) = 0 /\ Cardinality(A) = 1 /\ Cardinality(B) = 0
        BY <3>1, FS_Singleton, FS_EmptySet
    <3> QED BY <3>2
  <2>2. CASE c \in shotBatch
    <3>1. Holders(c) = {} /\ A = {} /\ B = {c}
        BY <2>2 DEF OInv, OneHolderEach, HeldOnce
    <3>2. Cardinality(Holders(c)) = 0 /\ Cardinality(A) = 0 /\ Cardinality(B) = 1
        BY <3>1, FS_Singleton, FS_EmptySet
    <3> QED BY <3>2
  <2>3. CASE c \notin armed \cup shotBatch
    <3>1. PICK t \in Threads : Holders(c) = {t}
        BY <2>3 DEF OInv, OneHolderEach, HeldOnce
    <3>2. A = {} /\ B = {}
        BY <2>3
    <3>3. Cardinality(Holders(c)) = 1 /\ Cardinality(A) = 0 /\ Cardinality(B) = 0
        BY <3>1, <3>2, FS_Singleton, FS_EmptySet
    <3> QED BY <3>3
  <2> QED BY <2>1, <2>2, <2>3
<1> QED BY <1>1, <1>2, <1>3, PTL DEF O!Spec

(***************************************************************************)
(* The types                                                               *)
(***************************************************************************)

\* The bounds that TypeOK adds: what waits in a socket is never negative.
MBounds == modeUnread \in [Fds -> 0..MaxUnread] /\ inLoop \in BOOLEAN
OBounds == shotUnread \in [Fds -> 0..MaxUnread] /\ shotInLoop \in BOOLEAN

\* Every step of TriggerModes keeps its bounds.
LEMMA ModesBounded ==
    ASSUME MaxUnread \in Nat, MBounds, [M!Next]_(M!triggerVars)
    PROVE  MBounds'
<1> USE DEF MBounds
<1>1. CASE UNCHANGED M!triggerVars \/ M!Connect \/ M!EpollWait \/ M!Accept \/ M!EndOfBatch
    BY <1>1 DEF M!triggerVars, M!Connect, M!EpollWait, M!Accept, M!Handle, M!EndOfBatch
<1>2. CASE M!Receive \/ M!ReceiveAgain \/ M!ReceiveZero
    BY <1>2 DEF M!Receive, M!ReceiveAgain, M!ReceiveZero, M!Take
<1>3. ASSUME NEW c \in Fds, M!Send(c) \/ M!HangUp(c) \/ M!ReceiveOnce(c) \/ M!Enter(c)
      PROVE  MBounds'
    BY <1>3 DEF M!Send, M!HangUp, M!ReceiveOnce, M!Enter, M!Handle, M!Take
<1> QED BY <1>1, <1>2, <1>3 DEF M!Next

\* Every step of OneShotServer keeps its bounds.
LEMMA OneShotBounded ==
    ASSUME MaxUnread \in Nat, OBounds, [O!Next]_(O!oneShotVars)
    PROVE  OBounds'
<1> USE DEF OBounds, O!clientVars
<1>1. CASE UNCHANGED O!oneShotVars \/ O!Connect \/ O!EpollWait \/ O!Accept \/ O!EndOfBatch
    BY <1>1 DEF O!oneShotVars, O!Connect, O!EpollWait, O!Accept, O!Handle, O!EndOfBatch
<1>2. ASSUME NEW c \in Fds, O!ClientSends(c) \/ O!ClientCloses(c) \/ O!StartThread(c)
      PROVE  OBounds'
    BY <1>2 DEF O!ClientSends, O!ClientCloses, O!StartThread, O!Handle
<1>3. ASSUME NEW t \in Threads,
             \/ O!ReadArgument(t) \/ O!Receive(t) \/ O!ReceiveAgain(t)
             \/ O!ReceiveZero(t) \/ O!ResetOneShot(t)
      PROVE  OBounds'
    BY <1>3 DEF O!ReadArgument, O!Receive, O!ReceiveAgain, O!ReceiveZero, O!Receives, O!ResetOneShot
<1> QED BY <1>1, <1>2, <1>3 DEF O!Next

\* Every variable of the three servers keeps its type: accept always finds a free
\* descriptor, no counter leaves its range, and no event is for a descriptor that
\* never was one (11-2_clear_dead_connection, 9-3_epoll and 9-3_epoll_one_shot).
THEOREM ServerTypesStayRight ==
    ASSUME NoneAssumption
    PROVE  Spec /\ M!Spec /\ O!Spec => []TypesOK
<1>0. MaxUnread \in Nat /\ Cardinality(Fds) \in Nat
      /\ \A conns \in SUBSET Fds : Cardinality(conns) \in Nat
    BY FdsAssumption, BoundsAssumption, FS_Subset, FS_CardinalityType
<1>1. M!Spec => []M!TypeOK
  <2>1. M!Init => MInv /\ MBounds
    <3>1. M!Init => MBounds
      <4> SUFFICES ASSUME M!Init PROVE MBounds
          OBVIOUS
      <4>1. modeUnread \in [Fds -> 0..MaxUnread]
        <5>1. 0 \in 0..MaxUnread
            BY <1>0
        <5> QED BY <5>1 DEF M!Init
      <4> QED BY <4>1 DEF M!Init, MBounds
    <3> QED BY <3>1, ModesStart, FdsAreConns
  <2>2. MInv /\ MBounds /\ [M!Next]_(M!triggerVars) => MInv' /\ MBounds'
      BY <1>0, TriggerModesStep, ModesBounded, FdsAreConns
  <2>3. MInv /\ MBounds => M!TypeOK
      BY <1>0, SameLibrary DEF MInv, MBounds, MFit, Fits, M!TypeOK, M!Listen, Listen
  <2> QED BY <2>1, <2>2, <2>3, PTL DEF M!Spec
<1>2. O!Spec => []O!TypeOK
  <2>1. O!Init => OInv /\ OBounds
    <3>1. O!Init => OBounds
      <4> SUFFICES ASSUME O!Init PROVE OBounds
          OBVIOUS
      <4>1. shotUnread \in [Fds -> 0..MaxUnread]
        <5>1. 0 \in 0..MaxUnread
            BY <1>0
        <5> QED BY <5>1 DEF O!Init
      <4> QED BY <4>1 DEF O!Init, OBounds
    <3> QED BY <3>1, OneShotStart, FdsAreConns
  <2>2. OInv /\ OBounds /\ [O!Next]_(O!oneShotVars) => OInv' /\ OBounds'
      BY <1>0, OneShotStep, OneShotBounded, FdsAreConns
  <2>3. OInv /\ OBounds => O!TypeOK
      BY <1>0, SameLibrary
      DEF OInv, OTypes, OBounds, ClientsFit, Fits, O!TypeOK, O!Listen, Listen
  <2> QED BY <2>1, <2>2, <2>3, PTL DEF O!Spec
<1>3. Spec => []TypeOK
    BY TypeCorrect
<1> QED BY <1>1, <1>2, <1>3, PTL DEF TypesOK
=============================================================================
