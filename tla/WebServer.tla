------------------------------ MODULE WebServer ------------------------------
(***************************************************************************)
(* The web server of src/linux_server/15-6_threadpool_webserver.cc: the    *)
(* epoll loop of main, the array of HttpConn objects of 15-6_http_conn.cc  *)
(* that main and the pool's workers share without a lock, and the worker   *)
(* pool, which appears as its specification TaskQueue (ThreadPool.tla      *)
(* implements it).                                                         *)
(*                                                                         *)
(* What protects an HttpConn is EPOLLONESHOT: a reported descriptor stays  *)
(* silent until it is armed again, so main hands the connection to one     *)
(* worker and the worker hands it back by arming it. HTTP itself is        *)
(* abstracted to what Process, Read and Write can answer.                  *)
(***************************************************************************)
EXTENDS Integers, FiniteSets, Sequences, FiniteSetsExt

CONSTANTS
    Fds,          \* the descriptors the kernel can give to clients
    Workers,      \* the pool's threads
    Main,         \* the thread that runs main
    None,         \* no connection
    MaxRequests,  \* the pool's max_requests
    MaxFd,        \* MAX_FD: main refuses clients beyond this user count
    Outcomes,     \* what Process can make of a request: a subset of AllOutcomes
    MaxConns,     \* bound: connections the clients make in a behaviour
    Backlog       \* the length of listen's queue of established connections

AllOutcomes == {"no_request",   \* ProcessRead needs more bytes
                "reply",        \* ProcessWrite filled the write buffer
                "empty_file"}   \* the file is empty: ProcessWrite returns false

ASSUME FdsAssumption      == Fds \subseteq Nat \ {0} /\ IsFiniteSet(Fds)
ASSUME ThreadsAssumption  == Main \notin Workers /\ None \notin Fds
ASSUME BoundsAssumption   == MaxConns \in Nat /\ Backlog \in Nat /\ MaxRequests \in Nat
ASSUME OutcomesAssumption == Outcomes \subseteq AllOutcomes
\* users has as many objects (10000) as the pool has max_requests.
ASSUME PoolIsLargeEnough  == Cardinality(Fds) <= MaxRequests + 1

Threads == Workers \cup {Main}
NoFd    == -1

VARIABLES
    \* kernel and clients
    backlog,    \* established connections that wait for accept
    edge,       \* listenfd became readable since epoll_wait last said so
    conns,      \* connections made so far
    kern,       \* per descriptor: open, armed events, and the peer's doing
    \* the HttpConn objects; users[fd] serves descriptor fd
    sockfd,     \* m_sockfd
    reply,      \* m_write_idx > 0: there is a reply in the write buffer
    userCount,  \* the static m_user_count
    \* control
    batch,      \* the events of the last epoll_wait that main has not handled
    handling,   \* the connection main is handling
    pc,         \* where each thread is
    tmp,        \* what each thread loaded from m_user_count
    \* the pool
    pending, running

poolVars   == <<pending, running>>
clientVars == <<backlog, edge, conns>>
connVars   == <<sockfd, reply>>
mainVars   == <<batch, handling>>
vars == <<clientVars, kern, connVars, userCount, mainVars, pc, tmp, poolVars>>

Pool == INSTANCE TaskQueue WITH Requests <- Fds, Capacity <- MaxRequests + 1

Listen == 0              \* stands for listenfd in an event

\* arm: "none" (not in the epoll set), "off" (reported, waits to be armed
\* again), "in" or "out".
Closed == [open |-> FALSE, arm |-> "none", data |-> FALSE, gone |-> FALSE, full |-> FALSE]

ClosePC == {"close_check", "close_remove", "close_reset", "close_load", "close_store"}
MainPC  == {"wait", "dispatch", "init_sock", "init_add", "init_load", "init_store",
            "init_rest"} \cup ClosePC
WorkPC  == {"idle", "process", "rearm"} \cup ClosePC

TypeOK ==
    /\ backlog \in 0..Backlog /\ edge \in BOOLEAN /\ conns \in 0..MaxConns
    /\ kern \in [Fds -> [open : BOOLEAN, arm : {"none", "off", "in", "out"},
                         data : BOOLEAN, gone : BOOLEAN, full : BOOLEAN]]
    /\ sockfd \in [Fds -> Fds \cup {NoFd}]
    /\ reply \in [Fds -> BOOLEAN]
    /\ userCount \in Int
    /\ batch \subseteq (Fds \X {"hup", "in", "out"}) \cup {<<Listen, "in">>}
    /\ handling \in Fds \cup {None}
    /\ pc \in [Threads -> MainPC \cup WorkPC]
    /\ pc[Main] \in MainPC /\ \A w \in Workers : pc[w] \in WorkPC
    /\ tmp \in [Threads -> Int]
    /\ Pool!QueueTypeOK

Init ==
    /\ backlog = 0 /\ edge = FALSE /\ conns = 0
    /\ kern = [fd \in Fds |-> Closed]
    /\ sockfd = [c \in Fds |-> NoFd]
    /\ reply = [c \in Fds |-> FALSE]
    /\ userCount = 0
    /\ batch = {}
    /\ handling = None
    /\ pc = [t \in Threads |-> IF t = Main THEN "wait" ELSE "idle"]
    /\ tmp = [t \in Threads |-> 0]
    /\ Pool!Init

Open == {fd \in Fds : kern[fd].open}

\* The object a thread is working on.
Conn(t) == IF t = Main THEN handling ELSE running[t]

Goto(t, from, to) ==
    /\ pc[t] = from
    /\ pc' = [pc EXCEPT ![t] = to]

\* Modfd: arms a registered descriptor again, fails on any other number.
Modfd(fd, ev) ==
    kern' = IF fd = NoFd \/ kern[fd].arm = "none" THEN kern
            ELSE [kern EXCEPT ![fd].arm = ev]

----------------------------------------------------------------------------
(* The clients                                                             *)

Connect ==
    /\ conns < MaxConns /\ backlog < Backlog
    /\ conns' = conns + 1
    /\ backlog' = backlog + 1
    /\ edge' = TRUE
    /\ UNCHANGED <<kern, connVars, userCount, mainVars, pc, tmp, poolVars>>

\* Bytes arrive, the peer closes or resets, the peer reads what it was sent.
ClientStep(fd) ==
    /\ kern[fd].open
    /\ \/ ~kern[fd].gone /\ kern' = [kern EXCEPT ![fd].data = TRUE]
       \/ kern' = [kern EXCEPT ![fd].gone = TRUE]
       \/ kern' = [kern EXCEPT ![fd].full = FALSE]
    /\ UNCHANGED <<clientVars, connVars, userCount, mainVars, pc, tmp, poolVars>>

----------------------------------------------------------------------------
(* main: epoll_wait and the dispatch of its events                         *)

\* Mutant of Ready: Modfd and Addfd leave out EPOLLRDHUP.
ReadyWithoutRdhup(fd) ==
    \/ kern[fd].arm = "in" /\ kern[fd].data
    \/ kern[fd].arm = "out" /\ ~kern[fd].full

Ready(fd) ==
    \/ kern[fd].arm # "off" /\ kern[fd].arm # "none" /\ kern[fd].gone
    \/ kern[fd].arm = "in" /\ kern[fd].data
    \/ kern[fd].arm = "out" /\ ~kern[fd].full

\* The branch main takes for the descriptor's events: RDHUP, HUP and ERR first.
Event(fd) == IF kern[fd].gone THEN "hup" ELSE kern[fd].arm

\* Mutant of EpollWait: descriptors are added without EPOLLONESHOT.
EpollWaitKeepsArmed ==
    LET ready == {fd \in Fds : Ready(fd)} IN
    /\ ready # {} \/ edge
    /\ Goto(Main, "wait", "dispatch")
    /\ batch' = {<<fd, Event(fd)>> : fd \in ready}
                    \cup (IF edge THEN {<<Listen, "in">>} ELSE {})
    /\ edge' = FALSE
    /\ UNCHANGED <<backlog, conns, kern, connVars, userCount, handling, tmp, poolVars>>

\* Every ready descriptor is reported, and is silent from then on.
EpollWait ==
    LET ready == {fd \in Fds : Ready(fd)} IN
    /\ ready # {} \/ edge
    /\ Goto(Main, "wait", "dispatch")
    /\ batch' = {<<fd, Event(fd)>> : fd \in ready}
                    \cup (IF edge THEN {<<Listen, "in">>} ELSE {})
    /\ kern' = [fd \in Fds |-> IF fd \in ready THEN [kern[fd] EXCEPT !.arm = "off"]
                               ELSE kern[fd]]
    /\ edge' = FALSE
    /\ UNCHANGED <<backlog, conns, connVars, userCount, handling, tmp, poolVars>>

BatchDone ==
    /\ batch = {}
    /\ Goto(Main, "dispatch", "wait")
    /\ UNCHANGED <<clientVars, kern, connVars, userCount, mainVars, tmp, poolVars>>

\* accept returns the lowest free descriptor; one connection per event.
Accept ==
    LET fd == Min(Fds \ Open) IN
    /\ <<Listen, "in">> \in batch
    /\ backlog > 0 /\ Open # Fds
    /\ userCount < MaxFd
    /\ Goto(Main, "dispatch", "init_sock")
    /\ batch' = batch \ {<<Listen, "in">>}
    /\ backlog' = backlog - 1
    /\ kern' = [kern EXCEPT ![fd].open = TRUE]
    /\ handling' = fd
    /\ UNCHANGED <<edge, conns, connVars, userCount, tmp, poolVars>>

\* Too many users: ShowError closes the new connection at once.
AcceptBusy ==
    /\ <<Listen, "in">> \in batch
    /\ backlog > 0 /\ Open # Fds
    /\ userCount >= MaxFd
    /\ pc[Main] = "dispatch"
    /\ batch' = batch \ {<<Listen, "in">>}
    /\ backlog' = backlog - 1
    /\ UNCHANGED <<edge, conns, kern, connVars, userCount, handling, pc, tmp, poolVars>>

\* accept fails: no descriptor is free; the connection stays in the backlog.
AcceptFails ==
    /\ <<Listen, "in">> \in batch
    /\ Open = Fds
    /\ pc[Main] = "dispatch"
    /\ batch' = batch \ {<<Listen, "in">>}
    /\ UNCHANGED <<clientVars, kern, connVars, userCount, handling, pc, tmp, poolVars>>

\* EPOLLRDHUP, EPOLLHUP, EPOLLERR.
HandleHup(fd) ==
    /\ <<fd, "hup">> \in batch
    /\ Goto(Main, "dispatch", "close_check")
    /\ batch' = batch \ {<<fd, "hup">>}
    /\ handling' = fd
    /\ UNCHANGED <<clientVars, kern, connVars, userCount, tmp, poolVars>>

\* EPOLLIN, and Read takes everything that has arrived: Append it to the pool,
\* whose answer is ignored. (recv fails on a number that is closed.)
HandleIn(fd) ==
    /\ <<fd, "in">> \in batch
    /\ sockfd[fd] # NoFd /\ kern[sockfd[fd]].open /\ ~kern[sockfd[fd]].gone
    /\ pc[Main] = "dispatch"
    /\ batch' = batch \ {<<fd, "in">>}
    /\ kern' = [kern EXCEPT ![sockfd[fd]].data = FALSE]
    /\ Pool!Accept(fd) \/ Pool!Reject
    /\ UNCHANGED <<clientVars, connVars, userCount, handling, pc, tmp>>

\* EPOLLIN, and Read fails: the buffer is full, the peer closed, an error.
HandleInFails(fd) ==
    /\ <<fd, "in">> \in batch
    /\ Goto(Main, "dispatch", "close_check")
    /\ batch' = batch \ {<<fd, "in">>}
    /\ handling' = fd
    /\ UNCHANGED <<clientVars, kern, connVars, userCount, tmp, poolVars>>

\* EPOLLOUT and Write returns true: nothing to send, the socket is full
\* (EAGAIN), or everything is sent and the connection is kept.
HandleOut(fd) ==
    /\ <<fd, "out">> \in batch
    /\ pc[Main] = "dispatch"
    /\ batch' = batch \ {<<fd, "out">>}
    /\ \/ /\ ~reply[fd]
          /\ Modfd(sockfd[fd], "in")
          /\ UNCHANGED reply
       \/ /\ reply[fd] /\ sockfd[fd] # NoFd /\ kern[sockfd[fd]].open
          /\ kern' = [kern EXCEPT ![sockfd[fd]].arm = "out", ![sockfd[fd]].full = TRUE]
          /\ UNCHANGED reply
       \/ /\ reply[fd] /\ sockfd[fd] # NoFd /\ kern[sockfd[fd]].open
          /\ Modfd(sockfd[fd], "in")
          /\ reply' = [reply EXCEPT ![fd] = FALSE]
    /\ UNCHANGED <<clientVars, sockfd, userCount, handling, pc, tmp, poolVars>>

\* EPOLLOUT and Write returns false: an error, or everything is sent and the
\* connection is not kept (Write arms it for reading all the same).
HandleOutFails(fd) ==
    /\ <<fd, "out">> \in batch /\ reply[fd]
    /\ Goto(Main, "dispatch", "close_check")
    /\ batch' = batch \ {<<fd, "out">>}
    /\ handling' = fd
    /\ Modfd(sockfd[fd], "in") \/ UNCHANGED kern
    /\ UNCHANGED <<clientVars, connVars, userCount, tmp, poolVars>>

----------------------------------------------------------------------------
(* HttpConn::Init(sockfd, addr), called by main                            *)

InitSock ==
    /\ Goto(Main, "init_sock", "init_add")
    /\ sockfd' = [sockfd EXCEPT ![handling] = handling]
    /\ UNCHANGED <<clientVars, kern, reply, userCount, mainVars, tmp, poolVars>>

\* A worker may have closed the number meanwhile: epoll_ctl fails, unnoticed.
Addfd ==
    /\ Goto(Main, "init_add", "init_load")
    /\ kern' = IF kern[handling].open THEN [kern EXCEPT ![handling].arm = "in"]
               ELSE kern
    /\ UNCHANGED <<clientVars, connVars, userCount, mainVars, tmp, poolVars>>

\* m_user_count++ is a load and a store.
InitLoad ==
    /\ Goto(Main, "init_load", "init_store")
    /\ tmp' = [tmp EXCEPT ![Main] = userCount]
    /\ UNCHANGED <<clientVars, kern, connVars, userCount, mainVars, poolVars>>

InitStore ==
    /\ Goto(Main, "init_store", "init_rest")
    /\ userCount' = tmp[Main] + 1
    /\ tmp' = [tmp EXCEPT ![Main] = 0]
    /\ UNCHANGED <<clientVars, kern, connVars, mainVars, poolVars>>

\* Init() resets the buffers.
InitRest ==
    /\ Goto(Main, "init_rest", "dispatch")
    /\ reply' = [reply EXCEPT ![handling] = FALSE]
    /\ handling' = None
    /\ UNCHANGED <<clientVars, kern, sockfd, userCount, batch, tmp, poolVars>>

----------------------------------------------------------------------------
(* HttpConn::CloseConn, called by main and by workers                      *)

\* Where a thread goes when CloseConn returns, and what it does there.
AfterClose(t) == IF t = Main THEN "dispatch" ELSE "rearm"

LeaveClose(t) ==
    handling' = IF t = Main THEN None ELSE handling

CloseCheck(t) ==
    /\ Goto(t, "close_check", "close_remove")
    /\ sockfd[Conn(t)] # NoFd
    /\ UNCHANGED <<clientVars, kern, connVars, userCount, mainVars, tmp, poolVars>>

CloseNothing(t) ==
    /\ Goto(t, "close_check", AfterClose(t))
    /\ sockfd[Conn(t)] = NoFd
    /\ LeaveClose(t)
    /\ UNCHANGED <<clientVars, kern, connVars, userCount, batch, tmp, poolVars>>

\* Removefd: EPOLL_CTL_DEL and close; the number is free from here on.
CloseRemove(t) ==
    /\ Goto(t, "close_remove", "close_reset")
    /\ kern' = IF sockfd[Conn(t)] = NoFd THEN kern
               ELSE [kern EXCEPT ![sockfd[Conn(t)]] = Closed]
    /\ UNCHANGED <<clientVars, connVars, userCount, mainVars, tmp, poolVars>>

\* Mutant of CloseReset: m_sockfd keeps the number of the closed descriptor.
CloseForgetsReset(t) ==
    /\ Goto(t, "close_reset", "close_load")
    /\ UNCHANGED <<clientVars, kern, connVars, userCount, mainVars, tmp, poolVars>>

CloseReset(t) ==
    /\ Goto(t, "close_reset", "close_load")
    /\ sockfd' = [sockfd EXCEPT ![Conn(t)] = NoFd]
    /\ UNCHANGED <<clientVars, kern, reply, userCount, mainVars, tmp, poolVars>>

\* m_user_count-- is a load and a store.
CloseLoad(t) ==
    /\ Goto(t, "close_load", "close_store")
    /\ tmp' = [tmp EXCEPT ![t] = userCount]
    /\ UNCHANGED <<clientVars, kern, connVars, userCount, mainVars, poolVars>>

CloseStore(t) ==
    /\ Goto(t, "close_store", AfterClose(t))
    /\ userCount' = tmp[t] - 1
    /\ tmp' = [tmp EXCEPT ![t] = 0]
    /\ LeaveClose(t)
    /\ UNCHANGED <<clientVars, kern, connVars, batch, poolVars>>

CloseConn(t) ==
    \/ CloseCheck(t) \/ CloseNothing(t) \/ CloseRemove(t)
    \/ CloseReset(t) \/ CloseLoad(t) \/ CloseStore(t)

----------------------------------------------------------------------------
(* A worker: the pool's Run and HttpConn::Process                          *)

TakeRequest(w) ==
    /\ Goto(w, "idle", "process")
    /\ Pool!Take(w)
    /\ UNCHANGED <<clientVars, kern, connVars, userCount, mainVars, tmp>>

\* Mutant of ProcessIncomplete: NO_REQUEST returns without Modfd.
ProcessIncompleteUnarmed(w) ==
    /\ "no_request" \in Outcomes
    /\ Goto(w, "process", "idle")
    /\ Pool!Finish(w)
    /\ UNCHANGED <<clientVars, kern, connVars, userCount, mainVars, tmp>>

\* NO_REQUEST: arm the descriptor for reading and return.
ProcessIncomplete(w) ==
    /\ "no_request" \in Outcomes
    /\ Goto(w, "process", "idle")
    /\ Modfd(sockfd[running[w]], "in")
    /\ Pool!Finish(w)
    /\ UNCHANGED <<clientVars, connVars, userCount, mainVars, tmp>>

\* ProcessWrite puts the reply into the write buffer.
ProcessReply(w) ==
    /\ "reply" \in Outcomes
    /\ Goto(w, "process", "rearm")
    /\ reply' = [reply EXCEPT ![running[w]] = TRUE]
    /\ UNCHANGED <<clientVars, kern, sockfd, userCount, mainVars, tmp, poolVars>>

\* Mutant of ProcessWriteFails: Process returns without closing the connection.
ProcessWriteFailsReturns(w) ==
    /\ "empty_file" \in Outcomes
    /\ Goto(w, "process", "idle")
    /\ Pool!Finish(w)
    /\ UNCHANGED <<clientVars, kern, connVars, userCount, mainVars, tmp>>

\* ProcessWrite falls through to its default case: the worker closes.
ProcessWriteFails(w) ==
    /\ "empty_file" \in Outcomes
    /\ Goto(w, "process", "close_check")
    /\ reply' = [reply EXCEPT ![running[w]] = TRUE]
    /\ UNCHANGED <<clientVars, kern, sockfd, userCount, mainVars, tmp, poolVars>>

\* Whether or not it has closed the connection, Process arms it for writing.
ProcessRearm(w) ==
    /\ Goto(w, "rearm", "idle")
    /\ Modfd(sockfd[running[w]], "out")
    /\ Pool!Finish(w)
    /\ UNCHANGED <<clientVars, connVars, userCount, mainVars, tmp>>

----------------------------------------------------------------------------
MainStep ==
    \/ EpollWait \/ BatchDone \/ Accept \/ AcceptBusy \/ AcceptFails
    \/ \E fd \in Fds : \/ HandleHup(fd) \/ HandleIn(fd) \/ HandleInFails(fd)
                       \/ HandleOut(fd) \/ HandleOutFails(fd)
    \/ InitSock \/ Addfd \/ InitLoad \/ InitStore \/ InitRest
    \/ CloseConn(Main)

WorkerStep(w) ==
    \/ TakeRequest(w) \/ ProcessIncomplete(w) \/ ProcessReply(w)
    \/ ProcessWriteFails(w) \/ ProcessRearm(w) \/ CloseConn(w)

Next ==
    \/ Connect \/ \E fd \in Fds : ClientStep(fd)
    \/ MainStep
    \/ \E w \in Workers : WorkerStep(w)

Spec == Init /\ [][Next]_vars

\* The operating system runs every thread; clients need not do anything.
Fairness == WF_vars(MainStep) /\ \A w \in Workers : WF_vars(WorkerStep(w))

FairSpec == Spec /\ Fairness

----------------------------------------------------------------------------
(* Properties                                                              *)

Armed(fd) == kern[fd].arm \in {"in", "out"}

\* How many times a connection waits in the pool's queue or is being processed.
Assigned(fd) ==
    Cardinality({i \in DOMAIN pending : pending[i] = fd})
        + Cardinality({w \in Workers : running[w] = fd})

InBatch(fd) == \E e \in batch : e[1] = fd

\* EPOLLONESHOT makes workers the only users of their connection: one that is
\* queued or processed is so exactly once, main neither handles it nor has an
\* event for it, and epoll will not report it.
ExclusiveWorker ==
    \A fd \in Fds : Assigned(fd) > 0 =>
        Assigned(fd) = 1 /\ ~Armed(fd) /\ ~InBatch(fd) /\ handling # fd

\* No connection is forgotten: an open descriptor will be reported by epoll, or
\* main has its event or is handling it, or the pool has it. (Append's result is
\* ignored, and every path through Process and Write must arm or close.)
NoForgottenConnection ==
    \A fd \in Open : Armed(fd) \/ InBatch(fd) \/ handling = fd \/ Assigned(fd) > 0

\* An object in use names its own, open descriptor, except for the moment between
\* close and m_sockfd = -1; and a live object is what every open descriptor has,
\* except while main is accepting it. So nobody uses a stale descriptor number.
DescriptorsMatch ==
    \A fd \in Fds :
        /\ sockfd[fd] \in {fd, NoFd}
        /\ sockfd[fd] = fd /\ fd \notin Open
               => \E t \in Threads : pc[t] = "close_reset" /\ Conn(t) = fd
        /\ fd \in Open /\ sockfd[fd] = NoFd => pc[Main] = "init_sock" /\ handling = fd

\* m_user_count is the number of open connections whenever no thread is between
\* a connection's opening or closing and the count's change: main from accept to
\* the store of ++, any thread from close (Removefd) to the store of --.
UserCountExact ==
    (\A t \in Threads :
        pc[t] \notin {"init_sock", "init_add", "init_load", "init_store",
                     "close_reset", "close_load", "close_store"})
    => userCount = Cardinality(Open)

\* Workers arm a descriptor for writing only when there is a reply to write.
OutMeansReply == \A fd \in Fds : kern[fd].arm = "out" => reply[fd]

\* A client that hung up is eventually closed.
HangupIsClosed == \A fd \in Fds : kern[fd].gone ~> ~kern[fd].gone

\* Bytes a client sent are eventually read, unless the server is waiting for that
\* client to read its reply.
BytesAreRead == \A fd \in Fds : kern[fd].data ~> (~kern[fd].data \/ kern[fd].full)

\* When workers close connections too, main may accept a number that a worker has
\* just closed, and the worker's m_sockfd = -1 may then erase the object of the
\* new connection. Such a connection is lost; but that is the only way to lose
\* one: any other client that hung up is closed in the end, whichever thread
\* closes what in between and even if a late Modfd arms the wrong connection.
HangupClosedUnlessErased ==
    \A fd \in Fds : kern[fd].gone ~> (~kern[fd].gone \/ sockfd[fd] = NoFd)
=============================================================================
