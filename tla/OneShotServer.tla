---------------------------- MODULE OneShotServer ----------------------------
(***************************************************************************)
(* The server of src/linux_server/9-3_epoll_one_shot.cc: connections are   *)
(* registered with EPOLLONESHOT, and main starts a thread for every event. *)
(* The thread is handed the address of a local variable of main's loop; it *)
(* reads the descriptor from there whenever it first runs. (Threads can    *)
(* always be created: their number is only bounded by the model.)          *)
(***************************************************************************)
EXTENDS Integers, FiniteSets, FiniteSetsExt

CONSTANTS
    Conns,      \* descriptors of connections; accept returns the lowest free one
    Threads,    \* bound: threads at a time
    Nowhere,    \* no descriptor
    MaxUnread   \* bound: what one recv returns, waiting in one socket

Listen == 0     \* listenfd

VARIABLES
    open,       \* connections
    backlog,    \* clients in the listen queue
    unread,     \* pieces waiting in each connection
    hung,       \* connections whose client has closed its end
    armed,      \* connections epoll may report
    edge,       \* descriptors with an event to report
    batch,      \* the events not handled yet
    inLoop,     \* FALSE in epoll_wait
    argument,   \* fds_for_new_worker.sockfd, or what the memory holds after it
    thread,     \* of each thread: "none", "starts", "receives", "resets"
    sockfd,     \* the descriptor it works on
    overwritten \* a thread has been started whose argument has changed since

clientVars == <<backlog, unread, hung>>
threadVars == <<thread, sockfd>>
oneShotVars == <<open, clientVars, armed, edge, batch, inLoop, argument, threadVars, overwritten>>

TypeOK ==
    /\ open \subseteq Conns /\ hung \cup armed \subseteq open
    /\ backlog \in 0..Cardinality(Conns)
    /\ unread \in [Conns -> 0..MaxUnread]
    /\ edge \cup batch \subseteq Conns \cup {Listen}
    /\ inLoop \in BOOLEAN /\ overwritten \in BOOLEAN
    /\ argument \in Conns \cup {Nowhere}
    /\ thread \in [Threads -> {"none", "starts", "receives", "resets"}]
    /\ sockfd \in [Threads -> Conns \cup {Nowhere}]

Starting == {t \in Threads : thread[t] = "starts"}
WorkOn(c) == {t \in Threads : sockfd[t] = c}

Init ==
    /\ open = {} /\ backlog = 0 /\ unread = [c \in Conns |-> 0] /\ hung = {}
    /\ armed = {} /\ edge = {} /\ batch = {} /\ inLoop = FALSE
    /\ argument = Nowhere /\ overwritten = FALSE
    /\ thread = [t \in Threads |-> "none"] /\ sockfd = [t \in Threads |-> Nowhere]

----------------------------------------------------------------------------
(* Clients                                                                 *)

Connect ==
    /\ Cardinality(open) + backlog < Cardinality(Conns)
    /\ backlog' = backlog + 1 /\ edge' = edge \cup {Listen}
    /\ UNCHANGED <<open, unread, hung, armed, batch, inLoop, argument, threadVars, overwritten>>

ClientSends(c) ==
    /\ c \in open \ hung /\ unread[c] < MaxUnread
    /\ unread' = [unread EXCEPT ![c] = @ + 1] /\ edge' = edge \cup {c}
    /\ UNCHANGED <<open, backlog, hung, armed, batch, inLoop, argument, threadVars, overwritten>>

ClientCloses(c) ==
    /\ c \in open \ hung
    /\ hung' = hung \cup {c} /\ edge' = edge \cup {c}
    /\ UNCHANGED <<open, backlog, unread, armed, batch, inLoop, argument, threadVars, overwritten>>

----------------------------------------------------------------------------
(* main                                                                    *)

Reported == edge \cap (armed \cup {Listen})

\* Mutant of EpollWait: without EPOLLONESHOT a connection is reported again.
EpollWaitKeepsArmed ==
    /\ ~inLoop /\ Reported # {}
    /\ inLoop' = TRUE /\ batch' = Reported /\ edge' = edge \ Reported
    /\ UNCHANGED <<open, clientVars, armed, argument, threadVars, overwritten>>

\* What is reported is not reported again before it is reset.
EpollWait ==
    /\ ~inLoop /\ Reported # {}
    /\ inLoop' = TRUE /\ batch' = Reported /\ edge' = edge \ Reported
    /\ armed' = armed \ Reported
    /\ UNCHANGED <<open, clientVars, argument, threadVars, overwritten>>

Handle(fd) == inLoop /\ fd \in batch /\ batch' = batch \ {fd} /\ UNCHANGED <<inLoop, unread, hung>>

\* The variables of this branch may lie where the argument was.
Accept ==
    /\ Handle(Listen)
    /\ backlog' = backlog - 1
    /\ LET c == Min(Conns \ open) IN open' = open \cup {c} /\ armed' = armed \cup {c}
    /\ argument' \in {argument, Nowhere}
    /\ overwritten' = (overwritten \/ (argument' # argument /\ Starting # {}))
    /\ UNCHANGED <<edge, threadVars>>

StartThread(c) ==
    /\ Handle(c)
    /\ argument' = c
    /\ overwritten' = (overwritten \/ (argument' # argument /\ Starting # {}))
    /\ \E t \in Threads : thread[t] = "none" /\ thread' = [thread EXCEPT ![t] = "starts"]
    /\ UNCHANGED <<open, backlog, armed, edge, sockfd>>

EndOfBatch ==
    /\ inLoop /\ batch = {}
    /\ inLoop' = FALSE
    /\ UNCHANGED <<open, clientVars, armed, edge, batch, argument, threadVars, overwritten>>

----------------------------------------------------------------------------
(* worker                                                                  *)

ReadArgument(t) ==
    /\ thread[t] = "starts"
    /\ thread' = [thread EXCEPT ![t] = "receives"] /\ sockfd' = [sockfd EXCEPT ![t] = argument]
    /\ UNCHANGED <<open, clientVars, armed, edge, batch, inLoop, argument, overwritten>>

\* A thread whose descriptor is not open is told EBADF for ever and does nothing else.
Receives(t) ==
    /\ thread[t] = "receives" /\ sockfd[t] \in open
    /\ UNCHANGED <<backlog, batch, inLoop, argument, overwritten>>

Receive(t) ==
    /\ Receives(t) /\ unread[sockfd[t]] > 0
    /\ unread' = [unread EXCEPT ![sockfd[t]] = @ - 1]
    /\ UNCHANGED <<open, hung, armed, edge, threadVars>>

ReceiveAgain(t) ==
    /\ Receives(t) /\ unread[sockfd[t]] = 0 /\ sockfd[t] \notin hung
    /\ thread' = [thread EXCEPT ![t] = "resets"]
    /\ UNCHANGED <<open, unread, hung, armed, edge, sockfd>>

Ends(t) == thread' = [thread EXCEPT ![t] = "none"] /\ sockfd' = [sockfd EXCEPT ![t] = Nowhere]

ReceiveZero(t) ==
    /\ Receives(t) /\ unread[sockfd[t]] = 0 /\ sockfd[t] \in hung
    /\ LET c == sockfd[t] IN
           /\ open' = open \ {c} /\ hung' = hung \ {c}
           /\ armed' = armed \ {c} /\ edge' = edge \ {c}
    /\ Ends(t)
    /\ UNCHANGED unread

\* The connection is armed again, and reported if something has come since EAGAIN.
ResetOneShot(t) ==
    /\ thread[t] = "resets"
    /\ LET c == sockfd[t] IN
           /\ armed' = armed \cup ({c} \cap open)
           /\ edge' = IF unread[c] > 0 \/ c \in hung THEN edge \cup {c} ELSE edge \ {c}
    /\ Ends(t)
    /\ UNCHANGED <<open, clientVars, batch, inLoop, argument, overwritten>>

Next ==
    \/ Connect \/ EpollWait \/ Accept \/ EndOfBatch
    \/ \E c \in Conns : ClientSends(c) \/ ClientCloses(c) \/ StartThread(c)
    \/ \E t \in Threads :
           ReadArgument(t) \/ Receive(t) \/ ReceiveAgain(t) \/ ReceiveZero(t) \/ ResetOneShot(t)

Spec == Init /\ [][Next]_oneShotVars

----------------------------------------------------------------------------
(* Properties                                                              *)

\* "At any time one process or thread works on a descriptor", the comment on Addfd, and
\* none is forgotten: a connection is armed, or reported, or has one thread. This holds
\* as long as every thread has read its argument before main writes the next one.
OneThreadEach ==
    ~overwritten =>
        /\ \A c \in open :
               Cardinality(WorkOn(c) \cup (IF argument = c THEN Starting ELSE {}))
                   + Cardinality({x \in {"armed"} : c \in armed}) + Cardinality({c} \cap batch) = 1
        /\ \A t \in Threads : thread[t] \in {"receives", "resets"} => sockfd[t] \in open
=============================================================================
