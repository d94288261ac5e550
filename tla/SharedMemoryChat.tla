-------------------------- MODULE SharedMemoryChat ---------------------------
(***************************************************************************)
(* The chat server of src/linux_server/13-6_shared_memory_chat_server.cc:  *)
(* the parent accepts and forks a child per client. A child writes what    *)
(* its client sends to its block of the shared memory and tells the parent *)
(* the number of the block; the parent tells the other children, which     *)
(* send the block to their clients. A connection is named by the pid of    *)
(* its child; descriptors are edge-triggered and every event is answered   *)
(* with one recv.                                                          *)
(***************************************************************************)
EXTENDS Integers, Sequences, FiniteSets, FiniteSetsExt, SequencesExt

CONSTANTS
    Pids,       \* process ids; fork returns one that is free
    Zero,       \* pid 0, as in an entry of users that was never written
    Leaked,     \* a descriptor that nobody will close
    USER_LIMIT,
    MaxFd,      \* bound: descriptors for pipes; more are never leaked
    MaxSends    \* bound: messages the clients send

Fds == 1..MaxFd         \* descriptors of the parent that are not open before
Slots == 0..USER_LIMIT  \* the places of users that are read
Listen == -1            \* listenfd
Signals == -2           \* sig_pipefd[0]
Parent == Zero          \* the parent among those who hold a pipe

VARIABLES
    backlog,    \* clients in the listen queue
    users,      \* pid and pipefd[0] of each entry
    subProcess, \* sub_process
    userCount,  \* user_count
    pipeAt,     \* the child whose pipe each descriptor of the parent leads to
    ready,      \* what epoll of the parent has an event for
    batch,      \* the events not handled yet
    signals,    \* what is in the signal pipe
    bytes,      \* the signals read from it and not handled yet
    terminate, stopServer,
    pc,         \* of the parent: "wait", "batch" or "stopped"
    child,      \* of each child: "none", "born", "wait", "batch", "zombie"
    idx,        \* its block
    stopChild,
    events,     \* what its epoll has an event for
    handling,   \* its events not handled yet
    holders,    \* the processes that have the parent's end of its pipe open
    told,       \* the numbers on the way to it
    announced,  \* the numbers on the way from it
    unread,     \* whether its client has sent something
    closed,     \* whether its client has closed the connection
    block,      \* whose message is in each block of the shared memory
    sends,      \* messages sent so far
    heard       \* <<p, q>>: the client of q was sent a message of the client of p

tableVars == <<users, subProcess, userCount, pipeAt>>
loopVars == <<ready, batch, signals, bytes, terminate, stopServer, pc>>
childVars == <<child, idx, stopChild, events, handling>>
dataVars == <<told, announced, unread, block, heard>>
clientVars == <<backlog, closed, sends>>
chatVars == <<tableVars, loopVars, childVars, holders, dataVars, clientVars>>

Running == {p \in Pids : child[p] \in {"born", "wait", "batch"}}
Children == Running \cup {p \in Pids : child[p] = "zombie"}

TypeOK ==
    /\ users \in [Slots -> [pid : Pids \cup {Zero}, fd : Fds \cup {0}]]
    /\ subProcess \in [Pids \cup {Zero} -> -1..(USER_LIMIT - 1)]
    /\ userCount \in 0..USER_LIMIT
    /\ pipeAt \in [Fds -> Pids \cup {Zero, Leaked}]
    /\ ready \cup batch \subseteq Fds \cup {Listen, Signals}
    /\ signals \cup bytes \subseteq {"CHLD", "TERM"}
    /\ pc \in {"wait", "batch", "stopped"}
    /\ child \in [Pids -> {"none", "born", "wait", "batch", "zombie"}]
    /\ idx \in [Pids -> 0..(USER_LIMIT - 1)]
    /\ events \in [Pids -> SUBSET {"conn", "pipe"}] /\ handling \in [Pids -> SUBSET {"conn", "pipe"}]
    /\ holders \in [Pids -> SUBSET (Pids \cup {Parent})]
    /\ \A p \in Pids : \A q \in {told, announced} : \A i \in DOMAIN q[p] : q[p][i] \in 0..(USER_LIMIT - 1)
    /\ block \in [0..(USER_LIMIT - 1) -> Pids \cup {Zero}]
    /\ heard \subseteq Pids \X Pids

Nobody == [pid |-> Zero, fd |-> 0]

\* users comes from fresh zero pages, sub_process is filled with -1.
Init ==
    /\ users = [i \in Slots |-> Nobody] /\ userCount = 0
    /\ subProcess = [p \in Pids \cup {Zero} |-> -1]
    /\ pipeAt = [fd \in Fds |-> Zero]
    /\ ready = {} /\ batch = {} /\ signals = {} /\ bytes = {}
    /\ terminate = FALSE /\ stopServer = FALSE /\ pc = "wait"
    /\ child = [p \in Pids |-> "none"] /\ idx = [p \in Pids |-> 0]
    /\ stopChild = {}
    /\ events = [p \in Pids |-> {}] /\ handling = [p \in Pids |-> {}]
    /\ holders = [p \in Pids |-> {}]
    /\ told = [p \in Pids |-> <<>>] /\ announced = [p \in Pids |-> <<>>]
    /\ unread = {} /\ closed = {} /\ backlog = 0 /\ sends = 0
    /\ block = [i \in 0..(USER_LIMIT - 1) |-> Zero] /\ heard = {}

----------------------------------------------------------------------------
(* Clients and the operator                                                *)

FreeFds == {fd \in Fds : pipeAt[fd] = Zero}

\* One at a time, and not beyond the bound on descriptors.
Connect ==
    /\ pc # "stopped" /\ backlog = 0 /\ Cardinality(FreeFds) > 2
    /\ backlog' = 1
    /\ ready' = ready \cup {Listen}
    /\ UNCHANGED <<tableVars, batch, signals, bytes, terminate, stopServer, pc,
                   childVars, holders, dataVars, closed, sends>>

ClientSends(p) ==
    /\ p \in Running \ closed /\ sends < MaxSends
    /\ sends' = sends + 1
    /\ unread' = unread \cup {p}
    /\ events' = [events EXCEPT ![p] = @ \cup {"conn"}]
    /\ UNCHANGED <<tableVars, loopVars, child, idx, stopChild, handling, holders,
                   told, announced, block, heard, backlog, closed>>

ClientCloses(p) ==
    /\ p \in Running \ closed
    /\ closed' = closed \cup {p}
    /\ events' = [events EXCEPT ![p] = @ \cup {"conn"}]
    /\ UNCHANGED <<tableVars, loopVars, child, idx, stopChild, handling, holders, dataVars, backlog, sends>>

\* SigHandler sends one byte; the operator asks until the server has heard it.
Terminate ==
    /\ pc # "stopped" /\ ~terminate /\ "TERM" \notin signals \cup bytes
    /\ signals' = signals \cup {"TERM"} /\ ready' = ready \cup {Signals}
    /\ UNCHANGED <<tableVars, batch, bytes, terminate, stopServer, pc,
                   childVars, holders, dataVars, clientVars>>

----------------------------------------------------------------------------
(* A child                                                                 *)

\* The children that lose the last copy of the other end of their pipe.
Hangs(held) == {q \in Running : holders[q] # {} /\ held[q] = {}}

\* It closes what the parent uses, and sets its own handler for SIGTERM.
ChildStarts(p) ==
    /\ child[p] = "born"
    /\ child' = [child EXCEPT ![p] = "wait"]
    /\ UNCHANGED <<tableVars, loopVars, idx, stopChild, events, handling, holders, dataVars, clientVars>>

ChildWaits(p) ==
    /\ child[p] = "wait" /\ events[p] # {}
    /\ child' = [child EXCEPT ![p] = "batch"]
    /\ handling' = [handling EXCEPT ![p] = events[p]]
    /\ events' = [events EXCEPT ![p] = {}]
    /\ UNCHANGED <<tableVars, loopVars, idx, stopChild, holders, dataVars, clientVars>>

\* The block is cleared, then the message is received into it and announced. With
\* nothing to receive the block stays empty; at the end of the stream the child
\* stops, but not if a message came with it: that is all the event is good for.
ChildConn(p) ==
    /\ child[p] = "batch" /\ "conn" \in handling[p]
    /\ handling' = [handling EXCEPT ![p] = @ \ {"conn"}]
    /\ block' = [block EXCEPT ![idx[p]] = IF p \in unread THEN p ELSE Zero]
    /\ unread' = unread \ {p}
    /\ IF p \in unread /\ holders[p] # {}
       THEN /\ announced' = [announced EXCEPT ![p] = Append(@, idx[p])]
            /\ ready' = ready \cup {fd \in Fds : pipeAt[fd] = p}
       ELSE UNCHANGED <<announced, ready>>
    /\ stopChild' = IF p \in closed \ unread THEN stopChild \cup {p} ELSE stopChild
    /\ UNCHANGED <<tableVars, batch, signals, bytes, terminate, stopServer, pc,
                   child, idx, events, holders, told, heard, clientVars>>

\* One number is read from the pipe and its block sent to the client.
ChildPipe(p) ==
    /\ child[p] = "batch" /\ "pipe" \in handling[p]
    /\ handling' = [handling EXCEPT ![p] = @ \ {"pipe"}]
    /\ IF told[p] # <<>>
       THEN /\ told' = [told EXCEPT ![p] = Tail(@)]
            /\ heard' = heard \cup ({<<block[Head(told[p])], p>>} \cap (Pids \X Pids))
            /\ UNCHANGED stopChild
       ELSE /\ stopChild' = IF holders[p] = {} THEN stopChild \cup {p} ELSE stopChild
            /\ UNCHANGED <<told, heard>>
    /\ UNCHANGED <<tableVars, loopVars, child, idx, events, holders, announced, unread, block, clientVars>>

\* The end of a batch; a child that stops closes everything and exits.
ChildLoops(p) ==
    /\ child[p] = "batch" /\ handling[p] = {}
    /\ IF p \notin stopChild
       THEN /\ child' = [child EXCEPT ![p] = "wait"]
            /\ UNCHANGED <<stopChild, events, holders, told, unread, closed, signals, ready>>
       ELSE /\ child' = [child EXCEPT ![p] = "zombie"]
            /\ stopChild' = stopChild \ {p}
            /\ holders' = [q \in Pids |-> holders[q] \ {p}]
            /\ events' = [q \in Pids |-> IF q = p THEN {}
                              ELSE IF q \in Hangs(holders') THEN events[q] \cup {"pipe"} ELSE events[q]]
            /\ told' = [told EXCEPT ![p] = <<>>]
            /\ unread' = unread \ {p} /\ closed' = closed \ {p}
            /\ signals' = signals \cup {"CHLD"} /\ ready' = ready \cup {Signals}
    /\ UNCHANGED <<tableVars, batch, bytes, terminate, stopServer, pc, idx, handling,
                   announced, block, heard, backlog, sends>>

ChildStep(p) ==
    ChildStarts(p) \/ ChildWaits(p) \/ ChildConn(p) \/ ChildPipe(p) \/ ChildLoops(p)

----------------------------------------------------------------------------
(* The parent                                                              *)

EpollWait ==
    /\ pc = "wait" /\ ready # {}
    /\ pc' = "batch" /\ batch' = ready /\ ready' = {}
    /\ UNCHANGED <<tableVars, signals, bytes, terminate, stopServer, childVars, holders, dataVars, clientVars>>

Handle(event) ==
    /\ pc = "batch" /\ bytes = {} /\ event \in batch
    /\ batch' = batch \ {event}
    /\ UNCHANGED <<pc, terminate, stopServer>>

Accept ==
    /\ Handle(Listen)
    /\ backlog = 1 /\ backlog' = 0
    /\ UNCHANGED <<signals, bytes, stopChild, handling, unread, block, closed, sends>>

Refuse ==
    /\ Accept
    /\ userCount >= USER_LIMIT
    /\ UNCHANGED <<tableVars, ready, child, idx, events, holders, told, announced, heard>>

\* accept and socketpair return the lowest descriptors; of the three the parent
\* keeps the second.
PipeFd == Min(FreeFds \ {Min(FreeFds)})

\* fork fails: the connection is closed, but not the pipe, which users has already.
ForkFails ==
    /\ Accept
    /\ userCount < USER_LIMIT
    /\ LET other == Min(FreeFds \ {PipeFd, Min(FreeFds)})
       IN  pipeAt' = [pipeAt EXCEPT ![PipeFd] = Leaked, ![other] = Leaked]
    /\ users' = [users EXCEPT ![userCount].fd = PipeFd]
    /\ UNCHANGED <<subProcess, userCount, ready, child, idx, events, holders, told, announced, heard>>

\* The child inherits the parent's end of every other pipe. (A pid names its pipe:
\* it is not given out again while the parent has the pipe open.)
Fork ==
    /\ Accept
    /\ userCount < USER_LIMIT
    /\ \E p \in Pids :
           /\ child[p] = "none" /\ \A fd \in Fds : pipeAt[fd] # p
           /\ child' = [child EXCEPT ![p] = "born"]
           /\ idx' = [idx EXCEPT ![p] = userCount]
           /\ pipeAt' = [pipeAt EXCEPT ![PipeFd] = p]
           /\ users' = [users EXCEPT ![userCount] = [pid |-> p, fd |-> PipeFd]]
           /\ subProcess' = [subProcess EXCEPT ![p] = userCount]
           /\ holders' = [q \in Pids |-> IF q = p THEN {Parent}
                              ELSE IF Parent \in holders[q] THEN holders[q] \cup {p} ELSE holders[q]]
           /\ told' = [told EXCEPT ![p] = <<>>] /\ announced' = [announced EXCEPT ![p] = <<>>]
           /\ events' = [events EXCEPT ![p] = {}]
           /\ heard' = {h \in heard : p \notin {h[1], h[2]}}
    /\ userCount' = userCount + 1
    /\ UNCHANGED ready

\* Mutant of Times: the first entry is never told.
TimesButFirst(fd, q) ==
    Cardinality({j \in 1..(userCount - 1) : users[j].fd \in Fds \ {fd} /\ pipeAt[users[j].fd] = q})

\* How often the loop over users finds the pipe of q, if q is not the one that sent.
Times(fd, q) ==
    Cardinality({j \in 0..(userCount - 1) : users[j].fd \in Fds \ {fd} /\ pipeAt[users[j].fd] = q})

\* One number is read from a child's pipe and sent to all others in users; an
\* entry that was never written has descriptor 0, which is no socket.
Forward(fd) ==
    /\ Handle(fd)
    /\ pipeAt[fd] \in Pids
    /\ announced[pipeAt[fd]] # <<>>
    /\ LET p == pipeAt[fd]
           n == Head(announced[p])
       IN  /\ announced' = [announced EXCEPT ![p] = Tail(@)]
           /\ told' = [q \in Pids |-> IF q \in Running THEN told[q] \o [k \in 1..Times(fd, q) |-> n] ELSE told[q]]
           /\ events' = [q \in Pids |-> IF q \in Running /\ Times(fd, q) > 0 THEN events[q] \cup {"pipe"} ELSE events[q]]
    /\ UNCHANGED <<tableVars, ready, signals, bytes, child, idx, stopChild, handling, holders,
                   unread, block, heard, clientVars>>

\* recv returns 0, EAGAIN, or EBADF for a pipe closed since epoll_wait.
ForwardNothing(fd) ==
    /\ Handle(fd)
    /\ pipeAt[fd] \in Pids => announced[pipeAt[fd]] = <<>>
    /\ UNCHANGED <<tableVars, ready, signals, bytes, childVars, holders, dataVars, clientVars>>

ReadSignals ==
    /\ Handle(Signals)
    /\ bytes' = signals /\ signals' = {}
    /\ UNCHANGED <<tableVars, ready, childVars, holders, dataVars, clientVars>>

\* Mutant of IsChild: the entry is removed only if it still is that of the child.
IsListed(p) == subProcess[p] >= 0 /\ users[subProcess[p]].pid = p

\* The test of del_user.
IsChild(p) == subProcess[p] >= 0

\* One round of the loop around waitpid: the entry behind the last replaces the
\* one of the child, and user_count goes down. (The close of descriptor 0, that of an
\* entry never written, is left out: the standard input is nobody's socket.)
Reap(p) ==
    /\ "CHLD" \in bytes /\ child[p] = "zombie"
    /\ child' = [child EXCEPT ![p] = "none"]
    /\ LET del == subProcess[p]
           fd == users[del].fd
           moved == users[userCount]
           gone == IF fd \in Fds THEN pipeAt[fd] ELSE Zero
       IN  IF ~IsChild(p)
           THEN UNCHANGED <<tableVars, ready, events, holders>>
           ELSE /\ users' = [users EXCEPT ![del] = moved]
                /\ userCount' = userCount - 1
                /\ subProcess' = [subProcess EXCEPT ![p] = -1, ![moved.pid] = del]
                /\ pipeAt' = [f \in Fds |-> IF f = fd THEN Zero ELSE pipeAt[f]]
                /\ ready' = ready \ {fd}
                /\ holders' = [q \in Pids |-> IF q = gone THEN holders[q] \ {Parent} ELSE holders[q]]
                /\ events' = [q \in Pids |-> IF q \in Hangs(holders') THEN events[q] \cup {"pipe"} ELSE events[q]]
    /\ UNCHANGED <<batch, signals, bytes, terminate, stopServer, pc, idx, stopChild, handling,
                   told, announced, unread, block, heard, clientVars>>

\* Mutant of ReapEnds: one child is waited for per signal.
ReapEndsEarly ==
    /\ "CHLD" \in bytes
    /\ bytes' = bytes \ {"CHLD"}
    /\ stopServer' = (stopServer \/ (terminate /\ userCount = 0))
    /\ UNCHANGED <<tableVars, ready, batch, signals, terminate, pc, childVars, holders, dataVars, clientVars>>

ReapEnds ==
    /\ "CHLD" \in bytes /\ \A p \in Pids : child[p] # "zombie"
    /\ bytes' = bytes \ {"CHLD"}
    /\ stopServer' = (stopServer \/ (terminate /\ userCount = 0))
    /\ UNCHANGED <<tableVars, ready, batch, signals, terminate, pc, childVars, holders, dataVars, clientVars>>

\* Without clients the server stops at once.
TermIdle ==
    /\ "TERM" \in bytes /\ userCount = 0
    /\ bytes' = bytes \ {"TERM"} /\ stopServer' = TRUE
    /\ UNCHANGED <<tableVars, ready, batch, signals, terminate, pc, childVars, holders, dataVars, clientVars>>

\* SIGTERM for every pid in users; pid 0 stands for all processes, the parent among
\* them. A child that has not set its handler yet passes the signal to the parent or
\* loses it; one that is about to wait notices it, or does not until it has an event.
TermAll ==
    LET pids == {users[i].pid : i \in 0..(userCount - 1)}
        killed == IF Zero \in pids THEN Running ELSE pids \cap Running
        reached == {p \in killed : child[p] # "born"}
    IN
    /\ "TERM" \in bytes /\ userCount > 0
    /\ bytes' = bytes \ {"TERM"} /\ terminate' = TRUE
    /\ \E again \in {Zero \in pids} \cup {killed # reached \/ Zero \in pids} :
           IF again THEN signals' = signals \cup {"TERM"} /\ ready' = ready \cup {Signals}
           ELSE UNCHANGED <<signals, ready>>
    /\ stopChild' = stopChild \cup reached
    /\ \E woken \in SUBSET {p \in reached : child[p] = "wait"} :
           child' = [p \in Pids |-> IF p \in woken THEN "batch" ELSE child[p]]
    /\ UNCHANGED <<tableVars, batch, stopServer, pc, idx, events, handling, holders, dataVars, clientVars>>

EndOfBatch ==
    /\ pc = "batch" /\ batch = {} /\ bytes = {}
    /\ pc' = IF stopServer THEN "stopped" ELSE "wait"
    /\ UNCHANGED <<tableVars, ready, batch, signals, bytes, terminate, stopServer,
                   childVars, holders, dataVars, clientVars>>

ParentStep ==
    \/ EpollWait \/ Refuse \/ ForkFails \/ Fork
    \/ \E fd \in Fds : Forward(fd) \/ ForwardNothing(fd)
    \/ ReadSignals \/ (\E p \in Pids : Reap(p)) \/ ReapEnds \/ TermIdle \/ TermAll
    \/ EndOfBatch

Next ==
    \/ Connect \/ Terminate
    \/ \E p \in Pids : ClientSends(p) \/ ClientCloses(p) \/ (pc # "stopped" /\ ChildStep(p))
    \/ ParentStep

Spec == Init /\ [][Next]_chatVars

\* Every process runs; clients and the operator owe nothing.
FairSpec == Spec /\ WF_chatVars(ParentStep) /\ \A p \in Pids : WF_chatVars(ChildStep(p))

----------------------------------------------------------------------------
(* Properties                                                              *)

\* Although departures leave stale and doubled entries in users, user_count is the
\* number of children that have not been waited for: the server neither refuses
\* clients it has room for nor waits for children it does not have.
CountIsChildren == userCount = Cardinality(Children)

\* A server that is to terminate stops after its last child, however the signals of
\* the children fall together: the dead are announced, what is in the pipe is seen,
\* and when all are waited for the loop is to end.
LastChildStopsServer ==
    /\ (\E p \in Pids : child[p] = "zombie") => "CHLD" \in signals \cup bytes
    /\ signals # {} => Signals \in ready \cup batch
    /\ terminate /\ Children = {} /\ bytes = {} => stopServer

\* The comment on the departure of a client, "the content of client 3 is put in
\* client 1's place": the first user_count entries are those of the children.
\* (Not so: the place behind the last is copied.)
EveryChildIsListed == Children \subseteq {users[i].pid : i \in 0..(userCount - 1)}

\* The only message under way is sent to every other client that is in users, as long
\* as the two stay.
MessageIsHeard(p, q) ==
    (p \in unread /\ q \in Running \ {p}) ~>
        \/ <<p, q>> \in heard
        \/ \E r \in {p, q} : r \in closed \cup stopChild \/ r \notin Running
        \/ ~EveryChildIsListed \/ pc = "stopped"

LoneMessageIsHeard == \A p, q \in Pids : MessageIsHeard(p, q)
=============================================================================
