---------------------------- MODULE TriggerModes -----------------------------
(***************************************************************************)
(* The server of src/linux_server/9-3_epoll.cc, which shows the two        *)
(* trigger modes of epoll: LT receives once per event and is told again    *)
(* while something is left; ET is told once and has to receive until       *)
(* nothing is left. main calls ET; the call of LT is commented out. The    *)
(* listening socket is edge-triggered in either case.                      *)
(***************************************************************************)
EXTENDS Integers, FiniteSets, FiniteSetsExt

CONSTANTS
    Conns,      \* descriptors of connections; accept returns the lowest free one
    MaxUnread   \* bound: pieces of nine bytes waiting in one socket

Listen == 0     \* listenfd

VARIABLES
    mode,       \* "LT" or "ET"
    open,       \* connections
    backlog,    \* clients in the listen queue
    unread,     \* pieces waiting in each connection
    hung,       \* connections whose client has closed its end
    edge,       \* the descriptors something new has come to since they were reported
    batch,      \* the events not handled yet
    current,    \* the connection in ET's inner loop, or Listen
    inLoop      \* FALSE in epoll_wait

triggerVars == <<mode, open, backlog, unread, hung, edge, batch, current, inLoop>>

TypeOK ==
    /\ mode \in {"LT", "ET"}
    /\ open \subseteq Conns /\ hung \subseteq open
    /\ backlog \in 0..Cardinality(Conns)
    /\ unread \in [Conns -> 0..MaxUnread]
    /\ edge \cup batch \cup {current} \subseteq Conns \cup {Listen}
    /\ inLoop \in BOOLEAN

Init ==
    /\ mode \in {"LT", "ET"}
    /\ open = {} /\ backlog = 0 /\ unread = [c \in Conns |-> 0] /\ hung = {}
    /\ edge = {} /\ batch = {} /\ current = Listen /\ inLoop = FALSE

----------------------------------------------------------------------------
(* Clients                                                                 *)

Connect ==
    /\ Cardinality(open) + backlog < Cardinality(Conns)
    /\ backlog' = backlog + 1 /\ edge' = edge \cup {Listen}
    /\ UNCHANGED <<mode, open, unread, hung, batch, current, inLoop>>

Send(c) ==
    /\ c \in open \ hung /\ unread[c] < MaxUnread
    /\ unread' = [unread EXCEPT ![c] = @ + 1] /\ edge' = edge \cup {c}
    /\ UNCHANGED <<mode, open, backlog, hung, batch, current, inLoop>>

HangUp(c) ==
    /\ c \in open \ hung
    /\ hung' = hung \cup {c} /\ edge' = edge \cup {c}
    /\ UNCHANGED <<mode, open, backlog, unread, batch, current, inLoop>>

----------------------------------------------------------------------------
(* The server                                                              *)

\* What Addfd asks for: a level, or an edge.
Reported ==
    (edge \cap {Listen}) \cup
        IF mode = "ET" THEN edge ELSE {c \in open : unread[c] > 0 \/ c \in hung}

EpollWait ==
    /\ ~inLoop /\ Reported # {}
    /\ inLoop' = TRUE /\ batch' = Reported /\ edge' = {}
    /\ UNCHANGED <<mode, open, backlog, unread, hung, current>>

Handle(fd) ==
    /\ inLoop /\ current = Listen /\ fd \in batch
    /\ batch' = batch \ {fd}
    /\ UNCHANGED <<mode, inLoop>>

\* One client per event; those that came together with it stay in the queue.
Accept ==
    /\ Handle(Listen)
    /\ backlog' = backlog - 1
    /\ open' = open \cup {Min(Conns \ open)}
    /\ UNCHANGED <<unread, hung, edge, current>>

Take(c) == unread[c] > 0 /\ unread' = [unread EXCEPT ![c] = @ - 1]

Close(c) ==
    /\ unread[c] = 0 /\ c \in hung
    /\ open' = open \ {c} /\ hung' = hung \ {c} /\ edge' = edge \ {c}

\* LT: one recv; its result 0 closes the connection.
ReceiveOnce(c) ==
    /\ mode = "LT" /\ Handle(c)
    /\ UNCHANGED <<backlog, current>>
    /\ \/ Take(c) /\ UNCHANGED <<open, hung, edge>>
       \/ Close(c) /\ UNCHANGED unread

Enter(c) ==
    /\ mode = "ET" /\ Handle(c)
    /\ current' = c
    /\ UNCHANGED <<open, backlog, unread, hung, edge>>

\* Mutant of Receive: one recv per event.
ReceiveAndLeave ==
    /\ current # Listen
    /\ Take(current) /\ current' = Listen
    /\ UNCHANGED <<mode, open, backlog, hung, edge, batch, inLoop>>

Receive ==
    /\ current # Listen
    /\ Take(current)
    /\ UNCHANGED <<mode, open, backlog, hung, edge, batch, current, inLoop>>

\* EAGAIN.
ReceiveAgain ==
    /\ current # Listen /\ unread[current] = 0 /\ current \notin hung
    /\ current' = Listen
    /\ UNCHANGED <<mode, open, backlog, unread, hung, edge, batch, inLoop>>

\* recv returns 0: the loop goes on, to a recv and a close that fail with EBADF.
ReceiveZero ==
    /\ current # Listen
    /\ Close(current) /\ current' = Listen
    /\ UNCHANGED <<mode, backlog, unread, batch, inLoop>>

EndOfBatch ==
    /\ inLoop /\ batch = {} /\ current = Listen
    /\ inLoop' = FALSE
    /\ UNCHANGED <<mode, open, backlog, unread, hung, edge, batch, current>>

Next ==
    \/ Connect \/ EpollWait \/ Accept \/ Receive \/ ReceiveAgain \/ ReceiveZero \/ EndOfBatch
    \/ \E c \in Conns : Send(c) \/ HangUp(c) \/ ReceiveOnce(c) \/ Enter(c)

Spec == Init /\ [][Next]_triggerVars

----------------------------------------------------------------------------
(* Properties                                                              *)

\* The comment on ET, "so it has to read in a loop, to be sure that everything is
\* read": whatever comes in while it reads, a connection that is neither reported nor
\* about to be is read to its end, and one that the client has closed is closed.
NothingLeftBehind ==
    \A c \in open \ (Reported \cup batch \cup {current}) : unread[c] = 0 /\ c \notin hung
=============================================================================
