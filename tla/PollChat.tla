------------------------------ MODULE PollChat -------------------------------
(***************************************************************************)
(* The chat server of src/linux_server/9-6_chat_server.cc: one loop around *)
(* poll, an array of poll entries from which a departed client is removed  *)
(* by moving the last entry to its place, and a write pointer per client   *)
(* that leads to the buffer of whoever spoke last. The entry of the        *)
(* listening socket, fds[0], is not in the sequence of the model.          *)
(***************************************************************************)
EXTENDS Integers, Sequences, FiniteSets

CONSTANTS
    Conns,      \* descriptors of connections; accept returns the lowest free one
    None,       \* the null pointer
    UserLimit,  \* USER_LIMIT
    MaxUnread   \* bound: pieces of 63 bytes waiting in one socket

ASSUME ConnsAssumption == Conns \subseteq Nat /\ IsFiniteSet(Conns) /\ None \notin Conns
ASSUME UserLimitAssumption == UserLimit \in Nat \ {0} /\ UserLimit <= Cardinality(Conns)
ASSUME MaxUnreadAssumption == MaxUnread \in Nat \ {0}

VARIABLES
    waiting,    \* clients in the listen queue
    listenIn,   \* revents of fds[0]
    fds,        \* the entries 1..user_counter: fd, whether POLLOUT is asked for, revents
    writeBuf,   \* users[fd].write_buf: the descriptor whose buf it points to
    pending,    \* what waits in each connection
    left,       \* connections whose client has closed
    broken,     \* connections with an error to be fetched
    i,          \* the index of the loop
    inLoop      \* FALSE in poll

kernelVars == <<waiting, pending, left, broken>>
pollVars == <<fds, listenIn, writeBuf, kernelVars, i, inLoop>>

Entries == [fd : Conns, out : BOOLEAN, revents : SUBSET {"IN", "OUT", "RDHUP", "ERR"}]

Open == {fds[k].fd : k \in DOMAIN fds}

TypeOK ==
    /\ waiting \in 0..1 /\ listenIn \in BOOLEAN
    /\ fds \in Seq(Entries)
    /\ writeBuf \in [Conns -> Conns \cup {None}]
    /\ pending \in [Conns -> 0..MaxUnread]
    /\ left \subseteq Conns /\ broken \subseteq left
    /\ i \in 0..(UserLimit + 1) /\ inLoop \in BOOLEAN

Init ==
    /\ waiting = 0 /\ listenIn = FALSE /\ fds = <<>>
    /\ writeBuf = [c \in Conns |-> None] /\ pending = [c \in Conns |-> 0]
    /\ left = {} /\ broken = {} /\ i = 0 /\ inLoop = FALSE

----------------------------------------------------------------------------
(* Clients                                                                 *)

Arrive ==
    /\ waiting = 0 /\ waiting' = 1
    /\ UNCHANGED <<fds, listenIn, writeBuf, pending, left, broken, i, inLoop>>

Speak(c) ==
    /\ c \in Open \ left /\ pending[c] < MaxUnread
    /\ pending' = [pending EXCEPT ![c] = @ + 1]
    /\ UNCHANGED <<fds, listenIn, writeBuf, waiting, left, broken, i, inLoop>>

\* In good order, or with a reset that discards what was waiting.
Leave(c) ==
    /\ c \in Open \ left
    /\ left' = left \cup {c}
    /\ \/ UNCHANGED <<pending, broken>>
       \/ pending' = [pending EXCEPT ![c] = 0] /\ broken' = broken \cup {c}
    /\ UNCHANGED <<fds, listenIn, writeBuf, waiting, i, inLoop>>

----------------------------------------------------------------------------
(* The server                                                              *)

Revents(e) ==
    {x \in {"IN", "OUT", "RDHUP", "ERR"} :
        \/ x = "IN" /\ (pending[e.fd] > 0 \/ e.fd \in left)
        \/ x = "OUT" /\ e.out
        \/ x = "RDHUP" /\ e.fd \in left
        \/ x = "ERR" /\ e.fd \in broken}

Poll ==
    /\ ~inLoop
    /\ waiting > 0 \/ \E k \in DOMAIN fds : Revents(fds[k]) # {}
    /\ fds' = [k \in DOMAIN fds |-> [fds[k] EXCEPT !.revents = Revents(fds[k])]]
    /\ inLoop' = TRUE /\ i' = 0 /\ listenIn' = (waiting > 0)
    /\ UNCHANGED <<writeBuf, kernelVars>>

NextEntry == i' = i + 1 /\ UNCHANGED <<inLoop, listenIn>>

\* fds[0]: a client is accepted, or refused and closed when there are too many.
Accept ==
    /\ inLoop /\ i = 0 /\ i' = 1 /\ UNCHANGED inLoop
    /\ listenIn' = FALSE
    /\ waiting' = IF listenIn THEN 0 ELSE waiting
    /\ IF listenIn /\ Len(fds) < UserLimit
       THEN \E c \in Conns \ Open :
              /\ \A d \in Conns \ Open : c <= d
              /\ fds' = Append(fds, [fd |-> c, out |-> FALSE, revents |-> {}])
       ELSE UNCHANGED fds
    /\ UNCHANGED <<writeBuf, pending, left, broken>>

\* An entry that says x, and nothing that is looked at earlier.
Says(x) ==
    /\ inLoop /\ i \in DOMAIN fds
    /\ x \in fds[i].revents
    /\ x # "ERR" => "ERR" \notin fds[i].revents
    /\ x \in {"IN", "OUT"} => "RDHUP" \notin fds[i].revents
    /\ x = "OUT" => "IN" \notin fds[i].revents

\* Mutant of EntryError: the error stays.
EntryErrorStays ==
    /\ Says("ERR") /\ NextEntry
    /\ UNCHANGED <<fds, writeBuf, kernelVars>>

\* getsockopt clears the error; the hangup is seen by the next poll.
EntryError ==
    /\ Says("ERR") /\ NextEntry
    /\ broken' = broken \ {fds[i].fd}
    /\ UNCHANGED <<fds, writeBuf, waiting, pending, left>>

\* Mutant of RemoveEntry: the last entry goes, but is not moved.
RemoveEntryShortens ==
    LET c == fds[i].fd
        last == fds[Len(fds)]
    IN  /\ fds' = SubSeq(fds, 1, Len(fds) - 1)
        /\ writeBuf' = [writeBuf EXCEPT ![c] = writeBuf[last.fd]]
        /\ pending' = [pending EXCEPT ![c] = 0]
        /\ left' = left \ {c} /\ broken' = broken \ {c}
        /\ UNCHANGED <<waiting, listenIn, i, inLoop>>

\* The last entry moves here, its revents with it, and is looked at next; the user
\* data of the last client is copied over that of the one that left.
RemoveEntry ==
    LET c == fds[i].fd
        last == fds[Len(fds)]
    IN  /\ fds' = SubSeq([fds EXCEPT ![i] = last], 1, Len(fds) - 1)
        /\ writeBuf' = [writeBuf EXCEPT ![c] = writeBuf[last.fd]]
        /\ pending' = [pending EXCEPT ![c] = 0]
        /\ left' = left \ {c} /\ broken' = broken \ {c}
        /\ UNCHANGED <<waiting, listenIn, i, inLoop>>

EntryLeft == Says("RDHUP") /\ RemoveEntry

\* A reset since poll: recv fails.
EntryFails == Says("IN") /\ fds[i].fd \in broken /\ RemoveEntry

\* One recv; all others are to be sent what is in the buffer.
EntryReads ==
    LET c == fds[i].fd IN
    /\ Says("IN") /\ c \notin broken /\ NextEntry
    /\ IF pending[c] > 0
       THEN /\ fds' = [k \in DOMAIN fds |-> IF k = i THEN fds[k] ELSE [fds[k] EXCEPT !.out = TRUE]]
            /\ writeBuf' = [d \in Conns |-> IF d \in Open \ {c} THEN c ELSE writeBuf[d]]
            /\ pending' = [pending EXCEPT ![c] = @ - 1]
       ELSE UNCHANGED <<fds, writeBuf, pending>>
    /\ UNCHANGED <<waiting, left, broken>>

\* Mutant of EntryWrites: the write pointer is not reset.
EntryWritesAgain ==
    /\ Says("OUT") /\ NextEntry
    /\ UNCHANGED <<fds, writeBuf, kernelVars>>

\* events |= ~POLLOUT leaves POLLOUT asked for.
EntryWrites ==
    /\ Says("OUT") /\ NextEntry
    /\ writeBuf' = [writeBuf EXCEPT ![fds[i].fd] = None]
    /\ UNCHANGED <<fds, kernelVars>>

EntryQuiet ==
    /\ inLoop /\ i \in DOMAIN fds /\ fds[i].revents = {} /\ NextEntry
    /\ UNCHANGED <<fds, writeBuf, kernelVars>>

LoopEnds ==
    /\ inLoop /\ i > Len(fds)
    /\ inLoop' = FALSE /\ i' = 0
    /\ UNCHANGED <<fds, listenIn, writeBuf, kernelVars>>

ServerStep ==
    \/ Poll \/ Accept \/ EntryError \/ EntryLeft \/ EntryFails \/ EntryReads \/ EntryWrites
    \/ EntryQuiet \/ LoopEnds

Next == Arrive \/ (\E c \in Conns : Speak(c) \/ Leave(c)) \/ ServerStep

Spec == Init /\ [][Next]_pollVars

\* The server runs; clients owe nothing.
FairSpec == Spec /\ WF_pollVars(ServerStep)

----------------------------------------------------------------------------
(* Properties                                                              *)

\* No connection is in the array twice, none is dropped from it while it is open, and
\* nothing of a connection that was closed is left for the next one with its number.
ArrayIsSound ==
    /\ Len(fds) <= UserLimit
    /\ \A j, k \in DOMAIN fds : fds[j].fd = fds[k].fd => j = k
    /\ \A c \in Conns \ Open : pending[c] = 0 /\ c \notin left

\* A client that has left is removed, whatever it or the others were doing.
DepartedAreRemoved == \A c \in Conns : c \in left ~> c \notin left

\* What a client is to be sent is sent, unless it goes on talking: reading comes first.
TurnsToWrite ==
    \A c \in Conns : (c \in Open /\ writeBuf[c] # None /\ \E k \in DOMAIN fds : fds[k].fd = c /\ fds[k].out)
                         ~> (writeBuf[c] = None \/ pending[c] > 0 \/ c \notin Open \ left)
=============================================================================
