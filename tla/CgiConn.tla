------------------------------- MODULE CgiConn -------------------------------
(***************************************************************************)
(* CgiConn of src/linux_server/15-4_processpool_CGI.cc: a connection of a  *)
(* child of the process pool. Process reads until nothing is left, looks   *)
(* for the first CRLF in what came last, and runs the program that the     *)
(* text before it names. Its descriptor is edge-triggered.                 *)
(***************************************************************************)
EXTENDS Integers, Sequences, SequencesExt

CONSTANTS
    Letters,      \* "CR", "LF" and letters of names
    BUFFER_SIZE,
    MaxSent,      \* bound: what a client sends
    Nothing       \* no program was run

VARIABLES
    buf,          \* m_buf up to m_read_idx
    unread,       \* what waits in the socket
    hungUp,       \* the client has closed its end
    event,        \* epoll has an event for the descriptor
    cgiPc,        \* "wait", "recv" in the loop of Process, or "closed"
    program,      \* what was handed to access
    sent          \* all the client has sent

cgiVars == <<buf, unread, hungUp, event, cgiPc, program, sent>>

TypeOK ==
    /\ \A s \in {buf, unread, sent} : s \in Seq(Letters)
    /\ Len(buf) < BUFFER_SIZE
    /\ hungUp \in BOOLEAN /\ event \in BOOLEAN
    /\ cgiPc \in {"wait", "recv", "closed"}

Init ==
    /\ buf = <<>> /\ unread = <<>> /\ sent = <<>> /\ hungUp = FALSE /\ event = FALSE
    /\ cgiPc = "wait" /\ program = Nothing

Send(letter) ==
    /\ cgiPc # "closed" /\ ~hungUp /\ Len(sent) < MaxSent
    /\ unread' = Append(unread, letter) /\ sent' = Append(sent, letter)
    /\ event' = TRUE
    /\ UNCHANGED <<buf, hungUp, cgiPc, program>>

HangUp ==
    /\ cgiPc # "closed" /\ ~hungUp
    /\ hungUp' = TRUE /\ event' = TRUE
    /\ UNCHANGED <<buf, unread, cgiPc, program, sent>>

\* RunChild calls Process for the event.
Process ==
    /\ cgiPc = "wait" /\ event
    /\ cgiPc' = "recv" /\ event' = FALSE
    /\ UNCHANGED <<buf, unread, hungUp, program, sent>>

Room == BUFFER_SIZE - 1 - Len(buf)
Taken == SubSeq(unread, 1, IF Len(unread) < Room THEN Len(unread) ELSE Room)

\* Mutant of LineEnds: the byte before what came last is not looked at.
LineEndsInside(b, from) == {k \in (from + 1)..Len(b) : k >= from + 2 /\ b[k - 1] = "CR" /\ b[k] = "LF"}

\* The places of an LF behind a CR among what came last, the CR maybe before it.
LineEnds(b, from) == {k \in (from + 1)..Len(b) : k >= 2 /\ b[k - 1] = "CR" /\ b[k] = "LF"}

\* A turn of the loop that receives something and finds no end of a line.
RecvMore ==
    /\ cgiPc = "recv" /\ Taken # <<>>
    /\ LineEnds(buf \o Taken, Len(buf)) = {}
    /\ buf' = buf \o Taken
    /\ unread' = SubSeq(unread, Len(Taken) + 1, Len(unread))
    /\ UNCHANGED <<hungUp, event, cgiPc, program, sent>>

\* The file does not exist, or fork fails, or the child of fork runs it: in any case
\* this process is done with the connection.
RecvLine ==
    LET b == buf \o Taken
        ends == LineEnds(b, Len(buf))
    IN
    /\ cgiPc = "recv" /\ ends # {}
    /\ program' = SubSeq(b, 1, (CHOOSE k \in ends : \A j \in ends : k <= j) - 2)
    /\ buf' = b
    /\ unread' = SubSeq(unread, Len(Taken) + 1, Len(unread))
    /\ cgiPc' = "closed"
    /\ UNCHANGED <<hungUp, event, sent>>

\* EAGAIN leaves the connection to the next event.
RecvAgain ==
    /\ cgiPc = "recv" /\ unread = <<>> /\ Room > 0 /\ ~hungUp
    /\ cgiPc' = "wait"
    /\ UNCHANGED <<buf, unread, hungUp, event, program, sent>>

\* The client has closed, or there is no room for a byte and recv returns 0.
RecvZero ==
    /\ cgiPc = "recv" /\ Taken = <<>>
    /\ Room = 0 \/ hungUp
    /\ cgiPc' = "closed"
    /\ UNCHANGED <<buf, unread, hungUp, event, program, sent>>

Next ==
    \/ \E letter \in Letters : Send(letter)
    \/ HangUp \/ Process \/ RecvMore \/ RecvLine \/ RecvAgain \/ RecvZero

Spec == Init /\ [][Next]_cgiVars

----------------------------------------------------------------------------
(* Properties                                                              *)

\* However the name is cut into pieces: what is run is the text before the first CRLF
\* of the stream, a connection that waits without an event has received everything and
\* no line is complete, and one that was closed without a program had none to run.
FirstLineIsRun ==
    LET ends == LineEnds(sent, 0)
        Names == {SubSeq(sent, 1, k - 2) : k \in {e \in ends : \A j \in ends : e <= j}}
    IN
    /\ program # Nothing => program \in Names
    /\ cgiPc = "wait" /\ ~event => ends = {} /\ buf = sent
    /\ cgiPc = "closed" /\ program = Nothing => ends = {} \/ \A k \in ends : k >= BUFFER_SIZE
=============================================================================
