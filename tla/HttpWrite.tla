------------------------------ MODULE HttpWrite ------------------------------
(***************************************************************************)
(* How HttpConn (src/linux_server/15-6_http_conn.cc) sends a reply:        *)
(* DoRequest maps the document, ProcessWrite fills the write buffer and the*)
(* io vector, Write hands the vector to writev until it believes the reply *)
(* has gone out, and Unmap gives the document back. The HttpConn object    *)
(* outlives its connection: the next client on the same descriptor gets it.*)
(*                                                                         *)
(* A byte of a reply is its offset in the reply, so what the client has    *)
(* received is a sequence of offsets. Parsing is HttpParser's subject; here*)
(* a request is only the kind of reply it leads to.                        *)
(***************************************************************************)
EXTENDS Integers, Sequences, SequencesExt

CONSTANTS
    Heads,          \* lengths of what ProcessWrite puts into m_write_buf
    Documents,      \* sizes of the files clients ask for
    MaxReceived,    \* bound: bytes of one reply a client receives
    MaxMappings     \* bound: mappings alive at once

ASSUME SizesAssumption == Heads \subseteq Nat \ {0} /\ Documents \subseteq Nat
ASSUME BoundsAssumption == MaxReceived \in Nat /\ MaxMappings \in Nat

VARIABLES
    pc,         \* "idle": EPOLLIN armed, "armed": EPOLLOUT armed, "writing": in
                \* the loop of Write, "closed": no connection
    head,       \* m_write_idx, the length of m_iv[0]
    body,       \* the length of m_iv[1], or 0 when m_iv_count is 1
    linger,     \* m_linger
    toSend,     \* bytes_to_send of the running Write
    haveSent,   \* bytes_have_send of the running Write
    reply,      \* the bytes of the reply, as ProcessWrite left it
    received,   \* what the client has received of it
    outcome,    \* "none", or "sent" when Write took the reply for sent
    address,    \* m_file_address: 0, -1 (MAP_FAILED) or the size mapped there
    statSize,   \* m_file_stat.st_size
    partial,    \* a writev of this reply took less than it was given
    left,       \* a client has hung up while its document was pending
    live,       \* how many mappings the process holds
    unmapped    \* what the last munmap was given: <<size mapped, length>>

replyVars == <<head, body, linger, reply, received, outcome, partial>>
loopVars == <<toSend, haveSent>>
docVars == <<address, statSize, live, unmapped>>
vars == <<pc, replyVars, loopVars, docVars, left>>

Bytes(n) == [i \in 1..n |-> i - 1]
Sizes == Documents \cup {0}

TypeOK ==
    /\ pc \in {"idle", "armed", "writing", "closed"}
    /\ head \in Heads \cup {0} /\ body \in Sizes
    /\ linger \in BOOLEAN
    /\ toSend \in Int /\ haveSent \in Nat
    /\ reply \in Seq(Nat) /\ received \in Seq(Nat) /\ outcome \in {"none", "sent"}
    /\ address \in Sizes \cup {-1} /\ statSize \in Sizes
    /\ partial \in BOOLEAN /\ left \in BOOLEAN
    /\ live \in 0..MaxMappings
    /\ unmapped \in (Sizes \cup {-1}) \X Sizes

Init ==
    /\ pc = "idle" /\ head = 0 /\ body = 0 /\ linger = FALSE
    /\ toSend = 0 /\ haveSent = 0 /\ reply = <<>> /\ received = <<>> /\ outcome = "none"
    /\ address = 0 /\ statSize = 0 /\ live = 0 /\ unmapped = <<0, 0>>
    /\ partial = FALSE /\ left = FALSE

----------------------------------------------------------------------------
(* Process: the reply is prepared                                          *)

\* A complete request with or without keep-alive; EPOLLOUT is armed at the end.
Prepare(n, m) ==
    /\ pc = "idle"
    /\ linger' \in BOOLEAN
    /\ head' = n /\ body' = m
    /\ pc' = "armed"
    /\ reply' = Bytes(n + m) /\ received' = <<>> /\ outcome' = "none"
    /\ partial' = FALSE
    /\ UNCHANGED <<loopVars, unmapped, left>>

\* DoRequest finds a document; mmap's result replaces m_file_address.
ReplyFile(n, size) ==
    /\ Prepare(n, size)
    /\ size > 0 /\ live < MaxMappings
    /\ statSize' = size /\ address' = size /\ live' = live + 1

\* An empty document: mmap fails, ProcessWrite falls through to its default
\* and the connection is closed.
ReplyEmptyFile ==
    /\ pc = "idle" /\ 0 \in Documents
    /\ statSize' = 0 /\ address' = -1
    /\ pc' = "closed"
    /\ UNCHANGED <<replyVars, loopVars, live, unmapped, left>>

\* An error page; stat has filled m_file_stat unless the file does not exist
\* or the request was malformed.
ReplyError(n) ==
    /\ Prepare(n, 0)
    /\ statSize' \in Documents \cup {statSize}
    /\ UNCHANGED <<address, live>>

----------------------------------------------------------------------------
(* Write                                                                   *)

\* Unmap: a null m_file_address is left alone, munmap of MAP_FAILED fails.
Unmap ==
    IF address = 0 THEN UNCHANGED <<address, live, unmapped>>
    ELSE /\ address' = 0
         /\ live' = IF address > 0 THEN live - 1 ELSE live
         /\ unmapped' = <<address, statSize>>

\* Init(): the connection starts over with an empty write buffer.
Reset == head' = 0 /\ linger' = FALSE

StartWrite ==
    /\ pc = "armed" /\ head # 0
    /\ toSend' = head /\ haveSent' = 0
    /\ pc' = "writing"
    /\ UNCHANGED <<replyVars, docVars, left>>

\* writev takes n bytes from the front of the vector, which nobody advances.
Writev(n) ==
    /\ pc = "writing"
    /\ Len(received) + n <= MaxReceived
    /\ received' = received \o SubSeq(reply, 1, n)
    /\ toSend' = toSend - n
    /\ haveSent' = haveSent + n
    /\ partial' = (partial \/ n < Len(reply))
    /\ UNCHANGED <<body, reply, statSize, left>>

\* What is left is more than what was sent: the loop goes on.
GoesOn == toSend' > haveSent'

WritevMore(n) ==
    /\ Writev(n)
    /\ GoesOn
    /\ UNCHANGED <<pc, head, linger, outcome, address, live, unmapped>>

\* The reply is taken for sent; without keep-alive main closes the connection.
WritevLast(n) ==
    /\ Writev(n)
    /\ ~GoesOn
    /\ outcome' = "sent"
    /\ Unmap
    /\ IF linger THEN Reset /\ pc' = "idle"
       ELSE UNCHANGED <<head, linger>> /\ pc' = "closed"

\* Mutant of WritevAgain: EAGAIN unmaps like every other error.
WritevAgainUnmaps ==
    /\ pc = "writing"
    /\ Unmap
    /\ pc' = "armed"
    /\ UNCHANGED <<replyVars, loopVars, statSize, left>>

\* EAGAIN: EPOLLOUT is armed again and Write starts over later.
WritevAgain ==
    /\ pc = "writing"
    /\ pc' = "armed"
    /\ UNCHANGED <<replyVars, loopVars, docVars, left>>

\* Another error: Write gives the mapping back and main closes the connection.
WritevFails ==
    /\ pc = "writing"
    /\ Unmap
    /\ pc' = "closed"
    /\ UNCHANGED <<replyVars, loopVars, statSize, left>>

----------------------------------------------------------------------------
(* The connection ends and the object gets a new one                       *)

\* CloseConn called by main for a client that has hung up.
HangUp ==
    /\ pc \in {"idle", "armed"}
    /\ pc' = "closed"
    /\ left' = (left \/ (pc = "armed" /\ body > 0))
    /\ UNCHANGED <<replyVars, loopVars, docVars>>

\* Init(sockfd, addr) of the next client: no member of the mapping is touched.
NewConnection ==
    /\ pc = "closed"
    /\ Reset
    /\ pc' = "idle"
    /\ reply' = <<>> /\ received' = <<>> /\ outcome' = "none"
    /\ UNCHANGED <<body, partial, loopVars, docVars, left>>

Next ==
    \/ \E n \in Heads, size \in Documents : ReplyFile(n, size)
    \/ \E n \in Heads : ReplyError(n)
    \/ ReplyEmptyFile
    \/ StartWrite
    \/ \E n \in 1..(head + body) : WritevMore(n) \/ WritevLast(n)
    \/ WritevAgain \/ WritevFails
    \/ HangUp \/ NewConnection

Spec == Init /\ [][Next]_vars

----------------------------------------------------------------------------

\* While a reply is pending its document is mapped, whole, and it is the one
\* the headers announced: writev never reads memory Unmap has given back.
PendingFileIsMapped ==
    pc \in {"armed", "writing"} /\ body > 0 => address = body /\ statSize = body

\* The mapping of a reply ends with the reply, unless a client left before it:
\* between two replies and between two clients the process holds none, it never
\* holds two, and Unmap gives back exactly what DoRequest mapped (a failed mmap is
\* not a mapping).
MappingsBalanced == ~left =>
    /\ live = IF address > 0 THEN 1 ELSE 0
    /\ pc \in {"idle", "closed"} => live = 0
    /\ unmapped[1] > 0 => unmapped[2] = unmapped[1]

\* When writev takes what it is given, what Write takes for sent has arrived,
\* whole and once.
WholeWriteSends == outcome = "sent" /\ ~partial => received = reply

\* What can be relied on, in one property: the document that is sent is mapped, the
\* mappings are balanced, and whole writes send the reply.
RepliesAreRight == PendingFileIsMapped /\ MappingsBalanced /\ WholeWriteSends

----------------------------------------------------------------------------
(* What the comments say and the code does not do                          *)

\* Line 335: a reply that Write takes for sent has been sent.
SentMeansSent == outcome = "sent" => received = reply
=============================================================================
