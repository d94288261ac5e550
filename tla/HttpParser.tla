----------------------------- MODULE HttpParser ------------------------------
(***************************************************************************)
(* How HttpConn (src/linux_server/15-6_http_conn.cc) reads a request: Read *)
(* appends what has arrived to m_read_buf, Process runs ProcessRead over   *)
(* it, and a request that is not complete waits for the next Read. The     *)
(* network may cut the bytes anywhere.                                     *)
(*                                                                         *)
(* A byte that matters is a symbol: CR, LF, and for the text of a line one *)
(* symbol: "get" a request line ParseRequestLine accepts, "keep" the header*)
(* Connection: keep-alive, "len" a Content-Length header, "x" any other    *)
(* byte. Indices count from 0 as in the code.                              *)
(***************************************************************************)
EXTENDS Integers, Sequences, SequencesExt

CONSTANTS
    Alphabet,       \* the symbols clients send, of Symbols
    Sendable(_),    \* bound: the streams clients may send
    ContentLength,  \* what a Content-Length header announces (atol takes a sign)
    BufferSize,     \* READ_BUFFER_SIZE
    MaxChunk        \* bound: bytes that arrive between two calls of Read

Symbols == {"CR", "LF", "get", "keep", "len", "x"}

VARIABLES
    buf,        \* m_read_buf up to m_read_idx
    checked,    \* m_checked_idx
    start,      \* m_start_line
    state,      \* m_check_state
    linger,     \* m_linger
    length,     \* m_content_length
    line,       \* the local linestatus of ProcessRead
    pc,         \* "read": waits for bytes, "parse": in ProcessRead's loop,
                \* "done": ProcessRead answered, "closed": Read failed
    result,     \* what ProcessRead answered
    stream      \* the bytes as they arrived since the last request

parserVars == <<buf, checked, start, state, linger, length>>
vars == <<parserVars, line, pc, result, stream>>

At(i) == buf[i + 1]
ReadIdx == Len(buf)

TypeOK ==
    /\ buf \in Seq(Symbols \cup {"NUL"}) /\ stream \in Seq(Symbols)
    /\ ReadIdx < BufferSize
    /\ checked \in 0..ReadIdx /\ start \in 0..checked
    /\ state \in {"requestline", "header", "content"}
    /\ linger \in BOOLEAN /\ length \in Int
    /\ line \in {"ok", "open"}
    /\ pc \in {"read", "parse", "done", "closed"}
    /\ result \in {"NO_REQUEST", "GET_REQUEST", "BAD_REQUEST"}

\* Init() of a new connection.
Init ==
    /\ buf = <<>> /\ checked = 0 /\ start = 0
    /\ state = "requestline"
    /\ linger = FALSE /\ length = 0
    /\ line = "ok" /\ pc = "read" /\ result = "NO_REQUEST"
    /\ stream = <<>>

----------------------------------------------------------------------------
(* Read                                                                    *)

\* Everything that has arrived fits; Process starts.
Read(bytes) ==
    /\ pc = "read"
    /\ Sendable(stream \o bytes)
    /\ ReadIdx + Len(bytes) < BufferSize
    /\ buf' = buf \o bytes
    /\ stream' = stream \o bytes
    /\ line' = "ok"
    /\ pc' = "parse"
    /\ UNCHANGED <<checked, start, state, linger, length, result>>

\* The buffer fills up: recv is asked for zero bytes and Read takes its answer
\* for the end of the connection.
ReadFull(bytes) ==
    /\ pc = "read"
    /\ Sendable(stream \o bytes)
    /\ ReadIdx + Len(bytes) >= BufferSize
    /\ pc' = "closed"
    /\ UNCHANGED <<parserVars, line, result, stream>>

\* The client has closed its end, or recv failed: Read returns false.
ReadFails ==
    /\ pc = "read"
    /\ pc' = "closed"
    /\ UNCHANGED <<parserVars, line, result, stream>>

----------------------------------------------------------------------------
(* ParseLine                                                               *)

\* The first CR or LF that has not been checked, or the end of what was read.
EndOfLine ==
    LET ends == {i \in checked..(ReadIdx - 1) : At(i) \in {"CR", "LF"}}
    IN  IF ends = {} THEN ReadIdx ELSE Min(ends)

\* Mutant of CrLf: a CR ends the line whatever follows it.
CrAlone(i) ==
    i + 1 < ReadIdx /\ At(i) = "CR"

\* A complete line ends here: CR followed by LF, or LF right after a CR.
CrLf(i) == i + 1 < ReadIdx /\ At(i) = "CR" /\ At(i + 1) = "LF"
LfAfterCr(i) == i < ReadIdx /\ At(i) = "LF" /\ i > 1 /\ At(i - 1) = "CR"

LineOk == CrLf(EndOfLine) \/ LfAfterCr(EndOfLine)

\* Mutant of TakeLine: checked skips a byte of the next line.
TakeLineTooFar ==
    LET i == IF CrLf(EndOfLine) THEN EndOfLine ELSE EndOfLine - 1
    IN  /\ buf' = [buf EXCEPT ![i + 1] = "NUL", ![i + 2] = "NUL"]
        /\ checked' = i + 3

\* LINE_OK: both line-end symbols become NUL, checked moves behind them.
TakeLine ==
    LET i == IF CrLf(EndOfLine) THEN EndOfLine ELSE EndOfLine - 1
    IN  /\ buf' = [buf EXCEPT ![i + 1] = "NUL", ![i + 2] = "NUL"]
        /\ checked' = i + 2

\* GetLine: the text from m_start_line to the first NUL.
Text == SubSeq(buf, start + 1, IF CrLf(EndOfLine) THEN EndOfLine ELSE EndOfLine - 1)

----------------------------------------------------------------------------
(* ProcessRead's loop; each action is one turn                             *)

\* In the body the first turn parses no line.
BodyTurn == state = "content" /\ line = "ok"

Answer(code) == result' = code /\ pc' = "done"

\* LINE_OPEN or LINE_BAD: ProcessRead returns NO_REQUEST. ParseLine stops at the
\* symbol it could not use; without any it has checked everything.
LineNotOk ==
    /\ pc = "parse" /\ ~BodyTurn /\ ~LineOk
    /\ checked' = EndOfLine
    /\ pc' = "read"
    /\ UNCHANGED <<buf, start, state, linger, length, line, result, stream>>

\* What every turn that has a line does before the switch.
LineTurn(where) ==
    /\ pc = "parse" /\ ~BodyTurn /\ LineOk
    /\ state = where
    /\ TakeLine
    /\ start' = checked'
    /\ line' = IF where = "content" THEN "open" ELSE "ok"
    /\ UNCHANGED stream

ParseRequestLine ==
    /\ LineTurn("requestline")
    /\ IF Text = <<"get">> THEN state' = "header" /\ UNCHANGED <<pc, result>>
       ELSE UNCHANGED state /\ Answer("BAD_REQUEST")
    /\ UNCHANGED <<linger, length>>

\* The empty line ends the headers, and the request unless a body follows.
ParseEmptyLine ==
    /\ LineTurn("header")
    /\ Text = <<>>
    /\ IF length # 0 THEN state' = "content" /\ UNCHANGED <<pc, result>>
       ELSE UNCHANGED state /\ Answer("GET_REQUEST")
    /\ UNCHANGED <<linger, length>>

ParseHeader ==
    /\ LineTurn("header")
    /\ Text # <<>>
    /\ linger' = (linger \/ Text = <<"keep">>)
    /\ length' = IF Head(Text) = "len" THEN ContentLength ELSE length
    /\ UNCHANGED <<state, pc, result>>

\* Whether ParseContent finds that the whole body has been read.
BodyComplete(from) == ReadIdx >= length + from

\* Mutant of ParseContent: linestatus stays LINE_OK after an incomplete body.
ParseContentForever ==
    /\ pc = "parse" /\ BodyTurn
    /\ start' = checked
    /\ IF BodyComplete(checked)
       THEN Answer("GET_REQUEST")
       ELSE UNCHANGED <<pc, result>>
    /\ UNCHANGED <<buf, checked, state, linger, length, line, stream>>

\* ParseContent on the body. The terminator it writes at text + m_content_length +
\* m_checked_idx lies outside the bytes read and is left out.
ParseContent ==
    /\ pc = "parse" /\ BodyTurn
    /\ start' = checked
    /\ IF BodyComplete(checked)
       THEN Answer("GET_REQUEST") /\ UNCHANGED line
       ELSE line' = "open" /\ UNCHANGED <<pc, result>>
    /\ UNCHANGED <<buf, checked, state, linger, length, stream>>

\* After an incomplete body the loop goes on with ParseLine, over the body.
ParseContentLine ==
    /\ LineTurn("content")
    /\ IF BodyComplete(checked')
       THEN Answer("GET_REQUEST")
       ELSE UNCHANGED <<pc, result>>
    /\ UNCHANGED <<state, linger, length>>

\* The reply has been sent or the connection closed: Init() for what comes next.
Restart ==
    /\ pc \in {"done", "closed"}
    /\ buf' = <<>> /\ checked' = 0 /\ start' = 0
    /\ state' = "requestline"
    /\ linger' = FALSE /\ length' = 0
    /\ line' = "ok" /\ pc' = "read" /\ result' = "NO_REQUEST"
    /\ stream' = <<>>

Next ==
    \/ \E bytes \in BoundedSeq(Alphabet, MaxChunk) \ {<<>>} : Read(bytes) \/ ReadFull(bytes)
    \/ ReadFails
    \/ LineNotOk \/ ParseRequestLine \/ ParseEmptyLine \/ ParseHeader
    \/ ParseContent \/ ParseContentLine
    \/ Restart

Spec == Init /\ [][Next]_vars

\* ProcessRead is a loop that runs until it returns; clients owe nothing.
Step ==
    \/ LineNotOk \/ ParseRequestLine \/ ParseEmptyLine \/ ParseHeader
    \/ ParseContent \/ ParseContentLine

FairSpec == Spec /\ WF_vars(Step)

----------------------------------------------------------------------------
(* What a request is, whatever the pieces it arrives in                    *)

\* In the first n symbols CR and LF only occur as the pair that ends a line.
CleanLines(s, n) ==
    /\ \A i \in 1..n : s[i] = "CR" => i < n /\ s[i + 1] = "LF"
    /\ \A i \in 1..n : s[i] = "LF" => i > 1 /\ s[i - 1] = "CR"

\* Where the first line ends (its LF), and where the empty line ends.
FirstLineEnds(s) == {n \in 2..Len(s) : s[n] = "LF" /\ CleanLines(s, n)}
HeadEnds(s) ==
    {n \in 4..Len(s) : /\ SubSeq(s, n - 3, n) = <<"CR", "LF", "CR", "LF">>
                       /\ CleanLines(s, n)}

\* A header line among the first n symbols starts with this one.
HasHeader(s, n, symbol) == \E i \in 2..n : s[i - 1] = "LF" /\ s[i] = symbol

BodyLength(s) ==
    IF HasHeader(s, Min(HeadEnds(s)), "len") THEN ContentLength ELSE 0

\* What a parser that saw the whole stream would answer.
Verdict(s) ==
    IF FirstLineEnds(s) = {} THEN "NO_REQUEST"
    ELSE IF SubSeq(s, 1, Min(FirstLineEnds(s)) - 2) # <<"get">> THEN "BAD_REQUEST"
    ELSE IF HeadEnds(s) = {} THEN "NO_REQUEST"
    ELSE IF Len(s) < Min(HeadEnds(s)) + BodyLength(s) THEN "NO_REQUEST"
    ELSE "GET_REQUEST"

\* A Connection: keep-alive line among the headers.
KeepAliveAsked(s) ==
    \E i \in 2..(Min(HeadEnds(s)) - 2) :
        s[i - 1] = "LF" /\ SubSeq(s, i, i + 1) = <<"keep", "CR">>

\* An answer of ProcessRead is the one the whole stream deserves, wherever the
\* network cut it: m_checked_idx, m_start_line and m_check_state carry over
\* everything the next call needs, and no cut makes a line appear or vanish. And
\* m_linger is what the Connection lines of this request ask for, not of another.
AnswersAreRight ==
    pc = "done" => /\ result = Verdict(stream)
                   /\ result = "GET_REQUEST" => linger = KeepAliveAsked(stream)

\* While the connection waits for more of the head (NO_REQUEST), what has arrived
\* is not yet a request, nor yet a bad one: a client that has sent all it had to
\* send is answered at once.
NothingMissed == pc = "read" /\ state # "content" => Verdict(stream) = "NO_REQUEST"

\* ProcessRead returns: no input makes its loop turn forever, in particular
\* not an incomplete body.
ProcessReadReturns == pc = "parse" ~> pc # "parse"

----------------------------------------------------------------------------
(* What the comments say and the code does not do                          *)

\* Line 221: ParseContent only checks whether the body has been read completely,
\* so a request that waits in that state has not got all of its body yet.
BodyNotMissed == pc = "read" /\ state = "content" => Verdict(stream) = "NO_REQUEST"
=============================================================================
