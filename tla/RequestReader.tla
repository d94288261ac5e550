---------------------------- MODULE RequestReader ----------------------------
(***************************************************************************)
(* The server of src/linux_server/8-6_manage_http_request.cc: it reads one *)
(* request in pieces, however the network cuts it, and answers it once.    *)
(* The text of a line is one symbol; the zeros written over CR and LF are  *)
(* left out, for nothing behind checked_index is read again.               *)
(***************************************************************************)
EXTENDS Integers, Sequences, FiniteSets, FiniteSetsExt

CONSTANTS
    Symbols,      \* "CR", "LF", "get" (a request line that is accepted) and other text
    BUFFER_SIZE,
    MaxPiece      \* bound: symbols that one recv returns

VARIABLES
    buffer,       \* what has been received; its length is read_index
    checked,      \* checked_index
    startLine,
    checkState,   \* "requestline" or "header"
    where,        \* "recv", "parse", or "done" with the connection closed
    answer        \* what was sent: "none", "right", "wrong"

readerVars == <<buffer, checked, startLine, checkState, where, answer>>

TypeOK ==
    /\ buffer \in Seq(Symbols) /\ Len(buffer) <= BUFFER_SIZE
    /\ startLine \in 0..checked /\ checked \in 0..Len(buffer)
    /\ checkState \in {"requestline", "header"}
    /\ where \in {"recv", "parse", "done"}
    /\ answer \in {"none", "right", "wrong"}

Init ==
    /\ buffer = <<>> /\ checked = 0 /\ startLine = 0
    /\ checkState = "requestline" /\ where = "recv" /\ answer = "none"

\* recv returns some of what the client sends.
Receive ==
    /\ where = "recv"
    /\ \E n \in 1..MaxPiece : \E piece \in [1..n -> Symbols] :
           /\ Len(buffer) + n <= BUFFER_SIZE
           /\ buffer' = buffer \o piece
    /\ where' = "parse"
    /\ UNCHANGED <<checked, startLine, checkState, answer>>

\* recv fails, or returns 0: the client has closed, or the buffer is full.
ReceiveEnds ==
    /\ where = "recv"
    /\ where' = "done"
    /\ UNCHANGED <<buffer, checked, startLine, checkState, answer>>

----------------------------------------------------------------------------
(* parse_line                                                              *)

\* Where the loop over checked_index stops: at a CR or LF, or at the end.
Stop == Min({k \in checked..(Len(buffer) - 1) : buffer[k + 1] \in {"CR", "LF"}} \cup {Len(buffer)})

\* LINE_OK: checked_index moves behind the LF. (An LF that is looked at by itself never
\* has a CR before it: the CR would have been looked at first.)
LineOk ==
    /\ Stop + 1 < Len(buffer)
    /\ buffer[Stop + 1] = "CR" /\ buffer[Stop + 2] = "LF"

\* Mutant of LineOpen: a CR at the end counts as one that stands alone.
LineOpenPastCr == Stop = Len(buffer)

LineOpen == Stop = Len(buffer) \/ (Stop + 1 = Len(buffer) /\ buffer[Stop + 1] = "CR")

Line == SubSeq(buffer, startLine + 1, Stop)

\* parse_content takes a line: start_line moves to the next one.
TakeLine ==
    /\ where = "parse" /\ LineOk
    /\ checked' = Stop + 2 /\ startLine' = Stop + 2
    /\ UNCHANGED buffer

\* GET, a URL and HTTP/1.1 turn to the headers.
RequestLine ==
    /\ TakeLine /\ checkState = "requestline"
    /\ Line = <<"get">>
    /\ checkState' = "header"
    /\ UNCHANGED <<where, answer>>

Reply(text) == where' = "done" /\ answer' = text /\ UNCHANGED checkState

BadRequestLine ==
    /\ TakeLine /\ checkState = "requestline"
    /\ Line # <<"get">>
    /\ Reply("wrong")

\* A header, Host or one the server cannot handle.
Header ==
    /\ TakeLine /\ checkState = "header" /\ Line # <<>>
    /\ UNCHANGED <<checkState, where, answer>>

EmptyLine ==
    /\ TakeLine /\ checkState = "header" /\ Line = <<>>
    /\ Reply("right")

\* NO_REQUEST: the server goes on receiving.
Incomplete ==
    /\ where = "parse" /\ LineOpen
    /\ checked' = Stop
    /\ where' = "recv"
    /\ UNCHANGED <<buffer, startLine, checkState, answer>>

LineBad ==
    /\ where = "parse" /\ ~LineOk /\ ~LineOpen
    /\ checked' = Stop
    /\ Reply("wrong")
    /\ UNCHANGED <<buffer, startLine>>

Next ==
    \/ Receive \/ ReceiveEnds
    \/ RequestLine \/ BadRequestLine \/ Header \/ EmptyLine \/ Incomplete \/ LineBad

Spec == Init /\ [][Next]_readerVars

----------------------------------------------------------------------------
(* Properties                                                              *)

\* What a stream deserves, without indices or states: it is wrong from the first CR or
\* LF that stands alone, or from a first line that is no request line, and right from
\* an empty line on if neither came before.
Verdict(s) ==
    LET ends == {k \in 2..Len(s) : s[k - 1] = "CR" /\ s[k] = "LF"}
        alone == {k \in 1..(Len(s) - 1) : s[k] = "CR" /\ s[k + 1] # "LF"}
                     \cup {k \in 1..Len(s) : s[k] = "LF" /\ k \notin ends}
        complete == {k \in ends : k - 2 \in ends}
        noRequest == ends # {} /\ SubSeq(s, 1, Min(ends)) # <<"get", "CR", "LF">>
        Before(t) == \A k \in complete : \E j \in t : j < k
    IN
    CASE noRequest \/ (alone # {} /\ Before(alone)) -> "wrong"
      [] ~noRequest /\ complete # {} /\ ~Before(alone) -> "right"
      [] OTHER -> "none"

\* However recv cuts the stream, the server answers what the whole of it deserves, and
\* goes on receiving only while that is undecided.
AnswerIsVerdict == where # "parse" => answer = Verdict(buffer)
=============================================================================
