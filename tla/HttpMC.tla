------------------------------- MODULE HttpMC --------------------------------
(***************************************************************************)
(* Small instances of the modules about requests and replies in one run:   *)
(* HttpParser, HttpWrite, RequestReader and CgiConn. The initial state     *)
(* picks one of them and the others never move. The streams of HttpParser  *)
(* are any of up to four symbols, heads of up to eleven that start with a  *)
(* request line, and requests that announce a body.                        *)
(***************************************************************************)
EXTENDS HttpWrite

\* HttpParser's constants.
CONSTANTS Alphabet, Sendable(_), ContentLength, BufferSize, MaxChunk
\* RequestReader's and CgiConn's; SmallBuffer and NameBuffer are their BUFFER_SIZE.
CONSTANTS ReaderSymbols, SmallBuffer, MaxPiece, Letters, NameBuffer, MaxSent, Nothing

\* HttpParser's variables; parserPc and keepAlive are its pc and its linger.
VARIABLES which, buf, checked, start, state, keepAlive, length, line, parserPc, result, stream
\* RequestReader's; readerChecked is its checked.
VARIABLES buffer, readerChecked, startLine, checkState, where, answer
\* CgiConn's; name is its buf.
VARIABLES name, unread, hungUp, event, cgiPc, program, sent

inputVars == <<buf, checked, start, state, keepAlive, length, line, parserPc, result, stream>>
theReaderVars == <<buffer, readerChecked, startLine, checkState, where, answer>>
theCgiVars == <<name, unread, hungUp, event, cgiPc, program, sent>>

SomeHeads == {2, 3}
SomeDocuments == {0, 1, 4}
SomeSymbols == {"CR", "LF", "get", "keep", "len"}
SomeReaderSymbols == {"CR", "LF", "get", "text"}
SomeLetters == {"CR", "LF", "a"}

SomeStream(s) ==
    \/ Len(s) <= 4
    \/ /\ IsPrefix(<<"get", "CR", "LF">>, s) /\ Len(s) <= 11
       /\ \A i \in DOMAIN s : s[i] # "len"
    \/ /\ IsPrefix(<<"get", "CR", "LF", "len", "CR", "LF">>, s)
       /\ \A i \in DOMAIN s : s[i] # "keep"

P == INSTANCE HttpParser WITH pc <- parserPc, linger <- keepAlive
R == INSTANCE RequestReader WITH
         checked <- readerChecked, BUFFER_SIZE <- SmallBuffer, Symbols <- ReaderSymbols
C == INSTANCE CgiConn WITH buf <- name, BUFFER_SIZE <- NameBuffer

MCInit == Init /\ P!Init /\ R!Init /\ C!Init /\ which \in {"parser", "write", "reader", "cgi"}

MCNext ==
    /\ UNCHANGED which
    /\ \/ which = "parser" /\ P!Next /\ UNCHANGED <<vars, theReaderVars, theCgiVars>>
       \/ which = "write" /\ Next /\ UNCHANGED <<inputVars, theReaderVars, theCgiVars>>
       \/ which = "reader" /\ R!Next /\ UNCHANGED <<vars, inputVars, theCgiVars>>
       \/ which = "cgi" /\ C!Next /\ UNCHANGED <<vars, inputVars, theReaderVars>>

MCSpec == MCInit /\ [][MCNext]_<<vars, inputVars, theReaderVars, theCgiVars, which>>

FairSpec ==
    MCSpec /\ WF_inputVars(which = "parser" /\ P!Step /\ UNCHANGED <<vars, theReaderVars, theCgiVars>>)

\* The types of all, and the other properties by the names the modules give them.
TypesOK == TypeOK /\ P!TypeOK /\ R!TypeOK /\ C!TypeOK
AnswersAreRight == P!AnswersAreRight /\ P!NothingMissed
BodyNotMissed == P!BodyNotMissed
ProcessReadReturns == P!ProcessReadReturns
AnswerIsVerdict == R!AnswerIsVerdict
FirstLineIsRun == C!FirstLineIsRun
=============================================================================
