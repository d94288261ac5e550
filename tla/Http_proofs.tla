----------------------------- MODULE Http_proofs -----------------------------
(***************************************************************************)
(* Proofs about the modules that HttpMC runs: the replies of HttpConn      *)
(* (HttpWrite), and what three programs make of a stream that arrives in   *)
(* pieces: HttpConn (HttpParser), 8-6 (RequestReader) and the CGI server   *)
(* of 15-4 (CgiConn). Documents, heads, streams and pieces have any size.  *)
(*                                                                         *)
(* What HttpParser and RequestReader remember of a stream is the place     *)
(* behind the last line they took and a state. The invariants say what     *)
(* they need to know of everything before that place: LinesTo.             *)
(***************************************************************************)
EXTENDS HttpMC, SequenceTheorems, WellFoundedInduction, TLAPS

(***************************************************************************)
(* HttpWrite                                                               *)
(***************************************************************************)

\* What the variables hold, as far as the proofs need it.
Numbers ==
    /\ head \in Nat /\ body \in Nat
    /\ address \in Int /\ statSize \in Int /\ live \in Int

\* A document is mapped only while its reply is pending, unless a client left then.
Mapped == ~left =>
    /\ address > 0 => pc \in {"armed", "writing"} /\ body = address /\ statSize = address
    /\ live = IF address > 0 THEN 1 ELSE 0
    /\ unmapped[1] > 0 => unmapped[2] = unmapped[1]

\* Unless a writev was partial, nothing of a pending reply has been sent.
Unsent ==
    /\ pc \in {"armed", "writing"} =>
           /\ reply = Bytes(head + body)
           /\ outcome = "none"
           /\ ~partial => received = <<>>
    /\ pc = "writing" /\ ~partial => toSend = head /\ haveSent = 0

ReplyInv == Numbers /\ Mapped /\ Unsent /\ PendingFileIsMapped /\ WholeWriteSends

\* The bytes of a reply are as many as they are, and taking as many takes them all.
LEMMA WholeReply ==
    ASSUME NEW n \in Nat
    PROVE  Len(Bytes(n)) = n /\ <<>> \o SubSeq(Bytes(n), 1, n) = Bytes(n)
<1>1. Bytes(n) \in Seq(Int) /\ Len(Bytes(n)) = n
    BY DEF Bytes
<1> QED BY <1>1

\* ReplyInv holds at the beginning.
LEMMA ReplyInit == Init => ReplyInv
<1> SUFFICES ASSUME Init PROVE ReplyInv
    OBVIOUS
<1>1. Numbers
    BY DEF Init, Numbers
<1>2. Unsent /\ PendingFileIsMapped /\ WholeWriteSends
    BY DEF Init, Unsent, PendingFileIsMapped, WholeWriteSends
<1>3. unmapped[1] = 0 /\ live = 0 /\ address = 0
    BY DEF Init
<1>4. Mapped
    BY <1>3 DEF Mapped
<1> QED BY <1>1, <1>2, <1>4 DEF ReplyInv

\* A writev that takes part of the reply leaves it partial; one that takes all is the
\* only one.
LEMMA WholeWritev ==
    ASSUME ReplyInv, NEW n \in 1..(head + body), Writev(n), ~partial'
    PROVE  received' = reply /\ ~GoesOn
<1> USE DEF ReplyInv, Numbers, Unsent, Writev
<1>1. Len(reply) = head + body /\ reply = Bytes(head + body)
    BY WholeReply
<1>2. n = head + body /\ ~partial
  <2>1. ~(partial \/ n < Len(reply))
      BY Zenon DEF Writev
  <2> QED BY <1>1, <2>1
<1>3. received = <<>> /\ toSend = head /\ haveSent = 0
    BY <1>2
<1>4. received' = reply
    BY <1>1, <1>2, <1>3, WholeReply
<1> QED BY <1>2, <1>3, <1>4 DEF GoesOn

\* Unmap ends the mapping of the pending document, if there is one.
LEMMA UnmapEnds ==
    ASSUME ReplyInv, Unmap, pc' \in {"idle", "closed"}, left' = left
    PROVE  Mapped' /\ address' \in Int /\ live' \in Int
<1> USE DEF ReplyInv, Numbers, Mapped, Unmap
<1>1. CASE address = 0
    BY <1>1
<1>2. CASE address # 0
  <2>1. /\ address' = 0 /\ unmapped' = <<address, statSize>>
        /\ live' = IF address > 0 THEN live - 1 ELSE live
      BY <1>2
  <2>2. unmapped'[1] = address /\ unmapped'[2] = statSize
      BY <2>1
  <2> QED BY <2>1, <2>2
<1> QED BY <1>1, <1>2

\* A reply is prepared when no document is mapped.
LEMMA PrepareKeeps ==
    ASSUME SizesAssumption, ReplyInv, NEW n \in Heads, NEW m \in Nat, Prepare(n, m),
           statSize' \in Int,
           \/ m = 0 /\ UNCHANGED <<address, live>>
           \/ m > 0 /\ address' = m /\ statSize' = m /\ live' = live + 1
    PROVE  ReplyInv'
<1> USE DEF ReplyInv, Numbers, Mapped, Unsent, Prepare
<1>1. /\ pc = "idle" /\ pc' = "armed" /\ head' = n /\ body' = m /\ n \in Nat
      /\ reply' = Bytes(n + m) /\ received' = <<>> /\ outcome' = "none" /\ ~partial'
      /\ UNCHANGED <<left, unmapped>>
    BY DEF SizesAssumption
<1>2. Numbers'
    BY <1>1
<1>3. Unsent'
    BY <1>1
<1>4. Mapped'
    BY <1>1
<1>5. PendingFileIsMapped' /\ WholeWriteSends'
    BY <1>1 DEF PendingFileIsMapped, WholeWriteSends
<1> QED BY <1>2, <1>3, <1>4, <1>5

\* Every step keeps ReplyInv.
LEMMA ReplyStep ==
    ASSUME SizesAssumption, ReplyInv, [Next]_vars
    PROVE  ReplyInv'
<1> USE DEF ReplyInv, Numbers, Mapped, Unsent, PendingFileIsMapped, WholeWriteSends,
            replyVars, loopVars, docVars
<1>0. Heads \subseteq Nat /\ Documents \subseteq Nat
    BY DEF SizesAssumption
<1>1. CASE UNCHANGED vars
    BY <1>1 DEF vars
<1>2. ASSUME NEW n \in Heads, NEW size \in Documents, ReplyFile(n, size) PROVE ReplyInv'
  <2>1. Prepare(n, size) /\ size > 0 /\ statSize' = size /\ address' = size /\ live' = live + 1
      BY <1>2 DEF ReplyFile
  <2> HIDE DEF ReplyInv
  <2> QED BY <1>0, <2>1, PrepareKeeps
<1>3. ASSUME NEW n \in Heads, ReplyError(n) PROVE ReplyInv'
  <2>1. Prepare(n, 0) /\ statSize' \in Int /\ UNCHANGED <<address, live>>
      BY <1>0, <1>3 DEF ReplyError
  <2> HIDE DEF ReplyInv
  <2> QED BY <2>1, PrepareKeeps
<1>4. CASE ReplyEmptyFile
    BY <1>0, <1>4 DEF ReplyEmptyFile
<1>5. CASE StartWrite
    BY <1>5 DEF StartWrite
<1>6. ASSUME NEW n \in 1..(head + body), WritevMore(n) PROVE ReplyInv'
    BY <1>6, WholeWritev DEF WritevMore, Writev
<1>7. ASSUME NEW n \in 1..(head + body), WritevLast(n) PROVE ReplyInv'
  <2>1. /\ pc = "writing" /\ pc' \in {"idle", "closed"} /\ outcome' = "sent" /\ Unmap
        /\ head' \in {head, 0}
        /\ UNCHANGED <<body, reply, statSize, left>>
      BY <1>7 DEF WritevLast, Writev, Reset
  <2>2. Mapped' /\ address' \in Int /\ live' \in Int
      BY <2>1, UnmapEnds
  <2>3. ~partial' => received' = reply
      BY <1>7, WholeWritev DEF WritevLast
  <2>4. Numbers' /\ Unsent' /\ PendingFileIsMapped'
      BY <2>1, <2>2
  <2>5. WholeWriteSends'
      BY <2>1, <2>3
  <2> HIDE DEF Numbers, Mapped, Unsent, PendingFileIsMapped, WholeWriteSends
  <2> QED BY <2>2, <2>4, <2>5
<1>8. CASE WritevAgain
    BY <1>8 DEF WritevAgain
<1>9. CASE WritevFails
    BY <1>9 DEF WritevFails, Unmap
<1>10. CASE HangUp
    BY <1>10 DEF HangUp
<1>11. CASE NewConnection
    BY <1>11 DEF NewConnection, Reset
<1> QED BY <1>1, <1>2, <1>3, <1>4, <1>5, <1>6, <1>7, <1>8, <1>9, <1>10, <1>11 DEF Next

\* What is sent is mapped, nothing is mapped for longer unless a client leaves before
\* its document is sent, and what whole writes send is the reply.
THEOREM RepliesAreSent == Spec => []RepliesAreRight
<1>1. Init => ReplyInv
    BY ReplyInit
<1>2. ReplyInv /\ [Next]_vars => ReplyInv'
    BY ReplyStep, SizesAssumption
<1>3. ReplyInv => RepliesAreRight
    BY DEF ReplyInv, Mapped, RepliesAreRight, MappingsBalanced
<1> QED BY <1>1, <1>2, <1>3, PTL DEF Spec

(***************************************************************************)
(* What the proofs about streams share                                     *)
(***************************************************************************)

\* A set of numbers that is not empty has a lowest one.
LEMMA LowestIsOne ==
    ASSUME NEW S \in SUBSET Nat, S # {}
    PROVE  \E x \in S : \A y \in S : x <= y
<1> DEFINE Less == OpToRel(<, Nat)
<1>1. \E x \in S : \A y \in S : ~(<<y, x>> \in Less)
    BY NatLessThanWellFounded, WFMin
<1>2. \A x, y \in S : <<y, x>> \notin Less => x <= y
    BY DEF OpToRel
<1> QED BY <1>1, <1>2

\* The first n elements of a sequence.
LEMMA InitialOf ==
    ASSUME NEW S, NEW s \in Seq(S), NEW n \in 0..Len(s)
    PROVE  /\ SubSeq(s, 1, n) \in Seq(S) /\ Len(SubSeq(s, 1, n)) = n
           /\ \A i \in 1..n : SubSeq(s, 1, n)[i] = s[i]
<1>1. Len(s) \in Nat /\ n \in Nat
    OBVIOUS
<1>2. \A i \in 1..n : s[i] \in S
    BY <1>1, ElementOfSeq
<1>3. n - 1 + 1 = n /\ \A i \in 1..n : 1 + i - 1 = i
    BY <1>1
<1> QED BY <1>1, <1>2, <1>3, SubSeqProperties

\* Up to n every CR and LF belongs to the end of a line, and no line is empty.
LinesTo(s, n) ==
    /\ \A i \in 1..n : s[i] = "CR" => i < n /\ s[i + 1] = "LF"
    /\ \A i \in 1..n : s[i] = "LF" => i > 1 /\ s[i - 1] = "CR" /\ (i > 2 => s[i - 2] # "LF")

\* A line that is taken is the last of the lines so far.
LEMMA LineTaken ==
    ASSUME NEW s, NEW a \in Nat, NEW z \in Nat, a < z, LinesTo(s, a),
           \A i \in (a + 1)..z : s[i] \notin {"CR", "LF"}, s[z + 1] = "CR", s[z + 2] = "LF"
    PROVE  LinesTo(s, z + 2)
<1>1. ASSUME NEW i \in 1..(z + 2), s[i] = "CR" PROVE i < z + 2 /\ s[i + 1] = "LF"
    BY <1>1 DEF LinesTo
<1>2. ASSUME NEW i \in 1..(z + 2), s[i] = "LF"
      PROVE  i > 1 /\ s[i - 1] = "CR" /\ (i > 2 => s[i - 2] # "LF")
  <2>1. i \in 1..a \/ i = z + 2
      BY <1>2
  <2>2. s[z] # "LF"
      OBVIOUS
  <2> QED BY <1>2, <2>1, <2>2 DEF LinesTo
<1> QED BY <1>1, <1>2 DEF LinesTo

(***************************************************************************)
(* HttpParser                                                              *)
(***************************************************************************)

\* A Content-Length is a whole number: atol takes a sign.
ParserAssumption == ContentLength \in Int

\* What Min returns for a set of numbers.
LEMMA ParserMin ==
    ASSUME NEW S \in SUBSET Nat, NEW k \in S, \A j \in S : k <= j
    PROVE  P!Min(S) = k
<1> DEFINE m == CHOOSE x \in S : \A y \in S : x <= y
<1>1. m \in S /\ \A y \in S : m <= y
    OBVIOUS
<1>2. P!Min(S) = m
    BY DEF P!Min
<1> HIDE DEF m
<1> QED BY <1>1, <1>2

\* The first line is a request line.
FirstLine(s) == Len(s) >= 3 /\ s[1] = "get" /\ s[2] = "CR" /\ s[3] = "LF"

\* The headers end with the empty line that ends here, the first one.
HeadEndsAt(s, h) ==
    /\ h \in 4..Len(s) /\ LinesTo(s, h - 2)
    /\ s[h - 3] = "CR" /\ s[h - 2] = "LF" /\ s[h - 1] = "CR" /\ s[h] = "LF"

\* The lines up to n announce a body, or ask to keep the connection.
LengthTo(s, n) == IF P!HasHeader(s, n, "len") THEN ContentLength ELSE 0
KeepTo(s, n) == \E i \in 2..(n - 1) : s[i - 1] = "LF" /\ s[i] = "keep" /\ s[i + 1] = "CR"

\* The first line ends with its LF.
LEMMA FirstLineIs ==
    ASSUME NEW s \in Seq(Alphabet), NEW z \in 0..(Len(s) - 2),
           \A i \in 1..z : s[i] \notin {"CR", "LF"}, s[z + 1] = "CR", s[z + 2] = "LF"
    PROVE  P!FirstLineEnds(s) # {} /\ P!Min(P!FirstLineEnds(s)) = z + 2
<1>1. Len(s) \in Nat /\ z \in Nat
    OBVIOUS
<1>2. P!CleanLines(s, z + 2)
  <2>1. ASSUME NEW i \in 1..(z + 2), s[i] = "CR" PROVE i < z + 2 /\ s[i + 1] = "LF"
      BY <1>1, <2>1
  <2>2. ASSUME NEW i \in 1..(z + 2), s[i] = "LF" PROVE i > 1 /\ s[i - 1] = "CR"
      BY <1>1, <2>2
  <2> QED BY <2>1, <2>2 DEF P!CleanLines
<1>3. z + 2 \in P!FirstLineEnds(s) /\ P!FirstLineEnds(s) \in SUBSET Nat
    BY <1>1, <1>2 DEF P!FirstLineEnds
<1>4. \A j \in P!FirstLineEnds(s) : z + 2 <= j
    BY <1>1 DEF P!FirstLineEnds
<1> QED BY <1>3, <1>4, ParserMin

\* A sequence of one symbol.
LEMMA OneSymbol ==
    ASSUME NEW S, NEW t \in Seq(S), NEW a
    PROVE  t = <<a>> <=> Len(t) = 1 /\ t[1] = a
<1>1. t = <<a>> => Len(t) = 1 /\ t[1] = a
    OBVIOUS
<1>2. Len(t) = 1 /\ t[1] = a => t = <<a>>
    OBVIOUS
<1> QED BY <1>1, <1>2

\* A request line is one symbol.
LEMMA GetIsLine ==
    ASSUME NEW S, NEW s \in Seq(S), NEW n \in 0..Len(s)
    PROVE  SubSeq(s, 1, n) = <<"get">> <=> n = 1 /\ s[1] = "get"
<1> DEFINE t == SubSeq(s, 1, n)
<1>1. t \in Seq(S) /\ Len(t) = n /\ \A i \in 1..n : t[i] = s[i]
    BY InitialOf
<1>2. Len(s) \in Nat /\ n \in Nat
    OBVIOUS
<1> HIDE DEF t
<1>3. ASSUME t = <<"get">> PROVE n = 1 /\ s[1] = "get"
    BY <1>1, <1>2, <1>3
<1>4. ASSUME n = 1, s[1] = "get" PROVE t = <<"get">>
    BY <1>1, <1>4
<1> QED BY <1>3, <1>4 DEF t

\* What Verdict looks at first is "get" after such a line.
LEMMA FirstIsGet ==
    ASSUME NEW s \in Seq(Alphabet), FirstLine(s)
    PROVE  /\ P!FirstLineEnds(s) # {}
           /\ SubSeq(s, 1, P!Min(P!FirstLineEnds(s)) - 2) = <<"get">>
<1>1. Len(s) \in Nat /\ 1 \in 0..(Len(s) - 2) /\ s[1] = "get" /\ s[1 + 1] = "CR" /\ s[1 + 2] = "LF"
    BY DEF FirstLine
<1>2. P!FirstLineEnds(s) # {} /\ P!Min(P!FirstLineEnds(s)) = 1 + 2
    BY <1>1, FirstLineIs
<1>3. SubSeq(s, 1, 1) = <<"get">>
    BY <1>1, GetIsLine
<1> QED BY <1>2, <1>3

\* Four symbols in a row.
LEMMA FourInARow ==
    ASSUME NEW S, NEW s \in Seq(S), NEW n \in 4..Len(s)
    PROVE  SubSeq(s, n - 3, n) = <<"CR", "LF", "CR", "LF">> <=>
               s[n - 3] = "CR" /\ s[n - 2] = "LF" /\ s[n - 1] = "CR" /\ s[n] = "LF"
<1> DEFINE t == SubSeq(s, n - 3, n)
<1>1. Len(s) \in Nat /\ n \in Nat /\ n >= 4 /\ n <= Len(s)
    OBVIOUS
<1>2. \A i \in (n - 3)..n : s[i] \in S
    BY <1>1, ElementOfSeq
<1>3. /\ t \in Seq(S) /\ Len(t) = n - (n - 3) + 1
      /\ \A i \in 1..(n - (n - 3) + 1) : t[i] = s[(n - 3) + i - 1]
    BY <1>1, <1>2, SubSeqProperties
<1> HIDE DEF t
<1>4. Len(t) = 4 /\ t[1] = s[n - 3] /\ t[2] = s[n - 2] /\ t[3] = s[n - 1] /\ t[4] = s[n]
  <2>1. n - (n - 3) + 1 = 4
      BY <1>1
  <2>2. \A i \in 1..4 : t[i] = s[(n - 3) + i - 1]
      BY <1>3, <2>1
  <2> QED BY <1>1, <1>3, <2>1, <2>2
<1>5. ASSUME t = <<"CR", "LF", "CR", "LF">>
      PROVE  s[n - 3] = "CR" /\ s[n - 2] = "LF" /\ s[n - 1] = "CR" /\ s[n] = "LF"
    BY <1>4, <1>5
<1>6. ASSUME s[n - 3] = "CR", s[n - 2] = "LF", s[n - 1] = "CR", s[n] = "LF"
      PROVE  t = <<"CR", "LF", "CR", "LF">>
    BY <1>3, <1>4, <1>6
<1> QED BY <1>5, <1>6 DEF t

\* The head of a stream ends where its first empty line ends.
LEMMA HeadIs ==
    ASSUME NEW s \in Seq(Alphabet), NEW h, HeadEndsAt(s, h)
    PROVE  P!HeadEnds(s) # {} /\ P!Min(P!HeadEnds(s)) = h
<1>1. /\ Len(s) \in Nat /\ h \in 4..Len(s) /\ h \in Nat /\ LinesTo(s, h - 2)
      /\ s[h - 3] = "CR" /\ s[h - 2] = "LF" /\ s[h - 1] = "CR" /\ s[h] = "LF"
    BY DEF HeadEndsAt
<1>2. P!CleanLines(s, h)
  <2>1. ASSUME NEW i \in 1..h, s[i] = "CR" PROVE i < h /\ s[i + 1] = "LF"
    <3>1. i \in 1..(h - 2) \/ i = h - 1
        BY <1>1, <2>1
    <3> QED BY <1>1, <2>1, <3>1 DEF LinesTo
  <2>2. ASSUME NEW i \in 1..h, s[i] = "LF" PROVE i > 1 /\ s[i - 1] = "CR"
    <3>1. i \in 1..(h - 2) \/ i = h
        BY <1>1, <2>2
    <3> QED BY <1>1, <2>2, <3>1 DEF LinesTo
  <2> QED BY <2>1, <2>2 DEF P!CleanLines
<1>3. h \in P!HeadEnds(s)
  <2>1. SubSeq(s, h - 3, h) = <<"CR", "LF", "CR", "LF">>
      BY <1>1, FourInARow
  <2> QED BY <1>1, <1>2, <2>1 DEF P!HeadEnds
<1>4. ASSUME NEW n \in P!HeadEnds(s) PROVE n \in Nat /\ h <= n
  <2>1. n \in 4..Len(s) /\ n \in Nat /\ SubSeq(s, n - 3, n) = <<"CR", "LF", "CR", "LF">>
      BY <1>1 DEF P!HeadEnds
  <2>2. s[n - 2] = "LF" /\ s[n] = "LF"
      BY <2>1, FourInARow
  <2>3. n \notin 1..(h - 2)
      BY <1>1, <2>1, <2>2 DEF LinesTo
  <2>4. n # h - 1
      BY <1>1, <2>2
  <2> QED BY <1>1, <2>1, <2>3, <2>4
<1> QED BY <1>3, <1>4, ParserMin

\* When the body is there as well, a stream deserves to be answered.
LEMMA RequestIsComplete ==
    ASSUME ParserAssumption, NEW s \in Seq(Alphabet), FirstLine(s), NEW h, HeadEndsAt(s, h),
           Len(s) >= h + LengthTo(s, h)
    PROVE  P!Verdict(s) = "GET_REQUEST" /\ (P!KeepAliveAsked(s) <=> KeepTo(s, h - 2))
<1>1. /\ P!FirstLineEnds(s) # {} /\ P!HeadEnds(s) # {} /\ P!Min(P!HeadEnds(s)) = h
      /\ SubSeq(s, 1, P!Min(P!FirstLineEnds(s)) - 2) = <<"get">>
    BY FirstIsGet, HeadIs
<1>2. h \in 4..Len(s) /\ Len(s) \in Nat /\ s[h - 2] = "LF"
    BY DEF HeadEndsAt
<1>3. LengthTo(s, h) \in Int
    BY DEF LengthTo, ParserAssumption
<1>4. P!BodyLength(s) = LengthTo(s, h)
    BY <1>1 DEF P!BodyLength, LengthTo
<1>5. ~(Len(s) < h + LengthTo(s, h))
    BY <1>2, <1>3
<1>6. P!Verdict(s) = "GET_REQUEST"
    BY <1>1, <1>4, <1>5 DEF P!Verdict
<1>7. ASSUME NEW i \in 2..(h - 2)
      PROVE  SubSeq(s, i, i + 1) = <<"keep", "CR">> <=> i # h - 2 /\ s[i] = "keep" /\ s[i + 1] = "CR"
  <2> DEFINE t == SubSeq(s, i, i + 1)
  <2>1. \A j \in i..(i + 1) : s[j] \in Alphabet
      BY <1>2, ElementOfSeq
  <2>2. t \in Seq(Alphabet) /\ Len(t) = (i + 1) - i + 1
        /\ \A j \in 1..((i + 1) - i + 1) : t[j] = s[i + j - 1]
      BY <1>2, <2>1, SubSeqProperties
  <2> HIDE DEF t
  <2>3. Len(t) = 2 /\ t[1] = s[i] /\ t[2] = s[i + 1]
    <3>1. (i + 1) - i + 1 = 2 /\ i + 1 - 1 = i /\ i + 2 - 1 = i + 1
        BY <1>2
    <3>2. \A j \in 1..2 : t[j] = s[i + j - 1]
        BY <2>2, <3>1
    <3> QED BY <2>2, <3>1, <3>2
  <2>4. t = <<"keep", "CR">> <=> s[i] = "keep" /\ s[i + 1] = "CR"
      BY <2>2, <2>3
  <2> QED BY <1>2, <2>4 DEF t
<1>8. P!KeepAliveAsked(s) <=> KeepTo(s, h - 2)
    BY <1>1, <1>2, <1>7 DEF P!KeepAliveAsked, KeepTo
<1> QED BY <1>6, <1>8

\* The indices are places of the buffer, which has a symbol for each of the stream.
Indices ==
    /\ stream \in Seq(Alphabet) /\ buf \in Seq(Alphabet \cup {"NUL"})
    /\ Len(buf) = Len(stream)
    /\ checked \in 0..Len(stream) /\ start \in 0..checked
    /\ keepAlive \in BOOLEAN /\ length \in Int

\* Behind start the buffer holds the stream; up to checked there is no CR or LF, nor is
\* the last symbol before checked a CR.
Scanned ==
    /\ \A i \in (start + 1)..Len(stream) : buf[i] = stream[i]
    /\ \A i \in (start + 1)..checked : stream[i] \notin {"CR", "LF"}
    /\ checked > 0 => buf[checked] # "CR"

\* What state, length and linger tell of the lines before start.
InRequestLine == state = "requestline" /\ start = 0 /\ keepAlive = FALSE /\ length = 0
InHeader ==
    /\ state = "header" /\ start >= 3
    /\ FirstLine(stream) /\ LinesTo(stream, start) /\ stream[start] = "LF"
    /\ length = LengthTo(stream, start) /\ (keepAlive <=> KeepTo(stream, start))
InContent ==
    /\ state = "content"
    /\ \E h \in 4..start :
           /\ FirstLine(stream) /\ HeadEndsAt(stream, h)
           /\ length = LengthTo(stream, h) /\ (keepAlive <=> KeepTo(stream, h - 2))
Remembered == InRequestLine \/ InHeader \/ InContent

\* ProcessRead has returned because no line ends where checked stands.
NoLineYet ==
    checked < Len(stream) =>
        /\ stream[checked + 1] \in {"CR", "LF"}
        /\ ~(checked + 2 <= Len(stream) /\ stream[checked + 1] = "CR" /\ stream[checked + 2] = "LF")

ParserInv ==
    /\ parserPc \in {"read", "parse", "done", "closed"}
    /\ parserPc \in {"read", "parse"} => Indices /\ Scanned /\ Remembered
    /\ parserPc = "read" => NoLineYet
    /\ parserPc = "done" => P!AnswersAreRight

\* Where the loop of ParseLine stops.
LEMMA EndIs ==
    ASSUME Indices
    PROVE  /\ P!EndOfLine \in checked..Len(buf)
           /\ \A i \in (checked + 1)..P!EndOfLine : buf[i] \notin {"CR", "LF"}
           /\ P!EndOfLine < Len(buf) => buf[P!EndOfLine + 1] \in {"CR", "LF"}
<1> DEFINE T == {i \in checked..(Len(buf) - 1) : buf[i + 1] \in {"CR", "LF"}}
           ends == {i \in checked..(P!ReadIdx - 1) : P!At(i) \in {"CR", "LF"}}
<1>1. Len(buf) \in Nat /\ checked \in 0..Len(buf)
    BY DEF Indices
<1>2. ends = T
    BY DEF P!ReadIdx, P!At
<1>3. P!EndOfLine = IF T = {} THEN Len(buf) ELSE P!Min(T)
  <2>1. P!EndOfLine = IF ends = {} THEN P!ReadIdx ELSE P!Min(ends)
      BY DEF P!EndOfLine
  <2> HIDE DEF ends, T
  <2> QED BY <1>2, <2>1 DEF P!ReadIdx
<1>4. CASE T = {}
  <2>1. P!EndOfLine = Len(buf)
      BY <1>3, <1>4
  <2>2. ASSUME NEW i \in (checked + 1)..Len(buf) PROVE buf[i] \notin {"CR", "LF"}
    <3>1. i - 1 \in checked..(Len(buf) - 1) /\ (i - 1) + 1 = i
        BY <1>1
    <3> QED BY <1>4, <3>1
  <2> HIDE DEF T
  <2> QED BY <1>1, <2>1, <2>2
<1>5. CASE T # {}
  <2>1. T \in SUBSET Nat
      BY <1>1
  <2>2. PICK m \in T : \A y \in T : m <= y
      BY <1>5, <2>1, LowestIsOne
  <2>3. P!Min(T) = m
      BY <2>1, <2>2, ParserMin
  <2>4. P!EndOfLine = m
      BY <1>3, <1>5, <2>3
  <2>5. m \in checked..(Len(buf) - 1) /\ buf[m + 1] \in {"CR", "LF"}
      OBVIOUS
  <2>6. ASSUME NEW i \in (checked + 1)..m PROVE buf[i] \notin {"CR", "LF"}
    <3>1. i - 1 \in checked..(Len(buf) - 1) /\ (i - 1) + 1 = i /\ ~(m <= i - 1)
        BY <1>1, <2>5
    <3>2. i - 1 \notin T
        BY <2>2, <3>1
    <3> QED BY <3>1, <3>2
  <2> HIDE DEF T
  <2> QED BY <1>1, <2>4, <2>5, <2>6
<1> QED BY <1>4, <1>5

\* A line that ParseLine finds ends with CR and LF behind what had been looked at.
LEMMA LineIs ==
    ASSUME Indices, Scanned, P!LineOk
    PROVE  /\ P!CrLf(P!EndOfLine)
           /\ P!EndOfLine \in checked..(Len(stream) - 2)
           /\ \A i \in (start + 1)..P!EndOfLine : stream[i] \notin {"CR", "LF"}
           /\ stream[P!EndOfLine + 1] = "CR" /\ stream[P!EndOfLine + 2] = "LF"
<1> DEFINE e == P!EndOfLine
<1>1. /\ Len(buf) = Len(stream) /\ Len(buf) \in Nat /\ checked \in 0..Len(buf)
      /\ start \in 0..checked
    BY DEF Indices
<1>2. /\ e \in checked..Len(buf)
      /\ \A i \in (checked + 1)..e : buf[i] \notin {"CR", "LF"}
    BY EndIs
<1> HIDE DEF e
<1>3. ~P!LfAfterCr(e)
  <2> SUFFICES ASSUME P!LfAfterCr(e) PROVE FALSE
      OBVIOUS
  <2>1. e < Len(buf) /\ e > 1 /\ buf[e] = "CR"
    <3>1. e - 1 + 1 = e
        BY <1>1, <1>2
    <3> QED BY <3>1 DEF P!LfAfterCr, P!At, P!ReadIdx
  <2>2. CASE e = checked
      BY <1>1, <2>1, <2>2 DEF Scanned
  <2>3. CASE e # checked
      BY <1>1, <1>2, <2>1, <2>3
  <2> QED BY <2>2, <2>3
<1>4. P!CrLf(e)
    BY <1>3 DEF P!LineOk, e
<1>5. e + 1 < Len(buf) /\ buf[e + 1] = "CR" /\ buf[e + 2] = "LF"
  <2>1. e + 1 + 1 = e + 2
      BY <1>1, <1>2
  <2> QED BY <1>4, <2>1 DEF P!CrLf, P!At, P!ReadIdx
<1>6. \A i \in (start + 1)..e : stream[i] \notin {"CR", "LF"}
  <2> SUFFICES ASSUME NEW i \in (start + 1)..e PROVE stream[i] \notin {"CR", "LF"}
      OBVIOUS
  <2>1. CASE i <= checked
      BY <1>1, <2>1 DEF Scanned
  <2>2. CASE i > checked
      BY <1>1, <1>2, <2>2 DEF Scanned
  <2> QED BY <1>1, <1>2, <2>1, <2>2
<1>7. stream[e + 1] = "CR" /\ stream[e + 2] = "LF"
    BY <1>1, <1>2, <1>5 DEF Scanned
<1> QED BY <1>1, <1>2, <1>4, <1>5, <1>6, <1>7 DEF e

\* What a turn of the loop that takes a line leaves behind.
LEMMA LineIsTaken ==
    ASSUME ParserInv, NEW at, P!LineTurn(at)
    PROVE  /\ Indices /\ Scanned /\ Remembered /\ state = at /\ stream' = stream
           /\ P!EndOfLine \in checked..(Len(stream) - 2) /\ Len(stream) \in Nat
           /\ start \in 0..checked /\ checked \in Nat
           /\ \A i \in (start + 1)..P!EndOfLine : stream[i] \notin {"CR", "LF"}
           /\ stream[P!EndOfLine + 1] = "CR" /\ stream[P!EndOfLine + 2] = "LF"
           /\ checked' = P!EndOfLine + 2 /\ start' = P!EndOfLine + 2
           /\ P!Text = SubSeq(buf, start + 1, P!EndOfLine)
           /\ keepAlive' \in BOOLEAN /\ length' \in Int => Indices' /\ Scanned'
<1> DEFINE e == P!EndOfLine
<1>1. /\ Indices /\ Scanned /\ Remembered /\ P!LineOk /\ P!TakeLine /\ start' = checked'
      /\ state = at /\ stream' = stream
    BY DEF ParserInv, P!LineTurn
<1>2. /\ P!CrLf(e) /\ e \in checked..(Len(stream) - 2)
      /\ \A i \in (start + 1)..e : stream[i] \notin {"CR", "LF"}
      /\ stream[e + 1] = "CR" /\ stream[e + 2] = "LF"
    BY <1>1, LineIs
<1>3. /\ Len(buf) = Len(stream) /\ Len(stream) \in Nat /\ checked \in 0..Len(stream)
      /\ start \in 0..checked /\ buf \in Seq(Alphabet \cup {"NUL"})
    BY <1>1 DEF Indices
<1>4. buf' = [buf EXCEPT ![e + 1] = "NUL", ![e + 2] = "NUL"] /\ checked' = e + 2
    BY <1>1, <1>2 DEF P!TakeLine
<1>5. P!Text = SubSeq(buf, start + 1, e)
    BY <1>2 DEF P!Text
<1> HIDE DEF e
<1>6. /\ buf' \in Seq(Alphabet \cup {"NUL"}) /\ Len(buf') = Len(buf)
      /\ \A i \in 1..Len(buf) : buf'[i] = IF i \in {e + 1, e + 2} THEN "NUL" ELSE buf[i]
  <2> DEFINE b == [buf EXCEPT ![e + 1] = "NUL"]
             A == Alphabet \cup {"NUL"}
  <2>1. e + 1 \in 1..Len(buf) /\ e + 2 \in 1..Len(buf) /\ "NUL" \in A
      BY <1>2, <1>3
  <2>2. b \in Seq(A) /\ Len(b) = Len(buf) /\ \A i \in 1..Len(buf) : b[i] = IF i = e + 1 THEN "NUL" ELSE buf[i]
      BY <1>3, <2>1, ExceptSeq
  <2>3. buf' = [b EXCEPT ![e + 2] = "NUL"]
      BY <1>4
  <2> HIDE DEF b, A
  <2>4. buf' \in Seq(A) /\ Len(buf') = Len(b)
        /\ \A i \in 1..Len(b) : buf'[i] = IF i = e + 2 THEN "NUL" ELSE b[i]
      BY <2>1, <2>2, <2>3, ExceptSeq
  <2> QED BY <2>2, <2>4 DEF A
<1>7. Scanned'
  <2>1. \A i \in (e + 3)..Len(stream) : buf'[i] = stream[i]
      BY <1>1, <1>2, <1>3, <1>6 DEF Scanned
  <2>2. buf'[e + 2] = "NUL"
      BY <1>2, <1>3, <1>6
  <2>3. checked' = e + 2 /\ start' = e + 2 /\ e + 2 + 1 = e + 3 /\ stream' = stream /\ e + 3 > e + 2
      BY <1>1, <1>2, <1>3, <1>4
  <2>4. (e + 3)..(e + 2) = {}
      BY <1>2, <1>3
  <2> QED BY <2>1, <2>2, <2>3, <2>4 DEF Scanned
<1>8. ASSUME keepAlive' \in BOOLEAN, length' \in Int PROVE Indices'
  <2>1. checked' \in 0..Len(stream') /\ start' \in 0..checked'
      BY <1>1, <1>2, <1>3, <1>4
  <2> QED BY <1>1, <1>3, <1>6, <1>8, <2>1 DEF Indices
<1> QED BY <1>1, <1>2, <1>3, <1>4, <1>5, <1>7, <1>8 DEF e

\* The text of a line.
LEMMA TextIs ==
    ASSUME Indices, Scanned, NEW e \in start..Len(stream), NEW t, t = SubSeq(buf, start + 1, e)
    PROVE  /\ t = <<>> <=> e = start
           /\ e > start => Head(t) = stream[start + 1]
           /\ t = <<"keep">> <=> e = start + 1 /\ stream[start + 1] = "keep"
<1> DEFINE A == Alphabet \cup {"NUL"}
<1>1. /\ Len(buf) = Len(stream) /\ Len(stream) \in Nat /\ start \in Nat /\ buf \in Seq(A)
    BY DEF Indices
<1>2. \A i \in (start + 1)..e : buf[i] \in A
    BY <1>1, ElementOfSeq
<1> HIDE DEF A
<1>3. /\ t \in Seq(A) /\ Len(t) = IF start + 1 <= e THEN e - (start + 1) + 1 ELSE 0
      /\ \A i \in 1..(e - (start + 1) + 1) : t[i] = buf[start + 1 + i - 1]
    BY <1>1, <1>2, SubSeqProperties
<1>4. Len(t) = e - start
    BY <1>1, <1>3
<1>5. ASSUME e > start PROVE t[1] = stream[start + 1]
  <2>1. 1 \in 1..(e - (start + 1) + 1) /\ start + 1 + 1 - 1 = start + 1
      BY <1>1, <1>5
  <2>2. t[1] = buf[start + 1]
      BY <1>3, <2>1
  <2> QED BY <1>1, <1>5, <2>2 DEF Scanned
<1>6. t = <<>> <=> e = start
    BY <1>1, <1>3, <1>4
<1>7. t = <<"keep">> <=> Len(t) = 1 /\ t[1] = "keep"
    BY <1>3, OneSymbol
<1>8. t = <<"keep">> <=> e = start + 1 /\ stream[start + 1] = "keep"
    BY <1>1, <1>4, <1>5, <1>7
<1>9. ASSUME e > start PROVE Head(t) = t[1]
    BY <1>3, <1>4, <1>6, <1>9
<1> QED BY <1>5, <1>6, <1>8, <1>9

\* What one more line adds to the announced length and the wish to keep the connection.
LEMMA LineAdds ==
    ASSUME NEW s, NEW a \in Nat, NEW e \in Nat, a >= 3, a <= e, s[a] = "LF",
           \A i \in (a + 1)..e : s[i] \notin {"CR", "LF"}, s[e + 1] = "CR", s[e + 2] = "LF"
    PROVE  /\ P!HasHeader(s, e + 2, "len") <=> P!HasHeader(s, a, "len") \/ s[a + 1] = "len"
           /\ KeepTo(s, e + 2) <=> KeepTo(s, a) \/ (e = a + 1 /\ s[a + 1] = "keep")
<1>1. ASSUME NEW i \in 2..(e + 2), s[i - 1] = "LF" PROVE i \in 2..(a + 1)
  <2>1. i - 1 \notin (a + 1)..e /\ i - 1 # e + 1
      BY <1>1
  <2> QED BY <2>1
<1>2. a + 1 \in 2..(e + 1) /\ (a + 1) - 1 = a /\ \A i \in 2..a : i \in 2..(e + 2)
    OBVIOUS
<1>3. P!HasHeader(s, e + 2, "len") => P!HasHeader(s, a, "len") \/ s[a + 1] = "len"
  <2> SUFFICES ASSUME NEW i \in 2..(e + 2), s[i - 1] = "LF", s[i] = "len"
               PROVE  P!HasHeader(s, a, "len") \/ s[a + 1] = "len"
      BY DEF P!HasHeader
  <2>1. i \in 2..a \/ i = a + 1
      BY <1>1
  <2> QED BY <2>1 DEF P!HasHeader
<1>4. P!HasHeader(s, a, "len") \/ s[a + 1] = "len" => P!HasHeader(s, e + 2, "len")
  <2>1. ASSUME s[a + 1] = "len" PROVE P!HasHeader(s, e + 2, "len")
    <3>1. a + 1 \in 2..(e + 2)
        BY <1>2
    <3> QED BY <1>2, <2>1, <3>1 DEF P!HasHeader
  <2>2. ASSUME P!HasHeader(s, a, "len") PROVE P!HasHeader(s, e + 2, "len")
      BY <1>2, <2>2 DEF P!HasHeader
  <2> QED BY <2>1, <2>2
<1>5. ASSUME NEW i \in 2..(e + 2 - 1), s[i - 1] = "LF", s[i] = "keep", s[i + 1] = "CR"
      PROVE  KeepTo(s, a) \/ (e = a + 1 /\ s[a + 1] = "keep")
  <2>1. i \in 2..(a - 1) \/ i = a + 1
    <3>1. i # a
        BY <1>5
    <3> QED BY <1>1, <1>5, <3>1
  <2>2. CASE i = a + 1
    <3>1. a + 2 \notin (a + 1)..e /\ e # a
        BY <1>5, <2>2
    <3> QED BY <1>5, <2>2, <3>1
  <2> QED BY <1>5, <2>1, <2>2 DEF KeepTo
<1>6. ASSUME e = a + 1, s[a + 1] = "keep" PROVE KeepTo(s, e + 2)
  <2>1. a + 1 \in 2..(e + 2 - 1) /\ s[(a + 1) - 1] = "LF" /\ s[(a + 1) + 1] = "CR"
      BY <1>2, <1>6
  <2> QED BY <1>6, <2>1 DEF KeepTo
<1>7. ASSUME KeepTo(s, a) PROVE KeepTo(s, e + 2)
  <2>1. \A i \in 2..(a - 1) : i \in 2..(e + 2 - 1)
      OBVIOUS
  <2> QED BY <1>7, <2>1 DEF KeepTo
<1>8. KeepTo(s, e + 2) => KeepTo(s, a) \/ (e = a + 1 /\ s[a + 1] = "keep")
    BY <1>5 DEF KeepTo
<1> QED BY <1>3, <1>4, <1>6, <1>7, <1>8

\* While no line ends where checked stands, none of the head has been missed.
LEMMA NothingToAnswer ==
    ASSUME ParserInv, parserPc = "read", state # "content"
    PROVE  P!Verdict(stream) = "NO_REQUEST"
<1>1. /\ stream \in Seq(Alphabet) /\ Len(stream) \in Nat /\ checked \in 0..Len(stream)
      /\ start \in 0..checked /\ Scanned /\ NoLineYet
    BY DEF ParserInv, Indices
<1>2. (InRequestLine /\ start = 0) \/ (InHeader /\ start >= 3 /\ stream[start] = "LF")
    BY DEF ParserInv, Remembered, InContent, InRequestLine, InHeader
<1>3. ASSUME NEW n \in (checked + 1)..Len(stream), P!CleanLines(stream, n), stream[n] = "LF" PROVE FALSE
  <2> DEFINE c == checked + 1
  <2>0. c \in 1..n /\ c - 1 = checked /\ c + 1 = checked + 2
      BY <1>1
  <2>1. stream[c] \in {"CR", "LF"} /\ ~(c + 1 <= Len(stream) /\ stream[c] = "CR" /\ stream[c + 1] = "LF")
      BY <1>1, <2>0 DEF NoLineYet
  <2>2. CASE stream[c] = "CR"
    <3>1. c < n /\ stream[c + 1] = "LF"
        BY <2>0, <2>2, <1>3 DEF P!CleanLines
    <3> QED BY <1>1, <2>0, <2>1, <2>2, <3>1
  <2>3. CASE stream[c] = "LF"
    <3>1. c > 1 /\ stream[checked] = "CR"
        BY <2>0, <2>3, <1>3 DEF P!CleanLines
    <3>2. checked \notin (start + 1)..checked
        BY <3>1, <1>1 DEF Scanned
    <3>3. checked = start
        BY <1>1, <2>0, <3>1, <3>2
    <3> QED BY <1>2, <2>0, <3>1, <3>3
  <2> QED BY <2>1, <2>2, <2>3
<1>4. CASE InRequestLine
  <2>1. start = 0
      BY <1>4 DEF InRequestLine
  <2>2. ASSUME NEW n \in P!FirstLineEnds(stream) PROVE FALSE
    <3>1. n \in 2..Len(stream) /\ stream[n] = "LF" /\ P!CleanLines(stream, n)
        BY <2>2 DEF P!FirstLineEnds
    <3>2. n \notin 1..checked
        BY <1>1, <2>1, <3>1 DEF Scanned
    <3>3. n \in (checked + 1)..Len(stream)
        BY <1>1, <3>1, <3>2
    <3> QED BY <1>3, <3>1, <3>3
  <2>3. P!FirstLineEnds(stream) = {}
      BY <2>2
  <2> QED BY <2>3 DEF P!Verdict
<1>5. CASE InHeader
  <2>1. FirstLine(stream) /\ LinesTo(stream, start)
      BY <1>5 DEF InHeader
  <2>2. ASSUME NEW n \in P!HeadEnds(stream) PROVE FALSE
    <3>1. /\ n \in 4..Len(stream) /\ SubSeq(stream, n - 3, n) = <<"CR", "LF", "CR", "LF">>
          /\ P!CleanLines(stream, n)
        BY <2>2 DEF P!HeadEnds
    <3>2. stream[n - 2] = "LF" /\ stream[n] = "LF"
        BY <1>1, <3>1, FourInARow
    <3>3. n \notin 1..start
        BY <1>1, <2>1, <3>1, <3>2 DEF LinesTo
    <3>4. n \notin (start + 1)..checked
        BY <1>1, <3>2 DEF Scanned
    <3>5. n \in (checked + 1)..Len(stream)
        BY <1>1, <3>1, <3>3, <3>4
    <3> QED BY <1>3, <3>1, <3>2, <3>5
  <2>3. P!HeadEnds(stream) = {}
      BY <2>2
  <2>4. /\ P!FirstLineEnds(stream) # {}
        /\ SubSeq(stream, 1, P!Min(P!FirstLineEnds(stream)) - 2) = <<"get">>
      BY <1>1, <2>1, FirstIsGet
  <2> QED BY <2>3, <2>4 DEF P!Verdict
<1> QED BY <1>2, <1>4, <1>5

\* What is known of the lines before start does not change with what comes in.
LEMMA ReadKeeps ==
    ASSUME ParserInv, NEW bytes \in Seq(Alphabet), P!Read(bytes)
    PROVE  ParserInv'
<1>1. /\ Indices /\ Scanned /\ Remembered /\ parserPc' = "parse"
      /\ buf' = buf \o bytes /\ stream' = stream \o bytes
      /\ UNCHANGED <<checked, start, state, keepAlive, length, result>>
    BY DEF ParserInv, P!Read
<1> DEFINE A == Alphabet \cup {"NUL"}
<1>2. /\ stream \in Seq(Alphabet) /\ buf \in Seq(A) /\ bytes \in Seq(A)
      /\ Len(buf) = Len(stream) /\ Len(stream) \in Nat /\ Len(bytes) \in Nat
      /\ checked \in 0..Len(stream) /\ start \in 0..checked
    BY <1>1 DEF Indices
<1>3. /\ stream' \in Seq(Alphabet) /\ Len(stream') = Len(stream) + Len(bytes)
      /\ \A i \in 1..(Len(stream) + Len(bytes)) :
             stream'[i] = IF i <= Len(stream) THEN stream[i] ELSE bytes[i - Len(stream)]
    BY <1>1, <1>2, ConcatProperties
<1> HIDE DEF A
<1>4. /\ buf' \in Seq(A) /\ Len(buf') = Len(buf) + Len(bytes)
      /\ \A i \in 1..(Len(buf) + Len(bytes)) :
             buf'[i] = IF i <= Len(buf) THEN buf[i] ELSE bytes[i - Len(buf)]
    BY <1>1, <1>2, ConcatProperties
<1>5. Indices'
    BY <1>1, <1>2, <1>3, <1>4 DEF Indices, A
<1>6. \A i \in 1..Len(stream) : stream'[i] = stream[i] /\ buf'[i] = buf[i]
    BY <1>2, <1>3, <1>4
<1>7. Scanned'
  <2>1. \A i \in (start + 1)..Len(stream') : buf'[i] = stream'[i]
    <3> SUFFICES ASSUME NEW i \in (start + 1)..(Len(stream) + Len(bytes)) PROVE buf'[i] = stream'[i]
        BY <1>3
    <3>1. CASE i <= Len(stream)
        BY <1>1, <1>2, <1>6, <3>1 DEF Scanned
    <3>2. CASE i > Len(stream)
      <4>1. i \in 1..(Len(stream) + Len(bytes)) /\ ~(i <= Len(stream))
          BY <1>2, <3>2
      <4>2. stream'[i] = bytes[i - Len(stream)]
          BY <1>3, <4>1
      <4>3. buf'[i] = bytes[i - Len(stream)]
          BY <1>2, <1>4, <4>1
      <4> QED BY <4>2, <4>3
    <3> QED BY <1>2, <3>1, <3>2
  <2>2. \A i \in (start + 1)..checked : stream'[i] = stream[i]
      BY <1>2, <1>6
  <2>3. checked > 0 => buf'[checked] = buf[checked]
      BY <1>2, <1>6
  <2> QED BY <1>1, <2>1, <2>2, <2>3 DEF Scanned
<1>8. ASSUME NEW n \in 0..Len(stream)
      PROVE  /\ LinesTo(stream, n) => LinesTo(stream', n)
             /\ P!HasHeader(stream', n, "len") <=> P!HasHeader(stream, n, "len")
             /\ KeepTo(stream', n) <=> KeepTo(stream, n)
  <2>1. n \in Nat /\ \A i \in 1..n : stream'[i] = stream[i]
      BY <1>2, <1>6
  <2>2. LinesTo(stream, n) => LinesTo(stream', n)
    <3> SUFFICES ASSUME LinesTo(stream, n) PROVE LinesTo(stream', n)
        OBVIOUS
    <3>1. \A i \in 1..n : stream'[i] = "CR" => i < n /\ stream'[i + 1] = "LF"
        BY <2>1 DEF LinesTo
    <3>2. \A i \in 1..n : stream'[i] = "LF" =>
              i > 1 /\ stream'[i - 1] = "CR" /\ (i > 2 => stream'[i - 2] # "LF")
        BY <2>1 DEF LinesTo
    <3> QED BY <3>1, <3>2 DEF LinesTo
  <2>3. P!HasHeader(stream', n, "len") <=> P!HasHeader(stream, n, "len")
    <3>1. \A i \in 2..n : stream'[i - 1] = stream[i - 1] /\ stream'[i] = stream[i]
        BY <2>1
    <3> QED BY <3>1 DEF P!HasHeader
  <2>4. KeepTo(stream', n) <=> KeepTo(stream, n)
    <3>1. \A i \in 2..(n - 1) :
              stream'[i - 1] = stream[i - 1] /\ stream'[i] = stream[i] /\ stream'[i + 1] = stream[i + 1]
        BY <2>1
    <3> QED BY <3>1 DEF KeepTo
  <2> QED BY <2>2, <2>3, <2>4
<1>9. FirstLine(stream) => FirstLine(stream')
    BY <1>2, <1>3, <1>6 DEF FirstLine
<1>10. CASE InRequestLine
    BY <1>1, <1>5, <1>7, <1>10 DEF ParserInv, Remembered, InRequestLine
<1>11. CASE InHeader
  <2>1. InHeader'
    <3>1. start \in 0..Len(stream) /\ start >= 3 /\ start \in 1..Len(stream)
        BY <1>2, <1>11 DEF InHeader
    <3>2. stream'[start] = stream[start]
        BY <1>6, <3>1
    <3>3. LengthTo(stream', start) = LengthTo(stream, start)
        BY <1>8, <3>1 DEF LengthTo
    <3> QED BY <1>1, <1>8, <1>9, <1>11, <3>1, <3>2, <3>3 DEF InHeader
  <2> QED BY <1>1, <1>5, <1>7, <2>1 DEF ParserInv, Remembered
<1>12. CASE InContent
  <2>1. PICK h \in 4..start :
            /\ FirstLine(stream) /\ HeadEndsAt(stream, h)
            /\ length = LengthTo(stream, h) /\ (keepAlive <=> KeepTo(stream, h - 2))
      BY <1>12 DEF InContent
  <2>2. h \in 4..Len(stream) /\ h \in 0..Len(stream) /\ h - 2 \in 0..Len(stream)
      BY <1>2
  <2>3. HeadEndsAt(stream', h)
    <3>1. h \in 4..Len(stream')
        BY <1>2, <1>3, <2>2
    <3>2. LinesTo(stream', h - 2)
        BY <1>8, <2>1, <2>2 DEF HeadEndsAt
    <3>3. /\ stream'[h - 3] = stream[h - 3] /\ stream'[h - 2] = stream[h - 2]
          /\ stream'[h - 1] = stream[h - 1] /\ stream'[h] = stream[h]
        BY <1>2, <1>6, <2>2
    <3> QED BY <2>1, <3>1, <3>2, <3>3 DEF HeadEndsAt
  <2>4. LengthTo(stream', h) = LengthTo(stream, h)
      BY <1>8, <2>2 DEF LengthTo
  <2>5. KeepTo(stream', h - 2) <=> KeepTo(stream, h - 2)
      BY <1>8, <2>2
  <2>6. InContent'
      BY <1>1, <1>9, <1>12, <2>1, <2>3, <2>4, <2>5 DEF InContent
  <2> QED BY <1>1, <1>5, <1>7, <2>6 DEF ParserInv, Remembered
<1> QED BY <1>1, <1>10, <1>11, <1>12 DEF Remembered

\* A new connection.
LEMMA ParserInit == P!Init => ParserInv
<1> SUFFICES ASSUME P!Init PROVE ParserInv
    OBVIOUS
<1>1. /\ buf = <<>> /\ stream = <<>> /\ checked = 0 /\ start = 0 /\ state = "requestline"
      /\ keepAlive = FALSE /\ length = 0 /\ parserPc = "read"
    BY DEF P!Init
<1>2. Indices
  <2>1. /\ stream \in Seq(Alphabet) /\ buf \in Seq(Alphabet \cup {"NUL"})
        /\ Len(stream) = 0 /\ Len(buf) = 0
      BY <1>1
  <2>2. checked \in 0..0 /\ start \in 0..checked /\ length \in Int
      BY <1>1
  <2>3. keepAlive \in BOOLEAN
      BY <1>1
  <2> QED BY <2>1, <2>2, <2>3 DEF Indices
<1>3. Scanned
    BY <1>1 DEF Scanned
<1>4. NoLineYet
    BY <1>1 DEF NoLineYet
<1>5. Remembered
    BY <1>1 DEF Remembered, InRequestLine
<1> QED BY <1>1, <1>2, <1>3, <1>4, <1>5 DEF ParserInv

\* Init() for what comes next is a new connection.
LEMMA RestartKeeps == ParserInv /\ P!Restart => ParserInv'
<1> SUFFICES ASSUME P!Restart PROVE ParserInv'
    OBVIOUS
<1>1. /\ buf' = <<>> /\ stream' = <<>> /\ checked' = 0 /\ start' = 0 /\ state' = "requestline"
      /\ keepAlive' = FALSE /\ length' = 0 /\ parserPc' = "read"
    BY DEF P!Restart
<1>2. Indices'
  <2>1. /\ stream' \in Seq(Alphabet) /\ buf' \in Seq(Alphabet \cup {"NUL"})
        /\ Len(stream') = 0 /\ Len(buf') = 0
      BY <1>1
  <2>2. checked' \in 0..0 /\ start' \in 0..checked' /\ length' \in Int
      BY <1>1
  <2>3. keepAlive' \in BOOLEAN
      BY <1>1
  <2> QED BY <2>1, <2>2, <2>3 DEF Indices
<1>3. Scanned'
    BY <1>1 DEF Scanned
<1>4. NoLineYet'
    BY <1>1 DEF NoLineYet
<1>5. Remembered'
    BY <1>1 DEF Remembered, InRequestLine
<1> QED BY <1>1, <1>2, <1>3, <1>4, <1>5 DEF ParserInv

\* ParseLine finds no line and remembers how far it looked.
LEMMA LineNotOkKeeps == ParserInv /\ P!LineNotOk => ParserInv'
<1> SUFFICES ASSUME ParserInv, P!LineNotOk PROVE ParserInv'
    OBVIOUS
<1> DEFINE e == P!EndOfLine
<1>1. /\ Indices /\ Scanned /\ Remembered /\ ~P!LineOk
      /\ checked' = e /\ parserPc' = "read"
      /\ UNCHANGED <<buf, start, state, keepAlive, length, line, result, stream>>
    BY DEF ParserInv, P!LineNotOk
<1>2. /\ Len(buf) = Len(stream) /\ Len(stream) \in Nat /\ checked \in 0..Len(stream)
      /\ start \in 0..checked
    BY <1>1 DEF Indices
<1>3. /\ e \in checked..Len(stream)
      /\ \A i \in (checked + 1)..e : buf[i] \notin {"CR", "LF"}
      /\ e < Len(stream) => buf[e + 1] \in {"CR", "LF"}
    BY <1>1, <1>2, EndIs
<1>4. ~P!CrLf(e)
    BY <1>1 DEF P!LineOk
<1> HIDE DEF e
<1>5. Indices'
    BY <1>1, <1>2, <1>3 DEF Indices
<1>6. Scanned'
  <2>1. ASSUME NEW i \in (start + 1)..e PROVE stream[i] \notin {"CR", "LF"}
    <3>1. CASE i <= checked
        BY <1>1, <1>2, <3>1 DEF Scanned
    <3>2. CASE i > checked
        BY <1>1, <1>2, <1>3, <3>2 DEF Scanned
    <3> QED BY <1>2, <1>3, <3>1, <3>2
  <2>2. ASSUME e > 0 PROVE buf[e] # "CR"
    <3>1. e = checked \/ e \in (checked + 1)..e
        BY <1>2, <1>3
    <3> QED BY <1>1, <1>3, <2>2, <3>1 DEF Scanned
  <2> QED BY <1>1, <2>1, <2>2 DEF Scanned
<1>7. NoLineYet'
  <2> SUFFICES ASSUME e < Len(stream)
               PROVE  /\ stream[e + 1] \in {"CR", "LF"}
                      /\ ~(e + 2 <= Len(stream) /\ stream[e + 1] = "CR" /\ stream[e + 2] = "LF")
      BY <1>1 DEF NoLineYet
  <2>1. e + 1 \in (start + 1)..Len(stream) /\ stream[e + 1] = buf[e + 1]
      BY <1>1, <1>2, <1>3 DEF Scanned
  <2>2. e + 2 <= Len(stream) => stream[e + 2] = buf[e + 2]
      BY <1>1, <1>2, <1>3 DEF Scanned
  <2>3. e + 2 <= Len(stream) => ~(buf[e + 1] = "CR" /\ buf[e + 2] = "LF")
    <3>1. e + 1 + 1 = e + 2 /\ (e + 2 <= Len(stream) => e + 1 < Len(buf))
        BY <1>2, <1>3
    <3> QED BY <1>4, <3>1 DEF P!CrLf, P!At, P!ReadIdx
  <2> QED BY <1>3, <2>1, <2>2, <2>3
<1>8. Remembered'
    BY <1>1 DEF Remembered, InRequestLine, InHeader, InContent
<1> QED BY <1>1, <1>5, <1>6, <1>7, <1>8 DEF ParserInv

\* ParseRequestLine: the first line is the one a whole stream would be judged by.
LEMMA RequestLineKeeps == ParserInv /\ P!ParseRequestLine => ParserInv'
<1> SUFFICES ASSUME ParserInv, P!ParseRequestLine PROVE ParserInv'
    OBVIOUS
<1> DEFINE e == P!EndOfLine
<1>1. /\ P!LineTurn("requestline") /\ UNCHANGED <<keepAlive, length>>
      /\ IF P!Text = <<"get">> THEN state' = "header" /\ UNCHANGED <<parserPc, result>>
         ELSE UNCHANGED state /\ P!Answer("BAD_REQUEST")
    BY DEF P!ParseRequestLine
<1>2. /\ Indices /\ Scanned /\ Remembered /\ state = "requestline" /\ stream' = stream
      /\ e \in checked..(Len(stream) - 2) /\ Len(stream) \in Nat
      /\ start \in 0..checked /\ checked \in Nat
      /\ \A i \in (start + 1)..e : stream[i] \notin {"CR", "LF"}
      /\ stream[e + 1] = "CR" /\ stream[e + 2] = "LF"
      /\ checked' = e + 2 /\ start' = e + 2
      /\ P!Text = SubSeq(buf, start + 1, e)
      /\ keepAlive' \in BOOLEAN /\ length' \in Int => Indices' /\ Scanned'
    BY <1>1, LineIsTaken
<1> HIDE DEF e
<1>3. start = 0 /\ keepAlive = FALSE /\ length = 0
    BY <1>2 DEF Remembered, InRequestLine, InHeader, InContent
<1>4. /\ Indices' /\ Scanned' /\ stream \in Seq(Alphabet)
      /\ buf \in Seq(Alphabet \cup {"NUL"}) /\ Len(buf) = Len(stream)
    BY <1>1, <1>2, <1>3 DEF Indices
<1>5. e \in 0..Len(stream) /\ e \in 0..(Len(stream) - 2) /\ e \in Nat
    BY <1>2
<1>6. P!Text = <<"get">> <=> e = 1 /\ stream[1] = "get"
  <2>1. P!Text = SubSeq(buf, 1, e)
      BY <1>2, <1>3
  <2>2. P!Text = <<"get">> <=> e = 1 /\ buf[1] = "get"
      BY <1>4, <1>5, <2>1, GetIsLine
  <2>3. e = 1 => buf[1] = stream[1]
      BY <1>2, <1>3 DEF Scanned
  <2> QED BY <2>2, <2>3
<1>7. \A i \in 1..e : stream[i] \notin {"CR", "LF"}
    BY <1>2, <1>3
<1>8. CASE P!Text = <<"get">>
  <2>1. e = 1 /\ stream[1] = "get" /\ stream[2] = "CR" /\ stream[3] = "LF" /\ start' = 3
    <3>1. e = 1 /\ stream[1] = "get"
        BY <1>6, <1>8
    <3>2. e + 1 = 2 /\ e + 2 = 3
        BY <3>1
    <3>3. stream[e + 1] = "CR" /\ stream[e + 2] = "LF" /\ start' = e + 2
        BY <1>2
    <3> QED BY <3>1, <3>2, <3>3
  <2>2. FirstLine(stream)
      BY <1>2, <2>1 DEF FirstLine
  <2>3. LinesTo(stream, 3)
      BY <2>1 DEF LinesTo
  <2>4. ~P!HasHeader(stream, 3, "len") /\ ~KeepTo(stream, 3)
    <3>1. \A i \in 2..3 : stream[i] # "len" /\ stream[i] # "keep"
        BY <2>1
    <3> QED BY <3>1 DEF P!HasHeader, KeepTo
  <2>5. InHeader'
    <3>1. length' = LengthTo(stream, 3) /\ (keepAlive' <=> KeepTo(stream, 3))
        BY <1>1, <1>3, <2>4 DEF LengthTo
    <3>2. state' = "header" /\ stream' = stream /\ start' = 3 /\ stream[3] = "LF"
        BY <1>1, <1>2, <1>8, <2>1
    <3> QED BY <2>2, <2>3, <3>1, <3>2 DEF InHeader
  <2>6. parserPc' = "parse"
      BY <1>1, <1>8 DEF P!LineTurn
  <2> QED BY <1>4, <2>5, <2>6 DEF ParserInv, Remembered
<1>9. CASE P!Text # <<"get">>
  <2>1. result' = "BAD_REQUEST" /\ parserPc' = "done"
      BY <1>1, <1>9 DEF P!Answer
  <2>2. P!FirstLineEnds(stream) # {} /\ P!Min(P!FirstLineEnds(stream)) = e + 2
      BY <1>2, <1>4, <1>5, <1>7, FirstLineIs
  <2>3. (e + 2) - 2 = e
      BY <1>5
  <2>4. SubSeq(stream, 1, e) # <<"get">>
      BY <1>4, <1>5, <1>6, <1>9, GetIsLine
  <2>5. P!Verdict(stream) = "BAD_REQUEST"
      BY <2>2, <2>3, <2>4 DEF P!Verdict
  <2>6. P!AnswersAreRight'
      BY <1>2, <2>1, <2>5 DEF P!AnswersAreRight
  <2> QED BY <2>1, <2>6 DEF ParserInv
<1> QED BY <1>8, <1>9

\* What the headers before the line tell, and what the line adds.
LEMMA HeaderTurn ==
    ASSUME ParserInv, P!LineTurn("header"), NEW e, e = P!EndOfLine
    PROVE  /\ InHeader /\ start \in 3..e /\ e \in Nat /\ e + 2 <= Len(stream)
           /\ stream \in Seq(Alphabet) /\ Len(stream) \in Nat /\ stream' = stream
           /\ start' = e + 2 /\ (start < e => LinesTo(stream, e + 2))
           /\ stream[e + 1] = "CR" /\ stream[e + 2] = "LF"
           /\ P!HasHeader(stream, e + 2, "len") <=>
                  P!HasHeader(stream, start, "len") \/ stream[start + 1] = "len"
           /\ KeepTo(stream, e + 2) <=>
                  KeepTo(stream, start) \/ (e = start + 1 /\ stream[start + 1] = "keep")
           /\ P!Text = <<>> <=> e = start
           /\ e > start => Head(P!Text) = stream[start + 1]
           /\ P!Text = <<"keep">> <=> e = start + 1 /\ stream[start + 1] = "keep"
           /\ keepAlive' \in BOOLEAN /\ length' \in Int => Indices' /\ Scanned'
<1>1. /\ Indices /\ Scanned /\ Remembered /\ state = "header" /\ stream' = stream
      /\ e \in checked..(Len(stream) - 2) /\ Len(stream) \in Nat
      /\ start \in 0..checked /\ checked \in Nat
      /\ \A i \in (start + 1)..e : stream[i] \notin {"CR", "LF"}
      /\ stream[e + 1] = "CR" /\ stream[e + 2] = "LF"
      /\ checked' = e + 2 /\ start' = e + 2
      /\ P!Text = SubSeq(buf, start + 1, e)
      /\ keepAlive' \in BOOLEAN /\ length' \in Int => Indices' /\ Scanned'
    BY LineIsTaken
<1>2. InHeader /\ start >= 3 /\ LinesTo(stream, start) /\ stream[start] = "LF"
    BY <1>1 DEF Remembered, InRequestLine, InHeader, InContent
<1>3. /\ start \in 3..e /\ e \in Nat /\ e + 2 <= Len(stream) /\ start \in Nat
      /\ e \in start..Len(stream)
    BY <1>1, <1>2
<1>4. start < e => LinesTo(stream, e + 2)
    BY <1>1, <1>2, <1>3, LineTaken
<1>5. Indices /\ Scanned /\ stream \in Seq(Alphabet)
    BY <1>1 DEF Indices
<1>6. /\ P!Text = <<>> <=> e = start
      /\ e > start => Head(P!Text) = stream[start + 1]
      /\ P!Text = <<"keep">> <=> e = start + 1 /\ stream[start + 1] = "keep"
    BY <1>1, <1>3, <1>5, TextIs
<1>7. /\ P!HasHeader(stream, e + 2, "len") <=>
             P!HasHeader(stream, start, "len") \/ stream[start + 1] = "len"
      /\ KeepTo(stream, e + 2) <=>
             KeepTo(stream, start) \/ (e = start + 1 /\ stream[start + 1] = "keep")
    BY <1>1, <1>2, <1>3, LineAdds
<1> QED BY <1>1, <1>2, <1>3, <1>4, <1>5, <1>6, <1>7

\* ParseHeader: one more header line.
LEMMA HeaderKeeps == ASSUME ParserAssumption PROVE ParserInv /\ P!ParseHeader => ParserInv'
<1> SUFFICES ASSUME ParserInv, P!ParseHeader PROVE ParserInv'
    OBVIOUS
<1> DEFINE e == P!EndOfLine
<1>1. /\ P!LineTurn("header") /\ P!Text # <<>>
      /\ keepAlive' = (keepAlive \/ P!Text = <<"keep">>)
      /\ length' = IF Head(P!Text) = "len" THEN ContentLength ELSE length
      /\ UNCHANGED <<state, parserPc, result>>
    BY DEF P!ParseHeader
<1>2. /\ InHeader /\ start \in 3..e /\ e \in Nat /\ e + 2 <= Len(stream)
      /\ Len(stream) \in Nat /\ stream' = stream
      /\ start' = e + 2 /\ (start < e => LinesTo(stream, e + 2))
      /\ stream[e + 1] = "CR" /\ stream[e + 2] = "LF"
      /\ P!HasHeader(stream, e + 2, "len") <=>
             P!HasHeader(stream, start, "len") \/ stream[start + 1] = "len"
      /\ KeepTo(stream, e + 2) <=>
             KeepTo(stream, start) \/ (e = start + 1 /\ stream[start + 1] = "keep")
      /\ P!Text = <<>> <=> e = start
      /\ e > start => Head(P!Text) = stream[start + 1]
      /\ P!Text = <<"keep">> <=> e = start + 1 /\ stream[start + 1] = "keep"
      /\ keepAlive' \in BOOLEAN /\ length' \in Int => Indices' /\ Scanned'
    BY <1>1, HeaderTurn
<1> HIDE DEF e
<1>3. /\ state = "header" /\ FirstLine(stream) /\ length = LengthTo(stream, start)
      /\ (keepAlive <=> KeepTo(stream, start)) /\ parserPc = "parse"
      /\ keepAlive \in BOOLEAN /\ length \in Int
    BY <1>1, <1>2 DEF InHeader, ParserInv, Indices, P!LineTurn
<1>4. e > start
    BY <1>1, <1>2
<1>5. Head(P!Text) = stream[start + 1] /\ LinesTo(stream, e + 2)
    BY <1>2, <1>4
<1>6. length' = LengthTo(stream, e + 2)
  <2>1. CASE stream[start + 1] = "len"
      BY <1>1, <1>2, <1>5, <2>1 DEF LengthTo
  <2>2. CASE stream[start + 1] # "len"
      BY <1>1, <1>2, <1>3, <1>5, <2>2 DEF LengthTo
  <2> QED BY <2>1, <2>2
<1>7. keepAlive' <=> KeepTo(stream, e + 2)
    BY <1>1, <1>2, <1>3
<1>8. keepAlive' \in BOOLEAN /\ length' \in Int
    BY <1>1, <1>3, <1>6 DEF ParserAssumption, LengthTo
<1>9. InHeader'
  <2>1. start' >= 3 /\ stream'[start'] = "LF"
      BY <1>2
  <2> QED BY <1>1, <1>2, <1>3, <1>5, <1>6, <1>7, <2>1 DEF InHeader
<1> QED BY <1>1, <1>2, <1>3, <1>8, <1>9 DEF ParserInv, Remembered

\* ParseEmptyLine: the head ends, and so does the request unless a body was announced.
LEMMA EmptyLineKeeps == ASSUME ParserAssumption PROVE ParserInv /\ P!ParseEmptyLine => ParserInv'
<1> SUFFICES ASSUME ParserInv, P!ParseEmptyLine PROVE ParserInv'
    OBVIOUS
<1> DEFINE e == P!EndOfLine
<1>1. /\ P!LineTurn("header") /\ P!Text = <<>> /\ UNCHANGED <<keepAlive, length>>
      /\ IF length # 0 THEN state' = "content" /\ UNCHANGED <<parserPc, result>>
         ELSE UNCHANGED state /\ P!Answer("GET_REQUEST")
    BY DEF P!ParseEmptyLine
<1>2. /\ InHeader /\ start \in 3..e /\ e \in Nat /\ e + 2 <= Len(stream)
      /\ stream \in Seq(Alphabet) /\ Len(stream) \in Nat /\ stream' = stream
      /\ start' = e + 2 
      /\ stream[e + 1] = "CR" /\ stream[e + 2] = "LF"
      /\ P!HasHeader(stream, e + 2, "len") <=>
             P!HasHeader(stream, start, "len") \/ stream[start + 1] = "len"
      /\ P!Text = <<>> <=> e = start
      /\ keepAlive' \in BOOLEAN /\ length' \in Int => Indices' /\ Scanned'
    BY <1>1, HeaderTurn
<1> HIDE DEF e
<1>3. /\ FirstLine(stream) /\ LinesTo(stream, start) /\ stream[start] = "LF"
      /\ length = LengthTo(stream, start) /\ (keepAlive <=> KeepTo(stream, start))
      /\ parserPc = "parse" /\ keepAlive \in BOOLEAN /\ length \in Int
    BY <1>1, <1>2 DEF InHeader, ParserInv, Indices, P!LineTurn
<1>4. e = start /\ start \in Nat /\ start >= 3
    BY <1>1, <1>2
<1>5. HeadEndsAt(stream, start + 2)
  <2>1. stream[start - 1] = "CR"
      BY <1>3, <1>4 DEF LinesTo
  <2>2. /\ start + 2 - 2 = start /\ start + 2 - 3 = start - 1 /\ start + 2 - 1 = start + 1
        /\ start + 2 \in 4..Len(stream)
      BY <1>2, <1>4
  <2> QED BY <1>2, <1>3, <1>4, <2>1, <2>2 DEF HeadEndsAt
<1>6. length = LengthTo(stream, start + 2)
  <2>1. stream[start + 1] # "len"
      BY <1>2, <1>4
  <2> QED BY <1>2, <1>3, <1>4, <2>1 DEF LengthTo
<1>7. start + 2 - 2 = start
    BY <1>4
<1>8. CASE length # 0
  <2>1. InContent'
    <3>1. start + 2 \in 4..start' /\ state' = "content"
        BY <1>1, <1>2, <1>4, <1>8
    <3>2. length' = LengthTo(stream', start + 2) /\ (keepAlive' <=> KeepTo(stream', (start + 2) - 2))
        BY <1>1, <1>2, <1>3, <1>6, <1>7
    <3>3. FirstLine(stream') /\ HeadEndsAt(stream', start + 2)
        BY <1>2, <1>3, <1>5
    <3> QED BY <3>1, <3>2, <3>3 DEF InContent
  <2> QED BY <1>1, <1>2, <1>3, <1>8, <2>1 DEF ParserInv, Remembered
<1>9. CASE length = 0
  <2>1. result' = "GET_REQUEST" /\ parserPc' = "done" /\ keepAlive' = keepAlive
      BY <1>1, <1>9 DEF P!Answer
  <2>2. Len(stream) >= start + 2 + LengthTo(stream, start + 2)
      BY <1>2, <1>4, <1>6, <1>9
  <2>3. P!Verdict(stream) = "GET_REQUEST" /\ (P!KeepAliveAsked(stream) <=> KeepTo(stream, start))
      BY <1>2, <1>3, <1>5, <1>7, <2>2, RequestIsComplete
  <2>4. P!KeepAliveAsked(stream) \in BOOLEAN
      BY DEF P!KeepAliveAsked
  <2>5. P!AnswersAreRight'
      BY <1>2, <1>3, <2>1, <2>3, <2>4 DEF P!AnswersAreRight
  <2> QED BY <2>1, <2>5 DEF ParserInv
<1> QED BY <1>8, <1>9

\* Once the body is there from a place behind the head, so is the request.
LEMMA BodyIsThere ==
    ASSUME ParserAssumption, Indices, Remembered, state = "content", NEW n \in Nat, n >= start,
           P!BodyComplete(n)
    PROVE  P!Verdict(stream) = "GET_REQUEST" /\ (keepAlive = P!KeepAliveAsked(stream))
<1>1. PICK h \in 4..start : /\ FirstLine(stream) /\ HeadEndsAt(stream, h)
                            /\ length = LengthTo(stream, h) /\ (keepAlive <=> KeepTo(stream, h - 2))
    BY DEF Remembered, InRequestLine, InHeader, InContent
<1>2. /\ stream \in Seq(Alphabet) /\ Len(stream) \in Nat /\ Len(buf) = Len(stream)
      /\ length \in Int /\ start \in Nat /\ keepAlive \in BOOLEAN
    BY DEF Indices
<1>3. Len(stream) >= h + LengthTo(stream, h)
    BY <1>1, <1>2 DEF P!BodyComplete, P!ReadIdx
<1>4. P!Verdict(stream) = "GET_REQUEST" /\ (P!KeepAliveAsked(stream) <=> KeepTo(stream, h - 2))
    BY <1>1, <1>2, <1>3, RequestIsComplete
<1>5. P!KeepAliveAsked(stream) \in BOOLEAN
    BY DEF P!KeepAliveAsked
<1> QED BY <1>1, <1>2, <1>4, <1>5

\* ParseContent: the body is complete, or the next turn looks for a line in it.
LEMMA ContentKeeps == ASSUME ParserAssumption PROVE ParserInv /\ P!ParseContent => ParserInv'
<1> SUFFICES ASSUME ParserInv, P!ParseContent PROVE ParserInv'
    OBVIOUS
<1>1. /\ parserPc = "parse" /\ state = "content" /\ start' = checked
      /\ IF P!BodyComplete(checked) THEN P!Answer("GET_REQUEST") ELSE UNCHANGED <<parserPc, result>>
      /\ UNCHANGED <<buf, checked, state, keepAlive, length, stream>>
    BY DEF P!ParseContent, P!BodyTurn
<1>2. /\ Indices /\ Scanned /\ Remembered /\ InContent
      /\ checked \in Nat /\ start \in Nat /\ start <= checked
      /\ Len(stream) \in Nat
    BY <1>1 DEF ParserInv, Remembered, InRequestLine, InHeader, Indices
<1>3. CASE P!BodyComplete(checked)
  <2>1. P!Verdict(stream) = "GET_REQUEST" /\ keepAlive = P!KeepAliveAsked(stream)
      BY <1>1, <1>2, <1>3, BodyIsThere
  <2>2. result' = "GET_REQUEST" /\ parserPc' = "done"
      BY <1>1, <1>3 DEF P!Answer
  <2>3. P!AnswersAreRight'
      BY <1>1, <2>1, <2>2 DEF P!AnswersAreRight
  <2> QED BY <2>2, <2>3 DEF ParserInv
<1>4. CASE ~P!BodyComplete(checked)
  <2>1. Indices'
      BY <1>1, <1>2 DEF Indices
  <2>2. Scanned'
    <3>1. (checked + 1)..checked = {}
        BY <1>2
    <3>2. \A i \in (checked + 1)..Len(stream) : i \in (start + 1)..Len(stream)
        BY <1>2
    <3> QED BY <1>1, <1>2, <3>1, <3>2 DEF Scanned
  <2>3. InContent'
    <3>1. \A h \in 4..start : h \in 4..checked
        BY <1>2
    <3> QED BY <1>1, <1>2, <3>1 DEF InContent
  <2> QED BY <1>1, <1>4, <2>1, <2>2, <2>3 DEF ParserInv, Remembered
<1> QED BY <1>3, <1>4

\* A line inside the body: the body is complete behind it, or the loop ends.
LEMMA ContentLineKeeps == ASSUME ParserAssumption PROVE ParserInv /\ P!ParseContentLine => ParserInv'
<1> SUFFICES ASSUME ParserInv, P!ParseContentLine PROVE ParserInv'
    OBVIOUS
<1> DEFINE e == P!EndOfLine
<1>1. /\ P!LineTurn("content") /\ UNCHANGED <<state, keepAlive, length>>
      /\ IF P!BodyComplete(checked') THEN P!Answer("GET_REQUEST") ELSE UNCHANGED <<parserPc, result>>
    BY DEF P!ParseContentLine
<1>2. /\ Indices /\ Scanned /\ Remembered /\ state = "content" /\ stream' = stream
      /\ e \in checked..(Len(stream) - 2) /\ Len(stream) \in Nat
      /\ start \in 0..checked /\ checked \in Nat
      /\ checked' = e + 2 /\ start' = e + 2
      /\ keepAlive' \in BOOLEAN /\ length' \in Int => Indices' /\ Scanned'
    BY <1>1, LineIsTaken
<1> HIDE DEF e
<1>3. Indices' /\ Scanned' /\ e + 2 \in Nat /\ e + 2 >= start /\ start \in Nat
    BY <1>1, <1>2 DEF Indices
<1>4. InContent
    BY <1>2 DEF Remembered, InRequestLine, InHeader
<1>5. parserPc = "parse"
    BY <1>1 DEF P!LineTurn
<1>6. CASE P!BodyComplete(checked')
  <2>1. P!BodyComplete(e + 2)
      BY <1>2, <1>6
  <2>2. P!Verdict(stream) = "GET_REQUEST" /\ keepAlive = P!KeepAliveAsked(stream)
      BY <1>2, <1>3, <2>1, BodyIsThere
  <2>3. result' = "GET_REQUEST" /\ parserPc' = "done"
      BY <1>1, <1>6 DEF P!Answer
  <2>4. P!AnswersAreRight'
      BY <1>1, <1>2, <2>2, <2>3 DEF P!AnswersAreRight
  <2> QED BY <2>3, <2>4 DEF ParserInv
<1>7. CASE ~P!BodyComplete(checked')
  <2>1. InContent'
    <3>1. \A h \in 4..start : h \in 4..start'
        BY <1>2, <1>3
    <3> QED BY <1>1, <1>2, <1>4, <3>1 DEF InContent
  <2> QED BY <1>1, <1>3, <1>5, <1>7, <2>1 DEF ParserInv, Remembered
<1> QED BY <1>6, <1>7

\* What BoundedSeq gives are sequences.
LEMMA PiecesAreSequences == P!BoundedSeq(Alphabet, MaxChunk) \subseteq Seq(Alphabet)
<1> SUFFICES ASSUME NEW s \in P!BoundedSeq(Alphabet, MaxChunk) PROVE s \in Seq(Alphabet)
    OBVIOUS
<1>1. PICK n \in 0..MaxChunk : s \in [1..n -> Alphabet]
    BY DEF P!BoundedSeq, P!SeqOf
<1> QED BY <1>1

\* The invariant is inductive.
LEMMA ParserStep == ASSUME ParserAssumption PROVE ParserInv /\ [P!Next]_(P!vars) => ParserInv'
<1> SUFFICES ASSUME ParserInv, [P!Next]_(P!vars) PROVE ParserInv'
    OBVIOUS
<1>1. ASSUME NEW bytes \in P!BoundedSeq(Alphabet, MaxChunk), P!Read(bytes) PROVE ParserInv'
    BY <1>1, ReadKeeps, PiecesAreSequences
<1>2. ASSUME NEW bytes \in P!BoundedSeq(Alphabet, MaxChunk), P!ReadFull(bytes) PROVE ParserInv'
    BY <1>2 DEF P!ReadFull, ParserInv
<1>3. CASE P!ReadFails
    BY <1>3 DEF P!ReadFails, ParserInv
<1>4. CASE P!LineNotOk
    BY <1>4, LineNotOkKeeps
<1>5. CASE P!ParseRequestLine
    BY <1>5, RequestLineKeeps
<1>6. CASE P!ParseEmptyLine
    BY <1>6, EmptyLineKeeps
<1>7. CASE P!ParseHeader
    BY <1>7, HeaderKeeps
<1>8. CASE P!ParseContent
    BY <1>8, ContentKeeps
<1>9. CASE P!ParseContentLine
    BY <1>9, ContentLineKeeps
<1>10. CASE P!Restart
    BY <1>10, RestartKeeps
<1>11. CASE UNCHANGED P!vars
  <2>1. UNCHANGED <<buf, checked, start, state, keepAlive, length, line, parserPc, result, stream>>
      BY <1>11 DEF P!vars, P!parserVars
  <2> QED BY <2>1 DEF ParserInv, Indices, Scanned, Remembered, InRequestLine, InHeader, InContent,
                      NoLineYet, P!AnswersAreRight
<1> QED BY <1>1, <1>2, <1>3, <1>4, <1>5, <1>6, <1>7, <1>8, <1>9, <1>10, <1>11 DEF P!Next

\* Wherever the network cuts a stream, and whatever it carries, ProcessRead answers what
\* the whole of it deserves, and nothing is missed while it waits for more of the head.
THEOREM PiecesDoNotMatter ==
    ASSUME ParserAssumption
    PROVE  P!Spec => []AnswersAreRight
<1>1. P!Init => ParserInv
    BY ParserInit
<1>2. ParserInv /\ [P!Next]_(P!vars) => ParserInv'
    BY ParserStep
<1>3. ParserInv => AnswersAreRight
    BY NothingToAnswer DEF ParserInv, AnswersAreRight, P!AnswersAreRight, P!NothingMissed
<1> QED BY <1>1, <1>2, <1>3, PTL DEF P!Spec

(***************************************************************************)
(* RequestReader                                                           *)
(***************************************************************************)

\* What Min of FiniteSetsExt returns for a set of numbers.
LEMMA ReaderMin ==
    ASSUME NEW S \in SUBSET Nat, NEW k \in S, \A j \in S : k <= j
    PROVE  R!Min(S) = k
<1> DEFINE m == CHOOSE x \in S : \A y \in S : x <= y
<1>1. m \in S /\ \A y \in S : m <= y
    OBVIOUS
<1>2. R!Min(S) = m
    BY DEF R!Min
<1> HIDE DEF m
<1> QED BY <1>1, <1>2

\* The ends of lines, the CRs and LFs that stand alone, and the ends of empty lines.
CrLfs(s) == {k \in 2..Len(s) : s[k - 1] = "CR" /\ s[k] = "LF"}
Alone(s) ==
    {k \in 1..(Len(s) - 1) : s[k] = "CR" /\ s[k + 1] # "LF"}
        \cup {k \in 1..Len(s) : s[k] = "LF" /\ k \notin CrLfs(s)}
EmptyLines(s) == {k \in CrLfs(s) : k - 2 \in CrLfs(s)}
NoRequest(s) ==
    CrLfs(s) # {} /\ SubSeq(s, 1, R!Min(CrLfs(s))) # <<"get", "CR", "LF">>

\* Verdict by these names.
LEMMA VerdictIs ==
    ASSUME NEW s
    PROVE  /\ NoRequest(s) => R!Verdict(s) = "wrong"
           /\ Alone(s) # {} /\ (\A k \in EmptyLines(s) : \E j \in Alone(s) : j < k) =>
                  R!Verdict(s) = "wrong"
           /\ ~NoRequest(s) /\ (\E k \in EmptyLines(s) : \A j \in Alone(s) : ~(j < k)) =>
                  R!Verdict(s) = "right"
           /\ ~NoRequest(s) /\ Alone(s) = {} /\ EmptyLines(s) = {} => R!Verdict(s) = "none"
<1> DEFINE before == \A k \in EmptyLines(s) : \E j \in Alone(s) : j < k
<1>1. R!Verdict(s) =
          CASE NoRequest(s) \/ (Alone(s) # {} /\ before) -> "wrong"
            [] ~NoRequest(s) /\ EmptyLines(s) # {} /\ ~before -> "right"
            [] OTHER -> "none"
    BY DEF R!Verdict, NoRequest, EmptyLines, Alone, CrLfs
<1>2. (\E k \in EmptyLines(s) : \A j \in Alone(s) : ~(j < k)) <=> ~before
    OBVIOUS
<1>3. ~before => EmptyLines(s) # {}
    OBVIOUS
<1>4. EmptyLines(s) = {} => before
    OBVIOUS
<1> HIDE DEF before
<1> QED BY <1>1, <1>2, <1>3, <1>4

ReaderTypes ==
    /\ buffer \in Seq(ReaderSymbols)
    /\ readerChecked \in 0..Len(buffer) /\ startLine \in 0..readerChecked
    /\ where \in {"recv", "parse", "done"}

\* start_line is 0 or behind a line, and the first line is a request line.
Parsed ==
    /\ LinesTo(buffer, startLine)
    /\ \/ checkState = "requestline" /\ startLine = 0
       \/ /\ checkState = "header" /\ startLine >= 3 /\ buffer[startLine] = "LF"
          /\ buffer[1] = "get" /\ buffer[2] = "CR" /\ buffer[3] = "LF"

\* Between start_line and checked_index there is neither CR nor LF.
Plain(from, to) == \A i \in (from + 1)..to : buffer[i] \notin {"CR", "LF"}

\* The server receives when only a CR at the end may be left to look at.
AllChecked ==
    \/ readerChecked = Len(buffer)
    \/ readerChecked + 1 = Len(buffer) /\ buffer[Len(buffer)] = "CR"

ReaderInv ==
    /\ ReaderTypes
    /\ where # "done" => answer = "none" /\ Parsed /\ Plain(startLine, readerChecked)
    /\ where = "recv" => AllChecked
    /\ where = "done" => answer = R!Verdict(buffer)

\* A request line is its one symbol, CR and LF.
LEMMA IsRequestLine ==
    ASSUME NEW s \in Seq(ReaderSymbols), NEW n \in 0..Len(s)
    PROVE  /\ SubSeq(s, 1, n) = <<"get", "CR", "LF">> <=>
                  n = 3 /\ s[1] = "get" /\ s[2] = "CR" /\ s[3] = "LF"
           /\ SubSeq(s, 1, n) = <<"get">> <=> n = 1 /\ s[1] = "get"
<1> DEFINE t == SubSeq(s, 1, n)
<1>1. t \in Seq(ReaderSymbols) /\ Len(t) = n /\ \A i \in 1..n : t[i] = s[i]
    BY InitialOf
<1>2. Len(s) \in Nat /\ n \in Nat
    OBVIOUS
<1> HIDE DEF t
<1>3. ASSUME t = <<"get", "CR", "LF">>
      PROVE  n = 3 /\ s[1] = "get" /\ s[2] = "CR" /\ s[3] = "LF"
    BY <1>1, <1>2, <1>3
<1>4. ASSUME n = 3, s[1] = "get", s[2] = "CR", s[3] = "LF" PROVE t = <<"get", "CR", "LF">>
    BY <1>1, <1>4
<1>5. ASSUME t = <<"get">> PROVE n = 1 /\ s[1] = "get"
    BY <1>1, <1>2, <1>5
<1>6. ASSUME n = 1, s[1] = "get" PROVE t = <<"get">>
    BY <1>1, <1>6
<1> QED BY <1>3, <1>4, <1>5, <1>6 DEF t

\* Where the loop of parse_line stops.
LEMMA StopIs ==
    ASSUME ReaderTypes
    PROVE  /\ R!Stop \in readerChecked..Len(buffer)
           /\ Plain(readerChecked, R!Stop)
           /\ R!Stop < Len(buffer) => buffer[R!Stop + 1] \in {"CR", "LF"}
<1> DEFINE T == {k \in readerChecked..(Len(buffer) - 1) : buffer[k + 1] \in {"CR", "LF"}}
                    \cup {Len(buffer)}
<1>1. Len(buffer) \in Nat /\ readerChecked \in 0..Len(buffer)
    BY DEF ReaderTypes
<1>2. T \in SUBSET Nat /\ Len(buffer) \in T
    BY <1>1
<1>3. PICK m \in T : \A y \in T : m <= y
    BY <1>2, LowestIsOne
<1>4. R!Stop = m
    BY <1>2, <1>3, ReaderMin DEF R!Stop
<1>5. m \in readerChecked..Len(buffer) /\ (m < Len(buffer) => buffer[m + 1] \in {"CR", "LF"})
    BY <1>1
<1>6. Plain(readerChecked, m)
  <2> SUFFICES ASSUME NEW i \in (readerChecked + 1)..m, buffer[i] \in {"CR", "LF"} PROVE FALSE
      BY DEF Plain
  <2>1. i - 1 \in readerChecked..(Len(buffer) - 1) /\ (i - 1) + 1 = i
      BY <1>1, <1>5
  <2>2. i - 1 \in T
      BY <2>1
  <2>3. ~(m <= i - 1)
      BY <1>1, <1>5
  <2> QED BY <1>3, <2>2, <2>3
<1> QED BY <1>4, <1>5, <1>6

\* Nothing is decided while every CR and LF but the last CR ends a line.
LEMMA NothingDecided ==
    ASSUME ReaderInv, where = "recv"
    PROVE  R!Verdict(buffer) = "none"
<1> DEFINE n == Len(buffer)
<1>1. /\ n \in Nat /\ readerChecked \in 0..n /\ startLine \in 0..readerChecked
      /\ AllChecked /\ LinesTo(buffer, startLine) /\ Plain(startLine, readerChecked)
    BY DEF ReaderInv, ReaderTypes, Parsed
<1>2. \A i \in (startLine + 1)..n : buffer[i] = "CR" => i = n
    BY <1>1 DEF AllChecked, Plain
<1>3. \A i \in (startLine + 1)..n : buffer[i] # "LF"
    BY <1>1 DEF AllChecked, Plain
<1>4. \A k \in CrLfs(buffer) : k \in 2..startLine /\ buffer[k] = "LF"
    BY <1>1, <1>3 DEF CrLfs
<1>5. Alone(buffer) = {}
  <2>1. ASSUME NEW k \in 1..(n - 1), buffer[k] = "CR" PROVE buffer[k + 1] = "LF"
      BY <1>1, <1>2, <2>1 DEF LinesTo
  <2>2. ASSUME NEW k \in 1..n, buffer[k] = "LF" PROVE k \in CrLfs(buffer)
      BY <1>1, <1>3, <2>2 DEF LinesTo, CrLfs
  <2> QED BY <2>1, <2>2 DEF Alone
<1>6. EmptyLines(buffer) = {}
  <2> SUFFICES ASSUME NEW k \in EmptyLines(buffer) PROVE FALSE
      OBVIOUS
  <2>1. k \in 2..startLine /\ buffer[k] = "LF" /\ k - 2 >= 2 /\ buffer[k - 2] = "LF"
      BY <1>1, <1>4 DEF EmptyLines
  <2> QED BY <1>1, <2>1 DEF LinesTo
<1>7. ~NoRequest(buffer)
  <2> SUFFICES ASSUME CrLfs(buffer) # {}
               PROVE  SubSeq(buffer, 1, R!Min(CrLfs(buffer))) = <<"get", "CR", "LF">>
      BY DEF NoRequest
  <2>1. startLine # 0
      BY <1>1, <1>4
  <2>2. startLine >= 3 /\ buffer[1] = "get" /\ buffer[2] = "CR" /\ buffer[3] = "LF"
      BY <2>1 DEF ReaderInv, Parsed
  <2>3. R!Min(CrLfs(buffer)) = 3
    <3>1. 3 \in CrLfs(buffer) /\ 2 \notin CrLfs(buffer) /\ CrLfs(buffer) \subseteq 2..n
        BY <1>1, <2>2 DEF CrLfs
    <3>2. \A j \in CrLfs(buffer) : 3 <= j
        BY <1>1, <3>1
    <3> QED BY <1>1, <3>1, <3>2, ReaderMin
  <2>4. buffer \in Seq(ReaderSymbols) /\ 3 <= n
      BY <1>1, <2>2 DEF ReaderInv, ReaderTypes
  <2> QED BY <1>1, <2>2, <2>3, <2>4, IsRequestLine
<1> QED BY <1>5, <1>6, <1>7, VerdictIs

\* What holds of the place where a line has been found.
LEMMA LineFound ==
    ASSUME ReaderInv, R!TakeLine
    PROVE  /\ R!Stop \in startLine..(Len(buffer) - 2) /\ Len(buffer) \in Nat
           /\ startLine \in Nat /\ Parsed
           /\ Plain(startLine, R!Stop)
           /\ buffer[R!Stop + 1] = "CR" /\ buffer[R!Stop + 2] = "LF"
           /\ readerChecked' = R!Stop + 2 /\ startLine' = R!Stop + 2 /\ buffer' = buffer
           /\ answer = "none" /\ where = "parse"
<1>1. /\ ReaderTypes /\ where = "parse" /\ answer = "none" /\ Parsed
      /\ Plain(startLine, readerChecked)
    BY DEF ReaderInv, R!TakeLine
<1>2. /\ R!Stop \in readerChecked..Len(buffer) /\ Plain(readerChecked, R!Stop)
    BY <1>1, StopIs
<1>3. Len(buffer) \in Nat /\ readerChecked \in 0..Len(buffer) /\ startLine \in 0..readerChecked
    BY <1>1 DEF ReaderTypes
<1>4. /\ R!Stop + 1 < Len(buffer) /\ buffer[R!Stop + 1] = "CR" /\ buffer[R!Stop + 2] = "LF"
      /\ readerChecked' = R!Stop + 2 /\ startLine' = R!Stop + 2 /\ buffer' = buffer
    BY DEF R!TakeLine, R!LineOk
<1>5. Plain(startLine, R!Stop)
    BY <1>1, <1>2, <1>3 DEF Plain
<1> QED BY <1>1, <1>2, <1>3, <1>4, <1>5

\* ReaderInv holds at the beginning.
LEMMA ReaderInit == R!Init => ReaderInv
<1> SUFFICES ASSUME R!Init PROVE ReaderInv
    OBVIOUS
<1>1. buffer = <<>> /\ readerChecked = 0 /\ startLine = 0 /\ where = "recv" /\ answer = "none"
      /\ checkState = "requestline"
    BY DEF R!Init
<1>2. buffer \in Seq(ReaderSymbols) /\ Len(buffer) = 0
    BY <1>1, EmptySeq
<1>3. ReaderTypes /\ AllChecked
    BY <1>1, <1>2 DEF ReaderTypes, AllChecked
<1>4. Parsed /\ Plain(startLine, readerChecked)
    BY <1>1 DEF Parsed, LinesTo, Plain
<1> QED BY <1>1, <1>3, <1>4 DEF ReaderInv

\* Every step of the server of 8-6 keeps its invariant.
LEMMA ReaderStep ==
    ASSUME ReaderInv, [R!Next]_(R!readerVars)
    PROVE  ReaderInv'
<1>1. CASE UNCHANGED R!readerVars
    BY <1>1 DEF R!readerVars, ReaderInv, ReaderTypes, Parsed, Plain, AllChecked
<1>2. CASE R!Receive
  <2>1. PICK n \in 1..MaxPiece : \E piece \in [1..n -> ReaderSymbols] : buffer' = buffer \o piece
      BY <1>2 DEF R!Receive
  <2>2. PICK piece \in [1..n -> ReaderSymbols] : buffer' = buffer \o piece
      BY <2>1
  <2>3. n \in Nat
      OBVIOUS
  <2>4. piece \in Seq(ReaderSymbols)
      BY <2>3
  <2>5. /\ where = "recv" /\ where' = "parse" /\ answer = "none" /\ ReaderTypes
        /\ Parsed /\ Plain(startLine, readerChecked)
        /\ UNCHANGED <<readerChecked, startLine, checkState, answer>>
      BY <1>2 DEF R!Receive, ReaderInv
  <2>6. /\ buffer \in Seq(ReaderSymbols) /\ Len(buffer) \in Nat
        /\ buffer' \in Seq(ReaderSymbols) /\ Len(buffer') = Len(buffer) + Len(piece) /\ Len(piece) \in Nat
        /\ \A i \in 1..Len(buffer) : buffer'[i] = buffer[i]
      BY <2>2, <2>4, <2>5, ConcatProperties DEF ReaderTypes
  <2>7. ReaderTypes'
      BY <2>5, <2>6 DEF ReaderTypes
  <2>8. Plain(startLine, readerChecked)'
      BY <2>5, <2>6 DEF ReaderTypes, Plain
  <2>9. Parsed'
    <3>1. startLine \in 0..Len(buffer)
        BY <2>5, <2>6 DEF ReaderTypes
    <3>2. startLine \in Nat /\ \A i \in 1..startLine : buffer'[i] = buffer[i]
        BY <2>6, <3>1
    <3>3. LinesTo(buffer, startLine)
        BY <2>5 DEF Parsed
    <3>4. \A i \in 1..startLine : buffer'[i] = "CR" => i < startLine /\ buffer'[i + 1] = "LF"
        BY <3>2, <3>3 DEF LinesTo
    <3>5. \A i \in 1..startLine : buffer'[i] = "LF" =>
              i > 1 /\ buffer'[i - 1] = "CR" /\ (i > 2 => buffer'[i - 2] # "LF")
        BY <3>2, <3>3 DEF LinesTo
    <3>6. LinesTo(buffer', startLine)
        BY <3>4, <3>5 DEF LinesTo
    <3>7. startLine >= 3 => buffer'[startLine] = buffer[startLine] /\ buffer'[1] = buffer[1]
                                /\ buffer'[2] = buffer[2] /\ buffer'[3] = buffer[3]
        BY <3>2
    <3> QED BY <2>5, <3>6, <3>7 DEF Parsed
  <2> QED BY <2>5, <2>7, <2>8, <2>9 DEF ReaderInv
<1>3. CASE R!ReceiveEnds
  <2>1. where = "recv" /\ where' = "done" /\ answer = "none"
        /\ UNCHANGED <<buffer, readerChecked, startLine, answer>>
      BY <1>3 DEF R!ReceiveEnds, ReaderInv
  <2>2. R!Verdict(buffer) = "none"
      BY <2>1, NothingDecided
  <2>3. ReaderTypes'
      BY <2>1 DEF ReaderInv, ReaderTypes
  <2> QED BY <2>1, <2>2, <2>3 DEF ReaderInv
<1>4. ASSUME R!TakeLine, where' \in {"parse", "done"} PROVE ReaderTypes'
    BY <1>4, LineFound DEF ReaderInv, ReaderTypes
<1>5. CASE R!RequestLine
  <2>1. R!TakeLine /\ R!Line = <<"get">> /\ checkState = "requestline" /\ checkState' = "header"
        /\ UNCHANGED <<where, answer>>
      BY <1>5 DEF R!RequestLine
  <2>2. startLine = 0
      BY <2>1, LineFound DEF Parsed
  <2>3. R!Stop = 1 /\ buffer[1] = "get"
    <3>1. R!Stop \in 0..Len(buffer) /\ buffer \in Seq(ReaderSymbols)
        BY <2>1, <2>2, LineFound DEF ReaderInv, ReaderTypes
    <3>2. SubSeq(buffer, 1, R!Stop) = <<"get">>
        BY <2>1, <2>2 DEF R!Line
    <3> QED BY <3>1, <3>2, IsRequestLine
  <2>4. startLine' = 3 /\ buffer[2] = "CR" /\ buffer[3] = "LF" /\ buffer' = buffer
        /\ readerChecked' = 3 /\ where = "parse" /\ answer = "none"
      BY <2>1, <2>3, LineFound
  <2>5. LinesTo(buffer, 3)
      BY <2>3, <2>4 DEF LinesTo
  <2>6. Parsed' /\ Plain(startLine, readerChecked)'
      BY <2>1, <2>3, <2>4, <2>5 DEF Parsed, Plain
  <2> QED BY <1>4, <2>1, <2>4, <2>6 DEF ReaderInv
<1>6. CASE R!BadRequestLine
  <2>1. /\ R!TakeLine /\ R!Line # <<"get">> /\ checkState = "requestline"
        /\ where' = "done" /\ answer' = "wrong"
      BY <1>6 DEF R!BadRequestLine, R!Reply
  <2>2. startLine = 0
      BY <2>1, LineFound DEF Parsed
  <2> DEFINE z == R!Stop
  <2>3. /\ z \in 0..(Len(buffer) - 2) /\ Len(buffer) \in Nat /\ buffer \in Seq(ReaderSymbols)
        /\ \A i \in 1..z : buffer[i] \notin {"CR", "LF"}
        /\ buffer[z + 1] = "CR" /\ buffer[z + 2] = "LF" /\ buffer' = buffer
      BY <2>1, <2>2, LineFound DEF Plain, ReaderInv, ReaderTypes
  <2>4. SubSeq(buffer, 1, z) # <<"get">>
      BY <2>1, <2>2 DEF R!Line
  <2> HIDE DEF z
  <2>5. z + 2 \in CrLfs(buffer) /\ \A j \in CrLfs(buffer) : z + 2 <= j
      BY <2>3 DEF CrLfs
  <2>6. R!Min(CrLfs(buffer)) = z + 2
    <3>1. CrLfs(buffer) \in SUBSET Nat
        BY <2>3 DEF CrLfs
    <3> QED BY <2>5, <3>1, ReaderMin
  <2>7. SubSeq(buffer, 1, z + 2) # <<"get", "CR", "LF">>
    <3> SUFFICES ASSUME SubSeq(buffer, 1, z + 2) = <<"get", "CR", "LF">> PROVE FALSE
        OBVIOUS
    <3>1. z = 1 /\ buffer[1] = "get"
        BY <2>3, IsRequestLine
    <3> QED BY <2>3, <2>4, <3>1, IsRequestLine
  <2>8. R!Verdict(buffer) = "wrong"
      BY <2>5, <2>6, <2>7, VerdictIs DEF NoRequest
  <2> QED BY <1>4, <2>1, <2>3, <2>8 DEF ReaderInv
<1>7. CASE R!Header
  <2>1. /\ R!TakeLine /\ R!Line # <<>> /\ checkState = "header"
        /\ UNCHANGED <<checkState, where, answer>>
      BY <1>7 DEF R!Header
  <2> DEFINE z == R!Stop
  <2>2. /\ z \in startLine..(Len(buffer) - 2) /\ Len(buffer) \in Nat /\ startLine \in Nat
        /\ Parsed /\ Plain(startLine, z) /\ buffer[z + 1] = "CR" /\ buffer[z + 2] = "LF"
        /\ readerChecked' = z + 2 /\ startLine' = z + 2 /\ buffer' = buffer
        /\ answer = "none" /\ where = "parse"
      BY <2>1, LineFound
  <2>3. z # startLine
    <3>1. SubSeq(buffer, startLine + 1, startLine) = <<>>
        BY <2>2, SubSeqEmpty
    <3> QED BY <2>1, <3>1 DEF R!Line
  <2> HIDE DEF z
  <2>4. LinesTo(buffer, z + 2)
      BY <2>2, <2>3, LineTaken DEF Parsed, Plain
  <2>5. Parsed' /\ Plain(startLine, readerChecked)'
      BY <2>1, <2>2, <2>4 DEF Parsed, Plain
  <2> QED BY <1>4, <2>1, <2>2, <2>5 DEF ReaderInv
<1>8. CASE R!EmptyLine
  <2>1. /\ R!TakeLine /\ R!Line = <<>> /\ checkState = "header"
        /\ where' = "done" /\ answer' = "right"
      BY <1>8 DEF R!EmptyLine, R!Reply
  <2> DEFINE z == startLine
  <2>2. R!Stop = startLine
    <3>1. R!Stop \in startLine..(Len(buffer) - 2) /\ startLine \in Nat /\ buffer \in Seq(ReaderSymbols)
          /\ Len(buffer) \in Nat
        BY <2>1, LineFound DEF ReaderInv, ReaderTypes
    <3>2. SubSeq(buffer, startLine + 1, R!Stop) = <<>>
        BY <2>1 DEF R!Line
    <3>3. \A i \in (startLine + 1)..R!Stop : buffer[i] \in ReaderSymbols
        BY <3>1, ElementOfSeq
    <3>4. Len(SubSeq(buffer, startLine + 1, R!Stop)) =
              IF startLine + 1 <= R!Stop THEN R!Stop - (startLine + 1) + 1 ELSE 0
        BY <3>1, <3>3, SubSeqProperties
    <3> QED BY <3>1, <3>2, <3>4
  <2>3. /\ z + 2 <= Len(buffer) /\ Len(buffer) \in Nat /\ z \in Nat /\ z >= 3
        /\ LinesTo(buffer, z) /\ buffer[z] = "LF"
        /\ buffer[1] = "get" /\ buffer[2] = "CR" /\ buffer[3] = "LF"
        /\ buffer[z + 1] = "CR" /\ buffer[z + 2] = "LF" /\ buffer' = buffer
        /\ buffer \in Seq(ReaderSymbols)
      BY <2>1, <2>2, LineFound DEF Parsed, ReaderInv, ReaderTypes
  <2>4. ~NoRequest(buffer)
    <3>1. 3 \in CrLfs(buffer) /\ 2 \notin CrLfs(buffer) /\ CrLfs(buffer) \subseteq 2..Len(buffer)
        BY <2>3 DEF CrLfs
    <3>2. \A j \in CrLfs(buffer) : 3 <= j
        BY <2>3, <3>1
    <3>3. R!Min(CrLfs(buffer)) = 3
        BY <2>3, <3>1, <3>2, ReaderMin
    <3>4. SubSeq(buffer, 1, 3) = <<"get", "CR", "LF">>
        BY <2>3, IsRequestLine
    <3> QED BY <3>3, <3>4 DEF NoRequest
  <2>5. z + 2 \in EmptyLines(buffer)
    <3>1. z - 1 >= 1 /\ buffer[z - 1] = "CR"
        BY <2>3 DEF LinesTo
    <3> QED BY <2>3, <3>1 DEF EmptyLines, CrLfs
  <2>6. \A j \in Alone(buffer) : ~(j < z + 2)
    <3> SUFFICES ASSUME NEW j \in Alone(buffer), j < z + 2 PROVE FALSE
        OBVIOUS
    <3>1. j \in 1..(z + 1)
        BY <2>3 DEF Alone
    <3>2. CASE buffer[j] = "CR" /\ buffer[j + 1] # "LF"
        BY <2>3, <3>1, <3>2 DEF LinesTo
    <3>3. CASE buffer[j] = "LF" /\ j \notin CrLfs(buffer)
        BY <2>3, <3>1, <3>3 DEF LinesTo, CrLfs
    <3> QED BY <3>2, <3>3 DEF Alone
  <2>7. R!Verdict(buffer) = "right"
      BY <2>4, <2>5, <2>6, VerdictIs
  <2> QED BY <1>4, <2>1, <2>3, <2>7 DEF ReaderInv
<1>9. ASSUME where = "parse"
      PROVE  /\ ReaderTypes /\ Len(buffer) \in Nat /\ R!Stop \in startLine..Len(buffer)
             /\ R!Stop \in readerChecked..Len(buffer) /\ startLine \in Nat
             /\ Plain(startLine, R!Stop) /\ Parsed /\ answer = "none"
             /\ R!Stop < Len(buffer) => buffer[R!Stop + 1] \in {"CR", "LF"}
  <2>1. ReaderTypes /\ Parsed /\ Plain(startLine, readerChecked) /\ answer = "none"
      BY <1>9 DEF ReaderInv
  <2>2. /\ Len(buffer) \in Nat /\ readerChecked \in 0..Len(buffer) /\ startLine \in 0..readerChecked
      BY <2>1 DEF ReaderTypes
  <2>3. /\ R!Stop \in readerChecked..Len(buffer) /\ Plain(readerChecked, R!Stop)
        /\ R!Stop < Len(buffer) => buffer[R!Stop + 1] \in {"CR", "LF"}
      BY <2>1, StopIs
  <2>4. Plain(startLine, R!Stop)
      BY <2>1, <2>2, <2>3 DEF Plain
  <2> QED BY <2>1, <2>2, <2>3, <2>4
<1>10. CASE R!Incomplete
  <2>1. /\ where = "parse" /\ where' = "recv" /\ readerChecked' = R!Stop /\ R!LineOpen
        /\ UNCHANGED <<buffer, startLine, checkState, answer>>
      BY <1>10 DEF R!Incomplete
  <2>2. ReaderTypes'
      BY <1>9, <2>1 DEF ReaderTypes
  <2>3. Parsed' /\ Plain(startLine, readerChecked)'
      BY <1>9, <2>1 DEF Parsed, Plain
  <2>4. AllChecked'
      BY <1>9, <2>1 DEF AllChecked, R!LineOpen
  <2> QED BY <1>9, <2>1, <2>2, <2>3, <2>4 DEF ReaderInv
<1>11. CASE R!LineBad
  <2>1. /\ where = "parse" /\ where' = "done" /\ readerChecked' = R!Stop /\ answer' = "wrong"
        /\ ~R!LineOpen /\ ~R!LineOk /\ UNCHANGED <<buffer, startLine>>
      BY <1>11 DEF R!LineBad, R!Reply
  <2>2. ReaderTypes'
      BY <1>9, <2>1 DEF ReaderTypes
  <2> DEFINE z == R!Stop
  <2>3. /\ z \in startLine..(Len(buffer) - 1) /\ Len(buffer) \in Nat /\ startLine \in Nat
        /\ \A i \in (startLine + 1)..z : buffer[i] \notin {"CR", "LF"}
        /\ LinesTo(buffer, startLine) /\ (startLine = 0 \/ buffer[startLine] = "LF")
        /\ buffer[z + 1] \in {"CR", "LF"}
        /\ buffer[z + 1] = "CR" => z + 2 <= Len(buffer) /\ buffer[z + 2] # "LF"
      BY <1>9, <2>1 DEF R!LineOpen, R!LineOk, Parsed, Plain
  <2> HIDE DEF z
  <2>4. z + 1 \in Alone(buffer)
    <3>1. CASE buffer[z + 1] = "CR"
        BY <2>3, <3>1 DEF Alone
    <3>2. CASE buffer[z + 1] = "LF"
      <4>1. z + 1 \notin CrLfs(buffer)
        <5>1. z = startLine => z = 0 \/ buffer[z] = "LF"
            BY <2>3
        <5>2. z # startLine => buffer[z] # "CR"
            BY <2>3
        <5> QED BY <2>3, <5>1, <5>2 DEF CrLfs
      <4> QED BY <2>3, <3>2, <4>1 DEF Alone
    <3> QED BY <2>3, <3>1, <3>2
  <2>5. \A k \in EmptyLines(buffer) : z + 1 < k
    <3> SUFFICES ASSUME NEW k \in EmptyLines(buffer), k <= z + 1 PROVE FALSE
        BY <2>3 DEF EmptyLines, CrLfs
    <3>1. /\ k \in 2..(z + 1) /\ buffer[k] = "LF" /\ buffer[k - 1] = "CR"
          /\ k - 2 \in 2..(z + 1) /\ buffer[k - 2] = "LF"
        BY <2>3 DEF EmptyLines, CrLfs
    <3>2. CASE k <= startLine
        BY <2>3, <3>1, <3>2 DEF LinesTo
    <3>3. CASE k = z + 1
        BY <2>3, <3>1, <3>3
    <3> QED BY <2>3, <3>1, <3>2, <3>3
  <2>6. R!Verdict(buffer) = "wrong"
      BY <2>4, <2>5, VerdictIs
  <2> QED BY <2>1, <2>2, <2>6 DEF ReaderInv
<1> QED BY <1>1, <1>2, <1>3, <1>5, <1>6, <1>7, <1>8, <1>10, <1>11 DEF R!Next

\* However recv cuts the stream, the server of 8-6 answers what the whole of it
\* deserves, and goes on receiving only while that is undecided.
THEOREM AnswersAreVerdicts ==
    R!Spec => []AnswerIsVerdict
<1>1. R!Init => ReaderInv
    BY ReaderInit
<1>2. ReaderInv /\ [R!Next]_(R!readerVars) => ReaderInv'
    BY ReaderStep
<1>3. ReaderInv => AnswerIsVerdict
  <2> SUFFICES ASSUME ReaderInv, where # "parse" PROVE answer = R!Verdict(buffer)
      BY DEF AnswerIsVerdict, R!AnswerIsVerdict
  <2> QED BY NothingDecided DEF ReaderInv, ReaderTypes
<1> QED BY <1>1, <1>2, <1>3, PTL DEF R!Spec

(***************************************************************************)
(* CgiConn                                                                 *)
(***************************************************************************)

\* The buffer has room for a byte and its terminator, and no program is no name.
CgiAssumption == NameBuffer \in Nat \ {0} /\ Nothing \notin Seq(Letters)

\* Lines end where they end, whatever follows.
LEMMA EndsOfPrefix ==
    ASSUME NEW s \in Seq(Letters), NEW t \in Seq(Letters)
    PROVE  C!LineEnds(s, 0) = {k \in C!LineEnds(s \o t, 0) : k <= Len(s)}
<1>1. /\ Len(s) \in Nat /\ Len(t) \in Nat /\ Len(s \o t) = Len(s) + Len(t)
      /\ \A i \in 1..Len(s) : (s \o t)[i] = s[i]
    BY ConcatProperties
<1> QED BY <1>1 DEF C!LineEnds

\* When no line ended before, the ends in what came last are all there are.
LEMMA EndsOfMore ==
    ASSUME NEW s \in Seq(Letters), NEW t \in Seq(Letters), C!LineEnds(s, 0) = {}
    PROVE  C!LineEnds(s \o t, Len(s)) = C!LineEnds(s \o t, 0)
<1>1. Len(s) \in Nat /\ Len(s \o t) \in Nat
    BY ConcatProperties
<1>2. \A k \in C!LineEnds(s \o t, 0) : k > Len(s)
    BY <1>1, EndsOfPrefix DEF C!LineEnds
<1> QED BY <1>1, <1>2 DEF C!LineEnds

Ends == C!LineEnds(sent, 0)

\* The programs that the first line of what was sent names.
Names == {SubSeq(sent, 1, k - 2) : k \in {e \in Ends : \A j \in Ends : e <= j}}

\* What was sent and what of it has been received, while no line was found.
CgiStreams ==
    /\ name \in Seq(Letters) /\ unread \in Seq(Letters)
    /\ sent = name \o unread
    /\ Len(name) < NameBuffer
    /\ hungUp \in BOOLEAN /\ event \in BOOLEAN /\ cgiPc \in {"wait", "recv", "closed"}

\* Without a program there is no line in the buffer; with one the connection is done.
CgiProgram ==
    /\ program = Nothing => C!LineEnds(name, 0) = {}
    /\ program # Nothing => cgiPc = "closed" /\ program \in Names

\* An event tells of what waits; the connection is closed when nothing more can come
\* or there is no room for it.
CgiWaits ==
    /\ cgiPc = "wait" /\ ~event => unread = <<>>
    /\ cgiPc = "closed" /\ program = Nothing =>
           unread = <<>> \/ Len(name) = NameBuffer - 1

CgiInv == CgiStreams /\ CgiProgram /\ CgiWaits

\* A turn of the loop moves what it takes behind what was there.
LEMMA TakenAndRest ==
    ASSUME CgiAssumption, CgiStreams
    PROVE  /\ C!Taken \in Seq(Letters)
           /\ SubSeq(unread, Len(C!Taken) + 1, Len(unread)) \in Seq(Letters)
           /\ sent = (name \o C!Taken) \o SubSeq(unread, Len(C!Taken) + 1, Len(unread))
           /\ Len(name \o C!Taken) < NameBuffer
           /\ C!Taken = <<>> => unread = <<>> \/ Len(name) = NameBuffer - 1
<1> DEFINE r == NameBuffer - 1 - Len(name)
           n == IF Len(unread) < r THEN Len(unread) ELSE r
           rest == SubSeq(unread, n + 1, Len(unread))
<1>1. /\ name \in Seq(Letters) /\ unread \in Seq(Letters) /\ NameBuffer \in Nat
      /\ Len(name) \in Nat /\ Len(unread) \in Nat /\ r \in Nat
    BY DEF CgiAssumption, CgiStreams
<1>2. n \in 0..Len(unread) /\ n <= r
    BY <1>1
<1>3. C!Taken = SubSeq(unread, 1, n)
    BY DEF C!Taken, C!Room
<1> HIDE DEF n
<1>4. C!Taken \in Seq(Letters) /\ Len(C!Taken) = n
    BY <1>1, <1>2, <1>3
<1>5. rest \in Seq(Letters)
    BY <1>1, <1>2
<1>6. C!Taken \o rest = unread
  <2>1. SubSeq(unread, 1, n) \o SubSeq(unread, n + 1, Len(unread)) = SubSeq(unread, 1, Len(unread))
    <3>1. 1 \in 1..(Len(unread) + 1) /\ n \in (1 - 1)..Len(unread) /\ Len(unread) \in n..Len(unread)
        BY <1>1, <1>2
    <3> QED BY <1>1, <3>1, ConcatAdjacentSubSeq
  <2> QED BY <1>1, <1>3, <2>1, SubSeqFull
<1> HIDE DEF rest
<1>7. (name \o C!Taken) \o rest = name \o unread
  <2>1. (name \o C!Taken) \o rest = name \o (C!Taken \o rest)
    <3>1. name \in Seq(Letters) /\ C!Taken \in Seq(Letters) /\ rest \in Seq(Letters)
        BY <1>1, <1>4, <1>5
    <3>2. \A t \in Seq(Letters) : (name \o t) \o rest = name \o (t \o rest)
        BY <3>1, ConcatAssociative
    <3> QED BY <3>1, <3>2
  <2> QED BY <1>6, <2>1
<1>8. Len(name \o C!Taken) < NameBuffer
  <2>1. Len(name \o C!Taken) = Len(name) + n
      BY <1>1, <1>4, ConcatProperties
  <2> QED BY <1>1, <1>2, <2>1
<1>9. ASSUME C!Taken = <<>> PROVE unread = <<>> \/ Len(name) = NameBuffer - 1
  <2>1. n = 0
      BY <1>4, <1>9
  <2>2. Len(unread) = 0 \/ r = 0
      BY <1>1, <2>1 DEF n
  <2> QED BY <1>1, <2>2
<1>a. rest = SubSeq(unread, Len(C!Taken) + 1, Len(unread))
    BY <1>4 DEF rest
<1> QED BY <1>4, <1>5, <1>7, <1>8, <1>9, <1>a DEF CgiStreams

\* CgiInv holds at the beginning.
LEMMA CgiInit ==
    ASSUME CgiAssumption, C!Init
    PROVE  CgiInv
<1>1. name = <<>> /\ unread = <<>> /\ sent = <<>> /\ cgiPc = "wait" /\ program = Nothing
      /\ hungUp = FALSE /\ event = FALSE
    BY DEF C!Init
<1>2. C!LineEnds(<<>>, 0) = {}
    BY DEF C!LineEnds
<1>3. name \in Seq(Letters) /\ unread \in Seq(Letters) /\ name \o unread = <<>> /\ Len(name) = 0
    BY <1>1, EmptySeq, ConcatEmptySeq
<1>4. C!LineEnds(name, 0) = {}
    BY <1>1, <1>2
<1>5. CgiStreams
  <2>1. sent = name \o unread
      BY <1>1, <1>3, Zenon
  <2>2. Len(name) < NameBuffer
      BY <1>3 DEF CgiAssumption
  <2>3. hungUp \in BOOLEAN /\ event \in BOOLEAN /\ cgiPc \in {"wait", "recv", "closed"}
      BY <1>1
  <2> QED BY <1>3, <2>1, <2>2, <2>3, Zenon DEF CgiStreams
<1> QED BY <1>1, <1>4, <1>5 DEF CgiInv, CgiProgram, CgiWaits

\* Every step of a CGI connection keeps CgiInv.
LEMMA CgiStep ==
    ASSUME CgiAssumption, CgiInv, [C!Next]_(C!cgiVars)
    PROVE  CgiInv'
<1> DEFINE rest == SubSeq(unread, Len(C!Taken) + 1, Len(unread))
<1> USE DEF CgiInv
<1>0. /\ C!Taken \in Seq(Letters) /\ rest \in Seq(Letters) /\ sent = (name \o C!Taken) \o rest
      /\ Len(name \o C!Taken) < NameBuffer
      /\ C!Taken = <<>> => unread = <<>> \/ Len(name) = NameBuffer - 1
    BY TakenAndRest
<1>0a. name \o C!Taken \in Seq(Letters)
    BY <1>0, ConcatProperties DEF CgiStreams
<1> HIDE DEF rest
<1>1. CASE UNCHANGED C!cgiVars
    BY <1>1 DEF C!cgiVars, CgiStreams, CgiProgram, CgiWaits, Names, Ends, C!LineEnds
<1>2. ASSUME NEW letter \in Letters, C!Send(letter) PROVE CgiInv'
  <2>1. /\ unread' = Append(unread, letter) /\ sent' = Append(sent, letter)
        /\ event' = TRUE /\ name' = name /\ program' = program /\ cgiPc' = cgiPc
        /\ hungUp' = hungUp /\ cgiPc # "closed"
      BY <1>2 DEF C!Send
  <2>2. sent' = name' \o unread' /\ unread' \in Seq(Letters)
    <3>1. /\ Append(unread, letter) = unread \o <<letter>> /\ <<letter>> \in Seq(Letters)
          /\ name \o unread \in Seq(Letters)
        BY AppendIsConcat, ConcatProperties DEF CgiStreams
    <3>2. Append(name \o unread, letter) = (name \o unread) \o <<letter>>
        BY <3>1, AppendIsConcat
    <3>3. (name \o unread) \o <<letter>> = name \o (unread \o <<letter>>)
        BY <3>1, ConcatAssociative DEF CgiStreams
    <3> QED BY <2>1, <3>1, <3>2, <3>3 DEF CgiStreams
  <2>3. CgiStreams'
      BY <2>1, <2>2 DEF CgiStreams
  <2> QED BY <2>1, <2>3 DEF CgiProgram, CgiWaits, C!LineEnds
<1>3. CASE C!HangUp
    BY <1>3 DEF C!HangUp, CgiStreams, CgiProgram, CgiWaits, Names, Ends, C!LineEnds
<1>4. CASE C!Process
    BY <1>4 DEF C!Process, CgiStreams, CgiProgram, CgiWaits, Names, Ends, C!LineEnds
<1>5. CASE C!RecvMore
  <2>1. /\ name' = name \o C!Taken /\ unread' = rest /\ cgiPc = "recv"
        /\ UNCHANGED <<hungUp, event, cgiPc, program, sent>>
        /\ C!LineEnds(name \o C!Taken, Len(name)) = {}
      BY <1>5 DEF C!RecvMore, rest
  <2>2. program = Nothing /\ C!LineEnds(name, 0) = {}
      BY <2>1 DEF CgiProgram
  <2>3. C!LineEnds(name', 0) = {}
      BY <1>0, <2>1, <2>2, EndsOfMore DEF CgiStreams
  <2>4. CgiStreams'
      BY <1>0, <1>0a, <2>1 DEF CgiStreams
  <2> QED BY <2>1, <2>2, <2>3, <2>4 DEF CgiProgram, CgiWaits
<1>6. CASE C!RecvLine
  <2> DEFINE b == name \o C!Taken
             ends == C!LineEnds(b, Len(name))
             k == CHOOSE k \in ends : \A j \in ends : k <= j
  <2>1. /\ cgiPc = "recv" /\ ends # {} /\ program' = SubSeq(b, 1, k - 2)
        /\ name' = b /\ unread' = rest /\ cgiPc' = "closed"
        /\ UNCHANGED <<hungUp, event, sent>>
      BY <1>6 DEF C!RecvLine, rest
  <2> HIDE DEF b
  <2>2a. program = Nothing /\ C!LineEnds(name, 0) = {}
      BY <2>1 DEF CgiProgram
  <2>2. /\ program = Nothing /\ C!LineEnds(name, 0) = {}
        /\ sent = b \o rest /\ rest \in Seq(Letters)
        /\ b \in Seq(Letters) /\ Len(b) < NameBuffer /\ Len(b) \in Nat
      BY <1>0, <1>0a, <2>2a DEF b
  <2>3. ends = {e \in Ends : e <= Len(b)}
    <3>1. ends = C!LineEnds(b, 0)
        BY <1>0, <2>2, EndsOfMore DEF CgiStreams, b
    <3> QED BY <2>2, <3>1, EndsOfPrefix DEF Ends
  <2>4. ends \subseteq Nat /\ \A e \in ends : e - 2 \in 0..Len(b)
      BY <2>2 DEF C!LineEnds, CgiStreams
  <2> HIDE DEF ends
  <2>5. k \in ends /\ \A j \in ends : k <= j
      BY <2>1, <2>4, LowestIsOne
  <2>6. k \in Ends /\ \A j \in Ends : k <= j
    <3>1. Ends \subseteq Nat
      <4>1. Len(sent) \in Nat
          BY <2>2, ConcatProperties
      <4> QED BY <4>1 DEF Ends, C!LineEnds
    <3> QED BY <2>2, <2>3, <2>4, <2>5, <3>1
  <2>7. SubSeq(b, 1, k - 2) = SubSeq(sent, 1, k - 2)
    <3>1. CASE k - 2 = 0
      <4>1. SubSeq(b, 1, 0) = <<>> /\ SubSeq(sent, 1, 0) = <<>>
          BY SubSeqEmpty
      <4> QED BY <3>1, <4>1
    <3>2. CASE k - 2 \in 1..Len(b)
      <4>1. 1 \in 1..Len(b)
          BY <2>2, <3>2
      <4>2. SubSeq(b \o rest, 1, k - 2) = SubSeq(b, 1, k - 2)
          BY <2>2, <3>2, <4>1, SubSeqOfConcat1, Zenon
      <4> QED BY <2>2, <4>2
    <3>3. k - 2 \in 0..Len(b)
        BY <2>4, <2>5
    <3> HIDE DEF k
    <3> QED BY <2>2, <3>1, <3>2, <3>3
  <2>8. program' \in Names'
      BY <2>1, <2>6, <2>7 DEF Names, Ends, C!LineEnds
  <2>9. program' \in Seq(Letters)
    <3>1. k - 2 \in 0..Len(b)
        BY <2>4, <2>5
    <3> HIDE DEF k
    <3>2. \A i \in 1..(k - 2) : b[i] \in Letters
        BY <2>2, <3>1, ElementOfSeq
    <3> QED BY <2>1, <3>1, <3>2, SubSeqProperties
  <2>10. CgiStreams'
      BY <1>0, <2>1, <2>2 DEF CgiStreams
  <2> QED BY <2>1, <2>8, <2>9, <2>10 DEF CgiProgram, CgiWaits, CgiAssumption
<1>7. CASE C!RecvAgain
    BY <1>7 DEF C!RecvAgain, CgiStreams, CgiProgram, CgiWaits, Names, Ends, C!LineEnds
<1>8. CASE C!RecvZero
  <2>1. /\ cgiPc = "recv" /\ C!Taken = <<>> /\ cgiPc' = "closed"
        /\ UNCHANGED <<name, unread, hungUp, event, program, sent>>
      BY <1>8 DEF C!RecvZero
  <2>2. CgiWaits'
      BY <1>0, <2>1 DEF CgiWaits
  <2> QED BY <2>1, <2>2 DEF CgiStreams, CgiProgram, Names, Ends, C!LineEnds
<1> QED BY <1>1, <1>2, <1>3, <1>4, <1>5, <1>6, <1>7, <1>8 DEF C!Next

\* However the name is cut into pieces, what is run is the text before the first CRLF,
\* and a connection that waits or was closed without running anything had no line.
THEOREM FirstLineDecides ==
    ASSUME CgiAssumption
    PROVE  C!Spec => []FirstLineIsRun
<1>1. CgiInv => FirstLineIsRun
  <2> SUFFICES ASSUME CgiInv PROVE FirstLineIsRun
      OBVIOUS
  <2>1. name \in Seq(Letters) /\ unread \in Seq(Letters) /\ sent = name \o unread
      BY DEF CgiInv, CgiStreams
  <2>2. ASSUME unread = <<>> PROVE name = sent
      BY <2>1, <2>2, ConcatEmptySeq
  <2>3. ASSUME cgiPc = "wait", ~event PROVE Ends = {} /\ name = sent
      BY <2>2, <2>3 DEF CgiInv, CgiProgram, CgiWaits, Ends
  <2>4. ASSUME cgiPc = "closed", program = Nothing
        PROVE  Ends = {} \/ \A k \in Ends : k >= NameBuffer
    <3>1. C!LineEnds(name, 0) = {}
        BY <2>4 DEF CgiInv, CgiProgram
    <3>2. CASE unread = <<>>
        BY <2>2, <3>1, <3>2 DEF Ends
    <3>3. CASE Len(name) = NameBuffer - 1
      <4>1. \A k \in Ends : ~(k <= Len(name))
          BY <2>1, <3>1, EndsOfPrefix DEF Ends
      <4>2. \A k \in Ends : k \in Nat
          BY <2>1, ConcatProperties DEF Ends, C!LineEnds
      <4> QED BY <3>3, <4>1, <4>2 DEF CgiAssumption
    <3> QED BY <2>4, <3>2, <3>3 DEF CgiInv, CgiWaits
  <2>5. program # Nothing => program \in Names
      BY DEF CgiInv, CgiProgram
  <2> QED BY <2>3, <2>4, <2>5 DEF FirstLineIsRun, C!FirstLineIsRun, Ends, Names
<1>2. C!Init => CgiInv
    BY CgiInit
<1>3. CgiInv /\ [C!Next]_(C!cgiVars) => CgiInv'
    BY CgiStep
<1> QED BY <1>1, <1>2, <1>3, PTL DEF C!Spec

(***************************************************************************)
(* The types of all                                                        *)
(***************************************************************************)

\* The sizes of buffers are positive, and clients send symbols HttpParser knows.
TypesAssumption ==
    /\ BufferSize \in Nat \ {0} /\ SmallBuffer \in Nat
    /\ Alphabet \subseteq P!Symbols
    /\ ParserAssumption /\ CgiAssumption

\* The process holds a mapping for every address, whoever left it there.
ReplyTypes ==
    /\ TypeOK
    /\ address > 0 => live >= 1

\* A step of HttpWrite keeps the types.
LEMMA ReplyTypesStep ==
    ASSUME ReplyTypes, ReplyInv, [Next]_vars
    PROVE  ReplyTypes'
<1> USE DEF ReplyTypes, TypeOK, replyVars, loopVars, docVars
<1>0. /\ Heads \subseteq Nat \ {0} /\ Documents \subseteq Nat /\ Sizes \subseteq Nat /\ 0 \in Sizes
      /\ Documents \subseteq Sizes /\ MaxMappings \in Nat
    BY SizesAssumption, BoundsAssumption DEF Sizes
<1>1. CASE UNCHANGED vars
    BY <1>1 DEF vars
<1>2. ASSUME NEW n \in Nat PROVE Bytes(n) \in Seq(Nat)
  <2>1. \A i \in 1..n : i - 1 \in Nat
      BY <1>2
  <2>2. Bytes(n) \in [1..n -> Nat]
      BY <2>1 DEF Bytes
  <2> QED BY <1>2, <2>2
<1>3. ASSUME NEW n \in Heads, NEW size \in Documents, ReplyFile(n, size) PROVE ReplyTypes'
  <2>1. Bytes(n + size) \in Seq(Nat) /\ n \in Nat /\ size \in Sizes
      BY <1>0, <1>2
  <2>2. live' \in 0..MaxMappings /\ live' >= 1 /\ address' = size /\ statSize' = size
      BY <1>0, <1>3 DEF ReplyFile
  <2>3. /\ pc' = "armed" /\ linger' \in BOOLEAN /\ head' = n /\ body' = size
        /\ reply' = Bytes(n + size) /\ received' = <<>> /\ outcome' = "none" /\ partial' = FALSE
        /\ UNCHANGED <<toSend, haveSent, unmapped, left>>
      BY <1>3 DEF ReplyFile, Prepare
  <2>4. received' \in Seq(Nat)
      BY <2>3
  <2> QED BY <2>1, <2>2, <2>3, <2>4
<1>4. ASSUME NEW n \in Heads, ReplyError(n) PROVE ReplyTypes'
  <2>1. Bytes(n + 0) \in Seq(Nat) /\ n \in Nat
      BY <1>0, <1>2
  <2>2. statSize' \in Sizes /\ UNCHANGED <<address, live>>
      BY <1>0, <1>4 DEF ReplyError
  <2>3. /\ pc' = "armed" /\ linger' \in BOOLEAN /\ head' = n /\ body' = 0
        /\ reply' = Bytes(n + 0) /\ received' = <<>> /\ outcome' = "none" /\ partial' = FALSE
        /\ UNCHANGED <<toSend, haveSent, unmapped, left>>
      BY <1>4 DEF ReplyError, Prepare
  <2>4. received' \in Seq(Nat)
      BY <2>3
  <2> QED BY <1>0, <2>1, <2>2, <2>3, <2>4
<1>5. CASE ReplyEmptyFile
    BY <1>0, <1>5 DEF ReplyEmptyFile
<1>6. CASE StartWrite
    BY <1>0, <1>6 DEF StartWrite
<1>7. ASSUME NEW n \in 1..(head + body), Writev(n)
      PROVE  received' \in Seq(Nat) /\ toSend' \in Int /\ haveSent' \in Nat /\ partial' \in BOOLEAN
  <2>1. head + body \in Nat /\ reply = Bytes(head + body)
      BY <1>0, <1>7 DEF Writev, ReplyInv, Unsent
  <2>2. reply \in Seq(Nat) /\ Len(reply) = head + body
      BY <2>1, WholeReply
  <2>3. SubSeq(reply, 1, n) \in Seq(Nat)
      BY <2>1, <2>2, InitialOf
  <2>4. received' \in Seq(Nat)
      BY <1>7, <2>3, ConcatProperties DEF Writev
  <2>5. partial' \in BOOLEAN
      BY <1>7 DEF Writev
  <2> QED BY <1>7, <2>1, <2>4, <2>5 DEF Writev
<1>8. ASSUME Unmap
      PROVE  /\ address' \in Sizes \cup {-1} /\ live' \in 0..MaxMappings
             /\ unmapped' \in (Sizes \cup {-1}) \X Sizes /\ (address' > 0 => live' >= 1)
    BY <1>0, <1>8 DEF Unmap
<1>9. ASSUME NEW n \in 1..(head + body), WritevMore(n) PROVE ReplyTypes'
    BY <1>0, <1>7, <1>9 DEF WritevMore, Writev
<1>10. ASSUME NEW n \in 1..(head + body), WritevLast(n) PROVE ReplyTypes'
  <2>1. /\ received' \in Seq(Nat) /\ toSend' \in Int /\ haveSent' \in Nat /\ partial' \in BOOLEAN
        /\ address' \in Sizes \cup {-1} /\ live' \in 0..MaxMappings
        /\ unmapped' \in (Sizes \cup {-1}) \X Sizes /\ (address' > 0 => live' >= 1)
      BY <1>7, <1>8, <1>10 DEF WritevLast
  <2>2. /\ pc' \in {"idle", "closed"} /\ head' \in {head, 0} /\ linger' \in BOOLEAN
        /\ outcome' = "sent" /\ UNCHANGED <<body, reply, statSize, left>>
      BY <1>10 DEF WritevLast, Writev, Reset
  <2> QED BY <2>1, <2>2
<1>11. CASE WritevAgain
    BY <1>0, <1>11 DEF WritevAgain
<1>12. CASE WritevFails
  <2>1. /\ address' \in Sizes \cup {-1} /\ live' \in 0..MaxMappings
        /\ unmapped' \in (Sizes \cup {-1}) \X Sizes /\ (address' > 0 => live' >= 1)
      BY <1>8, <1>12 DEF WritevFails
  <2>2. pc' = "closed" /\ UNCHANGED <<replyVars, loopVars, statSize, left>>
      BY <1>12 DEF WritevFails
  <2> QED BY <2>1, <2>2
<1>13. CASE HangUp
    BY <1>0, <1>13 DEF HangUp
<1>14. CASE NewConnection
  <2>1. /\ pc' = "idle" /\ head' = 0 /\ linger' = FALSE /\ reply' = <<>> /\ received' = <<>>
        /\ outcome' = "none" /\ UNCHANGED <<body, partial, loopVars, docVars, left>>
      BY <1>14 DEF NewConnection, Reset
  <2>2. reply' \in Seq(Nat) /\ received' \in Seq(Nat)
      BY <2>1
  <2> QED BY <2>1, <2>2
<1> QED BY <1>1, <1>3, <1>4, <1>5, <1>6, <1>9, <1>10, <1>11, <1>12, <1>13, <1>14 DEF Next

\* The indices of HttpParser are places of the buffer, which is never full, also when
\* there is an answer.
ParserTypes ==
    /\ Indices /\ Len(buf) < BufferSize
    /\ state \in {"requestline", "header", "content"}
    /\ line \in {"ok", "open"} /\ parserPc \in {"read", "parse", "done", "closed"}
    /\ result \in {"NO_REQUEST", "GET_REQUEST", "BAD_REQUEST"}

\* A new connection, or Init() for what comes next.
LEMMA ParserTypesInit ==
    ASSUME TypesAssumption
    PROVE  (P!Init => ParserTypes) /\ (P!Restart => ParserTypes')
<1>1. ASSUME P!Init PROVE ParserTypes
  <2>1. Indices
      BY <1>1, ParserInit DEF ParserInv, P!Init
  <2>2. Len(buf) < BufferSize
      BY <1>1 DEF P!Init, TypesAssumption
  <2> QED BY <1>1, <2>1, <2>2 DEF P!Init, ParserTypes
<1>2. ASSUME P!Restart PROVE ParserTypes'
  <2>1. Indices'
    <3>1. /\ stream' \in Seq(Alphabet) /\ buf' \in Seq(Alphabet \cup {"NUL"})
          /\ Len(stream') = 0 /\ Len(buf') = 0
        BY <1>2 DEF P!Restart
    <3>2. checked' \in 0..0 /\ start' \in 0..checked' /\ length' \in Int
        BY <1>2 DEF P!Restart
    <3>3. keepAlive' \in BOOLEAN
        BY <1>2 DEF P!Restart
    <3> QED BY <3>1, <3>2, <3>3 DEF Indices
  <2>2. Len(buf') < BufferSize
      BY <1>2 DEF P!Restart, TypesAssumption
  <2> QED BY <1>2, <2>1, <2>2 DEF P!Restart, ParserTypes
<1> QED BY <1>1, <1>2

\* A step of HttpParser keeps the types.
LEMMA ParserTypesStep ==
    ASSUME TypesAssumption, ParserTypes, ParserInv, [P!Next]_(P!vars)
    PROVE  ParserTypes'
<1>0. /\ Indices /\ Len(buf) < BufferSize /\ keepAlive \in BOOLEAN /\ length \in Int
      /\ ContentLength \in Int
    BY DEF ParserTypes, Indices, TypesAssumption, ParserAssumption
<1>1. ASSUME NEW at, P!LineTurn(at), keepAlive' \in BOOLEAN, length' \in Int
      PROVE  Indices' /\ Len(buf') < BufferSize /\ line' \in {"ok", "open"} /\ parserPc = "parse"
  <2>1. Indices'
      BY <1>1, LineIsTaken
  <2>2. Len(buf') = Len(buf)
    <3>1. Len(buf') = Len(stream') /\ Len(buf) = Len(stream) /\ stream' = stream
        BY <1>0, <1>1, <2>1 DEF Indices, P!LineTurn
    <3> QED BY <3>1
  <2> QED BY <1>0, <1>1, <2>1, <2>2 DEF P!LineTurn
<1>2. ASSUME NEW bytes \in P!BoundedSeq(Alphabet, MaxChunk), P!Read(bytes) PROVE ParserTypes'
  <2>1. ParserInv' /\ parserPc' = "parse" /\ bytes \in Seq(Alphabet)
      BY <1>2, ReadKeeps, PiecesAreSequences DEF P!Read
  <2>2. Len(buf') < BufferSize
    <3>1. buf' = buf \o bytes /\ Len(buf) + Len(bytes) < BufferSize
        BY <1>2 DEF P!Read, P!ReadIdx
    <3>2. buf \in Seq(Alphabet \cup {"NUL"}) /\ bytes \in Seq(Alphabet \cup {"NUL"})
        BY <1>0, <2>1 DEF Indices
    <3> QED BY <3>1, <3>2, ConcatProperties
  <2> QED BY <1>2, <2>1, <2>2 DEF ParserTypes, ParserInv, P!Read
<1>3. ASSUME NEW bytes \in P!BoundedSeq(Alphabet, MaxChunk), P!ReadFull(bytes) PROVE ParserTypes'
    BY <1>3 DEF P!ReadFull, P!parserVars, ParserTypes, Indices
<1>4. CASE P!ReadFails
    BY <1>4 DEF P!ReadFails, P!parserVars, ParserTypes, Indices
<1>5. CASE P!LineNotOk
  <2>1. ParserInv' /\ parserPc' = "read"
      BY <1>5, LineNotOkKeeps DEF P!LineNotOk
  <2> QED BY <1>5, <2>1 DEF ParserTypes, ParserInv, P!LineNotOk
<1>6. CASE P!ParseRequestLine
  <2>1. P!LineTurn("requestline") /\ UNCHANGED <<keepAlive, length>>
      BY <1>6 DEF P!ParseRequestLine
  <2>2. /\ state' \in {"header", state} /\ parserPc' \in {"done", parserPc}
        /\ result' \in {"BAD_REQUEST", result}
      BY <1>6 DEF P!ParseRequestLine, P!Answer
  <2> QED BY <1>0, <1>1, <2>1, <2>2 DEF ParserTypes
<1>7. CASE P!ParseEmptyLine
  <2>1. P!LineTurn("header") /\ UNCHANGED <<keepAlive, length>>
      BY <1>7 DEF P!ParseEmptyLine
  <2>2. /\ state' \in {"content", state} /\ parserPc' \in {"done", parserPc}
        /\ result' \in {"GET_REQUEST", result}
      BY <1>7 DEF P!ParseEmptyLine, P!Answer
  <2> QED BY <1>0, <1>1, <2>1, <2>2 DEF ParserTypes
<1>8. CASE P!ParseHeader
  <2>1. P!LineTurn("header") /\ UNCHANGED <<state, parserPc, result>>
      BY <1>8 DEF P!ParseHeader
  <2>2. keepAlive' \in BOOLEAN
      BY <1>8 DEF P!ParseHeader
  <2>3. length' \in Int
      BY <1>0, <1>8 DEF P!ParseHeader
  <2> QED BY <1>1, <2>1, <2>2, <2>3 DEF ParserTypes
<1>9. CASE P!ParseContent
  <2>1. /\ UNCHANGED <<buf, checked, state, keepAlive, length, stream>> /\ start' = checked
        /\ line' \in {"open", line} /\ parserPc' \in {"done", parserPc}
        /\ result' \in {"GET_REQUEST", result}
      BY <1>9 DEF P!ParseContent, P!Answer
  <2>2. Indices'
      BY <1>0, <2>1 DEF Indices
  <2> QED BY <2>1, <2>2 DEF ParserTypes
<1>10. CASE P!ParseContentLine
  <2>1. P!LineTurn("content") /\ UNCHANGED <<state, keepAlive, length>>
      BY <1>10 DEF P!ParseContentLine
  <2>2. parserPc' \in {"done", parserPc} /\ result' \in {"GET_REQUEST", result}
      BY <1>10 DEF P!ParseContentLine, P!Answer
  <2> QED BY <1>0, <1>1, <2>1, <2>2 DEF ParserTypes
<1>11. CASE P!Restart
    BY <1>11, ParserTypesInit
<1>12. CASE UNCHANGED P!vars
    BY <1>12 DEF P!vars, P!parserVars, ParserTypes, Indices
<1> QED BY <1>2, <1>3, <1>4, <1>5, <1>6, <1>7, <1>8, <1>9, <1>10, <1>11, <1>12 DEF P!Next

\* What ReaderInv leaves open of the types.
ReaderBounds ==
    /\ Len(buffer) <= SmallBuffer /\ checkState \in {"requestline", "header"}
    /\ answer \in {"none", "right", "wrong"}

\* A step of RequestReader keeps them.
LEMMA ReaderBoundsStep ==
    ASSUME ReaderBounds, ReaderInv, [R!Next]_(R!readerVars)
    PROVE  ReaderBounds'
<1> USE DEF ReaderBounds
<1>1. CASE R!Receive
  <2>1. PICK n \in 1..MaxPiece : \E piece \in [1..n -> ReaderSymbols] :
            Len(buffer) + n <= SmallBuffer /\ buffer' = buffer \o piece
      BY <1>1 DEF R!Receive
  <2>2. PICK piece \in [1..n -> ReaderSymbols] :
            Len(buffer) + n <= SmallBuffer /\ buffer' = buffer \o piece
      BY <2>1
  <2>3. n \in Nat
      OBVIOUS
  <2>4. piece \in Seq(ReaderSymbols) /\ Len(piece) = n /\ buffer \in Seq(ReaderSymbols)
      BY <2>3 DEF ReaderInv, ReaderTypes
  <2>5. Len(buffer') = Len(buffer) + n
      BY <2>2, <2>4, ConcatProperties
  <2> QED BY <1>1, <2>2, <2>5 DEF R!Receive
<1>2. CASE R!ReceiveEnds \/ R!Incomplete \/ R!LineBad
    BY <1>2 DEF R!ReceiveEnds, R!Incomplete, R!LineBad, R!Reply
<1>3. CASE R!RequestLine \/ R!BadRequestLine \/ R!Header \/ R!EmptyLine
    BY <1>3 DEF R!RequestLine, R!BadRequestLine, R!Header, R!EmptyLine, R!TakeLine, R!Reply
<1>4. CASE UNCHANGED R!readerVars
    BY <1>4 DEF R!readerVars
<1> HIDE DEF ReaderBounds
<1> QED BY <1>1, <1>2, <1>3, <1>4 DEF R!Next

\* Every index of the parsers stays within its buffer, no buffer is filled beyond its
\* size, and there are never fewer mappings than addresses.
THEOREM TypesStayRight ==
    ASSUME TypesAssumption
    PROVE  Spec /\ P!Spec /\ R!Spec /\ C!Spec => []TypesOK
<1>1. Spec => []TypeOK
  <2>1. Init => ReplyTypes /\ ReplyInv
    <3>1. Init => TypeOK
      <4> SUFFICES ASSUME Init PROVE TypeOK
          OBVIOUS
      <4>1. reply \in Seq(Nat) /\ received \in Seq(Nat)
          BY DEF Init
      <4>2. live \in 0..MaxMappings /\ head \in Heads \cup {0} /\ body \in Sizes
            /\ toSend \in Int /\ haveSent \in Nat
          BY BoundsAssumption DEF Init, Sizes
      <4>3. address \in Sizes \cup {-1} /\ statSize \in Sizes
            /\ unmapped \in (Sizes \cup {-1}) \X Sizes
          BY DEF Init, Sizes
      <4>4. /\ pc \in {"idle", "armed", "writing", "closed"} /\ outcome \in {"none", "sent"}
            /\ linger \in BOOLEAN /\ partial \in BOOLEAN /\ left \in BOOLEAN
          BY DEF Init
      <4> QED BY <4>1, <4>2, <4>3, <4>4 DEF TypeOK
    <3>2. Init => ~(address > 0)
        BY DEF Init
    <3> QED BY <3>1, <3>2, ReplyInit DEF ReplyTypes
  <2>2. ReplyTypes /\ ReplyInv /\ [Next]_vars => ReplyTypes' /\ ReplyInv'
      BY ReplyTypesStep, ReplyStep, SizesAssumption
  <2>3. ReplyTypes => TypeOK
      BY DEF ReplyTypes
  <2> QED BY <2>1, <2>2, <2>3, PTL DEF Spec
<1>2. P!Spec => []P!TypeOK
  <2>1. P!Init => ParserTypes /\ ParserInv
      BY ParserTypesInit, ParserInit
  <2>2. ParserTypes /\ ParserInv /\ [P!Next]_(P!vars) => ParserTypes' /\ ParserInv'
      BY ParserTypesStep, ParserStep DEF TypesAssumption
  <2>3. ParserTypes => P!TypeOK
    <3> SUFFICES ASSUME ParserTypes PROVE P!TypeOK
        OBVIOUS
    <3>1. Seq(Alphabet) \subseteq Seq(P!Symbols)
          /\ Seq(Alphabet \cup {"NUL"}) \subseteq Seq(P!Symbols \cup {"NUL"})
        BY DEF TypesAssumption
    <3> QED BY <3>1 DEF ParserTypes, Indices, P!TypeOK, P!ReadIdx
  <2> QED BY <2>1, <2>2, <2>3, PTL DEF P!Spec
<1>3. R!Spec => []R!TypeOK
  <2>1. R!Init => ReaderBounds
      BY DEF R!Init, ReaderBounds, TypesAssumption
  <2>2. ReaderBounds /\ ReaderInv /\ [R!Next]_(R!readerVars) => ReaderBounds' /\ ReaderInv'
      BY ReaderBoundsStep, ReaderStep
  <2>3. ReaderBounds /\ ReaderInv => R!TypeOK
      BY DEF ReaderBounds, ReaderInv, ReaderTypes, R!TypeOK
  <2> QED BY <2>1, <2>2, <2>3, ReaderInit, PTL DEF R!Spec
<1>4. C!Spec => []C!TypeOK
  <2>1. C!Init => CgiInv
      BY CgiInit DEF TypesAssumption
  <2>2. CgiInv /\ [C!Next]_(C!cgiVars) => CgiInv'
      BY CgiStep DEF TypesAssumption
  <2>3. CgiInv => C!TypeOK
    <3>1. CgiInv => sent \in Seq(Letters)
        BY ConcatProperties DEF CgiInv, CgiStreams
    <3> QED BY <3>1 DEF CgiInv, CgiStreams, C!TypeOK
  <2> QED BY <2>1, <2>2, <2>3, PTL DEF C!Spec
<1>5. TypesOK <=> TypeOK /\ P!TypeOK /\ R!TypeOK /\ C!TypeOK
    BY DEF TypesOK
<1> QED BY <1>1, <1>2, <1>3, <1>4, <1>5, PTL
=============================================================================
