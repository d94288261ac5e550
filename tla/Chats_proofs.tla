---------------------------- MODULE Chats_proofs ----------------------------
(***************************************************************************)
(* Proofs about the servers that ChatsMC puts together. PollChat, for any  *)
(* finite set of descriptors, any USER_LIMIT and any amount of data: the   *)
(* array of poll entries stays sound through removals in the middle of the *)
(* loop. ProcessPool, for any number of children, clients and programs: no *)
(* death of a child goes unannounced. And the types of all three servers.  *)
(***************************************************************************)
EXTENDS ChatsMC, FiniteSetTheorems, WellFoundedInduction, TLAPS

\* Two and Three of ChatsMC, with what is proved about them.
C2 == INSTANCE SharedMemoryChat_proofs WITH
          backlog <- chatBacklog, users <- chatUsers, subProcess <- chatSubProcess,
          userCount <- chatUserCount, pipeAt <- chatPipeAt, ready <- chatReady, batch
          <- chatBatch, signals <- chatSignals, bytes <- chatBytes, terminate <-
          chatTerminate, stopServer <- chatStopServer, pc <- chatPc, child <-
          chatChild, idx <- chatIdx, stopChild <- chatStopChild, events <-
          chatEvents, handling <- chatHandling, holders <- chatHolders, told <-
          chatTold, announced <- chatAnnounced, unread <- chatUnread, closed <-
          chatClosed, block <- chatBlock, sends <- chatSends, heard <- chatHeard,
          USER_LIMIT <- LeaveLimit, MaxFd <- MaxPipes, MaxSends <- 0
C3 == INSTANCE SharedMemoryChat_proofs WITH
          backlog <- chatBacklog, users <- chatUsers, subProcess <- chatSubProcess,
          userCount <- chatUserCount, pipeAt <- chatPipeAt, ready <- chatReady, batch
          <- chatBatch, signals <- chatSignals, bytes <- chatBytes, terminate <-
          chatTerminate, stopServer <- chatStopServer, pc <- chatPc, child <-
          chatChild, idx <- chatIdx, stopChild <- chatStopChild, events <-
          chatEvents, handling <- chatHandling, holders <- chatHolders, told <-
          chatTold, announced <- chatAnnounced, unread <- chatUnread, closed <-
          chatClosed, block <- chatBlock, sends <- chatSends, heard <- chatHeard,
          USER_LIMIT <- TalkLimit, MaxFd <- MaxPipes

(***************************************************************************)
(* The poll loop: TypeOK and ArrayIsSound are inductive together           *)
(***************************************************************************)

IInv == TypeOK /\ ArrayIsSound

\* Constants that the code assigns.
LEMMA Bounds == 0 \in 0..(UserLimit + 1) /\ 1 \in 0..(UserLimit + 1) /\ 0 \in 0..MaxUnread
  BY UserLimitAssumption, MaxUnreadAssumption

\* The entry at an index of the loop has a descriptor.
LEMMA EntryAt ==
    ASSUME TypeOK, NEW k \in DOMAIN fds
    PROVE  fds[k] \in Entries /\ fds[k].fd \in Conns
  <1>1. fds[k] \in Entries
    BY DEF TypeOK
  <1>2. QED
    BY <1>1 DEF Entries

\* What RemoveEntry leaves: all the entries but the one at i, each once.
LEMMA RemovalIsSound ==
    ASSUME TypeOK, ArrayIsSound, i \in DOMAIN fds,
           fds' = SubSeq([fds EXCEPT ![i] = fds[Len(fds)]], 1, Len(fds) - 1)
    PROVE  /\ fds' \in Seq(Entries) /\ Len(fds') = Len(fds) - 1
           /\ \A j, k \in DOMAIN fds' : fds'[j].fd = fds'[k].fd => j = k
           /\ Open' = Open \ {fds[i].fd}
  <1> DEFINE u == [fds EXCEPT ![i] = fds[Len(fds)]]
  <1>n. /\ Len(fds) \in Nat \ {0} /\ DOMAIN fds = 1..Len(fds)
        /\ i \in 1..Len(fds) /\ Len(fds) \in DOMAIN fds
    BY DEF TypeOK
  <1>u. u \in Seq(Entries) /\ Len(u) = Len(fds)
    <2>1. fds \in Seq(Entries) /\ fds[Len(fds)] \in Entries
      BY <1>n, EntryAt DEF TypeOK
    <2>2. QED
      BY <1>n, <2>1
  <1>v. \A k \in DOMAIN fds : u[k] = IF k = i THEN fds[Len(fds)] ELSE fds[k]
    BY <1>n
  <1> HIDE DEF u
  <1>w. fds' = SubSeq(u, 1, Len(fds) - 1)
    BY DEF u
  <1>1. DOMAIN fds' = 1..(Len(fds) - 1) /\ fds' \in Seq(Entries) /\ Len(fds') = Len(fds) - 1
    BY <1>n, <1>u, <1>w
  <1>2. \A k \in DOMAIN fds' : k \in DOMAIN fds /\ fds'[k] = IF k = i THEN fds[Len(fds)] ELSE fds[k]
    <2>1. \A k \in DOMAIN fds' : fds'[k] = u[k]
      BY <1>n, <1>u, <1>w, <1>1
    <2>2. QED
      BY <1>n, <1>1, <1>v, <2>1
  <1>3. \A j, k \in DOMAIN fds : fds[j].fd = fds[k].fd => j = k
    BY DEF ArrayIsSound
  <1>4. \A j, k \in DOMAIN fds' : fds'[j].fd = fds'[k].fd => j = k
    <2> DEFINE from(k) == IF k = i THEN Len(fds) ELSE k
    <2>1. \A k \in DOMAIN fds' : from(k) \in DOMAIN fds /\ fds'[k] = fds[from(k)]
      BY <1>n, <1>2
    <2>2. \A j, k \in DOMAIN fds' : from(j) = from(k) => j = k
      BY <1>n, <1>1
    <2> HIDE DEF from
    <2>3. QED
      BY <1>3, <2>1, <2>2
  <1>5. ASSUME NEW k \in DOMAIN fds' PROVE fds'[k].fd \in Open \ {fds[i].fd}
    <2>1. PICK j \in DOMAIN fds : fds'[k] = fds[j] /\ j # i
      BY <1>n, <1>1, <1>2
    <2>2. QED
      BY <1>n, <1>3, <2>1 DEF Open
  <1>6. ASSUME NEW k \in DOMAIN fds, fds[k].fd # fds[i].fd
        PROVE  \E j \in DOMAIN fds' : fds'[j].fd = fds[k].fd
    <2>1. CASE k = Len(fds)
      <3>1. i \in DOMAIN fds' /\ fds'[i] = fds[k]
        BY <1>n, <1>1, <1>2, <1>6, <2>1
      <3>2. QED
        BY <3>1
    <2>2. CASE k # Len(fds)
      <3>1. k \in DOMAIN fds' /\ fds'[k] = fds[k]
        BY <1>n, <1>1, <1>2, <1>6, <2>2
      <3>2. QED
        BY <3>1
    <2>3. QED
      BY <2>1, <2>2
  <1>7. ASSUME NEW c PROVE c \in Open' <=> c \in Open \ {fds[i].fd}
    BY <1>5, <1>6 DEF Open
  <1>8. Open' = Open \ {fds[i].fd}
    BY <1>7
  <1>9. QED
    BY <1>1, <1>4, <1>8

\* A step that keeps the descriptors of the entries, and only takes away from what the
\* kernel holds, or adds to what it holds for open ones, keeps the array sound.
LEMMA SameEntries ==
    ASSUME TypeOK, ArrayIsSound, fds' \in Seq(Entries), Len(fds') = Len(fds),
           \A k \in DOMAIN fds : fds'[k].fd = fds[k].fd,
           \A c \in Conns \ Open : pending'[c] = pending[c] /\ (c \in left' => c \in left)
    PROVE  ArrayIsSound'
  <1>1. DOMAIN fds' = DOMAIN fds
    BY DEF TypeOK
  <1>2. Open' = Open
    BY <1>1 DEF Open
  <1>3. Len(fds') <= UserLimit
    BY DEF ArrayIsSound
  <1>4. \A j, k \in DOMAIN fds' : fds'[j].fd = fds'[k].fd => j = k
    BY <1>1 DEF ArrayIsSound
  <1>5. \A c \in Conns \ Open' : pending'[c] = 0 /\ c \notin left'
    BY <1>2 DEF ArrayIsSound
  <1>6. QED
    BY <1>3, <1>4, <1>5 DEF ArrayIsSound

\* The empty array of main is sound.
LEMMA InitIsSound == Init => IInv
  <1>1. ASSUME Init PROVE TypeOK
    <2>1. fds \in Seq(Entries)
      BY <1>1 DEF Init
    <2>2. writeBuf \in [Conns -> Conns \cup {None}]
      BY <1>1 DEF Init
    <2>3. pending \in [Conns -> 0..MaxUnread]
      BY <1>1, Bounds DEF Init
    <2>4. waiting \in 0..1 /\ left = {} /\ broken = {} /\ i \in 0..(UserLimit + 1)
      BY <1>1, Bounds DEF Init
    <2>5. QED
      BY <1>1, <2>1, <2>2, <2>3, <2>4 DEF Init, TypeOK
  <1>2. ASSUME Init PROVE ArrayIsSound
    BY <1>2, UserLimitAssumption DEF Init, ArrayIsSound, Open
  <1>3. QED
    BY <1>1, <1>2 DEF IInv

\* What clients do: the entries stay, and only open connections change.
LEMMA ClientsKeep ==
    ASSUME IInv, Arrive \/ \E c \in Conns : Speak(c) \/ Leave(c)
    PROVE  IInv'
  <1> USE Bounds
  <1>a. TypeOK /\ ArrayIsSound
    BY DEF IInv
  <1>1. CASE Arrive
    <2>1. TypeOK'
      BY <1>a, <1>1 DEF Arrive, TypeOK
    <2>2. ArrayIsSound'
      BY <1>a, <1>1, SameEntries DEF Arrive, TypeOK
    <2>3. QED
      BY <2>1, <2>2 DEF IInv
  <1>2. ASSUME NEW c \in Conns, Speak(c) PROVE IInv'
    <2>1. TypeOK'
      BY <1>a, <1>2, MaxUnreadAssumption DEF Speak, TypeOK
    <2>2. ArrayIsSound'
      BY <1>a, <1>2, SameEntries DEF Speak, TypeOK
    <2>3. QED
      BY <2>1, <2>2 DEF IInv
  <1>3. ASSUME NEW c \in Conns, Leave(c) PROVE IInv'
    <2>1. TypeOK'
      BY <1>a, <1>3 DEF Leave, TypeOK
    <2>2. c \in Open /\ left' = left \cup {c} /\ UNCHANGED fds
      BY <1>3 DEF Leave
    <2>3. \A d \in Conns \ Open : pending'[d] = pending[d]
      BY <1>a, <1>3, <2>2 DEF Leave, TypeOK
    <2>4. ArrayIsSound'
      BY <1>a, <2>2, <2>3, SameEntries DEF TypeOK
    <2>5. QED
      BY <2>1, <2>4 DEF IInv
  <1>4. QED
    BY <1>1, <1>2, <1>3

\* A new entry gets a descriptor that was closed, for which the kernel holds nothing.
LEMMA AcceptKeeps ==
    ASSUME IInv, Accept
    PROVE  IInv'
  <1>a. TypeOK /\ ArrayIsSound
    BY DEF IInv
  <1>b. /\ waiting' \in 0..1 /\ listenIn' = FALSE /\ i' = 1
        /\ UNCHANGED <<writeBuf, pending, left, broken, inLoop>>
    BY <1>a DEF Accept, TypeOK
  <1>c. ASSUME fds' \in Seq(Entries) PROVE TypeOK'
    BY <1>a, <1>b, <1>c, Bounds DEF TypeOK
  <1>1. CASE UNCHANGED fds
    <2>1. TypeOK'
      BY <1>a, <1>c, <1>1 DEF TypeOK
    <2>2. ArrayIsSound'
      BY <1>a, <1>b, <1>1, SameEntries DEF TypeOK
    <2>3. QED
      BY <2>1, <2>2 DEF IInv
  <1>2. ASSUME NEW c \in Conns \ Open, Len(fds) < UserLimit,
               fds' = Append(fds, [fd |-> c, out |-> FALSE, revents |-> {}])
        PROVE  IInv'
    <2> DEFINE e == [fd |-> c, out |-> FALSE, revents |-> {}]
    <2>1. e \in Entries
      BY DEF Entries
    <2>2. fds' \in Seq(Entries) /\ Len(fds') = Len(fds) + 1 /\ DOMAIN fds' = 1..(Len(fds) + 1)
          /\ DOMAIN fds = 1..Len(fds) /\ Len(fds) \in Nat
      BY <1>a, <1>2, <2>1 DEF TypeOK
    <2>3. fds'[Len(fds) + 1].fd = c /\ \A k \in DOMAIN fds : fds'[k] = fds[k]
      BY <1>a, <1>2, <2>1, <2>2 DEF TypeOK
    <2>4. TypeOK'
      BY <1>c, <2>2
    <2>5. \A k \in DOMAIN fds : fds[k].fd # c
      BY <1>2 DEF Open
    <2>6. \A j, k \in DOMAIN fds' : fds'[j].fd = fds'[k].fd => j = k
      BY <1>a, <2>2, <2>3, <2>5 DEF ArrayIsSound
    <2>7. \A d \in Open : d \in Open'
      BY <2>2, <2>3 DEF Open
    <2>8. \A d \in Conns \ Open' : pending'[d] = 0 /\ d \notin left'
      BY <1>a, <1>b, <2>7 DEF ArrayIsSound
    <2>9. Len(fds') <= UserLimit
      BY <1>2, <2>2, UserLimitAssumption
    <2>10. QED
      BY <2>4, <2>6, <2>8, <2>9 DEF IInv, ArrayIsSound
  <1>3. QED
    BY <1>1, <1>2 DEF Accept

\* A departed client: its entry goes, the others stay, and it leaves nothing behind.
LEMMA RemoveEntryKeeps ==
    ASSUME IInv, i \in DOMAIN fds, RemoveEntry
    PROVE  IInv'
  <1>a. TypeOK /\ ArrayIsSound
    BY DEF IInv
  <1>b. Len(fds) \in Nat \ {0} /\ Len(fds) \in DOMAIN fds
    BY <1>a DEF TypeOK
  <1>c. fds[i].fd \in Conns /\ fds[Len(fds)].fd \in Conns
    BY <1>a, <1>b, EntryAt
  <1>1. fds' = SubSeq([fds EXCEPT ![i] = fds[Len(fds)]], 1, Len(fds) - 1)
    BY DEF RemoveEntry
  <1>2. /\ fds' \in Seq(Entries) /\ Len(fds') = Len(fds) - 1
        /\ \A j, k \in DOMAIN fds' : fds'[j].fd = fds'[k].fd => j = k
        /\ Open' = Open \ {fds[i].fd}
    BY <1>a, <1>1, RemovalIsSound
  <1>3. TypeOK'
    BY <1>a, <1>c, <1>2, Bounds DEF RemoveEntry, TypeOK
  <1>4. \A d \in Conns \ Open' : pending'[d] = 0 /\ d \notin left'
    BY <1>a, <1>c, <1>2 DEF RemoveEntry, ArrayIsSound, TypeOK
  <1>5. Len(fds') <= UserLimit
    BY <1>a, <1>b, <1>2, UserLimitAssumption DEF ArrayIsSound
  <1>6. QED
    BY <1>2, <1>3, <1>4, <1>5 DEF IInv, ArrayIsSound

\* A step of the loop at an entry that stays in the array.
LEMMA StayingEntryKeeps ==
    ASSUME IInv, EntryError \/ EntryReads \/ EntryWrites \/ EntryQuiet
    PROVE  IInv'
  <1> USE Bounds
  <1>a. TypeOK /\ ArrayIsSound
    BY DEF IInv
  <1>b. i \in DOMAIN fds /\ i' = i + 1 /\ inLoop' = inLoop /\ listenIn' = listenIn
    BY DEF EntryError, EntryReads, EntryWrites, EntryQuiet, Says, NextEntry
  <1>c. i' \in 0..(UserLimit + 1)
    BY <1>a, <1>b, UserLimitAssumption DEF TypeOK, ArrayIsSound
  <1>d. fds[i].fd \in Conns
    BY <1>a, <1>b, EntryAt
  <1>1. CASE EntryError
    <2>1. TypeOK'
      BY <1>a, <1>b, <1>c, <1>1 DEF EntryError, TypeOK
    <2>2. ArrayIsSound'
      BY <1>a, <1>1, SameEntries DEF EntryError, TypeOK
    <2>3. QED
      BY <2>1, <2>2 DEF IInv
  <1>2. CASE EntryReads /\ pending[fds[i].fd] > 0
    <2> DEFINE e(k) == IF k = i THEN fds[k] ELSE [fds[k] EXCEPT !.out = TRUE]
    <2>1. fds' = [k \in DOMAIN fds |-> e(k)]
      BY <1>2 DEF EntryReads
    <2>2. \A k \in DOMAIN fds : e(k) \in Entries /\ e(k).fd = fds[k].fd
      BY <1>a, EntryAt DEF Entries
    <2> HIDE DEF e
    <2>3. fds' \in Seq(Entries) /\ Len(fds') = Len(fds)
      BY <1>a, <2>1, <2>2 DEF TypeOK
    <2>4. \A k \in DOMAIN fds : fds'[k].fd = fds[k].fd
      BY <2>1, <2>2
    <2>a. writeBuf' \in [Conns -> Conns \cup {None}]
      <3>1. \A d \in Conns : writeBuf[d] \in Conns \cup {None}
        BY <1>a DEF TypeOK
      <3>2. writeBuf' = [d \in Conns |-> IF d \in Open \ {fds[i].fd} THEN fds[i].fd ELSE writeBuf[d]]
        BY <1>2 DEF EntryReads
      <3>3. QED
        BY <1>d, <3>1, <3>2
    <2>b. pending' \in [Conns -> 0..MaxUnread]
      BY <1>a, <1>d, <1>2, MaxUnreadAssumption DEF EntryReads, TypeOK
    <2>5. TypeOK'
      BY <1>a, <1>b, <1>c, <1>2, <2>3, <2>a, <2>b DEF EntryReads, TypeOK
    <2>6. fds[i].fd \in Open
      BY <1>b DEF Open
    <2>7. \A d \in Conns \ Open : pending'[d] = pending[d] /\ left' = left
      BY <1>a, <1>2, <2>6 DEF EntryReads, TypeOK
    <2>8. ArrayIsSound'
      BY <1>a, <2>3, <2>4, <2>7, SameEntries
    <2>9. QED
      BY <2>5, <2>8 DEF IInv
  <1>3. CASE EntryReads /\ ~(pending[fds[i].fd] > 0)
    <2>1. TypeOK'
      BY <1>a, <1>b, <1>c, <1>3 DEF EntryReads, TypeOK
    <2>2. ArrayIsSound'
      BY <1>a, <1>3, SameEntries DEF EntryReads, TypeOK
    <2>3. QED
      BY <2>1, <2>2 DEF IInv
  <1>4. CASE EntryWrites
    <2>1. TypeOK'
      BY <1>a, <1>b, <1>c, <1>d, <1>4 DEF EntryWrites, kernelVars, TypeOK
    <2>2. ArrayIsSound'
      BY <1>a, <1>4, SameEntries DEF EntryWrites, kernelVars, TypeOK
    <2>3. QED
      BY <2>1, <2>2 DEF IInv
  <1>5. CASE EntryQuiet
    <2>1. TypeOK'
      BY <1>a, <1>b, <1>c, <1>5 DEF EntryQuiet, kernelVars, TypeOK
    <2>2. ArrayIsSound'
      BY <1>a, <1>5, SameEntries DEF EntryQuiet, kernelVars, TypeOK
    <2>3. QED
      BY <2>1, <2>2 DEF IInv
  <1>6. QED
    BY <1>1, <1>2, <1>3, <1>4, <1>5

\* poll writes revents into every entry, and the end of the loop changes nothing.
LEMMA LoopKeeps ==
    ASSUME IInv, Poll \/ LoopEnds
    PROVE  IInv'
  <1> USE Bounds
  <1>a. TypeOK /\ ArrayIsSound
    BY DEF IInv
  <1>1. CASE Poll
    <2> DEFINE e(k) == [fds[k] EXCEPT !.revents = Revents(fds[k])]
    <2>1. fds' = [k \in DOMAIN fds |-> e(k)]
      BY <1>1 DEF Poll
    <2>2. \A k \in DOMAIN fds : Revents(fds[k]) \in SUBSET {"IN", "OUT", "RDHUP", "ERR"}
      BY DEF Revents
    <2>3. \A k \in DOMAIN fds : e(k) \in Entries /\ e(k).fd = fds[k].fd
      BY <1>a, <2>2, EntryAt DEF Entries
    <2> HIDE DEF e
    <2>4. fds' \in Seq(Entries) /\ Len(fds') = Len(fds)
      <3>1. Len(fds) \in Nat /\ DOMAIN fds = 1..Len(fds)
        BY <1>a DEF TypeOK
      <3>2. fds' \in [1..Len(fds) -> Entries]
        BY <2>1, <2>3, <3>1
      <3>3. QED
        BY <3>1, <3>2
    <2>5. \A k \in DOMAIN fds : fds'[k].fd = fds[k].fd
      BY <2>1, <2>3
    <2>6. TypeOK'
      BY <1>a, <1>1, <2>4 DEF Poll, kernelVars, TypeOK
    <2>7. ArrayIsSound'
      BY <1>a, <1>1, <2>4, <2>5, SameEntries DEF Poll, kernelVars
    <2>8. QED
      BY <2>6, <2>7 DEF IInv
  <1>2. CASE LoopEnds
    <2>1. TypeOK'
      BY <1>a, <1>2 DEF LoopEnds, kernelVars, TypeOK
    <2>2. ArrayIsSound'
      BY <1>a, <1>2, SameEntries DEF LoopEnds, kernelVars, TypeOK
    <2>3. QED
      BY <2>1, <2>2 DEF IInv
  <1>3. QED
    BY <1>1, <1>2

\* Every step of clients and server keeps the invariant: one lemma per kind of step.
LEMMA StepKeeps == IInv /\ [Next]_pollVars => IInv'
  <1> SUFFICES ASSUME IInv, [Next]_pollVars PROVE IInv'
    OBVIOUS
  <1>1. CASE Arrive \/ \E c \in Conns : Speak(c) \/ Leave(c)
    BY <1>1, ClientsKeep
  <1>2. CASE Accept
    BY <1>2, AcceptKeeps
  <1>3. CASE EntryLeft \/ EntryFails
    BY <1>3, RemoveEntryKeeps DEF EntryLeft, EntryFails, Says
  <1>4. CASE EntryError \/ EntryReads \/ EntryWrites \/ EntryQuiet
    BY <1>4, StayingEntryKeeps
  <1>5. CASE Poll \/ LoopEnds
    BY <1>5, LoopKeeps
  <1>6. CASE UNCHANGED pollVars
    BY <1>6 DEF IInv, TypeOK, ArrayIsSound, Open, pollVars, kernelVars
  <1>7. QED
    BY <1>1, <1>2, <1>3, <1>4, <1>5, <1>6 DEF Next, ServerStep

\* Every variable keeps its type: the index of the loop stays within the array and one
\* place behind it, and only departed clients have errors (9-6_chat_server.cc, main).
THEOREM TypeCorrect == Spec => []TypeOK
  <1>1. IInv => TypeOK
    BY DEF IInv
  <1>2. QED
    BY <1>1, InitIsSound, StepKeeps, PTL DEF Spec

\* However many clients are removed while the loop runs, no connection is in the array
\* twice, none is dropped while it is open, there are at most USER_LIMIT, and a
\* descriptor that is free holds nothing of the client that had it (lines 84 to 146).
THEOREM ArrayStaysSound == Spec => []ArrayIsSound
  <1>1. IInv => ArrayIsSound
    BY DEF IInv
  <1>2. QED
    BY <1>1, InitIsSound, StepKeeps, PTL DEF Spec

(***************************************************************************)
(* Sums over finite sets, as MapThenSumSet takes them                      *)
(***************************************************************************)

\* The element the folds of the library take first, and what they leave.
First(s) == CHOOSE x \in s : TRUE
Rest(s) == s \ {First(s)}

\* A set of numbers that is not empty has a least one.
LEMMA LeastIsOne ==
    ASSUME NEW S \in SUBSET Nat, S # {}
    PROVE  \E x \in S : \A y \in S : x =< y
<1> DEFINE R == OpToRel(<, Nat)
<1>1. \E x \in S : \A y \in S : ~(<<y, x>> \in R)
    BY NatLessThanWellFounded, WFMin
<1>2. \A x, y \in S : <<y, x>> \notin R => x =< y
    BY DEF OpToRel
<1> QED BY <1>1, <1>2

\* The rest of a subset is a subset with one element less.
LEMMA RestIsLess ==
    ASSUME NEW S, IsFiniteSet(S), NEW s \in SUBSET S, s # {}
    PROVE  /\ First(s) \in s /\ Rest(s) \in SUBSET S
           /\ Cardinality(s) \in Nat \ {0} /\ Cardinality(Rest(s)) = Cardinality(s) - 1
<1>1. First(s) \in s
    BY DEF First
<1>2. IsFiniteSet(s) /\ Cardinality(s) \in Nat
    BY FS_Subset, FS_CardinalityType
<1>3. Cardinality(s) # 0
    BY <1>2, FS_EmptySet
<1> QED BY <1>1, <1>2, <1>3, FS_RemoveElement DEF Rest

\* What holds for {} and for a set whenever it holds for its rest holds for all.
LEMMA RestInduction ==
    ASSUME NEW S, IsFiniteSet(S), NEW P, {} \in P,
           \A s \in SUBSET S : s # {} /\ Rest(s) \in P => s \in P
    PROVE  SUBSET S \subseteq P
<1> DEFINE Sizes == {Cardinality(s) : s \in (SUBSET S) \ P}
<1>1. SUFFICES ASSUME (SUBSET S) \ P # {} PROVE FALSE
    OBVIOUS
<1>2. \A s \in SUBSET S : Cardinality(s) \in Nat
    BY FS_Subset, FS_CardinalityType
<1>3. Sizes \in SUBSET Nat /\ Sizes # {}
    BY <1>1, <1>2
<1>4. PICK n \in Sizes : \A m \in Sizes : n =< m
    BY <1>3, LeastIsOne
<1>5. PICK s \in (SUBSET S) \ P : n = Cardinality(s)
    BY <1>4
<1>6. s # {}
    BY <1>5
<1>7. Rest(s) \in SUBSET S /\ n \in Nat /\ Cardinality(Rest(s)) = n - 1
    BY <1>5, <1>6, RestIsLess
<1>8. Rest(s) \notin P
    BY <1>5, <1>6
<1>9. n - 1 \in Sizes
    BY <1>7, <1>8
<1> HIDE DEF Sizes
<1> QED BY <1>4, <1>7, <1>9

Sums(S, w) == CHOOSE f : f = [s \in SUBSET S |-> IF s = {} THEN 0 ELSE w[First(s)] + f[Rest(s)]]

\* There is a function that satisfies the recursion of the sums.
LEMMA SumsExist ==
    ASSUME NEW S, IsFiniteSet(S), NEW w
    PROVE  \A s \in SUBSET S :
             Sums(S, w)[s] = IF s = {} THEN 0 ELSE w[First(s)] + Sums(S, w)[Rest(s)]
<1> DEFINE Body(f, s) == IF s = {} THEN 0 ELSE w[First(s)] + f[Rest(s)]
           Upto(k) == \E f : f = [s \in SUBSET S |-> f[s]]
                             /\ \A s \in SUBSET S : Cardinality(s) < k => f[s] = Body(f, s)
           K == Cardinality(S)
<1>0. /\ K \in Nat
      /\ \A s \in SUBSET S : Cardinality(s) \in Nat /\ Cardinality(s) < K + 1
    BY FS_Subset, FS_CardinalityType
<1>1. Upto(0)
  <2>1. \A s \in SUBSET S : ~(Cardinality(s) < 0)
      BY <1>0
  <2>2. [s \in SUBSET S |-> 0] = [r \in SUBSET S |-> [s \in SUBSET S |-> 0][r]]
      OBVIOUS
  <2> HIDE DEF Body
  <2> QED BY <2>1, <2>2
<1>2. ASSUME NEW k \in Nat, Upto(k)
      PROVE  Upto(k + 1)
  <2>1. PICK f : f = [s \in SUBSET S |-> f[s]]
                 /\ \A s \in SUBSET S : Cardinality(s) < k => f[s] = Body(f, s)
      BY <1>2
  <2> DEFINE g == [s \in SUBSET S |-> IF Cardinality(s) = k THEN Body(f, s) ELSE f[s]]
  <2>2. \A s \in SUBSET S : Cardinality(s) < k => g[s] = f[s]
      BY <1>0
  <2>3. ASSUME NEW s \in SUBSET S, Cardinality(s) < k + 1
        PROVE  g[s] = Body(g, s)
    <3>1. g[s] = Body(f, s)
      <4> HIDE DEF Body
      <4>1. CASE Cardinality(s) = k
          BY <4>1
      <4>2. CASE Cardinality(s) < k
          BY <2>1, <4>2
      <4> QED BY <1>0, <2>3, <4>1, <4>2
    <3>2. s # {} => Rest(s) \in SUBSET S /\ Cardinality(Rest(s)) < k
        BY <1>0, <2>3, RestIsLess
    <3>3. s # {} => g[Rest(s)] = f[Rest(s)]
        BY <2>2, <3>2
    <3> HIDE DEF g
    <3> QED BY <3>1, <3>3
  <2>4. g = [s \in SUBSET S |-> g[s]]
      OBVIOUS
  <2> HIDE DEF g, Body
  <2> QED BY <2>3, <2>4
<1> HIDE DEF Upto
<1>3. Upto(K + 1)
  <2> DEFINE Failing == {k \in Nat : ~Upto(k)}
  <2>1. SUFFICES ASSUME Failing # {} PROVE FALSE
      BY <1>0
  <2>2. PICK k \in Failing : \A j \in Failing : k =< j
      BY <2>1, LeastIsOne
  <2>3. k \in Nat /\ k # 0
      BY <1>1
  <2>4. k - 1 \in Nat /\ k - 1 \notin Failing
      BY <2>2, <2>3
  <2>5. Upto(k - 1)
      BY <2>4
  <2>6. Upto((k - 1) + 1)
      BY <1>2, <2>4, <2>5
  <2>7. (k - 1) + 1 = k
      BY <2>3
  <2> QED BY <2>2, <2>6, <2>7
<1>4. \E f : f = [s \in SUBSET S |-> Body(f, s)]
  <2>1. PICK f : f = [s \in SUBSET S |-> f[s]]
                 /\ \A s \in SUBSET S : Cardinality(s) < K + 1 => f[s] = Body(f, s)
      BY <1>3 DEF Upto
  <2> HIDE DEF Body
  <2>2. \A s \in SUBSET S : f[s] = Body(f, s)
      BY <1>0, <2>1
  <2> QED BY <2>1, <2>2
<1> DEFINE F == Sums(S, w)
<1>5. F = [s \in SUBSET S |-> Body(F, s)]
    BY <1>4 DEF Sums
<1> HIDE DEF F
<1>6. \A s \in SUBSET S : F[s] = IF s = {} THEN 0 ELSE w[First(s)] + F[Rest(s)]
    BY <1>5
<1> QED BY <1>6 DEF F

\* A sum of numbers is one, and none of them is more than it.
LEMMA SumBounds ==
    ASSUME NEW S, IsFiniteSet(S), NEW w, \A x \in S : w[x] \in Nat
    PROVE  \A s \in SUBSET S : Sums(S, w)[s] \in Nat /\ \A x \in s : w[x] <= Sums(S, w)[s]
<1> DEFINE f == Sums(S, w)
           P == {s \in SUBSET S : f[s] \in Nat /\ \A x \in s : w[x] <= f[s]}
<1>1. \A s \in SUBSET S : f[s] = IF s = {} THEN 0 ELSE w[First(s)] + f[Rest(s)]
    BY SumsExist
<1> HIDE DEF f
<1>2. {} \in P
    BY <1>1
<1>3. ASSUME NEW s \in SUBSET S, s # {}, Rest(s) \in P
      PROVE  s \in P
  <2>1. First(s) \in s /\ w[First(s)] \in Nat
      BY <1>3, RestIsLess
  <2>2. f[s] = w[First(s)] + f[Rest(s)] /\ f[Rest(s)] \in Nat
      BY <1>1, <1>3
  <2>3. \A x \in s : x = First(s) \/ x \in Rest(s)
      BY DEF Rest
  <2>4. \A x \in s : w[x] \in Nat
      OBVIOUS
  <2>5. ASSUME NEW x \in s PROVE w[x] <= f[s]
    <3>1. CASE x = First(s)
        BY <2>1, <2>2, <3>1
    <3>2. CASE x \in Rest(s)
      <4>1. w[x] <= f[Rest(s)]
          BY <1>3, <3>2
      <4> QED BY <2>1, <2>2, <2>4, <4>1
    <3> QED BY <2>3, <3>1, <3>2
  <2> QED BY <2>1, <2>2, <2>5
<1> HIDE DEF P
<1>4. SUBSET S \subseteq P
    BY <1>2, <1>3, RestInduction
<1> QED BY <1>4 DEF P, f

\* When one number changes, the sum changes as it does.
LEMMA SumChanges ==
    ASSUME NEW S, IsFiniteSet(S), NEW v, NEW w, NEW c \in S, NEW d \in Int,
           \A x \in S : v[x] \in Nat /\ w[x] \in Nat,
           v[c] = w[c] + d, \A x \in S \ {c} : v[x] = w[x]
    PROVE  Sums(S, v)[S] = Sums(S, w)[S] + d
<1> DEFINE f == Sums(S, w)
           g == Sums(S, v)
           P == {s \in SUBSET S : g[s] = f[s] + (IF c \in s THEN d ELSE 0)}
<1>1. \A s \in SUBSET S : f[s] = IF s = {} THEN 0 ELSE w[First(s)] + f[Rest(s)]
    BY SumsExist
<1>g. \A s \in SUBSET S : g[s] = IF s = {} THEN 0 ELSE v[First(s)] + g[Rest(s)]
    BY SumsExist
<1>2. \A s \in SUBSET S : f[s] \in Nat /\ g[s] \in Nat
    BY SumBounds
<1> HIDE DEF f, g
<1>z. f[{}] = 0 /\ g[{}] = 0 /\ c \notin {}
    BY <1>1, <1>g
<1>3. {} \in P
    BY <1>z
<1>4. ASSUME NEW s \in SUBSET S, s # {}, Rest(s) \in P
      PROVE  s \in P
  <2>1. First(s) \in s /\ First(s) \in S /\ Rest(s) \in SUBSET S
      BY <1>4, RestIsLess
  <2>2. f[s] = w[First(s)] + f[Rest(s)] /\ g[s] = v[First(s)] + g[Rest(s)]
      BY <1>1, <1>g, <1>4
  <2>3. g[Rest(s)] = f[Rest(s)] + (IF c \in Rest(s) THEN d ELSE 0)
      BY <1>4
  <2>4. w[First(s)] \in Nat /\ v[First(s)] \in Nat /\ f[Rest(s)] \in Nat /\ g[Rest(s)] \in Nat
      BY <1>2, <2>1
  <2>5. CASE First(s) = c
    <3>1. c \in s /\ c \notin Rest(s) /\ v[First(s)] = w[First(s)] + d
        BY <2>1, <2>5 DEF Rest
    <3>2. g[s] = f[s] + d
        BY <2>2, <2>3, <2>4, <3>1
    <3> QED BY <3>1, <3>2
  <2>6. CASE First(s) # c
    <3>1. (c \in s <=> c \in Rest(s)) /\ v[First(s)] = w[First(s)]
        BY <2>1, <2>6 DEF Rest
    <3> QED BY <2>2, <2>3, <2>4, <3>1
  <2> QED BY <2>5, <2>6
<1> HIDE DEF P
<1>5. SUBSET S \subseteq P
    BY <1>3, <1>4, RestInduction
<1> QED BY <1>5 DEF P, f, g

(***************************************************************************)
(* The process pool                                                        *)
(***************************************************************************)

\* There is a child, and the bounds are numbers.
PoolAssumption == Processes \in Nat \ {0} /\ MaxBacklog \in Nat /\ MaxConns \in Nat

PoolTypes ==
    /\ procBacklog \in 0..MaxBacklog
    /\ procReady \subseteq {"listen", "signals"} /\ procSignals \in Seq({"CHLD", "TERM"})
    /\ procCounter \in G!Indices /\ procParent \in {"runs", "undefined"}
    /\ procChild \in [G!Indices -> {"starts", "waits", "batch", "dead", "reaped"}]
    /\ procDispatches \in [G!Indices -> Nat]
    /\ procChildReady \in [G!Indices -> SUBSET {"pipe", "signals"}]
    /\ procBatch \in [G!Indices -> SUBSET {"pipe", "signals"}]
    /\ procChildSignals \in [G!Indices -> SUBSET {"CHLD", "TERM"}]
    /\ procConns \in [G!Indices -> Nat] /\ procPrograms \in [G!Indices -> Nat]

\* The connections and programs of each child, and of all.
Held == [c \in G!Indices |-> procConns[c] + procPrograms[c]]
Total == Sums(G!Indices, Held)[G!Indices]

\* Whoever is in the queue can become a connection.
RoomForAll == Total + procBacklog <= MaxConns

\* A signal in the pipe is one epoll has an event for.
Heeded == procSignals # <<>> => "signals" \in procReady

PoolInv == PoolTypes /\ RoomForAll /\ Heeded /\ G!DeadAreAnnounced

LEMMA IndicesAreFinite ==
    ASSUME PoolAssumption
    PROVE  IsFiniteSet(G!Indices) /\ 0 \in G!Indices
<1>1. Processes - 1 \in Int /\ 0 \in Int
    BY DEF PoolAssumption
<1>2. IsFiniteSet(0..(Processes - 1))
    BY <1>1, FS_Interval
<1> QED BY <1>2 DEF G!Indices, PoolAssumption

\* What Connect compares with its bound is the total.
LEMMA ConnectSums ==
    G!MapThenSumSet(LAMBDA c : procConns[c] + procPrograms[c], G!Indices) = Total
<1> DEFINE A(f) == [s \in SUBSET G!Indices |->
                      IF s = {} THEN 0
                      ELSE (procConns[First(s)] + procPrograms[First(s)]) + f[Rest(s)]]
           B(f) == [s \in SUBSET G!Indices |->
                      IF s = {} THEN 0 ELSE Held[First(s)] + f[Rest(s)]]
<1>1. G!MapThenSumSet(LAMBDA c : procConns[c] + procPrograms[c], G!Indices)
        = (CHOOSE f : f = A(f))[G!Indices]
    BY DEF G!MapThenSumSet, G!MapThenFoldSet, First, Rest
<1>2. Total = (CHOOSE f : f = B(f))[G!Indices]
    BY DEF Total, Sums
<1>3. ASSUME NEW f PROVE A(f) = B(f)
  <2>1. ASSUME NEW s \in SUBSET G!Indices, s # {}
        PROVE  Held[First(s)] = procConns[First(s)] + procPrograms[First(s)]
    <3>1. First(s) \in s
        BY <2>1 DEF First
    <3> QED BY <2>1, <3>1 DEF Held
  <2> QED BY <2>1
<1> HIDE DEF A, B
<1>4. \A f : f = A(f) <=> f = B(f)
    BY <1>3
<1>5. (CHOOSE f : f = A(f)) = (CHOOSE f : f = B(f))
    BY <1>4, Zenon
<1> QED BY <1>1, <1>2, <1>5

\* The total is a number, and no child holds more.
LEMMA TotalBounds ==
    ASSUME PoolAssumption, PoolTypes
    PROVE  Total \in Nat /\ \A c \in G!Indices : procConns[c] + procPrograms[c] <= Total
<1>1. \A c \in G!Indices : Held[c] = procConns[c] + procPrograms[c] /\ Held[c] \in Nat
    BY DEF Held, PoolTypes
<1>2. G!Indices \in SUBSET G!Indices
    OBVIOUS
<1>3. \A s \in SUBSET G!Indices :
          Sums(G!Indices, Held)[s] \in Nat /\ \A x \in s : Held[x] <= Sums(G!Indices, Held)[s]
    BY <1>1, IndicesAreFinite, SumBounds
<1> QED BY <1>1, <1>2, <1>3 DEF Total

\* The total follows what one child holds.
LEMMA TotalChanges ==
    ASSUME PoolAssumption, PoolTypes, NEW c \in G!Indices, NEW d \in Int,
           procConns' \in [G!Indices -> Nat], procPrograms' \in [G!Indices -> Nat],
           procConns'[c] + procPrograms'[c] = procConns[c] + procPrograms[c] + d,
           \A b \in G!Indices \ {c} :
               procConns'[b] = procConns[b] /\ procPrograms'[b] = procPrograms[b]
    PROVE  Total' = Total + d
<1> DEFINE v == Held'
           w == Held
<1>1. v = [b \in G!Indices |-> procConns'[b] + procPrograms'[b]]
    BY DEF Held, G!Indices
<1>2. w = [b \in G!Indices |-> procConns[b] + procPrograms[b]]
    BY DEF Held
<1>3. Total' = Sums(G!Indices, v)[G!Indices]
    BY DEF Total, G!Indices
<1>4. Total = Sums(G!Indices, w)[G!Indices]
    BY DEF Total
<1> HIDE DEF v, w
<1>5. /\ procConns \in [G!Indices -> Nat] /\ procPrograms \in [G!Indices -> Nat]
      /\ IsFiniteSet(G!Indices)
    BY IndicesAreFinite DEF PoolTypes
<1>6. \A b \in G!Indices : v[b] \in Nat /\ w[b] \in Nat
  <2> SUFFICES ASSUME NEW b \in G!Indices PROVE v[b] \in Nat /\ w[b] \in Nat
      OBVIOUS
  <2>1. procConns'[b] \in Nat /\ procPrograms'[b] \in Nat
      OBVIOUS
  <2>2. procConns[b] \in Nat /\ procPrograms[b] \in Nat
      BY <1>5
  <2> QED BY <1>1, <1>2, <2>1, <2>2
<1>7. v[c] = w[c] + d
    BY <1>1, <1>2
<1>8. \A b \in G!Indices \ {c} : v[b] = w[b]
    BY <1>1, <1>2
<1>9. Sums(G!Indices, v)[G!Indices] = Sums(G!Indices, w)[G!Indices] + d
  <2> DEFINE S == G!Indices
  <2> HIDE DEF S
  <2>1. \A x, y : ((\A b \in S : x[b] \in Nat /\ y[b] \in Nat) /\ x[c] = y[c] + d
                   /\ \A b \in S \ {c} : x[b] = y[b])
                  => Sums(S, x)[S] = Sums(S, y)[S] + d
      BY <1>5, SumChanges DEF S
  <2> QED BY <1>6, <1>7, <1>8, <2>1 DEF S
<1> QED BY <1>3, <1>4, <1>9

\* A step that leaves connections, programs and queue alone leaves room.
LEMMA SameRoom ==
    ASSUME RoomForAll, procConns' = procConns, procPrograms' = procPrograms,
           procBacklog' = procBacklog
    PROVE  RoomForAll'
<1>1. Total' = Total
    BY DEF Total, Held, G!Indices
<1> QED BY <1>1 DEF RoomForAll

LEMMA PoolInit == ASSUME PoolAssumption PROVE G!Init => PoolInv
<1> SUFFICES ASSUME G!Init PROVE PoolInv
    OBVIOUS
<1>1. PoolTypes
  <2>1. 0 \in 0..MaxBacklog /\ <<>> \in Seq({"CHLD", "TERM"})
      BY DEF PoolAssumption
  <2> QED BY <2>1, IndicesAreFinite DEF G!Init, PoolTypes
<1>2. RoomForAll
  <2> DEFINE w == [c \in G!Indices |-> 0]
  <2>1. Held = w
      BY DEF G!Init, Held
  <2>2. \A s \in SUBSET G!Indices :
            Sums(G!Indices, w)[s] = IF s = {} THEN 0 ELSE w[First(s)] + Sums(G!Indices, w)[Rest(s)]
      BY IndicesAreFinite, SumsExist
  <2> DEFINE f == Sums(G!Indices, w)
             P == {s \in SUBSET G!Indices : f[s] = 0}
  <2> HIDE DEF f
  <2>3. {} \in P
      BY <2>2 DEF f
  <2>4. \A s \in SUBSET G!Indices : s # {} /\ Rest(s) \in P => s \in P
    <3> SUFFICES ASSUME NEW s \in SUBSET G!Indices, s # {}, Rest(s) \in P PROVE f[s] = 0
        OBVIOUS
    <3>1. First(s) \in G!Indices
        BY DEF First
    <3>2. w[First(s)] = 0 /\ f[Rest(s)] = 0
        BY <3>1
    <3>3. f[s] = w[First(s)] + f[Rest(s)]
        BY <2>2 DEF f
    <3> HIDE DEF w
    <3> QED BY <3>2, <3>3
  <2> HIDE DEF P
  <2>5. G!Indices \in P
      BY <2>3, <2>4, IndicesAreFinite, RestInduction
  <2>6. Total = 0
      BY <2>1, <2>5 DEF Total, P, f
  <2> QED BY <2>6 DEF RoomForAll, G!Init, PoolAssumption
<1>3. Heeded
    BY DEF Heeded, G!Init
<1>4. G!DeadAreAnnounced
    BY DEF G!DeadAreAnnounced, G!Init
<1> QED BY <1>1, <1>2, <1>3, <1>4 DEF PoolInv

\* A signal behind those in the pipe: the last is the new one, the others stay.
LEMMA SignalIsHeard ==
    ASSUME PoolTypes, NEW sig \in {"CHLD", "TERM"}, G!Signal(sig)
    PROVE  /\ procSignals' \in Seq({"CHLD", "TERM"}) /\ procSignals' # <<>>
           /\ procReady' = procReady \cup {"signals"}
           /\ Len(procSignals') \in DOMAIN procSignals' /\ procSignals'[Len(procSignals')] = sig
           /\ \A k \in DOMAIN procSignals :
                k \in DOMAIN procSignals' /\ procSignals'[k] = procSignals[k]
<1>1. procSignals \in Seq({"CHLD", "TERM"}) /\ procSignals' = Append(procSignals, sig)
    BY DEF PoolTypes, G!Signal
<1> QED BY <1>1 DEF G!Signal

LEMMA ConnectStep ==
    ASSUME PoolAssumption, PoolInv, G!Connect
    PROVE  PoolInv'
<1>1. /\ procBacklog < MaxBacklog /\ Total + procBacklog < MaxConns
      /\ procBacklog' = procBacklog + 1 /\ procReady' = procReady \cup {"listen"}
      /\ UNCHANGED <<procSignals, procCounter, procParent, G!childVars>>
    BY ConnectSums DEF G!Connect
<1>2. Total \in Nat /\ procBacklog \in 0..MaxBacklog
    BY TotalBounds DEF PoolInv, PoolTypes
<1>3. PoolTypes'
    BY <1>1, <1>2 DEF PoolInv, PoolTypes, G!childVars, G!Indices, PoolAssumption
<1>4. RoomForAll'
  <2>1. Total' = Total
      BY <1>1 DEF Total, Held, G!Indices, G!childVars
  <2> QED BY <1>1, <1>2, <2>1 DEF RoomForAll, PoolAssumption
<1>5. Heeded' /\ G!DeadAreAnnounced'
    BY <1>1 DEF PoolInv, Heeded, G!DeadAreAnnounced, G!childVars, G!Indices
<1> QED BY <1>3, <1>4, <1>5 DEF PoolInv

LEMMA TerminateStep ==
    ASSUME PoolAssumption, PoolInv, G!Terminate
    PROVE  PoolInv'
<1>1. /\ procSignals' \in Seq({"CHLD", "TERM"}) /\ procReady' = procReady \cup {"signals"}
      /\ \A k \in DOMAIN procSignals :
            k \in DOMAIN procSignals' /\ procSignals'[k] = procSignals[k]
    BY SignalIsHeard DEF PoolInv, G!Terminate
<1>2. UNCHANGED <<procBacklog, procCounter, procParent, procChild, procDispatches,
                  procChildReady, procBatch, procChildSignals, procConns, procPrograms>>
    BY DEF G!Terminate, G!childVars
<1>3. PoolTypes'
    BY <1>1, <1>2 DEF PoolInv, PoolTypes, G!Indices
<1>4. RoomForAll'
    BY <1>2, SameRoom DEF PoolInv
<1>5. Heeded' /\ G!DeadAreAnnounced'
    BY <1>1, <1>2 DEF PoolInv, Heeded, G!DeadAreAnnounced, G!Indices
<1> QED BY <1>3, <1>4, <1>5 DEF PoolInv

LEMMA ProgramStep ==
    ASSUME PoolAssumption, PoolInv, NEW c \in G!Indices, G!ProgramEnds(c) \/ G!Serve(c)
    PROVE  PoolInv'
<1>1. UNCHANGED <<procBacklog, procReady, procSignals, procCounter, procParent, procChild,
                  procDispatches, procBatch>>
    BY DEF G!ProgramEnds, G!Serve, G!parentVars
<1>2. PICK d \in {-1, 0} :
          /\ procConns' \in [G!Indices -> Nat] /\ procPrograms' \in [G!Indices -> Nat]
          /\ procConns'[c] + procPrograms'[c] = procConns[c] + procPrograms[c] + d
          /\ \A b \in G!Indices \ {c} :
               procConns'[b] = procConns[b] /\ procPrograms'[b] = procPrograms[b]
  <2>1. procConns[c] \in Nat /\ procPrograms[c] \in Nat
      BY DEF PoolInv, PoolTypes
  <2>2. CASE G!ProgramEnds(c)
    <3>1. /\ procConns' = procConns /\ procPrograms' = [procPrograms EXCEPT ![c] = @ - 1]
          /\ procPrograms[c] - 1 \in Nat
        BY <2>1, <2>2 DEF G!ProgramEnds
    <3> QED BY <2>1, <3>1 DEF PoolInv, PoolTypes
  <2>3. CASE G!Serve(c)
    <3>1. PICK k \in {0, 1} : procPrograms' = [procPrograms EXCEPT ![c] = @ + k]
        BY <2>3 DEF G!Serve
    <3>2. procConns' = [procConns EXCEPT ![c] = @ - 1] /\ procConns[c] - 1 \in Nat
        BY <2>1, <2>3 DEF G!Serve
    <3>3. k - 1 \in {-1, 0} /\ procPrograms[c] + k \in Nat
        BY <2>1
    <3>4. /\ procConns \in [G!Indices -> Nat] /\ procPrograms \in [G!Indices -> Nat]
        BY DEF PoolInv, PoolTypes
    <3>5. procConns' \in [G!Indices -> Nat] /\ procPrograms' \in [G!Indices -> Nat]
        BY <3>1, <3>2, <3>3, <3>4
    <3>6. procConns'[c] = procConns[c] - 1 /\ procPrograms'[c] = procPrograms[c] + k
        BY <3>1, <3>2, <3>4
    <3>7. \A b \in G!Indices \ {c} :
              procConns'[b] = procConns[b] /\ procPrograms'[b] = procPrograms[b]
        BY <3>1, <3>2, <3>4
    <3>8. procConns'[c] + procPrograms'[c] = procConns[c] + procPrograms[c] + (k - 1)
        BY <2>1, <3>6
    <3> QED BY <3>3, <3>5, <3>7, <3>8
  <2> QED BY <2>2, <2>3
<1>3. RoomForAll'
  <2>1. PoolTypes /\ d \in Int
      BY DEF PoolInv
  <2>2. Total' = Total + d
      BY <1>2, <2>1, TotalChanges
  <2>3. Total \in Nat /\ procBacklog \in Nat
      BY <2>1, TotalBounds DEF PoolTypes, PoolAssumption
  <2> QED BY <1>1, <2>2, <2>3 DEF PoolInv, RoomForAll, PoolAssumption
<1>4. PoolTypes'
  <2>1. /\ procChildReady' \in [G!Indices -> SUBSET {"pipe", "signals"}]
        /\ procChildSignals' \in [G!Indices -> SUBSET {"CHLD", "TERM"}]
    <3>1. CASE G!ProgramEnds(c)
        BY <3>1 DEF G!ProgramEnds, PoolInv, PoolTypes
    <3>2. CASE G!Serve(c)
        BY <3>2 DEF G!Serve, PoolInv, PoolTypes
    <3> QED BY <3>1, <3>2
  <2> QED BY <1>1, <1>2, <2>1 DEF PoolInv, PoolTypes, G!Indices
<1>5. Heeded' /\ G!DeadAreAnnounced'
    BY <1>1 DEF PoolInv, Heeded, G!DeadAreAnnounced, G!Indices
<1> QED BY <1>3, <1>4, <1>5 DEF PoolInv

LEMMA DispatchStep ==
    ASSUME PoolAssumption, PoolInv, G!Dispatch
    PROVE  PoolInv'
<1>1. /\ UNCHANGED <<procBacklog, procSignals, procParent, procChild, procBatch,
                     procChildSignals, procConns, procPrograms>>
      /\ procReady' = procReady \ {"listen"} /\ procCounter' = (procCounter + 1) % Processes
    BY DEF G!Dispatch
<1>2. /\ procDispatches' \in [G!Indices -> Nat]
      /\ procChildReady' \in [G!Indices -> SUBSET {"pipe", "signals"}]
  <2>1. /\ procDispatches \in [G!Indices -> Nat] /\ procCounter \in G!Indices
        /\ procChildReady \in [G!Indices -> SUBSET {"pipe", "signals"}]
      BY DEF PoolInv, PoolTypes
  <2>2. procDispatches[procCounter] + 1 \in Nat
      BY <2>1
  <2>3. \/ UNCHANGED <<procDispatches, procChildReady>>
        \/ /\ procDispatches' = [procDispatches EXCEPT ![procCounter] = @ + 1]
           /\ procChildReady' = [procChildReady EXCEPT ![procCounter] = @ \cup {"pipe"}]
      BY DEF G!Dispatch
  <2> QED BY <2>1, <2>2, <2>3
<1>3. (procCounter + 1) % Processes \in G!Indices
    BY DEF PoolInv, PoolTypes, G!Indices, PoolAssumption
<1>4. PoolTypes'
    BY <1>1, <1>2, <1>3 DEF PoolInv, PoolTypes, G!Indices
<1>5. RoomForAll'
    BY <1>1, SameRoom DEF PoolInv
<1>6. Heeded' /\ G!DeadAreAnnounced'
    BY <1>1 DEF PoolInv, Heeded, G!DeadAreAnnounced, G!Indices
<1> QED BY <1>4, <1>5, <1>6 DEF PoolInv

LEMMA HandleSignalsStep ==
    ASSUME PoolAssumption, PoolInv, G!HandleSignals
    PROVE  PoolInv'
<1> DEFINE zombies == {c \in G!Indices : procChild[c] = "dead"}
           Before(k, sig) == \E j \in 1..(k - 1) : procSignals[j] = sig
           endless == {k \in DOMAIN procSignals :
                         /\ procSignals[k] = "CHLD" /\ ~Before(k, "CHLD")
                         /\ k - 1 < Processes /\ zombies # {}}
           term == \E k \in DOMAIN procSignals :
                      procSignals[k] = "TERM" /\ \A e \in endless : k < e
           killed == {c \in G!Indices : term /\ procChild[c] = "starts"}
           told == {c \in G!Indices : term /\ procChild[c] \in {"waits", "batch"}}
           waited == {c \in zombies : endless = {} /\ Before(Len(procSignals) + 1, "CHLD")}
<1>1. /\ procParent = "runs" /\ "signals" \in procReady
      /\ procParent' = IF endless # {} THEN "undefined" ELSE procParent
      /\ procChild' = [c \in G!Indices |->
                         IF c \in killed THEN "dead" ELSE IF c \in waited THEN "reaped" ELSE procChild[c]]
      /\ procSignals' = IF killed # {} THEN <<"CHLD">> ELSE <<>>
      /\ procReady' = IF killed # {} THEN procReady ELSE procReady \ {"signals"}
      /\ procChildSignals' = [c \in G!Indices |->
                IF c \in told THEN procChildSignals[c] \cup {"TERM"} ELSE procChildSignals[c]]
      /\ procChildReady' = [c \in G!Indices |->
                IF c \in told THEN procChildReady[c] \cup {"signals"} ELSE procChildReady[c]]
      /\ UNCHANGED <<procBacklog, procCounter, procDispatches, procBatch, procConns, procPrograms>>
    BY DEF G!HandleSignals
<1>2. endless = {} /\ zombies # {} => Before(Len(procSignals) + 1, "CHLD")
  <2>1. SUFFICES ASSUME zombies # {} PROVE \E k \in 1..Len(procSignals) : procSignals[k] = "CHLD"
    <3>1. Len(procSignals) \in Nat
        BY DEF PoolInv, PoolTypes
    <3> QED BY <2>1, <3>1
  <2>2. \E c \in G!Indices : procChild[c] = "dead"
      BY <2>1
  <2>3. \E k \in DOMAIN procSignals : procSignals[k] = "CHLD"
      BY <1>1, <2>2 DEF PoolInv, G!DeadAreAnnounced
  <2> QED BY <2>3 DEF PoolInv, PoolTypes
<1>3. <<>> \in Seq({"CHLD", "TERM"}) /\ <<"CHLD">> \in Seq({"CHLD", "TERM"})
      /\ <<"CHLD">> # <<>> /\ 1 \in DOMAIN <<"CHLD">> /\ <<"CHLD">>[1] = "CHLD"
    OBVIOUS
<1>4. endless = {} /\ killed = {} => \A c \in G!Indices : procChild'[c] # "dead"
    BY <1>1, <1>2
<1> HIDE DEF endless, killed, told, waited, zombies, term, Before
<1>5. PoolTypes'
  <2>1. /\ procChild' \in [G!Indices -> {"starts", "waits", "batch", "dead", "reaped"}]
        /\ procChildSignals' \in [G!Indices -> SUBSET {"CHLD", "TERM"}]
        /\ procChildReady' \in [G!Indices -> SUBSET {"pipe", "signals"}]
      BY <1>1 DEF PoolInv, PoolTypes
  <2>2. /\ procReady' \subseteq {"listen", "signals"} /\ procSignals' \in Seq({"CHLD", "TERM"})
        /\ procParent' \in {"runs", "undefined"}
      BY <1>1, <1>3 DEF PoolInv, PoolTypes
  <2> QED BY <1>1, <2>1, <2>2 DEF PoolInv, PoolTypes, G!Indices
<1>6. RoomForAll'
    BY <1>1, SameRoom DEF PoolInv
<1>7. Heeded' /\ G!DeadAreAnnounced'
  <2>1. CASE killed # {}
    <3>1. procSignals' = <<"CHLD">> /\ "signals" \in procReady'
        BY <1>1, <2>1
    <3> QED BY <1>3, <3>1 DEF Heeded, G!DeadAreAnnounced
  <2>2. CASE killed = {} /\ endless = {}
      BY <1>1, <1>4, <2>2 DEF Heeded, G!DeadAreAnnounced, G!Indices
  <2>3. CASE killed = {} /\ endless # {}
      BY <1>1, <2>3 DEF Heeded, G!DeadAreAnnounced
  <2> QED BY <2>1, <2>2, <2>3
<1> QED BY <1>5, <1>6, <1>7 DEF PoolInv

\* A child that starts, waits, looks for signals or loops leaves parent and clients alone
\* and does not die.
LEMMA ChildMovesStep ==
    ASSUME PoolAssumption, PoolInv, NEW c \in G!Indices,
           G!ChildStarts(c) \/ G!ChildWaits(c) \/ G!ChildSignal(c) \/ G!ChildLoops(c)
    PROVE  PoolInv'
<1>1. UNCHANGED <<procBacklog, procReady, procSignals, procCounter, procParent,
                  procChildSignals, procConns, procPrograms>>
    BY DEF G!ChildStarts, G!ChildWaits, G!ChildSignal, G!ChildLoops, G!ChildHandles, G!parentVars
<1>2. procChild' = procChild \/ \E s \in {"waits", "batch"} : procChild' = [procChild EXCEPT ![c] = s]
    BY DEF G!ChildStarts, G!ChildWaits, G!ChildSignal, G!ChildLoops
<1>3. procDispatches' = procDispatches \/ procDispatches' = [procDispatches EXCEPT ![c] = 0]
    BY DEF G!ChildStarts, G!ChildWaits, G!ChildSignal, G!ChildLoops
<1>4. procChildReady' = procChildReady \/ procChildReady' = [procChildReady EXCEPT ![c] = {}]
    BY DEF G!ChildStarts, G!ChildWaits, G!ChildSignal, G!ChildLoops, G!ChildHandles
<1>5. \/ procBatch' = procBatch
      \/ procBatch' = [procBatch EXCEPT ![c] = {e \in procChildReady[c] : e = "pipe" => procDispatches[c] > 0}]
      \/ procBatch' = [procBatch EXCEPT ![c] = @ \ {"signals"}]
    BY DEF G!ChildStarts, G!ChildWaits, G!ChildSignal, G!ChildLoops, G!ChildHandles
<1>6. PoolTypes'
  <2>1. procChild' \in [G!Indices -> {"starts", "waits", "batch", "dead", "reaped"}]
      BY <1>2 DEF PoolInv, PoolTypes
  <2>2. procDispatches' \in [G!Indices -> Nat]
    <3>1. procDispatches \in [G!Indices -> Nat] /\ 0 \in Nat
        BY DEF PoolInv, PoolTypes
    <3> QED BY <1>3, <3>1
  <2>3. /\ procChildReady' \in [G!Indices -> SUBSET {"pipe", "signals"}]
      BY <1>4 DEF PoolInv, PoolTypes
  <2>4. procBatch' \in [G!Indices -> SUBSET {"pipe", "signals"}]
    <3> DEFINE E == {"pipe", "signals"}
               R == {e \in procChildReady[c] : e = "pipe" => procDispatches[c] > 0}
    <3>1. procBatch \in [G!Indices -> SUBSET E]
        BY DEF PoolInv, PoolTypes
    <3>2. R \in SUBSET E /\ procBatch[c] \ {"signals"} \in SUBSET E
        BY <3>1 DEF PoolInv, PoolTypes
    <3> HIDE DEF R, E
    <3>3. \E r \in SUBSET E : procBatch' = procBatch \/ procBatch' = [procBatch EXCEPT ![c] = r]
        BY <1>5, <3>2 DEF R
    <3>4. procBatch' \in [G!Indices -> SUBSET E]
        BY <3>1, <3>3
    <3> QED BY <3>4 DEF E
  <2> QED BY <1>1, <2>1, <2>2, <2>3, <2>4 DEF PoolInv, PoolTypes, G!Indices
<1>7. RoomForAll'
    BY <1>1, SameRoom DEF PoolInv
<1>8. Heeded' /\ G!DeadAreAnnounced'
  <2>1. \A b \in G!Indices : procChild'[b] = "dead" => procChild[b] = "dead"
      BY <1>2 DEF PoolInv, PoolTypes
  <2> QED BY <1>1, <2>1 DEF PoolInv, Heeded, G!DeadAreAnnounced, G!Indices
<1> QED BY <1>6, <1>7, <1>8 DEF PoolInv

\* A child that accepts takes a client from the queue, or dies and gives all it held back.
LEMMA ChildAcceptsStep ==
    ASSUME PoolAssumption, PoolInv, NEW c \in G!Indices, G!ChildAccepts(c)
    PROVE  PoolInv'
<1>0. PoolTypes /\ procConns \in [G!Indices -> Nat] /\ procBacklog \in 0..MaxBacklog
      /\ procPrograms \in [G!Indices -> Nat] /\ procDispatches \in [G!Indices -> Nat]
    BY DEF PoolInv, PoolTypes
<1>1. /\ UNCHANGED <<procCounter, procParent, procChildReady, procChildSignals, procPrograms>>
      /\ procBatch' = [procBatch EXCEPT ![c] = @ \ {"pipe"}]
      /\ procDispatches' = [procDispatches EXCEPT ![c] = IF @ > 0 THEN @ - 1 ELSE 0]
    BY DEF G!ChildAccepts, G!ChildHandles, G!parentVars
<1>2. \/ UNCHANGED <<procBacklog, procConns, procChild, procReady, procSignals>>
      \/ /\ procBacklog # 0 /\ procBacklog' = procBacklog - 1
         /\ procConns' = [procConns EXCEPT ![c] = @ + 1]
         /\ UNCHANGED <<procChild, procReady, procSignals>>
      \/ /\ procBacklog # 0 /\ procBacklog' = procBacklog - 1
         /\ procConns' = [procConns EXCEPT ![c] = 0]
         /\ procChild' = [procChild EXCEPT ![c] = "dead"] /\ G!Signal("CHLD")
    BY DEF G!ChildAccepts, G!parentVars
<1>3. /\ procDispatches' \in [G!Indices -> Nat]
      /\ procBatch' \in [G!Indices -> SUBSET {"pipe", "signals"}]
  <2>1. (IF procDispatches[c] > 0 THEN procDispatches[c] - 1 ELSE 0) \in Nat
      BY <1>0
  <2>2. procDispatches' \in [G!Indices -> Nat]
      BY <1>0, <1>1, <2>1
  <2> QED BY <1>1, <2>2 DEF PoolInv, PoolTypes
<1>4. Total \in Nat /\ Total + procBacklog <= MaxConns /\ MaxConns \in Nat
    BY <1>0, TotalBounds DEF PoolInv, RoomForAll, PoolAssumption
<1>5. CASE UNCHANGED <<procBacklog, procConns, procChild, procReady, procSignals>>
  <2>1. PoolTypes'
      BY <1>0, <1>1, <1>3, <1>5 DEF PoolTypes, G!Indices
  <2>2. RoomForAll'
      BY <1>1, <1>5, SameRoom DEF PoolInv
  <2>3. Heeded' /\ G!DeadAreAnnounced'
      BY <1>1, <1>5 DEF PoolInv, Heeded, G!DeadAreAnnounced, G!Indices
  <2> QED BY <2>1, <2>2, <2>3 DEF PoolInv
<1>6. ASSUME NEW d \in Int, d <= 1, procBacklog # 0, procBacklog' = procBacklog - 1,
             NEW n \in Nat, procConns' = [procConns EXCEPT ![c] = n], n = procConns[c] + d
      PROVE  RoomForAll' /\ procConns' \in [G!Indices -> Nat] /\ procBacklog' \in 0..MaxBacklog
  <2>1. procConns' \in [G!Indices -> Nat] /\ procPrograms' \in [G!Indices -> Nat]
      BY <1>0, <1>1, <1>6
  <2>2. procConns'[c] + procPrograms'[c] = procConns[c] + procPrograms[c] + d
    <3>1. procConns[c] \in Nat /\ procPrograms[c] \in Nat
        BY <1>0
    <3>2. procConns'[c] = procConns[c] + d /\ procPrograms'[c] = procPrograms[c]
        BY <1>0, <1>1, <1>6
    <3> QED BY <3>1, <3>2
  <2>3. \A b \in G!Indices \ {c} :
            procConns'[b] = procConns[b] /\ procPrograms'[b] = procPrograms[b]
      BY <1>0, <1>1, <1>6
  <2>4. Total' = Total + d
      BY <1>0, <2>1, <2>2, <2>3, TotalChanges
  <2>5. procBacklog' \in 0..MaxBacklog
      BY <1>0, <1>6 DEF PoolAssumption
  <2>6. Total' + procBacklog' <= MaxConns
      BY <1>0, <1>4, <1>6, <2>4
  <2> QED BY <2>1, <2>5, <2>6 DEF RoomForAll
<1>7. CASE /\ procBacklog # 0 /\ procBacklog' = procBacklog - 1
           /\ procConns' = [procConns EXCEPT ![c] = @ + 1]
           /\ UNCHANGED <<procChild, procReady, procSignals>>
  <2> DEFINE n == procConns[c] + 1
  <2>1. /\ n \in Nat /\ n = procConns[c] + 1 /\ 1 \in Int /\ 1 <= 1
        /\ procConns' = [procConns EXCEPT ![c] = n]
      BY <1>0, <1>7
  <2> HIDE DEF n
  <2>2. RoomForAll' /\ procConns' \in [G!Indices -> Nat] /\ procBacklog' \in 0..MaxBacklog
      BY <1>6, <1>7, <2>1
  <2>3. PoolTypes'
      BY <1>0, <1>1, <1>3, <1>7, <2>2 DEF PoolTypes, G!Indices
  <2>4. Heeded' /\ G!DeadAreAnnounced'
      BY <1>1, <1>7 DEF PoolInv, Heeded, G!DeadAreAnnounced, G!Indices
  <2> QED BY <2>2, <2>3, <2>4 DEF PoolInv
<1>8. CASE /\ procBacklog # 0 /\ procBacklog' = procBacklog - 1
           /\ procConns' = [procConns EXCEPT ![c] = 0]
           /\ procChild' = [procChild EXCEPT ![c] = "dead"] /\ G!Signal("CHLD")
  <2>1. 0 - procConns[c] \in Int /\ 0 - procConns[c] <= 1
        /\ 0 = procConns[c] + (0 - procConns[c])
      BY <1>0
  <2>2. RoomForAll' /\ procConns' \in [G!Indices -> Nat] /\ procBacklog' \in 0..MaxBacklog
      BY <1>6, <1>8, <2>1
  <2>3. /\ procSignals' \in Seq({"CHLD", "TERM"}) /\ procSignals' # <<>>
        /\ procReady' = procReady \cup {"signals"}
        /\ \E k \in DOMAIN procSignals' : procSignals'[k] = "CHLD"
      BY <1>0, <1>8, SignalIsHeard
  <2>4. procChild' \in [G!Indices -> {"starts", "waits", "batch", "dead", "reaped"}]
      BY <1>0, <1>8 DEF PoolTypes
  <2>5. PoolTypes'
      BY <1>0, <1>1, <1>3, <2>2, <2>3, <2>4 DEF PoolTypes, G!Indices
  <2>6. Heeded' /\ G!DeadAreAnnounced'
      BY <2>3 DEF Heeded, G!DeadAreAnnounced
  <2> QED BY <2>2, <2>5, <2>6 DEF PoolInv
<1> QED BY <1>2, <1>5, <1>7, <1>8

LEMMA PoolStep ==
    ASSUME PoolAssumption, PoolInv, [G!Next]_G!poolVars
    PROVE  PoolInv'
<1>1. CASE UNCHANGED G!poolVars
  <2>1. UNCHANGED <<procBacklog, procReady, procSignals, procCounter, procParent, procChild,
                    procDispatches, procChildReady, procBatch, procChildSignals, procConns,
                    procPrograms>>
      BY <1>1 DEF G!poolVars, G!parentVars, G!childVars
  <2>2. RoomForAll'
      BY <2>1, SameRoom DEF PoolInv
  <2> QED BY <2>1, <2>2 DEF PoolInv, PoolTypes, Heeded, G!DeadAreAnnounced, G!Indices
<1> QED BY <1>1, ConnectStep, TerminateStep, DispatchStep, HandleSignalsStep, ChildMovesStep,
           ChildAcceptsStep, ProgramStep
        DEF G!Next, G!ParentStep, G!ChildStep

\* No death goes unannounced, with any number of children and signals: every child that
\* died and was not waited for is behind a SIGCHLD in the pipe, which epoll reports, as
\* long as the parent has not run past its children (SigHandler, 73 to 79; the loop
\* over the bytes, 283 to 338).
THEOREM DeathsAreAnnounced ==
    ASSUME PoolAssumption
    PROVE  G!Spec => []DeadAreAnnounced
<1>1. PoolInv => DeadAreAnnounced
    BY DEF PoolInv, DeadAreAnnounced
<1> QED BY <1>1, PoolInit, PoolStep, PTL DEF G!Spec

(***************************************************************************)
(* The shared memory chat server that its clients leave                    *)
(***************************************************************************)

\* However departures fall together with signals, user_count is the number of children
\* that have not been waited for (the SIGCHLD branch of the loop over the signals).
THEOREM ChildrenAreCounted ==
    ASSUME C2!PidsAssumption, C2!LimitsAssumption
    PROVE  C2!Spec => []CountIsChildren
<1>1. C2!CountIsChildren => CountIsChildren
    BY DEF C2!CountIsChildren, CountIsChildren, Two!CountIsChildren, C2!Children, Two!Children,
           C2!Running, Two!Running, C2!Cardinality, Two!Cardinality, C2!IsFiniteSet, Two!IsFiniteSet
<1>2. C2!Spec => []C2!CountIsChildren
    BY C2!ChildrenAreCounted
<1> QED BY <1>1, <1>2, PTL

\* After SIGTERM the server stops with its last child: no death is missed, and none is
\* waited for that has been seen already.
THEOREM ServerOutlivesNoChild ==
    ASSUME C2!PidsAssumption, C2!LimitsAssumption
    PROVE  C2!Spec => []LastChildStopsServer
<1>1. C2!LastChildStopsServer => LastChildStopsServer
    BY DEF C2!LastChildStopsServer, LastChildStopsServer, Two!LastChildStopsServer,
           C2!Children, Two!Children, C2!Running, Two!Running, C2!Signals, Two!Signals
<1>2. C2!Spec => []C2!LastChildStopsServer
    BY C2!ServerOutlivesNoChild
<1> QED BY <1>1, <1>2, PTL

(***************************************************************************)
(* The types                                                               *)
(***************************************************************************)

\* The poll loop, the parents and the children of the shared memory chat server and of
\* the process pool keep their types: i stays within fds and one place behind, a child
\* is only given a block that the shared memory has, sub_process_counter stays below
\* m_process_number (the loops of 9-6_chat_server.cc, 13-6_shared_memory_chat_server.cc
\* and 15-3_process_pool.h).
THEOREM ServersStayTyped ==
    ASSUME PoolAssumption, C2!PidsAssumption, C2!LimitsAssumption, C3!LimitsAssumption
    PROVE  /\ Spec /\ G!Spec
           /\ \/ C2!Spec /\ [](which # "talk")
              \/ C3!Spec /\ [](which = "talk")
           => []TypesOK
<1>1. PoolInv => G!TypeOK
  <2> SUFFICES ASSUME PoolInv PROVE G!TypeOK
      OBVIOUS
  <2>1. PoolTypes /\ procConns \in [G!Indices -> Nat] /\ procPrograms \in [G!Indices -> Nat]
      BY DEF PoolInv, PoolTypes
  <2>2. Total \in Nat /\ Total <= MaxConns
      BY <2>1, TotalBounds DEF PoolInv, RoomForAll, PoolTypes, PoolAssumption
  <2>3. \A c \in G!Indices : procConns[c] \in 0..MaxConns /\ procPrograms[c] \in 0..MaxConns
    <3> SUFFICES ASSUME NEW c \in G!Indices
                 PROVE  procConns[c] \in 0..MaxConns /\ procPrograms[c] \in 0..MaxConns
        OBVIOUS
    <3>1. procConns[c] \in Nat /\ procPrograms[c] \in Nat
        BY <2>1
    <3>2. procConns[c] + procPrograms[c] <= Total
        BY <2>1, TotalBounds
    <3> QED BY <2>2, <3>1, <3>2 DEF PoolAssumption
  <2>4. procConns \in [G!Indices -> 0..MaxConns] /\ procPrograms \in [G!Indices -> 0..MaxConns]
      BY <2>1, <2>3
  <2>5. \A k \in DOMAIN procSignals : procSignals[k] \in {"CHLD", "TERM"}
      BY <2>1 DEF PoolTypes
  <2> QED BY <2>1, <2>4, <2>5 DEF PoolTypes, G!TypeOK
<1>2. G!Spec => []G!TypeOK
    BY <1>1, PoolInit, PoolStep, PTL DEF G!Spec
<1>3. Spec => []TypeOK
    BY TypeCorrect
<1>4. C2!Spec => []C2!TypeOK
    BY C2!TypeCorrect
<1>5. C3!Spec => []C3!TypeOK
  <2>1. C3!PidsAssumption
      BY DEF C2!PidsAssumption, C3!PidsAssumption, C2!IsFiniteSet, C3!IsFiniteSet
  <2> QED BY <2>1, C3!TypeCorrect
<1>6. C2!TypeOK => Two!TypeOK
    BY DEF C2!TypeOK, Two!TypeOK, C2!Fds, Two!Fds, C2!Slots, Two!Slots, C2!Listen, Two!Listen,
           C2!Signals, Two!Signals, C2!Parent, Two!Parent
<1>7. C3!TypeOK => Three!TypeOK
    BY DEF C3!TypeOK, Three!TypeOK, C3!Fds, Three!Fds, C3!Slots, Three!Slots, C3!Listen,
           Three!Listen, C3!Signals, Three!Signals, C3!Parent, Three!Parent
<1>8. TypeOK /\ G!TypeOK /\ Two!TypeOK /\ which # "talk" => TypesOK
    BY DEF TypesOK
<1>9. TypeOK /\ G!TypeOK /\ Three!TypeOK /\ which = "talk" => TypesOK
    BY DEF TypesOK
<1> QED BY <1>2, <1>3, <1>4, <1>5, <1>6, <1>7, <1>8, <1>9, PTL
=============================================================================
