----------------------- MODULE SharedMemoryChat_proofs ------------------------
(***************************************************************************)
(* Proofs about the shared memory chat server, for any USER_LIMIT, any     *)
(* number of pids and descriptors and any number of messages: how it counts*)
(* its children, and that it stops after the last of them.                 *)
(***************************************************************************)
EXTENDS SharedMemoryChat, FiniteSetTheorems, WellFoundedInduction, TLAPS

\* Pids are finitely many, and pid 0 is no child's.
PidsAssumption == IsFiniteSet(Pids) /\ Zero \notin Pids
LimitsAssumption == USER_LIMIT \in Nat \ {0} /\ MaxFd \in Nat

\* users, sub_process and user_count stay within their arrays.
Tables ==
    /\ users \in [Slots -> [pid : Pids \cup {Zero}, fd : Fds \cup {0}]]
    /\ subProcess \in [Pids \cup {Zero} -> -1..(USER_LIMIT - 1)]
    /\ userCount \in 0..USER_LIMIT
    /\ pipeAt \in [Fds -> Pids \cup {Zero, Leaked}]
    /\ child \in [Pids -> {"none", "born", "wait", "batch", "zombie"}]

\* sub_process says of every child that it is one, however users was shuffled.
Listed == \A p \in Children : subProcess[p] >= 0

\* When a client waits there are descriptors for its connection and its pipe.
Room == backlog \in {0, 1} /\ (backlog = 1 => Cardinality(FreeFds) > 2)

Waiting == pc = "wait" => batch = {}

IInv == Tables /\ Listed /\ Room /\ Waiting /\ CountIsChildren /\ LastChildStopsServer

(***************************************************************************)
(* Pids and descriptors                                                    *)
(***************************************************************************)

\* A set of descriptors that is not empty has a lowest one.
LEMMA LowestIsOne ==
    ASSUME NEW S \in SUBSET Nat, S # {}
    PROVE  Min(S) \in S
<1> DEFINE R == OpToRel(<, Nat)
<1>1. \E x \in S : \A y \in S : ~(<<y, x>> \in R)
    BY NatLessThanWellFounded, WFMin
<1>2. \A x, y \in S : <<y, x>> \notin R => x =< y
    BY DEF OpToRel
<1>3. \E x \in S : \A y \in S : x =< y
    BY <1>1, <1>2
<1> QED BY <1>3 DEF Min

\* With three free descriptors, accept and socketpair find theirs: the parent's pipe
\* gets one of the free.
LEMMA PipeFindsOne ==
    ASSUME LimitsAssumption, Room, backlog = 1
    PROVE  /\ PipeFd \in FreeFds
           /\ Min(FreeFds \ {PipeFd, Min(FreeFds)}) \in FreeFds
<1>1. FreeFds \subseteq Nat /\ IsFiniteSet(FreeFds)
  <2>1. FreeFds \subseteq Fds /\ IsFiniteSet(Fds)
      BY FS_Interval DEF FreeFds, Fds, LimitsAssumption
  <2>2. IsFiniteSet(FreeFds)
      BY <2>1, FS_Subset
  <2> QED BY <2>1, <2>2 DEF Fds, LimitsAssumption
<1>2. Cardinality(FreeFds) \in Nat /\ Cardinality(FreeFds) > 2
    BY <1>1, FS_CardinalityType DEF Room
<1>3. FreeFds # {}
    BY <1>2, FS_EmptySet
<1>4. Min(FreeFds) \in FreeFds
    BY <1>1, <1>3, LowestIsOne
<1> DEFINE A == FreeFds \ {Min(FreeFds)}
           B == A \ {PipeFd}
<1>5. IsFiniteSet(A) /\ Cardinality(A) = Cardinality(FreeFds) - 1
    BY <1>1, <1>4, FS_RemoveElement
<1>6. A # {}
    BY <1>2, <1>5, FS_EmptySet
<1>7. PipeFd \in A
  <2>1. PipeFd = Min(A)
      BY DEF PipeFd
  <2> QED BY <1>1, <1>6, <2>1, LowestIsOne
<1>8. Cardinality(B) = Cardinality(A) - 1
    BY <1>5, <1>7, FS_RemoveElement
<1>9. B # {}
  <2>1. Cardinality(B) > 0
      BY <1>2, <1>5, <1>8
  <2> QED BY <2>1, FS_EmptySet
<1>10. Min(B) \in B
    BY <1>1, <1>9, LowestIsOne
<1>11. B = FreeFds \ {PipeFd, Min(FreeFds)}
    OBVIOUS
<1> QED BY <1>7, <1>10, <1>11

\* The children are the pids that fork has given out.
LEMMA ChildrenAre == Tables => Children = {p \in Pids : child[p] # "none"}
BY DEF Tables, Children, Running

\* There are finitely many of them.
LEMMA ChildrenAreFinite ==
    ASSUME PidsAssumption
    PROVE  IsFiniteSet(Children) /\ Cardinality(Children) \in Nat
<1>1. Children \subseteq Pids
    BY DEF Children, Running
<1> QED BY <1>1, FS_Subset, FS_CardinalityType DEF PidsAssumption

(***************************************************************************)
(* The count                                                               *)
(***************************************************************************)

\* What most steps do: the tables stay, children go on, and a client may be turned away.
Quiet ==
    /\ UNCHANGED tableVars
    /\ child' \in [Pids -> {"none", "born", "wait", "batch", "zombie"}]
    /\ \A p \in Pids : child'[p] = "none" <=> child[p] = "none"

\* A quiet step neither brings a child nor takes one.
LEMMA QuietKeeps ==
    ASSUME IInv, Quiet
    PROVE  Tables' /\ Listed' /\ CountIsChildren' /\ Children' = Children /\ FreeFds' = FreeFds
<1>1. Tables'
    BY DEF IInv, Quiet, Tables, tableVars
<1>2. Children' = Children
    BY <1>1, ChildrenAre DEF IInv, Quiet, Children, Running, Tables
<1>3. Listed' /\ CountIsChildren'
    BY <1>2 DEF IInv, Listed, CountIsChildren, Quiet, tableVars
<1> QED BY <1>1, <1>2, <1>3 DEF Quiet, tableVars, FreeFds

\* Every step but fork and the wait for a child is quiet.
LEMMA StepIsQuiet ==
    ASSUME IInv, [Next]_chatVars,
           ~ForkFails, ~Fork, \A p \in Pids : ~Reap(p)
    PROVE  Quiet /\ (backlog' \in {backlog, 0} \/ Connect)
<1> USE DEF Quiet, tableVars
<1>0. child \in [Pids -> {"none", "born", "wait", "batch", "zombie"}]
    BY DEF IInv, Tables
<1>1. CASE UNCHANGED chatVars
    BY <1>0, <1>1 DEF chatVars, childVars, clientVars
<1>2. CASE Connect \/ Terminate
    BY <1>0, <1>2 DEF Connect, Terminate, childVars, clientVars
<1>3. ASSUME NEW p \in Pids, ClientSends(p) \/ ClientCloses(p) PROVE Quiet /\ backlog' = backlog
    BY <1>0, <1>3 DEF ClientSends, ClientCloses
<1>4. ASSUME NEW p \in Pids, ChildStep(p) PROVE Quiet /\ backlog' = backlog
  <2>1. CASE ChildStarts(p)
      BY <1>0, <2>1 DEF ChildStarts, clientVars
  <2>2. CASE ChildWaits(p)
      BY <1>0, <2>2 DEF ChildWaits, clientVars
  <2>3. CASE ChildConn(p)
      BY <1>0, <2>3 DEF ChildConn, clientVars
  <2>4. CASE ChildPipe(p)
      BY <1>0, <2>4 DEF ChildPipe, clientVars
  <2>5. CASE ChildLoops(p)
      BY <1>0, <2>5 DEF ChildLoops, clientVars
  <2> QED BY <1>4, <2>1, <2>2, <2>3, <2>4, <2>5 DEF ChildStep
<1>5. CASE EpollWait \/ Refuse \/ ReadSignals \/ ReapEnds \/ TermIdle \/ EndOfBatch
    BY <1>0, <1>5 DEF EpollWait, Refuse, Accept, ReadSignals, ReapEnds, TermIdle, EndOfBatch,
                      childVars, clientVars
<1>6. ASSUME NEW fd \in Fds, Forward(fd) \/ ForwardNothing(fd) PROVE Quiet /\ backlog' = backlog
    BY <1>0, <1>6 DEF Forward, ForwardNothing, childVars, clientVars
<1>7. CASE TermAll
  <2>1. /\ UNCHANGED <<users, subProcess, userCount, pipeAt, backlog>>
        /\ \E woken \in SUBSET {p \in Pids : child[p] = "wait"} :
               child' = [p \in Pids |-> IF p \in woken THEN "batch" ELSE child[p]]
      BY <1>7 DEF TermAll, Running, clientVars
  <2> QED BY <1>0, <2>1
<1> QED BY <1>1, <1>2, <1>3, <1>4, <1>5, <1>6, <1>7 DEF Next, ParentStep

\* A fork is one child more, listed at the end of users.
LEMMA ForkCounts ==
    ASSUME PidsAssumption, LimitsAssumption, IInv, Fork
    PROVE  Tables' /\ Listed' /\ CountIsChildren'
<1>1. PICK p \in Pids :
          /\ child[p] = "none" /\ child' = [child EXCEPT ![p] = "born"]
          /\ pipeAt' = [pipeAt EXCEPT ![PipeFd] = p]
          /\ users' = [users EXCEPT ![userCount] = [pid |-> p, fd |-> PipeFd]]
          /\ subProcess' = [subProcess EXCEPT ![p] = userCount]
    BY DEF Fork
<1>2. userCount < USER_LIMIT /\ userCount' = userCount + 1 /\ userCount \in 0..USER_LIMIT
    BY DEF Fork, IInv, Tables
<1>3. PipeFd \in Fds
    BY PipeFindsOne DEF Fork, Accept, IInv, FreeFds
<1>4. Tables'
  <2>1. userCount \in Slots /\ userCount \in -1..(USER_LIMIT - 1) /\ userCount' \in 0..USER_LIMIT
      BY <1>2 DEF Slots, LimitsAssumption
  <2>2. users' \in [Slots -> [pid : Pids \cup {Zero}, fd : Fds \cup {0}]]
      BY <1>1, <1>3, <2>1 DEF IInv, Tables
  <2>3. subProcess' \in [Pids \cup {Zero} -> -1..(USER_LIMIT - 1)]
      BY <1>1, <2>1 DEF IInv, Tables
  <2>4. pipeAt' \in [Fds -> Pids \cup {Zero, Leaked}]
      BY <1>1, <1>3 DEF IInv, Tables
  <2>5. child' \in [Pids -> {"none", "born", "wait", "batch", "zombie"}]
      BY <1>1 DEF IInv, Tables
  <2> QED BY <2>1, <2>2, <2>3, <2>4, <2>5 DEF Tables
<1>5. Children' = Children \cup {p} /\ p \notin Children
  <2>1. \A q \in Pids : child'[q] = IF q = p THEN "born" ELSE child[q]
      BY <1>1 DEF IInv, Tables
  <2>2. Children = {q \in Pids : child[q] # "none"} /\ Children' = {q \in Pids : child'[q] # "none"}
      BY <1>4, ChildrenAre DEF IInv, Tables, Children, Running
  <2> QED BY <1>1, <2>1, <2>2
<1>6. Listed'
  <2>1. \A q \in Children : q \in Pids
      BY DEF Children, Running
  <2> QED BY <1>1, <1>2, <1>5, <2>1 DEF IInv, Listed, Tables
<1>7. CountIsChildren'
  <2>1. Cardinality(Children \cup {p}) = Cardinality(Children) + 1
      BY <1>5, ChildrenAreFinite, FS_AddElement
  <2> QED BY <1>2, <1>5, <2>1 DEF IInv, CountIsChildren
<1> QED BY <1>4, <1>6, <1>7

\* waitpid takes one child, and one is taken off user_count; whatever entry is put in
\* its place, the other children stay listed.
LEMMA ReapCounts ==
    ASSUME PidsAssumption, LimitsAssumption, IInv, NEW p \in Pids, Reap(p)
    PROVE  /\ Tables' /\ Listed' /\ CountIsChildren'
           /\ Children' = Children \ {p} /\ FreeFds \subseteq FreeFds'
           /\ users[subProcess[p]].fd \in Fds \cup {0}
           /\ ready' = ready \ {users[subProcess[p]].fd}
<1> DEFINE del == subProcess[p]
           fd == users[del].fd
           moved == users[userCount]
<1>1. child[p] = "zombie" /\ child' = [child EXCEPT ![p] = "none"]
    BY DEF Reap
<1>2. p \in Children
    BY <1>1 DEF Children
<1>3. del \in 0..(USER_LIMIT - 1) /\ del \in Slots /\ userCount \in Slots
    BY <1>2 DEF IInv, Tables, Listed, Slots, LimitsAssumption
<1>4. /\ users' = [users EXCEPT ![del] = moved] /\ userCount' = userCount - 1
      /\ subProcess' = [subProcess EXCEPT ![p] = -1, ![moved.pid] = del]
      /\ pipeAt' = [f \in Fds |-> IF f = fd THEN Zero ELSE pipeAt[f]]
      /\ ready' = ready \ {fd}
    BY <1>3 DEF Reap, IsChild
<1>5. /\ moved \in [pid : Pids \cup {Zero}, fd : Fds \cup {0}]
      /\ moved.pid \in Pids \cup {Zero} /\ fd \in Fds \cup {0}
    BY <1>3 DEF IInv, Tables
<1> HIDE DEF del, fd, moved
<1>6. Cardinality(Children \ {p}) = Cardinality(Children) - 1 /\ Cardinality(Children) > 0
  <2>1. Cardinality(Children \ {p}) = Cardinality(Children) - 1
      BY <1>2, ChildrenAreFinite, FS_RemoveElement
  <2>2. IsFiniteSet(Children \ {p})
      BY ChildrenAreFinite, FS_Subset
  <2> QED BY <2>1, <2>2, ChildrenAreFinite, FS_CardinalityType
<1>7. Tables'
  <2>1. userCount' \in 0..USER_LIMIT
      BY <1>4, <1>6 DEF IInv, Tables, CountIsChildren, LimitsAssumption
  <2>2. users' \in [Slots -> [pid : Pids \cup {Zero}, fd : Fds \cup {0}]]
      BY <1>3, <1>4, <1>5 DEF IInv, Tables
  <2>3. subProcess' \in [Pids \cup {Zero} -> -1..(USER_LIMIT - 1)]
    <3>1. -1 \in -1..(USER_LIMIT - 1) /\ del \in -1..(USER_LIMIT - 1)
        BY <1>3 DEF LimitsAssumption
    <3> QED BY <1>4, <1>5, <3>1 DEF IInv, Tables
  <2>4. pipeAt' \in [Fds -> Pids \cup {Zero, Leaked}]
      BY <1>4 DEF IInv, Tables
  <2>5. child' \in [Pids -> {"none", "born", "wait", "batch", "zombie"}]
      BY <1>1 DEF IInv, Tables
  <2> QED BY <2>1, <2>2, <2>3, <2>4, <2>5 DEF Tables
<1>8. Children' = Children \ {p}
  <2>1. \A q \in Pids : child'[q] = IF q = p THEN "none" ELSE child[q]
      BY <1>1 DEF IInv, Tables
  <2>2. Children = {q \in Pids : child[q] # "none"} /\ Children' = {q \in Pids : child'[q] # "none"}
      BY <1>7, ChildrenAre DEF IInv, Tables, Children, Running
  <2> QED BY <2>1, <2>2
<1>9. Listed'
  <2>1. \A q \in Children \ {p} : q \in Pids /\ subProcess[q] >= 0
      BY DEF IInv, Listed, Children, Running
  <2>2. \A q \in Children \ {p} : subProcess'[q] \in {subProcess[q], del}
      BY <1>4, <1>5, <2>1 DEF IInv, Tables
  <2> QED BY <1>3, <1>8, <2>1, <2>2 DEF Listed
<1>10. CountIsChildren'
    BY <1>4, <1>6, <1>8 DEF IInv, CountIsChildren
<1>11. FreeFds \subseteq FreeFds'
    BY <1>4 DEF FreeFds
<1> QED BY <1>4, <1>5, <1>7, <1>8, <1>9, <1>10, <1>11 DEF del, fd

(***************************************************************************)
(* The end of the server                                                   *)
(***************************************************************************)

\* The conjuncts of LastChildStopsServer.
Announced == (\E p \in Pids : child[p] = "zombie") => "CHLD" \in signals \cup bytes
Seen == signals # {} => Signals \in ready \cup batch
Ends == terminate /\ Children = {} /\ bytes = {} => stopServer

\* No descriptor of the parent is the signal pipe's.
LEMMA SignalsApart ==
    ASSUME LimitsAssumption
    PROVE  \A fd \in Fds \cup {0} : fd # Signals /\ fd # Listen
BY DEF LimitsAssumption, Fds, Signals, Listen

\* Every step but the wait for a child keeps the three.
LEMMA QuietEnds ==
    ASSUME PidsAssumption, LimitsAssumption, IInv, [Next]_chatVars, Children' = Children,
           ~ForkFails, ~Fork, \A p \in Pids : ~Reap(p)
    PROVE  Announced' /\ Seen' /\ Ends' /\ Waiting'
<1> USE DEF Announced, Seen, Ends, Waiting, Signals, Listen
<1>0. /\ child \in [Pids -> {"none", "born", "wait", "batch", "zombie"}]
      /\ Announced /\ Seen /\ Ends /\ Waiting
      /\ Children = {} => userCount = 0
    BY FS_EmptySet DEF IInv, Tables, LastChildStopsServer, CountIsChildren
<1>1. CASE UNCHANGED chatVars
    BY <1>0, <1>1 DEF chatVars, loopVars, childVars
<1>2. CASE Connect \/ Terminate
    BY <1>0, <1>2 DEF Connect, Terminate, childVars
<1>3. ASSUME NEW p \in Pids, ClientSends(p) \/ ClientCloses(p)
      PROVE  Announced' /\ Seen' /\ Ends' /\ Waiting'
    BY <1>0, <1>3 DEF ClientSends, ClientCloses, loopVars
<1>4. ASSUME NEW p \in Pids, ChildStep(p)
      PROVE  Announced' /\ Seen' /\ Ends' /\ Waiting'
  <2>1. CASE ChildStarts(p) \/ ChildWaits(p)
      BY <1>0, <2>1 DEF ChildStarts, ChildWaits, loopVars
  <2>2. CASE ChildConn(p) \/ ChildPipe(p)
    <3>1. /\ UNCHANGED <<child, signals, bytes, batch, pc, terminate, stopServer>>
          /\ ready \subseteq ready'
        BY <2>2 DEF ChildConn, ChildPipe, loopVars
    <3> QED BY <1>0, <3>1
  <2>3. CASE ChildLoops(p)
    <3>1. /\ UNCHANGED <<bytes, batch, pc, terminate, stopServer>>
          /\ \/ UNCHANGED <<signals, ready>> /\ child' = [child EXCEPT ![p] = "wait"]
             \/ signals' = signals \cup {"CHLD"} /\ ready' = ready \cup {Signals}
        BY <2>3 DEF ChildLoops
    <3> QED BY <1>0, <3>1
  <2> QED BY <1>4, <2>1, <2>2, <2>3 DEF ChildStep
<1>5. CASE EpollWait
    BY <1>0, <1>5 DEF EpollWait, childVars
<1>6. CASE Refuse
    BY <1>0, <1>6 DEF Refuse, Accept, Handle
<1>7. ASSUME NEW fd \in Fds, Forward(fd) \/ ForwardNothing(fd)
      PROVE  Announced' /\ Seen' /\ Ends' /\ Waiting'
  <2>1. /\ UNCHANGED <<child, signals, bytes, ready, pc, terminate, stopServer>>
        /\ batch' = batch \ {fd} /\ pc = "batch" /\ fd # Signals
      BY <1>7, SignalsApart DEF Forward, ForwardNothing, Handle, childVars
  <2> QED BY <1>0, <2>1
<1>8. CASE ReadSignals
    BY <1>0, <1>8 DEF ReadSignals, Handle, childVars
<1>9. CASE ReapEnds
    BY <1>0, <1>9 DEF ReapEnds, childVars
<1>10. CASE TermIdle
    BY <1>0, <1>10 DEF TermIdle, childVars
<1>11. CASE TermAll
  <2>1. /\ UNCHANGED <<batch, pc, stopServer>> /\ bytes' = bytes \ {"TERM"} /\ userCount > 0
        /\ \/ signals' = signals \cup {"TERM"} /\ ready' = ready \cup {Signals}
           \/ UNCHANGED <<signals, ready>>
        /\ \E woken \in SUBSET Pids :
               child' = [p \in Pids |-> IF p \in woken THEN "batch" ELSE child[p]]
      BY <1>11 DEF TermAll, Running
  <2>2. \A p \in Pids : child'[p] = "zombie" => child[p] = "zombie"
      BY <2>1
  <2>3. Children # {}
      BY <1>0, <2>1
  <2> QED BY <1>0, <2>1, <2>2, <2>3
<1>12. CASE EndOfBatch
    BY <1>0, <1>12 DEF EndOfBatch, childVars
<1> QED BY <1>1, <1>2, <1>3, <1>4, <1>5, <1>6, <1>7, <1>8, <1>9, <1>10, <1>11, <1>12
        DEF Next, ParentStep

\* Every step keeps IInv.
LEMMA StepInv ==
    ASSUME PidsAssumption, LimitsAssumption, IInv, [Next]_chatVars
    PROVE  IInv'
<1>0. /\ child \in [Pids -> {"none", "born", "wait", "batch", "zombie"}]
      /\ Announced /\ Seen /\ Ends /\ Waiting /\ Room
    BY DEF IInv, Tables, LastChildStopsServer, Announced, Seen, Ends
<1>1. SUFFICES Tables' /\ Listed' /\ CountIsChildren' /\ Room' /\ Waiting'
               /\ Announced' /\ Seen' /\ Ends'
    BY DEF IInv, LastChildStopsServer, Announced, Seen, Ends
<1>2. CASE Fork
  <2>1. Tables' /\ Listed' /\ CountIsChildren'
      BY <1>2, ForkCounts
  <2>2. /\ pc = "batch" /\ batch' = batch \ {Listen} /\ backlog' = 0
        /\ UNCHANGED <<pc, signals, bytes, ready, terminate, stopServer>>
      BY <1>2 DEF Fork, Accept, Handle
  <2>3. PICK p \in Pids : child' = [child EXCEPT ![p] = "born"]
      BY <1>2 DEF Fork
  <2>4. Children' # {}
      BY <1>0, <2>3 DEF Children, Running
  <2>5. Announced'
      BY <1>0, <2>2, <2>3 DEF Announced
  <2> QED BY <1>0, <2>1, <2>2, <2>4, <2>5 DEF Room, Waiting, Seen, Ends, Signals, Listen
<1>3. CASE ForkFails
  <2>1. /\ pc = "batch" /\ batch' = batch \ {Listen} /\ backlog' = 0
        /\ UNCHANGED <<pc, signals, bytes, ready, terminate, stopServer, child,
                       subProcess, userCount>>
      BY <1>3 DEF ForkFails, Accept, Handle
  <2>2. PipeFd \in Fds /\ Min(FreeFds \ {PipeFd, Min(FreeFds)}) \in Fds
      BY <1>0, <1>3, PipeFindsOne DEF ForkFails, Accept, FreeFds
  <2>3. Tables'
    <3>1. userCount \in Slots
        BY DEF IInv, Tables, Slots, LimitsAssumption
    <3>2. users' \in [Slots -> [pid : Pids \cup {Zero}, fd : Fds \cup {0}]]
        BY <1>3, <2>2, <3>1 DEF ForkFails, IInv, Tables
    <3>3. pipeAt' \in [Fds -> Pids \cup {Zero, Leaked}]
        BY <1>3, <2>2 DEF ForkFails, IInv, Tables
    <3> QED BY <2>1, <3>2, <3>3 DEF IInv, Tables
  <2>4. Children' = Children
      BY <2>1 DEF Children, Running
  <2>5. Listed' /\ CountIsChildren'
      BY <2>1, <2>4 DEF IInv, Listed, CountIsChildren
  <2> QED BY <1>0, <2>1, <2>3, <2>4, <2>5
          DEF Room, Waiting, Announced, Seen, Ends, Signals, Listen
<1>4. ASSUME NEW p \in Pids, Reap(p)
      PROVE  Tables' /\ Listed' /\ CountIsChildren' /\ Room' /\ Waiting'
             /\ Announced' /\ Seen' /\ Ends'
  <2>1. /\ Tables' /\ Listed' /\ CountIsChildren' /\ FreeFds \subseteq FreeFds'
        /\ users[subProcess[p]].fd \in Fds \cup {0}
        /\ ready' = ready \ {users[subProcess[p]].fd}
      BY <1>4, ReapCounts
  <2>2. /\ UNCHANGED <<batch, signals, bytes, terminate, stopServer, pc, backlog>>
        /\ "CHLD" \in bytes
      BY <1>4 DEF Reap, clientVars
  <2>3. Room'
    <3>1. IsFiniteSet(FreeFds') /\ Cardinality(FreeFds) \in Nat /\ Cardinality(FreeFds') \in Nat
      <4>1. FreeFds \subseteq Fds /\ FreeFds' \subseteq Fds /\ IsFiniteSet(Fds)
          BY FS_Interval DEF FreeFds, Fds, LimitsAssumption
      <4> QED BY <4>1, FS_Subset, FS_CardinalityType
    <3>2. Cardinality(FreeFds) <= Cardinality(FreeFds')
        BY <2>1, <3>1, FS_Subset
    <3> QED BY <1>0, <2>2, <3>1, <3>2 DEF Room
  <2>4. Seen'
      BY <1>0, <2>1, <2>2, SignalsApart DEF Seen
  <2> QED BY <1>0, <2>1, <2>2, <2>3, <2>4 DEF Waiting, Announced, Ends
<1>5. CASE ~Fork /\ ~ForkFails /\ \A p \in Pids : ~Reap(p)
  <2>1. Quiet /\ (backlog' \in {backlog, 0} \/ Connect)
      BY <1>5, StepIsQuiet
  <2>2. Tables' /\ Listed' /\ CountIsChildren' /\ Children' = Children /\ FreeFds' = FreeFds
      BY <2>1, QuietKeeps
  <2>3. Room'
      BY <1>0, <2>1, <2>2 DEF Room, Connect
  <2>4. Announced' /\ Seen' /\ Ends' /\ Waiting'
      BY <1>5, <2>2, QuietEnds
  <2> QED BY <2>2, <2>3, <2>4
<1> QED BY <1>2, <1>3, <1>4, <1>5

\* IInv holds at the beginning.
LEMMA InitInv ==
    ASSUME PidsAssumption, LimitsAssumption
    PROVE  Init => IInv
<1> SUFFICES ASSUME Init PROVE IInv
    OBVIOUS
<1>1. Tables
  <2>1. Nobody \in [pid : Pids \cup {Zero}, fd : Fds \cup {0}]
      BY DEF Nobody
  <2>2. -1 \in -1..(USER_LIMIT - 1) /\ 0 \in 0..USER_LIMIT
      BY DEF LimitsAssumption
  <2> QED BY <2>1, <2>2 DEF Init, Tables
<1>2. Children = {}
    BY DEF Init, Children, Running
<1>3. CountIsChildren /\ Listed
    BY <1>2, FS_EmptySet DEF Init, CountIsChildren, Listed
<1>4. Room /\ Waiting /\ LastChildStopsServer
    BY DEF Init, Room, Waiting, LastChildStopsServer
<1> QED BY <1>1, <1>3, <1>4 DEF IInv

\* user_count is the number of children not waited for, though users has stale and
\* doubled entries: sub_process, by which the parent knows a child, never has.
THEOREM ChildrenAreCounted ==
    ASSUME PidsAssumption, LimitsAssumption
    PROVE  Spec => []CountIsChildren
<1>1. IInv /\ [Next]_chatVars => IInv'
    BY StepInv
<1>2. IInv => CountIsChildren
    BY DEF IInv
<1> QED BY <1>1, <1>2, InitInv, PTL DEF Spec

\* No SIGCHLD is lost, and a server that is to terminate is told to stop when it has
\* waited for its last child.
THEOREM ServerOutlivesNoChild ==
    ASSUME PidsAssumption, LimitsAssumption
    PROVE  Spec => []LastChildStopsServer
<1>1. IInv /\ [Next]_chatVars => IInv'
    BY StepInv
<1>2. IInv => LastChildStopsServer
    BY DEF IInv
<1> QED BY <1>1, <1>2, InitInv, PTL DEF Spec

(***************************************************************************)
(* The types                                                               *)
(***************************************************************************)

Blocks == 0..(USER_LIMIT - 1)

\* What the parent's loop, the children and the shared memory hold.
LoopTypes ==
    /\ ready \subseteq Fds \cup {Listen, Signals} /\ batch \subseteq Fds \cup {Listen, Signals}
    /\ signals \subseteq {"CHLD", "TERM"} /\ bytes \subseteq {"CHLD", "TERM"}
    /\ pc \in {"wait", "batch", "stopped"}
ChildTypes ==
    /\ idx \in [Pids -> Blocks]
    /\ events \in [Pids -> SUBSET {"conn", "pipe"}]
    /\ handling \in [Pids -> SUBSET {"conn", "pipe"}]
    /\ holders \in [Pids -> SUBSET (Pids \cup {Parent})]
DataTypes ==
    /\ told \in [Pids -> Seq(Blocks)] /\ announced \in [Pids -> Seq(Blocks)]
    /\ block \in [Blocks -> Pids \cup {Zero}]
    /\ heard \subseteq Pids \X Pids
AllTypes == LoopTypes /\ ChildTypes /\ DataTypes

\* A message goes to an entry of users a number of times, none or more.
LEMMA TimesNat ==
    ASSUME LimitsAssumption, Tables, NEW fd, NEW q
    PROVE  Times(fd, q) \in Nat
<1>1. IsFiniteSet(0..(userCount - 1))
  <2>1. userCount \in Int
      BY DEF Tables, LimitsAssumption
  <2> QED BY <2>1, FS_Interval
<1>2. {j \in 0..(userCount - 1) : users[j].fd \in Fds \ {fd} /\ pipeAt[users[j].fd] = q}
          \subseteq 0..(userCount - 1)
    OBVIOUS
<1> QED BY <1>1, <1>2, FS_Subset, FS_CardinalityType DEF Times

\* Every step keeps them.
LEMMA TypesStep ==
    ASSUME PidsAssumption, LimitsAssumption, IInv, AllTypes, [Next]_chatVars
    PROVE  AllTypes'
<1> USE DEF AllTypes
<1>1. CASE UNCHANGED chatVars
    BY <1>1 DEF chatVars, loopVars, childVars, dataVars, LoopTypes, ChildTypes, DataTypes
<1>2. CASE Connect \/ Terminate
    BY <1>2 DEF Connect, Terminate, childVars, dataVars, LoopTypes, ChildTypes, DataTypes
<1>3. ASSUME NEW p \in Pids, ClientSends(p) \/ ClientCloses(p) PROVE AllTypes'
  <2>1. /\ UNCHANGED <<loopVars, idx, handling, holders, told, announced, block, heard>>
        /\ events' = [events EXCEPT ![p] = @ \cup {"conn"}]
      BY <1>3 DEF ClientSends, ClientCloses, dataVars
  <2>2. LoopTypes' /\ DataTypes'
      BY <2>1 DEF loopVars, LoopTypes, DataTypes
  <2>3. ChildTypes'
      BY <2>1 DEF ChildTypes
  <2> QED BY <2>2, <2>3
<1>4. ASSUME NEW p \in Pids, ChildStarts(p) \/ ChildWaits(p) PROVE AllTypes'
    BY <1>4 DEF ChildStarts, ChildWaits, loopVars, dataVars, LoopTypes, ChildTypes, DataTypes
<1>5. ASSUME NEW p \in Pids, ChildConn(p) PROVE AllTypes'
  <2>1. LoopTypes'
      BY <1>5 DEF ChildConn, LoopTypes
  <2>2. ChildTypes'
      BY <1>5 DEF ChildConn, ChildTypes
  <2>3. announced' \in [Pids -> Seq(Blocks)]
    <3>1. idx[p] \in Blocks /\ announced[p] \in Seq(Blocks)
        BY DEF ChildTypes, DataTypes
    <3>2. Append(announced[p], idx[p]) \in Seq(Blocks)
        BY <3>1
    <3> QED BY <1>5, <3>2 DEF ChildConn, DataTypes
  <2>4. DataTypes'
      BY <1>5, <2>3 DEF ChildConn, DataTypes
  <2> QED BY <2>1, <2>2, <2>4
<1>6. ASSUME NEW p \in Pids, ChildPipe(p) PROVE AllTypes'
  <2>1. LoopTypes' /\ ChildTypes'
      BY <1>6 DEF ChildPipe, loopVars, LoopTypes, ChildTypes
  <2>2. told' \in [Pids -> Seq(Blocks)]
    <3>1. told[p] # <<>> => Tail(told[p]) \in Seq(Blocks)
        BY DEF DataTypes
    <3> QED BY <1>6, <3>1 DEF ChildPipe, DataTypes
  <2>3. DataTypes'
      BY <1>6, <2>2 DEF ChildPipe, DataTypes
  <2> QED BY <2>1, <2>3
<1>7. ASSUME NEW p \in Pids, ChildLoops(p) PROVE AllTypes'
  <2>1. LoopTypes'
      BY <1>7 DEF ChildLoops, LoopTypes
  <2>2. /\ holders' \in [Pids -> SUBSET (Pids \cup {Parent})]
        /\ events' \in [Pids -> SUBSET {"conn", "pipe"}]
      BY <1>7 DEF ChildLoops, ChildTypes
  <2>3. ChildTypes'
      BY <1>7, <2>2 DEF ChildLoops, ChildTypes
  <2>4. DataTypes'
    <3>1. <<>> \in Seq(Blocks)
        OBVIOUS
    <3> QED BY <1>7, <3>1 DEF ChildLoops, DataTypes
  <2> QED BY <2>1, <2>3, <2>4
<1>8. CASE EpollWait \/ Refuse \/ ReadSignals \/ ReapEnds \/ TermIdle \/ EndOfBatch
    BY <1>8 DEF EpollWait, Refuse, Accept, Handle, ReadSignals, ReapEnds, TermIdle, EndOfBatch,
                childVars, dataVars, LoopTypes, ChildTypes, DataTypes
<1>9. CASE ForkFails
    BY <1>9 DEF ForkFails, Accept, Handle, LoopTypes, ChildTypes, DataTypes
<1>10. CASE Fork
  <2>1. PICK p \in Pids :
            /\ idx' = [idx EXCEPT ![p] = userCount]
            /\ holders' = [q \in Pids |-> IF q = p THEN {Parent}
                              ELSE IF Parent \in holders[q] THEN holders[q] \cup {p} ELSE holders[q]]
            /\ told' = [told EXCEPT ![p] = <<>>] /\ announced' = [announced EXCEPT ![p] = <<>>]
            /\ events' = [events EXCEPT ![p] = {}]
            /\ heard' = {h \in heard : p \notin {h[1], h[2]}}
      BY <1>10 DEF Fork
  <2>2. userCount \in Blocks
      BY <1>10 DEF Fork, IInv, Tables, Blocks, LimitsAssumption
  <2>3. LoopTypes'
      BY <1>10 DEF Fork, Accept, Handle, LoopTypes
  <2>4. ChildTypes'
      BY <1>10, <2>1, <2>2 DEF Fork, Accept, ChildTypes
  <2>5. DataTypes'
    <3>1. <<>> \in Seq(Blocks)
        OBVIOUS
    <3> QED BY <1>10, <2>1, <3>1 DEF Fork, Accept, DataTypes
  <2> QED BY <2>3, <2>4, <2>5
<1>11. ASSUME NEW fd \in Fds, Forward(fd) PROVE AllTypes'
  <2> DEFINE p == pipeAt[fd]
             n == Head(announced[p])
  <2>1. /\ p \in Pids /\ announced[p] # <<>>
        /\ announced' = [announced EXCEPT ![p] = Tail(@)]
        /\ told' = [q \in Pids |-> IF q \in Running THEN told[q] \o [k \in 1..Times(fd, q) |-> n] ELSE told[q]]
        /\ events' = [q \in Pids |-> IF q \in Running /\ Times(fd, q) > 0 THEN events[q] \cup {"pipe"} ELSE events[q]]
      BY <1>11 DEF Forward
  <2>2. n \in Blocks /\ Tail(announced[p]) \in Seq(Blocks)
      BY <2>1 DEF DataTypes
  <2> HIDE DEF p, n
  <2>3. told' \in [Pids -> Seq(Blocks)]
    <3>1. ASSUME NEW q \in Pids
          PROVE  told[q] \o [k \in 1..Times(fd, q) |-> n] \in Seq(Blocks)
      <4>1. Times(fd, q) \in Nat
          BY TimesNat DEF IInv
      <4>2. [k \in 1..Times(fd, q) |-> n] \in Seq(Blocks)
          BY <2>2, <4>1
      <4>3. told[q] \in Seq(Blocks)
          BY DEF DataTypes
      <4> QED BY <4>2, <4>3
    <3>2. \A q \in Pids : told[q] \in Seq(Blocks)
        BY DEF DataTypes
    <3> QED BY <2>1, <3>1, <3>2
  <2>4. announced' \in [Pids -> Seq(Blocks)]
      BY <2>1, <2>2 DEF DataTypes
  <2>5. DataTypes'
      BY <1>11, <2>3, <2>4 DEF Forward, DataTypes
  <2>6. LoopTypes'
      BY <1>11 DEF Forward, Handle, LoopTypes
  <2>7. ChildTypes'
      BY <1>11, <2>1 DEF Forward, ChildTypes
  <2> QED BY <2>5, <2>6, <2>7
<1>12. ASSUME NEW fd \in Fds, ForwardNothing(fd) PROVE AllTypes'
    BY <1>12 DEF ForwardNothing, Handle, childVars, dataVars, LoopTypes, ChildTypes, DataTypes
<1>13. ASSUME NEW p \in Pids, Reap(p) PROVE AllTypes'
  <2>1. LoopTypes'
      BY <1>13 DEF Reap, LoopTypes
  <2>2. /\ holders' \in [Pids -> SUBSET (Pids \cup {Parent})]
        /\ events' \in [Pids -> SUBSET {"conn", "pipe"}]
      BY <1>13 DEF Reap, ChildTypes
  <2>3. ChildTypes' /\ DataTypes'
      BY <1>13, <2>2 DEF Reap, ChildTypes, DataTypes
  <2> QED BY <2>1, <2>3
<1>14. CASE TermAll
    BY <1>14 DEF TermAll, dataVars, LoopTypes, ChildTypes, DataTypes
<1> QED BY <1>1, <1>2, <1>3, <1>4, <1>5, <1>6, <1>7, <1>8, <1>9, <1>10, <1>11, <1>12, <1>13, <1>14
        DEF Next, ParentStep, ChildStep

\* Every variable keeps its type: a child is only given a block that the shared memory
\* has, no index leaves users or sub_process, though the entries of users are moved with
\* every departure, and accept and socketpair find descriptors.
THEOREM TypeCorrect ==
    ASSUME PidsAssumption, LimitsAssumption
    PROVE  Spec => []TypeOK
<1>1. Init => IInv /\ AllTypes
  <2>1. Init => AllTypes
    <3> SUFFICES ASSUME Init PROVE AllTypes
        OBVIOUS
    <3>1. 0 \in Blocks /\ <<>> \in Seq(Blocks)
        BY DEF Blocks, LimitsAssumption
    <3> QED BY <3>1 DEF Init, AllTypes, LoopTypes, ChildTypes, DataTypes, Blocks
  <2> QED BY <2>1, InitInv
<1>2. IInv /\ AllTypes /\ [Next]_chatVars => IInv' /\ AllTypes'
    BY StepInv, TypesStep
<1>3. IInv /\ AllTypes => TypeOK
  <2> SUFFICES ASSUME IInv, AllTypes PROVE TypeOK
      OBVIOUS
  <2>1. \A p \in Pids : \A q \in {told, announced} :
            \A i \in DOMAIN q[p] : q[p][i] \in 0..(USER_LIMIT - 1)
    <3> SUFFICES ASSUME NEW p \in Pids, NEW q \in {told, announced}, NEW i \in DOMAIN q[p]
                 PROVE  q[p][i] \in Blocks
        BY DEF Blocks
    <3>1. q[p] \in Seq(Blocks)
        BY DEF AllTypes, DataTypes
    <3> QED BY <3>1
  <2> QED BY <2>1 DEF IInv, Tables, AllTypes, LoopTypes, ChildTypes, DataTypes, Blocks, TypeOK
<1> QED BY <1>1, <1>2, <1>3, PTL DEF Spec
=============================================================================
