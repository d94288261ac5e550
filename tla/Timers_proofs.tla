--------------------------- MODULE Timers_proofs ----------------------------
(***************************************************************************)
(* Proofs about the containers of timers. TimeWheel: for any number of     *)
(* slots and timers and any timeouts, a turn of the wheel loses, delays or *)
(* repeats no timer. The list: what SortTimerList_proofs proves, of the    *)
(* list of TimersMC. TimeHeap: for any number of timers and any delays, as *)
(* long as the program is defined, the heap is a heap of all its timers.   *)
(* And the types of all that TimersMC puts together.                       *)
(***************************************************************************)
EXTENDS TimersMC, FiniteSetTheorems, FunctionTheorems, SequenceTheorems,
        WellFoundedInduction, TLAPS

\* Server of TimersMC, with what is proved about it.
Dead == INSTANCE SortTimerList_proofs WITH
            list <- deadList, allocated <- deadAllocated, timer <- deadTimer, open <-
            deadOpen, backlog <- deadBacklog, unread <- deadUnread, hung <- deadHung,
            edge <- deadEdge, pipe <- deadPipe, alarm <- deadAlarm, pc <- deadPc, batch
            <- deadBatch, timeout <- deadTimeout, stopServer <- deadStopServer, silent
            <- deadSilent, Fds <- {1}, Timers <- ServerTimers,
            kept <- list, running <- allocated
\* Kept!L is List of TimersMC, with what is proved about it.
Kept == INSTANCE SortTimerList_proofs WITH
            list <- deadList, allocated <- deadAllocated, timer <- deadTimer, open <-
            deadOpen, backlog <- deadBacklog, unread <- deadUnread, hung <- deadHung,
            edge <- deadEdge, pipe <- deadPipe, alarm <- deadAlarm, pc <- deadPc, batch
            <- deadBatch, timeout <- deadTimeout, stopServer <- deadStopServer, silent
            <- deadSilent, Fds <- {1}, kept <- list, running <- allocated

(***************************************************************************)
(* The wheel                                                               *)
(***************************************************************************)

WheelInv == Wheel!TypeOK /\ Wheel!LinkedWhereNamed

\* Division by the number of slots.
LEMMA DivMod ==
    ASSUME Wheel!WheelAssumption, NEW n \in Nat
    PROVE  /\ n \div N \in Nat /\ n % N \in Wheel!Slots
           /\ n = (n \div N) * N + (n % N)
BY Z3 DEF Wheel!WheelAssumption, Wheel!Slots

\* Going r slots on from slot c ends in a slot of the wheel.
LEMMA Around ==
    ASSUME Wheel!WheelAssumption, NEW c \in Wheel!Slots, NEW r \in 0..N
    PROVE  (c + r) % N = IF c + r < N THEN c + r ELSE c + r - N
<1>0. N \in Nat /\ N > 0 /\ c \in 0..(N - 1) /\ r \in 0..N
    BY DEF Wheel!WheelAssumption, Wheel!Slots
<1>1. CASE c + r < N
    BY <1>0, <1>1
<1>2. CASE c + r >= N
  <2>1. (c + r) - N \in Nat /\ (c + r) - N < N
      BY <1>0, <1>2
  <2>2. (c + r) % N = ((c + r) - N) % N
      BY <1>0
  <2> QED BY <1>0, <1>2, <2>1, <2>2
<1> QED BY <1>0, <1>1, <1>2

\* A timeout that is accepted is a number of ticks.
LEMMA TicksNat ==
    ASSUME Wheel!WheelAssumption, NEW timeout \in Timeouts, timeout >= 0
    PROVE  Wheel!Ticks(timeout) \in Nat
BY DEF Wheel!WheelAssumption, Wheel!Ticks

----------------------------------------------------------------------------

\* The empty wheel satisfies the invariant.
LEMMA InitWheel == Wheel!WheelAssumption /\ Wheel!Init => WheelInv
BY DEF Wheel!WheelAssumption, Wheel!Init, WheelInv, Wheel!TypeOK, Wheel!LinkedWhereNamed, Wheel!Slots

\* Every call keeps it.
LEMMA NextWheel == Wheel!WheelAssumption /\ WheelInv /\ [Wheel!Next]_(Wheel!wheelVars) => WheelInv'
<1> SUFFICES ASSUME Wheel!WheelAssumption, WheelInv, [Wheel!Next]_(Wheel!wheelVars) PROVE WheelInv'
    OBVIOUS
<1> USE DEF WheelInv, Wheel!TypeOK, Wheel!LinkedWhereNamed
<1>1. ASSUME NEW timeout \in Timeouts, Wheel!AddNothing(timeout) PROVE WheelInv'
    BY <1>1 DEF Wheel!AddNothing
<1>2. ASSUME NEW timeout \in Timeouts, NEW t \in Timers, Wheel!AddTimer(t, timeout) PROVE WheelInv'
  <2> DEFINE ticks == Wheel!Ticks(timeout)
             ts == (cur_slot + (ticks % N)) % N
  <2>1. ticks \in Nat
      BY <1>2, TicksNat DEF Wheel!AddTimer
  <2>2. ticks \div N \in Nat /\ ticks % N \in Wheel!Slots
      BY <2>1, DivMod
  <2>3. ts \in Wheel!Slots
    <3>1. cur_slot + (ticks % N) \in Nat
        BY <2>2 DEF Wheel!WheelAssumption, Wheel!Slots
    <3> QED BY <3>1, DivMod
  <2>4. \A i \in Wheel!Slots : t \notin slots[i]
      BY <1>2 DEF Wheel!AddTimer, Wheel!Linked
  <2> HIDE DEF ticks, ts
  <2>5. /\ rotation' = [rotation EXCEPT ![t] = ticks \div N]
        /\ time_slot' = [time_slot EXCEPT ![t] = ts]
        /\ slots' = [slots EXCEPT ![ts] = @ \cup {t}]
        /\ fired' = {} /\ cur_slot' = cur_slot
      BY <1>2 DEF Wheel!AddTimer, ticks, ts
  <2>6. Wheel!TypeOK'
      BY <2>2, <2>3, <2>5
  <2>7. Wheel!LinkedWhereNamed'
      BY <2>3, <2>4, <2>5
  <2> QED BY <2>6, <2>7
<1>3. ASSUME NEW t \in Timers, Wheel!DeleteTimer(t) PROVE WheelInv'
    BY <1>3 DEF Wheel!DeleteTimer
<1>4. CASE Wheel!Tick
  <2>1. cur_slot' \in Wheel!Slots
      BY <1>4, DivMod DEF Wheel!Tick, Wheel!Slots
  <2>2. Wheel!TypeOK'
      BY <1>4, <2>1 DEF Wheel!Tick
  <2>3. Wheel!LinkedWhereNamed'
      BY <1>4 DEF Wheel!Tick
  <2> QED BY <2>2, <2>3
<1>5. CASE UNCHANGED Wheel!wheelVars
    BY <1>5 DEF Wheel!wheelVars
<1> QED BY <1>1, <1>2, <1>3, <1>4, <1>5 DEF Wheel!Next

\* Every variable of the wheel keeps its type: slots and rotations stay in range
\* for every number of slots and every timeout (AddTimer and Tick, 60 to 145).
THEOREM WheelTypes ==
    Wheel!Spec => []Wheel!TypeOK
<1>1. WheelInv => Wheel!TypeOK
    BY DEF WheelInv
<1> QED BY ConstantsAssumption, InitWheel, NextWheel, <1>1, PTL DEF Wheel!Spec

\* A timer is linked in the slot it names, so DeleteTimer looks in the right list.
THEOREM SlotsAreNamed ==
    Wheel!Spec => []Wheel!LinkedWhereNamed
<1>1. WheelInv => Wheel!LinkedWhereNamed
    BY DEF WheelInv
<1> QED BY ConstantsAssumption, InitWheel, NextWheel, <1>1, PTL DEF Wheel!Spec

----------------------------------------------------------------------------
(* The refinement                                                          *)

TickCounts == {Wheel!Ticks(timeout) : timeout \in {x \in Timeouts : x >= 0}}
Due == [t \in Timers |-> IF t \in Wheel!Linked THEN Wheel!Remaining(t) ELSE None]

\* The timers that are linked are those linked where they say.
LEMMA LinkedHere ==
    ASSUME WheelInv, NEW t \in Timers
    PROVE  t \in Wheel!Linked <=> t \in slots[time_slot[t]]
BY DEF WheelInv, Wheel!TypeOK, Wheel!LinkedWhereNamed, Wheel!Linked

\* What remains is a number of ticks; it is none for what the next Tick fires.
LEMMA RemainingNat ==
    ASSUME Wheel!WheelAssumption, Wheel!TypeOK, NEW t \in Timers
    PROVE  /\ Wheel!Remaining(t) \in Nat
           /\ Wheel!Remaining(t) = 0 <=> rotation[t] = 0 /\ time_slot[t] = cur_slot
<1>1. N \in Nat /\ N > 0 /\ rotation[t] \in Nat /\ time_slot[t] \in 0..(N - 1)
      /\ cur_slot \in 0..(N - 1)
    BY DEF Wheel!WheelAssumption, Wheel!TypeOK, Wheel!Slots
<1>2. Wheel!Distance(time_slot[t]) \in 0..(N - 1)
      /\ (Wheel!Distance(time_slot[t]) = 0 <=> time_slot[t] = cur_slot)
    BY <1>1 DEF Wheel!Distance
<1>3. rotation[t] * N \in Nat /\ (rotation[t] * N = 0 <=> rotation[t] = 0)
    BY <1>1, Z3
<1> QED BY <1>2, <1>3 DEF Wheel!Remaining

\* A timer runs in the service if it is linked in the wheel.
LEMMA RunningIsLinked == Wheel!WheelAssumption /\ Wheel!TypeOK => Wheel!Service!Running = Wheel!Linked
<1> SUFFICES ASSUME Wheel!WheelAssumption, Wheel!TypeOK PROVE Wheel!Service!Running = Wheel!Linked
    OBVIOUS
<1>1. ASSUME NEW t \in Timers PROVE Wheel!Remaining(t) # None
  <2>1. Wheel!Remaining(t) \in Nat
      BY RemainingNat
  <2> HIDE DEF Wheel!Remaining
  <2> QED BY <2>1 DEF Wheel!WheelAssumption
<1>2. Wheel!Linked \subseteq Timers
    BY DEF Wheel!TypeOK, Wheel!Linked
<1> QED BY <1>1, <1>2 DEF Wheel!Service!Running

\* The wheel starts as a service without timers.
LEMMA WheelInitRefines == Wheel!Init => Wheel!Service!Init
BY DEF Wheel!Init, Wheel!Service!Init, Wheel!Linked

\* AddTimer starts a timer that is due after the ticks it was added for.
LEMMA AddTimerRefines ==
    ASSUME Wheel!WheelAssumption, WheelInv, NEW timeout \in Timeouts, NEW t \in Timers, Wheel!AddTimer(t, timeout)
    PROVE  Wheel!Service!Add(t, Wheel!Ticks(timeout))
<1> DEFINE ticks == Wheel!Ticks(timeout)
           ts == (cur_slot + (ticks % N)) % N
<1>1. ticks \in Nat
    BY TicksNat DEF Wheel!AddTimer
<1>2. ticks \div N \in Nat /\ ticks % N \in Wheel!Slots /\ ticks = (ticks \div N) * N + (ticks % N)
    BY <1>1, DivMod
<1>3. N \in Nat /\ N > 0 /\ cur_slot \in 0..(N - 1) /\ ticks % N \in 0..(N - 1)
    BY <1>2 DEF Wheel!WheelAssumption, WheelInv, Wheel!TypeOK, Wheel!Slots
<1>4. ts = IF cur_slot + (ticks % N) < N THEN cur_slot + (ticks % N)
                                         ELSE cur_slot + (ticks % N) - N
  <2> HIDE DEF ticks
  <2>1. cur_slot \in Wheel!Slots /\ ticks % N \in 0..N
      BY <1>3 DEF Wheel!Slots
  <2> QED BY <2>1, Around
<1>5. ts \in Wheel!Slots
    BY <1>3, <1>4 DEF Wheel!Slots
<1>6. /\ t \notin Wheel!Linked
      /\ rotation' = [rotation EXCEPT ![t] = ticks \div N]
      /\ time_slot' = [time_slot EXCEPT ![t] = ts]
      /\ slots' = [slots EXCEPT ![ts] = @ \cup {t}]
      /\ fired' = {} /\ cur_slot' = cur_slot
    BY DEF Wheel!AddTimer
<1> HIDE DEF ticks, ts
<1>7. Wheel!Linked' = Wheel!Linked \cup {t}
    BY <1>5, <1>6 DEF Wheel!Linked, WheelInv, Wheel!TypeOK
<1>8. Wheel!Remaining(t)' = ticks
  <2>1. time_slot'[t] = ts /\ rotation'[t] = ticks \div N
      BY <1>6 DEF WheelInv, Wheel!TypeOK
  <2>2. Wheel!Distance(time_slot[t])' = ticks % N
      BY <1>3, <1>4, <1>6, <2>1 DEF Wheel!Distance
  <2> QED BY <1>2, <2>1, <2>2 DEF Wheel!Remaining
<1>9. \A u \in Timers \ {t} : Wheel!Remaining(u)' = Wheel!Remaining(u)
    BY <1>6 DEF Wheel!Remaining, Wheel!Distance, WheelInv, Wheel!TypeOK
<1>10. t \notin Wheel!Service!Running
    BY <1>6, RunningIsLinked DEF WheelInv
<1>11. Due' = [Due EXCEPT ![t] = ticks]
  <2> HIDE DEF Wheel!Remaining
  <2> QED BY <1>7, <1>8, <1>9 DEF Due
<1> QED BY <1>6, <1>10, <1>11 DEF Wheel!Service!Add, Due, ticks

\* DeleteTimer stops the timer.
LEMMA DeleteTimerRefines ==
    ASSUME Wheel!WheelAssumption, WheelInv, NEW t \in Timers, Wheel!DeleteTimer(t)
    PROVE  Wheel!Service!Remove(t)
<1>1. Wheel!Linked' = Wheel!Linked \ {t}
    BY DEF Wheel!DeleteTimer, Wheel!Linked, WheelInv, Wheel!TypeOK, Wheel!LinkedWhereNamed
<1>2. \A u \in Timers : Wheel!Remaining(u)' = Wheel!Remaining(u)
    BY DEF Wheel!DeleteTimer, Wheel!Remaining, Wheel!Distance
<1>3. t \in Wheel!Service!Running
    BY RunningIsLinked DEF Wheel!DeleteTimer, WheelInv
<1>4. Due' = [Due EXCEPT ![t] = None]
  <2> HIDE DEF Wheel!Remaining
  <2> QED BY <1>1, <1>2 DEF Due
<1> QED BY <1>3, <1>4 DEF Wheel!Service!Remove, Wheel!DeleteTimer, Due

\* Tick fires what is due and brings everything else one tick closer.
LEMMA TickRefines ==
    ASSUME Wheel!WheelAssumption, WheelInv, Wheel!Tick
    PROVE  Wheel!Service!FireAndElapse
<1>0. N \in Nat /\ N > 0 /\ cur_slot \in 0..(N - 1)
      /\ \A t \in Timers : rotation[t] \in Nat /\ time_slot[t] \in 0..(N - 1)
    BY DEF Wheel!WheelAssumption, WheelInv, Wheel!TypeOK, Wheel!Slots
<1>1. cur_slot' = IF cur_slot + 1 < N THEN cur_slot + 1 ELSE 0
    BY <1>0, Around DEF Wheel!Tick, Wheel!Slots
<1>2. ASSUME NEW t \in Timers
      PROVE  t \in fired' <=> t \in Wheel!Linked /\ Wheel!Remaining(t) <= 0
  <2>1. Wheel!Remaining(t) <= 0 <=> rotation[t] = 0 /\ time_slot[t] = cur_slot
      BY RemainingNat DEF WheelInv
  <2> HIDE DEF Wheel!Remaining
  <2>2. t \in fired' <=> t \in slots[cur_slot] /\ rotation[t] = 0
      BY DEF Wheel!Tick
  <2>3. t \in slots[cur_slot] <=> t \in Wheel!Linked /\ time_slot[t] = cur_slot
      BY LinkedHere DEF Wheel!Linked, WheelInv, Wheel!TypeOK, Wheel!LinkedWhereNamed
  <2> QED BY <2>1, <2>2, <2>3
<1>3. ASSUME NEW t \in Timers
      PROVE  t \in Wheel!Linked' <=> t \in Wheel!Linked /\ t \notin fired'
  <2>1. t \in Wheel!Linked => t \in slots[time_slot[t]]
      BY LinkedHere
  <2> QED BY <2>1 DEF Wheel!Linked, Wheel!Tick, WheelInv, Wheel!TypeOK, Wheel!LinkedWhereNamed
<1>4. ASSUME NEW t \in Timers, t \in Wheel!Linked, t \notin fired'
      PROVE  Wheel!Remaining(t)' = Wheel!Remaining(t) - 1
  <2>1. t \in slots[time_slot[t]]
      BY <1>4, LinkedHere
  <2>2. time_slot'[t] = time_slot[t]
      BY DEF Wheel!Tick
  <2>3. CASE time_slot[t] = cur_slot
    <3>1. rotation[t] > 0 /\ rotation'[t] = rotation[t] - 1
        BY <1>0, <1>4, <2>1, <2>3 DEF Wheel!Tick
    <3>2. Wheel!Distance(time_slot[t]) = 0 /\ Wheel!Distance(time_slot[t])' = N - 1
        BY <1>0, <1>1, <2>2, <2>3 DEF Wheel!Distance
    <3>3. (rotation[t] - 1) * N + (N - 1) = (rotation[t] * N + 0) - 1
        BY <1>0, Z3
    <3>4. Wheel!Remaining(t)' = (rotation[t] - 1) * N + (N - 1)
        BY <3>1, <3>2 DEF Wheel!Remaining
    <3>5. Wheel!Remaining(t) = rotation[t] * N + 0
        BY <3>2 DEF Wheel!Remaining
    <3> QED BY <3>3, <3>4, <3>5
  <2>4. CASE time_slot[t] # cur_slot
    <3>1. rotation'[t] = rotation[t]
        BY <2>4 DEF Wheel!Tick, WheelInv, Wheel!LinkedWhereNamed, Wheel!TypeOK
    <3>2. Wheel!Distance(time_slot[t])' = Wheel!Distance(time_slot[t]) - 1
        BY <1>0, <1>1, <2>2, <2>4 DEF Wheel!Distance
    <3>3. Wheel!Distance(time_slot[t]) \in Int /\ rotation[t] * N \in Int
        BY <1>0 DEF Wheel!Distance
    <3>4. Wheel!Remaining(t) = rotation[t] * N + Wheel!Distance(time_slot[t])
        BY DEF Wheel!Remaining
    <3>5. Wheel!Remaining(t)' = rotation[t] * N + (Wheel!Distance(time_slot[t]) - 1)
        BY <3>1, <3>2 DEF Wheel!Remaining
    <3> HIDE DEF Wheel!Remaining, Wheel!Distance
    <3> QED BY <3>3, <3>4, <3>5
  <2> QED BY <2>3, <2>4
<1>5. Wheel!Service!Running = Wheel!Linked
    BY RunningIsLinked DEF WheelInv
<1>6. \A t \in Timers : t \in Wheel!Linked => Due[t] = Wheel!Remaining(t)
    BY DEF Due
<1>7. fired' = {t \in Wheel!Service!Running : Due[t] <= 0}
  <2>1. fired' \subseteq Timers /\ Wheel!Linked \subseteq Timers
      BY DEF Wheel!Tick, WheelInv, Wheel!TypeOK, Wheel!Linked
  <2> HIDE DEF Wheel!Remaining, Due, Wheel!Linked
  <2> QED BY <1>2, <1>5, <1>6, <2>1
<1>8. Due' = [t \in Timers |-> IF t \in Wheel!Service!Running \ fired' THEN Due[t] - 1 ELSE None]
  <2>1. Due' = [t \in Timers |-> IF t \in Wheel!Linked' THEN Wheel!Remaining(t)' ELSE None]
      BY DEF Due
  <2> HIDE DEF Wheel!Remaining, Due, Wheel!Linked
  <2> QED BY <1>3, <1>4, <1>5, <1>6, <2>1
<1> QED BY <1>7, <1>8 DEF Wheel!Service!FireAndElapse, Due

\* Every step of the wheel is a step of the service.
LEMMA WheelStepRefines ==
    Wheel!WheelAssumption /\ WheelInv /\ [Wheel!Next]_(Wheel!wheelVars)
        => [Wheel!Service!Operation \/ Wheel!Service!FireAndElapse]_(Wheel!Service!serviceVars)
<1> SUFFICES ASSUME Wheel!WheelAssumption, WheelInv, [Wheel!Next]_(Wheel!wheelVars)
             PROVE  [Wheel!Service!Operation \/ Wheel!Service!FireAndElapse]_(Wheel!Service!serviceVars)
    OBVIOUS
<1>1. ASSUME NEW timeout \in Timeouts, Wheel!AddNothing(timeout)
      PROVE  Wheel!Service!Refuse
    BY <1>1 DEF Wheel!AddNothing, Wheel!Service!Refuse, Wheel!Linked, Wheel!Remaining, Wheel!Distance
<1>2. ASSUME NEW timeout \in Timeouts, NEW t \in Timers, Wheel!AddTimer(t, timeout)
      PROVE  Wheel!Service!Operation
  <2>1. Wheel!Ticks(timeout) \in TickCounts
      BY <1>2 DEF Wheel!AddTimer, TickCounts
  <2>2. Wheel!Service!Add(t, Wheel!Ticks(timeout))
      BY <1>2, AddTimerRefines
  <2> QED BY <2>1, <2>2 DEF Wheel!Service!Operation, TickCounts
<1>3. ASSUME NEW t \in Timers, Wheel!DeleteTimer(t) PROVE Wheel!Service!Operation
    BY <1>3, DeleteTimerRefines DEF Wheel!Service!Operation
<1>4. CASE Wheel!Tick
    BY <1>4, TickRefines
<1>5. CASE UNCHANGED Wheel!wheelVars
    BY <1>5 DEF Wheel!wheelVars, Wheel!Service!serviceVars, Wheel!Linked, Wheel!Remaining, Wheel!Distance
<1>6. Wheel!Service!Refuse => Wheel!Service!Operation
    BY DEF Wheel!Service!Operation
<1> QED BY <1>1, <1>2, <1>3, <1>4, <1>5, <1>6 DEF Wheel!Next

\* For every number of slots, every timeout and any sequence of calls, a timer
\* fires exactly once, in the Tick that comes after as many others as its timeout
\* has ticks (AddTimer, DeleteTimer and Tick, 60 to 145).
THEOREM WheelIsTimerService ==
    Wheel!Spec => ImplementsTimerService
<1>0. Wheel!WheelAssumption
    BY ConstantsAssumption
<1>1. Wheel!Spec => []WheelInv
    BY <1>0, InitWheel, NextWheel, PTL DEF Wheel!Spec
<1> QED BY <1>0, <1>1, WheelInitRefines, WheelStepRefines, PTL
    DEF Wheel!Spec, ImplementsTimerService, Wheel!ImplementsTimerService, Wheel!Service!TickSpec

(***************************************************************************)
(* The list: what SortTimerList_proofs proves of Kept!L is true of List,   *)
(* because the two are the same module with the same list.                 *)
(***************************************************************************)

\* Both walk their lists alike.
LEMMA SameWalk ==
    ASSUME NEW l, NEW from
    PROVE  List!Walk(l, from) = Kept!L!Walk(l, from)
BY DEF List!Walk, Kept!L!Walk, List!Cardinality, Kept!L!Cardinality

\* They search and link alike.
LEMMA SameSteps ==
    ASSUME NEW l, NEW t, NEW x, NEW w, NEW nodes
    PROVE  /\ List!Link(l, t, x) = Kept!L!Link(l, t, x)
           /\ List!Delete(l, nodes) = Kept!L!Delete(l, nodes)
           /\ List!Min(nodes) = Kept!L!Min(nodes)
           /\ List!Nodes(l) = Kept!L!Nodes(l)
           /\ List!ToSet(w) = Kept!L!ToSet(w)
           /\ List!Last(w) = Kept!L!Last(w)
<1>1. List!Link(l, t, x) = Kept!L!Link(l, t, x)
    BY DEF List!Link, Kept!L!Link
<1>2. List!Delete(l, nodes) = Kept!L!Delete(l, nodes)
    BY DEF List!Delete, Kept!L!Delete
<1>3. List!Min(nodes) = Kept!L!Min(nodes)
    BY DEF List!Min, Kept!L!Min
<1>4. List!Nodes(l) = Kept!L!Nodes(l)
    BY SameWalk DEF List!Nodes, Kept!L!Nodes
<1>5. List!ToSet(w) = Kept!L!ToSet(w)
    BY DEF List!ToSet, Kept!L!ToSet
<1>6. List!Last(w) = Kept!L!Last(w)
    BY DEF List!Last, Kept!L!Last
<1> QED BY <1>1, <1>2, <1>3, <1>4, <1>5, <1>6

\* They have the same private AddTimer.
LEMMA SameAddBehind ==
    ASSUME NEW l, NEW t, NEW from
    PROVE  List!AddBehind(l, t, from) = Kept!L!AddBehind(l, t, from)
<1>1. List!Walk(l, from) = Kept!L!Walk(l, from)
    BY SameWalk
<1>2. \A S : List!Min(S) = Kept!L!Min(S)
    BY SameSteps
<1>3. \A w : List!Position(l, t, w) = Kept!L!Position(l, t, w)
    BY <1>2 DEF List!Position, Kept!L!Position
<1>4. \A m, b, a : List!Link(m, b, a) = Kept!L!Link(m, b, a)
    BY SameSteps
<1> QED BY <1>1, <1>3, <1>4 DEF List!AddBehind, Kept!L!AddBehind

\* And the same member functions.
LEMMA SameFunctions ==
    ASSUME NEW l, NEW t, NEW now
    PROVE  /\ List!AddTimer(l, t) = Kept!L!AddTimer(l, t)
           /\ List!AdjustTimer(l, t) = Kept!L!AdjustTimer(l, t)
           /\ List!DeleteTimer(l, t) = Kept!L!DeleteTimer(l, t)
           /\ List!Expired(l, now) = Kept!L!Expired(l, now)
           /\ List!Tick(l, now) = Kept!L!Tick(l, now)
<1>1. \A m, from : List!AddBehind(m, t, from) = Kept!L!AddBehind(m, t, from)
    BY SameAddBehind
<1>2. \A m, b, a : List!Link(m, b, a) = Kept!L!Link(m, b, a)
    BY SameSteps
<1>3. \A m, S : List!Delete(m, S) = Kept!L!Delete(m, S)
    BY SameSteps
<1>4. List!Nodes(l) = Kept!L!Nodes(l) /\ (\A S : List!Min(S) = Kept!L!Min(S))
    BY SameSteps
<1>5. \A w : List!ToSet(w) = Kept!L!ToSet(w) /\ List!Last(w) = Kept!L!Last(w)
    BY SameSteps
<1>6. List!AddTimer(l, t) = Kept!L!AddTimer(l, t)
    BY <1>1, <1>2 DEF List!AddTimer, Kept!L!AddTimer
<1>7. List!AdjustTimer(l, t) = Kept!L!AdjustTimer(l, t)
    BY <1>1, <1>2 DEF List!AdjustTimer, Kept!L!AdjustTimer
<1>8. List!Unlink(l, t) = Kept!L!Unlink(l, t)
    BY <1>2 DEF List!Unlink, Kept!L!Unlink
<1>9. List!DeleteTimer(l, t) = Kept!L!DeleteTimer(l, t)
    BY <1>3, <1>8 DEF List!DeleteTimer, Kept!L!DeleteTimer
<1>10. List!Expired(l, now) = Kept!L!Expired(l, now)
    BY <1>4 DEF List!Expired, Kept!L!Expired
<1>11. List!Tick(l, now) = Kept!L!Tick(l, now)
  <2> DEFINE gone == Kept!L!Expired(l, now)
             head == l.next[Kept!L!Last(gone)]
             rest == [l EXCEPT !.head = head]
             left == IF head = None THEN rest ELSE [rest EXCEPT !.prev[head] = None]
  <2>1. Kept!L!Tick(l, now) = IF gone = <<>> THEN l ELSE Kept!L!Delete(left, Kept!L!ToSet(gone))
      BY DEF Kept!L!Tick
  <2>2. List!Tick(l, now) = IF gone = <<>> THEN l ELSE List!Delete(left, List!ToSet(gone))
    <3>1. List!Last(List!Expired(l, now)) = Kept!L!Last(Kept!L!Expired(l, now))
        BY <1>5, <1>10
    <3> DEFINE G == List!Expired(l, now)
               h == l.next[List!Last(G)]
               r == [l EXCEPT !.head = h]
    <3>2. List!Tick(l, now) = IF G = <<>> THEN l
                           ELSE List!Delete(IF h = None THEN r ELSE [r EXCEPT !.prev[h] = None], List!ToSet(G))
        BY DEF List!Tick
    <3>3. G = gone /\ h = head
        BY <1>10, <3>1
    <3> HIDE DEF G, h, gone, head
    <3> QED BY <3>2, <3>3
  <2>3. List!Delete(left, List!ToSet(gone)) = Kept!L!Delete(left, Kept!L!ToSet(gone))
    <3> HIDE DEF left, gone
    <3> QED BY <1>3, <1>5
  <2> QED BY <2>1, <2>2, <2>3
<1> QED BY <1>6, <1>7, <1>9, <1>10, <1>11


\* A list is as sound for one as for the other.
LEMMA SameSoundness == Kept!L!ListIsSound => ListIsSound
<1>1. List!Nodes(list) = Kept!L!Nodes(list) /\ \A w : List!Last(w) = Kept!L!Last(w)
    BY SameSteps
<1> QED BY <1>1 DEF Kept!L!ListIsSound, ListIsSound, List!ListIsSound, Kept!L!Linked, List!Linked,
           Kept!L!Sorted, List!Sorted

\* They begin alike, and one moves as the other does.
LEMMA SameInit == List!Init => Kept!L!Init
BY DEF List!Init, Kept!L!Init, List!EmptyList, Kept!L!EmptyList

LEMMA SameNext == [List!Next]_(List!listVars) => [Kept!L!Next]_(Kept!L!listVars)
<1>1. ASSUME NEW t \in Timers, NEW d \in Delays, List!Add(t, d) PROVE Kept!L!Add(t, d)
  <2>1. \A l : List!AddTimer(l, t) = Kept!L!AddTimer(l, t)
      BY SameFunctions
  <2> QED BY <1>1, <2>1 DEF List!Add, Kept!L!Add
<1>2. ASSUME NEW t \in Timers, NEW d \in Delays, List!Adjust(t, d) PROVE Kept!L!Adjust(t, d)
  <2>1. \A l : List!AdjustTimer(l, t) = Kept!L!AdjustTimer(l, t)
      BY SameFunctions
  <2> QED BY <1>2, <2>1 DEF List!Adjust, Kept!L!Adjust
<1>3. ASSUME NEW t \in Timers, List!Cancel(t) PROVE Kept!L!Cancel(t)
  <2>1. List!DeleteTimer(list, t) = Kept!L!DeleteTimer(list, t)
      BY SameFunctions
  <2> QED BY <1>3, <2>1 DEF List!Cancel, Kept!L!Cancel
<1>4. ASSUME List!TickNow PROVE Kept!L!TickNow
  <2>1. /\ List!Expired(list, 0) = Kept!L!Expired(list, 0)
        /\ List!Tick(list, 0) = Kept!L!Tick(list, 0)
        /\ \A w : List!ToSet(w) = Kept!L!ToSet(w)
      BY SameFunctions, SameSteps
  <2> QED BY <1>4, <2>1 DEF List!TickNow, Kept!L!TickNow
<1>5. ASSUME List!TimePasses PROVE Kept!L!TimePasses
    BY <1>5 DEF List!TimePasses, Kept!L!TimePasses
<1>6. CASE UNCHANGED List!listVars
    BY <1>6 DEF List!listVars, Kept!L!listVars
<1> QED BY <1>1, <1>2, <1>3, <1>4, <1>5, <1>6 DEF List!Next, Kept!L!Next

LEMMA SameSpec == List!Spec => Kept!L!Spec
BY SameInit, SameNext, PTL DEF List!Spec, Kept!L!Spec

\* What TimersMC assumes is all that is assumed of the list.
LEMMA KeptAssumptions ==
    /\ Kept!TimersAssumption /\ Kept!FdsAssumption
    /\ Kept!LifetimeAssumption /\ Kept!BoundsAssumption
<1>1. \A S : Kept!IsFiniteSet(S) <=> IsFiniteSet(S)
    BY DEF Kept!IsFiniteSet, IsFiniteSet
<1> QED BY <1>1, FS_Singleton, ConstantsAssumption, HeapAssumption
    DEF Kept!TimersAssumption, Kept!FdsAssumption, Kept!LifetimeAssumption, Kept!BoundsAssumption

\* After any mixture of AddTimer, AdjustTimer, DeleteTimer and Tick on any number of
\* timers, the links of the list agree in both directions, tail is its last node and it
\* is in order of expiry (11-2_lst_timer.h, 50 to 168).
THEOREM ListStaysSound == List!Spec => []ListIsSound
<1>1. Kept!L!Spec => []Kept!L!ListIsSound
    BY KeptAssumptions, Kept!ListStaysSound, HeapAssumption
<1> QED BY <1>1, SameSpec, SameSoundness, PTL

\* The service of one list is that of the other.
LEMMA SameServiceInit == Kept!L!Service!Init => List!Service!Init
<1>1. List!ToSet(List!Nodes(list)) = Kept!L!ToSet(Kept!L!Nodes(list))
      /\ List!ToSet(called) = Kept!L!ToSet(called)
    BY SameSteps
<1> QED BY <1>1 DEF Kept!L!Service!Init, List!Service!Init

LEMMA SameService ==
    [Kept!L!Service!Operation \/ Kept!L!Service!Fire \/ Kept!L!Service!Elapse]_(Kept!L!Service!serviceVars)
        => [List!Service!Operation \/ List!Service!Fire \/ List!Service!Elapse]_(List!Service!serviceVars)
<1>1. /\ List!ToSet(List!Nodes(list)) = Kept!L!ToSet(Kept!L!Nodes(list))
      /\ List!ToSet(called) = Kept!L!ToSet(called)
      /\ List!ToSet(List!Nodes(list')) = Kept!L!ToSet(Kept!L!Nodes(list'))
      /\ List!ToSet(called') = Kept!L!ToSet(called')
    BY SameSteps
<1>2. Kept!L!Service!Running = List!Service!Running
    BY <1>1 DEF Kept!L!Service!Running, List!Service!Running
<1>3. ASSUME NEW t \in Timers, NEW d \in Delays, Kept!L!Service!Add(t, d) PROVE List!Service!Add(t, d)
    BY <1>1, <1>2, <1>3 DEF Kept!L!Service!Add, List!Service!Add
<1>4. ASSUME NEW t \in Timers, NEW d \in Delays, Kept!L!Service!Prolong(t, d)
      PROVE  List!Service!Prolong(t, d)
    BY <1>1, <1>2, <1>4 DEF Kept!L!Service!Prolong, List!Service!Prolong
<1>5. ASSUME NEW t \in Timers, Kept!L!Service!Remove(t) PROVE List!Service!Remove(t)
    BY <1>1, <1>2, <1>5 DEF Kept!L!Service!Remove, List!Service!Remove
<1>6. Kept!L!Service!Refuse => List!Service!Refuse
    BY <1>1 DEF Kept!L!Service!Refuse, List!Service!Refuse
<1>7. Kept!L!Service!Fire => List!Service!Fire
    BY <1>1, <1>2 DEF Kept!L!Service!Fire, List!Service!Fire
<1>8. Kept!L!Service!Elapse => List!Service!Elapse
    BY <1>1, <1>2 DEF Kept!L!Service!Elapse, List!Service!Elapse
<1>9. UNCHANGED Kept!L!Service!serviceVars => UNCHANGED List!Service!serviceVars
    BY <1>1 DEF Kept!L!Service!serviceVars, List!Service!serviceVars
<1> QED BY <1>3, <1>4, <1>5, <1>6, <1>7, <1>8, <1>9
    DEF Kept!L!Service!Operation, List!Service!Operation

\* SortTimerList is a timer service: every timer that is not deleted fires exactly
\* once, at the first Tick at which it is due, however many timers there are and
\* however late Tick is called.
THEOREM ListIsTimerService == List!Spec => ListImplementsTimerService
<1>1. Kept!L!Spec => Kept!L!ImplementsTimerService
  <2>1. Kept!L!Spec => Kept!ListImplementsTimerService
      BY KeptAssumptions, Kept!ListIsTimerService, HeapAssumption, ConstantsAssumption
         DEF Wheel!WheelAssumption
  <2> QED BY <2>1, PTL DEF Kept!ListImplementsTimerService
<1> QED BY <1>1, SameSpec, SameServiceInit, SameService, PTL
    DEF ListImplementsTimerService, List!ImplementsTimerService, List!Service!ClockSpec,
        Kept!L!ImplementsTimerService, Kept!L!Service!ClockSpec

(***************************************************************************)
(* The heap                                                                *)
(***************************************************************************)

\* A set of numbers that is not empty has a least one.
LEMMA LeastIsOne ==
    ASSUME NEW S \in SUBSET Nat, S # {}
    PROVE  \E x \in S : \A y \in S : x =< y
<1> DEFINE R == OpToRel(<, Nat)
<1>1. \E x \in S : \A y \in S : ~(<<y, x>> \in R)
    BY NatLessThanWellFounded, WFMin
<1>2. \A x, y \in S : <<y, x>> \notin R => x =< y
    BY DEF OpToRel
<1> QED BY <1>1, <1>2

(***************************************************************************)
(* Paths: sequences that lead from a place to the next one as long as      *)
(* there is more, every place of a lower rank than the one before it       *)
(***************************************************************************)

Descends(D, K, rank, more, next) ==
    /\ K \in Nat
    /\ rank \in [D -> 0..K]
    /\ more \subseteq D
    /\ \A h \in more : next[h] \in D /\ rank[next[h]] < rank[h]

\* There is a function that satisfies the recursion of the paths.
LEMMA PathExists ==
    ASSUME NEW D, NEW K, NEW rank, NEW more, NEW next, Descends(D, K, rank, more, next)
    PROVE  \E f : f = [h \in D |-> IF h \in more THEN <<h>> \o f[next[h]] ELSE <<h>>]
<1> DEFINE Body(f, h) == IF h \in more THEN <<h>> \o f[next[h]] ELSE <<h>>
           Upto(k) == \E f : f = [h \in D |-> f[h]] /\ \A h \in D : rank[h] < k => f[h] = Body(f, h)
<1>0. K \in Nat /\ K + 1 \in Nat /\ \A h \in D : rank[h] \in Nat /\ rank[h] < K + 1
    BY DEF Descends
<1>1. Upto(0)
  <2>1. \A h \in D : ~(rank[h] < 0)
      BY <1>0
  <2>2. [h \in D |-> h] = [g \in D |-> [h \in D |-> h][g]]
      OBVIOUS
  <2> HIDE DEF Body
  <2> QED BY <2>1, <2>2
<1>2. ASSUME NEW k \in Nat, Upto(k)
      PROVE  Upto(k + 1)
  <2>1. PICK f : f = [h \in D |-> f[h]] /\ \A h \in D : rank[h] < k => f[h] = Body(f, h)
      BY <1>2
  <2> DEFINE g == [h \in D |-> IF rank[h] = k THEN Body(f, h) ELSE f[h]]
  <2>2. \A h \in D : rank[h] < k => g[h] = f[h]
      BY <1>0
  <2>3. \A h \in more : h \in D /\ next[h] \in D /\ rank[next[h]] < rank[h]
      BY DEF Descends
  <2>4. ASSUME NEW h \in D, rank[h] < k + 1
        PROVE  g[h] = Body(g, h)
    <3>1. g[h] = Body(f, h)
      <4> HIDE DEF Body
      <4>1. CASE rank[h] = k
          BY <4>1
      <4>2. CASE rank[h] < k
          BY <2>1, <4>2
      <4> QED BY <1>0, <2>4, <4>1, <4>2
    <3>2. h \in more => rank[next[h]] < k
        BY <1>0, <2>3, <2>4
    <3>3. h \in more => g[next[h]] = f[next[h]]
        BY <2>2, <2>3, <3>2
    <3> HIDE DEF g
    <3> QED BY <3>1, <3>3
  <2>5. g = [h \in D |-> g[h]]
      OBVIOUS
  <2> HIDE DEF g, Body
  <2> QED BY <2>4, <2>5
<1> HIDE DEF Upto
<1>3. Upto(K + 1)
  <2> DEFINE Failing == {k \in Nat : ~Upto(k)}
  <2>1. SUFFICES ASSUME Failing # {} PROVE FALSE
      BY <1>0
  <2>2. PICK k \in Failing : \A j \in Failing : k =< j
      BY <2>1, LeastIsOne
  <2>3. k \in Nat /\ k # 0
      BY <1>1
  <2>4. k - 1 \in Nat /\ k - 1 \notin Failing
      BY <2>2, <2>3
  <2>5. Upto(k - 1)
      BY <2>4
  <2>6. Upto(k - 1 + 1)
      BY <1>2, <2>4, <2>5
  <2> QED BY <2>3, <2>6
<1>4. PICK f : f = [h \in D |-> f[h]] /\ \A h \in D : rank[h] < K + 1 => f[h] = Body(f, h)
    BY <1>3 DEF Upto
<1>5. \A h \in D : f[h] = Body(f, h)
    BY <1>0, <1>4
<1>6. f = [h \in D |-> Body(f, h)]
    BY <1>4, <1>5
<1> QED BY <1>6

IsPath(p, h, D, more, next) ==
    /\ p \in Seq(D) /\ p # <<>> /\ p[1] = h
    /\ \A k \in 1..(Len(p) - 1) : p[k] \in more /\ p[k + 1] = next[p[k]]
    /\ p[Len(p)] \notin more

\* What satisfies the recursion are the paths.
LEMMA PathsAre ==
    ASSUME NEW D, NEW K, NEW rank, NEW more, NEW next, Descends(D, K, rank, more, next),
           NEW f, f = [h \in D |-> IF h \in more THEN <<h>> \o f[next[h]] ELSE <<h>>]
    PROVE  \A h \in D : IsPath(f[h], h, D, more, next)
<1>0. \A h \in D : rank[h] \in Nat
    BY DEF Descends
<1> DEFINE Bad == {h \in D : ~IsPath(f[h], h, D, more, next)}
           Ranks == {rank[h] : h \in Bad}
<1>1. SUFFICES ASSUME Bad # {} PROVE FALSE
    OBVIOUS
<1>2. Ranks \in SUBSET Nat /\ Ranks # {}
    BY <1>0, <1>1
<1>3. PICK h \in Bad : \A g \in Bad : rank[h] =< rank[g]
  <2> HIDE DEF Bad
  <2>1. PICK r \in Ranks : \A s \in Ranks : r =< s
      BY <1>2, LeastIsOne
  <2> QED BY <2>1
<1>4. f[h] = IF h \in more THEN <<h>> \o f[next[h]] ELSE <<h>>
    BY <1>3
<1>5. CASE h \notin more
    BY <1>3, <1>4, <1>5 DEF IsPath
<1>6. CASE h \in more
  <2>1. next[h] \in D /\ rank[next[h]] < rank[h]
      BY <1>6 DEF Descends
  <2>2. ~(rank[h] =< rank[next[h]])
      BY <1>0, <1>3, <2>1
  <2>3. next[h] \notin Bad
      BY <1>3, <2>2
  <2> DEFINE q == f[next[h]]
             p == <<h>> \o q
  <2>4. IsPath(q, next[h], D, more, next)
      BY <2>1, <2>3
  <2> HIDE DEF q
  <2>5. q \in Seq(D) /\ Len(q) \in Nat /\ Len(q) > 0
      BY <2>4 DEF IsPath
  <2>6. p \in Seq(D) /\ p[1] = h /\ Len(p) = Len(q) + 1 /\ \A k \in 1..Len(q) : p[k + 1] = q[k]
      BY <1>3, <2>5
  <2> HIDE DEF p
  <2>7. p[Len(p)] = q[Len(q)]
      BY <2>5, <2>6
  <2>8. ASSUME NEW k \in 1..(Len(p) - 1)
        PROVE  p[k] \in more /\ p[k + 1] = next[p[k]]
    <3>1. CASE k = 1
        BY <1>6, <2>4, <2>5, <2>6, <3>1 DEF IsPath
    <3>2. CASE k # 1
      <4>1. k - 1 \in 1..(Len(q) - 1) /\ k - 1 \in 1..Len(q) /\ k \in 1..Len(q) /\ k - 1 + 1 = k
          BY <2>5, <2>6, <3>2
      <4>2. p[k] = q[k - 1] /\ p[k + 1] = q[k]
          BY <2>6, <4>1
      <4> QED BY <2>4, <4>1, <4>2 DEF IsPath
    <3> QED BY <3>1, <3>2
  <2>9. p # <<>>
      BY <2>5, <2>6
  <2>10. IsPath(p, h, D, more, next)
      BY <2>4, <2>6, <2>7, <2>8, <2>9 DEF IsPath
  <2> QED BY <1>3, <1>4, <1>6, <2>10 DEF p, q
<1> QED BY <1>5, <1>6

\* Along a path the rank goes down, so it meets no place twice.
LEMMA PathDescends ==
    ASSUME NEW D, NEW K, NEW rank, NEW more, NEW next, Descends(D, K, rank, more, next),
           NEW p, NEW h \in D, IsPath(p, h, D, more, next)
    PROVE  \A j, k \in 1..Len(p) : j < k => rank[p[k]] < rank[p[j]]
<1>0. Len(p) \in Nat /\ \A k \in 1..Len(p) : p[k] \in D /\ rank[p[k]] \in Nat
    BY DEF Descends, IsPath
<1>1. SUFFICES ASSUME NEW j \in 1..Len(p) PROVE \A k \in 1..Len(p) : j < k => rank[p[k]] < rank[p[j]]
    OBVIOUS
<1> DEFINE Bad == {k \in 1..Len(p) : j < k /\ ~(rank[p[k]] < rank[p[j]])}
<1>2. SUFFICES ASSUME Bad # {} PROVE FALSE
    OBVIOUS
<1>3. PICK k \in Bad : \A i \in Bad : k =< i
  <2>1. Bad \in SUBSET Nat
      BY <1>0
  <2> QED BY <1>2, <2>1, LeastIsOne
<1>4. k \in 1..Len(p) /\ k - 1 \in 1..(Len(p) - 1) /\ k - 1 \in 1..Len(p) /\ k - 1 + 1 = k /\ k - 1 \notin Bad
    BY <1>0, <1>3
<1>5. p[k - 1] \in more /\ p[k] = next[p[k - 1]]
    BY <1>4 DEF IsPath
<1>6. rank[p[k]] < rank[p[k - 1]]
    BY <1>5 DEF Descends
<1>7. k - 1 = j \/ rank[p[k - 1]] < rank[p[j]]
    BY <1>3, <1>4
<1> QED BY <1>0, <1>3, <1>4, <1>6, <1>7

(***************************************************************************)
(* Shift along a path                                                      *)
(***************************************************************************)

Distinct(p) == \A j, k \in 1..Len(p) : p[j] = p[k] => j = k

LEMMA SeqOf ==
    ASSUME NEW D, NEW S, NEW p \in Seq(D), \A k \in 1..Len(p) : p[k] \in S
    PROVE  p \in Seq(S)
<1>1. Len(p) \in Nat /\ p \in [1..Len(p) -> S]
    OBVIOUS
<1> QED BY <1>1

LEMMA PlacesIn ==
    ASSUME NEW D, NEW p \in Seq(D), p # <<>>
    PROVE  Len(p) \in Nat /\ Len(p) > 0 /\ \A k \in 1..Len(p) : p[k] \in D
    OBVIOUS

\* The places of a sequence but the last.
LEMMA NotLast == \A n \in Nat : \A k \in 1..(n - 1) : k \in 1..n /\ k # n /\ k + 1 \in 1..n
    OBVIOUS

LEMMA ShiftAt ==
    ASSUME NEW a, NEW D \in SUBSET DOMAIN a, NEW p \in Seq(D), p # <<>>, Distinct(p), NEW t
    PROVE  LET b == Shift(a, p, t) IN
           /\ b = [i \in DOMAIN a |-> b[i]]
           /\ \A k \in 1..(Len(p) - 1) : b[p[k]] = a[p[k + 1]]
           /\ b[p[Len(p)]] = t
           /\ \A i \in DOMAIN a : (\A k \in 1..Len(p) : p[k] # i) => b[i] = a[i]
<1> DEFINE b == Shift(a, p, t)
<1>0. Len(p) \in Nat /\ Len(p) > 0 /\ DOMAIN p = 1..Len(p) /\ \A k \in 1..Len(p) : p[k] \in DOMAIN a
    OBVIOUS
<1>1. b = [i \in DOMAIN a |-> b[i]]
    BY DEF Shift
<1>2. ASSUME NEW k \in 1..Len(p)
      PROVE  b[p[k]] = IF k = Len(p) THEN t ELSE a[p[k + 1]]
  <2>1. (CHOOSE j \in DOMAIN p : p[j] = p[k]) = k
      BY <1>0 DEF Distinct
  <2>2. b[p[k]] = LET j == CHOOSE j \in DOMAIN p : p[j] = p[k]
                  IN  IF j = Len(p) THEN t ELSE a[p[j + 1]]
      BY <1>0 DEF Shift
  <2> QED BY <2>1, <2>2
<1>3. \A i \in DOMAIN a : (\A k \in 1..Len(p) : p[k] # i) => b[i] = a[i]
    BY <1>0 DEF Shift
<1> HIDE DEF b
<1>4. \A k \in 1..(Len(p) - 1) : k \in 1..Len(p) /\ k # Len(p)
    BY <1>0, NotLast
<1>5. Len(p) \in 1..Len(p)
    BY <1>0
<1>6. \A k \in 1..(Len(p) - 1) : b[p[k]] = a[p[k + 1]]
    BY <1>2, <1>4
<1>7. b[p[Len(p)]] = t
    BY <1>2, <1>5
<1> QED BY <1>1, <1>3, <1>6, <1>7 DEF b

\* b has the values of a in other places of D.
Rearranged(a, b, D) ==
    \E s \in [D -> D] :
        /\ \A i, j \in D : s[i] = s[j] => i = j
        /\ \A i \in D : \E j \in D : s[j] = i
        /\ \A i \in D : b[i] = a[s[i]]

\* What is shifted when the first place gives what the last one takes: the same values
\* in other places.
LEMMA ShiftPermutes ==
    ASSUME NEW a, NEW D \in SUBSET DOMAIN a, NEW p \in Seq(D), p # <<>>, Distinct(p)
    PROVE  Rearranged(a, Shift(a, p, a[p[1]]), D)
<1> DEFINE L == Len(p)
           On(i) == \E k \in 1..L : p[k] = i
           at == [i \in D |-> IF On(i) THEN CHOOSE k \in 1..L : p[k] = i ELSE 0]
           nxt == [k \in 1..L |-> IF k = L THEN 1 ELSE k + 1]
           s == [i \in D |-> IF On(i) THEN p[nxt[at[i]]] ELSE i]
           b == Shift(a, p, a[p[1]])
<1>0. L \in Nat /\ L > 0 /\ \A k \in 1..L : p[k] \in D
    OBVIOUS
<1>1. /\ \A k \in 1..(L - 1) : b[p[k]] = a[p[k + 1]]
      /\ b[p[L]] = a[p[1]]
      /\ \A i \in DOMAIN a : ~On(i) => b[i] = a[i]
    BY ShiftAt
<1>2. \A j, k \in 1..L : p[j] = p[k] => j = k
    BY DEF Distinct
<1>3. \A i \in D : On(i) => at[i] \in 1..L /\ p[at[i]] = i
    OBVIOUS
<1>4. \A k \in 1..L : On(p[k]) /\ at[p[k]] = k
    BY <1>0, <1>2, <1>3
<1> HIDE DEF L, b
<1>5. /\ \A k \in 1..L : nxt[k] \in 1..L
      /\ \A j, k \in 1..L : nxt[j] = nxt[k] => j = k
      /\ \A k \in 1..L : \E j \in 1..L : nxt[j] = k
  <2>1. ASSUME NEW k \in 1..L
        PROVE  \E j \in 1..L : nxt[j] = k
    <3>1. CASE k = 1
        BY <1>0, <3>1
    <3>2. CASE k # 1
        BY <1>0, <3>2
    <3> QED BY <3>1, <3>2
  <2> QED BY <1>0, <2>1
<1>6. \A k \in 1..L : b[p[k]] = a[p[nxt[k]]]
  <2> SUFFICES ASSUME NEW k \in 1..L PROVE b[p[k]] = a[p[nxt[k]]]
      OBVIOUS
  <2>1. CASE k = L
      BY <1>0, <1>1, <2>1
  <2>2. CASE k # L
      BY <1>0, <1>1, <2>2
  <2> QED BY <2>1, <2>2
<1> HIDE DEF nxt
<1>7. \A k \in 1..L : s[p[k]] = p[nxt[k]]
    BY <1>0, <1>4
<1>8. \A i \in D : ~On(i) => s[i] = i
    OBVIOUS
<1>9. s \in [D -> D]
    BY <1>0, <1>3, <1>5
<1> HIDE DEF at, s
<1>10. ASSUME NEW i \in D
       PROVE  (\E k \in 1..L : i = p[k] /\ s[i] = p[nxt[k]]) \/ (~On(i) /\ s[i] = i)
    BY <1>7, <1>8
<1>11. ASSUME NEW i \in D, NEW j \in D, s[i] = s[j]
       PROVE  i = j
  <2>1. CASE On(i)
    <3>1. PICK k \in 1..L : i = p[k] /\ s[i] = p[nxt[k]]
        BY <1>10, <2>1
    <3>2. CASE On(j)
      <4>1. PICK m \in 1..L : j = p[m] /\ s[j] = p[nxt[m]]
          BY <1>10, <3>2
      <4>2. nxt[k] = nxt[m]
        <5>1. nxt[k] \in 1..L /\ nxt[m] \in 1..L
            BY <1>5
        <5>2. p[nxt[k]] = p[nxt[m]]
            BY <1>11, <3>1, <4>1
        <5> QED BY <1>2, <5>1, <5>2
      <4> QED BY <1>5, <3>1, <4>1, <4>2
    <3> QED BY <1>5, <1>10, <1>11, <3>1, <3>2
  <2>2. CASE ~On(i)
    <3>1. s[i] = i
        BY <1>10, <2>2
    <3>2. \A k \in 1..L : i # p[nxt[k]]
        BY <1>5, <2>2
    <3> QED BY <1>10, <1>11, <3>1, <3>2
  <2> QED BY <2>1, <2>2
<1>12. ASSUME NEW i \in D
       PROVE  \E j \in D : s[j] = i
  <2>1. CASE On(i)
    <3>1. PICK k \in 1..L : p[k] = i
        BY <2>1
    <3>2. PICK j \in 1..L : nxt[j] = k
        BY <1>5
    <3> QED BY <1>0, <1>7, <3>1, <3>2
  <2> QED BY <1>8, <2>1
<1>13. ASSUME NEW i \in D
       PROVE  b[i] = a[s[i]]
    BY <1>1, <1>6, <1>7, <1>8
<1>14. Rearranged(a, b, D)
    BY <1>9, <1>11, <1>12, <1>13 DEF Rearranged
<1> QED BY <1>14 DEF b

(***************************************************************************)
(* PercolateDown                                                           *)
(***************************************************************************)

Parent(i) == (i - 1) \div 2

LEMMA ParentIs ==
    ASSUME NEW i \in Nat, i > 0
    PROVE  Parent(i) \in Nat /\ Parent(i) < i /\ (i = 2 * Parent(i) + 1 \/ i = 2 * Parent(i) + 2)
    BY DEF Parent

LEMMA ParentOf ==
    ASSUME NEW h \in Nat
    PROVE  Parent(2 * h + 1) = h /\ Parent(2 * h + 2) = h
    BY DEF Parent

\* The first n pointers are timers.
Filled(a, n) == n \in Nat /\ 0..(n - 1) \subseteq DOMAIN a /\ \A i \in 0..(n - 1) : a[i] \in Timers

HasChild(n, h) == 2 * h + 1 <= n - 1

LEMMA ChildIs ==
    ASSUME expire \in [Timers -> Int], NEW a, NEW n, Filled(a, n), NEW h \in Nat, HasChild(n, h)
    PROVE  /\ Child(a, n, h) \in 1..(n - 1) /\ h < Child(a, n, h)
           /\ Parent(Child(a, n, h)) = h
           /\ \A i \in 1..(n - 1) : Parent(i) = h => expire[a[Child(a, n, h)]] <= expire[a[i]]
<1> DEFINE l == 2 * h + 1
           e == [i \in 0..(n - 1) |-> expire[a[i]]]
<1>0. n \in Nat /\ l \in 0..(n - 1) /\ (l < n - 1 => l + 1 \in 0..(n - 1))
    BY DEF Filled, HasChild
<1>1. \A i \in 0..(n - 1) : expire[a[i]] \in Int /\ expire[a[i]] = e[i]
    BY DEF Filled
<1>2. Child(a, n, h) = IF l < n - 1 /\ e[l + 1] < e[l] THEN l + 1 ELSE l
    BY <1>0, <1>1 DEF Child
<1>3. \A i \in 0..(n - 1) : e[i] \in Int
    BY <1>1
<1> HIDE DEF e
<1>4. Child(a, n, h) \in 1..(n - 1) /\ h < Child(a, n, h)
    BY <1>0, <1>2
<1>5. Parent(Child(a, n, h)) = h
    BY <1>2, ParentOf
<1>6. ASSUME NEW i \in 1..(n - 1), Parent(i) = h
      PROVE  e[Child(a, n, h)] <= e[i]
  <2>1. i = l \/ i = l + 1
      BY <1>6, ParentIs
  <2>2. CASE l < n - 1 /\ e[l + 1] < e[l]
      BY <1>0, <1>2, <1>3, <2>1, <2>2
  <2>3. CASE ~(l < n - 1 /\ e[l + 1] < e[l])
    <3>1. Child(a, n, h) = l
        BY <1>2, <2>3
    <3>2. i = l \/ l < n - 1
        BY <1>0, <2>1
    <3> QED BY <1>0, <1>3, <2>1, <2>3, <3>1, <3>2
  <2> QED BY <2>2, <2>3
<1>7. \A i \in 1..(n - 1) : i \in 0..(n - 1)
    BY <1>0
<1> QED BY <1>1, <1>4, <1>5, <1>6, <1>7

Sinks(a, n, t, h) == HasChild(n, h) /\ expire[a[Child(a, n, h)]] < expire[t]

\* The path along which a node sinks.
LEMMA SinkPath ==
    ASSUME expire \in [Timers -> Int], NEW a, NEW n, Filled(a, n), NEW hole \in 0..(n - 1)
    PROVE  \E p \in Seq(0..(n - 1)) :
               /\ PercolateDown(a, n, hole) = Shift(a, p, a[hole])
               /\ p # <<>> /\ p[1] = hole /\ Distinct(p)
               /\ \A k \in 1..(Len(p) - 1) : Sinks(a, n, a[hole], p[k]) /\ p[k + 1] = Child(a, n, p[k])
               /\ ~Sinks(a, n, a[hole], p[Len(p)])
<1> DEFINE D == 0..n
           t == a[hole]
           more == {h \in D : Sinks(a, n, t, h)}
           next == [h \in D |-> Child(a, n, h)]
           rank == [h \in D |-> n - h]
           G(f) == [h \in D |-> IF h \in more THEN <<h>> \o f[next[h]] ELSE <<h>>]
           P(f) == [h \in 0..n |->
                       IF 2 * h + 1 <= n - 1 /\ expire[a[Child(a, n, h)]] < expire[a[hole]]
                       THEN <<h>> \o f[Child(a, n, h)] ELSE <<h>>]
           Path == CHOOSE f : f = P(f)
<1>0. n \in Nat
    BY DEF Filled
<1>1. ASSUME NEW h \in more
      PROVE  next[h] \in 0..(n - 1) /\ h < next[h] /\ h \in 0..n
  <2>1. h \in Nat /\ h \in D /\ HasChild(n, h)
      BY <1>0 DEF Sinks
  <2>2. next[h] = Child(a, n, h)
      BY <2>1
  <2> HIDE DEF next, more
  <2>3. next[h] \in 1..(n - 1) /\ h < next[h]
      BY <2>1, <2>2, ChildIs
  <2> QED BY <1>0, <2>1, <2>3
<1>2. Descends(D, n, rank, more, next)
  <2>1. \A h \in D : rank[h] = n - h /\ rank[h] \in 0..n
      BY <1>0
  <2>2. rank \in [D -> 0..n]
      BY <2>1
  <2>3. ASSUME NEW h \in more PROVE next[h] \in D /\ rank[next[h]] < rank[h]
    <3> HIDE DEF rank, next, more
    <3>1. next[h] \in 0..n /\ h \in 0..n /\ h < next[h]
        BY <1>0, <1>1
    <3> QED BY <1>0, <2>1, <3>1
  <2> HIDE DEF rank, next
  <2> QED BY <1>0, <2>2, <2>3 DEF Descends
<1>3. \A f : P(f) = G(f)
  <2>1. ASSUME NEW f, NEW h \in D
        PROVE  /\ next[h] = Child(a, n, h)
               /\ h \in more <=> 2 * h + 1 <= n - 1 /\ expire[a[Child(a, n, h)]] < expire[a[hole]]
      BY DEF Sinks, HasChild
  <2> HIDE DEF next, more
  <2> QED BY <2>1
<1>4. PercolateDown(a, n, hole) = Shift(a, Path[hole], t)
    BY DEF PercolateDown
<1> HIDE DEF P, t, rank
<1>5. \E f : f = G(f)
  <2> HIDE DEF more, next, D
  <2> QED BY <1>2, PathExists
<1>6. Path = G(Path)
  <2>1. \E f : f = P(f)
      BY <1>3, <1>5
  <2>2. Path = P(Path)
      BY <2>1
  <2> HIDE DEF Path, G
  <2> QED BY <1>3, <2>2
<1> HIDE DEF Path
<1>7. hole \in D
    BY <1>0
<1> HIDE DEF D
<1> DEFINE p == Path[hole]
<1>8. IsPath(p, hole, D, more, next)
  <2> HIDE DEF more, next
  <2> QED BY <1>2, <1>6, <1>7, PathsAre
<1>9. \A j, k \in 1..Len(p) : j < k => rank[p[k]] < rank[p[j]]
  <2> HIDE DEF more, next, p
  <2> QED BY <1>2, <1>7, <1>8, PathDescends
<1> HIDE DEF p
<1>10. Len(p) \in Nat /\ Len(p) > 0 /\ p \in Seq(D) /\ p # <<>> /\ p[1] = hole
    BY <1>8 DEF IsPath
<1>11. \A k \in 1..(Len(p) - 1) :
           /\ k + 1 \in 1..Len(p) /\ k \in 1..Len(p) /\ p[k] \in D
           /\ Sinks(a, n, t, p[k]) /\ p[k + 1] = next[p[k]] /\ p[k] \in more /\ p[k + 1] = Child(a, n, p[k])
    BY <1>8, <1>10, NotLast DEF IsPath
<1>12. ~Sinks(a, n, t, p[Len(p)])
    BY <1>8, <1>10 DEF IsPath
<1>13. p \in Seq(0..(n - 1))
  <2>1. ASSUME NEW k \in 1..Len(p) PROVE p[k] \in 0..(n - 1)
    <3>1. CASE k = 1
        BY <1>10, <3>1
    <3>2. CASE k # 1
      <4> HIDE DEF next, more
      <4>1. k - 1 \in 1..(Len(p) - 1) /\ k - 1 + 1 = k
          BY <1>10, <3>2
      <4>2. p[k] = next[p[k - 1]] /\ p[k - 1] \in more
          BY <1>11, <4>1
      <4> QED BY <1>1, <4>2
    <3> QED BY <3>1, <3>2
  <2> QED BY <1>10, <2>1, SeqOf
<1>14. Distinct(p)
  <2>1. ASSUME NEW j \in 1..Len(p), NEW k \in 1..Len(p), p[j] = p[k], j < k PROVE FALSE
    <3>1. rank[p[k]] < rank[p[j]] /\ rank[p[k]] \in 0..n
        BY <1>9, <1>10, <1>2, <2>1 DEF Descends
    <3> QED BY <1>0, <2>1, <3>1
  <2>2. \A j, k \in 1..Len(p) : j = k \/ j < k \/ k < j
      BY <1>10
  <2>3. ASSUME NEW j \in 1..Len(p), NEW k \in 1..Len(p), p[j] = p[k] PROVE j = k
      BY <2>1, <2>2, <2>3
  <2> QED BY <2>3 DEF Distinct
<1> QED BY <1>4, <1>10, <1>11, <1>12, <1>13, <1>14 DEF p, t

\* What holds of the order of the nodes from a place on.
OrderedFrom(a, n, from) ==
    \A i \in 1..(n - 1) : Parent(i) >= from => expire[a[Parent(i)]] <= expire[a[i]]

\* The same timers, each once if it was so before.
SameTimers(a, b, n) ==
    /\ {b[i] : i \in 0..(n - 1)} = {a[i] : i \in 0..(n - 1)}
    /\ (\A i, j \in 0..(n - 1) : a[i] = a[j] => i = j) => \A i, j \in 0..(n - 1) : b[i] = b[j] => i = j
    /\ \A i \in (DOMAIN a) \ 0..(n - 1) : b[i] = a[i]
    /\ b = [i \in DOMAIN a |-> b[i]]

LEMMA ShiftKeeps ==
    ASSUME NEW a, NEW n \in Nat, 0..(n - 1) \subseteq DOMAIN a, NEW p \in Seq(0..(n - 1)),
           p # <<>>, Distinct(p)
    PROVE  SameTimers(a, Shift(a, p, a[p[1]]), n)
<1> DEFINE D == 0..(n - 1)
           b == Shift(a, p, a[p[1]])
<1>0. D \in SUBSET DOMAIN a /\ p \in Seq(D)
    OBVIOUS
<1> HIDE DEF D
<1>1. PICK s \in [D -> D] :
          /\ \A i, j \in D : s[i] = s[j] => i = j
          /\ \A i \in D : \E j \in D : s[j] = i
          /\ \A i \in D : b[i] = a[s[i]]
  <2>1. Rearranged(a, b, D)
      BY <1>0, ShiftPermutes
  <2> QED BY <2>1 DEF Rearranged
<1>2. /\ b = [i \in DOMAIN a |-> b[i]]
      /\ \A i \in DOMAIN a : (\A k \in 1..Len(p) : p[k] # i) => b[i] = a[i]
    BY <1>0, ShiftAt
<1>3. \A k \in 1..Len(p) : p[k] \in D
    BY <1>0, PlacesIn
<1> HIDE DEF b
<1>4. {b[i] : i \in D} = {a[i] : i \in D}
  <2>1. \A i \in D : b[i] \in {a[j] : j \in D}
      BY <1>1
  <2>2. \A i \in D : a[i] \in {b[j] : j \in D}
      BY <1>1
  <2> QED BY <2>1, <2>2
<1>5. (\A i, j \in D : a[i] = a[j] => i = j) => \A i, j \in D : b[i] = b[j] => i = j
    BY <1>1
<1>6. \A i \in (DOMAIN a) \ D : b[i] = a[i]
    BY <1>2, <1>3
<1> QED BY <1>2, <1>4, <1>5, <1>6 DEF SameTimers, D, b

\* A node that sinks puts its part of the tree in order.
LEMMA SinkOrders ==
    ASSUME expire \in [Timers -> Int], NEW a, NEW n, Filled(a, n), NEW hole \in 0..(n - 1),
           OrderedFrom(a, n, hole + 1)
    PROVE  /\ OrderedFrom(PercolateDown(a, n, hole), n, hole)
           /\ SameTimers(a, PercolateDown(a, n, hole), n)
<1> DEFINE b == PercolateDown(a, n, hole)
           t == a[hole]
           e == [i \in 0..(n - 1) |-> expire[a[i]]]
           g == [i \in 0..(n - 1) |-> expire[b[i]]]
<1>0. n \in Nat /\ 0..(n - 1) \subseteq DOMAIN a /\ hole \in Nat
    BY DEF Filled
<1>1. PICK p \in Seq(0..(n - 1)) :
          /\ b = Shift(a, p, t)
          /\ p # <<>> /\ p[1] = hole /\ Distinct(p)
          /\ \A k \in 1..(Len(p) - 1) : Sinks(a, n, t, p[k]) /\ p[k + 1] = Child(a, n, p[k])
          /\ ~Sinks(a, n, t, p[Len(p)])
    BY SinkPath
<1>2. SameTimers(a, b, n)
    BY <1>0, <1>1, ShiftKeeps
<1>3. /\ \A k \in 1..(Len(p) - 1) : b[p[k]] = a[p[k + 1]]
      /\ b[p[Len(p)]] = t
      /\ \A i \in DOMAIN a : (\A k \in 1..Len(p) : p[k] # i) => b[i] = a[i]
  <2> DEFINE D == 0..(n - 1)
  <2>1. D \in SUBSET DOMAIN a /\ p \in Seq(D)
      BY <1>0
  <2> HIDE DEF D, b, t
  <2>2. b = Shift(a, p, t) /\ p # <<>> /\ Distinct(p)
      BY <1>1
  <2> QED BY <2>1, <2>2, ShiftAt
<1> DEFINE L == Len(p)
<1>4. L \in Nat /\ L > 0 /\ \A k \in 1..L : p[k] \in 0..(n - 1)
    BY <1>1, PlacesIn
<1>5. /\ \A i \in 0..(n - 1) : e[i] = expire[a[i]] /\ g[i] = expire[b[i]] /\ e[i] \in Int
      /\ e[hole] = expire[t]
    BY DEF Filled
<1> HIDE DEF b, t, e, g, L
\* Everything in terms of expiries: e before, g afterwards.
<1>6. /\ \A k \in 1..(L - 1) : g[p[k]] = e[p[k + 1]]
      /\ g[p[L]] = e[hole]
      /\ \A i \in 0..(n - 1) : (\A k \in 1..L : p[k] # i) => g[i] = e[i]
  <2>1. \A k \in 1..(L - 1) : k \in 1..L /\ k + 1 \in 1..L
      BY <1>4, NotLast
  <2>2. L \in 1..L
      BY <1>4
  <2>3. ASSUME NEW k \in 1..(L - 1) PROVE g[p[k]] = e[p[k + 1]]
    <3>1. b[p[k]] = a[p[k + 1]]
        BY <1>3 DEF L
    <3>2. p[k] \in 0..(n - 1) /\ p[k + 1] \in 0..(n - 1)
        BY <1>4, <2>1
    <3>3. g[p[k]] = expire[b[p[k]]] /\ e[p[k + 1]] = expire[a[p[k + 1]]]
        BY <1>5, <3>2
    <3> QED BY <3>1, <3>3
  <2>4. b[p[L]] = t /\ p[L] \in 0..(n - 1)
      BY <1>3, <1>4, <2>2 DEF L
  <2>5. ASSUME NEW i \in 0..(n - 1), \A k \in 1..L : p[k] # i PROVE b[i] = a[i]
      BY <1>0, <1>3, <2>5 DEF L
  <2> QED BY <1>5, <2>3, <2>4, <2>5
<1>7. ASSUME NEW k \in 1..(L - 1)
      PROVE  /\ p[k + 1] \in 1..(n - 1) /\ p[k] < p[k + 1] /\ Parent(p[k + 1]) = p[k]
             /\ e[p[k + 1]] < e[hole]
             /\ \A i \in 1..(n - 1) : Parent(i) = p[k] => e[p[k + 1]] <= e[i]
  <2>1. p[k] \in Nat /\ p[k] \in 0..(n - 1) /\ HasChild(n, p[k]) /\ p[k + 1] = Child(a, n, p[k])
        /\ expire[a[p[k + 1]]] < expire[t]
    <3>1. k \in 1..(Len(p) - 1) /\ k \in 1..L
        BY <1>4, NotLast DEF L
    <3>2. p[k] \in 0..(n - 1) /\ p[k] \in Nat
        BY <1>4, <3>1
    <3>3. Sinks(a, n, t, p[k]) /\ p[k + 1] = Child(a, n, p[k])
        BY <1>1, <3>1
    <3> QED BY <3>2, <3>3 DEF Sinks
  <2>2. /\ p[k + 1] \in 1..(n - 1) /\ p[k] < p[k + 1] /\ Parent(p[k + 1]) = p[k]
        /\ \A i \in 1..(n - 1) : Parent(i) = p[k] => expire[a[p[k + 1]]] <= expire[a[i]]
      BY <2>1, ChildIs
  <2>3. \A i \in 1..(n - 1) : i \in 0..(n - 1)
      BY <1>0
  <2> QED BY <1>5, <2>1, <2>2, <2>3
<1>8. ASSUME NEW i \in 1..(n - 1), Parent(i) = p[L]
      PROVE  e[hole] <= e[i]
  <2>1. p[L] \in Nat /\ p[L] \in 0..(n - 1) /\ ~Sinks(a, n, t, p[L])
      BY <1>1, <1>4 DEF L
  <2>2. HasChild(n, p[L])
    <3>1. i \in Nat /\ i > 0 /\ i <= n - 1
        BY <1>0
    <3>2. i = 2 * Parent(i) + 1 \/ i = 2 * Parent(i) + 2
        BY <3>1, ParentIs
    <3> QED BY <1>0, <1>8, <2>1, <3>1, <3>2 DEF HasChild
  <2>3. /\ Child(a, n, p[L]) \in 1..(n - 1)
        /\ expire[a[Child(a, n, p[L])]] <= expire[a[i]]
      BY <1>8, <2>1, <2>2, ChildIs
  <2>4. ~(e[Child(a, n, p[L])] < e[hole]) /\ e[Child(a, n, p[L])] <= e[i]
      BY <1>0, <1>5, <2>1, <2>2, <2>3 DEF Sinks
  <2>5. e[Child(a, n, p[L])] \in Int /\ e[hole] \in Int /\ e[i] \in Int
      BY <1>0, <1>5, <2>3
  <2> QED BY <2>4, <2>5
<1>9. \A j, k \in 1..L : p[j] = p[k] => j = k
    BY <1>1 DEF Distinct, L
<1>10. ASSUME NEW i \in 1..(n - 1), Parent(i) >= hole
       PROVE  g[Parent(i)] <= g[i]
  <2> DEFINE q == Parent(i)
  <2>0. q \in 0..(n - 1) /\ q < i /\ i \in 0..(n - 1) /\ i # hole
      BY <1>0, <1>10, ParentIs
  <2>1. q # hole => e[q] <= e[i]
    <3>1. q # hole => q >= hole + 1
        BY <1>0, <1>10, <2>0
    <3> QED BY <1>5, <2>0, <3>1 DEF OrderedFrom
  \* A child is on the path if its parent is and the path goes on to it.
  <2>2. ASSUME NEW j \in 1..L, p[j] = i
        PROVE  j - 1 \in 1..(L - 1) /\ j - 1 + 1 = j /\ p[j - 1] = q
    <3>1. j # 1
        BY <1>1, <2>0, <2>2
    <3>2. j - 1 \in 1..(L - 1) /\ j - 1 + 1 = j
        BY <1>4, <3>1
    <3> QED BY <1>7, <2>2, <3>2
  <2> HIDE DEF q
  <2>3. CASE \A k \in 1..L : p[k] # q
    <3>1. \A k \in 1..L : p[k] # i
        BY <2>2, <2>3, NotLast, <1>4
    <3>2. g[q] = e[q] /\ g[i] = e[i]
        BY <1>6, <2>0, <2>3, <3>1
    <3>3. q # hole
        BY <1>1, <1>4, <2>3
    <3> QED BY <2>1, <3>2, <3>3 DEF q
  <2>4. CASE p[L] = q
    <3>1. \A k \in 1..L : p[k] # i
      <4>1. ASSUME NEW j \in 1..L, p[j] = i PROVE FALSE
        <5>1. j - 1 \in 1..(L - 1) /\ p[j - 1] = p[L]
            BY <2>2, <2>4, <4>1
        <5>2. j - 1 \in 1..L /\ L \in 1..L /\ j - 1 # L
            BY <1>4, <5>1
        <5> QED BY <1>9, <5>1, <5>2
      <4> QED BY <4>1
    <3>2. g[q] = e[hole] /\ g[i] = e[i]
        BY <1>6, <2>0, <2>4, <3>1
    <3>3. e[hole] <= e[i]
        BY <1>8, <2>4 DEF q
    <3> QED BY <3>2, <3>3 DEF q
  <2>5. ASSUME NEW k \in 1..(L - 1), p[k] = q
        PROVE  g[q] <= g[i]
    <3>0. k \in 1..L /\ k + 1 \in 1..L /\ p[k + 1] \in 0..(n - 1)
        BY <1>4, NotLast
    <3>1. g[q] = e[p[k + 1]] /\ e[p[k + 1]] \in Int
        BY <1>5, <1>6, <2>5, <3>0
    <3>2. CASE p[k + 1] = i
      <4>1. CASE k + 1 = L
        <5>1. g[i] = e[hole]
            BY <1>6, <3>2, <4>1
        <5> QED BY <1>5, <1>7, <3>1, <5>1, <1>0
      <4>2. CASE k + 1 # L
        <5>1. k + 1 \in 1..(L - 1)
            BY <1>4, <4>2
        <5>2. g[i] = e[p[k + 1 + 1]] /\ Parent(p[k + 1 + 1]) = i /\ p[k + 1 + 1] \in 1..(n - 1)
            BY <1>6, <1>7, <3>2, <5>1
        <5>3. i >= hole + 1
            BY <1>0, <1>10, <2>0 DEF q
        <5>4. p[k + 1 + 1] \in 0..(n - 1)
            BY <1>0, <5>2
        <5>5. e[i] <= e[p[k + 1 + 1]]
            BY <1>5, <2>0, <5>2, <5>3, <5>4 DEF OrderedFrom
        <5> QED BY <3>1, <3>2, <5>2, <5>5
      <4> QED BY <4>1, <4>2
    <3>3. CASE p[k + 1] # i
      <4>1. \A j \in 1..L : p[j] # i
        <5>1. ASSUME NEW j \in 1..L, p[j] = i PROVE FALSE
          <6>1. j - 1 \in 1..(L - 1) /\ j - 1 + 1 = j /\ p[j - 1] = p[k]
              BY <2>2, <2>5, <5>1
          <6>2. j - 1 \in 1..L
              BY <1>4, <6>1
          <6>3. j - 1 = k
              BY <1>9, <3>0, <6>1, <6>2
          <6>4. p[k + 1] = i
              BY <5>1, <6>1, <6>3
          <6> QED BY <3>3, <6>4
        <5> QED BY <5>1
      <4>2. g[i] = e[i]
          BY <1>6, <2>0, <4>1
      <4>3. e[p[k + 1]] <= e[i]
          BY <1>7, <2>5 DEF q
      <4> QED BY <3>1, <4>2, <4>3
    <3> QED BY <3>2, <3>3
  <2>6. (\A k \in 1..L : p[k] # q) \/ p[L] = q \/ \E k \in 1..(L - 1) : p[k] = q
    <3>1. \A k \in 1..L : k = L \/ k \in 1..(L - 1)
        BY <1>4
    <3> QED BY <3>1
  <2> QED BY <2>3, <2>4, <2>5, <2>6 DEF q
<1>11. OrderedFrom(b, n, hole)
  <2>1. \A i \in 1..(n - 1) : Parent(i) \in 0..(n - 1) /\ i \in 0..(n - 1)
    <3> TAKE i \in 1..(n - 1)
    <3>1. Parent(i) \in Nat /\ Parent(i) < i
        BY <1>0, ParentIs
    <3> QED BY <1>0, <3>1
  <2> QED BY <1>5, <1>10, <2>1 DEF OrderedFrom
<1> QED BY <1>2, <1>11 DEF b

(***************************************************************************)
(* Heapify                                                                 *)
(***************************************************************************)

\* The nodes from a place on have sunk.
SunkFrom(a, b, n, i) == Filled(b, n) /\ OrderedFrom(b, n, i) /\ SameTimers(a, b, n)

LEMMA SinkGoesOn ==
    ASSUME expire \in [Timers -> Int], NEW a, NEW b, NEW n \in Nat, NEW i \in 0..(n - 1),
           SunkFrom(a, b, n, i + 1)
    PROVE  SunkFrom(a, PercolateDown(b, n, i), n, i)
<1> DEFINE c == PercolateDown(b, n, i)
<1>1. OrderedFrom(c, n, i) /\ SameTimers(b, c, n)
    BY SinkOrders DEF SunkFrom
<1> HIDE DEF c
<1>2. Filled(b, n) /\ SameTimers(a, b, n)
    BY DEF SunkFrom
<1>3. SameTimers(a, c, n)
  <2>1. DOMAIN b = DOMAIN a /\ DOMAIN c = DOMAIN b
      BY <1>1, <1>2 DEF SameTimers
  <2> QED BY <1>1, <1>2, <2>1 DEF SameTimers
<1>4. Filled(c, n)
  <2>1. DOMAIN c = DOMAIN b
      BY <1>1 DEF SameTimers
  <2>2. ASSUME NEW j \in 0..(n - 1) PROVE c[j] \in Timers
    <3>1. c[j] \in {b[k] : k \in 0..(n - 1)}
        BY <1>1 DEF SameTimers
    <3> QED BY <1>2, <3>1 DEF Filled
  <2> QED BY <1>2, <2>1, <2>2 DEF Filled
<1> QED BY <1>1, <1>3, <1>4 DEF c, SunkFrom

LEMMA HeapifyOrders ==
    ASSUME expire \in [Timers -> Int], NEW a, a = [i \in DOMAIN a |-> a[i]],
           NEW n \in Nat, n > 0, Filled(a, n)
    PROVE  SunkFrom(a, Heapify(a, n), n, 0)
<1> DEFINE K == (n - 1) \div 2 + 1
           Body(f, i) == IF i = K THEN a ELSE PercolateDown(f[i + 1], n, i)
           Upto(k) == \E f : f = [i \in 0..K |-> f[i]] /\ \A i \in 0..K : i >= K - k => f[i] = Body(f, i)
           Sunk == CHOOSE f : f = [i \in 0..K |-> IF i = K THEN a ELSE PercolateDown(f[i + 1], n, i)]
<1>0. K \in Nat /\ K > 0 /\ \A i \in 0..(K - 1) : i \in 0..(n - 1)
    OBVIOUS
<1>1. \A i \in 1..(n - 1) : ~(Parent(i) >= K)
    BY DEF Parent
<1>2. Heapify(a, n) = Sunk[0]
    BY DEF Heapify
<1> HIDE DEF K
<1>3. Upto(0)
  <2> DEFINE f == [i \in 0..K |-> a]
  <2>1. f = [i \in 0..K |-> f[i]] /\ \A i \in 0..K : i >= K - 0 => i = K /\ f[i] = a
      BY <1>0
  <2> HIDE DEF f
  <2>2. \A i \in 0..K : i >= K - 0 => f[i] = Body(f, i)
      BY <2>1
  <2> HIDE DEF Body
  <2> QED BY <2>1, <2>2
<1>4. ASSUME NEW k \in Nat, Upto(k)
      PROVE  Upto(k + 1)
  <2>1. PICK f : f = [i \in 0..K |-> f[i]] /\ \A i \in 0..K : i >= K - k => f[i] = Body(f, i)
      BY <1>4
  <2> DEFINE g == [i \in 0..K |-> IF i >= K - k THEN f[i] ELSE Body(f, i)]
  <2>2. g = [i \in 0..K |-> g[i]]
      OBVIOUS
  <2>3. \A i \in 0..K : i >= K - k => g[i] = f[i]
      OBVIOUS
  <2>4. \A i \in 0..K : g[i] = Body(f, i)
    <3> HIDE DEF Body
    <3> QED BY <2>1
  <2> HIDE DEF g
  <2>5. ASSUME NEW i \in 0..K, i >= K - (k + 1)
        PROVE  g[i] = Body(g, i)
    <3>1. CASE i = K
        BY <2>4, <3>1
    <3>2. CASE i # K
      <4>1. i + 1 \in 0..K /\ i + 1 >= K - k
          BY <1>0, <2>5, <3>2
      <4>2. g[i + 1] = f[i + 1]
          BY <2>3, <4>1
      <4> QED BY <2>4, <3>2, <4>2
    <3> QED BY <3>1, <3>2
  <2> HIDE DEF Body
  <2> QED BY <2>2, <2>5
<1> HIDE DEF Upto
<1>5. Upto(K)
  <2> DEFINE Failing == {k \in Nat : ~Upto(k)}
  <2>1. SUFFICES ASSUME Failing # {} PROVE FALSE
      BY <1>0
  <2>2. PICK k \in Failing : \A j \in Failing : k =< j
      BY <2>1, LeastIsOne
  <2>3. k \in Nat /\ k # 0
      BY <1>3
  <2>4. k - 1 \in Nat /\ k - 1 \notin Failing
      BY <2>2, <2>3
  <2>5. Upto(k - 1 + 1)
      BY <1>4, <2>4
  <2> QED BY <2>3, <2>5
<1>6. \E f : f = [i \in 0..K |-> IF i = K THEN a ELSE PercolateDown(f[i + 1], n, i)]
  <2>1. PICK f : f = [i \in 0..K |-> f[i]] /\ \A i \in 0..K : i >= K - K => f[i] = Body(f, i)
      BY <1>5 DEF Upto
  <2>2. \A i \in 0..K : f[i] = Body(f, i)
    <3> HIDE DEF Body
    <3> QED BY <1>0, <2>1
  <2>3. f = [i \in 0..K |-> Body(f, i)]
      BY <2>1, <2>2
  <2> QED BY <2>3
<1>7. Sunk = [i \in 0..K |-> IF i = K THEN a ELSE PercolateDown(Sunk[i + 1], n, i)]
    BY <1>6
<1> HIDE DEF Sunk
<1>8. \A i \in 0..K : SunkFrom(a, Sunk[i], n, i)
  <2> DEFINE Bad == {k \in 0..K : ~SunkFrom(a, Sunk[K - k], n, K - k)}
  <2>1. SUFFICES ASSUME Bad # {} PROVE FALSE
    <3>1. \A i \in 0..K : K - i \in 0..K /\ K - (K - i) = i
        BY <1>0
    <3> QED BY <3>1
  <2>2. PICK k \in Bad : \A j \in Bad : k =< j
    <3>1. Bad \in SUBSET Nat
        BY <1>0
    <3> QED BY <2>1, <3>1, LeastIsOne
  <2>3. k # 0
    <3>1. SUFFICES ASSUME k = 0 PROVE SunkFrom(a, Sunk[K - k], n, K - k)
        OBVIOUS
    <3>2. K - k = K /\ Sunk[K] = a
        BY <1>0, <1>7, <3>1
    <3>3. OrderedFrom(a, n, K)
        BY <1>1 DEF OrderedFrom
    <3>4. SameTimers(a, a, n)
        BY DEF SameTimers
    <3> QED BY <3>2, <3>3, <3>4 DEF SunkFrom
  <2>4. k - 1 \in 0..K /\ k - 1 \notin Bad
      BY <1>0, <2>2, <2>3
  <2> DEFINE i == K - k
  <2>5. i \in 0..(K - 1) /\ i \in 0..K /\ i # K /\ K - (k - 1) = i + 1
      BY <1>0, <2>2, <2>3
  <2>6. SunkFrom(a, Sunk[i + 1], n, i + 1)
      BY <2>4, <2>5
  <2> HIDE DEF i
  <2>7. Sunk[i] = PercolateDown(Sunk[i + 1], n, i)
      BY <1>7, <2>5
  <2>8. SunkFrom(a, Sunk[i], n, i)
      BY <1>0, <2>5, <2>6, <2>7, SinkGoesOn
  <2> QED BY <2>2, <2>8 DEF i
<1> QED BY <1>0, <1>2, <1>8

(***************************************************************************)
(* AddTimer                                                                *)
(***************************************************************************)

\* The path along which a timer rises that is due at d.
Rises(a, n, d) ==
    LET Path[hole \in 0..n] ==
            IF hole > 0 /\ expire[a[(hole - 1) \div 2]] > d
            THEN <<hole>> \o Path[(hole - 1) \div 2] ELSE <<hole>>
    IN  Path[n]

LEMMA RisePath ==
    ASSUME expire \in [Timers -> Int], NEW a, NEW n, Filled(a, n), NEW d \in Int
    PROVE  LET p == Rises(a, n, d)
               L == Len(p)
           IN  /\ p \in Seq(0..n) /\ p # <<>> /\ p[1] = n /\ Distinct(p)
               /\ \A k \in 1..(L - 1) :
                      p[k] > 0 /\ expire[a[Parent(p[k])]] > d /\ p[k + 1] = Parent(p[k])
               /\ p[L] > 0 => ~(expire[a[Parent(p[L])]] > d)
               /\ \A k \in 1..L : p[L] <= p[k]
<1> DEFINE D == 0..n
           Rise(h) == h > 0 /\ expire[a[Parent(h)]] > d
           more == {h \in D : Rise(h)}
           next == [h \in D |-> Parent(h)]
           rank == [h \in D |-> h]
           G(f) == [h \in D |-> IF h \in more THEN <<h>> \o f[next[h]] ELSE <<h>>]
           P(f) == [hole \in 0..n |->
                       IF hole > 0 /\ expire[a[(hole - 1) \div 2]] > d
                       THEN <<hole>> \o f[(hole - 1) \div 2] ELSE <<hole>>]
           Path == CHOOSE f : f = P(f)
<1>0. n \in Nat /\ n \in D
    BY DEF Filled
<1>1. ASSUME NEW h \in more
      PROVE  h \in D /\ next[h] = Parent(h) /\ next[h] \in D /\ next[h] < h /\ Rise(h)
  <2>1. h \in Nat /\ h > 0 /\ h <= n
      BY <1>0
  <2>2. Parent(h) \in Nat /\ Parent(h) < h
      BY <2>1, ParentIs
  <2> QED BY <1>0, <2>1, <2>2
<1>2. Descends(D, n, rank, more, next)
  <2>1. rank \in [D -> 0..n] /\ \A h \in D : rank[h] = h
      OBVIOUS
  <2>2. \A h \in more : next[h] \in D /\ rank[next[h]] < rank[h]
    <3> HIDE DEF rank, more, next
    <3> QED BY <1>1, <2>1
  <2> HIDE DEF rank, next
  <2> QED BY <1>0, <2>1, <2>2 DEF Descends
<1>3. \A f : P(f) = G(f)
  <2>1. ASSUME NEW h \in D
        PROVE  /\ next[h] = (h - 1) \div 2
               /\ h \in more <=> h > 0 /\ expire[a[(h - 1) \div 2]] > d
      BY DEF Parent
  <2> HIDE DEF next, more
  <2> QED BY <2>1
<1>4. Rises(a, n, d) = Path[n]
    BY DEF Rises
<1> HIDE DEF P
<1>5. \E f : f = G(f)
  <2> HIDE DEF more, next, D, rank
  <2> QED BY <1>2, PathExists
<1>6. Path = G(Path)
  <2>1. \E f : f = P(f)
      BY <1>3, <1>5
  <2>2. Path = P(Path)
      BY <2>1
  <2> HIDE DEF Path, G
  <2> QED BY <1>3, <2>2
<1> HIDE DEF Path
<1>7. \A h \in D : rank[h] = h
    OBVIOUS
<1> HIDE DEF rank
<1> DEFINE p == Path[n]
<1>8. IsPath(p, n, D, more, next)
  <2> HIDE DEF more, next, D
  <2> QED BY <1>0, <1>2, <1>6, PathsAre
<1>9. \A j, k \in 1..Len(p) : j < k => rank[p[k]] < rank[p[j]]
  <2> HIDE DEF more, next, p, D
  <2> QED BY <1>0, <1>2, <1>8, PathDescends
<1> HIDE DEF p
<1>10. p \in Seq(D) /\ p # <<>> /\ p[1] = n
    BY <1>8 DEF IsPath
<1>11. Len(p) \in Nat /\ Len(p) > 0 /\ \A k \in 1..Len(p) : p[k] \in D
    BY <1>10, PlacesIn
<1>12. \A j, k \in 1..Len(p) : j < k => p[k] < p[j]
    BY <1>7, <1>9, <1>11
<1>13. Distinct(p)
  <2>1. \A k \in 1..Len(p) : p[k] \in Nat
      BY <1>0, <1>11
  <2> QED BY <1>11, <1>12, <2>1 DEF Distinct
<1>14. \A k \in 1..(Len(p) - 1) : Rise(p[k]) /\ p[k + 1] = Parent(p[k])
    BY <1>1, <1>8 DEF IsPath
<1>15. p[Len(p)] > 0 => ~(expire[a[Parent(p[Len(p)])]] > d)
    BY <1>8, <1>11 DEF IsPath
<1>16. \A k \in 1..Len(p) : p[Len(p)] <= p[k]
  <2>1. \A k \in 1..Len(p) : p[k] \in Nat
      BY <1>0, <1>11
  <2>2. \A k \in 1..Len(p) : k = Len(p) \/ k < Len(p)
      BY <1>11
  <2>3. Len(p) \in 1..Len(p)
      BY <1>11
  <2> QED BY <1>12, <2>1, <2>2, <2>3
<1> QED BY <1>4, <1>10, <1>13, <1>14, <1>15, <1>16 DEF p

\* A timer that rises from behind the last place leaves the array in order.
LEMMA RiseOrders ==
    ASSUME expire \in [Timers -> Int], NEW a, NEW n, Filled(a, n), n \in DOMAIN a,
           OrderedFrom(a, n, 0), NEW d \in Int, NEW t \in Timers,
           \A i \in 0..(n - 1) : a[i] # t,
           NEW later, later = [expire EXCEPT ![t] = d]
    PROVE  LET b == Shift(a, Rises(a, n, d), t) IN
           /\ \A i \in 1..n : later[b[Parent(i)]] <= later[b[i]]
           /\ SameTimers([a EXCEPT ![n] = t], b, n + 1)
<1> DEFINE p == Rises(a, n, d)
           L == Len(p)
           D == 0..n
           b == Shift(a, p, t)
           a1 == [a EXCEPT ![n] = t]
           e == [i \in 0..(n - 1) |-> expire[a[i]]]
           g == [i \in D |-> later[b[i]]]
<1>0. n \in Nat /\ D \subseteq DOMAIN a /\ \A i \in D : i = n \/ i \in 0..(n - 1)
    BY DEF Filled
<1>1. /\ p \in Seq(D) /\ p # <<>> /\ p[1] = n /\ Distinct(p)
      /\ \A k \in 1..(L - 1) : p[k] > 0 /\ expire[a[Parent(p[k])]] > d /\ p[k + 1] = Parent(p[k])
      /\ p[L] > 0 => ~(expire[a[Parent(p[L])]] > d)
      /\ \A k \in 1..L : p[L] <= p[k]
    BY RisePath
<1> HIDE DEF p
<1>2. L \in Nat /\ L > 0 /\ L \in 1..L /\ 1 \in 1..L /\ \A k \in 1..L : p[k] \in D
  <2> HIDE DEF D
  <2>1. L \in Nat /\ L > 0 /\ \A k \in 1..L : p[k] \in D
      BY <1>1, PlacesIn
  <2> HIDE DEF L
  <2> QED BY <2>1
<1> HIDE DEF D, L
<1>3. /\ \A k \in 1..(L - 1) : b[p[k]] = a[p[k + 1]]
      /\ b[p[L]] = t
      /\ \A i \in DOMAIN a : (\A k \in 1..L : p[k] # i) => b[i] = a[i]
      /\ b = [i \in DOMAIN a |-> b[i]]
    BY <1>0, <1>1, ShiftAt DEF L
<1> HIDE DEF b, e, g
<1>4. \A i, j \in 1..L : p[i] = p[j] => i = j
    BY <1>1 DEF Distinct, L
\* Everything in terms of expiries: e before, g afterwards.
<1>5. \A i \in 0..(n - 1) :
          /\ i \in D /\ a[i] \in Timers /\ a[i] # t
          /\ e[i] = expire[a[i]] /\ e[i] \in Int /\ later[a[i]] = e[i]
  <2>1. \A i \in 0..(n - 1) : i \in D
      BY <1>0 DEF D
  <2>2. \A i \in 0..(n - 1) : a[i] \in Timers /\ a[i] # t
      BY DEF Filled
  <2> QED BY <2>1, <2>2 DEF e
<1>6. \A i \in D : g[i] = later[b[i]]
    BY DEF g
<1>7. ASSUME NEW k \in 1..(L - 1)
      PROVE  /\ k \in 1..L /\ k + 1 \in 1..L
             /\ p[k] \in 1..n /\ p[k + 1] = Parent(p[k]) /\ p[k + 1] \in 0..(n - 1)
             /\ g[p[k]] = e[p[k + 1]] /\ e[p[k + 1]] > d
  <2>1. k \in 1..L /\ k + 1 \in 1..L
      BY <1>2, NotLast
  <2>2. p[k] \in Nat /\ p[k] > 0 /\ p[k] <= n
      BY <1>0, <1>1, <1>2, <2>1 DEF D
  <2>3. p[k + 1] = Parent(p[k]) /\ expire[a[Parent(p[k])]] > d
      BY <1>1
  <2>4. p[k + 1] \in 0..(n - 1)
      BY <1>0, <2>2, <2>3, ParentIs
  <2>5. g[p[k]] = later[a[p[k + 1]]]
      BY <1>2, <1>3, <1>6, <2>1
  <2> QED BY <1>0, <1>5, <2>1, <2>2, <2>3, <2>4, <2>5
<1>8. g[p[L]] = d
    BY <1>2, <1>3, <1>6
<1>9. ASSUME NEW i \in D, \A k \in 1..L : p[k] # i
      PROVE  i \in 0..(n - 1) /\ g[i] = e[i]
  <2>1. i # n
      BY <1>1, <1>2, <1>9
  <2>2. i \in 0..(n - 1) /\ i \in DOMAIN a
      BY <1>0, <2>1
  <2>3. b[i] = a[i]
      BY <1>3, <1>9, <2>2
  <2> QED BY <1>5, <1>6, <2>2, <2>3
<1>10. \A i \in 1..n : i \in D /\ Parent(i) \in 0..(n - 1) /\ Parent(i) \in D /\ Parent(i) < i
  <2> TAKE i \in 1..n
  <2>1. Parent(i) \in Nat /\ Parent(i) < i
      BY <1>0, ParentIs
  <2> QED BY <1>0, <2>1 DEF D
<1>11. \A i \in 1..(n - 1) : e[Parent(i)] <= e[i] /\ i \in 0..(n - 1) /\ i \in 1..n
  <2> TAKE i \in 1..(n - 1)
  <2>1. i \in 0..(n - 1) /\ i \in 1..n
      BY <1>0
  <2>2. Parent(i) \in 0..(n - 1) /\ Parent(i) >= 0
      BY <1>0, <1>10, <2>1
  <2> QED BY <1>5, <2>1, <2>2 DEF OrderedFrom
<1>12. ASSUME NEW i \in 1..n
       PROVE  g[Parent(i)] <= g[i]
  <2> DEFINE q == Parent(i)
  <2>0. i \in D /\ q \in 0..(n - 1) /\ q \in D /\ q < i /\ q \in Nat /\ e[q] \in Int /\ i \in Nat
      BY <1>0, <1>5, <1>10
  <2>1. CASE \A k \in 1..L : p[k] # i
    <3>1. g[i] = e[i] /\ i \in 1..(n - 1) /\ e[q] <= e[i] /\ e[i] \in Int
      <4>1. i \in 0..(n - 1) /\ g[i] = e[i]
          BY <1>9, <2>0, <2>1
      <4>2. i \in 1..(n - 1)
          BY <1>0, <4>1
      <4> QED BY <1>5, <1>11, <4>1, <4>2
    <3>2. CASE \A k \in 1..L : p[k] # q
        BY <1>9, <2>0, <3>1, <3>2
    <3>3. ASSUME NEW k \in 1..L, p[k] = q, k # L
          PROVE  g[q] <= g[i]
      <4>1. k \in 1..(L - 1)
          BY <1>2, <3>3
      <4>2. q \in 1..n /\ g[q] = e[Parent(q)] /\ Parent(q) \in 0..(n - 1)
          BY <1>7, <3>3, <4>1
      <4>3. q \in 1..(n - 1)
          BY <1>0, <2>0, <4>2
      <4>4. e[Parent(q)] <= e[q] /\ e[Parent(q)] \in Int
          BY <1>5, <1>11, <4>2, <4>3
      <4> HIDE DEF q
      <4> QED BY <2>0, <3>1, <4>2, <4>4
    <3>4. CASE p[L] = q
      <4>1. L # 1
          BY <1>0, <1>1, <2>0, <3>4
      <4>2. L - 1 \in 1..(L - 1) /\ L - 1 + 1 = L
          BY <1>2, <4>1
      <4>3. e[q] > d
          BY <1>7, <3>4, <4>2
      <4>4. g[q] = d
          BY <1>8, <3>4
      <4>5. g[q] <= g[i]
        <5> HIDE DEF q
        <5> QED BY <2>0, <3>1, <4>3, <4>4
      <4> QED BY <4>5 DEF q
    <3> QED BY <3>2, <3>3, <3>4 DEF q
  <2>2. ASSUME NEW k \in 1..L, p[k] = i, k # L
        PROVE  g[q] <= g[i]
    <3>1. k \in 1..(L - 1)
        BY <1>2, <2>2
    <3>2. p[k + 1] = q /\ g[i] = e[q] /\ e[q] > d /\ k + 1 \in 1..L
        BY <1>7, <2>2, <3>1
    <3>3. CASE k + 1 = L
        BY <1>8, <2>0, <3>2, <3>3
    <3>4. CASE k + 1 # L
      <4>1. k + 1 \in 1..(L - 1)
          BY <1>2, <3>2, <3>4
      <4>2. q \in 1..n /\ g[q] = e[Parent(q)] /\ Parent(q) \in 0..(n - 1)
          BY <1>7, <3>2, <4>1
      <4>3. q \in 1..(n - 1)
          BY <1>0, <2>0, <4>2
      <4>4. e[Parent(q)] <= e[q]
          BY <1>11, <4>3
      <4> HIDE DEF q
      <4> QED BY <3>2, <4>2, <4>4
    <3> QED BY <3>3, <3>4
  <2>3. CASE p[L] = i
    <3>1. ~(e[q] > d)
        BY <1>0, <1>1, <1>5, <2>0, <2>3
    <3>2. \A k \in 1..L : p[k] # q
      <4>1. \A k \in 1..L : i <= p[k]
          BY <1>1, <2>3
      <4> HIDE DEF q
      <4> QED BY <2>0, <4>1
    <3>3. g[q] = e[q] /\ g[i] = d
        BY <1>8, <1>9, <2>0, <2>3, <3>2
    <3>4. g[q] <= g[i]
      <4> HIDE DEF q
      <4> QED BY <2>0, <3>1, <3>3
    <3> QED BY <3>4 DEF q
  <2> QED BY <2>1, <2>2, <2>3 DEF q
<1>13. \A i \in 1..n : later[b[Parent(i)]] <= later[b[i]]
    BY <1>6, <1>10, <1>12
<1>14. SameTimers(a1, b, n + 1)
  <2>1. a1[p[1]] = t /\ DOMAIN a1 = DOMAIN a
      BY <1>1
  <2>2. b = Shift(a1, p, t)
    <3> DEFINE c == Shift(a1, p, t)
    <3>1. /\ \A k \in 1..(L - 1) : c[p[k]] = a1[p[k + 1]]
          /\ c[p[L]] = t
          /\ \A i \in DOMAIN a1 : (\A k \in 1..L : p[k] # i) => c[i] = a1[i]
          /\ c = [i \in DOMAIN a1 |-> c[i]]
      <4> HIDE DEF a1
      <4> QED BY <1>0, <1>1, <2>1, ShiftAt DEF L
    <3> HIDE DEF c
    <3>2. ASSUME NEW i \in DOMAIN a PROVE c[i] = b[i]
      <4>1. CASE \A k \in 1..L : p[k] # i
        <5>1. i # n
            BY <1>1, <1>2, <4>1
        <5> QED BY <1>3, <2>1, <3>1, <4>1, <5>1
      <4>2. CASE p[L] = i
          BY <1>3, <3>1, <4>2
      <4>3. ASSUME NEW k \in 1..L, p[k] = i, k # L
            PROVE  c[i] = b[i]
        <5>1. k \in 1..(L - 1)
            BY <1>2, <4>3
        <5>2. p[k + 1] \in DOMAIN a /\ p[k + 1] # n
          <6>1. k + 1 \in 1..L /\ p[k + 1] \in 0..(n - 1)
              BY <1>7, <5>1
          <6>2. p[k + 1] \in DOMAIN a
              BY <1>0, <1>2, <6>1
          <6>3. p[k + 1] # n
              BY ONLY <6>1, <1>0
          <6> QED BY <6>2, <6>3
        <5>3. a1[p[k + 1]] = a[p[k + 1]]
            BY <5>2
        <5> QED BY <1>3, <3>1, <4>3, <5>1, <5>3
      <4> QED BY <4>1, <4>2, <4>3
    <3> QED BY <1>3, <2>1, <3>1, <3>2 DEF c
  <2>3. 0..(n + 1 - 1) = D
      BY <1>0 DEF D
  <2> HIDE DEF a1
  <2> QED BY <1>0, <1>1, <2>1, <2>2, <2>3, ShiftKeeps
<1> QED BY <1>13, <1>14 DEF b, p, a1

(***************************************************************************)
(* The inductive invariant                                                 *)
(***************************************************************************)

HeapTypes ==
    /\ \E c \in Nat \ {0} : array \in [0..(c - 1) -> Pointers] /\ size \in 0..c
    /\ expire \in [Timers -> Int]
    /\ callback \subseteq live /\ live \subseteq Timers
    /\ ticking \in BOOLEAN /\ undefined \in BOOLEAN

\* A heap, and nothing behind its last place.
HeapSound ==
    /\ Filled(array, size)
    /\ \A i, j \in 0..(size - 1) : array[i] = array[j] => i = j
    /\ Held = live
    /\ OrderedFrom(array, size, 0)
    /\ \A i \in DOMAIN array : i >= size => array[i] \notin Timers

\* What a Pop of two timers leaves.
TopLost == size = 1 /\ array[0] \notin Timers

HeapInv == HeapTypes /\ (undefined \/ HeapSound \/ TopLost)

LEMMA HeapInit == HeapAssumption /\ Init => HeapInv
<1> SUFFICES ASSUME HeapAssumption, Init PROVE HeapInv
    OBVIOUS
<1> PICK cap \in Capacities : \E n \in 0..cap : \E ts \in [0..(n - 1) -> Timers] :
          /\ \A i, j \in 0..(n - 1) : ts[i] = ts[j] => i = j
          /\ live = {ts[i] : i \in 0..(n - 1)}
          /\ expire \in {e \in [Timers -> Delays \cup {0}] : \A t \in Timers \ live : e[t] = 0}
          /\ array = IF n = 0 THEN Fresh(cap)
                     ELSE Heapify([i \in 0..(cap - 1) |-> IF i < n THEN ts[i] ELSE None], n)
          /\ size = n
    BY DEF Init
<1> PICK n \in 0..cap : \E ts \in [0..(n - 1) -> Timers] :
          /\ \A i, j \in 0..(n - 1) : ts[i] = ts[j] => i = j
          /\ live = {ts[i] : i \in 0..(n - 1)}
          /\ expire \in {e \in [Timers -> Delays \cup {0}] : \A t \in Timers \ live : e[t] = 0}
          /\ array = IF n = 0 THEN Fresh(cap)
                     ELSE Heapify([i \in 0..(cap - 1) |-> IF i < n THEN ts[i] ELSE None], n)
          /\ size = n
    OBVIOUS
<1>1. PICK ts \in [0..(n - 1) -> Timers] :
          /\ \A i, j \in 0..(n - 1) : ts[i] = ts[j] => i = j
          /\ live = {ts[i] : i \in 0..(n - 1)}
          /\ expire \in {e \in [Timers -> Delays \cup {0}] : \A t \in Timers \ live : e[t] = 0}
          /\ array = IF n = 0 THEN Fresh(cap)
                     ELSE Heapify([i \in 0..(cap - 1) |-> IF i < n THEN ts[i] ELSE None], n)
          /\ size = n
    OBVIOUS
<1>2. cap \in Nat /\ cap > 0 /\ n \in Nat /\ n <= cap /\ 0..(n - 1) \subseteq 0..(cap - 1)
    BY <1>1 DEF HeapAssumption
<1>3. expire \in [Timers -> Int]
    BY <1>1 DEF HeapAssumption
<1>4. callback \subseteq live /\ live \subseteq Timers /\ ticking \in BOOLEAN /\ undefined \in BOOLEAN
  <2>1. live \subseteq Timers
      BY <1>1
  <2> QED BY <2>1 DEF Init
<1>5. CASE n = 0
  <2>1. array = [i \in 0..(cap - 1) |-> None] /\ size = 0 /\ 0..(0 - 1) = {}
      BY <1>1, <1>5 DEF Fresh
  <2>2. live = {}
      BY <1>1, <1>5, <2>1
  <2>3. HeapTypes
      BY <1>2, <1>3, <1>4, <2>1 DEF HeapTypes, Pointers
  <2>4. HeapSound
      BY <2>1, <2>2 DEF HeapSound, Filled, OrderedFrom, Held, HeapAssumption
  <2> QED BY <2>3, <2>4 DEF HeapInv
<1>6. CASE n # 0
  <2> DEFINE a == [i \in 0..(cap - 1) |-> IF i < n THEN ts[i] ELSE None]
  <2>1. array = Heapify(a, n) /\ size = n
      BY <1>1, <1>6
  <2>2. \A i \in 0..(cap - 1) : a[i] \in Pointers
      BY <1>2 DEF Pointers
  <2>3. \A i \in 0..(n - 1) : a[i] = ts[i] /\ a[i] \in Timers
      BY <1>2
  <2>4. \A i \in 0..(cap - 1) : i >= n => a[i] \notin Timers
      BY <1>2 DEF HeapAssumption
  <2>5. a = [i \in DOMAIN a |-> a[i]] /\ DOMAIN a = 0..(cap - 1)
      OBVIOUS
  <2> HIDE DEF a
  <2>6. Filled(a, n)
      BY <1>2, <2>3, <2>5 DEF Filled
  <2>7. SunkFrom(a, array, n, 0)
      BY <1>2, <1>3, <1>6, <2>1, <2>5, <2>6, HeapifyOrders
  <2>8. /\ Filled(array, n) /\ OrderedFrom(array, n, 0)
        /\ {array[i] : i \in 0..(n - 1)} = {a[i] : i \in 0..(n - 1)}
        /\ (\A i, j \in 0..(n - 1) : a[i] = a[j] => i = j)
               => \A i, j \in 0..(n - 1) : array[i] = array[j] => i = j
        /\ \A i \in (0..(cap - 1)) \ 0..(n - 1) : array[i] = a[i]
        /\ array = [i \in 0..(cap - 1) |-> array[i]]
      BY <2>5, <2>7 DEF SunkFrom, SameTimers
  <2>9. \A i, j \in 0..(n - 1) : array[i] = array[j] => i = j
    <3>1. \A i, j \in 0..(n - 1) : a[i] = a[j] => i = j
        BY <1>1, <2>3
    <3> QED BY <2>8, <3>1
  <2>10. Held = live
    <3>1. {a[i] : i \in 0..(n - 1)} = {ts[i] : i \in 0..(n - 1)}
      <4>1. \A i \in 0..(n - 1) : a[i] = ts[i]
          BY <2>3
      <4> QED BY ONLY <4>1
    <3> QED BY <1>1, <2>1, <2>8, <3>1 DEF Held
  <2>11. \A i \in 0..(cap - 1) : i >= n => array[i] = a[i]
    <3>1. \A i \in 0..(cap - 1) : i >= n => i \notin 0..(n - 1)
        BY <1>2
    <3> QED BY <2>8, <3>1
  <2>12. HeapSound
    <3>1. \A i \in DOMAIN array : i >= size => array[i] \notin Timers
        BY <2>1, <2>4, <2>8, <2>11
    <3> QED BY <2>1, <2>8, <2>9, <2>10, <3>1 DEF HeapSound
  <2>13. \A i \in 0..(cap - 1) : array[i] \in Pointers
    <3> TAKE i \in 0..(cap - 1)
    <3>1. CASE i >= n
        BY <2>2, <2>11, <3>1
    <3>2. CASE ~(i >= n)
      <4>1. i \in 0..(n - 1)
          BY <1>2, <3>2
      <4> QED BY <2>8, <4>1 DEF Filled, Pointers
    <3> QED BY <3>1, <3>2
  <2>14. array \in [0..(cap - 1) -> Pointers]
      BY <2>8, <2>13
  <2>15. HeapTypes
    <3>1. cap \in Nat \ {0} /\ size \in 0..cap
        BY <1>2, <2>1
    <3>2. \E c \in Nat \ {0} : array \in [0..(c - 1) -> Pointers] /\ size \in 0..c
        BY <2>14, <3>1
    <3> QED BY <1>3, <1>4, <3>2 DEF HeapTypes
  <2> QED BY <2>12, <2>15 DEF HeapInv
<1> QED BY <1>5, <1>6

\* A state after an undefined step.
LEMMA UndefinedKeeps ==
    ASSUME HeapInv, Undefined
    PROVE  HeapInv'
    BY DEF HeapInv, Undefined, HeapTypes, Pointers

LEMMA ArrayDomain ==
    ASSUME HeapTypes
    PROVE  \E c \in Nat \ {0} :
               array \in [0..(c - 1) -> Pointers] /\ size \in 0..c /\ size \in Nat
               /\ capacity = c /\ DOMAIN array = 0..(c - 1)
<1>1. PICK c \in Nat \ {0} : array \in [0..(c - 1) -> Pointers] /\ size \in 0..c
    BY DEF HeapTypes
<1>2. Cardinality(0..(c - 1)) = c
  <2>1. Cardinality(0..(c - 1)) = IF 0 > c - 1 THEN 0 ELSE c - 1 - 0 + 1
      BY FS_Interval
  <2> QED BY <2>1
<1>3. DOMAIN array = 0..(c - 1) /\ size \in Nat
    BY <1>1
<1> QED BY <1>1, <1>2, <1>3 DEF capacity

\* The array that AddTimer works on has room for one more.
LEMMA RoomIsMade ==
    ASSUME HeapAssumption, HeapTypes,
           NEW a, a = IF size >= capacity THEN Resize(array) ELSE array
    PROVE  \E c \in Nat \ {0} :
               /\ a \in [0..(c - 1) -> Pointers] /\ size \in Nat /\ size < c
               /\ \A i \in 0..(size - 1) : a[i] = array[i] /\ i \in DOMAIN array
               /\ (\A i \in DOMAIN array : i >= size => array[i] \notin Timers) =>
                      \A i \in 0..(c - 1) : i >= size => a[i] \notin Timers
<1>1. PICK c \in Nat \ {0} :
          array \in [0..(c - 1) -> Pointers] /\ size \in 0..c /\ size \in Nat
          /\ capacity = c /\ DOMAIN array = 0..(c - 1)
    BY ArrayDomain
<1>2. \A i \in 0..(size - 1) : i \in 0..(c - 1)
    BY <1>1
<1>3. CASE ~(size >= capacity)
    BY <1>1, <1>2, <1>3
<1>4. CASE size >= capacity
  <2>1. size = c
      BY <1>1, <1>4
  <2>2. a = [i \in 0..(2 * c - 1) |-> IF i < c THEN array[i] ELSE None]
      BY <1>1, <1>4, <2>1 DEF Resize
  <2>3. 2 * c \in Nat \ {0} /\ c < 2 * c
      OBVIOUS
  <2>4. ASSUME NEW i \in 0..(2 * c - 1)
        PROVE  /\ a[i] \in Pointers /\ (i < c => a[i] = array[i])
               /\ (i >= c => a[i] \notin Timers)
    <3>1. CASE i < c
      <4>1. i \in 0..(c - 1)
          BY <3>1
      <4> QED BY <1>1, <2>2, <3>1, <4>1
    <3>2. CASE ~(i < c)
        BY <2>2, <3>2 DEF HeapAssumption, Pointers
    <3> QED BY <3>1, <3>2
  <2>5. a \in [0..(2 * c - 1) -> Pointers]
      BY <2>2, <2>4
  <2>6. \A i \in 0..(size - 1) : i < c /\ i \in 0..(2 * c - 1)
      BY <2>1
  <2> QED BY <1>1, <1>2, <2>1, <2>3, <2>4, <2>5, <2>6
<1> QED BY <1>3, <1>4

LEMMA AddKeeps ==
    ASSUME HeapAssumption, HeapInv, ~undefined, NEW t \in Timers, NEW d \in Delays, Add(t, d)
    PROVE  HeapInv'
<1> DEFINE a == IF size >= capacity THEN Resize(array) ELSE array
           n == size
           b == Shift(a, Rises(a, n, d), t)
<1>0. t \notin live /\ d \in Int
    BY DEF Add, HeapAssumption
<1>1. PICK c \in Nat \ {0} :
          /\ a \in [0..(c - 1) -> Pointers] /\ n \in Nat /\ n < c
          /\ \A i \in 0..(n - 1) : a[i] = array[i] /\ i \in DOMAIN array
          /\ (\A i \in DOMAIN array : i >= n => array[i] \notin Timers) =>
                 \A i \in 0..(c - 1) : i >= n => a[i] \notin Timers
    BY RoomIsMade DEF HeapInv
<1>2. CASE Undefined
    BY <1>2, UndefinedKeeps
<1>3. CASE ~Undefined
  <2>1. /\ n > 0 => a[(n - 1) \div 2] \in live
        /\ array' = b
        /\ size' = n + 1
        /\ expire' = [expire EXCEPT ![t] = d]
        /\ live' = live \cup {t} /\ callback' = callback \cup {t}
        /\ UNCHANGED <<ticking, undefined>>
      BY <1>3 DEF Add, Rises
  <2> HIDE DEF a
  <2>2. HeapSound
    <3>1. SUFFICES ASSUME TopLost PROVE FALSE
        BY DEF HeapInv
    <3>2. n = 1 /\ (n - 1) \div 2 = 0 /\ 0 \in 0..(n - 1)
        BY <3>1 DEF TopLost
    <3>3. a[0] = array[0] /\ a[0] \in live
        BY <1>1, <2>1, <3>2
    <3> QED BY <3>1, <3>3 DEF TopLost, HeapInv, HeapTypes
  <2>3. \A i \in 0..(n - 1) : a[i] = array[i] /\ a[i] \in live /\ a[i] \in Timers /\ a[i] # t
    <3>1. \A i \in 0..(n - 1) : array[i] \in live
        BY <2>2 DEF HeapSound, Held
    <3> QED BY <1>0, <1>1, <3>1 DEF HeapInv, HeapTypes
  <2>4. Filled(a, n) /\ n \in DOMAIN a /\ DOMAIN a = 0..(c - 1)
      BY <1>1, <2>3 DEF Filled
  <2>5. OrderedFrom(a, n, 0)
    <3>1. \A i \in 1..(n - 1) : i \in 0..(n - 1) /\ Parent(i) \in 0..(n - 1)
      <4> TAKE i \in 1..(n - 1)
      <4>1. Parent(i) \in Nat /\ Parent(i) < i
          BY ParentIs
      <4> QED BY <1>1, <4>1
    <3> QED BY <2>2, <2>3, <3>1 DEF HeapSound, OrderedFrom
  <2>6. expire \in [Timers -> Int]
      BY DEF HeapInv, HeapTypes
  <2>7. /\ \A i \in 1..n : expire'[b[Parent(i)]] <= expire'[b[i]]
        /\ SameTimers([a EXCEPT ![n] = t], b, n + 1)
    <3> HIDE DEF b, n
    <3>1. LET bb == Shift(a, Rises(a, n, d), t) IN
              /\ \A i \in 1..n : expire'[bb[Parent(i)]] <= expire'[bb[i]]
              /\ SameTimers([a EXCEPT ![n] = t], bb, n + 1)
        BY <1>0, <2>1, <2>3, <2>4, <2>5, <2>6, RiseOrders
    <3> QED BY <3>1 DEF b
  <2> DEFINE a1 == [a EXCEPT ![n] = t]
             D == 0..n
  <2> HIDE DEF b
  <2>8. n + 1 - 1 = n /\ n \in Nat /\ n \in D /\ D \subseteq 0..(c - 1) /\ \A i \in D : i = n \/ i \in 0..(n - 1)
      BY <1>1
  <2>9. /\ DOMAIN a1 = 0..(c - 1) /\ a1[n] = t
        /\ \A i \in 0..(n - 1) : a1[i] = a[i]
        /\ \A i \in (0..(c - 1)) \ D : a1[i] = a[i]
      BY <2>4, <2>8
  <2> HIDE DEF a1
  <2>10. /\ {b[i] : i \in D} = {a1[i] : i \in D}
         /\ (\A i, j \in D : a1[i] = a1[j] => i = j) => \A i, j \in D : b[i] = b[j] => i = j
         /\ \A i \in (0..(c - 1)) \ D : b[i] = a1[i]
         /\ b = [i \in 0..(c - 1) |-> b[i]]
    <3> DEFINE m == n + 1
    <3>1. SameTimers(a1, b, m)
        BY <2>7 DEF a1
    <3>2. 0..(m - 1) = D
        BY <2>8
    <3> HIDE DEF D, m
    <3>3. DOMAIN a1 = 0..(c - 1)
        BY <2>9
    <3>4. {b[i] : i \in D} = {a1[i] : i \in D}
        BY <3>1, <3>2 DEF SameTimers
    <3>5. (\A i, j \in D : a1[i] = a1[j] => i = j) => \A i, j \in D : b[i] = b[j] => i = j
        BY <3>1, <3>2 DEF SameTimers
    <3>6. \A i \in (0..(c - 1)) \ D : b[i] = a1[i]
        BY <3>1, <3>2, <3>3 DEF SameTimers
    <3>7. b = [i \in 0..(c - 1) |-> b[i]]
        BY <3>1, <3>3, Zenon DEF SameTimers
    <3> QED BY <3>4, <3>5, <3>6, <3>7
  <2>11. \A i, j \in D : b[i] = b[j] => i = j
    <3>1. \A i, j \in 0..(n - 1) : a[i] = a[j] => i = j
        BY <2>2, <2>3 DEF HeapSound
    <3>2. \A i, j \in D : a1[i] = a1[j] => i = j
        BY <2>3, <2>8, <2>9, <3>1
    <3> QED BY <2>10, <3>2
  <2>12. {b[i] : i \in D} = live \cup {t}
    <3>1. live = {array[i] : i \in 0..(n - 1)}
        BY <2>2 DEF HeapSound, Held
    <3>2. {a1[i] : i \in D} = live \cup {t}
      <4>1. \A i \in D : a1[i] \in live \cup {t}
          BY <2>3, <2>8, <2>9
      <4>2. ASSUME NEW x \in live PROVE x \in {a1[i] : i \in D}
        <5>1. PICK i \in 0..(n - 1) : array[i] = x
            BY <3>1
        <5>2. i \in D /\ a1[i] = x
            BY <2>3, <2>8, <2>9, <5>1
        <5> QED BY <5>2
      <4>3. t \in {a1[i] : i \in D}
          BY <2>8, <2>9
      <4> QED BY <4>1, <4>2, <4>3
    <3> QED BY <2>10, <3>2
  <2>13. \A i \in D : b[i] \in Timers
      BY <2>12 DEF HeapInv, HeapTypes
  <2>14. \A i \in (0..(c - 1)) \ D : b[i] \in Pointers /\ b[i] \notin Timers
    <3> TAKE i \in (0..(c - 1)) \ D
    <3>1. i >= n /\ i \in 0..(c - 1)
        BY <2>8
    <3>2. b[i] = a[i]
        BY <2>9, <2>10
    <3> QED BY <1>1, <2>2, <3>1, <3>2 DEF HeapSound
  <2>15. b \in [0..(c - 1) -> Pointers]
    <3>1. \A i \in 0..(c - 1) : b[i] \in Pointers
        BY <2>13, <2>14 DEF Pointers
    <3> QED BY <2>10, <3>1
  <2>16. HeapSound'
    <3>1. (Filled(array, size))'
      <4>1. size' \in Nat /\ 0..(size' - 1) = D /\ DOMAIN array' = 0..(c - 1)
          BY <2>1, <2>8, <2>10
      <4>2. \A i \in D : array'[i] \in Timers
          BY <2>1, <2>13
      <4>3. D \subseteq DOMAIN array'
          BY <2>8, <4>1
      <4> HIDE DEF D
      <4> QED BY <4>1, <4>2, <4>3 DEF Filled
    <3>2. (\A i, j \in 0..(size - 1) : array[i] = array[j] => i = j)'
        BY <2>1, <2>8, <2>11
    <3>3. (Held = live)'
        BY <2>1, <2>8, <2>12 DEF Held
    <3>4. (OrderedFrom(array, size, 0))'
        BY <2>1, <2>7, <2>8 DEF OrderedFrom
    <3>5. (\A i \in DOMAIN array : i >= size => array[i] \notin Timers)'
      <4>1. \A i \in 0..(c - 1) : i >= n + 1 => i \in (0..(c - 1)) \ D
          BY <2>8
      <4> QED BY <2>1, <2>10, <2>14, <4>1
    <3> QED BY <3>1, <3>2, <3>3, <3>4, <3>5 DEF HeapSound
  <2>17. HeapTypes'
    <3>1. n + 1 \in 0..c
        BY <1>1
    <3>2. (\E k \in Nat \ {0} : array \in [0..(k - 1) -> Pointers] /\ size \in 0..k)'
        BY <2>1, <2>15, <3>1 DEF Pointers
    <3>3. expire' \in [Timers -> Int]
        BY <1>0, <2>1, <2>6
    <3>4. callback' \subseteq live' /\ live' \subseteq Timers /\ ticking' \in BOOLEAN /\ undefined' \in BOOLEAN
        BY <2>1 DEF HeapInv, HeapTypes
    <3> QED BY <3>2, <3>3, <3>4 DEF HeapTypes
  <2> QED BY <2>16, <2>17 DEF HeapInv
<1> QED BY <1>2, <1>3

\* A step that neither moves pointers nor changes the timers there are nor their order.
LEMMA OrderKeeps ==
    ASSUME HeapInv, ~undefined, UNCHANGED <<array, size, live, undefined>>,
           callback' \subseteq live, ticking' \in BOOLEAN, expire' \in [Timers -> Int],
           \A t, u \in live : expire[t] <= expire[u] => expire'[t] <= expire'[u]
    PROVE  HeapInv'
<1>1. HeapTypes'
  <2>1. (\E k \in Nat \ {0} : array \in [0..(k - 1) -> Pointers] /\ size \in 0..k)'
      BY DEF HeapInv, HeapTypes, Pointers
  <2> QED BY <2>1 DEF HeapInv, HeapTypes
<1>2. ASSUME HeapSound PROVE HeapSound'
  <2>1. \A i \in 0..(size - 1) : array[i] \in live
      BY <1>2 DEF HeapSound, Held
  <2>2. size \in Nat
      BY <1>2 DEF HeapSound, Filled
  <2>3. \A i \in 1..(size - 1) : i \in 0..(size - 1) /\ Parent(i) \in 0..(size - 1)
    <3> TAKE i \in 1..(size - 1)
    <3>1. Parent(i) \in Nat /\ Parent(i) < i
        BY <2>2, ParentIs
    <3> QED BY <2>2, <3>1
  <2>4. (OrderedFrom(array, size, 0))'
      BY <1>2, <2>1, <2>3 DEF HeapSound, OrderedFrom
  <2>5. (Filled(array, size))' /\ (Held = live)'
      BY <1>2 DEF HeapSound, Filled, Held
  <2> QED BY <1>2, <2>4, <2>5 DEF HeapSound
<1>3. ASSUME TopLost PROVE TopLost'
    BY <1>3 DEF TopLost
<1> QED BY <1>1, <1>2, <1>3 DEF HeapInv

\* With more than two timers Pop reads through a bad pointer.
LEMMA PopTopOfMany ==
    ASSUME HeapAssumption, HeapInv, ~undefined, size > 2
    PROVE  [array EXCEPT ![0] = At(array, size)][0] \notin live
<1>1. PICK c \in Nat \ {0} :
          array \in [0..(c - 1) -> Pointers] /\ size \in 0..c /\ size \in Nat
          /\ capacity = c /\ DOMAIN array = 0..(c - 1)
    BY ArrayDomain DEF HeapInv
<1>2. HeapSound
    BY DEF HeapInv, TopLost
<1>3. At(array, size) \notin Timers
    BY <1>1, <1>2 DEF At, HeapSound, HeapAssumption
<1>4. 0 \in DOMAIN array
    BY <1>1
<1> QED BY <1>3, <1>4 DEF HeapInv, HeapTypes

LEMMA PopTopKeeps ==
    ASSUME HeapAssumption, HeapInv, ~undefined, size > 0, array[0] \in live, PopTop
    PROVE  HeapInv'
<1>1. PICK c \in Nat \ {0} :
          array \in [0..(c - 1) -> Pointers] /\ size \in 0..c /\ size \in Nat
          /\ capacity = c /\ DOMAIN array = 0..(c - 1)
    BY ArrayDomain DEF HeapInv
<1>2. HeapSound
    BY DEF HeapInv, TopLost, HeapTypes
<1>3. At(array, size) \notin Timers /\ At(array, size) \in Pointers
    BY <1>1, <1>2 DEF At, HeapSound, HeapAssumption, Pointers
<1>4. CASE size > 2
  <2>1. Undefined
      BY <1>4, PopTopOfMany DEF PopTop
  <2> QED BY <2>1, UndefinedKeeps
<1>5. CASE ~(size > 2)
  <2> DEFINE moved == [array EXCEPT ![0] = At(array, size)]
  <2>1. /\ size' = size - 1 /\ array' = moved
        /\ live' = live \ {array[0]} /\ callback' = callback \ {array[0]}
        /\ expire' = [expire EXCEPT ![array[0]] = 0]
        /\ UNCHANGED <<ticking, undefined>>
      BY <1>5 DEF PopTop
  <2>2. array' \in [0..(c - 1) -> Pointers] /\ array'[0] \notin Timers
        /\ \A i \in 0..(c - 1) : i # 0 => array'[i] = array[i]
      BY <1>1, <1>3, <2>1
  <2>3. HeapTypes'
    <3>1. size' \in 0..c
        BY <1>1, <2>1
    <3>2. (\E k \in Nat \ {0} : array \in [0..(k - 1) -> Pointers] /\ size \in 0..k)'
        BY <2>2, <3>1 DEF Pointers
    <3>3. expire' \in [Timers -> Int]
        BY <2>1 DEF HeapInv, HeapTypes
    <3>4. callback' \subseteq live' /\ live' \subseteq Timers /\ ticking' \in BOOLEAN /\ undefined' \in BOOLEAN
        BY <2>1 DEF HeapInv, HeapTypes
    <3> QED BY <3>2, <3>3, <3>4 DEF HeapTypes
  <2>4. CASE size = 1
    <3>1. size' = 0 /\ 0..(0 - 1) = {} /\ 0..(size - 1) = {0}
        BY <2>1, <2>4
    <3>2. live' = {}
        BY <1>2, <2>1, <3>1 DEF HeapSound, Held
    <3>3. \A i \in 0..(c - 1) : array'[i] \notin Timers
      <4> TAKE i \in 0..(c - 1)
      <4>1. i # 0 => i >= size
          BY <2>4
      <4> QED BY <1>1, <1>2, <2>2, <4>1 DEF HeapSound
    <3>4. HeapSound'
      <4>1. DOMAIN array' = 0..(c - 1)
          BY <2>2
      <4>2. (Filled(array, size))' /\ (OrderedFrom(array, size, 0))'
          BY <3>1 DEF Filled, OrderedFrom
      <4> QED BY <3>1, <3>2, <3>3, <4>1, <4>2 DEF HeapSound, Held
    <3> QED BY <2>3, <3>4 DEF HeapInv
  <2>5. CASE size # 1
    <3>1. size' = 1
        BY <1>1, <1>5, <2>1, <2>5
    <3>2. TopLost'
        BY <2>2, <3>1 DEF TopLost
    <3> QED BY <2>3, <3>2 DEF HeapInv
  <2> QED BY <2>4, <2>5
<1> QED BY <1>4, <1>5

LEMMA HeapStep ==
    ASSUME HeapAssumption, HeapInv, [Next]_heapVars
    PROVE  HeapInv'
<1>1. CASE UNCHANGED heapVars
    BY <1>1 DEF heapVars, HeapInv, HeapTypes, Pointers, HeapSound, Filled, Held, OrderedFrom, TopLost
<1> SUFFICES ASSUME Next PROVE HeapInv'
    BY <1>1
<1>0. ~undefined /\ expire \in [Timers -> Int] /\ callback \subseteq live /\ live \subseteq Timers
    BY DEF Next, HeapInv, HeapTypes
<1>2. ASSUME NEW t \in Timers, Delete(t) PROVE HeapInv'
    BY <1>0, <1>2, OrderKeeps DEF Delete, HeapInv, HeapTypes
<1>3. ASSUME NEW t \in Timers, NEW d \in Delays, Add(t, d) PROVE HeapInv'
    BY <1>0, <1>3, AddKeeps
<1>4. CASE Pop
    BY <1>0, <1>4, PopTopKeeps, UndefinedKeeps DEF Pop
<1>5. CASE Tick \/ TickEnds
    BY <1>0, <1>5, OrderKeeps DEF Tick, TickEnds
<1>6. CASE TickFires
    BY <1>0, <1>6, PopTopKeeps, UndefinedKeeps DEF TickFires
<1>7. CASE TimePasses
  <2>1. /\ UNCHANGED <<array, size, callback, live, ticking, undefined>>
        /\ expire' = [t \in Timers |-> IF t \in live THEN expire[t] - 1 ELSE 0]
      BY <1>7 DEF TimePasses
  <2>2. expire' \in [Timers -> Int]
      BY <1>0, <2>1
  <2>3. \A t, u \in live : expire[t] <= expire[u] => expire'[t] <= expire'[u]
      BY <1>0, <2>1
  <2>4. ticking' \in BOOLEAN
      BY <2>1 DEF HeapInv, HeapTypes
  <2> QED BY <1>0, <2>1, <2>2, <2>3, <2>4, OrderKeeps
<1> QED BY <1>2, <1>3, <1>4, <1>5, <1>6, <1>7 DEF Next

\* For any number of timers, any delays and whichever constructor made it: as long as no
\* bad pointer was followed, no timer expires before its parent, and the array holds every
\* live timer exactly once (11-4_time_heap.h: AddTimer, Resize, DeleteTimer and Pop).
THEOREM HeapStaysSound ==
    Spec => []HeapIsSound
<1>1. Init => HeapInv
    BY HeapInit, HeapAssumption
<1>2. HeapInv /\ [Next]_heapVars => HeapInv'
    BY HeapStep, HeapAssumption
<1>3. HeapInv => HeapIsSound
  <2> SUFFICES ASSUME HeapInv, ~undefined, Held \subseteq live PROVE HeapIsSound
      BY DEF HeapIsSound
  <2>1. HeapSound
    <3>1. SUFFICES ASSUME TopLost PROVE FALSE
        BY DEF HeapInv
    <3>2. 0 \in 0..(size - 1)
        BY <3>1 DEF TopLost
    <3>3. array[0] \in Held
        BY <3>2 DEF Held
    <3> QED BY <3>1, <3>3 DEF TopLost, HeapInv, HeapTypes
  <2> DEFINE D == 0..(size - 1)
  <2>2. size \in Nat /\ IsFiniteSet(D) /\ Cardinality(D) = size
    <3>1. size \in Nat
        BY <2>1 DEF HeapSound, Filled
    <3>2. IsFiniteSet(D) /\ Cardinality(D) = IF 0 > size - 1 THEN 0 ELSE size - 1 - 0 + 1
        BY <3>1, FS_Interval
    <3> QED BY <3>1, <3>2
  <2>3. Cardinality(Held) = size
    <3> DEFINE f == [i \in D |-> array[i]]
    <3>1. f \in Bijection(D, Held)
      <4>1. f \in [D -> Held]
          BY DEF Held
      <4>2. \A x \in Held : \E i \in D : f[i] = x
          BY DEF Held
      <4>3. \A i, j \in D : f[i] = f[j] => i = j
          BY <2>1 DEF HeapSound
      <4> HIDE DEF f, D
      <4>4. f \in Injection(D, Held) /\ f \in Surjection(D, Held)
          BY <4>1, <4>2, <4>3, Fun_IsInj, Fun_IsSurj
      <4> QED BY <4>4 DEF Bijection
    <3> HIDE DEF f, D
    <3>2. Cardinality(Held) = Cardinality(D)
        BY <2>2, <3>1, FS_Bijection DEF ExistsBijection
    <3> QED BY <2>2, <3>2 DEF D
  <2>4. \A i \in 1..(size - 1) : expire[array[(i - 1) \div 2]] <= expire[array[i]]
    <3> TAKE i \in 1..(size - 1)
    <3>1. Parent(i) >= 0
        BY <2>2, ParentIs
    <3> QED BY <2>1, <3>1 DEF HeapSound, OrderedFrom, Parent
  <2> QED BY <2>1, <2>3, <2>4 DEF HeapIsSound, HeapSound
<1> QED BY <1>1, <1>2, <1>3, PTL DEF Spec

\* TypeOK says the same of the array without a bound variable.
LEMMA HeapTypesAreRight == HeapTypes => TypeOK
<1> SUFFICES ASSUME HeapTypes PROVE TypeOK
    OBVIOUS
<1>1. PICK c \in Nat \ {0} :
          array \in [0..(c - 1) -> Pointers] /\ size \in 0..c /\ size \in Nat
          /\ capacity = c /\ DOMAIN array = 0..(c - 1)
    BY ArrayDomain
<1> QED BY <1>1 DEF HeapTypes, TypeOK

\* A Pop of a heap of more than two timers reads through a bad pointer, in every
\* execution and whoever calls it: the place behind the last one never holds a timer,
\* since growth, heapify and every other Pop leave none there (Pop, 109 to 119).
THEOREM PopOfManyIsUndefined ==
    Spec => [][size > 2 /\ (Pop \/ TickFires) => undefined']_heapVars
<1>1. Init => HeapInv
    BY HeapInit, HeapAssumption
<1>2. HeapInv /\ [Next]_heapVars => HeapInv'
    BY HeapStep, HeapAssumption
<1>3. HeapInv /\ [Next]_heapVars => [size > 2 /\ (Pop \/ TickFires) => undefined']_heapVars
  <2> SUFFICES ASSUME HeapInv, Next, size > 2, Pop \/ TickFires PROVE undefined'
      OBVIOUS
  <2>1. ~undefined
      BY DEF Next
  <2>2. PopTop => Undefined
      BY <2>1, PopTopOfMany, HeapAssumption DEF PopTop
  <2> QED BY <2>2 DEF Pop, TickFires, Undefined
<1> QED BY <1>1, <1>2, <1>3, PTL DEF Spec

(***************************************************************************)
(* The types                                                               *)
(***************************************************************************)

\* The slots and rotations of the wheel, the places and expiries of the heap and
\* every variable of the server around the list keep their types (AddTimer and Tick
\* of 11-4_time_wheel, the members of 11-4_time_heap.h, 11-2_clear_dead_connection).
THEOREM TimerTypesStayRight ==
    ASSUME Dead!TimersAssumption, Dead!FdsAssumption, Dead!LifetimeAssumption,
           Dead!BoundsAssumption
    PROVE  Wheel!Spec /\ Spec /\ Dead!Spec => []TypesOK
<1>1. Wheel!Spec => []Wheel!TypeOK
    BY WheelTypes
<1>2. Spec => []TypeOK
  <2>1. Init => HeapInv
      BY HeapInit, HeapAssumption
  <2>2. HeapInv /\ [Next]_heapVars => HeapInv'
      BY HeapStep, HeapAssumption
  <2>3. HeapInv => TypeOK
      BY HeapTypesAreRight DEF HeapInv
  <2> QED BY <2>1, <2>2, <2>3, PTL DEF Spec
<1>3. Dead!Spec => []Dead!TypeOK
    BY Dead!TypeCorrect
<1>4. Dead!TypeOK => Server!TypeOK
    BY DEF Dead!TypeOK, Server!TypeOK, Dead!Listen, Server!Listen, Dead!Pipe, Server!Pipe,
           Dead!Cardinality, Server!Cardinality, Dead!IsFiniteSet, Server!IsFiniteSet
<1> QED BY <1>1, <1>2, <1>3, <1>4, PTL DEF TypesOK
=============================================================================
