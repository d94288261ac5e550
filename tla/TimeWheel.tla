------------------------------ MODULE TimeWheel ------------------------------
(***************************************************************************)
(* TimeWheel of src/linux_server/11-4_time_wheel..h: N slots of timers, of *)
(* which Tick visits one at a time. The order in which a slot links its    *)
(* timers only decides the order of their callbacks within one Tick, so a  *)
(* slot is the set of timers its list holds.                               *)
(***************************************************************************)
EXTENDS Integers

CONSTANTS
    Timers,     \* the memory tw_timer nodes are allocated from
    N,          \* the number of slots, 60 in the code
    SI,         \* seconds between two ticks, 1 in the code
    Timeouts,   \* what AddTimer is called with
    None        \* nullptr

\* What the proofs need of the constants; TimersMC assumes it.
WheelAssumption ==
    /\ N \in Nat \ {0} /\ SI \in Nat \ {0}
    /\ Timeouts \subseteq Int /\ None \notin Int

VARIABLES
    slots,      \* slots[i], the timers linked there
    rotation,   \* rotation of each timer
    time_slot,  \* time_slot of each timer
    cur_slot,   \* cur_slot
    fired       \* the timers whose callback the last call ran

wheelVars == <<slots, rotation, time_slot, cur_slot, fired>>

Slots == 0..(N - 1)

\* The timers that are linked somewhere, which is those new has returned and
\* delete has not taken.
Linked == UNION {slots[i] : i \in Slots}

TypeOK ==
    /\ slots \in [Slots -> SUBSET Timers]
    /\ rotation \in [Timers -> Nat]
    /\ time_slot \in [Timers -> Slots]
    /\ cur_slot \in Slots
    /\ fired \in SUBSET Timers

Init ==
    /\ slots = [i \in Slots |-> {}]
    /\ rotation = [t \in Timers |-> 0]
    /\ time_slot = [t \in Timers |-> 0]
    /\ cur_slot = 0
    /\ fired = {}

\* How many ticks a timeout is; less than one is one.
Ticks(timeout) == IF timeout < SI THEN 1 ELSE timeout \div SI

\* Mutant of AddTimer: the slot is not taken modulo N.
AddTimerBeyond(t, timeout) ==
    LET ticks == Ticks(timeout)
        ts == cur_slot + (ticks % N)
    IN  /\ timeout >= 0
        /\ t \notin Linked
        /\ rotation' = [rotation EXCEPT ![t] = ticks \div N]
        /\ time_slot' = [time_slot EXCEPT ![t] = ts]
        /\ slots' = [i \in Slots |-> IF i = ts THEN slots[i] \cup {t} ELSE slots[i]]
        /\ fired' = {}
        /\ UNCHANGED cur_slot

AddTimer(t, timeout) ==
    LET ticks == Ticks(timeout)
        ts == (cur_slot + (ticks % N)) % N
    IN  /\ timeout >= 0
        /\ t \notin Linked
        /\ rotation' = [rotation EXCEPT ![t] = ticks \div N]
        /\ time_slot' = [time_slot EXCEPT ![t] = ts]
        /\ slots' = [slots EXCEPT ![ts] = @ \cup {t}]
        /\ fired' = {}
        /\ UNCHANGED cur_slot

\* A negative timeout: nullptr is returned.
AddNothing(timeout) ==
    /\ timeout < 0
    /\ fired' = {}
    /\ UNCHANGED <<slots, rotation, time_slot, cur_slot>>

DeleteTimer(t) ==
    /\ t \in Linked
    /\ slots' = [slots EXCEPT ![time_slot[t]] = @ \ {t}]
    /\ fired' = {}
    /\ UNCHANGED <<rotation, time_slot, cur_slot>>

\* Mutant of Tick: the wheel moves on before the slot is visited.
TickFirstMoves ==
    LET slot == (cur_slot + 1) % N IN
    /\ fired' = {t \in slots[slot] : rotation[t] = 0}
    /\ slots' = [slots EXCEPT ![slot] = @ \ fired']
    /\ rotation' = [t \in Timers |-> IF t \in slots[slot] /\ rotation[t] > 0
                                     THEN rotation[t] - 1 ELSE rotation[t]]
    /\ cur_slot' = slot
    /\ UNCHANGED time_slot

\* The timers of the current slot that have no rotation left fire and are
\* deleted, the others lose one; the wheel moves on.
Tick ==
    /\ fired' = {t \in slots[cur_slot] : rotation[t] = 0}
    /\ slots' = [slots EXCEPT ![cur_slot] = @ \ fired']
    /\ rotation' = [t \in Timers |-> IF t \in slots[cur_slot] /\ rotation[t] > 0
                                     THEN rotation[t] - 1 ELSE rotation[t]]
    /\ cur_slot' = (cur_slot + 1) % N
    /\ UNCHANGED time_slot

Next ==
    \/ \E timeout \in Timeouts : AddNothing(timeout) \/ \E t \in Timers : AddTimer(t, timeout)
    \/ \E t \in Timers : DeleteTimer(t)
    \/ Tick

Spec == Init /\ [][Next]_wheelVars

----------------------------------------------------------------------------

\* A timer is linked in the slot it names, so DeleteTimer finds it there.
LinkedWhereNamed == \A i \in Slots : \A t \in slots[i] : time_slot[t] = i

\* Calls of Tick before the one that fires the timer.
Distance(i) == IF i >= cur_slot THEN i - cur_slot ELSE i - cur_slot + N
Remaining(t) == rotation[t] * N + Distance(time_slot[t])

Service == INSTANCE TimerService WITH
    Delays <- {Ticks(timeout) : timeout \in {x \in Timeouts : x >= 0}},
    due <- [t \in Timers |-> IF t \in Linked THEN Remaining(t) ELSE None]

\* The wheel is a timer service: a timer added for k ticks fires exactly once, in
\* the Tick that comes after k others, however often the wheel turns and whatever
\* is added and deleted in between.
ImplementsTimerService == Service!TickSpec
=============================================================================
