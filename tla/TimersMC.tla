------------------------------ MODULE TimersMC -------------------------------
(***************************************************************************)
(* Small instances of TimeWheel, TimerList and TimeHeap, and of the server *)
(* around a list (ClearDeadConnection, with one connection and fair), in   *)
(* one run: the initial state picks one and the others never move.         *)
(***************************************************************************)
EXTENDS TimeHeap

CONSTANTS
    \* TimeWheel's
    N, SI, Timeouts,
    \* ClearDeadConnection's
    ServerTimers, Lifetime, MaxUnread, MaxLate

VARIABLES which
\* TimerList's and TimeWheel's.
VARIABLES list, allocated, called, slots, rotation, time_slot, cur_slot, fired
\* ClearDeadConnection's.
VARIABLES
    deadList, deadAllocated, deadTimer, deadOpen, deadBacklog, deadUnread, deadHung,
    deadEdge, deadPipe, deadAlarm, deadPc, deadBatch, deadTimeout, deadStopServer,
    deadSilent

Wheel == INSTANCE TimeWheel
List == INSTANCE TimerList
Server == INSTANCE ClearDeadConnection WITH
         list <- deadList, allocated <- deadAllocated, timer <- deadTimer, open <-
         deadOpen, backlog <- deadBacklog, unread <- deadUnread, hung <- deadHung,
         edge <- deadEdge, pipe <- deadPipe, alarm <- deadAlarm, pc <- deadPc, batch
         <- deadBatch, timeout <- deadTimeout, stopServer <- deadStopServer, silent
         <- deadSilent, Fds <- {1}, Timers <- ServerTimers

ASSUME ConstantsAssumption ==
    /\ Wheel!WheelAssumption /\ Wild # None
    /\ IsFiniteSet(Timers) /\ IsFiniteSet(ServerTimers) /\ None \notin ServerTimers
    /\ Lifetime \in Nat \ {0} /\ MaxUnread \in Nat \ {0} /\ MaxLate \in Nat

theListVars == <<list, allocated, called>>
theWheelVars == <<slots, rotation, time_slot, cur_slot, fired>>
deadVars ==
    <<deadList, deadAllocated, deadTimer, deadOpen, deadBacklog, deadUnread,
      deadHung, deadEdge, deadPipe, deadAlarm, deadPc, deadBatch, deadTimeout,
      deadStopServer, deadSilent>>

\* One that is refused, one that is rounded up, and up to two turns of the wheel.
MCTimeouts == {-1, 0, 1, 2, 3, 7}

\* Only a heap that is picked is filled by its constructor.
MCInit ==
    /\ Init /\ Wheel!Init /\ List!Init /\ Server!Init
    /\ which \in {"list", "wheel", "heap", "server"}
    /\ which # "heap" => live = {} /\ \A c \in Capacities : c >= Cardinality(DOMAIN array)

MCNext ==
    /\ UNCHANGED which
    /\ \/ which = "wheel" /\ Wheel!Next /\ UNCHANGED <<theListVars, heapVars, deadVars>>
       \/ which = "list" /\ List!Next /\ UNCHANGED <<theWheelVars, heapVars, deadVars>>
       \/ which = "heap" /\ Next /\ UNCHANGED <<theWheelVars, theListVars, deadVars>>
       \/ which = "server" /\ Server!Next /\ UNCHANGED <<theWheelVars, theListVars, heapVars>>

\* The fairness of ClearDeadConnection for its server and for time.
MCFairSpec ==
    /\ MCInit /\ [][MCNext]_<<theWheelVars, theListVars, heapVars, deadVars, which>>
    /\ WF_deadVars(which = "server" /\ Server!MainStep)
    /\ WF_deadVars(which = "server" /\ Server!ClockTick)

\* The types of all, and the other properties by the names the modules give them.
TypesOK == Wheel!TypeOK /\ TypeOK /\ Server!TypeOK
ImplementsTimerService == Wheel!ImplementsTimerService
ListIsSound == List!ListIsSound
ListImplementsTimerService == List!ImplementsTimerService
DepartedAreClosed == Server!DepartedAreClosed
TermStops == Server!TermStops
=============================================================================
