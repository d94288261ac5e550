------------------------------ MODULE TimerList ------------------------------
(***************************************************************************)
(* SortTimerList used by a program whose clock advances: the operators of  *)
(* SortTimerList as operations on one list, with arbitrary expiries. Times *)
(* are relative to now, so the program can run for ever.                   *)
(***************************************************************************)
EXTENDS SortTimerList

CONSTANTS
    Delays,     \* how long timers are set for
    MaxOverdue  \* bound: how late Tick may be called

VARIABLES
    list,       \* the SortTimerList
    allocated,  \* the timers new has returned and delete has not taken
    called      \* the timers the last call ran the callback of, in order

listVars == <<list, allocated, called>>

Init == list = EmptyList /\ allocated = {} /\ called = <<>>

\* new UtilTimer, its expiry, AddTimer.
Add(t, d) ==
    /\ t \in Timers \ allocated
    /\ list' = AddTimer([list EXCEPT !.expire[t] = d], t)
    /\ allocated' = allocated \cup {t}
    /\ called' = <<>>

\* A later expiry, AdjustTimer.
Adjust(t, d) ==
    /\ t \in allocated /\ d >= list.expire[t]
    /\ list' = AdjustTimer([list EXCEPT !.expire[t] = d], t)
    /\ called' = <<>>
    /\ UNCHANGED allocated

Cancel(t) ==
    /\ t \in allocated
    /\ list' = DeleteTimer(list, t)
    /\ allocated' = allocated \ {t}
    /\ called' = <<>>

TickNow ==
    /\ called' = Expired(list, 0)
    /\ list' = Tick(list, 0)
    /\ allocated' = allocated \ ToSet(called')

TimePasses ==
    /\ \A t \in allocated : list.expire[t] > -MaxOverdue
    /\ list' = [list EXCEPT !.expire = [t \in Timers |-> IF t \in allocated THEN @[t] - 1 ELSE 0]]
    /\ called' = <<>>
    /\ UNCHANGED allocated

Next ==
    \/ \E t \in Timers : \/ \E d \in Delays : Add(t, d) \/ Adjust(t, d)
                         \/ Cancel(t)
    \/ TickNow \/ TimePasses

Spec == Init /\ [][Next]_listVars

----------------------------------------------------------------------------

\* Forward and backward links agree, tail is the last node and the order is that
\* of the expiries, after any mixture of operations.
ListIsSound == Linked(list) /\ Sorted(list)

Service == INSTANCE TimerService WITH
    Delays <- Delays,
    due <- [t \in Timers |-> IF t \in ToSet(Nodes(list)) THEN list.expire[t] ELSE None],
    fired <- ToSet(called)

\* The list is a timer service: stopping at the first timer that has not expired
\* misses none, and none fires early, twice or after it was deleted.
ImplementsTimerService == Service!ClockSpec
=============================================================================
