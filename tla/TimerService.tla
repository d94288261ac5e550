----------------------------- MODULE TimerService ----------------------------
(***************************************************************************)
(* What a timer container promises: every timer that is not deleted fires  *)
(* exactly once, in the first Tick at which it is due. due is what is left *)
(* until then, in ticks; fired is what the last step fired.                *)
(***************************************************************************)
EXTENDS Integers

CONSTANTS
    Timers,
    Delays,     \* what timers are set for
    None        \* what due is for a timer that does not run

VARIABLES due, fired

serviceVars == <<due, fired>>

Running == {t \in Timers : due[t] # None}

Init == due = [t \in Timers |-> None] /\ fired = {}

Add(t, d) ==
    /\ t \notin Running
    /\ due' = [due EXCEPT ![t] = d]
    /\ fired' = {}

\* A timer that runs is given more time.
Prolong(t, d) ==
    /\ t \in Running /\ d >= due[t]
    /\ due' = [due EXCEPT ![t] = d]
    /\ fired' = {}

Remove(t) ==
    /\ t \in Running
    /\ due' = [due EXCEPT ![t] = None]
    /\ fired' = {}

\* A call that is refused.
Refuse == fired' = {} /\ UNCHANGED due

\* The timers that are due fire and are gone.
Fire ==
    /\ fired' = {t \in Running : due[t] <= 0}
    /\ due' = [t \in Timers |-> IF t \in fired' THEN None ELSE due[t]]

\* All timers come one tick closer.
Elapse ==
    /\ due' = [t \in Timers |-> IF t \in Running THEN due[t] - 1 ELSE None]
    /\ fired' = {}

\* Both at once.
FireAndElapse ==
    /\ fired' = {t \in Running : due[t] <= 0}
    /\ due' = [t \in Timers |-> IF t \in Running \ fired' THEN due[t] - 1 ELSE None]

Operation ==
    \/ \E t \in Timers : \/ \E d \in Delays : Add(t, d) \/ Prolong(t, d)
                         \/ Remove(t)
    \/ Refuse

\* A service that looks at a clock when it is told to, which may be late.
ClockSpec == Init /\ [][Operation \/ Fire \/ Elapse]_serviceVars

\* A service for which one call is one unit of time.
TickSpec == Init /\ [][Operation \/ FireAndElapse]_serviceVars
=============================================================================
