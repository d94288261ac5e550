---------------------------- MODULE SortTimerList ----------------------------
(***************************************************************************)
(* SortTimerList of src/linux_server/11-2_lst_timer.h: a doubly linked list*)
(* of timers in the order in which they expire. A list is a record of its  *)
(* head and tail and of the members of every node; the member functions are*)
(* operators from lists to lists, one branch of the code each.             *)
(***************************************************************************)
EXTENDS Integers, FiniteSets, Sequences, SequencesExt

CONSTANTS
    Timers,     \* the memory UtilTimer nodes are allocated from
    None        \* nullptr

ASSUME TimersAssumption == IsFiniteSet(Timers) /\ None \notin Timers

EmptyList ==
    [head |-> None, tail |-> None,
     prev |-> [t \in Timers |-> None], next |-> [t \in Timers |-> None],
     expire |-> [t \in Timers |-> 0]]

\* delete: what was in the nodes is gone.
Delete(list, nodes) ==
    [list EXCEPT !.prev = [t \in Timers |-> IF t \in nodes THEN None ELSE @[t]],
                 !.next = [t \in Timers |-> IF t \in nodes THEN None ELSE @[t]],
                 !.expire = [t \in Timers |-> IF t \in nodes THEN 0 ELSE @[t]]]

\* The nodes a walk along next meets from a node on; one more than there are
\* nodes when the walk does not end.
Walk(list, from) ==
    LET at[i \in 1..(Cardinality(Timers) + 1)] ==
            IF i = 1 THEN from
            ELSE IF at[i - 1] = None THEN None ELSE list.next[at[i - 1]]
    IN  [i \in 1..Cardinality({j \in DOMAIN at : at[j] # None}) |-> at[i]]

Nodes(list) == Walk(list, list.head)

Link(list, before, after) ==
    [list EXCEPT !.next[before] = after, !.prev[after] = before]

\* Where a timer goes in the walk from a node on: before the first one that
\* expires later, or Len + 1.
Position(list, timer, walk) ==
    Min({i \in 2..Len(walk) : list.expire[timer] < list.expire[walk[i]]}
            \cup {Len(walk) + 1})

\* Mutant of AddBehind: tail stays when the timer becomes the last.
AddBehindKeepsTail(list, timer, lst_head) ==
    LET walk == Walk(list, lst_head)
        i == Position(list, timer, walk)
    IN  IF i <= Len(walk)
        THEN Link(Link(list, walk[i - 1], timer), timer, walk[i])
        ELSE [Link(list, walk[i - 1], timer) EXCEPT !.next[timer] = None]

\* The private AddTimer: behind lst_head, before the first that expires later.
AddBehind(list, timer, lst_head) ==
    LET walk == Walk(list, lst_head)
        i == Position(list, timer, walk)
    IN  IF i <= Len(walk)
        THEN Link(Link(list, walk[i - 1], timer), timer, walk[i])
        ELSE [Link(list, walk[i - 1], timer) EXCEPT !.next[timer] = None, !.tail = timer]

AddTimer(list, timer) ==
    IF list.head = None THEN [list EXCEPT !.head = timer, !.tail = timer]
    ELSE IF list.expire[timer] < list.expire[list.head]
    THEN [Link(list, timer, list.head) EXCEPT !.head = timer]
    ELSE AddBehind(list, timer, list.head)

\* The timer has been given a later expiry: it moves towards the tail.
AdjustTimer(list, timer) ==
    LET next == list.next[timer] IN
    IF next = None \/ list.expire[timer] < list.expire[next] THEN list
    ELSE IF timer = list.head
    THEN AddBehind([list EXCEPT !.head = next, !.prev[next] = None, !.next[timer] = None],
                   timer, next)
    ELSE AddBehind(Link(list, list.prev[timer], next), timer, next)

Unlink(list, timer) ==
    IF timer = list.head /\ timer = list.tail
    THEN [list EXCEPT !.head = None, !.tail = None]
    ELSE IF timer = list.head
    THEN [list EXCEPT !.head = list.next[timer], !.prev[list.next[timer]] = None]
    ELSE IF timer = list.tail
    THEN [list EXCEPT !.tail = list.prev[timer], !.next[list.prev[timer]] = None]
    ELSE Link(list, list.prev[timer], list.next[timer])

DeleteTimer(list, timer) == Delete(Unlink(list, timer), {timer})

\* Mutant of Expired: <= for <: a timer waits until its time has passed.
ExpiredBefore(list, now) ==
    LET nodes == Nodes(list)
        n == Min({i \in 1..Len(nodes) : now <= list.expire[nodes[i]]} \cup {Len(nodes) + 1})
    IN  SubSeq(nodes, 1, n - 1)

\* The nodes Tick runs the callback of and deletes: up to the first that has not
\* expired yet.
Expired(list, now) ==
    LET nodes == Nodes(list)
        n == Min({i \in 1..Len(nodes) : now < list.expire[nodes[i]]} \cup {Len(nodes) + 1})
    IN  SubSeq(nodes, 1, n - 1)

\* What Tick leaves; it does not touch tail, even when nothing is left.
Tick(list, now) ==
    LET gone == Expired(list, now)
        head == list.next[Last(gone)]
        rest == [list EXCEPT !.head = head]
    IN  IF gone = <<>> THEN list
        ELSE Delete(IF head = None THEN rest ELSE [rest EXCEPT !.prev[head] = None],
                    ToSet(gone))

----------------------------------------------------------------------------

\* The list hangs together: walking back from tail meets the nodes of the walk
\* from head in the reverse order, none of them twice.
Linked(list) ==
    LET nodes == Nodes(list) IN
    /\ \A i, j \in DOMAIN nodes : nodes[i] = nodes[j] => i = j
    /\ \A i \in DOMAIN nodes :
           list.prev[nodes[i]] = IF i = 1 THEN None ELSE nodes[i - 1]
    /\ nodes # <<>> => list.tail = Last(nodes)

\* It is in order of expiry, which is what lets Tick stop early.
Sorted(list) ==
    LET nodes == Nodes(list) IN
    \A i, j \in DOMAIN nodes : i < j => list.expire[nodes[i]] <= list.expire[nodes[j]]
=============================================================================
