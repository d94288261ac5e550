------------------------------ MODULE TimeHeap -------------------------------
(***************************************************************************)
(* The binary heap of timers of src/linux_server/11-4_time_heap.h: an      *)
(* array of pointers, the earliest timer first. An expiry is relative to   *)
(* now. Reading through a pointer that is null, that lies outside the      *)
(* array or whose timer was deleted is undefined: nothing is said of what  *)
(* follows.                                                                *)
(***************************************************************************)
EXTENDS Integers, Sequences, FiniteSets

CONSTANTS
    Timers,       \* Timer objects, used again once deleted
    None,         \* nullptr
    Wild,         \* what the memory behind the array holds
    Delays,       \* what timers are set for
    Capacities,   \* the cap of the constructor
    MaxOverdue    \* bound: how late Tick may come

ASSUME HeapAssumption ==
    /\ None \notin Timers /\ Wild \notin Timers
    /\ Capacities \subseteq Nat \ {0} /\ Delays \subseteq Int

VARIABLES
    array,      \* the pointers, from 0 to capacity - 1
    size,       \* cur_size
    expire,     \* of every timer, 0 for one that does not exist
    callback,   \* the timers whose cb_func is not null
    live,       \* the timers that new has returned and delete has not taken
    ticking,    \* Tick is in its loop
    undefined   \* the program has read through a bad pointer

heapVars == <<array, size, expire, callback, live, ticking, undefined>>

capacity == Cardinality(DOMAIN array)

Pointers == Timers \cup {None, Wild}

TypeOK ==
    /\ array \in [0..(capacity - 1) -> Pointers]
    /\ size \in 0..capacity
    /\ expire \in [Timers -> Int]
    /\ callback \subseteq live /\ live \subseteq Timers
    /\ ticking \in BOOLEAN /\ undefined \in BOOLEAN

\* The pointer that array[i] reads, inside the array or behind it.
At(a, i) == IF i \in DOMAIN a THEN a[i] ELSE Wild

----------------------------------------------------------------------------
(* Moving along a path of the tree                                         *)

\* Every hole of the path takes what the next one held, the last one takes t.
Shift(a, path, t) ==
    [i \in DOMAIN a |->
        IF \E k \in DOMAIN path : path[k] = i
        THEN LET k == CHOOSE k \in DOMAIN path : path[k] = i
             IN  IF k = Len(path) THEN t ELSE a[path[k + 1]]
        ELSE a[i]]

\* Mutant of Child: the right child is never looked at.
ChildLeft(a, n, hole) == 2 * hole + 1

\* The earlier child of a hole that has one, the left of two equals.
Child(a, n, hole) ==
    LET left == 2 * hole + 1 IN
    IF left < n - 1 /\ expire[a[left + 1]] < expire[a[left]] THEN left + 1 ELSE left

\* PercolateDown: a[hole] sinks below its earlier child until none is earlier.
PercolateDown(a, n, hole) ==
    LET Path[h \in 0..n] ==
            IF 2 * h + 1 <= n - 1 /\ expire[a[Child(a, n, h)]] < expire[a[hole]]
            THEN <<h>> \o Path[Child(a, n, h)] ELSE <<h>>
    IN  Shift(a, Path[hole], a[hole])

\* The constructor with an array lets every inner node sink, the last first: Sunk[i] is
\* the array when the nodes from i on have.
Heapify(a, n) ==
    LET inner == (n - 1) \div 2 + 1
        Sunk[i \in 0..inner] ==
            IF i = inner THEN a ELSE PercolateDown(Sunk[i + 1], n, i)
    IN  Sunk[0]

\* Resize: twice the room, the rest null.
Resize(a) == [i \in 0..(2 * capacity - 1) |-> IF i < size THEN a[i] ELSE None]

----------------------------------------------------------------------------
(* The operations                                                          *)

Fresh(cap) == [i \in 0..(cap - 1) |-> None]

\* Either constructor: an empty heap, or one made of unsorted timers.
Init ==
    /\ \E cap \in Capacities : \E n \in 0..cap : \E ts \in [0..(n - 1) -> Timers] :
           /\ \A i, j \in 0..(n - 1) : ts[i] = ts[j] => i = j
           /\ live = {ts[i] : i \in 0..(n - 1)}
           /\ expire \in {e \in [Timers -> Delays \cup {0}] : \A t \in Timers \ live : e[t] = 0}
           /\ array = IF n = 0 THEN Fresh(cap)
                      ELSE Heapify([i \in 0..(cap - 1) |-> IF i < n THEN ts[i] ELSE None], n)
           /\ size = n
    /\ callback = live
    /\ ticking = FALSE /\ undefined = FALSE

Undefined == undefined' = TRUE /\ UNCHANGED <<array, size, expire, callback, live, ticking>>

\* new Timer(d) and AddTimer: it rises from the first free place until its parent
\* is not later. Only the first parent can be a bad pointer.
Add(t, d) ==
    /\ t \notin live
    /\ LET a == IF size >= capacity THEN Resize(array) ELSE array
           Path[hole \in 0..size] ==
               IF hole > 0 /\ expire[a[(hole - 1) \div 2]] > d
               THEN <<hole>> \o Path[(hole - 1) \div 2] ELSE <<hole>>
       IN  \/ /\ size > 0 /\ a[(size - 1) \div 2] \notin live /\ Undefined
           \/ /\ size > 0 => a[(size - 1) \div 2] \in live
              /\ array' = Shift(a, Path[size], t)
              /\ size' = size + 1
              /\ expire' = [expire EXCEPT ![t] = d]
              /\ live' = live \cup {t} /\ callback' = callback \cup {t}
              /\ UNCHANGED <<ticking, undefined>>

\* DeleteTimer only takes the callback away; the timer stays where it is.
Delete(t) ==
    /\ t \in live
    /\ callback' = callback \ {t}
    /\ UNCHANGED <<array, size, expire, live, ticking, undefined>>

\* The top is deleted and array[cur_size--], the place behind the last, copied to it.
PopTop ==
    LET moved == [array EXCEPT ![0] = At(array, size)] IN
    IF size > 2 /\ moved[0] \notin live THEN Undefined
    ELSE /\ size' = size - 1
         /\ array' = IF size > 2 THEN PercolateDown(moved, size - 1, 0) ELSE moved
         /\ live' = live \ {array[0]} /\ callback' = callback \ {array[0]}
         /\ expire' = [expire EXCEPT ![array[0]] = 0]
         /\ UNCHANGED <<ticking, undefined>>

Pop ==
    /\ ~ticking /\ size > 0 /\ array[0] # None
    /\ IF array[0] \in live THEN PopTop ELSE Undefined

Tick ==
    /\ ~ticking
    /\ ticking' = TRUE
    /\ UNCHANGED <<array, size, expire, callback, live, undefined>>

\* One round of the loop: the callback, if there is one, and Pop.
TickFires ==
    /\ ticking /\ size > 0 /\ array[0] # None
    /\ IF array[0] \in live THEN expire[array[0]] <= 0 /\ PopTop ELSE Undefined

TickEnds ==
    /\ ticking
    /\ size = 0 \/ array[0] = None \/ (array[0] \in live /\ expire[array[0]] > 0)
    /\ ticking' = FALSE
    /\ UNCHANGED <<array, size, expire, callback, live, undefined>>

TimePasses ==
    /\ ~ticking
    /\ \A t \in live : expire[t] > -MaxOverdue
    /\ expire' = [t \in Timers |-> IF t \in live THEN expire[t] - 1 ELSE 0]
    /\ UNCHANGED <<array, size, callback, live, ticking, undefined>>

Next ==
    /\ ~undefined
    /\ \/ \E t \in Timers : Delete(t) \/ \E d \in Delays : ~ticking /\ Add(t, d)
       \/ Pop \/ Tick \/ TickFires \/ TickEnds \/ TimePasses

Spec == Init /\ [][Next]_heapVars

----------------------------------------------------------------------------
(* Properties                                                              *)

Held == {array[i] : i \in 0..(size - 1)}

\* As long as the heap holds nothing but timers, no child is earlier than its
\* parent, so that top is the earliest, and it holds every timer exactly once,
\* through growth, heapify and lazy deletion.
HeapIsSound ==
    ~undefined /\ Held \subseteq live =>
        /\ \A i \in 1..(size - 1) : expire[array[(i - 1) \div 2]] <= expire[array[i]]
        /\ Held = live /\ Cardinality(Held) = size

\* The comment in Pop, "first put the last element of the array on top of the heap":
\* no timer but the top leaves the heap. (Not so: the place behind the last is read.)
PopKeepsTheRest == live \subseteq Held
=============================================================================
