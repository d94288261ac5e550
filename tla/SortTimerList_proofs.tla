------------------------ MODULE SortTimerList_proofs -------------------------
(***************************************************************************)
(* Proofs about SortTimerList, for any number of timers and any expiries,  *)
(* and about its two users: the server of ClearDeadConnection and          *)
(* TimerList, the list under any sequence of calls.                        *)
(*                                                                         *)
(* The list's functions walk along next, and Walk is a recursive function. *)
(* The proofs never need it: a list that Holds a set of timers comes with  *)
(* the sequence s of its n nodes, from which next, prev, head, tail and    *)
(* the order are read off, and each member function turns such a sequence  *)
(* into another one. What they find on their way is a lowest position with *)
(* some property (LowestIsOne).                                            *)
(***************************************************************************)
EXTENDS ClearDeadConnection, FiniteSetTheorems, SequenceTheorems, WellFoundedInduction, TLAPS

\* A set of positions that is not empty has a lowest one.
LEMMA LowestIsOne ==
    ASSUME NEW S \in SUBSET Nat, S # {}
    PROVE  Min(S) \in S /\ \A y \in S : Min(S) =< y
<1> DEFINE R == OpToRel(<, Nat)
<1>1. \E x \in S : \A y \in S : ~(<<y, x>> \in R)
    BY NatLessThanWellFounded, WFMin
<1>2. \A x, y \in S : <<y, x>> \notin R => x =< y
    BY DEF OpToRel
<1>3. \E x \in S : \A y \in S : x =< y
    BY <1>1, <1>2
<1> QED BY <1>3 DEF Min

\* A walk along next that meets the nodes w and ends.
Leads(l, from, w, n) ==
    /\ from = IF n = 0 THEN None ELSE w[1]
    /\ \A i \in 1..n : w[i] \in Timers /\ l.next[w[i]] = IF i = n THEN None ELSE w[i + 1]

\* Walk returns the nodes it meets, if the walk ends.
LEMMA WalkIs ==
    ASSUME NEW l, NEW from, NEW w, NEW n \in 0..Cardinality(Timers), Leads(l, from, w, n)
    PROVE  Walk(l, from) = [i \in 1..n |-> w[i]]
<1> DEFINE C == Cardinality(Timers)
           G(f) == [i \in 1..(C + 1) |-> IF i = 1 THEN from
                       ELSE IF f[i - 1] = None THEN None ELSE l.next[f[i - 1]]]
           f0 == [i \in 1..(C + 1) |-> IF i <= n THEN w[i] ELSE None]
           at == CHOOSE f : f = G(f)
<1>0. C \in Nat /\ None \notin Timers
    BY FS_CardinalityType, TimersAssumption
<1>1. f0 = G(f0)
  <2>1. ASSUME NEW i \in 1..(C + 1)
        PROVE  f0[i] = IF i = 1 THEN from
                       ELSE IF f0[i - 1] = None THEN None ELSE l.next[f0[i - 1]]
    <3> HIDE DEF C
    <3>1. CASE i = 1
        BY <1>0, <3>1 DEF Leads
    <3>2. CASE i # 1 /\ i - 1 <= n
        BY <1>0, <3>2 DEF Leads
    <3>3. CASE i # 1 /\ i - 1 > n
        BY <1>0, <3>3
    <3> QED BY <1>0, <3>1, <3>2, <3>3
  <2> QED BY <2>1
<1>2. at = G(at)
    BY <1>1
<1> HIDE DEF at, G
<1>3. \A i \in 1..(C + 1) : at[i] = f0[i]
  <2> DEFINE D == {i \in 1..(C + 1) : at[i] # f0[i]}
  <2>1. SUFFICES ASSUME D # {} PROVE FALSE
      OBVIOUS
  <2>2. PICK m \in 1..(C + 1) : at[m] # f0[m] /\ \A i \in D : m <= i
    <3>1. D \in SUBSET Nat
        BY <1>0
    <3> QED BY <2>1, <3>1, LowestIsOne
  <2>3. at[m] = G(at)[m] /\ f0[m] = G(f0)[m]
      BY <1>1, <1>2
  <2>4. ~(m <= m - 1) /\ m \in Nat
      BY <1>0
  <2>5. m - 1 \in 1..(C + 1) => at[m - 1] = f0[m - 1]
      BY <2>2, <2>4
  <2> HIDE DEF f0, D
  <2> QED BY <1>0, <2>2, <2>3, <2>5 DEF G
<1>4. {j \in 1..(C + 1) : at[j] # None} = 1..n
  <2>1. \A i \in 1..n : w[i] # None
      BY <1>0 DEF Leads
  <2> QED BY <1>0, <1>3, <2>1
<1>5. Cardinality(1..n) = n
    BY FS_Interval
<1>6. Walk(l, from) = [i \in 1..Cardinality({j \in 1..(C + 1) : at[j] # None}) |-> at[i]]
  <2>1. DOMAIN at = 1..(C + 1)
      BY <1>2 DEF G
  <2> QED BY <2>1 DEF Walk, at, G
<1>7. Walk(l, from) = [i \in 1..n |-> at[i]]
    BY <1>4, <1>5, <1>6
<1>8. \A i \in 1..n : i \in 1..(C + 1)
    BY <1>0
<1> QED BY <1>3, <1>7, <1>8

(***************************************************************************)
(* What it means that a list holds the nodes s[1], ..., s[n]               *)
(***************************************************************************)

ListType(l) ==
    l \in [head : Timers \cup {None}, tail : Timers \cup {None},
           prev : [Timers -> Timers \cup {None}], next : [Timers -> Timers \cup {None}],
           expire : [Timers -> Int]]

Distinct(s, n) ==
    /\ n \in Nat
    /\ \A i \in 1..n : s[i] \in Timers
    /\ \A i, j \in 1..n : s[i] = s[j] => i = j

IsList(l, s, n) ==
    /\ Distinct(s, n)
    /\ l.head = IF n = 0 THEN None ELSE s[1]
    /\ n > 0 => l.tail = s[n]
    /\ \A i \in 1..n : /\ l.next[s[i]] = IF i = n THEN None ELSE s[i + 1]
                       /\ l.prev[s[i]] = IF i = 1 THEN None ELSE s[i - 1]

InOrder(l, s, n) == \A i, j \in 1..n : i < j => l.expire[s[i]] <= l.expire[s[j]]

Members(s, n) == {s[i] : i \in 1..n}

Inserted(s, n, k, t) ==
    [j \in 1..(n + 1) |-> IF j < k THEN s[j] ELSE IF j = k THEN t ELSE s[j - 1]]

\* The neighbours of a place in a list.
Before(s, k) == IF k = 1 THEN None ELSE s[k - 1]
Behind(s, n, k) == IF k = n THEN None ELSE s[k + 1]
At(s, n, k) == IF k = n + 1 THEN None ELSE s[k]

Removed(s, n, k) == [j \in 1..(n - 1) |-> IF j < k THEN s[j] ELSE s[j + 1]]

\* m is l with t linked in between before and after.
Insertion(l, m, before, t, after) ==
    /\ \A x \in Timers : m.next[x] = IF x = t THEN after ELSE IF x = before THEN t ELSE l.next[x]
    /\ \A x \in Timers : m.prev[x] = IF x = t THEN before ELSE IF x = after THEN t ELSE l.prev[x]
    /\ m.head = IF before = None THEN t ELSE l.head
    /\ m.tail = IF after = None THEN t ELSE l.tail

\* m is l with t taken out from between before and after; when it is the last
\* node, tail may keep its value.
Removal(l, m, before, t, after) ==
    /\ \A x \in Timers \ {t} : m.next[x] = IF x = before THEN after ELSE l.next[x]
    /\ \A x \in Timers \ {t} : m.prev[x] = IF x = after THEN before ELSE l.prev[x]
    /\ m.head = IF before = None THEN after ELSE l.head
    /\ before # None \/ after # None => m.tail = IF after = None THEN before ELSE l.tail

\* l and m have the same pointers in what is not among nodes.
Apart(l, m, nodes) ==
    \A x \in Timers \ nodes : m.next[x] = l.next[x] /\ m.prev[x] = l.prev[x]

\* l and m have the same expiries in what is not among nodes.
SameExpiry(l, m, nodes) == \A x \in Timers \ nodes : m.expire[x] = l.expire[x]

\* What delete has taken is blank.
Blank(l, nodes) ==
    \A x \in nodes : l.next[x] = None /\ l.prev[x] = None /\ l.expire[x] = 0

\* A list is no longer than the memory has nodes.
LEMMA ListFits ==
    ASSUME NEW s, NEW n, Distinct(s, n)
    PROVE  n \in 0..Cardinality(Timers)
<1> DEFINE f == [i \in 1..n |-> s[i]]
<1>1. f \in Injection(1..n, Timers)
    BY DEF Distinct, Injection, IsInjective
<1>2. Cardinality(1..n) = n /\ IsFiniteSet(1..n) /\ n \in Nat
    BY FS_Interval DEF Distinct
<1>3. Cardinality(1..n) <= Cardinality(Timers)
    BY <1>1, <1>2, TimersAssumption, FS_Injection
<1>4. Cardinality(Timers) \in Nat
    BY TimersAssumption, FS_CardinalityType
<1> QED BY <1>2, <1>3, <1>4

\* What Nodes returns of it, and a walk from any of its nodes.
LEMMA NodesAre ==
    ASSUME NEW l, NEW s, NEW n, IsList(l, s, n)
    PROVE  /\ Nodes(l) = [i \in 1..n |-> s[i]]
           /\ \A k \in 1..n : Walk(l, s[k]) = [i \in 1..(n - k + 1) |-> s[k + i - 1]]
<1>0. n \in 0..Cardinality(Timers) /\ n \in Nat
    BY ListFits DEF IsList, Distinct
<1>1. Leads(l, l.head, s, n)
    BY DEF IsList, Distinct, Leads
<1>2. Nodes(l) = [i \in 1..n |-> s[i]]
    BY <1>0, <1>1, WalkIs DEF Nodes
<1>3. ASSUME NEW k \in 1..n
      PROVE  Walk(l, s[k]) = [i \in 1..(n - k + 1) |-> s[k + i - 1]]
  <2> DEFINE m == n - k + 1
             w == [i \in 1..m |-> s[k + i - 1]]
  <2>1. m \in 0..Cardinality(Timers) /\ m > 0
    <3>1. Cardinality(Timers) \in Nat
        BY TimersAssumption, FS_CardinalityType
    <3> QED BY <1>0, <3>1
  <2>2. \A i \in 1..m : k + i - 1 \in 1..n /\ (k + i - 1 = n <=> i = m) /\ (k + i - 1) + 1 = k + (i + 1) - 1
      BY <1>0
  <2>3. Leads(l, s[k], w, m)
    <3>1. s[k] = IF m = 0 THEN None ELSE w[1]
        BY <1>0, <2>1
    <3>2. ASSUME NEW i \in 1..m
          PROVE  w[i] \in Timers /\ l.next[w[i]] = IF i = m THEN None ELSE w[i + 1]
      <4>1. i # m => i + 1 \in 1..m
          BY <1>0
      <4>2. w[i] = s[k + i - 1] /\ (i # m => w[i + 1] = s[(k + i - 1) + 1])
          BY <1>0, <2>2, <4>1
      <4> HIDE DEF w, m
      <4> QED BY <2>2, <4>2 DEF IsList, Distinct
    <3> HIDE DEF w, m
    <3> QED BY <3>1, <3>2 DEF Leads
  <2>4. Walk(l, s[k]) = [i \in 1..m |-> w[i]]
    <3> HIDE DEF w, m
    <3> QED BY <2>1, <2>3, WalkIs
  <2> QED BY <2>4
<1> QED BY <1>2, <1>3

\* A node linked in between two others, or at an end, is in the list.
LEMMA InsertedIsList ==
    ASSUME NEW l, NEW m, NEW s, NEW n, IsList(l, s, n),
           NEW k \in 1..(n + 1), NEW t \in Timers, t \notin Members(s, n),
           Insertion(l, m, Before(s, k), t, At(s, n, k))
    PROVE  /\ IsList(m, Inserted(s, n, k, t), n + 1)
           /\ Members(Inserted(s, n, k, t), n + 1) = Members(s, n) \cup {t}
<1> DEFINE r == Inserted(s, n, k, t)
<1>0. /\ n \in Nat /\ k \in Nat
      /\ \A i \in 1..n : s[i] \in Timers /\ s[i] # t
      /\ \A i, j \in 1..n : s[i] = s[j] => i = j
    BY DEF IsList, Distinct, Members
<1>1. \A j \in 1..(n + 1) : r[j] = IF j < k THEN s[j] ELSE IF j = k THEN t ELSE s[j - 1]
    BY DEF Inserted
<1> HIDE DEF r
<1>2. /\ \A j \in 1..(n + 1) : j < k => j \in 1..n /\ r[j] = s[j]
      /\ \A j \in 1..(n + 1) : j > k => j - 1 \in 1..n /\ r[j] = s[j - 1]
      /\ r[k] = t
    BY <1>0, <1>1
<1>3. Distinct(r, n + 1)
  <2>1. \A j \in 1..(n + 1) : r[j] \in Timers
      BY <1>0, <1>2
  <2>2. ASSUME NEW i \in 1..(n + 1), NEW j \in 1..(n + 1), r[i] = r[j] PROVE i = j
      BY <1>0, <1>2, <2>2
  <2> QED BY <1>0, <2>1, <2>2 DEF Distinct
<1>a. None \notin Timers
    BY TimersAssumption
<1>b. k > 1 => k - 1 \in 1..n /\ s[k - 1] \in Timers
    BY <1>0
<1>4. /\ \A x \in Timers : m.next[x] = IF x = t THEN IF k = n + 1 THEN None ELSE s[k]
                                       ELSE IF k > 1 /\ x = s[k - 1] THEN t ELSE l.next[x]
      /\ \A x \in Timers : m.prev[x] = IF x = t THEN IF k = 1 THEN None ELSE s[k - 1]
                                       ELSE IF k <= n /\ x = s[k] THEN t ELSE l.prev[x]
      /\ m.head = IF k = 1 THEN t ELSE l.head
      /\ m.tail = IF k = n + 1 THEN t ELSE l.tail
    BY <1>0, <1>a, <1>b DEF Before, At, Insertion
<1>5. /\ \A i \in 1..n : l.next[s[i]] = IF i = n THEN None ELSE s[i + 1]
      /\ \A i \in 1..n : l.prev[s[i]] = IF i = 1 THEN None ELSE s[i - 1]
    BY DEF IsList
<1>6. m.head = r[1]
    BY <1>0, <1>2, <1>4 DEF IsList
<1>7. m.tail = r[n + 1]
    BY <1>0, <1>2, <1>4 DEF IsList
<1>8. ASSUME NEW j \in 1..(n + 1) PROVE m.next[r[j]] = IF j = n + 1 THEN None ELSE r[j + 1]
  <2>1. CASE j = k
      BY <1>0, <1>2, <1>4, <2>1
  <2>2. CASE j = k - 1
    <3>1. j \in 1..n /\ r[j] = s[k - 1] /\ s[j] \in Timers /\ s[j] # t /\ r[j + 1] = t /\ k > 1
        BY <1>0, <1>2, <2>2
    <3>2. m.next[r[j]] = t
        BY <1>4, <2>2, <3>1
    <3> QED BY <1>0, <3>1, <3>2
  <2>3. CASE j < k - 1
    <3>1. j \in 1..n /\ j + 1 \in 1..n /\ r[j] = s[j] /\ r[j + 1] = s[j + 1] /\ k - 1 \in 1..n
        BY <1>0, <1>2, <2>3
    <3>2. s[j] # s[k - 1]
        BY <1>0, <2>3, <3>1
    <3>3. m.next[r[j]] = l.next[s[j]]
        BY <1>0, <1>4, <3>1, <3>2
    <3> QED BY <1>0, <1>5, <3>1, <3>3
  <2>4. CASE j > k
    <3>1. j - 1 \in 1..n /\ r[j] = s[j - 1] /\ (j # n + 1 => r[j + 1] = s[(j - 1) + 1])
        BY <1>0, <1>2, <2>4
    <3>2. k > 1 => s[j - 1] # s[k - 1]
      <4>1. k > 1 => k - 1 \in 1..n /\ k - 1 # j - 1
          BY <1>0, <2>4
      <4> QED BY <1>0, <3>1, <4>1
    <3>3. m.next[r[j]] = l.next[s[j - 1]]
        BY <1>0, <1>4, <3>1, <3>2
    <3> QED BY <1>0, <1>5, <3>1, <3>3
  <2> QED BY <1>0, <2>1, <2>2, <2>3, <2>4
<1>9. ASSUME NEW j \in 1..(n + 1) PROVE m.prev[r[j]] = IF j = 1 THEN None ELSE r[j - 1]
  <2>1. CASE j = k
      BY <1>0, <1>2, <1>4, <2>1
  <2>2. CASE j = k + 1
    <3>1. j - 1 \in 1..n /\ r[j] = s[k] /\ s[k] \in Timers /\ s[k] # t /\ r[j - 1] = t /\ k <= n
        BY <1>0, <1>2, <2>2
    <3>2. m.prev[r[j]] = t
        BY <1>4, <3>1
    <3> QED BY <1>0, <2>2, <3>1, <3>2
  <2>3. CASE j > k + 1
    <3>1. /\ j - 1 \in 1..n /\ j - 1 # 1 /\ r[j] = s[j - 1] /\ r[j - 1] = s[(j - 1) - 1]
          /\ k \in 1..n /\ k # j - 1
        BY <1>0, <1>2, <2>3
    <3>2. s[j - 1] # s[k]
        BY <1>0, <3>1
    <3>3. m.prev[r[j]] = l.prev[s[j - 1]]
        BY <1>0, <1>4, <3>1, <3>2
    <3> QED BY <1>0, <1>5, <3>1, <3>3
  <2>4. CASE j < k
    <3>1. j \in 1..n /\ r[j] = s[j] /\ (j # 1 => r[j - 1] = s[j - 1])
        BY <1>0, <1>2, <2>4
    <3>2. k <= n => s[j] # s[k]
      <4>1. k <= n => k \in 1..n /\ k # j
          BY <1>0, <2>4
      <4> QED BY <1>0, <3>1, <4>1
    <3>3. m.prev[r[j]] = l.prev[s[j]]
        BY <1>0, <1>4, <3>1, <3>2
    <3> QED BY <1>0, <1>5, <3>1, <3>3
  <2> QED BY <1>0, <2>1, <2>2, <2>3, <2>4
<1>10. IsList(m, r, n + 1)
    BY <1>0, <1>3, <1>6, <1>7, <1>8, <1>9 DEF IsList
<1>11. Members(r, n + 1) = Members(s, n) \cup {t}
  <2>1. \A i \in 1..n : \E j \in 1..(n + 1) : r[j] = s[i]
    <3>1. \A i \in 1..n : i < k => i \in 1..(n + 1) /\ r[i] = s[i]
        BY <1>0, <1>2
    <3>2. \A i \in 1..n : i >= k => i + 1 \in 1..(n + 1) /\ r[i + 1] = s[i]
        BY <1>0, <1>1
    <3> QED BY <1>0, <3>1, <3>2
  <2>2. \A j \in 1..(n + 1) : r[j] = t \/ \E i \in 1..n : r[j] = s[i]
      BY <1>0, <1>2
  <2>3. k \in 1..(n + 1) /\ r[k] = t
      BY <1>2
  <2> QED BY <2>1, <2>2, <2>3 DEF Members
<1> QED BY <1>10, <1>11 DEF r

\* A node taken out from between two others, or from an end, is not in the list.
LEMMA RemovedIsList ==
    ASSUME NEW l, NEW m, NEW s, NEW n, IsList(l, s, n), NEW k \in 1..n, NEW t, t = s[k],
           Removal(l, m, Before(s, k), t, Behind(s, n, k))
    PROVE  /\ IsList(m, Removed(s, n, k), n - 1)
           /\ Members(Removed(s, n, k), n - 1) = Members(s, n) \ {t}
<1> DEFINE r == Removed(s, n, k)
<1>0. /\ n \in Nat /\ k \in Nat /\ n - 1 \in Nat
      /\ \A i \in 1..n : s[i] \in Timers /\ (i # k => s[i] # t)
      /\ \A i, j \in 1..n : s[i] = s[j] => i = j
    BY DEF IsList, Distinct
<1>1. \A j \in 1..(n - 1) : r[j] = IF j < k THEN s[j] ELSE s[j + 1]
    BY DEF Removed
<1> HIDE DEF r
<1>2. /\ \A j \in 1..(n - 1) : j < k => j \in 1..n /\ r[j] = s[j]
      /\ \A j \in 1..(n - 1) : j >= k => j + 1 \in 1..n /\ r[j] = s[j + 1]
    BY <1>0, <1>1
<1>3. Distinct(r, n - 1)
  <2>1. \A j \in 1..(n - 1) : r[j] \in Timers
      BY <1>0, <1>2
  <2>2. ASSUME NEW i \in 1..(n - 1), NEW j \in 1..(n - 1), r[i] = r[j] PROVE i = j
      BY <1>0, <1>2, <2>2
  <2> QED BY <1>0, <2>1, <2>2 DEF Distinct
<1>a. None \notin Timers
    BY TimersAssumption
<1>b. (k > 1 => k - 1 \in 1..n /\ s[k - 1] \in Timers) /\ (k < n => k + 1 \in 1..n /\ s[k + 1] \in Timers)
    BY <1>0
<1>4. /\ \A x \in Timers \ {t} :
             m.next[x] = IF k > 1 /\ x = s[k - 1] THEN IF k = n THEN None ELSE s[k + 1]
                         ELSE l.next[x]
      /\ \A x \in Timers \ {t} :
             m.prev[x] = IF k < n /\ x = s[k + 1] THEN IF k = 1 THEN None ELSE s[k - 1]
                         ELSE l.prev[x]
      /\ m.head = IF k > 1 THEN l.head ELSE IF n = 1 THEN None ELSE s[2]
      /\ n > 1 => m.tail = IF k < n THEN l.tail ELSE s[n - 1]
    BY <1>0, <1>a, <1>b DEF Before, Behind, Removal
<1>5. /\ \A i \in 1..n : l.next[s[i]] = IF i = n THEN None ELSE s[i + 1]
      /\ \A i \in 1..n : l.prev[s[i]] = IF i = 1 THEN None ELSE s[i - 1]
    BY DEF IsList
<1>6. m.head = IF n - 1 = 0 THEN None ELSE r[1]
    BY <1>0, <1>2, <1>4 DEF IsList
<1>7. n - 1 > 0 => m.tail = r[n - 1]
    BY <1>0, <1>2, <1>4 DEF IsList
<1>8. ASSUME NEW j \in 1..(n - 1) PROVE m.next[r[j]] = IF j = n - 1 THEN None ELSE r[j + 1]
  <2>1. CASE j = k - 1
    <3>1. /\ j \in 1..n /\ r[j] = s[k - 1] /\ s[j] \in Timers \ {t} /\ k > 1
          /\ (j # n - 1 => r[j + 1] = s[k + 1])
        BY <1>0, <1>2, <2>1
    <3>2. m.next[r[j]] = IF k = n THEN None ELSE s[k + 1]
        BY <1>4, <2>1, <3>1
    <3> QED BY <1>0, <2>1, <3>1, <3>2
  <2>2. CASE j < k - 1
    <3>1. /\ j \in 1..n /\ j # n /\ r[j] = s[j] /\ r[j + 1] = s[j + 1] /\ j # n - 1
          /\ k - 1 \in 1..n /\ s[j] \in Timers \ {t}
        BY <1>0, <1>2, <2>2
    <3>2. s[j] # s[k - 1]
        BY <1>0, <2>2, <3>1
    <3>3. m.next[r[j]] = l.next[s[j]]
        BY <1>4, <3>1, <3>2
    <3> QED BY <1>5, <3>1, <3>3
  <2>3. CASE j >= k
    <3>1. /\ j + 1 \in 1..n /\ r[j] = s[j + 1] /\ s[j + 1] \in Timers \ {t}
          /\ (j # n - 1 => r[j + 1] = s[(j + 1) + 1]) /\ (j = n - 1 <=> j + 1 = n)
        BY <1>0, <1>2, <2>3
    <3>2. k > 1 => s[j + 1] # s[k - 1]
      <4>1. k > 1 => k - 1 \in 1..n /\ k - 1 # j + 1
          BY <1>0, <2>3
      <4> QED BY <1>0, <3>1, <4>1
    <3>3. m.next[r[j]] = l.next[s[j + 1]]
        BY <1>4, <3>1, <3>2
    <3> QED BY <1>5, <3>1, <3>3
  <2> QED BY <1>0, <2>1, <2>2, <2>3
<1>9. ASSUME NEW j \in 1..(n - 1) PROVE m.prev[r[j]] = IF j = 1 THEN None ELSE r[j - 1]
  <2>1. CASE j = k
    <3>1. /\ j + 1 \in 1..n /\ r[j] = s[k + 1] /\ s[k + 1] \in Timers \ {t} /\ k < n
          /\ (j # 1 => r[j - 1] = s[k - 1])
        BY <1>0, <1>2, <2>1
    <3>2. m.prev[r[j]] = IF k = 1 THEN None ELSE s[k - 1]
        BY <1>4, <3>1
    <3> QED BY <2>1, <3>1, <3>2
  <2>2. CASE j < k
    <3>1. /\ j \in 1..n /\ r[j] = s[j] /\ s[j] \in Timers \ {t}
          /\ (j # 1 => r[j - 1] = s[j - 1])
        BY <1>0, <1>2, <2>2
    <3>2. k < n => s[j] # s[k + 1]
      <4>1. k < n => k + 1 \in 1..n /\ k + 1 # j
          BY <1>0, <2>2
      <4> QED BY <1>0, <3>1, <4>1
    <3>3. m.prev[r[j]] = l.prev[s[j]]
        BY <1>4, <3>1, <3>2
    <3> QED BY <1>5, <3>1, <3>3
  <2>3. CASE j > k
    <3>1. /\ j + 1 \in 1..n /\ j + 1 # 1 /\ j # 1 /\ r[j] = s[j + 1] /\ s[j + 1] \in Timers \ {t}
          /\ r[j - 1] = s[(j + 1) - 1]
        BY <1>0, <1>2, <2>3
    <3>2. k < n => s[j + 1] # s[k + 1]
      <4>1. k < n => k + 1 \in 1..n /\ k + 1 # j + 1
          BY <1>0, <2>3
      <4> QED BY <1>0, <3>1, <4>1
    <3>3. m.prev[r[j]] = l.prev[s[j + 1]]
        BY <1>4, <3>1, <3>2
    <3> QED BY <1>5, <3>1, <3>3
  <2> QED BY <1>0, <2>1, <2>2, <2>3
<1>10. IsList(m, r, n - 1)
    BY <1>0, <1>3, <1>6, <1>7, <1>8, <1>9 DEF IsList
<1>11. Members(r, n - 1) = Members(s, n) \ {t}
  <2>1. \A i \in 1..n : i # k => \E j \in 1..(n - 1) : r[j] = s[i]
    <3>1. \A i \in 1..n : i < k => i \in 1..(n - 1) /\ r[i] = s[i]
        BY <1>0, <1>2
    <3>2. \A i \in 1..n : i > k => i - 1 \in 1..(n - 1) /\ r[i - 1] = s[i]
        BY <1>0, <1>1
    <3> QED BY <1>0, <3>1, <3>2
  <2>2. \A j \in 1..(n - 1) : \E i \in 1..n : r[j] = s[i] /\ i # k
      BY <1>0, <1>2
  <2>3. \A i \in 1..n : i # k => s[i] # t
      BY <1>0
  <2>4. \A i \in 1..n : s[i] # t => i # k
      OBVIOUS
  <2> QED BY <2>1, <2>2, <2>3, <2>4 DEF Members
<1> QED BY <1>10, <1>11 DEF r, Members

(***************************************************************************)
(* The order of the expiries                                               *)
(***************************************************************************)

\* As InOrder, but for the node s[k].
InOrderBut(l, s, n, k) ==
    \A i, j \in 1..n : i < j /\ k \notin {i, j} => l.expire[s[i]] <= l.expire[s[j]]

\* A node that expires after those before it and before those behind it is in order.
LEMMA InsertedInOrder ==
    ASSUME NEW l, NEW m, NEW s, NEW n \in Nat, NEW t, NEW k \in 1..(n + 1), InOrder(l, s, n),
           m.expire = l.expire,
           \A j \in 1..n : j < k => l.expire[s[j]] <= l.expire[t],
           \A j \in 1..n : j >= k => l.expire[t] <= l.expire[s[j]]
    PROVE  InOrder(m, Inserted(s, n, k, t), n + 1)
<1> DEFINE r == Inserted(s, n, k, t)
<1>1. \A j \in 1..(n + 1) : r[j] = IF j < k THEN s[j] ELSE IF j = k THEN t ELSE s[j - 1]
    BY DEF Inserted
<1> HIDE DEF r
<1>2. /\ \A j \in 1..(n + 1) : j < k => j \in 1..n /\ r[j] = s[j]
      /\ \A j \in 1..(n + 1) : j > k => j - 1 \in 1..n /\ j - 1 >= k /\ r[j] = s[j - 1]
      /\ r[k] = t
    BY <1>1
<1>3. ASSUME NEW i \in 1..(n + 1), NEW j \in 1..(n + 1), i < j
      PROVE  l.expire[r[i]] <= l.expire[r[j]]
  <2>1. CASE i = k
      BY <1>2, <1>3, <2>1
  <2>2. CASE j = k
      BY <1>2, <1>3, <2>2
  <2>3. CASE j < k
      BY <1>2, <1>3, <2>3 DEF InOrder
  <2>4. CASE i < k /\ k < j
    <3>1. i \in 1..n /\ j - 1 \in 1..n /\ i < j - 1
        BY <1>2, <2>4
    <3> QED BY <1>2, <2>4, <3>1 DEF InOrder
  <2>5. CASE k < i
    <3>1. i - 1 \in 1..n /\ j - 1 \in 1..n /\ i - 1 < j - 1
        BY <1>2, <1>3, <2>5
    <3> QED BY <1>2, <1>3, <2>5, <3>1 DEF InOrder
  <2> QED BY <1>3, <2>1, <2>2, <2>3, <2>4, <2>5
<1> QED BY <1>3 DEF InOrder, r

\* Without the node that is out of order the others are in order.
LEMMA RemovedInOrder ==
    ASSUME NEW l, NEW m, NEW s, NEW n \in Nat, NEW k \in 1..n, InOrderBut(l, s, n, k),
           \A i \in 1..n : i # k => m.expire[s[i]] = l.expire[s[i]]
    PROVE  InOrder(m, Removed(s, n, k), n - 1)
<1> DEFINE r == Removed(s, n, k)
<1>1. \A j \in 1..(n - 1) : r[j] = IF j < k THEN s[j] ELSE s[j + 1]
    BY DEF Removed
<1> HIDE DEF r
<1>2. /\ \A j \in 1..(n - 1) : j < k => j \in 1..n /\ r[j] = s[j]
      /\ \A j \in 1..(n - 1) : j >= k => j + 1 \in 1..n /\ j + 1 > k /\ r[j] = s[j + 1]
    BY <1>1
<1>3. ASSUME NEW i \in 1..(n - 1), NEW j \in 1..(n - 1), i < j
      PROVE  m.expire[r[i]] <= m.expire[r[j]]
  <2>1. PICK a \in 1..n, b \in 1..n : r[i] = s[a] /\ r[j] = s[b] /\ a < b /\ k \notin {a, b}
    <3>1. CASE j < k
        BY <1>2, <1>3, <3>1
    <3>2. CASE i < k /\ k <= j
        BY <1>2, <1>3, <3>2
    <3>3. CASE k <= i
        BY <1>2, <1>3, <3>3
    <3> QED BY <1>3, <3>1, <3>2, <3>3
  <2> QED BY <2>1 DEF InOrderBut
<1> QED BY <1>3 DEF InOrder, r

(***************************************************************************)
(* The member functions                                                    *)
(***************************************************************************)

\* m is l but for the pointers between b and a.
Linking(l, m, b, a) ==
    /\ ListType(m) /\ m.head = l.head /\ m.tail = l.tail /\ m.expire = l.expire
    /\ \A x \in Timers : m.next[x] = IF x = b THEN a ELSE l.next[x]
    /\ \A x \in Timers : m.prev[x] = IF x = a THEN b ELSE l.prev[x]

\* What Link changes.
LEMMA LinkFields ==
    ASSUME NEW l, ListType(l), NEW b \in Timers, NEW a \in Timers
    PROVE  Linking(l, Link(l, b, a), b, a)
BY DEF ListType, Link, Linking

\* Where a timer goes that does not expire before s[k]: behind it, in order.
LEMMA PositionInOrder ==
    ASSUME NEW l, NEW s, NEW n, NEW k \in 1..n, NEW t \in Timers,
           ListType(l), IsList(l, s, n), InOrder(l, s, n), l.expire[s[k]] <= l.expire[t]
    PROVE  LET p == Position(l, t, Walk(l, s[k])) IN
           /\ p \in 2..(n - k + 2)
           /\ Len(Walk(l, s[k])) = n - k + 1
           /\ \A j \in 1..n : j < k + p - 1 => l.expire[s[j]] <= l.expire[t]
           /\ \A j \in 1..n : j >= k + p - 1 => l.expire[t] <= l.expire[s[j]]
<1> DEFINE L == n - k + 1
           walk == Walk(l, s[k])
           S == {i \in 2..L : l.expire[t] < l.expire[walk[i]]} \cup {L + 1}
           p == Min(S)
<1>0. n \in Nat /\ L \in Nat \ {0} /\ k \in Nat /\ \A i \in 1..n : l.expire[s[i]] \in Int
    BY DEF IsList, Distinct, ListType
<1>1. walk = [i \in 1..L |-> s[k + i - 1]]
    BY NodesAre
<1>2. Len(walk) = L
    BY <1>0, <1>1
<1>3. p \in S /\ \A i \in S : p <= i
  <2>1. S \in SUBSET Nat /\ S # {}
      BY <1>0
  <2> HIDE DEF S
  <2> QED BY <2>1, LowestIsOne
<1>4. p = Position(l, t, walk)
    BY <1>2 DEF Position
<1> HIDE DEF p
<1>5. p \in 2..(L + 1) /\ (p <= L => l.expire[t] < l.expire[walk[p]])
    BY <1>0, <1>3
<1>6. \A i \in 2..L : i < p => l.expire[walk[i]] <= l.expire[t]
  <2>1. \A i \in 2..L : i < p => i \notin S
    <3>1. \A i \in 2..L : i < p => ~(p <= i)
        BY <1>0, <1>5
    <3> QED BY <1>3, <3>1
  <2>2. \A i \in 2..L : walk[i] = s[k + i - 1] /\ k + i - 1 \in 1..n
      BY <1>0, <1>1
  <2>3. l.expire[t] \in Int
      BY DEF ListType
  <2> QED BY <1>0, <2>1, <2>2, <2>3
<1> HIDE DEF S
<1>7. ASSUME NEW j \in 1..n, j < k + p - 1 PROVE l.expire[s[j]] <= l.expire[t]
  <2>1. CASE j <= k
    <3>1. l.expire[s[j]] <= l.expire[s[k]]
        BY <1>0, <2>1 DEF InOrder
    <3> QED BY <1>0, <3>1 DEF ListType
  <2>2. CASE j > k
    <3>1. j - k + 1 \in 2..L /\ j - k + 1 < p /\ walk[j - k + 1] = s[j]
        BY <1>0, <1>1, <1>5, <1>7, <2>2
    <3> QED BY <1>6, <3>1
  <2> QED BY <1>0, <2>1, <2>2
<1>8. ASSUME NEW j \in 1..n, j >= k + p - 1 PROVE l.expire[t] <= l.expire[s[j]]
  <2>1. p <= L /\ walk[p] = s[k + p - 1] /\ k + p - 1 \in 1..n
      BY <1>0, <1>1, <1>5, <1>8
  <2>2. l.expire[s[k + p - 1]] <= l.expire[s[j]]
      BY <1>0, <1>8, <2>1 DEF InOrder
  <2> QED BY <1>0, <1>5, <2>1, <2>2 DEF ListType
<1>9. p \in 2..(n - k + 2) /\ Len(walk) = n - k + 1
    BY <1>0, <1>2, <1>5
<1> HIDE DEF L
<1> QED BY <1>4, <1>7, <1>8, <1>9

\* A list that hangs together, in order of expiry, with these nodes.
Holds(l, s, n, nodes) ==
    ListType(l) /\ IsList(l, s, n) /\ InOrder(l, s, n) /\ Members(s, n) = nodes

\* A walk from a node of the list.
LEMMA WalkFrom ==
    ASSUME NEW l, NEW s, NEW n, IsList(l, s, n), NEW k \in 1..n
    PROVE  Walk(l, s[k]) = [j \in 1..(n - k + 1) |-> s[k + j - 1]]
BY NodesAre

\* A node is linked in behind another: in front of a third, or as the last.
LinkedIn(l, before, t, after) ==
    IF after # None THEN Link(Link(l, before, t), t, after)
    ELSE [Link(l, before, t) EXCEPT !.next[t] = None, !.tail = t]

\* It is in between them afterwards.
LEMMA LinkedInFields ==
    ASSUME NEW l, ListType(l), NEW t \in Timers, NEW before \in Timers, before # t,
           NEW after \in Timers \cup {None}, after # t
    PROVE  LET m == LinkedIn(l, before, t, after) IN
           ListType(m) /\ m.expire = l.expire /\ Insertion(l, m, before, t, after)
<1> DEFINE a == Link(l, before, t)
           m == LinkedIn(l, before, t, after)
<1>0. None \notin Timers /\ before # None
    BY TimersAssumption
<1>1. Linking(l, a, before, t)
    BY LinkFields
<1>2. CASE after # None
  <2>1. after \in Timers /\ after # t
      BY <1>2
  <2>2. m = Link(a, t, after)
      BY <1>2, <2>1 DEF LinkedIn
  <2> HIDE DEF a, m
  <2>3. ListType(a)
      BY <1>1 DEF Linking
  <2>4. Linking(a, m, t, after)
      BY <2>1, <2>2, <2>3, LinkFields
  <2>5. /\ \A x \in Timers : m.next[x] = IF x = t THEN after ELSE IF x = before THEN t ELSE l.next[x]
        /\ \A x \in Timers : m.prev[x] = IF x = t THEN before ELSE IF x = after THEN t ELSE l.prev[x]
      BY <1>1, <2>1, <2>4 DEF Linking
  <2>6. m.expire = l.expire /\ m.head = l.head /\ m.tail = l.tail /\ ListType(m)
      BY <1>1, <2>4 DEF Linking
  <2> QED BY <1>0, <1>2, <2>5, <2>6 DEF m, Insertion
<1>3. CASE after = None
  <2>1. m = [a EXCEPT !.next[t] = None, !.tail = t]
      BY <1>3 DEF LinkedIn
  <2> HIDE DEF a, m
  <2>2. /\ ListType(m) /\ m.expire = a.expire /\ m.head = a.head /\ m.tail = t
        /\ \A x \in Timers : m.next[x] = IF x = t THEN None ELSE a.next[x]
        /\ m.prev = a.prev
      BY <1>1, <2>1 DEF ListType, Linking
  <2>3. /\ \A x \in Timers : m.next[x] = IF x = t THEN after ELSE IF x = before THEN t ELSE l.next[x]
        /\ \A x \in Timers : m.prev[x] = IF x = t THEN before ELSE IF x = after THEN t ELSE l.prev[x]
      BY <1>0, <1>1, <1>3, <2>2 DEF Linking
  <2>4. m.expire = l.expire /\ m.head = l.head
      BY <1>1, <2>2 DEF Linking
  <2> QED BY <1>0, <1>3, <2>2, <2>3, <2>4 DEF m, Insertion
<1> QED BY <1>2, <1>3

\* It is still a list in order, if the node expires after those before it and
\* before those behind it.
LEMMA LinkedInHolds ==
    ASSUME NEW l, NEW s, NEW n \in Nat, NEW nodes, Holds(l, s, n, nodes), NEW i \in 2..(n + 1),
           NEW t \in Timers, t \notin nodes,
           \A j \in 1..n : j < i => l.expire[s[j]] <= l.expire[t],
           \A j \in 1..n : j >= i => l.expire[t] <= l.expire[s[j]]
    PROVE  LET m == LinkedIn(l, Before(s, i), t, At(s, n, i)) IN
           /\ m.expire = l.expire /\ Apart(l, m, nodes \cup {t})
           /\ Holds(m, Inserted(s, n, i, t), n + 1, nodes \cup {t})
<1> DEFINE before == Before(s, i)
           after == At(s, n, i)
           m == LinkedIn(l, before, t, after)
<1>0. /\ t \notin Members(s, n) /\ \A j \in 1..n : s[j] \in Timers /\ s[j] # t
      /\ ListType(l) /\ IsList(l, s, n) /\ InOrder(l, s, n) /\ None \notin Timers
    BY TimersAssumption DEF Holds, IsList, Distinct, Members
<1>1. before \in Timers /\ before # t /\ before \in nodes
  <2>1. i - 1 \in 1..n
      OBVIOUS
  <2> QED BY <1>0, <2>1 DEF Before, Holds, Members
<1>2. after \in Timers \cup {None} /\ after # t /\ after \in nodes \cup {None}
  <2>1. i <= n => i \in 1..n
      OBVIOUS
  <2> QED BY <1>0, <2>1 DEF At, Holds, Members
<1>3. i \in 1..(n + 1)
    OBVIOUS
<1>4. ListType(m) /\ m.expire = l.expire /\ Insertion(l, m, before, t, after)
    BY <1>0, <1>1, <1>2, LinkedInFields
<1> HIDE DEF m
<1>5. /\ IsList(m, Inserted(s, n, i, t), n + 1)
      /\ Members(Inserted(s, n, i, t), n + 1) = Members(s, n) \cup {t}
    BY <1>0, <1>3, <1>4, InsertedIsList
<1>6. InOrder(m, Inserted(s, n, i, t), n + 1)
    BY <1>0, <1>3, <1>4, InsertedInOrder
<1>7. Holds(m, Inserted(s, n, i, t), n + 1, nodes \cup {t})
    BY <1>4, <1>5, <1>6 DEF Holds
<1>8. Apart(l, m, nodes \cup {t})
    BY <1>0, <1>1, <1>2, <1>4 DEF Insertion, Apart
<1> QED BY <1>4, <1>7, <1>8 DEF m

\* The private AddTimer puts a node behind one that does not expire later.
LEMMA AddBehindHolds ==
    ASSUME NEW l, NEW s, NEW n, NEW nodes, Holds(l, s, n, nodes), NEW k \in 1..n,
           NEW t \in Timers, t \notin nodes, l.expire[s[k]] <= l.expire[t]
    PROVE  /\ AddBehind(l, t, s[k]).expire = l.expire
           /\ Apart(l, AddBehind(l, t, s[k]), nodes \cup {t})
           /\ \E r : Holds(AddBehind(l, t, s[k]), r, n + 1, nodes \cup {t})
<1> DEFINE walk == Walk(l, s[k])
           p == Position(l, t, walk)
           i == k + p - 1
<1>0. n \in Nat /\ k \in Nat /\ ListType(l) /\ IsList(l, s, n) /\ InOrder(l, s, n)
    BY DEF Holds, IsList, Distinct
<1>1. /\ p \in 2..(n - k + 2) /\ Len(walk) = n - k + 1
      /\ \A j \in 1..n : j < i => l.expire[s[j]] <= l.expire[t]
      /\ \A j \in 1..n : j >= i => l.expire[t] <= l.expire[s[j]]
    BY <1>0, PositionInOrder
<1>a. IsList(l, s, n)
    BY <1>0
<1>2. walk = [j \in 1..(n - k + 1) |-> s[k + j - 1]]
    BY <1>a, WalkFrom
<1>3. AddBehind(l, t, s[k]) = IF p <= Len(walk) THEN Link(Link(l, walk[p - 1], t), t, walk[p])
                              ELSE [Link(l, walk[p - 1], t) EXCEPT !.next[t] = None, !.tail = t]
    BY DEF AddBehind
<1> HIDE DEF p
<1>4. /\ i \in 2..(n + 1) /\ walk[p - 1] = s[i - 1]
      /\ p <= Len(walk) <=> i <= n
      /\ i <= n => walk[p] = s[i]
    BY <1>0, <1>1, <1>2
<1> HIDE DEF walk, i
<1>5. AddBehind(l, t, s[k]) = LinkedIn(l, Before(s, i), t, At(s, n, i))
  <2>1. Before(s, i) = walk[p - 1]
      BY <1>4 DEF Before
  <2>2. CASE i <= n
    <3>1. At(s, n, i) = walk[p] /\ walk[p] # None
      <4>1. i \in 1..n /\ i # n + 1 /\ s[i] = walk[p]
          BY <1>0, <1>4, <2>2
      <4> QED BY <1>0, <4>1, TimersAssumption DEF At, IsList, Distinct
    <3>2. p <= Len(walk)
        BY <1>4, <2>2
    <3> HIDE DEF i
    <3> QED BY <1>3, <2>1, <3>1, <3>2, Zenon DEF LinkedIn
  <2>3. CASE i > n
    <3>1. At(s, n, i) = None /\ ~(p <= Len(walk))
        BY <1>0, <1>4, <2>3 DEF At
    <3> QED BY <1>3, <2>1, <3>1, Zenon DEF LinkedIn
  <2> QED BY <1>0, <1>4, <2>2, <2>3
<1>6. i \in 2..(n + 1) /\ n \in Nat
    BY <1>0, <1>4
<1>7. \A j \in 1..n : j < i => l.expire[s[j]] <= l.expire[t]
    BY <1>1
<1>8. \A j \in 1..n : j >= i => l.expire[t] <= l.expire[s[j]]
    BY <1>1
<1> DEFINE m == LinkedIn(l, Before(s, i), t, At(s, n, i))
<1>9. m.expire = l.expire /\ Apart(l, m, nodes \cup {t})
    BY <1>6, <1>7, <1>8, LinkedInHolds
<1>10. Holds(m, Inserted(s, n, i, t), n + 1, nodes \cup {t})
    BY <1>6, <1>7, <1>8, LinkedInHolds
<1> HIDE DEF m
<1> QED BY <1>5, <1>9, <1>10 DEF m

\* AddTimer adds a node to the list, and nothing else changes.
LEMMA AddTimerHolds ==
    ASSUME NEW l, NEW s, NEW n, NEW nodes, Holds(l, s, n, nodes), NEW t \in Timers, t \notin nodes,
           l.next[t] = None, l.prev[t] = None
    PROVE  /\ AddTimer(l, t).expire = l.expire /\ Apart(l, AddTimer(l, t), nodes \cup {t})
           /\ \E r : Holds(AddTimer(l, t), r, n + 1, nodes \cup {t})
<1> DEFINE m == AddTimer(l, t)
<1>0. /\ n \in Nat /\ t \in Timers /\ t \notin Members(s, n) /\ None \notin Timers
      /\ \A j \in 1..n : s[j] \in Timers /\ s[j] # t
      /\ ListType(l) /\ IsList(l, s, n) /\ InOrder(l, s, n)
    BY TimersAssumption DEF Holds, IsList, Distinct, Members
<1>a. ListType(l) /\ IsList(l, s, n)
    BY <1>0
<1>1. l.head = IF n = 0 THEN None ELSE s[1]
    BY <1>0 DEF IsList
<1>2. CASE n > 0 /\ ~(l.expire[t] < l.expire[s[1]])
  <2>1. 1 \in 1..n /\ l.expire[s[1]] <= l.expire[t]
      BY <1>0, <1>2 DEF ListType
  <2>2. m = AddBehind(l, t, s[1])
      BY <1>0, <1>1, <1>2, <2>1 DEF AddTimer
  <2>3. /\ AddBehind(l, t, s[1]).expire = l.expire
        /\ Apart(l, AddBehind(l, t, s[1]), nodes \cup {t})
        /\ \E r : Holds(AddBehind(l, t, s[1]), r, n + 1, nodes \cup {t})
      BY <2>1, AddBehindHolds
  <2> HIDE DEF m
  <2> QED BY <2>2, <2>3 DEF m
<1>3. CASE n = 0 \/ l.expire[t] < l.expire[s[1]]
  <2> DEFINE after == At(s, n, 1)
  <2>0. /\ n > 0 => after = s[1] /\ after \in Timers /\ after # t /\ after # None
        /\ n = 0 => after = None
      BY <1>0 DEF At
  <2>a. l.head = after
      BY <1>0, <1>1, <2>0
  <2> HIDE DEF m, after
  <2>1. ListType(m) /\ m.expire = l.expire /\ Insertion(l, m, None, t, after)
    <3>1. CASE n = 0
      <4>1. m = [l EXCEPT !.head = t, !.tail = t]
          BY <2>0, <2>a, <3>1 DEF AddTimer, m
      <4>2. /\ ListType(m) /\ m.expire = l.expire /\ m.head = t /\ m.tail = t
            /\ m.next = l.next /\ m.prev = l.prev
          BY <1>a, <4>1 DEF ListType
      <4> QED BY <1>0, <2>0, <3>1, <4>2 DEF Insertion
    <3>2. CASE n > 0
      <4> DEFINE a == Link(l, t, after)
      <4>a. l.expire[t] < l.expire[after]
          BY <1>0, <1>3, <2>0, <3>2
      <4>1. Linking(l, a, t, after)
          BY <1>a, <2>0, <3>2, LinkFields
      <4>2. m = [a EXCEPT !.head = t]
          BY <2>0, <2>a, <3>2, <4>a DEF AddTimer, m
      <4> HIDE DEF a
      <4>3. /\ ListType(m) /\ m.expire = a.expire /\ m.head = t /\ m.tail = a.tail
            /\ m.next = a.next /\ m.prev = a.prev
          BY <4>1, <4>2 DEF ListType, Linking
      <4>4. /\ \A x \in Timers : m.next[x] = IF x = t THEN after ELSE l.next[x]
            /\ \A x \in Timers : m.prev[x] = IF x = after THEN t ELSE l.prev[x]
            /\ m.expire = l.expire /\ m.tail = l.tail
          BY <4>1, <4>3 DEF Linking
      <4> QED BY <1>0, <2>0, <3>2, <4>3, <4>4 DEF Insertion
    <3> QED BY <1>0, <3>1, <3>2
  <2>2. Insertion(l, m, Before(s, 1), t, At(s, n, 1))
      BY <2>1 DEF Before, after
  <2>3. /\ IsList(m, Inserted(s, n, 1, t), n + 1)
        /\ Members(Inserted(s, n, 1, t), n + 1) = Members(s, n) \cup {t}
    <3>1. 1 \in 1..(n + 1)
        BY <1>0
    <3> QED BY <1>0, <2>2, <3>1, InsertedIsList
  <2>4. InOrder(m, Inserted(s, n, 1, t), n + 1)
    <3>1. \A j \in 1..n : l.expire[t] <= l.expire[s[j]]
      <4>1. \A j \in 1..n : l.expire[s[1]] <= l.expire[s[j]]
          BY <1>0 DEF InOrder, ListType
      <4> QED BY <1>0, <1>3, <4>1 DEF ListType
    <3>2. 1 \in 1..(n + 1) /\ \A j \in 1..n : ~(j < 1)
        BY <1>0
    <3> QED BY <1>0, <2>1, <3>1, <3>2, InsertedInOrder
  <2>5. Apart(l, m, nodes \cup {t})
    <3>1. n > 0 => after \in nodes
        BY <1>0, <2>0 DEF Holds, Members
    <3> QED BY <1>0, <2>0, <2>1, <3>1 DEF Insertion, Apart
  <2> QED BY <2>1, <2>3, <2>4, <2>5 DEF Holds, m
<1> QED BY <1>0, <1>2, <1>3

\* A node of a list: its place, its neighbours and its ends.
LEMMA NodeInList ==
    ASSUME NEW l, NEW s, NEW n, NEW nodes, Holds(l, s, n, nodes), NEW t, t \in nodes
    PROVE  \E k \in 1..n :
              /\ t = s[k] /\ t \in Timers /\ n \in Nat
              /\ l.prev[t] = Before(s, k) /\ l.next[t] = Behind(s, n, k)
              /\ Before(s, k) = None <=> k = 1
              /\ Behind(s, n, k) = None <=> k = n
              /\ t = l.head <=> k = 1
              /\ t = l.tail <=> k = n
              /\ Before(s, k) \in (Timers \cup {None}) \ {t}
              /\ Behind(s, n, k) \in (Timers \cup {None}) \ {t}
              /\ {Before(s, k), Behind(s, n, k)} \subseteq nodes \cup {None}
<1>0. /\ n \in Nat /\ None \notin Timers /\ IsList(l, s, n)
      /\ \A i \in 1..n : s[i] \in Timers
      /\ \A i, j \in 1..n : s[i] = s[j] => i = j
    BY TimersAssumption DEF Holds, IsList, Distinct
<1>1. PICK k \in 1..n : t = s[k]
    BY DEF Holds, Members
<1>2. l.prev[t] = Before(s, k) /\ l.next[t] = Behind(s, n, k)
    BY <1>0, <1>1 DEF IsList, Before, Behind
<1>3. l.head = s[1] /\ l.tail = s[n] /\ 1 \in 1..n /\ n \in 1..n
    BY <1>0 DEF IsList
<1>4. (t = l.head <=> k = 1) /\ (t = l.tail <=> k = n)
    BY <1>0, <1>1, <1>3
<1>5. k = 1 \/ (k - 1 \in 1..n /\ k - 1 # k)
    BY <1>0
<1>6. (Before(s, k) = None <=> k = 1) /\ Before(s, k) \in (Timers \cup {None}) \ {t}
    BY <1>0, <1>1, <1>5 DEF Before
<1>7. k = n \/ (k + 1 \in 1..n /\ k + 1 # k)
    BY <1>0
<1>8. (Behind(s, n, k) = None <=> k = n) /\ Behind(s, n, k) \in (Timers \cup {None}) \ {t}
    BY <1>0, <1>1, <1>7 DEF Behind
<1>9. {Before(s, k), Behind(s, n, k)} \subseteq nodes \cup {None}
    BY <1>5, <1>7 DEF Before, Behind, Holds, Members
<1> QED BY <1>0, <1>1, <1>2, <1>4, <1>6, <1>8, <1>9

\* Unlink takes a node out from between its neighbours.
LEMMA UnlinkFields ==
    ASSUME NEW l, ListType(l), NEW t \in Timers,
           NEW before \in (Timers \cup {None}) \ {t}, l.prev[t] = before,
           NEW after \in (Timers \cup {None}) \ {t}, l.next[t] = after,
           t = l.head <=> before = None, t = l.tail <=> after = None
    PROVE  /\ ListType(Unlink(l, t)) /\ Unlink(l, t).expire = l.expire
           /\ Removal(l, Unlink(l, t), before, t, after)
<1> DEFINE m == Unlink(l, t)
<1>0. None \notin Timers
    BY TimersAssumption
<1>1. CASE before = None /\ after = None
  <2>1. m = [l EXCEPT !.head = None, !.tail = None]
      BY <1>1 DEF Unlink
  <2> QED BY <1>0, <1>1, <2>1 DEF ListType, Removal
<1>2. CASE before = None /\ after # None
  <2>1. m = [l EXCEPT !.head = after, !.prev[after] = None]
      BY <1>2 DEF Unlink
  <2> HIDE DEF m
  <2>2. /\ ListType(m) /\ m.expire = l.expire /\ m.head = after /\ m.tail = l.tail
        /\ m.next = l.next
        /\ \A x \in Timers : m.prev[x] = IF x = after THEN None ELSE l.prev[x]
      BY <1>2, <2>1 DEF ListType
  <2> QED BY <1>0, <1>2, <2>2 DEF Removal, m
<1>3. CASE before # None /\ after = None
  <2>1. m = [l EXCEPT !.tail = before, !.next[before] = None]
      BY <1>3 DEF Unlink
  <2> HIDE DEF m
  <2>2. /\ ListType(m) /\ m.expire = l.expire /\ m.head = l.head /\ m.tail = before
        /\ m.prev = l.prev
        /\ \A x \in Timers : m.next[x] = IF x = before THEN None ELSE l.next[x]
      BY <1>3, <2>1 DEF ListType
  <2> QED BY <1>0, <1>3, <2>2 DEF Removal, m
<1>4. CASE before # None /\ after # None
  <2>1. m = Link(l, before, after)
      BY <1>4 DEF Unlink
  <2>2. before \in Timers /\ after \in Timers
      BY <1>4
  <2>3. Linking(l, m, before, after)
      BY <2>1, <2>2, LinkFields
  <2> QED BY <1>0, <1>4, <2>2, <2>3 DEF Linking, Removal
<1> QED BY <1>1, <1>2, <1>3, <1>4

\* m is l after nodes have been deleted.
Deletion(l, m, nodes) ==
    /\ ListType(m) /\ m.head = l.head /\ m.tail = l.tail
    /\ \A x \in Timers \ nodes : /\ m.next[x] = l.next[x] /\ m.prev[x] = l.prev[x]
                                 /\ m.expire[x] = l.expire[x]
    /\ \A x \in Timers \cap nodes : m.next[x] = None /\ m.prev[x] = None /\ m.expire[x] = 0

\* What Delete changes.
LEMMA DeleteFields ==
    ASSUME NEW l, ListType(l), NEW nodes
    PROVE  Deletion(l, Delete(l, nodes), nodes)
<1> DEFINE P == [x \in Timers |-> IF x \in nodes THEN None ELSE l.prev[x]]
           N == [x \in Timers |-> IF x \in nodes THEN None ELSE l.next[x]]
           E == [x \in Timers |-> IF x \in nodes THEN 0 ELSE l.expire[x]]
           m == Delete(l, nodes)
<1>1. m = [l EXCEPT !.prev = P, !.next = N, !.expire = E]
    BY DEF ListType, Delete
<1>2. P \in [Timers -> Timers \cup {None}] /\ N \in [Timers -> Timers \cup {None}]
    BY DEF ListType
<1>3. E \in [Timers -> Int]
    BY DEF ListType
<1>4. \A x \in Timers : /\ P[x] = IF x \in nodes THEN None ELSE l.prev[x]
                        /\ N[x] = IF x \in nodes THEN None ELSE l.next[x]
                        /\ E[x] = IF x \in nodes THEN 0 ELSE l.expire[x]
    OBVIOUS
<1> HIDE DEF P, N, E, m
<1>5. /\ ListType(m) /\ m.head = l.head /\ m.tail = l.tail
      /\ m.prev = P /\ m.next = N /\ m.expire = E
    BY <1>1, <1>2, <1>3 DEF ListType
<1> QED BY <1>4, <1>5 DEF Deletion, m

\* DeleteTimer takes the node out of the list, and nothing else changes.
LEMMA DeleteTimerHolds ==
    ASSUME NEW l, NEW s, NEW n, NEW nodes, Holds(l, s, n, nodes), NEW t, t \in nodes
    PROVE  /\ SameExpiry(l, DeleteTimer(l, t), {t})
           /\ Apart(l, DeleteTimer(l, t), nodes) /\ Blank(DeleteTimer(l, t), {t})
           /\ \E r : Holds(DeleteTimer(l, t), r, n - 1, nodes \ {t})
<1> DEFINE u == Unlink(l, t)
           m == DeleteTimer(l, t)
<1>0. ListType(l) /\ IsList(l, s, n) /\ InOrder(l, s, n) /\ Members(s, n) = nodes
    BY DEF Holds
<1>1. PICK k \in 1..n :
          /\ t = s[k] /\ t \in Timers /\ n \in Nat
          /\ l.prev[t] = Before(s, k) /\ l.next[t] = Behind(s, n, k)
          /\ Before(s, k) = None <=> k = 1
          /\ Behind(s, n, k) = None <=> k = n
          /\ t = l.head <=> k = 1
          /\ t = l.tail <=> k = n
          /\ Before(s, k) \in (Timers \cup {None}) \ {t}
          /\ Behind(s, n, k) \in (Timers \cup {None}) \ {t}
          /\ {Before(s, k), Behind(s, n, k)} \subseteq nodes \cup {None}
    BY NodeInList
<1>2. ListType(u) /\ u.expire = l.expire /\ Removal(l, u, Before(s, k), t, Behind(s, n, k))
    BY <1>0, <1>1, UnlinkFields
<1>3. m = Delete(u, {t})
    BY DEF DeleteTimer
<1> HIDE DEF u, m
<1>a. Blank(m, {t})
    BY <1>1, <1>2, <1>3, DeleteFields DEF Deletion, Blank
<1>4. /\ ListType(m) /\ m.head = u.head /\ m.tail = u.tail
      /\ \A x \in Timers \ {t} : /\ m.next[x] = u.next[x] /\ m.prev[x] = u.prev[x]
                                 /\ m.expire[x] = u.expire[x]
    BY <1>2, <1>3, DeleteFields DEF Deletion
<1>5. Removal(l, m, Before(s, k), t, Behind(s, n, k))
    BY <1>2, <1>4 DEF Removal
<1>6. /\ IsList(m, Removed(s, n, k), n - 1)
      /\ Members(Removed(s, n, k), n - 1) = nodes \ {t}
    BY <1>0, <1>1, <1>5, RemovedIsList
<1>7. InOrder(m, Removed(s, n, k), n - 1)
  <2>1. InOrderBut(l, s, n, k)
      BY <1>0 DEF InOrder, InOrderBut
  <2>2. \A i \in 1..n : i # k => m.expire[s[i]] = l.expire[s[i]]
      BY <1>0, <1>1, <1>2, <1>4 DEF IsList, Distinct
  <2> QED BY <1>1, <2>1, <2>2, RemovedInOrder
<1>8. Holds(m, Removed(s, n, k), n - 1, nodes \ {t})
    BY <1>4, <1>6, <1>7 DEF Holds
<1>9. Apart(l, m, nodes)
    BY <1>1, <1>5, TimersAssumption DEF Removal, Apart
<1>10. SameExpiry(l, m, {t})
    BY <1>2, <1>4 DEF SameExpiry
<1> QED BY <1>8, <1>9, <1>10, <1>a DEF m

\* t has been given another expiry.
Given(l, e, t, d) == e = [l EXCEPT !.expire[t] = d]

\* The list while a timer has been given a later expiry and is not moved yet.
LEMMA LaterExpiry ==
    ASSUME NEW l, NEW s, NEW n, NEW nodes, Holds(l, s, n, nodes), NEW k \in 1..n,
           NEW d \in Int, l.expire[s[k]] <= d, NEW e, Given(l, e, s[k], d)
    PROVE  /\ ListType(e) /\ IsList(e, s, n) /\ InOrderBut(e, s, n, k) /\ e.expire[s[k]] = d
           /\ \A i \in 1..n : i < k => e.expire[s[i]] <= d
<1>0. /\ ListType(l) /\ IsList(l, s, n) /\ InOrder(l, s, n) /\ n \in Nat
      /\ \A i \in 1..n : s[i] \in Timers
      /\ \A i, j \in 1..n : s[i] = s[j] => i = j
    BY DEF Holds, IsList, Distinct
<1>1. /\ ListType(e) /\ e.head = l.head /\ e.tail = l.tail /\ e.next = l.next /\ e.prev = l.prev
      /\ \A x \in Timers : e.expire[x] = IF x = s[k] THEN d ELSE l.expire[x]
    BY <1>0 DEF ListType, Given
<1>2. IsList(e, s, n)
    BY <1>0, <1>1 DEF IsList
<1>3. InOrderBut(e, s, n, k)
    BY <1>0, <1>1 DEF InOrder, InOrderBut
<1>4. \A i \in 1..n : i < k => e.expire[s[i]] <= d
  <2>1. \A i \in 1..n : i < k => s[i] # s[k] /\ l.expire[s[i]] <= l.expire[s[k]]
      BY <1>0 DEF InOrder
  <2>2. \A i \in 1..n : l.expire[s[i]] \in Int
      BY <1>0 DEF ListType
  <2> QED BY <1>0, <1>1, <2>1, <2>2
<1> QED BY <1>0, <1>1, <1>2, <1>3, <1>4

\* AdjustTimer leaves the list in order when a timer is given a later expiry.
LEMMA AdjustTimerHolds ==
    ASSUME NEW l, NEW s, NEW n, NEW nodes, Holds(l, s, n, nodes), NEW t, t \in nodes,
           NEW d \in Int, l.expire[t] <= d, NEW e, Given(l, e, t, d)
    PROVE  /\ AdjustTimer(e, t).expire = e.expire /\ Apart(l, AdjustTimer(e, t), nodes)
           /\ \E r : Holds(AdjustTimer(e, t), r, n, nodes)
<1>0. ListType(l) /\ IsList(l, s, n) /\ InOrder(l, s, n) /\ Members(s, n) = nodes
    BY DEF Holds
<1>1. PICK k \in 1..n :
          /\ t = s[k] /\ t \in Timers /\ n \in Nat
          /\ l.prev[t] = Before(s, k) /\ l.next[t] = Behind(s, n, k)
          /\ Before(s, k) = None <=> k = 1
          /\ Behind(s, n, k) = None <=> k = n
          /\ t = l.head <=> k = 1
          /\ t = l.tail <=> k = n
          /\ Before(s, k) \in (Timers \cup {None}) \ {t}
          /\ Behind(s, n, k) \in (Timers \cup {None}) \ {t}
          /\ {Before(s, k), Behind(s, n, k)} \subseteq nodes \cup {None}
    BY NodeInList
<1>2. /\ ListType(e) /\ IsList(e, s, n) /\ InOrderBut(e, s, n, k) /\ e.expire[t] = d
      /\ \A i \in 1..n : i < k => e.expire[s[i]] <= d
  <2>1. Given(l, e, s[k], d) /\ l.expire[s[k]] <= d
      BY <1>1
  <2>2. /\ ListType(e) /\ IsList(e, s, n) /\ InOrderBut(e, s, n, k) /\ e.expire[s[k]] = d
        /\ \A i \in 1..n : i < k => e.expire[s[i]] <= d
      BY <2>1, LaterExpiry
  <2> QED BY <1>1, <2>2
<1>3. e.prev = l.prev /\ e.next = l.next /\ e.head = l.head
    BY <1>0 DEF ListType, Given
<1> DEFINE before == Before(s, k)
           next == Behind(s, n, k)
<1>4. CASE next = None \/ d < e.expire[next]
  <2>1. AdjustTimer(e, t) = e
      BY <1>1, <1>2, <1>3, <1>4 DEF AdjustTimer
  <2>2. ASSUME NEW i \in 1..n, NEW j \in 1..n, i < j
        PROVE  e.expire[s[i]] <= e.expire[s[j]]
    <3>0. \A x \in Timers : e.expire[x] \in Int
        BY <1>2 DEF ListType
    <3>1. CASE k \notin {i, j}
        BY <1>2, <2>2, <3>1 DEF InOrderBut
    <3>2. CASE j = k
        BY <1>1, <1>2, <2>2, <3>2
    <3>3. CASE i = k
      <4>1. k # n /\ next = s[k + 1] /\ d < e.expire[s[k + 1]] /\ k + 1 \in 1..n
          BY <1>1, <1>4, <2>2, <3>3 DEF Behind
      <4>2. k + 1 = j \/ e.expire[s[k + 1]] <= e.expire[s[j]]
          BY <1>1, <1>2, <2>2, <3>3, <4>1 DEF InOrderBut
      <4>3. s[k + 1] \in Timers /\ s[j] \in Timers
          BY <1>2, <4>1 DEF IsList, Distinct
      <4> QED BY <1>1, <1>2, <3>0, <3>3, <4>1, <4>2, <4>3
    <3> QED BY <3>1, <3>2, <3>3
  <2>3. Holds(e, s, n, nodes)
      BY <1>0, <1>2, <2>2 DEF Holds, InOrder
  <2>4. Apart(l, e, nodes)
      BY <1>3 DEF Apart
  <2> QED BY <2>1, <2>3, <2>4
<1>5. CASE next # None /\ ~(d < e.expire[next])
  <2> DEFINE u == IF before = None
                  THEN [e EXCEPT !.head = next, !.prev[next] = None, !.next[t] = None]
                  ELSE Link(e, before, next)
             r == Removed(s, n, k)
  <2>0. None \notin Timers /\ next \in Timers /\ next # t
      BY <1>1, <1>5, TimersAssumption
  <2>1. AdjustTimer(e, t) = AddBehind(u, t, next)
    <3>1. e.next[t] = next /\ e.prev[t] = before /\ (t = e.head <=> before = None)
        BY <1>1, <1>3
    <3>2. ~(next = None \/ e.expire[t] < e.expire[next])
        BY <1>2, <1>5
    <3> HIDE DEF next, before, u
    <3>3. AdjustTimer(e, t) =
              IF t = e.head
              THEN AddBehind([e EXCEPT !.head = next, !.prev[next] = None, !.next[t] = None], t, next)
              ELSE AddBehind(Link(e, before, next), t, next)
      <4>1. ~(e.next[t] = None \/ e.expire[t] < e.expire[e.next[t]])
          BY <3>1, <3>2
      <4>2. AdjustTimer(e, t) =
                IF t = e.head
                THEN AddBehind([e EXCEPT !.head = e.next[t], !.prev[e.next[t]] = None,
                                         !.next[t] = None], t, e.next[t])
                ELSE AddBehind(Link(e, e.prev[t], e.next[t]), t, e.next[t])
          BY <4>1 DEF AdjustTimer
      <4> QED BY <3>1, <4>2
    <3> QED BY <3>1, <3>3 DEF u
  <2>2. ListType(u) /\ u.expire = e.expire /\ Removal(e, u, before, t, next)
    <3>1. CASE before = None
      <4>1. u = [e EXCEPT !.head = next, !.prev[next] = None, !.next[t] = None]
          BY <3>1
      <4> HIDE DEF u, next, before
      <4> QED BY <1>1, <1>2, <2>0, <3>1, <4>1 DEF ListType, Removal
    <3>2. CASE before # None
      <4>1. before \in Timers /\ u = Link(e, before, next)
          BY <1>1, <3>2
      <4> HIDE DEF u, next, before
      <4>2. Linking(e, u, before, next)
          BY <1>2, <2>0, <4>1, LinkFields
      <4> QED BY <1>5, <2>0, <3>2, <4>1, <4>2 DEF Linking, Removal
    <3> QED BY <3>1, <3>2
  <2> HIDE DEF u
  <2>3. IsList(u, r, n - 1) /\ Members(r, n - 1) = nodes \ {t}
    <3>1. IsList(e, s, n) /\ t = s[k] /\ Removal(e, u, Before(s, k), t, Behind(s, n, k))
        BY <1>1, <1>2, <2>2
    <3>2. IsList(u, r, n - 1) /\ Members(r, n - 1) = Members(s, n) \ {t}
        BY <3>1, RemovedIsList
    <3> QED BY <1>0, <3>2
  <2>4. InOrder(u, r, n - 1)
      BY <1>1, <1>2, <2>2, RemovedInOrder
  <2>5. Holds(u, r, n - 1, nodes \ {t})
      BY <2>2, <2>3, <2>4 DEF Holds
  <2>6. k \in 1..(n - 1) /\ next = r[k]
    <3>1. k # n
        BY <1>1, <1>5
    <3>2. k \in 1..(n - 1)
        BY <1>1, <3>1
    <3> QED BY <3>1, <3>2 DEF Removed, Behind
  <2>7. u.expire[r[k]] <= u.expire[t]
      BY <1>1, <1>2, <1>5, <2>0, <2>2, <2>6 DEF ListType
  <2> HIDE DEF r, next
  <2>8. /\ AddBehind(u, t, r[k]).expire = u.expire
        /\ Apart(u, AddBehind(u, t, r[k]), (nodes \ {t}) \cup {t})
        /\ \E q : Holds(AddBehind(u, t, r[k]), q, (n - 1) + 1, (nodes \ {t}) \cup {t})
    <3>1. t \notin nodes \ {t} /\ t \in Timers
        BY <1>1
    <3> QED BY <2>5, <2>6, <2>7, <3>1, AddBehindHolds
  <2>9. (n - 1) + 1 = n /\ (nodes \ {t}) \cup {t} = nodes
      BY <1>1
  <2>10. Apart(l, AddBehind(u, t, r[k]), nodes)
    <3>1. before \in nodes \cup {None} /\ next \in nodes
        BY <1>1, <2>0 DEF next
    <3>2. \A x \in Timers \ nodes : u.next[x] = e.next[x] /\ u.prev[x] = e.prev[x]
        BY <1>1, <2>0, <2>2, <3>1 DEF Removal
    <3> QED BY <1>3, <2>8, <2>9, <3>2 DEF Apart
  <2> QED BY <2>1, <2>2, <2>6, <2>8, <2>9, <2>10
<1> QED BY <1>4, <1>5

\* The timers Tick finds: the nodes before the first that has not expired, and
\* in order of expiry that is all that have.
LEMMA ExpiredAre ==
    ASSUME NEW l, NEW s, NEW n, NEW nodes, Holds(l, s, n, nodes), NEW now \in Int
    PROVE  \E q \in 0..n :
              /\ Expired(l, now) = [i \in 1..q |-> s[i]]
              /\ \A i \in 1..n : l.expire[s[i]] <= now <=> i <= q
<1> DEFINE w == Nodes(l)
           S == {i \in 1..n : now < l.expire[w[i]]} \cup {n + 1}
           k == Min(S)
<1>0. /\ n \in Nat /\ IsList(l, s, n) /\ InOrder(l, s, n)
      /\ \A i \in 1..n : l.expire[s[i]] \in Int
    BY DEF Holds, IsList, Distinct, ListType
<1>1. w = [i \in 1..n |-> s[i]]
    BY <1>0, NodesAre
<1>2. w \in Seq({s[i] : i \in 1..n}) /\ Len(w) = n
    BY <1>0, <1>1
<1>3. Expired(l, now) = SubSeq(w, 1, k - 1)
    BY <1>2 DEF Expired
<1>4. k \in S /\ \A i \in S : k <= i
  <2>1. S \in SUBSET Nat /\ S # {}
      BY <1>0
  <2> HIDE DEF S
  <2> QED BY <2>1, LowestIsOne
<1> HIDE DEF k
<1>5. k \in 1..(n + 1) /\ (k <= n => now < l.expire[s[k]])
    BY <1>0, <1>1, <1>4
<1>6. \A i \in 1..n : l.expire[s[i]] <= now <=> i <= k - 1
  <2>1. ASSUME NEW i \in 1..n, i <= k - 1 PROVE l.expire[s[i]] <= now
    <3>1. i \notin S
        BY <1>0, <1>4, <1>5, <2>1
    <3> QED BY <1>0, <1>1, <3>1
  <2>2. ASSUME NEW i \in 1..n, ~(i <= k - 1) PROVE now < l.expire[s[i]]
    <3>1. k \in 1..n /\ (k = i \/ k < i)
        BY <1>0, <1>5, <2>2
    <3> QED BY <1>0, <1>5, <3>1 DEF InOrder
  <2> QED BY <1>0, <2>1, <2>2
<1> HIDE DEF w
<1>7. SubSeq(w, 1, k - 1) = [i \in 1..(k - 1) |-> s[i]]
  <2>1. 1 \in 1..(Len(w) + 1) /\ k - 1 \in (1 - 1)..Len(w)
      BY <1>0, <1>2, <1>5
  <2>2. /\ SubSeq(w, 1, k - 1) \in Seq({s[i] : i \in 1..n})
        /\ Len(SubSeq(w, 1, k - 1)) = k - 1
        /\ \A i \in 1..(k - 1) : SubSeq(w, 1, k - 1)[i] = w[i]
      BY <1>0, <1>2, <1>5, <2>1, SubSeqProperties
  <2>3. \A i \in 1..(k - 1) : w[i] = s[i]
      BY <1>0, <1>1, <1>5
  <2> QED BY <1>5, <2>2, <2>3
<1> QED BY <1>0, <1>3, <1>5, <1>6, <1>7

\* m is l with the node behind s[q] as its head, and what is before it is gone.
Truncation(l, m, s, n, q) ==
    /\ m.head = Behind(s, n, q) /\ m.tail = l.tail
    /\ \A i \in 1..n : i > q =>
           /\ m.next[s[i]] = l.next[s[i]]
           /\ m.prev[s[i]] = IF i = q + 1 THEN None ELSE l.prev[s[i]]
           /\ m.expire[s[i]] = l.expire[s[i]]

\* Without its first nodes a list is a list, if its new head knows that it is one.
LEMMA TruncatedIsList ==
    ASSUME NEW l, NEW m, NEW s, NEW n, IsList(l, s, n), InOrder(l, s, n), NEW q \in 1..n,
           Truncation(l, m, s, n, q), NEW r, r = [j \in 1..(n - q) |-> s[q + j]]
    PROVE  IsList(m, r, n - q) /\ InOrder(m, r, n - q)
<1>0. /\ n \in Nat /\ q \in Nat /\ n - q \in Nat
      /\ \A i \in 1..n : s[i] \in Timers
      /\ \A i, j \in 1..n : s[i] = s[j] => i = j
    BY DEF IsList, Distinct
<1>1. \A j \in 1..(n - q) : r[j] = s[q + j] /\ q + j \in 1..n /\ q + j > q
    BY <1>0
<1>2. Distinct(r, n - q)
    BY <1>0, <1>1 DEF Distinct
<1>a. /\ m.head = Behind(s, n, q) /\ m.tail = l.tail
      /\ \A i \in 1..n : i > q => m.next[s[i]] = l.next[s[i]]
      /\ \A i \in 1..n : i > q => m.prev[s[i]] = IF i = q + 1 THEN None ELSE l.prev[s[i]]
      /\ \A i \in 1..n : i > q => m.expire[s[i]] = l.expire[s[i]]
    BY DEF Truncation
<1>3. m.head = IF n - q = 0 THEN None ELSE r[1]
    BY <1>0, <1>1, <1>a DEF Behind
<1>4. n - q > 0 => m.tail = r[n - q]
  <2>1. n - q > 0 => n - q \in 1..(n - q) /\ q + (n - q) = n
      BY <1>0
  <2> QED BY <1>0, <1>1, <1>a, <2>1 DEF IsList
<1>5. ASSUME NEW j \in 1..(n - q)
      PROVE  /\ m.next[r[j]] = IF j = n - q THEN None ELSE r[j + 1]
             /\ m.prev[r[j]] = IF j = 1 THEN None ELSE r[j - 1]
  <2>1. m.next[r[j]] = l.next[s[q + j]]
      BY <1>1, <1>a
  <2>2. l.next[s[q + j]] = IF q + j = n THEN None ELSE s[(q + j) + 1]
      BY <1>1 DEF IsList
  <2>3. (q + j = n <=> j = n - q) /\ (j # n - q => j + 1 \in 1..(n - q) /\ (q + j) + 1 = q + (j + 1))
      BY <1>0
  <2>4. m.prev[r[j]] = IF q + j = q + 1 THEN None ELSE l.prev[s[q + j]]
      BY <1>1, <1>a
  <2>5. l.prev[s[q + j]] = IF q + j = 1 THEN None ELSE s[(q + j) - 1]
      BY <1>1 DEF IsList
  <2>6. /\ q + j = q + 1 <=> j = 1
        /\ q + j # 1
        /\ j # 1 => j - 1 \in 1..(n - q) /\ (q + j) - 1 = q + (j - 1)
      BY <1>0
  <2>7. (j # n - q => r[j + 1] = s[(q + j) + 1]) /\ (j # 1 => r[j - 1] = s[(q + j) - 1])
      BY <1>1, <2>3, <2>6
  <2> QED BY <2>1, <2>2, <2>3, <2>4, <2>5, <2>6, <2>7
<1>6. IsList(m, r, n - q)
    BY <1>2, <1>3, <1>4, <1>5 DEF IsList
<1>7. ASSUME NEW i \in 1..(n - q), NEW j \in 1..(n - q), i < j
      PROVE  m.expire[r[i]] <= m.expire[r[j]]
  <2>1. q + i \in 1..n /\ q + j \in 1..n /\ q + i < q + j
      BY <1>0, <1>7
  <2>2. l.expire[s[q + i]] <= l.expire[s[q + j]]
      BY <2>1 DEF InOrder
  <2> QED BY <1>1, <1>a, <2>2
<1> QED BY <1>6, <1>7 DEF InOrder

\* The nodes that have expired.
Overdue(l, nodes, now) == {x \in nodes : l.expire[x] <= now}

\* Tick takes out the timers that have expired, and nothing else changes.
LEMMA TickHolds ==
    ASSUME NEW l, NEW s, NEW n, NEW nodes, Holds(l, s, n, nodes), NEW now \in Int,
           NEW gone, gone = Overdue(l, nodes, now)
    PROVE  /\ ToSet(Expired(l, now)) = gone
           /\ SameExpiry(l, Tick(l, now), gone)
           /\ Apart(l, Tick(l, now), nodes) /\ Blank(Tick(l, now), gone)
           /\ \E r, m : Holds(Tick(l, now), r, m, nodes \ gone)
<1>0. /\ n \in Nat /\ ListType(l) /\ IsList(l, s, n) /\ InOrder(l, s, n) /\ Members(s, n) = nodes
      /\ \A i \in 1..n : s[i] \in Timers
      /\ \A i, j \in 1..n : s[i] = s[j] => i = j
      /\ None \notin Timers
    BY TimersAssumption DEF Holds, IsList, Distinct
<1>a. gone = {x \in nodes : l.expire[x] <= now}
    BY DEF Overdue
<1>1. PICK q \in 0..n : /\ Expired(l, now) = [i \in 1..q |-> s[i]]
                        /\ \A i \in 1..n : l.expire[s[i]] <= now <=> i <= q
    BY ExpiredAre
<1> DEFINE e == Expired(l, now)
           m == Tick(l, now)
<1>2. DOMAIN e = 1..q /\ Len(e) = q /\ (\A i \in 1..q : e[i] = s[i]) /\ (e = <<>> <=> q = 0)
  <2>1. DOMAIN e = 1..q /\ \A i \in 1..q : e[i] = s[i]
      BY <1>1
  <2>2. Len(e) = q /\ e \in Seq({s[i] : i \in 1..n})
      BY <1>0, <1>1
  <2>3. e = <<>> <=> Len(e) = 0
      BY <2>2
  <2> QED BY <2>1, <2>2, <2>3
<1>3. ToSet(e) = gone
  <2>1. ToSet(e) = {s[i] : i \in 1..q}
      BY <1>2 DEF ToSet
  <2>2. \A i \in 1..q : i \in 1..n /\ i <= q
      BY <1>0
  <2>3. \A i \in 1..n : i <= q => i \in 1..q
      BY <1>0
  <2> QED BY <1>0, <1>a, <1>1, <2>1, <2>2, <2>3 DEF Members
<1>4. CASE q = 0
  <2>1. m = l /\ gone = {}
      BY <1>0, <1>a, <1>1, <1>2, <1>4 DEF Tick, Members
  <2>2. Apart(l, m, nodes) /\ Blank(m, gone) /\ SameExpiry(l, m, gone)
      BY <2>1 DEF Apart, Blank, SameExpiry
  <2> QED BY <1>3, <2>1, <2>2
<1>5. CASE q > 0
  <2> DEFINE head == Behind(s, n, q)
             rest == IF head = None THEN [l EXCEPT !.head = head]
                     ELSE [l EXCEPT !.head = head, !.prev[head] = None]
             r == [j \in 1..(n - q) |-> s[q + j]]
  <2>0. /\ q \in 1..n /\ l.next[Last(e)] = head /\ head \in Timers \cup {None}
        /\ head = None <=> q = n
        /\ q < n => head = s[q + 1]
    <3>1. q \in 1..n /\ Last(e) = s[q]
        BY <1>0, <1>2, <1>5 DEF Last
    <3>2. q < n => q + 1 \in 1..n
        BY <1>0
    <3> QED BY <1>0, <3>1, <3>2 DEF IsList, Behind
  <2> HIDE DEF head
  <2>1. m = Delete(rest, gone)
    <3>1. m = Delete(IF head = None THEN [l EXCEPT !.head = head]
                     ELSE [[l EXCEPT !.head = head] EXCEPT !.prev[head] = None], gone)
        BY <1>2, <1>3, <1>5, <2>0 DEF Tick
    <3>2. [[l EXCEPT !.head = head] EXCEPT !.prev[head] = None]
              = [l EXCEPT !.head = head, !.prev[head] = None]
        BY <1>0 DEF ListType
    <3> QED BY <3>1, <3>2
  <2>2. /\ ListType(rest) /\ rest.head = head /\ rest.tail = l.tail /\ rest.next = l.next
        /\ rest.expire = l.expire
        /\ \A x \in Timers : rest.prev[x] = IF x = head THEN None ELSE l.prev[x]
      BY <1>0, <2>0 DEF ListType
  <2> HIDE DEF rest, m
  <2>3. Deletion(rest, m, gone)
      BY <2>1, <2>2, DeleteFields
  <2>4. /\ ListType(m) /\ m.head = head /\ m.tail = l.tail
        /\ \A x \in Timers \ gone : /\ m.next[x] = l.next[x]
                                    /\ m.prev[x] = IF x = head THEN None ELSE l.prev[x]
                                    /\ m.expire[x] = l.expire[x]
      BY <2>2, <2>3 DEF Deletion
  <2>5. \A i \in 1..n : i > q => s[i] \in Timers \ gone /\ (s[i] = head <=> i = q + 1)
    <3>1. \A i \in 1..n : i > q => s[i] \notin gone
        BY <1>0, <1>a, <1>1
    <3>2. \A i \in 1..n : i > q => q < n /\ q + 1 \in 1..n
        BY <1>0
    <3> QED BY <1>0, <2>0, <3>1, <3>2
  <2>6. IsList(m, r, n - q) /\ InOrder(m, r, n - q)
    <3>1. \A i \in 1..n : i > q => m.next[s[i]] = l.next[s[i]]
        BY <2>4, <2>5
    <3>2. \A i \in 1..n : i > q => m.prev[s[i]] = IF i = q + 1 THEN None ELSE l.prev[s[i]]
        BY <2>4, <2>5
    <3>3. \A i \in 1..n : i > q => m.expire[s[i]] = l.expire[s[i]]
        BY <2>4, <2>5
    <3>4. m.head = Behind(s, n, q) /\ m.tail = l.tail
        BY <2>4 DEF head
    <3>5. q \in 1..n /\ IsList(l, s, n) /\ InOrder(l, s, n)
        BY <1>0, <2>0
    <3>6. r = [j \in 1..(n - q) |-> s[q + j]]
        OBVIOUS
    <3>7. Truncation(l, m, s, n, q)
        BY <3>1, <3>2, <3>3, <3>4 DEF Truncation
    <3> HIDE DEF r
    <3> QED BY <3>5, <3>6, <3>7, TruncatedIsList
  <2>7. Members(r, n - q) = nodes \ gone
    <3>1. \A j \in 1..(n - q) : r[j] = s[q + j] /\ q + j \in 1..n /\ q + j > q
        BY <1>0
    <3>2. \A i \in 1..n : i > q => i - q \in 1..(n - q) /\ r[i - q] = s[i]
        BY <1>0
    <3>3. \A i \in 1..n : s[i] \notin gone <=> i > q
        BY <1>0, <1>a, <1>1 DEF Members
    <3> HIDE DEF r
    <3> QED BY <1>0, <3>1, <3>2, <3>3 DEF Members
  <2>8. Holds(m, r, n - q, nodes \ gone)
      BY <2>4, <2>6, <2>7 DEF Holds
  <2>9. Blank(m, gone)
    <3>1. gone \subseteq Timers
        BY <1>0, <1>a DEF Members
    <3> QED BY <2>3, <3>1 DEF Deletion, Blank
  <2>10. Apart(l, m, nodes)
    <3>1. head \in nodes \cup {None} /\ gone \subseteq nodes
      <4>1. q < n => q + 1 \in 1..n
          BY <1>0
      <4> QED BY <1>0, <1>a, <2>0, <4>1 DEF Members
    <3> QED BY <1>0, <2>4, <3>1 DEF Apart
  <2>11. SameExpiry(l, m, gone)
      BY <2>4 DEF SameExpiry
  <2> QED BY <1>3, <2>8, <2>9, <2>10, <2>11 DEF m
<1>6. q = 0 \/ q > 0
    BY <1>0
<1> HIDE DEF m, e
<1> QED BY <1>4, <1>5, <1>6 DEF m, e

\* As time passes all timers come closer, and the order stays.
LEMMA CloserHolds ==
    ASSUME NEW l, NEW s, NEW n, NEW nodes, Holds(l, s, n, nodes), NEW E \in [Timers -> Int],
           \A x \in nodes : E[x] = l.expire[x] - 1
    PROVE  Holds([l EXCEPT !.expire = E], s, n, nodes)
<1> DEFINE m == [l EXCEPT !.expire = E]
<1>0. /\ ListType(l) /\ IsList(l, s, n) /\ InOrder(l, s, n) /\ Members(s, n) = nodes
      /\ \A i \in 1..n : s[i] \in Timers /\ s[i] \in nodes
    BY DEF Holds, IsList, Distinct, Members
<1>1. /\ ListType(m) /\ m.head = l.head /\ m.tail = l.tail /\ m.next = l.next /\ m.prev = l.prev
      /\ m.expire = E
    BY <1>0 DEF ListType
<1> HIDE DEF m
<1>2. IsList(m, s, n)
    BY <1>0, <1>1 DEF IsList
<1>3. InOrder(m, s, n)
    BY <1>0, <1>1 DEF InOrder, ListType
<1> QED BY <1>0, <1>1, <1>2, <1>3 DEF Holds, m

\* t has been made anew, with an expiry.
Anew(l, m, t, d) == m = [l EXCEPT !.prev[t] = None, !.next[t] = None, !.expire[t] = d]

\* A node that is not in the list may be written to.
LEMMA FreshHolds ==
    ASSUME NEW l, NEW s, NEW n, NEW nodes, Holds(l, s, n, nodes), NEW t \in Timers, t \notin nodes,
           NEW d \in Int, NEW m, Anew(l, m, t, d)
    PROVE  /\ Holds(m, s, n, nodes) /\ m.next[t] = None /\ m.prev[t] = None
           /\ \A x \in Timers : m.expire[x] = IF x = t THEN d ELSE l.expire[x]
<1>0. /\ ListType(l) /\ IsList(l, s, n) /\ InOrder(l, s, n) /\ Members(s, n) = nodes
      /\ \A i \in 1..n : s[i] \in Timers /\ s[i] # t
    BY DEF Holds, IsList, Distinct, Members
<1>1. /\ ListType(m) /\ m.head = l.head /\ m.tail = l.tail
      /\ \A x \in Timers : m.next[x] = IF x = t THEN None ELSE l.next[x]
      /\ \A x \in Timers : m.prev[x] = IF x = t THEN None ELSE l.prev[x]
      /\ \A x \in Timers : m.expire[x] = IF x = t THEN d ELSE l.expire[x]
    BY <1>0 DEF ListType, Anew
<1>2. IsList(m, s, n)
    BY <1>0, <1>1 DEF IsList
<1>3. InOrder(m, s, n)
    BY <1>0, <1>1 DEF InOrder
<1> QED BY <1>0, <1>1, <1>2, <1>3 DEF Holds

(***************************************************************************)
(* The server                                                              *)
(***************************************************************************)

\* What waits is only known of descriptors that are open.
Quiet == \A fd \in Fds \ open : unread[fd] = 0

\* The clients that come find descriptors.
Room == backlog + Cardinality(open) <= Cardinality(Fds)

\* No event is left over when the server waits.
Waiting == pc = "wait" => batch = {}

\* The timers that are allocated form a list in order of expiry.
InList == \E s, n : Holds(list, s, n, allocated)

\* Each of them belongs to one open connection.
Owned ==
    /\ allocated = {timer[fd] : fd \in open}
    /\ \A fd, gd \in open : timer[fd] = timer[gd] => fd = gd

\* It expires when the connection has been silent for Lifetime periods.
Clocks == \A fd \in open : list.expire[timer[fd]] + silent[fd] = Lifetime

IInv == TypeOK /\ Quiet /\ Room /\ Waiting /\ InList /\ Owned /\ Clocks /\ AlarmNeverLost

\* The type of a list and the bounds of its expiries.
LEMMA ListTyped ==
    ASSUME NEW l, ListType(l), \A x \in Timers : l.expire[x] \in -MaxLate..Lifetime
    PROVE  l \in [head : Timers \cup {None}, tail : Timers \cup {None},
                  prev : [Timers -> Timers \cup {None}], next : [Timers -> Timers \cup {None}],
                  expire : [Timers -> -MaxLate..Lifetime]]
BY DEF ListType

\* The numbers.
LEMMA Numbers ==
    /\ Fds \subseteq Nat /\ Listen \notin Fds /\ Pipe \notin Fds /\ Pipe # Listen
    /\ Lifetime \in Nat /\ Lifetime > 0 /\ MaxLate \in Nat /\ MaxUnread \in Nat
    /\ None \notin Timers /\ IsFiniteSet(Fds) /\ Cardinality(Fds) \in Nat
BY FdsAssumption, LifetimeAssumption, BoundsAssumption, TimersAssumption, FS_CardinalityType
   DEF Listen, Pipe

\* The empty list.
LEMMA InitHolds == Init => IInv
<1> SUFFICES ASSUME Init PROVE IInv
    OBVIOUS
<1>1. ListType(EmptyList) /\ \A x \in Timers : EmptyList.expire[x] \in -MaxLate..Lifetime
    BY Numbers DEF EmptyList, ListType
<1>2. TypeOK
  <2>1. list \in [head : Timers \cup {None}, tail : Timers \cup {None},
                  prev : [Timers -> Timers \cup {None}], next : [Timers -> Timers \cup {None}],
                  expire : [Timers -> -MaxLate..Lifetime]]
      BY <1>1, ListTyped DEF Init
  <2>2. 0 \in 0..Cardinality(Fds) /\ 0 \in 0..MaxUnread /\ 0 \in 0..(Lifetime + MaxLate)
      BY Numbers
  <2> QED BY <2>1, <2>2 DEF Init, TypeOK
<1>3. InList
  <2>1. \E s, n : n = 0 /\ s = <<>>
      OBVIOUS
  <2>2. PICK s, n : n = 0 /\ s = <<>>
      BY <2>1
  <2>3. Holds(EmptyList, s, n, {})
      BY <1>1, <2>2 DEF EmptyList, Holds, IsList, Distinct, InOrder, Members
  <2> QED BY <2>3 DEF InList, Init
<1>4. Room
  <2>1. Cardinality({}) = 0
      BY FS_EmptySet
  <2> QED BY <2>1, Numbers DEF Init, Room
<1>5. Quiet /\ Waiting /\ Owned /\ Clocks /\ AlarmNeverLost
    BY DEF Init, Quiet, Waiting, Owned, Clocks, AlarmNeverLost
<1> QED BY <1>2, <1>3, <1>4, <1>5 DEF IInv

\* The state outside the list.
Types ==
    /\ allocated \subseteq Timers
    /\ timer \in [Fds -> Timers \cup {None}]
    /\ open \subseteq Fds /\ hung \subseteq open
    /\ backlog \in 0..Cardinality(Fds)
    /\ unread \in [Fds -> 0..MaxUnread]
    /\ edge \subseteq Fds \cup {Listen, Pipe} /\ batch \subseteq Fds \cup {Listen, Pipe}
    /\ pipe \subseteq {"ALRM", "TERM"}
    /\ alarm \in BOOLEAN /\ timeout \in BOOLEAN /\ stopServer \in BOOLEAN
    /\ pc \in {"wait", "batch", "stopped"}

\* The numbers of periods.
Periods ==
    /\ list \in [head : Timers \cup {None}, tail : Timers \cup {None},
                 prev : [Timers -> Timers \cup {None}], next : [Timers -> Timers \cup {None}],
                 expire : [Timers -> -MaxLate..Lifetime]]
    /\ silent \in [Fds -> 0..(Lifetime + MaxLate)]

\* What relates the timers to the connections.
TimersInv == Periods /\ InList /\ Owned /\ Clocks

\* IInv, as the steps keep it.
LEMMA Parts ==
    /\ IInv <=> Types /\ Quiet /\ Room /\ Waiting /\ TimersInv /\ AlarmNeverLost
    /\ IInv' <=> Types' /\ Quiet' /\ Room' /\ Waiting' /\ TimersInv' /\ AlarmNeverLost'
BY DEF IInv, TypeOK, Types, Periods, TimersInv

\* A step that touches neither timers nor connections keeps what relates them.
LEMMA TimersKept ==
    ASSUME TimersInv, UNCHANGED <<list, allocated, timer, open, silent>>
    PROVE  TimersInv'
BY DEF TimersInv, Periods, InList, Owned, Clocks

\* Every timer of an open connection is in the list.
LEMMA OpenHasTimer ==
    ASSUME IInv, NEW fd \in open
    PROVE  timer[fd] \in allocated /\ timer[fd] \in Timers
BY DEF IInv, Owned, TypeOK

\* What comes from outside.
LEMMA EnvironmentKeeps ==
    ASSUME IInv,
           \/ Connect \/ Terminate
           \/ \E fd \in Fds : ClientSends(fd) \/ ClientCloses(fd)
    PROVE  IInv'
<1> USE Parts
<1>1. CASE Connect
  <2>a. Cardinality(open) \in Nat /\ Cardinality(Fds) \in Nat
      BY Numbers, FS_Subset, FS_CardinalityType DEF Types
  <2>b. backlog + 1 \in 0..Cardinality(Fds) /\ (backlog + 1) + Cardinality(open) <= Cardinality(Fds)
      BY <1>1, <2>a DEF Connect, Types
  <2>1. Types' /\ Room'
    <3>1. edge' \subseteq Fds \cup {Listen, Pipe}
        BY <1>1 DEF Connect, Types
    <3> QED BY <1>1, <2>b, <3>1 DEF Connect, Types, Room, timerVars, signalVars
  <2>2. TimersInv'
      BY <1>1, TimersKept DEF Connect, timerVars
  <2>3. Quiet' /\ Waiting'
      BY <1>1 DEF Connect, Quiet, Waiting
  <2>4. AlarmNeverLost'
      BY <1>1 DEF Connect, AlarmNeverLost, signalVars
  <2> QED BY <2>1, <2>2, <2>3, <2>4
<1>2. CASE Terminate
  <2>1. Types'
      BY <1>2 DEF Terminate, Signal, Types, clientVars, timerVars
  <2>2. TimersInv'
      BY <1>2, TimersKept DEF Terminate, timerVars
  <2>3. Quiet' /\ Waiting' /\ Room'
      BY <1>2 DEF Terminate, Signal, Quiet, Waiting, Room, clientVars
  <2>4. AlarmNeverLost'
      BY <1>2 DEF Terminate, Signal, AlarmNeverLost
  <2> QED BY <2>1, <2>2, <2>3, <2>4
<1>3. ASSUME NEW fd \in Fds, ClientSends(fd) PROVE IInv'
  <2>1. Types'
      BY <1>3, Numbers DEF ClientSends, Types, signalVars, timerVars
  <2>2. TimersInv'
      BY <1>3, TimersKept DEF ClientSends, timerVars
  <2>3. Quiet' /\ Waiting' /\ Room'
      BY <1>3 DEF ClientSends, Types, Quiet, Waiting, Room
  <2>4. AlarmNeverLost'
      BY <1>3 DEF ClientSends, AlarmNeverLost, signalVars
  <2> QED BY <2>1, <2>2, <2>3, <2>4
<1>4. ASSUME NEW fd \in Fds, ClientCloses(fd) PROVE IInv'
  <2>1. Types'
      BY <1>4 DEF ClientCloses, Types, signalVars, timerVars
  <2>2. TimersInv'
      BY <1>4, TimersKept DEF ClientCloses, timerVars
  <2>3. Quiet' /\ Waiting' /\ Room'
      BY <1>4 DEF ClientCloses, Quiet, Waiting, Room
  <2>4. AlarmNeverLost'
      BY <1>4 DEF ClientCloses, AlarmNeverLost, signalVars
  <2> QED BY <2>1, <2>2, <2>3, <2>4
<1> QED BY <1>1, <1>2, <1>3, <1>4

\* A period passes.
LEMMA ClockTickKeeps ==
    ASSUME IInv, ClockTick
    PROVE  IInv'
<1> USE Parts
<1>1. Types'
  <2>1. pipe' \subseteq {"ALRM", "TERM"} /\ edge' \subseteq Fds \cup {Listen, Pipe}
      BY DEF ClockTick, Signal, Types
  <2> QED BY <2>1 DEF ClockTick, Types, clientVars
<1>2. Quiet' /\ Waiting' /\ Room'
    BY DEF ClockTick, Quiet, Waiting, Room, clientVars
<1>3. AlarmNeverLost'
    BY DEF ClockTick, Signal, AlarmNeverLost, Types
<1>4. TimersInv'
  <2> DEFINE E == [t \in Timers |-> IF t \in allocated THEN list.expire[t] - 1 ELSE 0]
  <2>1. list' = [list EXCEPT !.expire = E]
      BY DEF ClockTick, TimersInv, Periods
  <2>2. \A x \in Timers : E[x] = IF x \in allocated THEN list.expire[x] - 1 ELSE 0
      OBVIOUS
  <2>3. /\ \A x \in allocated : list.expire[x] > -MaxLate /\ x \in Timers
        /\ \A x \in Timers : list.expire[x] \in -MaxLate..Lifetime
      BY DEF ClockTick, TimersInv, Periods, Types
  <2>4. \A x \in Timers : E[x] \in -MaxLate..Lifetime
      BY <2>2, <2>3, Numbers
  <2>5. E \in [Timers -> Int] /\ E \in [Timers -> -MaxLate..Lifetime]
      BY <2>4
  <2> HIDE DEF E
  <2>6. list'.expire = E
      BY <2>1 DEF TimersInv, Periods
  <2>7. /\ allocated' = allocated /\ open' = open /\ timer' = timer
        /\ silent' = [fd \in Fds |-> IF fd \in open THEN silent[fd] + 1 ELSE silent[fd]]
      BY DEF ClockTick
  <2>8. \A fd \in open : timer[fd] \in allocated /\ timer[fd] \in Timers /\ fd \in Fds
      BY OpenHasTimer DEF Types
  <2>9. InList'
    <3>1. PICK s, n : Holds(list, s, n, allocated)
        BY DEF TimersInv, InList
    <3>2. Holds([list EXCEPT !.expire = E], s, n, allocated)
        BY <2>2, <2>3, <2>5, <3>1, CloserHolds
    <3> QED BY <2>1, <2>7, <3>2 DEF InList
  <2>10. Owned'
      BY <2>7 DEF TimersInv, Owned
  <2>11. Clocks'
    <3>1. ASSUME NEW fd \in open PROVE E[timer[fd]] + (silent[fd] + 1) = Lifetime
      <4>1. list.expire[timer[fd]] + silent[fd] = Lifetime /\ silent[fd] \in Int
          BY <2>8 DEF TimersInv, Clocks, Periods
      <4> QED BY <2>2, <2>3, <2>8, <4>1, Numbers
    <3> QED BY <2>6, <2>7, <2>8, <3>1 DEF Clocks
  <2>12. Periods'
    <3>1. ASSUME NEW fd \in open PROVE silent[fd] + 1 \in 0..(Lifetime + MaxLate)
      <4>1. list.expire[timer[fd]] + silent[fd] = Lifetime /\ silent[fd] \in 0..(Lifetime + MaxLate)
          BY <2>8 DEF TimersInv, Clocks, Periods
      <4>2. list.expire[timer[fd]] > -MaxLate /\ list.expire[timer[fd]] \in Int
          BY <2>3, <2>8, Numbers
      <4> QED BY <4>1, <4>2, Numbers
    <3>2. silent' \in [Fds -> 0..(Lifetime + MaxLate)]
        BY <2>7, <3>1 DEF TimersInv, Periods
    <3> QED BY <2>1, <2>5, <3>2 DEF TimersInv, Periods
  <2> QED BY <2>9, <2>10, <2>11, <2>12 DEF TimersInv
<1> QED BY <1>1, <1>2, <1>3, <1>4

\* main waits and reads the signals.
LEMMA SignalsKeep ==
    ASSUME IInv, EpollWait \/ HandlePipe \/ EndOfBatch \/ \E fd \in Fds : HandleNothing(fd)
    PROVE  IInv'
<1> USE Parts
<1>1. CASE EpollWait
  <2>1. Types'
      BY <1>1 DEF EpollWait, Types, clientVars, signalVars, timerVars
  <2>2. TimersInv'
      BY <1>1, TimersKept DEF EpollWait, timerVars
  <2>3. Quiet' /\ Waiting' /\ Room'
      BY <1>1 DEF EpollWait, Quiet, Waiting, Room, clientVars
  <2>4. AlarmNeverLost'
      BY <1>1 DEF EpollWait, AlarmNeverLost, signalVars, Waiting
  <2> QED BY <2>1, <2>2, <2>3, <2>4
<1>2. CASE HandlePipe
  <2>1. Types'
      BY <1>2 DEF HandlePipe, Handle, Types, clientVars, timerVars
  <2>2. TimersInv'
      BY <1>2, TimersKept DEF HandlePipe, timerVars
  <2>3. Quiet' /\ Waiting' /\ Room'
      BY <1>2 DEF HandlePipe, Handle, Quiet, Waiting, Room, clientVars
  <2>4. AlarmNeverLost'
      BY <1>2 DEF HandlePipe, Handle, AlarmNeverLost, Types
  <2> QED BY <2>1, <2>2, <2>3, <2>4
<1>3. CASE EndOfBatch
  <2>1. Types'
      BY <1>3 DEF EndOfBatch, Types, clientVars, signalVars, timerVars
  <2>2. TimersInv'
      BY <1>3, TimersKept DEF EndOfBatch, timerVars
  <2>3. Quiet' /\ Waiting' /\ Room'
      BY <1>3 DEF EndOfBatch, Quiet, Waiting, Room, clientVars
  <2>4. AlarmNeverLost'
      BY <1>3 DEF EndOfBatch, AlarmNeverLost, signalVars
  <2> QED BY <2>1, <2>2, <2>3, <2>4
<1>4. ASSUME NEW fd \in Fds, HandleNothing(fd) PROVE IInv'
  <2>1. Types'
      BY <1>4 DEF HandleNothing, Handle, Types, clientVars, signalVars, timerVars
  <2>2. TimersInv'
      BY <1>4, TimersKept DEF HandleNothing, timerVars
  <2>3. Quiet' /\ Waiting' /\ Room'
      BY <1>4 DEF HandleNothing, Handle, Quiet, Waiting, Room, clientVars
  <2>4. AlarmNeverLost'
      BY <1>4, Numbers DEF HandleNothing, Handle, AlarmNeverLost, signalVars
  <2> QED BY <2>1, <2>2, <2>3, <2>4
<1> QED BY <1>1, <1>2, <1>3, <1>4

\* A client is accepted.
LEMMA HandleListenKeeps ==
    ASSUME IInv, HandleListen
    PROVE  IInv'
<1> USE Parts
<1> DEFINE fd == Min(Fds \ open)
<1>1. PICK t \in Timers \ allocated :
          /\ open' = open \cup {fd}
          /\ allocated' = allocated \cup {t}
          /\ timer' = [timer EXCEPT ![fd] = t]
          /\ silent' = [silent EXCEPT ![fd] = 0]
          /\ list' = AddTimer([list EXCEPT !.prev[t] = None, !.next[t] = None,
                                           !.expire[t] = Lifetime], t)
    BY DEF HandleListen
<1>2. /\ Handle(Listen) /\ backlog > 0 /\ backlog' = backlog - 1
      /\ UNCHANGED <<unread, hung, edge, signalVars>>
    BY DEF HandleListen
<1>3. IsFiniteSet(open) /\ Cardinality(open) \in Nat /\ Cardinality(open) < Cardinality(Fds)
    BY <1>2, Numbers, FS_Subset, FS_CardinalityType DEF Types, Room
<1>4. fd \in Fds \ open
  <2>1. Fds \ open # {}
      BY <1>3 DEF Types
  <2>2. Fds \ open \in SUBSET Nat
      BY Numbers
  <2> QED BY <2>1, <2>2, LowestIsOne
<1> HIDE DEF fd
<1>5. Types' /\ Waiting' /\ Quiet'
  <2>1. backlog' \in 0..Cardinality(Fds)
      BY <1>2, Numbers DEF Types
  <2>2. timer' \in [Fds -> Timers \cup {None}]
      BY <1>1 DEF Types
  <2>3. Types'
      BY <1>1, <1>2, <1>4, <2>1, <2>2 DEF Types, Handle, signalVars
  <2> QED BY <1>1, <1>2, <2>3 DEF Quiet, Waiting, Handle
<1>6. Room'
  <2>1. Cardinality(open \cup {fd}) = Cardinality(open) + 1
      BY <1>3, <1>4, FS_AddElement
  <2> QED BY <1>1, <1>2, <1>3, <2>1, Numbers DEF Room, Types
<1>7. AlarmNeverLost'
    BY <1>2, Numbers DEF Handle, AlarmNeverLost, signalVars
<1>8. TimersInv'
  <2> DEFINE l == [list EXCEPT !.prev[t] = None, !.next[t] = None, !.expire[t] = Lifetime]
  <2>1. PICK s, n : Holds(list, s, n, allocated)
      BY DEF TimersInv, InList
  <2>2. t \in Timers /\ t \notin allocated /\ Lifetime \in Int /\ n \in Nat
      BY <1>1, <2>1, Numbers DEF Holds, IsList, Distinct
  <2>3. Anew(list, l, t, Lifetime)
      BY DEF Anew
  <2> HIDE DEF l
  <2>4. /\ Holds(l, s, n, allocated) /\ l.next[t] = None /\ l.prev[t] = None
        /\ \A x \in Timers : l.expire[x] = IF x = t THEN Lifetime ELSE list.expire[x]
      BY <2>1, <2>2, <2>3, FreshHolds
  <2>5. list' = AddTimer(l, t)
      BY <1>1 DEF l
  <2>6. /\ AddTimer(l, t).expire = l.expire
        /\ \E r : Holds(AddTimer(l, t), r, n + 1, allocated \cup {t})
      BY <2>2, <2>4, AddTimerHolds
  <2>7. /\ ListType(list')
        /\ \A x \in Timers : list'.expire[x] = IF x = t THEN Lifetime ELSE list.expire[x]
      BY <2>4, <2>5, <2>6 DEF Holds
  <2>8. InList'
      BY <1>1, <2>5, <2>6 DEF InList
  <2>9. \A gd \in open : timer'[gd] = timer[gd] /\ timer[gd] \in allocated /\ gd \in Fds
      BY <1>1, <1>4, OpenHasTimer DEF Types
  <2>10. timer'[fd] = t
      BY <1>1, <1>4 DEF Types
  <2>11. Owned'
      BY <1>1, <1>4, <2>2, <2>9, <2>10 DEF Owned, TimersInv
  <2>12. Periods'
    <3>1. \A x \in Timers : list'.expire[x] \in -MaxLate..Lifetime
        BY <2>7, Numbers DEF TimersInv, Periods
    <3>2. silent' \in [Fds -> 0..(Lifetime + MaxLate)]
      <4>1. 0 \in 0..(Lifetime + MaxLate)
          BY Numbers
      <4> QED BY <1>1, <4>1 DEF TimersInv, Periods
    <3> QED BY <2>7, <3>1, <3>2, ListTyped DEF Periods
  <2>13. Clocks'
    <3>1. \A gd \in open : gd # fd /\ timer[gd] # t /\ timer[gd] \in Timers
        BY <1>4, <2>2, <2>9 DEF Types
    <3>2. \A gd \in open : list'.expire[timer[gd]] = list.expire[timer[gd]]
        BY <2>7, <3>1
    <3>3. \A gd \in open : silent'[gd] = silent[gd]
        BY <1>1, <2>9, <3>1 DEF TimersInv, Periods
    <3>4. silent'[fd] = 0 /\ list'.expire[t] = Lifetime
        BY <1>1, <1>4, <2>2, <2>7 DEF TimersInv, Periods
    <3>5. \A gd \in open' : list'.expire[timer'[gd]] + silent'[gd] = Lifetime
        BY <1>1, <2>9, <2>10, <3>2, <3>3, <3>4, Numbers DEF TimersInv, Clocks
    <3> QED BY <3>5 DEF Clocks
  <2> QED BY <2>8, <2>11, <2>12, <2>13 DEF TimersInv
<1> QED BY <1>5, <1>6, <1>7, <1>8

\* A client has sent something.
LEMMA HandleDataKeeps ==
    ASSUME IInv, NEW fd \in Fds, HandleData(fd)
    PROVE  IInv'
<1> USE Parts
<1> DEFINE t == timer[fd]
<1>1. fd \in open
    BY DEF HandleData, Quiet
<1>2. t \in allocated /\ t \in Timers
    BY <1>1, OpenHasTimer
<1>3. Types' /\ Quiet' /\ Waiting' /\ Room'
  <2>1. unread' \in [Fds -> 0..MaxUnread]
    <3>1. unread[fd] - 1 \in 0..MaxUnread
        BY Numbers DEF HandleData, Types
    <3> QED BY <3>1 DEF HandleData, Types
  <2>2. Types'
      BY <2>1 DEF HandleData, Handle, Types, signalVars
  <2> QED BY <1>1, <2>2 DEF HandleData, Handle, Types, Quiet, Waiting, Room
<1>4. AlarmNeverLost'
    BY Numbers DEF HandleData, Handle, AlarmNeverLost, signalVars
<1>5. TimersInv'
  <2> DEFINE e == [list EXCEPT !.expire[t] = Lifetime]
  <2>1. PICK s, n : Holds(list, s, n, allocated)
      BY DEF TimersInv, InList
  <2>2. Lifetime \in Int /\ list.expire[t] <= Lifetime
      BY <1>2, Numbers DEF TimersInv, Periods
  <2>3. Given(list, e, t, Lifetime)
      BY DEF Given
  <2>4. /\ list' = AdjustTimer(e, t)
        /\ UNCHANGED <<allocated, timer, open>>
        /\ silent' = [silent EXCEPT ![fd] = 0]
      BY DEF HandleData
  <2>5. \A x \in Timers : e.expire[x] = IF x = t THEN Lifetime ELSE list.expire[x]
      BY <1>2 DEF TimersInv, Periods
  <2> HIDE DEF e, t
  <2>6. /\ AdjustTimer(e, t).expire = e.expire
        /\ \E r : Holds(AdjustTimer(e, t), r, n, allocated)
      BY <1>2, <2>1, <2>2, <2>3, AdjustTimerHolds
  <2>7. ListType(list') /\ list'.expire = e.expire
      BY <2>4, <2>6 DEF Holds
  <2>8. InList' /\ Owned'
      BY <2>4, <2>6 DEF InList, Owned, TimersInv
  <2>9. Periods'
    <3>1. \A x \in Timers : list'.expire[x] \in -MaxLate..Lifetime
        BY <2>5, <2>7, Numbers DEF TimersInv, Periods
    <3>2. silent' \in [Fds -> 0..(Lifetime + MaxLate)]
      <4>1. 0 \in 0..(Lifetime + MaxLate)
          BY Numbers
      <4> QED BY <2>4, <4>1 DEF TimersInv, Periods
    <3> QED BY <2>7, <3>1, <3>2, ListTyped DEF Periods
  <2>10. Clocks'
    <3>1. ASSUME NEW gd \in open PROVE list'.expire[timer[gd]] + silent'[gd] = Lifetime
      <4>1. timer[gd] \in Timers /\ gd \in Fds /\ (timer[gd] = t <=> gd = fd)
          BY <1>1, OpenHasTimer DEF Types, TimersInv, Owned, t
      <4>2. list'.expire[timer[gd]] = IF gd = fd THEN Lifetime ELSE list.expire[timer[gd]]
          BY <2>5, <2>7, <4>1
      <4>3. silent'[gd] = IF gd = fd THEN 0 ELSE silent[gd]
          BY <2>4, <4>1 DEF TimersInv, Periods
      <4> QED BY <4>2, <4>3, Numbers DEF TimersInv, Clocks
    <3> QED BY <2>4, <3>1 DEF Clocks
  <2> QED BY <2>8, <2>9, <2>10 DEF TimersInv
<1> QED BY <1>3, <1>4, <1>5

\* Closing descriptors.
LEMMA CloseFdsKeeps ==
    ASSUME Types, Quiet, Room, NEW fds, fds \subseteq open, CloseFds(fds), backlog' = backlog
    PROVE  /\ open' \subseteq Fds /\ hung' \subseteq open'
           /\ unread' \in [Fds -> 0..MaxUnread]
           /\ edge' \subseteq Fds \cup {Listen, Pipe} /\ (Pipe \in edge' <=> Pipe \in edge)
           /\ Quiet' /\ Room'
<1>1. open' \subseteq Fds /\ hung' \subseteq open' /\ edge' \subseteq Fds \cup {Listen, Pipe}
    BY DEF CloseFds, Types
<1>2. unread' \in [Fds -> 0..MaxUnread]
    BY Numbers DEF CloseFds, Types
<1>3. Pipe \in edge' <=> Pipe \in edge
    BY Numbers DEF CloseFds, Types
<1>4. Quiet'
    BY DEF CloseFds, Types, Quiet
<1>5. Room'
  <2>1. IsFiniteSet(open) /\ Cardinality(open) \in Nat
      BY Numbers, FS_Subset, FS_CardinalityType DEF Types
  <2>2. open' \subseteq open
      BY DEF CloseFds
  <2>3. Cardinality(open') <= Cardinality(open) /\ Cardinality(open') \in Nat
      BY <2>1, <2>2, FS_Subset, FS_CardinalityType
  <2> QED BY <2>1, <2>3, Numbers DEF Room, Types
<1> QED BY <1>1, <1>2, <1>3, <1>4, <1>5

\* Closing the connections whose timers are deleted.
LEMMA TimersClosed ==
    ASSUME IInv, NEW gone, gone \subseteq allocated,
           NEW fds, fds = {fd \in open : timer[fd] \in gone}, CloseFds(fds),
           allocated' = allocated \ gone, timer' = timer, InList',
           SameExpiry(list, list', gone), Blank(list', gone)
    PROVE  TimersInv'
<1> USE Parts
<1>1. /\ open' = open \ fds
      /\ \A fd \in Fds : silent'[fd] = IF fd \in fds THEN 0 ELSE silent[fd]
    BY DEF CloseFds
<1>2. \A fd \in open : timer[fd] \in allocated /\ timer[fd] \in Timers /\ fd \in Fds
    BY OpenHasTimer DEF Types
<1>3. Owned'
  <2>1. \A x \in allocated \ gone : \E fd \in open : x = timer[fd] /\ fd \notin fds
      BY DEF TimersInv, Owned
  <2>2. \A fd \in open : fd \notin fds => timer[fd] \in allocated \ gone
      BY <1>2
  <2> QED BY <1>1, <2>1, <2>2 DEF TimersInv, Owned
<1>4. Clocks'
  <2>1. ASSUME NEW fd \in open \ fds PROVE list'.expire[timer[fd]] + silent'[fd] = Lifetime
    <3>1. timer[fd] \in Timers \ gone /\ fd \in Fds
        BY <1>2
    <3>2. list'.expire[timer[fd]] = list.expire[timer[fd]] /\ silent'[fd] = silent[fd]
        BY <1>1, <3>1 DEF SameExpiry
    <3> QED BY <3>2 DEF TimersInv, Clocks
  <2> QED BY <1>1, <2>1 DEF Clocks
<1>5. Periods'
  <2>1. ListType(list')
      BY DEF InList, Holds
  <2>2. \A x \in Timers : list'.expire[x] \in -MaxLate..Lifetime
    <3>1. 0 \in -MaxLate..Lifetime
        BY Numbers
    <3>2. \A x \in Timers \ gone : list'.expire[x] \in -MaxLate..Lifetime
        BY DEF TimersInv, Periods, SameExpiry
    <3>3. \A x \in gone : list'.expire[x] = 0
        BY DEF Blank
    <3> QED BY <3>1, <3>2, <3>3
  <2>3. silent' \in [Fds -> 0..(Lifetime + MaxLate)]
    <3>1. 0 \in 0..(Lifetime + MaxLate)
        BY Numbers
    <3> QED BY <3>1 DEF CloseFds, TimersInv, Periods
  <2> QED BY <2>1, <2>2, <2>3, ListTyped DEF Periods
<1> QED BY <1>3, <1>4, <1>5 DEF TimersInv

\* A client has left.
LEMMA HandleCloseKeeps ==
    ASSUME IInv, NEW fd \in Fds, HandleClose(fd)
    PROVE  IInv'
<1> USE Parts
<1> DEFINE t == timer[fd]
<1>1. fd \in open /\ CloseFds({fd}) /\ {fd} \subseteq open /\ backlog' = backlog
    BY DEF HandleClose, Types
<1>2. t \in allocated /\ t \in Timers
    BY <1>1, OpenHasTimer
<1>a. /\ open' \subseteq Fds /\ hung' \subseteq open'
      /\ unread' \in [Fds -> 0..MaxUnread]
      /\ edge' \subseteq Fds \cup {Listen, Pipe} /\ (Pipe \in edge' <=> Pipe \in edge)
      /\ Quiet' /\ Room'
    BY <1>1, CloseFdsKeeps
<1>b. /\ Handle(fd) /\ list' = DeleteTimer(list, t) /\ allocated' = allocated \ {t}
      /\ timer' = timer /\ UNCHANGED signalVars
    BY DEF HandleClose
<1> HIDE DEF t
<1>3. Types'
    BY <1>1, <1>a, <1>b DEF Types, Handle, signalVars
<1>4. Waiting'
    BY <1>b DEF Handle, Waiting
<1>5. AlarmNeverLost'
    BY <1>a, <1>b, Numbers DEF Handle, AlarmNeverLost, signalVars
<1>6. TimersInv'
  <2>1. PICK s, n : Holds(list, s, n, allocated)
      BY DEF TimersInv, InList
  <2>2. /\ SameExpiry(list, DeleteTimer(list, t), {t})
        /\ Blank(DeleteTimer(list, t), {t})
        /\ \E r : Holds(DeleteTimer(list, t), r, n - 1, allocated \ {t})
    <3>1. t \in allocated
        BY <1>2
    <3>2. SameExpiry(list, DeleteTimer(list, t), {t})
        BY <2>1, <3>1, DeleteTimerHolds
    <3>3. Blank(DeleteTimer(list, t), {t})
        BY <2>1, <3>1, DeleteTimerHolds
    <3>4. \E r : Holds(DeleteTimer(list, t), r, n - 1, allocated \ {t})
        BY <2>1, <3>1, DeleteTimerHolds
    <3> QED BY <3>2, <3>3, <3>4
  <2>3. InList'
      BY <1>b, <2>2 DEF InList
  <2>4. {fd} = {gd \in open : timer[gd] \in {t}}
      BY <1>1 DEF TimersInv, Owned, t
  <2>5. /\ SameExpiry(list, list', {t})
        /\ Blank(list', {t})
      BY <1>b, <2>2
  <2>6. {t} \subseteq allocated
      BY <1>2
  <2> QED BY <1>1, <1>b, <2>3, <2>4, <2>5, <2>6, TimersClosed
<1> QED BY <1>3, <1>4, <1>5, <1>6, <1>a

\* What TimerHandler finds expired: the timers of the silent connections.
LEMMA ExpiredAreSilent ==
    ASSUME IInv
    PROVE  /\ ToSet(Expired(list, 0)) = Overdue(list, allocated, 0)
           /\ \A fd \in open : timer[fd] \in ToSet(Expired(list, 0)) <=> silent[fd] >= Lifetime
<1> USE Parts
<1>1. PICK s, n : Holds(list, s, n, allocated)
    BY DEF TimersInv, InList
<1> DEFINE gone == Overdue(list, allocated, 0)
<1>2. ToSet(Expired(list, 0)) = gone
  <2>1. 0 \in Int /\ gone = Overdue(list, allocated, 0)
      OBVIOUS
  <2> HIDE DEF gone
  <2> QED BY <1>1, <2>1, TickHolds
<1>3. ASSUME NEW fd \in open PROVE list.expire[timer[fd]] <= 0 <=> silent[fd] >= Lifetime
  <2>a. timer[fd] \in Timers /\ fd \in Fds
      BY OpenHasTimer DEF Types
  <2>1. /\ list.expire[timer[fd]] \in Int /\ silent[fd] \in Int
        /\ list.expire[timer[fd]] + silent[fd] = Lifetime
      BY <2>a, Numbers DEF TimersInv, Periods, Clocks
  <2> QED BY <2>1, Numbers
<1>4. \A fd \in open : timer[fd] \in allocated
    BY OpenHasTimer
<1> QED BY <1>2, <1>3, <1>4 DEF Overdue

\* TimerHandler.
LEMMA HandleTimeoutKeeps ==
    ASSUME IInv, HandleTimeout
    PROVE  IInv'
<1> USE Parts
<1> DEFINE gone == ToSet(Expired(list, 0))
           fds == {fd \in open : timer[fd] \in gone}
<1>1. /\ pc = "batch" /\ batch = {} /\ timeout /\ CloseFds(fds)
      /\ list' = Tick(list, 0) /\ allocated' = allocated \ gone
      /\ alarm' = TRUE /\ timeout' = FALSE
      /\ pc' = IF stopServer THEN "stopped" ELSE "wait"
      /\ UNCHANGED <<timer, backlog, pipe, stopServer, batch>>
    BY DEF HandleTimeout
<1>2. gone = Overdue(list, allocated, 0)
    BY ExpiredAreSilent
<1>3. fds = {fd \in open : timer[fd] \in gone} /\ fds \subseteq open /\ gone \subseteq allocated
    BY <1>2 DEF Overdue
<1> HIDE DEF gone, fds
<1>a. /\ open' \subseteq Fds /\ hung' \subseteq open'
      /\ unread' \in [Fds -> 0..MaxUnread]
      /\ edge' \subseteq Fds \cup {Listen, Pipe} /\ (Pipe \in edge' <=> Pipe \in edge)
      /\ Quiet' /\ Room'
    BY <1>1, <1>3, CloseFdsKeeps
<1>4. Types'
    BY <1>1, <1>3, <1>a DEF Types
<1>5. Waiting'
    BY <1>1 DEF Waiting
<1>6. AlarmNeverLost'
    BY <1>1, <1>a DEF AlarmNeverLost, Types
<1>7. TimersInv'
  <2>1. PICK s, n : Holds(list, s, n, allocated)
      BY DEF TimersInv, InList
  <2>2. /\ SameExpiry(list, Tick(list, 0), gone)
        /\ Blank(Tick(list, 0), gone)
        /\ \E r, m : Holds(Tick(list, 0), r, m, allocated \ gone)
    <3>1. 0 \in Int
        OBVIOUS
    <3>2. SameExpiry(list, Tick(list, 0), gone)
        BY <1>2, <2>1, <3>1, TickHolds
    <3>3. Blank(Tick(list, 0), gone)
        BY <1>2, <2>1, <3>1, TickHolds
    <3>4. \E r, m : Holds(Tick(list, 0), r, m, allocated \ gone)
        BY <1>2, <2>1, <3>1, TickHolds
    <3> QED BY <3>2, <3>3, <3>4
  <2>3. InList'
      BY <1>1, <2>2 DEF InList
  <2>4. /\ SameExpiry(list, list', gone)
        /\ Blank(list', gone)
      BY <1>1, <2>2
  <2> QED BY <1>1, <1>3, <2>3, <2>4, TimersClosed
<1> QED BY <1>4, <1>5, <1>6, <1>7, <1>a

\* Every step keeps the invariant.
LEMMA NextKeeps == IInv /\ [Next]_vars => IInv'
<1> SUFFICES ASSUME IInv, [Next]_vars PROVE IInv'
    OBVIOUS
<1>1. CASE Connect \/ Terminate \/ \E fd \in Fds : ClientSends(fd) \/ ClientCloses(fd)
    BY <1>1, EnvironmentKeeps
<1>2. CASE ClockTick
    BY <1>2, ClockTickKeeps
<1>3. CASE EpollWait \/ HandlePipe \/ EndOfBatch \/ \E fd \in Fds : HandleNothing(fd)
    BY <1>3, SignalsKeep
<1>4. CASE HandleListen
    BY <1>4, HandleListenKeeps
<1>5. CASE \E fd \in Fds : HandleData(fd)
    BY <1>5, HandleDataKeeps
<1>6. CASE \E fd \in Fds : HandleClose(fd)
    BY <1>6, HandleCloseKeeps
<1>7. CASE HandleTimeout
    BY <1>7, HandleTimeoutKeeps
<1>8. CASE UNCHANGED vars
  <2>1. TimersInv'
      BY <1>8, Parts, TimersKept DEF vars, timerVars
  <2>2. Types' /\ Quiet' /\ Room' /\ Waiting' /\ AlarmNeverLost'
      BY <1>8, Parts DEF vars, timerVars, clientVars, signalVars, Types, Quiet, Room, Waiting,
                         AlarmNeverLost
  <2> QED BY <2>1, <2>2, Parts
<1> QED BY <1>1, <1>2, <1>3, <1>4, <1>5, <1>6, <1>7, <1>8 DEF Next, MainStep

\* The inductive invariant holds in every state.
LEMMA Invariant == Spec => []IInv
<1> QED BY InitHolds, NextKeeps, PTL DEF Spec

\* The variables of the clear_dead_connection server always have their types, the
\* expiries and the silences among them their bounds.
THEOREM TypeCorrect == Spec => []TypeOK
<1>1. IInv => TypeOK
    BY DEF IInv
<1> QED BY <1>1, Invariant, PTL

\* Every open connection has exactly one timer, which is allocated and in the list,
\* and no timer is left of a connection that is closed, though users[fd].timer keeps
\* its address.
THEOREM TimersBelongToConnections == Spec => []TimersOfConnections
<1>1. IInv => TimersOfConnections
  <2> SUFFICES ASSUME IInv PROVE TimersOfConnections
      OBVIOUS
  <2>1. PICK s, n : Holds(list, s, n, allocated)
      BY DEF IInv, InList
  <2>2. Nodes(list) = [i \in 1..n |-> s[i]]
      BY <2>1, NodesAre DEF Holds
  <2>3. ToSet(Nodes(list)) = allocated
      BY <2>1, <2>2 DEF Holds, Members, ToSet
  <2> QED BY <2>3 DEF IInv, Owned, TimersOfConnections
<1> QED BY <1>1, Invariant, PTL

\* The chain of alarms never breaks, in whatever order signals and events are handled.
THEOREM AlarmsGoOn == Spec => []AlarmNeverLost
<1>1. IInv => AlarmNeverLost
    BY DEF IInv
<1> QED BY <1>1, Invariant, PTL

\* TimerHandler closes exactly the connections that have been silent for Lifetime
\* periods, although it stops at the first timer that has not expired.
THEOREM SilentAreClosed == Spec => OnlySilentAreClosed
<1> DEFINE A == timeout /\ ~timeout' => \A fd \in open : fd \notin open' <=> silent[fd] >= Lifetime
<1>1. IInv /\ [Next]_vars => [A]_vars
  <2> SUFFICES ASSUME IInv, Next PROVE A
      OBVIOUS
  <2>1. CASE HandleTimeout
    <3>1. open' = open \ {fd \in open : timer[fd] \in ToSet(Expired(list, 0))}
        BY <2>1 DEF HandleTimeout, CloseFds
    <3> QED BY <3>1, ExpiredAreSilent
  <2>2. CASE HandlePipe
      BY <2>2 DEF HandlePipe, IInv, TypeOK
  <2>3. CASE UNCHANGED timeout
      BY <2>3
  <2>4. HandleTimeout \/ HandlePipe \/ UNCHANGED timeout
      BY DEF Next, MainStep, Connect, ClockTick, Terminate, ClientSends, ClientCloses, EpollWait,
             HandleListen, HandleData, HandleClose, HandleNothing, EndOfBatch, signalVars
  <2> QED BY <2>1, <2>2, <2>3, <2>4
<1>2. [][IInv /\ [Next]_vars => [A]_vars]_vars
    BY <1>1, PTL
<1> QED BY <1>1, Invariant, PTL DEF Spec, OnlySilentAreClosed

(***************************************************************************)
(* The list on its own                                                     *)
(***************************************************************************)

CONSTANTS Delays, MaxOverdue    \* TimerList's
VARIABLES kept, running, called \* its list, allocated and called

L == INSTANCE TimerList WITH list <- kept, allocated <- running

\* TimerList walks its list as the server does.
LEMMA SameWalk ==
    ASSUME NEW l, NEW from
    PROVE  L!Walk(l, from) = Walk(l, from)
BY DEF L!Walk, Walk, L!Cardinality, Cardinality

\* It searches and links as the server does.
LEMMA SameSteps ==
    ASSUME NEW l, NEW t, NEW x, NEW w, NEW nodes
    PROVE  /\ L!Link(l, t, x) = Link(l, t, x)
           /\ L!Delete(l, nodes) = Delete(l, nodes)
           /\ L!Min(nodes) = Min(nodes)
           /\ L!Nodes(l) = Nodes(l)
           /\ L!ToSet(w) = ToSet(w)
           /\ L!Last(w) = Last(w)
<1>1. L!Link(l, t, x) = Link(l, t, x)
    BY DEF L!Link, Link
<1>2. L!Delete(l, nodes) = Delete(l, nodes)
    BY DEF L!Delete, Delete
<1>3. L!Min(nodes) = Min(nodes)
    BY DEF L!Min, Min
<1>4. L!Nodes(l) = Nodes(l)
    BY SameWalk DEF L!Nodes, Nodes
<1>5. L!ToSet(w) = ToSet(w)
    BY DEF L!ToSet, ToSet
<1>6. L!Last(w) = Last(w)
    BY DEF L!Last, Last
<1> QED BY <1>1, <1>2, <1>3, <1>4, <1>5, <1>6

\* Its private AddTimer is the server's.
LEMMA SameAddBehind ==
    ASSUME NEW l, NEW t, NEW from
    PROVE  L!AddBehind(l, t, from) = AddBehind(l, t, from)
<1>1. L!Walk(l, from) = Walk(l, from)
    BY SameWalk
<1>2. \A S : L!Min(S) = Min(S)
    BY SameSteps
<1>3. \A w : L!Position(l, t, w) = Position(l, t, w)
    BY <1>2 DEF L!Position, Position
<1>4. \A m, b, a : L!Link(m, b, a) = Link(m, b, a)
    BY SameSteps
<1> QED BY <1>1, <1>3, <1>4 DEF L!AddBehind, AddBehind

\* Its member functions are the server's.
LEMMA SameFunctions ==
    ASSUME NEW l, NEW t, NEW now
    PROVE  /\ L!AddTimer(l, t) = AddTimer(l, t)
           /\ L!AdjustTimer(l, t) = AdjustTimer(l, t)
           /\ L!DeleteTimer(l, t) = DeleteTimer(l, t)
           /\ L!Expired(l, now) = Expired(l, now)
           /\ L!Tick(l, now) = Tick(l, now)
<1>1. \A m, from : L!AddBehind(m, t, from) = AddBehind(m, t, from)
    BY SameAddBehind
<1>2. \A m, b, a : L!Link(m, b, a) = Link(m, b, a)
    BY SameSteps
<1>3. \A m, S : L!Delete(m, S) = Delete(m, S)
    BY SameSteps
<1>4. L!Nodes(l) = Nodes(l) /\ (\A S : L!Min(S) = Min(S))
    BY SameSteps
<1>5. \A w : L!ToSet(w) = ToSet(w) /\ L!Last(w) = Last(w)
    BY SameSteps
<1>6. L!AddTimer(l, t) = AddTimer(l, t)
    BY <1>1, <1>2 DEF L!AddTimer, AddTimer
<1>7. L!AdjustTimer(l, t) = AdjustTimer(l, t)
    BY <1>1, <1>2 DEF L!AdjustTimer, AdjustTimer
<1>8. L!Unlink(l, t) = Unlink(l, t)
    BY <1>2 DEF L!Unlink, Unlink
<1>9. L!DeleteTimer(l, t) = DeleteTimer(l, t)
    BY <1>3, <1>8 DEF L!DeleteTimer, DeleteTimer
<1>10. L!Expired(l, now) = Expired(l, now)
    BY <1>4 DEF L!Expired, Expired
<1>11. L!Tick(l, now) = Tick(l, now)
  <2> DEFINE gone == Expired(l, now)
             head == l.next[Last(gone)]
             rest == [l EXCEPT !.head = head]
             left == IF head = None THEN rest ELSE [rest EXCEPT !.prev[head] = None]
  <2>1. Tick(l, now) = IF gone = <<>> THEN l ELSE Delete(left, ToSet(gone))
      BY DEF Tick
  <2>2. L!Tick(l, now) = IF gone = <<>> THEN l ELSE L!Delete(left, L!ToSet(gone))
    <3>1. L!Last(L!Expired(l, now)) = Last(Expired(l, now))
        BY <1>5, <1>10
    <3> DEFINE G == L!Expired(l, now)
               h == l.next[L!Last(G)]
               r == [l EXCEPT !.head = h]
    <3>2. L!Tick(l, now) = IF G = <<>> THEN l
                           ELSE L!Delete(IF h = None THEN r ELSE [r EXCEPT !.prev[h] = None], L!ToSet(G))
        BY DEF L!Tick
    <3>3. G = gone /\ h = head
        BY <1>10, <3>1
    <3> HIDE DEF G, h, gone, head
    <3> QED BY <3>2, <3>3
  <2>3. L!Delete(left, L!ToSet(gone)) = Delete(left, ToSet(gone))
    <3> HIDE DEF left, gone
    <3> QED BY <1>3, <1>5
  <2> QED BY <2>1, <2>2, <2>3
<1> QED BY <1>6, <1>7, <1>9, <1>10, <1>11

\* What a program that keeps one list relies on: what delete has taken, or new has
\* not returned yet, points nowhere.
ListInv ==
    /\ running \subseteq Timers
    /\ \E s, n : Holds(kept, s, n, running)
    /\ Apart(EmptyList, kept, running)

\* The nodes that are not in the list point nowhere.
LEMMA ApartMeans ==
    ASSUME NEW l, NEW nodes
    PROVE  Apart(EmptyList, l, nodes) <=>
           \A x \in Timers \ nodes : l.next[x] = None /\ l.prev[x] = None
BY DEF Apart, EmptyList

\* An operation that changes the pointers of nodes only, in the end.
LEMMA ApartStays ==
    ASSUME NEW l, NEW m, NEW nodes, Apart(EmptyList, l, nodes), Apart(l, m, nodes)
    PROVE  Apart(EmptyList, m, nodes)
BY DEF Apart, EmptyList

\* Of more nodes less is known.
LEMMA ApartLess ==
    ASSUME NEW l, NEW m, NEW nodes, NEW more, Apart(l, m, nodes), nodes \subseteq more
    PROVE  Apart(l, m, more)
BY DEF Apart

\* What becomes blank points nowhere.
LEMMA ApartMore ==
    ASSUME NEW l, NEW nodes, NEW gone, Apart(EmptyList, l, nodes), Blank(l, gone)
    PROVE  Apart(EmptyList, l, nodes \ gone)
BY DEF Apart, Blank, EmptyList

\* AddTimer of a new timer that expires after d.
LEMMA AddStep ==
    ASSUME ListInv, NEW t \in Timers, NEW d \in Int, L!Add(t, d)
    PROVE  /\ t \notin running /\ running' = running \cup {t} /\ called' = <<>> /\ ListInv'
           /\ \A x \in Timers : kept'.expire[x] = IF x = t THEN d ELSE kept.expire[x]
<1> DEFINE l == [kept EXCEPT !.expire[t] = d]
<1>1. /\ t \notin running /\ running' = running \cup {t} /\ called' = <<>>
      /\ kept' = AddTimer(l, t)
    BY SameFunctions DEF L!Add
<1>2. PICK s, n : Holds(kept, s, n, running)
    BY DEF ListInv
<1>3. ListType(kept) /\ kept.next[t] = None /\ kept.prev[t] = None /\ n \in Nat
    BY <1>1, <1>2, ApartMeans DEF ListInv, Holds, IsList, Distinct
<1>4. Anew(kept, l, t, d) /\ l.next = kept.next /\ l.prev = kept.prev
  <2>1. l.next = kept.next /\ l.prev = kept.prev
      BY <1>3 DEF ListType
  <2>2. [kept.prev EXCEPT ![t] = None] = kept.prev /\ [kept.next EXCEPT ![t] = None] = kept.next
      BY <1>3 DEF ListType
  <2>3. [kept EXCEPT !.prev[t] = None, !.next[t] = None, !.expire[t] = d]
            = [kept EXCEPT !.prev = [kept.prev EXCEPT ![t] = None],
                           !.next = [kept.next EXCEPT ![t] = None], !.expire[t] = d]
      BY <1>3 DEF ListType
  <2>4. [kept EXCEPT !.prev = kept.prev, !.next = kept.next, !.expire[t] = d] = l
      BY <1>3 DEF ListType
  <2> QED BY <2>1, <2>2, <2>3, <2>4 DEF Anew
<1> HIDE DEF l
<1>5. /\ Holds(l, s, n, running) /\ l.next[t] = None /\ l.prev[t] = None
      /\ \A x \in Timers : l.expire[x] = IF x = t THEN d ELSE kept.expire[x]
    BY <1>1, <1>2, <1>4, FreshHolds
<1>6. /\ AddTimer(l, t).expire = l.expire
      /\ Apart(l, AddTimer(l, t), running \cup {t})
      /\ \E r : Holds(AddTimer(l, t), r, n + 1, running \cup {t})
    BY <1>1, <1>5, AddTimerHolds
<1>7. Apart(EmptyList, l, running \cup {t})
    BY <1>4, ApartMeans DEF ListInv
<1>8. Apart(EmptyList, kept', running \cup {t})
    BY <1>1, <1>6, <1>7, ApartStays
<1> QED BY <1>1, <1>5, <1>6, <1>8 DEF ListInv

\* AdjustTimer of a timer that is to expire later.
LEMMA AdjustStep ==
    ASSUME ListInv, NEW t \in Timers, NEW d \in Int, L!Adjust(t, d)
    PROVE  /\ t \in running /\ running' = running /\ called' = <<>> /\ ListInv'
           /\ kept.expire[t] <= d
           /\ \A x \in Timers : kept'.expire[x] = IF x = t THEN d ELSE kept.expire[x]
<1> DEFINE e == [kept EXCEPT !.expire[t] = d]
<1>2. PICK s, n : Holds(kept, s, n, running)
    BY DEF ListInv
<1>a. kept.expire[t] \in Int /\ ListType(kept)
    BY <1>2 DEF Holds, ListType
<1>1. /\ t \in running /\ running' = running /\ called' = <<>> /\ kept.expire[t] <= d
      /\ kept' = AdjustTimer(e, t)
    BY <1>a, SameFunctions DEF L!Adjust
<1>3. Given(kept, e, t, d)
    BY DEF Given
<1>4. \A x \in Timers : e.expire[x] = IF x = t THEN d ELSE kept.expire[x]
    BY <1>a DEF ListType
<1> HIDE DEF e
<1>5. /\ AdjustTimer(e, t).expire = e.expire
      /\ Apart(kept, AdjustTimer(e, t), running)
      /\ \E r : Holds(AdjustTimer(e, t), r, n, running)
    BY <1>1, <1>2, <1>3, AdjustTimerHolds
<1>6. Apart(EmptyList, kept', running)
    BY <1>1, <1>5, ApartStays DEF ListInv
<1> QED BY <1>1, <1>4, <1>5, <1>6 DEF ListInv

\* DeleteTimer.
LEMMA CancelStep ==
    ASSUME ListInv, NEW t \in Timers, L!Cancel(t)
    PROVE  /\ t \in running /\ running' = running \ {t} /\ called' = <<>> /\ ListInv'
           /\ SameExpiry(kept, kept', {t})
<1>1. /\ t \in running /\ running' = running \ {t} /\ called' = <<>>
      /\ kept' = DeleteTimer(kept, t)
    BY SameFunctions DEF L!Cancel
<1>2. PICK s, n : Holds(kept, s, n, running)
    BY DEF ListInv
<1>3. SameExpiry(kept, DeleteTimer(kept, t), {t}) /\ Blank(DeleteTimer(kept, t), {t})
    BY <1>1, <1>2, DeleteTimerHolds
<1>4. Apart(kept, DeleteTimer(kept, t), running)
    BY <1>1, <1>2, DeleteTimerHolds
<1>5. \E r : Holds(DeleteTimer(kept, t), r, n - 1, running \ {t})
    BY <1>1, <1>2, DeleteTimerHolds
<1>6. Apart(EmptyList, kept', running)
    BY <1>1, <1>4, ApartStays DEF ListInv
<1>7. Apart(EmptyList, kept', running \ {t})
    BY <1>1, <1>3, <1>6, ApartMore
<1> QED BY <1>1, <1>3, <1>5, <1>7 DEF ListInv

\* Tick.
LEMMA TickStep ==
    ASSUME ListInv, L!TickNow
    PROVE  /\ ToSet(called') = Overdue(kept, running, 0)
           /\ running' = running \ Overdue(kept, running, 0) /\ ListInv'
           /\ SameExpiry(kept, kept', Overdue(kept, running, 0))
<1> DEFINE gone == Overdue(kept, running, 0)
<1>1. /\ called' = Expired(kept, 0) /\ kept' = Tick(kept, 0)
      /\ running' = running \ ToSet(called')
    BY SameFunctions, SameSteps DEF L!TickNow
<1>2. PICK s, n : Holds(kept, s, n, running)
    BY DEF ListInv
<1>3. gone = Overdue(kept, running, 0) /\ 0 \in Int
    OBVIOUS
<1> HIDE DEF gone
<1>4. ToSet(Expired(kept, 0)) = gone
    BY <1>2, <1>3, TickHolds
<1>5. SameExpiry(kept, Tick(kept, 0), gone) /\ Blank(Tick(kept, 0), gone)
    BY <1>2, <1>3, TickHolds
<1>6. Apart(kept, Tick(kept, 0), running)
    BY <1>2, <1>3, TickHolds
<1>7. \E r, m : Holds(Tick(kept, 0), r, m, running \ gone)
    BY <1>2, <1>3, TickHolds
<1>8. Apart(EmptyList, kept', running)
    BY <1>1, <1>6, ApartStays DEF ListInv
<1>9. Apart(EmptyList, kept', running \ gone)
    BY <1>1, <1>5, <1>8, ApartMore
<1> QED BY <1>1, <1>3, <1>4, <1>5, <1>7, <1>9 DEF ListInv

\* Time.
LEMMA TimeStep ==
    ASSUME ListInv, L!TimePasses
    PROVE  /\ running' = running /\ called' = <<>> /\ ListInv'
           /\ \A x \in running : kept'.expire[x] = kept.expire[x] - 1
<1> DEFINE E == [t \in Timers |-> IF t \in running THEN kept.expire[t] - 1 ELSE 0]
<1>1. PICK s, n : Holds(kept, s, n, running)
    BY DEF ListInv
<1>2. ListType(kept) /\ running \subseteq Timers
    BY <1>1 DEF Holds, ListInv
<1>3. kept' = [kept EXCEPT !.expire = E] /\ running' = running /\ called' = <<>>
    BY <1>2 DEF L!TimePasses, ListType
<1>4. E \in [Timers -> Int] /\ \A x \in running : E[x] = kept.expire[x] - 1
    BY <1>2 DEF ListType
<1> HIDE DEF E
<1>5. Holds([kept EXCEPT !.expire = E], s, n, running)
    BY <1>1, <1>4, CloserHolds
<1>6. kept'.expire = E /\ kept'.next = kept.next /\ kept'.prev = kept.prev
    BY <1>2, <1>3 DEF ListType
<1>7. Apart(EmptyList, kept', running)
    BY <1>6, ApartMeans DEF ListInv
<1> QED BY <1>2, <1>3, <1>4, <1>5, <1>6, <1>7 DEF ListInv

\* A list that holds nodes is sound and its walk meets them.
LEMMA HoldsMeans ==
    ASSUME NEW l, NEW nodes, \E s, n : Holds(l, s, n, nodes)
    PROVE  L!ToSet(L!Nodes(l)) = nodes /\ L!Linked(l) /\ L!Sorted(l)
<1>1. PICK s, n : Holds(l, s, n, nodes)
    OBVIOUS
<1>2. L!Nodes(l) = [i \in 1..n |-> s[i]] /\ n \in Nat
  <2>1. IsList(l, s, n)
      BY <1>1 DEF Holds
  <2>2. Nodes(l) = [i \in 1..n |-> s[i]]
      BY <2>1, NodesAre
  <2>3. L!Nodes(l) = Nodes(l)
      BY SameSteps
  <2> QED BY <2>1, <2>2, <2>3 DEF IsList, Distinct
<1> DEFINE w == L!Nodes(l)
<1>3. /\ DOMAIN w = 1..n /\ (\A i \in 1..n : w[i] = s[i])
      /\ w # <<>> => n > 0 /\ Last(w) = s[n]
  <2>1. DOMAIN w = 1..n /\ Len(w) = n /\ \A i \in 1..n : w[i] = s[i]
      BY <1>2
  <2>2. w # <<>> => n > 0
      BY <1>2
  <2>3. n > 0 => Last(w) = s[n]
      BY <1>2, <2>1 DEF Last
  <2> QED BY <2>1, <2>2, <2>3
<1>4. L!ToSet(w) = nodes
  <2>1. L!ToSet(w) = ToSet(w)
      BY SameSteps
  <2>2. ToSet(w) = {s[i] : i \in 1..n}
      BY <1>3 DEF ToSet
  <2> QED BY <1>1, <2>1, <2>2 DEF Holds, Members
<1>5. L!Linked(l)
  <2>1. \A i, j \in 1..n : w[i] = w[j] => i = j
    <3>1. \A i, j \in 1..n : s[i] = s[j] => i = j
        BY <1>1 DEF Holds, IsList, Distinct
    <3>2. \A i \in 1..n : w[i] = s[i]
        BY <1>3
    <3> HIDE DEF w
    <3> QED BY <3>1, <3>2
  <2>2. ASSUME NEW i \in 1..n PROVE l.prev[w[i]] = IF i = 1 THEN None ELSE w[i - 1]
    <3>1. i # 1 => i - 1 \in 1..n
        BY <1>2
    <3>2. l.prev[s[i]] = IF i = 1 THEN None ELSE s[i - 1]
        BY <1>1 DEF Holds, IsList
    <3> QED BY <1>3, <3>1, <3>2
  <2>3. w # <<>> => l.tail = L!Last(w)
      BY <1>1, <1>3, SameSteps DEF Holds, IsList
  <2> HIDE DEF w
  <2> QED BY <1>3, <2>1, <2>2, <2>3 DEF L!Linked, w
<1>6. L!Sorted(l)
    BY <1>1, <1>3 DEF L!Sorted, Holds, InOrder
<1> QED BY <1>4, <1>5, <1>6

\* The empty list holds nothing.
LEMMA ListInit == L!Init => ListInv
<1> SUFFICES ASSUME L!Init PROVE ListInv
    OBVIOUS
<1>1. kept = EmptyList /\ running = {}
    BY DEF L!Init, L!EmptyList, EmptyList
<1>2. \E s, n : Holds(EmptyList, s, n, {})
  <2>1. \E s, n : n = 0 /\ s = <<>>
      OBVIOUS
  <2>2. PICK s, n : n = 0 /\ s = <<>>
      BY <2>1
  <2>3. ListType(EmptyList)
      BY DEF EmptyList, ListType
  <2>4. Holds(EmptyList, s, n, {})
      BY <2>2, <2>3 DEF EmptyList, Holds, IsList, Distinct, InOrder, Members
  <2> QED BY <2>4
<1>3. Apart(EmptyList, EmptyList, {})
    BY DEF Apart
<1> QED BY <1>1, <1>2, <1>3 DEF ListInv

\* Every operation keeps the list a list in order of expiry.
LEMMA ListNext ==
    ASSUME Delays \subseteq Int
    PROVE  ListInv /\ [L!Next]_(L!listVars) => ListInv'
<1> SUFFICES ASSUME ListInv, [L!Next]_(L!listVars) PROVE ListInv'
    OBVIOUS
<1>1. ASSUME NEW t \in Timers, NEW d \in Delays, L!Add(t, d) PROVE ListInv'
    BY <1>1, AddStep
<1>2. ASSUME NEW t \in Timers, NEW d \in Delays, L!Adjust(t, d) PROVE ListInv'
    BY <1>2, AdjustStep
<1>3. ASSUME NEW t \in Timers, L!Cancel(t) PROVE ListInv'
    BY <1>3, CancelStep
<1>4. CASE L!TickNow
    BY <1>4, TickStep
<1>5. CASE L!TimePasses
    BY <1>5, TimeStep
<1>6. CASE UNCHANGED L!listVars
    BY <1>6 DEF L!listVars, ListInv
<1> QED BY <1>1, <1>2, <1>3, <1>4, <1>5, <1>6 DEF L!Next

\* The inductive invariant holds in every state.
LEMMA ListInvariant ==
    ASSUME Delays \subseteq Int
    PROVE  L!Spec => []ListInv
BY ListInit, ListNext, PTL DEF L!Spec

\* After any mixture of AddTimer, AdjustTimer, DeleteTimer and Tick, the links of
\* the list agree in both directions, tail is its last node and it is in order of
\* expiry.
THEOREM ListStaysSound ==
    ASSUME Delays \subseteq Int
    PROVE  L!Spec => []L!ListIsSound
<1>1. ListInv => L!ListIsSound
    BY HoldsMeans DEF ListInv, L!ListIsSound
<1> QED BY <1>1, ListInvariant, PTL

\* One step of the list is a step of the timer service or none.
LEMMA ServiceStep ==
    ASSUME Delays \subseteq Int, None \notin Int, ListInv, ListInv', [L!Next]_(L!listVars)
    PROVE  [L!Service!Operation \/ L!Service!Fire \/ L!Service!Elapse]_(L!Service!serviceVars)
<1>1. /\ L!ToSet(L!Nodes(kept)) = running /\ L!ToSet(L!Nodes(kept')) = running'
      /\ running \subseteq Timers /\ running' \subseteq Timers
    BY HoldsMeans DEF ListInv
<1>2. \A x \in Timers : kept.expire[x] # None /\ kept.expire[x] \in Int
    BY DEF ListInv, Holds, ListType
<1>3. L!ToSet(<<>>) = {} /\ L!ToSet(called') = ToSet(called')
    BY SameSteps DEF ToSet
<1>4. ASSUME NEW t \in Timers, NEW d \in Delays, L!Add(t, d) PROVE L!Service!Add(t, d)
  <2>1. /\ t \notin running /\ running' = running \cup {t} /\ called' = <<>>
        /\ \A x \in Timers : kept'.expire[x] = IF x = t THEN d ELSE kept.expire[x]
      BY <1>4, AddStep
  <2> QED BY <1>1, <1>2, <1>3, <2>1 DEF L!Service!Add, L!Service!Running
<1>5. ASSUME NEW t \in Timers, NEW d \in Delays, L!Adjust(t, d) PROVE L!Service!Prolong(t, d)
  <2>1. /\ t \in running /\ running' = running /\ called' = <<>> /\ kept.expire[t] <= d
        /\ \A x \in Timers : kept'.expire[x] = IF x = t THEN d ELSE kept.expire[x]
      BY <1>5, AdjustStep
  <2> QED BY <1>1, <1>2, <1>3, <2>1 DEF L!Service!Prolong, L!Service!Running
<1>6. ASSUME NEW t \in Timers, L!Cancel(t) PROVE L!Service!Remove(t)
  <2>1. /\ t \in running /\ running' = running \ {t} /\ called' = <<>>
        /\ SameExpiry(kept, kept', {t})
      BY <1>6, CancelStep
  <2> QED BY <1>1, <1>2, <1>3, <2>1 DEF L!Service!Remove, L!Service!Running, SameExpiry
<1>7. ASSUME L!TickNow PROVE L!Service!Fire
  <2>1. /\ ToSet(called') = Overdue(kept, running, 0)
        /\ running' = running \ Overdue(kept, running, 0)
        /\ SameExpiry(kept, kept', Overdue(kept, running, 0))
      BY <1>7, TickStep
  <2> QED BY <1>1, <1>2, <1>3, <2>1 DEF L!Service!Fire, L!Service!Running, SameExpiry, Overdue
<1>8. ASSUME L!TimePasses PROVE L!Service!Elapse
  <2>1. /\ running' = running /\ called' = <<>>
        /\ \A x \in running : kept'.expire[x] = kept.expire[x] - 1
      BY <1>8, TimeStep
  <2> QED BY <1>1, <1>2, <1>3, <2>1 DEF L!Service!Elapse, L!Service!Running
<1>9. CASE UNCHANGED L!listVars
    BY <1>9 DEF L!listVars, L!Service!serviceVars
<1> QED BY <1>4, <1>5, <1>6, <1>7, <1>8, <1>9 DEF L!Next, L!Service!Operation

\* As TimersMC calls it.
ListImplementsTimerService == L!ImplementsTimerService

\* SortTimerList is a timer service: every timer that is not deleted fires exactly
\* once, at the first Tick at which it is due, however many timers there are. None,
\* the null pointer, is not a time.
THEOREM ListIsTimerService ==
    ASSUME Delays \subseteq Int, None \notin Int
    PROVE  L!Spec => ListImplementsTimerService
<1>1. L!Init => L!Service!Init
  <2> SUFFICES ASSUME L!Init PROVE L!Service!Init
      OBVIOUS
  <2>1. L!ToSet(L!Nodes(kept)) = {} /\ called = <<>>
      BY ListInit, HoldsMeans DEF L!Init, ListInv
  <2>2. L!ToSet(<<>>) = {}
      BY SameSteps DEF ToSet
  <2> QED BY <2>1, <2>2 DEF L!Service!Init
<1>2. ListInv /\ ListInv' /\ [L!Next]_(L!listVars)
          => [L!Service!Operation \/ L!Service!Fire \/ L!Service!Elapse]_(L!Service!serviceVars)
    BY ServiceStep
<1> QED BY <1>1, <1>2, ListInvariant, PTL
    DEF L!Spec, ListImplementsTimerService, L!ImplementsTimerService, L!Service!ClockSpec
=============================================================================
