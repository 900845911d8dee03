------------------------- MODULE DestinationsProofs -------------------------
(***************************************************************************)
(* The arithmetic of destination lists, for lists of any length over any   *)
(* namespaces and names.  What the loops compute is proved by induction    *)
(* over the number of elements they have handled; the induction is stated  *)
(* of a set of numbers, which the provers can instantiate.                 *)
(***************************************************************************)
EXTENDS Destinations, WellFoundedInduction, FiniteSetTheorems, TLAPS

---------------------------------------------------------------------------
(* Induction and iteration.                                                *)

\* Induction over the natural numbers.
LEMMA Induction ==
    ASSUME NEW T, 0 \in T, \A n \in Nat : n \in T => n + 1 \in T
    PROVE  Nat \subseteq T
<1> DEFINE less == OpToRel(<, Nat)
           rest == {n \in Nat : n \notin T}
<1>1. IsWellFoundedOn(less, Nat)
  BY NatLessThanWellFounded
<1>2. \A x, y \in Nat : <<x, y>> \in less <=> x < y
  BY DEF OpToRel
<1>3. ASSUME rest # {} PROVE FALSE
  <2>1. rest \subseteq Nat
    OBVIOUS
  <2> HIDE DEF less
  <2>2. PICK x \in rest : \A y \in rest : ~(<<y, x>> \in less)
    <3> HIDE DEF rest
    <3> QED BY <1>1, <1>3, <2>1, WFMin
  <2>3. x # 0 /\ x - 1 \in Nat
    OBVIOUS
  <2>4. <<x - 1, x>> \in less
    BY <1>2, <2>3
  <2>5. x - 1 \notin rest
    <3> HIDE DEF rest
    <3> QED BY <2>2, <2>4
  <2> QED BY <2>3, <2>5
<1> QED BY <1>3

\* Induction along a loop of n steps.
LEMMA LoopInduction ==
    ASSUME NEW n \in Nat, NEW T, 0 \in T, \A i \in 1..n : i - 1 \in T => i \in T
    PROVE  0..n \subseteq T
<1> DEFINE early == {i \in Nat : i <= n => i \in T}
<1>1. 0 \in early
  OBVIOUS
<1>2. ASSUME NEW i \in Nat, i \in early PROVE i + 1 \in early
  <2>1. CASE i + 1 <= n
    <3>1. i + 1 \in 1..n /\ (i + 1) - 1 = i /\ i \in T
      BY <1>2, <2>1
    <3> QED BY <3>1
  <2>2. CASE ~(i + 1 <= n)
    BY <2>2
  <2> QED BY <2>1, <2>2
<1>3. Nat \subseteq early
  <2> HIDE DEF early
  <2> QED BY <1>1, <1>2, Induction
<1> QED BY <1>3

\* The runs of a loop of n steps with states in A, seen as functions of the
\* number of steps taken.
Loops(n, A, base, step) ==
    {f \in [0..n -> A] : f[0] = base /\ \A i \in 1..n : f[i] = step[i][f[i - 1]]}

\* There is one.
LEMMA LoopExists ==
    ASSUME NEW n \in Nat, NEW A, NEW base \in A, NEW step \in [1..n -> [A -> A]]
    PROVE  Loops(n, A, base, step) # {}
<1> DEFINE T == {k \in 0..n : Loops(k, A, base, step) # {}}
<1>1. 0 \in T
  <2> DEFINE g == [i \in 0..0 |-> base]
  <2>1. g \in Loops(0, A, base, step) /\ 0 \in 0..n
    BY DEF Loops
  <2> HIDE DEF g
  <2> QED BY <2>1
<1>2. ASSUME NEW k \in 1..n, k - 1 \in T PROVE k \in T
  <2>1. PICK f \in [0..(k - 1) -> A] :
                f[0] = base /\ \A i \in 1..(k - 1) : f[i] = step[i][f[i - 1]]
    BY <1>2 DEF Loops
  <2> DEFINE next == step[k][f[k - 1]]
             g == [i \in 0..k |-> IF i = k THEN next ELSE f[i]]
  <2>2. next \in A
    OBVIOUS
  <2>3. g \in [0..k -> A]
    BY <2>2
  <2>4. g[0] = base
    BY <2>1
  <2>5. ASSUME NEW i \in 1..k PROVE g[i] = step[i][g[i - 1]]
    <3>1. i - 1 \in 0..k /\ i - 1 # k /\ g[i - 1] = f[i - 1]
      OBVIOUS
    <3>2. CASE i = k
      BY <3>1, <3>2
    <3>3. CASE i # k
      BY <2>1, <3>1, <3>3
    <3> QED BY <3>2, <3>3
  <2> HIDE DEF g
  <2>6. g \in Loops(k, A, base, step) /\ k \in 0..n
    BY <2>3, <2>4, <2>5 DEF Loops
  <2> QED BY <2>6
<1>3. 0..n \subseteq T
  <2> HIDE DEF T
  <2> QED BY <1>1, <1>2, LoopInduction
<1> QED BY <1>3

\* f is that run, as a recursive function on the natural numbers.
IsLoop(f, n, base, step) ==
    f = [i \in Nat |-> IF i \notin 1..n THEN base ELSE step[i][f[i - 1]]]

LEMMA LoopFunction ==
    ASSUME NEW n \in Nat, NEW A, NEW base \in A, NEW step \in [1..n -> [A -> A]]
    PROVE  \E f \in [Nat -> A] : IsLoop(f, n, base, step)
<1>1. PICK g \in Loops(n, A, base, step) : TRUE
  BY LoopExists
<1>2. /\ g \in [0..n -> A] /\ g[0] = base
      /\ \A i \in 1..n : g[i] = step[i][g[i - 1]]
  BY <1>1 DEF Loops
<1> DEFINE f == [i \in Nat |-> IF i \in 0..n THEN g[i] ELSE base]
<1>3. f \in [Nat -> A]
  BY <1>2
<1>4. ASSUME NEW i \in Nat
      PROVE  f[i] = IF i \notin 1..n THEN base ELSE step[i][f[i - 1]]
  <2>1. CASE i \in 1..n
    <3>1. i - 1 \in Nat /\ i - 1 \in 0..n /\ i \in 0..n
      BY <2>1
    <3>2. f[i - 1] = g[i - 1] /\ f[i] = g[i]
      BY <3>1
    <3> QED BY <1>2, <2>1, <3>2
  <2>2. CASE i \notin 1..n
    BY <1>2, <2>2
  <2> QED BY <2>1, <2>2
<1>5. f = [i \in Nat |-> IF i \notin 1..n THEN base ELSE step[i][f[i - 1]]]
  <2> DEFINE h == [i \in Nat |-> IF i \notin 1..n THEN base ELSE step[i][f[i - 1]]]
  <2>1. \A i \in Nat : f[i] = h[i]
    BY <1>4
  <2>2. f = [i \in Nat |-> f[i]] /\ h = [i \in Nat |-> h[i]]
    BY <1>3
  <2> HIDE DEF f, h
  <2>3. f = h
    BY <2>1, <2>2
  <2> QED BY <2>3 DEF h
<1> HIDE DEF f
<1> QED BY <1>3, <1>5 DEF IsLoop

---------------------------------------------------------------------------
(* Lists.                                                                  *)

LEMMA IsList ==
    ASSUME NEW T, NEW n \in Nat, NEW f \in [1..n -> T]
    PROVE  f \in Seq(T) /\ Len(f) = n
OBVIOUS

\* Where the elements of a concatenation come from.
ComesFrom(s, t, i) ==
    /\ i \in Nat /\ Len(s) \in Nat
    /\ i <= Len(s) => i \in DOMAIN s /\ (s \o t)[i] = s[i]
    /\ i > Len(s) => i - Len(s) \in DOMAIN t /\ (s \o t)[i] = t[i - Len(s)]

LEMMA Concatenation ==
    ASSUME NEW T, NEW s \in Seq(T), NEW t \in Seq(T), NEW i \in DOMAIN (s \o t)
    PROVE  ComesFrom(s, t, i)
<1>1. Len(s \o t) = Len(s) + Len(t) /\ Len(s) \in Nat /\ Len(t) \in Nat
  OBVIOUS
<1>2. DOMAIN (s \o t) = 1..(Len(s) + Len(t))
  OBVIOUS
<1>3. i \in Nat /\ i >= 1 /\ i <= Len(s) + Len(t)
  BY <1>1, <1>2
<1>4. CASE i <= Len(s)
  BY <1>1, <1>3, <1>4 DEF ComesFrom
<1>5. CASE i > Len(s)
  BY <1>1, <1>3, <1>5 DEF ComesFrom
<1> QED BY <1>1, <1>3, <1>4, <1>5

LEMMA OneMore ==
    ASSUME NEW k \in Nat, k > 0
    PROVE  /\ k - 1 \in Nat /\ k \in 1..k
           /\ \A i : i \in 1..k <=> (i \in 1..(k - 1) \/ i = k)
           /\ \A i \in 1..(k - 1) : i < k
OBVIOUS

LEMMA ElementsOfConcatenation ==
    ASSUME NEW T, NEW s \in Seq(T), NEW t \in Seq(T)
    PROVE  ToSet(s \o t) = ToSet(s) \cup ToSet(t)
<1>1. ASSUME NEW x \in ToSet(s \o t) PROVE x \in ToSet(s) \cup ToSet(t)
  BY DEF ToSet
<1>2. ASSUME NEW x \in ToSet(s) PROVE x \in ToSet(s \o t)
  <2>1. PICK i \in 1..Len(s) : x = s[i]
    BY DEF ToSet
  <2>2. i \in DOMAIN (s \o t) /\ (s \o t)[i] = x
    BY <2>1
  <2> QED BY <2>2 DEF ToSet
<1>3. ASSUME NEW x \in ToSet(t) PROVE x \in ToSet(s \o t)
  <2>1. PICK i \in 1..Len(t) : x = t[i]
    BY DEF ToSet
  <2>2. Len(s) + i \in DOMAIN (s \o t) /\ (s \o t)[Len(s) + i] = x
    BY <2>1
  <2> QED BY <2>2 DEF ToSet
<1> QED BY <1>1, <1>2, <1>3

\* Joined appends one list after the other.
LEMMA JoinedLoop ==
    ASSUME NEW T, NEW lists \in Seq(Seq(T))
    PROVE  \E joined \in [Nat -> Seq(T)] :
              /\ joined[0] = <<>>
              /\ \A i \in 1..Len(lists) : joined[i] = joined[i - 1] \o lists[i]
              /\ Joined(lists) = joined[Len(lists)]
<1> DEFINE n == Len(lists)
           A == Seq(T)
           none == <<>>
           step == [i \in 1..n |-> [a \in A |-> a \o lists[i]]]
           joined == CHOOSE j : j = [i \in Nat |->
                        IF i \notin DOMAIN lists THEN none ELSE j[i - 1] \o lists[i]]
<1>1. /\ n \in Nat /\ none \in A /\ DOMAIN lists = 1..n
      /\ \A i \in 1..n : lists[i] \in A
      /\ \A a, b \in A : a \o b \in A
  OBVIOUS
<1>2. Joined(lists) = joined[n]
  BY DEF Joined
<1> HIDE DEF n, A, none
<1>3. step \in [1..n -> [A -> A]]
  BY <1>1
<1>4. PICK f \in [Nat -> A] : IsLoop(f, n, none, step)
  <2> HIDE DEF step, joined
  <2> QED BY <1>1, <1>3, LoopFunction
<1>5. f = [i \in Nat |-> IF i \notin DOMAIN lists THEN none ELSE f[i - 1] \o lists[i]]
  <2>1. ASSUME NEW i \in 1..n PROVE step[i][f[i - 1]] = f[i - 1] \o lists[i]
    <3>1. i - 1 \in Nat
      BY <1>1
    <3>2. f[i - 1] \in A
      BY <3>1
    <3> QED BY <3>2
  <2> QED BY <1>1, <1>4, <2>1 DEF IsLoop
<1>6. joined = [i \in Nat |->
                   IF i \notin DOMAIN lists THEN none ELSE joined[i - 1] \o lists[i]]
  BY <1>5
<1> HIDE DEF joined, step
<1>7. /\ \A i \in Nat : i \notin 1..n => joined[i] = none
      /\ \A i \in 1..n : joined[i] = joined[i - 1] \o lists[i]
  <2>1. \A i \in 1..n : i \in Nat
    BY <1>1
  <2> QED BY <1>1, <1>6, <2>1
<1>8. joined[0] = none
  BY <1>1, <1>7
<1>9. joined \in [Nat -> A]
  <2> DEFINE typed == {i \in 0..n : joined[i] \in A}
  <2>1. 0 \in typed
    BY <1>1, <1>8
  <2>2. ASSUME NEW i \in 1..n, i - 1 \in typed PROVE i \in typed
    <3>1. joined[i - 1] \in A /\ lists[i] \in A /\ i \in 0..n
      BY <1>1, <2>2
    <3> QED BY <1>1, <1>7, <3>1
  <2>3. 0..n \subseteq typed
    <3> HIDE DEF typed
    <3> QED BY <1>1, <2>1, <2>2, LoopInduction
  <2>4. \A i \in Nat : joined[i] \in A
    <3>1. \A i \in Nat : i \in 1..n => i \in 0..n
      BY <1>1
    <3> QED BY <1>1, <1>7, <2>3, <3>1
  <2> QED BY <1>6, <2>4
<1> QED BY <1>2, <1>7, <1>8, <1>9 DEF n, A, none

\* What is joined are the elements of the lists.
LEMMA JoinedElements ==
    ASSUME NEW T, NEW lists \in Seq(Seq(T))
    PROVE  /\ Joined(lists) \in Seq(T)
           /\ ToSet(Joined(lists)) = UNION {ToSet(lists[i]) : i \in DOMAIN lists}
<1>1. PICK joined \in [Nat -> Seq(T)] :
              /\ joined[0] = <<>>
              /\ \A i \in 1..Len(lists) : joined[i] = joined[i - 1] \o lists[i]
              /\ Joined(lists) = joined[Len(lists)]
  BY JoinedLoop
<1> DEFINE n == Len(lists)
           upto == {k \in 0..n : ToSet(joined[k]) = UNION {ToSet(lists[i]) : i \in 1..k}}
<1>2. n \in Nat /\ DOMAIN lists = 1..n /\ \A i \in 1..n : lists[i] \in Seq(T)
  OBVIOUS
<1> HIDE DEF n
<1>3. 0 \in upto
  <2>1. ToSet(joined[0]) = {}
    BY <1>1 DEF ToSet
  <2>2. UNION {ToSet(lists[i]) : i \in 1..0} = {}
    OBVIOUS
  <2> QED BY <1>2, <2>1, <2>2
<1>4. ASSUME NEW k \in 1..n, k - 1 \in upto PROVE k \in upto
  <2>1. k \in 0..n /\ k - 1 \in Nat /\ 1..k = (1..(k - 1)) \cup {k}
    <3> HIDE DEF upto
    <3>1. k \in Nat /\ k > 0 /\ k \in 0..n
      BY <1>2
    <3> QED BY <3>1, OneMore
  <2>2. joined[k] = joined[k - 1] \o lists[k]
    BY <1>1 DEF n
  <2>3. joined[k - 1] \in Seq(T) /\ lists[k] \in Seq(T)
    BY <1>2, <2>1
  <2>4. ToSet(joined[k]) = ToSet(joined[k - 1]) \cup ToSet(lists[k])
    BY <2>2, <2>3, ElementsOfConcatenation
  <2>5. ToSet(joined[k - 1]) = UNION {ToSet(lists[i]) : i \in 1..(k - 1)}
    BY <1>4
  <2>6. UNION {ToSet(lists[i]) : i \in 1..k} =
            (UNION {ToSet(lists[i]) : i \in 1..(k - 1)}) \cup ToSet(lists[k])
    BY <2>1
  <2> QED BY <2>1, <2>4, <2>5, <2>6
<1>5. 0..n \subseteq upto
  <2> HIDE DEF upto
  <2> QED BY <1>2, <1>3, <1>4, LoopInduction
<1>6. n \in upto
  <2>1. n \in 0..n
    BY <1>2
  <2> HIDE DEF upto
  <2> QED BY <1>5, <2>1
<1>7. Joined(lists) = joined[n]
  BY <1>1 DEF n
<1> QED BY <1>2, <1>6, <1>7

\* Within keeps what is for the places.
LEMMA WithinElements ==
    ASSUME NEW T, NEW s \in Seq(T), NEW places
    PROVE  /\ Within(s, places) \in Seq(T)
           /\ ToSet(Within(s, places)) = {e \in ToSet(s) : e.place \in places}
<1> DEFINE lists == [i \in DOMAIN s |-> IF s[i].place \in places THEN <<s[i]>> ELSE <<>>]
<1>1. DOMAIN s = 1..Len(s) /\ Len(s) \in Nat
  OBVIOUS
<1>2. ASSUME NEW i \in DOMAIN s
      PROVE  /\ lists[i] \in Seq(T)
             /\ ToSet(lists[i]) = IF s[i].place \in places THEN {s[i]} ELSE {}
  <2>1. s[i] \in T
    BY <1>1
  <2>2. <<s[i]>> \in Seq(T) /\ ToSet(<<s[i]>>) = {s[i]}
    BY <2>1 DEF ToSet
  <2>3. <<>> \in Seq(T) /\ ToSet(<<>>) = {}
    BY DEF ToSet
  <2>4. lists[i] = IF s[i].place \in places THEN <<s[i]>> ELSE <<>>
    OBVIOUS
  <2> HIDE DEF lists
  <2>5. CASE s[i].place \in places
    BY <2>2, <2>4, <2>5
  <2>6. CASE s[i].place \notin places
    BY <2>3, <2>4, <2>6
  <2> QED BY <2>5, <2>6
<1>3. lists \in [1..Len(s) -> Seq(T)] /\ DOMAIN lists = DOMAIN s
  BY <1>1, <1>2
<1>4. ToSet(s) = {s[i] : i \in DOMAIN s}
  BY DEF ToSet
<1>5. Within(s, places) = Joined(lists)
  BY DEF Within
<1> HIDE DEF lists
<1>6. lists \in Seq(Seq(T))
  BY <1>1, <1>3, IsList
<1>7. UNION {ToSet(lists[i]) : i \in DOMAIN lists} = {e \in ToSet(s) : e.place \in places}
  <2>1. ASSUME NEW i \in DOMAIN lists, NEW e \in ToSet(lists[i])
        PROVE  e \in ToSet(s) /\ e.place \in places
    BY <1>2, <1>3, <1>4
  <2>2. ASSUME NEW e \in ToSet(s), e.place \in places
        PROVE  \E i \in DOMAIN lists : e \in ToSet(lists[i])
    <3>1. PICK i \in DOMAIN s : e = s[i]
      BY <1>4
    <3> QED BY <1>2, <1>3, <2>2, <3>1
  <2> QED BY <2>1, <2>2
<1> QED BY <1>5, <1>6, <1>7, JoinedElements

LEMMA PlacesOfElements ==
    ASSUME NEW s
    PROVE  PlacesOf(s) = {e.place : e \in ToSet(s)}
BY DEF PlacesOf, ToSet

\* Sorting keeps the elements, if they are for places.
LEMMA SortedElements ==
    ASSUME NEW s \in Seq(Listed)
    PROVE  Sorted(s) \in Seq(Listed) /\ ToSet(Sorted(s)) = ToSet(s)
<1> DEFINE lists == [i \in DOMAIN PlaceOrder |-> At(s, PlaceOrder[i])]
<1>1. /\ PlaceOrder \in Seq(Places) /\ ToSet(PlaceOrder) = Places
      /\ DOMAIN PlaceOrder = 1..Len(PlaceOrder) /\ Len(PlaceOrder) \in Nat
  BY DestinationsAssumption
<1>2. ASSUME NEW i \in DOMAIN PlaceOrder
      PROVE  /\ lists[i] \in Seq(Listed)
             /\ ToSet(lists[i]) = {e \in ToSet(s) : e.place = PlaceOrder[i]}
  <2>1. lists[i] = Within(s, {PlaceOrder[i]})
    BY DEF At
  <2> HIDE DEF lists
  <2> QED BY <2>1, WithinElements
<1>3. lists \in [1..Len(PlaceOrder) -> Seq(Listed)] /\ DOMAIN lists = DOMAIN PlaceOrder
  BY <1>1, <1>2
<1>4. Sorted(s) = Joined(lists)
  BY DEF Sorted
<1> HIDE DEF lists
<1>5. lists \in Seq(Seq(Listed))
  BY <1>1, <1>3, IsList
<1>6. \A e \in ToSet(s) : \E i \in DOMAIN PlaceOrder : e.place = PlaceOrder[i]
  <2> SUFFICES ASSUME NEW e \in ToSet(s)
               PROVE  \E i \in DOMAIN PlaceOrder : e.place = PlaceOrder[i]
    OBVIOUS
  <2>1. e \in Listed
    BY DEF ToSet
  <2>2. e.place \in ToSet(PlaceOrder)
    BY <1>1, <2>1 DEF Listed
  <2> QED BY <2>2 DEF ToSet
<1>7. UNION {ToSet(lists[i]) : i \in DOMAIN lists} = ToSet(s)
  BY <1>2, <1>3, <1>6
<1> QED BY <1>4, <1>5, <1>7, JoinedElements

LEMMA BeforeIsStrict ==
    ASSUME NEW p \in Places, NEW q \in Places, Before(p, q)
    PROVE  p # q /\ ~Before(q, p)
<1>1. p[1] \in Nat /\ p[2] \in Nat /\ q[1] \in Nat /\ q[2] \in Nat
  BY DestinationsAssumption DEF Places
<1> QED BY <1>1 DEF Before

\* Sorting brings the elements in order.
LEMMA SortedInOrder ==
    ASSUME NEW s \in Seq(Listed)
    PROVE  InOrder(Sorted(s))
<1> DEFINE n == Len(PlaceOrder)
           lists == [i \in DOMAIN PlaceOrder |-> At(s, PlaceOrder[i])]
<1>1. /\ n \in Nat /\ DOMAIN PlaceOrder = 1..n
      /\ \A i \in 1..n : PlaceOrder[i] \in Places
      /\ \A i, j \in 1..n : i < j => Before(PlaceOrder[i], PlaceOrder[j])
  BY DestinationsAssumption
<1> HIDE DEF n
<1>2. ASSUME NEW k \in 1..n
      PROVE  /\ lists[k] \in Seq(Listed)
             /\ \A i \in DOMAIN lists[k] : lists[k][i].place = PlaceOrder[k]
  <2>1. lists[k] = Within(s, {PlaceOrder[k]})
    BY <1>1 DEF At
  <2> HIDE DEF lists
  <2>2. /\ lists[k] \in Seq(Listed)
        /\ ToSet(lists[k]) = {e \in ToSet(s) : e.place \in {PlaceOrder[k]}}
    BY <2>1, WithinElements
  <2>3. \A i \in DOMAIN lists[k] : lists[k][i] \in ToSet(lists[k])
    BY DEF ToSet
  <2> QED BY <2>2, <2>3
<1>3. lists \in [1..n -> Seq(Listed)]
  BY <1>1, <1>2
<1>4. Sorted(s) = Joined(lists)
  BY DEF Sorted
<1> HIDE DEF lists
<1>5. lists \in Seq(Seq(Listed)) /\ Len(lists) = n
  BY <1>1, <1>3, IsList
<1>6. PICK joined \in [Nat -> Seq(Listed)] :
              /\ joined[0] = <<>>
              /\ \A i \in 1..n : joined[i] = joined[i - 1] \o lists[i]
              /\ Joined(lists) = joined[n]
  BY <1>5, JoinedLoop
<1> DEFINE Visited(k) == \A i \in DOMAIN joined[k] :
                            \E m \in 1..k : joined[k][i].place = PlaceOrder[m]
           upto == {k \in 0..n : InOrder(joined[k]) /\ Visited(k)}
<1>7. 0 \in upto
  <2>1. DOMAIN joined[0] = {}
    BY <1>6
  <2> QED BY <1>1, <2>1 DEF InOrder
<1>8. ASSUME NEW k \in 1..n, k - 1 \in upto PROVE k \in upto
  <2> DEFINE s1 == joined[k - 1]
             s2 == lists[k]
             l == Len(s1)
  <2>1. /\ k \in 0..n /\ k - 1 \in Nat
        /\ \A m \in 1..(k - 1) : m \in 1..k /\ m \in 1..n /\ m < k
    <3> HIDE DEF upto
    <3>1. k \in Nat /\ k > 0 /\ k <= n
      BY <1>1
    <3> QED BY <1>1, <3>1
  <2>2. s1 \in Seq(Listed) /\ s2 \in Seq(Listed)
    BY <1>2, <2>1
  <2>3. InOrder(s1)
    BY <1>8
  <2>4. \A i \in DOMAIN s1 : \E m \in 1..(k - 1) : s1[i].place = PlaceOrder[m]
    BY <1>8
  <2>5. \A i \in DOMAIN s2 : s2[i].place = PlaceOrder[k]
    BY <1>2
  <2>6. joined[k] = s1 \o s2
    BY <1>6
  <2> HIDE DEF s1, s2, upto
  <2>7. l \in Nat /\ \A i \in DOMAIN (s1 \o s2) : i \in Nat
    <3>1. l \in Nat
      BY <2>2
    <3> QED BY <2>2, <3>1, Concatenation DEF ComesFrom
  <2>8. ASSUME NEW i \in DOMAIN (s1 \o s2)
        PROVE  /\ i <= l => i \in DOMAIN s1 /\ (s1 \o s2)[i] = s1[i]
               /\ i > l => i - l \in DOMAIN s2 /\ (s1 \o s2)[i] = s2[i - l]
    <3>1. ComesFrom(s1, s2, i)
      BY <2>2, Concatenation
    <3> QED BY <3>1 DEF ComesFrom
  <2> HIDE DEF l
  <2>9. Visited(k)
    <3> SUFFICES ASSUME NEW i \in DOMAIN (s1 \o s2)
                 PROVE  \E m \in 1..k : (s1 \o s2)[i].place = PlaceOrder[m]
      BY <2>6
    <3>1. CASE i <= l
      BY <2>1, <2>4, <2>8, <3>1
    <3>2. CASE i > l
      <4>1. k \in 1..k
        BY <1>1
      <4> QED BY <2>5, <2>8, <3>2, <4>1
    <3>3. i <= l \/ i > l
      BY <2>7
    <3> QED BY <3>1, <3>2, <3>3
  <2>10. InOrder(s1 \o s2)
    <3> SUFFICES ASSUME NEW i \in DOMAIN (s1 \o s2), NEW j \in DOMAIN (s1 \o s2), i < j
                 PROVE  ~Before((s1 \o s2)[j].place, (s1 \o s2)[i].place)
      BY DEF InOrder
    <3>1. i \in Nat /\ j \in Nat
      BY <2>7
    <3>2. CASE j <= l
      <4>1. i <= l
        BY <2>7, <3>1, <3>2
      <4>2. /\ i \in DOMAIN s1 /\ (s1 \o s2)[i] = s1[i]
            /\ j \in DOMAIN s1 /\ (s1 \o s2)[j] = s1[j]
        BY <2>8, <3>2, <4>1
      <4> QED BY <2>3, <4>2 DEF InOrder
    <3>3. CASE i <= l /\ j > l
      <4>2. /\ i \in DOMAIN s1 /\ (s1 \o s2)[i] = s1[i]
            /\ j - l \in DOMAIN s2 /\ (s1 \o s2)[j] = s2[j - l]
        BY <2>8, <3>3
      <4>3. PICK m \in 1..(k - 1) : s1[i].place = PlaceOrder[m]
        BY <2>4, <4>2
      <4>4. Before(PlaceOrder[m], PlaceOrder[k])
        BY <1>1, <2>1
      <4>5. ~Before(PlaceOrder[k], PlaceOrder[m])
        BY <1>1, <2>1, <4>4, BeforeIsStrict
      <4> QED BY <2>5, <4>2, <4>3, <4>5
    <3>4. CASE i > l
      <4>1. j > l
        BY <2>7, <3>1, <3>4
      <4>2. /\ i - l \in DOMAIN s2 /\ (s1 \o s2)[i] = s2[i - l]
            /\ j - l \in DOMAIN s2 /\ (s1 \o s2)[j] = s2[j - l]
        BY <2>8, <3>4, <4>1
      <4>3. ~Before(PlaceOrder[k], PlaceOrder[k])
        BY <1>1, BeforeIsStrict
      <4> QED BY <2>5, <4>2, <4>3
    <3>5. j <= l \/ (i <= l /\ j > l) \/ i > l
      BY <2>7, <3>1
    <3> QED BY <3>2, <3>3, <3>4, <3>5
  <2> QED BY <2>1, <2>6, <2>9, <2>10 DEF upto
<1>9. 0..n \subseteq upto
  <2> HIDE DEF upto
  <2> QED BY <1>1, <1>7, <1>8, LoopInduction
<1>10. n \in upto
  <2>1. n \in 0..n
    BY <1>1
  <2> HIDE DEF upto
  <2> QED BY <1>9, <2>1
<1> QED BY <1>4, <1>6, <1>10

---------------------------------------------------------------------------
(* Upsert.                                                                 *)

\* The states of its loop.
Progress(skipped) ==
    [list : Seq(Listed), copy : [Places -> Object], skipped : {skipped}, changed : BOOLEAN]

\* What one step does with entry e and the object o at its place: the list
\* gets entry e2 and the place object o2.
Upserted(acc, e, next, e2, o2) ==
    /\ next.list = Append(acc.list, e2)
    /\ next.copy = [acc.copy EXCEPT ![e.place] = o2]
    /\ e2 \in Listed /\ e2.place = e.place /\ e2.strategy = e.strategy
    /\ o2 \in Object
    /\ e.place \in acc.skipped => o2 = acc.copy[e.place]
    /\ e.place \notin acc.skipped =>
            o2.st /\ o2.data = version /\ o2.by = e.strategy /\ UpToDate(e2, o2)
    /\ e.place \notin acc.skipped /\ UpToDate(e, acc.copy[e.place]) =>
            o2 = acc.copy[e.place] /\ next.changed = acc.changed
    /\ o2 = acc.copy[e.place] \/ o2.rv = acc.copy[e.place].rv + 1
    /\ Describes(e2, o2)

LEMMA UpsertStep ==
    ASSUME NEW skipped, NEW acc \in Progress(skipped), NEW e \in Listed, version \in Nat,
           Describes(e, acc.copy[e.place])
    PROVE  \E e2, o2 : Upserted(acc, e, UpsertEntry(acc, e), e2, o2)
<1> DEFINE o == acc.copy[e.place]
           w == Written(o, e.strategy)
           e3 == [e EXCEPT !.sv = version, !.dv = w.rv]
<1>1. /\ e.place \in Places /\ e.strategy \in Strategies /\ e.sv \in Nat /\ e.dv \in Nat
      /\ acc.copy \in [Places -> Object]
  BY DEF Listed, Progress
<1>2. o \in Object
  BY <1>1
<1>3. /\ w \in Object /\ w.st /\ w.data = version /\ w.by = e.strategy
      /\ w = o \/ w.rv = o.rv + 1
  BY <1>1, <1>2 DEF Written, Object
<1>4. /\ e3 \in Listed /\ e3.place = e.place /\ e3.sv = version /\ e3.dv = w.rv
      /\ e3.strategy = e.strategy
  BY <1>1, <1>3 DEF Listed, Object
<1>5. Describes(e3, w)
  <2>1. w.rv \in Nat
    BY <1>3 DEF Object
  <2> HIDE DEF w, e3
  <2> QED BY <1>3, <1>4, <2>1 DEF Describes
<1>6. acc.copy = [acc.copy EXCEPT ![e.place] = o]
  BY <1>1
<1> HIDE DEF w
<1>7. CASE e.place \in acc.skipped
  <2>1. UpsertEntry(acc, e) = [acc EXCEPT !.list = Append(@, e)]
    BY <1>7 DEF UpsertEntry
  <2>2. Upserted(acc, e, UpsertEntry(acc, e), e, o)
    BY <1>1, <1>2, <1>6, <1>7, <2>1 DEF Upserted, Progress
  <2> QED BY <2>2
<1>8. CASE e.place \notin acc.skipped /\ UpToDate(e, o)
  <2>1. UpsertEntry(acc, e) = [acc EXCEPT !.list = Append(@, e)]
    BY <1>8 DEF UpsertEntry
  <2>2. o.st /\ o.data = version /\ o.by = e.strategy /\ UpToDate(e, o)
    BY <1>8 DEF UpToDate, Describes
  <2>3. Upserted(acc, e, UpsertEntry(acc, e), e, o)
    BY <1>1, <1>2, <1>6, <1>8, <2>1, <2>2 DEF Upserted, Progress
  <2> QED BY <2>3
<1>9. CASE e.place \notin acc.skipped /\ ~UpToDate(e, o)
  <2>1. UpsertEntry(acc, e) =
            [acc EXCEPT !.list = Append(@, e3), !.copy[e.place] = w, !.changed = TRUE]
    BY <1>9 DEF UpsertEntry, w
  <2> DEFINE next == UpsertEntry(acc, e)
  <2>2. /\ next.list = Append(acc.list, e3)
        /\ next.copy = [acc.copy EXCEPT ![e.place] = w]
    BY <2>1 DEF Progress
  <2> HIDE DEF next, e3
  <2>3. UpToDate(e3, w)
    BY <1>3, <1>4 DEF UpToDate
  <2>4. Upserted(acc, e, next, e3, w)
    BY <1>3, <1>4, <1>5, <1>9, <2>2, <2>3 DEF Upserted
  <2> QED BY <2>4 DEF next
<1> QED BY <1>7, <1>8, <1>9

LEMMA UpsertEntryTyped ==
    ASSUME NEW skipped, NEW acc \in Progress(skipped), NEW e \in Listed, version \in Nat
    PROVE  UpsertEntry(acc, e) \in Progress(skipped)
<1> DEFINE o == acc.copy[e.place]
           w == Written(o, e.strategy)
           e3 == [e EXCEPT !.sv = version, !.dv = w.rv]
<1>1. /\ e.place \in Places /\ e.strategy \in Strategies
      /\ acc.copy \in [Places -> Object] /\ acc.list \in Seq(Listed)
  BY DEF Listed, Progress
<1>2. o \in Object
  BY <1>1
<1>3. w \in Object
  BY <1>1, <1>2 DEF Written, Object
<1>4. e3 \in Listed
  BY <1>3 DEF Listed, Object
<1>5. Append(acc.list, e) \in Seq(Listed) /\ Append(acc.list, e3) \in Seq(Listed)
  BY <1>1, <1>4
<1>6. [acc.copy EXCEPT ![e.place] = w] \in [Places -> Object]
  BY <1>1, <1>3
<1>7. UpsertEntry(acc, e) \in
          {[acc EXCEPT !.list = Append(@, e)],
           [acc EXCEPT !.list = Append(@, e3), !.copy[e.place] = w, !.changed = TRUE]}
  BY DEF UpsertEntry
<1> HIDE DEF w, e3, o
<1> QED BY <1>5, <1>6, <1>7 DEF Progress

\* Upsert handles one entry after the other.
LEMMA UpsertLoop ==
    ASSUME NEW list \in Seq(Listed), NEW copies \in [Places -> Object], NEW skipped,
           version \in Nat
    PROVE  \E upserted \in [Nat -> Progress(skipped)] :
              /\ upserted[0] = [list |-> <<>>, copy |-> copies, skipped |-> skipped,
                                changed |-> FALSE]
              /\ \A i \in 1..Len(list) : upserted[i] = UpsertEntry(upserted[i - 1], list[i])
              /\ Upsert(list, copies, skipped) = upserted[Len(list)]
<1> DEFINE n == Len(list)
           A == Progress(skipped)
           start == [list |-> <<>>, copy |-> copies, skipped |-> skipped, changed |-> FALSE]
           step == [i \in 1..n |-> [acc \in A |-> UpsertEntry(acc, list[i])]]
           upserted == CHOOSE u : u = [i \in Nat |->
                          IF i \notin DOMAIN list THEN start ELSE UpsertEntry(u[i - 1], list[i])]
<1>1. n \in Nat /\ DOMAIN list = 1..n /\ \A i \in 1..n : list[i] \in Listed
  OBVIOUS
<1>2. start \in A
  BY DEF Progress
<1>3. \A i \in 1..n : \A acc \in A : UpsertEntry(acc, list[i]) \in A
  BY <1>1, UpsertEntryTyped
<1>4. Upsert(list, copies, skipped) = upserted[n]
  BY DEF Upsert
<1> HIDE DEF n, A, start
<1>5. step \in [1..n -> [A -> A]]
  BY <1>3
<1>6. PICK f \in [Nat -> A] : IsLoop(f, n, start, step)
  <2> HIDE DEF step, upserted
  <2> QED BY <1>1, <1>2, <1>5, LoopFunction
<1>7. f = [i \in Nat |->
              IF i \notin DOMAIN list THEN start ELSE UpsertEntry(f[i - 1], list[i])]
  <2>1. ASSUME NEW i \in 1..n PROVE step[i][f[i - 1]] = UpsertEntry(f[i - 1], list[i])
    <3>1. i - 1 \in Nat
      BY <1>1
    <3>2. f[i - 1] \in A
      BY <3>1
    <3> QED BY <3>2
  <2> HIDE DEF step
  <2> QED BY <1>1, <1>6, <2>1 DEF IsLoop
<1>8. upserted = [i \in Nat |->
              IF i \notin DOMAIN list THEN start ELSE UpsertEntry(upserted[i - 1], list[i])]
  BY <1>7
<1> HIDE DEF upserted, step
<1>9. /\ \A i \in Nat : i \notin 1..n => upserted[i] = start
      /\ \A i \in 1..n : upserted[i] = UpsertEntry(upserted[i - 1], list[i])
  <2>1. \A i \in 1..n : i \in Nat
    BY <1>1
  <2> QED BY <1>1, <1>8, <2>1
<1>10. upserted[0] = start
  BY <1>1, <1>9
<1>11. upserted \in [Nat -> A]
  <2> DEFINE typed == {i \in 0..n : upserted[i] \in A}
  <2>1. 0 \in typed
    BY <1>1, <1>2, <1>10
  <2>2. ASSUME NEW i \in 1..n, i - 1 \in typed PROVE i \in typed
    <3>1. upserted[i - 1] \in A /\ i \in 0..n
      BY <1>1, <2>2
    <3> QED BY <1>3, <1>9, <3>1
  <2>3. 0..n \subseteq typed
    <3> HIDE DEF typed
    <3> QED BY <1>1, <2>1, <2>2, LoopInduction
  <2>4. \A i \in Nat : upserted[i] \in A
    <3>1. \A i \in Nat : i \in 1..n => i \in 0..n
      BY <1>1
    <3> QED BY <1>2, <1>9, <2>3, <3>1
  <2> QED BY <1>8, <2>4
<1> QED BY <1>4, <1>9, <1>10, <1>11 DEF n, A, start

\* Objects that exist have a revision.
Known(copies) == \A p \in Places : copies[p].st => copies[p].rv > 0

\* Upsert has handled the first k entries of list.
Handled(list, copies, k, acc) ==
    /\ Len(acc.list) = k
    /\ \A j \in 1..k : acc.list[j].place = list[j].place
    /\ \A j \in 1..k : Describes(acc.list[j], acc.copy[acc.list[j].place])
    /\ \A j \in DOMAIN list : Describes(list[j], acc.copy[list[j].place])
    /\ Known(acc.copy)
    /\ \A p \in Places : \/ acc.copy[p] = copies[p]
                         \/ p \notin acc.skipped /\ \E j \in 1..k : list[j].place = p
    /\ \A j \in 1..k : list[j].place \notin acc.skipped =>
            /\ acc.copy[list[j].place].st /\ acc.copy[list[j].place].data = version
            /\ \E m \in 1..k : /\ list[m].place = list[j].place
                               /\ acc.copy[list[j].place].by = list[m].strategy

LEMMA HandledOneMore ==
    ASSUME NEW list \in Seq(Listed), NEW copies \in [Places -> Object], NEW skipped,
           version \in Nat, NEW k \in 1..Len(list), NEW acc \in Progress(skipped),
           Handled(list, copies, k - 1, acc)
    PROVE  Handled(list, copies, k, UpsertEntry(acc, list[k]))
<1> DEFINE e == list[k]
           next == UpsertEntry(acc, e)
           o == acc.copy[e.place]
<1>1. /\ k \in Nat /\ k > 0 /\ k \in DOMAIN list /\ DOMAIN list = 1..Len(list)
      /\ e \in Listed /\ e.place \in Places
      /\ acc.copy \in [Places -> Object] /\ acc.list \in Seq(Listed) /\ acc.skipped = skipped
      /\ \A j \in DOMAIN list : list[j].place \in Places
  <2>1. k \in Nat /\ k > 0 /\ k \in DOMAIN list /\ DOMAIN list = 1..Len(list)
    OBVIOUS
  <2>2. \A j \in DOMAIN list : list[j] \in Listed
    OBVIOUS
  <2>3. \A j \in DOMAIN list : list[j].place \in Places
    BY <2>2 DEF Listed
  <2>4. /\ acc.copy \in [Places -> Object] /\ acc.list \in Seq(Listed)
        /\ acc.skipped = skipped
    BY DEF Progress
  <2> QED BY <2>1, <2>2, <2>3, <2>4
<1>2. next \in Progress(skipped)
  BY <1>1, UpsertEntryTyped
<1>3. next.skipped = acc.skipped
  BY <1>1, <1>2 DEF Progress
<1>4. Describes(e, o)
  BY <1>1 DEF Handled
<1>5. PICK e2, o2 : Upserted(acc, e, next, e2, o2)
  BY <1>1, <1>4, UpsertStep
<1> HIDE DEF e, next, o
<1>6. /\ \A p \in Places : next.copy[p] = IF p = e.place THEN o2 ELSE acc.copy[p]
      /\ Len(next.list) = k /\ next.list[k] = e2
      /\ \A j \in 1..(k - 1) : next.list[j] = acc.list[j]
  <2>1. Len(acc.list) = k - 1
    BY DEF Handled
  <2> QED BY <1>1, <1>5, <2>1 DEF Upserted
<1>7. o \in Object /\ o2 \in Object
  BY <1>1, <1>5 DEF Upserted, o
<1>8. ASSUME NEW x, x.dv \in Nat, Describes(x, o) PROVE Describes(x, o2)
  <2>1. CASE o2 = o
    BY <1>8, <2>1
  <2>2. CASE o2.rv = o.rv + 1
    BY <1>7, <1>8, <2>2 DEF Describes, Object
  <2> QED BY <1>5, <2>1, <2>2 DEF Upserted, o
<1>9. \A j : j \in 1..k <=> (j \in 1..(k - 1) \/ j = k)
  BY <1>1, OneMore
<1>10. ASSUME NEW j \in 1..(k - 1)
       PROVE  /\ j \in 1..k /\ j \in DOMAIN list /\ j \in DOMAIN acc.list
              /\ acc.list[j] \in Listed /\ list[j] \in Listed
              /\ acc.list[j].place \in Places /\ list[j].place \in Places
              /\ acc.list[j].dv \in Nat /\ list[j].dv \in Nat
  <2>1. Len(acc.list) = k - 1
    BY DEF Handled
  <2>2. j \in 1..k /\ j \in DOMAIN list /\ j \in DOMAIN acc.list
    BY <1>1, <2>1
  <2>3. acc.list[j] \in Listed /\ list[j] \in Listed
    BY <1>1, <2>2
  <2> QED BY <2>2, <2>3 DEF Listed
<1>11. \A j \in 1..k : next.list[j].place = list[j].place
  BY <1>5, <1>6, <1>9 DEF Handled, Upserted, e
<1>12. \A j \in 1..k : Describes(next.list[j], next.copy[next.list[j].place])
  <2>1. ASSUME NEW j \in 1..(k - 1)
        PROVE  Describes(acc.list[j], next.copy[acc.list[j].place])
    <3>1. Describes(acc.list[j], acc.copy[acc.list[j].place])
      BY DEF Handled
    <3> QED BY <1>6, <1>8, <1>10, <3>1 DEF o
  <2>2. Describes(e2, next.copy[e2.place])
    BY <1>1, <1>5, <1>6 DEF Upserted
  <2> QED BY <1>6, <1>9, <2>1, <2>2
<1>13. \A j \in DOMAIN list : Describes(list[j], next.copy[list[j].place])
  <2> SUFFICES ASSUME NEW j \in DOMAIN list PROVE Describes(list[j], next.copy[list[j].place])
    OBVIOUS
  <2>1. Describes(list[j], acc.copy[list[j].place])
    BY DEF Handled
  <2>2. list[j].dv \in Nat
    <3>1. list[j] \in Listed
      OBVIOUS
    <3> QED BY <3>1 DEF Listed
  <2> QED BY <1>1, <1>6, <1>8, <2>1, <2>2 DEF o
<1>14. Known(next.copy)
  <2>1. o2.st => o2.rv > 0
    <3>1. o.st => o.rv > 0
      BY <1>1 DEF Handled, Known, o
    <3>2. o2 = o \/ o2.rv = o.rv + 1
      BY <1>5 DEF Upserted, o
    <3> QED BY <1>7, <3>1, <3>2 DEF Object
  <2>2. Known(acc.copy)
    BY DEF Handled
  <2> QED BY <1>6, <2>1, <2>2 DEF Known
<1>15. ASSUME NEW p \in Places
       PROVE  \/ next.copy[p] = copies[p]
              \/ p \notin next.skipped /\ \E j \in 1..k : list[j].place = p
  <2>1. \/ acc.copy[p] = copies[p]
        \/ p \notin acc.skipped /\ \E j \in 1..(k - 1) : list[j].place = p
    BY DEF Handled
  <2>2. CASE p = e.place /\ p \notin acc.skipped
    BY <1>3, <1>9, <2>2 DEF e
  <2>3. CASE p = e.place /\ p \in acc.skipped
    <3>1. next.copy[p] = acc.copy[p]
      BY <1>5, <1>6, <2>3 DEF Upserted
    <3> QED BY <2>1, <2>3, <3>1
  <2>4. CASE p # e.place
    BY <1>3, <1>6, <1>9, <2>1, <2>4
  <2> QED BY <2>2, <2>3, <2>4
<1>16. ASSUME NEW j \in 1..k, list[j].place \notin next.skipped
       PROVE  /\ next.copy[list[j].place].st /\ next.copy[list[j].place].data = version
              /\ \E m \in 1..k : /\ list[m].place = list[j].place
                                 /\ next.copy[list[j].place].by = list[m].strategy
  <2>1. CASE list[j].place = e.place
    <3>1. o2.st /\ o2.data = version /\ o2.by = e.strategy
      BY <1>3, <1>5, <1>16, <2>1 DEF Upserted
    <3>2. next.copy[list[j].place] = o2
      BY <1>1, <1>6, <2>1
    <3>3. k \in 1..k /\ list[k] = e
      BY <1>9 DEF e
    <3> QED BY <2>1, <3>1, <3>2, <3>3
  <2>2. CASE list[j].place # e.place
    <3>1. j \in 1..(k - 1)
      BY <1>9, <2>2 DEF e
    <3>2. next.copy[list[j].place] = acc.copy[list[j].place]
      BY <1>6, <1>10, <2>2, <3>1
    <3>3. /\ acc.copy[list[j].place].st /\ acc.copy[list[j].place].data = version
          /\ \E m \in 1..(k - 1) : /\ list[m].place = list[j].place
                                   /\ acc.copy[list[j].place].by = list[m].strategy
      BY <1>3, <1>16, <3>1 DEF Handled
    <3> QED BY <1>9, <3>2, <3>3
  <2> QED BY <2>1, <2>2
<1>17. Len(next.list) = k
  BY <1>6
<1>18. Handled(list, copies, k, next)
  BY <1>11, <1>12, <1>13, <1>14, <1>15, <1>16, <1>17 DEF Handled
<1> QED BY <1>18 DEF next, e

\* What Upsert achieves.
LEMMA UpsertHandles ==
    ASSUME NEW list \in Seq(Listed), NEW copies \in [Places -> Object], NEW skipped,
           version \in Nat, Known(copies),
           \A j \in DOMAIN list : Describes(list[j], copies[list[j].place])
    PROVE  /\ Upsert(list, copies, skipped) \in Progress(skipped)
           /\ Handled(list, copies, Len(list), Upsert(list, copies, skipped))
<1>1. PICK upserted \in [Nat -> Progress(skipped)] :
              /\ upserted[0] = [list |-> <<>>, copy |-> copies, skipped |-> skipped,
                                changed |-> FALSE]
              /\ \A i \in 1..Len(list) : upserted[i] = UpsertEntry(upserted[i - 1], list[i])
              /\ Upsert(list, copies, skipped) = upserted[Len(list)]
  BY UpsertLoop
<1> DEFINE n == Len(list)
           done == {k \in 0..n : Handled(list, copies, k, upserted[k])}
<1>2. n \in Nat /\ n \in 0..n
  OBVIOUS
<1>3. 0 \in done
  <2>1. /\ upserted[0].list = <<>> /\ upserted[0].copy = copies
        /\ \A j \in 1..0 : FALSE
    BY <1>1
  <2>2. Handled(list, copies, 0, upserted[0])
    BY <2>1 DEF Handled
  <2> QED BY <1>2, <2>2
<1>4. ASSUME NEW k \in 1..n, k - 1 \in done PROVE k \in done
  <2>1. k \in 0..n /\ k - 1 \in Nat
    BY <1>2
  <2>2. upserted[k] = UpsertEntry(upserted[k - 1], list[k])
    BY <1>1
  <2>3. upserted[k - 1] \in Progress(skipped)
    BY <1>1, <2>1
  <2>4. Handled(list, copies, k - 1, upserted[k - 1])
    BY <1>4
  <2>5. Handled(list, copies, k, upserted[k])
    BY <2>2, <2>3, <2>4, HandledOneMore
  <2> QED BY <2>1, <2>5
<1>5. 0..n \subseteq done
  <2> HIDE DEF done, n
  <2> QED BY <1>2, <1>3, <1>4, LoopInduction
<1>6. n \in done
  <2> HIDE DEF done, n
  <2> QED BY <1>2, <1>5
<1> QED BY <1>1, <1>2, <1>6

---------------------------------------------------------------------------
(* The expected destinations and the merge.                                *)

OrdersAreLists ==
    \A order \in Orders(cache) :
        /\ order \in Seq(Namespaces) /\ ToSet(order) = cache
        /\ \A i, j \in DOMAIN order : order[i] = order[j] => i = j

LEMMA OrdersListed ==
    ASSUME cache \subseteq Namespaces
    PROVE  OrdersAreLists
<1>1. IsFiniteSet(cache)
  BY DestinationsAssumption, FS_Subset
<1>2. Cardinality(cache) \in Nat
  BY <1>1, FS_CardinalityType
<1> SUFFICES ASSUME NEW order \in Orders(cache)
             PROVE  /\ order \in Seq(Namespaces) /\ ToSet(order) = cache
                    /\ \A i, j \in DOMAIN order : order[i] = order[j] => i = j
  BY DEF OrdersAreLists
<1>3. /\ order \in [1..Cardinality(cache) -> cache]
      /\ \A n \in cache : \E i \in 1..Cardinality(cache) : order[i] = n
      /\ \A i, j \in DOMAIN order : order[i] = order[j] => i = j
  BY DEF Orders, Bijection, Injection, Surjection, IsInjective
<1>4. ToSet(order) = cache
  BY <1>3 DEF ToSet
<1>5. order \in [1..Cardinality(cache) -> Namespaces]
  BY <1>3
<1> QED BY <1>2, <1>3, <1>4, <1>5, IsList

\* What an entry expects in namespace n.
Expects(d, n) == [place |-> PlaceIn(d, n), strategy |-> d.strategy, sv |-> 0, dv |-> 0]

LEMMA ExpansionElements ==
    ASSUME NEW d \in Entry, NEW order \in Seq(Namespaces)
    PROVE  /\ Expansion(d, order) \in Seq(Listed)
           /\ ToSet(Expansion(d, order)) =
                  {Expects(d, n) : n \in {n \in ToSet(order) : AppliesTo(d, n)}}
<1> DEFINE all == [i \in DOMAIN order |-> Expects(d, order[i])]
           wanted == {PlaceIn(d, n) : n \in {n \in Namespaces : AppliesTo(d, n)}}
<1>1. DOMAIN order = 1..Len(order) /\ Len(order) \in Nat /\ \A i \in DOMAIN order : order[i] \in Namespaces
  OBVIOUS
<1>2. ASSUME NEW n \in Namespaces PROVE Expects(d, n) \in Listed
  <2>1. SourcePlace[2] \in Names /\ d.name \in {Unset} \cup Names /\ d.strategy \in Strategies
    BY DestinationsAssumption DEF Places, Entry
  <2>2. PlaceIn(d, n) \in Places
    BY <2>1 DEF PlaceIn, Places
  <2> QED BY <2>1, <2>2 DEF Expects, Listed
<1>3. all \in Seq(Listed) /\ DOMAIN all = DOMAIN order
  <2>1. all \in [1..Len(order) -> Listed]
    BY <1>1, <1>2
  <2> HIDE DEF all
  <2> QED BY <1>1, <2>1, IsList
<1>4. Expansion(d, order) = Within(all, wanted)
  BY DEF Expansion, Expects
<1>5. /\ Within(all, wanted) \in Seq(Listed)
      /\ ToSet(Within(all, wanted)) = {e \in ToSet(all) : e.place \in wanted}
  <2> HIDE DEF all, wanted
  <2> QED BY <1>3, WithinElements
<1>6. ToSet(all) = {Expects(d, n) : n \in ToSet(order)}
  BY DEF ToSet
<1>7. ASSUME NEW n \in Namespaces
      PROVE  Expects(d, n).place \in wanted <=> AppliesTo(d, n)
  <2>1. Expects(d, n).place = PlaceIn(d, n)
    BY DEF Expects
  <2>2. \A m \in Namespaces : PlaceIn(d, m) = PlaceIn(d, n) => m = n
    BY DEF PlaceIn
  <2> QED BY <2>1, <2>2
<1>8. ToSet(order) \subseteq Namespaces
  BY <1>1 DEF ToSet
<1> HIDE DEF all, wanted
<1> QED BY <1>4, <1>5, <1>6, <1>7, <1>8

\* What is wanted is what some entry of the list applies to.
LEMMA WantedIsExpected ==
    ASSUME NEW d \in Entry, NEW n \in Namespaces
    PROVE  AppliesTo(d, n) <=>
               /\ PlaceIn(d, n) \in Places \ {SourcePlace}
               /\ d.ns \in {PlaceIn(d, n)[1], Wildcard}
               /\ \/ d.name = PlaceIn(d, n)[2]
                  \/ d.name = Unset /\ PlaceIn(d, n)[2] = SourcePlace[2]
<1>1. SourcePlace[2] \in Names /\ d.name \in {Unset} \cup Names
  BY DestinationsAssumption DEF Places, Entry
<1>2. PlaceIn(d, n) \in Places /\ PlaceIn(d, n)[1] = n
  BY <1>1 DEF PlaceIn, Places
<1>3. PlaceIn(d, n)[2] = IF d.name = Unset THEN SourcePlace[2] ELSE d.name
  BY DEF PlaceIn
<1> QED BY <1>2, <1>3 DEF AppliesTo, AppliesToAllNamespaces

\* Some entry that asks for a copy at the place of e wants its strategy.
Requested(e) == e.place \in Wanted /\ \E d \in Requests(e.place) : e.strategy = d.strategy

LEMMA ExpectedElements ==
    ASSUME spec \in Seq(Entry), cache \subseteq Namespaces, NEW order \in Orders(cache)
    PROVE  /\ ExpectedDestinations(order) \in Seq(Listed)
           /\ \A e \in ToSet(ExpectedDestinations(order)) : Requested(e) /\ e.sv = 0 /\ e.dv = 0
           /\ \A p \in Wanted : \E e \in ToSet(ExpectedDestinations(order)) : e.place = p
<1> DEFINE lists == [i \in DOMAIN spec |-> Expansion(spec[i], order)]
           expected == ExpectedDestinations(order)
<1>1. order \in Seq(Namespaces) /\ ToSet(order) = cache
  BY OrdersListed DEF OrdersAreLists
<1>2. /\ DOMAIN spec = 1..Len(spec) /\ Len(spec) \in Nat
      /\ \A i \in DOMAIN spec : spec[i] \in Entry /\ spec[i] \in ToSet(spec)
  BY DEF ToSet
<1>3. ASSUME NEW i \in DOMAIN spec
      PROVE  /\ lists[i] \in Seq(Listed)
             /\ ToSet(lists[i]) =
                    {Expects(spec[i], n) : n \in {n \in cache : AppliesTo(spec[i], n)}}
  BY <1>1, <1>2, ExpansionElements
<1>4. lists \in [1..Len(spec) -> Seq(Listed)] /\ DOMAIN lists = DOMAIN spec
  BY <1>2, <1>3
<1>5. expected = Joined(lists)
  BY DEF ExpectedDestinations
<1> HIDE DEF lists
<1>6. lists \in Seq(Seq(Listed))
  BY <1>2, <1>4, IsList
<1>7. expected \in Seq(Listed) /\ ToSet(expected) = UNION {ToSet(lists[i]) : i \in DOMAIN lists}
  BY <1>5, <1>6, JoinedElements
<1> HIDE DEF expected
<1>8. ASSUME NEW e \in ToSet(expected) PROVE Requested(e) /\ e.sv = 0 /\ e.dv = 0
  <2>1. PICK i \in DOMAIN spec : e \in ToSet(lists[i])
    BY <1>4, <1>7
  <2>2. PICK n \in cache : AppliesTo(spec[i], n) /\ e = Expects(spec[i], n)
    BY <1>3, <2>1
  <2>3. e.place = PlaceIn(spec[i], n) /\ e.strategy = spec[i].strategy /\ e.sv = 0 /\ e.dv = 0
    BY <2>2 DEF Expects
  <2>4. PlaceIn(spec[i], n)[1] = n
    BY DEF PlaceIn
  <2>5. /\ e.place \in Places \ {SourcePlace}
        /\ spec[i] \in Requests(e.place)
    BY <1>2, <2>2, <2>3, WantedIsExpected DEF Requests
  <2> QED BY <2>3, <2>4, <2>5 DEF Requested, Wanted
<1>9. ASSUME NEW p \in Wanted PROVE \E e \in ToSet(expected) : e.place = p
  <2>1. PICK d \in ToSet(spec) : d \in Requests(p)
    BY DEF Wanted, Requests
  <2>2. PICK i \in DOMAIN spec : d = spec[i]
    BY DEF ToSet
  <2>3. p \in Places \ {SourcePlace} /\ p[1] \in cache /\ p[1] \in Namespaces /\ p[2] \in Names
    BY DEF Wanted, Places
  <2>4. /\ d.ns \in {p[1], Wildcard}
        /\ d.name = p[2] \/ (d.name = Unset /\ p[2] = SourcePlace[2])
    BY <2>1 DEF Requests
  <2>5. PlaceIn(d, p[1]) = p
    <3>1. p = <<p[1], p[2]>>
      BY <2>3 DEF Places
    <3>2. p[2] # Unset
      BY <2>3, DestinationsAssumption DEF Unset
    <3> QED BY <2>4, <3>1, <3>2 DEF PlaceIn
  <2>6. AppliesTo(d, p[1])
    BY <1>2, <2>2, <2>3, <2>4, <2>5, WantedIsExpected
  <2>7. Expects(d, p[1]) \in ToSet(lists[i])
    BY <1>3, <2>2, <2>3, <2>6
  <2>8. Expects(d, p[1]).place = p
    BY <2>5 DEF Expects
  <2> QED BY <1>4, <1>7, <2>7, <2>8
<1> QED BY <1>7, <1>8, <1>9 DEF expected

\* The state a reconciliation starts from.
Ready ==
    /\ spec \in Seq(Entry) /\ cache \subseteq Namespaces /\ version \in Nat
    /\ status \in Seq(Listed) /\ copy \in [Places -> Object]
    /\ CopiesListed /\ VersionsTrue

\* What is not expected, but listed.
Stale == {e \in ToSet(status) : e.place \notin Wanted}

LEMMA MergeElements ==
    ASSUME Ready, NEW order \in Orders(cache)
    PROVE  /\ Merge(order).expected \in Seq(Listed) /\ Merge(order).stale \in Seq(Listed)
           /\ \A e \in ToSet(Merge(order).expected) : Requested(e) /\ Describes(e, copy[e.place])
           /\ \A p \in Wanted : \E e \in ToSet(Merge(order).expected) : e.place = p
           /\ ToSet(Merge(order).stale) = Stale
<1> DEFINE expected == ExpectedDestinations(order)
           Merged(i) ==
               LET e == expected[i]
                   old == At(status, e.place)
               IN  IF old = <<>> \/ \E j \in 1..(i - 1) : expected[j].place = e.place
                   THEN e ELSE Inherited(e, old[1])
           merged == [i \in DOMAIN expected |-> Merged(i)]
           stale == Within(status, Places \ PlacesOf(expected))
<1>1. /\ Merge(order).expected = merged /\ Merge(order).stale = stale
  BY DEF Merge
<1>2. /\ expected \in Seq(Listed)
      /\ \A e \in ToSet(expected) : Requested(e) /\ e.sv = 0 /\ e.dv = 0
      /\ \A p \in Wanted : \E e \in ToSet(expected) : e.place = p
  BY ExpectedElements DEF Ready
<1> HIDE DEF expected
<1>3. /\ DOMAIN expected = 1..Len(expected) /\ Len(expected) \in Nat
      /\ \A i \in DOMAIN expected : expected[i] \in Listed /\ expected[i] \in ToSet(expected)
  BY <1>2 DEF ToSet
<1>4. ASSUME NEW i \in DOMAIN expected
      PROVE  /\ Merged(i) \in Listed /\ Merged(i).place = expected[i].place
             /\ Merged(i).strategy = expected[i].strategy
             /\ Describes(Merged(i), copy[expected[i].place])
  <2> DEFINE e == expected[i]
             old == At(status, e.place)
  <2>1. e \in Listed /\ e.sv = 0 /\ e.dv = 0 /\ e.place \in Places
    BY <1>2, <1>3 DEF Listed
  <2>2. copy[e.place] \in Object /\ copy[e.place].rv \in Nat
    BY <2>1 DEF Ready, Object
  <2>3. Describes(e, copy[e.place])
    <3>1. copy[e.place].st => copy[e.place].rv > 0
      BY <2>1 DEF Ready, VersionsTrue
    <3> QED BY <2>1, <2>2, <3>1 DEF Describes
  <2>4. CASE Merged(i) = e
    BY <2>1, <2>3, <2>4
  <2>5. CASE old # <<>> /\ Merged(i) = Inherited(e, old[1])
    <3>1. /\ old \in Seq(Listed)
          /\ ToSet(old) = {x \in ToSet(status) : x.place \in {e.place}}
      BY WithinElements DEF At, Ready
    <3> DEFINE x == old[1]
    <3>2. x \in ToSet(old) /\ x \in Listed
      <4> HIDE DEF old
      <4>1. 1 \in DOMAIN old
        BY <2>5, <3>1
      <4> QED BY <3>1, <4>1 DEF ToSet
    <3>3. x \in ToSet(status) /\ x.place = e.place
      BY <3>1, <3>2
    <3>4. Describes(x, copy[e.place])
      BY <3>3 DEF ToSet, Ready, VersionsTrue
    <3> HIDE DEF e, old, x, Merged
    <3>5. CASE x.strategy = e.strategy
      <4>1. Inherited(e, x) = [e EXCEPT !.sv = x.sv, !.dv = x.dv]
        BY <3>5 DEF Inherited
      <4>2. /\ Inherited(e, x) \in Listed /\ Inherited(e, x).place = e.place
            /\ Inherited(e, x).strategy = e.strategy
            /\ Inherited(e, x).sv = x.sv /\ Inherited(e, x).dv = x.dv
        BY <2>1, <3>2, <4>1 DEF Listed
      <4>3. Describes(Inherited(e, x), copy[e.place])
        BY <3>4, <3>5, <4>2 DEF Describes
      <4> QED BY <2>5, <4>2, <4>3 DEF x, e
    <3>6. CASE x.strategy # e.strategy
      <4>1. Inherited(e, x) = e
        BY <3>6 DEF Inherited
      <4> QED BY <2>1, <2>3, <2>5, <4>1 DEF x, e
    <3> QED BY <3>5, <3>6
  <2> QED BY <2>4, <2>5
<1> HIDE DEF Merged
<1>5. merged \in Seq(Listed) /\ DOMAIN merged = DOMAIN expected
  <2>1. merged \in [1..Len(expected) -> Listed]
    BY <1>3, <1>4
  <2> HIDE DEF merged
  <2> QED BY <1>3, <2>1, IsList
<1>6. ASSUME NEW e \in ToSet(merged) PROVE Requested(e) /\ Describes(e, copy[e.place])
  <2>1. PICK i \in DOMAIN expected : e = Merged(i)
    BY DEF ToSet
  <2>2. Requested(expected[i])
    BY <1>2, <1>3
  <2> QED BY <1>4, <2>1, <2>2 DEF Requested
<1>7. ASSUME NEW p \in Wanted PROVE \E e \in ToSet(merged) : e.place = p
  <2>1. PICK e \in ToSet(expected) : e.place = p
    BY <1>2
  <2>2. PICK i \in DOMAIN expected : e = expected[i]
    BY <2>1 DEF ToSet
  <2>3. Merged(i) \in ToSet(merged) /\ Merged(i).place = p
    BY <1>4, <2>1, <2>2 DEF ToSet
  <2> QED BY <2>3
<1>8. PlacesOf(expected) = Wanted
  <2>1. PlacesOf(expected) = {e.place : e \in ToSet(expected)}
    BY PlacesOfElements
  <2> QED BY <1>2, <2>1 DEF Requested
<1>9. stale \in Seq(Listed) /\ ToSet(stale) = Stale
  <2>1. /\ stale \in Seq(Listed)
        /\ ToSet(stale) = {e \in ToSet(status) : e.place \in Places \ PlacesOf(expected)}
    BY WithinElements DEF Ready
  <2>2. \A e \in ToSet(status) : e.place \in Places
    <3> SUFFICES ASSUME NEW e \in ToSet(status) PROVE e.place \in Places
      OBVIOUS
    <3>1. e \in Listed
      BY DEF ToSet, Ready
    <3> QED BY <3>1 DEF Listed
  <2> HIDE DEF stale
  <2> QED BY <1>8, <2>1, <2>2 DEF Stale
<1> HIDE DEF merged, stale
<1> QED BY <1>1, <1>5, <1>6, <1>7, <1>9

\* Deleting copies makes no entry wrong.
LEMMA DeletedCopies ==
    ASSUME Ready, NEW places
    PROVE  /\ Deleted(copy, places) \in [Places -> Object]
           /\ Known(Deleted(copy, places))
           /\ \A p \in Places : Deleted(copy, places)[p].st <=> copy[p].st /\ p \notin places
           /\ \A p \in Places : \A e :
                 Describes(e, copy[p]) => Describes(e, Deleted(copy, places)[p])
<1>1. ASSUME NEW p \in Places
      PROVE  /\ Deleted(copy, places)[p] =
                    IF p \in places THEN [copy[p] EXCEPT !.st = FALSE] ELSE copy[p]
             /\ copy[p] \in Object /\ (copy[p].st => copy[p].rv > 0)
  BY DEF Deleted, Ready, VersionsTrue
<1>2. ASSUME NEW o \in Object
      PROVE  /\ [o EXCEPT !.st = FALSE] \in Object
             /\ [o EXCEPT !.st = FALSE].st = FALSE /\ [o EXCEPT !.st = FALSE].rv = o.rv
  BY DEF Object
<1>3. Deleted(copy, places) \in [Places -> Object]
  BY <1>1, <1>2 DEF Deleted
<1>4. Known(Deleted(copy, places))
  BY <1>1, <1>2 DEF Known
<1>5. \A p \in Places : Deleted(copy, places)[p].st <=> copy[p].st /\ p \notin places
  BY <1>1, <1>2 DEF Object
<1>6. ASSUME NEW p \in Places, NEW e, Describes(e, copy[p])
      PROVE  Describes(e, Deleted(copy, places)[p])
  BY <1>1, <1>2, <1>6 DEF Describes
<1> QED BY <1>3, <1>4, <1>5, <1>6

\* The list and the copies that a reconciliation leaves.
Result(order, failed, tracked) ==
    Upsert(tracked, Deleted(copy, PlacesOf(Merge(order).stale) \ failed), failed)

Correct(list, copies) ==
    /\ Known(copies)
    /\ \A i \in DOMAIN list : Describes(list[i], copies[list[i].place])
    /\ \A p \in Places : copies[p].st => p \in PlacesOf(list)

LEMMA Reconciled ==
    ASSUME Ready, NEW order \in Orders(cache), NEW failed,
           NEW tracked \in Seq(Listed), InOrder(tracked),
           ToSet(tracked) = ToSet(Merge(order).expected) \cup {e \in Stale : e.place \in failed},
           NEW r, r = Result(order, failed, tracked)
    PROVE  /\ r.list \in Seq(Listed) /\ r.copy \in [Places -> Object] /\ r.changed \in BOOLEAN
           /\ InOrder(r.list)
           /\ Correct(tracked, r.copy) /\ Correct(r.list, r.copy)
           /\ failed = {} =>
                  /\ PlacesOf(r.list) = Wanted
                  /\ \A p \in Wanted :
                        /\ r.copy[p].st /\ r.copy[p].data = version
                        /\ \E d \in Requests(p) : r.copy[p].by = d.strategy
<1> DEFINE expected == Merge(order).expected
           deleted == PlacesOf(Merge(order).stale) \ failed
           copies == Deleted(copy, deleted)
           n == Len(tracked)
<1>1. /\ \A e \in ToSet(expected) : Requested(e) /\ Describes(e, copy[e.place])
      /\ \A p \in Wanted : \E e \in ToSet(expected) : e.place = p
      /\ ToSet(Merge(order).stale) = Stale
  BY MergeElements
<1>2. deleted = {e.place : e \in Stale} \ failed
  <2>1. PlacesOf(Merge(order).stale) = {e.place : e \in ToSet(Merge(order).stale)}
    BY PlacesOfElements
  <2> QED BY <1>1, <2>1
<1>3. r = Upsert(tracked, copies, failed)
  BY DEF Result
<1>4. ToSet(tracked) = ToSet(expected) \cup {e \in Stale : e.place \in failed}
  OBVIOUS
<1> HIDE DEF expected, deleted
<1>5. /\ copies \in [Places -> Object] /\ Known(copies)
      /\ \A p \in Places : copies[p].st <=> copy[p].st /\ p \notin deleted
      /\ \A p \in Places : \A e : Describes(e, copy[p]) => Describes(e, copies[p])
  BY DeletedCopies
<1> HIDE DEF copies
<1>6. /\ DOMAIN tracked = 1..n /\ n \in Nat
      /\ \A i \in DOMAIN tracked : tracked[i] \in Listed /\ tracked[i] \in ToSet(tracked)
  BY DEF ToSet
<1>7. ASSUME NEW e \in ToSet(tracked)
      PROVE  e.place \in Places /\ Describes(e, copy[e.place])
  <2>1. e \in Listed
    BY DEF ToSet
  <2>2. CASE e \in ToSet(expected)
    BY <1>1, <2>1, <2>2 DEF Listed
  <2>3. CASE e \in Stale
    <3>1. PICK i \in DOMAIN status : e = status[i]
      BY <2>3 DEF Stale, ToSet
    <3> QED BY <2>1, <3>1 DEF Listed, Ready, VersionsTrue
  <2> QED BY <1>4, <2>2, <2>3
<1>8. \A j \in DOMAIN tracked : Describes(tracked[j], copies[tracked[j].place])
  BY <1>5, <1>6, <1>7
<1>9. r \in Progress(failed) /\ Handled(tracked, copies, n, r)
  BY <1>3, <1>5, <1>8, UpsertHandles DEF Ready
<1>10. /\ r.list \in Seq(Listed) /\ r.copy \in [Places -> Object] /\ r.changed \in BOOLEAN
       /\ r.skipped = failed
  BY <1>9 DEF Progress
<1>11. /\ DOMAIN r.list = 1..n
       /\ \A j \in 1..n : r.list[j].place = tracked[j].place
  BY <1>9, <1>10 DEF Handled
<1>12. InOrder(r.list)
  BY <1>6, <1>11 DEF InOrder
<1>13. PlacesOf(r.list) = PlacesOf(tracked)
  BY <1>6, <1>11 DEF PlacesOf
<1>14. PlacesOf(tracked) = {e.place : e \in ToSet(tracked)}
  BY PlacesOfElements
<1>15. Wanted \subseteq PlacesOf(tracked)
  BY <1>1, <1>4, <1>14
<1>16. ASSUME NEW p \in Places, r.copy[p].st PROVE p \in PlacesOf(tracked)
  <2>1. CASE \E j \in 1..n : tracked[j].place = p
    BY <1>6, <2>1 DEF PlacesOf
  <2>2. CASE r.copy[p] = copies[p]
    <3>1. copy[p].st /\ p \notin deleted
      BY <1>5, <1>16, <2>2
    <3>2. PICK i \in DOMAIN status : status[i].place = p
      BY <3>1 DEF Ready, CopiesListed, PlacesOf
    <3>3. CASE p \in Wanted
      BY <1>15, <3>3
    <3>4. CASE p \notin Wanted
      <4>1. status[i] \in Stale
        BY <3>2, <3>4 DEF Stale, ToSet
      <4>2. p \in failed
        BY <1>2, <3>1, <3>2, <4>1
      <4> QED BY <1>4, <1>14, <3>2, <4>1, <4>2
    <3> QED BY <3>3, <3>4
  <2> QED BY <1>9, <2>1, <2>2 DEF Handled
<1>17. Known(r.copy)
  BY <1>9 DEF Handled
<1>18. Correct(tracked, r.copy)
  BY <1>9, <1>16, <1>17 DEF Correct, Handled
<1>19. Correct(r.list, r.copy)
  BY <1>9, <1>11, <1>13, <1>16, <1>17 DEF Correct, Handled
<1>20. ASSUME failed = {}
       PROVE  /\ PlacesOf(r.list) = Wanted
              /\ \A p \in Wanted :
                    /\ r.copy[p].st /\ r.copy[p].data = version
                    /\ \E d \in Requests(p) : r.copy[p].by = d.strategy
  <2>1. \A e \in ToSet(tracked) : Requested(e)
    BY <1>1, <1>4, <1>20
  <2>2. PlacesOf(tracked) = Wanted
    BY <1>14, <1>15, <2>1 DEF Requested
  <2>3. ASSUME NEW p \in Wanted
        PROVE  /\ r.copy[p].st /\ r.copy[p].data = version
               /\ \E d \in Requests(p) : r.copy[p].by = d.strategy
    <3>1. PICK j \in 1..n : tracked[j].place = p
      BY <1>6, <2>2 DEF PlacesOf
    <3>2. p \notin r.skipped
      BY <1>10, <1>20
    <3>3. PICK m \in 1..n : /\ r.copy[p].st /\ r.copy[p].data = version
                            /\ tracked[m].place = p /\ r.copy[p].by = tracked[m].strategy
      BY <1>9, <3>1, <3>2 DEF Handled
    <3>4. Requested(tracked[m])
      BY <1>6, <2>1
    <3> QED BY <3>3, <3>4 DEF Requested
  <2> QED BY <1>13, <2>2, <2>3
<1> QED BY <1>10, <1>12, <1>18, <1>19, <1>20

\* The list that is tracked meanwhile: what is expected, and the remnants.
LEMMA TrackedElements ==
    ASSUME Ready, NEW order \in Orders(cache), NEW failed, NEW tracked,
           \/ tracked = Sorted(Merge(order).expected \o Remnants(Merge(order).stale, failed))
           \/ failed = {} /\ tracked = Sorted(Merge(order).expected)
    PROVE  /\ tracked \in Seq(Listed) /\ InOrder(tracked)
           /\ ToSet(tracked) =
                  ToSet(Merge(order).expected) \cup {e \in Stale : e.place \in failed}
<1> DEFINE expected == Merge(order).expected
           stale == Merge(order).stale
           remnants == Remnants(stale, failed)
<1>1. expected \in Seq(Listed) /\ stale \in Seq(Listed) /\ ToSet(stale) = Stale
  BY MergeElements
<1> HIDE DEF expected, stale
<1>2. /\ remnants \in Seq(Listed)
      /\ ToSet(remnants) = {e \in Stale : e.place \in failed}
  BY <1>1, WithinElements DEF Remnants
<1> HIDE DEF remnants
<1>3. expected \o remnants \in Seq(Listed)
  BY <1>1, <1>2
<1>4. ToSet(expected \o remnants) = ToSet(expected) \cup ToSet(remnants)
  BY <1>1, <1>2, ElementsOfConcatenation
<1>5. CASE tracked = Sorted(expected \o remnants)
  BY <1>2, <1>3, <1>4, <1>5, SortedElements, SortedInOrder DEF expected
<1>6. CASE failed = {} /\ tracked = Sorted(expected)
  BY <1>1, <1>6, SortedElements, SortedInOrder DEF expected
<1> QED BY <1>5, <1>6 DEF expected, stale, remnants

---------------------------------------------------------------------------
(* A repeated reconciliation: lists with one entry for each place.         *)

OneEach(s) == \A i, j \in DOMAIN s : s[i].place = s[j].place => i = j

\* Lists that share no place are joined to a list with one entry for each.
LEMMA JoinedOneEach ==
    ASSUME NEW T, NEW lists \in Seq(Seq(T)),
           \A i \in DOMAIN lists : OneEach(lists[i]),
           \A i, j \in DOMAIN lists : \A a \in ToSet(lists[i]), b \in ToSet(lists[j]) :
              a.place = b.place => i = j
    PROVE  OneEach(Joined(lists))
<1> DEFINE n == Len(lists)
<1>1. PICK joined \in [Nat -> Seq(T)] :
              /\ joined[0] = <<>>
              /\ \A i \in 1..n : joined[i] = joined[i - 1] \o lists[i]
              /\ Joined(lists) = joined[n]
  BY JoinedLoop
<1>2. n \in Nat /\ DOMAIN lists = 1..n /\ \A i \in 1..n : lists[i] \in Seq(T)
  OBVIOUS
<1> HIDE DEF n
<1> DEFINE Visited(k) == \A i \in DOMAIN joined[k] :
                            \E m \in 1..k : joined[k][i] \in ToSet(lists[m])
           upto == {k \in 0..n : OneEach(joined[k]) /\ Visited(k)}
<1>3. 0 \in upto
  <2>1. DOMAIN joined[0] = {}
    BY <1>1
  <2> QED BY <1>2, <2>1 DEF OneEach
<1>4. ASSUME NEW k \in 1..n, k - 1 \in upto PROVE k \in upto
  <2> DEFINE s1 == joined[k - 1]
             s2 == lists[k]
             l == Len(s1)
  <2>1. /\ k \in 0..n /\ k - 1 \in Nat
        /\ \A m \in 1..(k - 1) : m \in 1..k /\ m \in 1..n /\ m # k
    <3> HIDE DEF upto
    <3>1. k \in Nat /\ k > 0 /\ k <= n
      BY <1>2
    <3> QED BY <1>2, <3>1
  <2>2. s1 \in Seq(T) /\ s2 \in Seq(T)
    BY <1>2, <2>1
  <2>3. OneEach(s1) /\ OneEach(s2)
    BY <1>2, <1>4
  <2>4. \A i \in DOMAIN s1 : \E m \in 1..(k - 1) : s1[i] \in ToSet(lists[m])
    BY <1>4
  <2>5. \A i \in DOMAIN s2 : s2[i] \in ToSet(lists[k])
    BY DEF ToSet
  <2>6. joined[k] = s1 \o s2
    BY <1>1
  <2>7. l \in Nat
    BY <2>2
  <2> HIDE DEF s1, s2, upto, Visited
  <2>8. ASSUME NEW i \in DOMAIN (s1 \o s2)
        PROVE  /\ i \in Nat
               /\ i <= l => i \in DOMAIN s1 /\ (s1 \o s2)[i] = s1[i]
               /\ i > l => i - l \in DOMAIN s2 /\ (s1 \o s2)[i] = s2[i - l]
    <3>1. ComesFrom(s1, s2, i)
      BY <2>2, Concatenation
    <3> QED BY <3>1 DEF ComesFrom
  <2> HIDE DEF l
  <2>9. Visited(k)
    <3> SUFFICES ASSUME NEW i \in DOMAIN (s1 \o s2)
                 PROVE  \E m \in 1..k : (s1 \o s2)[i] \in ToSet(lists[m])
      BY <2>6 DEF Visited
    <3>1. CASE i <= l
      BY <2>1, <2>4, <2>8, <3>1
    <3>2. CASE i > l
      <4>1. k \in 1..k
        BY <1>2
      <4> QED BY <2>5, <2>8, <3>2, <4>1
    <3>3. i <= l \/ i > l
      BY <2>7, <2>8
    <3> QED BY <3>1, <3>2, <3>3
  <2>10. ASSUME NEW i \in DOMAIN s1, NEW j \in DOMAIN s2
         PROVE  s1[i].place # s2[j].place
    <3>1. PICK m \in 1..(k - 1) : s1[i] \in ToSet(lists[m])
      BY <2>4
    <3> QED BY <1>2, <2>1, <2>5, <3>1
  <2>11. OneEach(s1 \o s2)
    <3> SUFFICES ASSUME NEW i \in DOMAIN (s1 \o s2), NEW j \in DOMAIN (s1 \o s2),
                        (s1 \o s2)[i].place = (s1 \o s2)[j].place
                 PROVE  i = j
      BY DEF OneEach
    <3>1. CASE i <= l /\ j <= l
      BY <2>3, <2>8, <3>1 DEF OneEach
    <3>2. CASE i > l /\ j > l
      <4>1. /\ i \in Nat /\ i - l \in DOMAIN s2 /\ (s1 \o s2)[i] = s2[i - l]
            /\ j \in Nat /\ j - l \in DOMAIN s2 /\ (s1 \o s2)[j] = s2[j - l]
        BY <2>8, <3>2
      <4>2. i - l = j - l
        BY <2>3, <4>1 DEF OneEach
      <4> QED BY <2>7, <4>1, <4>2
    <3>3. CASE i <= l /\ j > l
      BY <2>8, <2>10, <3>3
    <3>4. CASE i > l /\ j <= l
      BY <2>8, <2>10, <3>4
    <3>5. i <= l \/ i > l
      BY <2>7, <2>8
    <3>6. j <= l \/ j > l
      BY <2>7, <2>8
    <3> QED BY <3>1, <3>2, <3>3, <3>4, <3>5, <3>6
  <2> QED BY <2>1, <2>6, <2>9, <2>11 DEF upto
<1>5. 0..n \subseteq upto
  <2> HIDE DEF upto
  <2> QED BY <1>2, <1>3, <1>4, LoopInduction
<1>6. n \in upto
  <2>1. n \in 0..n
    BY <1>2
  <2> HIDE DEF upto
  <2> QED BY <1>5, <2>1
<1> QED BY <1>1, <1>6

LEMMA WithinOneEach ==
    ASSUME NEW T, NEW s \in Seq(T), OneEach(s), NEW places
    PROVE  OneEach(Within(s, places))
<1> DEFINE lists == [i \in DOMAIN s |-> IF s[i].place \in places THEN <<s[i]>> ELSE <<>>]
<1>1. DOMAIN s = 1..Len(s) /\ Len(s) \in Nat
  OBVIOUS
<1>2. ASSUME NEW i \in DOMAIN s
      PROVE  lists[i] \in Seq(T) /\ OneEach(lists[i]) /\ ToSet(lists[i]) \subseteq {s[i]}
  <2>1. s[i] \in T
    BY <1>1
  <2>2. <<s[i]>> \in Seq(T) /\ OneEach(<<s[i]>>) /\ ToSet(<<s[i]>>) = {s[i]}
    BY <2>1 DEF ToSet, OneEach
  <2>3. <<>> \in Seq(T) /\ OneEach(<<>>) /\ ToSet(<<>>) = {}
    BY DEF ToSet, OneEach
  <2>4. lists[i] = IF s[i].place \in places THEN <<s[i]>> ELSE <<>>
    OBVIOUS
  <2> HIDE DEF lists
  <2>5. CASE s[i].place \in places
    BY <2>2, <2>4, <2>5
  <2>6. CASE s[i].place \notin places
    BY <2>3, <2>4, <2>6
  <2> QED BY <2>5, <2>6
<1>3. lists \in [1..Len(s) -> Seq(T)] /\ DOMAIN lists = DOMAIN s
  BY <1>1, <1>2
<1>4. Within(s, places) = Joined(lists)
  BY DEF Within
<1> HIDE DEF lists
<1>5. lists \in Seq(Seq(T))
  BY <1>1, <1>3, IsList
<1>6. ASSUME NEW i \in DOMAIN lists, NEW j \in DOMAIN lists,
             NEW a \in ToSet(lists[i]), NEW b \in ToSet(lists[j]), a.place = b.place
      PROVE  i = j
  <2>1. a = s[i] /\ b = s[j]
    BY <1>2, <1>3
  <2> QED BY <1>3, <1>6, <2>1 DEF OneEach
<1> QED BY <1>2, <1>3, <1>4, <1>5, <1>6, JoinedOneEach

LEMMA SortedOneEach ==
    ASSUME NEW s \in Seq(Listed), OneEach(s)
    PROVE  OneEach(Sorted(s))
<1> DEFINE lists == [i \in DOMAIN PlaceOrder |-> At(s, PlaceOrder[i])]
<1>1. /\ DOMAIN PlaceOrder = 1..Len(PlaceOrder) /\ Len(PlaceOrder) \in Nat
      /\ \A i \in DOMAIN PlaceOrder : PlaceOrder[i] \in Places
      /\ \A i, j \in DOMAIN PlaceOrder : i < j => Before(PlaceOrder[i], PlaceOrder[j])
  BY DestinationsAssumption
<1>2. ASSUME NEW i \in DOMAIN PlaceOrder
      PROVE  /\ lists[i] \in Seq(Listed) /\ OneEach(lists[i])
             /\ \A e \in ToSet(lists[i]) : e.place = PlaceOrder[i]
  <2>1. lists[i] = Within(s, {PlaceOrder[i]})
    BY DEF At
  <2> HIDE DEF lists
  <2> QED BY <2>1, WithinElements, WithinOneEach
<1>3. lists \in [1..Len(PlaceOrder) -> Seq(Listed)] /\ DOMAIN lists = DOMAIN PlaceOrder
  BY <1>1, <1>2
<1>4. Sorted(s) = Joined(lists)
  BY DEF Sorted
<1> HIDE DEF lists
<1>5. lists \in Seq(Seq(Listed))
  BY <1>1, <1>3, IsList
<1>6. ASSUME NEW i \in DOMAIN PlaceOrder, NEW j \in DOMAIN PlaceOrder,
             PlaceOrder[i] = PlaceOrder[j]
      PROVE  i = j
  <2>1. ~Before(PlaceOrder[i], PlaceOrder[j]) /\ ~Before(PlaceOrder[j], PlaceOrder[i])
    BY <1>1, <1>6, BeforeIsStrict
  <2>2. i \in Nat /\ j \in Nat
    BY <1>1
  <2>3. ~(i < j) /\ ~(j < i)
    BY <1>1, <2>1
  <2> QED BY <2>2, <2>3
<1>7. ASSUME NEW i \in DOMAIN lists, NEW j \in DOMAIN lists,
             NEW a \in ToSet(lists[i]), NEW b \in ToSet(lists[j]), a.place = b.place
      PROVE  i = j
  BY <1>2, <1>3, <1>6, <1>7
<1> QED BY <1>2, <1>3, <1>4, <1>5, <1>7, JoinedOneEach

LEMMA BeforeIsTotal ==
    ASSUME NEW p \in Places, NEW q \in Places
    PROVE  p = q \/ Before(p, q) \/ Before(q, p)
<1>1. /\ p[1] \in Nat /\ p[2] \in Nat /\ q[1] \in Nat /\ q[2] \in Nat
      /\ p = <<p[1], p[2]>> /\ q = <<q[1], q[2]>>
  <2>1. /\ p[1] \in Namespaces /\ p[2] \in Names /\ p = <<p[1], p[2]>>
        /\ q[1] \in Namespaces /\ q[2] \in Names /\ q = <<q[1], q[2]>>
    BY DEF Places
  <2> QED BY <2>1, DestinationsAssumption
<1>2. \/ p[1] < q[1] \/ q[1] < p[1]
      \/ p[1] = q[1] /\ p[2] < q[2]
      \/ p[1] = q[1] /\ q[2] < p[2]
      \/ p[1] = q[1] /\ p[2] = q[2]
  BY <1>1
<1>3. p[1] = q[1] /\ p[2] = q[2] => p = q
  BY <1>1
<1> QED BY <1>2, <1>3 DEF Before

\* The elements determine a list that is in order: one of two such lists
\* agrees with the other as far as it goes.
LEMMA OrderedPrefix ==
    ASSUME NEW s \in Seq(Listed), NEW t \in Seq(Listed), ToSet(s) = ToSet(t),
           OneEach(s), OneEach(t), InOrder(s), InOrder(t)
    PROVE  \A k \in 1..Len(s) : k <= Len(t) /\ s[k] = t[k]
<1> DEFINE n == Len(s)
           same == {k \in 0..n : \A j \in 1..k : j <= Len(t) /\ s[j] = t[j]}
<1>1. /\ n \in Nat /\ Len(t) \in Nat /\ DOMAIN s = 1..n /\ DOMAIN t = 1..Len(t)
      /\ \A i \in DOMAIN s : s[i] \in Listed /\ s[i] \in ToSet(t)
      /\ \A i \in DOMAIN t : t[i] \in Listed /\ t[i] \in ToSet(s)
  <2>1. n \in Nat /\ Len(t) \in Nat /\ DOMAIN s = 1..n /\ DOMAIN t = 1..Len(t)
    OBVIOUS
  <2>2. \A i \in DOMAIN s : s[i] \in Listed /\ s[i] \in ToSet(s)
    BY DEF ToSet
  <2>3. \A i \in DOMAIN t : t[i] \in Listed /\ t[i] \in ToSet(t)
    BY DEF ToSet
  <2> QED BY <2>1, <2>2, <2>3
<1> HIDE DEF n
<1>2. ASSUME NEW u \in {s, t}, NEW i \in DOMAIN u, NEW j \in DOMAIN u, i < j
      PROVE  Before(u[i].place, u[j].place)
  <2>1. u[i].place \in Places /\ u[j].place \in Places
    BY <1>1 DEF Listed
  <2>2. ~Before(u[j].place, u[i].place)
    BY <1>2 DEF InOrder
  <2>3. i # j
    BY <1>1, <1>2
  <2>4. u[i].place # u[j].place
    BY <2>3 DEF OneEach
  <2> QED BY <2>1, <2>2, <2>4, BeforeIsTotal
<1>3. 0 \in same
  BY <1>1
<1>4. ASSUME NEW k \in 1..n, k - 1 \in same PROVE k \in same
  <2>1. /\ k \in Nat /\ k > 0 /\ k \in 0..n /\ k \in DOMAIN s
        /\ \A j : j \in 1..k <=> (j \in 1..(k - 1) \/ j = k)
        /\ \A j \in Nat : j > 0 /\ j < k => j \in 1..(k - 1)
    <3> HIDE DEF same
    <3>1. k \in Nat /\ k > 0 /\ k \in 0..n /\ k \in DOMAIN s
      BY <1>1
    <3>2. \A j \in Nat : j > 0 /\ j < k => j \in 1..(k - 1)
      BY <3>1
    <3> QED BY <3>1, <3>2, OneMore
  <2>2. \A j \in 1..(k - 1) : j <= Len(t) /\ s[j] = t[j] /\ j \in DOMAIN s /\ j # k
    <3>1. \A j \in 1..(k - 1) : j <= Len(t) /\ s[j] = t[j]
      BY <1>4
    <3>2. \A j \in 1..(k - 1) : j \in DOMAIN s /\ j # k
      BY <1>1, <2>1
    <3> QED BY <3>1, <3>2
  <2> HIDE DEF same
  <2>3. PICK m \in DOMAIN t : s[k] = t[m]
    BY <1>1, <2>1 DEF ToSet
  <2>4. m \in Nat /\ m >= 1 /\ m <= Len(t)
    BY <1>1
  <2>5. ~(m < k)
    <3> SUFFICES ASSUME m < k PROVE FALSE
      OBVIOUS
    <3>1. m \in 1..(k - 1)
      BY <2>1, <2>4
    <3>2. s[m] = s[k] /\ m \in DOMAIN s /\ m # k
      BY <2>2, <2>3, <3>1
    <3> QED BY <2>1, <3>2 DEF OneEach
  <2>6. k <= Len(t) /\ k \in DOMAIN t
    BY <1>1, <2>1, <2>4, <2>5
  <2>7. s[k] = t[k]
    <3> SUFFICES ASSUME s[k] # t[k] PROVE FALSE
      OBVIOUS
    <3>1. k < m
      BY <2>1, <2>3, <2>4, <2>5
    <3>2. Before(t[k].place, s[k].place)
      BY <1>2, <2>3, <2>6, <3>1
    <3>3. PICK l \in DOMAIN s : t[k] = s[l]
      BY <1>1, <2>6 DEF ToSet
    <3>4. l \in Nat /\ l >= 1
      BY <1>1
    <3>5. ~(l < k)
      <4> SUFFICES ASSUME l < k PROVE FALSE
        OBVIOUS
      <4>1. l \in 1..(k - 1)
        BY <2>1, <3>4
      <4>2. t[l] = t[k] /\ l <= Len(t) /\ l # k
        BY <2>2, <3>3, <4>1
      <4>3. l \in DOMAIN t
        BY <1>1, <3>4, <4>2
      <4> QED BY <2>6, <4>2, <4>3 DEF OneEach
    <3>6. k < l
      BY <2>1, <3>3, <3>4, <3>5
    <3>7. Before(s[k].place, t[k].place)
      BY <1>2, <2>1, <3>3, <3>6
    <3>8. s[k].place \in Places /\ t[k].place \in Places
      BY <1>1, <2>1, <2>6 DEF Listed
    <3> QED BY <3>2, <3>7, <3>8, BeforeIsStrict
  <2> QED BY <2>1, <2>2, <2>6, <2>7 DEF same
<1>5. 0..n \subseteq same
  <2> HIDE DEF same
  <2> QED BY <1>1, <1>3, <1>4, LoopInduction
<1>6. n \in same
  <2>1. n \in 0..n
    BY <1>1
  <2> HIDE DEF same
  <2> QED BY <1>5, <2>1
<1> QED BY <1>6 DEF n

LEMMA OrderedUnique ==
    ASSUME NEW s \in Seq(Listed), NEW t \in Seq(Listed), ToSet(s) = ToSet(t),
           OneEach(s), OneEach(t), InOrder(s), InOrder(t)
    PROVE  s = t
<1>1. \A k \in 1..Len(s) : k <= Len(t) /\ s[k] = t[k]
  BY OrderedPrefix
<1>2. \A k \in 1..Len(t) : k <= Len(s) /\ t[k] = s[k]
  BY OrderedPrefix
<1>3. Len(s) \in Nat /\ Len(t) \in Nat
  OBVIOUS
<1>4. Len(s) = Len(t)
  <2>1. Len(s) > 0 => Len(s) \in 1..Len(s)
    BY <1>3
  <2>2. Len(t) > 0 => Len(t) \in 1..Len(t)
    BY <1>3
  <2> QED BY <1>1, <1>2, <1>3, <2>1, <2>2
<1> QED BY <1>1, <1>4

\* Upsert has settled the first k entries of a list with one for each place.
Settled(list, copies, k, acc) ==
    /\ Len(acc.list) = k
    /\ \A j \in 1..k : /\ acc.list[j].strategy = list[j].strategy
                       /\ acc.list[j].place = list[j].place
                       /\ UpToDate(acc.list[j], acc.copy[list[j].place])
    /\ (\A j \in DOMAIN list : UpToDate(list[j], copies[list[j].place])) =>
            acc.copy = copies /\ acc.changed = FALSE

LEMMA SettledOneMore ==
    ASSUME NEW list \in Seq(Listed), NEW copies \in [Places -> Object],
           version \in Nat, OneEach(list), NEW k \in 1..Len(list), NEW acc \in Progress({}),
           Handled(list, copies, k - 1, acc), Settled(list, copies, k - 1, acc)
    PROVE  Settled(list, copies, k, UpsertEntry(acc, list[k]))
<1> DEFINE e == list[k]
           next == UpsertEntry(acc, e)
           o == acc.copy[e.place]
<1>1. k \in Nat /\ k > 0 /\ k \in DOMAIN list /\ DOMAIN list = 1..Len(list)
  OBVIOUS
<1>2. e \in Listed
  OBVIOUS
<1>3. /\ acc.copy \in [Places -> Object] /\ acc.list \in Seq(Listed) /\ acc.skipped = {}
      /\ e.place \in Places
  BY <1>2 DEF Progress, Listed
<1>4. Describes(e, o)
  BY <1>1 DEF Handled
<1>5. PICK e2, o2 : Upserted(acc, e, next, e2, o2)
  BY <1>2, <1>4, UpsertStep
<1> HIDE DEF e, next, o
<1>6. /\ \A p \in Places : next.copy[p] = IF p = e.place THEN o2 ELSE acc.copy[p]
      /\ Len(next.list) = k /\ next.list[k] = e2
      /\ \A j \in 1..(k - 1) : next.list[j] = acc.list[j]
  <2>1. Len(acc.list) = k - 1
    BY DEF Settled
  <2> QED BY <1>1, <1>3, <1>5, <2>1 DEF Upserted
<1>7. \A j : j \in 1..k <=> (j \in 1..(k - 1) \/ j = k)
  BY <1>1, OneMore
<1>8. ASSUME NEW j \in 1..(k - 1)
      PROVE  /\ next.list[j].strategy = list[j].strategy
             /\ next.list[j].place = list[j].place
             /\ UpToDate(next.list[j], next.copy[list[j].place])
  <2>1. j \in DOMAIN list /\ j # k
    BY <1>1
  <2>2. list[j].place # e.place
    BY <1>1, <2>1 DEF OneEach, e
  <2>3. list[j].place \in Places
    <3>1. list[j] \in Listed
      BY <2>1
    <3> QED BY <3>1 DEF Listed
  <2>4. /\ acc.list[j].strategy = list[j].strategy
        /\ acc.list[j].place = list[j].place
        /\ UpToDate(acc.list[j], acc.copy[list[j].place])
    BY DEF Settled
  <2> QED BY <1>6, <2>2, <2>3, <2>4
<1>9. /\ next.list[k].strategy = list[k].strategy
      /\ next.list[k].place = list[k].place
      /\ UpToDate(next.list[k], next.copy[list[k].place])
  <2>1. e2.strategy = e.strategy /\ e2.place = e.place /\ UpToDate(e2, o2)
    BY <1>3, <1>5 DEF Upserted
  <2>2. next.copy[e.place] = o2
    BY <1>3, <1>6
  <2> QED BY <1>6, <2>1, <2>2 DEF e
<1>10. ASSUME \A j \in DOMAIN list : UpToDate(list[j], copies[list[j].place])
       PROVE  next.copy = copies /\ next.changed = FALSE
  <2>1. acc.copy = copies /\ acc.changed = FALSE
    BY <1>10 DEF Settled
  <2>2. UpToDate(e, acc.copy[e.place])
    BY <1>1, <1>10, <2>1 DEF e
  <2>3. /\ next.copy = [acc.copy EXCEPT ![e.place] = o2]
        /\ o2 = acc.copy[e.place] /\ next.changed = acc.changed
    BY <1>3, <1>5, <2>2 DEF Upserted
  <2>4. next.copy = acc.copy
    BY <1>3, <2>3
  <2> QED BY <2>1, <2>3, <2>4
<1>11. Settled(list, copies, k, next)
  BY <1>6, <1>7, <1>8, <1>9, <1>10 DEF Settled
<1> QED BY <1>11 DEF next, e

LEMMA UpsertSettles ==
    ASSUME NEW list \in Seq(Listed), NEW copies \in [Places -> Object],
           version \in Nat, Known(copies), OneEach(list),
           \A j \in DOMAIN list : Describes(list[j], copies[list[j].place])
    PROVE  Settled(list, copies, Len(list), Upsert(list, copies, {}))
<1>1. PICK upserted \in [Nat -> Progress({})] :
              /\ upserted[0] = [list |-> <<>>, copy |-> copies, skipped |-> {},
                                changed |-> FALSE]
              /\ \A i \in 1..Len(list) : upserted[i] = UpsertEntry(upserted[i - 1], list[i])
              /\ Upsert(list, copies, {}) = upserted[Len(list)]
  BY UpsertLoop
<1> DEFINE n == Len(list)
           done == {k \in 0..n : /\ Handled(list, copies, k, upserted[k])
                                 /\ Settled(list, copies, k, upserted[k])}
<1>2. n \in Nat /\ n \in 0..n
  OBVIOUS
<1>3. 0 \in done
  <2>1. /\ upserted[0].list = <<>> /\ upserted[0].copy = copies /\ upserted[0].changed = FALSE
        /\ \A j \in 1..0 : FALSE
    BY <1>1
  <2>2. Handled(list, copies, 0, upserted[0])
    BY <2>1 DEF Handled
  <2>3. Settled(list, copies, 0, upserted[0])
    BY <2>1 DEF Settled
  <2> QED BY <1>2, <2>2, <2>3
<1>4. ASSUME NEW k \in 1..n, k - 1 \in done PROVE k \in done
  <2>1. k \in 0..n /\ k - 1 \in Nat
    BY <1>2
  <2>2. upserted[k] = UpsertEntry(upserted[k - 1], list[k])
    BY <1>1
  <2>3. upserted[k - 1] \in Progress({})
    BY <1>1, <2>1
  <2>4. Handled(list, copies, k - 1, upserted[k - 1]) /\ Settled(list, copies, k - 1, upserted[k - 1])
    BY <1>4
  <2>5. Handled(list, copies, k, upserted[k])
    BY <2>2, <2>3, <2>4, HandledOneMore
  <2>6. Settled(list, copies, k, upserted[k])
    BY <2>2, <2>3, <2>4, SettledOneMore
  <2> QED BY <2>1, <2>5, <2>6
<1>5. 0..n \subseteq done
  <2> HIDE DEF done, n
  <2> QED BY <1>2, <1>3, <1>4, LoopInduction
<1>6. n \in done
  <2> HIDE DEF done, n
  <2> QED BY <1>2, <1>5
<1> QED BY <1>1, <1>2, <1>6

\* Entries that do not overlap expect one copy for each place.
LEMMA ExpectedOneEach ==
    ASSUME Ready, ~Overlap, NEW order \in Orders(cache)
    PROVE  OneEach(ExpectedDestinations(order))
<1> DEFINE lists == [i \in DOMAIN spec |-> Expansion(spec[i], order)]
<1>1. /\ order \in Seq(Namespaces) /\ ToSet(order) = cache
      /\ \A i, j \in DOMAIN order : order[i] = order[j] => i = j
  BY OrdersListed DEF OrdersAreLists, Ready
<1>2. /\ DOMAIN spec = 1..Len(spec) /\ Len(spec) \in Nat
      /\ \A i \in DOMAIN spec : spec[i] \in Entry /\ spec[i] \in ToSet(spec)
  BY DEF ToSet, Ready
<1>3. ASSUME NEW i \in DOMAIN spec
      PROVE  /\ lists[i] \in Seq(Listed) /\ OneEach(lists[i])
             /\ \A e \in ToSet(lists[i]) : e.place \in Wanted /\ spec[i] \in Requests(e.place)
  <2> DEFINE d == spec[i]
             all == [k \in DOMAIN order |-> Expects(d, order[k])]
             wanted == {PlaceIn(d, n) : n \in {n \in Namespaces : AppliesTo(d, n)}}
  <2>1. /\ DOMAIN order = 1..Len(order) /\ Len(order) \in Nat
        /\ \A k \in DOMAIN order : order[k] \in Namespaces
    BY <1>1
  <2>2. lists[i] = Within(all, wanted)
    BY DEF Expansion, Expects
  <2>3. all \in Seq([place : Namespaces \X ({Unset} \cup Names), strategy : Strategies,
                     sv : {0}, dv : {0}])
    <3>1. ASSUME NEW k \in DOMAIN order
          PROVE  all[k] \in [place : Namespaces \X ({Unset} \cup Names), strategy : Strategies,
                             sv : {0}, dv : {0}]
      <4>1. SourcePlace[2] \in Names /\ d.name \in {Unset} \cup Names /\ d.strategy \in Strategies
        BY <1>2, DestinationsAssumption DEF Places, Entry
      <4>2. PlaceIn(d, order[k]) \in Namespaces \X ({Unset} \cup Names)
        BY <2>1, <4>1 DEF PlaceIn
      <4> QED BY <4>1, <4>2 DEF Expects
    <3>2. all \in [1..Len(order) -> [place : Namespaces \X ({Unset} \cup Names),
                                     strategy : Strategies, sv : {0}, dv : {0}]]
      BY <2>1, <3>1
    <3> HIDE DEF all
    <3> QED BY <2>1, <3>2, IsList
  <2>4. OneEach(all)
    <3> SUFFICES ASSUME NEW k \in DOMAIN order, NEW l \in DOMAIN order,
                        all[k].place = all[l].place
                 PROVE  k = l
      BY DEF OneEach
    <3>1. PlaceIn(d, order[k]) = PlaceIn(d, order[l])
      BY DEF Expects
    <3>2. order[k] = order[l]
      BY <3>1 DEF PlaceIn
    <3> QED BY <1>1, <3>2
  <2>5. OneEach(Within(all, wanted))
    <3> HIDE DEF all, wanted
    <3> QED BY <2>3, <2>4, WithinOneEach
  <2>6. /\ lists[i] \in Seq(Listed)
        /\ ToSet(lists[i]) = {Expects(d, n) : n \in {n \in cache : AppliesTo(d, n)}}
    BY <1>1, <1>2, ExpansionElements
  <2>7. ASSUME NEW e \in ToSet(lists[i]) PROVE e.place \in Wanted /\ d \in Requests(e.place)
    <3>1. PICK n \in cache : AppliesTo(d, n) /\ e = Expects(d, n)
      <4> HIDE DEF lists
      <4> QED BY <2>6
    <3>2. n \in Namespaces
      BY DEF Ready
    <3>3. e.place = PlaceIn(d, n) /\ PlaceIn(d, n)[1] = n
      BY <3>1 DEF Expects, PlaceIn
    <3>4. e.place \in Places \ {SourcePlace} /\ d \in Requests(e.place)
      BY <1>2, <3>1, <3>2, <3>3, WantedIsExpected DEF Requests
    <3> QED BY <3>3, <3>4 DEF Wanted
  <2> QED BY <2>2, <2>5, <2>6, <2>7
<1>4. lists \in [1..Len(spec) -> Seq(Listed)] /\ DOMAIN lists = DOMAIN spec
  BY <1>2, <1>3
<1>5. ExpectedDestinations(order) = Joined(lists)
  BY DEF ExpectedDestinations
<1> HIDE DEF lists
<1>6. lists \in Seq(Seq(Listed))
  BY <1>2, <1>4, IsList
<1>7. ASSUME NEW i \in DOMAIN lists, NEW j \in DOMAIN lists,
             NEW a \in ToSet(lists[i]), NEW b \in ToSet(lists[j]), a.place = b.place
      PROVE  i = j
  <2>1. /\ a.place \in Wanted /\ spec[i] \in Requests(a.place)
        /\ spec[j] \in Requests(a.place)
    BY <1>3, <1>4, <1>7
  <2> QED BY <1>4, <2>1 DEF Overlap
<1> QED BY <1>3, <1>4, <1>5, <1>6, <1>7, JoinedOneEach

\* Entries that do not overlap agree on the strategy of a copy.
LEMMA SameStrategy ==
    ASSUME ~Overlap, NEW a, Requested(a), NEW b, Requested(b), a.place = b.place
    PROVE  a.strategy = b.strategy
<1>1. PICK d \in Requests(a.place) : a.strategy = d.strategy
  BY DEF Requested
<1>2. PICK d2 \in Requests(a.place) : b.strategy = d2.strategy
  BY DEF Requested
<1>3. a.place \in Wanted
  BY DEF Requested
<1>4. PICK i \in DOMAIN spec : d = spec[i]
  BY <1>1 DEF Requests, ToSet
<1>5. PICK j \in DOMAIN spec : d2 = spec[j]
  BY <1>2 DEF Requests, ToSet
<1>6. {spec[i], spec[j]} \subseteq Requests(a.place)
  BY <1>1, <1>2, <1>4, <1>5
<1>7. i = j
  BY <1>3, <1>6 DEF Overlap
<1> QED BY <1>1, <1>2, <1>4, <1>5, <1>7

LEMMA MergeOneEach ==
    ASSUME Ready, ~Overlap, NEW order \in Orders(cache)
    PROVE  OneEach(Merge(order).expected)
<1> DEFINE expected == ExpectedDestinations(order)
           Merged(i) ==
               LET e == expected[i]
                   old == At(status, e.place)
               IN  IF old = <<>> \/ \E j \in 1..(i - 1) : expected[j].place = e.place
                   THEN e ELSE Inherited(e, old[1])
           merged == [i \in DOMAIN expected |-> Merged(i)]
<1>1. Merge(order).expected = merged
  BY DEF Merge
<1>2. expected \in Seq(Listed) /\ OneEach(expected)
  BY ExpectedElements, ExpectedOneEach DEF Ready
<1> HIDE DEF expected
<1>3. ASSUME NEW i \in DOMAIN expected PROVE Merged(i).place = expected[i].place
  <2>1. expected[i] \in Listed
    BY <1>2
  <2>2. \A x : Inherited(expected[i], x).place = expected[i].place
    BY <2>1 DEF Inherited, Listed
  <2> QED BY <2>2
<1> HIDE DEF Merged
<1>4. OneEach(merged)
  BY <1>2, <1>3 DEF OneEach
<1> QED BY <1>1, <1>4

\* Of two elements of such a list for one place ...
LEMMA OneElement ==
    ASSUME NEW s, OneEach(s), NEW a \in ToSet(s), NEW b \in ToSet(s), a.place = b.place
    PROVE  a = b
BY DEF OneEach, ToSet

\* Where the status lists what is asked for already, the merge brings that.
LEMMA MergeRepeats ==
    ASSUME Ready, ~Overlap, NEW order \in Orders(cache),
           OneEach(status), PlacesOf(status) = Wanted,
           \A x \in ToSet(status) : Requested(x)
    PROVE  ToSet(Merge(order).expected) = ToSet(status) /\ Stale = {}
<1> DEFINE expected == ExpectedDestinations(order)
           Merged(i) ==
               LET e == expected[i]
                   old == At(status, e.place)
               IN  IF old = <<>> \/ \E j \in 1..(i - 1) : expected[j].place = e.place
                   THEN e ELSE Inherited(e, old[1])
           merged == [i \in DOMAIN expected |-> Merged(i)]
<1>1. Merge(order).expected = merged
  BY DEF Merge
<1>2. /\ expected \in Seq(Listed) /\ OneEach(expected)
      /\ \A e \in ToSet(expected) : Requested(e)
      /\ \A p \in Wanted : \E e \in ToSet(expected) : e.place = p
  BY ExpectedElements, ExpectedOneEach DEF Ready
<1> HIDE DEF expected
<1>3. /\ DOMAIN expected = 1..Len(expected) /\ Len(expected) \in Nat
      /\ \A i \in DOMAIN expected : expected[i] \in Listed /\ expected[i] \in ToSet(expected)
  BY <1>2 DEF ToSet
<1>4. ASSUME NEW i \in DOMAIN expected, NEW x \in ToSet(status), x.place = expected[i].place
      PROVE  Merged(i) = x
  <2> DEFINE e == expected[i]
             old == At(status, e.place)
  <2>1. /\ old \in Seq(Listed)
        /\ ToSet(old) = {y \in ToSet(status) : y.place \in {e.place}}
    BY WithinElements DEF At, Ready
  <2>2. x \in ToSet(old)
    BY <1>4, <2>1
  <2>3. old # <<>> /\ old[1] \in ToSet(old)
    <3> HIDE DEF old
    <3>1. 1 \in DOMAIN old
      BY <2>1, <2>2 DEF ToSet
    <3> QED BY <3>1 DEF ToSet
  <2>4. old[1] = x
    <3>1. old[1] \in ToSet(status) /\ old[1].place = x.place
      BY <1>4, <2>1, <2>3
    <3> QED BY <3>1, OneElement
  <2>5. ~ \E j \in 1..(i - 1) : expected[j].place = e.place
    <3> SUFFICES ASSUME NEW j \in 1..(i - 1), expected[j].place = e.place PROVE FALSE
      OBVIOUS
    <3>1. j \in DOMAIN expected /\ j # i
      BY <1>3
    <3> QED BY <1>2, <3>1 DEF OneEach
  <2>6. Merged(i) = Inherited(e, x)
    BY <2>3, <2>4, <2>5
  <2>7. e.strategy = x.strategy
    BY <1>2, <1>3, <1>4, SameStrategy
  <2>8. x \in Listed /\ e \in Listed
    BY <1>3 DEF Ready, ToSet
  <2>9. Inherited(e, x) = [e EXCEPT !.sv = x.sv, !.dv = x.dv]
    BY <2>7 DEF Inherited
  <2>10. [e EXCEPT !.sv = x.sv, !.dv = x.dv] = x
    <3> HIDE DEF e
    <3> QED BY <1>4, <2>7, <2>8 DEF Listed, e
  <2> QED BY <2>6, <2>9, <2>10
<1> HIDE DEF Merged
<1>5. ASSUME NEW i \in DOMAIN expected
      PROVE  \E x \in ToSet(status) : x.place = expected[i].place
  <2>1. expected[i].place \in PlacesOf(status)
    BY <1>2, <1>3 DEF Requested
  <2> QED BY <2>1 DEF PlacesOf, ToSet
<1>6. ToSet(merged) \subseteq ToSet(status)
  <2> SUFFICES ASSUME NEW e \in ToSet(merged) PROVE e \in ToSet(status)
    OBVIOUS
  <2>1. PICK i \in DOMAIN expected : e = Merged(i)
    BY DEF ToSet
  <2> QED BY <1>4, <1>5, <2>1
<1>7. ToSet(status) \subseteq ToSet(merged)
  <2> SUFFICES ASSUME NEW x \in ToSet(status) PROVE x \in ToSet(merged)
    OBVIOUS
  <2>1. x.place \in Wanted
    BY DEF Requested
  <2>2. PICK e \in ToSet(expected) : e.place = x.place
    BY <1>2, <2>1
  <2>3. PICK i \in DOMAIN expected : e = expected[i]
    BY DEF ToSet
  <2>4. Merged(i) = x
    BY <1>4, <2>2, <2>3
  <2> QED BY <2>4 DEF ToSet
<1>8. Stale = {}
  BY DEF Stale, Requested
<1> QED BY <1>1, <1>6, <1>7, <1>8

---------------------------------------------------------------------------
(* The invariant.                                                          *)

\* The properties of the lists and copies support each other: a skipped
\* write leaves what is specified because versions are true, and stale
\* copies are found because copies are listed.
DestinationsInv ==
    /\ DestinationsTypeOK
    /\ CopiesListed /\ VersionsTrue
    /\ CopiesAsSpecified /\ StrategyFollowed

LEMMA InvIsReady == DestinationsInv => Ready
BY DEF DestinationsInv, DestinationsTypeOK, Ready

\* A reconciliation in which the calls for some places fail.
LEMMA ReconcileStep ==
    ASSUME Ready, NEW failed, ReconcileExcept(failed)
    PROVE  /\ status' \in Seq(Listed) /\ InOrder(status') /\ copy' \in [Places -> Object]
           /\ sent' \in BOOLEAN
           /\ CopiesListed' /\ VersionsTrue'
           /\ UNCHANGED <<spec, cache, version, edits>>
           /\ failed = {} =>
                  /\ PlacesOf(status') = Wanted
                  /\ \A p \in Places : copy'[p].st <=> p \in Wanted
                  /\ \A p \in Wanted : copy'[p].data = version
                  /\ \A p \in Wanted : \E d \in Requests(p) : copy'[p].by = d.strategy
<1> DEFINE Tracked(order) ==
               Sorted(Merge(order).expected \o Remnants(Merge(order).stale, failed))
<1>1. PICK order \in Orders(cache) :
          /\ status' = Result(order, failed, Tracked(order)).list
          /\ copy' = Result(order, failed, Tracked(order)).copy
          /\ sent' = (Tracked(order) # status \/ Result(order, failed, Tracked(order)).changed)
          /\ UNCHANGED <<spec, cache, version, edits>>
  BY DEF ReconcileExcept, Result
<1> DEFINE tracked == Tracked(order)
           r == Result(order, failed, tracked)
<1>2. /\ tracked \in Seq(Listed) /\ InOrder(tracked)
      /\ ToSet(tracked) = ToSet(Merge(order).expected) \cup {e \in Stale : e.place \in failed}
  BY TrackedElements
<1>3. status' = r.list /\ copy' = r.copy /\ sent' = (tracked # status \/ r.changed)
  BY <1>1
<1> HIDE DEF Tracked, tracked, r
<1>4. r = Result(order, failed, tracked)
  BY DEF r
<1>5. /\ r.list \in Seq(Listed) /\ r.copy \in [Places -> Object] /\ r.changed \in BOOLEAN
      /\ InOrder(r.list) /\ Correct(r.list, r.copy)
      /\ failed = {} =>
             /\ PlacesOf(r.list) = Wanted
             /\ \A p \in Wanted :
                   /\ r.copy[p].st /\ r.copy[p].data = version
                   /\ \E d \in Requests(p) : r.copy[p].by = d.strategy
  BY <1>2, <1>4, Reconciled
<1>6. CopiesListed' /\ VersionsTrue'
  BY <1>3, <1>5 DEF Correct, Known, CopiesListed, VersionsTrue
<1>7. ASSUME failed = {}
      PROVE  /\ \A p \in Places : r.copy[p].st <=> p \in Wanted
             /\ Wanted \subseteq Places
  <2>1. \A p \in Places : r.copy[p].st => p \in Wanted
    BY <1>5, <1>7 DEF Correct
  <2>2. \A p \in Wanted : r.copy[p].st /\ p \in Places
    BY <1>5, <1>7 DEF Wanted
  <2>3. \A p \in Places : r.copy[p].st \in BOOLEAN
    BY <1>5 DEF Object
  <2> QED BY <2>1, <2>2, <2>3
<1>8. sent' \in BOOLEAN
  BY <1>3, <1>5
<1> QED BY <1>1, <1>3, <1>5, <1>6, <1>7, <1>8

\* What a complete reconciliation leaves when no entries overlap.
Current(list, copies) ==
    /\ OneEach(list)
    /\ \A e \in ToSet(list) : Requested(e) /\ UpToDate(e, copies[e.place])

LEMMA CurrentStep ==
    ASSUME Ready, ~Overlap, ReconcileExcept({})
    PROVE  /\ Current(status', copy')
           /\ Current(status, copy) /\ InOrder(status) /\ PlacesOf(status) = Wanted => ~sent'
<1> DEFINE Tracked(order) ==
               Sorted(Merge(order).expected \o Remnants(Merge(order).stale, {}))
<1>1. PICK order \in Orders(cache) :
          /\ status' = Result(order, {}, Tracked(order)).list
          /\ copy' = Result(order, {}, Tracked(order)).copy
          /\ sent' = (Tracked(order) # status \/ Result(order, {}, Tracked(order)).changed)
  BY DEF ReconcileExcept, Result
<1> DEFINE expected == Merge(order).expected
           tracked == Tracked(order)
           deleted == PlacesOf(Merge(order).stale) \ {}
           copies == Deleted(copy, deleted)
           r == Result(order, {}, tracked)
           n == Len(tracked)
<1>2. /\ tracked \in Seq(Listed) /\ InOrder(tracked)
      /\ ToSet(tracked) = ToSet(expected) \cup {e \in Stale : e.place \in {}}
  BY TrackedElements
<1>3. ToSet(tracked) = ToSet(expected)
  BY <1>2
<1>4. /\ expected \in Seq(Listed) /\ Merge(order).stale \in Seq(Listed)
      /\ \A e \in ToSet(expected) : Requested(e) /\ Describes(e, copy[e.place])
      /\ ToSet(Merge(order).stale) = Stale
  BY MergeElements
<1>5. OneEach(tracked)
  <2>1. Remnants(Merge(order).stale, {}) = <<>>
    <3> DEFINE rest == Within(Merge(order).stale, {})
    <3>1. rest \in Seq(Listed) /\ ToSet(rest) = {e \in ToSet(Merge(order).stale) : e.place \in {}}
      BY <1>4, WithinElements
    <3> HIDE DEF rest
    <3>2. \A i \in DOMAIN rest : FALSE
      BY <3>1 DEF ToSet
    <3>3. rest = <<>>
      BY <3>1, <3>2
    <3> QED BY <3>3 DEF rest, Remnants
  <2>2. tracked = Sorted(expected)
    <3> HIDE DEF expected
    <3>1. expected \o <<>> = expected
      BY <1>4
    <3> QED BY <2>1, <3>1 DEF expected
  <2>3. OneEach(expected)
    BY MergeOneEach
  <2> QED BY <1>4, <2>2, <2>3, SortedOneEach
<1>6. status' = r.list /\ copy' = r.copy /\ sent' = (tracked # status \/ r.changed)
  BY <1>1
<1>7. r = Upsert(tracked, copies, {})
  BY DEF Result
<1> HIDE DEF Tracked, tracked, r, expected
<1>8. /\ r.list \in Seq(Listed) /\ r.changed \in BOOLEAN
  BY <1>2, Reconciled DEF r, expected
<1>9. /\ copies \in [Places -> Object] /\ Known(copies)
      /\ \A p \in Places : \A e : Describes(e, copy[p]) => Describes(e, copies[p])
  BY DeletedCopies
<1>10. /\ DOMAIN tracked = 1..n /\ n \in Nat
       /\ \A j \in DOMAIN tracked : /\ tracked[j].place \in Places
                                    /\ tracked[j] \in ToSet(tracked)
  <2>1. DOMAIN tracked = 1..n /\ n \in Nat /\ \A j \in DOMAIN tracked : tracked[j] \in Listed
    BY <1>2
  <2>2. \A j \in DOMAIN tracked : tracked[j] \in ToSet(tracked)
    BY DEF ToSet
  <2> QED BY <2>1, <2>2 DEF Listed
<1> HIDE DEF copies, deleted
<1>11. \A j \in DOMAIN tracked : Describes(tracked[j], copies[tracked[j].place])
  BY <1>3, <1>4, <1>9, <1>10
<1>12. Settled(tracked, copies, n, r)
  BY <1>2, <1>5, <1>7, <1>9, <1>11, UpsertSettles DEF Ready
<1>13. /\ DOMAIN r.list = DOMAIN tracked
       /\ \A j \in DOMAIN tracked : /\ r.list[j].place = tracked[j].place
                                    /\ r.list[j].strategy = tracked[j].strategy
                                    /\ UpToDate(r.list[j], r.copy[r.list[j].place])
  BY <1>8, <1>10, <1>12 DEF Settled
<1>14. OneEach(r.list)
  BY <1>5, <1>13 DEF OneEach
<1>15. ASSUME NEW e \in ToSet(r.list) PROVE Requested(e) /\ UpToDate(e, r.copy[e.place])
  <2>1. PICK j \in DOMAIN tracked : e = r.list[j]
    BY <1>13 DEF ToSet
  <2>2. Requested(tracked[j])
    BY <1>3, <1>4, <1>10
  <2> QED BY <1>13, <2>1, <2>2 DEF Requested
<1>16. Current(status', copy')
  BY <1>6, <1>14, <1>15 DEF Current
<1>17. ASSUME Current(status, copy), InOrder(status), PlacesOf(status) = Wanted
       PROVE  ~sent'
  <2>1. ToSet(expected) = ToSet(status) /\ Stale = {}
    BY <1>17, MergeRepeats DEF Current, expected
  <2>2. tracked = status
    BY <1>2, <1>3, <1>5, <1>17, <2>1, OrderedUnique DEF Current, Ready
  <2>3. deleted = {}
    BY <1>4, <2>1, PlacesOfElements DEF deleted
  <2>4. copies = copy
    BY <2>3 DEF copies, Deleted, Ready
  <2>5. \A j \in DOMAIN tracked : UpToDate(tracked[j], copies[tracked[j].place])
    BY <1>10, <1>17, <2>2, <2>4 DEF Current
  <2>6. r.changed = FALSE
    BY <1>12, <2>5 DEF Settled
  <2> QED BY <1>6, <2>2, <2>6
<1> QED BY <1>16, <1>17

\* Copies that are deleted while an entry stays listed.
LEMMA DeletionStep ==
    ASSUME Ready, NEW places, copy' = Deleted(copy, places), status' = status
    PROVE  copy' \in [Places -> Object] /\ CopiesListed' /\ VersionsTrue'
<1>1. /\ copy' \in [Places -> Object] /\ Known(copy')
      /\ \A p \in Places : copy'[p].st => copy[p].st
      /\ \A p \in Places : \A e : Describes(e, copy[p]) => Describes(e, copy'[p])
  BY DeletedCopies
<1>2. CopiesListed'
  BY <1>1 DEF Ready, CopiesListed
<1>3. ASSUME NEW i \in DOMAIN status PROVE Describes(status[i], copy'[status[i].place])
  <2>1. status[i] \in Listed
    BY DEF Ready
  <2>2. status[i].place \in Places
    BY <2>1 DEF Listed
  <2> QED BY <1>1, <2>2 DEF Ready, VersionsTrue
<1>4. VersionsTrue'
  BY <1>1, <1>3 DEF VersionsTrue, Known
<1> QED BY <1>1, <1>2, <1>4

LEMMA InvInit ==
    ASSUME Init
    PROVE  DestinationsInv
<1>1. spec \in Seq(Entry) /\ Len(spec) <= MaxEntries
  <2>1. PICK k \in 0..MaxEntries : spec \in [1..k -> Entry]
    BY DEF Init, Specs
  <2>2. k \in Nat /\ k <= MaxEntries
    BY DestinationsAssumption
  <2> QED BY <2>1, <2>2, IsList
<1>2. DestinationsTypeOK
  <2>1. NoObject \in Object
    BY DEF NoObject, Object, Strategies
  <2>2. status \in Seq(Listed) /\ InOrder(status)
    BY DEF Init, InOrder
  <2>3. copy \in [Places -> Object]
    BY <2>1 DEF Init
  <2>4. version \in 1..(edits + 1) /\ edits \in 0..MaxEdits /\ faults \in 0..MaxFaults
    BY DestinationsAssumption DEF Init
  <2>5. cache \subseteq Namespaces /\ sent \in BOOLEAN
    BY Zenon DEF Init
  <2>6. passes \in 0..2
    BY DEF Init
  <2> QED BY <1>1, <2>2, <2>3, <2>4, <2>5, <2>6 DEF DestinationsTypeOK
<1>3. \A p \in Places : copy[p] = NoObject /\ NoObject.st = FALSE
  BY DEF Init, NoObject
<1>4. DOMAIN status = {} /\ passes = 0
  BY DEF Init
<1>5. CopiesListed /\ VersionsTrue
  BY <1>3, <1>4 DEF CopiesListed, VersionsTrue
<1>6. CopiesAsSpecified /\ StrategyFollowed
  BY <1>4 DEF CopiesAsSpecified, StrategyFollowed
<1> QED BY <1>2, <1>5, <1>6 DEF DestinationsInv

LEMMA InvReconcile ==
    ASSUME DestinationsInv, Reconcile
    PROVE  DestinationsInv'
<1>1. Ready /\ ReconcileExcept({}) /\ passes < 2 /\ passes' = passes + 1 /\ faults' = faults
  BY InvIsReady DEF Reconcile
<1>2. /\ status' \in Seq(Listed) /\ InOrder(status') /\ copy' \in [Places -> Object]
      /\ sent' \in BOOLEAN /\ CopiesListed' /\ VersionsTrue'
      /\ UNCHANGED <<spec, cache, version, edits>>
      /\ PlacesOf(status') = Wanted
      /\ \A p \in Places : copy'[p].st <=> p \in Wanted
      /\ \A p \in Wanted : copy'[p].data = version
      /\ \A p \in Wanted : \E d \in Requests(p) : copy'[p].by = d.strategy
  BY <1>1, ReconcileStep
<1>3. DestinationsTypeOK'
  BY <1>1, <1>2 DEF DestinationsInv, DestinationsTypeOK, InOrder
<1>4. Wanted' = Wanted /\ \A p : Requests(p)' = Requests(p)
  BY <1>2 DEF Wanted, Requests
<1>5. CopiesAsSpecified'
  BY <1>2, <1>4 DEF CopiesAsSpecified, PlacesOf
<1>6. StrategyFollowed'
  BY <1>2, <1>4 DEF StrategyFollowed
<1> QED BY <1>2, <1>3, <1>5, <1>6 DEF DestinationsInv

LEMMA InvReconcileFails ==
    ASSUME DestinationsInv, ReconcileFails
    PROVE  DestinationsInv'
<1>1. PICK p \in Places : ReconcileExcept({p})
  BY DEF ReconcileFails
<1>2. passes' = 0 /\ faults < MaxFaults /\ faults' = faults + 1
  BY DEF ReconcileFails, Fault
<1>3. Ready
  BY InvIsReady
<1>4. /\ status' \in Seq(Listed) /\ InOrder(status') /\ copy' \in [Places -> Object]
      /\ sent' \in BOOLEAN /\ CopiesListed' /\ VersionsTrue'
      /\ UNCHANGED <<spec, cache, version, edits>>
  BY <1>1, <1>3, ReconcileStep
<1>5. DestinationsTypeOK'
  BY <1>2, <1>4, DestinationsAssumption DEF DestinationsInv, DestinationsTypeOK, InOrder
<1>6. CopiesAsSpecified' /\ StrategyFollowed'
  BY <1>2 DEF CopiesAsSpecified, StrategyFollowed
<1> QED BY <1>4, <1>5, <1>6 DEF DestinationsInv

LEMMA InvTrackingFails ==
    ASSUME DestinationsInv, TrackingFails
    PROVE  DestinationsInv'
<1>1. PICK places : copy' = Deleted(copy, places)
  BY DEF TrackingFails
<1>2. /\ passes' = 0 /\ faults < MaxFaults /\ faults' = faults + 1 /\ sent' = TRUE
      /\ UNCHANGED <<spec, cache, version, status, edits>>
  BY DEF TrackingFails, Fault
<1>3. Ready
  BY InvIsReady
<1>4. copy' \in [Places -> Object] /\ CopiesListed' /\ VersionsTrue'
  BY <1>1, <1>2, <1>3, DeletionStep
<1>5. DestinationsTypeOK'
  BY <1>2, <1>4, DestinationsAssumption DEF DestinationsInv, DestinationsTypeOK, InOrder
<1>6. CopiesAsSpecified' /\ StrategyFollowed'
  BY <1>2 DEF CopiesAsSpecified, StrategyFollowed
<1> QED BY <1>4, <1>5, <1>6 DEF DestinationsInv

LEMMA InvFinishFails ==
    ASSUME DestinationsInv, FinishFails
    PROVE  DestinationsInv'
<1> DEFINE Tracked(order) == Sorted(Merge(order).expected)
<1>1. PICK order \in Orders(cache) :
          /\ status' = Tracked(order)
          /\ copy' = Upsert(Tracked(order), Deleted(copy, PlacesOf(Merge(order).stale)), {}).copy
  BY DEF FinishFails
<1> DEFINE tracked == Tracked(order)
           r == Result(order, {}, tracked)
<1>2. /\ passes' = 0 /\ faults < MaxFaults /\ faults' = faults + 1 /\ sent' = TRUE
      /\ UNCHANGED <<spec, cache, version, edits>>
  BY DEF FinishFails, Fault
<1>3. Ready
  BY InvIsReady
<1>4. /\ tracked \in Seq(Listed) /\ InOrder(tracked)
      /\ ToSet(tracked) = ToSet(Merge(order).expected) \cup {e \in Stale : e.place \in {}}
  BY <1>3, TrackedElements
<1>5. status' = tracked /\ copy' = r.copy
  <2>1. PlacesOf(Merge(order).stale) \ {} = PlacesOf(Merge(order).stale)
    OBVIOUS
  <2> QED BY <1>1, <2>1 DEF Result
<1> HIDE DEF Tracked, tracked, r
<1>6. r = Result(order, {}, tracked)
  BY DEF r
<1>7. r.copy \in [Places -> Object] /\ Correct(tracked, r.copy)
  BY <1>3, <1>4, <1>6, Reconciled
<1>8. CopiesListed' /\ VersionsTrue'
  BY <1>5, <1>7 DEF Correct, Known, CopiesListed, VersionsTrue
<1>9. DestinationsTypeOK'
  BY <1>2, <1>4, <1>5, <1>7, DestinationsAssumption DEF DestinationsInv, DestinationsTypeOK, InOrder
<1>10. CopiesAsSpecified' /\ StrategyFollowed'
  BY <1>2 DEF CopiesAsSpecified, StrategyFollowed
<1> QED BY <1>8, <1>9, <1>10 DEF DestinationsInv

\* Edits of users that leave the copies alone.
LEMMA InvEdit ==
    ASSUME DestinationsInv, Edit, UNCHANGED <<status, copy, sent, faults>>,
           spec' \in Seq(Entry), Len(spec') <= MaxEntries, cache' \subseteq Namespaces,
           version' \in {version, version + 1}
    PROVE  DestinationsInv'
<1>1. passes' = 0 /\ edits < MaxEdits /\ edits' = edits + 1
  BY DEF Edit
<1>2. version' \in 1..(edits' + 1) /\ edits' \in 0..MaxEdits
  BY <1>1, DestinationsAssumption DEF DestinationsInv, DestinationsTypeOK
<1>3. DestinationsTypeOK'
  BY <1>1, <1>2 DEF DestinationsInv, DestinationsTypeOK, InOrder
<1>4. CopiesListed' /\ VersionsTrue'
  BY DEF DestinationsInv, CopiesListed, VersionsTrue
<1>5. CopiesAsSpecified' /\ StrategyFollowed'
  BY <1>1 DEF CopiesAsSpecified, StrategyFollowed
<1> QED BY <1>3, <1>4, <1>5 DEF DestinationsInv

LEMMA InvEditSpec ==
    ASSUME DestinationsInv, EditSpec
    PROVE  DestinationsInv'
<1>1. spec \in Seq(Entry) /\ Len(spec) <= MaxEntries /\ Len(spec) \in Nat
  BY DEF DestinationsInv, DestinationsTypeOK
<1>2. cache \subseteq Namespaces
  BY DEF DestinationsInv, DestinationsTypeOK
<1>3. spec' \in Seq(Entry) /\ Len(spec') <= MaxEntries
  <2>1. CASE Len(spec) < MaxEntries /\ \E d \in Entry : spec' = Append(spec, d)
    BY <1>1, <2>1, DestinationsAssumption
  <2>2. ASSUME NEW i \in DOMAIN spec, spec' = RemoveAt(spec, i)
        PROVE  spec' \in Seq(Entry) /\ Len(spec') <= MaxEntries
    <3>1. i \in 1..Len(spec)
      BY <1>1
    <3>2. spec' = SubSeq(spec, 1, i - 1) \o SubSeq(spec, i + 1, Len(spec))
      BY <2>2 DEF RemoveAt
    <3>3. /\ SubSeq(spec, 1, i - 1) \in Seq(Entry) /\ Len(SubSeq(spec, 1, i - 1)) = i - 1
          /\ SubSeq(spec, i + 1, Len(spec)) \in Seq(Entry)
          /\ Len(SubSeq(spec, i + 1, Len(spec))) = Len(spec) - i
      BY <1>1, <3>1
    <3> QED BY <1>1, <3>1, <3>2, <3>3, DestinationsAssumption
  <2>3. ASSUME NEW i \in DOMAIN spec, NEW g \in Strategies,
               spec' = [spec EXCEPT ![i].strategy = g]
        PROVE  spec' \in Seq(Entry) /\ Len(spec') <= MaxEntries
    <3>1. i \in 1..Len(spec) /\ spec[i] \in Entry
      BY <1>1
    <3>2. [spec[i] EXCEPT !.strategy = g] \in Entry
      BY <3>1 DEF Entry
    <3>3. spec' = [spec EXCEPT ![i] = [spec[i] EXCEPT !.strategy = g]]
      BY <2>3
    <3> QED BY <1>1, <3>1, <3>2, <3>3
  <2> QED BY <2>1, <2>2, <2>3 DEF EditSpec
<1>4. Edit /\ UNCHANGED <<cache, version, status, copy, sent, faults>>
  BY DEF EditSpec
<1> QED BY <1>2, <1>3, <1>4, InvEdit

LEMMA InvDriftCopy ==
    ASSUME DestinationsInv, NEW p \in Places, DriftCopy(p)
    PROVE  DestinationsInv'
<1>1. /\ passes' = 0 /\ edits < MaxEdits /\ edits' = edits + 1
      /\ UNCHANGED <<spec, cache, version, status, sent, faults>>
  BY DEF DriftCopy, Edit
<1>2. Ready
  BY InvIsReady
<1>3. copy[p] \in Object /\ copy[p].st /\ copy \in [Places -> Object]
  BY <1>2 DEF DriftCopy, Ready
<1>4. PICK o \in Object : /\ copy' = [copy EXCEPT ![p] = o]
                          /\ o.st => o.rv > copy[p].rv
                          /\ o.rv >= copy[p].rv
  <2>1. CASE copy' = [copy EXCEPT ![p].data = 0, ![p].rv = @ + 1]
    <3> DEFINE o == [copy[p] EXCEPT !.data = 0, !.rv = copy[p].rv + 1]
    <3>1. copy[p].rv \in Nat /\ copy[p].rv + 1 \in Nat
      BY <1>3 DEF Object
    <3>2. o \in Object /\ o.rv = copy[p].rv + 1
      BY <1>3, <3>1 DEF Object
    <3>3. copy' = [copy EXCEPT ![p] = o]
      BY <1>3, <2>1
    <3> HIDE DEF o
    <3>4. (o.st => o.rv > copy[p].rv) /\ o.rv >= copy[p].rv
      BY <3>1, <3>2
    <3> QED BY <3>2, <3>3, <3>4
  <2>2. CASE copy' = [copy EXCEPT ![p].st = FALSE]
    <3> DEFINE o == [copy[p] EXCEPT !.st = FALSE]
    <3>1. o \in Object /\ o.rv = copy[p].rv /\ copy[p].rv \in Nat /\ o.st = FALSE
      BY <1>3 DEF Object
    <3>2. copy' = [copy EXCEPT ![p] = o]
      BY <1>3, <2>2
    <3> HIDE DEF o
    <3>3. (o.st => o.rv > copy[p].rv) /\ o.rv >= copy[p].rv
      BY <3>1
    <3> QED BY <3>1, <3>2, <3>3
  <2> QED BY <2>1, <2>2 DEF DriftCopy
<1>5. \A q \in Places : copy'[q] = IF q = p THEN o ELSE copy[q]
  BY <1>3, <1>4
<1>6. copy' \in [Places -> Object]
  BY <1>3, <1>4
<1>7. CopiesListed'
  BY <1>1, <1>2, <1>3, <1>5 DEF Ready, CopiesListed
<1>8. ASSUME NEW e \in Listed, Describes(e, copy[p]) PROVE Describes(e, o)
  BY <1>3, <1>4, <1>8 DEF Describes, Object, Listed
<1>9. ASSUME NEW i \in DOMAIN status PROVE Describes(status[i], copy'[status[i].place])
  <2>1. status[i] \in Listed
    BY <1>2 DEF Ready
  <2>2. status[i].place \in Places
    BY <2>1 DEF Listed
  <2>3. Describes(status[i], copy[status[i].place])
    BY <1>2 DEF Ready, VersionsTrue
  <2> QED BY <1>5, <1>8, <2>1, <2>2, <2>3
<1>10. o.st => o.rv > 0
  BY <1>3, <1>4 DEF Object
<1>11. VersionsTrue'
  BY <1>1, <1>2, <1>5, <1>9, <1>10 DEF Ready, VersionsTrue
<1>12. DestinationsTypeOK'
  BY <1>1, <1>6, DestinationsAssumption DEF DestinationsInv, DestinationsTypeOK, InOrder
<1>13. CopiesAsSpecified' /\ StrategyFollowed'
  BY <1>1 DEF CopiesAsSpecified, StrategyFollowed
<1> QED BY <1>7, <1>11, <1>12, <1>13 DEF DestinationsInv

LEMMA InvNext ==
    ASSUME DestinationsInv, [Next]_destVars
    PROVE  DestinationsInv'
<1>1. CASE Reconcile
  BY <1>1, InvReconcile
<1>2. CASE ReconcileFails
  BY <1>2, InvReconcileFails
<1>3. CASE TrackingFails
  BY <1>3, InvTrackingFails
<1>4. CASE FinishFails
  BY <1>4, InvFinishFails
<1>5. CASE EditSpec
  BY <1>5, InvEditSpec
<1>6. /\ spec \in Seq(Entry) /\ Len(spec) <= MaxEntries /\ cache \subseteq Namespaces
  BY DEF DestinationsInv, DestinationsTypeOK
<1>7. CASE EditSource
  BY <1>6, <1>7, InvEdit DEF EditSource
<1>8. CASE EditNamespace
  BY <1>6, <1>8, InvEdit DEF EditNamespace
<1>9. CASE \E p \in Places : DriftCopy(p)
  BY <1>9, InvDriftCopy
<1>10. CASE UNCHANGED destVars
  BY <1>10 DEF destVars, DestinationsInv, DestinationsTypeOK, InOrder, CopiesListed, VersionsTrue,
     CopiesAsSpecified, StrategyFollowed, PlacesOf, Wanted, Requests
<1> QED BY <1>1, <1>2, <1>3, <1>4, <1>5, <1>7, <1>8, <1>9, <1>10 DEF Next

\* The invariant of destination lists.
THEOREM DestinationsInvariant == Spec => []DestinationsInv
BY InvInit, InvNext, PTL DEF Spec

\* Types, and the list of the status is always sorted.
THEOREM DestinationsTyped == Spec => []DestinationsTypeOK
BY DestinationsInvariant, PTL DEF DestinationsInv

\* Every copy is listed, for garbage collection.
THEOREM CopiesAreListed == Spec => []CopiesListed
BY DestinationsInvariant, PTL DEF DestinationsInv

\* What the status says of the versions of a copy is true.
THEOREM VersionsAreTrue == Spec => []VersionsTrue
BY DestinationsInvariant, PTL DEF DestinationsInv

\* A complete reconciliation leaves copies at exactly the places asked for.
THEOREM CopiesFollowSpec == Spec => []CopiesAsSpecified
BY DestinationsInvariant, PTL DEF DestinationsInv

\* ... and they were written as some entry asks for.
THEOREM StrategyIsFollowed == Spec => []StrategyFollowed
BY DestinationsInvariant, PTL DEF DestinationsInv

---------------------------------------------------------------------------
(* A repeated reconciliation.                                              *)

\* RepeatIsQuiet is about the second of two reconciliations: what the first
\* one leaves is current.
QuietInv ==
    /\ passes > 0 /\ ~Overlap => Current(status, copy)
    /\ RepeatIsQuiet

LEMMA QuietNext ==
    ASSUME DestinationsInv, QuietInv, [Next]_destVars
    PROVE  QuietInv'
<1>1. CASE passes' = 0
  BY <1>1 DEF QuietInv, RepeatIsQuiet
<1>2. CASE Reconcile
  <2>1. Ready /\ ReconcileExcept({}) /\ passes' = passes + 1 /\ passes \in 0..2
    BY <1>2, InvIsReady DEF Reconcile, DestinationsInv, DestinationsTypeOK
  <2>2. UNCHANGED <<spec, cache, version>>
    BY <2>1 DEF ReconcileExcept
  <2>3. Wanted' = Wanted /\ \A p : Requests(p)' = Requests(p)
    BY <2>2 DEF Wanted, Requests
  <2>4. Overlap' <=> Overlap
    BY <2>2, <2>3 DEF Overlap
  <2>5. CASE Overlap
    BY <2>4, <2>5 DEF QuietInv, RepeatIsQuiet
  <2>6. CASE ~Overlap
    <3>1. /\ Current(status', copy')
          /\ Current(status, copy) /\ InOrder(status) /\ PlacesOf(status) = Wanted => ~sent'
      BY <2>1, <2>6, CurrentStep
    <3>2. Current(status, copy)'
      BY <2>2, <2>3, <3>1 DEF Current, OneEach, Requested, UpToDate
    <3>3. ASSUME passes' = 2 PROVE ~sent'
      <4>1. passes > 0
        BY <2>1, <3>3
      <4>2. Current(status, copy)
        BY <2>6, <4>1 DEF QuietInv
      <4>3. InOrder(status) /\ PlacesOf(status) = Wanted
        BY <4>1 DEF DestinationsInv, DestinationsTypeOK, CopiesAsSpecified
      <4> QED BY <3>1, <4>2, <4>3
    <3> QED BY <3>2, <3>3 DEF QuietInv, RepeatIsQuiet
  <2> QED BY <2>5, <2>6
<1>3. CASE UNCHANGED destVars
  BY <1>3 DEF destVars, QuietInv, RepeatIsQuiet, Overlap, Current, OneEach, Requested, UpToDate,
     Wanted, Requests
<1> QED
  BY <1>1, <1>2, <1>3 DEF Next, ReconcileFails, TrackingFails, FinishFails, EditSpec, EditSource,
     EditNamespace, DriftCopy, Edit

\* Without overlapping entries a repeated reconciliation sends no write,
\* however long the list is and in whatever order the cache is read.
THEOREM RepeatsAreQuiet == Spec => []RepeatIsQuiet
<1>1. Init => QuietInv
  BY DEF Init, QuietInv, RepeatIsQuiet
<1>2. DestinationsInv /\ QuietInv /\ [Next]_destVars => QuietInv'
  BY QuietNext
<1>3. QuietInv => RepeatIsQuiet
  BY DEF QuietInv
<1> QED BY <1>1, <1>2, <1>3, DestinationsInvariant, PTL DEF Spec
=============================================================================
