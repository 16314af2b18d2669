--------------------------- MODULE IntrusiveLOB_proofs -------------------------
(***************************************************************************)
(* Proofs about IntrusiveLOB, for every pool size, set of prices and set   *)
(* of quantities: the lists of the book are well linked after any sequence *)
(* of add_order and cancel_order calls, and what they hold is a queue of   *)
(* ids per price in order of arrival.                                      *)
(***************************************************************************)
EXTENDS IntrusiveLOB, SharedLemmas, SequenceTheorems, TLAPS

\* The inductive invariant: the fields have their types, the links agree, and
\* only orders handed out by the pool rest in the book.
IInv == /\ TypeOK
        /\ Live \subseteq 1 .. alloc_idx
        /\ LinksConsistent

USE PoolAssumption, QuantitiesAssumption

\* A fresh book is empty and linked.
LEMMA InitEstablishes == Init => IInv
  BY DEF Init, IInv, TypeOK, LinksConsistent, Live, Ids, NULL, OrderLinked,
         LevelLinked, DeadUnlinked, Level

\* add_order keeps the types.
LEMMA AddTypes ==
  ASSUME IInv, NEW p \in Prices, NEW q \in Quantities, add_order(p, q)
  PROVE  TypeOK'
<1> DEFINE o == alloc_idx + 1
           l == LevelAt(p)
<1>1. o \in Ids /\ q \in Nat \ {0}
  BY DEF IInv, TypeOK, add_order, PoolExhausted, Ids
<1>2. l \in Level
  BY DEF IInv, TypeOK, LevelAt, Level, NULL
<1>3. l.volume \in Nat /\ l.head \in Ids \cup {NULL} /\ l.tail \in Ids \cup {NULL}
  BY <1>2 DEF Level
<1>4. DOMAIN levels' \subseteq Prices /\ levels' \in [DOMAIN levels' -> Level]
  BY <1>1, <1>3 DEF IInv, TypeOK, add_order, WithLevel, Level
<1>5. next' \in [Ids -> Ids \cup {NULL}] /\ prev' \in [Ids -> Ids \cup {NULL}]
  BY <1>1, <1>3 DEF IInv, TypeOK, add_order
<1>6. /\ alloc_idx' \in 0 .. PoolCapacity
      /\ price' \in [Ids -> Prices \cup {0}] /\ qty' \in [Ids -> Nat]
  BY <1>1 DEF IInv, TypeOK, add_order, PoolExhausted
<1> QED
  BY <1>4, <1>5, <1>6 DEF TypeOK

\* add_order puts the new order at the tail of its level and disturbs no other
\* link.
LEMMA AddLinks ==
  ASSUME IInv, NEW p \in Prices, NEW q \in Quantities, add_order(p, q)
  PROVE  (Live \subseteq 1 .. alloc_idx)' /\ LinksConsistent'
<1> DEFINE l == LevelAt(p)
<1>0. PICK o \in Ids : o = alloc_idx + 1
  BY DEF IInv, TypeOK, add_order, PoolExhausted, Ids
<1>1. o \in Ids /\ o \notin Live /\ o # NULL /\ q \in Nat \ {0}
  BY <1>0 DEF IInv, TypeOK, add_order, PoolExhausted, Ids, NULL
<1>2. Live' = Live \cup {o}
  BY <1>0, <1>1 DEF IInv, TypeOK, add_order, Live
<1>3. (Live \subseteq 1 .. alloc_idx)'
  BY <1>0, <1>1, <1>2 DEF IInv, TypeOK, add_order
<1>4. /\ price'[o] = p
      /\ \A x \in Ids \ {o} : price'[x] = price[x]
      /\ \A x \in Live : x \in Ids \ {o} /\ x < o /\ x # NULL
  BY <1>0, <1>1 DEF IInv, TypeOK, add_order, Live, Ids, NULL
<1>5. /\ DOMAIN levels' = DOMAIN levels \cup {p}
      /\ levels'[p].head = (IF l.head = NULL THEN o ELSE l.head)
      /\ levels'[p].tail = o
      /\ \A r \in DOMAIN levels \ {p} : levels'[r] = levels[r]
  BY <1>0 DEF add_order, WithLevel
<1>6. next[o] = NULL /\ prev[o] = NULL
  BY <1>1 DEF IInv, LinksConsistent, DeadUnlinked
<1>7. CASE l.head = NULL
  <2>1. p \in DOMAIN levels => levels[p].head = NULL /\ levels[p].tail = NULL
    BY <1>7 DEF LevelAt, IInv, LinksConsistent, LevelLinked
  <2>2. next' = next /\ prev' = prev
    <3>1. next' = [next EXCEPT ![o] = NULL] /\ prev' = [prev EXCEPT ![o] = NULL]
      BY <1>0, <1>7, Zenon DEF add_order
    <3>2. next = [x \in Ids |-> next[x]] /\ prev = [x \in Ids |-> prev[x]]
      BY DEF IInv, TypeOK
    <3> QED
      BY <1>1, <1>6, <3>1, <3>2
  <2>3. \A x \in Live : OrderLinked(x)'
    <3> TAKE x \in Live
    <3>1. /\ OrderLinked(x) /\ x \in Ids \ {o} /\ price'[x] = price[x] /\ x # NULL
          /\ next[x] \in Live => price'[next[x]] = price[next[x]]
          /\ prev[x] \in Live => price'[prev[x]] = price[prev[x]]
      BY <1>4 DEF IInv, LinksConsistent
    <3>2. price[x] = p => next[x] # NULL /\ prev[x] # NULL
      BY <2>1, <3>1 DEF OrderLinked
    <3> QED
      BY <1>2, <1>5, <2>2, <3>1, <3>2 DEF OrderLinked
  <2>4. OrderLinked(o)'
    BY <1>1, <1>2, <1>4, <1>5, <1>6, <1>7, <2>2 DEF OrderLinked
  <2>5. \A r \in DOMAIN levels' : LevelLinked(r)'
    <3> TAKE r \in DOMAIN levels'
    <3>1. CASE r = p
      BY <1>1, <1>2, <1>4, <1>5, <1>6, <1>7, <2>2, <3>1 DEF LevelLinked
    <3>2. CASE r # p
      <4>1. r \in DOMAIN levels /\ levels'[r] = levels[r] /\ LevelLinked(r)
        BY <1>5, <3>2 DEF IInv, LinksConsistent
      <4> QED
        BY <1>2, <1>4, <2>2, <4>1 DEF LevelLinked
    <3> QED
      BY <3>1, <3>2
  <2>6. \A x \in Ids \ Live' : DeadUnlinked(x)'
    BY <1>2, <2>2 DEF IInv, LinksConsistent, DeadUnlinked
  <2> QED
    BY <1>2, <1>3, <2>3, <2>4, <2>5, <2>6 DEF LinksConsistent
<1>8. CASE l.head # NULL
  <2>1. p \in DOMAIN levels /\ l = levels[p]
    BY <1>8 DEF LevelAt
  <2>2. /\ l.head \in Live /\ price[l.head] = p /\ prev[l.head] = NULL
        /\ l.tail \in Live /\ price[l.tail] = p /\ next[l.tail] = NULL
    BY <1>8, <2>1 DEF IInv, LinksConsistent, LevelLinked
  <2>3. /\ next'[o] = NULL /\ prev'[o] = l.tail /\ next'[l.tail] = o
        /\ \A x \in Ids \ {o, l.tail} : next'[x] = next[x]
        /\ \A x \in Ids \ {o} : prev'[x] = prev[x]
    BY <1>0, <1>1, <1>4, <1>8, <2>2 DEF IInv, TypeOK, add_order
  <2>4. \A x \in Live : OrderLinked(x)'
    <3> TAKE x \in Live
    <3>1. /\ OrderLinked(x) /\ x \in Ids \ {o} /\ x < o /\ x # NULL
          /\ price'[x] = price[x]
      BY <1>4 DEF IInv, LinksConsistent
    <3>2. CASE x = l.tail
      BY <1>1, <1>2, <1>4, <1>5, <1>8, <2>1, <2>2, <2>3, <3>1, <3>2 DEF OrderLinked
    <3>3. CASE x # l.tail
      <4>1. next'[x] = next[x] /\ prev'[x] = prev[x]
        BY <2>3, <3>1, <3>3
      <4>2. next[x] # NULL => next[x] \in Live /\ prev'[next[x]] = x
        BY <1>4, <2>3, <3>1 DEF OrderLinked
      <4>3. next[x] = NULL => price[x] # p
        BY <2>1, <3>1, <3>3 DEF OrderLinked
      <4>4. prev[x] # NULL => prev[x] \in Live /\ next'[prev[x]] = x
        BY <1>1, <1>4, <2>2, <2>3, <3>1 DEF OrderLinked
      <4>5. prev[x] = NULL => price[x] \in DOMAIN levels /\ levels'[price[x]].head = x
        BY <1>5, <1>8, <2>1, <3>1 DEF OrderLinked
      <4> QED
        BY <1>1, <1>2, <1>4, <1>5, <3>1, <4>1, <4>2, <4>3, <4>4, <4>5 DEF OrderLinked
    <3> QED
      BY <3>2, <3>3
  <2>5. OrderLinked(o)'
    BY <1>1, <1>2, <1>4, <1>5, <2>2, <2>3 DEF OrderLinked, Live, NULL, Ids
  <2>6. \A r \in DOMAIN levels' : LevelLinked(r)'
    <3> TAKE r \in DOMAIN levels'
    <3>1. CASE r = p
      BY <1>1, <1>2, <1>4, <1>5, <1>8, <2>2, <2>3, <3>1 DEF LevelLinked
    <3>2. CASE r # p
      <4>1. r \in DOMAIN levels /\ levels'[r] = levels[r] /\ LevelLinked(r)
        BY <1>5, <3>2 DEF IInv, LinksConsistent
      <4> QED
        BY <1>2, <1>4, <2>2, <2>3, <3>2, <4>1 DEF LevelLinked
    <3> QED
      BY <3>1, <3>2
  <2>7. \A x \in Ids \ Live' : DeadUnlinked(x)'
    BY <1>2, <2>2, <2>3 DEF IInv, LinksConsistent, DeadUnlinked
  <2> QED
    BY <1>2, <1>3, <2>4, <2>5, <2>6, <2>7 DEF LinksConsistent
<1> QED
  BY <1>7, <1>8

\* cancel_order keeps the types.
LEMMA CancelTypes ==
  ASSUME IInv, NEW o \in Live, cancel_order(o)
  PROVE  TypeOK'
<1>1. o \in Ids
  BY DEF Live
<1>2. DOMAIN levels' = DOMAIN levels /\ levels' \in [DOMAIN levels -> Level]
  <2> DEFINE HeadOf(r) == IF prev[o] = NULL /\ levels[r].head = o THEN next[o] ELSE levels[r].head
             TailOf(r) == IF next[o] = NULL /\ levels[r].tail = o THEN prev[o] ELSE levels[r].tail
  <2>1. levels' = [r \in DOMAIN levels |-> [levels[r] EXCEPT !.head = HeadOf(r), !.tail = TailOf(r)]]
    BY Zenon DEF cancel_order, LevelsWithout
  <2>2. ASSUME NEW r \in DOMAIN levels
        PROVE  /\ levels[r] \in Level
               /\ HeadOf(r) \in Ids \cup {NULL} /\ TailOf(r) \in Ids \cup {NULL}
    BY <1>1, <2>2 DEF IInv, TypeOK, Level
  <2>3. \A l \in Level, h, t \in Ids \cup {NULL} : [l EXCEPT !.head = h, !.tail = t] \in Level
    BY DEF Level
  <2> HIDE DEF HeadOf, TailOf
  <2> QED
    BY <2>1, <2>2, <2>3
<1>3. next' \in [Ids -> Ids \cup {NULL}] /\ prev' \in [Ids -> Ids \cup {NULL}]
  BY <1>1 DEF IInv, TypeOK, cancel_order, NextWithout, PrevWithout
<1>4. qty' \in [Ids -> Nat] /\ UNCHANGED <<alloc_idx, price>>
  BY <1>1 DEF IInv, TypeOK, cancel_order
<1> QED
  BY <1>2, <1>3, <1>4 DEF IInv, TypeOK

\* cancel_order closes the links over the order it removes and disturbs no
\* other link.
LEMMA CancelLinks ==
  ASSUME IInv, NEW o \in Live, cancel_order(o)
  PROVE  (Live \subseteq 1 .. alloc_idx)' /\ LinksConsistent'
<1>1. o \in Ids /\ o # NULL /\ OrderLinked(o)
  BY DEF IInv, LinksConsistent, Live, Ids, NULL
<1>2. Live' = Live \ {o} /\ price' = price /\ (Live \subseteq 1 .. alloc_idx)'
  BY <1>1 DEF IInv, TypeOK, cancel_order, LevelsWithout, NextWithout, PrevWithout, Live
<1>3. /\ \A x \in Ids : next'[x] = (IF x = o THEN NULL
                                   ELSE IF x = prev[o] THEN next[o] ELSE next[x])
      /\ \A x \in Ids : prev'[x] = (IF x = o THEN NULL
                                   ELSE IF x = next[o] THEN prev[o] ELSE prev[x])
  BY DEF cancel_order, LevelsWithout, NextWithout, PrevWithout
<1>4. /\ DOMAIN levels' = DOMAIN levels
      /\ \A r \in DOMAIN levels :
            /\ levels'[r].head = (IF prev[o] = NULL /\ levels[r].head = o
                                  THEN next[o] ELSE levels[r].head)
            /\ levels'[r].tail = (IF next[o] = NULL /\ levels[r].tail = o
                                  THEN prev[o] ELSE levels[r].tail)
  BY Zenon DEF IInv, TypeOK, cancel_order, LevelsWithout, Level
<1>5. \A x \in Live : x \in Ids /\ x # NULL /\ OrderLinked(x)
  BY DEF IInv, LinksConsistent, Live, Ids, NULL
<1>6. \A x \in Live' : OrderLinked(x)'
  <2> TAKE x \in Live'
  <2>1. x \in Live /\ x # o /\ x \in Ids /\ x # NULL /\ OrderLinked(x)
    BY <1>2, <1>5
  <2>2. price[x] \in DOMAIN levels'
    BY <1>4, <2>1 DEF OrderLinked
  <2>3. IF next'[x] = NULL
        THEN levels'[price[x]].tail = x
        ELSE /\ next'[x] \in Live' /\ next'[x] > x
             /\ prev'[next'[x]] = x
             /\ price[next'[x]] = price[x]
    <3>1. CASE x = prev[o]
      <4>1. next[x] = o /\ x < o /\ price[x] = price[o] /\ next'[x] = next[o]
        BY <1>1, <1>3, <2>1, <3>1 DEF OrderLinked
      <4>2. CASE next[o] = NULL
        BY <1>1, <1>4, <2>1, <3>1, <4>1, <4>2 DEF OrderLinked
      <4>3. CASE next[o] # NULL
        <5>1. next[o] \in Live /\ next[o] > o /\ price[next[o]] = price[o]
          BY <1>1, <4>3 DEF OrderLinked
        <5>2. /\ next[o] \in Ids
              /\ next[o] # o /\ next[o] > x
          <6>1. next[o] \in Ids
            BY <1>5, <5>1
          <6>2. next[o] \in Int /\ o \in Int /\ x \in Int
            BY <1>1, <2>1, <6>1, PoolAssumption DEF Ids
          <6> QED
            BY <4>1, <5>1, <6>1, <6>2
        <5>3. next[o] \in Live' /\ prev'[next[o]] = x
          BY <1>2, <1>3, <3>1, <5>1, <5>2
        <5> QED
          BY <4>1, <4>3, <5>1, <5>2, <5>3
      <4> QED
        BY <4>2, <4>3
    <3>2. CASE x # prev[o]
      <4>1. next'[x] = next[x] /\ next[x] # o
        BY <1>1, <1>3, <2>1, <3>2 DEF OrderLinked
      <4>2. CASE next[x] = NULL
        BY <1>1, <1>4, <2>1, <4>1, <4>2 DEF OrderLinked
      <4>3. CASE next[x] # NULL
        <5>1. next[x] \in Live' /\ next[x] \in Ids /\ next[x] # next[o]
          BY <1>1, <1>2, <1>5, <2>1, <4>1, <4>3 DEF OrderLinked
        <5> QED
          BY <1>3, <2>1, <4>1, <4>3, <5>1 DEF OrderLinked
      <4> QED
        BY <4>2, <4>3
    <3> QED
      BY <3>1, <3>2
  <2>4. IF prev'[x] = NULL
        THEN levels'[price[x]].head = x
        ELSE /\ prev'[x] \in Live' /\ prev'[x] < x
             /\ next'[prev'[x]] = x
             /\ price[prev'[x]] = price[x]
    <3>1. CASE x = next[o]
      <4>1. prev[x] = o /\ x > o /\ price[x] = price[o] /\ prev'[x] = prev[o]
        BY <1>1, <1>3, <2>1, <3>1 DEF OrderLinked
      <4>2. CASE prev[o] = NULL
        BY <1>1, <1>4, <2>1, <3>1, <4>1, <4>2 DEF OrderLinked
      <4>3. CASE prev[o] # NULL
        <5>1. prev[o] \in Live /\ prev[o] < o /\ price[prev[o]] = price[o]
          BY <1>1, <4>3 DEF OrderLinked
        <5>2. /\ prev[o] \in Ids
              /\ prev[o] # o /\ prev[o] < x
          <6>1. prev[o] \in Ids
            BY <1>5, <5>1
          <6>2. prev[o] \in Int /\ o \in Int /\ x \in Int
            BY <1>1, <2>1, <6>1, PoolAssumption DEF Ids
          <6> QED
            BY <4>1, <5>1, <6>1, <6>2
        <5>3. prev[o] \in Live' /\ next'[prev[o]] = x
          BY <1>2, <1>3, <3>1, <5>1, <5>2
        <5> QED
          BY <4>1, <4>3, <5>1, <5>2, <5>3
      <4> QED
        BY <4>2, <4>3
    <3>2. CASE x # next[o]
      <4>1. prev'[x] = prev[x] /\ prev[x] # o
        BY <1>1, <1>3, <2>1, <3>2 DEF OrderLinked
      <4>2. CASE prev[x] = NULL
        BY <1>1, <1>4, <2>1, <4>1, <4>2 DEF OrderLinked
      <4>3. CASE prev[x] # NULL
        <5>1. prev[x] \in Live' /\ prev[x] \in Ids /\ prev[x] # prev[o]
          BY <1>1, <1>2, <1>5, <2>1, <4>1, <4>3 DEF OrderLinked
        <5> QED
          BY <1>3, <2>1, <4>1, <4>3, <5>1 DEF OrderLinked
      <4> QED
        BY <4>2, <4>3
    <3> QED
      BY <3>1, <3>2
  <2> QED
    BY <1>2, <2>2, <2>3, <2>4 DEF OrderLinked
<1>7. \A r \in DOMAIN levels' : LevelLinked(r)'
  <2> TAKE r \in DOMAIN levels'
  <2>1. r \in DOMAIN levels /\ LevelLinked(r)
    BY <1>4 DEF IInv, LinksConsistent
  <2>2. CASE levels[r].head = NULL
    BY <1>1, <1>4, <2>1, <2>2 DEF LevelLinked
  <2>3. CASE levels[r].head # NULL
    <3> DEFINE h == levels[r].head
               t == levels[r].tail
    <3>1. /\ h \in Live /\ price[h] = r /\ prev[h] = NULL
          /\ t \in Live /\ price[t] = r /\ next[t] = NULL
      BY <2>1, <2>3 DEF LevelLinked
    <3>2. CASE h = o /\ t = o
      BY <1>1, <1>4, <2>1, <3>1, <3>2 DEF LevelLinked
    <3>3. CASE h = o /\ t # o
      BY <1>1, <1>2, <1>3, <1>4, <1>5, <2>1, <3>1, <3>3 DEF LevelLinked, OrderLinked
    <3>4. CASE h # o /\ t = o
      <4>1. /\ prev[o] \in Live' /\ price[prev[o]] = r
            /\ next'[prev[o]] = NULL /\ prev[o] # NULL
        BY <1>1, <1>2, <1>3, <1>5, <3>1, <3>4 DEF OrderLinked, NULL, Ids
      <4>2. h \in Live' /\ prev'[h] = NULL
        BY <1>2, <1>3, <1>5, <3>1, <3>4
      <4>3. levels'[r].head = h /\ levels'[r].tail = prev[o]
        BY <1>4, <2>1, <3>1, <3>4
      <4> QED
        BY <1>2, <2>3, <3>1, <4>1, <4>2, <4>3 DEF LevelLinked
    <3>5. CASE h # o /\ t # o
      <4>1. h \in Live' /\ h # next[o] /\ t \in Live' /\ t # prev[o]
        BY <1>1, <1>2, <1>5, <3>1, <3>5 DEF OrderLinked
      <4>2. prev'[h] = NULL /\ next'[t] = NULL
        BY <1>3, <1>5, <3>1, <3>5, <4>1
      <4>3. levels'[r].head = h /\ levels'[r].tail = t
        BY <1>4, <2>1, <3>5
      <4> QED
        BY <1>2, <2>3, <3>1, <4>1, <4>2, <4>3 DEF LevelLinked
    <3> QED
      BY <3>2, <3>3, <3>4, <3>5
  <2> QED
    BY <2>2, <2>3
<1>8. \A x \in Ids \ Live' : DeadUnlinked(x)'
  <2> TAKE x \in Ids \ Live'
  <2>1. x # NULL
    BY DEF Ids, NULL
  <2>2. CASE x = o
    BY <1>1, <1>3, <2>2 DEF DeadUnlinked
  <2>3. CASE x # o
    <3>1. x \notin Live /\ next[x] = NULL /\ prev[x] = NULL
      BY <1>2, <2>3 DEF IInv, LinksConsistent, DeadUnlinked
    <3>2. x # next[o] /\ x # prev[o]
      BY <1>1, <2>1, <3>1 DEF OrderLinked
    <3> QED
      BY <1>3, <2>3, <3>1, <3>2 DEF DeadUnlinked
  <2> QED
    BY <2>2, <2>3
<1> QED
  BY <1>2, <1>6, <1>7, <1>8 DEF LinksConsistent

\* The invariant is inductive.
LEMMA StepPreserves == IInv /\ [Next]_vars => IInv'
<1> SUFFICES ASSUME IInv, [Next]_vars PROVE IInv'
  OBVIOUS
<1>1. ASSUME NEW p \in Prices, NEW q \in Quantities, add_order(p, q) PROVE IInv'
  BY <1>1, AddTypes, AddLinks DEF IInv
<1>2. ASSUME NEW o \in 1 .. alloc_idx, cancel_order(o) PROVE IInv'
  <2>1. o \in Live
    BY <1>2 DEF cancel_order, LevelsWithout, NextWithout, PrevWithout, Ignored
  <2> QED
    BY <1>2, <2>1, CancelTypes, CancelLinks DEF IInv
<1>3. CASE UNCHANGED vars
  BY <1>3 DEF vars, IInv, TypeOK, LinksConsistent, Live, OrderLinked, LevelLinked,
              DeadUnlinked
<1> QED
  BY <1>1, <1>2, <1>3 DEF Next, IgnoredCall

\* Every field and link of the book keeps its type: no call hands out an order
\* outside the pool or leaves a pointer that is neither null nor into the pool.
THEOREM TypesHold == Spec => []TypeOK
<1>1. IInv => TypeOK
  BY DEF IInv
<1> QED
  BY InitEstablishes, StepPreserves, <1>1, PTL DEF Spec

\* The lists of the book (day8:63-90) are well linked after any sequence of
\* calls, for pools, price ranges and quantities of any size.
THEOREM LinksHold == Spec => []LinksConsistent
<1>1. IInv => LinksConsistent
  BY DEF IInv
<1> QED
  BY InitEstablishes, StepPreserves, <1>1, PTL DEF Spec

-----------------------------------------------------------------------------
(* The queues of the book                                                  *)

\* Where the walk along the links nx from o goes in k steps, for all o and k.
WalksOf(v, nx, n) ==
    v = [k \in 0 .. n |->
            [o \in Ids \cup {NULL} |->
                IF o = NULL \/ k = 0 THEN <<>> ELSE <<o>> \o v[k - 1][nx[o]]]]

LEMMA WalksExist ==
  ASSUME NEW N \in Nat, NEW nx
  PROVE  \E v : WalksOf(v, nx, N)
<1> DEFINE T == {n \in Nat : \E v : WalksOf(v, nx, n)}
           Here(k, w) == [o \in Ids \cup {NULL} |->
                            IF o = NULL \/ k = 0 THEN <<>> ELSE <<o>> \o w[nx[o]]]
<1>1. 0 \in T
  <2> DEFINE v == [k \in 0 .. 0 |-> [o \in Ids \cup {NULL} |-> <<>>]]
  <2>1. \A k \in 0 .. 0 : v[k] = Here(k, v[k - 1])
    OBVIOUS
  <2>2. v = [k \in 0 .. 0 |-> v[k]]
    OBVIOUS
  <2> HIDE DEF v
  <2>3. v = [k \in 0 .. 0 |-> Here(k, v[k - 1])]
    BY <2>1, <2>2
  <2> QED
    BY <2>3 DEF WalksOf
<1>2. ASSUME NEW n \in Nat, n \in T PROVE n + 1 \in T
  <2>1. PICK v : WalksOf(v, nx, n)
    BY <1>2
  <2> DEFINE w == [k \in 0 .. n + 1 |-> IF k = n + 1 THEN Here(k, v[n]) ELSE v[k]]
  <2>2. \A k \in 0 .. n + 1 : w[k] = Here(k, w[k - 1])
    <3> HIDE DEF Here, w
    <3> TAKE k \in 0 .. n + 1
    <3> USE DEF w
    <3>1. CASE k = n + 1
      <4>1. k - 1 = n /\ n \in 0 .. n + 1 /\ n # n + 1
        BY <3>1
      <4> QED
        BY <3>1, <4>1
    <3>2. CASE k \in 1 .. n
      <4>1. v[k] = Here(k, v[k - 1])
        <5>1. k \in 0 .. n
          BY <3>2
        <5> QED
          BY <2>1, <5>1, Zenon DEF WalksOf, Here
      <4>2. k - 1 \in 0 .. n + 1 /\ k - 1 # n + 1 /\ k # n + 1
        BY <3>2
      <4> QED
        BY <4>1, <4>2
    <3>3. CASE k = 0
      <4>1. v[0] = [o \in Ids \cup {NULL} |-> <<>>]
        BY <2>1 DEF WalksOf
      <4>2. Here(k, w[k - 1]) = [o \in Ids \cup {NULL} |-> <<>>]
        BY <3>3 DEF Here
      <4>3. w[k] = v[0]
        BY <3>3
      <4> HIDE DEF w
      <4> QED
        BY <4>1, <4>2, <4>3, Zenon
    <3>4. k = n + 1 \/ k \in 1 .. n \/ k = 0
      OBVIOUS
    <3> QED
      BY <3>1, <3>2, <3>3, <3>4, Zenon
  <2>3. w = [k \in 0 .. n + 1 |-> w[k]]
    OBVIOUS
  <2> HIDE DEF w
  <2>4. WalksOf(w, nx, n + 1)
    BY <2>2, <2>3 DEF WalksOf
  <2> QED
    BY <2>4
<1>3. Nat \subseteq T
  BY <1>1, <1>2, AllNaturals
<1> QED
  BY <1>3

WalkFrom(nx, h) ==
    LET from[k \in 0 .. PoolCapacity] ==
            [o \in Ids \cup {NULL} |->
                IF o = NULL \/ k = 0 THEN <<>> ELSE <<o>> \o from[k - 1][nx[o]]]
    IN  from[PoolCapacity][h]

LEMMA WalkIsFrom ==
  /\ \A p : Walk(p) = WalkFrom(next, LevelAt(p).head)
  /\ \A p : Walk(p)' = WalkFrom(next', LevelAt(p)'.head)
  BY DEF Walk, WalkFrom

LEMMA WalkFromWalks ==
  ASSUME NEW nx, NEW h
  PROVE  \E v : WalksOf(v, nx, PoolCapacity) /\ WalkFrom(nx, h) = v[PoolCapacity][h]
<1> DEFINE from == CHOOSE v : v = [k \in 0 .. PoolCapacity |->
                [o \in Ids \cup {NULL} |->
                    IF o = NULL \/ k = 0 THEN <<>> ELSE <<o>> \o v[k - 1][nx[o]]]]
<1>1. \E v : v = [k \in 0 .. PoolCapacity |->
                [o \in Ids \cup {NULL} |->
                    IF o = NULL \/ k = 0 THEN <<>> ELSE <<o>> \o v[k - 1][nx[o]]]]
  BY WalksExist DEF WalksOf
<1>2. from = [k \in 0 .. PoolCapacity |->
                [o \in Ids \cup {NULL} |->
                    IF o = NULL \/ k = 0 THEN <<>> ELSE <<o>> \o from[k - 1][nx[o]]]]
  BY <1>1, Zenon
<1>3. WalkFrom(nx, h) = from[PoolCapacity][h]
  BY Zenon DEF WalkFrom
<1> HIDE DEF from
<1> QED
  BY <1>2, <1>3 DEF WalksOf

\* A function on 1 .. n is a sequence of n values.
LEMMA FunctionIsSeq ==
  ASSUME NEW S, NEW n \in Nat, NEW f \in [1 .. n -> S]
  PROVE  f \in Seq(S) /\ Len(f) = n
  BY SeqDef

\* The part of s from place j on.
Suffix(s, j) == [i \in 1 .. Len(s) - j + 1 |-> s[i + j - 1]]

LEMMA SuffixParts ==
  ASSUME NEW s \in Seq(Ids)
  PROVE  /\ Suffix(s, 1) = s
         /\ Suffix(s, Len(s) + 1) = <<>>
         /\ \A j \in 1 .. Len(s) : Suffix(s, j) = <<s[j]>> \o Suffix(s, j + 1)
<1>0. Len(s) \in Nat /\ \A i \in 1 .. Len(s) : s[i] \in Ids
  OBVIOUS
<1>1. Suffix(s, 1) = s
  <2>1. \A i \in 1 .. Len(s) : i + 1 - 1 = i
    OBVIOUS
  <2>2. s = [i \in 1 .. Len(s) |-> s[i]] /\ Len(s) - 1 + 1 = Len(s)
    BY <1>0
  <2> QED
    BY <2>1, <2>2 DEF Suffix
<1>2. Suffix(s, Len(s) + 1) = <<>>
  <2>1. 1 .. Len(s) - (Len(s) + 1) + 1 = 1 .. 0
    BY <1>0
  <2>2. \A f : f = [i \in 1 .. 0 |-> f[i]] => f = <<>>
    OBVIOUS
  <2>3. Suffix(s, Len(s) + 1) = [i \in 1 .. 0 |-> Suffix(s, Len(s) + 1)[i]]
    BY <2>1 DEF Suffix
  <2> QED
    BY <2>2, <2>3
<1>3. ASSUME NEW j \in 1 .. Len(s) PROVE Suffix(s, j) = <<s[j]>> \o Suffix(s, j + 1)
  <2> DEFINE n == Len(s) - j
             a == Suffix(s, j + 1)
             b == <<s[j]>> \o a
  <2>1. n \in Nat /\ Len(s) - j + 1 = n + 1 /\ Len(s) - (j + 1) + 1 = n
    BY <1>0
  <2>2. a = [i \in 1 .. n |-> s[i + (j + 1) - 1]]
    BY <2>1 DEF Suffix
  <2>3. \A i \in 1 .. n : s[i + (j + 1) - 1] \in Ids
    BY <1>0, <2>1
  <2>4. a \in Seq(Ids) /\ Len(a) = n
    <3>1. a \in [1 .. n -> Ids]
      BY <2>2, <2>3, Zenon
    <3> HIDE DEF a, n
    <3> QED
      BY <2>1, <3>1, FunctionIsSeq
  <2>5. <<s[j]>> \in Seq(Ids) /\ Len(<<s[j]>>) = 1 /\ <<s[j]>>[1] = s[j]
    BY <1>0
  <2> HIDE DEF a
  <2>6. b \in Seq(Ids) /\ Len(b) = n + 1
    <3>1. b \in Seq(Ids) /\ Len(b) = Len(<<s[j]>>) + Len(a)
      BY <2>4, <2>5, ConcatProperties, Zenon
    <3> HIDE DEF b
    <3> QED
      BY <2>1, <2>4, <2>5, <3>1
  <2>7. \A i \in 1 .. n + 1 : b[i] = IF i <= 1 THEN s[j] ELSE a[i - 1]
    <3>1. \A i \in 1 .. n + 1 : b[i] = IF i <= 1 THEN <<s[j]>>[i] ELSE a[i - 1]
      BY <2>1, <2>4, <2>5, ConcatProperties
    <3> TAKE i \in 1 .. n + 1
    <3>2. CASE i <= 1
      <4>1. i = 1
        BY <2>1, <3>2
      <4> QED
        BY <2>5, <3>1, <4>1, Zenon
    <3>3. CASE ~ (i <= 1)
      BY <3>1, <3>3, Zenon
    <3> QED
      BY <3>2, <3>3, Zenon
  <2>8. \A i \in 1 .. n + 1 : b[i] = s[i + j - 1]
    <3> HIDE DEF b
    <3> TAKE i \in 1 .. n + 1
    <3>1. CASE i = 1
      BY <2>7, <3>1
    <3>2. CASE i # 1
      <4>1. i - 1 \in 1 .. n /\ ~ (i <= 1) /\ (i - 1) + (j + 1) - 1 = i + j - 1
        BY <2>1, <3>2
      <4> QED
        BY <2>2, <2>7, <4>1
    <3> QED
      BY <3>1, <3>2
  <2>9. b = [i \in 1 .. n + 1 |-> b[i]]
    BY <2>6
  <2> HIDE DEF b
  <2>10. Suffix(s, j) = [i \in 1 .. n + 1 |-> s[i + j - 1]]
    BY <2>1 DEF Suffix
  <2>11. Suffix(s, j) = b
    BY <2>8, <2>9, <2>10
  <2> QED
    BY <2>11 DEF b, a
<1> QED
  BY <1>1, <1>2, <1>3

\* The links nx lead from h along s, to its end.
Chain(s, nx, h) ==
    /\ s \in Seq(Ids)
    /\ h = IF Len(s) = 0 THEN NULL ELSE s[1]
    /\ \A i \in 1 .. Len(s) : nx[s[i]] = IF i = Len(s) THEN NULL ELSE s[i + 1]

\* A chain that fits the pool is what a walk visits.
LEMMA WalkFollows ==
  ASSUME NEW s, NEW nx, NEW h, Chain(s, nx, h), Len(s) <= PoolCapacity
  PROVE  WalkFrom(nx, h) = s
<1> DEFINE Node(j) == IF j = Len(s) + 1 THEN NULL ELSE s[j]
<1>1. PICK v : WalksOf(v, nx, PoolCapacity) /\ WalkFrom(nx, h) = v[PoolCapacity][h]
  BY WalkFromWalks
<1>2. /\ s \in Seq(Ids) /\ Len(s) \in Nat /\ \A j \in 1 .. Len(s) : s[j] \in Ids
      /\ h = Node(1)
      /\ \A j \in 1 .. Len(s) : nx[s[j]] = Node(j + 1) /\ Node(j) = s[j]
      /\ Node(Len(s) + 1) = NULL
  BY DEF Chain
<1>3. NULL \notin Ids
  BY DEF NULL, Ids
<1> HIDE DEF Node
<1>4. \A k \in 0 .. PoolCapacity : v[k][NULL] = <<>>
  <2>1. \A k \in 0 .. PoolCapacity : v[k] =
            [o \in Ids \cup {NULL} |->
                IF o = NULL \/ k = 0 THEN <<>> ELSE <<o>> \o v[k - 1][nx[o]]]
    BY <1>1, Zenon DEF WalksOf
  <2> QED
    BY <2>1
<1>5. \A k \in 1 .. PoolCapacity, o \in Ids : v[k][o] = <<o>> \o v[k - 1][nx[o]]
  <2> TAKE k \in 1 .. PoolCapacity, o \in Ids
  <2>1. k \in 0 .. PoolCapacity /\ k # 0 /\ o # NULL /\ o \in Ids \cup {NULL}
    BY <1>3
  <2>2. v[k] = [x \in Ids \cup {NULL} |->
                  IF x = NULL \/ k = 0 THEN <<>> ELSE <<x>> \o v[k - 1][nx[x]]]
    BY <1>1, <2>1, Zenon DEF WalksOf
  <2> QED
    BY <2>1, <2>2, Zenon
<1> DEFINE T == {n \in Nat : \A j \in 1 .. Len(s) + 1, k \in 0 .. PoolCapacity :
                    Len(s) + 1 - j = n /\ k >= n => v[k][Node(j)] = Suffix(s, j)}
<1>6. 0 \in T
  <2>1. ASSUME NEW j \in 1 .. Len(s) + 1, NEW k \in 0 .. PoolCapacity, Len(s) + 1 - j = 0
        PROVE  v[k][Node(j)] = Suffix(s, j)
    <3>1. j = Len(s) + 1
      BY <1>2, <2>1
    <3> QED
      BY <1>2, <1>4, <3>1, SuffixParts, Zenon
  <2> QED
    BY <2>1
<1>7. ASSUME NEW n \in Nat, n \in T PROVE n + 1 \in T
  <2>1. ASSUME NEW j \in 1 .. Len(s) + 1, NEW k \in 0 .. PoolCapacity,
               Len(s) + 1 - j = n + 1, k >= n + 1
        PROVE  v[k][Node(j)] = Suffix(s, j)
    <3>1. /\ j \in 1 .. Len(s) /\ j + 1 \in 1 .. Len(s) + 1 /\ Len(s) + 1 - (j + 1) = n
          /\ k \in 1 .. PoolCapacity /\ k - 1 \in 0 .. PoolCapacity /\ k - 1 >= n
      BY <1>2, <2>1
    <3>2. v[k - 1][Node(j + 1)] = Suffix(s, j + 1)
      BY <1>7, <3>1
    <3>3. v[k][s[j]] = <<s[j]>> \o v[k - 1][nx[s[j]]] /\ nx[s[j]] = Node(j + 1) /\ Node(j) = s[j]
      BY <1>2, <1>5, <3>1
    <3>4. Suffix(s, j) = <<s[j]>> \o Suffix(s, j + 1)
      BY <1>2, <3>1, SuffixParts
    <3> QED
      BY <3>2, <3>3, <3>4, Zenon
  <2> QED
    BY <2>1
<1>8. Nat \subseteq T
  BY <1>6, <1>7, AllNaturals
<1>9. 1 \in 1 .. Len(s) + 1 /\ PoolCapacity \in 0 .. PoolCapacity /\ Len(s) + 1 - 1 = Len(s)
  BY <1>2
<1>10. v[PoolCapacity][Node(1)] = Suffix(s, 1)
  BY <1>2, <1>8, <1>9
<1> QED
  BY <1>1, <1>2, <1>10, SuffixParts

\* s is the queue of price p: chained by the links of its level, in the order of
\* arrival, and made of the live orders of that price.
IsQueue(s, p) ==
    /\ Chain(s, next, LevelAt(p).head)
    /\ \A i, j \in 1 .. Len(s) : i < j => s[i] < s[j]
    /\ \A i \in 1 .. Len(s) : s[i] \in Live /\ price[s[i]] = p
    /\ \A o \in Live : price[o] = p => \E i \in 1 .. Len(s) : s[i] = o

\* No queue is longer than the pool.
LEMMA QueueFits ==
  ASSUME NEW s \in Seq(Ids), \A i, j \in 1 .. Len(s) : i < j => s[i] < s[j]
  PROVE  Len(s) <= PoolCapacity
<1>1. Len(s) \in Nat /\ \A i \in 1 .. Len(s) : s[i] \in 1 .. PoolCapacity
  BY DEF Ids
<1> DEFINE T == {n \in Nat : n \in 1 .. Len(s) => s[n] >= n}
<1>2. 0 \in T
  OBVIOUS
<1>3. ASSUME NEW n \in Nat, n \in T PROVE n + 1 \in T
  <2>1. CASE n + 1 \in 1 .. Len(s)
    <3>1. CASE n = 0
      BY <1>1, <2>1, <3>1
    <3>2. CASE n # 0
      <4>1. n \in 1 .. Len(s) /\ n < n + 1
        BY <2>1, <3>2
      <4>2. s[n] < s[n + 1] /\ s[n] >= n /\ s[n] \in Int /\ s[n + 1] \in Int
        BY <1>1, <1>3, <2>1, <4>1
      <4> QED
        BY <4>2
    <3> QED
      BY <3>1, <3>2
  <2> QED
    BY <2>1
<1>4. Nat \subseteq T
  BY <1>2, <1>3, AllNaturals
<1>5. Len(s) \in 1 .. Len(s) => s[Len(s)] >= Len(s)
  BY <1>1, <1>4
<1> QED
  BY <1>1, <1>5

\* The walk of a level visits its queue, in this state and in the next.
LEMMA QueueIsWalked ==
  /\ \A s, p : IsQueue(s, p) => Walk(p) = s
  /\ \A s, p : IsQueue(s, p)' => Walk(p)' = s
<1>1. ASSUME NEW s, NEW p, IsQueue(s, p) PROVE Walk(p) = s
  <2>1. Chain(s, next, LevelAt(p).head)
    BY <1>1 DEF IsQueue
  <2>2. Len(s) <= PoolCapacity
    BY <1>1, <2>1, QueueFits DEF IsQueue, Chain
  <2> QED
    BY <2>1, <2>2, WalkFollows, WalkIsFrom
<1>2. ASSUME NEW s, NEW p, IsQueue(s, p)' PROVE Walk(p)' = s
  <2>1. Chain(s, next', LevelAt(p)'.head)
    BY <1>2 DEF IsQueue
  <2>2. Len(s) <= PoolCapacity
    BY <1>2, <2>1, QueueFits DEF IsQueue, Chain
  <2> QED
    BY <2>1, <2>2, WalkFollows, WalkIsFrom
<1> QED
  BY <1>1, <1>2

\* A new order joins the end of its price's queue.
LEMMA AddJoins ==
  ASSUME IInv, NEW p \in Prices, NEW q \in Quantities, add_order(p, q),
         NEW s, IsQueue(s, p)
  PROVE  \E t : t = Append(s, alloc_idx + 1) /\ IsQueue(t, p)'
<1> DEFINE l == LevelAt(p)
<1>0. PICK o \in Ids : o = alloc_idx + 1
  BY DEF IInv, TypeOK, add_order, PoolExhausted, Ids
<1> DEFINE t == Append(s, o)
           n == Len(s)
<1>1. /\ o \notin Live /\ q \in Nat \ {0} /\ o # NULL
      /\ \A x \in Live : x \in Ids \ {o} /\ x < o /\ x # NULL
  BY <1>0 DEF IInv, TypeOK, add_order, PoolExhausted, Ids, NULL, Live
<1>2. Live' = Live \cup {o} /\ price'[o] = p /\ \A x \in Ids \ {o} : price'[x] = price[x]
  BY <1>0, <1>1 DEF IInv, TypeOK, add_order, Live
<1>3. /\ s \in Seq(Ids) /\ n \in Nat
      /\ \A i \in 1 .. n : s[i] \in Live /\ price[s[i]] = p /\ s[i] \in Ids
      /\ l.head = IF n = 0 THEN NULL ELSE s[1]
      /\ \A i \in 1 .. n : next[s[i]] = IF i = n THEN NULL ELSE s[i + 1]
      /\ \A i, j \in 1 .. n : i < j => s[i] < s[j]
      /\ \A x \in Live : price[x] = p => \E i \in 1 .. n : s[i] = x
  BY DEF IsQueue, Chain, Live
<1>4. t \in Seq(Ids) /\ Len(t) = n + 1 /\ t[n + 1] = o /\ \A i \in 1 .. n : t[i] = s[i]
  BY <1>3
<1>5. LevelAt(p)'.head = IF l.head = NULL THEN o ELSE l.head
  BY <1>0 DEF add_order, WithLevel, LevelAt
<1>6. l.head = NULL <=> n = 0
  BY <1>1, <1>3
<1>7. LevelAt(p)'.head = t[1]
  BY <1>3, <1>4, <1>5, <1>6
<1>8. next'[o] = NULL /\ \A i \in 1 .. n : next'[s[i]] = IF i = n THEN o ELSE s[i + 1]
  <2>1. CASE n = 0
    <3>1. next' = [next EXCEPT ![o] = NULL]
      BY <1>0, <1>6, <2>1, Zenon DEF add_order
    <3> QED
      BY <2>1, <3>1 DEF IInv, TypeOK
  <2>2. CASE n # 0
    <3>1. n \in 1 .. n /\ s[n] \in Live /\ price[s[n]] = p /\ next[s[n]] = NULL
      BY <1>3, <2>2
    <3>2. p \in DOMAIN levels /\ levels[p].tail = s[n]
      BY <3>1 DEF IInv, LinksConsistent, OrderLinked
    <3>3. l.tail = s[n]
      BY <3>2 DEF LevelAt
    <3>4. next' = [next EXCEPT ![o] = NULL, ![s[n]] = o]
      BY <1>0, <1>6, <2>2, <3>3, Zenon DEF add_order
    <3>5. s[n] # o /\ s[n] \in Ids /\ next = [x \in Ids |-> next[x]]
      BY <1>1, <3>1 DEF IInv, TypeOK
    <3>6. next'[o] = NULL /\ next'[s[n]] = o /\ \A x \in Ids \ {o, s[n]} : next'[x] = next[x]
      BY <3>4, <3>5
    <3>7. ASSUME NEW i \in 1 .. n, i # n PROVE next'[s[i]] = s[i + 1]
      <4>0. i < n
        BY <1>3, <3>7
      <4>1. s[i] < s[n] /\ s[i] \in Ids \ {o} /\ s[n] \in Int
        BY <1>1, <1>3, <3>1, <4>0 DEF Ids
      <4>2. s[i] # s[n]
        BY <4>1 DEF Ids
      <4> QED
        BY <1>3, <3>6, <3>7, <4>1, <4>2
    <3> QED
      BY <3>6, <3>7
  <2> QED
    BY <2>1, <2>2
<1> HIDE DEF t
<1>9. \A i \in 1 .. n + 1 : next'[t[i]] = IF i = n + 1 THEN NULL ELSE t[i + 1]
  <2> TAKE i \in 1 .. n + 1
  <2>1. CASE i = n + 1
    BY <1>4, <1>8, <2>1
  <2>2. CASE i \in 1 .. n
    <3>1. i # n + 1 /\ t[i] = s[i] /\ (i # n => i + 1 \in 1 .. n)
      BY <1>3, <1>4, <2>2
    <3>2. t[i + 1] = IF i = n THEN o ELSE s[i + 1]
      BY <1>4, <3>1
    <3> QED
      BY <1>8, <2>2, <3>1, <3>2
  <2> QED
    BY <1>3, <2>1, <2>2
<1>10. Chain(t, next', LevelAt(p)'.head)
  BY <1>3, <1>4, <1>7, <1>9 DEF Chain
<1>11. \A i, j \in 1 .. n + 1 : i < j => t[i] < t[j]
  <2> SUFFICES ASSUME NEW i \in 1 .. n + 1, NEW j \in 1 .. n + 1, i < j PROVE t[i] < t[j]
    OBVIOUS
  <2>0. n \in Nat
    BY <1>3
  <2> HIDE DEF n
  <2>1. i \in 1 .. n /\ (j = n + 1 \/ j \in 1 .. n)
    BY <2>0
  <2>2. t[i] = s[i] /\ s[i] < o
    BY <1>1, <1>3, <1>4, <2>1
  <2> QED
    BY <1>3, <1>4, <2>1, <2>2
<1>12. \A i \in 1 .. n + 1 : t[i] \in Live' /\ price'[t[i]] = p
  <2> TAKE i \in 1 .. n + 1
  <2>1. CASE i = n + 1
    BY <1>2, <1>4, <2>1
  <2>2. CASE i \in 1 .. n
    BY <1>1, <1>2, <1>3, <1>4, <2>2
  <2> QED
    BY <1>3, <2>1, <2>2
<1>13. \A x \in Live' : price'[x] = p => \E i \in 1 .. n + 1 : t[i] = x
  <2> SUFFICES ASSUME NEW x \in Live', price'[x] = p PROVE \E i \in 1 .. n + 1 : t[i] = x
    OBVIOUS
  <2>1. CASE x = o
    BY <1>3, <1>4, <2>1
  <2>2. CASE x # o
    <3>1. x \in Live /\ price[x] = p
      BY <1>1, <1>2, <2>2
    <3>2. PICK i \in 1 .. n : s[i] = x
      BY <1>3, <3>1
    <3> QED
      BY <1>3, <1>4, <3>2
  <2> QED
    BY <2>1, <2>2
<1>14. IsQueue(t, p)'
  BY <1>4, <1>10, <1>11, <1>12, <1>13 DEF IsQueue
<1> QED
  BY <1>0, <1>14, Zenon DEF t

\* The queues of the other prices stay as they are.
LEMMA AddLeavesOthers ==
  ASSUME IInv, NEW p \in Prices, NEW q \in Quantities, add_order(p, q),
         NEW r \in Prices \ {p}, NEW s, IsQueue(s, r)
  PROVE  IsQueue(s, r)'
<1> DEFINE l == LevelAt(p)
<1>0. PICK o \in Ids : o = alloc_idx + 1
  BY DEF IInv, TypeOK, add_order, PoolExhausted, Ids
<1>1. /\ o \notin Live /\ q \in Nat \ {0} /\ o # NULL
      /\ \A x \in Live : x \in Ids \ {o}
  BY <1>0 DEF IInv, TypeOK, add_order, PoolExhausted, Ids, NULL, Live
<1>2. Live' = Live \cup {o} /\ price'[o] = p /\ \A x \in Ids \ {o} : price'[x] = price[x]
  BY <1>0, <1>1 DEF IInv, TypeOK, add_order, Live
<1>3. /\ s \in Seq(Ids)
      /\ \A i \in 1 .. Len(s) : s[i] \in Live /\ price[s[i]] = r
      /\ LevelAt(r).head = IF Len(s) = 0 THEN NULL ELSE s[1]
      /\ \A i \in 1 .. Len(s) : next[s[i]] = IF i = Len(s) THEN NULL ELSE s[i + 1]
      /\ \A i, j \in 1 .. Len(s) : i < j => s[i] < s[j]
      /\ \A x \in Live : price[x] = r => \E i \in 1 .. Len(s) : s[i] = x
  BY DEF IsQueue, Chain
<1>4. LevelAt(r)' = LevelAt(r)
  BY DEF add_order, WithLevel, LevelAt
<1>5. \A x \in Live : price[x] # p => next'[x] = next[x]
  <2>1. CASE l.head = NULL
    <3>1. next' = [next EXCEPT ![o] = NULL]
      BY <1>0, <2>1, Zenon DEF add_order
    <3> QED
      BY <1>1, <3>1 DEF IInv, TypeOK
  <2>2. CASE l.head # NULL
    <3>1. p \in DOMAIN levels /\ l = levels[p]
      BY <2>2 DEF LevelAt
    <3>2. l.tail \in Live /\ price[l.tail] = p
      BY <2>2, <3>1 DEF IInv, LinksConsistent, LevelLinked
    <3>3. next' = [next EXCEPT ![o] = NULL, ![l.tail] = o]
      BY <1>0, <2>2, Zenon DEF add_order
    <3> HIDE DEF l
    <3> QED
      BY <1>1, <3>2, <3>3 DEF IInv, TypeOK
  <2> QED
    BY <2>1, <2>2
<1>6. Chain(s, next', LevelAt(r)'.head)
  BY <1>3, <1>4, <1>5 DEF Chain
<1>7. \A i \in 1 .. Len(s) : s[i] \in Live' /\ price'[s[i]] = r
  BY <1>1, <1>2, <1>3
<1>8. \A x \in Live' : price'[x] = r => \E i \in 1 .. Len(s) : s[i] = x
  BY <1>1, <1>2, <1>3
<1> QED
  BY <1>3, <1>6, <1>7, <1>8 DEF IsQueue

\* A cancelled order leaves its queue, and the others keep their order.
LEMMA CancelParts ==
  ASSUME IInv, NEW o \in Live, cancel_order(o),
         NEW p \in Prices, price[o] = p, NEW s, IsQueue(s, p)
  PROVE  \E m \in 1 .. Len(s) : \E t : t = RemoveAt(s, m) /\ IsQueue(t, p)'
<1> DEFINE n == Len(s)
<1>1. o \in Ids /\ o # NULL /\ OrderLinked(o) /\ \A x \in Live : x # NULL /\ x \in Ids
  BY DEF IInv, LinksConsistent, Live, Ids, NULL
<1>2. Live' = Live \ {o} /\ price' = price
  BY <1>1 DEF IInv, TypeOK, cancel_order, LevelsWithout, NextWithout, PrevWithout, Live
<1>3. \A x \in Ids : x # o => next'[x] = IF x = prev[o] THEN next[o] ELSE next[x]
  BY DEF cancel_order, LevelsWithout, NextWithout, PrevWithout
<1>4. /\ p \in DOMAIN levels /\ p \in DOMAIN levels'
      /\ levels'[p].head = (IF prev[o] = NULL /\ levels[p].head = o
                            THEN next[o] ELSE levels[p].head)
  BY <1>1 DEF IInv, TypeOK, cancel_order, LevelsWithout, NextWithout, PrevWithout, Level, OrderLinked
<1>5. /\ s \in Seq(Ids) /\ n \in Nat
      /\ \A i \in 1 .. n : s[i] \in Live /\ price[s[i]] = p /\ s[i] \in Ids /\ s[i] \in Int
      /\ levels[p].head = IF n = 0 THEN NULL ELSE s[1]
      /\ \A i \in 1 .. n : next[s[i]] = IF i = n THEN NULL ELSE s[i + 1]
      /\ \A i, j \in 1 .. n : i < j => s[i] < s[j]
      /\ \A x \in Live : price[x] = p => \E i \in 1 .. n : s[i] = x
  BY <1>4 DEF IsQueue, Chain, Live, Ids, LevelAt
<1>6. \A i, j \in 1 .. n : s[i] = s[j] => i = j
  <2> SUFFICES ASSUME NEW i \in 1 .. n, NEW j \in 1 .. n, s[i] = s[j], i # j PROVE FALSE
    OBVIOUS
  <2>1. i < j \/ j < i
    OBVIOUS
  <2>2. s[i] < s[j] \/ s[j] < s[i]
    BY <1>5, <2>1
  <2> QED
    BY <1>5, <2>2
<1>7. PICK m \in 1 .. n : s[m] = o
  BY <1>5
<1> DEFINE t == RemoveAt(s, m)
<1>8. /\ t \in Seq(Ids) /\ Len(t) = n - 1
      /\ \A k \in 1 .. m - 1 : t[k] = s[k]
      /\ \A k \in m .. n - 1 : t[k] = s[k + 1]
  <2>1. s \in Seq(Ids)
    BY <1>5
  <2> QED
    BY <2>1, RemoveAtLeaves, Zenon
<1> HIDE DEF t
<1>9. next[o] = IF m = n THEN NULL ELSE s[m + 1]
  BY <1>5, <1>7
<1>10. prev[o] = IF m = 1 THEN NULL ELSE s[m - 1]
  <2>1. CASE m = 1
    <3>1. levels[p].head = o
      BY <1>5, <1>7, <2>1
    <3> QED
      BY <1>1, <1>4, <2>1, <3>1 DEF IInv, LinksConsistent, LevelLinked
  <2>2. CASE m # 1
    <3>1. m - 1 \in 1 .. n /\ m - 1 # n /\ m - 1 + 1 = m
      BY <1>5, <2>2
    <3>2. s[m - 1] \in Live /\ next[s[m - 1]] = o
      BY <1>5, <1>7, <3>1
    <3>3. OrderLinked(s[m - 1])
      BY <3>2 DEF IInv, LinksConsistent
    <3> QED
      BY <1>1, <2>2, <3>2, <3>3 DEF OrderLinked
  <2> QED
    BY <2>1, <2>2
<1>11. levels'[p].head = IF n - 1 = 0 THEN NULL ELSE t[1]
  <2>1. CASE m = 1
    <3>1. levels'[p].head = next[o]
      BY <1>4, <1>5, <1>7, <1>10, <2>1
    <3>2. n # 1 => t[1] = s[2]
      BY <1>5, <1>8, <2>1
    <3> QED
      BY <1>5, <1>9, <2>1, <3>1, <3>2
  <2>2. CASE m # 1
    <3>1. levels'[p].head = s[1] /\ n - 1 # 0 /\ 1 \in 1 .. m - 1
      <4>1. m - 1 \in 1 .. n
        BY <1>5, <2>2
      <4>2. prev[o] # NULL
        BY <1>1, <1>5, <1>10, <2>2, <4>1
      <4> QED
        BY <1>4, <1>5, <2>2, <4>2
    <3> QED
      BY <1>8, <3>1
  <2> QED
    BY <2>1, <2>2
<1>12. ASSUME NEW k \in 1 .. n - 1
       PROVE  /\ t[k] \in Live \ {o}
              /\ price[t[k]] = p
              /\ next'[t[k]] = IF k = n - 1 THEN NULL ELSE t[k + 1]
  <2>1. CASE k < m - 1
    <3>1. k \in 1 .. n /\ k # n /\ k # m /\ m # 1 /\ m - 1 \in 1 .. n /\ k # m - 1 /\ k # n - 1
          /\ k \in 1 .. m - 1 /\ k + 1 \in 1 .. m - 1
      BY <1>5, <2>1
    <3>2. t[k] = s[k] /\ t[k + 1] = s[k + 1]
      BY <1>8, <3>1
    <3>3. s[k] # o /\ s[k] # prev[o]
      BY <1>6, <1>7, <1>10, <3>1
    <3>4. next'[s[k]] = next[s[k]] /\ next[s[k]] = s[k + 1]
      BY <1>3, <1>5, <3>1, <3>3
    <3> QED
      BY <1>5, <3>1, <3>2, <3>3, <3>4
  <2>2. CASE k = m - 1
    <3>1. k \in 1 .. n /\ k # m /\ m # 1 /\ k \in 1 .. m - 1 /\ (k = n - 1 <=> m = n)
          /\ k + 1 = m
      BY <1>5, <2>2
    <3>2. t[k] = s[k] /\ s[k] = prev[o] /\ s[k] # o
      BY <1>6, <1>7, <1>8, <1>10, <2>2, <3>1
    <3>3. m # n => t[m] = s[m + 1]
      <4>1. m # n => m \in m .. n - 1
        BY <1>5
      <4> QED
        BY <1>8, <4>1
    <3> QED
      BY <1>3, <1>5, <1>9, <3>1, <3>2, <3>3
  <2>3. CASE k >= m
    <3>1. k \in m .. n - 1 /\ k + 1 \in 1 .. n /\ k + 1 # m /\ k + 1 # m - 1
          /\ (k # n - 1 => k + 1 \in m .. n - 1 /\ k + 1 # n) /\ (k = n - 1 => k + 1 = n)
      BY <1>5, <2>3
    <3>2. t[k] = s[k + 1] /\ (k # n - 1 => t[k + 1] = s[k + 1 + 1])
      BY <1>8, <3>1
    <3>3. s[k + 1] # o
      BY <1>6, <1>7, <3>1
    <3>4. s[k + 1] # prev[o]
      <4>1. CASE m = 1
        BY <1>1, <1>5, <1>10, <3>1, <4>1
      <4>2. CASE m # 1
        <5>1. m - 1 \in 1 .. n
          BY <1>5, <4>2
        <5> QED
          BY <1>6, <1>10, <3>1, <4>2, <5>1
      <4> QED
        BY <4>1, <4>2
    <3>5. next'[t[k]] = IF k + 1 = n THEN NULL ELSE s[k + 1 + 1]
      <4>1. s[k + 1] \in Ids /\ next[s[k + 1]] = IF k + 1 = n THEN NULL ELSE s[k + 1 + 1]
        BY <1>5, <3>1
      <4>2. next'[s[k + 1]] = next[s[k + 1]]
        BY <1>3, <3>3, <3>4, <4>1
      <4> QED
        BY <3>2, <4>1, <4>2, Zenon
    <3> QED
      BY <1>5, <3>1, <3>2, <3>3, <3>5
  <2> QED
    BY <1>5, <2>1, <2>2, <2>3
<1>13. Chain(t, next', LevelAt(p)'.head)
  BY <1>4, <1>8, <1>11, <1>12 DEF Chain, LevelAt
<1>14. \A i, j \in 1 .. n - 1 : i < j => t[i] < t[j]
  <2> SUFFICES ASSUME NEW i \in 1 .. n - 1, NEW j \in 1 .. n - 1, i < j PROVE t[i] < t[j]
    OBVIOUS
  <2> DEFINE At(k) == IF k < m THEN k ELSE k + 1
  <2>1. At(i) \in 1 .. n /\ At(j) \in 1 .. n /\ At(i) < At(j)
    BY <1>5
  <2>2. t[i] = s[At(i)] /\ t[j] = s[At(j)]
    BY <1>5, <1>8
  <2> HIDE DEF At
  <2> QED
    BY <1>5, <2>1, <2>2
<1>15. \A x \in Live \ {o} : price[x] = p => \E i \in 1 .. n - 1 : t[i] = x
  <2> SUFFICES ASSUME NEW x \in Live \ {o}, price[x] = p PROVE \E i \in 1 .. n - 1 : t[i] = x
    OBVIOUS
  <2>1. PICK k \in 1 .. n : s[k] = x
    BY <1>5
  <2>2. k # m
    BY <1>7, <2>1
  <2>3. CASE k < m
    <3>1. k \in 1 .. n - 1 /\ k \in 1 .. m - 1
      BY <1>5, <2>3
    <3> QED
      BY <1>8, <2>1, <3>1
  <2>4. CASE k > m
    <3>1. k - 1 \in 1 .. n - 1 /\ k - 1 \in m .. n - 1 /\ k - 1 + 1 = k
      BY <1>5, <2>4
    <3> QED
      BY <1>8, <2>1, <3>1
  <2> QED
    BY <2>2, <2>3, <2>4
<1>16. IsQueue(t, p)'
  BY <1>2, <1>8, <1>12, <1>13, <1>14, <1>15 DEF IsQueue
<1> QED
  BY <1>7, <1>16, Zenon DEF t

\* The queues of the other prices stay as they are.
LEMMA CancelLeavesOthers ==
  ASSUME IInv, NEW o \in Live, cancel_order(o),
         NEW r \in Prices, price[o] # r, NEW s, IsQueue(s, r)
  PROVE  IsQueue(s, r)'
<1>1. o \in Ids /\ o # NULL /\ OrderLinked(o) /\ \A x \in Live : x # NULL /\ x \in Ids
  BY DEF IInv, LinksConsistent, Live, Ids, NULL
<1>2. Live' = Live \ {o} /\ price' = price
  BY <1>1 DEF IInv, TypeOK, cancel_order, LevelsWithout, NextWithout, PrevWithout, Live
<1>3. /\ s \in Seq(Ids)
      /\ \A i \in 1 .. Len(s) : s[i] \in Live /\ price[s[i]] = r /\ s[i] \in Ids /\ s[i] # o
      /\ LevelAt(r).head = IF Len(s) = 0 THEN NULL ELSE s[1]
      /\ \A i \in 1 .. Len(s) : next[s[i]] = IF i = Len(s) THEN NULL ELSE s[i + 1]
      /\ \A i, j \in 1 .. Len(s) : i < j => s[i] < s[j]
      /\ \A x \in Live : price[x] = r => \E i \in 1 .. Len(s) : s[i] = x
  BY <1>1 DEF IsQueue, Chain
<1>4. LevelAt(r)'.head = LevelAt(r).head
  <2>1. CASE r \in DOMAIN levels
    <3>1. /\ r \in DOMAIN levels'
          /\ levels'[r].head = (IF prev[o] = NULL /\ levels[r].head = o
                                THEN next[o] ELSE levels[r].head)
      BY <2>1 DEF IInv, TypeOK, cancel_order, LevelsWithout, NextWithout, PrevWithout, Level
    <3>2. levels[r].head # o
      BY <1>1, <2>1 DEF IInv, LinksConsistent, LevelLinked
    <3> QED
      BY <2>1, <3>1, <3>2 DEF LevelAt
  <2>2. CASE r \notin DOMAIN levels
    <3>1. r \notin DOMAIN levels'
      BY <2>2 DEF cancel_order, LevelsWithout
    <3> QED
      BY <2>2, <3>1 DEF LevelAt
  <2> QED
    BY <2>1, <2>2
<1>5. \A x \in Live : price[x] = r => next'[x] = next[x]
  <2> SUFFICES ASSUME NEW x \in Live, price[x] = r PROVE next'[x] = next[x]
    OBVIOUS
  <2>1. x # o /\ x \in Ids /\ x # prev[o]
    BY <1>1 DEF OrderLinked
  <2>2. next'[x] = (IF x = o THEN NULL ELSE IF x = prev[o] THEN next[o] ELSE next[x])
    BY <2>1 DEF cancel_order, NextWithout
  <2> QED
    BY <2>1, <2>2
<1>6. Chain(s, next', LevelAt(r)'.head)
  BY <1>3, <1>4, <1>5 DEF Chain
<1> QED
  BY <1>2, <1>3, <1>6 DEF IsQueue

-----------------------------------------------------------------------------
(* The refinement                                                          *)

\* Every level holds the queue of its price.
Queues == \A p \in Prices : \E s : IsQueue(s, p)

\* What the walks see, the queue of PriceTimeBook.
Walks == [p \in Prices |-> Walk(p)]

LEMMA FreshQueues == Init => \A p \in Prices : IsQueue(<<>>, p)
<1> SUFFICES ASSUME Init, NEW p \in Prices PROVE IsQueue(<<>>, p)
  OBVIOUS
<1>1. LevelAt(p).head = NULL /\ Live = {} /\ <<>> \in Seq(Ids) /\ Len(<<>>) = 0
  BY DEF Init, LevelAt, Live
<1> QED
  BY <1>1 DEF IsQueue, Chain

\* add_order is Add of the abstract book: the id is newer than all that rest.
LEMMA AddRefines ==
  ASSUME IInv, Queues, NEW p \in Prices, NEW q \in Quantities, add_order(p, q)
  PROVE  Queues' /\ Book!Add(p, alloc_idx + 1) /\ alloc_idx + 1 \in Ids
<1>1. ASSUME NEW r \in Prices
      PROVE  \E s, t : /\ IsQueue(s, r) /\ IsQueue(t, r)'
                       /\ t = IF r = p THEN Append(s, alloc_idx + 1) ELSE s
  <2>1. PICK s : IsQueue(s, r)
    BY DEF Queues
  <2>2. CASE r = p
    BY <2>1, <2>2, AddJoins
  <2>3. CASE r # p
    BY <2>1, <2>3, AddLeavesOthers
  <2> QED
    BY <2>2, <2>3
<1>2. Queues'
  BY <1>1 DEF Queues
<1>3. \A r \in Prices : Walk(r)' = IF r = p THEN Append(Walk(r), alloc_idx + 1) ELSE Walk(r)
  BY <1>1, QueueIsWalked
<1>4. Walks' = [Walks EXCEPT ![p] = Append(@, alloc_idx + 1)]
  BY <1>3 DEF Walks
<1>5. \A r \in Prices : \A i \in 1 .. Len(Walks[r]) : Walks[r][i] < alloc_idx + 1
  <2> SUFFICES ASSUME NEW r \in Prices, NEW i \in 1 .. Len(Walk(r)) PROVE Walk(r)[i] < alloc_idx + 1
    BY DEF Walks
  <2>1. IsQueue(Walk(r), r)
    BY <1>1, QueueIsWalked
  <2>2. Walk(r)[i] \in Live
    BY <2>1 DEF IsQueue
  <2> QED
    BY <2>2 DEF IInv, TypeOK
<1>6. alloc_idx + 1 \in Ids
  BY DEF IInv, TypeOK, add_order, PoolExhausted, Ids
<1> QED
  BY <1>2, <1>4, <1>5, <1>6 DEF Book!Add, Walks

\* cancel_order is Cancel of the place where the order stands.
LEMMA CancelRefines ==
  ASSUME IInv, Queues, NEW o \in Live, cancel_order(o)
  PROVE  Queues' /\ \E p \in Prices : \E i \in 1 .. Len(Walks[p]) : Book!Cancel(p, i)
<1>1. PICK p \in Prices : price[o] = p
  BY DEF IInv, TypeOK, LinksConsistent, OrderLinked
<1>2. PICK s : IsQueue(s, p)
  BY DEF Queues
<1>3. PICK m \in 1 .. Len(s) : \E t : t = RemoveAt(s, m) /\ IsQueue(t, p)'
  BY <1>1, <1>2, CancelParts
<1>4. ASSUME NEW r \in Prices
      PROVE  \E u, t : /\ IsQueue(u, r) /\ IsQueue(t, r)'
                       /\ t = IF r = p THEN RemoveAt(u, m) ELSE u
  <2>1. PICK u : IsQueue(u, r)
    BY DEF Queues
  <2>2. CASE r = p
    BY <1>2, <1>3, <2>2
  <2>3. CASE r # p
    BY <1>1, <2>1, <2>3, CancelLeavesOthers
  <2> QED
    BY <2>2, <2>3
<1>5. Queues'
  BY <1>4 DEF Queues
<1>6. \A r \in Prices : Walk(r)' = IF r = p THEN RemoveAt(Walk(r), m) ELSE Walk(r)
  BY <1>4, QueueIsWalked
<1>7. Walks' = [Walks EXCEPT ![p] = RemoveAt(@, m)]
  BY <1>6 DEF Walks
<1>8. m \in 1 .. Len(Walks[p])
  BY <1>2, <1>3, QueueIsWalked DEF Walks
<1>9. Book!Cancel(p, m)
  BY <1>7, Zenon DEF Book!Cancel, Book!RemoveAt, RemoveAt, Walks
<1> QED
  BY <1>5, <1>8, <1>9

\* Walking the levels of the book gives a price-time priority queue for each price
\* (day8:63-90): every add joins the end of its price's queue and every cancel takes
\* one order out and leaves the rest in their order, for pools of any size.
THEOREM BookImplementsPriceTime == Spec => ImplementsPriceTimeBook
<1>1. Init => Queues
  BY FreshQueues DEF Queues
<1>2. ASSUME IInv, Queues, [Next]_vars
      PROVE  Queues' /\ [Book!BookNext]_Walks
  <2>1. ASSUME NEW p \in Prices, NEW q \in Quantities, add_order(p, q)
        PROVE  Queues' /\ Book!BookNext
    BY <1>2, <2>1, AddRefines DEF Book!BookNext
  <2>2. ASSUME NEW o \in 1 .. alloc_idx, cancel_order(o)
        PROVE  Queues' /\ Book!BookNext
    <3>1. o \in Live
      BY <2>2 DEF cancel_order, LevelsWithout, NextWithout, PrevWithout, Ignored
    <3>2. Queues' /\ \E p \in Prices : \E i \in 1 .. Len(Walks[p]) : Book!Cancel(p, i)
      BY <1>2, <2>2, <3>1, CancelRefines
    <3> QED
      BY <3>2 DEF Book!BookNext, Walks
  <2>3. ASSUME UNCHANGED vars PROVE Queues' /\ UNCHANGED Walks
    BY <1>2, <2>3 DEF vars, Queues, IsQueue, Chain, LevelAt, Live, Walks, Walk
  <2> QED
    BY <1>2, <2>1, <2>2, <2>3 DEF Next, IgnoredCall
<1>3. IInv /\ Queues /\ [Next]_vars => Queues' /\ [Book!BookNext]_Walks
  BY <1>2
<1>4. Init => Book!BookInit
  BY FreshQueues, QueueIsWalked DEF Book!BookInit
<1> QED
  BY <1>1, <1>3, <1>4, InitEstablishes, StepPreserves, PTL
     DEF Spec, ImplementsPriceTimeBook, Book!BookSpec, Walks

================================================================================
