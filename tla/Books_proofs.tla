--------------------------- MODULE Books_proofs --------------------------------
(***************************************************************************)
(* Proofs about the two engines that replay orders into a book:            *)
(* MatchingEngine, for any capacity, prices, quantities and number of      *)
(* orders, and ReplayEngine, for any number of slots, any stream and any   *)
(* prices and quantities.                                                  *)
(***************************************************************************)
EXTENDS MatchingEngine, ReplayEngine, SharedLemmas, FiniteSetTheorems, SequenceTheorems, TLAPS

-----------------------------------------------------------------------------
(* MatchingEngine: what the trades add up to                               *)

\* A trade more adds its quantity to the sums it belongs to.
LEMMA TradeAdds ==
  ASSUME NEW ts \in Seq(TradeEvent), NEW t \in TradeEvent, NEW x
  PROVE  /\ Append(ts, t) \in Seq(TradeEvent)
         /\ TradedFrom(ts, x) \in Nat /\ TradedTo(ts, x) \in Nat
         /\ TradedFrom(Append(ts, t), x) = TradedFrom(ts, x) + (IF t.passive = x THEN t.qty ELSE 0)
         /\ TradedTo(Append(ts, t), x) = TradedTo(ts, x) + (IF t.aggressor = x THEN t.qty ELSE 0)
<1>0. PICK us : us = Append(ts, t)
  OBVIOUS
<1>1. PICK N \in Nat : N = Len(ts) /\ \A k \in 0 .. N - 1 : ts[k + 1].qty \in Nat
  <2>1. PICK N \in Nat : N = Len(ts)
    OBVIOUS
  <2>2. ASSUME NEW k \in 0 .. N - 1 PROVE ts[k + 1].qty \in Nat
    <3>1. ts[k + 1] \in TradeEvent
      BY <2>1
    <3> QED
      BY <3>1 DEF TradeEvent
  <2> QED
    BY <2>1, <2>2
<1>2. /\ us \in Seq(TradeEvent) /\ Len(us) = N + 1 /\ us[N + 1] = t
      /\ \A k \in 0 .. N - 1 : us[k + 1] = ts[k + 1]
  BY <1>0, <1>1, AppendProperties
<1>3. t.qty \in Nat
  BY DEF TradeEvent
<1> DEFINE f == [n \in 0 .. N - 1 |-> IF ts[n + 1].passive = x THEN ts[n + 1].qty ELSE 0]
           g == [n \in 0 .. N |-> IF us[n + 1].passive = x THEN us[n + 1].qty ELSE 0]
<1>4. /\ \A k \in 0 .. N - 1 : g[k] = f[k] /\ f[k] \in Nat
      /\ g[N] = IF t.passive = x THEN t.qty ELSE 0
  BY <1>1, <1>2
<1>5. TradedFrom(ts, x) = SumTo(f, N) /\ TradedFrom(us, x) = SumTo(g, N + 1)
  <2>1. Len(us) - 1 = N
    BY <1>2
  <2> QED
    BY <1>1, <1>2, <2>1 DEF TradedFrom
<1> HIDE DEF f, g
<1>6. TradedFrom(ts, x) \in Nat
  BY <1>4, <1>5, SumToGrows
<1>7. TradedFrom(us, x) = TradedFrom(ts, x) + (IF t.passive = x THEN t.qty ELSE 0)
  BY <1>4, <1>5, SumToGrows
<1> DEFINE h == [n \in 0 .. N - 1 |-> IF ts[n + 1].aggressor = x THEN ts[n + 1].qty ELSE 0]
           i == [n \in 0 .. N |-> IF us[n + 1].aggressor = x THEN us[n + 1].qty ELSE 0]
<1>8. /\ \A k \in 0 .. N - 1 : i[k] = h[k] /\ h[k] \in Nat
      /\ i[N] = IF t.aggressor = x THEN t.qty ELSE 0
  BY <1>1, <1>2
<1>9. TradedTo(ts, x) = SumTo(h, N) /\ TradedTo(us, x) = SumTo(i, N + 1)
  <2>1. Len(us) - 1 = N
    BY <1>2
  <2> QED
    BY <1>1, <1>2, <2>1 DEF TradedTo
<1> HIDE DEF h, i
<1>10. TradedTo(ts, x) \in Nat
  BY <1>8, <1>9, SumToGrows
<1>11. TradedTo(us, x) = TradedTo(ts, x) + (IF t.aggressor = x THEN t.qty ELSE 0)
  BY <1>8, <1>9, SumToGrows
<1> QED
  BY <1>0, <1>2, <1>6, <1>7, <1>10, <1>11, Zenon

LEMMA TradedAreNumbers ==
  ASSUME NEW ts \in Seq(TradeEvent), NEW x
  PROVE  TradedFrom(ts, x) \in Nat /\ TradedTo(ts, x) \in Nat
<1>1. PICK N \in Nat : N = Len(ts) /\ \A k \in 0 .. N - 1 : ts[k + 1].qty \in Nat
  <2>1. PICK N \in Nat : N = Len(ts)
    OBVIOUS
  <2>2. ASSUME NEW k \in 0 .. N - 1 PROVE ts[k + 1].qty \in Nat
    <3>1. ts[k + 1] \in TradeEvent
      BY <2>1
    <3> QED
      BY <3>1 DEF TradeEvent
  <2> QED
    BY <2>1, <2>2
<1> DEFINE f == [n \in 0 .. N - 1 |-> IF ts[n + 1].passive = x THEN ts[n + 1].qty ELSE 0]
           g == [n \in 0 .. N - 1 |-> IF ts[n + 1].aggressor = x THEN ts[n + 1].qty ELSE 0]
<1>2. \A k \in 0 .. N - 1 : f[k] \in Nat /\ g[k] \in Nat
  BY <1>1
<1>3. TradedFrom(ts, x) = SumTo(f, N) /\ TradedTo(ts, x) = SumTo(g, N)
  BY <1>1 DEF TradedFrom, TradedTo
<1> HIDE DEF f, g
<1>4. SumTo(f, N) \in Nat
  BY <1>2, SumToGrows
<1>5. SumTo(g, N) \in Nat
  BY <1>2, SumToGrows
<1> QED
  BY <1>3, <1>4, <1>5

\* A number that no trade bears has traded nothing.
LEMMA NothingTraded ==
  ASSUME NEW ts \in Seq(TradeEvent), NEW x
  PROVE  /\ (\A n \in 1 .. Len(ts) : ts[n].passive # x) => TradedFrom(ts, x) = 0
         /\ (\A n \in 1 .. Len(ts) : ts[n].aggressor # x) => TradedTo(ts, x) = 0
<1>1. PICK N \in Nat : N = Len(ts)
  OBVIOUS
<1>2. ASSUME \A n \in 1 .. N : ts[n].passive # x PROVE TradedFrom(ts, x) = 0
  <2> DEFINE f == [n \in 0 .. N - 1 |-> IF ts[n + 1].passive = x THEN ts[n + 1].qty ELSE 0]
  <2>1. \A n \in 0 .. N - 1 : f[n] = 0
    BY <1>2
  <2> HIDE DEF f
  <2>2. SumTo(f, N) = 0
    BY <2>1, SumToIs, SumsOfZeros
  <2> QED
    BY <1>1, <2>2 DEF TradedFrom, f
<1>3. ASSUME \A n \in 1 .. N : ts[n].aggressor # x PROVE TradedTo(ts, x) = 0
  <2> DEFINE f == [n \in 0 .. N - 1 |-> IF ts[n + 1].aggressor = x THEN ts[n + 1].qty ELSE 0]
  <2>1. \A n \in 0 .. N - 1 : f[n] = 0
    BY <1>3
  <2> HIDE DEF f
  <2>2. SumTo(f, N) = 0
    BY <2>1, SumToIs, SumsOfZeros
  <2> QED
    BY <1>1, <2>2 DEF TradedTo, f
<1> QED
  BY <1>1, <1>2, <1>3

-----------------------------------------------------------------------------
(* MatchingEngine: the levels and the orders in them                       *)

\* The orders of some levels, place by place.
LEMMA InLevels ==
  ASSUME NEW L \in Seq(PriceLevel)
  PROVE  /\ DOMAIN L = 1 .. Len(L) /\ Len(L) \in Nat
         /\ \A k \in 1 .. Len(L) : /\ L[k] \in PriceLevel
                                   /\ L[k].price \in LimitPrices /\ L[k].price \in Int
                                   /\ L[k].orders \in Seq(Order)
                                   /\ DOMAIN L[k].orders = 1 .. Len(L[k].orders)
         /\ \A o : o \in RestingIn(L) <=>
                      \E k \in 1 .. Len(L) : \E i \in 1 .. Len(L[k].orders) : o = L[k].orders[i]
         /\ RestingIn(L) \subseteq Order
<1>1. DOMAIN L = 1 .. Len(L) /\ Len(L) \in Nat /\ \A k \in 1 .. Len(L) : L[k] \in PriceLevel
  OBVIOUS
<1>2. \A k \in 1 .. Len(L) : /\ L[k].price \in LimitPrices /\ L[k].price \in Int
                             /\ L[k].orders \in Seq(Order)
  BY <1>1, MatchingAssumption DEF PriceLevel
<1>3. \A k \in 1 .. Len(L) : DOMAIN L[k].orders = 1 .. Len(L[k].orders)
  BY <1>2
<1>4. \A o : o \in RestingIn(L) <=>
                \E k \in 1 .. Len(L) : \E i \in 1 .. Len(L[k].orders) : o = L[k].orders[i]
  <2> TAKE o
  <2>1. o \in RestingIn(L) <=> \E k \in 1 .. Len(L) : o \in ToSet(L[k].orders)
    BY <1>1 DEF RestingIn
  <2>2. \A k \in 1 .. Len(L) : o \in ToSet(L[k].orders)
                                  <=> \E i \in 1 .. Len(L[k].orders) : o = L[k].orders[i]
    BY <1>3, Zenon DEF ToSet
  <2> QED
    BY <2>1, <2>2, Zenon
<1>5. RestingIn(L) \subseteq Order
  <2> SUFFICES ASSUME NEW o \in RestingIn(L) PROVE o \in Order
    OBVIOUS
  <2>1. PICK k \in 1 .. Len(L) : \E i \in 1 .. Len(L[k].orders) : o = L[k].orders[i]
    BY <1>4
  <2>2. PICK i \in 1 .. Len(L[k].orders) : o = L[k].orders[i]
    BY <2>1
  <2>3. PICK queue \in Seq(Order) : queue = L[k].orders
    BY <1>2
  <2> QED
    BY <2>2, <2>3
<1> QED
  BY <1>1, <1>2, <1>3, <1>4, <1>5

\* What WellFormed says of an order at its place.
At(L, k, i, o) == k \in 1 .. Len(L) /\ i \in 1 .. Len(L[k].orders) /\ o = L[k].orders[i]

LEMMA AtItsPlace ==
  ASSUME NEW L \in Seq(PriceLevel), NEW side, WellFormed(L, side),
         NEW k, NEW i, NEW o, At(L, k, i, o)
  PROVE  /\ o.id \in 1 .. pool_idx /\ o.qty > 0
         /\ resting[o.id].price = L[k].price /\ resting[o.id].side = side
         /\ \A j \in 1 .. i - 1 : L[k].orders[j].id < o.id
<1>0. k \in 1 .. Len(L) /\ i \in 1 .. Len(L[k].orders) /\ o = L[k].orders[i]
  BY DEF At
<1>1. k \in DOMAIN L /\ i \in DOMAIN L[k].orders
  BY <1>0, InLevels
<1>2. LevelFormed(L[k], side)
  BY <1>1, Zenon DEF WellFormed
<1> QED
  BY <1>0, <1>1, <1>2, Zenon DEF LevelFormed

\* An order is at one place only.
LEMMA OnePlace ==
  ASSUME NEW L \in Seq(PriceLevel), NEW side, WellFormed(L, side), pool_idx \in Nat,
         NEW k \in 1 .. Len(L), NEW i \in 1 .. Len(L[k].orders),
         NEW m \in 1 .. Len(L), NEW j \in 1 .. Len(L[m].orders),
         L[k].orders[i].id = L[m].orders[j].id
  PROVE  k = m /\ i = j
<1>1. L[k].price = L[m].price
  <2>1. PICK a, b : a = L[k].orders[i] /\ b = L[m].orders[j]
    OBVIOUS
  <2>0. At(L, k, i, a) /\ At(L, m, j, b)
    BY <2>1 DEF At
  <2>2. resting[a.id].price = L[k].price
    BY <2>0, AtItsPlace
  <2>3. resting[b.id].price = L[m].price
    BY <2>0, AtItsPlace
  <2>4. a.id = b.id
    BY <2>1, Zenon
  <2> QED
    BY <2>2, <2>3, <2>4, Zenon
<1>2. k = m
  BY <1>1, InLevels, Zenon DEF WellFormed
<1>3. PICK queue \in Seq(Order) : queue = L[k].orders
  BY InLevels
<1>4. \A a \in 1 .. Len(queue) : /\ queue[a].id \in 1 .. pool_idx
                                 /\ \A b \in 1 .. a - 1 : queue[b].id < queue[a].id
  <2> SUFFICES ASSUME NEW a \in 1 .. Len(queue)
               PROVE  /\ queue[a].id \in 1 .. pool_idx
                      /\ \A b \in 1 .. a - 1 : queue[b].id < queue[a].id
    OBVIOUS
  <2>1. At(L, k, a, queue[a])
    BY <1>3 DEF At
  <2> QED
    BY <1>3, <2>1, AtItsPlace
<1>5. i \in 1 .. Len(queue) /\ j \in 1 .. Len(queue) /\ queue[i].id = queue[j].id /\ Len(queue) \in Nat
  BY <1>2, <1>3
<1>6. ~ (i < j) /\ ~ (j < i)
  BY <1>4, <1>5
<1> QED
  BY <1>2, <1>5, <1>6

\* The first order of the first level is the oldest of its price and, when the levels are
\* sorted, has the best price.
LEMMA HeadFirst ==
  ASSUME NEW L \in Seq(PriceLevel), NEW side \in Sides, WellFormed(L, side), pool_idx \in Nat,
         L # <<>>, NEW o, o = L[1].orders[1]
  PROVE  /\ 1 \in 1 .. Len(L) /\ 1 \in 1 .. Len(L[1].orders)
         /\ o \in RestingIn(L) /\ o \in Order /\ o.id \in 1 .. pool_idx /\ o.qty \in Nat \ {0}
         /\ resting[o.id].price = L[1].price /\ resting[o.id].side = side
         /\ \A x \in RestingIn(L) : resting[x.id].price = L[1].price => o.id <= x.id
         /\ SortedBest(L, side) =>
               \A x \in RestingIn(L) : side * resting[x.id].price <= side * L[1].price
<1>1. 1 \in 1 .. Len(L)
  BY InLevels
<1>2. L[1].orders \in Seq(Order) /\ L[1].orders # <<>>
  BY <1>1, InLevels DEF WellFormed, LevelFormed
<1>3. 1 \in 1 .. Len(L[1].orders)
  BY <1>2
<1>4. /\ o \in RestingIn(L) /\ o \in Order /\ o.id \in 1 .. pool_idx /\ o.qty \in Nat \ {0}
      /\ resting[o.id].price = L[1].price /\ resting[o.id].side = side
  <2>1. o \in RestingIn(L) /\ o \in Order
    BY <1>1, <1>3, InLevels
  <2>2. o.qty \in Nat
    BY <2>1 DEF Order
  <2>3. At(L, 1, 1, o)
    BY <1>1, <1>3 DEF At
  <2> QED
    BY <2>1, <2>2, <2>3, AtItsPlace
<1>5. ASSUME NEW x \in RestingIn(L)
      PROVE  /\ resting[x.id].price = L[1].price => o.id <= x.id
             /\ SortedBest(L, side) => side * resting[x.id].price <= side * L[1].price
  <2>1. PICK k \in 1 .. Len(L) : \E i \in 1 .. Len(L[k].orders) : x = L[k].orders[i]
    BY InLevels
  <2>2. PICK i \in 1 .. Len(L[k].orders) : x = L[k].orders[i]
    BY <2>1
  <2>0. At(L, k, i, x)
    BY <2>2 DEF At
  <2>3. x.id \in 1 .. pool_idx /\ resting[x.id].price = L[k].price
    BY <2>0, AtItsPlace
  <2>4. ASSUME L[k].price = L[1].price PROVE o.id <= x.id
    <3>1. k = 1
      BY <1>1, <2>4, InLevels DEF WellFormed
    <3>2. i = 1 \/ 1 \in 1 .. i - 1
      BY <2>2
    <3>3. CASE i = 1
      BY <1>4, <2>2, <3>1, <3>3
    <3>4. CASE 1 \in 1 .. i - 1
      <4>1. L[1].orders[1].id < x.id
        BY <2>0, <3>1, <3>4, AtItsPlace
      <4>2. o.id < x.id
        BY <4>1
      <4>3. o.id \in Int /\ x.id \in Int
        BY <1>4, <2>3
      <4> QED
        BY <4>2, <4>3
    <3> QED
      BY <3>2, <3>3, <3>4
  <2>5. ASSUME SortedBest(L, side) PROVE side * L[k].price <= side * L[1].price
    <3>1. L[k].price \in Int /\ L[1].price \in Int /\ side \in Int
      <4>1. \A m \in 1 .. Len(L) : L[m].price \in Int
        BY InLevels
      <4>2. side \in Int
        BY DEF Sides
      <4> QED
        BY <1>1, <4>1, <4>2
    <3>2. k = 1 \/ 1 < k
      OBVIOUS
    <3>3. 1 < k => side * L[1].price >= side * L[k].price
      BY <1>1, <2>5, InLevels DEF SortedBest
    <3>4. side * L[1].price \in Int /\ side * L[k].price \in Int
      BY <3>1
    <3> QED
      BY <3>2, <3>3, <3>4
  <2> QED
    BY <2>3, <2>4, <2>5
<1> QED
  BY <1>1, <1>3, <1>4, <1>5

\* What a turn makes of the first level's queue.
Cut(o, fill) == [id |-> o.id, qty |-> o.qty - fill]
TakenOff(queue, fill, rest) ==
    /\ rest \in Seq(Order)
    /\ fill = queue[1].qty => /\ Len(rest) = Len(queue) - 1
                              /\ \A i \in 1 .. Len(rest) : rest[i] = queue[i + 1]
    /\ fill # queue[1].qty => /\ Len(rest) = Len(queue) /\ rest[1] = Cut(queue[1], fill)
                              /\ \A i \in 2 .. Len(rest) : rest[i] = queue[i]

LEMMA QueueTaken ==
  ASSUME NEW queue \in Seq(Order), queue # <<>>, NEW fill \in 1 .. queue[1].qty,
         NEW rest, rest = Unfilled(queue, fill)
  PROVE  TakenOff(queue, fill, rest)
<1>0. PICK o \in Order : o = queue[1]
  OBVIOUS
<1>1. /\ o = queue[1] /\ o.qty \in Nat /\ o = [id |-> o.id, qty |-> o.qty]
      /\ o.id \in 1 .. MatchCapacity
  BY <1>0 DEF Order
<1>2. CASE fill = o.qty
  BY <1>1, <1>2 DEF Unfilled, TakenOff
<1>3. CASE fill # o.qty
  <2>1. PICK cut : cut = [id |-> o.id, qty |-> o.qty - fill]
    OBVIOUS
  <2>2. cut \in Order /\ cut = Cut(o, fill)
    BY <1>1, <2>1 DEF Order, Cut
  <2>3. rest = [queue EXCEPT ![1] = cut]
    <3>1. [o EXCEPT !.qty = @ - fill] = cut
      BY <1>1, <2>1
    <3>2. rest = [queue EXCEPT ![1] = [queue[1] EXCEPT !.qty = @ - fill]]
      BY <1>1, <1>3 DEF Unfilled
    <3> QED
      BY <1>1, <3>1, <3>2
  <2>4. rest \in Seq(Order) /\ Len(rest) = Len(queue) /\ rest[1] = cut
        /\ \A i \in 2 .. Len(queue) : rest[i] = queue[i]
    BY <2>2, <2>3
  <2> QED
    BY <1>1, <1>3, <2>2, <2>4 DEF TakenOff
<1> QED
  BY <1>1, <1>2, <1>3

\* The levels a turn leaves: the first one has another queue, or is gone.
Replaced(L, M, rest) ==
    /\ Len(M) = Len(L)
    /\ M[1].price = L[1].price /\ M[1].orders = rest
    /\ \A k \in 2 .. Len(L) : M[k] = L[k]
Dropped(L, M) == Len(M) = Len(L) - 1 /\ \A k \in 1 .. Len(M) : M[k] = L[k + 1]

LEMMA LevelsLeft ==
  ASSUME NEW L \in Seq(PriceLevel), L # <<>>, NEW rest \in Seq(Order),
         NEW M, M = IF rest = <<>> THEN Tail(L) ELSE [L EXCEPT ![1].orders = rest]
  PROVE  /\ M \in Seq(PriceLevel)
         /\ rest = <<>> => Dropped(L, M)
         /\ rest # <<>> => Replaced(L, M, rest)
<1>1. CASE rest = <<>>
  BY <1>1 DEF Dropped
<1>2. CASE rest # <<>>
  <2>0. PICK l \in PriceLevel : l = L[1]
    OBVIOUS
  <2>1. l = L[1] /\ l = [price |-> l.price, orders |-> l.orders] /\ l.price \in LimitPrices
    BY <2>0 DEF PriceLevel
  <2>2. PICK m : m = [price |-> l.price, orders |-> rest]
    OBVIOUS
  <2>3. m \in PriceLevel
    BY <2>1, <2>2 DEF PriceLevel
  <2>4. [l EXCEPT !.orders = rest] = m
    BY <2>1, <2>2
  <2>5. M = [L EXCEPT ![1] = m]
    BY <1>2, <2>1, <2>4
  <2>6. M \in Seq(PriceLevel) /\ Len(M) = Len(L) /\ M[1] = m /\ \A k \in 2 .. Len(L) : M[k] = L[k]
    BY <2>3, <2>5, ExceptSeq, SMTT(30)
  <2> QED
    BY <1>2, <2>1, <2>2, <2>6 DEF Replaced
<1> QED
  BY <1>1, <1>2

\* What a turn leaves of a side of the book: all of it but what it took of one order.
Leaves(L, M, side, o, fill) ==
    /\ M \in Seq(PriceLevel) /\ WellFormed(M, side)
    /\ SortedBest(L, side) => SortedBest(M, side)
    /\ \A x \in RestingIn(M) : \/ x \in RestingIn(L) /\ x.id # o.id
                               \/ fill # o.qty /\ x = Cut(o, fill)
    /\ fill # o.qty => Cut(o, fill) \in RestingIn(M)
    /\ \A x \in RestingIn(L) : x.id # o.id => x \in RestingIn(M)

\* The last order of the level is gone, and the level with it.
LEMMA LevelDropped ==
  ASSUME NEW L \in Seq(PriceLevel), NEW side \in Sides, WellFormed(L, side), pool_idx \in Nat,
         L # <<>>, Len(L[1].orders) = 1, NEW o, o = L[1].orders[1],
         NEW M \in Seq(PriceLevel), Dropped(L, M)
  PROVE  Leaves(L, M, side, o, o.qty)
<1>1. /\ Len(M) = Len(L) - 1 /\ \A k \in 1 .. Len(M) : k + 1 \in 1 .. Len(L) /\ M[k] = L[k + 1]
      /\ 1 \in 1 .. Len(L)
  BY InLevels DEF Dropped
<1>2. WellFormed(M, side)
  <2>1. ASSUME NEW j \in DOMAIN M, NEW k \in DOMAIN M, M[j].price = M[k].price PROVE j = k
    <3>1. j \in 1 .. Len(M) /\ k \in 1 .. Len(M)
      BY InLevels
    <3>2. j + 1 \in DOMAIN L /\ k + 1 \in DOMAIN L /\ L[j + 1].price = L[k + 1].price
      BY <1>1, <2>1, <3>1, InLevels
    <3>3. j + 1 = k + 1
      BY <3>2, Zenon DEF WellFormed
    <3> QED
      BY <3>1, <3>3
  <2>2. ASSUME NEW k \in DOMAIN M PROVE LevelFormed(M[k], side)
    <3>1. k \in 1 .. Len(M)
      BY InLevels
    <3>2. M[k] = L[k + 1] /\ k + 1 \in DOMAIN L
      BY <1>1, <3>1, InLevels
    <3> QED
      BY <3>2, Zenon DEF WellFormed
  <2> QED
    BY <2>1, <2>2, Zenon DEF WellFormed
<1>3. ASSUME SortedBest(L, side) PROVE SortedBest(M, side)
  <2> SUFFICES ASSUME NEW j \in DOMAIN M, NEW k \in DOMAIN M, j < k
               PROVE  side * M[j].price >= side * M[k].price
    BY DEF SortedBest
  <2>1. j \in 1 .. Len(M) /\ k \in 1 .. Len(M)
    BY InLevels
  <2>2. j + 1 \in DOMAIN L /\ k + 1 \in DOMAIN L /\ j + 1 < k + 1
    BY <1>1, <2>1, InLevels
  <2>3. M[j] = L[j + 1] /\ M[k] = L[k + 1]
    BY <1>1, <2>1
  <2>4. side * L[j + 1].price >= side * L[k + 1].price
    BY <1>3, <2>2, Zenon DEF SortedBest
  <2> QED
    BY <2>3, <2>4
<1>4. ASSUME NEW x \in RestingIn(M) PROVE x \in RestingIn(L) /\ x.id # o.id
  <2>1. PICK k \in 1 .. Len(M) : \E i \in 1 .. Len(M[k].orders) : x = M[k].orders[i]
    BY InLevels
  <2>2. PICK m \in 1 .. Len(L) : m = k + 1 /\ M[k] = L[m] /\ m # 1
    BY <1>1
  <2>3. PICK i \in 1 .. Len(L[m].orders) : x = L[m].orders[i]
    BY <2>1, <2>2
  <2>4. x \in RestingIn(L)
    BY <2>3, InLevels
  <2>5. 1 \in 1 .. Len(L[1].orders)
    OBVIOUS
  <2>6. L[m].orders[i].id # L[1].orders[1].id
    BY <1>1, <2>2, <2>5, OnePlace
  <2> QED
    BY <2>3, <2>4, <2>6
<1>5. ASSUME NEW x \in RestingIn(L), x.id # o.id PROVE x \in RestingIn(M)
  <2>1. PICK k \in 1 .. Len(L) : \E i \in 1 .. Len(L[k].orders) : x = L[k].orders[i]
    BY InLevels
  <2>2. PICK i \in 1 .. Len(L[k].orders) : x = L[k].orders[i]
    BY <2>1
  <2>3. k # 1
    <3>1. ASSUME k = 1 PROVE i = 1
      <4>1. Len(L[k].orders) = 1
        BY <3>1
      <4> QED
        BY <4>1
    <3> QED
      BY <1>5, <2>2, <3>1
  <2>4. PICK m \in 1 .. Len(M) : k = m + 1 /\ M[m] = L[k]
    <3>1. k - 1 \in 1 .. Len(M) /\ k = k - 1 + 1
      BY <1>1, <2>3
    <3> QED
      BY <1>1, <3>1
  <2> QED
    BY <2>2, <2>4, InLevels
<1> QED
  BY <1>2, <1>3, <1>4, <1>5, Zenon DEF Leaves

\* The first level has what is left of its queue, from a place further on when the first
\* order is gone.
LEMMA LevelReplaced ==
  ASSUME NEW L \in Seq(PriceLevel), NEW side \in Sides, WellFormed(L, side), pool_idx \in Nat,
         L # <<>>, NEW queue, queue = L[1].orders, NEW o, o = queue[1],
         NEW fill \in 1 .. o.qty, NEW rest, rest = Unfilled(queue, fill), rest # <<>>,
         NEW M \in Seq(PriceLevel), Replaced(L, M, rest)
  PROVE  Leaves(L, M, side, o, fill)
<1>1. /\ 1 \in 1 .. Len(L) /\ 1 \in 1 .. Len(queue) /\ o \in Order /\ o.qty \in Nat \ {0}
      /\ queue \in Seq(Order) /\ queue # <<>>
  <2>1. 1 \in 1 .. Len(L)
    BY InLevels
  <2>2. /\ 1 \in 1 .. Len(L[1].orders) /\ o \in Order /\ o.qty \in Nat \ {0}
    BY HeadFirst
  <2> QED
    BY <2>1, <2>2, InLevels
<1>2. /\ Len(M) = Len(L) /\ M[1].price = L[1].price /\ M[1].orders = rest
      /\ \A k \in 1 .. Len(L) : k # 1 => M[k] = L[k]
  BY DEF Replaced
<1>3. PICK shift \in {0, 1} : shift = IF fill = o.qty THEN 1 ELSE 0
  OBVIOUS
<1>4. /\ rest \in Seq(Order) /\ Len(rest) = Len(queue) - shift
      /\ \A i \in 1 .. Len(rest) : /\ i + shift \in 1 .. Len(queue)
                                   /\ i + shift # 1 => rest[i] = queue[i + shift]
                                   /\ i + shift = 1 => rest[i] = Cut(o, fill)
                                   /\ rest[i].id = queue[i + shift].id
  <2>1. /\ rest \in Seq(Order)
        /\ fill = o.qty => /\ Len(rest) = Len(queue) - 1
                           /\ \A i \in 1 .. Len(rest) : rest[i] = queue[i + 1]
        /\ fill # o.qty => /\ Len(rest) = Len(queue) /\ rest[1] = Cut(o, fill)
                           /\ \A i \in 2 .. Len(rest) : rest[i] = queue[i]
    <3>1. fill \in 1 .. queue[1].qty
      OBVIOUS
    <3>2. TakenOff(queue, fill, rest)
      BY <1>1, <3>1, QueueTaken
    <3> QED
      BY <3>2, SMTT(30) DEF TakenOff
  <2>2. Cut(o, fill).id = o.id
    BY DEF Cut
  <2>3. CASE fill = o.qty
    BY <1>1, <1>3, <2>1, <2>3
  <2>4. CASE fill # o.qty
    <3>1. shift = 0 /\ Len(rest) = Len(queue)
      BY <1>3, <2>1, <2>4
    <3>2. ASSUME NEW i \in 1 .. Len(rest)
          PROVE  /\ i + shift \in 1 .. Len(queue)
                 /\ i + shift # 1 => rest[i] = queue[i + shift]
                 /\ i + shift = 1 => rest[i] = Cut(o, fill)
                 /\ rest[i].id = queue[i + shift].id
      <4>1. i + shift = i /\ i \in 1 .. Len(queue)
        BY <3>1
      <4>2. CASE i = 1
        BY <2>1, <2>2, <2>4, <4>1, <4>2
      <4>3. CASE i # 1
        BY <2>1, <2>4, <4>1, <4>3
      <4> QED
        BY <4>2, <4>3
    <3> QED
      BY <2>1, <3>1, <3>2
  <2> QED
    BY <2>3, <2>4
<1>5. ASSUME NEW i \in 1 .. Len(rest)
      PROVE  /\ rest[i].id \in 1 .. pool_idx /\ rest[i].qty > 0
             /\ resting[rest[i].id].price = M[1].price /\ resting[rest[i].id].side = side
             /\ \A j \in 1 .. i - 1 : rest[j].id < rest[i].id
  <2>1. PICK n \in 1 .. Len(queue) : n = i + shift
    BY <1>4
  <2>2. PICK x : x = queue[n]
    OBVIOUS
  <2>3. /\ x.id \in 1 .. pool_idx /\ x.qty > 0 /\ resting[x.id].price = L[1].price
        /\ resting[x.id].side = side /\ \A j \in 1 .. n - 1 : queue[j].id < x.id
    <3>1. At(L, 1, n, x)
      BY <1>1, <2>2 DEF At
    <3>2. /\ x.id \in 1 .. pool_idx /\ x.qty > 0 /\ resting[x.id].price = L[1].price
          /\ resting[x.id].side = side /\ \A j \in 1 .. n - 1 : L[1].orders[j].id < x.id
      BY <3>1, AtItsPlace
    <3> QED
      BY <3>2
  <2>4. rest[i].id = x.id
    BY <1>4, <2>1, <2>2
  <2>5. rest[i].qty > 0
    <3>1. CASE n = 1
      <4>1. rest[i] = Cut(o, fill) /\ fill # o.qty
        BY <1>3, <1>4, <2>1, <3>1
      <4> QED
        BY <1>1, <4>1 DEF Cut
    <3>2. CASE n # 1
      BY <1>4, <2>1, <2>2, <2>3, <3>2
    <3> QED
      BY <3>1, <3>2
  <2>6. ASSUME NEW j \in 1 .. i - 1 PROVE rest[j].id < rest[i].id
    <3>1. j \in 1 .. Len(rest) /\ j + shift \in 1 .. n - 1
      BY <1>4, <2>1
    <3>2. rest[j].id = queue[j + shift].id
      BY <1>4, <3>1
    <3> QED
      BY <2>3, <2>4, <3>1, <3>2
  <2> QED
    BY <1>2, <2>3, <2>4, <2>5, <2>6
<1>6. \A k \in 1 .. Len(L) : M[k].price = L[k].price
  BY <1>2
<1>7. WellFormed(M, side)
  <2>1. ASSUME NEW j \in DOMAIN M, NEW k \in DOMAIN M, M[j].price = M[k].price PROVE j = k
    <3>1. j \in 1 .. Len(L) /\ k \in 1 .. Len(L) /\ j \in DOMAIN L /\ k \in DOMAIN L
      BY <1>2, InLevels
    <3>2. L[j].price = L[k].price
      BY <1>6, <2>1, <3>1
    <3> QED
      BY <3>1, <3>2 DEF WellFormed
  <2>2. ASSUME NEW k \in DOMAIN M PROVE LevelFormed(M[k], side)
    <3>1. CASE k = 1
      <4>1. DOMAIN rest = 1 .. Len(rest)
        BY <1>4
      <4> QED
        BY <1>2, <1>5, <3>1, <4>1, Zenon DEF LevelFormed
    <3>2. CASE k # 1
      <4>1. k \in 1 .. Len(L) /\ k \in DOMAIN L
        BY <1>2, InLevels
      <4>2. M[k] = L[k]
        BY <1>2, <3>2, <4>1
      <4> QED
        BY <4>1, <4>2, Zenon DEF WellFormed
    <3> QED
      BY <3>1, <3>2
  <2> QED
    BY <2>1, <2>2, Zenon DEF WellFormed
<1>8. ASSUME SortedBest(L, side) PROVE SortedBest(M, side)
  <2> SUFFICES ASSUME NEW j \in DOMAIN M, NEW k \in DOMAIN M, j < k
               PROVE  side * M[j].price >= side * M[k].price
    BY DEF SortedBest
  <2>1. j \in 1 .. Len(L) /\ k \in 1 .. Len(L) /\ j \in DOMAIN L /\ k \in DOMAIN L
    BY <1>2, InLevels
  <2>2. side * L[j].price >= side * L[k].price
    BY <1>8, <2>1, Zenon DEF SortedBest
  <2> QED
    BY <1>6, <2>1, <2>2
<1>9. ASSUME NEW x \in RestingIn(M)
      PROVE  \/ x \in RestingIn(L) /\ x.id # o.id
             \/ fill # o.qty /\ x = Cut(o, fill)
  <2>1. PICK k \in 1 .. Len(M) : \E i \in 1 .. Len(M[k].orders) : x = M[k].orders[i]
    BY InLevels
  <2>2. PICK i \in 1 .. Len(M[k].orders) : x = M[k].orders[i]
    BY <2>1
  <2>3. k \in 1 .. Len(L)
    BY <1>2
  <2>4. ASSUME NEW n \in 1 .. Len(L[k].orders), x = L[k].orders[n], k # 1 \/ n # 1
        PROVE  x \in RestingIn(L) /\ x.id # o.id
    <3>1. x \in RestingIn(L)
      BY <2>3, <2>4, InLevels
    <3>2. 1 \in 1 .. Len(L[1].orders)
      BY <1>1
    <3>3. L[k].orders[n].id # L[1].orders[1].id
      BY <1>1, <2>3, <2>4, <3>2, OnePlace
    <3> QED
      BY <2>4, <3>1, <3>3
  <2>5. CASE k # 1
    <3>1. M[k] = L[k]
      BY <1>2, <2>3, <2>5
    <3>2. i \in 1 .. Len(L[k].orders) /\ x = L[k].orders[i]
      BY <2>2, <3>1
    <3> QED
      BY <2>4, <2>5, <3>2
  <2>6. CASE k = 1
    <3>1. i \in 1 .. Len(rest) /\ x = rest[i]
      BY <1>2, <2>2, <2>6
    <3>2. CASE i + shift = 1
      BY <1>3, <1>4, <3>1, <3>2
    <3>3. CASE i + shift # 1
      <4>1. PICK n \in 1 .. Len(queue) : n = i + shift
        BY <1>4, <3>1
      <4>2. n \in 1 .. Len(L[k].orders) /\ x = L[k].orders[n] /\ n # 1
        BY <1>4, <2>6, <3>1, <3>3, <4>1
      <4> QED
        BY <2>4, <4>2
    <3> QED
      BY <3>2, <3>3
  <2> QED
    BY <2>5, <2>6
<1>10. ASSUME fill # o.qty PROVE Cut(o, fill) \in RestingIn(M)
  <2>1. 1 \in 1 .. Len(rest) /\ rest[1] = Cut(o, fill)
    BY <1>1, <1>3, <1>4, <1>10
  <2>2. 1 \in 1 .. Len(M) /\ M[1].orders[1] = Cut(o, fill) /\ 1 \in 1 .. Len(M[1].orders)
    BY <1>1, <1>2, <2>1
  <2> QED
    BY <2>2, InLevels
<1>11. ASSUME NEW x \in RestingIn(L), x.id # o.id PROVE x \in RestingIn(M)
  <2>1. PICK k \in 1 .. Len(L) : \E i \in 1 .. Len(L[k].orders) : x = L[k].orders[i]
    BY InLevels
  <2>2. PICK i \in 1 .. Len(L[k].orders) : x = L[k].orders[i]
    BY <2>1
  <2>3. k \in 1 .. Len(M)
    BY <1>2
  <2>4. CASE k # 1
    <3>1. M[k] = L[k]
      BY <1>2, <2>4
    <3> QED
      BY <2>2, <2>3, <3>1, InLevels
  <2>5. CASE k = 1
    <3>1. i # 1
      BY <1>11, <2>2, <2>5
    <3>2. i \in 1 .. Len(queue) /\ x = queue[i]
      BY <2>2, <2>5
    <3>3. PICK j \in 1 .. Len(rest) : j + shift = i
      <4>1. i - shift \in 1 .. Len(rest) /\ i - shift + shift = i
        BY <1>1, <1>3, <1>4, <3>1, <3>2
      <4> QED
        BY <4>1
    <3>4. x = M[k].orders[j] /\ j \in 1 .. Len(M[k].orders)
      BY <1>2, <1>4, <2>5, <3>1, <3>2, <3>3
    <3> QED
      BY <2>3, <3>4, InLevels
  <2> QED
    BY <2>4, <2>5
<1> QED
  BY <1>7, <1>8, <1>9, <1>10, <1>11, Zenon DEF Leaves

-----------------------------------------------------------------------------
(* MatchingEngine: one turn of the loops                                   *)

\* The engine between two calls, one of which is about to match.
Ready == /\ MatchingTypeOK /\ pool_idx = Len(resting)
         /\ Len(incoming) < MaxAggressive

LoopTypes(s) == /\ s.levels \in Seq(PriceLevel) /\ s.remaining \in Nat
                /\ s.trades \in Seq(TradeEvent)

\* The turn from s to u fills `fill' of order o.
Takes(s, u, side, o, fill, t) ==
    /\ o \in RestingIn(s.levels) /\ o \in Order /\ o.id \in 1 .. pool_idx
    /\ o = s.levels[1].orders[1]
    /\ fill \in 1 .. o.qty /\ fill <= s.remaining /\ (fill = o.qty \/ fill = s.remaining)
    /\ t \in TradeEvent /\ t.aggressor = Len(incoming) + 1 /\ t.passive = o.id
    /\ t.price = resting[o.id].price /\ t.qty = fill
    /\ resting[o.id].side = side /\ resting[o.id].price = s.levels[1].price
    /\ LoopTypes(u) /\ u.remaining = s.remaining - fill /\ u.trades = Append(s.trades, t)
    /\ Leaves(s.levels, u.levels, side, o, fill)

LEMMA TurnTakes ==
  ASSUME Ready, NEW side \in Sides, NEW s, LoopTypes(s), WellFormed(s.levels, side),
         s.remaining > 0, s.levels # <<>>, NEW u, u = Turn(s)
  PROVE  \E o, fill, t : Takes(s, u, side, o, fill, t)
<1>1. PICK L \in Seq(PriceLevel) : L = s.levels /\ L # <<>> /\ WellFormed(L, side)
  BY DEF LoopTypes
<1>2. /\ pool_idx \in Nat /\ pool_idx <= MatchCapacity /\ resting \in Seq(Sent)
      /\ pool_idx = Len(resting) /\ Len(incoming) + 1 \in 1 .. MaxAggressive
  BY MatchingAssumption DEF Ready, MatchingTypeOK
<1>3. PICK o : o = L[1].orders[1]
  OBVIOUS
<1>4. /\ 1 \in 1 .. Len(L) /\ 1 \in 1 .. Len(L[1].orders)
      /\ o \in RestingIn(L) /\ o \in Order /\ o.id \in 1 .. pool_idx /\ o.qty \in Nat \ {0}
      /\ resting[o.id].price = L[1].price /\ resting[o.id].side = side
  BY <1>1, <1>2, <1>3, HeadFirst
<1>5. PICK fill \in 1 .. o.qty : /\ fill = Fill(o, s.remaining) /\ fill <= s.remaining
                                 /\ fill = o.qty \/ fill = s.remaining
  <2>1. s.remaining \in Nat /\ s.remaining > 0
    BY DEF LoopTypes
  <2> QED
    BY <1>4, <2>1 DEF Fill
<1>6. PICK queue \in Seq(Order) : queue = L[1].orders /\ queue # <<>> /\ o = queue[1]
  BY <1>1, <1>3, <1>4, InLevels
<1>7. PICK rest : rest = Unfilled(queue, fill)
  OBVIOUS
<1>8. TakenOff(queue, fill, rest)
  BY <1>5, <1>6, <1>7, QueueTaken
<1>9. PICK t : t = [aggressor |-> Len(incoming) + 1, passive |-> o.id,
                    price |-> resting[o.id].price, qty |-> fill]
  OBVIOUS
<1>10. t \in TradeEvent
  <2>1. resting[o.id] \in Sent
    BY <1>2, <1>4
  <2>2. resting[o.id].price \in LimitPrices
    BY <2>1 DEF Sent
  <2>3. PICK a \in 1 .. MaxAggressive : a = Len(incoming) + 1
    BY <1>2
  <2>4. PICK id \in 1 .. MatchCapacity : id = o.id
    BY <1>4 DEF Order
  <2>5. PICK price \in LimitPrices : price = resting[o.id].price
    BY <2>2
  <2>6. fill \in Nat
    BY <1>4, <1>5
  <2>7. t = [aggressor |-> a, passive |-> id, price |-> price, qty |-> fill]
    BY <1>9, <2>3, <2>4, <2>5, Zenon
  <2> QED
    BY <2>6, <2>7 DEF TradeEvent
<1>11. /\ u.levels = IF rest = <<>> THEN Tail(L) ELSE [L EXCEPT ![1].orders = rest]
       /\ u.remaining = s.remaining - fill /\ u.trades = Append(s.trades, t)
  BY <1>1, <1>3, <1>5, <1>6, <1>7, <1>9, Zenon DEF Turn
<1>12. PICK M : M = u.levels
  OBVIOUS
<1>13. rest \in Seq(Order)
  BY <1>8 DEF TakenOff
<1>14. /\ M \in Seq(PriceLevel)
       /\ rest = <<>> => Dropped(L, M)
       /\ rest # <<>> => Replaced(L, M, rest)
  BY <1>1, <1>11, <1>12, <1>13, LevelsLeft
<1>15. Leaves(L, M, side, o, fill)
  <2>1. CASE rest = <<>>
    <3>1. fill = o.qty /\ Len(queue) = 1
      BY <1>6, <1>8, <2>1 DEF TakenOff
    <3>2. Dropped(L, M) /\ Len(L[1].orders) = 1
      BY <1>6, <1>14, <2>1, <3>1
    <3> QED
      BY <1>1, <1>2, <1>3, <1>14, <3>1, <3>2, LevelDropped
  <2>2. CASE rest # <<>>
    BY <1>1, <1>2, <1>5, <1>6, <1>7, <1>14, <2>2, LevelReplaced
  <2> QED
    BY <2>1, <2>2
<1>16. LoopTypes(u)
  <2>1. s.trades \in Seq(TradeEvent) /\ s.remaining \in Nat
    BY DEF LoopTypes
  <2>2. u.trades \in Seq(TradeEvent)
    BY <1>10, <1>11, <2>1, AppendProperties, SMTT(30)
  <2> QED
    BY <1>5, <1>11, <1>12, <1>14, <2>1, <2>2 DEF LoopTypes
<1>17. Takes(s, u, side, o, fill, t)
  BY <1>1, <1>3, <1>4, <1>5, <1>9, <1>10, <1>11, <1>12, <1>15, <1>16, SMTT(30) DEF Takes
<1> QED
  BY <1>17

\* What stays true from turn to turn, apart from the order of prices: quantities are
\* conserved, and what traded was the oldest at its price.
Within(levels, id) == \E o \in RestingIn(levels) : o.id = id
Conserves(s, side, q) ==
    /\ \A o \in RestingIn(s.levels) : resting[o.id].qty = o.qty + TradedFrom(s.trades, o.id)
    /\ \A id \in 1 .. pool_idx : resting[id].side = side /\ ~Within(s.levels, id)
                                    => resting[id].qty = TradedFrom(s.trades, id)
    /\ \A id \in 1 .. pool_idx : resting[id].side # side
                                    => TradedFrom(s.trades, id) = TradedFrom(trades, id)
    /\ \A a \in 1 .. Len(incoming) : TradedTo(s.trades, a) = TradedTo(trades, a)
    /\ TradedTo(s.trades, Len(incoming) + 1) + s.remaining = q
Named(ts, senders) ==
    \A n \in 1 .. Len(ts) : ts[n].passive \in 1 .. pool_idx /\ ts[n].aggressor \in 1 .. senders
TakesOldest(s, side) ==
    \A n \in Len(trades) + 1 .. Len(s.trades) :
        /\ resting[s.trades[n].passive].side = side
        /\ resting[s.trades[n].passive].price = s.trades[n].price
        /\ \A x \in RestingIn(s.levels) :
              resting[x.id].price = s.trades[n].price => s.trades[n].passive <= x.id
LoopInv(s, side, q) == /\ LoopTypes(s) /\ WellFormed(s.levels, side)
                       /\ Conserves(s, side, q)
                       /\ Named(s.trades, Len(incoming) + 1)
                       /\ TakesOldest(s, side)

LEMMA TurnConserves ==
  ASSUME Ready, NEW side \in Sides, NEW q \in Nat, NEW s, LoopTypes(s), Conserves(s, side, q),
         WellFormed(s.levels, side), NEW u, NEW o, NEW fill, NEW t, Takes(s, u, side, o, fill, t)
  PROVE  Conserves(u, side, q)
<1>1. /\ o \in RestingIn(s.levels) /\ o \in Order /\ o.id \in 1 .. pool_idx /\ fill \in 1 .. o.qty
      /\ t.passive = o.id /\ t.qty = fill /\ t.aggressor = Len(incoming) + 1 /\ t \in TradeEvent
      /\ u.remaining = s.remaining - fill /\ u.trades = Append(s.trades, t)
      /\ resting[o.id].side = side
  BY Zenon DEF Takes
<1>2. /\ \A x \in RestingIn(u.levels) : \/ x \in RestingIn(s.levels) /\ x.id # o.id
                                        \/ fill # o.qty /\ x = Cut(o, fill)
      /\ fill # o.qty => Cut(o, fill) \in RestingIn(u.levels)
      /\ \A x \in RestingIn(s.levels) : x.id # o.id => x \in RestingIn(u.levels)
  BY DEF Takes, Leaves
<1>3. Cut(o, fill).id = o.id /\ Cut(o, fill).qty = o.qty - fill /\ o.qty \in Nat
  BY <1>1 DEF Cut, Order
<1>4. \A x : /\ TradedFrom(s.trades, x) \in Nat /\ TradedTo(s.trades, x) \in Nat
             /\ TradedFrom(u.trades, x) = TradedFrom(s.trades, x) + (IF o.id = x THEN fill ELSE 0)
             /\ TradedTo(u.trades, x)
                  = TradedTo(s.trades, x) + (IF Len(incoming) + 1 = x THEN fill ELSE 0)
  <2> TAKE x
  <2>1. s.trades \in Seq(TradeEvent)
    BY DEF LoopTypes
  <2>2. /\ TradedFrom(s.trades, x) \in Nat /\ TradedTo(s.trades, x) \in Nat
        /\ TradedFrom(Append(s.trades, t), x)
              = TradedFrom(s.trades, x) + (IF t.passive = x THEN t.qty ELSE 0)
        /\ TradedTo(Append(s.trades, t), x)
              = TradedTo(s.trades, x) + (IF t.aggressor = x THEN t.qty ELSE 0)
    BY <1>1, <2>1, TradeAdds
  <2> QED
    BY <1>1, <2>2
<1>5. ASSUME NEW x \in RestingIn(u.levels)
      PROVE  resting[x.id].qty = x.qty + TradedFrom(u.trades, x.id)
  <2>1. CASE x \in RestingIn(s.levels) /\ x.id # o.id
    BY <1>4, <2>1 DEF Conserves
  <2>2. CASE fill # o.qty /\ x = Cut(o, fill)
    <3>1. resting[o.id].qty = o.qty + TradedFrom(s.trades, o.id)
      BY <1>1 DEF Conserves
    <3>2. TradedFrom(u.trades, o.id) = TradedFrom(s.trades, o.id) + fill
      BY <1>4
    <3> QED
      BY <1>1, <1>3, <1>4, <2>2, <3>1, <3>2
  <2> QED
    BY <1>2, <2>1, <2>2
<1>6. ASSUME NEW id \in 1 .. pool_idx, resting[id].side = side, ~Within(u.levels, id)
      PROVE  resting[id].qty = TradedFrom(u.trades, id)
  <2>1. CASE id = o.id
    <3>1. fill = o.qty
      BY <1>2, <1>3, <1>6, <2>1 DEF Within
    <3>2. resting[o.id].qty = o.qty + TradedFrom(s.trades, o.id)
      BY <1>1 DEF Conserves
    <3> QED
      BY <1>3, <1>4, <2>1, <3>1, <3>2
  <2>2. CASE id # o.id
    <3>1. ~Within(s.levels, id)
      BY <1>2, <1>6, <2>2 DEF Within
    <3> QED
      BY <1>4, <1>6, <2>2, <3>1 DEF Conserves
  <2> QED
    BY <2>1, <2>2
<1>7. ASSUME NEW id \in 1 .. pool_idx, resting[id].side # side
      PROVE  TradedFrom(u.trades, id) = TradedFrom(trades, id)
  <2>1. o.id # id
    BY <1>1, <1>7
  <2>2. TradedFrom(s.trades, id) = TradedFrom(trades, id)
    BY <1>7 DEF Conserves
  <2> QED
    BY <1>4, <2>1, <2>2
<1>8. ASSUME NEW a \in 1 .. Len(incoming) PROVE TradedTo(u.trades, a) = TradedTo(trades, a)
  <2>1. Len(incoming) + 1 # a
    BY DEF Ready, MatchingTypeOK
  <2> QED
    BY <1>4, <2>1 DEF Conserves
<1>9. TradedTo(u.trades, Len(incoming) + 1) + u.remaining = q
  <2>1. TradedTo(s.trades, Len(incoming) + 1) + s.remaining = q
    BY DEF Conserves
  <2>2. TradedTo(u.trades, Len(incoming) + 1) = TradedTo(s.trades, Len(incoming) + 1) + fill
    BY <1>4
  <2>3. s.remaining \in Nat
    BY DEF LoopTypes
  <2> QED
    BY <1>1, <1>3, <1>4, <2>1, <2>2, <2>3
<1> QED
  BY <1>5, <1>6, <1>7, <1>8, <1>9 DEF Conserves

LEMMA TurnKeeps ==
  ASSUME Ready, NEW side \in Sides, NEW q \in Nat, NEW s, LoopInv(s, side, q),
         NEW u, NEW o, NEW fill, NEW t, Takes(s, u, side, o, fill, t)
  PROVE  LoopInv(u, side, q)
<1>1. /\ LoopTypes(s) /\ WellFormed(s.levels, side) /\ Conserves(s, side, q)
      /\ Named(s.trades, Len(incoming) + 1) /\ TakesOldest(s, side)
  BY DEF LoopInv
<1>2. Conserves(u, side, q)
  BY <1>1, TurnConserves
<1>3. /\ o \in RestingIn(s.levels) /\ o \in Order /\ o.id \in 1 .. pool_idx
      /\ o = s.levels[1].orders[1] /\ t.price = s.levels[1].price
      /\ t.passive = o.id /\ t.aggressor = Len(incoming) + 1 /\ t \in TradeEvent
      /\ t.price = resting[o.id].price /\ resting[o.id].side = side
      /\ u.trades = Append(s.trades, t) /\ s.levels # <<>>
  <2>1. s.levels # <<>>
    <3>1. o \in RestingIn(s.levels) /\ s.levels \in Seq(PriceLevel)
      BY <1>1 DEF Takes, LoopTypes
    <3>2. PICK k \in 1 .. Len(s.levels) : \E i \in 1 .. Len(s.levels[k].orders) : TRUE
      BY <3>1, InLevels
    <3> QED
      BY <3>2
  <2> QED
    BY <2>1 DEF Takes
<1>4. LoopTypes(u) /\ Leaves(s.levels, u.levels, side, o, fill)
  BY DEF Takes
<1>5. WellFormed(u.levels, side)
  BY <1>4 DEF Leaves
<1>6. PICK N \in Nat : N = Len(s.trades)
  BY <1>1, SMTT(30) DEF LoopTypes
<1>7. /\ Len(u.trades) = N + 1 /\ u.trades[N + 1] = t
      /\ \A n \in 1 .. N : u.trades[n] = s.trades[n]
  BY <1>1, <1>3, <1>6, AppendProperties DEF LoopTypes
<1>8. Len(incoming) + 1 \in Nat \ {0} /\ pool_idx \in Nat /\ Len(trades) \in Nat
  BY DEF Ready, MatchingTypeOK
<1>9. Named(u.trades, Len(incoming) + 1)
  <2> SUFFICES ASSUME NEW n \in 1 .. N + 1
               PROVE  /\ u.trades[n].passive \in 1 .. pool_idx
                      /\ u.trades[n].aggressor \in 1 .. Len(incoming) + 1
    BY <1>7 DEF Named
  <2>1. CASE n \in 1 .. N
    BY <1>1, <1>6, <1>7, <2>1 DEF Named
  <2>2. CASE n = N + 1
    <3>1. u.trades[n].passive = o.id /\ u.trades[n].aggressor = Len(incoming) + 1
      BY <1>3, <1>7, <2>2
    <3> QED
      BY <1>3, <1>8, <3>1
  <2> QED
    BY <2>1, <2>2
<1>10. ASSUME NEW x \in RestingIn(u.levels)
       PROVE  \E y \in RestingIn(s.levels) : y.id = x.id
  <2>1. CASE x \in RestingIn(s.levels)
    BY <2>1, ZenonT(30)
  <2>2. CASE x = Cut(o, fill)
    <3>1. x.id = o.id
      BY <2>2 DEF Cut
    <3> QED
      BY <1>3, <3>1
  <2> QED
    BY <1>4, <2>1, <2>2 DEF Leaves
<1>11. ASSUME NEW x \in RestingIn(u.levels), resting[x.id].price = t.price PROVE o.id <= x.id
  <2>1. PICK y \in RestingIn(s.levels) : y.id = x.id
    BY <1>10, <1>11, ZenonT(30)
  <2>2. \A z \in RestingIn(s.levels) :
            resting[z.id].price = s.levels[1].price => o.id <= z.id
    BY <1>1, <1>3, <1>8, HeadFirst DEF LoopTypes
  <2>3. resting[y.id].price = s.levels[1].price
    BY <1>3, <1>11, <2>1
  <2> QED
    BY <2>1, <2>2, <2>3
<1>12. TakesOldest(u, side)
  <2> SUFFICES ASSUME NEW n \in Len(trades) + 1 .. N + 1
               PROVE  /\ resting[u.trades[n].passive].side = side
                      /\ resting[u.trades[n].passive].price = u.trades[n].price
                      /\ \A x \in RestingIn(u.levels) :
                            resting[x.id].price = u.trades[n].price
                               => u.trades[n].passive <= x.id
    BY <1>7, Zenon DEF TakesOldest
  <2>1. CASE n = N + 1
    BY <1>3, <1>7, <1>11, <2>1, Zenon
  <2>2. CASE n # N + 1
    <3>1. n \in Len(trades) + 1 .. Len(s.trades) /\ u.trades[n] = s.trades[n]
      BY <1>6, <1>7, <1>8, <2>2, SMTT(30)
    <3>2. PICK e : e = s.trades[n]
      OBVIOUS
    <3>3. /\ resting[e.passive].side = side /\ resting[e.passive].price = e.price
          /\ \A x \in RestingIn(s.levels) : resting[x.id].price = e.price => e.passive <= x.id
      BY <1>1, <3>1, <3>2 DEF TakesOldest
    <3>4. ASSUME NEW x \in RestingIn(u.levels), resting[x.id].price = e.price
          PROVE  e.passive <= x.id
      <4>1. PICK y \in RestingIn(s.levels) : y.id = x.id
        BY <1>10
      <4> QED
        BY <3>3, <3>4, <4>1
    <3> QED
      BY <3>1, <3>2, <3>3, <3>4
  <2> QED
    BY <2>1, <2>2
<1> QED
  BY <1>2, <1>4, <1>5, <1>9, <1>12 DEF LoopInv

\* While the levels are sorted, what traded had a price no resting order beats.
TakesBest(s, side) ==
    /\ SortedBest(s.levels, side)
    /\ \A n \in Len(trades) + 1 .. Len(s.trades) : \A x \in RestingIn(s.levels) :
          side * resting[x.id].price <= side * s.trades[n].price

LEMMA TurnTakesBest ==
  ASSUME Ready, NEW side \in Sides, NEW q \in Nat, NEW s, LoopInv(s, side, q), TakesBest(s, side),
         s.levels # <<>>, NEW u, NEW o, NEW fill, NEW t, Takes(s, u, side, o, fill, t)
  PROVE  TakesBest(u, side)
<1>1. /\ LoopTypes(s) /\ WellFormed(s.levels, side)
      /\ pool_idx \in Nat /\ Len(trades) \in Nat
  BY DEF LoopInv, Ready, MatchingTypeOK
<1>2. /\ o \in RestingIn(s.levels) /\ o = s.levels[1].orders[1]
      /\ t.price = s.levels[1].price /\ t \in TradeEvent
      /\ u.trades = Append(s.trades, t)
  BY DEF Takes
<1>3. Leaves(s.levels, u.levels, side, o, fill)
  BY DEF Takes
<1>4. SortedBest(u.levels, side)
  BY <1>3 DEF Leaves, TakesBest
<1>5. PICK N \in Nat : N = Len(s.trades)
  BY <1>1 DEF LoopTypes
<1>6. /\ Len(u.trades) = N + 1 /\ u.trades[N + 1] = t
      /\ \A n \in 1 .. N : u.trades[n] = s.trades[n]
  BY <1>1, <1>2, <1>5, AppendProperties DEF LoopTypes
<1>7. ASSUME NEW x \in RestingIn(u.levels)
      PROVE  \E y \in RestingIn(s.levels) : y.id = x.id
  <2>1. CASE x \in RestingIn(s.levels)
    BY <2>1
  <2>2. CASE x = Cut(o, fill)
    <3>1. x.id = o.id
      BY <2>2 DEF Cut
    <3> QED
      BY <1>2, <3>1
  <2> QED
    BY <1>3, <2>1, <2>2 DEF Leaves
<1>8. ASSUME NEW n \in Len(trades) + 1 .. N + 1, NEW x \in RestingIn(u.levels)
      PROVE  side * resting[x.id].price <= side * u.trades[n].price
  <2>1. PICK y \in RestingIn(s.levels) : y.id = x.id
    BY <1>7
  <2>2. CASE n = N + 1
    <3>1. side * resting[y.id].price <= side * s.levels[1].price
      BY <1>1, <1>2, HeadFirst DEF LoopTypes, TakesBest
    <3> QED
      BY <1>2, <1>6, <2>1, <2>2, <3>1
  <2>3. CASE n # N + 1
    <3>1. n \in Len(trades) + 1 .. Len(s.trades) /\ u.trades[n] = s.trades[n]
      BY <1>1, <1>5, <1>6, <2>3
    <3>2. side * resting[y.id].price <= side * s.trades[n].price
      BY <3>1 DEF TakesBest
    <3> QED
      BY <2>1, <3>1, <3>2
  <2> QED
    BY <2>2, <2>3
<1> QED
  BY <1>4, <1>6, <1>8 DEF TakesBest

\* The loops end: a turn after which something remains has taken an order off the levels.
Ids(levels) == {o.id : o \in RestingIn(levels)}

LEMMA TurnShrinks ==
  ASSUME Ready, NEW side \in Sides, NEW s, LoopTypes(s), WellFormed(s.levels, side),
         NEW u, NEW o, NEW fill, NEW t, Takes(s, u, side, o, fill, t), u.remaining > 0
  PROVE  o.id \in Ids(s.levels) /\ Ids(u.levels) = Ids(s.levels) \ {o.id}
<1>1. /\ fill = o.qty \/ fill = s.remaining
      /\ u.remaining = s.remaining - fill /\ s.remaining \in Nat
  BY DEF Takes, LoopTypes
<1>2. fill = o.qty
  BY <1>1, SMTT(30)
<1>3. /\ \A x \in RestingIn(u.levels) : x \in RestingIn(s.levels) /\ x.id # o.id
      /\ \A x \in RestingIn(s.levels) : x.id # o.id => x \in RestingIn(u.levels)
  BY <1>2 DEF Takes, Leaves
<1>4. o \in RestingIn(s.levels)
  BY DEF Takes
<1> QED
  BY <1>3, <1>4 DEF Ids

-----------------------------------------------------------------------------
(* MatchingEngine: the loops whole                                         *)

\* The states that the loops go through, by the number of turns.
Turned(s, p, side) == IF Goes(s, p, side) THEN Turn(s) ELSE s
TurnsOf(v, start, p, side, N) ==
    v = [n \in 0 .. N |-> IF n = 0 THEN start ELSE Turned(v[n - 1], p, side)]

LEMMA TurnsExist ==
  ASSUME NEW N \in Nat, NEW start, NEW p, NEW side
  PROVE  \E v : TurnsOf(v, start, p, side, N)
<1> DEFINE T == {n \in Nat : \E v : TurnsOf(v, start, p, side, n)}
<1>1. 0 \in T
  <2>1. TurnsOf([n \in 0 .. 0 |-> start], start, p, side, 0)
    BY DEF TurnsOf
  <2> QED
    BY <2>1
<1>2. ASSUME NEW k \in Nat, k \in T PROVE k + 1 \in T
  <2>1. PICK v : TurnsOf(v, start, p, side, k)
    BY <1>2
  <2>2. PICK end : end = Turned(v[k], p, side)
    OBVIOUS
  <2> DEFINE w == [n \in 0 .. k + 1 |-> IF n = k + 1 THEN end ELSE v[n]]
  <2>3. \A n \in 0 .. k + 1 : w[n] = IF n = 0 THEN start ELSE Turned(w[n - 1], p, side)
    <3> TAKE n \in 0 .. k + 1
    <3>1. CASE n = k + 1
      <4>1. k \in 0 .. k + 1 /\ k # k + 1 /\ n - 1 = k /\ n # 0
        BY <3>1
      <4>2. w[n] = end /\ w[n - 1] = v[k]
        BY <3>1, <4>1
      <4> QED
        BY <2>2, <4>1, <4>2, Zenon
    <3>2. CASE n \in 0 .. k
      <4>1. v[n] = IF n = 0 THEN start ELSE Turned(v[n - 1], p, side)
        BY <2>1, <3>2 DEF TurnsOf
      <4>2. n # 0 => n - 1 \in 0 .. k + 1 /\ n - 1 # k + 1
        BY <3>2
      <4>3. w[n] = v[n] /\ (n # 0 => w[n - 1] = v[n - 1])
        BY <3>2, <4>2
      <4> QED
        BY <4>1, <4>3
    <3> QED
      BY <3>1, <3>2
  <2>4. w = [n \in 0 .. k + 1 |-> w[n]]
    OBVIOUS
  <2> HIDE DEF w
  <2>5. TurnsOf(w, start, p, side, k + 1)
    BY <2>3, <2>4 DEF TurnsOf
  <2> QED
    BY <2>5
<1>3. Nat \subseteq T
  BY <1>1, <1>2, AllNaturals
<1> QED
  BY <1>3

LEMMA MatchedIs ==
  ASSUME pool_idx \in Nat, NEW levels, NEW p, NEW q, NEW side,
         NEW start, start = [levels |-> levels, remaining |-> q, trades |-> trades]
  PROVE  \E v : /\ Matched(levels, p, q, side) = v[pool_idx]
                /\ v[0] = start
                /\ \A n \in 0 .. pool_idx - 1 : v[n + 1] = Turned(v[n], p, side)
<1>1. PICK u : TurnsOf(u, start, p, side, pool_idx)
  BY TurnsExist
<1> DEFINE v == CHOOSE w : TurnsOf(w, start, p, side, pool_idx)
<1>2. TurnsOf(v, start, p, side, pool_idx)
  BY <1>1
<1>3. Matched(levels, p, q, side) = v[pool_idx]
  BY DEF Matched, TurnsOf, Turned
<1> HIDE DEF v
<1>4. v[0] = start
  BY <1>2 DEF TurnsOf
<1>5. ASSUME NEW n \in 0 .. pool_idx - 1 PROVE v[n + 1] = Turned(v[n], p, side)
  <2>1. n + 1 \in 0 .. pool_idx /\ n + 1 # 0 /\ n + 1 - 1 = n
    OBVIOUS
  <2> QED
    BY <1>2, <2>1 DEF TurnsOf
<1> QED
  BY <1>3, <1>4, <1>5

\* After every turn: LoopInv, and as few orders left as turns were made.
Few(s, n) == IsFiniteSet(Ids(s.levels)) /\ Cardinality(Ids(s.levels)) <= pool_idx - n
Walks(s, start, p, side, q, n) ==
    /\ LoopInv(s, -side, q)
    /\ TakesBest(start, -side) => TakesBest(s, -side)
    /\ Goes(s, p, side) => Few(s, n)

LEMMA OneTurn ==
  ASSUME Ready, NEW side \in Sides, NEW p, NEW q \in Nat, NEW start,
         NEW n \in 0 .. pool_idx - 1, NEW s, Walks(s, start, p, side, q, n)
  PROVE  Walks(Turned(s, p, side), start, p, side, q, n + 1)
<1>1. CASE ~ Goes(s, p, side)
  BY <1>1 DEF Walks, Turned
<1>2. CASE Goes(s, p, side)
  <2>1. PICK u : u = Turn(s) /\ Turned(s, p, side) = u
    BY <1>2 DEF Turned
  <2>2. s.remaining > 0 /\ s.levels # <<>> /\ LoopInv(s, -side, q) /\ Few(s, n)
    BY <1>2 DEF Walks, Goes
  <2>3. LoopTypes(s) /\ WellFormed(s.levels, -side) /\ -side \in Sides
    BY <2>2 DEF LoopInv, Sides
  <2>4. PICK o, fill, t : Takes(s, u, -side, o, fill, t)
    BY <2>1, <2>2, <2>3, TurnTakes
  <2>5. LoopInv(u, -side, q)
    BY <2>2, <2>3, <2>4, TurnKeeps
  <2>6. TakesBest(start, -side) => TakesBest(u, -side)
    BY <2>2, <2>3, <2>4, TurnTakesBest DEF Walks
  <2>7. ASSUME Goes(u, p, side) PROVE Few(u, n + 1)
    <3>1. u.remaining > 0
      BY <2>7 DEF Goes
    <3>2. o.id \in Ids(s.levels) /\ Ids(u.levels) = Ids(s.levels) \ {o.id}
      BY <2>3, <2>4, <3>1, TurnShrinks
    <3>3. PICK S : S = Ids(s.levels) /\ IsFiniteSet(S) /\ Cardinality(S) <= pool_idx - n
      BY <2>2 DEF Few
    <3>4. /\ IsFiniteSet(S \ {o.id}) /\ Cardinality(S \ {o.id}) = Cardinality(S) - 1
          /\ Cardinality(S) \in Nat
      BY <3>2, <3>3, FS_RemoveElement, FS_CardinalityType
    <3>5. pool_idx \in Nat
      BY DEF Ready, MatchingTypeOK
    <3> QED
      BY <3>2, <3>3, <3>4, <3>5 DEF Few
  <2> QED
    BY <2>1, <2>5, <2>6, <2>7 DEF Walks
<1> QED
  BY <1>1, <1>2

\* The resting orders are as many at most as were ever added.
LEMMA FewIds ==
  ASSUME Ready, NEW side, NEW levels \in Seq(PriceLevel), WellFormed(levels, side)
  PROVE  /\ IsFiniteSet(Ids(levels)) /\ Cardinality(Ids(levels)) <= pool_idx
         /\ Ids(levels) \subseteq 1 .. pool_idx
<1>1. pool_idx \in Nat
  BY DEF Ready, MatchingTypeOK
<1>2. Ids(levels) \subseteq 1 .. pool_idx
  <2> SUFFICES ASSUME NEW o \in RestingIn(levels) PROVE o.id \in 1 .. pool_idx
    BY DEF Ids
  <2>1. PICK k \in 1 .. Len(levels) : \E i \in 1 .. Len(levels[k].orders) : o = levels[k].orders[i]
    BY InLevels
  <2>2. PICK i \in 1 .. Len(levels[k].orders) : o = levels[k].orders[i]
    BY <2>1
  <2>3. At(levels, k, i, o)
    BY <2>2 DEF At
  <2> QED
    BY <2>3, AtItsPlace
<1>3. IsFiniteSet(1 .. pool_idx) /\ Cardinality(1 .. pool_idx) = pool_idx
  BY <1>1, FS_Interval
<1> QED
  BY <1>2, <1>3, FS_Subset

\* match_aggressive's loops keep the book and stop.
LEMMA MatchedKeeps ==
  ASSUME Ready, NEW side \in Sides, NEW p, NEW q \in Nat, NEW levels,
         NEW start, start = [levels |-> levels, remaining |-> q, trades |-> trades],
         LoopInv(start, -side, q),
         NEW done, done = Matched(levels, p, q, side)
  PROVE  /\ LoopInv(done, -side, q)
         /\ TakesBest(start, -side) => TakesBest(done, -side)
         /\ ~ Goes(done, p, side)
<1>1. pool_idx \in Nat /\ -side \in Sides
  BY DEF Ready, MatchingTypeOK, Sides
<1>2. PICK v : /\ done = v[pool_idx] /\ v[0] = start
               /\ \A n \in 0 .. pool_idx - 1 : v[n + 1] = Turned(v[n], p, side)
  BY <1>1, MatchedIs
<1> DEFINE T == {n \in Nat : n <= pool_idx => Walks(v[n], start, p, side, q, n)}
<1>3. 0 \in T
  <2>1. start.levels \in Seq(PriceLevel) /\ WellFormed(start.levels, -side)
    BY DEF LoopInv, LoopTypes
  <2>2. Few(start, 0)
    BY <1>1, <2>1, FewIds DEF Few
  <2> QED
    BY <1>2, <2>2 DEF Walks
<1>4. ASSUME NEW n \in Nat, n \in T PROVE n + 1 \in T
  <2>1. CASE n + 1 <= pool_idx
    <3>1. n \in 0 .. pool_idx - 1 /\ Walks(v[n], start, p, side, q, n)
      BY <1>1, <1>4, <2>1
    <3>2. Walks(Turned(v[n], p, side), start, p, side, q, n + 1)
      BY <3>1, OneTurn
    <3>3. v[n + 1] = Turned(v[n], p, side)
      BY <1>2, <3>1
    <3> QED
      BY <3>2, <3>3
  <2> QED
    BY <2>1
<1>5. Nat \subseteq T
  BY <1>3, <1>4, AllNaturals
<1>6. Walks(done, start, p, side, q, pool_idx)
  BY <1>1, <1>2, <1>5
<1>7. ~ Goes(done, p, side)
  <2> SUFFICES ASSUME Goes(done, p, side) PROVE FALSE
    OBVIOUS
  <2>1. done.levels # <<>> /\ Few(done, pool_idx) /\ LoopInv(done, -side, q)
    BY <1>6 DEF Walks, Goes
  <2>2. PICK S : /\ S = Ids(done.levels) /\ IsFiniteSet(S) /\ Cardinality(S) <= 0
    BY <1>1, <2>1 DEF Few
  <2>3. S = {}
    BY <2>2, FS_CardinalityType, FS_EmptySet
  <2>4. done.levels \in Seq(PriceLevel) /\ WellFormed(done.levels, -side)
    BY <2>1 DEF LoopInv, LoopTypes
  <2>5. done.levels[1].orders[1] \in RestingIn(done.levels)
    BY <1>1, <2>1, <2>4, HeadFirst
  <2> QED
    BY <2>2, <2>3, <2>5 DEF Ids
<1> QED
  BY <1>6, <1>7 DEF Walks

-----------------------------------------------------------------------------
(* MatchingEngine: the steps                                               *)

\* The invariant: the book is in order, the quantities add up, and the trades bear
\* numbers that were given out.
MatchInv == /\ MatchingTypeOK /\ BookWellFormed /\ QuantityConserved
            /\ Named(trades, Len(incoming))

LEMMA MatchInitInv == MatchingInit => MatchInv
<1> SUFFICES ASSUME MatchingInit PROVE MatchInv
  OBVIOUS
<1>1. /\ bids = <<>> /\ asks = <<>> /\ pool_idx = 0 /\ trades = <<>>
      /\ resting = <<>> /\ incoming = <<>>
  BY DEF MatchingInit
<1>2. MatchingTypeOK
  BY <1>1, MatchingAssumption DEF MatchingTypeOK
<1>3. BookWellFormed
  BY <1>1, MatchingAssumption DEF BookWellFormed, WellFormed, Levels
<1>4. RestingNow = {}
  BY <1>1 DEF RestingNow, RestingIn
<1>5. QuantityConserved
  BY <1>1, <1>4 DEF QuantityConserved
<1>6. Named(trades, Len(incoming))
  BY <1>1 DEF Named
<1> QED
  BY <1>2, <1>3, <1>5, <1>6 DEF MatchInv

\* The two sides of the book.
LEMMA BothSides ==
  ASSUME NEW side \in Sides
  PROVE  /\ -side \in Sides /\ -side # side /\ -(-side) = side
         /\ \A s \in Sides : s = side \/ s = -side
         /\ Levels(-side) = IF side = 1 THEN asks ELSE bids
         /\ RestingNow = RestingIn(Levels(side)) \cup RestingIn(Levels(-side))
<1>1. PICK other \in Int : other = -side
  BY DEF Sides
<1>2. \/ side = 1 /\ other = -1
      \/ side = -1 /\ other = 1
  BY <1>1 DEF Sides
<1>3. /\ other \in Sides /\ other # side /\ -other = side
      /\ \A s \in Sides : s = side \/ s = other
  BY <1>2 DEF Sides
<1>4. \/ side = 1 /\ Levels(side) = bids /\ Levels(other) = asks
      \/ side # 1 /\ Levels(side) = asks /\ Levels(other) = bids
  BY <1>2 DEF Levels
<1>5. /\ Levels(other) = IF side = 1 THEN asks ELSE bids
      /\ RestingNow = RestingIn(Levels(side)) \cup RestingIn(Levels(other))
  BY <1>4 DEF RestingNow
<1> QED
  BY <1>1, <1>3, <1>5

\* An order that rests is on its own side.
LEMMA OnItsSide ==
  ASSUME NEW side, NEW levels \in Seq(PriceLevel), WellFormed(levels, side)
  PROVE  \A o \in RestingIn(levels) : /\ o \in Order /\ o.id \in 1 .. pool_idx /\ o.qty > 0
                                      /\ resting[o.id].side = side
<1> SUFFICES ASSUME NEW o \in RestingIn(levels)
             PROVE  /\ o \in Order /\ o.id \in 1 .. pool_idx /\ o.qty > 0
                    /\ resting[o.id].side = side
  OBVIOUS
<1>1. PICK k \in 1 .. Len(levels) : \E i \in 1 .. Len(levels[k].orders) : o = levels[k].orders[i]
  BY InLevels
<1>2. PICK i \in 1 .. Len(levels[k].orders) : o = levels[k].orders[i]
  BY <1>1
<1>3. At(levels, k, i, o)
  BY <1>2 DEF At
<1> QED
  BY <1>3, AtItsPlace, InLevels

LEMMA InvSides ==
  ASSUME MatchInv, NEW side \in Sides
  PROVE  /\ Levels(side) \in Seq(PriceLevel) /\ WellFormed(Levels(side), side)
         /\ \A o \in RestingIn(Levels(side)) :
               o \in Order /\ o.id \in 1 .. pool_idx /\ resting[o.id].side = side
<1>1. WellFormed(Levels(side), side) /\ Levels(side) \in Seq(PriceLevel)
  BY DEF MatchInv, MatchingTypeOK, BookWellFormed, Levels
<1> QED
  BY <1>1, OnItsSide

\* What a call of match_aggressive comes to.
Ends(done, p, q, side) ==
    /\ LoopInv(done, -side, q) /\ ~ Goes(done, p, side)
    /\ SortedBest(Levels(-side), -side) => TakesBest(done, -side)
    /\ Levels(-side)' = done.levels /\ Levels(side)' = Levels(side)
    /\ trades' = done.trades
    /\ incoming' = Append(incoming, [price |-> p, qty |-> q, side |-> side])
    /\ pool_idx' = pool_idx /\ resting' = resting
    /\ bids' \in Seq(PriceLevel) /\ asks' \in Seq(PriceLevel)

LEMMA MatchEnds ==
  ASSUME MatchInv, NEW p \in LimitPrices, NEW q \in LimitQuantities, NEW side \in Sides,
         match_aggressive(p, q, side)
  PROVE  Ready /\ \E done : Ends(done, p, q, side)
<1>1. /\ Ready /\ q \in Nat /\ Len(trades) \in Nat /\ trades \in Seq(TradeEvent)
      /\ Len(incoming) \in Nat /\ bids \in Seq(PriceLevel) /\ asks \in Seq(PriceLevel)
  BY MatchingAssumption DEF MatchInv, Ready, MatchingTypeOK, BookWellFormed, match_aggressive
<1>2. /\ -side \in Sides /\ -side # side /\ \A s \in Sides : s = side \/ s = -side
      /\ Levels(-side) = IF side = 1 THEN asks ELSE bids
      /\ RestingNow = RestingIn(Levels(side)) \cup RestingIn(Levels(-side))
  BY BothSides
<1>3. PICK levels : levels = Levels(-side)
  OBVIOUS
<1>4. PICK start : start = [levels |-> levels, remaining |-> q, trades |-> trades]
  OBVIOUS
<1>5. /\ levels \in Seq(PriceLevel) /\ WellFormed(levels, -side)
      /\ \A o \in RestingIn(Levels(side)) : resting[o.id].side = side
  BY <1>2, <1>3, InvSides
<1>6. start.levels = levels /\ start.remaining = q /\ start.trades = trades
  BY <1>4
<1>7. Conserves(start, -side, q)
  <2>1. ASSUME NEW o \in RestingIn(levels)
        PROVE  resting[o.id].qty = o.qty + TradedFrom(trades, o.id)
    BY <1>2, <1>3, <2>1 DEF MatchInv, QuantityConserved
  <2>2. ASSUME NEW id \in 1 .. pool_idx, resting[id].side = -side, ~Within(levels, id)
        PROVE  resting[id].qty = TradedFrom(trades, id)
    <3>1. ~Rests(id)
      BY <1>2, <1>3, <1>5, <2>2 DEF Rests, Within
    <3> QED
      BY <3>1 DEF MatchInv, QuantityConserved
  <2>3. TradedTo(trades, Len(incoming) + 1) = 0
    <3>1. \A n \in 1 .. Len(trades) : trades[n].aggressor # Len(incoming) + 1
      BY <1>1 DEF MatchInv, Named
    <3> QED
      BY <1>1, <3>1, NothingTraded
  <2> QED
    BY <1>1, <1>6, <2>1, <2>2, <2>3 DEF Conserves
<1>8. Named(trades, Len(incoming) + 1)
  BY <1>1 DEF MatchInv, Named
<1>9. TakesOldest(start, -side)
  BY <1>1, <1>6 DEF TakesOldest
<1>10. LoopInv(start, -side, q)
  BY <1>1, <1>5, <1>6, <1>7, <1>8, <1>9 DEF LoopInv, LoopTypes
<1>11. PICK done : done = Matched(levels, p, q, side)
  OBVIOUS
<1>12. /\ LoopInv(done, -side, q) /\ ~ Goes(done, p, side)
       /\ TakesBest(start, -side) => TakesBest(done, -side)
  BY <1>1, <1>4, <1>10, <1>11, MatchedKeeps
<1>13. SortedBest(levels, -side) => TakesBest(start, -side)
  BY <1>1, <1>6 DEF TakesBest
<1>14. /\ IF side = 1 THEN asks' = done.levels /\ bids' = bids
          ELSE bids' = done.levels /\ asks' = asks
       /\ trades' = done.trades
       /\ incoming' = Append(incoming, [price |-> p, qty |-> q, side |-> side])
       /\ pool_idx' = pool_idx /\ resting' = resting
  BY <1>2, <1>3, <1>11 DEF match_aggressive
<1>15. Levels(-side)' = done.levels /\ Levels(side)' = Levels(side)
  <2>1. CASE side = 1
    BY <1>14, <2>1 DEF Levels
  <2>2. CASE side # 1
    <3>1. -side = 1
      BY <2>2 DEF Sides
    <3> QED
      BY <1>14, <2>2, <3>1 DEF Levels
  <2> QED
    BY <2>1, <2>2
<1>16. bids' \in Seq(PriceLevel) /\ asks' \in Seq(PriceLevel)
  BY <1>1, <1>12, <1>14 DEF LoopInv, LoopTypes
<1>17. Ends(done, p, q, side)
  BY <1>3, <1>12, <1>13, <1>14, <1>15, <1>16 DEF Ends
<1> QED
  BY <1>1, <1>17

\* Who rests after the call, and on which side.
AfterMatch(done, side) ==
    /\ RestingNow' = RestingIn(Levels(side)) \cup RestingIn(done.levels)
    /\ \A o \in RestingIn(Levels(side)) : /\ o \in Order /\ o.id \in 1 .. pool_idx
                                          /\ resting[o.id].side = side
    /\ \A id \in 1 .. pool_idx :
          Rests(id)' <=> IF resting[id].side = -side THEN Within(done.levels, id)
                         ELSE Within(Levels(side), id)

LEMMA RestingAfter ==
  ASSUME MatchInv, NEW p, NEW q, NEW side \in Sides, NEW done, Ends(done, p, q, side)
  PROVE  AfterMatch(done, side)
<1>1. PICK own : own = RestingIn(Levels(side))
  OBVIOUS
<1>2. RestingNow' = own \cup RestingIn(done.levels)
  <2>1. RestingNow = RestingIn(Levels(side)) \cup RestingIn(Levels(-side))
    BY BothSides
  <2>2. RestingNow' = RestingIn(Levels(side)') \cup RestingIn(Levels(-side)')
    <3>1. PICK other \in Int : other = -side
      BY DEF Sides
    <3>2. \/ side = 1 /\ Levels(side)' = bids' /\ Levels(other)' = asks'
          \/ side = -1 /\ Levels(side)' = asks' /\ Levels(other)' = bids'
      BY <3>1 DEF Levels, Sides
    <3>3. RestingNow' = RestingIn(Levels(side)') \cup RestingIn(Levels(other)')
      BY <3>2 DEF RestingNow
    <3> QED
      BY <3>1, <3>3
  <2> QED
    BY <1>1, <2>2 DEF Ends
<1>3. \A o \in RestingIn(done.levels) : /\ o \in Order /\ o.id \in 1 .. pool_idx
                                        /\ resting[o.id].side = -side
  <2>1. done.levels \in Seq(PriceLevel) /\ WellFormed(done.levels, -side)
    BY DEF Ends, LoopInv, LoopTypes
  <2> QED
    BY <2>1, OnItsSide
<1>4. \A o \in own : o \in Order /\ o.id \in 1 .. pool_idx /\ resting[o.id].side = side
  BY <1>1, InvSides
<1>5. -side # side
  BY BothSides
<1>6. ASSUME NEW id \in 1 .. pool_idx
      PROVE  Rests(id)' <=> IF resting[id].side = -side THEN Within(done.levels, id)
                            ELSE \E o \in own : o.id = id
  <2>1. Rests(id)' <=> \E o \in own \cup RestingIn(done.levels) : o.id = id
    BY <1>2 DEF Rests
  <2>2. Within(done.levels, id) <=> \E o \in RestingIn(done.levels) : o.id = id
    BY DEF Within
  <2> QED
    BY <1>3, <1>4, <1>5, <2>1, <2>2
<1> QED
  BY <1>1, <1>2, <1>4, <1>6 DEF AfterMatch, Within

LEMMA MatchKeepsInv ==
  ASSUME MatchInv, NEW p \in LimitPrices, NEW q \in LimitQuantities, NEW side \in Sides,
         match_aggressive(p, q, side)
  PROVE  MatchInv'
<1>1. Ready
  BY MatchEnds
<1>2. PICK done : Ends(done, p, q, side)
  BY MatchEnds
<1>3. /\ LoopTypes(done) /\ WellFormed(done.levels, -side) /\ Conserves(done, -side, q)
      /\ Named(done.trades, Len(incoming) + 1)
      /\ Levels(-side)' = done.levels /\ Levels(side)' = Levels(side)
      /\ trades' = done.trades
      /\ incoming' = Append(incoming, [price |-> p, qty |-> q, side |-> side])
      /\ pool_idx' = pool_idx /\ resting' = resting
      /\ bids' \in Seq(PriceLevel) /\ asks' \in Seq(PriceLevel)
  BY <1>2 DEF Ends, LoopInv
<1>4. /\ pool_idx \in 0 .. MatchCapacity /\ pool_idx \in Nat /\ resting \in Seq(Sent)
      /\ incoming \in Seq(Sent) /\ pool_idx = Len(resting) /\ pool_idx <= MatchCapacity
      /\ q \in Nat
  BY MatchingAssumption DEF MatchInv, MatchingTypeOK, BookWellFormed
<1>5. PICK e \in Sent : e = [price |-> p, qty |-> q, side |-> side]
  BY DEF Sent
<1>6. PICK A \in Nat : A = Len(incoming)
  BY <1>4
<1>7. /\ incoming' \in Seq(Sent) /\ Len(incoming') = A + 1
      /\ incoming'[A + 1] = e /\ \A a \in 1 .. A : incoming'[a] = incoming[a]
  BY <1>3, <1>4, <1>5, <1>6, AppendProperties
<1>8. MatchingTypeOK'
  BY <1>3, <1>4, <1>7 DEF MatchingTypeOK, LoopTypes
<1>9. BookWellFormed'
  <2>1. ASSUME NEW s \in Sides PROVE WellFormed(Levels(s), s)'
    <3>1. CASE s = side
      <4>1. WellFormed(Levels(side), side)
        BY InvSides
      <4>2. WellFormed(Levels(side), side)'
        BY <1>3, <4>1 DEF WellFormed, LevelFormed
      <4> QED
        BY <3>1, <4>2
    <3>2. CASE s = -side
      <4>1. WellFormed(Levels(-side), -side)'
        BY <1>3 DEF WellFormed, LevelFormed
      <4> QED
        BY <3>2, <4>1
    <3> QED
      BY <3>1, <3>2, BothSides
  <2> QED
    BY <1>3, <1>4, <2>1 DEF BookWellFormed
<1>10. /\ RestingNow' = RestingIn(Levels(side)) \cup RestingIn(done.levels)
       /\ \A o \in RestingIn(Levels(side)) : /\ o \in Order /\ o.id \in 1 .. pool_idx
                                             /\ resting[o.id].side = side
       /\ \A id \in 1 .. pool_idx :
             Rests(id)' <=> IF resting[id].side = -side THEN Within(done.levels, id)
                            ELSE Within(Levels(side), id)
  <2>1. AfterMatch(done, side)
    BY <1>2, RestingAfter
  <2> QED
    BY <2>1 DEF AfterMatch
<1>11. -side # side /\ RestingNow = RestingIn(Levels(side)) \cup RestingIn(Levels(-side))
  BY BothSides
<1>12. PICK T : T = trades' /\ T = done.trades
  BY <1>3
<1>13. ASSUME NEW o \in RestingNow'
       PROVE  resting[o.id].qty = o.qty + TradedFrom(T, o.id)
  <2>1. CASE o \in RestingIn(done.levels)
    BY <1>3, <1>12, <2>1 DEF Conserves
  <2>2. CASE o \in RestingIn(Levels(side))
    <3>1. resting[o.id].qty = o.qty + TradedFrom(trades, o.id)
      BY <1>11, <2>2 DEF MatchInv, QuantityConserved
    <3>2. o.id \in 1 .. pool_idx /\ resting[o.id].side # -side
      BY <1>10, <1>11, <2>2
    <3>3. TradedFrom(done.trades, o.id) = TradedFrom(trades, o.id)
      BY <1>3, <3>2 DEF Conserves
    <3> QED
      BY <1>12, <3>1, <3>3
  <2> QED
    BY <1>10, <2>1, <2>2
<1>14. ASSUME NEW id \in 1 .. pool_idx, ~ Rests(id)'
       PROVE  resting[id].qty = TradedFrom(T, id)
  <2>1. CASE resting[id].side = -side
    <3>1. ~ Within(done.levels, id)
      BY <1>10, <1>14, <2>1
    <3> QED
      BY <1>3, <1>12, <2>1, <3>1 DEF Conserves
  <2>2. CASE resting[id].side # -side
    <3>1. ~ Within(Levels(side), id)
      BY <1>10, <1>14, <2>2
    <3>2. \A o \in RestingIn(Levels(-side)) : resting[o.id].side = -side
      BY BothSides, InvSides
    <3>3. ~ Rests(id)
      BY <1>11, <2>2, <3>1, <3>2 DEF Rests, Within
    <3>4. resting[id].qty = TradedFrom(trades, id)
      BY <3>3 DEF MatchInv, QuantityConserved
    <3>5. TradedFrom(done.trades, id) = TradedFrom(trades, id)
      BY <1>3, <2>2 DEF Conserves
    <3> QED
      BY <1>12, <3>4, <3>5
  <2> QED
    BY <2>1, <2>2
<1>15. ASSUME NEW a \in 1 .. A + 1 PROVE TradedTo(T, a) <= incoming'[a].qty
  <2>1. CASE a \in 1 .. A
    <3>1. TradedTo(T, a) = TradedTo(trades, a)
      BY <1>3, <1>6, <1>12, <2>1 DEF Conserves
    <3>2. a \in DOMAIN incoming
      BY <1>4, <1>6, <2>1
    <3>3. TradedTo(trades, a) <= incoming[a].qty
      BY <3>2 DEF MatchInv, QuantityConserved
    <3> QED
      BY <1>7, <2>1, <3>1, <3>3
  <2>2. CASE a = A + 1
    <3>1. TradedTo(T, A + 1) + done.remaining = q /\ done.remaining \in Nat
      BY <1>3, <1>6, <1>12 DEF Conserves, LoopTypes
    <3>2. TradedTo(T, A + 1) \in Nat
      <4>1. T \in Seq(TradeEvent)
        BY <1>3, <1>12 DEF LoopTypes
      <4> QED
        BY <4>1, TradedAreNumbers
    <3>3. incoming'[A + 1].qty = q
      BY <1>5, <1>7
    <3> QED
      BY <1>4, <2>2, <3>1, <3>2, <3>3
  <2> QED
    BY <1>6, <2>1, <2>2
<1>16. QuantityConserved'
  <2>1. DOMAIN incoming' = 1 .. A + 1
    BY <1>7
  <2> QED
    BY <1>3, <1>12, <1>13, <1>14, <1>15, <2>1 DEF QuantityConserved
<1>17. Named(trades, Len(incoming))'
  BY <1>3, <1>6, <1>7 DEF Named
<1> QED
  BY <1>8, <1>9, <1>16, <1>17 DEF MatchInv

\* An order rests at the end of the level of its price, an old one or a new one.
Joins(L, M, p, o) ==
    /\ M \in Seq(PriceLevel)
    /\ \/ \E k \in 1 .. Len(L) :
             /\ L[k].price = p /\ Len(M) = Len(L)
             /\ M[k].price = p /\ M[k].orders = Append(L[k].orders, o)
             /\ \A j \in 1 .. Len(L) : j # k => M[j] = L[j]
       \/ /\ \A k \in 1 .. Len(L) : L[k].price # p /\ M[k] = L[k]
          /\ Len(M) = Len(L) + 1
          /\ M[Len(M)].price = p /\ M[Len(M)].orders = <<o>>

LEMMA WithOrderJoins ==
  ASSUME NEW L \in Seq(PriceLevel), NEW side, WellFormed(L, side), NEW p \in LimitPrices,
         NEW o \in Order, NEW M, M = WithOrder(L, p, o)
  PROVE  Joins(L, M, p, o)
<1>0. PICK N \in Nat : N = Len(L) /\ DOMAIN L = 1 .. N
  BY InLevels
<1>1. CASE \E k \in 1 .. N : L[k].price = p
  <2>1. PICK k \in 1 .. N : L[k].price = p
    BY <1>1
  <2>2. \A j \in 1 .. N : L[j].price = p => j = k
    BY <1>0, <2>1 DEF WellFormed
  <2>3. PICK l \in PriceLevel : l = L[k]
    BY <1>0
  <2>4. /\ l = [price |-> l.price, orders |-> l.orders] /\ l.price = p /\ l.orders \in Seq(Order)
        /\ l.orders = L[k].orders
    BY <2>1, <2>3 DEF PriceLevel
  <2>5. PICK queue \in Seq(Order) : queue = Append(l.orders, o)
    BY <2>4, AppendProperties
  <2>6. PICK m \in PriceLevel : m = [price |-> p, orders |-> queue]
    BY DEF PriceLevel
  <2>7. [l EXCEPT !.orders = Append(@, o)] = m
    <3>1. [l EXCEPT !.orders = Append(@, o)] = [l EXCEPT !.orders = queue]
      BY <2>5, Zenon
    <3>2. [l EXCEPT !.orders = queue] = m
      BY <2>4, <2>6
    <3> QED
      BY <3>1, <3>2, Zenon
  <2>8. M = [j \in 1 .. N |-> IF L[j].price = p THEN [L[j] EXCEPT !.orders = Append(@, o)]
                              ELSE L[j]]
    BY <1>0, <1>1 DEF WithOrder
  <2>9. M = [j \in 1 .. N |-> IF j = k THEN m ELSE L[j]]
    <3>1. ASSUME NEW j \in 1 .. N
          PROVE  (IF L[j].price = p THEN [L[j] EXCEPT !.orders = Append(@, o)] ELSE L[j])
                   = IF j = k THEN m ELSE L[j]
      <4>1. CASE j = k
        BY <2>1, <2>3, <2>7, <4>1, Zenon
      <4>2. CASE j # k
        <5>1. L[j].price # p
          BY <2>2, <4>2
        <5> QED
          BY <4>2, <5>1, Zenon
      <4> QED
        BY <4>1, <4>2
    <3> QED
      BY <2>8, <3>1
  <2>10. \A j \in 1 .. N : L[j] \in PriceLevel
    BY <1>0
  <2>11. M \in Seq(PriceLevel) /\ Len(M) = N /\ M[k] = m /\ \A j \in 1 .. N : j # k => M[j] = L[j]
    <3>1. \A j \in 1 .. N : (IF j = k THEN m ELSE L[j]) \in PriceLevel
      BY <2>10
    <3>2. M \in [1 .. N -> PriceLevel]
      BY <2>9, <3>1
    <3>3. M \in Seq(PriceLevel) /\ Len(M) = N
      BY <3>2, SeqDef
    <3> QED
      BY <2>9, <3>3
  <2>12. M[k].price = p /\ M[k].orders = Append(L[k].orders, o)
    BY <2>4, <2>5, <2>6, <2>11
  <2> QED
    BY <1>0, <2>1, <2>11, <2>12 DEF Joins
<1>2. CASE \A k \in 1 .. N : L[k].price # p
  <2>1. PICK m : m = [price |-> p, orders |-> <<o>>]
    OBVIOUS
  <2>2. m \in PriceLevel
    <3>1. <<o>> \in Seq(Order)
      OBVIOUS
    <3> QED
      BY <2>1, <3>1 DEF PriceLevel
  <2>3. M = Append(L, m)
    BY <1>0, <1>2, <2>1 DEF WithOrder
  <2>4. M \in Seq(PriceLevel) /\ Len(M) = N + 1 /\ M[N + 1] = m /\ \A k \in 1 .. N : M[k] = L[k]
    BY <1>0, <2>2, <2>3, AppendProperties
  <2>5. m.price = p /\ m.orders = <<o>>
    BY <2>1
  <2> QED
    BY <1>0, <1>2, <2>4, <2>5 DEF Joins
<1> QED
  BY <1>1, <1>2

LEMMA JoinsRest ==
  ASSUME NEW L \in Seq(PriceLevel), NEW p, NEW o \in Order, NEW M, Joins(L, M, p, o)
  PROVE  \A x : x \in RestingIn(M) <=> x \in RestingIn(L) \/ x = o
<1>1. M \in Seq(PriceLevel)
  BY DEF Joins
<1>2. CASE \E k \in 1 .. Len(L) :
             /\ L[k].price = p /\ Len(M) = Len(L)
             /\ M[k].price = p /\ M[k].orders = Append(L[k].orders, o)
             /\ \A j \in 1 .. Len(L) : j # k => M[j] = L[j]
  <2>1. PICK k \in 1 .. Len(L) :
             /\ L[k].price = p /\ Len(M) = Len(L)
             /\ M[k].price = p /\ M[k].orders = Append(L[k].orders, o)
             /\ \A j \in 1 .. Len(L) : j # k => M[j] = L[j]
    BY <1>2
  <2>2. PICK queue \in Seq(Order) : queue = L[k].orders
    BY InLevels
  <2>3. PICK longer : longer = M[k].orders
    OBVIOUS
  <2>4. PICK N \in Nat : N = Len(queue)
    OBVIOUS
  <2>5. /\ Len(longer) = N + 1 /\ longer[N + 1] = o
        /\ \A i \in 1 .. N : longer[i] = queue[i]
    BY <2>1, <2>2, <2>3, <2>4, AppendProperties
  <2>6. ASSUME NEW x \in RestingIn(M) PROVE x \in RestingIn(L) \/ x = o
    <3>1. PICK j \in 1 .. Len(M) : \E i \in 1 .. Len(M[j].orders) : x = M[j].orders[i]
      BY <1>1, <2>6, InLevels, SMTT(30)
    <3>2. PICK i \in 1 .. Len(M[j].orders) : x = M[j].orders[i]
      BY <3>1
    <3>3. j \in 1 .. Len(L)
      BY <2>1
    <3>4. CASE j # k
      <4>1. i \in 1 .. Len(L[j].orders) /\ x = L[j].orders[i]
        BY <2>1, <3>2, <3>3, <3>4
      <4> QED
        BY <3>3, <4>1, InLevels
    <3>5. CASE j = k
      <4>1. i \in 1 .. N + 1 /\ x = longer[i]
        BY <2>3, <2>5, <3>2, <3>5
      <4>2. i = N + 1 \/ i \in 1 .. N
        BY <4>1
      <4>3. i \in 1 .. N => i \in 1 .. Len(L[k].orders) /\ x = L[k].orders[i]
        BY <2>2, <2>4, <2>5, <4>1
      <4> QED
        BY <2>5, <4>1, <4>2, <4>3, InLevels
    <3> QED
      BY <3>4, <3>5
  <2>7. ASSUME NEW x \in RestingIn(L) PROVE x \in RestingIn(M)
    <3>1. PICK j \in 1 .. Len(L) : \E i \in 1 .. Len(L[j].orders) : x = L[j].orders[i]
      BY InLevels
    <3>2. PICK i \in 1 .. Len(L[j].orders) : x = L[j].orders[i]
      BY <3>1
    <3>3. j \in 1 .. Len(M)
      BY <2>1
    <3>4. i \in 1 .. Len(M[j].orders) /\ x = M[j].orders[i]
      <4>1. CASE j # k
        BY <2>1, <3>2, <4>1
      <4>2. CASE j = k
        BY <2>2, <2>3, <2>4, <2>5, <3>2, <4>2
      <4> QED
        BY <4>1, <4>2
    <3> QED
      BY <1>1, <3>3, <3>4, InLevels
  <2>8. o \in RestingIn(M)
    <3>1. k \in 1 .. Len(M) /\ N + 1 \in 1 .. Len(M[k].orders) /\ o = M[k].orders[N + 1]
      BY <2>1, <2>3, <2>5
    <3> QED
      BY <1>1, <3>1, InLevels
  <2> QED
    BY <2>6, <2>7, <2>8
<1>3. CASE /\ \A k \in 1 .. Len(L) : L[k].price # p /\ M[k] = L[k]
           /\ Len(M) = Len(L) + 1
           /\ M[Len(M)].price = p /\ M[Len(M)].orders = <<o>>
  <2>1. PICK N \in Nat : N = Len(L)
    OBVIOUS
  <2>2. /\ Len(M) = N + 1 /\ M[N + 1].orders = <<o>> /\ \A k \in 1 .. N : M[k] = L[k]
    BY <1>3, <2>1
  <2>3. ASSUME NEW x \in RestingIn(M) PROVE x \in RestingIn(L) \/ x = o
    <3>1. PICK j \in 1 .. Len(M) : \E i \in 1 .. Len(M[j].orders) : x = M[j].orders[i]
      BY <1>1, InLevels
    <3>2. PICK i \in 1 .. Len(M[j].orders) : x = M[j].orders[i]
      BY <3>1
    <3>3. CASE j = N + 1
      BY <2>2, <3>2, <3>3
    <3>4. CASE j # N + 1
      <4>1. j \in 1 .. Len(L) /\ i \in 1 .. Len(L[j].orders) /\ x = L[j].orders[i]
        BY <2>1, <2>2, <3>2, <3>4
      <4> QED
        BY <4>1, InLevels
    <3> QED
      BY <3>3, <3>4
  <2>4. ASSUME NEW x \in RestingIn(L) PROVE x \in RestingIn(M)
    <3>1. PICK j \in 1 .. Len(L) : \E i \in 1 .. Len(L[j].orders) : x = L[j].orders[i]
      BY InLevels
    <3>2. j \in 1 .. Len(M) /\ M[j] = L[j]
      BY <2>1, <2>2
    <3> QED
      BY <1>1, <3>1, <3>2, InLevels
  <2>5. o \in RestingIn(M)
    <3>1. N + 1 \in 1 .. Len(M) /\ 1 \in 1 .. Len(M[N + 1].orders) /\ o = M[N + 1].orders[1]
      BY <2>2
    <3> QED
      BY <1>1, <3>1, InLevels
  <2> QED
    BY <2>3, <2>4, <2>5
<1> QED
  BY <1>2, <1>3 DEF Joins

\* The new order has the next number, and what was added before is as it was.
Numbered(o, p, side) ==
    /\ pool_idx \in Nat /\ pool_idx' = pool_idx + 1
    /\ o.id = pool_idx + 1 /\ o.qty > 0
    /\ resting'[pool_idx + 1].price = p /\ resting'[pool_idx + 1].side = side
    /\ \A id \in 1 .. pool_idx : resting'[id] = resting[id]

LEMMA LevelStays ==
  ASSUME NEW o, NEW p, NEW s, Numbered(o, p, s), NEW side,
         NEW l \in PriceLevel, LevelFormed(l, side)
  PROVE  LevelFormed(l, side)'
<1>1. ASSUME NEW i \in DOMAIN l.orders
      PROVE  /\ l.orders[i].id \in 1 .. pool_idx + 1 /\ l.orders[i].qty > 0
             /\ resting'[l.orders[i].id].price = l.price
             /\ resting'[l.orders[i].id].side = side
             /\ \A j \in 1 .. i - 1 : l.orders[j].id < l.orders[i].id
  <2>1. /\ l.orders[i].id \in 1 .. pool_idx /\ l.orders[i].qty > 0
        /\ resting[l.orders[i].id].price = l.price
        /\ resting[l.orders[i].id].side = side
        /\ \A j \in 1 .. i - 1 : l.orders[j].id < l.orders[i].id
    BY Zenon DEF LevelFormed
  <2>2. l.orders[i].id \in 1 .. pool_idx + 1
    BY <2>1 DEF Numbered
  <2>3. resting'[l.orders[i].id] = resting[l.orders[i].id]
    BY <2>1, Zenon DEF Numbered
  <2> QED
    BY <2>1, <2>2, <2>3, Zenon
<1>2. pool_idx' = pool_idx + 1 /\ l.orders # <<>>
  BY DEF Numbered, LevelFormed
<1> QED
  BY <1>1, <1>2 DEF LevelFormed

LEMMA JoinsFormed ==
  ASSUME NEW L \in Seq(PriceLevel), NEW side, WellFormed(L, side),
         NEW p \in LimitPrices, NEW o \in Order, Numbered(o, p, side),
         NEW M, Joins(L, M, p, o)
  PROVE  WellFormed(M, side)'
<1>1. M \in Seq(PriceLevel)
  BY DEF Joins
<1>2. \A k \in 1 .. Len(L) : LevelFormed(L[k], side) /\ LevelFormed(L[k], side)'
  <2> SUFFICES ASSUME NEW k \in 1 .. Len(L) PROVE LevelFormed(L[k], side) /\ LevelFormed(L[k], side)'
    OBVIOUS
  <2>1. PICK l \in PriceLevel : l = L[k]
    BY InLevels
  <2>2. LevelFormed(l, side)
    BY <2>1, InLevels DEF WellFormed
  <2>3. LevelFormed(l, side)'
    BY <2>2, LevelStays
  <2> QED
    BY <2>1, <2>2, <2>3
<1>3. CASE \E k \in 1 .. Len(L) :
             /\ L[k].price = p /\ Len(M) = Len(L)
             /\ M[k].price = p /\ M[k].orders = Append(L[k].orders, o)
             /\ \A j \in 1 .. Len(L) : j # k => M[j] = L[j]
  <2>1. PICK k \in 1 .. Len(L) :
             /\ L[k].price = p /\ Len(M) = Len(L)
             /\ M[k].price = p /\ M[k].orders = Append(L[k].orders, o)
             /\ \A j \in 1 .. Len(L) : j # k => M[j] = L[j]
    BY <1>3
  <2>2. PICK queue \in Seq(Order) : queue = L[k].orders
    BY InLevels
  <2>3. PICK longer \in Seq(Order) : longer = M[k].orders
    BY <2>1, <2>2, AppendProperties
  <2>4. PICK N \in Nat : N = Len(queue)
    OBVIOUS
  <2>5. /\ Len(longer) = N + 1 /\ longer[N + 1] = o /\ DOMAIN longer = 1 .. N + 1
        /\ \A i \in 1 .. N : longer[i] = queue[i]
    BY <2>1, <2>2, <2>3, <2>4, AppendProperties
  <2>6. \A i \in 1 .. N :
          /\ queue[i].id \in 1 .. pool_idx + 1 /\ queue[i].qty > 0
          /\ resting'[queue[i].id].price = p
          /\ resting'[queue[i].id].side = side
          /\ \A j \in 1 .. i - 1 : queue[j].id < queue[i].id
    <3>1. LevelFormed(L[k], side)' /\ pool_idx' = pool_idx + 1 /\ L[k].price = p
      BY <1>2, <2>1 DEF Numbered
    <3>2. DOMAIN L[k].orders = 1 .. N
      BY <2>2, <2>4
    <3> QED
      BY <2>2, <3>1, <3>2, Zenon DEF LevelFormed
  <2>7. \A i \in 1 .. N : queue[i].id \in 1 .. pool_idx
    <3>1. LevelFormed(L[k], side) /\ DOMAIN L[k].orders = 1 .. N
      BY <1>2, <2>2, <2>4
    <3> QED
      BY <2>2, <3>1, Zenon DEF LevelFormed
  <2>8. ASSUME NEW i \in 1 .. N + 1
        PROVE  /\ longer[i].id \in 1 .. pool_idx + 1 /\ longer[i].qty > 0
               /\ resting'[longer[i].id].price = p
               /\ resting'[longer[i].id].side = side
               /\ \A j \in 1 .. i - 1 : longer[j].id < longer[i].id
    <3>1. CASE i \in 1 .. N
      <4>1. longer[i] = queue[i] /\ \A j \in 1 .. i - 1 : longer[j] = queue[j]
        BY <2>5, <3>1
      <4> QED
        BY <2>6, <3>1, <4>1
    <3>2. CASE i = N + 1
      <4>1. /\ longer[i].id = pool_idx + 1 /\ longer[i].qty > 0 /\ pool_idx \in Nat
            /\ resting'[longer[i].id].price = p /\ resting'[longer[i].id].side = side
        BY <2>5, <3>2 DEF Numbered
      <4>2. ASSUME NEW j \in 1 .. i - 1 PROVE longer[j].id < longer[i].id
        <5>1. j \in 1 .. N
          BY <3>2
        <5>2. longer[j].id \in 1 .. pool_idx
          BY <2>5, <2>7, <5>1
        <5> QED
          BY <4>1, <5>2
      <4> QED
        BY <4>1, <4>2
    <3> QED
      BY <3>1, <3>2
  <2>9. LevelFormed(M[k], side)'
    <3>1. longer # <<>>
      BY <2>5
    <3>2. pool_idx' = pool_idx + 1 /\ M[k].price = p
      BY <2>1 DEF Numbered
    <3> QED
      BY <2>3, <2>5, <2>8, <3>1, <3>2, Zenon DEF LevelFormed
  <2>10. ASSUME NEW j \in DOMAIN M PROVE LevelFormed(M[j], side)'
    <3>1. j \in 1 .. Len(L)
      BY <1>1, <2>1, InLevels
    <3>2. CASE j = k
      BY <2>9, <3>2
    <3>3. CASE j # k
      <4>1. M[j] = L[j] /\ LevelFormed(L[j], side)'
        BY <1>2, <2>1, <3>1, <3>3
      <4> QED
        BY <4>1
    <3> QED
      BY <3>2, <3>3
  <2>11. \A j \in 1 .. Len(L) : M[j].price = L[j].price
    BY <2>1
  <2>12. ASSUME NEW i \in DOMAIN M, NEW j \in DOMAIN M, M[i].price = M[j].price PROVE i = j
    <3>1. i \in 1 .. Len(L) /\ j \in 1 .. Len(L) /\ i \in DOMAIN L /\ j \in DOMAIN L
      BY <1>1, <2>1, InLevels
    <3>2. L[i].price = L[j].price
      BY <2>11, <2>12, <3>1
    <3> QED
      BY <3>1, <3>2, Zenon DEF WellFormed
  <2> QED
    BY <2>10, <2>12 DEF WellFormed
<1>4. CASE /\ \A k \in 1 .. Len(L) : L[k].price # p /\ M[k] = L[k]
           /\ Len(M) = Len(L) + 1
           /\ M[Len(M)].price = p /\ M[Len(M)].orders = <<o>>
  <2>1. PICK N \in Nat : N = Len(L)
    OBVIOUS
  <2>2. /\ Len(M) = N + 1 /\ M[N + 1].orders = <<o>> /\ M[N + 1].price = p
        /\ \A k \in 1 .. N : M[k] = L[k] /\ M[k].price # p
    BY <1>4, <2>1
  <2>3. LevelFormed(M[N + 1], side)'
    <3>1. PICK m : m = M[N + 1] /\ m.orders = <<o>> /\ m.price = p
      BY <2>2
    <3>2. /\ m.orders # <<>> /\ DOMAIN m.orders = 1 .. 1 /\ m.orders[1] = o
      BY <3>1
    <3>3. /\ o.id \in 1 .. pool_idx + 1 /\ o.qty > 0 /\ pool_idx' = pool_idx + 1
          /\ resting'[o.id].price = p /\ resting'[o.id].side = side
      BY DEF Numbered
    <3>4. \A i \in 1 .. 1 : i = 1 /\ \A j \in 1 .. i - 1 : FALSE
      OBVIOUS
    <3>5. LevelFormed(m, side)'
      BY <3>1, <3>2, <3>3, <3>4 DEF LevelFormed
    <3> QED
      BY <3>1, <3>5
  <2>4. ASSUME NEW j \in DOMAIN M PROVE LevelFormed(M[j], side)'
    <3>1. j \in 1 .. N + 1
      BY <1>1, <2>2, InLevels
    <3>2. CASE j = N + 1
      BY <2>3, <3>2
    <3>3. CASE j # N + 1
      <4>1. j \in 1 .. N
        BY <3>1, <3>3
      <4>2. M[j] = L[j] /\ LevelFormed(L[j], side)'
        BY <1>2, <2>1, <2>2, <4>1
      <4> QED
        BY <4>2
    <3> QED
      BY <3>2, <3>3
  <2>5. ASSUME NEW i \in DOMAIN M, NEW j \in DOMAIN M, M[i].price = M[j].price PROVE i = j
    <3>1. i \in 1 .. N + 1 /\ j \in 1 .. N + 1
      BY <1>1, <2>2, InLevels
    <3>2. i = N + 1 <=> j = N + 1
      BY <2>2, <2>5, <3>1
    <3>3. CASE i # N + 1
      <4>1. i \in DOMAIN L /\ j \in DOMAIN L /\ L[i].price = L[j].price
        BY <2>1, <2>2, <2>5, <3>1, <3>2, <3>3
      <4> QED
        BY <4>1, Zenon DEF WellFormed
    <3> QED
      BY <3>2, <3>3
  <2> QED
    BY <2>4, <2>5 DEF WellFormed
<1> QED
  BY <1>3, <1>4 DEF Joins

LEMMA AddKeepsInv ==
  ASSUME MatchInv, NEW p \in LimitPrices, NEW q \in LimitQuantities, NEW side \in Sides,
         add_passive(p, q, side)
  PROVE  MatchInv'
<1>1. /\ pool_idx \in Nat /\ pool_idx + 1 <= MatchCapacity /\ pool_idx = Len(resting)
      /\ resting \in Seq(Sent) /\ q \in Nat \ {0} /\ trades \in Seq(TradeEvent)
      /\ incoming \in Seq(Sent) /\ bids \in Seq(PriceLevel) /\ asks \in Seq(PriceLevel)
  BY MatchingAssumption DEF MatchInv, MatchingTypeOK, BookWellFormed, add_passive
<1>2. PICK o : o = [id |-> pool_idx + 1, qty |-> q]
  OBVIOUS
<1>3. o \in Order /\ o.id = pool_idx + 1 /\ o.qty = q
  <2>1. pool_idx + 1 \in 1 .. MatchCapacity
    BY <1>1, MatchingAssumption
  <2> QED
    BY <1>1, <1>2, <2>1 DEF Order
<1>4. PICK e \in Sent : e = [price |-> p, qty |-> q, side |-> side]
  BY DEF Sent
<1>5. PICK N \in Nat : N = pool_idx
  BY <1>1
<1>6. /\ pool_idx' = N + 1 /\ trades' = trades /\ incoming' = incoming
      /\ resting' = Append(resting, e)
      /\ IF side = 1 THEN bids' = WithOrder(bids, p, o) /\ asks' = asks
         ELSE asks' = WithOrder(asks, p, o) /\ bids' = bids
  BY <1>2, <1>4, <1>5 DEF add_passive
<1>7. /\ resting' \in Seq(Sent) /\ Len(resting') = N + 1 /\ resting'[N + 1] = e
      /\ \A id \in 1 .. N : resting'[id] = resting[id]
  BY <1>1, <1>5, <1>6, AppendProperties
<1>8. Numbered(o, p, side)
  BY <1>1, <1>3, <1>4, <1>5, <1>6, <1>7 DEF Numbered
<1>9. PICK M : M = WithOrder(Levels(side), p, o)
  OBVIOUS
<1>10. PICK L \in Seq(PriceLevel) : L = Levels(side) /\ WellFormed(L, side)
  BY InvSides
<1>11. Joins(L, M, p, o)
  BY <1>3, <1>9, <1>10, WithOrderJoins
<1>12. PICK K \in Seq(PriceLevel) : K = Levels(-side) /\ WellFormed(K, -side)
  BY BothSides, InvSides
<1>13. /\ \/ side = 1 /\ bids' = M /\ asks' = K
          \/ side # 1 /\ asks' = M /\ bids' = K
       /\ Levels(side)' = M /\ Levels(-side)' = K
  <2>1. CASE side = 1
    <3>1. -side # 1 /\ Levels(side) = bids /\ Levels(-side) = asks
      BY <2>1, BothSides DEF Levels
    <3> QED
      BY <1>6, <1>9, <1>12, <2>1, <3>1 DEF Levels
  <2>2. CASE side # 1
    <3>1. -side = 1 /\ Levels(side) = asks /\ Levels(-side) = bids
      BY <2>2 DEF Levels, Sides
    <3> QED
      BY <1>6, <1>9, <1>12, <2>2, <3>1 DEF Levels
  <2> QED
    BY <2>1, <2>2
<1>14. M \in Seq(PriceLevel) /\ WellFormed(M, side)'
  BY <1>3, <1>8, <1>10, <1>11, JoinsFormed DEF Joins
<1>15. WellFormed(K, -side)'
  <2>1. \A k \in DOMAIN K : K[k] \in PriceLevel /\ LevelFormed(K[k], -side)
    BY <1>12 DEF WellFormed
  <2>2. ASSUME NEW k \in DOMAIN K PROVE LevelFormed(K[k], -side)'
    <3>1. PICK l \in PriceLevel : l = K[k] /\ LevelFormed(l, -side)
      BY <2>1
    <3>2. LevelFormed(l, -side)'
      BY <1>8, <3>1, LevelStays
    <3> QED
      BY <3>1, <3>2
  <2>3. \A i, j \in DOMAIN K : K[i].price = K[j].price => i = j
    BY <1>12, Zenon DEF WellFormed
  <2> QED
    BY <2>2, <2>3 DEF WellFormed
<1>16. MatchingTypeOK'
  BY <1>1, <1>5, <1>6, <1>7, <1>13, <1>14 DEF MatchingTypeOK
<1>17. BookWellFormed'
  <2>1. ASSUME NEW s \in Sides PROVE WellFormed(Levels(s), s)'
    <3>1. CASE s = side
      <4>1. WellFormed(Levels(side), side)'
        BY <1>13, <1>14 DEF WellFormed
      <4> QED
        BY <3>1, <4>1
    <3>2. CASE s = -side
      <4>1. WellFormed(Levels(-side), -side)'
        BY <1>13, <1>15 DEF WellFormed
      <4> QED
        BY <3>2, <4>1
    <3> QED
      BY <3>1, <3>2, BothSides
  <2> QED
    BY <1>1, <1>5, <1>6, <1>7, <2>1 DEF BookWellFormed
<1>18. RestingNow' = RestingNow \cup {o}
  <2>1. RestingNow = RestingIn(L) \cup RestingIn(K)
    BY <1>10, <1>12, BothSides
  <2>2. RestingNow' = RestingIn(M) \cup RestingIn(K)
    <3>1. CASE side = 1
      BY <1>13, <3>1 DEF RestingNow
    <3>2. CASE side # 1
      BY <1>13, <3>2 DEF RestingNow
    <3> QED
      BY <3>1, <3>2
  <2>3. \A x : x \in RestingIn(M) <=> x \in RestingIn(L) \/ x = o
    BY <1>3, <1>11, JoinsRest
  <2> QED
    BY <2>1, <2>2, <2>3
<1>19. ASSUME NEW x \in RestingNow'
       PROVE  resting'[x.id].qty = x.qty + TradedFrom(trades, x.id)
  <2>1. CASE x = o
    <3>1. \A n \in 1 .. Len(trades) : trades[n].passive # N + 1
      BY <1>5 DEF MatchInv, Named
    <3>2. TradedFrom(trades, N + 1) = 0
      BY <1>1, <3>1, NothingTraded
    <3> QED
      BY <1>1, <1>3, <1>4, <1>5, <1>7, <2>1, <3>2
  <2>2. CASE x \in RestingNow
    <3>1. resting[x.id].qty = x.qty + TradedFrom(trades, x.id)
      BY <2>2 DEF MatchInv, QuantityConserved
    <3>2. x.id \in 1 .. N
      <4>1. x \in RestingIn(Levels(side)) \/ x \in RestingIn(Levels(-side))
        BY <2>2, BothSides
      <4> QED
        BY <1>5, <4>1, InvSides, BothSides
    <3> QED
      BY <1>7, <3>1, <3>2
  <2> QED
    BY <1>18, <2>1, <2>2
<1>20. ASSUME NEW id \in 1 .. N + 1, ~ Rests(id)'
       PROVE  resting'[id].qty = TradedFrom(trades, id)
  <2>1. id # N + 1 /\ ~ Rests(id)
    BY <1>3, <1>5, <1>18, <1>20 DEF Rests
  <2>2. id \in 1 .. N
    BY <2>1
  <2>3. resting[id].qty = TradedFrom(trades, id)
    BY <1>5, <2>1, <2>2 DEF MatchInv, QuantityConserved
  <2> QED
    BY <1>7, <2>2, <2>3
<1>21. QuantityConserved'
  <2>1. \A a \in DOMAIN incoming : TradedTo(trades, a) <= incoming[a].qty
    BY DEF MatchInv, QuantityConserved
  <2> QED
    BY <1>6, <1>19, <1>20, <2>1 DEF QuantityConserved
<1>22. Named(trades, Len(incoming))'
  BY <1>1, <1>5, <1>6 DEF MatchInv, Named
<1> QED
  BY <1>16, <1>17, <1>21, <1>22 DEF MatchInv

LEMMA StutterKeepsInv ==
  ASSUME MatchInv, UNCHANGED matchingVars
  PROVE  MatchInv'
<1>1. /\ bids' = bids /\ asks' = asks /\ pool_idx' = pool_idx /\ trades' = trades
      /\ resting' = resting /\ incoming' = incoming
  BY DEF matchingVars
<1>2. MatchingTypeOK'
  BY <1>1, SMTT(30) DEF MatchInv, MatchingTypeOK
<1>3. BookWellFormed'
  BY <1>1 DEF MatchInv, BookWellFormed, WellFormed, LevelFormed, Levels
<1>4. QuantityConserved'
  BY <1>1 DEF MatchInv, QuantityConserved, RestingNow, Rests
<1>5. Named(trades, Len(incoming))'
  BY <1>1 DEF MatchInv, Named
<1> QED
  BY <1>2, <1>3, <1>4, <1>5 DEF MatchInv

LEMMA MatchSpecInv == MatchingSpec => []MatchInv
<1>1. MatchingInit => MatchInv
  BY MatchInitInv
<1>2. MatchInv /\ [MatchingNext]_matchingVars => MatchInv'
  <2> SUFFICES ASSUME MatchInv, [MatchingNext]_matchingVars PROVE MatchInv'
    OBVIOUS
  <2>1. CASE UNCHANGED matchingVars
    BY <2>1, StutterKeepsInv
  <2>2. ASSUME NEW p \in LimitPrices, NEW q \in LimitQuantities, NEW side \in Sides,
               add_passive(p, q, side) \/ match_aggressive(p, q, side)
        PROVE  MatchInv'
    BY <2>2, AddKeepsInv, MatchKeepsInv
  <2>3. CASE add_refused \/ Enough
    BY <2>3, StutterKeepsInv DEF add_refused, Enough
  <2> QED
    BY <2>1, <2>2, <2>3 DEF MatchingNext
<1> QED
  BY <1>1, <1>2, PTL DEF MatchingSpec

-----------------------------------------------------------------------------
(* MatchingEngine: the theorems                                            *)

\* The fields of the engine hold what they can hold, whatever the pool's capacity and
\* however many orders are sent.
THEOREM MatchingTypesHold == MatchingSpec => []MatchingTypeOK
<1>1. MatchInv => MatchingTypeOK
  BY DEF MatchInv
<1> QED
  BY <1>1, MatchSpecInv, PTL

\* day9: add_passive and match_aggressive leave a book of one level per price, no level
\* empty, each order in the level of its price and side and in order of arrival.
THEOREM BookStaysWellFormed == MatchingSpec => []BookWellFormed
<1>1. MatchInv => BookWellFormed
  BY DEF MatchInv
<1> QED
  BY <1>1, MatchSpecInv, PTL

\* day9: what an order came with is what rests of it and what it traded, and an incoming
\* order never trades more than it asked for.
THEOREM QuantitiesConserved == MatchingSpec => []QuantityConserved
<1>1. MatchInv => QuantityConserved
  BY DEF MatchInv
<1> QED
  BY <1>1, MatchSpecInv, PTL

\* A step that is not a match trades nothing and sends nothing.
LEMMA OnlyMatchesTrade ==
  ASSUME MatchInv, [MatchingNext]_matchingVars
  PROVE  \/ trades' = trades /\ incoming' = incoming
         \/ \E p \in LimitPrices, q \in LimitQuantities, side \in Sides :
               match_aggressive(p, q, side)
<1>1. CASE UNCHANGED matchingVars
  BY <1>1 DEF matchingVars
<1>2. ASSUME NEW p \in LimitPrices, NEW q \in LimitQuantities, NEW side \in Sides,
             add_passive(p, q, side)
      PROVE  trades' = trades /\ incoming' = incoming
  BY <1>2 DEF add_passive
<1>3. CASE add_refused \/ Enough
  BY <1>3 DEF add_refused, Enough, matchingVars
<1> QED
  BY <1>1, <1>2, <1>3 DEF MatchingNext

\* day9: an order is filled only when no older one of its side and price rests any more.
THEOREM OldestFilledFirst == MatchingSpec => TimePriority
<1>1. MatchInv /\ [MatchingNext]_matchingVars => [OldestFirst]_matchingVars
  <2> SUFFICES ASSUME MatchInv, [MatchingNext]_matchingVars PROVE OldestFirst
    OBVIOUS
  <2>0. Len(trades) \in Nat
    BY DEF MatchInv, MatchingTypeOK
  <2>1. CASE trades' = trades
    BY <2>0, <2>1 DEF OldestFirst, NewTrades
  <2>2. ASSUME NEW p \in LimitPrices, NEW q \in LimitQuantities, NEW side \in Sides,
               match_aggressive(p, q, side)
        PROVE  OldestFirst
    <3>1. PICK done : Ends(done, p, q, side)
      BY <2>2, MatchEnds
    <3>2. /\ trades' = done.trades /\ resting' = resting
          /\ Named(done.trades, Len(incoming) + 1) /\ TakesOldest(done, -side)
          /\ LoopTypes(done)
      BY <3>1 DEF Ends, LoopInv
    <3>3. PICK T \in Seq(TradeEvent) : T = trades' /\ T = done.trades
      BY <3>2 DEF LoopTypes
    <3> SUFFICES ASSUME NEW n \in Len(trades) + 1 .. Len(T), NEW id \in 1 .. T[n].passive - 1,
                        resting[id].side = resting[T[n].passive].side,
                        resting[id].price = resting[T[n].passive].price,
                        Rests(id)'
                 PROVE  FALSE
      BY <3>3 DEF OldestFirst, NewTrades
    <3>4. PICK passive \in 1 .. pool_idx : passive = T[n].passive
      <4>1. n \in 1 .. Len(T)
        BY <2>0
      <4> QED
        BY <3>2, <3>3, <4>1 DEF Named
    <3>5. /\ resting[passive].side = -side /\ resting[passive].price = T[n].price
          /\ \A x \in RestingIn(done.levels) : resting[x.id].price = T[n].price => passive <= x.id
      BY <3>2, <3>3, <3>4 DEF TakesOldest
    <3>6. id \in 1 .. pool_idx /\ id < passive
      BY <3>4 DEF MatchInv, MatchingTypeOK
    <3>7. \A i \in 1 .. pool_idx :
             Rests(i)' <=> IF resting[i].side = -side THEN Within(done.levels, i)
                           ELSE Within(Levels(side), i)
      <4>1. AfterMatch(done, side)
        BY <3>1, RestingAfter
      <4> QED
        BY <4>1 DEF AfterMatch
    <3>8. resting[id].side = -side /\ resting[id].price = T[n].price
      BY <3>4, <3>5
    <3>9. Within(done.levels, id)
      BY <3>6, <3>7, <3>8
    <3>10. PICK x \in RestingIn(done.levels) : x.id = id
      BY <3>9 DEF Within
    <3> QED
      BY <3>5, <3>6, <3>8, <3>10
  <2> QED
    BY <2>1, <2>2, OnlyMatchesTrade
<1> QED
  BY <1>1, MatchSpecInv, PTL DEF MatchingSpec, TimePriority

\* day9: in a sorted book an order is filled only when every better one is gone, and an
\* incoming order goes short only when nothing it crosses is left.
THEOREM BestExecutionKept == MatchingSpec => BestExecutionIfSorted
<1> DEFINE Best == \A side \in Sides : Matches(side) /\ SortedBest(Levels(side), side)
                      => BestFirst(side) /\ ShortOnlyWhenDry(side)
<1>1. MatchInv /\ [MatchingNext]_matchingVars => [Best]_matchingVars
  <2> SUFFICES ASSUME MatchInv, [MatchingNext]_matchingVars,
                      NEW own \in Sides, Matches(own), SortedBest(Levels(own), own)
               PROVE  BestFirst(own) /\ ShortOnlyWhenDry(own)
    OBVIOUS
  <2>0. Len(trades) \in Nat /\ Len(incoming) \in Nat /\ incoming \in Seq(Sent)
    BY DEF MatchInv, MatchingTypeOK
  <2>1. incoming' # incoming
    BY <2>0 DEF Matches
  <2>2. PICK p \in LimitPrices, q \in LimitQuantities, side \in Sides :
               match_aggressive(p, q, side)
    BY <2>1, OnlyMatchesTrade
  <2>3. PICK done : Ends(done, p, q, side)
    BY <2>2, MatchEnds
  <2>4. PICK e \in Sent : e = [price |-> p, qty |-> q, side |-> side]
    BY DEF Sent
  <2>5. PICK A \in Nat : A = Len(incoming)
    BY <2>0
  <2>6. /\ e.price = p /\ e.qty = q /\ e.side = side
        /\ incoming' = Append(incoming, e)
    BY <2>3, <2>4 DEF Ends
  <2>7. Len(incoming') = A + 1 /\ incoming'[A + 1] = e
    BY <2>0, <2>5, <2>6, AppendProperties
  <2>8. Last(incoming') = e
    BY <2>7 DEF Last
  <2>9. own = -side /\ -own = side /\ side \in Int /\ own \in Int
    <3>1. side = -own
      BY <2>6, <2>8 DEF Matches
    <3> QED
      BY <3>1, BothSides DEF Sides
  <2>10. /\ LoopInv(done, own, q) /\ ~ Goes(done, p, side) /\ TakesBest(done, own)
         /\ Levels(own)' = done.levels /\ trades' = done.trades
         /\ pool_idx' = pool_idx /\ resting' = resting
    BY <2>3, <2>9 DEF Ends
  <2>11. PICK T \in Seq(TradeEvent) : T = trades' /\ T = done.trades
    BY <2>10 DEF LoopInv, LoopTypes
  <2>12. BestFirst(own)
    <3> SUFFICES ASSUME NEW n \in Len(trades) + 1 .. Len(T), NEW id \in 1 .. pool_idx,
                        resting[id].side = own, own * resting[id].price > own * T[n].price,
                        Rests(id)'
                 PROVE  FALSE
      BY <2>11 DEF BestFirst, NewTrades
    <3>1. \A i \in 1 .. pool_idx :
             Rests(i)' <=> IF resting[i].side = -side THEN Within(done.levels, i)
                           ELSE Within(Levels(side), i)
      <4>1. AfterMatch(done, side)
        BY <2>3, RestingAfter
      <4> QED
        BY <4>1 DEF AfterMatch
    <3>2. PICK x \in RestingIn(done.levels) : x.id = id
      BY <2>9, <3>1 DEF Within
    <3>3. own * resting[x.id].price <= own * T[n].price
      BY <2>10, <2>11 DEF TakesBest
    <3>4. resting[id].price \in Int /\ T[n].price \in Int
      <4>1. n \in 1 .. Len(T) /\ resting \in Seq(Sent) /\ id \in 1 .. Len(resting)
        BY <2>0 DEF MatchInv, MatchingTypeOK, BookWellFormed
      <4>2. T[n] \in TradeEvent /\ resting[id] \in Sent
        BY <4>1
      <4> QED
        BY <4>2, MatchingAssumption DEF TradeEvent, Sent
    <3>5. PICK a \in Int, b \in Int : a = own * resting[id].price /\ b = own * T[n].price
      BY <2>9, <3>4
    <3> QED
      BY <3>2, <3>3, <3>5
  <2>13. ShortOnlyWhenDry(own)
    <3>1. LoopTypes(done) /\ TradedTo(T, A + 1) + done.remaining = q
      BY <2>5, <2>10, <2>11 DEF LoopInv, Conserves
    <3>2. done.remaining \in Nat /\ TradedTo(T, A + 1) \in Nat /\ q \in Int
      BY <3>1, MatchingAssumption, TradedAreNumbers DEF LoopTypes
    <3>3. PICK L \in Seq(PriceLevel) : L = done.levels
      BY <3>1 DEF LoopTypes
    <3> SUFFICES ASSUME TradedTo(T, A + 1) < q, NEW k \in DOMAIN L, Crosses(L[k], p, side)
                 PROVE  FALSE
      BY <2>6, <2>7, <2>8, <2>10, <2>11, <3>3 DEF ShortOnlyWhenDry
    <3>4. done.remaining > 0
      BY <3>1, <3>2
    <3>5. k \in 1 .. Len(L) /\ 1 \in DOMAIN L /\ L # <<>>
      BY InLevels
    <3>6. ~ Crosses(L[1], p, side)
      BY <2>10, <3>3, <3>4, <3>5 DEF Goes
    <3>7. k = 1 \/ 1 < k
      BY <3>5
    <3>8. 1 < k => own * L[1].price >= own * L[k].price
      BY <2>10, <3>3, <3>5 DEF TakesBest, SortedBest
    <3>9. L[1].price \in Int /\ L[k].price \in Int /\ p \in Int
      BY <3>5, InLevels, MatchingAssumption
    <3>10. \/ side = 1 /\ own = -1
           \/ side = -1 /\ own = 1
      BY <2>9 DEF Sides
    <3>11. CASE k = 1
      BY <3>6, <3>11
    <3>12. CASE 1 < k
      <4>1. CASE side = 1 /\ own = -1
        <5>1. L[1].price <= L[k].price /\ ~ (L[1].price <= p) /\ L[k].price <= p
          BY <3>6, <3>8, <3>9, <3>12, <4>1 DEF Crosses
        <5> QED
          BY <3>9, <5>1
      <4>2. CASE side = -1 /\ own = 1
        <5>1. L[1].price >= L[k].price /\ ~ (L[1].price >= p) /\ L[k].price >= p
          BY <3>6, <3>8, <3>9, <3>12, <4>2 DEF Crosses
        <5> QED
          BY <3>9, <5>1
      <4> QED
        BY <3>10, <4>1, <4>2
    <3> QED
      BY <3>7, <3>11, <3>12
  <2> QED
    BY <2>12, <2>13
<1> QED
  BY <1>1, MatchSpecInv, PTL DEF MatchingSpec, BestExecutionIfSorted

-----------------------------------------------------------------------------
(* ReplayEngine: sums over the slots                                       *)

\* The loop over the slots adds up the function it is given.
LEMMA SumOverSums ==
  ASSUME NEW f
  PROVE  \E v : SumsOf(v, f, Slots) /\ SumOver(f) = v[Slots]
<1> DEFINE sum == CHOOSE g : g = [n \in 0 .. Slots |-> IF n = 0 THEN 0 ELSE g[n - 1] + f[n - 1]]
<1>1. \E v : v = [n \in 0 .. Slots |-> IF n = 0 THEN 0 ELSE v[n - 1] + f[n - 1]]
  BY SumsExist, SlotsAssumption DEF SumsOf
<1>2. sum = [n \in 0 .. Slots |-> IF n = 0 THEN 0 ELSE sum[n - 1] + f[n - 1]]
  BY <1>1, Zenon
<1>3. SumOver(f) = sum[Slots]
  BY Zenon DEF SumOver
<1> HIDE DEF sum
<1> QED
  BY <1>2, <1>3 DEF SumsOf

-----------------------------------------------------------------------------
(* The generator and the validator                                         *)

\* Every number up to the last sent was applied, skipped or lost, and those between
\* the last sent and the next were lost; the last tick sent is never expected again.
Stream == /\ lost \subseteq 1 .. seq - 1
          /\ applied \subseteq 1 .. expected_seq - 1
          /\ skipped \subseteq 1 .. expected_seq - 1
          /\ expected_seq .. seq - 1 \subseteq lost
          /\ last # <<>> => last[1].seq < expected_seq
          /\ EverySequenceAccounted

\* The tick Send draws and hands to process.
LEMMA SendPicks ==
  ASSUME ReplayTypeOK, Send
  PROVE  \E t \in Tick : /\ t.seq = seq /\ last' = <<t>> /\ process(t)
                         /\ seq' = seq + 1 /\ lost' = lost /\ events' \in 0 .. MaxEvents
<1>1. seq \in Nat \ {0} /\ events \in 0 .. MaxEvents
  BY DEF ReplayTypeOK
<1>2. PICK d \in Drawn :
        LET t == [seq |-> seq, order_id |-> d.order_id, price |-> d.price,
                  qty |-> d.qty, type |-> d.type]
        IN  last' = <<t>> /\ process(t)
  BY DEF Send
<1> DEFINE t == [seq |-> seq, order_id |-> d.order_id, price |-> d.price,
                 qty |-> d.qty, type |-> d.type]
<1>3. t \in Tick /\ t.seq = seq
  BY <1>1 DEF Tick, Drawn
<1>4. last' = <<t>> /\ process(t)
  BY <1>2
<1>5. seq' = seq + 1 /\ lost' = lost /\ events' \in 0 .. MaxEvents
  BY <1>1, StreamAssumption DEF Send
<1> QED
  BY <1>3, <1>4, <1>5

\* The generator's repetition of its last tick is a duplicate to the validator.
LEMMA DuplicateIsSkipped ==
  ASSUME ReplayTypeOK, Stream, Duplicate
  PROVE  /\ UNCHANGED <<bookVars, expected_seq, gaps, applied, skipped, seq, last, lost>>
         /\ duplicates' = duplicates + 1 /\ events' \in 0 .. MaxEvents
<1>1. /\ last[1].seq \in Nat /\ expected_seq \in Nat /\ last[1].seq < expected_seq
      /\ events \in 0 .. MaxEvents
  BY DEF ReplayTypeOK, Stream, Duplicate, Tick
<1>2. ~InSequence(last[1].seq) /\ ~Ahead(last[1].seq)
  BY <1>1 DEF InSequence, Ahead
<1>3. Skip(last[1].seq) /\ UNCHANGED bookVars
  BY <1>2 DEF Duplicate, process
<1> QED
  BY <1>1, <1>3, StreamAssumption DEF Skip, Duplicate

\* A number is added to the ones below it.
LEMMA IntervalGrows ==
  ASSUME NEW e \in Nat \ {0}
  PROVE  1 .. e + 1 - 1 = (1 .. e - 1) \cup {e}
  OBVIOUS

LEMMA CardinalityGrows ==
  ASSUME NEW e \in Nat, NEW S, S \subseteq 1 .. e - 1, NEW n, n \notin S
  PROVE  Cardinality(S) \in Nat /\ Cardinality(S \cup {n}) = Cardinality(S) + 1
<1>1. IsFiniteSet(1 .. e - 1)
  BY FS_Interval
<1>2. IsFiniteSet(S)
  BY <1>1, FS_Subset
<1> QED
  BY <1>2, FS_AddElement, FS_CardinalityType

LEMMA StreamKept ==
  ASSUME ReplayTypeOK, Stream, [ReplayNext]_replayVars
  PROVE  Stream'
<1>1. /\ seq \in Nat \ {0} /\ expected_seq \in 1 .. seq /\ gaps \in Nat /\ processed_ticks \in Nat
  BY DEF ReplayTypeOK
<1>2. CASE Lose
  <2>1. /\ seq' = seq + 2 /\ lost' = lost \cup {seq, seq + 1}
        /\ UNCHANGED <<last, expected_seq, gaps, applied, skipped, processed_ticks>>
    BY <1>2 DEF Lose, validatorVars, bookVars
  <2>2. {n \in lost' : n < expected_seq} = {n \in lost : n < expected_seq}
    BY <1>1, <2>1
  <2>3. /\ lost' \subseteq 1 .. seq' - 1 /\ expected_seq .. seq' - 1 \subseteq lost'
        /\ applied \cap lost' = {} /\ skipped \cap lost' = {}
    BY <1>1, <2>1 DEF Stream, EverySequenceAccounted
  <2> QED
    BY <2>1, <2>2, <2>3 DEF Stream, EverySequenceAccounted
<1>3. CASE Duplicate
  <2>1. UNCHANGED <<processed_ticks, expected_seq, gaps, applied, skipped, seq, last, lost>>
    BY <1>3, DuplicateIsSkipped DEF bookVars
  <2> QED
    BY <2>1 DEF Stream, EverySequenceAccounted
<1>4. CASE Send
  <2> PICK t \in Tick : /\ t.seq = seq /\ last' = <<t>> /\ process(t)
                        /\ seq' = seq + 1 /\ lost' = lost
    BY <1>4, SendPicks
  <2>1. last'[1].seq = seq
    OBVIOUS
  <2>2. seq \notin lost /\ seq \notin applied /\ seq \notin skipped
    BY <1>1 DEF Stream
  <2>3. /\ Cardinality(applied) \in Nat /\ Cardinality(applied \cup {seq}) = Cardinality(applied) + 1
        /\ Cardinality(skipped) \in Nat /\ Cardinality(skipped \cup {seq}) = Cardinality(skipped) + 1
    <3>1. /\ expected_seq \in Nat /\ applied \subseteq 1 .. expected_seq - 1
          /\ skipped \subseteq 1 .. expected_seq - 1
      BY <1>1 DEF Stream
    <3> QED
      BY <2>2, <3>1, CardinalityGrows
  <2>6. {n \in lost : n < seq + 1} = lost /\ {n \in lost : n < seq} = lost
    <3>1. \A n \in lost : n \in 1 .. seq - 1
      BY DEF Stream
    <3>2. \A n \in lost : n < seq + 1 /\ n < seq
      BY <1>1, <3>1
    <3> QED
      BY <3>2
  <2>4. CASE InSequence(seq)
    <3>1. /\ expected_seq = seq /\ expected_seq' = seq + 1 /\ applied' = applied \cup {seq}
          /\ gaps' = gaps /\ skipped' = skipped /\ processed_ticks' = processed_ticks + 1
      BY <1>1, <2>4 DEF process, InSequence, Ahead, Accept, Apply
    <3>2. {n \in lost : n < seq + 1} = {n \in lost : n < seq}
      BY <2>6
    <3>3. 1 .. seq' - 1 = (1 .. seq - 1) \cup {seq}
      BY <1>1, IntervalGrows
    <3>4. EverySequenceAccounted'
      <4>1. 1 .. seq' - 1 = applied' \cup skipped' \cup {n \in lost : n < seq'}
        BY <3>1, <3>2, <3>3 DEF Stream, EverySequenceAccounted
      <4>2. applied' \cap skipped' = {} /\ applied' \cap lost = {} /\ skipped' \cap lost = {}
        BY <2>2, <3>1 DEF Stream, EverySequenceAccounted
      <4>3. processed_ticks' = Cardinality(applied') /\ gaps' = Cardinality(skipped')
        BY <2>3, <3>1 DEF Stream, EverySequenceAccounted
      <4> QED
        BY <3>1, <4>1, <4>2, <4>3 DEF EverySequenceAccounted
    <3>5. /\ lost' \subseteq 1 .. seq' - 1 /\ applied' \subseteq 1 .. seq' - 1
          /\ skipped' \subseteq 1 .. seq' - 1 /\ seq' .. seq' - 1 \subseteq lost'
      BY <1>1, <3>1, <3>3 DEF Stream
    <3> QED
      BY <1>1, <2>1, <3>1, <3>4, <3>5 DEF Stream
  <2>5. CASE Ahead(seq)
    <3>1. /\ expected_seq < seq /\ expected_seq' = seq + 1 /\ skipped' = skipped \cup {seq}
          /\ gaps' = gaps + 1 /\ applied' = applied /\ processed_ticks' = processed_ticks
      BY <1>1, <2>5 DEF process, InSequence, Ahead, CatchUp, bookVars
    <3>2. 1 .. seq - 1 = applied \cup skipped \cup {n \in lost : n < seq}
      <4>1. \A n \in 1 .. seq - 1 : n \in 1 .. expected_seq - 1 \/ n \in expected_seq .. seq - 1
        BY <1>1
      <4>2. \A n \in 1 .. expected_seq - 1 : n \in applied \cup skipped \cup lost /\ n < seq
        BY <1>1 DEF Stream, EverySequenceAccounted
      <4>3. \A n \in expected_seq .. seq - 1 : n \in lost /\ n < seq
        BY <1>1 DEF Stream
      <4>4. \A n \in applied \cup skipped \cup lost : n \in 1 .. seq - 1
        BY <1>1, <3>1 DEF Stream
      <4> QED
        BY <4>1, <4>2, <4>3, <4>4
    <3>3. {n \in lost : n < seq + 1} = {n \in lost : n < seq}
      BY <2>6
    <3>4. 1 .. seq' - 1 = (1 .. seq - 1) \cup {seq}
      BY <1>1, IntervalGrows
    <3>5. EverySequenceAccounted'
      <4>1. 1 .. seq' - 1 = applied' \cup skipped' \cup {n \in lost : n < seq'}
        BY <3>1, <3>2, <3>3, <3>4
      <4>2. applied' \cap skipped' = {} /\ applied' \cap lost = {} /\ skipped' \cap lost = {}
        BY <2>2, <3>1 DEF Stream, EverySequenceAccounted
      <4>3. processed_ticks' = Cardinality(applied') /\ gaps' = Cardinality(skipped')
        BY <2>3, <3>1 DEF Stream, EverySequenceAccounted
      <4> QED
        BY <3>1, <4>1, <4>2, <4>3 DEF EverySequenceAccounted
    <3>6. /\ lost' \subseteq 1 .. seq' - 1 /\ applied' \subseteq 1 .. seq' - 1
          /\ skipped' \subseteq 1 .. seq' - 1 /\ seq' .. seq' - 1 \subseteq lost'
      BY <1>1, <3>1, <3>4 DEF Stream
    <3> QED
      BY <1>1, <2>1, <3>1, <3>5, <3>6 DEF Stream
  <2> QED
    BY <1>1, <2>4, <2>5 DEF InSequence, Ahead
<1>5. CASE Replayed \/ UNCHANGED replayVars
  <2>1. UNCHANGED <<processed_ticks, expected_seq, gaps, applied, skipped, seq, last, lost>>
    BY <1>5 DEF Replayed, replayVars, genVars, validatorVars, bookVars
  <2> QED
    BY <2>1 DEF Stream, EverySequenceAccounted
<1> QED
  BY <1>2, <1>3, <1>4, <1>5 DEF ReplayNext

-----------------------------------------------------------------------------
(* Types                                                                   *)

\* What process does to the one slot of its tick.
LEMMA ApplyToSlot ==
  ASSUME ReplayTypeOK, NEW t \in Tick, Apply(t)
  PROVE  \E s \in SlotIndices, new \in Ord :
            /\ new = Updated(orders[s], t) /\ orders[s] \in Ord
            /\ orders' = [orders EXCEPT ![s] = new]
            /\ IF new.side = 1
               THEN bid_volume' = bid_volume + (new.qty - orders[s].qty) /\ ask_volume' = ask_volume
               ELSE ask_volume' = ask_volume + (new.qty - orders[s].qty) /\ bid_volume' = bid_volume
            /\ best_bid' = IF /\ new.side = 1 /\ new.qty - orders[s].qty # 0 /\ new.qty > 0
                              /\ t.price > best_bid
                           THEN t.price ELSE best_bid
            /\ best_ask' = IF /\ new.side = -1 /\ new.qty - orders[s].qty # 0 /\ new.qty > 0
                              /\ t.price < best_ask
                           THEN t.price ELSE best_ask
            /\ stray' = stray + LeftBehind(orders[s], new)
            /\ unseen' = CASE t.type # "ADD" -> unseen
                           [] t.type = "ADD" /\ new.qty - orders[s].qty = 0 -> unseen \cup {s}
                           [] OTHER -> unseen \ {s}
<1> DEFINE s == t.order_id % Slots
           new == Updated(orders[s], t)
<1>1. s \in SlotIndices
  <2>1. t.order_id \in Nat
    <3>1. t.order_id \in OrderIds
      BY DEF Tick
    <3> QED
      BY <3>1, DrawnAssumption
  <2>2. t.order_id % Slots \in 0 .. Slots - 1
    <3>1. t.order_id \in Int
      BY <2>1
    <3> QED
      BY <3>1, SlotsAssumption, DivisionWithRemainder
  <2> QED
    BY <2>2 DEF SlotIndices
<1>2. orders[s] \in Ord
  BY <1>1 DEF ReplayTypeOK, SlotIndices
<1>3. /\ t.price \in Nat /\ t.qty \in Nat /\ t.type \in Types
  BY DrawnAssumption DEF Tick
<1>4. new \in Ord
  <2>1. CASE t.type = "ADD"
    BY <1>3, <2>1 DEF Updated, Ord, SideOf
  <2>2. CASE t.type = "MODIFY"
    BY <1>2, <1>3, <2>2 DEF Updated, Ord
  <2>3. CASE t.type \notin {"ADD", "MODIFY"}
    BY <1>2, <1>3, <2>3 DEF Updated, Ord
  <2> QED
    BY <2>1, <2>2, <2>3
<1> HIDE DEF s
<1>5. /\ new = Updated(orders[s], t)
      /\ orders' = [orders EXCEPT ![s] = new]
      /\ IF new.side = 1
         THEN bid_volume' = bid_volume + (new.qty - orders[s].qty) /\ ask_volume' = ask_volume
         ELSE ask_volume' = ask_volume + (new.qty - orders[s].qty) /\ bid_volume' = bid_volume
      /\ best_bid' = IF /\ new.side = 1 /\ new.qty - orders[s].qty # 0 /\ new.qty > 0
                        /\ t.price > best_bid
                     THEN t.price ELSE best_bid
      /\ best_ask' = IF /\ new.side = -1 /\ new.qty - orders[s].qty # 0 /\ new.qty > 0
                        /\ t.price < best_ask
                     THEN t.price ELSE best_ask
      /\ stray' = stray + LeftBehind(orders[s], new)
      /\ unseen' = CASE t.type # "ADD" -> unseen
                     [] t.type = "ADD" /\ new.qty - orders[s].qty = 0 -> unseen \cup {s}
                     [] OTHER -> unseen \ {s}
  BY DEF Apply, Delta, IsBid, Improves, Beats, s
<1> HIDE DEF new
<1> QED
  BY <1>1, <1>2, <1>4, <1>5

LEMMA TypesKept ==
  ASSUME ReplayTypeOK, Stream, [ReplayNext]_replayVars
  PROVE  ReplayTypeOK'
<1>1. CASE Lose
  <2>1. UNCHANGED <<bookVars, expected_seq, gaps, duplicates, last>> /\ seq' = seq + 2
    BY <1>1 DEF Lose, validatorVars
  <2>2. /\ events' \in 0 .. MaxEvents /\ seq' \in Nat \ {0} /\ expected_seq' \in 1 .. seq'
    BY <1>1, <2>1, StreamAssumption DEF Lose, ReplayTypeOK
  <2>3. last' # <<>> => last'[1] \in Tick /\ last'[1].seq < seq'
    <3>1. \A t \in Tick : t.seq \in Nat
      BY DEF Tick
    <3> QED
      BY <2>1, <3>1 DEF ReplayTypeOK
  <2> QED
    BY <2>1, <2>2, <2>3 DEF ReplayTypeOK, bookVars
<1>2. CASE Duplicate
  <2>1. /\ UNCHANGED <<bookVars, expected_seq, gaps, seq, last>>
        /\ duplicates' = duplicates + 1 /\ events' \in 0 .. MaxEvents
    BY <1>2, DuplicateIsSkipped
  <2>2. duplicates' \in Nat
    BY <2>1 DEF ReplayTypeOK
  <2> QED
    BY <2>1, <2>2 DEF bookVars, ReplayTypeOK
<1>3. CASE Send
  <2> PICK t \in Tick : /\ t.seq = seq /\ last' = <<t>> /\ process(t)
                        /\ seq' = seq + 1 /\ lost' = lost /\ events' \in 0 .. MaxEvents
    BY <1>3, SendPicks
  <2>1. seq' \in Nat \ {0} /\ last'[1] \in Tick /\ last'[1].seq < seq'
    BY DEF ReplayTypeOK
  <2>2. expected_seq' \in 1 .. seq' /\ gaps' \in Nat /\ duplicates' \in Nat
    BY DEF ReplayTypeOK, process, InSequence, Ahead, Accept, CatchUp, Skip
  <2>3. CASE Apply(t)
    <3> PICK s \in SlotIndices, new \in Ord :
            /\ orders[s] \in Ord
            /\ orders' = [orders EXCEPT ![s] = new]
            /\ IF new.side = 1
               THEN bid_volume' = bid_volume + (new.qty - orders[s].qty) /\ ask_volume' = ask_volume
               ELSE ask_volume' = ask_volume + (new.qty - orders[s].qty) /\ bid_volume' = bid_volume
            /\ best_bid' \in {t.price, best_bid}
            /\ best_ask' \in {t.price, best_ask}
            /\ stray' = stray + LeftBehind(orders[s], new)
            /\ unseen' \in {unseen, unseen \cup {s}, unseen \ {s}}
      BY <2>3, ApplyToSlot
    <3>1. orders' \in [0 .. Slots - 1 -> Ord]
      BY DEF ReplayTypeOK, SlotIndices
    <3>2. new.qty - orders[s].qty \in Int
      BY DEF Ord
    <3>3. bid_volume' \in Int /\ ask_volume' \in Int
      BY <3>2 DEF ReplayTypeOK
    <3>4. best_bid' \in Nat /\ best_ask' \in Nat
      BY DrawnAssumption DEF ReplayTypeOK, Tick
    <3>5. stray' \in Int /\ unseen' \subseteq 0 .. Slots - 1
      <4>1. LeftBehind(orders[s], new) \in Int
        BY DEF LeftBehind, Ord
      <4> QED
        BY <4>1 DEF ReplayTypeOK, SlotIndices
    <3>6. processed_ticks' \in Nat /\ history' \in Seq(Nat)
      <4>1. processed_ticks' = processed_ticks + 1 /\ history' \in {history, Append(history, processed_ticks')}
        BY <2>3 DEF Apply
      <4>2. processed_ticks' \in Nat
        BY <4>1 DEF ReplayTypeOK
      <4>3. history \in Seq(Nat)
        BY DEF ReplayTypeOK
      <4>4. \A n \in Nat : Append(history, n) \in Seq(Nat)
        BY <4>3, AppendProperties
      <4> QED
        BY <4>1, <4>2, <4>3, <4>4, Zenon
    <3> QED
      BY <2>1, <2>2, <3>1, <3>3, <3>4, <3>5, <3>6 DEF ReplayTypeOK
  <2>4. CASE UNCHANGED bookVars
    BY <2>1, <2>2, <2>4 DEF ReplayTypeOK, bookVars
  <2> QED
    BY <2>3, <2>4 DEF process
<1>4. CASE Replayed \/ UNCHANGED replayVars
  BY <1>4 DEF Replayed, replayVars, genVars, validatorVars, bookVars, ReplayTypeOK
<1> QED
  BY <1>1, <1>2, <1>3, <1>4 DEF ReplayNext

LEMMA StartTyped == ReplayInit => ReplayTypeOK /\ Stream
<1> SUFFICES ASSUME ReplayInit PROVE ReplayTypeOK /\ Stream
  OBVIOUS
<1>1. ReplayTypeOK
  BY StreamAssumption DEF ReplayInit, ReplayTypeOK, Ord
<1>2. Cardinality({}) = 0
  BY FS_EmptySet
<1>3. Stream
  BY <1>2 DEF ReplayInit, Stream, EverySequenceAccounted
<1> QED
  BY <1>1, <1>3

LEMMA AlwaysStream == ReplaySpec => [](ReplayTypeOK /\ Stream)
  BY StartTyped, TypesKept, StreamKept, PTL DEF ReplaySpec

\* The C++ objects of the generator, the validator and the engine hold what their
\* types say, for any stream; no tick the generator sends is older than its last.
THEOREM ReplayTypesHold == ReplaySpec => []ReplayTypeOK
  BY AlwaysStream, PTL

\* SequenceValidator::validate and ReplayEngine::process, for any stream: every
\* sequence number below the expected one was applied once, or lost, or given up at a
\* gap, never two of these, and processed_ticks and gaps count the first and the last.
THEOREM SequencesAccounted == ReplaySpec => []EverySequenceAccounted
<1>1. Stream => EverySequenceAccounted
  BY DEF Stream
<1> QED
  BY <1>1, AlwaysStream, PTL

-----------------------------------------------------------------------------
(* Volumes                                                                 *)

\* What the slots of S hold in an array o of orders.
HeldIn(o, S) == [s \in SlotIndices |-> IF s \in S THEN o[s].qty ELSE 0]

LEMMA RebuiltIsHeld == \A S : RebuiltVolume(S) = SumOver(HeldIn(orders, S))
  BY DEF RebuiltVolume, HeldIn

\* When one slot's share of a sum changes, the sum changes by as much.
LEMMA SumOverChange ==
  ASSUME NEW f \in [SlotIndices -> Int], NEW g \in [SlotIndices -> Int],
         NEW s \in SlotIndices, \A n \in SlotIndices \ {s} : g[n] = f[n]
  PROVE  SumOver(f) \in Int /\ SumOver(g) = SumOver(f) + (g[s] - f[s])
<1>1. PICK v : SumsOf(v, f, Slots) /\ SumOver(f) = v[Slots]
  BY SumOverSums
<1>2. PICK w : SumsOf(w, g, Slots) /\ SumOver(g) = w[Slots]
  BY SumOverSums
<1>3. Slots \in Nat /\ Slots \in 0 .. Slots /\ \A n \in 0 .. Slots - 1 : f[n] \in Int /\ g[n] \in Int
  BY SlotsAssumption DEF SlotIndices
<1>4. w[Slots] = v[Slots] + (g[s] - f[s])
  <2>1. s \in 0 .. Slots - 1 /\ \A n \in 0 .. Slots - 1 : n # s => g[n] = f[n]
    BY DEF SlotIndices
  <2> QED
    BY <1>1, <1>2, <1>3, <2>1, SumsChange
<1>5. v[Slots] \in Int
  BY <1>1, <1>3, SumsAreNumbers
<1> QED
  BY <1>1, <1>2, <1>4, <1>5

LEMMA SumOverZeros ==
  ASSUME NEW f, \A n \in SlotIndices : f[n] = 0
  PROVE  SumOver(f) = 0
<1>1. PICK v : SumsOf(v, f, Slots) /\ SumOver(f) = v[Slots]
  BY SumOverSums
<1>2. v[Slots] = 0
  BY <1>1, SlotsAssumption, SumsOfZeros DEF SlotIndices
<1> QED
  BY <1>1, <1>2

\* What slot n adds to the volume rebuilt from S while it holds o.
Part(o, n, S) == IF n \in S THEN o.qty ELSE 0

\* How a step that writes one slot moves the volume rebuilt from a set of slots,
\* which the step may move that slot into or out of.
LEMMA RebuildChange ==
  ASSUME ReplayTypeOK, ReplayTypeOK', NEW s \in SlotIndices, NEW new \in Ord,
         orders'[s] = new, \A n \in SlotIndices \ {s} : orders'[n] = orders[n],
         NEW S, NEW T, \A n \in SlotIndices \ {s} : n \in S <=> n \in T
  PROVE  SumOver(HeldIn(orders', T))
           = SumOver(HeldIn(orders, S)) + (Part(new, s, T) - Part(orders[s], s, S))
<1> DEFINE f == HeldIn(orders, S)
           g == HeldIn(orders', T)
<1>1. \A n \in SlotIndices : orders[n] \in Ord /\ orders'[n] \in Ord
  BY DEF ReplayTypeOK, SlotIndices
<1>2. \A o \in Ord : o.qty \in Int
  BY DEF Ord
<1>3. f \in [SlotIndices -> Int] /\ g \in [SlotIndices -> Int]
  BY <1>1, <1>2 DEF HeldIn
<1>5. \A n \in SlotIndices \ {s} : g[n] = f[n]
  BY DEF HeldIn
<1>6. /\ g[s] = IF s \in T THEN new.qty ELSE 0
      /\ f[s] = IF s \in S THEN orders[s].qty ELSE 0
  BY DEF HeldIn
<1> HIDE DEF f, g
<1>7. SumOver(g) = SumOver(f) + (g[s] - f[s])
  BY <1>3, <1>5, SumOverChange
<1> QED
  BY <1>6, <1>7 DEF f, g, Part

LEMMA RebuiltAreNumbers ==
  ASSUME ReplayTypeOK, NEW S
  PROVE  RebuiltVolume(S) \in Int
<1>1. \A n \in SlotIndices : orders[n].qty \in Int
  BY DEF ReplayTypeOK, SlotIndices, Ord
<1>2. HeldIn(orders, S) \in [SlotIndices -> Int]
  BY <1>1 DEF HeldIn
<1>3. 0 \in SlotIndices
  BY SlotsAssumption DEF SlotIndices
<1>4. SumOver(HeldIn(orders, S)) \in Int
  BY <1>2, <1>3, SumOverChange
<1> QED
  BY <1>4, RebuiltIsHeld

OfBid(o) == IF o.side = 1 THEN o.qty ELSE 0
OfAsk(o) == IF o.side # 1 THEN o.qty ELSE 0

\* How such a step moves the volumes rebuilt from the two sides of the array.
LEMMA RebuiltSides ==
  ASSUME ReplayTypeOK, ReplayTypeOK', NEW s \in SlotIndices, NEW new \in Ord,
         orders' = [orders EXCEPT ![s] = new]
  PROVE  /\ RebuiltVolume(Resting(1))'
              = RebuiltVolume(Resting(1)) + (OfBid(new) - OfBid(orders[s]))
         /\ RebuiltVolume(Resting(-1) \cup Resting(0))'
              = RebuiltVolume(Resting(-1) \cup Resting(0)) + (OfAsk(new) - OfAsk(orders[s]))
<1> DEFINE B == Resting(1)
           A == Resting(-1) \cup Resting(0)
           Bn == {n \in SlotIndices : orders'[n].side = 1}
           An == {n \in SlotIndices : orders'[n].side = -1} \cup {n \in SlotIndices : orders'[n].side = 0}
<1>1. orders'[s] = new /\ \A n \in SlotIndices \ {s} : orders'[n] = orders[n]
  BY DEF ReplayTypeOK, SlotIndices
<1>2. new.side \in {0, 1, -1} /\ orders[s].side \in {0, 1, -1}
  BY DEF ReplayTypeOK, SlotIndices, Ord
<1>3. \A n \in SlotIndices \ {s} : n \in B <=> n \in Bn
  BY <1>1 DEF Resting
<1>10. \A n \in SlotIndices \ {s} : n \in A <=> n \in An
  BY <1>1 DEF Resting
<1>4. /\ s \in B <=> orders[s].side = 1
      /\ s \in A <=> orders[s].side # 1
      /\ s \in Bn <=> new.side = 1
      /\ s \in An <=> new.side # 1
  BY <1>1, <1>2 DEF Resting
<1>5. /\ RebuiltVolume(Resting(1))' = SumOver(HeldIn(orders', Bn))
      /\ RebuiltVolume(Resting(-1) \cup Resting(0))' = SumOver(HeldIn(orders', An))
  BY DEF RebuiltVolume, Resting, HeldIn
<1>6. RebuiltVolume(B) = SumOver(HeldIn(orders, B)) /\ RebuiltVolume(A) = SumOver(HeldIn(orders, A))
  BY RebuiltIsHeld
<1> HIDE DEF A, B, An, Bn
<1>7. SumOver(HeldIn(orders', Bn))
        = SumOver(HeldIn(orders, B)) + (Part(new, s, Bn) - Part(orders[s], s, B))
  BY <1>1, <1>3, RebuildChange, ZenonT(60)
<1>8. SumOver(HeldIn(orders', An))
        = SumOver(HeldIn(orders, A)) + (Part(new, s, An) - Part(orders[s], s, A))
  BY <1>1, <1>10, RebuildChange, ZenonT(60)
<1>9. /\ RebuiltVolume(Resting(1))' = RebuiltVolume(B) + (OfBid(new) - OfBid(orders[s]))
      /\ RebuiltVolume(Resting(-1) \cup Resting(0))'
           = RebuiltVolume(A) + (OfAsk(new) - OfAsk(orders[s]))
  BY <1>4, <1>5, <1>6, <1>7, <1>8 DEF OfBid, OfAsk, Part
<1> QED
  BY <1>9 DEF A, B

Volumes == VolumesMatchRebuild /\ SidesOffByOverwrites

\* A tick processed keeps both volumes exact but for what it leaves behind of an
\* order of the other side.
LEMMA ApplyKeepsVolumes ==
  ASSUME ReplayTypeOK, ReplayTypeOK', Volumes, NEW t \in Tick, Apply(t)
  PROVE  Volumes'
<1> PICK s \in SlotIndices, new \in Ord :
        /\ new = Updated(orders[s], t) /\ orders[s] \in Ord
        /\ orders' = [orders EXCEPT ![s] = new]
        /\ IF new.side = 1
           THEN bid_volume' = bid_volume + (new.qty - orders[s].qty) /\ ask_volume' = ask_volume
           ELSE ask_volume' = ask_volume + (new.qty - orders[s].qty) /\ bid_volume' = bid_volume
        /\ stray' = stray + LeftBehind(orders[s], new)
  BY ApplyToSlot
<1>4. orders' = [orders EXCEPT ![s] = new]
  OBVIOUS
<1>1. /\ bid_volume \in Int /\ ask_volume \in Int
      /\ new.qty \in Int /\ orders[s].qty \in Int
      /\ new.side \in {0, 1, -1} /\ orders[s].side \in {0, 1, -1}
  BY DEF ReplayTypeOK, Ord
<1>2. VolumesMatchRebuild'
  <2>1. RebuiltVolume(SlotIndices)' = RebuiltVolume(SlotIndices) + (new.qty - orders[s].qty)
    <3>1. RebuiltVolume(SlotIndices)' = SumOver(HeldIn(orders', SlotIndices))
      BY DEF RebuiltVolume, HeldIn
    <3>2. orders'[s] = new /\ \A n \in SlotIndices \ {s} : orders'[n] = orders[n]
      BY DEF ReplayTypeOK, SlotIndices
    <3> QED
      BY <3>1, <3>2, RebuildChange, RebuiltIsHeld DEF Part
  <2>2. bid_volume' + ask_volume' = bid_volume + ask_volume + (new.qty - orders[s].qty)
    BY <1>1
  <2> QED
    BY <2>1, <2>2 DEF Volumes, VolumesMatchRebuild
<1>3. SidesOffByOverwrites'
  <2>1. /\ bid_volume = RebuiltVolume(Resting(1)) + stray
        /\ ask_volume = RebuiltVolume(Resting(-1) \cup Resting(0)) - stray
    BY DEF Volumes, SidesOffByOverwrites
  <2>2. /\ RebuiltVolume(Resting(1))'
            = RebuiltVolume(Resting(1)) + (OfBid(new) - OfBid(orders[s]))
        /\ RebuiltVolume(Resting(-1) \cup Resting(0))'
            = RebuiltVolume(Resting(-1) \cup Resting(0)) + (OfAsk(new) - OfAsk(orders[s]))
    BY <1>4, RebuiltSides
  <2>3. /\ RebuiltVolume(Resting(1)) \in Int /\ RebuiltVolume(Resting(-1) \cup Resting(0)) \in Int
        /\ stray \in Int
    BY RebuiltAreNumbers DEF ReplayTypeOK
  <2>4. /\ bid_volume' = RebuiltVolume(Resting(1))' + stray'
        /\ ask_volume' = RebuiltVolume(Resting(-1) \cup Resting(0))' - stray'
    BY <1>1, <2>1, <2>2, <2>3 DEF OfBid, OfAsk, LeftBehind
  <2> QED
    BY <2>4 DEF SidesOffByOverwrites
<1> QED
  BY <1>2, <1>3 DEF Volumes

\* A step is a tick processed or leaves the book alone.
LEMMA BookSteps ==
  ASSUME ReplayTypeOK, Stream, [ReplayNext]_replayVars
  PROVE  UNCHANGED bookVars \/ \E t \in Tick : Apply(t)
<1>1. CASE Lose
  BY <1>1 DEF Lose
<1>2. CASE Duplicate
  BY <1>2, DuplicateIsSkipped DEF bookVars
<1>3. CASE Send
  BY <1>3, SendPicks DEF process
<1>4. CASE Replayed \/ UNCHANGED replayVars
  BY <1>4 DEF Replayed, replayVars
<1> QED
  BY <1>1, <1>2, <1>3, <1>4 DEF ReplayNext

LEMMA AlwaysVolumes == ReplaySpec => []Volumes
<1>1. ReplayInit => Volumes
  <2> SUFFICES ASSUME ReplayInit PROVE Volumes
    OBVIOUS
  <2>1. \A S : RebuiltVolume(S) = 0
    <3> TAKE S
    <3>1. \A n \in SlotIndices : HeldIn(orders, S)[n] = 0
      BY DEF ReplayInit, HeldIn, SlotIndices
    <3> QED
      BY <3>1, SumOverZeros, RebuiltIsHeld
  <2> QED
    BY <2>1 DEF ReplayInit, Volumes, VolumesMatchRebuild, SidesOffByOverwrites
<1>2. ASSUME ReplayTypeOK, ReplayTypeOK', Stream, Volumes, [ReplayNext]_replayVars
      PROVE  Volumes'
  <2>1. CASE UNCHANGED bookVars
    BY <1>2, <2>1 DEF bookVars, Volumes, VolumesMatchRebuild, SidesOffByOverwrites,
       RebuiltVolume, Resting
  <2>2. CASE \E t \in Tick : Apply(t)
    BY <1>2, <2>2, ApplyKeepsVolumes
  <2> QED
    BY <1>2, <2>1, <2>2, BookSteps
<1>3. ReplayTypeOK /\ ReplayTypeOK' /\ Stream /\ Volumes /\ [ReplayNext]_replayVars => Volumes'
  BY <1>2
<1> QED
  BY <1>1, <1>3, AlwaysStream, PTL DEF ReplaySpec

\* The incremental update of ReplayEngine::process: the two volumes always add up to
\* a rebuild from the slots, for any number of slots and any stream.
THEOREM VolumesRebuild == ReplaySpec => []VolumesMatchRebuild
<1>1. Volumes => VolumesMatchRebuild
  BY DEF Volumes
<1> QED
  BY <1>1, AlwaysVolumes, PTL

\* ... and each is off by just the resting orders that one of the other side has
\* overwritten in their common slot.
THEOREM SidesExact == ReplaySpec => []SidesOffByOverwrites
<1>1. Volumes => SidesOffByOverwrites
  BY DEF Volumes
<1> QED
  BY <1>1, AlwaysVolumes, PTL

-----------------------------------------------------------------------------
(* Best prices                                                             *)

\* The best prices cover every slot that has a side and was seen, the empty ones as
\* well: a MODIFY can bring a cancelled order back at its old price.
Covers == \A s \in SlotIndices \ unseen :
              /\ orders[s].side = 1 => orders[s].price <= best_bid
              /\ orders[s].side = -1 => orders[s].price >= best_ask

LEMMA ApplyKeepsCovers ==
  ASSUME ReplayTypeOK, Covers, NEW t \in Tick, Apply(t)
  PROVE  Covers'
<1> SUFFICES ASSUME NEW n \in SlotIndices \ unseen'
             PROVE  /\ orders'[n].side = 1 => orders'[n].price <= best_bid'
                    /\ orders'[n].side = -1 => orders'[n].price >= best_ask'
  BY DEF Covers
<1>0. PICK s \in SlotIndices, new \in Ord :
        /\ new = Updated(orders[s], t) /\ orders[s] \in Ord
        /\ orders' = [orders EXCEPT ![s] = new]
        /\ best_bid' = IF /\ new.side = 1 /\ new.qty - orders[s].qty # 0 /\ new.qty > 0
                          /\ t.price > best_bid
                       THEN t.price ELSE best_bid
        /\ best_ask' = IF /\ new.side = -1 /\ new.qty - orders[s].qty # 0 /\ new.qty > 0
                          /\ t.price < best_ask
                       THEN t.price ELSE best_ask
        /\ unseen' = CASE t.type # "ADD" -> unseen
                       [] t.type = "ADD" /\ new.qty - orders[s].qty = 0 -> unseen \cup {s}
                       [] OTHER -> unseen \ {s}
  BY ApplyToSlot
<1>1. n \in SlotIndices /\ (n \in unseen => n = s /\ t.type = "ADD")
  BY <1>0
<1>2. /\ t.price \in Nat /\ t.qty \in Nat \ {0} /\ best_bid \in Nat /\ best_ask \in Nat
      /\ best_bid' \in Nat /\ best_bid' >= best_bid
      /\ best_ask' \in Nat /\ best_ask' <= best_ask
  <2>1. t.price \in Nat /\ t.qty \in Nat \ {0} /\ best_bid \in Nat /\ best_ask \in Nat
    <3>1. t.price \in TickPrices /\ t.qty \in TickQuantities
      BY DEF Tick
    <3> QED
      BY <3>1, DrawnAssumption DEF ReplayTypeOK
  <2> QED
    BY <1>0, <2>1
<1>3. orders'[s] = new /\ \A k \in SlotIndices \ {s} : orders'[k] = orders[k]
  BY <1>0 DEF ReplayTypeOK, SlotIndices
<1>4. /\ orders[n].price \in Nat
      /\ n \notin unseen =>
            /\ orders[n].side = 1 => orders[n].price <= best_bid
            /\ orders[n].side = -1 => orders[n].price >= best_ask
  BY <1>1 DEF Covers, ReplayTypeOK, Ord, SlotIndices
<1>5. ASSUME n \notin unseen, orders'[n].price = orders[n].price, orders'[n].side = orders[n].side
      PROVE  /\ orders'[n].side = 1 => orders'[n].price <= best_bid'
             /\ orders'[n].side = -1 => orders'[n].price >= best_ask'
  BY <1>2, <1>4, <1>5
<1>6. CASE n # s
  BY <1>1, <1>3, <1>6, <1>5
<1>7. CASE n = s /\ t.type = "ADD"
  <2>1. new = [price |-> t.price, qty |-> t.qty, side |-> SideOf(t.price)]
    BY <1>0, <1>7 DEF Updated
  <2>2. new.price = t.price /\ new.qty = t.qty
    BY <2>1
  <2>3. new.qty - orders[s].qty # 0 /\ new.qty > 0
    BY <1>0, <1>2, <1>7, <2>2
  <2> QED
    BY <1>0, <1>2, <1>3, <1>7, <2>2, <2>3
<1>8. CASE n = s /\ t.type # "ADD"
  <2>1. new.price = orders[s].price /\ new.side = orders[s].side
    BY <1>0, <1>8 DEF Updated, Ord
  <2> QED
    BY <1>1, <1>3, <1>8, <1>5, <2>1
<1> QED
  BY <1>6, <1>7, <1>8

\* best_bid and best_ask cover every resting order but those whose ADD changed no
\* quantity, whatever is overwritten, modified, cancelled and brought back in between.
THEOREM BestCovers == ReplaySpec => []BestCoversResting
<1>1. ReplayInit => Covers
  BY DEF ReplayInit, Covers, SlotIndices
<1>2. ASSUME ReplayTypeOK, Stream, Covers, [ReplayNext]_replayVars PROVE Covers'
  <2>1. CASE UNCHANGED bookVars
    BY <1>2, <2>1 DEF bookVars, Covers
  <2>2. CASE \E t \in Tick : Apply(t)
    BY <1>2, <2>2, ApplyKeepsCovers
  <2> QED
    BY <1>2, <2>1, <2>2, BookSteps
<1>3. ReplayTypeOK /\ Stream /\ Covers /\ [ReplayNext]_replayVars => Covers'
  BY <1>2
<1>4. Covers => BestCoversResting
  BY DEF Covers, BestCoversResting
<1> QED
  BY <1>1, <1>3, <1>4, AlwaysStream, PTL DEF ReplaySpec

================================================================================
