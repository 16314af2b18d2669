------------------------------ MODULE MatchingEngine ---------------------------
(***************************************************************************)
(* MatchingEngine of day9_matching_engine.cpp.  Each side of the book is a *)
(* vector of price levels in the order in which they were created, and a   *)
(* level is a FIFO list of resting orders (the link surgery is that of     *)
(* IntrusiveLOB; here a list is a sequence).  One thread calls the engine, *)
(* so a call is one step: add_passive rests an order without matching it,  *)
(* match_aggressive fills an incoming order and drops what is left of it.  *)
(***************************************************************************)
EXTENDS Integers, SequencesExt, Recurrences

CONSTANTS MatchCapacity,   \* capacity of pool_
          MaxAggressive,   \* bound: how many aggressive orders a behaviour sends
          LimitPrices, LimitQuantities

ASSUME MatchingAssumption == /\ MatchCapacity \in Nat /\ MaxAggressive \in Nat
                             /\ LimitPrices \subseteq Int /\ LimitQuantities \subseteq Nat \ {0}

Sides == {1, -1}           \* 1 = bid, -1 = ask

VARIABLES bids, asks,      \* bids_, asks_: sequences of [price, orders]
          pool_idx,        \* pool_idx_
          trades,          \* trades_
          resting,         \* history: the passive orders as they were added
          incoming         \* history: the aggressive orders as they were sent

matchingVars == <<bids, asks, pool_idx, trades, resting, incoming>>

MatchingInit == /\ bids = <<>> /\ asks = <<>>
                /\ pool_idx = 0
                /\ trades = <<>>
                /\ resting = <<>>
                /\ incoming = <<>>

-----------------------------------------------------------------------------
(* add_passive                                                             *)

\* A slip (mutant of WithOrder): the level is not looked up.
WithOrderInNewLevel(levels, p, o) == Append(levels, [price |-> p, orders |-> <<o>>])

\* Append to the level of that price, or to a new one at the end of the vector.
WithOrder(levels, p, o) ==
    IF \E k \in DOMAIN levels : levels[k].price = p
    THEN [k \in DOMAIN levels |->
            IF levels[k].price = p THEN [levels[k] EXCEPT !.orders = Append(@, o)]
            ELSE levels[k]]
    ELSE Append(levels, [price |-> p, orders |-> <<o>>])

add_passive(p, q, side) ==
    /\ pool_idx < MatchCapacity
    /\ pool_idx' = pool_idx + 1
    /\ LET o == [id |-> pool_idx + 1, qty |-> q]
       IN  IF side = 1 THEN bids' = WithOrder(bids, p, o) /\ UNCHANGED asks
           ELSE asks' = WithOrder(asks, p, o) /\ UNCHANGED bids
    /\ resting' = Append(resting, [price |-> p, qty |-> q, side |-> side])
    /\ UNCHANGED <<trades, incoming>>

\* the pool is exhausted: return nullptr
add_refused == pool_idx = MatchCapacity /\ UNCHANGED matchingVars

-----------------------------------------------------------------------------
(* match_aggressive.  Its loops work on a record: the levels, what remains  *)
(* of the order, and the trades.  A level is left only when it is empty and *)
(* erased, or when nothing remains, so the iterator stays at the first one. *)

Crosses(l, p, side) == IF side = 1 THEN l.price <= p ELSE l.price >= p

\* A slip (mutant of Goes): the last unit is not matched.
GoesShort(s, p, side) == s.remaining > 1 /\ s.levels # <<>> /\ Crosses(s.levels[1], p, side)

\* Another resting order is met: the conditions of both loops.
Goes(s, p, side) == s.remaining > 0 /\ s.levels # <<>> /\ Crosses(s.levels[1], p, side)

\* A slip (mutant of Fill): no min with the remaining quantity.
FillWholeOrder(o, remaining) == o.qty

Fill(o, remaining) == IF o.qty < remaining THEN o.qty ELSE remaining

\* A slip (mutant of Unfilled): an order filled in part goes to the end of its level.
UnfilledAtTheEnd(queue, fill) ==
    IF fill = queue[1].qty THEN Tail(queue)
    ELSE Append(Tail(queue), [queue[1] EXCEPT !.qty = @ - fill])

\* What the level keeps when its first order is filled: all of it, or the others.
Unfilled(queue, fill) ==
    IF fill = queue[1].qty THEN Tail(queue) ELSE [queue EXCEPT ![1].qty = @ - fill]

\* One turn of the inner loop, and the erasing of a level it has emptied.
Turn(s) ==
    LET o == s.levels[1].orders[1]
        fill == Fill(o, s.remaining)
        queue == Unfilled(s.levels[1].orders, fill)
    IN [levels |-> IF queue = <<>> THEN Tail(s.levels) ELSE [s.levels EXCEPT ![1].orders = queue],
        remaining |-> s.remaining - fill,
        trades |-> Append(s.trades, [aggressor |-> Len(incoming) + 1, passive |-> o.id,
                                     price |-> resting[o.id].price, qty |-> fill])]

\* The loops whole.  Each turn but the last takes an order off the book, and the book
\* has no more than were ever added.
Matched(levels, p, q, side) ==
    LET turn[n \in 0 .. pool_idx] ==
            IF n = 0 THEN [levels |-> levels, remaining |-> q, trades |-> trades]
            ELSE IF Goes(turn[n - 1], p, side) THEN Turn(turn[n - 1]) ELSE turn[n - 1]
    IN  turn[pool_idx]

match_aggressive(p, q, side) ==
    /\ Len(incoming) < MaxAggressive
    /\ LET done == Matched(IF side = 1 THEN asks ELSE bids, p, q, side)
       IN  /\ IF side = 1 THEN asks' = done.levels /\ UNCHANGED bids
              ELSE bids' = done.levels /\ UNCHANGED asks
           /\ trades' = done.trades
    /\ incoming' = Append(incoming, [price |-> p, qty |-> q, side |-> side])
    /\ UNCHANGED <<pool_idx, resting>>

\* The bound on aggressive orders is reached.
Enough == Len(incoming) = MaxAggressive /\ UNCHANGED matchingVars

MatchingNext == \/ \E p \in LimitPrices, q \in LimitQuantities, side \in Sides :
                      add_passive(p, q, side) \/ match_aggressive(p, q, side)
                \/ add_refused
                \/ Enough

MatchingSpec == MatchingInit /\ [][MatchingNext]_matchingVars

-----------------------------------------------------------------------------
(* Properties.                                                             *)

Levels(side) == IF side = 1 THEN bids ELSE asks
RestingIn(levels) == UNION {ToSet(levels[k].orders) : k \in DOMAIN levels}
RestingNow == RestingIn(bids) \cup RestingIn(asks)

\* The fields hold what they can hold.
Order == [id : 1 .. MatchCapacity, qty : Nat]
PriceLevel == [price : LimitPrices, orders : Seq(Order)]
TradeEvent == [aggressor : 1 .. MaxAggressive, passive : 1 .. MatchCapacity,
               price : LimitPrices, qty : Nat]
Sent == [price : LimitPrices, qty : LimitQuantities, side : Sides]
MatchingTypeOK ==
    /\ pool_idx \in 0 .. MatchCapacity
    /\ bids \in Seq(PriceLevel) /\ asks \in Seq(PriceLevel)
    /\ trades \in Seq(TradeEvent)
    /\ resting \in Seq(Sent) /\ incoming \in Seq(Sent)

\* One level per price and side, no empty level, and every resting order in the
\* one level of its own price and side, in order of arrival: the book the loops
\* of match_aggressive assume.
LevelFormed(l, side) ==
    /\ l.orders # <<>>
    /\ \A i \in DOMAIN l.orders :
        /\ l.orders[i].id \in 1 .. pool_idx /\ l.orders[i].qty > 0
        /\ resting[l.orders[i].id].price = l.price
        /\ resting[l.orders[i].id].side = side
        /\ \A j \in 1 .. i - 1 : l.orders[j].id < l.orders[i].id
WellFormed(levels, side) ==
    /\ \A j, k \in DOMAIN levels : levels[j].price = levels[k].price => j = k
    /\ \A k \in DOMAIN levels : LevelFormed(levels[k], side)
BookWellFormed == /\ pool_idx = Len(resting) /\ pool_idx <= MatchCapacity
                  /\ \A side \in Sides : WellFormed(Levels(side), side)

\* No quantity is lost or made: what an order was added with is what rests of it
\* plus what it traded, and an aggressive order trades at most what it asked for.
TradedFrom(events, id) ==
    SumTo([n \in 0 .. Len(events) - 1 |->
              IF events[n + 1].passive = id THEN events[n + 1].qty ELSE 0], Len(events))
TradedTo(events, a) ==
    SumTo([n \in 0 .. Len(events) - 1 |->
              IF events[n + 1].aggressor = a THEN events[n + 1].qty ELSE 0], Len(events))
Rests(id) == \E o \in RestingNow : o.id = id
QuantityConserved ==
    /\ \A o \in RestingNow : resting[o.id].qty = o.qty + TradedFrom(trades, o.id)
    /\ \A id \in 1 .. pool_idx : ~Rests(id) => resting[id].qty = TradedFrom(trades, id)
    /\ \A a \in DOMAIN incoming : TradedTo(trades, a) <= incoming[a].qty

\* Time priority inside a level: no order is filled while an older one of the
\* same side and price keeps resting.
NewTrades == Len(trades) + 1 .. Len(trades')
OldestFirst ==
    \A n \in NewTrades : \A id \in 1 .. trades'[n].passive - 1 :
        /\ resting[id].side = resting[trades'[n].passive].side
        /\ resting[id].price = resting[trades'[n].passive].price
        => ~Rests(id)'
TimePriority == [][OldestFirst]_matchingVars

\* Price priority holds as long as the vector happens to be sorted, best price
\* first: then an order is filled only when every better one is exhausted, and
\* an incoming order goes short only when nothing it crosses is left.
SortedBest(levels, side) ==
    \A j, k \in DOMAIN levels : j < k => side * levels[j].price >= side * levels[k].price
BestFirst(side) ==
    \A n \in NewTrades : \A id \in 1 .. pool_idx :
        /\ resting[id].side = side
        /\ side * resting[id].price > side * trades'[n].price
        => ~Rests(id)'
ShortOnlyWhenDry(side) ==
    LET a == Last(incoming')
    IN TradedTo(trades', Len(incoming')) < a.qty =>
          \A k \in DOMAIN Levels(side)' : ~Crosses(Levels(side)'[k], a.price, a.side)
Matches(side) == Len(incoming') > Len(incoming) /\ Last(incoming').side = -side

BestExecutionIfSorted ==
    [][\A side \in Sides : Matches(side) /\ SortedBest(Levels(side), side)
          => BestFirst(side) /\ ShortOnlyWhenDry(side)]_matchingVars

\* What the loop over the levels is commented with (day9:67 "Price-time
\* priority: stop if price no longer crosses"): an order is filled only when
\* every resting order with a better price is exhausted.
PricePriority == [][\A side \in Sides : Matches(side) => BestFirst(side)]_matchingVars
================================================================================
