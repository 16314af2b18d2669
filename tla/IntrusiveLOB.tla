------------------------------- MODULE IntrusiveLOB ----------------------------
(***************************************************************************)
(* IntrusiveLOB of day8_intrusive_order_book.cpp: orders come from a pool, *)
(* carry their own list links, and hang in one doubly linked list for each *)
(* price.  An Order* is its index in the pool, its `id' in the code, and   *)
(* NULL is nullptr.  Next is the driver of main: it adds orders and        *)
(* cancels any order it was ever handed, cancelled ones and the nullptr of *)
(* an exhausted pool included.                                             *)
(***************************************************************************)
EXTENDS Integers, Sequences

CONSTANTS PoolCapacity,   \* POOL_CAPACITY
          Prices,         \* the prices the driver draws
          Quantities      \* the quantities it draws, never zero

ASSUME PoolAssumption == PoolCapacity \in Nat
ASSUME QuantitiesAssumption == Quantities \subseteq Nat \ {0}

NULL == 0
Ids == 1 .. PoolCapacity

VARIABLES alloc_idx,                  \* orders handed out
          price, qty, next, prev,     \* the fields of pool_[o]
          levels                      \* levels_: for each price with a level, its
                                      \*   volume and the ends of its list

vars == <<alloc_idx, price, qty, next, prev, levels>>

Init == /\ alloc_idx = 0
        /\ price = [o \in Ids |-> 0]
        /\ qty = [o \in Ids |-> 0]
        /\ next = [o \in Ids |-> NULL]
        /\ prev = [o \in Ids |-> NULL]
        /\ levels = [p \in {} |-> [volume |-> 0, head |-> NULL, tail |-> NULL]]

-----------------------------------------------------------------------------
\* The level found by its price, or the one push_back creates.
LevelAt(p) == IF p \in DOMAIN levels THEN levels[p]
              ELSE [volume |-> 0, head |-> NULL, tail |-> NULL]

WithLevel(p, l) == [r \in DOMAIN levels \cup {p} |-> IF r = p THEN l ELSE levels[r]]

PoolExhausted == alloc_idx >= PoolCapacity

add_order(p, q) ==
    LET o == alloc_idx + 1
        l == LevelAt(p)
    IN  /\ ~PoolExhausted
        /\ alloc_idx' = o
        /\ price' = [price EXCEPT ![o] = p]
        /\ qty' = [qty EXCEPT ![o] = q]
        /\ levels' = WithLevel(p, [volume |-> l.volume + q,
                                   head |-> IF l.head = NULL THEN o ELSE l.head,
                                   tail |-> o])
        /\ IF l.head = NULL
           THEN /\ next' = [next EXCEPT ![o] = NULL]
                /\ prev' = [prev EXCEPT ![o] = NULL]
           ELSE /\ next' = [next EXCEPT ![o] = NULL, ![l.tail] = o]
                /\ prev' = [prev EXCEPT ![o] = l.tail]

\* if (!ord || ord->qty == 0) return
Live == {o \in Ids : qty[o] # 0}
Ignored(o) == o \notin Live

\* A slip (mutant of LevelsWithout): the level keeps its tail.
LevelsWithoutHead(o) ==
    [p \in DOMAIN levels |->
        [levels[p] EXCEPT !.head = IF prev[o] = NULL /\ @ = o THEN next[o] ELSE @]]

\* Where o has no neighbour on a side it is the end of a level, found by comparing
\* the ends of all levels with it.
LevelsWithout(o) ==
    [p \in DOMAIN levels |->
        [levels[p] EXCEPT !.head = IF prev[o] = NULL /\ @ = o THEN next[o] ELSE @,
                          !.tail = IF next[o] = NULL /\ @ = o THEN prev[o] ELSE @]]

\* A slip (mutant of NextWithout): the order before o keeps its link.
NextOfOthers(o) == [next EXCEPT ![o] = NULL]

\* The links around o are closed over it, and its own reset.
NextWithout(o) == [x \in Ids |-> IF x = o THEN NULL
                                 ELSE IF x = prev[o] THEN next[o] ELSE next[x]]
PrevWithout(o) == [x \in Ids |-> IF x = o THEN NULL
                                 ELSE IF x = next[o] THEN prev[o] ELSE prev[x]]

cancel_order(o) ==
    /\ ~Ignored(o)
    /\ levels' = LevelsWithout(o)
    /\ next' = NextWithout(o)
    /\ prev' = PrevWithout(o)
    /\ qty' = [qty EXCEPT ![o] = 0]
    /\ UNCHANGED <<alloc_idx, price>>

\* A call that returns at once: cancelling nothing, or adding to a full pool.
IgnoredCall == /\ \/ \E o \in 0 .. alloc_idx : Ignored(o)
                  \/ PoolExhausted
               /\ UNCHANGED vars

Next == \/ \E p \in Prices, q \in Quantities : add_order(p, q)
        \/ \E o \in 1 .. alloc_idx : cancel_order(o)
        \/ IgnoredCall

Spec == Init /\ [][Next]_vars

-----------------------------------------------------------------------------
(* Properties.                                                             *)

Level == [volume : Nat, head : Ids \cup {NULL}, tail : Ids \cup {NULL}]

\* The fields hold what the C++ structs can hold; levels are created for prices
\* of the driver only.
TypeOK == /\ alloc_idx \in 0 .. PoolCapacity
          /\ price \in [Ids -> Prices \cup {0}]
          /\ qty \in [Ids -> Nat]
          /\ next \in [Ids -> Ids \cup {NULL}]
          /\ prev \in [Ids -> Ids \cup {NULL}]
          /\ DOMAIN levels \subseteq Prices
          /\ levels \in [DOMAIN levels -> Level]

\* The links of the live orders and the ends of the levels agree: next and prev
\* mirror each other, stay at one price and follow the order of arrival, and an
\* order without a neighbour is the end of its level.
OrderLinked(o) ==
    /\ price[o] \in DOMAIN levels
    /\ IF next[o] = NULL
       THEN levels[price[o]].tail = o
       ELSE /\ next[o] \in Live /\ next[o] > o
            /\ prev[next[o]] = o
            /\ price[next[o]] = price[o]
    /\ IF prev[o] = NULL
       THEN levels[price[o]].head = o
       ELSE /\ prev[o] \in Live /\ prev[o] < o
            /\ next[prev[o]] = o
            /\ price[prev[o]] = price[o]

LevelLinked(p) ==
    LET l == levels[p]
    IN  IF l.head = NULL THEN l.tail = NULL
        ELSE /\ l.head \in Live /\ price[l.head] = p /\ prev[l.head] = NULL
             /\ l.tail \in Live /\ price[l.tail] = p /\ next[l.tail] = NULL

DeadUnlinked(o) == next[o] = NULL /\ prev[o] = NULL

LinksConsistent == /\ \A o \in Live : OrderLinked(o)
                   /\ \A p \in DOMAIN levels : LevelLinked(p)
                   /\ \A o \in Ids \ Live : DeadUnlinked(o)

\* Walking a level from its head visits the orders of a price-time priority
\* queue: what rests there, in order of arrival, and nothing else.
Walk(p) ==
    LET from[k \in 0 .. PoolCapacity] ==
            [o \in Ids \cup {NULL} |->
                IF o = NULL \/ k = 0 THEN <<>> ELSE <<o>> \o from[k - 1][next[o]]]
    IN  from[PoolCapacity][LevelAt(p).head]

Book == INSTANCE PriceTimeBook WITH queue <- [p \in Prices |-> Walk(p)]

ImplementsPriceTimeBook == Book!BookSpec
================================================================================
