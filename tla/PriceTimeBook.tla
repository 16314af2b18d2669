----------------------------- MODULE PriceTimeBook -----------------------------
(***************************************************************************)
(* What an order book with price-time priority keeps: one queue of orders  *)
(* for each price, in the order they came.  A new order joins the end of   *)
(* its price's queue, and a cancelled order leaves its queue without       *)
(* disturbing the others.  IntrusiveLOB is shown to implement this module. *)
(***************************************************************************)
EXTENDS Naturals, Sequences, SequencesExt

CONSTANTS Prices, Ids
VARIABLE queue        \* for each price, the ids resting there, the oldest first

BookInit == queue = [p \in Prices |-> <<>>]

Add(p, o) == /\ \A q \in Prices : \A i \in 1 .. Len(queue[q]) : queue[q][i] < o
             /\ queue' = [queue EXCEPT ![p] = Append(@, o)]

Cancel(p, i) == queue' = [queue EXCEPT ![p] = RemoveAt(@, i)]

\* A call that finds nothing to cancel, or no room.
Refused == UNCHANGED queue

BookNext == \/ Refused
            \/ \E p \in Prices : \E i \in 1 .. Len(queue[p]) : Cancel(p, i)
            \/ \E p \in Prices, o \in Ids : Add(p, o)

BookSpec == BookInit /\ [][BookNext]_queue
================================================================================
