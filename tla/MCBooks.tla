-------------------------------- MODULE MCBooks --------------------------------
(***************************************************************************)
(* The three programs that keep an order book: IntrusiveLOB with a pool of *)
(* six orders at two prices, MatchingEngine with four resting and two      *)
(* aggressive orders, and ReplayEngine with two slots for three order ids  *)
(* and two prices on either side of 150.00.  They share nothing: a behaviour   *)
(* starts one of them, and only its part of the state moves.               *)
(***************************************************************************)
EXTENDS IntrusiveLOB, MatchingEngine, ReplayEngine

MCPoolCapacity == 6
MCPrices == {15000, 15001}
MCQuantities == {100}

MCSlots == 2
MCInterval == 2
MCMaxEvents == 4
MCOrderIds == {0, 1, 2}
MCTickPrices == {14998, 14999, 15000, 15001}
MCTickQuantities == {1, 2}
MCMid == 15000

MCMatchCapacity == 4
MCMaxAggressive == 2
MCLimitPrices == {1, 2}
MCLimitQuantities == {1, 3}

VARIABLE program

booksVars == <<program, vars, matchingVars, replayVars>>

BooksInit == /\ program \in {"day8", "day9", "day18"}
             /\ Init /\ MatchingInit /\ ReplayInit

\* One step of the program that was started.
LobStep == program = "day8" /\ Next /\ UNCHANGED <<program, matchingVars, replayVars>>
MatchingStep == program = "day9" /\ MatchingNext /\ UNCHANGED <<program, vars, replayVars>>
ReplayStep == program = "day18" /\ ReplayNext /\ UNCHANGED <<program, vars, matchingVars>>

BooksNext == LobStep \/ MatchingStep \/ ReplayStep

BooksSpec == BooksInit /\ [][BooksNext]_booksVars
================================================================================
