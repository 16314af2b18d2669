---------------------------- MODULE BacktestEngine -----------------------------
(***************************************************************************)
(* BacktestEngine of day20_backtest_integrator.cpp and the loop of its     *)
(* main, which walks the price, processes a tick and now and then submits  *)
(* a signal at that price.                                                 *)
(*                                                                         *)
(* Prices are in cents, where the spread cancels out of `mid' and the      *)
(* slippage is 2.  Money is in thousandths of a cent, where the fee of     *)
(* 0.1% is exact; the rounding of doubles is abstracted.                   *)
(***************************************************************************)
EXTENDS Integers, SequencesExt, Recurrences

CONSTANTS INITIAL_CASH, INITIAL_PRICE,
          SPREAD_LAG,      \* ticks from a signal to its earliest fill
          TICKS,           \* iterations of main's loop (1000)
          WARMUP, EVERY,   \* signals when i > WARMUP and i % EVERY = 0 (50, 5)
          BUY_QTY, SELL_QTY,
          Draws,           \* the values of rng() % 100, part of 0 .. 99
          WRAP             \* 2^64 cents: what the unsigned subtraction adds below 50

ASSUME BacktestAssumption == /\ SPREAD_LAG \in Nat \ {0} /\ Draws \subseteq 0 .. 99
                             /\ INITIAL_PRICE \in Int /\ WRAP \in Nat /\ WRAP >= 50

VARIABLES iteration, price,      \* main's loop counter and price
          tick,                  \* the tick of this iteration is processed
          cash, quantity, entry_price, pending_orders,
          history,               \* the number of events
          max_drawdown, peak_equity, unrealized_pnl, total_fees,
          fills                  \* history: orders filled, each with its time

backtestVars == <<iteration, price, tick, cash, quantity, entry_price, pending_orders, history,
                  max_drawdown, peak_equity, unrealized_pnl, total_fees, fills>>

BacktestInit == /\ iteration = 0 /\ price = INITIAL_PRICE /\ tick = FALSE
                /\ cash = INITIAL_CASH /\ quantity = 0 /\ entry_price = 0
                /\ pending_orders = <<>> /\ history = 0
                /\ max_drawdown = 0 /\ peak_equity = INITIAL_CASH
                /\ unrealized_pnl = 0 /\ total_fees = 0
                /\ fills = {}

-----------------------------------------------------------------------------
(* execute_pending                                                         *)

Crossed(o, mid) == \/ o.side = 1 /\ mid <= o.requested_price
                   \/ o.side = -1 /\ mid >= o.requested_price

\* A slip (mutant of Due): the lag has to be exceeded.
DueLate(o, now) == now - o.creation_time_ms > SPREAD_LAG

Due(o, now) == now - o.creation_time_ms >= SPREAD_LAG

\* finish_fill on the account <<cash, quantity, entry_price, total_fees>>
Filled(account, o) ==
    LET fill_price == o.requested_price + 2 * o.side
        cost == fill_price * o.qty
        held == account.quantity + o.side * o.qty
    IN [cash        |-> account.cash - o.side * 1000 * cost - cost,
        quantity    |-> held,
        entry_price |-> IF o.side = 1 /\ account.quantity = 0 THEN fill_price
                        ELSE IF o.side = -1 /\ held = 0 THEN 0
                        ELSE account.entry_price,
        total_fees  |-> account.total_fees + cost]

ExecutePending(now, mid) ==
    LET places == {k \in DOMAIN pending_orders :
                      Due(pending_orders[k], now) /\ Crossed(pending_orders[k], mid)}
        executed == AtPlaces(pending_orders, places)
        account == FoldLeft(Filled,
                            [cash |-> cash, quantity |-> quantity,
                             entry_price |-> entry_price, total_fees |-> total_fees],
                            executed)
    IN /\ pending_orders' = AtPlaces(pending_orders, DOMAIN pending_orders \ places)
       /\ cash' = account.cash /\ quantity' = account.quantity
       /\ entry_price' = account.entry_price /\ total_fees' = account.total_fees
       /\ fills' = fills \cup {[order |-> o, at |-> now] : o \in ToSet(executed)}

-----------------------------------------------------------------------------
(* The loop of main                                                        *)

\* price += (rng() % 100 - 50) * 0.01, in unsigned arithmetic
Walked(draw) == price + draw - 50 + (IF draw < 50 THEN WRAP ELSE 0)

\* process_tick: the equity of the tick is taken before its fills
ProcessTick(draw) ==
    LET mid == Walked(draw)
        pnl == quantity * (mid - entry_price) * 1000
        equity == cash + pnl - total_fees
    IN /\ ~tick /\ iteration < TICKS
       /\ price' = mid /\ tick' = TRUE
       /\ history' = history + 1
       /\ unrealized_pnl' = pnl
       /\ IF equity > peak_equity
          THEN peak_equity' = equity /\ UNCHANGED max_drawdown
          ELSE /\ max_drawdown' = IF peak_equity - equity > max_drawdown
                                  THEN peak_equity - equity ELSE max_drawdown
               /\ UNCHANGED peak_equity
       /\ ExecutePending(iteration, mid)
       /\ UNCHANGED iteration

Signals == iteration > WARMUP /\ iteration % EVERY = 0
NextIteration == /\ iteration' = iteration + 1 /\ tick' = FALSE
                 /\ UNCHANGED <<price, cash, quantity, entry_price, history, max_drawdown,
                                peak_equity, unrealized_pnl, total_fees, fills>>

\* the margin check of submit_signal, the same for both sides
Covered(qty) == cash >= price * qty * 1000

\* submit_signal accepts: the id is the number of events, once per iteration
Submit(side, qty) ==
    /\ tick /\ Signals /\ Covered(qty)
    /\ pending_orders' = Append(pending_orders,
            [id |-> history, requested_price |-> price, qty |-> qty, side |-> side,
             creation_time_ms |-> iteration])
    /\ NextIteration

Refuse(qty) == /\ tick /\ Signals /\ ~Covered(qty)
               /\ NextIteration /\ UNCHANGED pending_orders

NoSignal == tick /\ ~Signals /\ NextIteration /\ UNCHANGED pending_orders

BacktestReported == iteration = TICKS /\ UNCHANGED backtestVars

BacktestNext == \/ \E draw \in Draws : ProcessTick(draw)
                \/ Submit(1, BUY_QTY) \/ Submit(-1, SELL_QTY)
                \/ Refuse(BUY_QTY) \/ Refuse(SELL_QTY)
                \/ NoSignal
                \/ BacktestReported

BacktestSpec == BacktestInit /\ [][BacktestNext]_backtestVars

-----------------------------------------------------------------------------
(* Properties.                                                             *)

\* The fields of the engine hold what they can hold.
BacktestTypeOK == /\ iteration \in 0 .. TICKS /\ history \in 0 .. TICKS /\ tick \in BOOLEAN
                  /\ {price, cash, quantity, entry_price, max_drawdown, peak_equity,
                      unrealized_pnl, total_fees} \subseteq Int
                  /\ \A o \in ToSet(pending_orders) :
                        o.side \in {1, -1} /\ o.creation_time_ms <= iteration

\* Every order is filled exactly SPREAD_LAG ticks after its signal or never: a
\* sell always then, and a buy that has missed its price then waits for ever.
FilledAtLagOrNever ==
    /\ \A f \in fills : f.at = f.order.creation_time_ms + SPREAD_LAG
    /\ tick => \A o \in ToSet(pending_orders) :
                  Due(o, iteration) => o.side = 1 /\ price > o.requested_price

\* What a comment says of the price: a random walk, whose steps are at most
\* half a unit up or down.
SmallStep == price' - price \in -50 .. 49
RandomWalk == [][SmallStep]_backtestVars
================================================================================
