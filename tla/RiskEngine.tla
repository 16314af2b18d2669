------------------------------- MODULE RiskEngine ------------------------------
(***************************************************************************)
(* The pre-trade risk gate of day19_signal_routing.cpp, class RiskEngine.  *)
(* validate and the apply_fill that follows an approval run in one thread  *)
(* with nothing in between, so a signal is one step of this state.         *)
(*                                                                         *)
(* Money is counted in half cents times shares, the exact value of what    *)
(* the code computes in doubles: a signal's price is 150 dollars plus      *)
(* `cents' cents, and it fills half a cent worse.                          *)
(***************************************************************************)
EXTENDS Integers

CONSTANTS MaxPos,     \* MAX_POS, "Position limit"
          MaxQty,     \* MAX_QTY, "Max single order size"
          MaxDD,      \* MAX_DD, "Max drawdown ($)"
          RateCap,    \* RATE_CAP, "Orders/sec limit"
          Wrap        \* 2^64: one more than the largest uint64_t

ASSUME RiskAssumption == /\ MaxPos \in Nat \ {0} /\ MaxQty \in Nat /\ MaxDD \in Nat
                         /\ RateCap \in Nat /\ Wrap \in Nat
                         /\ Wrap > 2 * MaxPos + MaxQty

VARIABLES position,   \* position_
          pnl,        \* pnl_
          rate_cnt,   \* rate_cnt_
          last_sec    \* last_sec_

riskVars == <<position, pnl, rate_cnt, last_sec>>

RiskInit == position = 0 /\ pnl = 0 /\ rate_cnt = 0 /\ last_sec = 0

\* An int64_t compared with a uint64_t constant is converted first.
U(x) == IF x < 0 THEN x + Wrap ELSE x

\* if (sec != last_sec_) { rate_cnt_ = 0; last_sec_ = sec; }
RolledCount(sig) == IF sig.sec # last_sec THEN 0 ELSE rate_cnt

TooLarge(sig) == U(sig.qty) > MaxQty

\* A slip (mutant of OverPosition): sells are not limited.
OverPositionOfBuysOnly(sig) == sig.side = 1 /\ U(position + sig.qty) > MaxPos

\* position_ + qty > MAX_POS and position_ - qty < -MAX_POS, both unsigned
OverPosition(sig) ==
    \/ sig.side = 1 /\ U(position + sig.qty) > MaxPos
    \/ sig.side = -1 /\ U(position - sig.qty) < U(-MaxPos)

\* A slip (mutant of Status): > for >= in the rate check.
StatusRateOffByOne(sig) == CASE TooLarge(sig) \/ OverPosition(sig) -> 1
                             [] pnl < -MaxDD -> 2
                             [] RolledCount(sig) > RateCap -> 3
                             [] OTHER -> 0

\* A slip (mutant of Status): no drawdown check.
StatusWithoutBreaker(sig) == CASE TooLarge(sig) \/ OverPosition(sig) -> 1
                               [] RolledCount(sig) >= RateCap -> 3
                               [] OTHER -> 0

\* risk_status: 0=approved, 1=limit, 2=drawdown, 3=rate, in the code's order
Status(sig) == CASE TooLarge(sig) \/ OverPosition(sig) -> 1
                 [] pnl < -MaxDD -> 2
                 [] RolledCount(sig) >= RateCap -> 3
                 [] OTHER -> 0

\* req.qty * req.side * (fill_price - 150.0)
Gain(sig) == sig.qty * sig.side * (2 * sig.cents + sig.side)

Validate(sig) ==
    /\ last_sec' = sig.sec
    /\ IF Status(sig) = 0
       THEN /\ position' = position + sig.qty * sig.side
            /\ rate_cnt' = RolledCount(sig) + 1
            /\ pnl' = pnl + Gain(sig)
       ELSE /\ rate_cnt' = RolledCount(sig)
            /\ UNCHANGED <<position, pnl>>
================================================================================
