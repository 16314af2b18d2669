-------------------------- MODULE SignalRouting_proofs -------------------------
(***************************************************************************)
(* Proofs about SignalRouting, for every ring size, number of signals and  *)
(* setting of the risk limits.  All but the last rely on nothing the ring  *)
(* delivers: the risk gate is proved safe against any signal whose fields  *)
(* have the range the strategy draws from.  The rate limit counts on the   *)
(* order of the signals, which the ring keeps for two laps.                *)
(***************************************************************************)
EXTENDS SignalRouting, SharedLemmas, TLAPS

\* TypeOK is inductive with: a signal in hand is not counted yet, and a pop
\* under way has something to pop.
Popping == {"lo", "condlo", "hi", "condhi", "release", "condrelease"}
IInv == /\ TypeOK
        /\ spc # "draw" => Drawn < NumSignals
        /\ rpc \in Popping => tail < head
        /\ PositionWithinLimits
        /\ LossBounded
        /\ SwallowsOneSignal

Word(w) == /\ w.sec \in Seconds /\ w.side \in {0, 1, -1}
           /\ w.qty \in Nat /\ w.cents \in -MaxCents .. MaxCents

-----------------------------------------------------------------------------
(* Arithmetic                                                              *)

\* A product is no lower than the most negative the ranges of its factors allow.
LEMMA ProductBound ==
  ASSUME NEW q \in Nat, NEW Q \in Nat, q <= Q, NEW x \in Int, NEW y \in Nat, x >= -y
  PROVE  q * x >= -(Q * y)
<1>1. q * (x + y) >= 0
  BY SMT
<1>2. (Q - q) * y >= 0
  BY SMT
<1>3. q * (x + y) = q * x + q * y /\ (Q - q) * y = Q * y - q * y
  BY SMT
<1>4. q * x \in Int /\ q * y \in Int /\ Q * y \in Int
  BY SMT
<1> QED
  BY <1>1, <1>2, <1>3, <1>4

\* An order within the size limit loses at most the size limit at the worst price.
LEMMA GainBound ==
  ASSUME NEW s, Word(s), s.qty <= MaxQty
  PROVE  Gain(s) \in Int /\ Gain(s) >= -(MaxQty * (2 * MaxCents - 1))
<1>1. /\ s.qty \in Nat /\ s.cents \in Int /\ s.side \in {0, 1, -1}
      /\ -MaxCents <= s.cents /\ s.cents <= MaxCents
      /\ MaxQty \in Nat /\ 2 * MaxCents - 1 \in Nat
  BY RiskAssumption, RoutingAssumption DEF Word
<1>2. CASE s.side = 1
  <2>1. s.qty * (2 * s.cents + 1) >= -(MaxQty * (2 * MaxCents - 1))
    <3>1. 2 * s.cents + 1 \in Int /\ 2 * s.cents + 1 >= -(2 * MaxCents - 1)
      BY <1>1, RoutingAssumption
    <3> QED
      BY <1>1, <3>1, ProductBound
  <2>2. Gain(s) = s.qty * (2 * s.cents + 1)
    BY <1>1, <1>2 DEF Gain
  <2> QED
    BY <1>1, <2>1, <2>2
<1>3. CASE s.side = -1
  <2>1. s.qty * (1 - 2 * s.cents) >= -(MaxQty * (2 * MaxCents - 1))
    <3>1. 1 - 2 * s.cents \in Int /\ 1 - 2 * s.cents >= -(2 * MaxCents - 1)
      BY <1>1, RoutingAssumption
    <3> QED
      BY <1>1, <3>1, ProductBound
  <2>2. Gain(s) = s.qty * (1 - 2 * s.cents)
    BY <1>1, <1>3 DEF Gain
  <2> QED
    BY <1>1, <2>1, <2>2
<1>4. CASE s.side = 0
  <2>1. 0 * (1 - 2 * s.cents) >= -(MaxQty * (2 * MaxCents - 1))
    BY <1>1, ProductBound
  <2>2. Gain(s) = 0
    BY <1>1, <1>4 DEF Gain
  <2> QED
    BY <1>1, <2>1, <2>2
<1> QED
  BY <1>1, <1>2, <1>3, <1>4

\* What the gate approves ends within the limits and on its own side of flat:
\* the unsigned comparisons let a buy end at 0 .. MaxPos only, and a sell at
\* -MaxPos .. -1 only.
LEMMA ApprovedPosition ==
  ASSUME NEW s, Word(s), position \in -MaxPos .. MaxPos, Status(s) = 0
  PROVE  /\ s.qty <= MaxQty
         /\ s.side = 1 => position + s.qty \in 0 .. MaxPos
         /\ s.side = -1 => position - s.qty \in -MaxPos .. -1
<1>1. s.qty \in Nat /\ s.side \in {0, 1, -1}
  BY DEF Word
<1>2. ~TooLarge(s) /\ ~OverPosition(s)
  BY DEF Status
<1>3. s.qty <= MaxQty
  BY <1>1, <1>2, RiskAssumption DEF TooLarge, U
<1>4. s.side = 1 => position + s.qty \in 0 .. MaxPos
  BY <1>1, <1>2, <1>3, RiskAssumption DEF OverPosition, U
<1>5. s.side = -1 => position - s.qty \in -MaxPos .. -1
  <2>1. s.side = -1 => U(position - s.qty) >= Wrap - MaxPos
    <3>1. U(-MaxPos) = Wrap - MaxPos
      BY RiskAssumption DEF U
    <3> QED
      BY <1>1, <1>2, <1>3, <3>1, RiskAssumption DEF OverPosition, U
  <2> QED
    BY <1>1, <1>3, <2>1, RiskAssumption DEF U
<1> QED
  BY <1>3, <1>4, <1>5

\* A signal is approved only while the breaker has not tripped and the counter
\* of its second is below the cap.
LEMMA ApprovedOpen ==
  ASSUME NEW s, Status(s) = 0, pnl \in Int, rate_cnt \in 0 .. RateCap
  PROVE  /\ pnl >= -MaxDD
         /\ RolledCount(s) \in Nat /\ RolledCount(s) < RateCap
<1>1. RolledCount(s) \in 0 .. RateCap /\ RateCap \in Nat /\ MaxDD \in Nat
  BY RiskAssumption DEF RolledCount
<1>2. ~(pnl < -MaxDD) /\ ~(RolledCount(s) >= RateCap)
  BY DEF Status
<1> QED
  BY <1>1, <1>2

-----------------------------------------------------------------------------
(* The invariant                                                           *)

\* The ranges of the numbers, without the functions and records.
LEMMA Scalars ==
  ASSUME IInv
  PROVE  /\ position \in -MaxPos .. MaxPos /\ pnl \in Int /\ rate_cnt \in 0 .. RateCap
         /\ MaxPos \in Nat /\ RateCap \in Nat /\ NumSignals \in Nat /\ Cap \in Nat /\ Cap >= 2
         /\ head \in Nat /\ tail \in Nat /\ tail <= head
         /\ produced \in Nat /\ rejected \in Nat /\ produced + rejected <= NumSignals
         /\ spc # "draw" => produced + rejected < NumSignals
         /\ head = produced + (IF spc = "count" THEN 1 ELSE 0)
         /\ seen \in Nat /\ seen <= produced
         /\ routed \in Nat /\ routed <= validated /\ validated \in Nat
  BY RiskAssumption, RoutingAssumption DEF IInv, TypeOK, PositionWithinLimits, Drawn

BufferType == [0 .. Cap - 1 -> [lo : [sec : Seconds, side : {0, 1, -1}],
                                hi : [qty : Nat, cents : -MaxCents .. MaxCents]]]

LEMMA InitEstablishes == Init => IInv
<1> SUFFICES ASSUME Init PROVE IInv
  OBVIOUS
<1>1. 0 \in Seconds
  <2>1. 0 \in 0 .. NumSignals /\ 0 \div PerSecond = 0
    BY RoutingAssumption
  <2> QED
    BY <2>1 DEF Seconds
<1>2. 0 \in -MaxCents .. MaxCents /\ 0 \in -MaxPos .. MaxPos /\ 0 \in 0 .. RateCap
  BY RoutingAssumption, RiskAssumption
<1>3. buffer \in BufferType
  BY <1>1, <1>2 DEF Init, BufferType
<1>4. TypeOK
  BY <1>1, <1>2, <1>3, RoutingAssumption DEF Init, RiskInit, TypeOK, Drawn, BufferType
<1>5. LossBounded
  <2>1. MaxQty * (2 * MaxCents - 1) >= 0
    <3>1. 2 * MaxCents - 1 \in Nat /\ MaxQty \in Nat
      BY RiskAssumption, RoutingAssumption
    <3>2. ASSUME NEW x \in Nat, NEW y \in Nat PROVE x * y >= 0
      BY SMT
    <3> QED
      BY <3>1, <3>2
  <2>2. MaxQty * (2 * MaxCents - 1) \in Int
    BY RiskAssumption, RoutingAssumption
  <2> QED
    BY <2>1, <2>2, RiskAssumption DEF Init, RiskInit, LossBounded
<1> QED
  BY <1>2, <1>4, <1>5 DEF Init, RiskInit, IInv, Popping, PositionWithinLimits,
                          SwallowsOneSignal, Pending

\* No step of the strategy touches the risk engine or the popping side.
LEMMA StrategyPreserves ==
  ASSUME IInv, Strategy
  PROVE  IInv' /\ UNCHANGED riskVars
<1>1. UNCHANGED riskVars /\ UNCHANGED omsVars /\ UNCHANGED tail
  BY DEF Strategy, Draw, Drop, BeginPush, WriteLo, WriteHi, Publish, CountProduced, ringVars
<1>2. /\ position' \in Int /\ pnl' \in Int /\ rate_cnt' \in 0 .. RateCap
      /\ last_sec' \in Seconds
      /\ rpc' \in {"produced", "rejected", "pop", "condpop", "lo", "condlo", "hi",
                   "condhi", "release", "condrelease", "validate", "done"}
      /\ sig' \in [sec : Seconds, side : {0, 1, -1}, qty : Nat,
                   cents : -MaxCents .. MaxCents]
      /\ validated' \in Nat /\ routed' \in 0 .. validated'
      /\ approved' \in [Seconds -> Nat]
  BY <1>1 DEF riskVars, omsVars, IInv, TypeOK
<1>3. PositionWithinLimits' /\ LossBounded' /\ SwallowsOneSignal'
  BY <1>1 DEF riskVars, omsVars, IInv, PositionWithinLimits, LossBounded,
              SwallowsOneSignal, Pending
<1>4. head' \in {head, head + 1}
  BY DEF Strategy, Draw, Drop, BeginPush, WriteLo, WriteHi, Publish, CountProduced, ringVars
<1>5. /\ head' \in Nat /\ tail' \in 0 .. head'
      /\ rpc' \in Popping => tail' < head'
  BY <1>1, <1>4, Scalars DEF omsVars, IInv
<1>6. buffer' \in BufferType
  <2>1. /\ draw.side \in {0, 1, -1} /\ draw.qty \in Nat
        /\ draw.cents \in -MaxCents .. MaxCents
    BY RoutingAssumption DEF IInv, TypeOK, NoSignal
  <2>2. buffer \in BufferType
    BY DEF IInv, TypeOK, BufferType
  <2>3. CASE WriteLo
    <3>1. Drawn \in 0 .. NumSignals
      BY Scalars DEF Drawn
    <3>2. Lo(draw, Drawn) \in [sec : Seconds, side : {0, 1, -1}]
      BY <2>1, <3>1 DEF Lo, Seconds
    <3> QED
      BY <2>2, <2>3, <3>2 DEF WriteLo, BufferType
  <2>4. CASE WriteHi
    <3>1. Hi(draw) \in [qty : Nat, cents : -MaxCents .. MaxCents]
      BY <2>1 DEF Hi
    <3> QED
      BY <2>2, <2>4, <3>1 DEF WriteHi, BufferType
  <2> QED
    BY <2>2, <2>3, <2>4 DEF Strategy, Draw, Drop, BeginPush, Publish, CountProduced,
                            ringVars
<1>7. /\ produced' \in Nat /\ rejected' \in Nat /\ produced' + rejected' <= NumSignals
      /\ seen' \in 0 .. produced'
      /\ head' = produced' + (IF spc' = "count" THEN 1 ELSE 0)
      /\ spc' # "draw" => produced' + rejected' < NumSignals
  <2>1. CASE Draw
    BY <1>1, <2>1, Scalars DEF Draw, ringVars, omsVars, Drawn
  <2>2. CASE BeginPush \/ WriteLo \/ WriteHi
    BY <1>1, <2>2, Scalars DEF BeginPush, WriteLo, WriteHi, ringVars, omsVars
  <2>3. CASE Drop
    BY <1>1, <2>3, Scalars DEF Drop, ringVars, omsVars
  <2>4. CASE Publish
    BY <1>1, <2>4, Scalars DEF Publish, ringVars, omsVars
  <2>5. CASE CountProduced
    BY <1>1, <2>5, Scalars DEF CountProduced, ringVars, omsVars
  <2> QED
    BY <2>1, <2>2, <2>3, <2>4, <2>5 DEF Strategy
<1>8. /\ spc' \in {"draw", "push", "lo", "hi", "publish", "count"}
      /\ draw' \in Signals \cup {NoSignal}
  BY DEF Strategy, Draw, Drop, BeginPush, WriteLo, WriteHi, Publish, CountProduced,
         IInv, TypeOK
<1> QED
  BY <1>1, <1>2, <1>3, <1>5, <1>6, <1>7, <1>8 DEF IInv, TypeOK, Drawn, BufferType

\* A step of risk_oms before or after the call of validate.
PopStep == \/ LoadProduced \/ LoadRejected \/ CondEmpty \/ BodyEmpty \/ BeginPop
           \/ ReadLo \/ ReadHi \/ CondRelease \/ BodyRelease

LEMMA PopPreserves ==
  ASSUME IInv, PopStep
  PROVE  IInv' /\ UNCHANGED riskVars
<1>1. UNCHANGED riskVars /\ UNCHANGED strategyVars /\ UNCHANGED <<head, buffer>>
      /\ UNCHANGED <<routed, validated, approved>>
  BY DEF PopStep, LoadProduced, LoadRejected, CondEmpty, BodyEmpty, BeginPop, ReadLo,
         ReadHi, CondRelease, BodyRelease, ringVars
<1>2. PositionWithinLimits' /\ LossBounded'
  BY <1>1 DEF riskVars, IInv, PositionWithinLimits, LossBounded
<1>3. sig' \in [sec : Seconds, side : {0, 1, -1}, qty : Nat, cents : -MaxCents .. MaxCents]
  <2>1. Slot(tail) \in 0 .. Cap - 1
    BY Scalars DEF Slot
  <2>2. /\ buffer[Slot(tail)].lo \in [sec : Seconds, side : {0, 1, -1}]
        /\ buffer[Slot(tail)].hi \in [qty : Nat, cents : -MaxCents .. MaxCents]
    BY <2>1 DEF IInv, TypeOK
  <2>3. sig \in [sec : Seconds, side : {0, 1, -1}, qty : Nat, cents : -MaxCents .. MaxCents]
    BY DEF IInv, TypeOK
  <2>4. CASE ReadLo
    BY <2>2, <2>3, <2>4 DEF ReadLo
  <2>5. CASE ReadHi
    BY <2>2, <2>3, <2>5 DEF ReadHi
  <2> QED
    BY <2>3, <2>4, <2>5 DEF PopStep, LoadProduced, LoadRejected, CondEmpty, BodyEmpty,
                            BeginPop, CondRelease, BodyRelease
<1>4. /\ tail' \in 0 .. head' /\ SwallowsOneSignal'
      /\ rpc' \in Popping => tail' < head'
  <2>1. SwallowsOneSignal /\ (rpc \in Popping => tail < head)
    BY DEF IInv
  <2>2. CASE LoadProduced \/ LoadRejected \/ CondEmpty \/ BodyEmpty
    BY <1>1, <2>1, <2>2, Scalars DEF LoadProduced, LoadRejected, CondEmpty, BodyEmpty,
       ringVars, SwallowsOneSignal, Pending, Popping
  <2>3. CASE BeginPop
    BY <1>1, <2>1, <2>3, Scalars DEF BeginPop, ringVars, SwallowsOneSignal, Pending, Popping
  <2>4. CASE ReadLo
    BY <1>1, <2>1, <2>4, Scalars DEF ReadLo, ringVars, SwallowsOneSignal, Pending, Popping
  <2>5. CASE ReadHi
    BY <1>1, <2>1, <2>5, Scalars DEF ReadHi, ringVars, SwallowsOneSignal, Pending, Popping
  <2>6. CASE CondRelease \/ BodyRelease
    BY <1>1, <2>1, <2>6, Scalars DEF CondRelease, BodyRelease, SwallowsOneSignal, Pending,
       Popping
  <2> QED
    BY <2>2, <2>3, <2>4, <2>5, <2>6 DEF PopStep
<1>5. rpc' \in {"produced", "rejected", "pop", "condpop", "lo", "condlo", "hi",
                "condhi", "release", "condrelease", "validate", "done"}
  BY DEF PopStep, LoadProduced, LoadRejected, CondEmpty, BodyEmpty, BeginPop, ReadLo,
         ReadHi, CondRelease, BodyRelease
<1>6. seen' \in 0 .. produced'
  <2>1. produced' = produced /\ seen' \in {seen, produced, 0}
    BY <1>1 DEF PopStep, LoadProduced, LoadRejected, CondEmpty, BodyEmpty, BeginPop, ReadLo,
         ReadHi, CondRelease, BodyRelease, strategyVars
  <2> QED
    BY <2>1, Scalars
<1> QED
  BY <1>1, <1>2, <1>3, <1>4, <1>5, <1>6 DEF riskVars, strategyVars, IInv, TypeOK, Drawn

\* The call of validate keeps the limits, whatever the signal.
LEMMA DecidePreserves ==
  ASSUME IInv, Decide
  PROVE  IInv'
<1>1. UNCHANGED ringVars /\ UNCHANGED strategyVars /\ UNCHANGED sig
      /\ rpc = "validate" /\ rpc' = "produced" /\ seen' = 0 /\ Validate(sig)
      /\ validated' = validated + 1
  BY DEF Decide
<1>2. Word(sig) /\ approved \in [Seconds -> Nat]
  BY DEF Word, IInv, TypeOK
<1>3. /\ SwallowsOneSignal' /\ tail' \in 0 .. head' /\ ~ (rpc' \in Popping)
      /\ seen' \in 0 .. produced'
  BY <1>1, Scalars DEF IInv, SwallowsOneSignal, Pending, Popping, ringVars, strategyVars
<1>4. SUFFICES /\ PositionWithinLimits' /\ LossBounded' /\ pnl' \in Int
               /\ position' \in Int
               /\ rate_cnt' \in 0 .. RateCap /\ last_sec' \in Seconds
               /\ validated' \in Nat /\ routed' \in 0 .. validated'
               /\ approved' \in [Seconds -> Nat]
  BY <1>1, <1>3 DEF ringVars, strategyVars, IInv, TypeOK, Drawn
<1>5. CASE Status(sig) = 0
  <2>1. /\ position' = position + sig.qty * sig.side
        /\ rate_cnt' = RolledCount(sig) + 1 /\ pnl' = pnl + Gain(sig)
        /\ last_sec' = sig.sec
        /\ routed' = routed + 1
        /\ approved' = [approved EXCEPT ![sig.sec] = @ + 1]
    BY <1>1, <1>5 DEF Validate, Decide
  <2>2. PositionWithinLimits' /\ position' \in Int
    BY <1>2, <1>5, <2>1, ApprovedPosition, Scalars DEF PositionWithinLimits, Word
  <2>3. LossBounded' /\ pnl' \in Int
    <3>1. Gain(sig) \in Int /\ Gain(sig) >= -(MaxQty * (2 * MaxCents - 1))
      BY <1>2, <1>5, ApprovedPosition, GainBound, Scalars
    <3>2. pnl >= -MaxDD /\ pnl \in Int /\ MaxDD \in Nat
      BY <1>5, ApprovedOpen, Scalars, RiskAssumption
    <3>3. MaxQty * (2 * MaxCents - 1) \in Int
      BY RiskAssumption, RoutingAssumption
    <3> QED
      BY <2>1, <3>1, <3>2, <3>3 DEF LossBounded
  <2>4. rate_cnt' \in 0 .. RateCap /\ last_sec' \in Seconds
    BY <1>2, <1>5, <2>1, ApprovedOpen, Scalars DEF Word
  <2>5. routed' \in 0 .. validated' /\ approved' \in [Seconds -> Nat]
    BY <1>1, <1>2, <2>1, Scalars DEF Word
  <2>6. validated' \in Nat
    BY <1>1, Scalars
  <2> QED
    BY <2>2, <2>3, <2>4, <2>5, <2>6
<1>6. CASE Status(sig) # 0
  <2>1. /\ position' = position /\ pnl' = pnl /\ rate_cnt' = RolledCount(sig)
        /\ last_sec' = sig.sec /\ routed' = routed /\ approved' = approved
    BY <1>1, <1>6 DEF Validate, Decide
  <2>2. rate_cnt' \in 0 .. RateCap /\ last_sec' \in Seconds
    BY <1>2, <2>1, Scalars DEF RolledCount, Word
  <2>3. PositionWithinLimits' /\ LossBounded'
    BY <2>1 DEF PositionWithinLimits, LossBounded, IInv
  <2> QED
    BY <1>1, <1>2, <2>1, <2>2, <2>3, Scalars
<1> QED
  BY <1>5, <1>6

\* The invariant is inductive.
LEMMA StepPreserves == IInv /\ [Next]_vars => IInv'
<1> SUFFICES ASSUME IInv, [Next]_vars PROVE IInv'
  OBVIOUS
<1>1. CASE UNCHANGED vars
  BY <1>1 DEF vars, riskVars, ringVars, strategyVars, omsVars, IInv, TypeOK, Drawn,
              PositionWithinLimits, LossBounded, SwallowsOneSignal, Pending
<1>2. CASE Strategy
  BY <1>2, StrategyPreserves
<1>3. CASE PopStep
  BY <1>3, PopPreserves
<1>4. CASE Decide
  BY <1>4, DecidePreserves
<1> QED
  BY <1>1, <1>2, <1>3, <1>4 DEF Next, RiskOms, PopStep, Joined

-----------------------------------------------------------------------------
(* The rate limit.  While the ring keeps its order (two laps), seconds     *)
(* only go up from the gate's last one through the signals that wait to    *)
(* the strategy's present one, so no second is left and entered again.     *)

Early == head < 2 * Cap
Unread == tail .. head - 1
SecondOf(n) == buffer[Slot(n)].lo.sec
Now == Drawn \div PerSecond

\* A slot stays free between head and tail, also once a write is published.
Gap == /\ head - tail < Cap
       /\ spc \in {"lo", "hi", "publish"} /\ head + 1 < 2 * Cap => head + 1 - tail < Cap

\* The seconds of what waits, of what is written and of what was taken.
Waiting == /\ last_sec <= Now
           /\ \A n \in Unread : last_sec <= SecondOf(n) /\ SecondOf(n) <= Now
           /\ \A m, n \in Unread : m <= n => SecondOf(m) <= SecondOf(n)
Written == spc \in {"hi", "publish"} => SecondOf(head) = Now
Taken == /\ rpc \in {"hi", "condhi", "release", "condrelease"} => sig.sec = SecondOf(tail)
         /\ rpc = "validate" => /\ last_sec <= sig.sec /\ sig.sec <= Now
                                /\ \A n \in Unread : sig.sec <= SecondOf(n)

\* No second ahead has approvals, and the counter covers those of the present one.
Allowance == /\ \A s \in Seconds : /\ approved[s] <= RateCap
                                   /\ s > last_sec => approved[s] = 0
             /\ approved[last_sec] <= rate_cnt

Ordered == Gap /\ Waiting /\ Written /\ Taken /\ Allowance

\* Seconds are numbers, and every counter names a slot.
LEMMA SecondRanges ==
  ASSUME IInv
  PROVE  /\ Seconds \subseteq Int /\ last_sec \in Seconds /\ sig.sec \in Seconds /\ Now \in Int
         /\ \A n \in Int : Slot(n) \in 0 .. Cap - 1 /\ SecondOf(n) \in Seconds
<1>1. PerSecond \in Nat \ {0} /\ Cap \in Nat \ {0} /\ Drawn \in Int
  BY Scalars, RoutingAssumption DEF Drawn
<1>2. \A n \in Int : n \div PerSecond \in Int
  BY <1>1, DivisionWithRemainder
<1>3. \A n \in Int : n % Cap \in 0 .. Cap - 1
  BY <1>1, DivisionWithRemainder
<1>4. \A n \in 0 .. Cap - 1 : buffer[n].lo.sec \in Seconds
  BY DEF IInv, TypeOK
<1>5. last_sec \in Seconds /\ sig.sec \in Seconds
  BY DEF IInv, TypeOK
<1>6. Seconds \subseteq Int /\ Now \in Int
  BY <1>1, <1>2 DEF Seconds, Now
<1>7. ASSUME NEW n \in Int PROVE Slot(n) \in 0 .. Cap - 1 /\ SecondOf(n) \in Seconds
  <2>1. Slot(n) \in 0 .. Cap - 1
    BY <1>3 DEF Slot
  <2> QED
    BY <1>4, <2>1 DEF SecondOf
<1> QED
  BY <1>5, <1>6, <1>7

LEMMA OrderedInit == Init => Ordered
<1> SUFFICES ASSUME Init PROVE Ordered
  OBVIOUS
<1>1. IInv
  BY InitEstablishes
<1>2. PerSecond \in Nat \ {0} /\ Cap \in Nat /\ Cap >= 2 /\ RateCap \in Nat
  BY RoutingAssumption, RiskAssumption
<1>3. Drawn = 0 /\ 0 \div PerSecond = 0
  BY <1>2 DEF Init, Drawn
<1>4. Unread = {} /\ last_sec = 0 /\ Now = 0
  BY <1>3 DEF Init, RiskInit, Unread, Now
<1>5. 0 \in Seconds /\ \A s \in Seconds : approved[s] = 0
  BY <1>1, <1>4, SecondRanges DEF Init
<1>6. Gap /\ Written /\ Taken
  BY <1>2 DEF Init, Gap, Written, Taken
<1>7. Waiting
  BY <1>4 DEF Waiting
<1>8. Allowance
  BY <1>2, <1>4, <1>5 DEF Init, RiskInit, Allowance
<1> QED
  BY <1>6, <1>7, <1>8 DEF Ordered

\* Time does not go back.
LEMMA NowGrows ==
  ASSUME IInv, IInv', Drawn' \in {Drawn, Drawn + 1}
  PROVE  Now <= Now'
<1>1. PerSecond \in Nat \ {0} /\ Drawn \in Int /\ Drawn' \in Int /\ Drawn <= Drawn'
  BY Scalars, RoutingAssumption DEF Drawn
<1>2. Drawn \div PerSecond <= Drawn' \div PerSecond
  BY <1>1, QuotientGrows
<1> QED
  BY <1>2 DEF Now

\* Steps of the strategy that leave the unread seconds alone.
LEMMA SecondsKept ==
  ASSUME IInv, IInv', Waiting, Taken, Now <= Now', UNCHANGED <<last_sec, head, tail, rpc, sig>>,
         \A n \in Unread : SecondOf(n)' = SecondOf(n),
         rpc \in Popping => SecondOf(tail)' = SecondOf(tail)
  PROVE  Waiting' /\ Taken'
<1>1. /\ last_sec \in Int /\ sig.sec \in Int /\ Now \in Int /\ Now' \in Int
      /\ \A n \in Unread : SecondOf(n) \in Int
  <2>1. \A n \in Unread : n \in Int
    BY Scalars DEF Unread
  <2>2. Drawn' \in Int /\ PerSecond \in Nat \ {0}
    <3>1. produced' \in Nat /\ rejected' \in Nat
      BY DEF IInv, TypeOK
    <3>2. PerSecond \in Nat /\ PerSecond >= 1
      BY RoutingAssumption
    <3> QED
      BY <3>1, <3>2 DEF Drawn
  <2>3. Drawn' \div PerSecond \in Int
    BY <2>2, DivisionWithRemainder
  <2> QED
    BY <2>1, <2>3, SecondRanges DEF Now
<1>2. Unread' = Unread
  BY DEF Unread
<1>3. Waiting'
  BY <1>1, <1>2 DEF Waiting
<1>4. Taken'
  BY <1>1, <1>2 DEF Taken, Popping
<1> QED
  BY <1>3, <1>4

\* The strategy writes only into the free slot, and stamps it with the present second.
LEMMA StrategyOrdered ==
  ASSUME IInv, IInv', Strategy, Early, Early', Ordered
  PROVE  Ordered'
<1>1. /\ UNCHANGED <<position, pnl, rate_cnt, last_sec, tail, rpc, sig, approved>>
  BY DEF Strategy, Draw, Drop, BeginPush, WriteLo, WriteHi, Publish, CountProduced, ringVars,
         riskVars, omsVars
<1>2. Allowance'
  BY <1>1 DEF Ordered, Allowance
<1>3. rpc \in Popping => tail \in Unread
  BY Scalars DEF IInv, Unread
<1>4. Gap'
  <2>1. CASE BeginPush
    <3>1. head' = head /\ tail' = tail /\ (head + 1) % Cap # tail
      BY <1>1, <2>1 DEF BeginPush, ringVars, Full
    <3>2. head + 1 < 2 * Cap => head + 1 - tail < Cap
      <4>1. Cap \in Nat \ {0} /\ head + 1 \in Nat
        BY Scalars
      <4>2. PICK n \in Nat : n = head + 1
        BY <4>1
      <4>3. n < 2 * Cap => n % Cap = IF n < Cap THEN n ELSE n - Cap
        BY <4>1, FirstLaps
      <4> QED
        BY <3>1, <4>2, <4>3, Scalars DEF Ordered, Gap
    <3> QED
      BY <3>1, <3>2 DEF Ordered, Gap
  <2>2. CASE Publish
    BY <1>1, <2>2, Scalars DEF Publish, Ordered, Gap, Early
  <2>3. CASE Draw \/ Drop \/ WriteLo \/ WriteHi \/ CountProduced
    BY <1>1, <2>3, Scalars DEF Draw, Drop, WriteLo, WriteHi, CountProduced, ringVars, Ordered, Gap
  <2> QED
    BY <2>1, <2>2, <2>3 DEF Strategy
<1>5. Waiting' /\ Written' /\ Taken'
  <2>1. CASE Draw \/ Drop \/ BeginPush \/ CountProduced
    <3>1. UNCHANGED <<head, buffer>> /\ spc' \notin {"hi", "publish"}
      BY <2>1 DEF Draw, Drop, BeginPush, CountProduced, ringVars
    <3>2. Drawn' \in {Drawn, Drawn + 1}
      BY <2>1, Scalars DEF Draw, Drop, BeginPush, CountProduced, Drawn
    <3>3. \A n : SecondOf(n)' = SecondOf(n)
      BY <3>1 DEF SecondOf, Slot
    <3>4. SecondOf(tail)' = SecondOf(tail)
      BY <1>1, <3>1 DEF SecondOf, Slot
    <3> QED
      BY <1>1, <3>1, <3>2, <3>3, <3>4, NowGrows, SecondsKept DEF Ordered, Written
  <2>2. CASE WriteLo
    <3>1. /\ UNCHANGED <<head, produced, rejected>> /\ spc' = "hi" /\ spc = "lo"
          /\ buffer' = [buffer EXCEPT ![Slot(head)].lo = Lo(draw, Drawn)]
      BY <2>2 DEF WriteLo
    <3>2. Drawn' = Drawn /\ Now' = Now
      BY <3>1 DEF Drawn, Now
    <3>3. \A n \in Unread : n \in Int /\ Slot(n) # Slot(head)
      <4>1. Cap \in Nat \ {0} /\ head \in Int /\ \A n \in Unread : n \in Int /\ n < head /\ head < n + Cap
        BY Scalars DEF Ordered, Gap, Unread
      <4>2. \A n \in Unread : n % Cap # head % Cap
        BY <4>1, SlotsApart
      <4> QED
        BY <4>1, <4>2 DEF Slot
    <3>4. /\ buffer'[Slot(head)].lo.sec = Now
          /\ \A n \in Unread : buffer'[Slot(n)].lo = buffer[Slot(n)].lo
      <4>1. /\ Slot(head) \in 0 .. Cap - 1 /\ \A n \in Unread : Slot(n) \in 0 .. Cap - 1
        BY <3>3, SecondRanges, Scalars
      <4>2. buffer \in BufferType
        BY DEF IInv, TypeOK, BufferType
      <4>3. Lo(draw, Drawn).sec = Now
        BY DEF Lo, Now
      <4> QED
        BY <3>1, <3>3, <4>1, <4>2, <4>3 DEF BufferType
    <3>5. \A n \in Unread : SecondOf(n)' = SecondOf(n)
      BY <3>4 DEF SecondOf, Slot
    <3>6. SecondOf(head)' = Now
      BY <3>1, <3>4 DEF SecondOf, Slot
    <3>7. rpc \in Popping => SecondOf(tail)' = SecondOf(tail)
      BY <1>1, <1>3, <3>4 DEF SecondOf, Slot
    <3>8. Now <= Now'
      BY <3>2, SecondRanges
    <3> QED
      BY <1>1, <3>1, <3>2, <3>5, <3>6, <3>7, <3>8, SecondsKept DEF Ordered, Written
  <2>3. CASE WriteHi
    <3>1. /\ UNCHANGED <<head, produced, rejected>> /\ spc = "hi"
          /\ buffer' = [buffer EXCEPT ![Slot(head)].hi = Hi(draw)]
      BY <2>3 DEF WriteHi
    <3>2. Drawn' = Drawn /\ Now' = Now /\ Now <= Now'
      BY <3>1, SecondRanges DEF Drawn, Now
    <3>3. \A n \in Int : buffer'[Slot(n)].lo = buffer[Slot(n)].lo
      <4>1. buffer \in BufferType /\ \A n \in Int : Slot(n) \in 0 .. Cap - 1
        BY SecondRanges DEF IInv, TypeOK, BufferType
      <4> QED
        BY <3>1, <4>1 DEF BufferType
    <3>4. head \in Int /\ tail \in Int /\ \A n \in Unread : n \in Int
      BY Scalars DEF Unread
    <3>5. \A n \in Unread : SecondOf(n)' = SecondOf(n)
      BY <3>3, <3>4 DEF SecondOf, Slot
    <3>6. SecondOf(head)' = SecondOf(head) /\ SecondOf(tail)' = SecondOf(tail)
      BY <1>1, <3>1, <3>3, <3>4 DEF SecondOf, Slot
    <3> QED
      BY <1>1, <3>1, <3>2, <3>5, <3>6, SecondsKept DEF Ordered, Written
  <2>4. CASE Publish
    <3>1. /\ UNCHANGED <<buffer, produced, rejected>> /\ spc = "publish" /\ spc' = "count"
          /\ head' = head + 1
      BY <2>4 DEF Publish
    <3>2. Drawn' = Drawn /\ Now' = Now
      BY <3>1 DEF Drawn, Now
    <3>3. \A n : SecondOf(n)' = SecondOf(n)
      BY <3>1 DEF SecondOf, Slot
    <3>4. SecondOf(tail)' = SecondOf(tail)
      BY <1>1, <3>1 DEF SecondOf, Slot
    <3>5. /\ Unread' = Unread \cup {head} /\ SecondOf(head) = Now
          /\ \A n \in Unread : n \in Int /\ n < head
      BY <1>1, <3>1, Scalars DEF Unread, Ordered, Written
    <3>6. /\ last_sec \in Int /\ sig.sec \in Int /\ Now \in Int
          /\ head \in Int /\ \A n \in Unread : SecondOf(n) \in Int
      BY <3>5, SecondRanges, Scalars
    <3>7. Waiting'
      BY <1>1, <3>2, <3>3, <3>5, <3>6 DEF Ordered, Waiting
    <3>8. Taken'
      BY <1>1, <3>2, <3>3, <3>4, <3>5, <3>6 DEF Ordered, Taken
    <3> QED
      BY <3>1, <3>7, <3>8 DEF Written
  <2> QED
    BY <2>1, <2>2, <2>3, <2>4 DEF Strategy
<1> QED
  BY <1>2, <1>4, <1>5 DEF Ordered

\* A pop takes the oldest second that waits.
LEMMA PopOrdered ==
  ASSUME IInv, PopStep, Ordered
  PROVE  Ordered'
<1>1. UNCHANGED <<last_sec, rate_cnt, head, buffer, spc, produced, rejected, approved>>
  BY DEF PopStep, LoadProduced, LoadRejected, CondEmpty, BodyEmpty, BeginPop, ReadLo,
         ReadHi, CondRelease, BodyRelease, ringVars, strategyVars, riskVars
<1>2. Drawn' = Drawn /\ Now' = Now
  BY <1>1 DEF Drawn, Now
<1>3. \A n : SecondOf(n)' = SecondOf(n)
  BY <1>1 DEF SecondOf, Slot
<1>4. SecondOf(head)' = SecondOf(head)
  BY <1>1 DEF SecondOf, Slot
<1>5. tail' \in {tail, tail + 1}
  BY DEF PopStep, LoadProduced, LoadRejected, CondEmpty, BodyEmpty, BeginPop, ReadLo,
         ReadHi, CondRelease, BodyRelease, ringVars
<1>6. /\ Unread' \subseteq Unread /\ (rpc \in Popping => tail \in Unread)
      /\ \A n \in Unread : n \in Int /\ tail <= n
  BY <1>1, <1>5, Scalars DEF Unread, IInv
<1>7. Gap'
  BY <1>1, <1>5, Scalars DEF Ordered, Gap
<1>8. Waiting' /\ Written' /\ Allowance'
  BY <1>1, <1>2, <1>3, <1>4, <1>6 DEF Ordered, Waiting, Written, Allowance
<1>9. Taken'
  <2>1. CASE LoadProduced \/ LoadRejected \/ CondEmpty \/ BodyEmpty \/ BeginPop
    BY <2>1 DEF LoadProduced, LoadRejected, CondEmpty, BodyEmpty, BeginPop, Taken
  <2>2. CASE ReadLo
    <3>1. /\ sig' = [sig EXCEPT !.sec = SecondOf(tail), !.side = buffer[Slot(tail)].lo.side]
          /\ rpc' \in {"hi", "condhi"} /\ tail' = tail
      BY <2>2 DEF ReadLo, SecondOf, ringVars
    <3>2. sig \in [sec : Seconds, side : {0, 1, -1}, qty : Nat, cents : -MaxCents .. MaxCents]
      BY DEF IInv, TypeOK
    <3>3. sig'.sec = SecondOf(tail)
      BY <3>1, <3>2
    <3>4. SecondOf(tail)' = SecondOf(tail)
      BY <1>1, <3>1 DEF SecondOf, Slot
    <3> QED
      BY <3>1, <3>3, <3>4 DEF Taken
  <2>3. CASE ReadHi
    <3>1. /\ rpc \in {"hi", "condhi"} /\ rpc' \in {"release", "condrelease"} /\ tail' = tail
          /\ sig' = [sig EXCEPT !.qty = buffer[Slot(tail)].hi.qty,
                                !.cents = buffer[Slot(tail)].hi.cents]
      BY <2>3 DEF ReadHi, ringVars
    <3>2. sig \in [sec : Seconds, side : {0, 1, -1}, qty : Nat, cents : -MaxCents .. MaxCents]
      BY DEF IInv, TypeOK
    <3>3. sig'.sec = sig.sec
      BY <3>1, <3>2
    <3>4. SecondOf(tail)' = SecondOf(tail)
      BY <1>1, <3>1 DEF SecondOf, Slot
    <3> QED
      BY <3>1, <3>3, <3>4 DEF Taken, Ordered
  <2>4. CASE CondRelease
    BY <2>4 DEF CondRelease, Taken
  <2>5. CASE BodyRelease
    <3>1. rpc = "release" /\ rpc' = "validate" /\ sig' = sig
      BY <2>5 DEF BodyRelease
    <3>2. sig.sec = SecondOf(tail) /\ tail \in Unread
      BY <1>6, <3>1 DEF Ordered, Taken, Popping
    <3>3. /\ last_sec <= sig.sec /\ sig.sec <= Now
          /\ \A n \in Unread : sig.sec <= SecondOf(n)
      BY <1>6, <3>2 DEF Ordered, Waiting
    <3> QED
      BY <1>1, <1>2, <1>3, <1>6, <3>1, <3>3 DEF Taken
  <2> QED
    BY <2>1, <2>2, <2>3, <2>4, <2>5 DEF PopStep
<1> QED
  BY <1>7, <1>8, <1>9 DEF Ordered

\* An approval counts in its own second, which the gate has not left before.
LEMMA DecideOrdered ==
  ASSUME IInv, Decide, Ordered
  PROVE  Ordered'
<1>1. /\ UNCHANGED <<head, tail, buffer, spc, produced, rejected, sig>>
      /\ rpc = "validate" /\ rpc' = "produced" /\ Validate(sig)
  BY DEF Decide, ringVars, strategyVars
<1>2. Drawn' = Drawn /\ Now' = Now /\ Unread' = Unread
  BY <1>1 DEF Drawn, Now, Unread
<1>3. \A n : SecondOf(n)' = SecondOf(n)
  BY <1>1 DEF SecondOf, Slot
<1>4. SecondOf(head)' = SecondOf(head)
  BY <1>1 DEF SecondOf, Slot
<1>5. last_sec' = sig.sec
  BY <1>1 DEF Validate
<1>6. Gap' /\ Written' /\ Taken'
  BY <1>1, <1>2, <1>4 DEF Ordered, Gap, Written, Taken
<1>7. Waiting'
  BY <1>1, <1>2, <1>3, <1>5 DEF Ordered, Waiting, Taken
<1>8. /\ last_sec \in Int /\ sig.sec \in Seconds /\ sig.sec \in Int /\ last_sec <= sig.sec
      /\ Seconds \subseteq Int /\ approved \in [Seconds -> Nat]
      /\ rate_cnt \in 0 .. RateCap /\ RateCap \in Nat
  BY <1>1, SecondRanges, Scalars DEF Ordered, Taken, IInv, TypeOK
<1>9. approved[sig.sec] <= RolledCount(sig) /\ RolledCount(sig) \in Nat
  BY <1>8 DEF Ordered, Allowance, RolledCount
<1>10. Allowance'
  <2>1. CASE Status(sig) = 0
    <3>1. /\ approved' = [approved EXCEPT ![sig.sec] = @ + 1]
          /\ rate_cnt' = RolledCount(sig) + 1
      BY <2>1, <1>1 DEF Decide, Validate
    <3>2. RolledCount(sig) < RateCap
      BY <2>1, <1>8, ApprovedOpen, Scalars
    <3>3. /\ approved'[sig.sec] = approved[sig.sec] + 1
          /\ \A s \in Seconds \ {sig.sec} : approved'[s] = approved[s]
      BY <1>8, <3>1
    <3>4. /\ approved'[sig.sec] <= rate_cnt' /\ approved'[sig.sec] <= RateCap
      <4>1. approved[sig.sec] \in Nat
        BY <1>8
      <4> QED
        BY <1>8, <1>9, <3>1, <3>2, <3>3, <4>1
    <3>5. ASSUME NEW s \in Seconds
          PROVE  approved'[s] <= RateCap /\ (s > sig.sec => approved'[s] = 0)
      <4>1. s \in Int
        BY <1>8
      <4> QED
        BY <1>8, <3>3, <3>4, <4>1 DEF Ordered, Allowance
    <3> QED
      BY <1>5, <3>4, <3>5 DEF Allowance
  <2>2. CASE Status(sig) # 0
    <3>1. approved' = approved /\ rate_cnt' = RolledCount(sig)
      BY <2>2, <1>1 DEF Decide, Validate
    <3>2. ASSUME NEW s \in Seconds
          PROVE  approved[s] <= RateCap /\ (s > sig.sec => approved[s] = 0)
      <4>1. s \in Int
        BY <1>8
      <4> QED
        BY <1>8, <4>1 DEF Ordered, Allowance
    <3> QED
      BY <1>5, <1>9, <3>1, <3>2 DEF Allowance
  <2> QED
    BY <2>1, <2>2
<1> QED
  BY <1>6, <1>7, <1>10 DEF Ordered

\* The order of the seconds is kept until the ring is overrun.
LEMMA OrderedPreserved ==
  ASSUME IInv, IInv', [Next]_vars, Early => Ordered
  PROVE  (Early => Ordered)'
<1>1. CASE UNCHANGED vars
  BY <1>1 DEF vars, riskVars, ringVars, strategyVars, omsVars, Early, Ordered, Gap, Waiting,
              Written, Taken, Allowance, Unread, SecondOf, Now, Drawn, Slot
<1>2. CASE Strategy
  <2>1. head' \in {head, head + 1}
    BY <1>2 DEF Strategy, Draw, Drop, BeginPush, WriteLo, WriteHi, Publish, CountProduced, ringVars
  <2>2. Early' => Early
    BY <2>1, Scalars DEF Early
  <2> QED
    BY <1>2, <2>2, StrategyOrdered
<1>3. CASE PopStep
  <2>1. head' = head
    BY <1>3 DEF PopStep, LoadProduced, LoadRejected, CondEmpty, BodyEmpty, BeginPop, ReadLo,
                ReadHi, CondRelease, BodyRelease, ringVars
  <2>2. Early' => Early
    BY <2>1 DEF Early
  <2> QED
    BY <1>3, <2>2, PopOrdered
<1>4. CASE Decide
  <2>1. Early' => Early
    BY <1>4 DEF Early, Decide, ringVars
  <2> QED
    BY <1>4, <2>1, DecideOrdered
<1> QED
  BY <1>1, <1>2, <1>3, <1>4 DEF Next, RiskOms, PopStep, Joined

-----------------------------------------------------------------------------
(* The theorems                                                            *)

\* All variables keep their types: no counter, slot or local signal leaves its
\* range.
THEOREM TypesHold == Spec => []TypeOK
<1>1. IInv => TypeOK
  BY DEF IInv
<1> QED
  BY InitEstablishes, StepPreserves, <1>1, PTL DEF Spec

\* The position limit (day19:83-86) holds although both comparisons are unsigned
\* and whatever signals the ring loses, repeats or tears.
THEOREM PositionLimitHolds == Spec => []PositionWithinLimits
<1>1. IInv => PositionWithinLimits
  BY DEF IInv
<1> QED
  BY InitEstablishes, StepPreserves, <1>1, PTL DEF Spec

\* The circuit breaker (day19:88) bounds the loss to one largest order past MaxDD.
THEOREM LossIsBounded == Spec => []LossBounded
<1>1. IInv => LossBounded
  BY DEF IInv
<1> QED
  BY InitEstablishes, StepPreserves, <1>1, PTL DEF Spec

\* The loop of risk_oms (day19:146-159) leaves exactly one popped signal
\* unvalidated, and only by ending.
THEOREM OneSignalSwallowed == Spec => []SwallowsOneSignal
<1>1. IInv => SwallowsOneSignal
  BY DEF IInv
<1> QED
  BY InitEstablishes, StepPreserves, <1>1, PTL DEF Spec

\* Until the ring is overrun no second has more approvals than RATE_CAP (day19:74-90),
\* though the gate keeps one counter and clears it at every change of second.
THEOREM RateCapKept == Spec => []RateCapHeld
<1> DEFINE OInv == Early => Ordered
<1>1. Init => OInv
  BY OrderedInit
<1>2. IInv /\ IInv' /\ OInv /\ [Next]_vars => OInv'
  BY OrderedPreserved
<1>3. OInv => RateCapHeld
  BY DEF Early, Ordered, Allowance, RateCapHeld
<1> HIDE DEF OInv
<1> QED
  BY InitEstablishes, StepPreserves, <1>1, <1>2, <1>3, PTL DEF Spec
================================================================================
