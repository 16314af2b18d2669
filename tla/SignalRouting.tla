------------------------------ MODULE SignalRouting ----------------------------
(***************************************************************************)
(* day19_signal_routing.cpp: the strategy thread sends NumSignals signals  *)
(* through an SPSCQueue, dropping those the queue refuses, and the         *)
(* risk_oms thread pops them into the RiskEngine.                          *)
(*                                                                         *)
(* The queue is the SPSCQueue of RingQueue; NUM_SIGNALS is hundreds of     *)
(* times its capacity, so its overruns belong to this program's normal     *)
(* behaviour and its accesses are single steps here too.  The first word   *)
(* of a slot holds ts_ns and side, the second qty and price.               *)
(***************************************************************************)
EXTENDS RiskEngine

CONSTANTS Cap,            \* QUEUE_CAP
          NumSignals,     \* NUM_SIGNALS
          PerSecond,      \* signals the strategy stamps with one second
          MaxCents,       \* how far from 150.00 it may price, in cents
          Signals         \* what it may draw: [side, qty, cents]

ASSUME RoutingAssumption ==
    /\ Cap \in Nat /\ Cap >= 2 /\ NumSignals \in Nat
    /\ PerSecond \in Nat /\ PerSecond >= 1 /\ MaxCents \in Nat /\ MaxCents >= 1
    /\ Signals \subseteq [side : {1, -1}, qty : Nat, cents : -MaxCents .. MaxCents]

VARIABLES head, tail, buffer,       \* sig_queue
          produced, rejected,       \* the counters the threads share
          spc, draw,                \* strategy: next access, the signal in hand
          rpc, seen, sig,           \* risk_oms: next access, produced as loaded,
                                    \*   its local signal
          routed,                   \* approved signals
          validated,                \* history: calls of validate
          approved                  \* history: approvals per second

ringVars == <<head, tail, buffer>>
strategyVars == <<spc, draw, produced, rejected>>
omsVars == <<rpc, seen, sig, routed, validated, approved>>
vars == <<riskVars, ringVars, strategyVars, omsVars>>

Seconds == {i \div PerSecond : i \in 0 .. NumSignals}
NoSignal == [side |-> 0, qty |-> 0, cents |-> 0]

\* base_ts only grows: signal i is stamped with second i \div PerSecond
Drawn == produced + rejected
Lo(s, i) == [sec |-> i \div PerSecond, side |-> s.side]
Hi(s) == [qty |-> s.qty, cents |-> s.cents]

Init == /\ RiskInit
        /\ head = 0 /\ tail = 0
        /\ buffer = [c \in 0 .. Cap - 1 |->
                        [lo |-> [sec |-> 0, side |-> 0], hi |-> [qty |-> 0, cents |-> 0]]]
        /\ produced = 0 /\ rejected = 0
        /\ spc = "draw" /\ draw = NoSignal
        /\ rpc = "produced" /\ seen = 0
        /\ sig = [sec |-> 0, side |-> 0, qty |-> 0, cents |-> 0]
        /\ routed = 0 /\ validated = 0
        /\ approved = [s \in Seconds |-> 0]

Slot(n) == n % Cap

-----------------------------------------------------------------------------
(* The strategy thread                                                     *)

Draw == /\ spc = "draw" /\ Drawn < NumSignals
        /\ draw' \in Signals
        /\ spc' = "push"
        /\ UNCHANGED <<riskVars, ringVars, omsVars, produced, rejected>>

Full == (head + 1) % Cap = tail

\* A slip (mutant of Drop): the strategy waits for room.
BlockingFull == /\ spc = "push" /\ Full
                /\ UNCHANGED vars

\* push returns false: rejected.fetch_add(1), goto next_sig
Drop == /\ spc = "push" /\ Full
        /\ rejected' = rejected + 1
        /\ spc' = "draw" /\ draw' = NoSignal
        /\ UNCHANGED <<riskVars, ringVars, omsVars, produced>>

BeginPush == /\ spc = "push" /\ ~Full
             /\ spc' = "lo"
             /\ UNCHANGED <<riskVars, ringVars, omsVars, draw, produced, rejected>>

WriteLo == /\ spc = "lo"
           /\ buffer' = [buffer EXCEPT ![Slot(head)].lo = Lo(draw, Drawn)]
           /\ spc' = "hi"
           /\ UNCHANGED <<riskVars, head, tail, omsVars, draw, produced, rejected>>

WriteHi == /\ spc = "hi"
           /\ buffer' = [buffer EXCEPT ![Slot(head)].hi = Hi(draw)]
           /\ spc' = "publish"
           /\ UNCHANGED <<riskVars, head, tail, omsVars, draw, produced, rejected>>

Publish == /\ spc = "publish"
           /\ head' = head + 1
           /\ spc' = "count"
           /\ UNCHANGED <<riskVars, tail, buffer, omsVars, draw, produced, rejected>>

\* produced.fetch_add(1)
CountProduced == /\ spc = "count"
                 /\ produced' = produced + 1
                 /\ spc' = "draw" /\ draw' = NoSignal
                 /\ UNCHANGED <<riskVars, ringVars, omsVars, rejected>>

-----------------------------------------------------------------------------
(* The risk_oms thread.  Its loop condition is                             *)
(*     produced + rejected < NUM_SIGNALS || !sig_queue.pop(sig)            *)
(* so that pop is called only once the strategy is seen to have finished,  *)
(* and a signal it returns ends the loop without being validated.  The     *)
(* steps of the two calls of pop differ in the suffix of rpc.              *)

LoadProduced == /\ rpc = "produced"
                /\ seen' = produced
                /\ rpc' = "rejected"
                /\ UNCHANGED <<riskVars, ringVars, strategyVars, sig, routed,
                               validated, approved>>

LoadRejected == /\ rpc = "rejected"
                /\ rpc' = IF seen + rejected < NumSignals THEN "pop" ELSE "condpop"
                /\ UNCHANGED <<riskVars, ringVars, strategyVars, seen, sig, routed,
                               validated, approved>>

\* pop in the condition finds nothing: the body runs
CondEmpty == /\ rpc = "condpop" /\ tail = head
             /\ rpc' = "pop"
             /\ UNCHANGED <<riskVars, ringVars, strategyVars, seen, sig, routed,
                            validated, approved>>

\* pop in the body finds nothing: back to the condition
BodyEmpty == /\ rpc = "pop" /\ tail = head
             /\ rpc' = "produced" /\ seen' = 0
             /\ UNCHANGED <<riskVars, ringVars, strategyVars, sig, routed,
                            validated, approved>>

BeginPop == /\ rpc \in {"pop", "condpop"} /\ tail # head
            /\ rpc' = IF rpc = "pop" THEN "lo" ELSE "condlo"
            /\ UNCHANGED <<riskVars, ringVars, strategyVars, seen, sig, routed,
                           validated, approved>>

ReadLo == /\ rpc \in {"lo", "condlo"}
          /\ LET w == buffer[Slot(tail)].lo
             IN sig' = [sig EXCEPT !.sec = w.sec, !.side = w.side]
          /\ rpc' = IF rpc = "lo" THEN "hi" ELSE "condhi"
          /\ UNCHANGED <<riskVars, ringVars, strategyVars, seen, routed,
                         validated, approved>>

ReadHi == /\ rpc \in {"hi", "condhi"}
          /\ LET w == buffer[Slot(tail)].hi
             IN sig' = [sig EXCEPT !.qty = w.qty, !.cents = w.cents]
          /\ rpc' = IF rpc = "hi" THEN "release" ELSE "condrelease"
          /\ UNCHANGED <<riskVars, ringVars, strategyVars, seen, routed,
                         validated, approved>>

\* A slip (mutant of CondRelease): the loop goes on after the pop of its condition.
CondReleaseContinues == /\ rpc = "condrelease"
                        /\ tail' = tail + 1
                        /\ rpc' = "pop"
                        /\ UNCHANGED <<riskVars, head, buffer, strategyVars, seen, sig,
                                       routed, validated, approved>>

\* the pop of the condition succeeds: the loop ends
CondRelease == /\ rpc = "condrelease"
               /\ tail' = tail + 1
               /\ rpc' = "done"
               /\ UNCHANGED <<riskVars, head, buffer, strategyVars, seen, sig,
                              routed, validated, approved>>

BodyRelease == /\ rpc = "release"
               /\ tail' = tail + 1
               /\ rpc' = "validate"
               /\ UNCHANGED <<riskVars, head, buffer, strategyVars, seen, sig,
                              routed, validated, approved>>

\* validate, and apply_fill and routed.fetch_add(1) on an approval
Decide == /\ rpc = "validate"
          /\ Validate(sig)
          /\ validated' = validated + 1
          /\ IF Status(sig) = 0
             THEN /\ routed' = routed + 1
                  /\ approved' = [approved EXCEPT ![sig.sec] = @ + 1]
             ELSE UNCHANGED <<routed, approved>>
          /\ rpc' = "produced" /\ seen' = 0
          /\ UNCHANGED <<ringVars, strategyVars, sig>>

-----------------------------------------------------------------------------
Strategy == Draw \/ Drop \/ BeginPush \/ WriteLo \/ WriteHi \/ Publish \/ CountProduced

RiskOms == \/ LoadProduced \/ LoadRejected \/ CondEmpty \/ BodyEmpty \/ BeginPop
           \/ ReadLo \/ ReadHi \/ CondRelease \/ BodyRelease \/ Decide

StrategyDone == spc = "draw" /\ Drawn = NumSignals

\* both joins of main have returned
Joined == StrategyDone /\ rpc = "done" /\ UNCHANGED vars

Next == Strategy \/ RiskOms \/ Joined

Spec == Init /\ [][Next]_vars

\* The strategy thread is scheduled; the risk_oms thread may stall for ever.
StrategyFairSpec == Spec /\ WF_vars(Strategy)

\* Both threads are scheduled.
FairSpec == StrategyFairSpec /\ WF_vars(RiskOms)

-----------------------------------------------------------------------------
(* Properties.                                                             *)

\* The variables hold what the C++ objects can hold, and each counter follows
\* the thread that owns it.
TypeOK ==
    /\ position \in Int /\ pnl \in Int /\ rate_cnt \in 0 .. RateCap /\ last_sec \in Seconds
    /\ head \in Nat /\ tail \in 0 .. head
    /\ buffer \in [0 .. Cap - 1 -> [lo : [sec : Seconds, side : {0, 1, -1}],
                                    hi : [qty : Nat, cents : -MaxCents .. MaxCents]]]
    /\ produced \in Nat /\ rejected \in Nat /\ Drawn <= NumSignals
    /\ head = produced + (IF spc = "count" THEN 1 ELSE 0)
    /\ spc \in {"draw", "push", "lo", "hi", "publish", "count"}
    /\ draw \in Signals \cup {NoSignal}
    /\ rpc \in {"produced", "rejected", "pop", "condpop", "lo", "condlo", "hi",
                "condhi", "release", "condrelease", "validate", "done"}
    /\ seen \in 0 .. produced
    /\ sig \in [sec : Seconds, side : {0, 1, -1}, qty : Nat,
                cents : -MaxCents .. MaxCents]
    /\ validated \in Nat /\ routed \in 0 .. validated
    /\ approved \in [Seconds -> Nat]

\* The gate keeps the position within the limit on both sides, although it
\* compares signed positions as unsigned numbers, and whatever signals the ring
\* loses, repeats or tears.
PositionWithinLimits == position \in -MaxPos .. MaxPos

\* MAX_POS is a "Position limit" (day19:13) and status 1 means "limit"
\* (day19:35): an order is refused so only if it is too large, or if filling it
\* would take the position past the limit.
LimitRefusalsJustified ==
    rpc = "validate" /\ Status(sig) = 1 =>
        TooLarge(sig) \/ position + sig.qty * sig.side \notin -MaxPos .. MaxPos

\* The circuit breaker bounds the loss: nothing is approved once it exceeds
\* MaxDD, so it never exceeds MaxDD by more than one largest order at the worst
\* price, even when a torn signal pairs one order's side with another's price.
LossBounded == pnl >= -MaxDD - MaxQty * (2 * MaxCents - 1)

\* While the ring keeps its order (up to its third lap) no second of signal
\* time has more than RateCap approvals, though the gate keeps one counter only
\* and clears it whenever the second changes.
RateCapHeld == head < 2 * Cap => \A s \in Seconds : approved[s] <= RateCap

\* The strategy never waits for the risk thread ("NEVER blocks", day19:183):
\* it goes through all its signals even if the risk thread never runs again.
StrategyEnds == <>StrategyDone

\* risk_oms leaves its loop by popping one signal that nobody validates, and by
\* no other way: until then every popped signal is validated, and afterwards
\* exactly one was not.
Pending == IF rpc \in {"validate", "done"} THEN 1 ELSE 0
SwallowsOneSignal == tail = validated + Pending

\* The statistics printed after main has joined both threads (day19:162-175)
\* take for granted that risk_oms leaves its loop.
BothThreadsJoin == <>(StrategyDone /\ rpc = "done")
================================================================================
