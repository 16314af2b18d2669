------------------------------- MODULE ReplayEngine ----------------------------
(***************************************************************************)
(* day18_tick_replay_engine.cpp: a stream of sequenced ticks with losses   *)
(* and duplicates (generate_raw_stream) is replayed through the            *)
(* SequenceValidator into the order slots and the book state of            *)
(* ReplayEngine.  Generation does not look at the engine and the replay is *)
(* one thread, so a tick is generated and processed in one step.           *)
(***************************************************************************)
EXTENDS Integers, Sequences, FiniteSets

CONSTANTS Slots,          \* MAX_ORDER_IDS: the size of orders_
          Interval,       \* SNAPSHOT_INTERVAL
          MaxEvents,      \* NUM_TICKS: iterations of the generator
          OrderIds, TickPrices, TickQuantities,   \* what the generator draws
          Mid             \* 15000: below it an ADD is a bid

ASSUME SlotsAssumption == Slots \in Nat \ {0} /\ Interval \in Nat \ {0}
ASSUME StreamAssumption == MaxEvents \in Nat
ASSUME DrawnAssumption == /\ OrderIds \subseteq Nat /\ TickPrices \subseteq Nat
                          /\ TickQuantities \subseteq Nat \ {0} /\ Mid \in Nat

Types == {"ADD", "MODIFY", "CANCEL", "EXECUTE"}
Tick == [seq : Nat \ {0}, order_id : OrderIds, price : TickPrices, qty : TickQuantities,
         type : Types]
Drawn == [order_id : OrderIds, price : TickPrices, qty : TickQuantities, type : Types]

VARIABLES events,                  \* iterations of the generator so far
          seq,                     \* the generator's next sequence number
          last,                    \* stream.back(), or <<>> of an empty stream
          expected_seq, gaps, duplicates,                   \* SequenceValidator
          orders,                                           \* orders_
          bid_volume, ask_volume, best_bid, best_ask,       \* current_state_
          processed_ticks,
          history,                 \* history_: processed_ticks of each snapshot
          lost,                    \* history: sequence numbers never sent
          applied, skipped,        \* history: those processed, those at a gap
          stray,                   \* history: quantity of the bids that asks were
                                   \*   written over, less that of asks under bids
          unseen                   \* history: slots last filled by an ADD that changed
                                   \*   no quantity, being as large as what it replaced

genVars == <<events, seq, last, lost>>
validatorVars == <<expected_seq, gaps, duplicates, applied, skipped>>
bookVars == <<orders, bid_volume, ask_volume, best_bid, best_ask, processed_ticks,
              history, stray, unseen>>
replayVars == <<genVars, validatorVars, bookVars>>

ReplayInit ==
    /\ events = 0 /\ seq = 1 /\ last = <<>> /\ lost = {}
    /\ expected_seq = 1 /\ gaps = 0 /\ duplicates = 0
    /\ applied = {} /\ skipped = {}
    /\ orders = [s \in 0 .. Slots - 1 |-> [price |-> 0, qty |-> 0, side |-> 0]]
    /\ bid_volume = 0 /\ ask_volume = 0
    /\ best_bid = 0 /\ best_ask = 999999
    /\ processed_ticks = 0 /\ history = <<>>
    /\ stray = 0 /\ unseen = {}

-----------------------------------------------------------------------------
(* SequenceValidator::validate                                             *)

InSequence(n) == n = expected_seq
Ahead(n) == n > expected_seq

\* Status::OK
Accept(n) == /\ expected_seq' = expected_seq + 1
             /\ applied' = applied \cup {n}
             /\ UNCHANGED <<gaps, duplicates, skipped>>

\* A slip (mutant of CatchUp): the tick at the gap stays expected.
CatchUpToTick(n) == /\ expected_seq' = n
                    /\ gaps' = gaps + 1
                    /\ skipped' = skipped \cup {n}
                    /\ UNCHANGED <<duplicates, applied>>

\* Status::GAP: catch up past the tick that showed the gap
CatchUp(n) == /\ expected_seq' = n + 1
              /\ gaps' = gaps + 1
              /\ skipped' = skipped \cup {n}
              /\ UNCHANGED <<duplicates, applied>>

\* Status::DUPLICATE
Skip(n) == /\ duplicates' = duplicates + 1
           /\ UNCHANGED <<expected_seq, gaps, applied, skipped>>

-----------------------------------------------------------------------------
(* ReplayEngine::process                                                   *)

SideOf(p) == IF p < Mid THEN 1 ELSE -1

Updated(ord, t) ==
    CASE t.type = "ADD" -> [price |-> t.price, qty |-> t.qty, side |-> SideOf(t.price)]
      [] t.type = "MODIFY" -> [ord EXCEPT !.qty = t.qty]
      [] OTHER -> [ord EXCEPT !.qty = 0]

\* What an overwritten order leaves on the bid side: its quantity if it was a
\* bid and is one no more, that quantity missing if it became one.
LeftBehind(before, after) ==
    CASE before.side = 1 /\ after.side # 1 -> before.qty
      [] before.side # 1 /\ after.side = 1 -> -before.qty
      [] OTHER -> 0

\* A slip (mutant of Delta): the quantity before is lost.
DeltaAfterUpdate(before, after) == after.qty

Delta(before, after) == after.qty - before.qty

\* A slip (mutant of IsBid): the side is taken from the tick's price.
IsBidByPrice(ord, t) == t.price < Mid

IsBid(ord, t) == ord.side = 1

Improves(ord, delta) == delta # 0 /\ ord.qty > 0

\* A slip (mutant of Beats): the best price is the last one.
BeatsAnything(side, price) == TRUE

Beats(side, price) == IF side = 1 THEN price > best_bid ELSE price < best_ask

Apply(t) ==
    LET s == t.order_id % Slots
        ord == Updated(orders[s], t)
        delta == Delta(orders[s], ord)
    IN  /\ orders' = [orders EXCEPT ![s] = ord]
        /\ IF IsBid(ord, t)
           THEN bid_volume' = bid_volume + delta /\ UNCHANGED ask_volume
           ELSE ask_volume' = ask_volume + delta /\ UNCHANGED bid_volume
        /\ best_bid' = IF ord.side = 1 /\ Improves(ord, delta) /\ Beats(1, t.price)
                       THEN t.price ELSE best_bid
        /\ best_ask' = IF ord.side = -1 /\ Improves(ord, delta) /\ Beats(-1, t.price)
                       THEN t.price ELSE best_ask
        /\ processed_ticks' = processed_ticks + 1
        /\ history' = IF processed_ticks' % Interval = 0
                      THEN Append(history, processed_ticks') ELSE history
        /\ stray' = stray + LeftBehind(orders[s], ord)
        /\ unseen' = CASE t.type # "ADD" -> unseen
                       [] t.type = "ADD" /\ delta = 0 -> unseen \cup {s}
                       [] OTHER -> unseen \ {s}

process(t) ==
    \/ InSequence(t.seq) /\ Accept(t.seq) /\ Apply(t)
    \/ Ahead(t.seq) /\ CatchUp(t.seq) /\ UNCHANGED bookVars
    \/ ~InSequence(t.seq) /\ ~Ahead(t.seq) /\ Skip(t.seq) /\ UNCHANGED bookVars

-----------------------------------------------------------------------------
(* generate_raw_stream                                                     *)

\* a lost packet: two sequence numbers are skipped and nothing is sent
Lose == /\ events < MaxEvents
        /\ events' = events + 1
        /\ seq' = seq + 2
        /\ lost' = lost \cup {seq, seq + 1}
        /\ UNCHANGED <<last, validatorVars, bookVars>>

\* the last tick again (the code reads back() of an empty stream if every
\* tick so far was lost: undefined, and left out)
Duplicate == /\ events < MaxEvents
             /\ last # <<>>
             /\ events' = events + 1
             /\ process(last[1])
             /\ UNCHANGED <<seq, last, lost>>

Send == /\ events < MaxEvents
        /\ events' = events + 1
        /\ \E d \in Drawn :
              LET t == [seq |-> seq, order_id |-> d.order_id, price |-> d.price,
                        qty |-> d.qty, type |-> d.type]
              IN  last' = <<t>> /\ process(t)
        /\ seq' = seq + 1
        /\ UNCHANGED lost

Replayed == events = MaxEvents /\ UNCHANGED replayVars

ReplayNext == Lose \/ Duplicate \/ Send \/ Replayed

ReplaySpec == ReplayInit /\ [][ReplayNext]_replayVars

-----------------------------------------------------------------------------
(* Properties.                                                             *)

Ord == [price : Nat, qty : Nat, side : {0, 1, -1}]

\* The variables hold what the C++ objects can hold; the stream's last tick is
\* older than the generator's next.
ReplayTypeOK ==
    /\ events \in 0 .. MaxEvents
    /\ seq \in Nat \ {0}
    /\ last # <<>> => last[1] \in Tick /\ last[1].seq < seq
    /\ expected_seq \in 1 .. seq
    /\ gaps \in Nat /\ duplicates \in Nat
    /\ orders \in [0 .. Slots - 1 -> Ord]
    /\ bid_volume \in Int /\ ask_volume \in Int
    /\ best_bid \in Nat /\ best_ask \in Nat
    /\ processed_ticks \in Nat
    /\ history \in Seq(Nat)
    /\ stray \in Int /\ unseen \subseteq 0 .. Slots - 1

\* Each sequence number below the expected one was applied to the book once, or
\* never sent, or belongs to the tick that revealed a gap, which the engine
\* drops with the lost ones; the three do not overlap, and the counters the
\* program prints count them (a gap counts once however wide it is).
EverySequenceAccounted ==
    /\ 1 .. expected_seq - 1 = applied \cup skipped \cup {n \in lost : n < expected_seq}
    /\ applied \cap skipped = {} /\ applied \cap lost = {} /\ skipped \cap lost = {}
    /\ processed_ticks = Cardinality(applied)
    /\ gaps = Cardinality(skipped)

\* The two incremental volumes always add up to what a full rebuild from the
\* slots gives ("Incremental: O(1) updates per tick, no full rebuild").
SlotIndices == 0 .. Slots - 1
Resting(side) == {s \in SlotIndices : orders[s].side = side}
SumOver(f) == LET sum[n \in 0 .. Slots] == IF n = 0 THEN 0 ELSE sum[n - 1] + f[n - 1]
              IN  sum[Slots]
RebuiltVolume(S) == SumOver([s \in SlotIndices |-> IF s \in S THEN orders[s].qty ELSE 0])
VolumesMatchRebuild == bid_volume + ask_volume = RebuiltVolume(SlotIndices)

\* Side by side they are wrong by what two order ids that share a slot leave
\* there and by nothing else: of a resting order that one of the other side is
\* written over, the quantity stays on its side and is taken off the other.
SidesOffByOverwrites ==
    /\ bid_volume = RebuiltVolume(Resting(1)) + stray
    /\ ask_volume = RebuiltVolume(Resting(-1) \cup Resting(0)) - stray

\* best_bid and best_ask cover every resting order but those in slots last
\* filled by an ADD as large as the order it overwrote, which updates nothing:
\* whatever comes in which order, at better or worse prices.
BestCoversResting ==
    \A s \in SlotIndices \ unseen : orders[s].qty > 0 =>
        /\ orders[s].side = 1 => orders[s].price <= best_bid
        /\ orders[s].side = -1 => orders[s].price >= best_ask
================================================================================
