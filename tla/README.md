# Verification of cpp-trading-journey

The repository is a course of independent programs, one per day, each with its own
`main`. This directory holds TLA+ models of those that keep state worth a model, the
TLC runs that check them on small instances, and proofs that hold for every instance.
Paths are the repository's; `dayN` names the file `src/phase*/dayN_*.cpp`.

## Inventory

| Part | State | Operations | What is hard | What makes it correct |
|---|---|---|---|---|
| `MutexQueue`, `SPSCQueue` (day3, day11, day19), `KBRing` (day17) | `head_`, `tail_`, `buffer_` | `push`, `pop`, called by one producer and one consumer thread | copies without a lock, full tests on counters that only grow | no slot is written while it is read, ticks come out in order, both threads end |
| `MPMCQueue` (day27) | two ticket counters, a sequence and a datum per cell | `try_push`, `try_pop` by several threads | races between ticket, sequence and datum | a cell has one owner, the queue is a bounded FIFO, nothing is lost or doubled |
| `HazardPointer` (day27) | one pointer per thread, a retired list under a mutex | `protect`, `clear`, `retire`, `scan_and_reclaim` | the scan loads the pointers one by one while they move; a release store may become visible late | nothing protected in time is freed, the retired list stays short |
| `RiskEngine` and the routing threads (day19) | position, profit, rate counter; the ring; shared counters | `validate`, `apply_fill`; the strategy and risk loops | signed against unsigned, an overrun ring, a loop condition that pops | limits hold whatever the ring delivers, the strategy never waits, the risk loop ends |
| `IntrusiveLOB` (day8) | pool, links, levels | `add_order`, `cancel_order` | link surgery, double cancels, exhausted pool | the lists are the price-time queues |
| `MatchingEngine` (day9) | two vectors of levels, trades | `add_passive`, `match_aggressive` | partial fills, erasing while iterating, order of levels | quantity conserved, price and time priority |
| `ReplayEngine` (day18) | expected sequence, order slots, book state | `validate`, `process`, `generate_raw_stream` | losses, duplicates, slots shared by ids | every sequence accounted for, incremental state equals a rebuild |
| `EpochManager` (day15) | global and per-thread epochs, retired lists, the packet pool | `allocate`, `enter_critical`, `leave_critical`, `retire`, `try_reclaim` | an epoch is loaded and published later, a scan and the advance are apart | at most one advance during a critical section, packets are read whole, retired ones get their grace |
| `BacktestEngine` (day20) | cash, position, pending orders, equity | `process_tick`, `submit_signal`, `execute_pending` | fills delayed after the check, a list erased while walked, an unsigned price walk | an order is filled at its lag or never |
| `ObjectPool` (day4) | free list by index | `allocate`, `deallocate` | blocks come back in any order | a block has one owner, none is lost |
| `MessageSlab` (day14) | free list, slots | `allocate`, `parse_traditional`, `parse_zero_copy` | a slot of pointer size holds a whole message | what is read back is what was parsed |
| Generator, readers, `MemoryMappedFile` (day10) | a price, a file, a cursor, a descriptor and a mapping | row by row; `open` call by call | short numbers, a cursor that skips blindly, calls that fail half way | both readers return the rows drawn; nothing stays open |
| `AlphaGenerator`: `EMA`, `RollingStats`, `VWAP` (day21) | averages, a ring of prices with its sums | `process` | the window fills, wraps and evicts | the incremental sums are those of the window |
| `WelfordStats`, `EWMAStats` (day22), vectorised features (day23) | running moments | update by price, by vector, by scalar | two means in one recurrence; two functions on one state, from uninitialised prices | equal to the definition over the whole sequence |
| Masked filter (day26) | cursor, sums | `filter_avx2`, `filter_scalar` | batches and tails, half-loaded blocks | both filters agree |
| `NaiveStats` (day22) | sums | `update` | cancellation of doubles | |
| Benchmarks (day1, 2, 5-7, 13, 16, 24, 25) | timers | | | |

Interactions: day19 composes the ring of day3 with the risk engine; day11 is the ring of
day3 with a checksum; the other programs stand alone and share ideas, not code. Threads
meet in day3, day11, day15, day19 and day27, always two or more `std::thread`s that spin
on shared atomics and are joined by `main`. Nothing is persisted, so there is no crash
recovery; the unreliable parts are the generated stream of day18 and the system calls of
day10.

## Modules

| Module | Code | Correspondence |
|---|---|---|
| `RingQueue` | day3 queues and `main`, day17 `KBRing` | the class is chosen once (`queue`); `head`, `tail`, `buffer` are the fields; one step is one access to shared memory, and copying a tick is two steps, one per word; a mutexed call is one step |
| `MpmcQueue` | day27 `MPMCQueue`, `protect`/`clear` as `main` calls them | one step per atomic access of `try_push` and `try_pop`; `pc`, `pos` and `seq` seen are the locals of a thread; `log` and `got` are histories |
| `HazardPointer` | day27 `HazardPointer` | one step per load of a hazard pointer; the stores of `protect` and `clear` wait in a buffer per thread; any thread calls any of the three operations (below) |
| `BoundedFifo` | abstract | a FIFO of bounded length: `KBRing` and `MPMCQueue` implement it |
| `RiskEngine` | day19 `RiskEngine` | `Validate` is `validate` with its early returns in their order, comparisons modulo `Wrap` as the unsigned ones of the code |
| `SignalRouting` | day19 `strategy`, `risk_oms` | composes `RiskEngine` with the word-wise ring; the loop condition of `risk_oms` is modelled with the pop it contains |
| `IntrusiveLOB` | day8 | `add_order` and `cancel_order`, each one step; pointers are indices into the pool, 0 is `nullptr` |
| `PriceTimeBook` | abstract | a queue of orders per price: what day8's links stand for |
| `MatchingEngine` | day9 | `add_passive` and `match_aggressive`, each one step; a level's list is a sequence; the two nested loops go on as one, a turn (`Turn`) for each resting order met, over a record of the levels, what remains of the order and the trades |
| `ReplayEngine` | day18 | the generator of the stream, `SequenceValidator::validate` and `process`, one tick per step |
| `EpochManager` | day15 | one step per access to shared memory |
| `BacktestEngine` | day20 | `process_tick` whole with the fills it makes, then `submit_signal` or not, as the loop of `main` alternates them |
| `ObjectPool` | day4 | `allocate`, `deallocate` by a caller that returns what it holds |
| `MessageSlab` | day14 | the slab as the words it is made of; a slot is one word and a message three, so a parse writes over its neighbours as in memory |
| `CsvParser` | day10 | the generator row by row with its unsigned difference and the division by zero it leads to; both readers over tokens; `open` stops at the call that fails, the destructor is `Unmap` |
| `AlphaGenerator` | day21 | `process` with `EMA`, `RollingStats` and `VWAP`; an average is given by its period, and its alpha is 2 / (period + 1) as in the code |
| `OnlineStats` | day22 | `WelfordStats` and `EWMAStats` fed the same prices |
| `SimdPipeline` | day23 | `update_simd` on whole vectors and `update_scalar` on the same state, in the order of `main` |
| `RunningStatistics` | day21, 22, 23 | the three programs with recurrences together, so that one property speaks of them |
| `Moments` | reference | means and squared deviations of a whole sequence, plain and decayed: what the averages of day21, day22 and day23 are compared with; and when a unit divides all that a recurrence divides (`Scales`) |
| `MaskedFilter` | day26 | a batch of lanes or a row of the tail per step |
| `MCRings`, `MCMpmc`, `MCRouting` | | values of the constants |
| `Recurrences` | | sums, powers and selections as recursive functions, in which `Moments`, `AlphaGenerator`, `BacktestEngine`, `MaskedFilter` and the properties of `MatchingEngine` are written so that they can be proved about |
| `MCBooks`, `MCCourse` | | the programs that keep a book (day8, 9, 18) and the ten small ones, put together by EXTENDS so that a run and a theorem speak of the same definition; each behaviour starts one of them |
| `RingQueue_proofs`, `MpmcQueue_proofs`, `SignalRouting_proofs`, `IntrusiveLOB_proofs` | | theorems about the module they are named for |
| `Books_proofs` | | theorems about the two engines that match or replay orders: `MatchingEngine`, `ReplayEngine` |
| `Reclamation_proofs` | | theorems about what is given back and taken again: `ObjectPool`, `EpochManager`, `HazardPointer` |
| `Programs_proofs` | | theorems about the one-threaded programs of `MCCourse` |
| `SharedLemmas` | | lemmas about counters and the slots they name, sums, sequences and finite sets |

The source location of each definition is in `PROJECT.json` under `map`.

Three conventions are used throughout. Counters that the code lets grow are bounded by the
length of the driver loops (`NumTicks`, `TicksPerThread`, `NumSignals`, `MaxEvents`,
`MaxAggressive`, `TICKS`, `ROWS`), so every run ends where `main` ends and no constraint cuts
behaviours off. Variables marked *history* record what a property needs and are read by no
guard. Each property is shown to depend on the code by a mutant, an operator marked *A slip*
that changes one definition the way a plausible bug would and makes the run fail.

The calls of `HazardPointer` are not tied to one program: `main` of day27 calls `protect` and
`clear` around its pops and never `retire`. Any thread may protect and clear at any time, and
retire a node whenever it gets the mutex. Two things are asked of the callers, which `main`
fulfils and without which `retire` could promise nothing: a node is protected before it is
retired, not after, and it is retired once. A deleted node may be allocated again at the same
address. The history `standing` says of each hazard pointer whether its value reached memory
before the node was retired: a store that was waiting longer protects nothing, as the scan may
be past it.

## Runs

| Run | Instance | Distinct states | What it shows |
|---|---|---|---|
| `rings` | 4 slots, 13 ticks, the three classes | 72,911 | ticks are lost only by whole laps, `KBRing` never races and is a bounded FIFO, `SPSCQueue` is right for two laps, both threads end |
| `rings_assert` | the same | | the assertion of day3:87 fails |
| `mpmc` | 2 producers, 2 consumers, 2 cells, 2 ticks each | 173,650 | cells have one owner, pops match pushes, refusals are honest, a bounded FIFO, exactly once, all threads end |
| `routing` | 2 slots, 6 signals of 4 kinds, limit 3, order 2, 4-bit words | 1,284,402 | limits hold whatever the ring delivers, the rate limit until it is overrun, one signal is swallowed, the strategy ends alone |
| `routing_join` | the same | | the two threads need not both end |
| `routing_limit` | the same | | the gate refuses orders that would bring the position closer to zero |
| `books` | see `MCBooks` | 1,240,517 | day8: links are consistent and implement `PriceTimeBook`; day9: conservation, time priority, best execution while the levels are sorted; day18: every sequence accounted for, volumes equal a rebuild and each side is off by just what overwritten orders leave, best prices cover what rests |
| `matching_price` | the same | | price priority fails |
| `course` | see `MCCourse` | 877,681 | what day4, 10, 14, 15, 20, 21, 22, 23, 26 and the registry of day27 promise |
| `course_walk` | the same | | the price of day20 is no random walk |
| `course_slab` | the same | | a parsed message of day14 loses its payload pointer |
| `course_grace` | the same | | an advance of day15 forgets packets without their grace |

`books` and `course` are one run each because their programs share nothing: a behaviour
picks one, only its part of the state moves, and an invariant is about one part.

Why the bounds suffice. The rings need three laps to meet the unmasked tail of `SPSCQueue`
(the first push that goes wrong is in the third) and an odd number of ticks beyond it. In
`mpmc` two cells and four ticks give every ticket a lap before and after it, and two
threads on each side give each lost compare-and-swap and each stale sequence. `routing` has
three laps of the ring, both sides, a size the gate refuses, and a limit one order cannot
reach; words of 4 bits are wide enough that no sum of two legal numbers wraps unless it is
negative, which is what happens with 64.

In `books`, day8 has enough orders for a head, a middle and a tail at one price with another
price beside it, and exhausts the pool; day9 has partial fills, a level emptied and made
anew, and levels in either order; the four events of day18 have two prices on each side, so that
orders at a better and at a worse price follow each other, and fill two slots from three ids, so
that one is overwritten, and leave room for a gap, a duplicate or a cancel.

In `course`:

- day4: four blocks, returned in any order.
- day10: two rows, so that a field follows the newline of another row; prices with none to
  three decimals; draws at the edge where the difference goes negative; every call of `open`
  failing.
- day14: four slots, the fewest for which a message is overwritten from both sides, and for
  which the last two write on the links.
- day15: four packets and a reclaim after every packet, so that there are several advances
  and the pool is used up.
- day20: nine ticks, a lag of two, so that orders wait together and some are dropped.
- day21: the window of six prices is the smallest a band of two deviations ever leaves, and
  eight ticks make it wrap; the averages have the periods 4 and 9, decays of 2/5 and 1/5.
- day21's averages, day22 and day23: the units (`EMA_SCALE`, `STATS_SCALE`, `SIMD_SCALE`) are
  multiples of all that the recurrences divide by over the ticks fed, so that every quotient, and
  with it the equality with the definition, is exact.
- day26: ten rows in batches of four give no batch, one and two, with every length of tail.
- day27: two threads, four nodes, scans at three retired nodes, one store waiting per
  thread: a scan races with protections of the other thread, keeps some nodes and deletes
  others, keeps as many as `RetiredBounded` allows (three) while a fourth is retired, and
  addresses come back. Both properties are proved for any number of each.

### Fairness

`FairSpec` of `RingQueue` and `MpmcQueue` is weak fairness of each thread. The threads are
`std::thread`s that loop until done, calling `yield` when refused, and none waits on a lock
for longer than a call: a scheduler that runs every ready thread again and again gives weak
fairness and no more. In `MpmcQueue` a `compare_exchange_weak` fails only when the counter
has moved, which is what the x86-64 instruction does. `StrategyFairSpec` asks for the
strategy thread only, because the claim is that it needs no other. `BothThreadsJoin` is
refuted with both threads fair. The other programs have one thread, or loops whose end is
their bound.

### Where the code and its text disagree

| Run | Disagreement |
|---|---|
| `rings_assert` | day3:31 tests `(head_ + 1) & (MASK == (tail_ & MASK))`, so `MutexQueue` accepts ticks over unread ones, and the order day3:87 asserts is lost |
| `routing_join` | day19:146: the loop of `risk_oms` can end only by popping in its own condition; if the queue is empty when the strategy ends it spins and `join` never returns |
| `routing_limit` | day19:83-84 compares signed positions with unsigned limits: a buy that leaves the position short, or a sell that does not, is refused with the status of day19:35 for the limit, although it is the "position limit" of day19:13 that it keeps |
| `matching_price` | day9:66: levels are matched in the order of their creation, against day9:67 |
| `course_walk` | day20:166: an unsigned subtraction turns half of the small steps into jumps of almost 2^64 |
| `course_slab` | day14:28: slots of one word hold messages of three, so later messages overwrite the `payload_ptr` that day14:76 says points into the buffer |
| `course_grace` | day15:70: an advance resets the counts of all three buckets, against the two epochs of grace of day15:13 and 67 |

Met while modelling, and refuted by no run because no text promises otherwise: day10:125
divides by zero once the unsigned price of line 122 makes `h` and `l` equal, so the file of
five million rows is not finished; day8:63 adds to a level's volume and `cancel_order` does not
take it back; day27:130 clears the hazard pointer that the next pop of the same loop relies
on; day25:62 calls two datasets identical that are drawn one after the other.

## Proofs

TLAPS proves these for every value of the constants that the named assumptions allow:
`CapAssumption` (at least two slots); `ThreadsAssumption` and `ThreadCountAssumption`
(producers are not consumers, both are finite sets and there is a consumer);
`TicksAssumption` and its like (sizes, bounds and
quantities are natural numbers); `RoutingAssumption`, `RiskAssumption` (limits for which
`Wrap` is wide enough); `PacketsAssumption`, `CapacityAssumption` (there is a packet, a
block); `RegistryAssumption` (there is a thread, the null pointer is no node);
`SlabAssumption` (two slots); `WindowAssumption` (the window holds a price, prices are integers);
`EmaAssumption`, `StatsAssumption`, `SimdAssumption` (the periods of day21 are natural numbers, other
decays fractions with positive denominators, and the unit is a multiple of the numbers of ticks and powers of the denominators that
come up - the unit belongs to the model, and for any number of ticks there is one);
`BacktestAssumption` (the lag is positive, draws are remainders by 100, and what the unsigned
subtraction adds is larger than what it takes away); `MatchingAssumption` (prices are integers,
quantities positive); `ColumnAssumption` (a batch has a lane,
quantities are natural numbers). TLC checks each on the instance of its run.

**`RingQueue_proofs`** - `TypesHold`, `LostByWholeLaps`, `KBRingRaceFree`, `SPSCTwoLaps`,
`KBRingImplementsFifo`. Two arguments share the types. `Laps` follows a slot through
overruns: it holds only ticks that belong there, none older than the last one finished.
`Room` and `Exact` follow a ring whose full test protects what is unread (`KBRing` always,
`SPSCQueue` for two laps, where masked head and unmasked tail still compare as meant): the
two counters are less than a lap apart while a tick is copied in, and the slots between them hold
exactly their ticks. From `Exact` each step of `KBRing` is an enqueue, a dequeue or a stutter
of `BoundedFifo`.

**`MpmcQueue_proofs`** - `TypesHold`, `CellsExclusive`, `EveryPopMatches`, `RefusalsHonest`,
`QueueImplementsFifo`. `ExclusiveCells` says nothing of the sequence numbers, so it is not inductive. `IInv` says what each
sequence means: the two counters are at most `Cap` apart (`Window`); the cell of a ticket
pushed and not popped is being written by its owner or holds that ticket's tick (`Filled`);
the cell of a ticket that producers may get next is free or being emptied by the owner of
the ticket one lap before (`Free`); what a thread inside a cell can rely on (`OwnsPush`,
`OwnsPop`); and that what a thread has loaded on its way to its compare-and-swap can only be
older than memory (`OnItsWay`), which is why a swap that succeeds needs no second look. The
arithmetic of cells (two tickets less than a lap apart have different cells) is in lemmas at
the front. There is one lemma for each step that changes a cell, and one for all steps outside
cells. A refusal is honest because the cell of a ticket that has been popped is past it for good
(`UsedCellsPassed`: some ticket of the window, at least a lap younger, has the same cell), so a
thread that sees its cell behind its ticket holds the newest one. The queue is a FIFO because
what was pushed with a ticket and what was read with it are both `log` at that ticket: the
channel is the part of `log` between the two counters, each compare-and-swap that succeeds moves one
of its ends, and every other step stutters. That the tick put is one of `Ticks` needs
`TicksLeft` besides: a producer in `try_push` has ticks left to push.

`TicksExactlyOnce` needs `Tally`: the ticks logged are those the producers have handed over, each once
(`LoggedOnce`); every pop ticket is read or about to be (`ReadSoFar`); the pop counter is the
shared count and the consumers that have yet to increment it (`Counted`), and a consumer leaves
only when the count has reached the total. When all are joined the pop counter stands at the
total, so every logged tick has been read by its ticket.

**`Reclamation_proofs`** - `RegistryTypesHold`, `ProtectedSurvive`, `GarbageBounded`,
`EpochTypesHold`, `OneAdvanceAtMost`, `PacketsReadWhole`, `BlocksHeldOrFree`.

- `HazardPointer`. `NothingProtectedFreed` speaks of
  allocation only; its invariant adds why a protected node stays allocated: the retired list is apart
  from what is in use, and a scan that has come to a protected node in the list has not yet passed
  the pointer that protects it (`Covered`). The last part holds when the protection reaches memory
  because its node is in use then, hence not in the list, and afterwards because a scan moves
  past the pointer only if it differs. For `RetiredBounded`,
  `BoundInv` puts each node that a scan has kept down to a protection that is used up:
  a number up to the thread's quota less the protections it still has, in memory or in its
  buffer, that the rest of the scan could hit (`Tallies`). The quota is one and the length of the
  buffer, and for the thread that scans one, since its buffer was empty when it took the
  mutex (`BuffersFit`). Protections made while the scan runs are of nodes in use and hit
  nothing, and a node retired once is kept once (`NoRepeats`).
- `EpochManager`. A thread inside a critical section announced an epoch no younger than the
  present one when it did, and the epoch has gone on by at most one (`Announced`); while a scan
  waits to advance, either the epoch has not moved since the announcement or the scan has seen
  the announced epoch (`ScanKnows`), so a scan that began before cannot advance twice. That
  packets are whole follows from the counts: those allocated, filled and counted stay in order,
  and the consumer reads below the last count.
- `ObjectPool`. `BlocksAccounted` is inductive once the count of the blocks out is the
  cardinality of `live`: `allocate` takes the first block off the chain, `deallocate` puts one before it.

**`SignalRouting_proofs`** - `TypesHold`, `PositionLimitHolds`, `LossIsBounded`,
`OneSignalSwallowed`, `RateCapKept`. All but the last follow no ring:
any word the consumer can copy has a side, a size and a price of the right types, and `validate`
lets only safe ones through. `IInv` joins the properties, because the bound of the loss needs
that of the position, and the swallowed signal needs that a pop has something to pop. The rate
limit needs the order of seconds, which the ring keeps for two laps (`Ordered`): from the gate's
last second through those that wait to the strategy's present one they only go up, so no second
is entered twice, and the one counter is enough.

**`IntrusiveLOB_proofs`** - `TypesHold`, `LinksHold`, `BookImplementsPriceTime`.
`LinksConsistent` is inductive with the types and the fact that live orders are among those
allocated. For the refinement, `Queues` says that at every price there is a sequence, rising in the order of
arrival and with all live orders of that price in it, along which the links lead from the head to the end; walking from
the head yields exactly that queue. `add_order` then appends to one queue, `cancel_order` takes
an element out of one, from whichever place, and a refused add or a second cancel stutters.

**`Books_proofs`** - `MatchingTypesHold`, `BookStaysWellFormed`, `QuantitiesConserved`,
`OldestFilledFirst`, `BestExecutionKept`; `ReplayTypesHold`, `SequencesAccounted`,
`VolumesRebuild`, `SidesExact`, `BestCovers`.

- `MatchingEngine`. `MatchInv` joins the types, the form of the book, the conservation of
  quantities and that trades bear numbers given out (`Named`), without which a new order could
  come with trades. `add_passive` puts an order at the end of one level (`Joins`).
  `match_aggressive` makes many turns in one step, so it has an invariant of its own
  (`LoopInv`): the levels are well formed, what rests and what has traded of each order add
  up, as do what remains and what has traded of the incoming one (`Conserves`), and what traded
  was older than all that rests at its price (`TakesOldest`). `Leaves` says what one turn makes of a side of
  the book: all of it but what it took of the first order of the first level. While the levels
  are sorted `TakesBest` goes along: what traded is beaten by no resting price. That the loops
  end is a count: a turn after which something remains has taken an order off the levels, and
  there are no more of them than were added (`Few`); so at the end nothing remains, nothing
  rests or the first level does not cross.
- `ReplayEngine`. `Stream` puts every number below the one expected with the ticks applied,
  skipped or lost, and every number between that and the next to be sent with the lost ones.
  `Volumes` says that the volumes of both sides add up to the sum over the slots; a step
  changes one slot, and a sum that differs in one place differs by that much. Side by side
  each is off by `stray`, which an order overwritten by one of the other side changes by its
  quantity. `Covers` says of the best prices that they cover every slot but those in `unseen`,
  where an ADD changed no quantity.

**`Programs_proofs`**

- `NothingLeaks` (day10). `WrapperInv`: the descriptor and the mapping are what the calls made so far
  have left, at each of the places where `open` can stop.
- `BothReadersAgree` (day10), for any number of rows. The file is laid out in lines (`Layout`):
  each row has a place where its line starts and the places of its five commas (`RowAt`), a
  written price is one token or three and reads back as it was (`FieldWritten`,
  `NoDigitLost`), and a line more moves none of those before it (`LayoutGrows`). `ReadersInv`:
  what a reader holds is a prefix of the rows, and its cursor stands where the next line
  starts. There `find` meets the commas one after the other (`RowSplit`), and the cursor of
  the mapping, which skips a token after each number without looking, skips just these
  (`RowParsed`).
- `SlabKeepsTimestamps` (day14). `SlabInv` follows the words (`WordsLeft`): slots are handed out in order, so
  each message leaves the first word of all before it and overwrites the rest of one, and the
  links are written over only once they have been followed. Both checksums are sums over the first packets of one traffic (`Summed`).
- `WindowSumsExact`, `BandNeedsWidth` (day21). `AlphaInv`: the ring holds the last prices, the
  latest just behind the head, so what is evicted is the oldest term of the sum. That a band needs
  its width is Samuelson's inequality, proved from Cauchy's inequality for sums of any length.
- `FillsComeAtLag` (day20). `BacktestInv`: orders wait in the order of their creation, and one that has come
  due before was a buy below the price (`Waits`). The price wraps upwards by more than it can fall, so a tick after the order's it
  lies at or above it (`PriceNeverFalls`): a sell is filled when its lag is over, and a buy then
  or never.
- `MaskedSumsAgree` (day26). `FilterInv`: the sum so far is that of the rows before the cursor, and
  the sum over a set of rows is that over two parts of it.
- `RunningMomentsExact` (day22), `LaneMomentsExact` (day23), `AveragesForgetAtTheirPace` (day21),
  and from the three `AllMomentsExact`. The invariants (`StatsInv`, `SimdInv`, `AveragesInv`) are
  free of division: `n` times the mean is `S` times the sum of the `n` prices in units of `1 / S`,
  the squared deviations and `n` squares of the mean add up to the squares of the prices
  (`SampleMoments`), and the decayed mean, multiplied by the denominators divided by so far, is `S`
  times the decayed sum (`DecayedMoment`, `DecayedSpread`).
  Each recurrence keeps its equation (`SampleUpdate`, `DecayedUpdate`) because the numbers it
  divides by divide the unit, so no quotient is rounded (`ExactQuotient`); and each equation
  reads off what the definition gives (`SampleReads`, `DecayedReads`), the decayed one because the weights
  add up to the power of the denominator. In day23 both functions do the same to any
  lane they touch (`LaneMoves`), so it does not matter which made which update; the
  first price is whatever the array held.

`SharedLemmas` holds what several of these need: slots a lap apart, sums that agree, differ
in one place or are added up, powers and quotients that leave no rest, the sequence of the elements at some places, and a principle of
least number in place of induction. The provers cannot instantiate the library's induction
theorems, which take a predicate; but that a set of natural numbers which holds 0 and with each
number the next holds all of them (`AllNaturals`) takes a set, and for a set comprehension that is
the induction needed. What `SumTo`, `Power` and `AtPlaces` compute is proved with it.

Every module has a `TypeOK`; where it is not proved it is documentation, and the runs spend
their properties elsewhere.

Only model-checked: liveness - `BenchmarkEnds` of day3 and of day27, and `StrategyEnds` - since
fairness is out of the prover's reach. Every other property of a passing run is stated by a theorem.

## What is abstracted

- Ticks and orders are numbers or small records; payloads, latencies, statistics that are
  only printed and all output are left out.
- Doubles are exact: prices are whole cents (thousandths of a dollar in day10), money
  thousandths of a cent, averages scaled. What day22 sets out to show of doubles, that the naive
  variance cancels, is therefore not visible, and `NaiveStats` is left out.
- The memory model is that of the x86-64 build. Where it makes a difference, in
  `HazardPointer`, stores wait in a buffer per thread while later loads go on; elsewhere the stores
  of a thread are seen in program order and no property depends on when. Copies that race are
  read word by word.
- Unsigned arithmetic is modelled where it matters, modulo `Wrap` (day19), by adding
  `WRAP` (day20), both smaller than 2^64, or by what it leads to (day10: a draw below 50
  makes `h` and `l` equal).
- Undefined behaviour is a choice where a program goes on with it (torn copies in day3 and
  day19, the uninitialised prices of day23 - the comment at day23:25 calls the defaults safe -
  and half block of day26), and the bytes it touches where they are in the same object (day14).
  `back()` of an empty vector in day10 and day18 and the `p(100)` past the end in day16 are
  left out.
- Prices of day10 stay below 1000 dollars (`PriceBound`, a guard of the generator): above that
  `operator<<` drops their last digit. It would take thousands of rows without a draw below 50.
- A digit run of day10's file is one token with its width; the volume is fixed, since every
  volume is read by the same loop over digits.
- day15 does not compile as written (`main` reaches the private `pool_`), day10 only where
  another header brings `<fstream>`; both are modelled as meant.

## What is not modelled, and the plan

Not modelled: the measurements of day1, 2, 5, 6, 7, 13, 16, 24 and 25, which keep no state
beyond a loop; the empty day12; the driver of day17, which calls `KBRing` from one thread;
`MessageSlab::deallocate`, which nothing calls; `NaiveStats` of day22; the Windows branch of day10; square roots,
z-scores and percentiles that are computed for a printout.

Of the operations that change state nothing else is left, and no safety property that a run
checks is left without a theorem.
