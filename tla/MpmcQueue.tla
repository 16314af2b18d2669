------------------------------- MODULE MpmcQueue -------------------------------
(***************************************************************************)
(* MPMCQueue of day27_mpmc_hazard_pointers.cpp and the benchmark in its    *)
(* main: producer threads spin on try_push until each has pushed its       *)
(* ticks, consumer threads spin on try_pop until `consumed' says that      *)
(* every tick of every producer was consumed.                              *)
(*                                                                         *)
(* A thread that wins the compare-and-swap on enqueue_pos_ or dequeue_pos_ *)
(* owns the ticket `pos' it loaded and, until it stores the cell's         *)
(* sequence, the cell pos % Cap.  One step is one access to shared memory. *)
(* compare_exchange_weak is modelled without spurious failures, as on      *)
(* x86-64.                                                                 *)
(***************************************************************************)
EXTENDS Integers, Sequences, FiniteSets

CONSTANTS Producers, Consumers,   \* the threads (PRODUCERS, CONSUMERS)
          Cap,                    \* QUEUE_CAP
          TicksPerThread          \* TICKS_PER_THREAD

ASSUME ThreadsAssumption == Producers \cap Consumers = {}
ASSUME ThreadCountAssumption ==
    IsFiniteSet(Producers) /\ IsFiniteSet(Consumers) /\ Consumers # {}
ASSUME CapAssumption == Cap \in Nat /\ Cap >= 2
ASSUME TicksAssumption == TicksPerThread \in Nat

Threads == Producers \cup Consumers
Tick == [by : Producers, n : Nat]         \* the n-th tick of a producer
Ticks == [by : Producers, n : 0 .. TicksPerThread - 1]
NoTick == [by |-> "nobody", n |-> 0]      \* MarketTick not yet assigned
Total == TicksPerThread * Cardinality(Producers)

VARIABLES enqueue_pos, dequeue_pos,       \* the two ticket counters
          sequence, data,                 \* the cells
          pc, pos,                        \* per thread: next access, ticket
          item,                           \* per consumer: its local tick
          sent,                           \* per producer: the loop counter t
          consumed,                       \* the shared count of ticks popped
          hp,                             \* per consumer: its hazard pointer
          log,                            \* history: tick of each push ticket
          got                             \* history: what each pop ticket read

vars == <<enqueue_pos, dequeue_pos, sequence, data, pc, pos, item, sent,
          consumed, hp, log, got>>

Cell(n) == n % Cap

Init == /\ enqueue_pos = 0 /\ dequeue_pos = 0
        /\ sequence = [c \in 0 .. Cap - 1 |-> c]
        /\ data = [c \in 0 .. Cap - 1 |-> NoTick]
        /\ pc = [t \in Threads |-> IF t \in Producers THEN "load" ELSE "register"]
        /\ pos = [t \in Threads |-> 0]
        /\ item = [c \in Consumers |-> NoTick]
        /\ sent = [p \in Producers |-> 0]
        /\ consumed = 0
        /\ hp = [c \in Consumers |-> "none"]
        /\ log = <<>>
        /\ got = {}

Goto(t, label) == pc' = [pc EXCEPT ![t] = label]

-----------------------------------------------------------------------------
(* try_push *)

PushLoad(p) == /\ pc[p] = "load" /\ sent[p] < TicksPerThread
               /\ pos' = [pos EXCEPT ![p] = enqueue_pos]
               /\ Goto(p, "sequence")
               /\ UNCHANGED <<enqueue_pos, dequeue_pos, sequence, data, item,
                              sent, consumed, hp, log, got>>

PushDiff(p) == sequence[Cell(pos[p])] - pos[p]

\* diff == 0: the cell is free for this ticket
PushFree(p) == /\ pc[p] = "sequence" /\ PushDiff(p) = 0
               /\ Goto(p, "cas")
               /\ UNCHANGED <<enqueue_pos, dequeue_pos, sequence, data, pos, item,
                              sent, consumed, hp, log, got>>

\* diff < 0: return false, and the driver yields and calls again
PushFull(p) == /\ pc[p] = "sequence" /\ PushDiff(p) < 0
               /\ Goto(p, "load")
               /\ UNCHANGED <<enqueue_pos, dequeue_pos, sequence, data, pos, item,
                              sent, consumed, hp, log, got>>

\* diff > 0: another producer has used the ticket, load the counter again
PushStale(p) == /\ pc[p] = "sequence" /\ PushDiff(p) > 0
                /\ Goto(p, "load")
                /\ UNCHANGED <<enqueue_pos, dequeue_pos, sequence, data, pos, item,
                               sent, consumed, hp, log, got>>

\* A slip (mutant of PushClaim): a store instead of the compare-and-swap.
PushClaimUnchecked(p) == /\ pc[p] = "cas"
                         /\ enqueue_pos' = pos[p] + 1
                         /\ log' = Append(log, [by |-> p, n |-> sent[p]])
                         /\ Goto(p, "write")
                         /\ UNCHANGED <<dequeue_pos, sequence, data, pos, item, sent,
                                        consumed, hp, got>>

PushClaim(p) == /\ pc[p] = "cas" /\ enqueue_pos = pos[p]
                /\ enqueue_pos' = pos[p] + 1
                /\ log' = Append(log, [by |-> p, n |-> sent[p]])
                /\ Goto(p, "write")
                /\ UNCHANGED <<dequeue_pos, sequence, data, pos, item, sent,
                               consumed, hp, got>>

PushLost(p) == /\ pc[p] = "cas" /\ enqueue_pos # pos[p]
               /\ Goto(p, "load")
               /\ UNCHANGED <<enqueue_pos, dequeue_pos, sequence, data, pos, item,
                              sent, consumed, hp, log, got>>

\* A slip (mutant of PushWrite): the sequence is stored before the data.
PushPublishBeforeWrite(p) == /\ pc[p] = "write"
                             /\ sequence' = [sequence EXCEPT ![Cell(pos[p])] = pos[p] + 1]
                             /\ Goto(p, "publish")
                             /\ UNCHANGED <<enqueue_pos, dequeue_pos, data, pos, item,
                                            sent, consumed, hp, log, got>>

PushWrite(p) == /\ pc[p] = "write"
                /\ data' = [data EXCEPT ![Cell(pos[p])] = [by |-> p, n |-> sent[p]]]
                /\ Goto(p, "publish")
                /\ UNCHANGED <<enqueue_pos, dequeue_pos, sequence, pos, item, sent,
                               consumed, hp, log, got>>

\* store the sequence, return true, and the driver's ++t
PushPublish(p) == /\ pc[p] = "publish"
                  /\ sequence' = [sequence EXCEPT ![Cell(pos[p])] = pos[p] + 1]
                  /\ sent' = [sent EXCEPT ![p] = sent[p] + 1]
                  /\ Goto(p, "load")
                  /\ UNCHANGED <<enqueue_pos, dequeue_pos, data, pos, item,
                                 consumed, hp, log, got>>

-----------------------------------------------------------------------------
(* The consumer's loop and try_pop *)

Register(c) == /\ pc[c] = "register"
               /\ hp' = [hp EXCEPT ![c] = "queue"]
               /\ Goto(c, "check")
               /\ UNCHANGED <<enqueue_pos, dequeue_pos, sequence, data, pos, item,
                              sent, consumed, log, got>>

\* while (consumed < TICKS_PER_THREAD * PRODUCERS)
Check(c) == /\ pc[c] = "check"
            /\ IF consumed < Total
               THEN Goto(c, "poll") /\ UNCHANGED hp
               ELSE Goto(c, "done") /\ hp' = [hp EXCEPT ![c] = "none"]
            /\ UNCHANGED <<enqueue_pos, dequeue_pos, sequence, data, pos, item,
                           sent, consumed, log, got>>

PopLoad(c) == /\ pc[c] = "poll"
              /\ pos' = [pos EXCEPT ![c] = dequeue_pos]
              /\ Goto(c, "ready")
              /\ UNCHANGED <<enqueue_pos, dequeue_pos, sequence, data, item, sent,
                             consumed, hp, log, got>>

PopDiff(c) == sequence[Cell(pos[c])] - (pos[c] + 1)

PopReady(c) == /\ pc[c] = "ready" /\ PopDiff(c) = 0
               /\ Goto(c, "take")
               /\ UNCHANGED <<enqueue_pos, dequeue_pos, sequence, data, pos, item,
                              sent, consumed, hp, log, got>>

\* diff < 0: return false, and the driver yields and checks its loop again
PopEmpty(c) == /\ pc[c] = "ready" /\ PopDiff(c) < 0
               /\ Goto(c, "check")
               /\ UNCHANGED <<enqueue_pos, dequeue_pos, sequence, data, pos, item,
                              sent, consumed, hp, log, got>>

\* diff > 0: another consumer has used the ticket, load the counter again
PopStale(c) == /\ pc[c] = "ready" /\ PopDiff(c) > 0
               /\ Goto(c, "poll")
               /\ UNCHANGED <<enqueue_pos, dequeue_pos, sequence, data, pos, item,
                              sent, consumed, hp, log, got>>

\* A slip (mutant of PopClaim): a store instead of the compare-and-swap.
PopClaimUnchecked(c) == /\ pc[c] = "take"
                        /\ dequeue_pos' = pos[c] + 1
                        /\ Goto(c, "read")
                        /\ UNCHANGED <<enqueue_pos, sequence, data, pos, item, sent,
                                       consumed, hp, log, got>>

PopClaim(c) == /\ pc[c] = "take" /\ dequeue_pos = pos[c]
               /\ dequeue_pos' = pos[c] + 1
               /\ Goto(c, "read")
               /\ UNCHANGED <<enqueue_pos, sequence, data, pos, item, sent,
                              consumed, hp, log, got>>

PopLost(c) == /\ pc[c] = "take" /\ dequeue_pos # pos[c]
              /\ Goto(c, "poll")
              /\ UNCHANGED <<enqueue_pos, dequeue_pos, sequence, data, pos, item,
                             sent, consumed, hp, log, got>>

PopRead(c) == /\ pc[c] = "read"
              /\ item' = [item EXCEPT ![c] = data[Cell(pos[c])]]
              /\ got' = got \cup {[ticket |-> pos[c], tick |-> item'[c]]}
              /\ Goto(c, "release")
              /\ UNCHANGED <<enqueue_pos, dequeue_pos, sequence, data, pos, sent,
                             consumed, hp, log>>

\* A slip (mutant of PopRelease): the sequence of the next lap is one too low.
PopReleaseOneEarly(c) == /\ pc[c] = "release"
                         /\ sequence' = [sequence EXCEPT ![Cell(pos[c])] = pos[c] + Cap - 1]
                         /\ hp' = [hp EXCEPT ![c] = "tick"]
                         /\ Goto(c, "count")
                         /\ UNCHANGED <<enqueue_pos, dequeue_pos, data, pos, item, sent,
                                        consumed, log, got>>

\* store the sequence and return true; protect(i, &tick), which no other thread
\* reads since nothing in the program calls retire, joins this step
PopRelease(c) == /\ pc[c] = "release"
                 /\ sequence' = [sequence EXCEPT ![Cell(pos[c])] = pos[c] + Cap]
                 /\ hp' = [hp EXCEPT ![c] = "tick"]
                 /\ Goto(c, "count")
                 /\ UNCHANGED <<enqueue_pos, dequeue_pos, data, pos, item, sent,
                                consumed, log, got>>

\* A slip (mutant of Count): the increment is lost.
CountLost(c) == /\ pc[c] = "count"
                /\ hp' = [hp EXCEPT ![c] = "none"]
                /\ Goto(c, "check")
                /\ UNCHANGED <<enqueue_pos, dequeue_pos, sequence, data, pos, item,
                               sent, consumed, log, got>>

\* clear(i) and consumed.fetch_add(1)
Count(c) == /\ pc[c] = "count"
            /\ consumed' = consumed + 1
            /\ hp' = [hp EXCEPT ![c] = "none"]
            /\ Goto(c, "check")
            /\ UNCHANGED <<enqueue_pos, dequeue_pos, sequence, data, pos, item,
                           sent, log, got>>

-----------------------------------------------------------------------------
Push(p) == \/ PushLoad(p) \/ PushFree(p) \/ PushFull(p) \/ PushStale(p)
           \/ PushClaim(p) \/ PushLost(p) \/ PushWrite(p) \/ PushPublish(p)

Consume(c) == \/ Register(c) \/ Check(c)
              \/ PopLoad(c) \/ PopReady(c) \/ PopEmpty(c) \/ PopStale(c)
              \/ PopClaim(c) \/ PopLost(c) \/ PopRead(c) \/ PopRelease(c)
              \/ Count(c)

Finished == /\ \A p \in Producers : pc[p] = "load" /\ sent[p] = TicksPerThread
            /\ \A c \in Consumers : pc[c] = "done"

\* main has joined every thread
Joined == Finished /\ UNCHANGED vars

Next == (\E p \in Producers : Push(p)) \/ (\E c \in Consumers : Consume(c)) \/ Joined

Spec == Init /\ [][Next]_vars

\* Every std::thread is scheduled again and again.
FairSpec == /\ Spec
            /\ \A p \in Producers : WF_vars(Push(p))
            /\ \A c \in Consumers : WF_vars(Consume(c))

-----------------------------------------------------------------------------
(* Properties.                                                             *)

Writing(t) == pc[t] \in {"write", "publish"}   \* owns a push ticket
Reading(t) == pc[t] \in {"read", "release"}    \* owns a pop ticket
InCell(t) == Writing(t) \/ Reading(t)

\* The variables hold what the C++ objects can hold; there is one logged tick
\* for each push ticket handed out.
TypeOK ==
    /\ enqueue_pos \in Nat /\ dequeue_pos \in Nat /\ consumed \in Nat
    /\ sequence \in [0 .. Cap - 1 -> Nat]
    /\ data \in [0 .. Cap - 1 -> Tick \cup {NoTick}]
    /\ pc \in [Threads -> {"load", "sequence", "cas", "write", "publish", "register",
                           "check", "poll", "ready", "take", "read", "release",
                           "count", "done"}]
    /\ pos \in [Threads -> Nat]
    /\ item \in [Consumers -> Tick \cup {NoTick}]
    /\ sent \in [Producers -> Nat]
    /\ hp \in [Consumers -> {"none", "queue", "tick"}]
    /\ log \in Seq(Tick) /\ Len(log) = enqueue_pos
    /\ got \subseteq [ticket : Nat, tick : Tick]

\* A cell belongs to one thread at a time, from the compare-and-swap that
\* claims it to the store of its sequence: data is never written while another
\* thread writes or reads it.
ExclusiveCells ==
    \A s, t \in Threads :
        s # t /\ InCell(s) /\ InCell(t) => Cell(pos[s]) # Cell(pos[t])

\* The consumer that holds pop ticket n reads the tick pushed with ticket n,
\* whatever lapped or overtook it in between.
TicketsMatch == \A g \in got : g.tick = log[g.ticket + 1]

\* try_push reports full only to a thread whose cell really still holds, or is
\* still giving up, the tick of one lap before; try_pop reports empty only when
\* the next tick really is not there yet.  Neither verdict is a race artefact
\* of loading the counter and the sequence at different times.
HonestRefusals ==
    [][/\ \A p \in Producers : PushFull(p) =>
            /\ enqueue_pos = pos[p]
            /\ \/ enqueue_pos - dequeue_pos = Cap
               \/ \E c \in Consumers : Reading(c) /\ pos[c] = pos[p] - Cap
       /\ \A c \in Consumers : PopEmpty(c) =>
            /\ dequeue_pos = pos[c]
            /\ \/ enqueue_pos = dequeue_pos
               \/ \E p \in Producers : Writing(p) /\ pos[p] = pos[c]
      ]_vars

\* The queue is a bounded FIFO: a tick enters at the compare-and-swap on
\* enqueue_pos_ and leaves at the one on dequeue_pos_, oldest first, at most
\* Cap inside; a ticket that has read its cell counts with what it read.
ReadBy(n) == IF \E g \in got : g.ticket = n
             THEN (CHOOSE g \in got : g.ticket = n).tick
             ELSE log[n + 1]

Fifo == INSTANCE BoundedFifo WITH
    Capacity <- Cap,
    Item <- Ticks,
    waiting <- SubSeq(log, dequeue_pos + 1, enqueue_pos),
    taken <- [n \in 1 .. dequeue_pos |-> ReadBy(n - 1)]

IsBoundedFifo == [][Fifo!FifoNext]_(Fifo!fifoVars)

\* When main has joined the threads, every tick of every producer was popped
\* once and only once, and `consumed' counts them all.
ExactlyOnce ==
    Finished => /\ consumed = Total
                /\ Cardinality(got) = Total
                /\ {g.tick : g \in got} = Ticks

\* The threads of the benchmark all leave their loops, whatever pushes and pops
\* were refused or lost on the way.
BenchmarkEnds == <>Finished
================================================================================
