------------------------------- MODULE RingQueue -------------------------------
(***************************************************************************)
(* The single-producer single-consumer rings: MutexQueue and SPSCQueue of  *)
(* day3_lockfree_spsc.cpp (SPSCQueue is repeated in day11 and day19) and   *)
(* KBRing of day17_network_tuning.cpp, under the benchmark of day3: one    *)
(* thread pushes NumTicks ticks, another pops until it has popped as many. *)
(*                                                                         *)
(* The three classes differ in their full test and in whether a call is    *)
(* one critical section; `queue' is the class a behaviour runs, chosen     *)
(* once.  A tick is the index the driver writes in it.  The lock-free      *)
(* classes copy a tick word by word with no lock, so a slot is two words   *)
(* and each copy is two steps.  head_ and tail_ are atomics with acquire   *)
(* and release order, each written by one thread: every step below touches *)
(* shared memory once and interleaves with those of the other thread.      *)
(***************************************************************************)
EXTENDS Integers, Sequences

CONSTANTS Cap,        \* QUEUE_CAPACITY, RING_SIZE: the number of slots
          NumTicks    \* NUM_TICKS: how many ticks the producer pushes

ASSUME CapAssumption == Cap \in Nat /\ Cap >= 2
ASSUME NumTicksAssumption == NumTicks \in Nat

Classes == {"MutexQueue", "SPSCQueue", "KBRing"}
Unwritten == -1                       \* the value-initialised slot
Word == {Unwritten} \cup (0 .. NumTicks - 1)
Item == [lo : Word, hi : Word]

VARIABLES queue,      \* the class under test
          head,       \* head_: how many ticks were pushed
          tail,       \* tail_: how many ticks were popped
          buffer,     \* buffer_
          ppc, cpc,   \* where the producer and the consumer are
          out,        \* the consumer's local copy of a slot
          popped      \* the ticks pop has returned, in order

vars == <<queue, head, tail, buffer, ppc, cpc, out, popped>>

Slot(n) == n % Cap                    \* n & MASK
Blank == [lo |-> Unwritten, hi |-> Unwritten]

Init == /\ queue \in Classes
        /\ head = 0 /\ tail = 0
        /\ buffer = [s \in 0 .. Cap - 1 |-> Blank]
        /\ ppc = "push" /\ cpc = "pop"
        /\ out = Blank
        /\ popped = <<>>

(***************************************************************************)
(* The full tests.  In MutexQueue::push == binds tighter than &, so the    *)
(* source's (head_ + 1) & MASK == (tail_ & MASK) is the last bit of        *)
(* head_ + 1 when MASK equals tail_ & MASK, and zero otherwise.  In        *)
(* SPSCQueue::push the left side is reduced modulo Cap and tail_ is not.   *)
(***************************************************************************)
MutexFull == tail % Cap = Cap - 1 /\ (head + 1) % 2 = 1

\* A slip (mutant of SpscFull): the left side is not masked either.
SpscFullUnmasked == head + 1 = tail

\* A slip (mutant of SpscFull): no slot kept free.
SpscFullWithoutGap == head % Cap = tail % Cap

SpscFull == (head + 1) % Cap = tail

\* A slip (mutant of KBFull): > for >=.
KBFullOffByOne == head - tail > Cap

KBFull == head - tail >= Cap

Empty == tail = head

-----------------------------------------------------------------------------
(* MutexQueue: push and pop each hold the mutex from first to last line.   *)

MutexPush == /\ queue = "MutexQueue" /\ ppc = "push" /\ head < NumTicks
             /\ ~MutexFull
             /\ buffer' = [buffer EXCEPT ![Slot(head)] = [lo |-> head, hi |-> head]]
             /\ head' = head + 1
             /\ UNCHANGED <<queue, tail, ppc, cpc, out, popped>>

MutexPop == /\ queue = "MutexQueue" /\ cpc = "pop" /\ Len(popped) < NumTicks
            /\ ~Empty
            /\ out' = buffer[Slot(tail)]
            /\ tail' = tail + 1
            /\ popped' = Append(popped, out')
            /\ UNCHANGED <<queue, head, buffer, ppc, cpc>>

-----------------------------------------------------------------------------
(* SPSCQueue and KBRing.  A refused push or pop changes nothing: the       *)
(* driver calls again, so it is a stuttering step.                         *)

\* load head_ and tail_; the ring is not full
BeginPush == /\ ppc = "push" /\ head < NumTicks
             /\ \/ queue = "SPSCQueue" /\ ~SpscFull
                \/ queue = "KBRing" /\ ~KBFull
             /\ ppc' = "lo"
             /\ UNCHANGED <<queue, head, tail, buffer, cpc, out, popped>>

\* A slip (mutant of WriteLo): the second word is not copied.
CopyCutShort == /\ ppc = "lo"
                /\ buffer' = [buffer EXCEPT ![Slot(head)].lo = head]
                /\ ppc' = "publish"
                /\ UNCHANGED <<queue, head, tail, cpc, out, popped>>

\* buffer_[h & MASK] = item, one word at a time
WriteLo == /\ ppc = "lo"
           /\ buffer' = [buffer EXCEPT ![Slot(head)].lo = head]
           /\ ppc' = "hi"
           /\ UNCHANGED <<queue, head, tail, cpc, out, popped>>

WriteHi == /\ ppc = "hi"
           /\ buffer' = [buffer EXCEPT ![Slot(head)].hi = head]
           /\ ppc' = "publish"
           /\ UNCHANGED <<queue, head, tail, cpc, out, popped>>

\* head_.store(h + 1, release)
Publish == /\ ppc = "publish"
           /\ head' = head + 1
           /\ ppc' = "push"
           /\ UNCHANGED <<queue, tail, buffer, cpc, out, popped>>

\* load tail_ and head_; the ring is not empty
BeginPop == /\ queue # "MutexQueue" /\ cpc = "pop" /\ Len(popped) < NumTicks
            /\ ~Empty
            /\ cpc' = "lo"
            /\ UNCHANGED <<queue, head, tail, buffer, ppc, out, popped>>

\* item = buffer_[t & MASK], one word at a time
ReadLo == /\ cpc = "lo"
          /\ out' = [out EXCEPT !.lo = buffer[Slot(tail)].lo]
          /\ cpc' = "hi"
          /\ UNCHANGED <<queue, head, tail, buffer, ppc, popped>>

ReadHi == /\ cpc = "hi"
          /\ out' = [out EXCEPT !.hi = buffer[Slot(tail)].hi]
          /\ cpc' = "release"
          /\ UNCHANGED <<queue, head, tail, buffer, ppc, popped>>

\* tail_.store(t + 1, release), and ++popped in the driver
Release == /\ cpc = "release"
           /\ tail' = tail + 1
           /\ popped' = Append(popped, out)
           /\ cpc' = "pop"
           /\ UNCHANGED <<queue, head, buffer, ppc, out>>

-----------------------------------------------------------------------------
Producer == MutexPush \/ BeginPush \/ WriteLo \/ WriteHi \/ Publish
Consumer == MutexPop \/ BeginPop \/ ReadLo \/ ReadHi \/ Release

\* Both threads have left their loops and main joins them.
Joined == head = NumTicks /\ Len(popped) = NumTicks /\ UNCHANGED vars

Next == Producer \/ Consumer \/ Joined

Spec == Init /\ [][Next]_vars

\* Two std::threads that spin until they succeed: neither is starved for ever.
FairSpec == Spec /\ WF_vars(Producer) /\ WF_vars(Consumer)

-----------------------------------------------------------------------------
(* Properties.                                                             *)

\* The variables range over what the C++ objects can hold, and tail_ never
\* passes head_ (head_ == tail_ is the only empty test the classes make).
TypeOK == /\ queue \in Classes
          /\ head \in 0 .. NumTicks
          /\ tail \in 0 .. head
          /\ buffer \in [0 .. Cap - 1 -> Item]
          /\ ppc \in {"push", "lo", "hi", "publish"}
          /\ cpc \in {"pop", "lo", "hi", "release"}
          /\ out \in Item
          /\ popped \in Seq(Item)

\* Whatever the full test lets through, a word popped in place of tick k is a
\* tick that belongs in k's slot and is no older than k: the ring can lose
\* ticks only by whole laps, and never replays or invents one.
OverrunByWholeLaps ==
    \A k \in 1 .. Len(popped) : \A w \in {popped[k].lo, popped[k].hi} :
        /\ w >= k - 1
        /\ w % Cap = (k - 1) % Cap

\* The two threads are never inside the same slot of a ring: the producer
\* copying a tick in while the consumer copies one out.
SlotRace == /\ ppc \in {"lo", "hi"}
            /\ cpc \in {"lo", "hi"}
            /\ Slot(head) = Slot(tail)

InOrder == \A k \in 1 .. Len(popped) : popped[k] = [lo |-> k - 1, hi |-> k - 1]

\* KBRing (day17) is free of that data race however the threads interleave.
KBRingNeverRaces == queue = "KBRing" => ~SlotRace

\* SPSCQueue's full test compares a masked head with an unmasked tail, and
\* still protects every unread tick until the producer starts its third lap:
\* before that no tick is lost, torn or reordered.
SPSCInOrderForTwoLaps == queue = "SPSCQueue" /\ head < 2 * Cap => InOrder /\ ~SlotRace

\* KBRing is a bounded FIFO: a tick enters when head_ is stored, leaves when
\* tail_ is stored, and the ticks waiting are what the slots hold.
Fifo == INSTANCE BoundedFifo WITH
    Capacity <- Cap,
    waiting <- [i \in 1 .. head - tail |-> buffer[Slot(tail + i - 1)]],
    taken <- popped

KBRingIsBoundedFifo == [][queue = "KBRing" => [Fifo!FifoNext]_(Fifo!fifoVars)]_vars

\* A refused push is never refused for ever, so with any of the three classes
\* the producer pushes every tick, the consumer pops as many, and both joins of
\* the benchmark return.
BenchmarkEnds == <>(head = NumTicks /\ Len(popped) = NumTicks)

\* What the benchmark asserts after every pop (day3:87, "Verify ordering"):
\* the n-th tick popped is the n-th tick pushed.
AssertedOrder == InOrder
================================================================================
