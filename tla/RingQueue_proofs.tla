---------------------------- MODULE RingQueue_proofs ---------------------------
(***************************************************************************)
(* Proofs about RingQueue, for every capacity of at least two and any      *)
(* number of ticks.                                                        *)
(*                                                                         *)
(* Two arguments share the types.  Whatever is overwritten, a slot holds   *)
(* only ticks that belong in it, and no older ones than the last finished  *)
(* there.  And as long as head and tail are less than a lap apart while    *)
(* the producer copies, the slots between them hold exactly their ticks:   *)
(* the full test of KBRing keeps them so for ever, that of SPSCQueue until *)
(* the masked counter has gone round twice.                                *)
(***************************************************************************)
EXTENDS RingQueue, SharedLemmas, SequenceTheorems, TLAPS

\* The threads are where the counters allow; a mutexed call leaves no thread inside.
Types == /\ TypeOK
         /\ Len(popped) = tail
         /\ ppc # "push" => head < NumTicks /\ queue # "MutexQueue"
         /\ cpc # "pop" => tail < head /\ queue # "MutexQueue"

\* A word that may stand in the slot of tick n, once n was written.
NoOlder(w, n) == w >= n /\ Slot(w) = Slot(n)

\* Slots are overwritten by whole laps only.
Laps == /\ \A n \in 0 .. head - 1 : /\ NoOlder(buffer[Slot(n)].lo, n)
                                    /\ NoOlder(buffer[Slot(n)].hi, n)
        /\ ppc \in {"hi", "publish"} => buffer[Slot(head)].lo = head
        /\ ppc = "publish" => buffer[Slot(head)].hi = head
        /\ cpc \in {"hi", "release"} => NoOlder(out.lo, tail)
        /\ cpc = "release" => NoOlder(out.hi, tail)
        /\ OverrunByWholeLaps

\* The classes and the laps whose full test protects unread ticks.
Protected == queue = "KBRing" \/ (queue = "SPSCQueue" /\ head < 2 * Cap)

\* A protected ring has at most a lap of unread ticks, and room for the one that is
\* being copied in.  SPSCQueue keeps a slot free besides.
Room == Protected => /\ head - tail <= Cap
                     /\ ppc # "push" => head - tail < Cap
                     /\ queue = "SPSCQueue" => head - tail < Cap
                     /\ queue = "SPSCQueue" /\ ppc # "push" /\ head + 1 < 2 * Cap =>
                            head + 1 - tail < Cap

Tick(n) == [lo |-> n, hi |-> n]

\* The unread slots of a protected ring hold their ticks.
Exact == Protected => /\ \A n \in tail .. head - 1 : buffer[Slot(n)] = Tick(n)
                      /\ cpc \in {"hi", "release"} => out.lo = tail
                      /\ cpc = "release" => out.hi = tail
                      /\ InOrder

\* The inductive invariant.
IInv == Types /\ Laps /\ Room /\ Exact

-----------------------------------------------------------------------------
(* Slots.                                                                  *)

\* Counters less than a lap apart name different slots.
LEMMA SlotsDiffer ==
  ASSUME NEW a \in Int, NEW b \in Int, a < b, b < a + Cap
  PROVE  Slot(a) # Slot(b)
<1>1. Cap \in Nat \ {0}
  BY CapAssumption
<1>2. a % Cap # b % Cap
  BY <1>1, SlotsApart
<1> QED
  BY <1>2 DEF Slot

\* The slots of the two counters exist.
LEMMA SlotsInRange ==
  ASSUME Types
  PROVE  /\ head \in Nat /\ tail \in Nat
         /\ Slot(head) \in 0 .. Cap - 1 /\ Slot(tail) \in 0 .. Cap - 1
         /\ \A n \in Nat : Slot(n) \in 0 .. Cap - 1
<1>1. head \in Nat /\ tail \in Nat
  BY DEF Types, TypeOK
<1>2. \A n \in Nat : Slot(n) \in 0 .. Cap - 1
  BY CapAssumption, DivisionWithRemainder DEF Slot
<1> QED
  BY <1>1, <1>2

-----------------------------------------------------------------------------
(* The steps.                                                              *)

\* An empty ring.
LEMMA InitEstablishes == Init => IInv
  BY CapAssumption, NumTicksAssumption, EmptySeq
     DEF Init, IInv, Types, TypeOK, Laps, Room, Exact, Item, Word, Unwritten, Blank,
         OverrunByWholeLaps, InOrder

\* Every step keeps the types.
LEMMA TypesKept == ASSUME Types, [Next]_vars PROVE Types'
<1> USE CapAssumption, NumTicksAssumption DEF Types, TypeOK
<1>1. Slot(head) \in 0 .. Cap - 1 /\ Slot(tail) \in 0 .. Cap - 1
  BY SlotsInRange
<1>2. head < NumTicks => head \in Word
  BY DEF Word
<1>3. buffer[Slot(tail)] \in Item /\ buffer[Slot(tail)].lo \in Word /\ buffer[Slot(tail)].hi \in Word
  BY <1>1 DEF Item
<1>4. CASE MutexPush
  BY <1>1, <1>2, <1>4 DEF MutexPush, Item
<1>5. ASSUME NEW x \in Item, popped' = Append(popped, x), tail' = tail + 1
      PROVE  popped' \in Seq(Item) /\ Len(popped') = tail'
  BY <1>5, AppendProperties
<1>6. CASE MutexPop
  BY <1>3, <1>5, <1>6 DEF MutexPop, Empty
<1>7. CASE BeginPush
  BY <1>7 DEF BeginPush
<1>8. CASE WriteLo
  BY <1>1, <1>2, <1>8 DEF WriteLo, Item
<1>9. CASE WriteHi
  BY <1>1, <1>2, <1>9 DEF WriteHi, Item
<1>10. CASE Publish
  BY <1>10 DEF Publish
<1>11. CASE BeginPop
  BY <1>11 DEF BeginPop, Empty
<1>12. CASE ReadLo
  BY <1>3, <1>12 DEF ReadLo, Item
<1>13. CASE ReadHi
  BY <1>3, <1>13 DEF ReadHi, Item
<1>14. CASE Release
  BY <1>5, <1>14 DEF Release
<1>15. CASE UNCHANGED vars
  BY <1>15 DEF vars
<1> QED
  BY <1>4, <1>6, <1>7, <1>8, <1>9, <1>10, <1>11, <1>12, <1>13, <1>14, <1>15
     DEF Next, Producer, Consumer, Joined

\* What a copied word changes.
LEMMA WriteEffect ==
  ASSUME Types, WriteLo \/ WriteHi
  PROVE  /\ \A s \in 0 .. Cap - 1 : s # Slot(head) => buffer'[s] = buffer[s]
         /\ WriteLo => /\ buffer'[Slot(head)].lo = head
                       /\ buffer'[Slot(head)].hi = buffer[Slot(head)].hi
         /\ WriteHi => /\ buffer'[Slot(head)].hi = head
                       /\ buffer'[Slot(head)].lo = buffer[Slot(head)].lo
<1>1. Slot(head) \in 0 .. Cap - 1
  BY SlotsInRange
<1>2. buffer \in [0 .. Cap - 1 -> [lo : Word, hi : Word]]
  BY DEF Types, TypeOK, Item
<1> QED
  BY <1>1, <1>2 DEF WriteLo, WriteHi

\* What a tick written to the slot of head does to the words of older ticks.
LEMMA WriteKeepsLaps ==
  ASSUME Types, NEW n \in 0 .. head - 1
  PROVE  Slot(n) = Slot(head) => NoOlder(head, n)
  BY DEF Types, TypeOK, NoOlder

\* A pop of a tick no older than the one its place is for.
LEMMA PopsByLaps ==
  ASSUME Types, OverrunByWholeLaps, NEW x \in Item, NoOlder(x.lo, tail), NoOlder(x.hi, tail),
         popped' = Append(popped, x)
  PROVE  OverrunByWholeLaps'
<1>1. /\ Len(popped') = tail + 1 /\ popped'[tail + 1] = x
      /\ \A k \in 1 .. tail : popped'[k] = popped[k]
  BY AppendProperties DEF Types, TypeOK
<1>2. tail \in Nat /\ Len(popped) = tail
  BY DEF Types, TypeOK
<1> QED
  BY <1>1, <1>2 DEF OverrunByWholeLaps, NoOlder, Slot

\* Every step keeps the slots and the pops within their laps.
LEMMA LapsKept == ASSUME Types, Laps, [Next]_vars PROVE Laps'
<1> USE DEF Laps
<1>1. /\ head \in Nat /\ tail \in Nat /\ Slot(head) \in 0 .. Cap - 1 /\ tail <= head
      /\ \A n \in Nat : Slot(n) \in 0 .. Cap - 1
      /\ \A n \in 0 .. head - 1 : n \in Nat
  <2>1. tail <= head
    BY DEF Types, TypeOK
  <2> QED
    BY <2>1, SlotsInRange
<1>2. tail < head => NoOlder(buffer[Slot(tail)].lo, tail) /\ NoOlder(buffer[Slot(tail)].hi, tail)
  BY <1>1
<1>3. CASE MutexPush
  <2>1. /\ head' = head + 1 /\ buffer'[Slot(head)].lo = head /\ buffer'[Slot(head)].hi = head
        /\ \A s \in 0 .. Cap - 1 : s # Slot(head) => buffer'[s] = buffer[s]
        /\ ppc' = "push" /\ UNCHANGED <<cpc, out, tail, popped>>
    BY <1>1, <1>3 DEF MutexPush, Types, TypeOK
  <2>2. NoOlder(head, head)
    BY <1>1 DEF NoOlder
  <2>3. ASSUME NEW n \in 0 .. head
        PROVE  NoOlder(buffer'[Slot(n)].lo, n) /\ NoOlder(buffer'[Slot(n)].hi, n)
    <3>1. CASE Slot(n) = Slot(head)
      BY <1>1, <2>1, <2>2, <3>1, WriteKeepsLaps
    <3>2. CASE Slot(n) # Slot(head)
      BY <1>1, <2>1, <3>2
    <3> QED
      BY <3>1, <3>2
  <2>4. OverrunByWholeLaps'
    BY <2>1 DEF OverrunByWholeLaps
  <2>5. head' - 1 = head
    BY <1>1, <2>1
  <2> QED
    BY <1>1, <2>1, <2>3, <2>4, <2>5
<1>4. CASE MutexPop
  <2>1. /\ tail < head /\ cpc' = "pop" /\ UNCHANGED <<head, buffer, ppc>>
        /\ buffer[Slot(tail)] \in Item /\ popped' = Append(popped, buffer[Slot(tail)])
    BY <1>1, <1>4 DEF MutexPop, Empty, Types, TypeOK
  <2>2. OverrunByWholeLaps'
    BY <1>2, <2>1, PopsByLaps
  <2> QED
    BY <2>1, <2>2
<1>5. CASE WriteLo \/ WriteHi
  <2>1. UNCHANGED <<head, tail, cpc, out, popped>>
    BY <1>5 DEF WriteLo, WriteHi
  <2>2. ASSUME NEW n \in 0 .. head - 1
        PROVE  NoOlder(buffer'[Slot(n)].lo, n) /\ NoOlder(buffer'[Slot(n)].hi, n)
    <3>1. CASE Slot(n) = Slot(head)
      BY <1>5, <3>1, WriteEffect, WriteKeepsLaps
    <3>2. CASE Slot(n) # Slot(head)
      BY <1>1, <1>5, <3>2, WriteEffect
    <3> QED
      BY <3>1, <3>2
  <2>3. /\ ppc' \in {"hi", "publish"} => buffer'[Slot(head)].lo = head
        /\ ppc' = "publish" => buffer'[Slot(head)].hi = head
    BY <1>5, WriteEffect DEF WriteLo, WriteHi
  <2> QED
    BY <2>1, <2>2, <2>3 DEF OverrunByWholeLaps
<1>6. CASE Publish
  <2>1. /\ head' = head + 1 /\ ppc' = "push" /\ UNCHANGED <<tail, buffer, cpc, out, popped>>
        /\ buffer[Slot(head)].lo = head /\ buffer[Slot(head)].hi = head
    BY <1>6 DEF Publish
  <2>2. NoOlder(head, head)
    BY <1>1 DEF NoOlder
  <2>3. ASSUME NEW n \in 0 .. head
        PROVE  NoOlder(buffer'[Slot(n)].lo, n) /\ NoOlder(buffer'[Slot(n)].hi, n)
    <3>1. n \in 0 .. head - 1 \/ n = head
      BY <1>1
    <3> QED
      BY <2>1, <2>2, <3>1
  <2>4. OverrunByWholeLaps'
    BY <2>1 DEF OverrunByWholeLaps
  <2>5. head' - 1 = head
    BY <1>1, <2>1
  <2> QED
    BY <1>1, <2>1, <2>3, <2>4, <2>5
<1>7. CASE ReadLo
  <2>1. /\ tail < head /\ cpc' = "hi" /\ UNCHANGED <<head, tail, buffer, ppc, popped>>
        /\ out'.lo = buffer[Slot(tail)].lo
    BY <1>7 DEF ReadLo, Types, TypeOK, Item
  <2> QED
    BY <1>2, <2>1 DEF OverrunByWholeLaps
<1>8. CASE ReadHi
  <2>1. /\ tail < head /\ cpc = "hi" /\ cpc' = "release"
        /\ UNCHANGED <<head, tail, buffer, ppc, popped>>
        /\ out'.hi = buffer[Slot(tail)].hi /\ out'.lo = out.lo
    BY <1>8 DEF ReadHi, Types, TypeOK, Item
  <2> QED
    BY <1>2, <2>1 DEF OverrunByWholeLaps
<1>9. CASE Release
  <2>1. /\ cpc = "release" /\ cpc' = "pop" /\ UNCHANGED <<head, buffer, ppc>>
        /\ out \in Item /\ popped' = Append(popped, out)
    BY <1>9 DEF Release, Types, TypeOK
  <2>2. OverrunByWholeLaps'
    BY <2>1, PopsByLaps
  <2> QED
    BY <2>1, <2>2
<1>10. CASE BeginPush \/ BeginPop \/ UNCHANGED vars
  <2>1. /\ UNCHANGED <<head, tail, buffer, out, popped>>
        /\ ppc' \in {"hi", "publish"} => ppc' = ppc
        /\ cpc' \in {"hi", "release"} => cpc' = cpc
    BY <1>10 DEF BeginPush, BeginPop, vars
  <2> QED
    BY <2>1 DEF OverrunByWholeLaps
<1> QED
  BY <1>3, <1>4, <1>5, <1>6, <1>7, <1>8, <1>9, <1>10 DEF Next, Producer, Consumer, Joined

\* SPSCQueue's full test in its first two laps: when it lets a tick in, one slot stays
\* free besides, until the last tick of the second lap.
LEMMA SpscRoom ==
  ASSUME Types, head - tail < Cap, head + 1 < 2 * Cap, ~SpscFull
  PROVE  head + 1 - tail < Cap
<1>1. head \in Nat /\ tail \in Nat /\ head + 1 \in Nat
  BY DEF Types, TypeOK
<1>2. PICK next \in Nat : next = head + 1
  BY <1>1
<1>3. next % Cap = IF next < Cap THEN next ELSE next - Cap
  BY <1>2, CapAssumption, FirstLaps
<1> QED
  BY <1>1, <1>2, <1>3, CapAssumption DEF SpscFull

\* Every step leaves a protected ring its room.
LEMMA RoomKept == ASSUME Types, Room, [Next]_vars PROVE Room'
<1>1. head \in Nat /\ tail \in Nat /\ Cap \in Nat /\ tail <= head
  BY CapAssumption DEF Types, TypeOK
<1>2. CASE MutexPush \/ MutexPop
  BY <1>2 DEF MutexPush, MutexPop, Room, Protected
<1>3. CASE BeginPush
  <2>1. ppc' = "lo" /\ UNCHANGED <<queue, head, tail>>
    BY <1>3 DEF BeginPush
  <2>2. CASE queue = "KBRing" /\ ~KBFull
    BY <1>1, <2>1, <2>2 DEF KBFull, Room, Protected
  <2>3. CASE queue = "SPSCQueue" /\ ~SpscFull
    BY <1>1, <2>1, <2>3, SpscRoom DEF Room, Protected
  <2> QED
    BY <1>3, <2>2, <2>3 DEF BeginPush
<1>4. CASE WriteLo \/ WriteHi
  <2>1. ppc # "push" /\ UNCHANGED <<queue, head, tail>>
    BY <1>4 DEF WriteLo, WriteHi
  <2> QED
    BY <2>1 DEF Room, Protected
<1>5. CASE Publish
  <2>1. ppc # "push" /\ ppc' = "push" /\ head' = head + 1 /\ UNCHANGED <<queue, tail>>
    BY <1>5 DEF Publish
  <2> QED
    BY <1>1, <2>1 DEF Room, Protected
<1>6. CASE Release
  <2>1. tail' = tail + 1 /\ UNCHANGED <<queue, head, ppc>>
    BY <1>6 DEF Release
  <2> QED
    BY <1>1, <2>1 DEF Room, Protected
<1>7. CASE BeginPop \/ ReadLo \/ ReadHi \/ UNCHANGED vars
  <2>1. UNCHANGED <<queue, head, tail, ppc>>
    BY <1>7 DEF BeginPop, ReadLo, ReadHi, vars
  <2> QED
    BY <2>1 DEF Room, Protected
<1> QED
  BY <1>2, <1>3, <1>4, <1>5, <1>6, <1>7 DEF Next, Producer, Consumer, Joined

\* The slot being written is none of those that hold unread ticks.
LEMMA NoSlotShared ==
  ASSUME Types, Room, Protected, ppc # "push", NEW n \in tail .. head - 1
  PROVE  Slot(n) # Slot(head)
<1>1. head \in Int /\ tail \in Nat /\ n \in Int /\ n < head /\ head < n + Cap
  BY CapAssumption DEF Types, TypeOK, Room
<1> QED
  BY <1>1, SlotsDiffer

\* A pop of the tick its place is for.
LEMMA PopsInOrder ==
  ASSUME Types, InOrder, popped' = Append(popped, Tick(tail)), Tick(tail) \in Item
  PROVE  InOrder'
<1>1. /\ Len(popped') = tail + 1 /\ popped'[tail + 1] = Tick(tail)
      /\ \A k \in 1 .. tail : popped'[k] = popped[k]
  BY AppendProperties DEF Types, TypeOK
<1>2. tail \in Nat /\ Len(popped) = tail
  BY DEF Types, TypeOK
<1> QED
  BY <1>1, <1>2 DEF InOrder, Tick

\* Every step keeps the unread slots of a protected ring exact.
LEMMA ExactKept == ASSUME Types, Laps, Room, Exact, [Next]_vars PROVE Exact'
<1>1. /\ head \in Nat /\ tail \in Nat /\ tail <= head
      /\ buffer \in [0 .. Cap - 1 -> Item] /\ out \in Item
      /\ \A n \in tail .. head - 1 : n \in Nat
  BY DEF Types, TypeOK
<1>2. \A n \in Nat : Slot(n) \in 0 .. Cap - 1
  BY SlotsInRange
<1>3. Protected /\ tail < head => buffer[Slot(tail)].lo = tail /\ buffer[Slot(tail)].hi = tail
  <2>1. tail < head => tail \in tail .. head - 1
    BY <1>1
  <2>2. Protected /\ tail < head => buffer[Slot(tail)] = Tick(tail)
    BY <2>1 DEF Exact
  <2>3. Tick(tail).lo = tail /\ Tick(tail).hi = tail
    BY DEF Tick
  <2> QED
    BY <2>2, <2>3, Zenon
<1>4. popped' = popped => InOrder' = InOrder
  BY DEF InOrder
<1>5. CASE MutexPush \/ MutexPop
  BY <1>5 DEF MutexPush, MutexPop, Exact, Protected
<1>6. CASE WriteLo \/ WriteHi
  <2>1. ppc # "push" /\ UNCHANGED <<queue, head, tail, cpc, out, popped>>
    BY <1>6 DEF WriteLo, WriteHi
  <2>2. Protected => \A n \in tail .. head - 1 : buffer'[Slot(n)] = buffer[Slot(n)]
    BY <1>1, <1>2, <1>6, <2>1, WriteEffect, NoSlotShared
  <2> QED
    BY <2>1, <2>2 DEF Exact, Protected, InOrder
<1>7. CASE Publish
  <2>1. /\ head' = head + 1 /\ UNCHANGED <<queue, tail, buffer, cpc, out, popped>>
        /\ buffer[Slot(head)].lo = head /\ buffer[Slot(head)].hi = head
    BY <1>7 DEF Publish, Laps
  <2>2. buffer[Slot(head)] = Tick(head)
    BY <1>1, <1>2, <2>1 DEF Item, Tick
  <2>3. Protected' => Protected
    BY <1>1, <1>2, <2>1, CapAssumption DEF Protected
  <2>4. Protected => \A n \in tail .. head' - 1 : buffer'[Slot(n)] = Tick(n)
    BY <1>1, <2>1, <2>2 DEF Exact
  <2> QED
    BY <1>4, <2>1, <2>3, <2>4 DEF Exact
<1>8. CASE ReadLo
  <2>1. /\ tail < head /\ cpc' = "hi" /\ UNCHANGED <<queue, head, tail, buffer, popped>>
        /\ out'.lo = buffer[Slot(tail)].lo
    BY <1>1, <1>2, <1>8 DEF ReadLo, Types, Item
  <2> QED
    BY <1>3, <1>4, <2>1 DEF Exact, Protected
<1>9. CASE ReadHi
  <2>1. /\ tail < head /\ cpc = "hi" /\ cpc' = "release"
        /\ UNCHANGED <<queue, head, tail, buffer, popped>>
        /\ out'.hi = buffer[Slot(tail)].hi /\ out'.lo = out.lo
    BY <1>1, <1>2, <1>9 DEF ReadHi, Types, Item
  <2> QED
    BY <1>3, <1>4, <2>1 DEF Exact, Protected
<1>10. CASE Release
  <2>1. /\ cpc = "release" /\ cpc' = "pop" /\ tail' = tail + 1
        /\ UNCHANGED <<queue, head, buffer>> /\ popped' = Append(popped, out)
    BY <1>10 DEF Release
  <2>2. Protected => out = Tick(tail)
    BY <1>1, <1>2, <2>1 DEF Exact, Item, Tick
  <2>3. Protected => InOrder'
    BY <1>1, <1>2, <2>1, <2>2, PopsInOrder DEF Exact
  <2>4. Protected' = Protected
    BY <2>1 DEF Protected
  <2>5. Protected => \A n \in tail' .. head' - 1 : buffer'[Slot(n)] = Tick(n)
    <3>1. \A n \in tail' .. head' - 1 : n \in tail .. head - 1
      BY <1>1, <2>1
    <3> QED
      BY <2>1, <3>1 DEF Exact
  <2> QED
    BY <2>1, <2>3, <2>4, <2>5 DEF Exact
<1>11. CASE BeginPush \/ BeginPop \/ UNCHANGED vars
  <2>1. /\ UNCHANGED <<queue, head, tail, buffer, out, popped>>
        /\ cpc' \in {"hi", "release"} => cpc' = cpc
    BY <1>11 DEF BeginPush, BeginPop, vars
  <2> QED
    BY <2>1 DEF Exact, Protected, InOrder
<1> QED
  BY <1>5, <1>6, <1>7, <1>8, <1>9, <1>10, <1>11 DEF Next, Producer, Consumer, Joined

LEMMA NextKeeps == IInv /\ [Next]_vars => IInv'
  BY TypesKept, LapsKept, RoomKept, ExactKept DEF IInv

\* The unread slots of a protected ring are not the one being written.
LEMMA ProtectedNeverRaces == ASSUME IInv, Protected PROVE ~SlotRace
<1> SUFFICES ASSUME SlotRace PROVE FALSE
  OBVIOUS
<1>1. tail \in tail .. head - 1 /\ ppc # "push" /\ Slot(head) = Slot(tail)
  BY DEF SlotRace, IInv, Types, TypeOK
<1> QED
  BY <1>1, NoSlotShared DEF IInv

-----------------------------------------------------------------------------
(* KBRing and the bounded FIFO.                                            *)

\* The unread ticks, as the refinement mapping reads them off the slots.
Unread(h, t, b) == [i \in 1 .. h - t |-> b[Slot(t + i - 1)]]
Waiting == Unread(head, tail, buffer)

\* A sequence is a function on its places.
LEMMA PlacesMakeSequence ==
  ASSUME NEW S, NEW n \in Nat, NEW w \in [1 .. n -> S]
  PROVE  w \in Seq(S) /\ Len(w) = n
  OBVIOUS

\* The unread slots of any ring are a sequence of as many ticks as the counters say.
LEMMA UnreadIsSequence ==
  ASSUME NEW h \in Nat, NEW t \in 0 .. h, NEW b \in [0 .. Cap - 1 -> Item]
  PROVE  /\ Unread(h, t, b) \in Seq(Item) /\ Len(Unread(h, t, b)) = h - t /\ h - t \in Nat
         /\ \A k \in 1 .. h - t : Unread(h, t, b)[k] = b[Slot(t + k - 1)]
<1>1. PICK n \in Nat : n = h - t
  OBVIOUS
<1>2. ASSUME NEW k \in 1 .. n PROVE b[Slot(t + k - 1)] \in Item
  <2>1. t + k - 1 \in Int
    OBVIOUS
  <2>2. Slot(t + k - 1) \in 0 .. Cap - 1
    BY <2>1, CapAssumption, DivisionWithRemainder DEF Slot
  <2> QED
    BY <2>2
<1>3. PICK w : w = Unread(h, t, b)
  OBVIOUS
<1>4. w = [k \in 1 .. n |-> b[Slot(t + k - 1)]]
  BY <1>1, <1>3 DEF Unread
<1>5. w \in [1 .. n -> Item] /\ \A k \in 1 .. n : w[k] = b[Slot(t + k - 1)]
  BY <1>2, <1>4
<1>6. w \in Seq(Item) /\ Len(w) = n
  BY <1>5, PlacesMakeSequence
<1> QED
  BY <1>1, <1>3, <1>5, <1>6

\* The unread ticks before a step, and after it.
LEMMA WaitingTicks ==
  ASSUME Types
  PROVE  /\ Waiting \in Seq(Item) /\ Len(Waiting) = head - tail /\ head - tail \in Nat
         /\ \A k \in 1 .. head - tail : Waiting[k] = buffer[Slot(tail + k - 1)]
<1>1. head \in Nat /\ tail \in 0 .. head /\ buffer \in [0 .. Cap - 1 -> Item]
  BY DEF Types, TypeOK
<1> QED
  BY <1>1, UnreadIsSequence DEF Waiting

LEMMA WaitingTicksNext ==
  ASSUME Types'
  PROVE  /\ Waiting' \in Seq(Item) /\ Len(Waiting') = head' - tail'
         /\ \A k \in 1 .. head' - tail' : Waiting'[k] = buffer'[Slot(tail' + k - 1)]
<1>1. head' \in Nat /\ tail' \in 0 .. head' /\ buffer' \in [0 .. Cap - 1 -> Item]
  BY DEF Types, TypeOK
<1>2. Waiting' = Unread(head', tail', buffer')
  BY DEF Waiting, Unread, Slot
<1> QED
  BY <1>1, <1>2, UnreadIsSequence

\* Storing head_ puts the new tick at the back, where there is room.
LEMMA PublishPuts ==
  ASSUME IInv, Types', queue = "KBRing", Publish
  PROVE  /\ Len(Waiting) < Cap /\ Tick(head) \in Item
         /\ Waiting' = Append(Waiting, Tick(head)) /\ popped' = popped
<1>1. /\ ppc = "publish" /\ head' = head + 1 /\ UNCHANGED <<tail, buffer, popped>>
      /\ buffer[Slot(head)].lo = head /\ buffer[Slot(head)].hi = head
      /\ head \in Nat /\ tail \in Nat
  BY DEF Publish, IInv, Laps, Types, TypeOK
<1>2. buffer[Slot(head)] \in Item /\ buffer[Slot(head)] = Tick(head)
  BY <1>1, SlotsInRange DEF IInv, Types, TypeOK, Item, Tick
<1>3. head - tail < Cap
  BY <1>1 DEF IInv, Room, Protected
<1>4. PICK w \in Seq(Item) : w = Waiting
  BY WaitingTicks DEF IInv
<1>5. PICK v \in Seq(Item) : v = Append(w, Tick(head))
  BY <1>2, AppendProperties
<1>6. /\ Len(w) = head - tail /\ head - tail \in Nat
      /\ \A k \in 1 .. head - tail : w[k] = buffer[Slot(tail + k - 1)]
  BY <1>4, WaitingTicks DEF IInv
<1>7. /\ Len(v) = head - tail + 1 /\ v[head - tail + 1] = Tick(head)
      /\ \A k \in 1 .. head - tail : v[k] = w[k]
  BY <1>2, <1>5, <1>6, AppendProperties
<1>8. PICK u \in Seq(Item) : u = Waiting'
  BY WaitingTicksNext
<1>9. Len(u) = head - tail + 1 /\ \A k \in 1 .. head - tail + 1 : u[k] = buffer[Slot(tail + k - 1)]
  <2>1. Len(u) = head' - tail' /\ \A k \in 1 .. head' - tail' : u[k] = buffer'[Slot(tail' + k - 1)]
    BY <1>8, WaitingTicksNext
  <2>2. head' - tail' = head - tail + 1
    BY <1>1
  <2> QED
    BY <1>1, <2>1, <2>2
<1>10. \A k \in 1 .. head - tail + 1 : u[k] = v[k]
  <2> TAKE k \in 1 .. head - tail + 1
  <2>1. CASE k \in 1 .. head - tail
    BY <1>6, <1>7, <1>9, <2>1
  <2>2. CASE k = head - tail + 1
    <3>1. tail + k - 1 = head
      BY <1>1, <2>2
    <3> QED
      BY <1>2, <1>7, <1>9, <2>2, <3>1
  <2> QED
    BY <1>6, <2>1, <2>2
<1>11. u = v
  BY <1>7, <1>9, <1>10, SeqEqual
<1> QED
  BY <1>1, <1>2, <1>3, <1>4, <1>5, <1>6, <1>8, <1>11

\* Storing tail_ takes the tick at the front, which is the one that was copied out.
LEMMA ReleaseTakes ==
  ASSUME IInv, Types', queue = "KBRing", Release
  PROVE  /\ Waiting # <<>> /\ popped' = Append(popped, Head(Waiting))
         /\ Waiting' = Tail(Waiting)
<1>1. /\ cpc = "release" /\ tail' = tail + 1 /\ UNCHANGED <<head, buffer>>
      /\ popped' = Append(popped, out) /\ head \in Nat /\ tail \in Nat /\ tail < head
      /\ out \in Item
  BY DEF Release, IInv, Types, TypeOK
<1>2. out = buffer[Slot(tail)]
  <2>1. tail \in tail .. head - 1
    BY <1>1
  <2>2. out.lo = tail /\ out.hi = tail /\ buffer[Slot(tail)] = Tick(tail)
    BY <1>1, <2>1 DEF IInv, Exact, Protected
  <2> QED
    BY <1>1, <2>2 DEF Item, Tick
<1>3. PICK w \in Seq(Item) : w = Waiting
  BY WaitingTicks DEF IInv
<1>4. /\ Len(w) = head - tail /\ head - tail \in Nat
      /\ \A k \in 1 .. head - tail : w[k] = buffer[Slot(tail + k - 1)]
  BY <1>3, WaitingTicks DEF IInv
<1>5. w # <<>> /\ Head(w) = buffer[Slot(tail)]
  <2>1. w # <<>> /\ Head(w) = w[1]
    BY <1>1, <1>4
  <2>2. 1 \in 1 .. head - tail /\ tail + 1 - 1 = tail
    BY <1>1
  <2> QED
    BY <1>4, <2>1, <2>2
<1>6. PICK v \in Seq(Item) : v = Tail(w)
  BY <1>5, HeadTailProperties
<1>7. Len(v) = head - tail - 1 /\ \A k \in 1 .. head - tail - 1 : v[k] = w[k + 1]
  BY <1>4, <1>5, <1>6, HeadTailProperties
<1>8. PICK u \in Seq(Item) : u = Waiting'
  BY WaitingTicksNext
<1>9. Len(u) = head - tail - 1 /\ \A k \in 1 .. head - tail - 1 : u[k] = buffer[Slot(tail + 1 + k - 1)]
  <2>1. Len(u) = head' - tail' /\ \A k \in 1 .. head' - tail' : u[k] = buffer'[Slot(tail' + k - 1)]
    BY <1>8, WaitingTicksNext
  <2>2. head' - tail' = head - tail - 1
    BY <1>1
  <2> QED
    BY <1>1, <2>1, <2>2
<1>10. \A k \in 1 .. head - tail - 1 : u[k] = v[k]
  <2> TAKE k \in 1 .. head - tail - 1
  <2>1. k + 1 \in 1 .. head - tail /\ tail + (k + 1) - 1 = tail + 1 + k - 1
    BY <1>1
  <2> QED
    BY <1>4, <1>7, <1>9, <2>1
<1>11. u = v
  BY <1>7, <1>9, <1>10, SeqEqual
<1> QED
  BY <1>1, <1>2, <1>3, <1>5, <1>6, <1>8, <1>11

\* No other step of KBRing changes what waits or what was taken.
LEMMA OthersStutter ==
  ASSUME IInv, queue = "KBRing",
         BeginPush \/ WriteLo \/ WriteHi \/ BeginPop \/ ReadLo \/ ReadHi \/ UNCHANGED vars
  PROVE  Waiting' = Waiting /\ popped' = popped
<1>1. UNCHANGED <<head, tail, popped>>
  BY DEF BeginPush, WriteLo, WriteHi, BeginPop, ReadLo, ReadHi, vars
<1>2. head \in Nat /\ tail \in Nat
  BY DEF IInv, Types, TypeOK
<1>3. \A n \in tail .. head - 1 : buffer'[Slot(n)] = buffer[Slot(n)]
  <2>1. CASE WriteLo \/ WriteHi
    <3>1. ppc # "push"
      BY <2>1 DEF WriteLo, WriteHi
    <3>2. \A n \in tail .. head - 1 : Slot(n) \in 0 .. Cap - 1 /\ Slot(n) # Slot(head)
      BY <1>2, <3>1, SlotsInRange, NoSlotShared DEF IInv, Protected
    <3> QED
      BY <2>1, <3>2, WriteEffect DEF IInv
  <2>2. CASE UNCHANGED buffer
    BY <2>2
  <2> QED
    BY <2>1, <2>2 DEF BeginPush, BeginPop, ReadLo, ReadHi, vars
<1>4. \A k \in 1 .. head - tail : buffer'[Slot(tail + k - 1)] = buffer[Slot(tail + k - 1)]
  <2> TAKE k \in 1 .. head - tail
  <2>1. tail + k - 1 \in tail .. head - 1
    BY <1>2
  <2> QED
    BY <1>3, <2>1
<1> QED
  BY <1>1, <1>4 DEF Waiting, Unread, Slot

-----------------------------------------------------------------------------
(* The theorems.                                                           *)

\* The rings: counters, slots and the two threads stay where the code can put them, and
\* tail_ never passes head_.
THEOREM TypesHold == Spec => []TypeOK
<1>1. IInv => TypeOK
  BY DEF IInv, Types
<1> QED
  BY <1>1, InitEstablishes, NextKeeps, PTL DEF Spec

\* All three classes: a full test that lets the producer overrun the consumer replaces
\* ticks by others of the same slot, later ones, word by word, and by nothing else.
THEOREM LostByWholeLaps == Spec => []OverrunByWholeLaps
<1>1. IInv => OverrunByWholeLaps
  BY DEF IInv, Laps
<1> QED
  BY <1>1, InitEstablishes, NextKeeps, PTL DEF Spec

\* KBRing: the two threads never copy to and from one slot at the same time.
THEOREM KBRingRaceFree == Spec => []KBRingNeverRaces
<1>1. IInv => KBRingNeverRaces
  BY ProtectedNeverRaces DEF KBRingNeverRaces, Protected
<1> QED
  BY <1>1, InitEstablishes, NextKeeps, PTL DEF Spec

\* SPSCQueue: correct for every tick of the first two laps, the second included.
THEOREM SPSCTwoLaps == Spec => []SPSCInOrderForTwoLaps
<1>1. IInv => SPSCInOrderForTwoLaps
  BY ProtectedNeverRaces DEF SPSCInOrderForTwoLaps, Protected, IInv, Exact
<1> QED
  BY <1>1, InitEstablishes, NextKeeps, PTL DEF Spec

\* KBRing implements the bounded FIFO: a tick enters at the store of head_ and leaves, the
\* oldest first, at the store of tail_, for every capacity and any interleaving.
THEOREM KBRingImplementsFifo == Spec => KBRingIsBoundedFifo
<1>1. ASSUME IInv, IInv', [Next]_vars, queue = "KBRing"
      PROVE  [Fifo!FifoNext]_(Fifo!fifoVars)
  <2>1. CASE Publish
    <3>1. Fifo!Put(Tick(head)) /\ Tick(head) \in Item
      BY <1>1, <2>1, PublishPuts DEF Fifo!Put, Waiting, Unread, IInv
    <3> QED
      BY <3>1 DEF Fifo!FifoNext
  <2>2. CASE Release
    <3>1. Fifo!Take
      BY <1>1, <2>2, ReleaseTakes DEF Fifo!Take, Waiting, Unread, IInv
    <3> QED
      BY <3>1 DEF Fifo!FifoNext
  <2>3. CASE BeginPush \/ WriteLo \/ WriteHi \/ BeginPop \/ ReadLo \/ ReadHi \/ UNCHANGED vars
    BY <1>1, <2>3, OthersStutter DEF Fifo!fifoVars, Waiting, Unread
  <2> QED
    BY <1>1, <2>1, <2>2, <2>3
       DEF Next, Producer, Consumer, Joined, MutexPush, MutexPop
<1>2. IInv /\ IInv' /\ [Next]_vars => (queue = "KBRing" => [Fifo!FifoNext]_(Fifo!fifoVars))
  BY <1>1
<1> QED
  BY <1>2, InitEstablishes, NextKeeps, PTL DEF Spec, KBRingIsBoundedFifo
================================================================================
