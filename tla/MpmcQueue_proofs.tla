----------------------------- MODULE MpmcQueue_proofs ----------------------------
(***************************************************************************)
(* Proofs about MpmcQueue for any number of producers and consumers, any   *)
(* capacity of at least two and any number of ticks.                       *)
(*                                                                         *)
(* The argument: the tickets dequeue_pos .. dequeue_pos + Cap - 1 name the *)
(* cells once each.  A ticket below enqueue_pos is being written by the    *)
(* one producer that owns it or is published; a ticket from enqueue_pos on *)
(* is being emptied by the one consumer that owns the ticket one lap       *)
(* before or is free.  The cell's sequence tells these four cases apart,   *)
(* which is why a compare-and-swap that succeeds after its thread has seen *)
(* the right sequence needs no second look at the cell.                    *)
(***************************************************************************)
EXTENDS MpmcQueue, SequenceTheorems, FiniteSetTheorems, FunctionTheorems,
        TLAPS

Window == dequeue_pos <= enqueue_pos /\ enqueue_pos <= dequeue_pos + Cap

PushLabels == {"load", "sequence", "cas", "write", "publish"}
PopLabels == {"register", "check", "poll", "ready", "take", "read", "release",
              "count", "done"}
Labels == /\ \A p \in Producers : pc[p] \in PushLabels
          /\ \A c \in Consumers : pc[c] \in PopLabels

\* What a producer that owns a ticket can rely on.
OwnsPush(p) == /\ dequeue_pos <= pos[p] /\ pos[p] < enqueue_pos
               /\ sequence[Cell(pos[p])] = pos[p]
               /\ log[pos[p] + 1] = [by |-> p, n |-> sent[p]]
               /\ pc[p] = "publish" => data[Cell(pos[p])] = log[pos[p] + 1]

\* What a consumer that owns a ticket can rely on.
OwnsPop(c) == /\ pos[c] < dequeue_pos /\ enqueue_pos <= pos[c] + Cap
              /\ sequence[Cell(pos[c])] = pos[c] + 1
              /\ pc[c] = "read" => data[Cell(pos[c])] = log[pos[c] + 1]

OneReaderEach == \A c, d \in Consumers :
                    Reading(c) /\ Reading(d) /\ pos[c] = pos[d] => c = d

\* The two cases of a ticket handed out to a producer and not yet to a consumer.
Filled(n) == \/ \E p \in Producers : Writing(p) /\ pos[p] = n
             \/ sequence[Cell(n)] = n + 1 /\ data[Cell(n)] = log[n + 1]

\* The two cases of the tickets producers may get next.
Free(n) == \/ \E c \in Consumers : Reading(c) /\ pos[c] = n - Cap
           \/ sequence[Cell(n)] = n

\* What a thread on its way to its compare-and-swap has seen and stays true.
OnItsWay(t) ==
    /\ pc[t] \in {"sequence", "cas"} => pos[t] <= enqueue_pos
    /\ pc[t] = "cas" => sequence[Cell(pos[t])] >= pos[t]
    /\ pc[t] \in {"ready", "take"} => pos[t] <= dequeue_pos
    /\ pc[t] = "take" => sequence[Cell(pos[t])] >= pos[t] + 1

GotMatches == \A g \in got : g.ticket < dequeue_pos /\ g.tick = log[g.ticket + 1]

IInv == /\ TypeOK
        /\ Labels
        /\ Window
        /\ \A p \in Producers : Writing(p) => OwnsPush(p)
        /\ \A c \in Consumers : Reading(c) => OwnsPop(c)
        /\ OneReaderEach
        /\ \A n \in dequeue_pos .. enqueue_pos - 1 : Filled(n)
        /\ \A n \in enqueue_pos .. dequeue_pos + Cap - 1 : Free(n)
        /\ \A t \in Threads : OnItsWay(t)
        /\ GotMatches

-----------------------------------------------------------------------------
(* Cells                                                                   *)

\* Division by the capacity with remainder.
LEMMA Division ==
  ASSUME NEW a \in Int
  PROVE  /\ Cell(a) \in 0 .. Cap - 1 /\ a \div Cap \in Int
         /\ a = Cap * (a \div Cap) + Cell(a)
  BY CapAssumption DEF Cell

\* The remainder is the only one.
LEMMA RemainderUnique ==
  ASSUME NEW a \in Int, NEW q \in Int, NEW r \in 0 .. Cap - 1, a = Cap * q + r
  PROVE  Cell(a) = r
  BY CapAssumption DEF Cell

LEMMA MultipleOfCap ==
  ASSUME NEW k \in Int, k >= 1
  PROVE  Cap * k >= Cap
<1>1. Cap * (k - 1) >= 0
  BY CapAssumption
<1>2. Cap * (k - 1) = Cap * k - Cap /\ Cap * k \in Int
  BY CapAssumption
<1> QED
  BY <1>1, <1>2, CapAssumption

LEMMA CellsDiffer ==
  ASSUME NEW a \in Int, NEW b \in Int, a < b, b < a + Cap
  PROVE  Cell(a) # Cell(b)
<1> SUFFICES ASSUME Cell(a) = Cell(b) PROVE FALSE
  OBVIOUS
<1> DEFINE qa == a \div Cap
           qb == b \div Cap
           k == qb - qa
<1>1. k \in Int /\ b - a = Cap * k
  <2>1. /\ qa \in Int /\ qb \in Int /\ Cell(a) \in Int
        /\ a = Cap * qa + Cell(a) /\ b = Cap * qb + Cell(b)
    BY Division, CapAssumption
  <2> HIDE DEF qa, qb
  <2>2. Cap * (qb - qa) = Cap * qb - Cap * qa
    BY <2>1, CapAssumption
  <2>3. Cap * qb \in Int /\ Cap * qa \in Int
    BY <2>1, CapAssumption
  <2> QED
    BY <2>1, <2>2, <2>3
<1> HIDE DEF k
<1>2. CASE k >= 1
  BY <1>1, <1>2, MultipleOfCap, CapAssumption
<1>3. CASE k <= 0
  <2>1. Cap * k <= 0
    BY <1>1, <1>3, CapAssumption
  <2> QED
    BY <2>1, <1>1
<1> QED
  BY <1>1, <1>2, <1>3

\* Two tickets less than a lap apart never share a cell.
LEMMA CellsDistinct ==
  ASSUME NEW a \in Int, NEW b \in Int, a # b, a < b + Cap, b < a + Cap
  PROVE  Cell(a) # Cell(b)
<1>1. CASE a < b
  BY <1>1, CellsDiffer
<1>2. CASE b < a
  BY <1>2, CellsDiffer
<1> QED
  BY <1>1, <1>2

\* Tickets one lap apart do.
LEMMA CellPeriod ==
  ASSUME NEW a \in Int
  PROVE  Cell(a + Cap) = Cell(a)
<1> DEFINE q == a \div Cap
           r == Cell(a)
<1>1. q \in Int /\ r \in 0 .. Cap - 1 /\ a = Cap * q + r /\ Cap \in Int
  BY Division, CapAssumption
<1> HIDE DEF q, r
<1>2. Cap * (q + 1) = Cap * q + Cap /\ Cap * q \in Int
  BY <1>1
<1>3. a + Cap = Cap * (q + 1) + r
  BY <1>1, <1>2
<1>4. a + Cap \in Int /\ q + 1 \in Int
  BY <1>1
<1>5. Cell(a + Cap) = r
  BY <1>1, <1>3, <1>4, RemainderUnique
<1> QED
  BY <1>5 DEF r

-----------------------------------------------------------------------------
(* What a thread that wins its compare-and-swap has won                    *)

LEMMA Numbers ==
  ASSUME IInv
  PROVE  /\ enqueue_pos \in Nat /\ dequeue_pos \in Nat /\ Cap \in Nat /\ Cap >= 2
         /\ dequeue_pos <= enqueue_pos /\ enqueue_pos <= dequeue_pos + Cap
         /\ \A t \in Threads : pos[t] \in Nat
         /\ \A n \in Int : Cell(n) \in 0 .. Cap - 1 /\ sequence[Cell(n)] \in Nat
  BY CapAssumption, Division DEF IInv, TypeOK, Window

\* The next push ticket, when its cell has been seen ready for it: the ring is not
\* full and the cell is free.
LEMMA NextPushIsFree ==
  ASSUME IInv, sequence[Cell(enqueue_pos)] >= enqueue_pos
  PROVE  /\ enqueue_pos < dequeue_pos + Cap
         /\ sequence[Cell(enqueue_pos)] = enqueue_pos
<1>1. enqueue_pos # dequeue_pos + Cap
  <2> SUFFICES ASSUME enqueue_pos = dequeue_pos + Cap PROVE FALSE
    OBVIOUS
  <2>1. Cell(enqueue_pos) = Cell(dequeue_pos)
    BY CellPeriod, Numbers
  <2>2. Filled(dequeue_pos)
    BY Numbers DEF IInv
  <2>3. sequence[Cell(dequeue_pos)] \in {dequeue_pos, dequeue_pos + 1}
    BY <2>2 DEF Filled, IInv, OwnsPush
  <2> QED
    BY <2>1, <2>3, Numbers
<1>2. Free(enqueue_pos)
  <2>1. \A n \in enqueue_pos .. dequeue_pos + Cap - 1 : Free(n)
    BY DEF IInv
  <2>2. enqueue_pos \in enqueue_pos .. dequeue_pos + Cap - 1
    BY <1>1, Numbers
  <2> QED
    BY <2>1, <2>2
<1>3. ~ \E c \in Consumers : Reading(c) /\ pos[c] = enqueue_pos - Cap
  <2> SUFFICES ASSUME NEW c \in Consumers, Reading(c), pos[c] = enqueue_pos - Cap
               PROVE  FALSE
    OBVIOUS
  <2>1. sequence[Cell(pos[c])] = pos[c] + 1 /\ pos[c] \in Nat
    BY Numbers DEF IInv, OwnsPop, Threads
  <2>2. Cell(pos[c]) = Cell(enqueue_pos)
    <3>1. enqueue_pos = pos[c] + Cap
      BY <2>1, Numbers
    <3> QED
      BY <2>1, <3>1, CellPeriod
  <2> QED
    BY <2>1, <2>2, Numbers
<1> QED
  BY <1>1, <1>2, <1>3, Numbers DEF Free

\* The next pop ticket, when its cell has been seen ready for it: the ring is not
\* empty and the cell holds that ticket's tick.
LEMMA NextPopIsFilled ==
  ASSUME IInv, sequence[Cell(dequeue_pos)] >= dequeue_pos + 1
  PROVE  /\ dequeue_pos < enqueue_pos
         /\ sequence[Cell(dequeue_pos)] = dequeue_pos + 1
         /\ data[Cell(dequeue_pos)] = log[dequeue_pos + 1]
<1>1. dequeue_pos # enqueue_pos
  <2> SUFFICES ASSUME dequeue_pos = enqueue_pos PROVE FALSE
    OBVIOUS
  <2>1. sequence[Cell(enqueue_pos)] = enqueue_pos
    BY NextPushIsFree, Numbers
  <2> QED
    BY <2>1, Numbers
<1>2. Filled(dequeue_pos)
  <2>1. \A n \in dequeue_pos .. enqueue_pos - 1 : Filled(n)
    BY DEF IInv
  <2>2. dequeue_pos \in dequeue_pos .. enqueue_pos - 1
    BY <1>1, Numbers
  <2> QED
    BY <2>1, <2>2
<1>3. ~ \E p \in Producers : Writing(p) /\ pos[p] = dequeue_pos
  <2>1. \A p \in Producers : Writing(p) => sequence[Cell(pos[p])] = pos[p]
    BY DEF IInv, OwnsPush
  <2> QED
    BY <2>1, Numbers
<1> QED
  BY <1>1, <1>2, <1>3, Numbers DEF Filled

-----------------------------------------------------------------------------
(* Types                                                                   *)

\* Every step keeps the types; the one that needs the invariant is PopRead,
\* which must not record a tick that was never pushed.
LEMMA TypesPreserved ==
  ASSUME IInv, Next
  PROVE  TypeOK' /\ Labels'
<1>1. \A t \in Threads : pos[t] \in Nat /\ pos[t] + 1 \in Nat /\ pos[t] + Cap \in Nat
  BY Numbers
<1>2. CASE \E p \in Producers : Push(p)
  <2> PICK p \in Producers : Push(p)
    BY <1>2
  <2>1. p \in Threads /\ sent[p] + 1 \in Nat /\ [by |-> p, n |-> sent[p]] \in Tick
    BY DEF Threads, IInv, TypeOK, Tick
  <2>2. CASE PushLoad(p)
    BY <2>1, <2>2, ThreadsAssumption DEF PushLoad, Goto, IInv, TypeOK, Labels, PushLabels, Threads
  <2>6. CASE PushFree(p)
    BY <2>1, <2>6, ThreadsAssumption DEF PushFree, Goto, IInv, TypeOK, Labels, PushLabels, Threads
  <2>7. CASE PushFull(p) \/ PushStale(p) \/ PushLost(p)
    BY <2>1, <2>7, ThreadsAssumption DEF PushFull, PushStale, PushLost, Goto, IInv, TypeOK, Labels,
       PushLabels, Threads
  <2>3. CASE PushClaim(p)
    <3>1. enqueue_pos' \in Nat /\ log' \in Seq(Tick) /\ Len(log') = enqueue_pos'
      BY <1>1, <2>1, <2>3 DEF PushClaim, IInv, TypeOK
    <3> QED
      BY <2>1, <2>3, <3>1, ThreadsAssumption DEF PushClaim, Goto, IInv, TypeOK, Labels, PushLabels, Threads
  <2>4. CASE PushWrite(p)
    BY <2>1, <2>4, ThreadsAssumption DEF PushWrite, Goto, IInv, TypeOK, Labels, PushLabels, Threads
  <2>5. CASE PushPublish(p)
    BY <1>1, <2>1, <2>5, ThreadsAssumption DEF PushPublish, Goto, IInv, TypeOK, Labels, PushLabels, Threads
  <2> QED
    BY <2>2, <2>3, <2>4, <2>5, <2>6, <2>7 DEF Push
<1>3. CASE \E c \in Consumers : Consume(c)
  <2> PICK c \in Consumers : Consume(c)
    BY <1>3
  <2>1. c \in Threads
    BY DEF Threads
  <2>2. CASE Register(c)
    BY <2>1, <2>2, ThreadsAssumption DEF Register, Goto, IInv, TypeOK, Labels, PopLabels, Threads
  <2>9. CASE Check(c)
    BY <2>1, <2>9, ThreadsAssumption DEF Check, Goto, IInv, TypeOK, Labels, PopLabels, Threads
  <2>10. CASE Count(c)
    BY <2>1, <2>10, ThreadsAssumption DEF Count, Goto, IInv, TypeOK, Labels, PopLabels, Threads
  <2>3. CASE PopLoad(c)
    BY <2>1, <2>3, ThreadsAssumption DEF PopLoad, Goto, IInv, TypeOK, Labels, PopLabels, Threads
  <2>7. CASE PopReady(c) \/ PopEmpty(c)
    BY <2>1, <2>7, ThreadsAssumption DEF PopReady, PopEmpty, Goto, IInv, TypeOK, Labels, PopLabels,
       Threads
  <2>8. CASE PopStale(c) \/ PopLost(c)
    BY <2>1, <2>8, ThreadsAssumption DEF PopStale, PopLost, Goto, IInv, TypeOK, Labels, PopLabels,
       Threads
  <2>4. CASE PopClaim(c)
    BY <1>1, <2>1, <2>4, ThreadsAssumption DEF PopClaim, Goto, IInv, TypeOK, Labels, PopLabels, Threads
  <2>5. CASE PopRead(c)
    <3>1. data[Cell(pos[c])] \in Tick
      <4>1. /\ data[Cell(pos[c])] = log[pos[c] + 1]
            /\ pos[c] < dequeue_pos
        BY <2>5 DEF IInv, OwnsPop, Reading, PopRead
      <4>2. log \in Seq(Tick) /\ Len(log) = enqueue_pos
        BY DEF IInv, TypeOK
      <4>3. pos[c] + 1 \in 1 .. Len(log)
        <5>1. pos[c] \in Nat /\ enqueue_pos \in Nat /\ pos[c] < enqueue_pos
          BY <2>1, <4>1, Numbers
        <5> QED
          BY <4>2, <5>1
      <4> QED
        BY <4>1, <4>2, <4>3
    <3>2. item' = [item EXCEPT ![c] = data[Cell(pos[c])]] /\ item'[c] = data[Cell(pos[c])]
      BY <2>5 DEF PopRead, IInv, TypeOK
    <3>3. item' \in [Consumers -> Tick \cup {NoTick}]
      BY <3>1, <3>2 DEF IInv, TypeOK
    <3>4. got' \subseteq [ticket : Nat, tick : Tick]
      BY <1>1, <2>1, <2>5, <3>1, <3>2 DEF PopRead, IInv, TypeOK
    <3> QED
      BY <2>1, <2>5, <3>3, <3>4, ThreadsAssumption DEF PopRead, Goto, IInv, TypeOK, Labels, PopLabels, Threads
  <2>6. CASE PopRelease(c)
    BY <1>1, <2>1, <2>6, ThreadsAssumption DEF PopRelease, Goto, IInv, TypeOK, Labels, PopLabels, Threads
  <2> QED
    BY <2>2, <2>3, <2>4, <2>5, <2>6, <2>7, <2>8, <2>9,
       <2>10 DEF Consume
<1>4. CASE Joined
  BY <1>4 DEF Joined, vars, IInv, TypeOK, Labels
<1> QED
  BY <1>2, <1>3, <1>4 DEF Next

-----------------------------------------------------------------------------
(* The steps that own no ticket before or after                            *)

coreVars == <<enqueue_pos, dequeue_pos, sequence, data, sent, log, got>>

\* Such a step only has to show what its own thread has seen.
LEMMA StepOutside ==
  ASSUME IInv, TypeOK', Labels', UNCHANGED coreVars, NEW t \in Threads,
         \A u \in Threads \ {t} : pc'[u] = pc[u] /\ pos'[u] = pos[u],
         ~InCell(t), ~InCell(t)', OnItsWay(t)'
  PROVE  IInv'
<1>1. /\ \A u \in Threads : /\ Writing(u)' <=> Writing(u)
                            /\ Reading(u)' <=> Reading(u)
                            /\ InCell(u) => pc'[u] = pc[u] /\ pos'[u] = pos[u]
  BY DEF InCell, Writing, Reading
<1>2. Window'
  BY DEF coreVars, IInv, Window
<1>3. \A p \in Producers : Writing(p)' => OwnsPush(p)'
  BY <1>1 DEF coreVars, IInv, OwnsPush, Threads, InCell
<1>4. \A c \in Consumers : Reading(c)' => OwnsPop(c)'
  BY <1>1 DEF coreVars, IInv, OwnsPop, Threads, InCell
<1>5. OneReaderEach'
  BY <1>1 DEF IInv, OneReaderEach, Threads, InCell
<1>6. \A n \in (dequeue_pos .. enqueue_pos - 1)' : Filled(n)'
  BY <1>1 DEF coreVars, IInv, Filled, Threads, InCell
<1>7. \A n \in (enqueue_pos .. dequeue_pos + Cap - 1)' : Free(n)'
  BY <1>1 DEF coreVars, IInv, Free, Threads, InCell
<1>8. \A u \in Threads : OnItsWay(u)'
  <2> TAKE u \in Threads
  <2>1. CASE u # t
    BY <2>1 DEF coreVars, IInv, OnItsWay
  <2> QED
    BY <2>1
<1>9. GotMatches'
  BY DEF coreVars, IInv, GotMatches
<1> QED
  BY <1>2, <1>3, <1>4, <1>5, <1>6, <1>7, <1>8, <1>9 DEF IInv

\* Loading a ticket, seeing its cell ready or not, losing the race for it.
LEMMA PushOutside ==
  ASSUME IInv, TypeOK', Labels', NEW p \in Producers,
         \/ PushLoad(p) \/ PushFree(p) \/ PushFull(p) \/ PushStale(p) \/ PushLost(p)
  PROVE  IInv'
<1>1. p \in Threads /\ DOMAIN pos = Threads /\ DOMAIN pc = Threads
  BY DEF IInv, TypeOK, Threads
<1>2. UNCHANGED coreVars
  BY DEF PushLoad, PushFree, PushFull, PushStale, PushLost, coreVars
<1>3. \A u \in Threads \ {p} : pc'[u] = pc[u] /\ pos'[u] = pos[u]
  BY <1>1 DEF PushLoad, PushFree, PushFull, PushStale, PushLost, Goto
<1>4. ~InCell(p) /\ ~InCell(p)'
  BY <1>1 DEF PushLoad, PushFree, PushFull, PushStale, PushLost, Goto, InCell,
              Writing, Reading
<1>5. OnItsWay(p)'
  <2>1. CASE PushLoad(p)
    BY <1>1, <2>1, Numbers DEF PushLoad, Goto, OnItsWay
  <2>2. CASE PushFree(p)
    <3>1. pos'[p] = pos[p] /\ pc'[p] = "cas" /\ pos[p] <= enqueue_pos
      BY <1>1, <2>2 DEF PushFree, Goto, IInv, OnItsWay
    <3>2. sequence[Cell(pos[p])] >= pos[p]
      BY <1>1, <2>2, Numbers DEF PushFree, PushDiff
    <3> QED
      BY <1>2, <3>1, <3>2 DEF coreVars, OnItsWay
  <2>3. CASE PushFull(p) \/ PushStale(p) \/ PushLost(p)
    BY <1>1, <2>3 DEF PushFull, PushStale, PushLost, Goto, OnItsWay
  <2> QED
    BY <2>1, <2>2, <2>3
<1> QED
  BY <1>1, <1>2, <1>3, <1>4, <1>5, StepOutside

LEMMA PopOutside ==
  ASSUME IInv, TypeOK', Labels', NEW c \in Consumers,
         \/ Register(c) \/ Check(c) \/ Count(c)
         \/ PopLoad(c) \/ PopReady(c) \/ PopEmpty(c) \/ PopStale(c) \/ PopLost(c)
  PROVE  IInv'
<1>1. c \in Threads /\ DOMAIN pos = Threads /\ DOMAIN pc = Threads
  BY DEF IInv, TypeOK, Threads
<1>2. UNCHANGED coreVars
  BY DEF Register, Check, Count, PopLoad, PopReady, PopEmpty, PopStale, PopLost, coreVars
<1>3. \A u \in Threads \ {c} : pc'[u] = pc[u] /\ pos'[u] = pos[u]
  <2>1. CASE Register(c) \/ Check(c) \/ Count(c)
    BY <1>1, <2>1 DEF Register, Check, Count, Goto
  <2>2. CASE PopLoad(c) \/ PopReady(c) \/ PopEmpty(c) \/ PopStale(c) \/ PopLost(c)
    BY <1>1, <2>2 DEF PopLoad, PopReady, PopEmpty, PopStale, PopLost, Goto
  <2> QED
    BY <2>1, <2>2
<1>4. ~InCell(c) /\ ~InCell(c)'
  <2>1. CASE Register(c) \/ Check(c) \/ Count(c)
    BY <1>1, <2>1 DEF Register, Check, Count, Goto, InCell, Writing, Reading
  <2>2. CASE PopLoad(c) \/ PopReady(c) \/ PopEmpty(c) \/ PopStale(c) \/ PopLost(c)
    BY <1>1, <2>2 DEF PopLoad, PopReady, PopEmpty, PopStale, PopLost, Goto, InCell,
                      Writing, Reading
  <2> QED
    BY <2>1, <2>2
<1>5. OnItsWay(c)'
  <2>1. CASE Register(c) \/ Check(c) \/ Count(c)
    BY <1>1, <2>1 DEF Register, Check, Count, Goto, OnItsWay
  <2>2. CASE PopLoad(c)
    BY <1>1, <2>2, Numbers DEF PopLoad, Goto, OnItsWay
  <2>3. CASE PopReady(c)
    <3>1. pos'[c] = pos[c] /\ pc'[c] = "take" /\ pos[c] <= dequeue_pos
      BY <1>1, <2>3 DEF PopReady, Goto, IInv, OnItsWay
    <3>2. sequence[Cell(pos[c])] >= pos[c] + 1
      BY <1>1, <2>3, Numbers DEF PopReady, PopDiff
    <3> QED
      BY <1>2, <3>1, <3>2 DEF coreVars, OnItsWay
  <2>4. CASE PopEmpty(c) \/ PopStale(c) \/ PopLost(c)
    BY <1>1, <2>4 DEF PopEmpty, PopStale, PopLost, Goto, OnItsWay
  <2> QED
    BY <2>1, <2>2, <2>3, <2>4
<1> QED
  BY <1>1, <1>2, <1>3, <1>4, <1>5, StepOutside

-----------------------------------------------------------------------------
(* The steps of the owners                                                 *)

\* Cells of two tickets, one that a producer can own and one that a consumer can.
LEMMA PushAndPopCellsDiffer ==
  ASSUME IInv, NEW n \in Nat, NEW m \in Nat,
         dequeue_pos <= n, n < enqueue_pos, m < dequeue_pos, enqueue_pos <= m + Cap
  PROVE  Cell(n) # Cell(m)
<1>1. n # m /\ n < m + Cap /\ m < n + Cap
  BY Numbers
<1> QED
  BY <1>1, CellsDistinct

LEMMA PushCellsDiffer ==
  ASSUME IInv, NEW n \in Nat, NEW m \in Nat, n # m,
         dequeue_pos <= n, n < enqueue_pos, dequeue_pos <= m, m < enqueue_pos
  PROVE  Cell(n) # Cell(m)
<1>1. n < m + Cap /\ m < n + Cap
  BY Numbers
<1> QED
  BY <1>1, CellsDistinct

\* Two producers never own the same ticket: the log says whose it is.
LEMMA OneWriterEach ==
  ASSUME IInv, NEW p \in Producers, NEW q \in Producers,
         Writing(p), Writing(q), pos[p] = pos[q]
  PROVE  p = q
<1>1. /\ log[pos[p] + 1] = [by |-> p, n |-> sent[p]]
      /\ log[pos[q] + 1] = [by |-> q, n |-> sent[q]]
  BY DEF IInv, OwnsPush
<1>2. [by |-> p, n |-> sent[p]].by = [by |-> q, n |-> sent[q]].by
  BY <1>1
<1> QED
  BY <1>2

LEMMA PushClaimPreserves ==
  ASSUME IInv, TypeOK', Labels', NEW p \in Producers, PushClaim(p)
  PROVE  IInv'
<1>1. /\ p \in Threads /\ DOMAIN pc = Threads
      /\ pos' = pos /\ sequence' = sequence /\ data' = data /\ sent' = sent /\ got' = got
      /\ dequeue_pos' = dequeue_pos /\ enqueue_pos' = enqueue_pos + 1
      /\ pos[p] = enqueue_pos /\ pc[p] = "cas"
  BY DEF PushClaim, IInv, TypeOK, Threads
<1>2. pc'[p] = "write" /\ \A u \in Threads \ {p} : pc'[u] = pc[u]
  BY <1>1 DEF PushClaim, Goto
<1>3. /\ enqueue_pos < dequeue_pos + Cap
      /\ sequence[Cell(enqueue_pos)] = enqueue_pos
  <2>1. sequence[Cell(enqueue_pos)] >= enqueue_pos
    BY <1>1 DEF IInv, OnItsWay
  <2> QED
    BY <2>1, NextPushIsFree
<1>4. /\ \A i \in 1 .. enqueue_pos : log'[i] = log[i]
      /\ log'[enqueue_pos + 1] = [by |-> p, n |-> sent[p]]
  <2>1. log \in Seq(Tick) /\ Len(log) = enqueue_pos /\ [by |-> p, n |-> sent[p]] \in Tick
    BY DEF IInv, TypeOK, Tick
  <2>2. log' = Append(log, [by |-> p, n |-> sent[p]])
    BY DEF PushClaim
  <2> QED
    BY <2>1, <2>2
<1>5. Window'
  BY <1>1, <1>3, Numbers DEF Window
<1>6. \A q \in Producers : Writing(q)' => OwnsPush(q)'
  <2> SUFFICES ASSUME NEW q \in Producers, Writing(q)' PROVE OwnsPush(q)'
    OBVIOUS
  <2>1. CASE q = p
    <3>1. pc'[p] # "publish" /\ dequeue_pos <= enqueue_pos
      BY <1>2, Numbers
    <3>2. enqueue_pos < enqueue_pos + 1
      BY Numbers
    <3> QED
      BY <1>1, <1>3, <1>4, <2>1, <3>1, <3>2 DEF OwnsPush
  <2>2. CASE q # p
    <3>1. OwnsPush(q) /\ pc'[q] = pc[q]
      BY <1>2, <2>2 DEF Writing, Threads, IInv
    <3>2. pos[q] + 1 \in 1 .. enqueue_pos /\ pos[q] < enqueue_pos + 1
      <4>1. pos[q] \in Nat
        BY Numbers DEF Threads
      <4> QED
        BY <3>1, <4>1, Numbers DEF OwnsPush
    <3>3. log'[pos[q] + 1] = log[pos[q] + 1]
      BY <1>4, <3>2
    <3> QED
      BY <1>1, <3>1, <3>2, <3>3 DEF OwnsPush
  <2> QED
    BY <2>1, <2>2
<1>7. \A c \in Consumers : Reading(c)' => OwnsPop(c)'
  <2> SUFFICES ASSUME NEW c \in Consumers, Reading(c)' PROVE OwnsPop(c)'
    OBVIOUS
  <2>1. c # p /\ c \in Threads
    BY ThreadsAssumption DEF Threads
  <2>2. OwnsPop(c) /\ pc'[c] = pc[c]
    BY <1>2, <2>1 DEF Reading, IInv
  <2>3. pos[c] \in Nat /\ pos[c] < dequeue_pos
    BY <2>1, <2>2, Numbers DEF OwnsPop
  <2>4. pos[c] + Cap # enqueue_pos
    <3> SUFFICES ASSUME pos[c] + Cap = enqueue_pos PROVE FALSE
      OBVIOUS
    <3>1. Cell(enqueue_pos) = Cell(pos[c])
      BY <2>3, CellPeriod
    <3>2. enqueue_pos = pos[c] + 1
      BY <1>3, <2>2, <3>1 DEF OwnsPop
    <3> QED
      BY <2>3, <3>2, Numbers
  <2>5. enqueue_pos + 1 <= pos[c] + Cap
    BY <2>2, <2>3, <2>4, Numbers DEF OwnsPop
  <2>6. log'[pos[c] + 1] = log[pos[c] + 1]
    BY <1>4, <2>3, Numbers
  <2> QED
    BY <1>1, <2>2, <2>5, <2>6 DEF OwnsPop
<1>8. OneReaderEach'
  BY <1>1, <1>2, ThreadsAssumption DEF IInv, OneReaderEach, Reading, Threads
<1>9. \A n \in dequeue_pos .. enqueue_pos : Filled(n)'
  <2> TAKE n \in dequeue_pos .. enqueue_pos
  <2>1. CASE n = enqueue_pos
    BY <1>1, <1>2, <2>1 DEF Filled, Writing
  <2>2. CASE n # enqueue_pos
    <3>0. n \in Nat /\ dequeue_pos <= n /\ n < enqueue_pos
      BY <2>2, Numbers
    <3>1. n \in dequeue_pos .. enqueue_pos - 1 /\ n + 1 \in 1 .. enqueue_pos
      BY <3>0, Numbers
    <3>2. Filled(n)
      <4>1. \A k \in dequeue_pos .. enqueue_pos - 1 : Filled(k)
        BY DEF IInv
      <4> QED
        BY <3>1, <4>1
    <3>3. CASE \E q \in Producers : Writing(q) /\ pos[q] = n
      BY <1>1, <1>2, <3>3 DEF Filled, Writing, Threads
    <3>4. CASE sequence[Cell(n)] = n + 1 /\ data[Cell(n)] = log[n + 1]
      BY <1>1, <1>4, <3>1, <3>4 DEF Filled
    <3> QED
      BY <3>2, <3>3, <3>4 DEF Filled
  <2> QED
    BY <2>1, <2>2
<1>10. \A n \in enqueue_pos + 1 .. dequeue_pos + Cap - 1 : Free(n)'
  <2> TAKE n \in enqueue_pos + 1 .. dequeue_pos + Cap - 1
  <2>1. n \in enqueue_pos .. dequeue_pos + Cap - 1
    BY Numbers
  <2>2. Free(n)
    BY <2>1 DEF IInv
  <2> QED
    BY <1>1, <1>2, <2>2, ThreadsAssumption DEF Free, Reading, Threads
<1>11. \A t \in Threads : OnItsWay(t)'
  <2> TAKE t \in Threads
  <2>1. CASE t = p
    BY <1>2, <2>1 DEF OnItsWay
  <2>2. CASE t # p
    <3>1. OnItsWay(t) /\ pc'[t] = pc[t] /\ pos[t] \in Nat
      BY <1>2, <2>2, Numbers DEF IInv
    <3>2. pos[t] <= enqueue_pos => pos[t] <= enqueue_pos + 1
      BY <3>1, Numbers
    <3> QED
      BY <1>1, <3>1, <3>2 DEF OnItsWay
  <2> QED
    BY <2>1, <2>2
<1>12. GotMatches'
  <2> SUFFICES ASSUME NEW g \in got
               PROVE  g.ticket < dequeue_pos /\ g.tick = log'[g.ticket + 1]
    BY <1>1 DEF GotMatches
  <2>1. g.ticket \in Nat /\ g.ticket < dequeue_pos /\ g.tick = log[g.ticket + 1]
    BY DEF IInv, TypeOK, GotMatches
  <2>2. g.ticket + 1 \in 1 .. enqueue_pos
    BY <2>1, Numbers
  <2> QED
    BY <1>4, <2>1, <2>2
<1>13. enqueue_pos' - 1 = enqueue_pos
  BY <1>1, Numbers
<1> QED
  BY <1>1, <1>5, <1>6, <1>7, <1>8, <1>9, <1>10, <1>11, <1>12, <1>13 DEF IInv


\* A producer's writes touch its own cell only, which nobody else looks at.
LEMMA PushWritePreserves ==
  ASSUME IInv, TypeOK', Labels', NEW p \in Producers, PushWrite(p)
  PROVE  IInv'
<1>1. /\ p \in Threads /\ DOMAIN pc = Threads
      /\ pos' = pos /\ sequence' = sequence /\ log' = log /\ sent' = sent /\ got' = got
      /\ dequeue_pos' = dequeue_pos /\ enqueue_pos' = enqueue_pos
      /\ pc[p] = "write"
  BY DEF PushWrite, IInv, TypeOK, Threads
<1>2. /\ pc'[p] = "publish" /\ \A u \in Threads \ {p} : pc'[u] = pc[u]
      /\ \A u \in Threads : (Writing(u)' <=> Writing(u)) /\ (Reading(u)' <=> Reading(u))
  BY <1>1 DEF PushWrite, Goto, Writing, Reading
<1>3. /\ OwnsPush(p) /\ Writing(p) /\ pos[p] \in Nat
      /\ log[pos[p] + 1] = [by |-> p, n |-> sent[p]]
  BY <1>1, Numbers DEF IInv, Writing, OwnsPush
<1>4. /\ data'[Cell(pos[p])] = log[pos[p] + 1]
      /\ \A n \in Int : Cell(n) # Cell(pos[p]) => data'[Cell(n)] = data[Cell(n)]
  <2>1. DOMAIN data = 0 .. Cap - 1 /\ data' = [data EXCEPT ![Cell(pos[p])] = log[pos[p] + 1]]
    BY <1>3 DEF PushWrite, IInv, TypeOK
  <2>2. \A n \in Int : Cell(n) \in DOMAIN data
    BY <2>1, Numbers
  <2> QED
    BY <1>3, <2>1, <2>2
<1>5. Window'
  BY <1>1 DEF IInv, Window
<1>6. \A q \in Producers : Writing(q)' => OwnsPush(q)'
  <2> SUFFICES ASSUME NEW q \in Producers, Writing(q)' PROVE OwnsPush(q)'
    OBVIOUS
  <2>1. Writing(q) /\ OwnsPush(q) /\ pos[q] \in Nat
    BY <1>2, Numbers DEF IInv, Threads
  <2>2. CASE q = p
    BY <1>1, <1>4, <2>1, <2>2 DEF OwnsPush
  <2>3. CASE q # p
    <3>1. pos[q] # pos[p]
      BY <1>3, <2>1, <2>3, OneWriterEach
    <3>2. Cell(pos[q]) # Cell(pos[p])
      BY <1>3, <2>1, <3>1, PushCellsDiffer DEF OwnsPush
    <3>3. data'[Cell(pos[q])] = data[Cell(pos[q])]
      BY <1>4, <2>1, <3>2
    <3>4. pc'[q] = pc[q]
      BY <1>2, <2>3 DEF Threads
    <3> QED
      BY <1>1, <2>1, <3>3, <3>4 DEF OwnsPush
  <2> QED
    BY <2>2, <2>3
<1>7. \A c \in Consumers : Reading(c)' => OwnsPop(c)'
  <2> SUFFICES ASSUME NEW c \in Consumers, Reading(c)' PROVE OwnsPop(c)'
    OBVIOUS
  <2>1. OwnsPop(c) /\ pos[c] \in Nat /\ c \in Threads \ {p}
    BY <1>2, Numbers, ThreadsAssumption DEF IInv, Threads
  <2>2. Cell(pos[c]) # Cell(pos[p])
    <3>1. /\ dequeue_pos <= pos[p] /\ pos[p] < enqueue_pos
          /\ pos[c] < dequeue_pos /\ enqueue_pos <= pos[c] + Cap
      BY <1>3, <2>1 DEF OwnsPush, OwnsPop
    <3> QED
      BY <1>3, <2>1, <3>1, PushAndPopCellsDiffer
  <2>3. data'[Cell(pos[c])] = data[Cell(pos[c])]
    BY <1>4, <2>1, <2>2
  <2>4. pc'[c] = pc[c]
    BY <1>2, <2>1
  <2> QED
    BY <1>1, <2>1, <2>3, <2>4 DEF OwnsPop
<1>8. OneReaderEach'
  <2>1. \A c \in Consumers : Reading(c)' <=> Reading(c)
    BY <1>2 DEF Threads
  <2> QED
    BY <1>1, <2>1 DEF IInv, OneReaderEach
<1>9. \A n \in dequeue_pos .. enqueue_pos - 1 : Filled(n)'
  <2> TAKE n \in dequeue_pos .. enqueue_pos - 1
  <2>1. Filled(n)
    BY DEF IInv
  <2>2. n \in Nat /\ dequeue_pos <= n /\ n < enqueue_pos
    BY Numbers
  <2>3. CASE \E q \in Producers : Writing(q) /\ pos[q] = n
    BY <1>1, <1>2, <2>3 DEF Filled, Threads
  <2>4. CASE n # pos[p] /\ sequence[Cell(n)] = n + 1 /\ data[Cell(n)] = log[n + 1]
    <3>1. Cell(n) # Cell(pos[p])
      BY <1>3, <2>2, <2>4, PushCellsDiffer DEF OwnsPush
    <3>2. data'[Cell(n)] = data[Cell(n)]
      BY <1>4, <2>2, <3>1
    <3> QED
      BY <1>1, <2>4, <3>2 DEF Filled
  <2>5. CASE n = pos[p]
    BY <1>3, <2>3, <2>5
  <2> QED
    BY <2>1, <2>3, <2>4, <2>5 DEF Filled
<1>10. \A n \in enqueue_pos .. dequeue_pos + Cap - 1 : Free(n)'
  <2>1. \A n \in enqueue_pos .. dequeue_pos + Cap - 1 : Free(n)
    BY DEF IInv
  <2>2. \A c \in Consumers : Reading(c)' <=> Reading(c)
    BY <1>2 DEF Threads
  <2> QED
    BY <1>1, <2>1, <2>2 DEF Free
<1>11. \A t \in Threads : OnItsWay(t)'
  <2> TAKE t \in Threads
  <2>1. CASE t = p
    BY <1>2, <2>1 DEF OnItsWay
  <2>2. CASE t # p
    BY <1>1, <1>2, <2>2 DEF IInv, OnItsWay
  <2> QED
    BY <2>1, <2>2
<1>12. GotMatches'
  BY <1>1 DEF IInv, GotMatches
<1> QED
  BY <1>1, <1>5, <1>6, <1>7, <1>8, <1>9, <1>10, <1>11, <1>12 DEF IInv

\* Publishing: the cell's sequence goes from its ticket to the next.
LEMMA PushPublishPreserves ==
  ASSUME IInv, TypeOK', Labels', NEW p \in Producers, PushPublish(p)
  PROVE  IInv'
<1>1. /\ p \in Threads /\ DOMAIN pc = Threads
      /\ pos' = pos /\ data' = data /\ log' = log /\ got' = got
      /\ dequeue_pos' = dequeue_pos /\ enqueue_pos' = enqueue_pos
      /\ pc[p] = "publish"
  BY DEF PushPublish, IInv, TypeOK, Threads
<1>2. /\ pc'[p] = "load" /\ \A u \in Threads \ {p} : pc'[u] = pc[u]
      /\ \A u \in Threads \ {p} : (Writing(u)' <=> Writing(u)) /\ (Reading(u)' <=> Reading(u))
  BY <1>1 DEF PushPublish, Goto, Writing, Reading
<1>3. /\ OwnsPush(p) /\ Writing(p) /\ pos[p] \in Nat
      /\ sequence[Cell(pos[p])] = pos[p] /\ data[Cell(pos[p])] = log[pos[p] + 1]
  BY <1>1, Numbers DEF IInv, Writing, OwnsPush
<1>4. /\ sequence'[Cell(pos[p])] = pos[p] + 1
      /\ \A n \in Int : Cell(n) # Cell(pos[p]) => sequence'[Cell(n)] = sequence[Cell(n)]
  <2>1. /\ DOMAIN sequence = 0 .. Cap - 1
        /\ sequence' = [sequence EXCEPT ![Cell(pos[p])] = pos[p] + 1]
    BY DEF PushPublish, IInv, TypeOK
  <2>2. \A n \in Int : Cell(n) \in DOMAIN sequence
    BY <2>1, Numbers
  <2> QED
    BY <1>3, <2>1, <2>2
<1>5. Window'
  BY <1>1 DEF IInv, Window
<1>6. \A q \in Producers : Writing(q)' => OwnsPush(q)'
  <2> SUFFICES ASSUME NEW q \in Producers, Writing(q)' PROVE OwnsPush(q)'
    OBVIOUS
  <2>0. q # p
    BY <1>2 DEF Writing
  <2>1. Writing(q) /\ OwnsPush(q) /\ pos[q] \in Nat /\ pc'[q] = pc[q]
    BY <1>2, <2>0, Numbers DEF IInv, Threads
  <2>2. pos[q] # pos[p]
    BY <1>3, <2>0, <2>1, OneWriterEach
  <2>3. Cell(pos[q]) # Cell(pos[p])
    BY <1>3, <2>1, <2>2, PushCellsDiffer DEF OwnsPush
  <2>4. sequence'[Cell(pos[q])] = sequence[Cell(pos[q])]
    BY <1>4, <2>1, <2>3
  <2>5. sent'[q] = sent[q]
    BY <2>0 DEF PushPublish, IInv, TypeOK
  <2> QED
    BY <1>1, <2>1, <2>4, <2>5 DEF OwnsPush
<1>7. \A c \in Consumers : Reading(c)' => OwnsPop(c)'
  <2> SUFFICES ASSUME NEW c \in Consumers, Reading(c)' PROVE OwnsPop(c)'
    OBVIOUS
  <2>1. OwnsPop(c) /\ pos[c] \in Nat /\ c \in Threads \ {p} /\ pc'[c] = pc[c]
    BY <1>2, Numbers, ThreadsAssumption DEF IInv, Threads
  <2>2. Cell(pos[c]) # Cell(pos[p])
    <3>1. /\ dequeue_pos <= pos[p] /\ pos[p] < enqueue_pos
          /\ pos[c] < dequeue_pos /\ enqueue_pos <= pos[c] + Cap
      BY <1>3, <2>1 DEF OwnsPush, OwnsPop
    <3> QED
      BY <1>3, <2>1, <3>1, PushAndPopCellsDiffer
  <2>3. sequence'[Cell(pos[c])] = sequence[Cell(pos[c])]
    BY <1>4, <2>1, <2>2
  <2> QED
    BY <1>1, <2>1, <2>3 DEF OwnsPop
<1>8. OneReaderEach'
  <2>1. \A c \in Consumers : Reading(c)' <=> Reading(c)
    BY <1>2, ThreadsAssumption DEF Threads
  <2> QED
    BY <1>1, <2>1 DEF IInv, OneReaderEach
<1>9. \A n \in dequeue_pos .. enqueue_pos - 1 : Filled(n)'
  <2> TAKE n \in dequeue_pos .. enqueue_pos - 1
  <2>1. Filled(n)
    BY DEF IInv
  <2>2. n \in Nat /\ dequeue_pos <= n /\ n < enqueue_pos
    BY Numbers
  <2>3. CASE n = pos[p]
    BY <1>1, <1>3, <1>4, <2>3 DEF Filled
  <2>4. CASE n # pos[p]
    <3>1. Cell(n) # Cell(pos[p])
      BY <1>3, <2>2, <2>4, PushCellsDiffer DEF OwnsPush
    <3>2. sequence'[Cell(n)] = sequence[Cell(n)]
      BY <1>4, <2>2, <3>1
    <3>3. CASE \E q \in Producers : Writing(q) /\ pos[q] = n
      BY <1>1, <1>2, <2>4, <3>3 DEF Filled, Threads
    <3>4. CASE sequence[Cell(n)] = n + 1 /\ data[Cell(n)] = log[n + 1]
      BY <1>1, <3>2, <3>4 DEF Filled
    <3> QED
      BY <2>1, <3>3, <3>4 DEF Filled
  <2> QED
    BY <2>3, <2>4
<1>10. \A n \in enqueue_pos .. dequeue_pos + Cap - 1 : Free(n)'
  <2> TAKE n \in enqueue_pos .. dequeue_pos + Cap - 1
  <2>1. Free(n)
    BY DEF IInv
  <2>2. n \in Nat /\ Cell(n) # Cell(pos[p])
    <3>1. n \in Nat /\ pos[p] < n /\ n < pos[p] + Cap
      BY <1>3, Numbers DEF OwnsPush
    <3> QED
      BY <1>3, <3>1, CellsDiffer
  <2>3. sequence'[Cell(n)] = sequence[Cell(n)]
    BY <1>4, <2>2
  <2>4. \A c \in Consumers : Reading(c)' <=> Reading(c)
    BY <1>2, ThreadsAssumption DEF Threads
  <2> QED
    BY <1>1, <2>1, <2>3, <2>4 DEF Free
<1>11. \A t \in Threads : OnItsWay(t)'
  <2> TAKE t \in Threads
  <2>1. CASE t = p
    BY <1>2, <2>1 DEF OnItsWay
  <2>2. CASE t # p
    <3>1. OnItsWay(t) /\ pc'[t] = pc[t] /\ pos[t] \in Nat
      BY <1>2, <2>2, Numbers DEF IInv
    <3>2. sequence'[Cell(pos[t])] >= sequence[Cell(pos[t])]
      <4>1. CASE Cell(pos[t]) = Cell(pos[p])
        BY <1>3, <1>4, <4>1
      <4>2. CASE Cell(pos[t]) # Cell(pos[p])
        BY <1>4, <3>1, <4>2, Numbers
      <4> QED
        BY <4>1, <4>2
    <3>3. sequence[Cell(pos[t])] \in Nat /\ sequence'[Cell(pos[t])] \in Nat
      <4>1. pos[t] \in Int
        BY <3>1
      <4>2. Cell(pos[t]) \in 0 .. Cap - 1 /\ sequence[Cell(pos[t])] \in Nat
        BY <4>1, Numbers
      <4>3. sequence' \in [0 .. Cap - 1 -> Nat]
        BY DEF TypeOK
      <4> QED
        BY <4>2, <4>3
    <3> QED
      BY <1>1, <3>1, <3>2, <3>3 DEF OnItsWay
  <2> QED
    BY <2>1, <2>2
<1>12. GotMatches'
  BY <1>1 DEF IInv, GotMatches
<1> QED
  BY <1>1, <1>5, <1>6, <1>7, <1>8, <1>9, <1>10, <1>11, <1>12 DEF IInv


LEMMA PopClaimPreserves ==
  ASSUME IInv, TypeOK', Labels', NEW c \in Consumers, PopClaim(c)
  PROVE  IInv'
<1>1. /\ c \in Threads /\ DOMAIN pc = Threads
      /\ pos' = pos /\ sequence' = sequence /\ data' = data /\ sent' = sent /\ got' = got
      /\ log' = log /\ enqueue_pos' = enqueue_pos /\ dequeue_pos' = dequeue_pos + 1
      /\ pos[c] = dequeue_pos /\ pc[c] = "take"
  BY DEF PopClaim, IInv, TypeOK, Threads
<1>2. /\ pc'[c] = "read" /\ \A u \in Threads \ {c} : pc'[u] = pc[u]
      /\ \A u \in Threads \ {c} : (Writing(u)' <=> Writing(u)) /\ (Reading(u)' <=> Reading(u))
      /\ Reading(c)'
  BY <1>1 DEF PopClaim, Goto, Writing, Reading
<1>3. /\ dequeue_pos < enqueue_pos
      /\ sequence[Cell(dequeue_pos)] = dequeue_pos + 1
      /\ data[Cell(dequeue_pos)] = log[dequeue_pos + 1]
  <2>1. sequence[Cell(dequeue_pos)] >= dequeue_pos + 1
    BY <1>1 DEF IInv, OnItsWay
  <2> QED
    BY <2>1, NextPopIsFilled
<1>5. Window'
  BY <1>1, <1>3, Numbers DEF Window
<1>6. \A q \in Producers : Writing(q)' => OwnsPush(q)'
  <2> SUFFICES ASSUME NEW q \in Producers, Writing(q)' PROVE OwnsPush(q)'
    OBVIOUS
  <2>1. q \in Threads \ {c} /\ Writing(q) /\ OwnsPush(q) /\ pos[q] \in Nat /\ pc'[q] = pc[q]
    BY <1>2, Numbers, ThreadsAssumption DEF IInv, Threads
  <2>2. pos[q] # dequeue_pos
    BY <1>3, <2>1, Numbers DEF OwnsPush
  <2>3. dequeue_pos + 1 <= pos[q]
    BY <2>1, <2>2, Numbers DEF OwnsPush
  <2> QED
    BY <1>1, <2>1, <2>3 DEF OwnsPush
<1>7. \A d \in Consumers : Reading(d)' => OwnsPop(d)'
  <2> SUFFICES ASSUME NEW d \in Consumers, Reading(d)' PROVE OwnsPop(d)'
    OBVIOUS
  <2>1. CASE d = c
    BY <1>1, <1>3, <2>1, Numbers DEF OwnsPop
  <2>2. CASE d # c
    <3>1. OwnsPop(d) /\ pos[d] \in Nat /\ pc'[d] = pc[d]
      BY <1>2, <2>2, Numbers DEF IInv, Threads
    <3>2. pos[d] < dequeue_pos + 1
      BY <3>1, Numbers DEF OwnsPop
    <3> QED
      BY <1>1, <3>1, <3>2 DEF OwnsPop
  <2> QED
    BY <2>1, <2>2
<1>8. OneReaderEach'
  <2>1. \A d \in Consumers : d # c /\ Reading(d)' => Reading(d) /\ pos[d] # dequeue_pos
    <3> TAKE d \in Consumers
    <3> HAVE d # c /\ Reading(d)'
    <3>1. Reading(d) /\ OwnsPop(d) /\ pos[d] \in Nat
      BY <1>2, Numbers DEF IInv, Threads
    <3> QED
      BY <3>1, Numbers DEF OwnsPop
  <2> QED
    BY <1>1, <2>1 DEF IInv, OneReaderEach
<1>9. \A n \in dequeue_pos + 1 .. enqueue_pos - 1 : Filled(n)'
  <2> TAKE n \in dequeue_pos + 1 .. enqueue_pos - 1
  <2>1. n \in dequeue_pos .. enqueue_pos - 1
    BY Numbers
  <2>2. Filled(n)
    BY <2>1 DEF IInv
  <2>3. \A q \in Producers : Writing(q)' <=> Writing(q)
    BY <1>2, ThreadsAssumption DEF Threads
  <2> QED
    BY <1>1, <2>2, <2>3 DEF Filled
<1>10. \A n \in enqueue_pos .. dequeue_pos + 1 + Cap - 1 : Free(n)'
  <2> TAKE n \in enqueue_pos .. dequeue_pos + 1 + Cap - 1
  <2>1. CASE n = dequeue_pos + Cap
    <3>1. pos'[c] = n - Cap
      BY <1>1, <2>1, Numbers
    <3> QED
      BY <1>2, <3>1 DEF Free
  <2>2. CASE n # dequeue_pos + Cap
    <3>1. n \in enqueue_pos .. dequeue_pos + Cap - 1
      BY <2>2, Numbers
    <3>2. Free(n)
      BY <3>1 DEF IInv
    <3>3. \A d \in Consumers : Reading(d) => Reading(d)'
      BY <1>2 DEF Threads
    <3> QED
      BY <1>1, <3>2, <3>3 DEF Free
  <2> QED
    BY <2>1, <2>2
<1>11. \A t \in Threads : OnItsWay(t)'
  <2> TAKE t \in Threads
  <2>1. CASE t = c
    BY <1>2, <2>1 DEF OnItsWay
  <2>2. CASE t # c
    <3>1. OnItsWay(t) /\ pc'[t] = pc[t] /\ pos[t] \in Nat
      BY <1>2, <2>2, Numbers DEF IInv
    <3>2. pos[t] <= dequeue_pos => pos[t] <= dequeue_pos + 1
      BY <3>1, Numbers
    <3> QED
      BY <1>1, <3>1, <3>2 DEF OnItsWay
  <2> QED
    BY <2>1, <2>2
<1>12. GotMatches'
  <2> SUFFICES ASSUME NEW g \in got
               PROVE  g.ticket < dequeue_pos + 1 /\ g.tick = log[g.ticket + 1]
    BY <1>1 DEF GotMatches
  <2>1. g.ticket \in Nat /\ g.ticket < dequeue_pos /\ g.tick = log[g.ticket + 1]
    BY DEF IInv, TypeOK, GotMatches
  <2> QED
    BY <2>1, Numbers
<1> QED
  BY <1>1, <1>5, <1>6, <1>7, <1>8, <1>9, <1>10, <1>11, <1>12 DEF IInv

LEMMA PopReadPreserves ==
  ASSUME IInv, TypeOK', Labels', NEW c \in Consumers, PopRead(c)
  PROVE  IInv'
<1>1. /\ c \in Threads /\ DOMAIN pc = Threads
      /\ pos' = pos /\ sequence' = sequence /\ data' = data /\ sent' = sent /\ log' = log
      /\ dequeue_pos' = dequeue_pos /\ enqueue_pos' = enqueue_pos
      /\ pc[c] = "read"
  BY DEF PopRead, IInv, TypeOK, Threads
<1>2. /\ pc'[c] = "release" /\ \A u \in Threads \ {c} : pc'[u] = pc[u]
      /\ \A u \in Threads : (Writing(u)' <=> Writing(u)) /\ (Reading(u)' <=> Reading(u))
  BY <1>1 DEF PopRead, Goto, Writing, Reading
<1>3. OwnsPop(c) /\ data[Cell(pos[c])] = log[pos[c] + 1]
  BY <1>1 DEF IInv, Reading, OwnsPop
<1>4. got' = got \cup {[ticket |-> pos[c], tick |-> log[pos[c] + 1]]}
  <2>1. item'[c] = data[Cell(pos[c])]
    BY DEF PopRead, IInv, TypeOK
  <2> QED
    BY <1>3, <2>1 DEF PopRead
<1>5. Window'
  BY <1>1 DEF IInv, Window
<1>6. \A q \in Producers : Writing(q)' => OwnsPush(q)'
  <2>1. \A q \in Producers : q \in Threads \ {c}
    BY ThreadsAssumption DEF Threads
  <2> QED
    BY <1>1, <1>2, <2>1 DEF IInv, OwnsPush
<1>7. \A d \in Consumers : Reading(d)' => OwnsPop(d)'
  <2> SUFFICES ASSUME NEW d \in Consumers, Reading(d)' PROVE OwnsPop(d)'
    OBVIOUS
  <2>1. OwnsPop(d) /\ (pc'[d] = "read" => pc[d] = "read")
    BY <1>1, <1>2 DEF IInv, Threads
  <2> QED
    BY <1>1, <2>1 DEF OwnsPop
<1>8. OneReaderEach'
  <2>1. \A d \in Consumers : Reading(d)' <=> Reading(d)
    BY <1>2 DEF Threads
  <2> QED
    BY <1>1, <2>1 DEF IInv, OneReaderEach
<1>9. \A n \in dequeue_pos .. enqueue_pos - 1 : Filled(n)'
  <2>1. \A n \in dequeue_pos .. enqueue_pos - 1 : Filled(n)
    BY DEF IInv
  <2>2. \A q \in Producers : Writing(q)' <=> Writing(q)
    BY <1>2 DEF Threads
  <2> QED
    BY <1>1, <2>1, <2>2 DEF Filled
<1>10. \A n \in enqueue_pos .. dequeue_pos + Cap - 1 : Free(n)'
  <2>1. \A n \in enqueue_pos .. dequeue_pos + Cap - 1 : Free(n)
    BY DEF IInv
  <2>2. \A d \in Consumers : Reading(d)' <=> Reading(d)
    BY <1>2 DEF Threads
  <2> QED
    BY <1>1, <2>1, <2>2 DEF Free
<1>11. \A t \in Threads : OnItsWay(t)'
  <2> TAKE t \in Threads
  <2>1. CASE t = c
    BY <1>2, <2>1 DEF OnItsWay
  <2>2. CASE t # c
    BY <1>1, <1>2, <2>2 DEF IInv, OnItsWay
  <2> QED
    BY <2>1, <2>2
<1>12. GotMatches'
  <2>1. pos[c] < dequeue_pos
    BY <1>3 DEF OwnsPop
  <2> QED
    BY <1>1, <1>4, <2>1 DEF IInv, GotMatches
<1> QED
  BY <1>1, <1>5, <1>6, <1>7, <1>8, <1>9, <1>10, <1>11, <1>12 DEF IInv

\* Releasing: the cell's sequence goes to the ticket of the next lap.
LEMMA PopReleasePreserves ==
  ASSUME IInv, TypeOK', Labels', NEW c \in Consumers, PopRelease(c)
  PROVE  IInv'
<1>1. /\ c \in Threads /\ DOMAIN pc = Threads
      /\ pos' = pos /\ data' = data /\ log' = log /\ got' = got /\ sent' = sent
      /\ dequeue_pos' = dequeue_pos /\ enqueue_pos' = enqueue_pos
      /\ pc[c] = "release"
  BY DEF PopRelease, IInv, TypeOK, Threads
<1>2. /\ pc'[c] = "count" /\ \A u \in Threads \ {c} : pc'[u] = pc[u]
      /\ \A u \in Threads \ {c} : (Writing(u)' <=> Writing(u)) /\ (Reading(u)' <=> Reading(u))
      /\ ~Reading(c)' /\ ~Writing(c)'
  BY <1>1 DEF PopRelease, Goto, Writing, Reading
<1>3. /\ OwnsPop(c) /\ Reading(c) /\ pos[c] \in Nat
      /\ sequence[Cell(pos[c])] = pos[c] + 1
      /\ pos[c] < dequeue_pos /\ enqueue_pos <= pos[c] + Cap
  BY <1>1, Numbers DEF IInv, Reading, OwnsPop
<1>4. /\ sequence'[Cell(pos[c])] = pos[c] + Cap
      /\ \A n \in Int : Cell(n) # Cell(pos[c]) => sequence'[Cell(n)] = sequence[Cell(n)]
  <2>1. /\ DOMAIN sequence = 0 .. Cap - 1
        /\ sequence' = [sequence EXCEPT ![Cell(pos[c])] = pos[c] + Cap]
    BY DEF PopRelease, IInv, TypeOK
  <2>2. \A n \in Int : Cell(n) \in DOMAIN sequence
    BY <2>1, Numbers
  <2> QED
    BY <1>3, <2>1, <2>2
<1>5. Window'
  BY <1>1 DEF IInv, Window
<1>6. \A q \in Producers : Writing(q)' => OwnsPush(q)'
  <2> SUFFICES ASSUME NEW q \in Producers, Writing(q)' PROVE OwnsPush(q)'
    OBVIOUS
  <2>1. q \in Threads \ {c} /\ Writing(q) /\ OwnsPush(q) /\ pos[q] \in Nat /\ pc'[q] = pc[q]
    BY <1>2, Numbers, ThreadsAssumption DEF IInv, Threads
  <2>2. Cell(pos[q]) # Cell(pos[c])
    <3>1. dequeue_pos <= pos[q] /\ pos[q] < enqueue_pos
      BY <2>1 DEF OwnsPush
    <3> QED
      BY <1>3, <2>1, <3>1, PushAndPopCellsDiffer
  <2>3. sequence'[Cell(pos[q])] = sequence[Cell(pos[q])]
    BY <1>4, <2>1, <2>2
  <2> QED
    BY <1>1, <2>1, <2>3 DEF OwnsPush
<1>7. \A d \in Consumers : Reading(d)' => OwnsPop(d)'
  <2> SUFFICES ASSUME NEW d \in Consumers, Reading(d)' PROVE OwnsPop(d)'
    OBVIOUS
  <2>1. d # c /\ Reading(d) /\ OwnsPop(d) /\ pos[d] \in Nat /\ pc'[d] = pc[d]
    BY <1>2, Numbers DEF IInv, Threads
  <2>2. pos[d] # pos[c]
    BY <1>3, <2>1 DEF IInv, OneReaderEach
  <2>3. Cell(pos[d]) # Cell(pos[c])
    <3>1. pos[d] < dequeue_pos /\ enqueue_pos <= pos[d] + Cap
      BY <2>1 DEF OwnsPop
    <3>2. pos[d] < pos[c] + Cap /\ pos[c] < pos[d] + Cap
      BY <1>3, <2>1, <3>1, Numbers
    <3> QED
      BY <1>3, <2>1, <2>2, <3>2, CellsDistinct
  <2>4. sequence'[Cell(pos[d])] = sequence[Cell(pos[d])]
    BY <1>4, <2>1, <2>3
  <2> QED
    BY <1>1, <2>1, <2>4 DEF OwnsPop
<1>8. OneReaderEach'
  <2>1. \A d \in Consumers : Reading(d)' => Reading(d)
    BY <1>2 DEF Threads
  <2> QED
    BY <1>1, <2>1 DEF IInv, OneReaderEach
<1>9. \A n \in dequeue_pos .. enqueue_pos - 1 : Filled(n)'
  <2> TAKE n \in dequeue_pos .. enqueue_pos - 1
  <2>1. Filled(n)
    BY DEF IInv
  <2>2. n \in Nat /\ dequeue_pos <= n /\ n < enqueue_pos
    BY Numbers
  <2>3. Cell(n) # Cell(pos[c])
    BY <1>3, <2>2, PushAndPopCellsDiffer
  <2>4. sequence'[Cell(n)] = sequence[Cell(n)]
    BY <1>4, <2>2, <2>3
  <2>5. \A q \in Producers : Writing(q)' <=> Writing(q)
    BY <1>2, ThreadsAssumption DEF Threads
  <2> QED
    BY <1>1, <2>1, <2>4, <2>5 DEF Filled
<1>10. \A n \in enqueue_pos .. dequeue_pos + Cap - 1 : Free(n)'
  <2> TAKE n \in enqueue_pos .. dequeue_pos + Cap - 1
  <2>1. Free(n)
    BY DEF IInv
  <2>2. n \in Nat /\ enqueue_pos <= n /\ n < dequeue_pos + Cap
    BY Numbers
  <2>3. CASE n = pos[c] + Cap
    <3>1. Cell(n) = Cell(pos[c])
      BY <1>3, <2>3, CellPeriod
    <3> QED
      BY <1>1, <1>4, <2>3, <3>1 DEF Free
  <2>4. CASE n # pos[c] + Cap
    <3>1. Cell(n) # Cell(pos[c])
      <4>1. pos[c] + Cap \in Nat /\ n # pos[c] + Cap /\ n < pos[c] + Cap + Cap
            /\ pos[c] + Cap < n + Cap
        BY <1>3, <2>2, <2>4, Numbers
      <4>2. Cell(n) # Cell(pos[c] + Cap)
        BY <2>2, <4>1, CellsDistinct
      <4> QED
        BY <1>3, <4>2, CellPeriod
    <3>2. sequence'[Cell(n)] = sequence[Cell(n)]
      BY <1>4, <2>2, <3>1
    <3>3. CASE sequence[Cell(n)] = n
      BY <1>1, <3>2, <3>3 DEF Free
    <3>4. CASE \E d \in Consumers : Reading(d) /\ pos[d] = n - Cap
      <4> PICK d \in Consumers : Reading(d) /\ pos[d] = n - Cap
        BY <3>4
      <4>1. d # c
        BY <1>3, <2>2, <2>4, Numbers
      <4>2. Reading(d)' /\ pos'[d] = n - Cap
        BY <1>1, <1>2, <4>1 DEF Threads
      <4> QED
        BY <1>1, <4>2 DEF Free
    <3> QED
      BY <2>1, <3>3, <3>4 DEF Free
  <2> QED
    BY <2>3, <2>4
<1>11. \A t \in Threads : OnItsWay(t)'
  <2> TAKE t \in Threads
  <2>1. CASE t = c
    BY <1>2, <2>1 DEF OnItsWay
  <2>2. CASE t # c
    <3>1. OnItsWay(t) /\ pc'[t] = pc[t] /\ pos[t] \in Nat
      BY <1>2, <2>2, Numbers DEF IInv
    <3>2. sequence'[Cell(pos[t])] >= sequence[Cell(pos[t])]
      <4>1. CASE Cell(pos[t]) = Cell(pos[c])
        BY <1>3, <1>4, <4>1, Numbers
      <4>2. CASE Cell(pos[t]) # Cell(pos[c])
        BY <1>4, <3>1, <4>2, Numbers
      <4> QED
        BY <4>1, <4>2
    <3>3. sequence[Cell(pos[t])] \in Nat /\ sequence'[Cell(pos[t])] \in Nat
      <4>1. pos[t] \in Int
        BY <3>1
      <4>2. Cell(pos[t]) \in 0 .. Cap - 1 /\ sequence[Cell(pos[t])] \in Nat
        BY <4>1, Numbers
      <4>3. sequence' \in [0 .. Cap - 1 -> Nat]
        BY DEF TypeOK
      <4> QED
        BY <4>2, <4>3
    <3> QED
      BY <1>1, <3>1, <3>2, <3>3 DEF OnItsWay
  <2> QED
    BY <2>1, <2>2
<1>12. GotMatches'
  BY <1>1 DEF IInv, GotMatches
<1> QED
  BY <1>1, <1>5, <1>6, <1>7, <1>8, <1>9, <1>10, <1>11, <1>12 DEF IInv


-----------------------------------------------------------------------------
(* The invariant                                                           *)

LEMMA InitEstablishes == Init => IInv
<1> SUFFICES ASSUME Init PROVE IInv
  OBVIOUS
<1>1. \A t \in Threads : pc[t] \in {"load", "register"} /\ pos[t] = 0
  BY DEF Init
<1>2. TypeOK
  <2>1. sequence \in [0 .. Cap - 1 -> Nat]
    BY CapAssumption DEF Init
  <2>2. log \in Seq(Tick) /\ Len(log) = enqueue_pos
    BY DEF Init
  <2>3. got \subseteq [ticket : Nat, tick : Tick]
    BY DEF Init
  <2> QED
    BY <2>1, <2>2, <2>3, CapAssumption DEF Init, TypeOK
<1>3. Labels
  BY ThreadsAssumption DEF Init, Labels, PushLabels, PopLabels, Threads
<1>4. Window
  BY CapAssumption DEF Init, Window
<1>5. \A t \in Threads : ~Writing(t) /\ ~Reading(t) /\ OnItsWay(t)
  BY <1>1 DEF Writing, Reading, OnItsWay
<1>6. \A n \in enqueue_pos .. dequeue_pos + Cap - 1 : Free(n)
  <2>1. \A n \in 0 .. Cap - 1 : sequence[Cell(n)] = n
    <3> TAKE n \in 0 .. Cap - 1
    <3>1. n \in Int /\ n = Cap * 0 + n
      BY CapAssumption
    <3>2. Cell(n) = n
      BY <3>1, RemainderUnique
    <3> QED
      BY <3>2 DEF Init
  <2>2. enqueue_pos = 0 /\ dequeue_pos + Cap - 1 = Cap - 1
    BY CapAssumption DEF Init
  <2> QED
    BY <2>1, <2>2 DEF Free
<1>7. \A n \in dequeue_pos .. enqueue_pos - 1 : Filled(n)
  BY DEF Init
<1>8. OneReaderEach /\ GotMatches
  BY <1>5 DEF OneReaderEach, GotMatches, Init, Threads
<1> QED
  BY <1>2, <1>3, <1>4, <1>5, <1>6, <1>7, <1>8 DEF IInv, Threads

LEMMA StepPreserves == IInv /\ [Next]_vars => IInv'
<1> SUFFICES ASSUME IInv, [Next]_vars PROVE IInv'
  OBVIOUS
<1>1. CASE UNCHANGED vars
  BY <1>1 DEF vars, IInv, TypeOK, Labels, Window, OwnsPush, OwnsPop, OneReaderEach, Filled, Free,
              OnItsWay, GotMatches, Writing, Reading
<1>2. CASE \E p \in Producers : Push(p)
  <2> PICK p \in Producers : Push(p)
    BY <1>2
  <2>1. TypeOK' /\ Labels'
    BY <1>2, TypesPreserved DEF Next
  <2> QED
    BY <2>1, PushOutside, PushClaimPreserves, PushWritePreserves, PushPublishPreserves DEF Push
<1>3. CASE \E c \in Consumers : Consume(c)
  <2> PICK c \in Consumers : Consume(c)
    BY <1>3
  <2>1. TypeOK' /\ Labels'
    BY <1>3, TypesPreserved DEF Next
  <2> QED
    BY <2>1, PopOutside, PopClaimPreserves, PopReadPreserves, PopReleasePreserves DEF Consume
<1> QED
  BY <1>1, <1>2, <1>3 DEF Next, Joined

LEMMA AlwaysIInv == Spec => []IInv
  BY InitEstablishes, StepPreserves, PTL DEF Spec

\* The invariant entails that no two threads are in the same cell.
LEMMA IInvExcludes == IInv => ExclusiveCells
<1> SUFFICES ASSUME IInv, NEW s \in Threads, NEW t \in Threads, s # t, InCell(s), InCell(t)
             PROVE  Cell(pos[s]) # Cell(pos[t])
  BY DEF ExclusiveCells
<1>1. pos[s] \in Nat /\ pos[t] \in Nat
  BY Numbers
<1>2. /\ \A u \in Producers : InCell(u) => Writing(u) /\ OwnsPush(u)
      /\ \A u \in Consumers : InCell(u) => Reading(u) /\ OwnsPop(u)
  BY DEF IInv, Labels, PushLabels, PopLabels, InCell, Writing, Reading
<1>3. CASE s \in Producers /\ t \in Producers
  <2>1. pos[s] # pos[t]
    BY <1>2, <1>3, OneWriterEach
  <2> QED
    BY <1>1, <1>2, <1>3, <2>1, PushCellsDiffer DEF OwnsPush
<1>4. CASE s \in Consumers /\ t \in Consumers
  <2>1. pos[s] # pos[t]
    BY <1>2, <1>4 DEF IInv, OneReaderEach
  <2>2. /\ pos[s] < dequeue_pos /\ enqueue_pos <= pos[s] + Cap
        /\ pos[t] < dequeue_pos /\ enqueue_pos <= pos[t] + Cap
    BY <1>2, <1>4 DEF OwnsPop
  <2>3. pos[s] < pos[t] + Cap /\ pos[t] < pos[s] + Cap
    BY <1>1, <2>2, Numbers
  <2> QED
    BY <1>1, <2>1, <2>3, CellsDistinct
<1>5. CASE s \in Producers /\ t \in Consumers
  BY <1>1, <1>2, <1>5, PushAndPopCellsDiffer DEF OwnsPush, OwnsPop
<1>6. CASE s \in Consumers /\ t \in Producers
  BY <1>1, <1>2, <1>6, PushAndPopCellsDiffer DEF OwnsPush, OwnsPop
<1> QED
  BY <1>3, <1>4, <1>5, <1>6 DEF Threads

\* What the objects of the benchmark hold, for any number of threads, capacity
\* and ticks.
THEOREM TypesHold == Spec => []TypeOK
<1>1. IInv => TypeOK
  BY DEF IInv
<1> QED
  BY <1>1, AlwaysIInv, PTL

\* No data race on a cell's data (try_push and try_pop of MPMCQueue): whoever won
\* a compare-and-swap is alone in its cell until it stores the sequence.
THEOREM CellsExclusive == Spec => []ExclusiveCells
  BY AlwaysIInv, IInvExcludes, PTL

\* Every try_pop that succeeds returns the tick of the try_push with the same
\* ticket: none is lost, repeated or torn by a lap of the ring.
THEOREM EveryPopMatches == Spec => []TicketsMatch
<1>1. IInv => TicketsMatch
  BY DEF IInv, GotMatches, TicketsMatch
<1> QED
  BY <1>1, AlwaysIInv, PTL

-----------------------------------------------------------------------------
(* Refusals                                                                *)

\* Every cell was in the window after a ticket that a consumer has used: its sequence
\* is past that ticket.
LEMMA UsedCellsPassed ==
  ASSUME IInv, NEW n \in Nat, n < dequeue_pos
  PROVE  sequence[Cell(n)] >= n + 1
<1>1. PICK q \in Int, k \in 0 .. Cap - 1 : n - dequeue_pos = Cap * q + k
  <2>1. n - dequeue_pos \in Int
    BY Numbers
  <2> QED
    BY <2>1, Division
<1>2. PICK m \in Nat : m = dequeue_pos + k
  BY Numbers
<1>3. Cap * q \in Int /\ n = m + Cap * q
  BY <1>1, <1>2, Numbers
<1>4. Cell(m) = Cell(n)
  <2>1. PICK a \in Int, r \in 0 .. Cap - 1 : n = Cap * a + r /\ Cell(n) = r
    BY Division
  <2>2. Cap * (a - q) = Cap * a - Cap * q /\ Cap * a \in Int
    BY Numbers
  <2>3. m = Cap * (a - q) + r
    BY <1>3, <2>1, <2>2
  <2> QED
    BY <2>1, <2>3, RemainderUnique
<1>5. m >= n + Cap
  <2>1. q <= -1
    <3> SUFFICES ASSUME q >= 0 PROVE FALSE
      OBVIOUS
    <3>1. Cap * q >= 0
      BY Numbers
    <3> QED
      BY <1>1, <1>3, <3>1, Numbers
  <2>2. Cap * (0 - q) >= Cap /\ Cap * (0 - q) = 0 - Cap * q
    BY <2>1, MultipleOfCap, Numbers
  <2> QED
    BY <1>3, <2>2, Numbers
<1>6. CASE m < enqueue_pos
  <2>1. Filled(m)
    BY <1>2, <1>6, Numbers DEF IInv
  <2>2. sequence[Cell(m)] \in {m, m + 1}
    BY <2>1 DEF Filled, IInv, OwnsPush
  <2> QED
    BY <1>4, <1>5, <2>2, Numbers
<1>7. CASE m >= enqueue_pos
  <2>1. Free(m)
    BY <1>2, <1>7, Numbers DEF IInv
  <2>2. CASE sequence[Cell(m)] = m
    BY <1>4, <1>5, <2>2, Numbers
  <2>3. ASSUME NEW c \in Consumers, Reading(c), pos[c] = m - Cap
        PROVE  sequence[Cell(m)] >= n + 1
    <3>1. sequence[Cell(pos[c])] = pos[c] + 1 /\ pos[c] \in Nat /\ m = pos[c] + Cap
      BY <2>3, Numbers DEF IInv, OwnsPop, Threads
    <3>2. Cell(m) = Cell(pos[c])
      BY <3>1, CellPeriod
    <3> QED
      BY <1>5, <3>1, <3>2, Numbers
  <2> QED
    BY <1>4, <2>1, <2>2, <2>3 DEF Free
<1> QED
  BY <1>6, <1>7, Numbers

\* A push that sees its cell behind its ticket still holds the newest ticket, and the
\* ring is full or a consumer is leaving the cell.
LEMMA FullIsHonest ==
  ASSUME IInv, NEW p \in Producers, PushFull(p)
  PROVE  /\ enqueue_pos = pos[p]
         /\ \/ enqueue_pos - dequeue_pos = Cap
            \/ \E c \in Consumers : Reading(c) /\ pos[c] = pos[p] - Cap
<1>1. /\ pos[p] \in Nat /\ pos[p] <= enqueue_pos
      /\ sequence[Cell(pos[p])] \in Nat /\ sequence[Cell(pos[p])] < pos[p]
  <2>1. p \in Threads /\ pos[p] \in Nat /\ sequence[Cell(pos[p])] \in Nat
    BY Numbers DEF Threads
  <2>2. pos[p] <= enqueue_pos /\ sequence[Cell(pos[p])] - pos[p] < 0
    BY <2>1 DEF PushFull, PushDiff, IInv, OnItsWay
  <2> QED
    BY <2>1, <2>2
<1>2. pos[p] >= dequeue_pos
  BY <1>1, UsedCellsPassed, Numbers
<1>3. pos[p] = enqueue_pos
  <2> SUFFICES ASSUME pos[p] # enqueue_pos PROVE FALSE
    OBVIOUS
  <2>1. pos[p] \in dequeue_pos .. enqueue_pos - 1
    BY <1>1, <1>2, Numbers
  <2>2. Filled(pos[p])
    BY <2>1 DEF IInv
  <2>3. sequence[Cell(pos[p])] \in {pos[p], pos[p] + 1}
    BY <2>2 DEF Filled, IInv, OwnsPush
  <2> QED
    BY <1>1, <2>3
<1>4. CASE enqueue_pos < dequeue_pos + Cap
  <2>1. enqueue_pos \in enqueue_pos .. dequeue_pos + Cap - 1
    BY <1>4, Numbers
  <2>2. Free(enqueue_pos)
    BY <2>1 DEF IInv
  <2>3. sequence[Cell(enqueue_pos)] # enqueue_pos
    BY <1>1, <1>3
  <2> QED
    BY <1>3, <2>2, <2>3 DEF Free
<1> QED
  BY <1>3, <1>4, Numbers

\* A pop that sees its cell behind its ticket still holds the next ticket, and the
\* ring is empty or a producer has not published the tick yet.
LEMMA EmptyIsHonest ==
  ASSUME IInv, NEW c \in Consumers, PopEmpty(c)
  PROVE  /\ dequeue_pos = pos[c]
         /\ \/ enqueue_pos = dequeue_pos
            \/ \E p \in Producers : Writing(p) /\ pos[p] = pos[c]
<1>1. /\ pos[c] \in Nat /\ pos[c] <= dequeue_pos
      /\ sequence[Cell(pos[c])] \in Nat /\ sequence[Cell(pos[c])] < pos[c] + 1
  <2>1. c \in Threads /\ pos[c] \in Nat /\ sequence[Cell(pos[c])] \in Nat
    BY Numbers DEF Threads
  <2>2. pos[c] <= dequeue_pos /\ sequence[Cell(pos[c])] - (pos[c] + 1) < 0
    BY <2>1 DEF PopEmpty, PopDiff, IInv, OnItsWay
  <2> QED
    BY <2>1, <2>2
<1>2. pos[c] = dequeue_pos
  BY <1>1, UsedCellsPassed, Numbers
<1>3. CASE enqueue_pos # dequeue_pos
  <2>1. dequeue_pos \in dequeue_pos .. enqueue_pos - 1
    BY <1>3, Numbers
  <2>2. Filled(dequeue_pos)
    BY <2>1 DEF IInv
  <2>3. sequence[Cell(dequeue_pos)] # dequeue_pos + 1
    BY <1>1, <1>2
  <2> QED
    BY <1>2, <2>2, <2>3 DEF Filled
<1> QED
  BY <1>2, <1>3

\* try_push says full, and try_pop empty, only when it is so: the verdict is no
\* artefact of loading the counter and the sequence at different times.
THEOREM RefusalsHonest == Spec => HonestRefusals
<1>1. IInv => /\ \A p \in Producers : PushFull(p) =>
                   /\ enqueue_pos = pos[p]
                   /\ \/ enqueue_pos - dequeue_pos = Cap
                      \/ \E c \in Consumers : Reading(c) /\ pos[c] = pos[p] - Cap
              /\ \A c \in Consumers : PopEmpty(c) =>
                   /\ dequeue_pos = pos[c]
                   /\ \/ enqueue_pos = dequeue_pos
                      \/ \E p \in Producers : Writing(p) /\ pos[p] = pos[c]
  BY FullIsHonest, EmptyIsHonest
<1> QED
  BY <1>1, AlwaysIInv, PTL DEF HonestRefusals

-----------------------------------------------------------------------------
(* The queue is a bounded FIFO                                             *)

\* A producer between loading a ticket and publishing its tick has ticks left.
TicksLeft == \A p \in Producers : pc[p] # "load" => sent[p] < TicksPerThread

LEMMA TicksLeftKept ==
  ASSUME IInv, TicksLeft, [Next]_vars
  PROVE  TicksLeft'
<1>1. DOMAIN pc = Threads /\ DOMAIN sent = Producers
  BY DEF IInv, TypeOK
<1>2. ASSUME NEW p \in Producers, Push(p) PROVE TicksLeft'
  <2>1. p \in Threads /\ \A q \in Producers : q \in Threads
    BY DEF Threads
  <2>2. CASE PushLoad(p)
    BY <1>1, <2>1, <2>2 DEF PushLoad, Goto, TicksLeft
  <2>3. CASE PushPublish(p)
    BY <1>1, <2>1, <2>3 DEF PushPublish, Goto, TicksLeft
  <2>4. CASE PushFree(p) \/ PushFull(p) \/ PushStale(p)
    BY <1>1, <2>1, <2>4 DEF PushFree, PushFull, PushStale, Goto, TicksLeft
  <2>5. CASE PushClaim(p) \/ PushLost(p) \/ PushWrite(p)
    BY <1>1, <2>1, <2>5 DEF PushClaim, PushLost, PushWrite, Goto, TicksLeft
  <2> QED
    BY <1>2, <2>2, <2>3, <2>4, <2>5 DEF Push
<1>3. ASSUME NEW c \in Consumers, Consume(c) PROVE TicksLeft'
  <2>1. sent' = sent /\ \E l : pc' = [pc EXCEPT ![c] = l]
    <3>1. CASE Register(c) \/ Check(c) \/ Count(c) \/ PopLoad(c) \/ PopReady(c) \/ PopEmpty(c)
      BY <3>1 DEF Register, Check, Count, PopLoad, PopReady, PopEmpty, Goto
    <3>2. CASE PopStale(c) \/ PopClaim(c) \/ PopLost(c) \/ PopRead(c) \/ PopRelease(c)
      BY <3>2 DEF PopStale, PopClaim, PopLost, PopRead, PopRelease, Goto
    <3> QED
      BY <1>3, <3>1, <3>2 DEF Consume
  <2>2. \A p \in Producers : p \in Threads /\ p # c
    BY ThreadsAssumption DEF Threads
  <2> QED
    BY <1>1, <2>1, <2>2 DEF TicksLeft
<1> QED
  BY <1>2, <1>3 DEF Next, Joined, vars, TicksLeft

\* A recorded read says what the log says.
LEMMA RecordedRead ==
  ASSUME NEW G, NEW L, NEW n, \A g \in G : g.tick = L[g.ticket + 1]
  PROVE  L[n + 1] = IF \E g \in G : g.ticket = n
                    THEN (CHOOSE g \in G : g.ticket = n).tick
                    ELSE L[n + 1]
<1>1. CASE \E g \in G : g.ticket = n
  <2>1. PICK h : h = CHOOSE g \in G : g.ticket = n
    OBVIOUS
  <2>2. h \in G /\ h.ticket = n
    BY <1>1, <2>1, Zenon
  <2> QED
    BY <1>1, <2>1, <2>2
<1> QED
  BY <1>1

\* What the first d entries of a sequence become when d grows.
LEMMA PrefixGrows ==
  ASSUME NEW S, NEW s \in Seq(S), NEW d \in Nat, d < Len(s)
  PROVE  [n \in 1 .. d + 1 |-> s[n]] = Append([n \in 1 .. d |-> s[n]], s[d + 1])
<1> DEFINE f == [n \in 1 .. d |-> s[n]]
           g == [n \in 1 .. d + 1 |-> s[n]]
<1>1. \A n \in 1 .. d + 1 : s[n] \in S
  OBVIOUS
<1>2. f \in Seq(S) /\ Len(f) = d /\ \A n \in 1 .. d : f[n] = s[n]
  BY <1>1
<1>3. g \in Seq(S) /\ Len(g) = d + 1 /\ \A n \in 1 .. d + 1 : g[n] = s[n]
  BY <1>1
<1> HIDE DEF f, g
<1>4. PICK a : a = Append(f, s[d + 1])
  OBVIOUS
<1>5. /\ a \in Seq(S) /\ Len(a) = d + 1 /\ a[d + 1] = s[d + 1]
      /\ \A n \in 1 .. d : a[n] = f[n]
  BY <1>1, <1>2, <1>4, AppendProperties
<1>6. \A n \in 1 .. d + 1 : a[n] = g[n]
  <2> TAKE n \in 1 .. d + 1
  <2>1. n \in 1 .. d \/ n = d + 1
    OBVIOUS
  <2> QED
    BY <1>2, <1>3, <1>5, <2>1
<1>7. a = g
  BY <1>3, <1>5, <1>6, SeqEqual
<1> QED
  BY <1>4, <1>7 DEF f, g

\* The entries after the first d, and what they become when the sequence grows.
LEMMA WindowGrows ==
  ASSUME NEW S, NEW s \in Seq(S), NEW d \in Nat, d <= Len(s), NEW x \in S
  PROVE  /\ Len(SubSeq(s, d + 1, Len(s))) = Len(s) - d
         /\ SubSeq(Append(s, x), d + 1, Len(s) + 1) = Append(SubSeq(s, d + 1, Len(s)), x)
<1>1. PICK l \in Nat : l = Len(s)
  OBVIOUS
<1>2. PICK w : w = SubSeq(s, d + 1, l)
  OBVIOUS
<1>3. PICK t : t = Append(s, x)
  OBVIOUS
<1>4. /\ t \in Seq(S) /\ Len(t) = l + 1 /\ t[l + 1] = x
      /\ \A i \in 1 .. l : t[i] = s[i]
  BY <1>1, <1>3, AppendProperties
<1>5. /\ w \in Seq(S) /\ Len(w) = l - d
      /\ \A i \in 1 .. l - d : w[i] = s[d + i]
  <2>1. PICK m \in Int : m = d + 1
    OBVIOUS
  <2>2. w = SubSeq(s, m, l) /\ \A i \in m .. l : s[i] \in S
    BY <1>1, <1>2, <2>1
  <2>3. /\ w \in Seq(S) /\ Len(w) = IF m <= l THEN l - m + 1 ELSE 0
        /\ \A i \in 1 .. l - m + 1 : w[i] = s[m + i - 1]
    BY <2>2, SubSeqProperties, SMTT(30)
  <2>4. \A i \in 1 .. l - d : i \in 1 .. l - m + 1 /\ m + i - 1 = d + i
    BY <1>1, <2>1
  <2>5. Len(w) = l - d
    BY <1>1, <2>1, <2>3
  <2> QED
    BY <2>3, <2>4, <2>5, Zenon
<1>6. PICK u : u = SubSeq(t, d + 1, l + 1)
  OBVIOUS
<1>7. /\ u \in Seq(S) /\ Len(u) = l + 1 - d
      /\ \A i \in 1 .. l + 1 - d : u[i] = t[d + i]
  <2>1. PICK m \in Int : m = d + 1
    OBVIOUS
  <2>2. PICK k \in Nat : k = l + 1
    BY <1>1
  <2>3. u = SubSeq(t, m, k) /\ \A i \in m .. k : t[i] \in S
    BY <1>1, <1>4, <1>6, <2>1, <2>2
  <2>4. /\ u \in Seq(S) /\ Len(u) = IF m <= k THEN k - m + 1 ELSE 0
        /\ \A i \in 1 .. k - m + 1 : u[i] = t[m + i - 1]
    BY <2>3, SubSeqProperties, SMTT(30)
  <2>5. \A i \in 1 .. l + 1 - d : i \in 1 .. k - m + 1 /\ m + i - 1 = d + i
    BY <1>1, <2>1, <2>2
  <2>6. Len(u) = l + 1 - d
    BY <1>1, <2>1, <2>2, <2>4
  <2> QED
    BY <2>4, <2>5, <2>6, Zenon
<1>8. PICK a : a = Append(w, x)
  OBVIOUS
<1>9. /\ a \in Seq(S) /\ Len(a) = l - d + 1 /\ a[l - d + 1] = x
      /\ \A i \in 1 .. l - d : a[i] = w[i]
  BY <1>1, <1>5, <1>8, AppendProperties
<1>10. \A i \in 1 .. l - d + 1 : a[i] = u[i]
  <2> TAKE i \in 1 .. l - d + 1
  <2>1. CASE i = l - d + 1
    BY <1>1, <1>4, <1>7, <1>9, <2>1
  <2>2. CASE i \in 1 .. l - d
    <3>1. i \in 1 .. l + 1 - d /\ d + i \in 1 .. l
      BY <1>1, <2>2
    <3>2. a[i] = s[d + i]
      BY <1>5, <1>9, <2>2, Zenon
    <3>3. u[i] = t[d + i] /\ t[d + i] = s[d + i]
      BY <1>4, <1>7, <3>1, Zenon
    <3> QED
      BY <3>2, <3>3
  <2> QED
    BY <2>1, <2>2
<1>11. a = u
  <2>1. Len(a) = Len(u) /\ Len(a) = l - d + 1
    BY <1>1, <1>7, <1>9
  <2> QED
    BY <1>7, <1>9, <1>10, <2>1, SeqEqual, Zenon
<1> QED
  BY <1>1, <1>2, <1>3, <1>5, <1>6, <1>8, <1>11

\* The entries after the first d, and what they become when d grows.
LEMMA WindowShrinks ==
  ASSUME NEW S, NEW s \in Seq(S), NEW d \in Nat, d < Len(s)
  PROVE  /\ SubSeq(s, d + 1, Len(s)) # <<>>
         /\ Head(SubSeq(s, d + 1, Len(s))) = s[d + 1]
         /\ Tail(SubSeq(s, d + 1, Len(s))) = SubSeq(s, d + 1 + 1, Len(s))
<1>1. PICK m \in 1 .. Len(s) : m = d + 1
  OBVIOUS
<1>2. Len(s) \in m .. Len(s)
  BY <1>1
<1>3. Head(SubSeq(s, m, Len(s))) = s[m] /\ Tail(SubSeq(s, m, Len(s))) = SubSeq(s, m + 1, Len(s))
  BY <1>1, <1>2, HeadTailOfSubSeq
<1>4. Len(SubSeq(s, m, Len(s))) # 0
  BY <1>1, <1>2, SubSeqProperties
<1> QED
  BY <1>1, <1>3, <1>4

\* The ticks that wait, and those that were taken, as the log has them.
Waiting == SubSeq(log, dequeue_pos + 1, enqueue_pos)
Taken == [n \in 1 .. dequeue_pos |-> ReadBy(n - 1)]

LEMMA TakenByLog ==
  ASSUME IInv
  PROVE  Taken = [n \in 1 .. dequeue_pos |-> log[n]]
<1>1. \A g \in got : g.tick = log[g.ticket + 1]
  BY DEF IInv, GotMatches
<1>2. \A n \in 1 .. dequeue_pos : ReadBy(n - 1) = log[n]
  <2> TAKE n \in 1 .. dequeue_pos
  <2>1. PICK k : k = n - 1 /\ k + 1 = n
    BY Numbers
  <2>2. ReadBy(k) = log[k + 1]
    BY <1>1, RecordedRead, Zenon DEF ReadBy
  <2> QED
    BY <2>1, <2>2
<1> QED
  BY <1>2 DEF Taken

LEMMA TakenByLogNext ==
  ASSUME IInv'
  PROVE  Taken' = [n \in 1 .. dequeue_pos' |-> log'[n]]
<1>1. \A g \in got' : g.tick = log'[g.ticket + 1]
  BY DEF IInv, GotMatches
<1>2. \A n \in 1 .. dequeue_pos' : ReadBy(n - 1)' = log'[n]
  <2> TAKE n \in 1 .. dequeue_pos'
  <2>1. PICK k : k = n - 1 /\ k + 1 = n
    BY DEF IInv, TypeOK
  <2>2. ReadBy(k)' = log'[k + 1]
    BY <1>1, RecordedRead, Zenon DEF ReadBy
  <2> QED
    BY <2>1, <2>2
<1> QED
  BY <1>2 DEF Taken

\* The compare-and-swap on enqueue_pos_ puts the producer's tick at the back.
LEMMA ClaimPuts ==
  ASSUME IInv, IInv', TicksLeft, NEW p \in Producers, PushClaim(p)
  PROVE  \E x \in Ticks : Fifo!Put(x)
<1> DEFINE x == [by |-> p, n |-> sent[p]]
<1>1. x \in Ticks /\ x \in Tick
  <2>1. sent[p] \in Nat /\ sent[p] < TicksPerThread
    BY DEF IInv, TypeOK, TicksLeft, PushClaim
  <2> QED
    BY <2>1, TicksAssumption DEF Ticks, Tick
<1>2. /\ log' = Append(log, x) /\ enqueue_pos' = enqueue_pos + 1 /\ dequeue_pos' = dequeue_pos
      /\ pos[p] = enqueue_pos
  BY DEF PushClaim
<1>3. enqueue_pos < dequeue_pos + Cap
  <2>1. sequence[Cell(enqueue_pos)] >= enqueue_pos
    BY <1>2 DEF PushClaim, IInv, OnItsWay, Threads
  <2> QED
    BY <2>1, NextPushIsFree
<1>4. log \in Seq(Tick) /\ Len(log) = enqueue_pos
  BY DEF IInv, TypeOK
<1> HIDE DEF x
<1>5. /\ Len(Waiting) = enqueue_pos - dequeue_pos
      /\ Waiting' = Append(Waiting, x)
  <2>1. dequeue_pos \in Nat /\ dequeue_pos <= Len(log)
    BY <1>4, Numbers
  <2>2. /\ Len(SubSeq(log, dequeue_pos + 1, Len(log))) = Len(log) - dequeue_pos
        /\ SubSeq(Append(log, x), dequeue_pos + 1, Len(log) + 1) =
               Append(SubSeq(log, dequeue_pos + 1, Len(log)), x)
    BY <1>1, <1>4, <2>1, WindowGrows
  <2> QED
    BY <1>2, <1>4, <2>2, Zenon DEF Waiting
<1>6. Taken' = Taken
  <2>1. \A n \in 1 .. dequeue_pos : log'[n] = log[n]
    <3>1. \A n \in 1 .. dequeue_pos : n \in 1 .. Len(log)
      BY <1>4, Numbers
    <3>2. \A n \in 1 .. Len(log) : Append(log, x)[n] = log[n]
      BY <1>1, <1>4, AppendProperties
    <3> QED
      BY <1>2, <3>1, <3>2, Zenon
  <2> QED
    BY <1>2, <2>1, TakenByLog, TakenByLogNext
<1>7. Len(Waiting) < Cap
  BY <1>3, <1>5, Numbers
<1> QED
  BY <1>1, <1>5, <1>6, <1>7 DEF Fifo!Put, Waiting, Taken

\* The compare-and-swap on dequeue_pos_ takes the tick at the front.
LEMMA ClaimTakes ==
  ASSUME IInv, IInv', NEW c \in Consumers, PopClaim(c)
  PROVE  Fifo!Take
<1>1. /\ log' = log /\ enqueue_pos' = enqueue_pos /\ dequeue_pos' = dequeue_pos + 1
      /\ pos[c] = dequeue_pos
  BY DEF PopClaim
<1>2. dequeue_pos < enqueue_pos
  <2>1. sequence[Cell(dequeue_pos)] >= dequeue_pos + 1
    BY <1>1 DEF PopClaim, IInv, OnItsWay, Threads
  <2> QED
    BY <2>1, NextPopIsFilled
<1>3. log \in Seq(Tick) /\ Len(log) = enqueue_pos /\ dequeue_pos \in Nat
  BY DEF IInv, TypeOK
<1>4. Waiting # <<>> /\ Head(Waiting) = log[dequeue_pos + 1] /\ Waiting' = Tail(Waiting)
  <2>1. /\ SubSeq(log, dequeue_pos + 1, Len(log)) # <<>>
        /\ Head(SubSeq(log, dequeue_pos + 1, Len(log))) = log[dequeue_pos + 1]
        /\ Tail(SubSeq(log, dequeue_pos + 1, Len(log))) =
               SubSeq(log, dequeue_pos + 1 + 1, Len(log))
    BY <1>2, <1>3, WindowShrinks
  <2> QED
    BY <1>1, <1>3, <2>1, Zenon DEF Waiting
<1>5. Taken' = Append(Taken, Head(Waiting))
  <2>1. [n \in 1 .. dequeue_pos + 1 |-> log[n]] =
            Append([n \in 1 .. dequeue_pos |-> log[n]], log[dequeue_pos + 1])
    BY <1>2, <1>3, PrefixGrows
  <2> QED
    BY <1>1, <1>4, <2>1, TakenByLog, TakenByLogNext, Zenon
<1> QED
  BY <1>4, <1>5 DEF Fifo!Take, Waiting, Taken

\* Every other step leaves the ticks that wait and those taken as they are.
LEMMA OthersStutter ==
  ASSUME IInv, IInv', UNCHANGED <<enqueue_pos, dequeue_pos, log>>
  PROVE  Waiting' = Waiting /\ Taken' = Taken
<1>1. Waiting' = Waiting
  BY DEF Waiting
<1>2. Taken' = Taken
  BY TakenByLog, TakenByLogNext
<1> QED
  BY <1>1, <1>2

\* MPMCQueue is a bounded FIFO for any number of threads: a tick enters and leaves at
\* the two compare-and-swaps, oldest first, and no more than Cap are inside, although
\* the threads copy the ticks in and out in any order afterwards.
THEOREM QueueImplementsFifo == Spec => IsBoundedFifo
<1>1. ASSUME IInv, IInv', TicksLeft, [Next]_vars
      PROVE  [Fifo!FifoNext]_(Fifo!fifoVars)
  <2>1. ASSUME NEW p \in Producers, PushClaim(p) PROVE Fifo!FifoNext
    BY <1>1, <2>1, ClaimPuts DEF Fifo!FifoNext
  <2>2. ASSUME NEW c \in Consumers, PopClaim(c) PROVE Fifo!FifoNext
    BY <1>1, <2>2, ClaimTakes DEF Fifo!FifoNext
  <2>3. ASSUME UNCHANGED <<enqueue_pos, dequeue_pos, log>> PROVE UNCHANGED Fifo!fifoVars
    BY <1>1, <2>3, OthersStutter DEF Fifo!fifoVars, Waiting, Taken
  <2>4. ASSUME NEW p \in Producers, Push(p), ~PushClaim(p)
        PROVE  UNCHANGED <<enqueue_pos, dequeue_pos, log>>
    BY <2>4 DEF Push, PushLoad, PushFree, PushFull, PushStale, PushLost, PushWrite, PushPublish
  <2>5. ASSUME NEW c \in Consumers, Consume(c), ~PopClaim(c)
        PROVE  UNCHANGED <<enqueue_pos, dequeue_pos, log>>
    BY <2>5 DEF Consume, Register, Check, Count, PopLoad, PopReady, PopEmpty, PopStale, PopLost,
                PopRead, PopRelease
  <2>6. ASSUME Joined \/ UNCHANGED vars PROVE UNCHANGED <<enqueue_pos, dequeue_pos, log>>
    BY <2>6 DEF Joined, vars
  <2> QED
    BY <1>1, <2>1, <2>2, <2>3, <2>4, <2>5, <2>6 DEF Next
<1>2. IInv /\ IInv' /\ TicksLeft /\ [Next]_vars => [Fifo!FifoNext]_(Fifo!fifoVars)
  BY <1>1
<1>3. Init => TicksLeft
  BY DEF Init, TicksLeft, Threads
<1>4. IInv /\ TicksLeft /\ [Next]_vars => TicksLeft'
  BY TicksLeftKept
<1> QED
  BY <1>2, <1>3, <1>4, InitEstablishes, StepPreserves, PTL DEF Spec, IsBoundedFifo

-----------------------------------------------------------------------------
(* Every tick is popped once                                               *)

\* The n-th tick of a producer has been given a push ticket.
Handed(p, n) == n < sent[p] \/ (n = sent[p] /\ Writing(p))

LoggedOnce ==
    /\ \A p \in Producers, n \in Nat :
          Handed(p, n) <=> \E i \in 1 .. enqueue_pos : log[i] = [by |-> p, n |-> n]
    /\ \A i, j \in 1 .. enqueue_pos : log[i] = log[j] => i = j

SentWithin == \A p \in Producers : sent[p] <= TicksPerThread

\* Of the pop tickets handed out, those no consumer is about to read are recorded.
ReadSoFar == \A n \in 0 .. dequeue_pos - 1 :
                \/ \E g \in got : g.ticket = n
                \/ \E c \in Consumers : pc[c] = "read" /\ pos[c] = n

\* The consumers between the compare-and-swap and the increment of `consumed'.
Owing == {c \in Consumers : pc[c] \in {"read", "release", "count"}}
Counted == dequeue_pos = consumed + Cardinality(Owing)

DoneCounted == \A c \in Consumers : pc[c] = "done" => consumed >= Total

Tally == TicksLeft /\ SentWithin /\ LoggedOnce /\ ReadSoFar /\ Counted /\ DoneCounted

\* What the steps of one thread leave alone.
LEMMA PushLeaves ==
  ASSUME IInv, NEW p \in Producers, Push(p)
  PROVE  /\ UNCHANGED <<dequeue_pos, got, consumed>>
         /\ \A u \in Threads \ {p} : pc'[u] = pc[u] /\ pos'[u] = pos[u]
         /\ \A q \in Producers \ {p} : sent'[q] = sent[q]
<1>1. DOMAIN pc = Threads /\ DOMAIN pos = Threads /\ DOMAIN sent = Producers
  BY DEF IInv, TypeOK
<1>2. CASE PushLoad(p) \/ PushFree(p) \/ PushFull(p) \/ PushStale(p)
  BY <1>1, <1>2 DEF PushLoad, PushFree, PushFull, PushStale, Goto
<1>3. CASE PushClaim(p) \/ PushLost(p) \/ PushWrite(p) \/ PushPublish(p)
  BY <1>1, <1>3 DEF PushClaim, PushLost, PushWrite, PushPublish, Goto
<1> QED
  BY <1>2, <1>3 DEF Push

LEMMA ConsumeLeaves ==
  ASSUME IInv, NEW c \in Consumers, Consume(c)
  PROVE  /\ UNCHANGED <<enqueue_pos, sent, log>>
         /\ \A u \in Threads \ {c} : pc'[u] = pc[u] /\ pos'[u] = pos[u]
<1>1. DOMAIN pc = Threads /\ DOMAIN pos = Threads
  BY DEF IInv, TypeOK
<1>2. CASE Register(c) \/ Check(c) \/ PopLoad(c) \/ PopReady(c) \/ PopEmpty(c) \/ PopStale(c)
  BY <1>1, <1>2 DEF Register, Check, PopLoad, PopReady, PopEmpty, PopStale, Goto
<1>3. CASE PopClaim(c) \/ PopLost(c) \/ PopRead(c) \/ PopRelease(c) \/ Count(c)
  BY <1>1, <1>3 DEF PopClaim, PopLost, PopRead, PopRelease, Count, Goto
<1> QED
  BY <1>2, <1>3 DEF Consume

LEMMA ThreadKinds ==
  /\ \A p \in Producers : p \in Threads /\ p \notin Consumers
  /\ \A c \in Consumers : c \in Threads /\ c \notin Producers
  BY ThreadsAssumption DEF Threads

LEMMA SentWithinKept ==
  ASSUME IInv, TicksLeft, SentWithin, [Next]_vars
  PROVE  SentWithin'
<1>1. \A q \in Producers : sent[q] \in Nat
  BY DEF IInv, TypeOK
<1>2. ASSUME NEW p \in Producers, Push(p) PROVE SentWithin'
  <2>1. sent'[p] = sent[p] \/ (pc[p] = "publish" /\ sent'[p] = sent[p] + 1)
    BY <1>2 DEF Push, PushLoad, PushFree, PushFull, PushStale, PushClaim, PushLost, PushWrite,
       PushPublish, IInv, TypeOK
  <2>2. sent'[p] <= TicksPerThread
    BY <1>1, <2>1, TicksAssumption DEF TicksLeft, SentWithin
  <2> QED
    BY <1>2, <2>2, PushLeaves DEF SentWithin
<1>3. ASSUME NEW c \in Consumers, Consume(c) PROVE SentWithin'
  BY <1>3, ConsumeLeaves DEF SentWithin
<1> QED
  BY <1>2, <1>3 DEF Next, Joined, vars, SentWithin

\* A step that hands out no push ticket leaves the log standing for the ticks that
\* were handed one.
LEMMA LogUnchanged ==
  ASSUME LoggedOnce, UNCHANGED <<enqueue_pos, log>>,
         \A q \in Producers, n \in Nat : Handed(q, n)' <=> Handed(q, n)
  PROVE  LoggedOnce'
<1>1. \A q \in Producers, n \in Nat :
         Handed(q, n)' <=> \E i \in 1 .. enqueue_pos : log[i] = [by |-> q, n |-> n]
  BY DEF LoggedOnce
<1>2. \A i, j \in 1 .. enqueue_pos : log[i] = log[j] => i = j
  BY DEF LoggedOnce
<1> QED
  BY <1>1, <1>2 DEF LoggedOnce

LEMMA LogEntries ==
  ASSUME IInv
  PROVE  \A i \in 1 .. enqueue_pos :
            /\ log[i] \in Tick /\ log[i].by \in Producers /\ log[i].n \in Nat
            /\ log[i] = [by |-> log[i].by, n |-> log[i].n]
<1>1. log \in Seq(Tick) /\ Len(log) = enqueue_pos
  BY DEF IInv, TypeOK
<1>2. \A i \in 1 .. enqueue_pos : log[i] \in Tick
  BY <1>1
<1>3. \A t \in Tick : t.by \in Producers /\ t.n \in Nat /\ t = [by |-> t.by, n |-> t.n]
  BY DEF Tick
<1> QED
  BY <1>2, <1>3

\* The compare-and-swap on enqueue_pos_ logs the producer's next tick.
LEMMA ClaimLogs ==
  ASSUME IInv, LoggedOnce, NEW p \in Producers, PushClaim(p)
  PROVE  LoggedOnce'
<1> DEFINE e == enqueue_pos
           x == [by |-> p, n |-> sent[p]]
<1>1. e \in Nat /\ enqueue_pos' = e + 1 /\ sent' = sent /\ sent[p] \in Nat
  BY DEF PushClaim, IInv, TypeOK
<1>2. (\A i \in 1 .. e : log'[i] = log[i]) /\ log'[e + 1] = x
  <2>1. log \in Seq(Tick) /\ Len(log) = e /\ x \in Tick
    BY DEF IInv, TypeOK, Tick
  <2>2. log' = Append(log, x)
    BY DEF PushClaim
  <2> QED
    BY <2>1, <2>2
<1>3. pc[p] = "cas" /\ pc'[p] = "write" /\ \A q \in Producers \ {p} : pc'[q] = pc[q]
  BY ThreadKinds DEF PushClaim, Goto, IInv, TypeOK
<1>4. /\ \A n \in Nat : n = sent[p] => Handed(p, n)' /\ ~Handed(p, n)
      /\ \A q \in Producers, n \in Nat : Handed(q, n) => Handed(q, n)'
      /\ \A q \in Producers, n \in Nat : Handed(q, n)' => Handed(q, n) \/ (q = p /\ n = sent[p])
  BY <1>1, <1>3 DEF Handed, Writing
<1>5. \A i \in 1 .. e : log[i] # x
  BY <1>1, <1>4 DEF LoggedOnce
<1>6. \A i \in 1 .. e + 1 : i \in 1 .. e \/ i = e + 1
  BY <1>1
<1>7. (\A i \in 1 .. e : i \in 1 .. e + 1) /\ e + 1 \in 1 .. e + 1
  BY <1>1
<1>8. ASSUME NEW q \in Producers, NEW n \in Nat
      PROVE  Handed(q, n)' <=> \E i \in 1 .. e + 1 : log'[i] = [by |-> q, n |-> n]
  <2>1. ASSUME Handed(q, n)'
        PROVE  \E i \in 1 .. e + 1 : log'[i] = [by |-> q, n |-> n]
    <3>1. CASE Handed(q, n)
      BY <1>2, <1>7, <3>1 DEF LoggedOnce
    <3>2. CASE q = p /\ n = sent[p]
      BY <1>2, <1>7, <3>2
    <3> QED
      BY <1>4, <2>1, <3>1, <3>2
  <2>2. ASSUME NEW i \in 1 .. e + 1, log'[i] = [by |-> q, n |-> n] PROVE Handed(q, n)'
    <3>1. CASE i \in 1 .. e
      BY <1>2, <1>4, <2>2, <3>1 DEF LoggedOnce
    <3>2. CASE i = e + 1
      <4>1. q = p /\ n = sent[p]
        BY <1>2, <2>2, <3>2
      <4> QED
        BY <1>1, <1>4, <4>1
    <3> QED
      BY <1>6, <3>1, <3>2
  <2> QED
    BY <2>1, <2>2
<1>9. \A i, j \in 1 .. e + 1 : log'[i] = log'[j] => i = j
  BY <1>2, <1>5, <1>6 DEF LoggedOnce
<1> QED
  BY <1>1, <1>8, <1>9, Zenon DEF LoggedOnce

LEMMA LoggedOnceKept ==
  ASSUME IInv, LoggedOnce, [Next]_vars
  PROVE  LoggedOnce'
<1>1. \A q \in Producers : sent[q] \in Nat
  BY DEF IInv, TypeOK
<1>2. ASSUME NEW p \in Producers, Push(p), ~PushClaim(p) PROVE LoggedOnce'
  <2>1. UNCHANGED <<enqueue_pos, log>>
    BY <1>2 DEF Push, PushLoad, PushFree, PushFull, PushStale, PushLost, PushWrite, PushPublish
  <2>2. \A n \in Nat : Handed(p, n)' <=> Handed(p, n)
    <3>1. CASE PushPublish(p)
      <4>1. /\ pc[p] = "publish" /\ pc'[p] = "load" /\ sent'[p] = sent[p] + 1
        BY <3>1, ThreadKinds DEF PushPublish, Goto, IInv, TypeOK
      <4> QED
        BY <1>1, <4>1 DEF Handed, Writing
    <3>2. CASE ~PushPublish(p)
      <4>1. sent'[p] = sent[p] /\ (Writing(p)' <=> Writing(p))
        BY <1>2, <3>2, ThreadKinds DEF Push, PushLoad, PushFree, PushFull, PushStale, PushLost,
           PushWrite, Goto, Writing, IInv, TypeOK
      <4> QED
        BY <4>1 DEF Handed
    <3> QED
      BY <3>1, <3>2
  <2>3. \A q \in Producers \ {p}, n \in Nat : Handed(q, n)' <=> Handed(q, n)
    BY <1>2, PushLeaves, ThreadKinds DEF Handed, Writing
  <2> QED
    BY <2>1, <2>2, <2>3, LogUnchanged
<1>3. ASSUME NEW c \in Consumers, Consume(c) PROVE LoggedOnce'
  <2>1. \A q \in Producers, n \in Nat : Handed(q, n)' <=> Handed(q, n)
    BY <1>3, ConsumeLeaves, ThreadKinds DEF Handed, Writing
  <2> QED
    BY <1>3, <2>1, ConsumeLeaves, LogUnchanged
<1>4. ASSUME Joined \/ UNCHANGED vars PROVE LoggedOnce'
  <2>1. UNCHANGED <<enqueue_pos, log, sent, pc>>
    BY <1>4 DEF Joined, vars
  <2>2. \A q \in Producers, n \in Nat : Handed(q, n)' <=> Handed(q, n)
    BY <2>1 DEF Handed, Writing
  <2> QED
    BY <2>1, <2>2, LogUnchanged
<1> QED
  BY <1>2, <1>3, <1>4, ClaimLogs DEF Next

LEMMA ReadSoFarKept ==
  ASSUME IInv, ReadSoFar, [Next]_vars
  PROVE  ReadSoFar'
<1>1. DOMAIN pc = Threads /\ dequeue_pos \in Nat
  BY DEF IInv, TypeOK
<1>2. ASSUME NEW p \in Producers, Push(p) PROVE ReadSoFar'
  BY <1>2, PushLeaves, ThreadKinds DEF ReadSoFar
<1>3. ASSUME NEW c \in Consumers, Consume(c) PROVE ReadSoFar'
  <2>1. CASE PopClaim(c)
    <3>1. /\ dequeue_pos' = dequeue_pos + 1 /\ got' = got /\ pos' = pos
          /\ pos[c] = dequeue_pos /\ pc[c] = "take" /\ pc'[c] = "read"
      BY <1>1, <2>1, ThreadKinds DEF PopClaim, Goto
    <3>2. \A d \in Consumers : pc[d] = "read" => pc'[d] = "read"
      BY <1>3, <3>1, ConsumeLeaves, ThreadKinds
    <3>3. \A n \in 0 .. dequeue_pos' - 1 : n \in 0 .. dequeue_pos - 1 \/ n = pos[c]
      BY <1>1, <3>1
    <3> QED
      BY <3>1, <3>2, <3>3 DEF ReadSoFar
  <2>2. CASE PopRead(c)
    <3>1. /\ dequeue_pos' = dequeue_pos /\ pos' = pos
          /\ \A g \in got : g \in got'
          /\ \E g \in got' : g.ticket = pos[c]
      <4>1. PICK g : g = [ticket |-> pos[c], tick |-> item'[c]]
        OBVIOUS
      <4>2. got' = got \cup {g} /\ dequeue_pos' = dequeue_pos /\ pos' = pos
        BY <2>2, <4>1 DEF PopRead
      <4>3. g.ticket = pos[c]
        BY <4>1
      <4> QED
        BY <4>2, <4>3
    <3>2. \A d \in Consumers : pc[d] = "read" => pc'[d] = "read" \/ d = c
      BY <1>3, ConsumeLeaves, ThreadKinds
    <3> QED
      BY <3>1, <3>2 DEF ReadSoFar
  <2>3. CASE ~PopClaim(c) /\ ~PopRead(c)
    <3>1. dequeue_pos' = dequeue_pos /\ got' = got /\ pc[c] # "read"
      BY <1>3, <2>3 DEF Consume, Register, Check, Count, PopLoad, PopReady, PopEmpty, PopStale,
         PopLost, PopRelease
    <3>2. \A d \in Consumers : pc[d] = "read" => pc'[d] = "read" /\ pos'[d] = pos[d]
      BY <1>3, <3>1, ConsumeLeaves, ThreadKinds
    <3> QED
      BY <3>1, <3>2 DEF ReadSoFar
  <2> QED
    BY <2>1, <2>2, <2>3
<1> QED
  BY <1>2, <1>3 DEF Next, Joined, vars, ReadSoFar

LEMMA OwingFinite ==
  /\ IsFiniteSet(Owing) /\ Cardinality(Owing) \in Nat
  /\ Owing = {} => Cardinality(Owing) = 0
<1>1. Owing \in SUBSET Consumers
  BY DEF Owing
<1> QED
  BY <1>1, ThreadCountAssumption, FS_Subset, FS_CardinalityType, FS_EmptySet

LEMMA CountedKept ==
  ASSUME IInv, Counted, [Next]_vars
  PROVE  Counted'
<1>1. /\ DOMAIN pc = Threads /\ dequeue_pos \in Nat /\ consumed \in Nat
      /\ IsFiniteSet(Owing) /\ Cardinality(Owing) \in Nat
  BY OwingFinite DEF IInv, TypeOK
<1>2. ASSUME NEW p \in Producers, Push(p) PROVE Counted'
  <2>1. Owing' = Owing
    BY <1>2, PushLeaves, ThreadKinds DEF Owing
  <2> QED
    BY <1>2, <2>1, PushLeaves DEF Counted
<1>3. ASSUME NEW c \in Consumers, Consume(c) PROVE Counted'
  <2>1. \A d \in Consumers \ {c} : pc'[d] = pc[d]
    BY <1>3, ConsumeLeaves, ThreadKinds
  <2>2. CASE PopClaim(c)
    <3>1. /\ dequeue_pos' = dequeue_pos + 1 /\ consumed' = consumed
          /\ pc[c] = "take" /\ pc'[c] = "read"
      BY <1>1, <2>2, ThreadKinds DEF PopClaim, Goto
    <3>2. Owing' = Owing \cup {c} /\ c \notin Owing
      BY <2>1, <3>1 DEF Owing
    <3>3. Cardinality(Owing') = Cardinality(Owing) + 1
      BY <1>1, <3>2, FS_AddElement
    <3> QED
      BY <1>1, <3>1, <3>3 DEF Counted
  <2>3. CASE Count(c)
    <3>1. /\ dequeue_pos' = dequeue_pos /\ consumed' = consumed + 1
          /\ pc[c] = "count" /\ pc'[c] = "check"
      BY <1>1, <2>3, ThreadKinds DEF Count, Goto
    <3>2. Owing' = Owing \ {c} /\ c \in Owing
      BY <2>1, <3>1 DEF Owing
    <3>3. Cardinality(Owing') = Cardinality(Owing) - 1
      BY <1>1, <3>2, FS_RemoveElement
    <3> QED
      BY <1>1, <3>1, <3>3 DEF Counted
  <2>4. CASE ~PopClaim(c) /\ ~Count(c)
    <3>1. dequeue_pos' = dequeue_pos /\ consumed' = consumed
      BY <1>3, <2>4 DEF Consume, Register, Check, PopLoad, PopReady, PopEmpty, PopStale, PopLost,
         PopRead, PopRelease
    <3>2. pc'[c] \in {"read", "release", "count"} <=> pc[c] \in {"read", "release", "count"}
      <4>1. CASE Register(c) \/ Check(c) \/ PopLoad(c) \/ PopReady(c) \/ PopEmpty(c)
        BY <1>1, <4>1, ThreadKinds DEF Register, Check, PopLoad, PopReady, PopEmpty, Goto
      <4>2. CASE PopStale(c) \/ PopLost(c) \/ PopRead(c) \/ PopRelease(c)
        BY <1>1, <4>2, ThreadKinds DEF PopStale, PopLost, PopRead, PopRelease, Goto
      <4> QED
        BY <1>3, <2>4, <4>1, <4>2 DEF Consume
    <3>3. Owing' = Owing
      BY <2>1, <3>2 DEF Owing
    <3> QED
      BY <3>1, <3>3 DEF Counted
  <2> QED
    BY <2>2, <2>3, <2>4
<1>4. ASSUME Joined \/ UNCHANGED vars PROVE Counted'
  <2>1. UNCHANGED <<dequeue_pos, consumed, pc>>
    BY <1>4 DEF Joined, vars
  <2> QED
    BY <2>1 DEF Counted, Owing
<1> QED
  BY <1>2, <1>3, <1>4 DEF Next

\* Producers times ticks is as many as there are ticks to produce.
LEMMA TicksCount ==
  IsFiniteSet(Ticks) /\ Cardinality(Ticks) = Total /\ Total \in Nat
<1> DEFINE P == Producers
           N == 0 .. TicksPerThread - 1
           f == [t \in Ticks |-> <<t.by, t.n>>]
<1>1. /\ IsFiniteSet(N) /\ Cardinality(N) = TicksPerThread
      /\ Cardinality(P) \in Nat
  <2>1. 0 \in Int /\ TicksPerThread - 1 \in Int
    BY TicksAssumption
  <2>2. IsFiniteSet(N) /\ Cardinality(N) = IF 0 > TicksPerThread - 1 THEN 0
                                           ELSE TicksPerThread - 1 - 0 + 1
    BY <2>1, FS_Interval
  <2>3. Cardinality(N) = TicksPerThread
    BY <2>2, TicksAssumption
  <2> QED
    BY <2>2, <2>3, ThreadCountAssumption, FS_CardinalityType
<1>2. IsFiniteSet(P \X N) /\ Cardinality(P \X N) = Cardinality(P) * Cardinality(N)
  BY <1>1, ThreadCountAssumption, FS_Product
<1>3. \A t \in Ticks : t.by \in P /\ t.n \in N /\ t = [by |-> t.by, n |-> t.n]
  BY DEF Ticks
<1>4. \A a \in P, b \in N : [by |-> a, n |-> b] \in Ticks
  BY DEF Ticks
<1> DEFINE h == [z \in P \X N |-> [by |-> z[1], n |-> z[2]]]
<1>5. h \in Bijection(P \X N, Ticks)
  <2>1. h \in [P \X N -> Ticks]
    BY <1>4
  <2>2. \A y, z \in P \X N : h[y] = h[z] => y = z
    <3> SUFFICES ASSUME NEW y \in P \X N, NEW z \in P \X N, h[y] = h[z] PROVE y = z
      OBVIOUS
    <3>1. y = <<y[1], y[2]>> /\ z = <<z[1], z[2]>>
      OBVIOUS
    <3>2. [by |-> y[1], n |-> y[2]] = [by |-> z[1], n |-> z[2]]
      OBVIOUS
    <3>3. y[1] = z[1] /\ y[2] = z[2]
      BY <3>2
    <3> QED
      BY <3>1, <3>3, Zenon
  <2>3. \A t \in Ticks : \E z \in P \X N : h[z] = t
    <3> SUFFICES ASSUME NEW t \in Ticks PROVE \E z \in P \X N : h[z] = t
      OBVIOUS
    <3>1. <<t.by, t.n>> \in P \X N /\ h[<<t.by, t.n>>] = t
      BY <1>3
    <3> QED
      BY <3>1
  <2> HIDE DEF h
  <2> QED
    BY <2>1, <2>2, <2>3, Fun_IsBij
<1>6. ExistsBijection(P \X N, Ticks)
  BY <1>5 DEF ExistsBijection
<1>7. IsFiniteSet(Ticks) /\ Cardinality(Ticks) = Cardinality(P \X N)
  BY <1>2, <1>6, FS_Bijection
<1>8. Total \in Nat /\ Cardinality(P) * TicksPerThread = Total
  BY <1>1, TicksAssumption DEF Total
<1> QED
  BY <1>1, <1>2, <1>7, <1>8

LEMMA DoneCountedKept ==
  ASSUME IInv, DoneCounted, [Next]_vars
  PROVE  DoneCounted'
<1>1. DOMAIN pc = Threads /\ consumed \in Nat /\ Total \in Nat
  BY TicksCount DEF IInv, TypeOK
<1>2. ASSUME NEW p \in Producers, Push(p) PROVE DoneCounted'
  BY <1>2, PushLeaves, ThreadKinds DEF DoneCounted, Total
<1>3. ASSUME NEW c \in Consumers, Consume(c) PROVE DoneCounted'
  <2>1. consumed' \in Nat /\ consumed' >= consumed
    BY <1>1, <1>3 DEF Consume, Register, Check, Count, PopLoad, PopReady, PopEmpty, PopStale,
       PopClaim, PopLost, PopRead, PopRelease
  <2>2. pc'[c] = "done" => consumed >= Total
    <3>1. CASE Check(c)
      BY <1>1, <3>1, ThreadKinds DEF Check, Goto
    <3>2. CASE Register(c) \/ PopLoad(c) \/ PopReady(c) \/ PopEmpty(c) \/ Count(c)
      BY <1>1, <3>2, ThreadKinds DEF Register, PopLoad, PopReady, PopEmpty, Count, Goto
    <3>3. CASE PopStale(c) \/ PopClaim(c) \/ PopLost(c) \/ PopRead(c) \/ PopRelease(c)
      BY <1>1, <3>3, ThreadKinds DEF PopStale, PopClaim, PopLost, PopRead, PopRelease, Goto
    <3> QED
      BY <1>3, <3>1, <3>2, <3>3 DEF Consume
  <2>3. \A d \in Consumers : pc'[d] = "done" => consumed' >= Total
    BY <1>1, <1>3, <2>1, <2>2, ConsumeLeaves, ThreadKinds DEF DoneCounted
  <2> QED
    BY <2>3 DEF DoneCounted, Total
<1> QED
  BY <1>2, <1>3 DEF Next, Joined, vars, DoneCounted, Total

LEMMA AlwaysTally == Spec => []Tally
<1>1. Init => Tally
  <2> SUFFICES ASSUME Init PROVE Tally
    OBVIOUS
  <2>1. /\ enqueue_pos = 0 /\ dequeue_pos = 0 /\ consumed = 0
        /\ \A p \in Producers : sent[p] = 0 /\ pc[p] = "load"
        /\ \A c \in Consumers : pc[c] = "register"
    BY ThreadKinds DEF Init
  <2>2. TicksLeft /\ SentWithin /\ ReadSoFar /\ DoneCounted
    BY <2>1, TicksAssumption DEF TicksLeft, SentWithin, ReadSoFar, DoneCounted
  <2>3. LoggedOnce
    BY <2>1 DEF LoggedOnce, Handed, Writing
  <2>4. Owing = {}
    BY <2>1 DEF Owing
  <2>5. Counted
    BY <2>1, <2>4, OwingFinite DEF Counted
  <2> QED
    BY <2>2, <2>3, <2>5 DEF Tally
<1>2. IInv /\ Tally /\ [Next]_vars => Tally'
  BY TicksLeftKept, SentWithinKept, LoggedOnceKept, ReadSoFarKept, CountedKept, DoneCountedKept
     DEF Tally
<1> QED
  BY <1>1, <1>2, AlwaysIInv, PTL DEF Spec

\* When every producer is done the log lists every tick once.
LEMMA LogIsComplete ==
  ASSUME IInv, Tally, Finished
  PROVE  /\ enqueue_pos = Total
         /\ \A t \in Ticks : \E i \in 1 .. Total : log[i] = t
         /\ \A i \in 1 .. Total : log[i] \in Ticks
<1> DEFINE e == enqueue_pos
           h == [i \in 1 .. e |-> log[i]]
<1>1. e \in Nat /\ \A p \in Producers : sent[p] = TicksPerThread /\ ~Writing(p)
  BY DEF IInv, TypeOK, Finished, Writing
<1>2. \A p \in Producers, n \in Nat : Handed(p, n) <=> n \in 0 .. TicksPerThread - 1
  BY <1>1, TicksAssumption DEF Handed
<1>3. \A i \in 1 .. e : log[i] \in Ticks
  <2> TAKE i \in 1 .. e
  <2>1. /\ log[i].by \in Producers /\ log[i].n \in Nat
        /\ log[i] = [by |-> log[i].by, n |-> log[i].n]
    BY LogEntries
  <2>2. PICK p \in Producers, n \in Nat : log[i] = [by |-> p, n |-> n]
    BY <2>1
  <2>3. n \in 0 .. TicksPerThread - 1
    BY <1>2, <2>2 DEF Tally, LoggedOnce
  <2> QED
    BY <2>2, <2>3 DEF Ticks
<1>4. \A t \in Ticks : \E i \in 1 .. e : log[i] = t
  <2> TAKE t \in Ticks
  <2>1. PICK p \in Producers, n \in 0 .. TicksPerThread - 1 : t = [by |-> p, n |-> n]
    BY DEF Ticks
  <2>2. n \in Nat
    BY TicksAssumption
  <2> QED
    BY <1>2, <2>1, <2>2 DEF Tally, LoggedOnce
<1>5. h \in Bijection(1 .. e, Ticks)
  <2>1. h \in [1 .. e -> Ticks] /\ \A i \in 1 .. e : h[i] = log[i]
    BY <1>3
  <2>2. \A i, j \in 1 .. e : h[i] = h[j] => i = j
    BY <2>1 DEF Tally, LoggedOnce
  <2>3. \A t \in Ticks : \E i \in 1 .. e : h[i] = t
    BY <1>4, <2>1
  <2> HIDE DEF h
  <2> QED
    BY <2>1, <2>2, <2>3, Fun_IsBij
<1>6. Cardinality(Ticks) = e
  <2>1. ExistsBijection(1 .. e, Ticks)
    BY <1>5 DEF ExistsBijection
  <2> QED
    BY <1>1, <2>1, FS_CountingElements
<1> QED
  BY <1>3, <1>4, <1>6, TicksCount

\* Then every pop ticket was read, and as many were handed out as there are ticks.
LEMMA AllWereRead ==
  ASSUME IInv, Tally, Finished
  PROVE  /\ dequeue_pos = Total /\ consumed = Total
         /\ \A n \in 0 .. Total - 1 : \E g \in got : g.ticket = n
<1>1. /\ dequeue_pos \in Nat /\ consumed \in Nat /\ enqueue_pos \in Nat /\ Total \in Nat
      /\ dequeue_pos <= enqueue_pos
  BY Numbers, TicksCount DEF IInv, TypeOK
<1>2. \A c \in Consumers : pc[c] = "done"
  BY DEF Finished
<1>3. Owing = {}
  BY <1>2 DEF Owing
<1>4. dequeue_pos = consumed
  BY <1>1, <1>3, OwingFinite DEF Tally, Counted
<1>5. consumed >= Total
  BY <1>2, ThreadCountAssumption DEF Tally, DoneCounted
<1>6. dequeue_pos = Total
  BY <1>1, <1>4, <1>5, LogIsComplete
<1> QED
  BY <1>2, <1>4, <1>6 DEF Tally, ReadSoFar

\* When main has joined the threads every tick of every producer was popped once and
\* only once and `consumed' counts them all, for any number of producers and
\* consumers (at least one), any capacity and any number of ticks.
THEOREM TicksExactlyOnce == Spec => []ExactlyOnce
<1>1. ASSUME IInv, Tally, Finished
      PROVE  /\ consumed = Total /\ Cardinality(got) = Total
             /\ {g.tick : g \in got} = Ticks
  <2>1. Total \in Nat
    BY TicksCount
  <2>2. /\ \A g \in got : g.ticket \in 0 .. Total - 1 /\ g.tick = log[g.ticket + 1]
        /\ \A g \in got : g = [ticket |-> g.ticket, tick |-> g.tick]
    <3>1. \A g \in got : g.ticket \in Nat /\ g = [ticket |-> g.ticket, tick |-> g.tick]
      <4>1. got \subseteq [ticket : Nat, tick : Tick]
        <5>1. TypeOK
          BY <1>1 DEF IInv
        <5> QED
          BY <5>1, Zenon DEF TypeOK
      <4>2. \A g \in [ticket : Nat, tick : Tick] :
               g.ticket \in Nat /\ g = [ticket |-> g.ticket, tick |-> g.tick]
        OBVIOUS
      <4> QED
        BY <4>1, <4>2, Zenon
    <3> QED
      BY <1>1, <2>1, <3>1, AllWereRead DEF IInv, GotMatches
  <2>3. \A g, k \in got : g.ticket = k.ticket => g = k
    <3> TAKE g, k \in got
    <3> HAVE g.ticket = k.ticket
    <3>1. g.tick = k.tick
      BY <2>2
    <3> QED
      BY <2>2, <3>1, Zenon
  <2>4. \A n \in 0 .. Total - 1 : \E g \in got : g.ticket = n
    BY <1>1, AllWereRead
  <2> DEFINE h == [g \in got |-> g.ticket]
  <2>5. h \in Bijection(got, 0 .. Total - 1)
    <3>1. h \in [got -> 0 .. Total - 1]
      BY <2>2
    <3>2. \A g, k \in got : h[g] = h[k] => g = k
      BY <2>3
    <3>3. \A n \in 0 .. Total - 1 : \E g \in got : h[g] = n
      BY <2>4
    <3> HIDE DEF h
    <3> QED
      BY <3>1, <3>2, <3>3, Fun_IsBij
  <2>6. Cardinality(got) = Total
    <3>1. Inverse(h, got, 0 .. Total - 1) \in Bijection(0 .. Total - 1, got)
      BY <2>5, Fun_BijInverse
    <3>2. ExistsBijection(0 .. Total - 1, got)
      BY <3>1 DEF ExistsBijection
    <3>3. IsFiniteSet(0 .. Total - 1) /\ Cardinality(0 .. Total - 1) = Total
      <4>1. 0 \in Int /\ Total - 1 \in Int
        BY <2>1
      <4>2. /\ IsFiniteSet(0 .. Total - 1)
            /\ Cardinality(0 .. Total - 1) = IF 0 > Total - 1 THEN 0 ELSE Total - 1 - 0 + 1
        BY <4>1, FS_Interval
      <4> QED
        BY <2>1, <4>2
    <3> QED
      BY <3>2, <3>3, FS_Bijection
  <2>7. \A i \in 1 .. Total : i - 1 \in 0 .. Total - 1 /\ i - 1 + 1 = i
    BY <2>1
  <2>8. \A n \in 0 .. Total - 1 : n + 1 \in 1 .. Total
    BY <2>1
  <2>9. \A g \in got : g.tick \in Ticks
    BY <1>1, <2>2, <2>8, LogIsComplete
  <2>10. \A t \in Ticks : \E g \in got : g.tick = t
    <3> TAKE t \in Ticks
    <3>1. PICK i \in 1 .. Total : log[i] = t
      BY <1>1, LogIsComplete
    <3>2. PICK g \in got : g.ticket = i - 1
      BY <2>4, <2>7
    <3>3. g.tick = log[i]
      BY <2>2, <2>7, <3>2
    <3> QED
      BY <3>1, <3>3
  <2> QED
    BY <1>1, <2>6, <2>9, <2>10, AllWereRead
<1>2. IInv /\ Tally => ExactlyOnce
  BY <1>1 DEF ExactlyOnce
<1> QED
  BY <1>2, AlwaysIInv, AlwaysTally, PTL

==================================================================================
