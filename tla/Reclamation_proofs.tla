--------------------------- MODULE Reclamation_proofs --------------------------
(***************************************************************************)
(* Proofs about the three programs that manage memory: HazardPointer, for  *)
(* any number of threads, any limit of the retired list, any nodes and any *)
(* length of the store buffers; EpochManager, for every size of the pool   *)
(* and every reclaim period; ObjectPool, for every capacity.               *)
(***************************************************************************)
EXTENDS HazardPointer, EpochManager, ObjectPool, SharedLemmas, SequenceTheorems,
        FiniteSetTheorems, TLAPS

-----------------------------------------------------------------------------
(* Lists.                                                                  *)

\* What a push_back adds to a list.
LEMMA ToSetAppend ==
  ASSUME NEW S, NEW s \in Seq(S), NEW x \in S
  PROVE  /\ Append(s, x) \in Seq(S) /\ ToSet(Append(s, x)) = ToSet(s) \cup {x}
         /\ Len(Append(s, x)) = Len(s) + 1 /\ Append(s, x)[Len(s) + 1] = x
<1>1. /\ Append(s, x) \in Seq(S) /\ Len(Append(s, x)) = Len(s) + 1
      /\ Append(s, x)[Len(s) + 1] = x
      /\ \A k \in 1 .. Len(s) : Append(s, x)[k] = s[k]
  OBVIOUS
<1>2. DOMAIN s = 1 .. Len(s) /\ DOMAIN Append(s, x) = 1 .. Len(s) + 1 /\ Len(s) \in Nat
  OBVIOUS
<1> QED
  BY <1>1, <1>2 DEF ToSet

\* What erasing one place of a list removes.
LEMMA ToSetRemoveAt ==
  ASSUME NEW S, NEW s \in Seq(S), NEW n \in 1 .. Len(s)
  PROVE  /\ RemoveAt(s, n) \in Seq(S)
         /\ ToSet(RemoveAt(s, n)) \subseteq ToSet(s)
         /\ \A x \in ToSet(s) : x # s[n] => x \in ToSet(RemoveAt(s, n))
<1>1. Len(s) \in Nat /\ DOMAIN s = 1 .. Len(s) /\ n \in Int /\ \A k \in 1 .. Len(s) : s[k] \in S
  OBVIOUS
<1>2. PICK r : r = RemoveAt(s, n)
  OBVIOUS
<1>5. /\ r \in Seq(S) /\ Len(r) = Len(s) - 1
      /\ \A k \in 1 .. n - 1 : r[k] = s[k]
      /\ \A k \in n .. Len(s) - 1 : r[k] = s[k + 1]
      /\ r = RemoveAt(s, n)
  BY <1>2, RemoveAtLeaves, Zenon
<1>4. DOMAIN r = 1 .. Len(s) - 1
  BY <1>5, LenProperties
<1>6. ASSUME NEW x \in ToSet(r) PROVE x \in ToSet(s)
  <2>1. PICK k \in 1 .. Len(s) - 1 : x = r[k]
    BY <1>4, <1>6, Zenon DEF ToSet
  <2>2. /\ k \in 1 .. Len(s) /\ k + 1 \in 1 .. Len(s)
        /\ k \in 1 .. n - 1 \/ k \in n .. Len(s) - 1
    BY <1>1
  <2> QED
    BY <1>1, <1>5, <2>1, <2>2, Zenon DEF ToSet
<1>7. ASSUME NEW x \in ToSet(s), x # s[n] PROVE x \in ToSet(r)
  <2>1. PICK k \in 1 .. Len(s) : x = s[k]
    BY <1>1 DEF ToSet
  <2>2. CASE k < n
    <3>1. k \in 1 .. n - 1 /\ k \in 1 .. Len(s) - 1
      BY <1>1, <2>2
    <3> QED
      BY <1>4, <1>5, <2>1, <3>1, Zenon DEF ToSet
  <2>3. CASE k > n
    <3>1. k - 1 \in n .. Len(s) - 1 /\ r[k - 1] = s[k]
      BY <1>1, <1>5, <2>1, <2>3
    <3>2. k - 1 \in 1 .. Len(s) - 1
      BY <1>1, <3>1
    <3> QED
      BY <1>4, <1>5, <2>1, <3>1, <3>2, Zenon DEF ToSet
  <2> QED
    BY <1>7, <2>1, <2>2, <2>3
<1> QED
  BY <1>5, <1>6, <1>7

-----------------------------------------------------------------------------
(* HazardPointer: what is not deleted.                                     *)

\* A protection that stands is of a node that was not deleted, and the scan has not
\* gone past this protection for this node.
Covered(t) ==
    /\ hp[t] \in Allocated
    /\ owner # None /\ it <= Len(retired_) /\ retired_[it] = hp[t] => next_hp <= t

\* The inductive invariant: a retired node is no longer in use, so no protection of it
\* can come to stand.
HazardInv == /\ HazardTypeOK
             /\ in_use \cap ToSet(retired_) = {}
             /\ \A t \in Tids : standing[t] => Covered(t)

\* A registry with no garbage.
LEMMA RegistryInit == ASSUME HazardInit PROVE HazardInv
  BY RegistryAssumption DEF HazardInit, HazardInv, HazardTypeOK, Tids, None

\* protect and clear change nothing that memory shows.
LEMMA StoreKeeps ==
  ASSUME HazardInv, NEW t \in Tids, NEW x \in Nodes \cup {None}, Store(t, x)
  PROVE  HazardInv'
<1>1. store_buffer' \in [Tids -> Seq(Nodes \cup {None})]
  <2>1. Append(store_buffer[t], x) \in Seq(Nodes \cup {None})
    BY DEF HazardInv, HazardTypeOK
  <2> QED
    BY <2>1 DEF Store, HazardInv, HazardTypeOK
<1>2. UNCHANGED <<hp, standing, garbage, in_use>>
  BY DEF Store
<1> QED
  BY <1>1, <1>2 DEF HazardInv, HazardTypeOK, Covered, Allocated, garbage

\* A protection stands from the moment it reaches memory if its node is in use: then the
\* retired list does not have the node, so no scan is past it.
LEMMA CommitKeeps == ASSUME HazardInv, NEW t \in Tids, Commit(t) PROVE HazardInv'
<1>1. store_buffer[t] \in Seq(Nodes \cup {None}) /\ store_buffer[t] # <<>>
  BY DEF HazardInv, HazardTypeOK, Commit
<1>2. Head(store_buffer[t]) \in Nodes \cup {None} /\ Tail(store_buffer[t]) \in Seq(Nodes \cup {None})
  BY <1>1, HeadTailProperties
<1>3. /\ hp' \in [Tids -> Nodes \cup {None}] /\ store_buffer' \in [Tids -> Seq(Nodes \cup {None})]
      /\ standing' \in [Tids -> BOOLEAN]
      /\ hp'[t] = Head(store_buffer[t]) /\ standing'[t] = (Head(store_buffer[t]) \in in_use)
      /\ \A u \in Tids \ {t} : hp'[u] = hp[u] /\ standing'[u] = standing[u]
      /\ UNCHANGED <<retired_, owner, it, next_hp, in_use>>
  BY <1>2 DEF HazardInv, HazardTypeOK, Commit, garbage
<1>4. HazardTypeOK' /\ (in_use \cap ToSet(retired_) = {})' /\ Allocated' = Allocated
  BY <1>3 DEF HazardInv, HazardTypeOK, Allocated
<1>5. standing'[t] => Covered(t)'
  <2> SUFFICES ASSUME Head(store_buffer[t]) \in in_use PROVE Covered(t)'
    BY <1>3
  <2>1. it <= Len(retired_) => retired_[it] # Head(store_buffer[t])
    BY DEF HazardInv, HazardTypeOK, ToSet
  <2> QED
    BY <1>3, <1>4, <2>1 DEF Covered, Allocated
<1>6. ASSUME NEW u \in Tids \ {t}, standing'[u] PROVE Covered(u)'
  BY <1>3, <1>4, <1>6 DEF HazardInv, Covered
<1> QED
  BY <1>4, <1>5, <1>6 DEF HazardInv

\* A node that is allocated was neither in use nor retired.
LEMMA CreateKeeps == ASSUME HazardInv, Create PROVE HazardInv'
<1>1. PICK n \in Nodes \ Allocated : in_use' = in_use \cup {n}
  BY DEF Create
<1>2. UNCHANGED <<hp, store_buffer, standing, retired_, owner, it, next_hp>>
  BY DEF Create, pointers, garbage
<1>3. HazardTypeOK' /\ (in_use \cap ToSet(retired_) = {})' /\ Allocated \subseteq Allocated'
  BY <1>1, <1>2 DEF HazardInv, HazardTypeOK, Allocated
<1> QED
  BY <1>2, <1>3 DEF HazardInv, Covered

\* retire moves a node in use into the list, with or without a scan to follow.
LEMMA PushedBack ==
  ASSUME HazardInv, NEW t \in Tids, PushBack(t)
  PROVE  /\ owner = None /\ store_buffer[t] = <<>> /\ UNCHANGED <<hp, store_buffer, standing>>
         /\ in_use' \subseteq Nodes /\ (in_use \cap ToSet(retired_) = {})' /\ Allocated' = Allocated
         /\ \E n \in in_use : /\ n \in Nodes /\ n \notin ToSet(retired_)
                              /\ retired_' = Append(retired_, n)
         /\ retired_' \in Seq(Nodes) /\ Len(retired_') = Len(retired_) + 1
<1>1. PICK n \in in_use : in_use' = in_use \ {n} /\ retired_' = Append(retired_, n)
  BY DEF PushBack
<1>2. retired_ \in Seq(Nodes) /\ n \in Nodes /\ n \notin ToSet(retired_)
  BY DEF HazardInv, HazardTypeOK
<1>3. /\ retired_' \in Seq(Nodes) /\ Len(retired_') = Len(retired_) + 1
      /\ ToSet(retired_') = ToSet(retired_) \cup {n}
  <2>1. /\ Append(retired_, n) \in Seq(Nodes) /\ Len(Append(retired_, n)) = Len(retired_) + 1
        /\ ToSet(Append(retired_, n)) = ToSet(retired_) \cup {n}
    BY <1>2, ToSetAppend
  <2> QED
    BY <1>1, <2>1, Zenon
<1>4. /\ in_use' \subseteq Nodes /\ (in_use \cap ToSet(retired_) = {})' /\ Allocated' = Allocated
  BY <1>1, <1>2, <1>3 DEF HazardInv, HazardTypeOK, Allocated
<1>5. owner = None /\ store_buffer[t] = <<>> /\ UNCHANGED <<hp, store_buffer, standing>>
  BY DEF PushBack, Drained, pointers
<1> QED
  BY <1>1, <1>2, <1>3, <1>4, <1>5

\* A scan begins before every protection.
LEMMA RetireKeeps ==
  ASSUME HazardInv, NEW t \in Tids, RetireNode(t) \/ RetireAtLimit(t)
  PROVE  HazardInv'
<1>1. PushBack(t)
  BY DEF RetireNode, RetireAtLimit
<1>2. /\ owner = None /\ UNCHANGED <<hp, store_buffer, standing>>
      /\ in_use' \subseteq Nodes /\ (in_use \cap ToSet(retired_) = {})' /\ Allocated' = Allocated
      /\ retired_' \in Seq(Nodes)
  BY <1>1, PushedBack
<1>3. \/ UNCHANGED <<owner, it, next_hp>>
      \/ owner' = t /\ it' = 1 /\ next_hp' = 0
  BY DEF RetireNode, RetireAtLimit
<1>4. 0 \in Tids /\ \A u \in Tids : 0 <= u
  BY RegistryAssumption DEF Tids
<1>5. HazardTypeOK'
  BY <1>2, <1>3, <1>4 DEF HazardInv, HazardTypeOK
<1>6. ASSUME NEW u \in Tids, standing[u] PROVE Covered(u)'
  BY <1>2, <1>3, <1>4, <1>6 DEF HazardInv, Covered
<1> QED
  BY <1>2, <1>5, <1>6 DEF HazardInv

\* The scan keeps a node it found protected, and tries the next hazard pointer when
\* the one it loaded protects another node: that one it has passed for good.
LEMMA ScanGoesOn ==
  ASSUME HazardInv, NEW t \in Tids, Keep(t) \/ TryNext(t)
  PROVE  HazardInv'
<1>1. /\ it <= Len(retired_) /\ UNCHANGED <<hp, store_buffer, standing, retired_, owner, in_use>>
      /\ \/ it' = it + 1 /\ next_hp' = 0
         \/ it' = it /\ next_hp' = next_hp + 1 /\ next_hp + 1 < MAX_THREADS /\ hp[next_hp] # retired_[it]
  BY DEF Keep, TryNext, Scanning, Hit, pointers
<1>2. /\ HazardTypeOK' /\ (in_use \cap ToSet(retired_) = {})' /\ Allocated' = Allocated
  BY RegistryAssumption, <1>1, SMTT(20) DEF HazardInv, HazardTypeOK, Allocated, Tids
<1>3. ASSUME NEW u \in Tids, standing[u] PROVE Covered(u)'
  <2>1. Covered(u) /\ next_hp \in Nat /\ u \in Nat
    BY <1>3 DEF HazardInv, HazardTypeOK, Tids
  <2> QED
    BY <1>1, <1>2, <2>1 DEF Covered
<1> QED
  BY <1>1, <1>2, <1>3 DEF HazardInv

\* A node is deleted after every hazard pointer was loaded without finding it: no
\* protection of it stands.
LEMMA DeleteKeeps == ASSUME HazardInv, NEW t \in Tids, Delete(t) PROVE HazardInv'
<1>1. /\ owner = t /\ it \in 1 .. Len(retired_) /\ retired_ \in Seq(Nodes)
      /\ next_hp + 1 = MAX_THREADS /\ hp[next_hp] # retired_[it]
      /\ next_hp' = 0 /\ UNCHANGED <<hp, store_buffer, standing, owner, it, in_use>>
  BY DEF Delete, Scanning, Hit, pointers, HazardInv, HazardTypeOK
<1>2. /\ retired_' \in Seq(Nodes) /\ ToSet(retired_') \subseteq ToSet(retired_)
      /\ \A x \in ToSet(retired_) : x # retired_[it] => x \in ToSet(retired_')
  BY <1>1, ToSetRemoveAt DEF Delete
<1>3. HazardTypeOK'
  BY RegistryAssumption, <1>1, <1>2 DEF HazardInv, HazardTypeOK, Tids
<1>4. (in_use \cap ToSet(retired_) = {})'
  BY <1>1, <1>2 DEF HazardInv
<1>5. ASSUME NEW u \in Tids, standing[u] PROVE Covered(u)'
  <2>1. Covered(u) /\ owner # None /\ u \in 0 .. MAX_THREADS - 1 /\ next_hp \in Nat
    BY <1>1, <1>5 DEF HazardInv, HazardTypeOK, Tids, None
  <2>2. hp[u] # retired_[it]
    BY RegistryAssumption, <1>1, <2>1 DEF Covered
  <2>3. hp[u] \in Allocated'
    BY <1>1, <1>2, <2>1, <2>2 DEF Covered, Allocated
  <2> QED
    BY <1>1, <2>1, <2>3 DEF Covered
<1> QED
  BY <1>1, <1>3, <1>4, <1>5 DEF HazardInv

\* The lock is given back at the end of the list.
LEMMA UnlockKeeps == ASSUME HazardInv, NEW t \in Tids, Unlock(t) PROVE HazardInv'
<1>1. owner' = None /\ UNCHANGED <<hp, store_buffer, standing, retired_, it, next_hp, in_use>>
  BY DEF Unlock, pointers
<1> QED
  BY <1>1 DEF HazardInv, HazardTypeOK, Covered, Allocated

\* Every step keeps the invariant.
LEMMA RegistryKept == ASSUME HazardInv, [HazardNext]_hazardVars PROVE HazardInv'
<1>1. CASE UNCHANGED hazardVars
  BY <1>1 DEF hazardVars, HazardInv, HazardTypeOK, Covered, Allocated
<1>2. ASSUME NEW t \in Tids, Protect(t) \/ Clear(t) PROVE HazardInv'
  <2>1. PICK x \in Nodes \cup {None} : Store(t, x)
    BY <1>2 DEF Protect, Clear, HazardInv, HazardTypeOK
  <2> QED
    BY <2>1, StoreKeeps
<1>3. CASE HazardNext
  BY <1>2, <1>3, CommitKeeps, CreateKeeps, RetireKeeps, ScanGoesOn, DeleteKeeps, UnlockKeeps
     DEF HazardNext
<1> QED
  BY <1>1, <1>3

\* The registry and its scan keep their types.
THEOREM RegistryTypesHold == HazardSpec => []HazardTypeOK
<1>1. HazardInit => HazardInv
  BY RegistryInit
<1>2. HazardInv /\ [HazardNext]_hazardVars => HazardInv'
  BY RegistryKept
<1>3. HazardInv => HazardTypeOK
  BY DEF HazardInv
<1> QED
  BY <1>1, <1>2, <1>3, PTL DEF HazardSpec

\* scan_and_reclaim: a node whose protection reached memory before it was retired is not
\* deleted while it is protected, however many threads there are.
THEOREM ProtectedSurvive == HazardSpec => []NothingProtectedFreed
<1>1. HazardInit => HazardInv
  BY RegistryInit
<1>2. HazardInv /\ [HazardNext]_hazardVars => HazardInv'
  BY RegistryKept
<1>3. HazardInv => NothingProtectedFreed
  BY DEF HazardInv, Covered, NothingProtectedFreed
<1> QED
  BY <1>1, <1>2, <1>3, PTL DEF HazardSpec
-----------------------------------------------------------------------------
(* EpochManager: the epochs.                                               *)

\* What a thread can do next.
Labels == {"enter", "announce", "allocate", "fill", "leave", "count", "wait", "read", "retire",
           "scan", "advance", "ended"}

\* The part of the types that the argument about epochs uses.
EpochTypes == /\ global_epoch \in Nat
              /\ thread_epochs \in [Threads -> Nat \cup {Out}]
              /\ loaded \in [Threads -> Nat] /\ since \in [Threads -> Nat]
              /\ pc \in [Threads -> Labels]

\* A thread inside announced an epoch it loaded before, and the epoch has gone on
\* by one at most.
Announced(t) == /\ thread_epochs[t] = loaded[t]
                /\ loaded[t] <= since[t]
                /\ global_epoch <= since[t] + 1

\* A scan that ended after the announcement saw it, so it holds the epoch back; one
\* that ended before can advance it from where the announcement found it, once.
ScanKnows(t) == global_epoch = since[t] \/ loaded[t] \in seen

\* The inductive invariant of the epochs.
EpochInv == /\ EpochTypes
            /\ \A t \in Threads :
                  /\ loaded[t] <= global_epoch /\ since[t] <= global_epoch
                  /\ Inside(t) => Announced(t)
                  /\ Inside(t) /\ pc["consumer"] = "advance" => ScanKnows(t)

\* A thread that moves without touching the epochs keeps the invariant, provided it
\* does not enter a critical section and does not end a scan.
LEMMA OtherSteps ==
  ASSUME EpochInv, NEW t \in Threads, NEW l \in Labels, pc' = [pc EXCEPT ![t] = l],
         UNCHANGED <<epochs, seen>>,
         l \in {"fill", "read", "leave"} => Inside(t), l \notin {"allocate", "advance"}
  PROVE  EpochInv'
<1>1. /\ pc' \in [Threads -> Labels] /\ pc'[t] = l
      /\ \A u \in Threads \ {t} : pc'[u] = pc[u]
  BY DEF EpochInv, EpochTypes
<1>2. \A u \in Threads : Inside(u)' => Inside(u)
  BY <1>1 DEF Inside
<1>3. pc'["consumer"] = "advance" => pc["consumer"] = "advance"
  BY <1>1 DEF Threads
<1> QED
  BY <1>1, <1>2, <1>3 DEF EpochInv, EpochTypes, epochs, Announced, ScanKnows

\* enter_critical loads the epoch.
LEMMA LoadEpochKeeps ==
  ASSUME EpochInv, NEW t \in Threads, pc[t] = "enter", LoadEpoch(t)
  PROVE  EpochInv'
<1>1. /\ pc' \in [Threads -> Labels] /\ pc'[t] = "announce"
      /\ \A u \in Threads \ {t} : pc'[u] = pc[u]
  BY DEF EpochInv, EpochTypes, Labels, Goto, LoadEpoch
<1>2. /\ loaded' \in [Threads -> Nat] /\ loaded'[t] = global_epoch
      /\ \A u \in Threads \ {t} : loaded'[u] = loaded[u]
  BY DEF EpochInv, EpochTypes, LoadEpoch
<1>3. \A u \in Threads : Inside(u)' => u # t /\ Inside(u)
  BY <1>1 DEF Inside
<1>4. pc'["consumer"] = "advance" => pc["consumer"] = "advance"
  BY <1>1 DEF Threads
<1>5. UNCHANGED <<global_epoch, thread_epochs, since, seen>>
  BY DEF LoadEpoch
<1> QED
  BY <1>1, <1>2, <1>3, <1>4, <1>5 DEF EpochInv, EpochTypes, Announced, ScanKnows

\* enter_critical publishes what it loaded.
LEMMA AnnounceKeeps ==
  ASSUME EpochInv, NEW t \in Threads, Announce(t)
  PROVE  EpochInv'
<1>1. PICK l \in {"allocate", "read"} : Goto(t, l)
  BY DEF Announce
<1>2. /\ pc' \in [Threads -> Labels] /\ pc'[t] = l
      /\ \A u \in Threads \ {t} : pc'[u] = pc[u]
  BY <1>1 DEF EpochInv, EpochTypes, Labels, Goto
<1>3. /\ thread_epochs' \in [Threads -> Nat \cup {Out}] /\ thread_epochs'[t] = loaded[t]
      /\ since' \in [Threads -> Nat] /\ since'[t] = global_epoch
      /\ \A u \in Threads \ {t} : thread_epochs'[u] = thread_epochs[u] /\ since'[u] = since[u]
  BY DEF EpochInv, EpochTypes, Announce
<1>4. \A u \in Threads : Inside(u)' => u = t \/ Inside(u)
  BY <1>2 DEF Inside
<1>5. pc'["consumer"] = "advance" => pc["consumer"] = "advance"
  BY <1>2 DEF Threads
<1>6. UNCHANGED <<global_epoch, loaded, seen>>
  BY DEF Announce
<1> QED
  BY <1>2, <1>3, <1>4, <1>5, <1>6 DEF EpochInv, EpochTypes, Announced, ScanKnows

\* leave_critical withdraws it.
LEMMA LeaveKeeps ==
  ASSUME EpochInv, NEW t \in Threads, Leave(t)
  PROVE  EpochInv'
<1>1. PICK l \in {"count", "retire"} : Goto(t, l)
  BY DEF Leave
<1>2. /\ pc' \in [Threads -> Labels] /\ pc'[t] = l
      /\ \A u \in Threads \ {t} : pc'[u] = pc[u]
  BY <1>1 DEF EpochInv, EpochTypes, Labels, Goto
<1>3. /\ thread_epochs' \in [Threads -> Nat \cup {Out}]
      /\ \A u \in Threads \ {t} : thread_epochs'[u] = thread_epochs[u]
  BY DEF EpochInv, EpochTypes, Leave
<1>4. \A u \in Threads : Inside(u)' => u # t /\ Inside(u)
  BY <1>2 DEF Inside
<1>5. pc'["consumer"] = "advance" => pc["consumer"] = "advance"
  BY <1>2 DEF Threads
<1>6. UNCHANGED <<global_epoch, loaded, since, seen>>
  BY DEF Leave
<1> QED
  BY <1>2, <1>3, <1>4, <1>5, <1>6 DEF EpochInv, EpochTypes, Announced, ScanKnows

\* The scan sees every thread that is inside.
LEMMA ScanKeeps == ASSUME EpochInv, Scan PROVE EpochInv'
<1>1. /\ pc' \in [Threads -> Labels] /\ pc'["consumer"] = "advance"
      /\ \A u \in Threads \ {"consumer"} : pc'[u] = pc[u]
  BY DEF EpochInv, EpochTypes, Labels, Goto, Scan, Threads
<1>2. UNCHANGED <<global_epoch, thread_epochs, loaded, since>>
  BY DEF Scan, epochs
<1>3. \A u \in Threads : Inside(u)' => Inside(u)
  BY <1>1 DEF Inside
<1>4. \A u \in Threads : Inside(u) => loaded[u] \in seen'
  <2> SUFFICES ASSUME NEW u \in Threads, Inside(u) PROVE loaded[u] \in seen'
    OBVIOUS
  <2>1. thread_epochs[u] = loaded[u] /\ loaded[u] # Out
    BY DEF EpochInv, EpochTypes, Announced, Out
  <2> QED
    BY <2>1 DEF Scan
<1> QED
  BY <1>1, <1>2, <1>3, <1>4 DEF EpochInv, EpochTypes, Announced, ScanKnows

\* An advance is one a scan allows: it has seen no thread inside at this epoch.
LEMMA AdvanceKeeps == ASSUME EpochInv, Advance PROVE EpochInv'
<1>1. /\ pc' \in [Threads -> Labels] /\ pc'["consumer"] = "count"
      /\ \A u \in Threads \ {"consumer"} : pc'[u] = pc[u]
  BY DEF EpochInv, EpochTypes, Labels, Goto, Advance, Threads
<1>2. global_epoch' = global_epoch + 1 /\ UNCHANGED <<thread_epochs, loaded, since, seen>>
  BY DEF Advance
<1>3. \A u \in Threads : Inside(u)' => Inside(u)
  BY <1>1 DEF Inside
<1>4. \A u \in Threads : Inside(u) => global_epoch = since[u]
  BY DEF EpochInv, EpochTypes, ScanKnows, Advance
<1> QED
  BY <1>1, <1>2, <1>3, <1>4 DEF EpochInv, EpochTypes, Announced

\* Every step keeps the epochs in order.
LEMMA EpochsKept == EpochInv /\ [Next]_vars => EpochInv'
<1> SUFFICES ASSUME EpochInv, [Next]_vars PROVE EpochInv'
  OBVIOUS
<1>0. "producer" \in Threads /\ "consumer" \in Threads
  BY DEF Threads
<1>1. CASE ProducerEnter
  BY <1>0, <1>1, LoadEpochKeeps DEF ProducerEnter
<1>2. CASE ConsumerEnter
  BY <1>0, <1>2, LoadEpochKeeps DEF ConsumerEnter
<1>3. ASSUME NEW t \in Threads, Announce(t) PROVE EpochInv'
  BY <1>3, AnnounceKeeps
<1>4. ASSUME NEW t \in Threads, Leave(t) PROVE EpochInv'
  BY <1>4, LeaveKeeps
<1>5. CASE Scan
  BY <1>5, ScanKeeps
<1>6. CASE Advance
  BY <1>6, AdvanceKeeps
<1>7. CASE Allocate
  <2>1. PICK l \in {"fill", "ended"} : pc' = [pc EXCEPT !["producer"] = l]
    BY <1>7 DEF Allocate, Goto
  <2> QED
    BY <1>0, <1>7, <2>1, OtherSteps DEF Labels, Allocate, Inside
<1>8. CASE Fill
  BY <1>0, <1>8, OtherSteps DEF Labels, Fill, Goto, Inside
<1>9. CASE Produced
  <2>1. PICK l \in {"enter", "ended"} : pc' = [pc EXCEPT !["producer"] = l]
    BY <1>9 DEF Produced, Goto
  <2> QED
    BY <1>0, <1>9, <2>1, OtherSteps DEF Labels, Produced
<1>10. CASE Await
  BY <1>0, <1>10, OtherSteps DEF Labels, Await, Goto
<1>11. CASE Read
  BY <1>0, <1>11, OtherSteps DEF Labels, Read, Goto, Inside
<1>12. CASE Retire
  <2>1. PICK l \in {"scan", "count"} : pc' = [pc EXCEPT !["consumer"] = l]
    BY <1>12 DEF Retire, Goto
  <2> QED
    BY <1>0, <1>12, <2>1, OtherSteps DEF Labels, Retire
<1>13. CASE Hold
  BY <1>0, <1>13, OtherSteps DEF Labels, Hold, Goto
<1>14. CASE Consumed
  <2>1. PICK l \in {"wait", "ended"} : pc' = [pc EXCEPT !["consumer"] = l]
    BY <1>14 DEF Consumed, Goto
  <2> QED
    BY <1>0, <1>14, <2>1, OtherSteps DEF Labels, Consumed
<1>15. CASE UNCHANGED vars
  BY <1>15 DEF vars, EpochInv, EpochTypes, Announced, ScanKnows, Inside
<1> QED
  BY <1>0, <1>1, <1>2, <1>3, <1>4, <1>5, <1>6, <1>7, <1>8, <1>9, <1>10, <1>11, <1>12, <1>13,
     <1>14, <1>15 DEF Next, Producer, Consumer, Joined

\* try_reclaim: while a thread is between enter_critical and leave_critical, however
\* stale the epoch it announced, the global epoch advances at most once.
THEOREM OneAdvanceAtMost == Spec => []AtMostOneAdvance
<1>1. Init => EpochInv
  BY DEF Init, EpochInv, EpochTypes, Labels, Inside, Threads, Out
<1>2. EpochInv => AtMostOneAdvance
  BY DEF EpochInv, AtMostOneAdvance, Announced
<1> QED
  BY <1>1, <1>2, EpochsKept, PTL DEF Spec

-----------------------------------------------------------------------------
(* The packets.                                                            *)

\* Where the two threads can be.
ThreadsInPlace ==
    /\ pc["producer"] \in {"enter", "announce", "allocate", "fill", "leave", "count", "ended"}
    /\ pc["consumer"] \in {"wait", "enter", "announce", "read", "leave", "retire", "scan",
                           "advance", "count", "ended"}

\* The producer is at packet number `produced', which it counts once it has left it.
ProducerInPlace ==
    /\ pc["producer"] \in {"enter", "announce", "allocate"} =>
          free_head = produced /\ produced < NUM_PACKETS
    /\ pc["producer"] \in {"fill", "leave", "count"} =>
          free_head = produced + 1 /\ pkt = produced /\ produced < NUM_PACKETS
    /\ pc["producer"] \in {"leave", "count"} => pool[produced] = produced
    /\ \A k \in Packets : k < produced => pool[k] = k

\* The consumer is at a packet already counted, and retires each once.
ConsumerInPlace ==
    /\ consumed <= produced
    /\ pc["consumer"] \notin {"wait", "ended"} => consumed < produced
    /\ pc["consumer"] = "wait" => consumed < NUM_PACKETS
    /\ retired_count <= IF pc["consumer"] \in {"scan", "advance", "count"} THEN consumed + 1
                                                                        ELSE consumed

\* The inductive invariant of the packets.
PacketsInv == TypeOK /\ ThreadsInPlace /\ ProducerInPlace /\ ConsumerInPlace

\* The first packet is free, none is filled.
LEMMA PacketsInit == ASSUME Init PROVE PacketsInv
  BY PacketsAssumption
     DEF Init, PacketsInv, TypeOK, ThreadsInPlace, ProducerInPlace, ConsumerInPlace, Threads, Packets,
         Out, Blank

\* The three steps both threads make.
LEMMA SharedSteps ==
  ASSUME PacketsInv, NEW t \in Threads,
         \/ pc[t] = "enter" /\ LoadEpoch(t)
         \/ Announce(t)
         \/ Leave(t)
  PROVE  PacketsInv'
<1> USE PacketsAssumption
<1>1. UNCHANGED <<retired, retired_count, free_head, pool, pkt, produced, consumed, seen>>
  BY DEF LoadEpoch, Announce, Leave, lists, packets, counts
<1>2. /\ global_epoch' \in Nat /\ thread_epochs' \in [Threads -> Nat \cup {Out}]
      /\ loaded' \in [Threads -> Nat] /\ since' \in [Threads -> Nat]
  BY DEF PacketsInv, TypeOK, LoadEpoch, Announce, Leave
<1>3. CASE t = "producer"
  <2>1. /\ pc' \in [Threads -> Labels] /\ pc'["consumer"] = pc["consumer"]
        /\ \/ pc["producer"] = "enter" /\ pc'["producer"] = "announce"
           \/ pc["producer"] = "announce" /\ pc'["producer"] = "allocate"
           \/ pc["producer"] = "leave" /\ pc'["producer"] = "count"
    BY <1>3 DEF PacketsInv, TypeOK, LoadEpoch, Announce, Leave, Goto, Threads, Labels
  <2> QED
    BY <1>1, <1>2, <2>1 DEF PacketsInv, TypeOK, Labels, ThreadsInPlace, ProducerInPlace, ConsumerInPlace
<1>4. CASE t = "consumer"
  <2>1. /\ pc' \in [Threads -> Labels] /\ pc'["producer"] = pc["producer"]
        /\ \/ pc["consumer"] = "enter" /\ pc'["consumer"] = "announce"
           \/ pc["consumer"] = "announce" /\ pc'["consumer"] = "read"
           \/ pc["consumer"] = "leave" /\ pc'["consumer"] = "retire"
    BY <1>4 DEF PacketsInv, TypeOK, LoadEpoch, Announce, Leave, Goto, Threads, Labels
  <2> QED
    BY <1>1, <1>2, <2>1 DEF PacketsInv, TypeOK, Labels, ThreadsInPlace, ProducerInPlace, ConsumerInPlace
<1> QED
  BY <1>3, <1>4 DEF Threads

\* The producer's own steps fill the next packet before it is counted.
LEMMA ProducerSteps ==
  ASSUME PacketsInv, Allocate \/ Fill \/ Produced
  PROVE  PacketsInv'
<1> USE PacketsAssumption
<1>1. CASE Allocate
  BY <1>1 DEF Allocate, Goto, epochs, lists, counts, PacketsInv, TypeOK, ThreadsInPlace,
              ProducerInPlace, ConsumerInPlace, Threads
<1>2. CASE Fill
  <2>1. /\ pc' = [pc EXCEPT !["producer"] = "leave"] /\ pc["producer"] = "fill"
        /\ produced \in Packets /\ pool' = [pool EXCEPT ![produced] = produced]
    BY <1>2 DEF Fill, Goto, PacketsInv, TypeOK, ProducerInPlace, Packets
  <2> QED
    BY <1>2, <2>1 DEF Fill, epochs, lists, counts, PacketsInv, TypeOK, ThreadsInPlace,
                      ProducerInPlace, ConsumerInPlace, Threads
<1>3. CASE Produced
  BY <1>3 DEF Produced, Goto, epochs, lists, packets, PacketsInv, TypeOK, ThreadsInPlace,
              ProducerInPlace, ConsumerInPlace, Threads, Packets
<1> QED
  BY <1>1, <1>2, <1>3

\* The consumer's own steps retire each counted packet once.
LEMMA ConsumerSteps ==
  ASSUME PacketsInv,
         Await \/ Read \/ Retire \/ Scan \/ Advance \/ Hold \/ Consumed
  PROVE  PacketsInv'
<1> USE PacketsAssumption
<1> USE DEF Goto, epochs, lists, packets, counts, PacketsInv, TypeOK, ThreadsInPlace,
            ProducerInPlace, ConsumerInPlace, Threads
<1>1. CASE Await
  BY <1>1 DEF Await
<1>2. CASE Read
  BY <1>2 DEF Read
<1>3. CASE Retire
  <2>1. consumed \in Packets /\ global_epoch % 3 \in 0 .. 2
    BY <1>3 DEF Retire, Packets
  <2>2. retired' \in [0 .. 2 -> [Packets -> Packets \cup {Blank}]]
    BY <1>3, <2>1 DEF Retire
  <2> QED
    BY <1>3, <2>2 DEF Retire
<1>4. CASE Scan
  BY <1>4 DEF Scan
<1>5. CASE Advance
  BY <1>5 DEF Advance
<1>6. CASE Hold
  BY <1>6 DEF Hold
<1>7. CASE Consumed
  BY <1>7 DEF Consumed
<1> QED
  BY <1>1, <1>2, <1>3, <1>4, <1>5, <1>6, <1>7

\* Every step keeps the threads in their places.
LEMMA PacketsKept == ASSUME PacketsInv, [Next]_vars PROVE PacketsInv'
<1>1. CASE UNCHANGED vars
  BY <1>1 DEF vars, PacketsInv, TypeOK, ThreadsInPlace, ProducerInPlace, ConsumerInPlace
<1>2. "producer" \in Threads /\ "consumer" \in Threads
  BY DEF Threads
<1> QED
  BY <1>1, <1>2, SharedSteps, ProducerSteps, ConsumerSteps
     DEF Next, Producer, Consumer, Joined, ProducerEnter, ConsumerEnter

\* The manager: counters and lists stay inside their arrays, whichever way the two
\* threads interleave and however rarely the epoch advances.
THEOREM EpochTypesHold == Spec => []TypeOK
<1>1. Init => PacketsInv
  BY PacketsInit
<1>2. PacketsInv /\ [Next]_vars => PacketsInv'
  BY PacketsKept
<1>3. PacketsInv => TypeOK
  BY DEF PacketsInv
<1> QED
  BY <1>1, <1>2, <1>3, PTL DEF Spec

\* main: the consumer reads and retires only packets filled before they were counted.
THEOREM PacketsReadWhole == Spec => []ReadsWholePackets
<1>1. Init => PacketsInv
  BY PacketsInit
<1>2. PacketsInv /\ [Next]_vars => PacketsInv'
  BY PacketsKept
<1>3. PacketsInv => ReadsWholePackets
  BY PacketsAssumption
     DEF PacketsInv, TypeOK, ProducerInPlace, ConsumerInPlace, ReadsWholePackets, Packets
<1> QED
  BY <1>1, <1>2, <1>3, PTL DEF Spec

-----------------------------------------------------------------------------
(* ObjectPool: the free list.                                              *)

\* The inductive invariant: the blocks are accounted for, and counted.
PoolInv == PoolTypeOK /\ alloc_count = Cardinality(live) /\ BlocksAccounted

\* The chain the free list is, with what the property says of it.
IsChain(chain, n) ==
    /\ chain \in [1 .. n -> Blocks]
    /\ \A j, k \in 1 .. n : chain[j] = chain[k] => j = k
    /\ {chain[k] : k \in 1 .. n} = Blocks \ live
    /\ FreeList(chain, n)

\* Blocks are accounted for when there is a chain of the blocks that are not counted.
LEMMA ChainAccounts == BlocksAccounted <=> \E chain : IsChain(chain, Capacity - alloc_count)
  BY DEF BlocksAccounted, IsChain

\* The constructor links all blocks.
LEMMA PoolStarts == ASSUME PoolInit PROVE PoolInv
<1>1. PoolTypeOK
  BY CapacityAssumption DEF PoolInit, PoolTypeOK, Blocks, Sentinel
<1>2. alloc_count = Cardinality(live) /\ alloc_count = 0
  BY FS_EmptySet DEF PoolInit
<1>3. PICK c : c = [k \in 1 .. Capacity |-> k - 1]
  OBVIOUS
<1>4. IsChain(c, Capacity)
  <2>1. c \in [1 .. Capacity -> Blocks] /\ \A k \in 1 .. Capacity : c[k] = k - 1
    BY <1>3, CapacityAssumption DEF Blocks
  <2>2. \A j, k \in 1 .. Capacity : c[j] = c[k] => j = k
    BY <2>1, CapacityAssumption
  <2>3. {c[k] : k \in 1 .. Capacity} = Blocks \ live
    <3>1. ASSUME NEW b \in Blocks PROVE \E k \in 1 .. Capacity : c[k] = b
      <4>1. b + 1 \in 1 .. Capacity /\ c[b + 1] = b
        BY <2>1, CapacityAssumption DEF Blocks
      <4> QED
        BY <4>1
    <3> QED
      BY <2>1, <3>1 DEF PoolInit
  <2>4. FreeList(c, Capacity)
    BY <2>1, CapacityAssumption DEF FreeList, PoolInit, Blocks, Sentinel
  <2> QED
    BY <2>1, <2>2, <2>3, <2>4 DEF IsChain
<1>5. Capacity - alloc_count = Capacity
  BY <1>2, CapacityAssumption
<1> QED
  BY <1>1, <1>2, <1>4, <1>5, ChainAccounts DEF PoolInv

\* allocate takes the first block of the chain.
LEMMA AllocateBlockKeeps == ASSUME PoolInv, AllocateBlock PROVE PoolInv'
<1>1. PICK n \in 0 .. Capacity : n = Capacity - alloc_count
  BY CapacityAssumption DEF PoolInv, PoolTypeOK
<1>2. PICK c : IsChain(c, n)
  BY <1>1, ChainAccounts DEF PoolInv
<1>3. n \in 1 .. Capacity /\ pool_head = c[1] /\ pool_head \in Blocks \ live
  BY <1>1, <1>2, CapacityAssumption DEF IsChain, FreeList, AllocateBlock, Sentinel
<1>4. PICK d : d = [k \in 1 .. n - 1 |-> c[k + 1]]
  OBVIOUS
<1>5. /\ d \in [1 .. n - 1 -> Blocks] /\ \A k \in 1 .. n - 1 : d[k] = c[k + 1]
      /\ \A k \in 1 .. n - 1 : k \in 1 .. n /\ k + 1 \in 1 .. n
  BY <1>2, <1>3, <1>4 DEF IsChain
<1>6. live' = live \cup {c[1]} /\ next_idx' = next_idx /\ pool_head' = next_idx[c[1]]
  BY <1>3 DEF AllocateBlock
<1>7. IsChain(d, n - 1)'
  <2>1. \A j, k \in 1 .. n - 1 : d[j] = d[k] => j = k
    BY <1>2, <1>3, <1>5 DEF IsChain
  <2>2. {d[k] : k \in 1 .. n - 1} = Blocks \ live'
    <3>1. ASSUME NEW k \in 1 .. n - 1 PROVE d[k] \in Blocks \ live'
      <4>1. d[k] = c[k + 1] /\ k + 1 \in 1 .. n /\ 1 \in 1 .. n /\ k + 1 # 1
        BY <1>3, <1>5
      <4>2. c[k + 1] \in Blocks \ live /\ c[k + 1] # c[1]
        BY <1>2, <4>1 DEF IsChain
      <4> QED
        BY <1>6, <4>1, <4>2
    <3>2. ASSUME NEW b \in Blocks \ live' PROVE \E k \in 1 .. n - 1 : d[k] = b
      <4>1. PICK k \in 1 .. n : c[k] = b
        BY <1>2, <1>6, <3>2 DEF IsChain
      <4>2. k # 1
        BY <1>6, <3>2, <4>1
      <4>3. k - 1 \in 1 .. n - 1 /\ d[k - 1] = b
        BY <1>3, <1>5, <4>1, <4>2
      <4> QED
        BY <4>3
    <3> QED
      BY <3>1, <3>2
  <2>3. FreeList(d, n - 1)'
    <3>1. pool_head' = IF n = 1 THEN Sentinel ELSE c[2]
      BY <1>2, <1>3, <1>6 DEF IsChain, FreeList
    <3>2. \A k \in 1 .. n - 1 : next_idx'[d[k]] = IF k + 1 = n THEN Sentinel ELSE c[k + 2]
      BY <1>2, <1>5, <1>6 DEF IsChain, FreeList
    <3>3. \A k \in 1 .. n - 1 : k # n - 1 => d[k + 1] = c[k + 2]
      BY <1>3, <1>5
    <3>4. \A k \in 1 .. n - 1 : k + 1 = n <=> k = n - 1
      BY <1>3
    <3>5. n # 1 => d[1] = c[2]
      BY <1>3, <1>5
    <3>6. n - 1 = 0 <=> n = 1
      BY <1>3
    <3> QED
      BY <3>1, <3>2, <3>3, <3>4, <3>5, <3>6 DEF FreeList, Sentinel
  <2> QED
    BY <1>5, <2>1, <2>2, <2>3 DEF IsChain
<1>8. alloc_count' = alloc_count + 1 /\ Capacity - alloc_count' = n - 1
  BY <1>1, CapacityAssumption DEF AllocateBlock, PoolInv, PoolTypeOK
<1>9. BlocksAccounted'
  <2>1. BlocksAccounted' <=> \E chain : IsChain(chain, Capacity - alloc_count)'
    BY DEF BlocksAccounted, IsChain
  <2> QED
    BY <1>7, <1>8, <2>1 DEF IsChain, FreeList
<1>10. alloc_count' = Cardinality(live')
  <2>1. IsFiniteSet(Blocks) /\ live \subseteq Blocks
    BY FS_Interval, CapacityAssumption DEF Blocks, PoolInv, PoolTypeOK
  <2> QED
    BY <1>3, <1>6, <1>8, <2>1, FS_Subset, FS_AddElement DEF PoolInv
<1>11. PoolTypeOK'
  <2>1. pool_head' \in Blocks \cup {Sentinel}
    BY <1>3, <1>6 DEF PoolInv, PoolTypeOK
  <2> QED
    BY <1>1, <1>3, <1>6, <1>8, <2>1, CapacityAssumption DEF PoolInv, PoolTypeOK
<1> QED
  BY <1>9, <1>10, <1>11 DEF PoolInv

\* deallocate puts the block before the first of the chain.
LEMMA DeallocateKeeps == ASSUME PoolInv, NEW b \in Blocks, Deallocate(b) PROVE PoolInv'
<1>1. PICK n \in 0 .. Capacity : n = Capacity - alloc_count
  BY CapacityAssumption DEF PoolInv, PoolTypeOK
<1>2. PICK c : IsChain(c, n)
  BY <1>1, ChainAccounts DEF PoolInv
<1>3. /\ b \in live /\ live' = live \ {b} /\ pool_head' = b
      /\ next_idx'[b] = pool_head /\ \A a \in Blocks \ {b} : next_idx'[a] = next_idx[a]
      /\ next_idx' \in [Blocks -> Blocks \cup {Sentinel}]
  BY DEF Deallocate, PoolInv, PoolTypeOK
<1>4. \A k \in 1 .. n : c[k] \in Blocks \ {b}
  BY <1>2, <1>3 DEF IsChain
<1>5. PICK d : d = [k \in 1 .. n + 1 |-> IF k = 1 THEN b ELSE c[k - 1]]
  OBVIOUS
<1>6. /\ d \in [1 .. n + 1 -> Blocks] /\ d[1] = b
      /\ \A k \in 1 .. n + 1 : k # 1 => k - 1 \in 1 .. n /\ d[k] = c[k - 1]
      /\ \A k \in 1 .. n : k + 1 \in 1 .. n + 1 /\ d[k + 1] = c[k]
  BY <1>4, <1>5
<1>7. IsChain(d, n + 1)'
  <2>1. \A j, k \in 1 .. n + 1 : d[j] = d[k] => j = k
    <3> SUFFICES ASSUME NEW j \in 1 .. n + 1, NEW k \in 1 .. n + 1, d[j] = d[k] PROVE j = k
      OBVIOUS
    <3>1. CASE j = 1 \/ k = 1
      BY <1>4, <1>6, <3>1
    <3>2. CASE j # 1 /\ k # 1
      <4>1. j - 1 = k - 1
        BY <1>2, <1>6, <3>2 DEF IsChain
      <4> QED
        BY <1>1, <4>1
    <3> QED
      BY <3>1, <3>2
  <2>2. {d[k] : k \in 1 .. n + 1} = Blocks \ live'
    <3>1. ASSUME NEW k \in 1 .. n + 1 PROVE d[k] \in Blocks \ live'
      <4>1. CASE k = 1
        BY <1>3, <1>6, <4>1
      <4>2. CASE k # 1
        <5>1. d[k] = c[k - 1] /\ k - 1 \in 1 .. n
          BY <1>6, <4>2
        <5> QED
          BY <1>2, <1>3, <5>1 DEF IsChain
      <4> QED
        BY <4>1, <4>2
    <3>2. ASSUME NEW a \in Blocks \ live' PROVE \E k \in 1 .. n + 1 : d[k] = a
      <4>1. CASE a = b
        <5>1. 1 \in 1 .. n + 1
          BY <1>1
        <5> QED
          BY <1>6, <4>1, <5>1
      <4>2. CASE a # b
        <5>1. PICK k \in 1 .. n : c[k] = a
          BY <1>2, <1>3, <3>2, <4>2 DEF IsChain
        <5> QED
          BY <1>6, <5>1
      <4> QED
        BY <4>1, <4>2
    <3> QED
      BY <3>1, <3>2
  <2>3. FreeList(d, n + 1)'
    <3>1. pool_head' = d[1] /\ n + 1 # 0
      BY <1>1, <1>3, <1>6
    <3>2. next_idx'[d[1]] = IF n = 0 THEN Sentinel ELSE c[1]
      BY <1>2, <1>3, <1>6 DEF IsChain, FreeList
    <3>3. n # 0 => d[2] = c[1]
      BY <1>1, <1>6
    <3>4. \A k \in 1 .. n : next_idx'[d[k + 1]] = IF k = n THEN Sentinel ELSE c[k + 1]
      BY <1>2, <1>3, <1>4, <1>6 DEF IsChain, FreeList
    <3>5. \A k \in 1 .. n : k # n => c[k + 1] = d[k + 2]
      BY <1>1, <1>6
    <3>6. ASSUME NEW k \in 1 .. n + 1
          PROVE  next_idx'[d[k]] = IF k = n + 1 THEN Sentinel ELSE d[k + 1]
      <4>1. CASE k = 1
        BY <1>1, <3>2, <3>3, <4>1
      <4>2. CASE k # 1
        <5>1. PICK m \in 1 .. n : k = m + 1
          BY <1>1, <1>6, <4>2
        <5>2. k = n + 1 <=> m = n
          BY <1>1, <5>1
        <5>3. d[k + 1] = d[m + 2]
          BY <5>1
        <5> QED
          BY <3>4, <3>5, <5>1, <5>2, <5>3
      <4> QED
        BY <4>1, <4>2
    <3> QED
      BY <3>1, <3>6 DEF FreeList, Sentinel
  <2> QED
    BY <1>6, <2>1, <2>2, <2>3 DEF IsChain
<1>8. IsFiniteSet(live) /\ Cardinality(live') = Cardinality(live) - 1 /\ Cardinality(live) # 0
  <2>1. IsFiniteSet(Blocks) /\ live \subseteq Blocks
    BY FS_Interval, CapacityAssumption DEF Blocks, PoolInv, PoolTypeOK
  <2>2. IsFiniteSet(live)
    BY <2>1, FS_Subset
  <2> QED
    BY <1>3, <2>2, FS_RemoveElement, FS_EmptySet
<1>9. /\ alloc_count' = alloc_count - 1 /\ alloc_count' \in 0 .. Capacity
      /\ Capacity - alloc_count' = n + 1
  BY <1>1, <1>8, CapacityAssumption DEF Deallocate, PoolInv, PoolTypeOK
<1>10. BlocksAccounted'
  <2>1. BlocksAccounted' <=> \E chain : IsChain(chain, Capacity - alloc_count)'
    BY DEF BlocksAccounted, IsChain
  <2> QED
    BY <1>7, <1>9, <2>1 DEF IsChain, FreeList
<1>11. PoolTypeOK'
  BY <1>3, <1>9 DEF PoolInv, PoolTypeOK
<1> QED
  BY <1>8, <1>9, <1>10, <1>11 DEF PoolInv

\* ObjectPool: whatever order blocks come back in, every block is held or free once.
THEOREM BlocksHeldOrFree == PoolSpec => []BlocksAccounted
<1>1. PoolInit => PoolInv
  BY PoolStarts
<1>2. PoolInv /\ [PoolNext]_poolVars => PoolInv'
  <2>1. CASE UNCHANGED poolVars
    BY <2>1 DEF poolVars, PoolInv, PoolTypeOK, BlocksAccounted, FreeList
  <2> QED
    BY <2>1, AllocateBlockKeeps, DeallocateKeeps DEF PoolNext, Exhausted
<1>3. PoolInv => BlocksAccounted
  BY DEF PoolInv
<1> QED
  BY <1>1, <1>2, <1>3, PTL DEF PoolSpec

-----------------------------------------------------------------------------
(* HazardPointer: how many a scan keeps.                                   *)

\* The values hp_[t] has and will have: the one in memory and those whose stores wait.
Coming(t, j) == IF j = 0 THEN hp[t] ELSE store_buffer[t][j]

\* No more stores wait than fit, and none of the thread that scans.
BuffersFit ==
    /\ \A t \in Tids : Len(store_buffer[t]) <= StoreBuffer
    /\ owner # None => store_buffer[owner] = <<>>

\* The protections one thread can have at most, in memory and on their way.
Room == 1 + StoreBuffer
Quota(t) == IF t = owner THEN 1 ELSE Room

\* The protections of t that the rest of the scan could still find in the list.
Unscanned == {retired_[k] : k \in it .. Len(retired_)}
Hits(t) == {j \in 0 .. Len(store_buffer[t]) : Coming(t, j) \in Unscanned}

\* A node is retired once.
NoRepeats == \A j, k \in 1 .. Len(retired_) : retired_[j] = retired_[k] => j = k

\* Every node the scan has kept is put down to a protection of some thread that is used
\* up: numbers up to the quota less the hits the thread still has.
Tallies(f) ==
    /\ f \in [1 .. it - 1 -> Tids \X (1 .. Room)]
    /\ \A j, k \in 1 .. it - 1 : f[j] = f[k] => j = k
    /\ \A k \in 1 .. it - 1 : f[k][2] <= Quota(f[k][1]) - Cardinality(Hits(f[k][1]))

ScanTallied == owner # None => it <= Len(retired_) + 1 /\ \E f : Tallies(f)

\* The inductive invariant of the bound.
BoundInv == HazardInv /\ BuffersFit /\ NoRepeats /\ ScanTallied

\* The values to come of a thread are nodes or null.
LEMMA ComingTypes ==
  ASSUME HazardInv, NEW t \in Tids
  PROVE  /\ Len(store_buffer[t]) \in Nat
         /\ None \notin Unscanned /\ Unscanned \subseteq ToSet(retired_)
         /\ IsFiniteSet(Hits(t)) /\ Cardinality(Hits(t)) \in Nat
         /\ Cardinality(Hits(t)) <= Len(store_buffer[t]) + 1
<1>1. /\ store_buffer[t] \in Seq(Nodes \cup {None}) /\ retired_ \in Seq(Nodes) /\ it \in Nat \ {0}
  BY DEF HazardInv, HazardTypeOK
<1>2. PICK n \in Nat : n = Len(store_buffer[t])
  BY <1>1
<1>3. None \notin Unscanned /\ Unscanned \subseteq ToSet(retired_)
  BY <1>1, RegistryAssumption DEF Unscanned, ToSet
<1>4. IsFiniteSet(0 .. n) /\ Cardinality(0 .. n) = n + 1
  BY FS_Interval
<1>5. Hits(t) \subseteq 0 .. n
  BY <1>2 DEF Hits
<1>6. /\ IsFiniteSet(Hits(t)) /\ Cardinality(Hits(t)) <= n + 1
      /\ Cardinality(Hits(t)) \in Nat
  BY <1>4, <1>5, FS_Subset, FS_CardinalityType
<1> QED
  BY <1>2, <1>3, <1>6

\* A thread has no more hits than its quota.
LEMMA HitsFit ==
  ASSUME BoundInv, NEW t \in Tids
  PROVE  /\ Cardinality(Hits(t)) <= Quota(t) /\ Quota(t) \in Nat
         /\ Quota(t) <= Room /\ Room \in Nat /\ (t = owner => Quota(t) = 1)
<1>1. /\ Len(store_buffer[t]) \in Nat /\ Len(store_buffer[t]) <= StoreBuffer
      /\ Cardinality(Hits(t)) \in Nat /\ Cardinality(Hits(t)) <= Len(store_buffer[t]) + 1
  BY ComingTypes DEF BoundInv, BuffersFit
<1>2. t = owner => Len(store_buffer[t]) = 0
  BY RegistryAssumption DEF BoundInv, BuffersFit, Tids, None
<1> QED
  BY <1>1, <1>2, RegistryAssumption DEF Quota, Room

\* The tally stands while the scan stays where it is and no thread has more hits.
LEMMA TallyStands ==
  ASSUME BoundInv, HazardInv', UNCHANGED <<owner, it>>,
         owner # None => it <= Len(retired_') + 1,
         \A u \in Tids : Cardinality(Hits(u)') <= Cardinality(Hits(u))
  PROVE  ScanTallied'
<1> SUFFICES ASSUME owner # None PROVE ScanTallied'
  BY DEF ScanTallied
<1>1. PICK f : Tallies(f)
  BY DEF BoundInv, ScanTallied
<1>2. ASSUME NEW u \in Tids
      PROVE  Cardinality(Hits(u)) \in Nat /\ Cardinality(Hits(u)') \in Nat
  <2>1. PICK n \in Nat : n = Len(store_buffer'[u])
    BY DEF HazardInv, HazardTypeOK
  <2>2. Hits(u)' \subseteq 0 .. n
    BY <2>1 DEF Hits
  <2>3. IsFiniteSet(0 .. n)
    BY FS_Interval
  <2>4. Cardinality(Hits(u)) \in Nat
    BY ComingTypes DEF BoundInv
  <2> QED
    BY <2>2, <2>3, <2>4, FS_Subset, FS_CardinalityType
<1>3. ASSUME NEW k \in 1 .. it - 1
      PROVE  f[k][2] <= Quota(f[k][1])' - Cardinality(Hits(f[k][1])')
  <2>1. f[k][1] \in Tids /\ f[k][2] \in 1 .. Room
    BY <1>1 DEF Tallies
  <2>2. PICK u \in Tids : u = f[k][1]
    BY <2>1
  <2>3. f[k][2] <= Quota(u) - Cardinality(Hits(u))
    BY <1>1, <2>2 DEF Tallies
  <2>4. Quota(u)' = Quota(u)
    BY DEF Quota, Room
  <2>5. f[k][2] <= Quota(u) - Cardinality(Hits(u)')
    BY <1>2, <2>1, <2>3, HitsFit
  <2> QED
    BY <2>2, <2>4, <2>5
<1>4. Tallies(f)'
  BY <1>1, <1>3 DEF Tallies, Room
<1> QED
  BY <1>4 DEF ScanTallied

\* A thread whose protections stay as they are has no more hits.
LEMMA HitsRest ==
  ASSUME HazardInv, NEW u \in Tids, Unscanned' \subseteq Unscanned,
         hp'[u] = hp[u], store_buffer'[u] = store_buffer[u]
  PROVE  Hits(u)' \subseteq Hits(u) /\ Cardinality(Hits(u)') <= Cardinality(Hits(u))
<1>1. Hits(u)' \subseteq Hits(u)
  BY DEF Hits, Coming
<1> QED
  BY <1>1, ComingTypes, FS_Subset

\* A node about to be protected is in use, and the list of a scan that is under way does
\* not have it.
LEMMA HitsStored ==
  ASSUME BoundInv, NEW t \in Tids, NEW x \in in_use \cup {None}, Store(t, x)
  PROVE  BuffersFit' /\ Cardinality(Hits(t)') <= Cardinality(Hits(t))
<1>1. PICK n : n = Len(store_buffer[t])
  OBVIOUS
<1>2. /\ store_buffer[t] \in Seq(Nodes \cup {None}) /\ n \in Nat /\ n < StoreBuffer /\ owner # t
      /\ x \in Nodes \cup {None} /\ UNCHANGED <<hp, retired_, it, owner>>
  BY <1>1 DEF BoundInv, HazardInv, HazardTypeOK, Store, garbage
<1>3. PICK b : b = Append(store_buffer[t], x)
  OBVIOUS
<1>4. store_buffer'[t] = b /\ \A u \in Tids \ {t} : store_buffer'[u] = store_buffer[u]
  BY <1>3 DEF Store, BoundInv, HazardInv, HazardTypeOK
<1>5. /\ Len(b) = n + 1 /\ b[n + 1] = x
      /\ \A j \in 1 .. n : b[j] = store_buffer[t][j]
  BY <1>1, <1>2, <1>3, AppendProperties
<1>6. \A j \in 0 .. n : Coming(t, j)' = Coming(t, j)
  BY <1>1, <1>2, <1>4, <1>5 DEF Coming
<1>7. x \notin Unscanned /\ Unscanned' = Unscanned
  BY <1>2, ComingTypes DEF Unscanned, BoundInv, HazardInv
<1>8. Coming(t, n + 1)' = x
  BY <1>2, <1>4, <1>5 DEF Coming
<1>9. Hits(t)' \subseteq Hits(t)
  <2>1. ASSUME NEW j \in 0 .. n + 1, Coming(t, j)' \in Unscanned PROVE j \in Hits(t)
    <3>1. j \in 0 .. n
      BY <1>2, <1>7, <1>8, <2>1
    <3> QED
      BY <1>1, <1>6, <2>1, <3>1 DEF Hits
  <2> QED
    BY <1>4, <1>5, <1>7, <2>1 DEF Hits
<1>10. BuffersFit'
  <2>1. n + 1 <= StoreBuffer
    BY <1>2, RegistryAssumption
  <2>2. \A u \in Tids : Len(store_buffer'[u]) <= StoreBuffer
    BY <1>4, <1>5, <2>1 DEF BoundInv, BuffersFit
  <2>3. owner # None => owner \in Tids \ {t}
    BY <1>2 DEF BoundInv, HazardInv, HazardTypeOK
  <2> QED
    BY <1>2, <1>4, <2>2, <2>3 DEF BoundInv, BuffersFit
<1> QED
  BY <1>9, <1>10, ComingTypes, FS_Subset DEF BoundInv

\* A store that arrives brings every value to come one place nearer.
LEMMA HitsCommitted ==
  ASSUME BoundInv, NEW t \in Tids, Commit(t)
  PROVE  BuffersFit' /\ Cardinality(Hits(t)') <= Cardinality(Hits(t))
<1>2. store_buffer[t] \in Seq(Nodes \cup {None}) /\ store_buffer[t] # <<>>
  BY DEF BoundInv, HazardInv, HazardTypeOK, Commit
<1>3. PICK b : b = Tail(store_buffer[t])
  OBVIOUS
<1>4. PICK n \in Nat : n = Len(b)
  BY <1>2, <1>3, HeadTailProperties
<1>5. /\ Len(store_buffer[t]) = n + 1 /\ Head(store_buffer[t]) = store_buffer[t][1]
      /\ \A j \in 1 .. n : b[j] = store_buffer[t][j + 1]
  BY <1>2, <1>3, <1>4, HeadTailProperties
<1>6. /\ hp'[t] = store_buffer[t][1] /\ store_buffer'[t] = b
      /\ \A u \in Tids \ {t} : store_buffer'[u] = store_buffer[u]
      /\ UNCHANGED <<retired_, it, owner>>
  BY <1>3, <1>5 DEF Commit, garbage, BoundInv, HazardInv, HazardTypeOK
<1>7. \A j \in 0 .. n : Coming(t, j)' = Coming(t, j + 1)
  BY <1>4, <1>5, <1>6 DEF Coming
<1>8. Cardinality(Hits(t)') <= Cardinality(Hits(t))
  <2>1. Unscanned' = Unscanned
    BY <1>6 DEF Unscanned
  <2>2. PICK h : h = [j \in Hits(t)' |-> j + 1]
    OBVIOUS
  <2>3. ASSUME NEW j \in Hits(t)' PROVE j \in Nat /\ h[j] = j + 1 /\ h[j] \in Hits(t)
    <3>1. j \in 0 .. n /\ Coming(t, j)' \in Unscanned
      BY <1>4, <1>6, <2>1, <2>3 DEF Hits
    <3>2. j + 1 \in 0 .. Len(store_buffer[t]) /\ Coming(t, j + 1) \in Unscanned
      BY <1>5, <1>7, <3>1
    <3> QED
      BY <2>2, <3>1, <3>2 DEF Hits
  <2>4. h \in Injection(Hits(t)', Hits(t))
    BY <2>2, <2>3 DEF Injection, IsInjective
  <2> QED
    BY <2>4, ComingTypes, FS_Injection DEF BoundInv
<1>9. BuffersFit'
  <2>1. n <= StoreBuffer
    BY <1>5, RegistryAssumption DEF BoundInv, BuffersFit
  <2>2. owner # None => owner \in Tids \ {t}
    BY <1>2 DEF BoundInv, BuffersFit, HazardInv, HazardTypeOK
  <2> QED
    BY <1>4, <1>6, <2>1, <2>2 DEF BoundInv, BuffersFit
<1> QED
  BY <1>8, <1>9

\* The scan keeps a node: the thread that protects it has used up one more.
LEMMA KeepTallies ==
  ASSUME BoundInv, NEW t \in Tids, Keep(t)
  PROVE  ScanTallied'
<1>1. /\ owner = t /\ it \in 1 .. Len(retired_) /\ hp[next_hp] = retired_[it]
      /\ it' = it + 1 /\ UNCHANGED <<hp, store_buffer, retired_, owner>>
  BY DEF Keep, Scanning, Hit, pointers, BoundInv, HazardInv, HazardTypeOK
<1>2. owner # None
  BY <1>1 DEF Tids, None
<1>3. PICK w \in Tids : w = next_hp
  BY DEF BoundInv, HazardInv, HazardTypeOK
<1>4. /\ retired_ \in Seq(Nodes) /\ it \in Nat \ {0} /\ Len(retired_) \in Nat
  BY <1>1 DEF BoundInv, HazardInv, HazardTypeOK
<1>5. HazardInv
  BY DEF BoundInv
<1>6. Unscanned' \subseteq Unscanned /\ retired_[it] \in Unscanned /\ retired_[it] \notin Unscanned'
  BY <1>1, <1>4 DEF Unscanned, BoundInv, NoRepeats
<1>7. \A u \in Tids : Hits(u)' \subseteq Hits(u) /\ Cardinality(Hits(u)') <= Cardinality(Hits(u))
  BY <1>1, <1>5, <1>6, HitsRest
<1>8. Cardinality(Hits(w)') < Cardinality(Hits(w))
  <2>1. 0 \in Hits(w)
    <3>1. Len(store_buffer[w]) \in Nat
      BY <1>5, ComingTypes
    <3> QED
      BY <1>1, <1>3, <1>6, <3>1 DEF Hits, Coming
  <2>2. Hits(w)' \subseteq Hits(w) \ {0}
    BY <1>1, <1>3, <1>6 DEF Hits, Coming
  <2>3. IsFiniteSet(Hits(w)) /\ Cardinality(Hits(w)) \in Nat
    BY <1>5, ComingTypes
  <2>4. IsFiniteSet(Hits(w) \ {0}) /\ Cardinality(Hits(w) \ {0}) = Cardinality(Hits(w)) - 1
    BY <2>1, <2>3, FS_RemoveElement
  <2>5. Cardinality(Hits(w)') <= Cardinality(Hits(w) \ {0}) /\ Cardinality(Hits(w)') \in Nat
    BY <2>2, <2>4, FS_Subset, FS_CardinalityType
  <2> QED
    BY <2>3, <2>4, <2>5
<1>9. \A u \in Tids : Cardinality(Hits(u)) \in Nat /\ Cardinality(Hits(u)') \in Nat
  BY <1>5, <1>7, ComingTypes, FS_Subset, FS_CardinalityType
<1>10. PICK f : Tallies(f)
  BY <1>2 DEF BoundInv, ScanTallied
<1>11. PICK m : m = Quota(w) - Cardinality(Hits(w)')
  OBVIOUS
<1>12. m \in 1 .. Room /\ m > Quota(w) - Cardinality(Hits(w)) /\ Quota(w) - Cardinality(Hits(w)) \in Nat
  <2>1. /\ Cardinality(Hits(w)) <= Quota(w) /\ Quota(w) \in Nat
        /\ Quota(w) <= Room /\ Room \in Nat
    BY HitsFit
  <2> QED
    BY <1>8, <1>9, <1>11, <2>1
<1>13. PICK g : g = [k \in 1 .. it |-> IF k = it THEN <<w, m>> ELSE f[k]]
  OBVIOUS
<1>14. /\ g[it] = <<w, m>> /\ it \in 1 .. it
       /\ \A k \in 1 .. it : k # it => k \in 1 .. it - 1 /\ g[k] = f[k]
  BY <1>4, <1>13
<1>15. g \in [1 .. it -> Tids \X (1 .. Room)]
  <2>1. \A k \in 1 .. it - 1 : f[k] \in Tids \X (1 .. Room)
    BY <1>10 DEF Tallies
  <2>2. <<w, m>> \in Tids \X (1 .. Room)
    BY <1>12
  <2> QED
    BY <1>13, <1>14, <2>1, <2>2
<1>16. \A k \in 1 .. it - 1 : f[k] # <<w, m>>
  <2> SUFFICES ASSUME NEW k \in 1 .. it - 1, f[k] = <<w, m>> PROVE FALSE
    OBVIOUS
  <2>1. f[k][2] <= Quota(f[k][1]) - Cardinality(Hits(f[k][1])) /\ f[k][1] = w /\ f[k][2] = m
    BY <1>10 DEF Tallies
  <2>2. m <= Quota(w) - Cardinality(Hits(w))
    BY <2>1, Zenon
  <2> QED
    BY <1>12, <2>2
<1>17. \A j, k \in 1 .. it : g[j] = g[k] => j = k
  <2> SUFFICES ASSUME NEW j \in 1 .. it, NEW k \in 1 .. it, g[j] = g[k] PROVE j = k
    OBVIOUS
  <2>1. CASE j # it /\ k # it
    BY <1>10, <1>14, <2>1 DEF Tallies
  <2>2. CASE j = it /\ k # it
    BY <1>14, <1>16, <2>2
  <2>3. CASE j # it /\ k = it
    BY <1>14, <1>16, <2>3
  <2> QED
    BY <2>1, <2>2, <2>3
<1>18. \A u \in Tids : Quota(u)' = Quota(u) /\ Quota(u) \in Nat
  BY <1>1, HitsFit DEF Quota, Room
<1>19. ASSUME NEW k \in 1 .. it PROVE g[k][2] <= Quota(g[k][1])' - Cardinality(Hits(g[k][1])')
  <2>1. CASE k = it
    <3>1. g[k][2] = m /\ g[k][1] = w
      BY <1>14, <2>1
    <3>2. m <= m
      BY <1>12
    <3>3. m = Quota(w)' - Cardinality(Hits(w)')
      BY <1>11, <1>18
    <3> QED
      BY <3>1, <3>2, <3>3, Zenon
  <2>2. CASE k # it
    <3>1. k \in 1 .. it - 1 /\ g[k] = f[k]
      BY <1>14, <2>2
    <3>2. PICK u \in Tids : u = f[k][1]
      BY <1>10, <3>1 DEF Tallies
    <3>3. f[k][2] <= Quota(u) - Cardinality(Hits(u)) /\ f[k][2] \in Nat
      BY <1>10, <3>1, <3>2 DEF Tallies
    <3>4. f[k][2] <= Quota(u)' - Cardinality(Hits(u)')
      BY <1>7, <1>9, <1>18, <3>3
    <3> QED
      BY <3>1, <3>2, <3>4
  <2> QED
    BY <2>1, <2>2
<1>20. Tallies(g)'
  <2>1. it' - 1 = it /\ Room' = Room
    BY <1>1, <1>4 DEF Room
  <2> QED
    BY <1>15, <1>17, <1>19, <2>1 DEF Tallies
<1>21. it' <= Len(retired_') + 1
  BY <1>1, <1>4
<1> QED
  BY <1>20, <1>21 DEF ScanTallied

\* A node that is retired was in no list.
LEMMA RetireTallies ==
  ASSUME BoundInv, NEW t \in Tids, RetireNode(t) \/ RetireAtLimit(t)
  PROVE  BuffersFit' /\ NoRepeats' /\ ScanTallied'
<1>1. PushBack(t) /\ HazardInv
  BY DEF RetireNode, RetireAtLimit, BoundInv
<1>2. /\ owner = None /\ store_buffer[t] = <<>> /\ UNCHANGED <<hp, store_buffer>>
      /\ \E n \in in_use : /\ n \in Nodes /\ n \notin ToSet(retired_)
                           /\ retired_' = Append(retired_, n)
  BY <1>1, PushedBack
<1>3. PICK n \in Nodes \ ToSet(retired_) : retired_' = Append(retired_, n)
  BY <1>2
<1>4. retired_ \in Seq(Nodes)
  BY <1>1 DEF HazardInv, HazardTypeOK
<1>5. PICK r : r = Append(retired_, n)
  OBVIOUS
<1>6. /\ Len(r) = Len(retired_) + 1 /\ r[Len(retired_) + 1] = n
      /\ \A k \in 1 .. Len(retired_) : r[k] = retired_[k] /\ retired_[k] # n
      /\ Len(retired_) \in Nat
  BY <1>4, <1>5, AppendProperties DEF ToSet
<1>7. NoRepeats'
  <2>1. \A j, k \in 1 .. Len(r) : r[j] = r[k] => j = k
    BY <1>6 DEF BoundInv, NoRepeats
  <2> QED
    BY <1>3, <1>5, <2>1 DEF NoRepeats
<1>8. CASE RetireNode(t)
  BY <1>2, <1>7, <1>8 DEF RetireNode, BoundInv, BuffersFit, ScanTallied
<1>9. CASE RetireAtLimit(t)
  <2>1. owner' = t /\ it' = 1 /\ it' <= Len(retired_') + 1
    BY <1>3, <1>5, <1>6, <1>9 DEF RetireAtLimit
  <2>2. BuffersFit'
    BY <1>2, <2>1 DEF BoundInv, BuffersFit
  <2>3. PICK f : f = [k \in 1 .. 0 |-> <<t, 1>>]
    OBVIOUS
  <2>4. Tallies(f)'
    BY <2>1, <2>3 DEF Tallies
  <2> QED
    BY <1>7, <2>1, <2>2, <2>4 DEF ScanTallied
<1> QED
  BY <1>8, <1>9

\* A deletion leaves the list without repeats and the rest of the scan no more to find.
LEMMA DeleteTallies ==
  ASSUME BoundInv, HazardInv', NEW t \in Tids, Delete(t)
  PROVE  NoRepeats' /\ ScanTallied'
<1>1. /\ it \in 1 .. Len(retired_) /\ retired_ \in Seq(Nodes) /\ HazardInv
      /\ retired_' = RemoveAt(retired_, it)
      /\ UNCHANGED <<hp, store_buffer, owner, it>>
  BY DEF Delete, Scanning, pointers, BoundInv, HazardInv, HazardTypeOK
<1>2. PICK r : r = RemoveAt(retired_, it)
  OBVIOUS
<1>3. /\ Len(r) = Len(retired_) - 1
      /\ \A k \in 1 .. it - 1 : r[k] = retired_[k]
      /\ \A k \in it .. Len(retired_) - 1 : r[k] = retired_[k + 1]
  BY <1>1, <1>2, RemoveAtLeaves, Zenon
<1>4. Len(retired_) \in Nat
  BY <1>1
<1>5. NoRepeats'
  <2>1. PICK old : old = [k \in 1 .. Len(retired_) - 1 |-> IF k < it THEN k ELSE k + 1]
    OBVIOUS
  <2>2. \A k \in 1 .. Len(retired_) - 1 :
           old[k] \in 1 .. Len(retired_) /\ r[k] = retired_[old[k]]
    BY <1>1, <1>3, <1>4, <2>1
  <2>3. \A j, k \in 1 .. Len(retired_) - 1 : old[j] = old[k] => j = k
    BY <1>1, <1>4, <2>1
  <2>4. \A j, k \in 1 .. Len(r) : r[j] = r[k] => j = k
    BY <1>3, <2>2, <2>3 DEF BoundInv, NoRepeats
  <2> QED
    BY <1>1, <1>2, <2>4 DEF NoRepeats
<1>6. Unscanned' \subseteq Unscanned
  <2>1. \A k \in it .. Len(retired_) - 1 :
           k + 1 \in it .. Len(retired_) /\ r[k] = retired_[k + 1]
    BY <1>1, <1>3, <1>4
  <2>2. Unscanned' = {r[k] : k \in it .. Len(retired_) - 1}
    BY <1>1, <1>2, <1>3 DEF Unscanned
  <2> QED
    BY <2>1, <2>2 DEF Unscanned
<1>7. \A u \in Tids : Cardinality(Hits(u)') <= Cardinality(Hits(u))
  BY <1>1, <1>6, HitsRest
<1>8. it <= Len(retired_') + 1
  BY <1>1, <1>2, <1>3, <1>4
<1> QED
  BY <1>1, <1>5, <1>7, <1>8, TallyStands

\* The steps that leave the list and the scan's place in it alone.
LEMMA OtherTallies ==
  ASSUME BoundInv, HazardInv',
         \/ Create
         \/ \E t \in Tids : Protect(t) \/ Clear(t) \/ Commit(t) \/ TryNext(t)
  PROVE  BuffersFit' /\ ScanTallied'
<1>1. UNCHANGED <<retired_, owner, it>>
  BY DEF Create, Protect, Clear, Store, Commit, TryNext, garbage
<1>2. Unscanned' = Unscanned /\ HazardInv
  BY <1>1 DEF Unscanned, BoundInv
<1>3. owner # None => it <= Len(retired_') + 1
  BY <1>1 DEF BoundInv, ScanTallied
<1>4. CASE UNCHANGED <<hp, store_buffer>>
  <2>1. \A u \in Tids : Cardinality(Hits(u)') <= Cardinality(Hits(u))
    BY <1>2, <1>4, HitsRest
  <2>2. BuffersFit'
    BY <1>1, <1>4 DEF BoundInv, BuffersFit
  <2> QED
    BY <1>1, <1>3, <2>1, <2>2, TallyStands
<1>5. ASSUME NEW t \in Tids, Protect(t) \/ Clear(t) \/ Commit(t)
      PROVE  BuffersFit' /\ ScanTallied'
  <2>1. BuffersFit' /\ Cardinality(Hits(t)') <= Cardinality(Hits(t))
    <3>1. CASE Commit(t)
      BY <3>1, HitsCommitted
    <3>2. CASE Protect(t) \/ Clear(t)
      <4>1. PICK x \in in_use \cup {None} : Store(t, x)
        BY <3>2 DEF Protect, Clear
      <4> QED
        BY <4>1, HitsStored
    <3> QED
      BY <1>5, <3>1, <3>2
  <2>2. \A u \in Tids \ {t} : hp'[u] = hp[u] /\ store_buffer'[u] = store_buffer[u]
    BY <1>5 DEF Protect, Clear, Store, Commit, BoundInv, HazardInv, HazardTypeOK
  <2>3. \A u \in Tids \ {t} : Cardinality(Hits(u)') <= Cardinality(Hits(u))
    BY <1>2, <2>2, HitsRest
  <2>4. \A u \in Tids : Cardinality(Hits(u)') <= Cardinality(Hits(u))
    BY <2>1, <2>3
  <2> QED
    BY <1>1, <1>3, <2>1, <2>4, TallyStands
<1>6. Create \/ (\E t \in Tids : TryNext(t)) => UNCHANGED <<hp, store_buffer>>
  BY DEF Create, TryNext, pointers
<1> QED
  BY <1>4, <1>5, <1>6

\* Every step keeps the tally.
LEMMA BoundKept == ASSUME BoundInv, [HazardNext]_hazardVars PROVE BoundInv'
<1>1. HazardInv'
  BY RegistryKept DEF BoundInv
<1>2. CASE UNCHANGED hazardVars
  <2>1. UNCHANGED <<hp, store_buffer, retired_, owner, it>>
    BY <1>2 DEF hazardVars
  <2>2. Unscanned' = Unscanned /\ NoRepeats' /\ BuffersFit' /\ HazardInv
    BY <2>1 DEF Unscanned, BoundInv, NoRepeats, BuffersFit
  <2>3. \A t \in Tids : Cardinality(Hits(t)') <= Cardinality(Hits(t))
    BY <2>1, <2>2, HitsRest
  <2>4. owner # None => it <= Len(retired_') + 1
    BY <2>1 DEF BoundInv, ScanTallied
  <2> QED
    BY <1>1, <2>1, <2>2, <2>3, <2>4, TallyStands DEF BoundInv
<1>3. CASE Create \/ \E t \in Tids : Protect(t) \/ Clear(t) \/ Commit(t) \/ TryNext(t)
  <2>1. NoRepeats'
    BY <1>3 DEF Create, Protect, Clear, Store, Commit, TryNext, garbage, BoundInv, NoRepeats
  <2> QED
    BY <1>1, <1>3, <2>1, OtherTallies DEF BoundInv
<1>4. ASSUME NEW t \in Tids, RetireNode(t) \/ RetireAtLimit(t) PROVE BoundInv'
  BY <1>1, <1>4, RetireTallies DEF BoundInv
<1>5. ASSUME NEW t \in Tids, Keep(t) PROVE BoundInv'
  <2>1. NoRepeats' /\ BuffersFit'
    BY <1>5 DEF Keep, pointers, BoundInv, NoRepeats, BuffersFit
  <2> QED
    BY <1>1, <1>5, <2>1, KeepTallies DEF BoundInv
<1>6. ASSUME NEW t \in Tids, Delete(t) PROVE BoundInv'
  <2>1. BuffersFit'
    BY <1>6 DEF Delete, pointers, BoundInv, BuffersFit
  <2> QED
    BY <1>1, <1>6, <2>1, DeleteTallies DEF BoundInv
<1>7. ASSUME NEW t \in Tids, Unlock(t) PROVE BoundInv'
  <2>1. NoRepeats' /\ BuffersFit' /\ ScanTallied'
    BY <1>7 DEF Unlock, pointers, BoundInv, NoRepeats, BuffersFit, ScanTallied
  <2> QED
    BY <1>1, <2>1 DEF BoundInv
<1> QED
  BY <1>2, <1>3, <1>4, <1>5, <1>6, <1>7 DEF HazardNext

\* The registry begins with nothing retired and nothing protected.
LEMMA BoundStarts == ASSUME HazardInit PROVE BoundInv
<1>1. HazardInv
  BY RegistryInit
<1>2. NoRepeats /\ ScanTallied
  BY DEF HazardInit, NoRepeats, ScanTallied
<1>3. BuffersFit
  BY RegistryAssumption DEF HazardInit, BuffersFit
<1> QED
  BY <1>1, <1>2, <1>3 DEF BoundInv

\* What the tallies number: the room of every other thread, and one place of the owner's.
LEMMA PlacesCounted ==
  ASSUME owner \in Tids, NEW q \in Nat
  PROVE  LET P == ((Tids \ {owner}) \X (1 .. q)) \cup {<<owner, 1>>}
         IN  IsFiniteSet(P) /\ Cardinality(P) = (MAX_THREADS - 1) * q + 1
<1>1. IsFiniteSet(Tids) /\ Cardinality(Tids) = MAX_THREADS
  BY FS_Interval, RegistryAssumption DEF Tids
<1>2. PICK S : S = Tids \ {owner}
  OBVIOUS
<1>3. PICK I : I = 1 .. q
  OBVIOUS
<1>4. IsFiniteSet(S) /\ Cardinality(S) = MAX_THREADS - 1
  BY <1>1, <1>2, FS_RemoveElement
<1>5. IsFiniteSet(I) /\ Cardinality(I) = q
  BY <1>3, FS_Interval
<1>6. PICK O : O = S \X I
  OBVIOUS
<1>7. IsFiniteSet(O) /\ Cardinality(O) = (MAX_THREADS - 1) * q
  <2>1. IsFiniteSet(S \X I) /\ Cardinality(S \X I) = Cardinality(S) * Cardinality(I)
    BY <1>4, <1>5, FS_Product, Zenon
  <2> QED
    BY <1>4, <1>5, <1>6, <2>1, Zenon
<1>8. <<owner, 1>> \notin O
  BY <1>2, <1>6
<1>9. /\ IsFiniteSet(O \cup {<<owner, 1>>})
      /\ Cardinality(O \cup {<<owner, 1>>}) = Cardinality(O) + 1
  BY <1>7, <1>8, FS_AddElement
<1> QED
  BY <1>2, <1>3, <1>6, <1>7, <1>9, Zenon

\* When the scan has come to the end of the list, all of it has been kept.
LEMMA TallyBounds == BoundInv => RetiredBounded
<1> SUFFICES ASSUME BoundInv, owner # None, it > Len(retired_)
             PROVE  Len(retired_) <= (MAX_THREADS - 1) * (1 + StoreBuffer) + 1
  BY DEF RetiredBounded
<1>1. owner \in Tids
  BY DEF BoundInv, HazardInv, HazardTypeOK
<1>2. PICK n \in Nat : n = Len(retired_)
  BY DEF BoundInv, HazardInv, HazardTypeOK
<1>3. it \in Nat /\ it - 1 = n
  BY <1>2 DEF BoundInv, ScanTallied, HazardInv, HazardTypeOK
<1>4. PICK f : Tallies(f)
  BY DEF BoundInv, ScanTallied
<1>5. PICK q \in Nat : q = Room
  BY RegistryAssumption DEF Room
<1>6. PICK P : P = ((Tids \ {owner}) \X (1 .. q)) \cup {<<owner, 1>>}
  OBVIOUS
<1>7. IsFiniteSet(P) /\ Cardinality(P) = (MAX_THREADS - 1) * q + 1
  BY <1>1, <1>6, PlacesCounted
<1>8. ASSUME NEW k \in 1 .. n PROVE f[k] \in P
  <2>1. f[k] \in Tids \X (1 .. q) /\ f[k][2] <= Quota(f[k][1]) - Cardinality(Hits(f[k][1]))
    BY <1>3, <1>4, <1>5 DEF Tallies
  <2>2. PICK u \in Tids, m \in 1 .. q : f[k] = <<u, m>>
    BY <2>1
  <2>3. m <= Quota(u) - Cardinality(Hits(u))
    BY <2>1, <2>2
  <2>4. CASE u = owner
    <3>1. Quota(u) = 1 /\ Cardinality(Hits(u)) \in Nat
      BY <2>4, HitsFit, ComingTypes DEF BoundInv
    <3>2. m = 1
      BY <2>3, <3>1
    <3> QED
      BY <1>6, <2>2, <2>4, <3>2
  <2>5. CASE u # owner
    BY <1>6, <2>2, <2>5
  <2> QED
    BY <2>4, <2>5
<1>9. DOMAIN f = 1 .. n /\ f = [k \in 1 .. n |-> f[k]] /\ \A j, k \in 1 .. n : f[j] = f[k] => j = k
  BY <1>3, <1>4 DEF Tallies
<1>10. f \in Injection(1 .. n, P)
  BY <1>8, <1>9 DEF Injection, IsInjective
<1>11. IsFiniteSet(1 .. n) /\ Cardinality(1 .. n) = n
  BY FS_Interval
<1>12. n <= (MAX_THREADS - 1) * q + 1
  BY <1>7, <1>10, <1>11, FS_Injection
<1> QED
  BY <1>2, <1>5, <1>12, Zenon DEF Room

\* scan_and_reclaim: what a scan leaves is bounded by what the threads protect while it
\* runs, however the hazard pointers move and for any number of threads.
THEOREM GarbageBounded == HazardSpec => []RetiredBounded
<1>1. HazardInit => BoundInv
  BY BoundStarts
<1>2. BoundInv /\ [HazardNext]_hazardVars => BoundInv'
  BY BoundKept
<1>3. BoundInv => RetiredBounded
  BY TallyBounds
<1> QED
  BY <1>1, <1>2, <1>3, PTL DEF HazardSpec

================================================================================
