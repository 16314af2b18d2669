----------------------------- MODULE HazardPointer -----------------------------
(***************************************************************************)
(* HazardPointer of day27_mpmc_hazard_pointers.cpp: protect, clear, retire *)
(* and the scan that retire starts at RETIRE_LIMIT, one load of a hazard   *)
(* pointer per step.  The threads call the three operations in any order;  *)
(* what they respect is what the main of day27 does of it and what retire  *)
(* needs: a node is protected before it is retired, never after, and it is *)
(* retired once.  A node that was deleted may be allocated again.          *)
(*                                                                         *)
(* The release stores of protect and clear wait in the store buffer of     *)
(* their thread, as on x86-64, while the thread goes on; the locked        *)
(* instruction that takes the mutex waits until the buffer is empty.       *)
(***************************************************************************)
EXTENDS Integers, Sequences, SequencesExt

CONSTANTS MAX_THREADS,
          RETIRE_LIMIT,     \* positive; 4 * MAX_THREADS in the code
          Nodes,
          StoreBuffer       \* bound: stores that wait at most; a full buffer stalls

VARIABLES hp, store_buffer,  \* hp_[tid], and the stores to it that wait
          retired_,         \* retired_, in its order
          owner,            \* the thread that holds retired_mtx_ for a scan
          it, next_hp,      \* the scan: place in retired_, next hazard pointer to load
          in_use,           \* callers: the nodes allocated and not retired
          standing          \* history: hp_[tid] reached memory while its node was in use

hazardVars == <<hp, store_buffer, retired_, owner, it, next_hp, in_use, standing>>
pointers == <<hp, store_buffer, standing>>
garbage == <<retired_, owner, it, next_hp>>

Tids == 0 .. MAX_THREADS - 1
None == -1                  \* nullptr, or nobody

\* There is a thread, and the null pointer is no node.
ASSUME RegistryAssumption ==
    /\ MAX_THREADS \in Nat \ {0} /\ RETIRE_LIMIT \in Nat \ {0} /\ StoreBuffer \in Nat
    /\ None \notin Nodes

HazardInit == /\ hp = [t \in Tids |-> None] /\ store_buffer = [t \in Tids |-> <<>>]
              /\ retired_ = <<>> /\ owner = None /\ it = 1 /\ next_hp = 0
              /\ in_use = {} /\ standing = [t \in Tids |-> FALSE]

\* The nodes that were not deleted.
Allocated == in_use \cup ToSet(retired_)

Drained(t) == store_buffer[t] = <<>>

-----------------------------------------------------------------------------
(* protect and clear: a store to hp_[t], and when it reaches memory.       *)

Store(t, p) == /\ owner # t /\ Len(store_buffer[t]) < StoreBuffer
               /\ store_buffer' = [store_buffer EXCEPT ![t] = Append(@, p)]
               /\ UNCHANGED <<hp, standing, garbage, in_use>>

Protect(t) == \E n \in in_use : Store(t, n)

Clear(t) == Store(t, None)

Commit(t) == /\ store_buffer[t] # <<>>
             /\ hp' = [hp EXCEPT ![t] = Head(store_buffer[t])]
             /\ standing' = [standing EXCEPT ![t] = Head(store_buffer[t]) \in in_use]
             /\ store_buffer' = [store_buffer EXCEPT ![t] = Tail(@)]
             /\ UNCHANGED <<garbage, in_use>>

\* The allocator gives a node of which nothing is left, at its address of before.
Create == /\ \E n \in Nodes \ Allocated : in_use' = in_use \cup {n}
          /\ UNCHANGED <<pointers, garbage>>

-----------------------------------------------------------------------------
(* retire: the node changes hands when the mutex is taken.                 *)

PushBack(t) == /\ owner = None /\ Drained(t)
               /\ \E n \in in_use : /\ in_use' = in_use \ {n}
                                    /\ retired_' = Append(retired_, n)
               /\ UNCHANGED pointers

\* The list stays short: the lock is taken and released around the push_back.
RetireNode(t) == /\ Len(retired_) + 1 < RETIRE_LIMIT
                 /\ PushBack(t)
                 /\ UNCHANGED <<owner, it, next_hp>>

\* The list reaches the limit: scan_and_reclaim runs under the lock.
RetireAtLimit(t) == /\ Len(retired_) + 1 >= RETIRE_LIMIT
                    /\ PushBack(t)
                    /\ owner' = t /\ it' = 1 /\ next_hp' = 0

-----------------------------------------------------------------------------
(* scan_and_reclaim; `hit' is the comparison with the hazard pointer loaded *)

Scanning(t) == owner = t /\ it <= Len(retired_)

\* A slip (mutant of Hit): the scan never loads the last hazard pointer.
HitButLast == next_hp < MAX_THREADS - 1 /\ hp[next_hp] = retired_[it]

Hit == hp[next_hp] = retired_[it]

\* A slip (mutant of Keep): one protected node keeps all that follow it.
KeepRest(t) == /\ Scanning(t) /\ Hit
               /\ it' = Len(retired_) + 1 /\ next_hp' = 0
               /\ UNCHANGED <<pointers, retired_, owner, in_use>>

Keep(t) == /\ Scanning(t) /\ Hit
           /\ it' = it + 1 /\ next_hp' = 0
           /\ UNCHANGED <<pointers, retired_, owner, in_use>>

TryNext(t) == /\ Scanning(t) /\ ~Hit /\ next_hp + 1 < MAX_THREADS
              /\ next_hp' = next_hp + 1
              /\ UNCHANGED <<pointers, retired_, owner, it, in_use>>

\* No hazard pointer had it: delete and erase, which moves the next node here.
Delete(t) == /\ Scanning(t) /\ ~Hit /\ next_hp + 1 = MAX_THREADS
             /\ retired_' = RemoveAt(retired_, it)
             /\ next_hp' = 0
             /\ UNCHANGED <<pointers, owner, it, in_use>>

Unlock(t) == /\ owner = t /\ it > Len(retired_)
             /\ owner' = None
             /\ UNCHANGED <<pointers, retired_, it, next_hp, in_use>>

-----------------------------------------------------------------------------
HazardNext == \/ Create
              \/ \E t \in Tids :
                  \/ Protect(t) \/ Clear(t) \/ Commit(t)
                  \/ RetireNode(t) \/ RetireAtLimit(t)
                  \/ Keep(t) \/ TryNext(t) \/ Delete(t) \/ Unlock(t)

HazardSpec == HazardInit /\ [][HazardNext]_hazardVars

-----------------------------------------------------------------------------
(* Properties.                                                             *)

\* The variables have their types.
HazardTypeOK ==
    /\ hp \in [Tids -> Nodes \cup {None}] /\ store_buffer \in [Tids -> Seq(Nodes \cup {None})]
    /\ standing \in [Tids -> BOOLEAN]
    /\ retired_ \in Seq(Nodes) /\ in_use \subseteq Nodes
    /\ owner \in Tids \cup {None} /\ it \in Nat \ {0} /\ next_hp \in Tids

\* A node whose protection reached memory before the node was retired is not deleted as
\* long as it stays protected, whichever hazard pointers a scan in progress has already
\* passed, and though the address was retired and deleted before.
NothingProtectedFreed == \A t \in Tids : standing[t] => hp[t] \in Allocated

\* Garbage stays bounded: a scan leaves only what the other threads protect, or are
\* about to by the stores that wait, and the one node its own thread still protects,
\* though the hazard pointers move while it runs.
RetiredBounded ==
    owner # None /\ it > Len(retired_) =>
        Len(retired_) <= (MAX_THREADS - 1) * (1 + StoreBuffer) + 1
================================================================================
