----------------------------- MODULE EpochManager ------------------------------
(***************************************************************************)
(* EpochManager of day15_epoch_reclamation.cpp and the benchmark in its    *)
(* main: the producer fills the next packet of the pool, the consumer      *)
(* waits for it, reads it, retires it and, every RECLAIM_PERIOD packets,   *)
(* tries to advance the epoch.  One step is one access to shared memory;   *)
(* what only the consumer touches joins its neighbouring access.           *)
(*                                                                         *)
(* The step of a store is the moment it reaches memory, and stores arrive  *)
(* in program order: so the x86-64 build keeps the packet ahead of the     *)
(* relaxed count of it, which the language alone would not.                *)
(***************************************************************************)
EXTENDS Integers, FiniteSets

CONSTANTS NUM_PACKETS,      \* packets of the pool, iterations of both loops
          RECLAIM_PERIOD    \* the 10000 of i % 10000 == 0

ASSUME PacketsAssumption == NUM_PACKETS \in Nat \ {0}

VARIABLES global_epoch, thread_epochs,
          retired, retired_count,     \* the lists of the consumer, the only one to retire
          free_head, pool,            \* next free index; the id in each packet
          produced, consumed,         \* also the loop counters of the two threads
          pc, loaded,                 \* per thread: next access, epoch it loaded
          pkt,                        \* the packet the producer allocated
          seen,                       \* the epochs try_reclaim has read
          since                       \* history: the epoch when a thread announced itself

vars == <<global_epoch, thread_epochs, retired, retired_count, free_head, pool,
          produced, consumed, pc, loaded, pkt, seen, since>>

epochs == <<global_epoch, thread_epochs, loaded, since>>
lists == <<retired, retired_count>>
packets == <<free_head, pool, pkt>>
counts == <<produced, consumed>>

Threads == {"producer", "consumer"}       \* tid 0 and 1
Out == -1                                 \* UINT64_MAX: in no critical section
Blank == -1                               \* an id or a list slot not yet written
Packets == 0 .. NUM_PACKETS - 1

\* thread_epochs_ is value-initialised: both threads start as if in epoch 0.
Init == /\ global_epoch = 0 /\ thread_epochs = [t \in Threads |-> 0]
        /\ retired = [bucket \in 0 .. 2 |-> [k \in Packets |-> Blank]]
        /\ retired_count = 0
        /\ free_head = 0 /\ pool = [k \in Packets |-> Blank]
        /\ produced = 0 /\ consumed = 0
        /\ pc = [t \in Threads |-> IF t = "producer" THEN "enter" ELSE "wait"]
        /\ loaded = [t \in Threads |-> 0]
        /\ pkt = 0 /\ seen = {} /\ since = [t \in Threads |-> 0]

Goto(t, label) == pc' = [pc EXCEPT ![t] = label]

-----------------------------------------------------------------------------
(* enter_critical, in two accesses, and leave_critical                     *)

LoadEpoch(t) == /\ loaded' = [loaded EXCEPT ![t] = global_epoch]
                /\ Goto(t, "announce")
                /\ UNCHANGED <<global_epoch, thread_epochs, since, lists, packets, counts, seen>>

Announce(t) == /\ pc[t] = "announce"
               /\ thread_epochs' = [thread_epochs EXCEPT ![t] = loaded[t]]
               /\ since' = [since EXCEPT ![t] = global_epoch]
               /\ Goto(t, IF t = "producer" THEN "allocate" ELSE "read")
               /\ UNCHANGED <<global_epoch, loaded, lists, packets, counts, seen>>

Leave(t) == /\ pc[t] = "leave"
            /\ thread_epochs' = [thread_epochs EXCEPT ![t] = Out]
            /\ Goto(t, IF t = "producer" THEN "count" ELSE "retire")
            /\ UNCHANGED <<global_epoch, loaded, since, lists, packets, counts, seen>>

-----------------------------------------------------------------------------
(* The producer                                                            *)

ProducerEnter == pc["producer"] = "enter" /\ LoadEpoch("producer")

\* A slip (mutant of Allocate): the packet is counted before it is filled.
AllocateCounted == /\ pc["producer"] = "allocate"
                   /\ free_head' = free_head + 1
                   /\ pkt' = free_head /\ produced' = produced + 1
                   /\ Goto("producer", IF free_head < NUM_PACKETS THEN "fill" ELSE "ended")
                   /\ UNCHANGED <<epochs, lists, pool, consumed, seen>>

\* allocate, and the break when the pool is exhausted
Allocate == /\ pc["producer"] = "allocate"
            /\ free_head' = free_head + 1
            /\ pkt' = free_head
            /\ Goto("producer", IF free_head < NUM_PACKETS THEN "fill" ELSE "ended")
            /\ UNCHANGED <<epochs, lists, pool, counts, seen>>

Fill == /\ pc["producer"] = "fill"
        /\ pool' = [pool EXCEPT ![pkt] = produced]
        /\ Goto("producer", "leave")
        /\ UNCHANGED <<epochs, lists, free_head, pkt, counts, seen>>

Produced == /\ pc["producer"] = "count"
            /\ produced' = produced + 1
            /\ Goto("producer", IF produced + 1 < NUM_PACKETS THEN "enter" ELSE "ended")
            /\ UNCHANGED <<epochs, lists, packets, consumed, seen>>

-----------------------------------------------------------------------------
(* The consumer                                                            *)

Await == /\ pc["consumer"] = "wait" /\ produced > consumed
         /\ Goto("consumer", "enter")
         /\ UNCHANGED <<epochs, lists, packets, counts, seen>>

ConsumerEnter == pc["consumer"] = "enter" /\ LoadEpoch("consumer")

\* sink += pool_[i].id
Read == /\ pc["consumer"] = "read"
        /\ Goto("consumer", "leave")
        /\ UNCHANGED <<epochs, lists, packets, counts, seen>>

Retire == /\ pc["consumer"] = "retire"
          /\ retired' = [retired EXCEPT ![global_epoch % 3][retired_count] = consumed]
          /\ retired_count' = retired_count + 1
          /\ Goto("consumer", IF consumed % RECLAIM_PERIOD = 0 THEN "scan" ELSE "count")
          /\ UNCHANGED <<epochs, packets, counts, seen>>

\* A slip (mutant of Scan): the scan looks at its own thread only.
ScanSelf == /\ pc["consumer"] = "scan"
            /\ seen' = {thread_epochs["consumer"]} \ {Out}
            /\ Goto("consumer", "advance")
            /\ UNCHANGED <<epochs, lists, packets, counts>>

\* try_reclaim: the announced epochs; the consumer's own does not change meanwhile
Scan == /\ pc["consumer"] = "scan"
        /\ seen' = {thread_epochs[t] : t \in Threads} \ {Out}
        /\ Goto("consumer", "advance")
        /\ UNCHANGED <<epochs, lists, packets, counts>>

\* min_epoch > global: all three buckets lose their packets.
Advance == /\ pc["consumer"] = "advance" /\ \A e \in seen : e > global_epoch
           /\ global_epoch' = global_epoch + 1
           /\ retired_count' = 0
           /\ Goto("consumer", "count")
           /\ UNCHANGED <<thread_epochs, loaded, since, retired, packets, counts, seen>>

Hold == /\ pc["consumer"] = "advance" /\ \E e \in seen : e <= global_epoch
        /\ Goto("consumer", "count")
        /\ UNCHANGED <<epochs, lists, packets, counts, seen>>

Consumed == /\ pc["consumer"] = "count"
            /\ consumed' = consumed + 1
            /\ Goto("consumer", IF consumed + 1 < NUM_PACKETS THEN "wait" ELSE "ended")
            /\ UNCHANGED <<epochs, lists, packets, produced, seen>>

-----------------------------------------------------------------------------
Producer == \/ ProducerEnter \/ Announce("producer") \/ Allocate \/ Fill
            \/ Leave("producer") \/ Produced
Consumer == \/ Await \/ ConsumerEnter \/ Announce("consumer") \/ Read \/ Leave("consumer")
            \/ Retire \/ Scan \/ Advance \/ Hold \/ Consumed

Joined == (\A t \in Threads : pc[t] = "ended") /\ UNCHANGED vars

Next == Producer \/ Consumer \/ Joined

Spec == Init /\ [][Next]_vars

-----------------------------------------------------------------------------
(* Properties.                                                             *)

\* The counters and lists stay inside the arrays of the manager.
TypeOK ==
    /\ global_epoch \in Nat /\ thread_epochs \in [Threads -> Nat \cup {Out}]
    /\ retired \in [0 .. 2 -> [Packets -> Packets \cup {Blank}]]
    /\ retired_count \in 0 .. NUM_PACKETS
    /\ free_head \in 0 .. NUM_PACKETS + 1 /\ pkt \in 0 .. NUM_PACKETS
    /\ pool \in [Packets -> Packets \cup {Blank}]
    /\ produced \in 0 .. NUM_PACKETS /\ consumed \in 0 .. NUM_PACKETS
    /\ pc \in [Threads -> {"enter", "announce", "allocate", "fill", "leave", "count", "wait",
                           "read", "retire", "scan", "advance", "ended"}]
    /\ loaded \in [Threads -> Nat] /\ since \in [Threads -> Nat]
    /\ seen \subseteq Nat

Inside(t) == pc[t] \in {"allocate", "fill", "read", "leave"}

\* However long a thread stays between enter_critical and leave_critical, and
\* however stale the epoch it announced, the global epoch advances at most once
\* meanwhile: a scan that began before the announcement may still advance, no
\* later one does.
AtMostOneAdvance == \A t \in Threads : Inside(t) => global_epoch <= since[t] + 1

\* The consumer only reads and retires packets that the producer has filled and
\* left, though neither epochs nor lists order the two, only `produced' does.
ReadsWholePackets ==
    pc["consumer"] \in {"read", "leave", "retire"} =>
        /\ pool[consumed] = consumed
        /\ ~(pc["producer"] = "fill" /\ pkt = consumed)

\* What the comments say of an advance: it reclaims packets of two epochs ago, so
\* none retired in the epoch that is just ending.  In the code the counts of all
\* three buckets go back to zero together.
GraceKept ==
    [][retired_count' < retired_count =>
           \A k \in retired_count' .. retired_count - 1 :
               retired[global_epoch % 3][k] = Blank]_vars
================================================================================
