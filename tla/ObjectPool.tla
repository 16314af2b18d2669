------------------------------ MODULE ObjectPool -------------------------------
(***************************************************************************)
(* ObjectPool of day4_pool_allocator.cpp: Capacity blocks, the free ones   *)
(* linked by index from free_head on.  Its caller takes blocks and gives   *)
(* back, in any order, blocks that it holds; benchmark_pool is one such    *)
(* caller, which takes all blocks and then gives all back as taken.        *)
(***************************************************************************)
EXTENDS Integers, FiniteSets

CONSTANT Capacity                 \* the number of blocks

ASSUME CapacityAssumption == Capacity \in Nat \ {0}

Blocks == 0 .. Capacity - 1
Sentinel == Capacity          \* the end of the free list

VARIABLES pool_head, next_idx, alloc_count,
          live                \* the blocks the caller holds

poolVars == <<pool_head, next_idx, alloc_count, live>>

PoolInit == /\ pool_head = 0
            /\ next_idx = [b \in Blocks |-> b + 1]
            /\ alloc_count = 0
            /\ live = {}

AllocateBlock == /\ pool_head # Sentinel
                 /\ pool_head' = next_idx[pool_head]
                 /\ alloc_count' = alloc_count + 1
                 /\ live' = live \cup {pool_head}
                 /\ UNCHANGED next_idx

\* allocate returns nullptr
Exhausted == pool_head = Sentinel /\ UNCHANGED poolVars

\* A slip (mutant of Deallocate): the block is not linked to the old head.
DeallocateUnlinked(b) == /\ b \in live
                         /\ next_idx' = [next_idx EXCEPT ![b] = Sentinel]
                         /\ pool_head' = b
                         /\ alloc_count' = alloc_count - 1
                         /\ live' = live \ {b}

Deallocate(b) == /\ b \in live
                 /\ next_idx' = [next_idx EXCEPT ![b] = pool_head]
                 /\ pool_head' = b
                 /\ alloc_count' = alloc_count - 1
                 /\ live' = live \ {b}

PoolNext == AllocateBlock \/ Exhausted \/ \E b \in Blocks : Deallocate(b)

PoolSpec == PoolInit /\ [][PoolNext]_poolVars

-----------------------------------------------------------------------------
(* Properties.                                                             *)

\* The heads and links are blocks or the sentinel.
PoolTypeOK == /\ pool_head \in Blocks \cup {Sentinel}
              /\ next_idx \in [Blocks -> Blocks \cup {Sentinel}]
              /\ alloc_count \in 0 .. Capacity
              /\ live \subseteq Blocks

\* The list from the head to the sentinel, of the blocks in chain.
FreeList(chain, n) ==
    /\ pool_head = IF n = 0 THEN Sentinel ELSE chain[1]
    /\ \A k \in 1 .. n : next_idx[chain[k]] = IF k = n THEN Sentinel ELSE chain[k + 1]

\* The free list visits every block the caller does not hold once and no other,
\* and then ends, whatever the order in which blocks came back: a block never
\* has two owners, and none is lost.
BlocksAccounted ==
    LET n == Capacity - alloc_count
    IN \E chain \in [1 .. n -> Blocks] :
          /\ \A j, k \in 1 .. n : chain[j] = chain[k] => j = k
          /\ {chain[k] : k \in 1 .. n} = Blocks \ live
          /\ FreeList(chain, n)
================================================================================
