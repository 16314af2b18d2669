------------------------------ MODULE BoundedFifo ------------------------------
(***************************************************************************)
(* What every queue class of the repository promises its two ends: a       *)
(* bounded first-in first-out channel.  An item is put at the back while   *)
(* fewer than Capacity items wait, and what is taken is always the item at *)
(* the front.  RingQueue (for KBRing) and MpmcQueue are shown to implement *)
(* this module.                                                            *)
(***************************************************************************)
EXTENDS Naturals, Sequences

CONSTANTS Capacity,   \* the number of slots
          Item        \* what may be put in the channel

VARIABLES waiting,    \* the items in the channel, the oldest first
          taken       \* every item taken so far, in the order it was taken

fifoVars == <<waiting, taken>>

FifoInit == waiting = <<>> /\ taken = <<>>

Put(i) == /\ Len(waiting) < Capacity
          /\ waiting' = Append(waiting, i)
          /\ UNCHANGED taken

Take == /\ waiting # <<>>
        /\ taken' = Append(taken, Head(waiting))
        /\ waiting' = Tail(waiting)

FifoNext == Take \/ \E i \in Item : Put(i)

FifoSpec == FifoInit /\ [][FifoNext]_fifoVars
================================================================================
