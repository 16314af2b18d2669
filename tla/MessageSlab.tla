------------------------------ MODULE MessageSlab ------------------------------
(***************************************************************************)
(* MessageSlab of day14_zerocopy_dma.cpp and the two parsers of its main.  *)
(* A slot of the slab is one word, a ZeroCopyMsg is three: a message also  *)
(* covers the two slots after its own, and the last two cover the links,   *)
(* which follow memory_ in the object.  The slab is therefore modelled as  *)
(* the words it is made of.  deallocate has no caller.                     *)
(***************************************************************************)
EXTENDS Integers, Sequences

CONSTANTS SLAB_COUNT,       \* slots, and packets of the traffic
          Types, Lens       \* what msg_type and payload_len range over

\* The last message's third word is still inside the object.
ASSUME SlabAssumption == SLAB_COUNT \in Nat /\ SLAB_COUNT >= 2

SlabPackets == 0 .. SLAB_COUNT - 1
Slots == 0 .. SLAB_COUNT - 1

VARIABLES traffic,          \* the header of each packet; its index is its timestamp
          word,             \* memory_, then next_idx_
          slab_head,        \* head_
          heap,             \* traditional: the parsed messages, which own their data
          slab,             \* zero-copy: the slots handed out, in order
          ck_t, ck_z        \* the two checksums

slabVars == <<traffic, word, slab_head, heap, slab, ck_t, ck_z>>

\* A word of the slab: a link, or one of the three words of a message.
Link(n) == [holds |-> "link", of |-> n]
Timestamp(k) == [holds |-> "timestamp_ns", of |-> k]
Info(k) == [holds |-> "payload_len, msg_type", of |-> traffic[k]]
Payload(k) == [holds |-> "payload_ptr", of |-> k]
Unwritten == [holds |-> "nothing", of |-> 0]

\* A slip (mutant of NextLink): the links start at the slot itself.
NextLinkSelf(s) == s

\* What the constructor puts in next_idx_[s]; the last one is SLAB_COUNT.
NextLink(s) == s + 1

SlabInit == /\ traffic \in [SlabPackets -> [type : Types, len : Lens]]
            /\ word = [w \in 0 .. 2 * SLAB_COUNT - 1 |->
                          IF w \in Slots THEN Unwritten ELSE Link(NextLink(w - SLAB_COUNT))]
            /\ slab_head = 0
            /\ heap = <<>> /\ slab = <<>>
            /\ ck_t = 0 /\ ck_z = 0

ParseTraditional ==
    /\ Len(heap) < SLAB_COUNT
    /\ LET k == Len(heap)
       IN /\ heap' = Append(heap, [ts |-> k, info |-> traffic[k], data |-> k])
          /\ ck_t' = ck_t + traffic[k].type * traffic[k].len
    /\ UNCHANGED <<traffic, word, slab_head, slab, ck_z>>

\* The null pointer of an exhausted slab is not tested, so it would end the program.
AllocateSlot == slab_head # SLAB_COUNT /\ slab_head' = word[SLAB_COUNT + slab_head].of

\* The overlay of the fields; the checksum reads them back from the slab.
ParseZeroCopy ==
    /\ Len(heap) = SLAB_COUNT /\ Len(slab) < SLAB_COUNT
    /\ AllocateSlot
    /\ LET k == Len(slab)
       IN /\ word' = [word EXCEPT ![slab_head] = Timestamp(k), ![slab_head + 1] = Info(k),
                                  ![slab_head + 2] = Payload(k)]
          /\ slab' = Append(slab, slab_head)
          /\ ck_z' = ck_z + word'[slab_head + 1].of.type * word'[slab_head + 1].of.len
    /\ UNCHANGED <<traffic, heap, ck_t>>

Compared == Len(slab) = SLAB_COUNT /\ UNCHANGED slabVars

SlabNext == ParseTraditional \/ ParseZeroCopy \/ Compared

SlabSpec == SlabInit /\ [][SlabNext]_slabVars

-----------------------------------------------------------------------------
(* Properties.                                                             *)

\* The words are those the parsers write and the head is a slot or the end.
SlabTypeOK ==
    /\ word \in [0 .. 2 * SLAB_COUNT - 1 ->
                    {Unwritten} \cup {Link(n) : n \in 0 .. SLAB_COUNT}
                        \cup {Timestamp(k) : k \in SlabPackets} \cup {Info(k) : k \in SlabPackets}
                        \cup {Payload(k) : k \in SlabPackets}]
    /\ slab_head \in 0 .. SLAB_COUNT
    /\ Len(heap) <= SLAB_COUNT /\ slab \in Seq(Slots)

\* Though messages overlap, packets get slots in order and every timestamp
\* survives all later messages; the latest message is whole, and so the two
\* checksums agree, though no message but the last can be read afterwards.
SlabReadsBack ==
    /\ \A j \in 1 .. Len(slab) : slab[j] = j - 1 /\ word[slab[j]] = Timestamp(j - 1)
    /\ slab # <<>> =>
          LET k == Len(slab) - 1
          IN word[k + 1] = Info(k) /\ word[k + 2] = Payload(k)
    /\ Len(slab) = SLAB_COUNT => ck_t = ck_z

\* What the comments say of a parsed message: its payload_ptr points directly into
\* the buffer of its packet.  The messages after it overwrite that pointer.
PointsIntoBuffer == \A j \in 1 .. Len(slab) : word[slab[j] + 2] = Payload(j - 1)
================================================================================
