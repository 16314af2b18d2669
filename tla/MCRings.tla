-------------------------------- MODULE MCRings --------------------------------
(* RingQueue on a ring of MCCap slots, over more than two laps.            *)
EXTENDS RingQueue

MCCap == 4
MCNumTicks == 13
================================================================================
