--------------------------------- MODULE MCMpmc --------------------------------
(* Two producers and two consumers share a ring of two cells.              *)
EXTENDS MpmcQueue

CONSTANTS p1, p2, c1, c2

MCProducers == {p1, p2}
MCConsumers == {c1, c2}
MCCap == 2
MCTicksPerThread == 2
================================================================================
