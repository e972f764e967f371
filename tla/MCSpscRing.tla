----------------------------- MODULE MCSpscRing -----------------------------
(* TLC instance of SpscRing: three slots of two-word elements, so that the *)
(* indices wrap and an element can be torn, with every interleaving of the *)
(* two threads.                                                            *)
EXTENDS SpscRing

MCCapacity == 3
MCWidth == 2
MCWord == {0, 1}
=============================================================================
