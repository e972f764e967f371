----------------------------- MODULE MCPruRing -----------------------------
(* TLC instances of PruRing: a ring of two blocks of two samples, filled   *)
(* twice, with the overflow of sample_count on the way.                    *)
EXTENDS PruRing
=============================================================================
