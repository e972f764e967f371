---------------------------- MODULE MCTrendStore ----------------------------
(* TLC instances of TrendStore: chunks of four intervals, longer than a     *)
(* header, so that one cut short can claim a chunk behind it; a limit of    *)
(* two chunks; two starts and one chunk cut short.                          *)
EXTENDS TrendStore

MCWindows == {1, 2}
MCPoints == {1, 3}
=============================================================================
