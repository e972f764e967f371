--------------------------- MODULE MCScopeBuffer ---------------------------
(* TLC instances of ScopeBuffer: blocks that wrap, windows that fit, windows *)
(* larger than the buffer, a low word that wraps, two runs.                 *)
EXTENDS ScopeBuffer

ASSUME TimeoutCoversTwoBlocks ==
    \A rate \in {10, 20, 50, 100, 200, 500, 1000, 10000, 180000} :
        LivenessTimeoutMs(rate) > 2 * (128000 \div rate)

(* Bound: where windows are read, no time passes.                          *)
TimelessWithWindows == now = 0 \/ rd.pc = "rest"
MCSpec == Init /\ [][Next /\ TimelessWithWindows']_vars
=============================================================================
