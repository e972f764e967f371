--------------------------- MODULE MCEventCapture ---------------------------
(* TLC instances of EventCapture: every sequence of sample classes.        *)
EXTENDS EventCapture
=============================================================================
