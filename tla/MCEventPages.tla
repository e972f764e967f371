---------------------------- MODULE MCEventPages ----------------------------
(* TLC instances of EventPages: voltages on, just within and outside every  *)
(* line of the review table, anomalies shorter and longer than a capture.  *)
EXTENDS EventPages

MCSettings == {[nominal |-> 1200, sag |-> 100, swell |-> 100],
               [nominal |-> 1000, sag |-> 20, swell |-> 50]}
MCVoltages == {120, 840, 841, 1040, 1050, 1260, 1270, 1440}
MCLengths == {1, 62}
=============================================================================
