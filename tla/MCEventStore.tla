---------------------------- MODULE MCEventStore ----------------------------
(* TLC instances of EventStore: waveforms of one or two samples, a limit   *)
(* that rotates after a few of them, crashes, restarts and a deletion.     *)
EXTENDS EventStore

MCLengths == {1, 2}
=============================================================================
