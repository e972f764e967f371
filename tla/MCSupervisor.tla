---------------------------- MODULE MCSupervisor ----------------------------
(* TLC instances of Supervisor: two requests of any kinds, valid and       *)
(* invalid values.                                                         *)
EXTENDS Supervisor
=============================================================================
