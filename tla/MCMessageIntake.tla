---------------------------- MODULE MCMessageIntake ----------------------------
(* A bounded instance of MessageIntake. *)
EXTENDS MessageIntake
=============================================================================
