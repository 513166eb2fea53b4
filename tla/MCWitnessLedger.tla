-------------------------- MODULE MCWitnessLedger --------------------------
(***************************************************************************)
(* TLC instances of WitnessLedger: a few events, of which some are refused *)
(* by the supervisor and some cannot be read back from the file, and a     *)
(* listening queue that can be full.                                       *)
(***************************************************************************)
EXTENDS WitnessLedger

CONSTANTS e1, e2, e3, e4
=============================================================================
