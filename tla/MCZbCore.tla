------------------------------ MODULE MCZbCore ------------------------------
(* Instances of ZbCore for TLC: the bounds are in the configurations. *)
EXTENDS ZbCore
=============================================================================
