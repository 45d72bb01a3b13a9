---------------------------- MODULE MCActionTTCF ----------------------------
(* Model-checking instances of ActionTTCF: the parameters are in the cfgs. *)
EXTENDS ActionTTCF
=============================================================================
