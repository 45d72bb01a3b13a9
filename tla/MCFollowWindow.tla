---------------------------- MODULE MCFollowWindow ----------------------------
(* Model-checking instance of FollowWindow: the parameters are in the cfg. *)
EXTENDS FollowWindow
=============================================================================
