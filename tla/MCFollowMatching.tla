-------------------------- MODULE MCFollowMatching --------------------------
(* Model-checking instance of FollowMatching: the bounds are in the cfg.   *)
EXTENDS FollowMatching
=============================================================================
