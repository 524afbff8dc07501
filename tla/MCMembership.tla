---------------------------- MODULE MCMembership ----------------------------
(* Weights 1 and 2 for two segments: the distribution is not a plain round *)
(* robin.                                                                   *)
EXTENDS Membership, TLC

CONSTANTS a, b

MCWeight == (a :> 1) @@ (b :> 2)
=============================================================================
