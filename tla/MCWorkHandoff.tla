---------------------------- MODULE MCWorkHandoff ----------------------------
(* Finite values for WorkHandoff: a GET and a SET for one node and a SET for *)
(* another, so that a drain can find one and miss the other.                 *)
EXTENDS WorkHandoff, TLC

CONSTANTS g, s1, s2, a, b

MCTarget == g :> a @@ s1 :> a @@ s2 :> b
=============================================================================
