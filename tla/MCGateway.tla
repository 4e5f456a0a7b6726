------------------------------- MODULE MCGateway -------------------------------
(* Finite values for Gateway: every request is for the node named a. *)
EXTENDS Gateway, TLC

CONSTANT a

MCTarget == [r \in Request |-> a]
=============================================================================
