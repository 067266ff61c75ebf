-------------------------- MODULE MCGatewayPayment --------------------------
(***************************************************************************)
(* Symmetry and bound for the run of GatewayPayment.                       *)
(***************************************************************************)
EXTENDS GatewayPayment, TLC

Symmetry == Permutations(Workers)

\* Bound: the third request is at work until more than one unit is refunded.
WorkBound == Refunded > 1 => Cardinality({w \in Workers : req[w] # Idle}) <= 2
=============================================================================
