---------------------------- MODULE MCFlexMoves ----------------------------
(* Two jobs of one size for TLC, a of higher priority.  On two nodes of     *)
(* room for one job each, and a reservation on n1 that b would run into; or *)
(* on one node with room for both, or for one beside the reservation.       *)
EXTENDS FlexMoves, TLC

CONSTANTS a, b, n1, n2

MCSize == a :> 1 @@ b :> 1
MCPriority == a :> 2 @@ b :> 1
MCReach == a :> Nodes @@ b :> Nodes
MCTotal == [n \in Nodes |-> IF Cardinality(Nodes) = 1 THEN 2 ELSE 1]
MCLater == [n \in Nodes |-> IF n = n1 THEN 1 ELSE 0]
=============================================================================
