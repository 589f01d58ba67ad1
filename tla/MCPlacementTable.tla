-------------------------- MODULE MCPlacementTable --------------------------
(* Small instances of PlacementTable for TLC: two nodes, of one rank.        *)
EXTENDS PlacementTable

CONSTANTS n1, n2

MCNodes == {n1, n2}
MCCapacity == [n \in MCNodes |-> IF n = n1 THEN 2 ELSE 1]
MCRank == [n \in MCNodes |-> 1]
MCReach == [s \in Sizes |-> MCNodes]
=============================================================================
