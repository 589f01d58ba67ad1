---------------------------- MODULE MCJobUpkeep ----------------------------
(* A job that the plugin places in two of the three partitions that can      *)
(* hold it, for TLC.                                                         *)
EXTENDS JobUpkeep

CONSTANTS p1, p2, p3, shell

MCFeasible == {p1, p2, p3}
MCFrom == {p1, p2}
=============================================================================
