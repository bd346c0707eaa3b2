-------------------------- MODULE MCSummarySnapshots --------------------------
(***************************************************************************)
(* Instances of SummarySnapshots: two pairs.                                *)
(***************************************************************************)
EXTENDS SummarySnapshots

CONSTANTS p1, p2

EveryCall == {"fetch", "post", "oldest", "write", "prune", "crash"}
=============================================================================
