-------------------------- MODULE MCPairAggregation --------------------------
(***************************************************************************)
(* Instances of PairAggregation: one pair, whose reserves project starts    *)
(* later than its trade volume project.                                     *)
(***************************************************************************)
EXTENDS PairAggregation

CONSTANTS volume, reserves

PairSeries == [p \in Projects |-> IF p = volume THEN Timed ELSE {"0"}]
PairFirst == [p \in Projects |-> IF p = volume THEN 1 ELSE 2]

EveryCall == {"heights", "adjust", "find", "index", "setTail", "metadata",
              "read", "logs", "daily", "store", "crash"}
=============================================================================
