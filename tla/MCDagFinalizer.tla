---------------------------- MODULE MCDagFinalizer ----------------------------
(***************************************************************************)
(* Instances of DagFinalizer for TLC: where the running task may die.      *)
(***************************************************************************)
EXTENDS DagFinalizer

CONSTANTS a, b      \* two contents

\* The first and the third height have the same.
TwoContents == [h \in Heights |-> IF h \in {1, 3} THEN a ELSE b]

Everywhere == Labels \ {"idle"}

\* Not between the SET of blockHeight and the ZADD of the block's CID.
OutsideChainUpdate == Everywhere \ {"setLast", "addCid"}

\* Not between the HSET of a segment and the SET of blockHeight after it.
OutsideSegmentUpdate == Everywhere \ {"put", "setHeight"}

\* Neither of them.
OutsideBlockUpdate == OutsideChainUpdate \intersect OutsideSegmentUpdate

Nowhere == {}
InSegmentUpdate == {"put"}
=============================================================================
