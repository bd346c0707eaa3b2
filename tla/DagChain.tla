------------------------------- MODULE DagChain -------------------------------
(***************************************************************************)
(* What a project's DAG chain promises its readers (docs/Introduction.md): *)
(* an append-only list with one block per height, each block linked to the *)
(* one before it, except that a new segment keeps only the root of the     *)
(* chain before it.                                                        *)
(***************************************************************************)
EXTENDS Integers, Sequences

CONSTANTS
    Payloads,       \* what a block can carry
    SegmentSize     \* blocks in a full segment

VARIABLE chain      \* the finalized blocks, oldest first

\* How a block refers to the one before it.
LinkOf(h) ==
    IF h = 1 THEN "none"
    ELSE IF h > SegmentSize /\ h % SegmentSize = 1 THEN "root"
    ELSE "prev"

ChainInit == chain = <<>>

\* The next block joins the chain; none is ever replaced.
Finalize(data) ==
    chain' = Append(chain, [data |-> data, link |-> LinkOf(Len(chain) + 1)])

ChainNext == \E data \in Payloads : Finalize(data)

ChainSpec == ChainInit /\ [][ChainNext]_chain
=============================================================================
