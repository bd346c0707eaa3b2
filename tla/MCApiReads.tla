------------------------------ MODULE MCApiReads ------------------------------
(***************************************************************************)
(* Instances of ApiReads.                                                   *)
(***************************************************************************)
EXTENDS ApiReads

EveryCall == {"archive", "cids", "unpin", "status", "prune", "record", "cache",
              "crash"}

\* Ranges on either side of the first boundary of the segments and across it;
\* single blocks at it and at the growing end of the chain; the status of a height
\* that is pruned, and of one on its way to the chain.
SomeRequests ==
    {[op |-> "payloads", height |-> 3, low |-> 2],
     [op |-> "payloads", height |-> 3, low |-> 3],
     [op |-> "block", height |-> 2, low |-> 2],
     [op |-> "data", height |-> 5, low |-> 5],
     [op |-> "status", height |-> 1, low |-> 1],
     [op |-> "status", height |-> 5, low |-> 5]}
=============================================================================
