----------------------------- MODULE ArchiveStore -----------------------------
(***************************************************************************)
(* What pruning promises the readers of a chain. With archival every segment *)
(* is in the store, in the archive, or in both: it is copied to the archive  *)
(* once, and leaves the store only afterwards. Without it nothing is copied, *)
(* and what leaves the store is nowhere. Neither is ever undone.             *)
(***************************************************************************)
CONSTANT Segments

VARIABLES archiving, location

StoreInit ==
    /\ archiving \in BOOLEAN
    /\ location = [i \in Segments |-> "store"]

Copy(i) ==
    /\ archiving
    /\ location[i] = "store"
    /\ location' = [location EXCEPT ![i] = "both"]

\* Several segments may go at once: CIDs are removed from the lowest height on.
Leave(R, before, after) ==
    /\ \A i \in R : location[i] = before
    /\ location' = [i \in Segments |-> IF i \in R THEN after ELSE location[i]]

Remove(R) == archiving /\ Leave(R, "both", "archive")

Drop(R) == ~archiving /\ Leave(R, "store", "nowhere")

StoreNext ==
    /\ \/ \E i \in Segments : Copy(i)
       \/ \E R \in SUBSET Segments : Remove(R) \/ Drop(R)
    /\ UNCHANGED archiving

StoreSpec == StoreInit /\ [][StoreNext]_<<archiving, location>>
=============================================================================
