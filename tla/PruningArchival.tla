--------------------------- MODULE PruningArchival ---------------------------
(***************************************************************************)
(* The pruning and archival service (go/pruning-archival/main.go) over one   *)
(* project: it exports the segments the finalizer has cut off the chain and  *)
(* uploads them to cold storage, unless archival is switched off, and then   *)
(* unpins their content and removes their CIDs from Redis.                   *)
(*                                                                          *)
(* Content is pinned, collected and cached by segment. A call is retried by  *)
(* the code: it fails here when every attempt has failed.                    *)
(***************************************************************************)
EXTENDS Integers, FiniteSets

CONSTANTS
    Size,           \* blocks of a segment
    Buffer,         \* PruningHeightBehindOldestIndex
    BehindHead,     \* SummaryProjectsPruneHeightBehindHead
    AtStart,        \* bound: blocks of the chain at the start
    MaxHeight,      \* bound: blocks of the chain in the end
    Tails,          \* bound: the heights that become tail markers
    MaxFaults,      \* bound: failed calls and crashes, together
    FailAt          \* the calls that may fail, and "crash"

ASSUME PruningConstants ==
    /\ Size \in Nat \ {0} /\ Buffer \in Nat /\ BehindHead \in Nat
    /\ MaxHeight \in Nat /\ AtStart \in 0..MaxHeight /\ MaxFaults \in Nat
    /\ Tails \subseteq 1..MaxHeight

Heights == 1..MaxHeight
HeightsOrZero == 0..MaxHeight
Segments == 1..(MaxHeight \div Size)
Begin(i) == (i - 1) * Size + 1
End(i) == i * Size

VARIABLES
    archiving,      \* PerformArchival, which does not change
    (* Redis *)
    top,            \* blockHeight
    recorded,       \* the greatest height with a CID
    cidsLow,        \* the CIDs up to here are removed
    tail,           \* tail marker of the oldest index; 0 when missing
    status,         \* storageType of each segment; "none" when not recorded
    lastPruned,     \* pruningStatus
    (* Cold storage, IPFS, local cache *)
    uploaded,       \* segments in cold storage
    unpinned,       \* segments IPFS may collect
    collected,      \* segments IPFS has collected
    uncached,       \* segments deleted from the local cache
    (* The service *)
    pc,             \* the call it makes next; "idle" between cycles
    todo,           \* the segments of the cycle still to process
    faults,         \* faults so far
    byDistance      \* (history) the last pruning height found without a tail

\* What the service does not write.
chainVars == <<archiving, top, recorded, tail>>
pruneVars == <<cidsLow, status, lastPruned>>
storeVars == <<uploaded, unpinned, collected, uncached>>
pruningVars == <<chainVars, pruneVars, storeVars, pc, todo, faults, byDistance>>

Calls == {"archive", "cids", "unpin", "status", "prune", "record", "cache"}

PruningTypeOK ==
    /\ archiving \in BOOLEAN
    /\ top \in HeightsOrZero /\ recorded \in HeightsOrZero
    /\ cidsLow \in HeightsOrZero /\ tail \in HeightsOrZero
    /\ status \in [Segments -> {"none", "pending", "cold", "pruned"}]
    /\ lastPruned \in HeightsOrZero
    /\ uploaded \in SUBSET Segments /\ unpinned \in SUBSET Segments
    /\ collected \in SUBSET Segments /\ uncached \in SUBSET Segments
    /\ pc \in Calls \union {"idle"}
    /\ todo \in SUBSET Segments
    /\ pc # "idle" => todo # {}
    /\ faults \in 0..MaxFaults
    /\ byDistance \in HeightsOrZero

PruningInit ==
    /\ archiving \in BOOLEAN
    /\ top = AtStart /\ recorded = AtStart /\ cidsLow = 0 /\ tail = 0
    /\ status = [i \in Segments |->
                    IF End(i) < AtStart THEN "pending" ELSE "none"]
    /\ lastPruned = 0
    /\ uploaded = {} /\ unpinned = {} /\ collected = {} /\ uncached = {}
    /\ pc = "idle"
    /\ todo = {}
    /\ faults = 0
    /\ byDistance = 0

Fails(call) == call \in FailAt /\ faults < MaxFaults /\ faults' = faults + 1

(***************************************************************************)
(* The finalizer and the indexer                                            *)
(***************************************************************************)
\* The first block after a segment records the segment.
SetHeight ==
    /\ top = recorded
    /\ top < MaxHeight
    /\ top' = top + 1
    /\ status' = [i \in Segments |->
                     IF End(i) = top THEN "pending" ELSE status[i]]
    /\ UNCHANGED <<archiving, recorded, tail, cidsLow, lastPruned, storeVars, pc,
                   todo, faults, byDistance>>

AddCid ==
    /\ recorded < top
    /\ recorded' = top
    /\ UNCHANGED <<archiving, top, tail, pruneVars, storeVars, pc, todo, faults,
                   byDistance>>

\* Without a tail marker, as for a summary project, a distance from the head.
OldestIndexed == IF tail > 0 THEN tail ELSE top - BehindHead

\* The windows move forward; the first one may begin anywhere on the chain.
MoveTail ==
    /\ \E t \in Tails : tail < t /\ t <= recorded /\ tail' = t
    /\ UNCHANGED <<archiving, top, recorded, pruneVars, storeVars, pc, todo, faults,
                   byDistance>>

Collect(i) ==
    /\ i \in unpinned \ collected
    /\ collected' = collected \union {i}
    /\ UNCHANGED <<chainVars, pruneVars, uploaded, unpinned, uncached, pc, todo,
                   faults, byDistance>>

(***************************************************************************)
(* A cycle of the service                                                   *)
(***************************************************************************)
HeightToPrune == OldestIndexed - Buffer

\* (mutant) a segment that starts low enough
IsOldBegin(i) == Begin(i) < HeightToPrune

IsOld(i) == End(i) < HeightToPrune

\* The segments are those on record when the cycle starts.
StartCycle ==
    /\ pc = "idle"
    /\ HeightToPrune > lastPruned
    /\ todo' = {i \in Segments : status[i] = "pending" /\ IsOld(i)}
    /\ todo' # {}
    /\ pc' = "archive"
    /\ byDistance' = IF tail = 0 THEN HeightToPrune ELSE byDistance
    /\ UNCHANGED <<chainVars, pruneVars, storeVars, faults>>

\* (mutant) the segments are processed from the newest down
CurrentNewest == CHOOSE i \in todo : \A j \in todo : i >= j

\* In the order of their heights, which PruneZsets relies on.
Current == CHOOSE i \in todo : \A j \in todo : i <= j

EndCycle == pc' = "idle" /\ todo' = {}

\* (mutant) a segment that was not archived is pruned all the same
ArchiveOrGoOn ==
    /\ pc = "archive"
    /\ pc' = "cids"
    /\ \/ ~archiving /\ UNCHANGED <<uploaded, faults>>
       \/ archiving /\ uploaded' = uploaded \union {Current} /\ UNCHANGED faults
       \/ archiving /\ Fails("archive") /\ UNCHANGED uploaded
    /\ UNCHANGED <<todo, chainVars, pruneVars, unpinned, collected, uncached, byDistance>>

\* Export and upload. What was collected cannot be exported; an upload whose
\* response is lost has failed. Without archival the segment is pruned at once.
Archive ==
    /\ pc = "archive"
    /\ \/ /\ ~archiving
          /\ pc' = "cids"
          /\ UNCHANGED <<uploaded, todo, faults>>
       \/ /\ archiving /\ Current \notin collected
          /\ uploaded' = uploaded \union {Current}
          /\ pc' = "cids"
          /\ UNCHANGED <<todo, faults>>
       \/ /\ archiving /\ Current \in collected
          /\ EndCycle
          /\ UNCHANGED <<uploaded, faults>>
       \/ /\ archiving /\ Fails("archive")
          /\ EndCycle
          /\ \/ UNCHANGED uploaded
             \/ Current \notin collected /\ uploaded' = uploaded \union {Current}
    /\ UNCHANGED <<chainVars, pruneVars, unpinned, collected, uncached, byDistance>>

GetCids ==
    /\ pc = "cids"
    /\ \/ pc' = "unpin" /\ UNCHANGED <<todo, faults>>
       \/ Fails("cids") /\ EndCycle
    /\ UNCHANGED <<chainVars, pruneVars, storeVars, byDistance>>

\* Nothing is unpinned of a segment whose CIDs were removed before. A failure
\* is counted for the report.
UnPin ==
    /\ pc = "unpin"
    /\ \/ /\ unpinned' = IF cidsLow < Begin(Current)
                         THEN unpinned \union {Current} ELSE unpinned
          /\ UNCHANGED faults
       \/ Fails("unpin") /\ UNCHANGED unpinned
    /\ pc' = "status"
    /\ UNCHANGED <<todo, chainVars, pruneVars, uploaded, collected, uncached, byDistance>>

UpdateStatus ==
    /\ pc = "status"
    /\ \/ status' = [status EXCEPT ![Current] = IF archiving THEN "cold" ELSE "pruned"] /\ UNCHANGED faults
       \/ Fails("status") /\ UNCHANGED status
    /\ pc' = "prune"
    /\ UNCHANGED <<todo, chainVars, cidsLow, lastPruned, storeVars, byDistance>>

\* The payload CIDs are removed by a second call; nothing here reads them.
PruneZsets ==
    /\ pc = "prune"
    /\ \/ cidsLow' = (IF End(Current) > cidsLow THEN End(Current) ELSE cidsLow)
             /\ UNCHANGED faults
       \/ Fails("prune") /\ UNCHANGED cidsLow
    /\ pc' = "record"
    /\ UNCHANGED <<todo, chainVars, status, lastPruned, storeVars, byDistance>>

\* A segment whose status was lost is archived again: the height moves back.
RecordPruned ==
    /\ pc = "record"
    /\ \/ lastPruned' = End(Current) /\ UNCHANGED faults
       \/ Fails("record") /\ UNCHANGED lastPruned
    /\ pc' = "cache"
    /\ UNCHANGED <<todo, chainVars, cidsLow, status, storeVars, byDistance>>

\* (mutant) the cycle goes on after its last segment
DeleteFromCacheOn ==
    /\ pc = "cache"
    /\ uncached' = uncached \union {Current}
    /\ todo' = todo \ {Current}
    /\ pc' = "archive"
    /\ UNCHANGED <<chainVars, pruneVars, uploaded, unpinned, collected, faults, byDistance>>

\* (mutant) the cycle stays with its first segment
DeleteFromCacheAgain ==
    /\ pc = "cache"
    /\ uncached' = uncached \union {Current}
    /\ pc' = "archive"
    /\ UNCHANGED <<chainVars, pruneVars, uploaded, unpinned, collected, todo, faults, byDistance>>

DeleteFromCache ==
    /\ pc = "cache"
    /\ \/ uncached' = uncached \union {Current} /\ UNCHANGED faults
       \/ Fails("cache") /\ UNCHANGED uncached
    /\ todo' = todo \ {Current}
    /\ pc' = IF todo' = {} THEN "idle" ELSE "archive"
    /\ UNCHANGED <<chainVars, pruneVars, uploaded, unpinned, collected, byDistance>>

Crash ==
    /\ pc # "idle"
    /\ Fails("crash")
    /\ EndCycle
    /\ UNCHANGED <<chainVars, pruneVars, storeVars, byDistance>>

ProcessProject ==
    \/ StartCycle
    \/ Archive \/ GetCids \/ UnPin \/ UpdateStatus
    \/ PruneZsets \/ RecordPruned \/ DeleteFromCache

PruningNext ==
    \/ MoveTail
    \/ \E i \in Segments : Collect(i)
    \/ ProcessProject \/ Crash

(***************************************************************************)
(* Properties                                                               *)
(***************************************************************************)
\* With archival, what IPFS has collected or Redis no longer names is in cold
\* storage, wherever a cycle fails or the service dies; and no segment is ever
\* called COLD that is not (ProcessProject).
NothingIsLost ==
    \A i \in Segments :
        /\ archiving /\ (i \in collected \/ End(i) <= cidsLow) => i \in uploaded
        /\ status[i] = "cold" => i \in uploaded

\* What a reader of the chain can still get, and from where.
IsReadable(i) == i \notin collected /\ End(i) > cidsLow
Location ==
    [i \in Segments |->
        IF i \in uploaded THEN IF IsReadable(i) THEN "both" ELSE "archive"
        ELSE IF IsReadable(i) THEN "store" ELSE "nowhere"]

Store == INSTANCE ArchiveStore WITH location <- Location

\* The service implements the store: with archival a segment leaves it after its
\* copy, although the zsets are cut from their lowest score on; without archival
\* it is copied nowhere (ProcessProject, PruneZSetInRedis).
ImplementsStore == Store!StoreSpec

IsRemoved(h) ==
    h <= cidsLow \/ \E i \in unpinned \union uncached : h \in Begin(i)..End(i)

\* A block whose CID, pin or cached file is gone is older than the Buffer before
\* the oldest index; or it had the distance from the head that the last cycle
\* which found no tail marker went by, and the first one was set below it later
\* (FindPruningHeight, GetOldestIndexedProjectHeight).
RecentIsKept ==
    \A h \in Heights : IsRemoved(h) => h < HeightToPrune \/ h < byDistance

\* A segment without its status in Redis whose content is gone: it can be
\* exported no more, and every cycle ends at it.
IsStuck ==
    archiving /\ \E i \in Segments : status[i] = "pending" /\ i \in collected

\* The first tail marker lies so low that the service has nothing to do there.
IsAhead(i) == ~IsOld(i) \/ HeightToPrune <= lastPruned

\* Every segment the indexes have left behind is pruned in the end, unless the
\* first tail marker falls back behind it, or the status of an archived one was
\* lost (ProcessProject, Run).
EverySegmentIsPruned ==
    \A i \in Segments :
        (status[i] = "pending" /\ IsOld(i))
            ~> (status[i] \in {"cold", "pruned"} \/ IsAhead(i) \/ IsStuck)
=============================================================================
