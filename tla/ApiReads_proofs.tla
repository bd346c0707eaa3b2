--------------------------- MODULE ApiReads_proofs ---------------------------
(***************************************************************************)
(* Theorems about pruning and about the answers of the API, for every        *)
(* segment size, chain length, set of requests and number of faults.        *)
(***************************************************************************)
EXTENDS ApiReads, PruningArchival_proofs

(***************************************************************************)
(* The project under the requests                                           *)
(***************************************************************************)
\* Requests and snapshots do nothing to the project but what PruningStep allows.
LEMMA NextIsPruningStep == [Next]_vars => PruningStep
BY DEF Next, vars, Chain, Advance, TakeOut, PutBack, HealClear, HealFill,
   HealPending, FinalizeNext, RecordCid, ClearPending, Outage, PruningStep

LEMMA PruningInvHolds == Spec => [](PruningInv /\ AgeInv)
<1>1. Init => PruningInv /\ AgeInv
  BY PruningInitInv, PruningInitAge DEF Init
<1>2. PruningInv /\ AgeInv /\ [Next]_vars => (PruningInv /\ AgeInv)'
  BY NextIsPruningStep, PruningInvStep, AgeStep DEF PruningInv
<1> QED
  BY <1>1, <1>2, PTL DEF Spec

\* With archival, what IPFS has collected or Redis no longer names is in cold
\* storage, wherever a cycle of the service fails or dies; and what is called
\* COLD is there in any case.
THEOREM NothingIsEverLost == Spec => []NothingIsLost
BY PruningInvHolds, NothingLost, PTL

\* Neither CIDs nor content are removed but of blocks that the oldest index has
\* left behind, or that were out of reach before there was an index, however the
\* windows and the chain move meanwhile and wherever the first window begins.
THEOREM RecentIsAlwaysKept == Spec => []RecentIsKept
<1>1. PruningInv /\ AgeInv => RecentIsKept
  BY RecentKept DEF PruningInv
<1> QED
  BY <1>1, PruningInvHolds, PTL

\* The service implements the store of ArchiveStore: with archival each segment is
\* copied before it leaves Redis and IPFS, without it none is, and nothing comes
\* back.
THEOREM StoreIsImplemented == Spec => ImplementsStore
<1>1. Init => Store!StoreInit
  BY PruningInitStore DEF Init
<1>2. PruningInv /\ PruningInv' /\ [Next]_vars
        => [Store!StoreNext]_<<archiving, Location>>
  BY NextIsPruningStep, StoreStep
<1> QED
  BY <1>1, <1>2, PruningInvHolds, PTL DEF Spec, ImplementsStore, Store!StoreSpec

(***************************************************************************)
(* Types                                                                    *)
(***************************************************************************)
\* What a request has, and what the one that has been answered has not.
LEMMA NoRequestIsNone == NoRequest \notin Request
<1>1. NoRequest.op \notin Ops
  BY DEF NoRequest, Ops
<1> QED
  BY <1>1 DEF Request

\* A request that goes on remains one.
LEMMA RequestType ==
    ASSUME NEW r \in Request
    PROVE  /\ \A n \in Reads : [r EXCEPT !.next = n] \in Request
           /\ \A n \in Reads, k \in HeightsOrZero :
                 [r EXCEPT !.next = n, !.lastPruned = k] \in Request
           /\ \A n \in Reads, h \in Heights, b \in BOOLEAN :
                 [r EXCEPT !.next = n, !.height = h, !.hollow = b] \in Request
BY DEF Request

LEMMA InitType == Init => TypeOK
<1> SUFFICES ASSUME Init PROVE TypeOK
  OBVIOUS
<1>1. PruningTypeOK
  BY PruningInitType DEF Init
<1>2. stage \in [Heights -> Stages]
  BY DEF Init, Stages, CommitPending, Cleared
<1>3. /\ rewritten \in HeightsOrZero /\ cleared \in HeightsOrZero
      /\ empty \in SUBSET Heights /\ outage \in BOOLEAN
      /\ shown \in 0..Confirmed
  <2>1. 0 \in HeightsOrZero /\ 0 \in 0..Confirmed /\ {} \in SUBSET Heights
    BY PruningConstants DEF HeightsOrZero, Confirmed
  <2> QED
    BY <2>1 DEF Init
<1>4. reply \in Replies
  BY DEF Init, Replies
<1> QED
  BY <1>1, <1>2, <1>3, <1>4 DEF Init, TypeOK

LEMMA ChainType ==
    ASSUME TypeOK, Chain
    PROVE  /\ stage' \in [Heights -> Stages]
           /\ rewritten' \in HeightsOrZero /\ cleared' \in HeightsOrZero
           /\ empty' \in SUBSET Heights
<1> USE DEF TypeOK
<1>1. ASSUME NEW h \in HeightsOrZero,
             NEW s \in CommitPending..Confirmed, Progresses(h, s)
      PROVE  stage' \in [Heights -> Stages]
  <2>1. s + 1 \in Stages
    BY DEF Stages, CommitPending, Confirmed, Cleared
  <2> QED
    BY <1>1, <2>1 DEF Progresses
<1>2. Heights \subseteq HeightsOrZero /\ 0 \in HeightsOrZero
  BY PruningConstants DEF Heights, HeightsOrZero
<1>3. ASSUME NEW h \in Heights, Advance(h) \/ TakeOut(h) \/ HealClear(h)
      PROVE  /\ stage' \in [Heights -> Stages] /\ empty' = empty
             /\ rewritten' \in HeightsOrZero /\ cleared' \in HeightsOrZero
  BY <1>1, <1>2, <1>3
     DEF Advance, TakeOut, HealClear, CommitPending, AckPending, Confirmed
<1>4. ASSUME NEW h \in Heights, HealPending(h)
      PROVE  /\ stage' \in [Heights -> Stages] /\ empty' \in SUBSET Heights
             /\ UNCHANGED <<rewritten, cleared>>
  BY <1>4 DEF HealPending, Stages, CommitPending, Confirmed, Cleared
<1>5. CASE PutBack
  BY <1>1, <1>2, <1>5
     DEF PutBack, CommitPending, ConfirmationPending, Confirmed
<1>6. CASE HealFill
  BY <1>2, <1>6 DEF HealFill
<1>7. CASE ClearPending
  BY <1>1, <1>7
     DEF ClearPending, PruningTypeOK, CommitPending, Confirmed
<1> QED
  BY <1>3, <1>4, <1>5, <1>6, <1>7 DEF Chain, FinalizeNext, RecordCid, snapshotVars

LEMMA ServeType ==
    ASSUME TypeOK, Serve
    PROVE  /\ req' \in Request \union {NoRequest}
           /\ reply' \in Replies
           /\ shown' \in 0..Confirmed
<1> USE DEF TypeOK, Answers, GoesOn
<1>0. req # NoRequest => req \in Request
  OBVIOUS
<1>r. {"none", "invalid", "notFound", "error", "archived", "requestId", "ok",
       "hollow", "status"} \subseteq Replies
  BY DEF Replies
<1>c. /\ {0, CommitPending, AckPending, ConfirmationPending, Confirmed}
            \subseteq 0..Confirmed
      /\ {"blockHeight", "pruningStatus", "cid", "content", "payloadCid",
          "pending"} \subseteq Reads
  BY DEF CommitPending, AckPending, ConfirmationPending, Confirmed, Reads
<1>1. CASE Arrive
  <2>1. 0 \in HeightsOrZero /\ Cleared \in Stages
    BY PruningConstants DEF HeightsOrZero, Stages, CommitPending, Cleared
  <2>2. \A a \in Asked : a.op \in Ops /\ a.height \in Heights /\ a.low \in Heights
    BY AskedAssumption
  <2> QED
    BY <1>1, <2>1, <2>2, <1>r, <1>c DEF Arrive, Request
<1>2. CASE ReadBlockHeight
  BY <1>0, <1>r, <1>c, <1>2, RequestType DEF ReadBlockHeight, IsReading
<1>3. CASE ReadPruningStatus
  <2>1. [req EXCEPT !.next = "cid", !.lastPruned = lastPruned] \in Request
    BY <1>0, <1>c, <1>3, RequestType DEF ReadPruningStatus, IsReading, PruningTypeOK
  <2> QED
    BY <1>r, <1>c, <1>3, <2>1 DEF ReadPruningStatus, IsReading
<1>4. CASE ReadCid
  BY <1>0, <1>r, <1>c, <1>4, RequestType DEF ReadCid, IsReading
<1>5. ASSUME NEW b \in BOOLEAN, req # NoRequest, NextBlock(b)
      PROVE  /\ req' \in Request \union {NoRequest}
             /\ reply' \in Replies
             /\ shown' \in 0..Confirmed
  <2>1. req.op = "payloads" /\ req.height > req.low => req.height - 1 \in Heights
    BY <1>0, <1>5, PruningConstants DEF Request, Heights
  <2>2. req.op = "payloads" /\ req.height > req.low =>
          [req EXCEPT !.next = "cid", !.height = @ - 1, !.hollow = b] \in Request
    BY <1>0, <1>c, <1>5, <2>1, RequestType
  <2> QED
    BY <1>r, <1>c, <1>5, <2>2 DEF NextBlock
<1>6. CASE ReadContent
  <2>1. req \in Request /\ req.hollow \in BOOLEAN
    BY <1>0, <1>6 DEF ReadContent, IsReading, Request
  <2> QED
    BY <1>r, <1>c, <1>5, <1>6, <2>1 DEF ReadContent, IsReading, Shows
<1>7. CASE ReadNothing
  BY <1>r, <1>c, <1>5, <1>7 DEF ReadNothing, IsReading
<1>8. CASE ReadPayloadCid
  BY <1>0, <1>r, <1>c, <1>8, RequestType DEF ReadPayloadCid, IsReading, Shows
<1>9. CASE ReadPending
  BY <1>r, <1>c, <1>9 DEF ReadPending, IsReading, Shows, StatusOf
<1> QED
  BY <1>1, <1>2, <1>3, <1>4, <1>6, <1>7, <1>8, <1>9 DEF Serve

LEMMA StepType == TypeOK /\ [Next]_vars => TypeOK'
<1> SUFFICES ASSUME TypeOK, [Next]_vars PROVE TypeOK'
  OBVIOUS
<1>1. PruningTypeOK'
  BY NextIsPruningStep, PruningStepType DEF TypeOK
<1>2. CASE UNCHANGED vars
  BY <1>1, <1>2 DEF TypeOK, vars, snapshotVars, apiVars
<1>3. CASE Next
  <2>1. disturbed' \in BOOLEAN
    BY <1>3 DEF Next, Disturbs, TypeOK
  <2>2. CASE Serve /\ outage' = FALSE /\ UNCHANGED <<pruningVars, snapshotVars>>
    BY <1>1, <2>1, <2>2, ServeType DEF TypeOK, snapshotVars
  <2>3. CASE Chain /\ UNCHANGED <<apiVars, outage>>
    BY <1>1, <2>1, <2>3, ChainType DEF TypeOK, apiVars
  <2>4. CASE Outage
    BY <1>1, <2>1, <2>4 DEF Outage, TypeOK, snapshotVars, apiVars
  <2> QED
    BY <1>3, <2>2, <2>3, <2>4 DEF Next
<1> QED
  BY <1>2, <1>3

\* Requests, answers and the state of the project keep their types.
THEOREM TypeCorrect == Spec => []TypeOK
BY InitType, StepType, PTL DEF Spec

(***************************************************************************)
(* Statuses                                                                 *)
(***************************************************************************)
\* The pending entry of a height is removed once its block is finalized, and a
\* finalized block has been confirmed.
StagesFollowTop ==
    \A h \in Heights :
        /\ h <= top => stage[h] \in {Confirmed, Cleared}
        /\ stage[h] = Cleared => h <= top

\* No snapshot goes back to an earlier stage.
LEMMA StageGrows ==
    ASSUME TypeOK, [Next]_vars
    PROVE  \A h \in Heights : stage[h] <= stage'[h]
<1>0. \A h \in Heights : stage[h] \in Int
  BY DEF TypeOK, Stages, CommitPending, Cleared
<1>1. ASSUME NEW k, NEW s \in CommitPending..Confirmed, Progresses(k, s)
      PROVE  \A h \in Heights : stage[h] <= stage'[h]
  <2>1. s \in Int
    BY DEF CommitPending, Confirmed
  <2> QED
    BY <1>0, <1>1, <2>1 DEF Progresses, TypeOK
<1>2. stage' = stage => \A h \in Heights : stage[h] <= stage'[h]
  BY <1>0
<1>3. {CommitPending, AckPending, ConfirmationPending, Confirmed}
         \subseteq CommitPending..Confirmed
  BY DEF CommitPending, AckPending, ConfirmationPending, Confirmed
<1>4. ASSUME NEW k \in Heights, HealPending(k)
      PROVE  \A h \in Heights : stage[h] <= stage'[h]
  BY <1>0, <1>4 DEF HealPending, TypeOK, AckPending, ConfirmationPending, Confirmed
<1> QED
  BY <1>1, <1>2, <1>3, <1>4
     DEF Next, vars, snapshotVars, Chain, Advance, TakeOut, PutBack, HealClear,
         HealFill, FinalizeNext, RecordCid, ClearPending, Outage

LEMMA TopGrows == TypeOK /\ [Next]_vars => top' >= top
<1> SUFFICES ASSUME TypeOK, PruningStep PROVE top' >= top
  BY NextIsPruningStep
<1> QED
  BY DEF TypeOK, PruningTypeOK, HeightsOrZero, PruningStep, pruningVars, SetHeight,
     AddCid, PruningNext, MoveTail, Collect, ProcessProject, StartCycle, Archive,
     GetCids, UnPin, UpdateStatus, PruneZsets, RecordPruned, DeleteFromCache,
     Crash, chainVars

LEMMA StagesStep == TypeOK /\ StagesFollowTop /\ [Next]_vars => StagesFollowTop'
<1> SUFFICES ASSUME TypeOK, StagesFollowTop, [Next]_vars PROVE StagesFollowTop'
  OBVIOUS
<1>0. top' >= top /\ top' \in Int /\ top \in Int
  <2>1. TypeOK' /\ top' >= top
    BY TopGrows, StepType
  <2> QED
    BY <2>1 DEF TypeOK, PruningTypeOK, HeightsOrZero
<1> USE DEF TypeOK, PruningTypeOK, StagesFollowTop, HeightsOrZero, Heights,
        CommitPending, AckPending, ConfirmationPending, Confirmed, Cleared
<1>1. CASE UNCHANGED <<stage, top>>
  BY <1>1
<1>p. ASSUME NEW k \in Heights, NEW s \in {1, 2, 3}, Progresses(k, s), top' = top
      PROVE  StagesFollowTop'
  <2>1. \A h \in Heights :
          stage'[h] = IF h = k THEN s + 1 ELSE stage[h]
    BY <1>p DEF Progresses
  <2>2. stage[k] = s /\ k > top
    BY <1>p DEF Progresses
  <2>3. ASSUME NEW h \in Heights
        PROVE  /\ h <= top' => stage'[h] \in {Confirmed, Cleared}
               /\ stage'[h] = Cleared => h <= top'
    BY <1>p, <2>1, <2>2
  <2> QED
    BY <2>3
<1>2. ASSUME NEW h \in Heights, Advance(h) PROVE StagesFollowTop'
  <2>1. top' = top
    BY <1>2 DEF Advance, pruningVars, chainVars
  <2>2. Progresses(h, 1) \/ Progresses(h, 2)
    BY <1>2 DEF Advance
  <2> QED
    BY <1>p, <2>1, <2>2
<1>3. CASE PutBack
  <2>1. top' = top /\ (rewritten # 0 => rewritten \in Heights)
    BY <1>3 DEF PutBack, pruningVars, chainVars
  <2>2. Progresses(rewritten, 3) \/ stage' = stage
    BY <1>3 DEF PutBack
  <2> QED
    BY <1>1, <1>3, <1>p, <2>1, <2>2 DEF PutBack
<1>h. ASSUME NEW k \in Heights, HealPending(k) PROVE StagesFollowTop'
  <2>1. top' = top /\ k > top
    BY <1>h DEF HealPending, IsNext, pruningVars, chainVars
  <2>2. \A h \in Heights : stage'[h] = IF h = k THEN 4 ELSE stage[h]
    BY <1>h DEF HealPending
  <2> QED
    BY <2>1, <2>2
<1>4. CASE FinalizeNext
  BY <1>4 DEF FinalizeNext, SetHeight, snapshotVars
<1>5. CASE ClearPending
  BY <1>5 DEF ClearPending, Progresses, pruningVars, chainVars
<1>6. CASE PruningNext /\ UNCHANGED snapshotVars
  <2>1. top' = top
    BY <1>6 DEF PruningNext, MoveTail, Collect, ProcessProject, StartCycle, Archive,
       GetCids, UnPin, UpdateStatus, PruneZsets, RecordPruned, DeleteFromCache,
       Crash, chainVars
  <2> QED
    BY <1>1, <1>6, <2>1 DEF snapshotVars
<1> QED
  BY <1>1, <1>2, <1>3, <1>h, <1>4, <1>5, <1>6
     DEF Next, vars, Chain, TakeOut, HealClear, HealFill, RecordCid, AddCid,
         Outage, pruningVars, chainVars, snapshotVars

(***************************************************************************)
(* What a request has learnt                                                *)
(***************************************************************************)
\* Only ranges name more than one height, and come down to the lowest.
RangeInv ==
    /\ req.low <= req.height
    /\ req.op # "payloads" => req.low = req.height

\* A status request knows on which side of blockHeight its height was, and has
\* lost nothing since.
StatusInv ==
    req.op = "status" =>
        /\ req.next # "pruningStatus"
        /\ req.before <= stage[req.height]
        /\ req.next \in {"cid", "content"} => req.height <= top
        /\ req.next \in {"payloadCid", "pending"} => req.before # Cleared
        /\ req.next = "pending" => stage[req.height] # CommitPending

\* A request for content that goes for the CIDs is above the segments pruned by
\* then, and nothing is removed above them unless it is disturbed.
ContentInv ==
    req.op # "status" =>
        /\ req.next \notin {"payloadCid", "pending"}
        /\ req.next # "blockHeight" => req.height <= top
        /\ req.next \in {"cid", "content"} =>
              /\ IF req.op = "payloads" THEN req.low > req.lastPruned
                                        ELSE req.height >= req.lastPruned
              /\ disturbed \/ cidsLow <= req.lastPruned

RequestInv ==
    req # NoRequest =>
        /\ RangeInv /\ StatusInv /\ ContentInv
        /\ IsDisturbing => disturbed

\* While the chain moves, a request keeps what it has learnt.
LEMMA ChainKeepsRequest ==
    ASSUME TypeOK, RequestInv, [Next]_vars, req' = req
    PROVE  RequestInv'
<1> SUFFICES ASSUME req # NoRequest PROVE RequestInv'
  BY DEF RequestInv
<1>1. req \in Request
  BY DEF TypeOK
<1>2. /\ req.height \in Heights /\ req.height \in Int
      /\ req.before \in Int /\ req.lastPruned \in Int
      /\ top \in Int /\ top' \in Int /\ cidsLow \in Int
  BY <1>1, StepType, PruningConstants
     DEF TypeOK, PruningTypeOK, Request, Heights, HeightsOrZero, Stages,
         CommitPending, Cleared
<1>3. top' >= top
  BY TopGrows
<1>4. /\ stage[req.height] <= stage'[req.height]
      /\ stage[req.height] \in Int /\ stage[req.height] >= CommitPending
      /\ stage'[req.height] \in Int
  BY <1>2, StageGrows, StepType DEF TypeOK, Stages, CommitPending, Cleared
<1>5. /\ disturbed \in BOOLEAN
      /\ disturbed' = (disturbed \/ IsPruning \/ IsDisturbing') \/ UNCHANGED vars
  BY DEF Next, Disturbs, TypeOK
<1>6. CASE UNCHANGED vars
  BY <1>6
     DEF RequestInv, RangeInv, StatusInv, ContentInv, IsDisturbing, IsGone, vars,
         snapshotVars, pruningVars, chainVars, pruneVars, storeVars
<1>7. CASE disturbed' = (disturbed \/ IsPruning \/ IsDisturbing')
  <2>1. RangeInv'
    BY DEF RequestInv, RangeInv
  <2>2. StatusInv'
    BY <1>2, <1>3, <1>4 DEF RequestInv, StatusInv, CommitPending
  <2>3. ContentInv'
    <3>1. ~disturbed' /\ req.op # "status" => ~disturbed /\ cidsLow' = cidsLow
      BY <1>7 DEF IsPruning
    <3>2. req.op # "status" => (req.next # "blockHeight" => req.height <= top')
      BY <1>2, <1>3 DEF RequestInv, ContentInv
    <3> QED
      BY <3>1, <3>2 DEF RequestInv, ContentInv
  <2> QED
    BY <1>7, <2>1, <2>2, <2>3 DEF RequestInv
<1> QED
  BY <1>5, <1>6, <1>7

\* What a request reads bears out what its next call relies on.
LEMMA ServeKeepsRequest ==
    ASSUME TypeOK, StagesFollowTop, RequestInv, Next, Serve,
           UNCHANGED <<pruningVars, snapshotVars>>
    PROVE  RequestInv'
<1> SUFFICES ASSUME req' # NoRequest PROVE (RangeInv /\ StatusInv /\ ContentInv)'
                                           /\ (IsDisturbing' => disturbed')
  BY DEF RequestInv
<1>0. UNCHANGED <<top, recorded, cidsLow, lastPruned, stage>>
  BY DEF pruningVars, chainVars, pruneVars, snapshotVars
<1>1. IsDisturbing' => disturbed'
  BY DEF Next, Disturbs
<1>2. req' \in Request /\ (req # NoRequest => req \in Request)
  BY ServeType DEF TypeOK
<1>3. ~disturbed' /\ req'.op # "status" => cidsLow <= lastPruned
  BY <1>0, <1>1, <1>2 DEF IsDisturbing, TypeOK, PruningTypeOK, HeightsOrZero
<1>4. CASE Arrive
  <2>1. PICK a \in Asked :
           req' = [op |-> a.op, next |-> "blockHeight",
                   height |-> a.height, low |-> a.low,
                   lastPruned |-> 0, hollow |-> FALSE,
                   before |-> IF a.op = "status" THEN stage[a.height] ELSE Cleared]
    BY <1>4 DEF Arrive
  <2>2. /\ req'.op = a.op /\ req'.next = "blockHeight"
        /\ req'.height = a.height /\ req'.low = a.low
        /\ a.op = "status" => req'.before = stage[a.height]
    BY <2>1
  <2>3. /\ a.height \in Int /\ a.low \in Int
        /\ a.op = "payloads" => a.low <= a.height
        /\ a.op # "payloads" => a.low = a.height
        /\ stage[a.height] \in Int
    BY AskedAssumption DEF Heights, TypeOK, Stages, CommitPending, Cleared
  <2>4. RangeInv'
    BY <2>2, <2>3 DEF RangeInv
  <2>5. StatusInv' /\ ContentInv'
    BY <1>0, <2>2, <2>3 DEF StatusInv, ContentInv
  <2> QED
    BY <1>1, <2>4, <2>5
<1>5. CASE ReadBlockHeight
  <2>1. req # NoRequest /\ req \in Request /\ req.next = "blockHeight"
    BY <1>2, <1>5 DEF ReadBlockHeight, IsReading
  <2>2. \/ /\ req.op = "status"
           /\ req' = [req EXCEPT !.next =
                         IF req.height > top THEN "payloadCid" ELSE "cid"]
        \/ /\ req.op # "status" /\ req.height <= top
           /\ req' = [req EXCEPT !.next = "pruningStatus"]
    BY <1>5, <2>1, PruningConstants
       DEF ReadBlockHeight, GoesOn, Answers, Request, TypeOK, PruningTypeOK,
           Heights, HeightsOrZero
  <2>3. req.op = "status" /\ req.height > top => req.before # Cleared
    <3>1. req.height \in Heights /\ top \in Int /\ req.before \in Stages
      BY <2>1 DEF Request, TypeOK, PruningTypeOK, HeightsOrZero
    <3>2. stage[req.height] \in Stages
      BY <3>1 DEF TypeOK
    <3> QED
      BY <2>1, <3>1, <3>2
         DEF StagesFollowTop, RequestInv, StatusInv, Stages, CommitPending, Cleared,
             Heights
  <2>4. top \in Int /\ req.height \in Int
    BY <2>1 DEF Request, TypeOK, PruningTypeOK, HeightsOrZero, Heights
  <2> QED
    BY <1>0, <1>1, <2>1, <2>2, <2>3, <2>4
       DEF RequestInv, RangeInv, StatusInv, ContentInv, Request
<1>6. CASE ReadPruningStatus
  <2>1. /\ req # NoRequest /\ req \in Request /\ req.next = "pruningStatus"
        /\ ~IsArchived(lastPruned)
        /\ req' = [req EXCEPT !.next = "cid", !.lastPruned = lastPruned]
    BY <1>2, <1>6 DEF ReadPruningStatus, IsReading, GoesOn, Answers
  <2>2. /\ req'.next = "cid" /\ req'.lastPruned = lastPruned
        /\ req'.op = req.op /\ req'.height = req.height /\ req'.low = req.low
        /\ req'.before = req.before
    BY <2>1 DEF Request
  <2>3. IF req.op = "payloads" THEN req.low > lastPruned
                              ELSE req.height >= lastPruned
    BY <2>1 DEF IsArchived, Request, Heights, HeightsOrZero, TypeOK, PruningTypeOK
  <2>4. req.op # "status"
    BY <2>1 DEF RequestInv, StatusInv
  <2> QED
    BY <1>0, <1>1, <1>3, <2>1, <2>2, <2>3, <2>4
       DEF RequestInv, RangeInv, StatusInv, ContentInv
<1>7. CASE ReadCid
  BY <1>0, <1>1, <1>2, <1>7
     DEF ReadCid, IsReading, GoesOn, Answers, RequestInv, RangeInv, StatusInv,
         ContentInv, Request, Next, Disturbs
<1>8. ASSUME NEW b \in BOOLEAN, IsReading("content"), NextBlock(b), req.op # "status"
      PROVE  (RangeInv /\ StatusInv /\ ContentInv)'
  <2>1. /\ req # NoRequest /\ req \in Request /\ req.next = "content"
        /\ req.op = "payloads" /\ req.height > req.low
        /\ req' = [req EXCEPT !.next = "cid", !.height = @ - 1, !.hollow = b]
    BY <1>2, <1>8 DEF NextBlock, IsReading, GoesOn, Answers
  <2>2. /\ req'.next = "cid" /\ req'.lastPruned = req.lastPruned
        /\ req'.op = "payloads" /\ req'.height = req.height - 1
        /\ req'.low = req.low
    BY <2>1 DEF Request
  <2>3. /\ req.height \in Int /\ req.low \in Int /\ top \in Int
        /\ disturbed' \/ ~disturbed
    BY <2>1 DEF Request, Heights, TypeOK, PruningTypeOK, HeightsOrZero, Next,
       Disturbs
  <2> QED
    BY <1>0, <2>1, <2>2, <2>3 DEF RequestInv, RangeInv, StatusInv, ContentInv
<1>9. CASE ReadContent
  BY <1>1, <1>2, <1>8, <1>9 DEF ReadContent, IsReading, Shows, Answers, Request
<1>10. CASE ReadNothing
  BY <1>1, <1>8, <1>10 DEF ReadNothing, Answers
<1>11. CASE ReadPayloadCid
  BY <1>0, <1>1, <1>2, <1>11
     DEF ReadPayloadCid, IsReading, GoesOn, Shows, RequestInv, RangeInv,
         StatusInv, ContentInv, Request
<1>12. CASE ReadPending
  BY <1>12 DEF ReadPending, Shows
<1> QED
  BY <1>1, <1>4, <1>5, <1>6, <1>7, <1>9, <1>10, <1>11, <1>12 DEF Serve

LEMMA RequestInvStep ==
    TypeOK /\ StagesFollowTop /\ RequestInv /\ [Next]_vars => RequestInv'
<1>1. ASSUME [Next]_vars
      PROVE  \/ req' = req
             \/ Next /\ Serve /\ UNCHANGED <<pruningVars, snapshotVars>>
  BY <1>1 DEF Next, vars, apiVars, Outage
<1> QED
  BY <1>1, ChainKeepsRequest, ServeKeepsRequest

ReadInv == TypeOK /\ StagesFollowTop /\ RequestInv

LEMMA ReadInvHolds == Spec => []ReadInv
<1>1. Init => StagesFollowTop /\ RequestInv
  BY PruningConstants
     DEF Init, PruningInit, StagesFollowTop, RequestInv, CommitPending, Confirmed,
         Cleared, Heights
<1>2. ReadInv /\ [Next]_vars => ReadInv'
  BY StepType, StagesStep, RequestInvStep DEF ReadInv
<1> QED
  BY <1>1, <1>2, InitType, PTL DEF Spec, ReadInv

(***************************************************************************)
(* Answers                                                                  *)
(***************************************************************************)
\* How a request that has read what key names may be answered.
IsAnswer(key) ==
    CASE key = "blockHeight" -> reply' = "invalid"
      [] key = "pruningStatus" ->
            IsArchived(lastPruned) /\ reply' \in {"archived", "requestId"}
      [] key = "cid" ->
            /\ ~HasCid(req.height)
            /\ reply' = IF req.op = "status" THEN "notFound" ELSE "error"
      [] key = "content" ->
            \/ req.op # "status" /\ reply' \in {"ok", "hollow"}
            \/ req.op = "status" /\ reply' = "status" /\ shown' = Confirmed
            \/ /\ \/ IsGone(req.height) \/ outage
                  \/ req.op = "status" /\ req.height \in empty
               /\ reply' = "error"
      [] key = "payloadCid" ->
            /\ stage[req.height] = CommitPending \/ cleared = req.height
            /\ reply' = "status" /\ shown' = CommitPending
      [] key = "pending" -> reply' = "status" /\ shown' = StatusOf(req.height)

\* A request is answered by a step of its own, which leaves the project alone.
LEMMA AnswersAreServed ==
    ASSUME TypeOK, [Next]_vars, req # NoRequest, req' = NoRequest
    PROVE  /\ UNCHANGED <<pruningVars, snapshotVars>>
           /\ IsAnswer(req.next)
<1>1. req \in Request /\ NoRequest \notin Request
  BY NoRequestIsNone DEF TypeOK
<1>2. \A n \in Reads : [req EXCEPT !.next = n] # NoRequest
  BY <1>1, RequestType
<1>3. {"blockHeight", "pruningStatus", "cid", "content", "payloadCid", "pending"}
         \subseteq Reads
  BY DEF Reads
<1>4. Serve /\ UNCHANGED <<pruningVars, snapshotVars>>
  BY DEF Next, vars, apiVars, Outage
<1>5. ~Arrive
  BY DEF Arrive
<1>6. CASE ReadBlockHeight
  BY <1>2, <1>3, <1>4, <1>6
     DEF ReadBlockHeight, IsReading, GoesOn, Answers, IsAnswer
<1>7. CASE ReadPruningStatus
  <2>1. [req EXCEPT !.next = "cid", !.lastPruned = lastPruned] # NoRequest
    <3>1. lastPruned \in HeightsOrZero
      BY DEF TypeOK, PruningTypeOK
    <3>2. "cid" \in Reads
      BY <1>3
    <3>3. [req EXCEPT !.next = "cid", !.lastPruned = lastPruned] \in Request
      BY <1>1, <3>1, <3>2, RequestType
    <3> QED
      BY <1>1, <3>3
  <2> QED
    BY <1>4, <1>7, <2>1 DEF ReadPruningStatus, IsReading, GoesOn, Answers, IsAnswer
<1>8. CASE ReadCid
  BY <1>2, <1>3, <1>4, <1>8 DEF ReadCid, IsReading, GoesOn, Answers, IsAnswer
<1>9. ASSUME NEW b \in BOOLEAN, NextBlock(b)
      PROVE  reply' \in {"ok", "hollow"}
  <2>1. CASE req.op = "payloads" /\ req.height > req.low
    <3>1. req.height - 1 \in Heights
      BY <1>1, <2>1, PruningConstants DEF Request, Heights
    <3>2. [req EXCEPT !.next = "cid", !.height = @ - 1, !.hollow = b] \in Request
      BY <1>1, <1>3, <3>1, RequestType
    <3> QED
      BY <1>1, <1>9, <2>1, <3>2 DEF NextBlock, GoesOn
  <2>2. CASE ~(req.op = "payloads" /\ req.height > req.low)
    BY <1>9, <2>2 DEF NextBlock, Answers
  <2> QED
    BY <2>1, <2>2
<1>10. CASE ReadContent
  <2>1. req.hollow \in BOOLEAN
    BY <1>1 DEF Request
  <2> QED
    BY <1>4, <1>9, <1>10, <2>1 DEF ReadContent, IsReading, Shows, Answers, IsAnswer
<1>11. CASE ReadNothing
  BY <1>4, <1>9, <1>11 DEF ReadNothing, IsReading, Answers, IsAnswer
<1>12. CASE ReadPayloadCid
  BY <1>2, <1>3, <1>4, <1>12 DEF ReadPayloadCid, IsReading, GoesOn, Shows, IsAnswer
<1>13. CASE ReadPending
  BY <1>4, <1>13 DEF ReadPending, IsReading, Shows, IsAnswer
<1> QED
  BY <1>4, <1>5, <1>6, <1>7, <1>8, <1>10, <1>11, <1>12, <1>13 DEF Serve

\* With archival, whoever is told that a block is archived finds it in cold storage.
THEOREM ArchivedAreRecoverable == Spec => ArchivedIsRecoverable
<1> DEFINE Told == /\ archiving /\ req # NoRequest /\ req' = NoRequest
                   /\ reply' \in {"archived", "requestId"}
           Kept == \A i \in Segments : req.low \in Begin(i)..End(i) => i \in uploaded
<1>1. ASSUME ReadInv, PruningInv, [Next]_vars, Told
      PROVE  Kept
  <2>1. req \in Request /\ TypeOK
    BY <1>1 DEF ReadInv, TypeOK
  <2>2. IsArchived(lastPruned)
    BY <1>1, <2>1, AnswersAreServed DEF IsAnswer, Request, Reads
  <2>3. req.low \in Int /\ req.height \in Int /\ lastPruned \in Int
    BY <1>1, <2>1
       DEF Request, Heights, PruningInv, PruningTypeOK, HeightsOrZero
  <2>4. req.low <= lastPruned
    BY <1>1, <2>2, <2>3 DEF IsArchived, ReadInv, RequestInv, RangeInv
  <2>5. ASSUME NEW i \in Segments, req.low \in Begin(i)..End(i)
        PROVE  i \in uploaded
    <3>1. Begin(i) <= lastPruned
      BY <2>3, <2>4, <2>5, SegmentBounds DEF Heights
    <3> QED
      BY <1>1, <3>1 DEF PruningInv, UploadedFirst, IsTaken
  <2> QED
    BY <2>5
<1>2. ReadInv /\ PruningInv /\ [Next]_vars => [Told => Kept]_apiVars
  BY <1>1
<1> QED
  BY <1>2, ReadInvHolds, PruningInvHolds, PTL DEF Spec, ArchivedIsRecoverable

\* A request fails only when a block was being recorded or a segment pruned since
\* it came; or for the last pruned height, which a point read takes for stored,
\* for the status of a block without a payload, or when IPFS does not answer.
THEOREM ErrorsAreExcused == Spec => ErrorsOnlyInTransition
<1> DEFINE Failed == req # NoRequest /\ reply' = "error" /\ req' = NoRequest
           Excused == disturbed \/ IsExempt
<1>1. ASSUME ReadInv, [Next]_vars, Failed, UNCHANGED apiVars => FALSE
      PROVE  Excused
  <2>1. /\ req \in Request /\ RangeInv /\ StatusInv /\ ContentInv
        /\ IsDisturbing => disturbed
        /\ disturbed \in BOOLEAN
    BY <1>1 DEF ReadInv, TypeOK, RequestInv
  <2>2. /\ req.height \in Int /\ req.low \in Int /\ req.lastPruned \in Int
        /\ top \in Int /\ recorded \in Int /\ cidsLow \in Int
    BY <1>1, <2>1
       DEF Request, Heights, HeightsOrZero, ReadInv, TypeOK, PruningTypeOK
  <2>3. IsAnswer(req.next) /\ req.next \in Reads
    BY <1>1, <2>1, AnswersAreServed DEF ReadInv, Request
  <2>4. CASE req.next = "content"
    BY <1>1, <2>1, <2>3, <2>4 DEF IsAnswer, IsDisturbing, IsExempt
  <2>5. CASE req.next = "cid"
    <3>1. req.op # "status" /\ ~HasCid(req.height)
      BY <1>1, <2>3, <2>5 DEF IsAnswer
    <3>2. req.height <= top
      BY <2>1, <2>5, <3>1 DEF ContentInv
    <3>3. CASE req.height > recorded
      BY <1>1, <2>1, <2>2, <3>1, <3>2, <3>3 DEF IsDisturbing
    <3>4. CASE req.height <= cidsLow
      BY <2>1, <2>2, <2>5, <3>1, <3>4
         DEF ContentInv, RangeInv, IsExempt, Request, Ops
    <3> QED
      BY <2>2, <3>1, <3>3, <3>4 DEF HasCid
  <2> QED
    BY <1>1, <2>3, <2>4, <2>5 DEF IsAnswer, Reads
<1>2. ReadInv /\ [Next]_vars => [Failed => Excused]_apiVars
  BY <1>1
<1> QED
  BY <1>2, ReadInvHolds, PTL DEF Spec, ErrorsOnlyInTransition

\* A status is never better than the block, and worse than it was when the
\* request came only if the entry was rewritten or the block finalized since.
THEOREM StatusesAreHonest == Spec => StatusIsHonest
<1> DEFINE Shown == req # NoRequest /\ req' = NoRequest /\ reply' = "status"
           Honest == /\ shown' <= stage[req.height]
                     /\ shown' < req.before => disturbed \/ req.before = Cleared
                     /\ req.before = Cleared => shown' = Confirmed
<1>1. ASSUME ReadInv, [Next]_vars, Shown
      PROVE  Honest
  <2>1. /\ req \in Request /\ StatusInv /\ ContentInv
        /\ IsDisturbing => disturbed
    BY <1>1 DEF ReadInv, TypeOK, RequestInv
  <2>2. /\ req.height \in Heights
        /\ stage[req.height] \in Stages /\ req.before \in Stages
    BY <1>1, <2>1 DEF Request, ReadInv, TypeOK
  <2> USE DEF Stages, CommitPending, AckPending, ConfirmationPending, Confirmed,
              Cleared
  <2>3. IsAnswer(req.next) /\ req.next \in Reads
    BY <1>1, <2>1, AnswersAreServed DEF ReadInv, Request
  <2>4. CASE req.next = "content"
    <3>1. req.op = "status" /\ shown' = Confirmed
      BY <1>1, <2>3, <2>4 DEF IsAnswer
    <3>2. stage[req.height] \in {Confirmed, Cleared}
      BY <1>1, <2>1, <2>2, <2>4, <3>1 DEF ReadInv, StagesFollowTop, StatusInv
    <3> QED
      BY <2>2, <3>1, <3>2
  <2>5. CASE req.next = "payloadCid"
    <3>1. /\ stage[req.height] = CommitPending \/ cleared = req.height
          /\ shown' = CommitPending
      BY <2>3, <2>5 DEF IsAnswer
    <3>2. req.op = "status"
      BY <2>1, <2>5 DEF ContentInv
    <3>3. cleared = req.height => disturbed
      BY <1>1, <2>1, <3>2 DEF IsDisturbing
    <3> QED
      BY <2>1, <2>2, <2>5, <3>1, <3>2, <3>3 DEF StatusInv
  <2>6. CASE req.next = "pending"
    <3>1. shown' = StatusOf(req.height)
      BY <2>3, <2>6 DEF IsAnswer
    <3>2. req.op = "status"
      BY <2>1, <2>6 DEF ContentInv
    <3>3. CASE stage[req.height] = Cleared \/ rewritten = req.height
      BY <1>1, <2>1, <2>2, <2>6, <3>1, <3>2, <3>3
         DEF StatusInv, StatusOf, IsDisturbing
    <3>4. CASE stage[req.height] # Cleared /\ rewritten # req.height
      BY <2>1, <2>2, <2>6, <3>1, <3>2, <3>4 DEF StatusInv, StatusOf
    <3> QED
      BY <3>3, <3>4
  <2> QED
    BY <1>1, <2>3, <2>4, <2>5, <2>6 DEF IsAnswer, Reads
<1>2. ReadInv /\ [Next]_vars => [Shown => Honest]_apiVars
  BY <1>1
<1> QED
  BY <1>2, ReadInvHolds, PTL DEF Spec, StatusIsHonest
=============================================================================
