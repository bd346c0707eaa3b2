------------------------- MODULE DagFinalizer_proofs -------------------------
(***************************************************************************)
(* Theorems about DagFinalizer, for every chain length, segment size and   *)
(* threshold.                                                              *)
(***************************************************************************)
EXTENDS DagFinalizer, SequenceTheorems, TLAPS

LEMMA InitType == Init => TypeOK
BY SizesAreNaturals DEF Init, TypeOK, HeightsOrZero, Heights, DagCids, NoCid,
   NoCallback, Callback, PayloadCids, Labels, EventLabels, BlockLabels,
   HealLabels, PendingEntry, Block

LEMMA AsCallbackType ==
    ASSUME NEW p \in PendingEntry
    PROVE  AsCallback(p) \in Callback /\ p.height \in Heights
BY SizesAreNaturals DEF PendingEntry, AsCallback, Callback, Heights, HeightsOrZero

LEMMA NoCallbackType == NoCallback \in Callback /\ NoCid \in DagCids
BY SizesAreNaturals DEF NoCallback, Callback, HeightsOrZero, PayloadCids, NoCid,
   DagCids

LEMMA EndTaskType ==
    ASSUME EndTask
    PROVE  /\ pc' \in Labels
           /\ event' \in Callback
           /\ view' \in SUBSET PendingEntry
           /\ work' \in SUBSET PendingEntry
           /\ block' \in Callback
           /\ newCid' \in DagCids
           /\ pc' \notin EventLabels \union BlockLabels
BY NoCallbackType DEF EndTask, Labels, EventLabels, BlockLabels

LEMMA CreateType ==
    ASSUME NEW p \in Callback, p.height \in Heights,
           NEW entries \in SUBSET PendingEntry, Create(p, entries)
    PROVE  /\ pc' \in Labels
           /\ event' \in Callback
           /\ view' \in SUBSET PendingEntry
           /\ work' \in SUBSET PendingEntry
           /\ block' \in Callback
           /\ newCid' \in DagCids
           /\ pc' \notin EventLabels
           /\ block'.height \in Heights
BY NoCallbackType DEF Create, FirstStep, Labels, EventLabels, BlockLabels

LEMMA EnqueueType ==
    ASSUME TypeOK, NEW h \in Heights, NEW cid \in PayloadCids,
           NEW touched \in Int, NEW entries \in SUBSET PendingEntry,
           Enqueue(h, cid, touched, entries)
    PROVE  /\ issued' \in [Heights -> Nat]
           /\ pending' \in SUBSET PendingEntry
           /\ callbacks' \in SUBSET Callback
           /\ \A c \in callbacks' : c.height \in Heights
<1>1. issued[h] + 1 \in Nat
  BY DEF TypeOK
<1>2. h \in HeightsOrZero
  BY SizesAreNaturals DEF Heights, HeightsOrZero
<1>3. pending' \in SUBSET PendingEntry
  BY <1>1 DEF Enqueue, PendingEntry
<1>4. /\ callbacks' \in SUBSET Callback
      /\ \A c \in callbacks' : c.height \in Heights
  BY <1>1, <1>2 DEF Enqueue, Callback, TypeOK
<1>5. issued' \in [Heights -> Nat]
  BY <1>1 DEF Enqueue, TypeOK
<1> QED
  BY <1>3, <1>4, <1>5

LEMMA ScoredType ==
    ASSUME NEW index \in [Heights -> SUBSET PayloadCids], NEW added,
           \A p \in added : p.cid \in PayloadCids
    PROVE  Scored(index, added) \in [Heights -> SUBSET PayloadCids]
BY DEF Scored, AtHeight

LEMMA CommitType == TypeOK /\ Commit => TypeOK'
<1> SUFFICES ASSUME TypeOK, Commit PROVE TypeOK'
  OBVIOUS
<1> USE SizesAreNaturals DEF TypeOK, chainVars, commitVars, taskVars
<1>1. ASSUME NEW h \in Heights, CommitSnapshot(h) PROVE TypeOK'
  <2>1. \A p \in {[height |-> h, cid |-> LocalCid[h]]} : p.cid \in PayloadCids
    BY ContentsHaveCids DEF PayloadCids
  <2>2. payloadCids' \in [Heights -> SUBSET PayloadCids]
    BY <1>1, <2>1, ScoredType DEF CommitSnapshot
  <2> QED
    BY <1>1, <2>2 DEF CommitSnapshot
<1>2. ASSUME NEW h \in Heights, AddToPendingTxns(h) PROVE TypeOK'
  <2>1. PICK cid \in PayloadCids : Enqueue(h, cid, CallbackPending, pending)
    BY <1>2, ContentsHaveCids DEF AddToPendingTxns, PayloadCids
  <2>2. /\ issued' \in [Heights -> Nat]
        /\ pending' \in SUBSET PendingEntry
        /\ callbacks' \in SUBSET Callback
        /\ \A c \in callbacks' : c.height \in Heights
    BY <2>1, EnqueueType DEF CallbackPending
  <2> QED
    BY <1>2, <2>2 DEF AddToPendingTxns
<1>3. ASSUME NEW m \in commitQueue, Resubmit(m) PROVE TypeOK'
  <2>1. /\ m.height \in Heights
        /\ m.cid \in PayloadCids
        /\ m.block \in Int
        /\ WithoutHeight(pending, m.height) \in SUBSET PendingEntry
    BY DEF Resubmission, Heights, WithoutHeight
  <2>2. /\ issued' \in [Heights -> Nat]
        /\ pending' \in SUBSET PendingEntry
        /\ callbacks' \in SUBSET Callback
        /\ \A c \in callbacks' : c.height \in Heights
    BY <1>3, <2>1, EnqueueType DEF Resubmit
  <2> QED
    BY <1>3, <2>2 DEF Resubmit
<1> QED
  BY <1>1, <1>2, <1>3 DEF Commit

LEMMA ReceiveType == TypeOK /\ Receive => TypeOK'
<1> SUFFICES ASSUME TypeOK, NEW c \in callbacks,
                    \/ DiscardStale(c) \/ DiscardUnknown(c)
                    \/ TakeNext(c) \/ TakeEarly(c)
             PROVE  TypeOK'
  BY DEF Receive
<1> USE SizesAreNaturals DEF TypeOK, chainVars, commitVars, taskVars, Consume
<1>1. CASE DiscardStale(c)
  BY <1>1 DEF DiscardStale, WithoutHeight, Callback
<1>2. CASE DiscardUnknown(c)
  BY <1>2 DEF DiscardUnknown, Callback
<1>3. CASE TakeNext(c)
  <2>1. Create(c, {p \in pending : p.height > c.height})
    BY <1>3 DEF TakeNext
  <2> QED
    BY <1>3, <2>1, CreateType DEF TakeNext
<1>4. CASE TakeEarly(c)
  BY <1>4 DEF TakeEarly, Matches, Labels, EventLabels, BlockLabels
<1> QED
  BY <1>1, <1>2, <1>3, <1>4

LEMMA HandleEarlyType == TypeOK /\ HandleEarly => TypeOK'
<1> SUFFICES ASSUME TypeOK, HandleEarly PROVE TypeOK'
  OBVIOUS
<1> USE DEF TypeOK, chainVars, commitVars, taskVars, GoTo, Labels,
           EventLabels, HealLabels, BlockLabels
<1>1. CASE SaveRemove
  BY <1>1 DEF SaveRemove
<1>2. CASE SaveAdd
  <2>1. event.height \in Heights
    BY <1>2 DEF SaveAdd
  <2>2. [height |-> event.height, req |-> event.req, touched |-> Received,
         cid |-> event.cid] \in PendingEntry
    BY <2>1 DEF Callback, PendingEntry, Received
  <2> QED
    BY <1>2, <2>2 DEF SaveAdd
<1>3. CASE Scan
  BY <1>3 DEF Scan, Overdue
<1>4. CASE PublishResubmission
  <2>1. PICK p \in work :
          commitQueue' = commitQueue \union
              {[height |-> p.height, cid |-> p.cid, block |-> event.height]}
    BY <1>4 DEF PublishResubmission
  <2>2. event.height \in Heights
    BY <1>4 DEF PublishResubmission
  <2>3. [height |-> p.height, cid |-> p.cid, block |-> event.height] \in Resubmission
    BY <2>2 DEF Resubmission, PendingEntry
  <2> QED
    BY <1>4, <2>1, <2>3 DEF PublishResubmission
<1>5. CASE TouchRemove
  BY <1>5 DEF TouchRemove
<1>6. CASE TouchAdd
  <2>1. PICK p \in work :
          /\ pending' = pending \union {[p EXCEPT !.touched = event.height]}
          /\ work' = work \ {p}
    BY <1>6 DEF TouchAdd
  <2>2. [p EXCEPT !.touched = event.height] \in PendingEntry
    <3>1. event.height \in Int
      BY <1>6, SizesAreNaturals DEF TouchAdd, Heights
    <3>2. p \in PendingEntry
      OBVIOUS
    <3> QED
      BY <3>1, <3>2 DEF PendingEntry
  <2>3. pending' \in SUBSET PendingEntry /\ work' \in SUBSET PendingEntry
    BY <2>1, <2>2
  <2> QED
    BY <1>6, <2>3 DEF TouchAdd
<1> QED
  BY <1>1, <1>2, <1>3, <1>4, <1>5, <1>6 DEF HandleEarly

LEMMA HealType == TypeOK /\ Heal => TypeOK'
<1> SUFFICES ASSUME TypeOK, Heal PROVE TypeOK'
  OBVIOUS
<1> USE DEF TypeOK, chainVars, commitVars, taskVars, GoTo, Labels,
           EventLabels, HealLabels, BlockLabels
<1>1. CASE HealReady
  <2>1. PICK p \in PendingEntry : block' = AsCallback(p)
    BY <1>1 DEF HealReady, ReadyEntries, Confirmed
  <2>2. block' \in Callback /\ block'.height \in Heights
    BY <2>1, AsCallbackType DEF AsCallback
  <2> QED
    BY <1>1, <2>2 DEF HealReady
<1>2. CASE ReadyRead
  <2>1. /\ Create(block, {p \in pending : p.height > blockHeight})
        /\ block.height \in Heights
    BY <1>2 DEF ReadyRead
  <2> QED
    BY <1>2, <2>1, CreateType DEF ReadyRead
<1>3. CASE HealMissing
  <2>1. PICK first \in LaterEntries :
          \E answer \in [(blockHeight + 1)..(first.height - 1) -> PayloadCids] :
              work' = {[height |-> h, req |-> 0, touched |-> Received,
                        cid |-> answer[h]] :
                           h \in (blockHeight + 1)..(first.height - 1)}
    BY <1>3 DEF HealMissing
  <2>2. first.height \in Heights
    BY DEF LaterEntries, Confirmed, PendingEntry
  <2>3. PICK answer \in [(blockHeight + 1)..(first.height - 1) -> PayloadCids] :
              work' = {[height |-> h, req |-> 0, touched |-> Received,
                        cid |-> answer[h]] :
                           h \in (blockHeight + 1)..(first.height - 1)}
    BY <2>1
  <2>4. ASSUME NEW h \in (blockHeight + 1)..(first.height - 1)
        PROVE  [height |-> h, req |-> 0, touched |-> Received,
                cid |-> answer[h]] \in PendingEntry
    <3>1. h \in Heights
      BY <2>2, SizesAreNaturals DEF Heights, HeightsOrZero
    <3>2. answer[h] \in PayloadCids
      BY <2>3
    <3>3. 0 \in Nat /\ Received \in Int
      BY DEF Received
    <3> QED
      BY <3>1, <3>2, <3>3 DEF PendingEntry
  <2>5. work' \in SUBSET PendingEntry
    BY <2>3, <2>4
  <2> QED
    BY <1>3, <2>5 DEF HealMissing
<1>4. CASE NoHealing
  BY <1>4, EndTaskType DEF NoHealing
<1>5. CASE HealClear
  BY <1>5 DEF HealClear
<1>6. CASE HealFill
  <2>1. PICK p \in work : block' = AsCallback(p)
    BY <1>6 DEF HealFill
  <2>2. block' \in Callback /\ block'.height \in Heights
    BY <2>1, AsCallbackType DEF AsCallback
  <2>3. payloadCids' \in [Heights -> SUBSET PayloadCids]
    BY <1>6, ScoredType DEF HealFill, PendingEntry
  <2> QED
    BY <1>6, <2>2, <2>3 DEF HealFill
<1>7. CASE HealPending
  BY <1>7 DEF HealPending
<1>8. CASE HealRead
  <2>1. /\ Create(block, {p \in pending : p.height > block.height})
        /\ block.height \in Heights
    BY <1>8 DEF HealRead
  <2> QED
    BY <1>8, <2>1, CreateType DEF HealRead
<1> QED
  BY <1>1, <1>2, <1>3, <1>4, <1>5, <1>6, <1>7, <1>8 DEF Heal

LEMMA BlockInIpfs ==
    ASSUME TypeOK, NEW b \in Block, PutInIpfs(b)
    PROVE  /\ ipfs' \in Seq(Block)
           /\ newCid' \in DOMAIN ipfs'
           /\ newCid' \in DagCids
           /\ ipfs'[newCid'] = b
           /\ DOMAIN ipfs \subseteq DOMAIN ipfs'
           /\ \A i \in DOMAIN ipfs : ipfs'[i] = ipfs[i]
<1> USE DEF TypeOK, DagCids
<1>1. CASE \E i \in DOMAIN ipfs : ipfs[i] = b /\ newCid' = i /\ UNCHANGED ipfs
  BY <1>1
<1>2. CASE ipfs' = Append(ipfs, b) /\ newCid' = Len(ipfs) + 1
  BY <1>2
<1> QED
  BY <1>1, <1>2 DEF PutInIpfs

LEMMA NewBlockType ==
    ASSUME TypeOK, block.height \in Heights, NEW last \in DagCids
    PROVE  NewBlock(last) \in Block
BY NoCallbackType DEF TypeOK, NewBlock, Block, Callback

LEMMA PreviousCidsType ==
    ASSUME TypeOK, block.height \in Heights
    PROVE  PreviousCids \in SUBSET DagCids
BY SizesAreNaturals DEF TypeOK, PreviousCids, Heights

LEMMA CreateBlockType == TypeOK /\ CreateBlock => TypeOK'
<1> SUFFICES ASSUME TypeOK, CreateBlock PROVE TypeOK'
  OBVIOUS
<1> USE DEF TypeOK, chainVars, commitVars, taskVars, GoTo, Labels,
           EventLabels, HealLabels, BlockLabels
<1>1. CASE RecordSegment
  <2>1. block.height \in Heights /\ block.height - 1 \in Nat
    BY <1>1, SizesAreNaturals DEF RecordSegment, Heights
  <2>2. CASE EndTask /\ UNCHANGED segments
    BY <1>1, <2>2, EndTaskType DEF RecordSegment
  <2>3. ASSUME NEW last \in PreviousCids, NEW first \in NextBegin,
               segments' = {s \in segments : s.end # block.height - 1} \union
                   {[begin |-> first, end |-> block.height - 1, cid |-> last]},
               GoTo("put")
        PROVE  TypeOK'
    <3>1. first \in Nat
      BY <2>3 DEF NextBegin, LastSegments, Segment
    <3>2. last \in DagCids
      BY <2>1, PreviousCidsType
    <3>3. segments' \in SUBSET Segment
      BY <2>1, <2>3, <3>1, <3>2 DEF Segment
    <3> QED
      BY <1>1, <2>1, <2>3, <3>3 DEF RecordSegment
  <2> QED
    BY <1>1, <2>2, <2>3 DEF RecordSegment
<1>2. CASE PutDagBlock
  <2>1. PICK last \in IF PreviousCids = {} THEN {NoCid} ELSE PreviousCids :
          PutInIpfs(NewBlock(last))
    BY <1>2 DEF PutDagBlock
  <2>2. block.height \in Heights
    BY <1>2 DEF PutDagBlock
  <2>3. last \in DagCids
    BY <2>2, PreviousCidsType, NoCallbackType
  <2>4. NewBlock(last) \in Block
    BY <2>2, <2>3, NewBlockType
  <2>5. ipfs' \in Seq(Block) /\ newCid' \in DagCids
    BY <2>1, <2>4, BlockInIpfs
  <2> QED
    BY <1>2, <2>2, <2>5 DEF PutDagBlock
<1>3. CASE SetBlockHeight
  BY <1>3, SizesAreNaturals DEF SetBlockHeight, Heights, HeightsOrZero
<1>4. CASE SetLastDagCid
  BY <1>4 DEF SetLastDagCid
<1>5. CASE AddDagCid
  BY <1>5 DEF AddDagCid
<1>6. CASE ClearPending
  BY <1>6 DEF ClearPending, WithoutHeight
<1>7. CASE Drain
  <2>1. CASE Queued(block.height) = {} /\ EndTask
    BY <1>7, <2>1, EndTaskType DEF Drain
  <2>2. ASSUME NEW p \in Queued(block.height), Create(AsCallback(p), view)
        PROVE  TypeOK'
    <3>1. p \in PendingEntry
      BY DEF Queued, Confirmed
    <3>2. AsCallback(p) \in Callback /\ AsCallback(p).height \in Heights
      BY <3>1, AsCallbackType DEF AsCallback
    <3> QED
      BY <1>7, <2>2, <3>2, CreateType DEF Drain
  <2> QED
    BY <1>7, <2>1, <2>2 DEF Drain
<1> QED
  BY <1>1, <1>2, <1>3, <1>4, <1>5, <1>6, <1>7 DEF CreateBlock

LEMMA TaskDiesType == TypeOK /\ TaskDies => TypeOK'
BY EndTaskType DEF TaskDies, TypeOK, chainVars, commitVars

LEMMA StepType == TypeOK /\ [Next]_vars => TypeOK'
<1> SUFFICES ASSUME TypeOK, [Next]_vars PROVE TypeOK'
  OBVIOUS
<1>1. CASE UNCHANGED vars
  BY <1>1 DEF vars, TypeOK, chainVars, commitVars, taskVars
<1> QED
  BY <1>1, CommitType, ReceiveType, HandleEarlyType, HealType,
     CreateBlockType, TaskDiesType DEF Next, Task

\* Every Redis key, queue and local of the finalizer keeps its type: in
\* particular blockHeight stays a height and no step of a callback that needs
\* its event or its block finds it missing.
THEOREM TypeCorrect == Spec => []TypeOK
<1>1. Init => TypeOK
  BY InitType
<1>2. TypeOK /\ [Next]_vars => TypeOK'
  BY StepType
<1> QED
  BY <1>1, <1>2, PTL DEF Spec

(***************************************************************************)
(* The finalized height and the heights on record, wherever tasks die      *)
(***************************************************************************)
\* A block being made is the next one until blockHeight is set, healing fills
\* the heights right above the chain, and nothing is on record above it.
HeightInv ==
    /\ pc \in {"readyRead", "healPending", "healRead", "segment", "put",
               "setHeight"} => block.height = blockHeight + 1
    /\ pc \in {"setLast", "addCid", "clear", "drain"} =>
          block.height = blockHeight
    /\ pc \in HealLabels =>
          /\ \A p \in work : p.height > blockHeight
          /\ \E p \in work : p.height = blockHeight + 1
    /\ \A h \in Heights : h > Recorded => dagCids[h] = {}

\* Every height on record has one CID, whose block continues the chain, and so
\* does the block that is about to be recorded.
LinkInv ==
    /\ \A h \in 1..Recorded :
           \E c \in DOMAIN ipfs : dagCids[h] = {c} /\ Continues(c, h)
    /\ pc \in {"setHeight", "setLast", "addCid"} =>
          newCid \in DOMAIN ipfs /\ Continues(newCid, block.height)

LEMMA InitHeight == Init => HeightInv
BY DEF Init, HeightInv, HealLabels, Recorded

\* A step that leaves the chain alone keeps HeightInv if it ends the task or
\* starts the block right above the chain.
LEMMA EndTaskHeight ==
    ASSUME HeightInv, EndTask, UNCHANGED <<blockHeight, dagCids>>,
           pc \notin {"setLast", "addCid"}
    PROVE  HeightInv'
BY DEF HeightInv, EndTask, Recorded, HealLabels

LEMMA CreateHeight ==
    ASSUME HeightInv, NEW p, NEW entries, Create(p, entries),
           p.height = blockHeight + 1, UNCHANGED <<blockHeight, dagCids>>,
           pc \notin {"setLast", "addCid"}
    PROVE  HeightInv'
BY DEF HeightInv, Create, FirstStep, Recorded, HealLabels

LEMMA ReceiveHeight == TypeOK /\ HeightInv /\ Receive => HeightInv'
<1> SUFFICES ASSUME TypeOK, HeightInv, NEW c \in callbacks,
                    \/ DiscardStale(c) \/ DiscardUnknown(c)
                    \/ TakeNext(c) \/ TakeEarly(c)
             PROVE  HeightInv'
  BY DEF Receive
<1>1. CASE DiscardStale(c) \/ DiscardUnknown(c)
  BY <1>1 DEF DiscardStale, DiscardUnknown, HeightInv, Recorded, chainVars,
     taskVars
<1>2. CASE TakeNext(c)
  BY <1>2, CreateHeight DEF TakeNext, IsNext, chainVars
<1>3. CASE TakeEarly(c)
  BY <1>3 DEF TakeEarly, HeightInv, Recorded, chainVars, HealLabels
<1> QED
  BY <1>1, <1>2, <1>3

LEMMA HandleEarlyHeight == HeightInv /\ HandleEarly => HeightInv'
BY DEF HandleEarly, SaveRemove, SaveAdd, Scan, PublishResubmission, TouchRemove,
   TouchAdd, GoTo, HeightInv, Recorded, chainVars, HealLabels

LEMMA HealHeight == TypeOK /\ HeightInv /\ Heal => HeightInv'
<1> SUFFICES ASSUME TypeOK, HeightInv, Heal PROVE HeightInv'
  OBVIOUS
<1> USE DEF chainVars, HeightInv, Recorded, HealLabels
<1>1. CASE HealReady
  BY <1>1 DEF HealReady, ScanDone, ReadyEntries, AsCallback
<1>2. CASE ReadyRead
  BY <1>2, CreateHeight DEF ReadyRead
<1>3. CASE HealMissing
  <2>1. PICK first \in LaterEntries :
          \E answer \in [(blockHeight + 1)..(first.height - 1) -> PayloadCids] :
              work' = {[height |-> h, req |-> 0, touched |-> Received,
                        cid |-> answer[h]] :
                           h \in (blockHeight + 1)..(first.height - 1)}
    BY <1>3 DEF HealMissing
  <2>2. /\ first.height \in Int
        /\ first.height > blockHeight + 1
        /\ blockHeight \in Int
    BY SizesAreNaturals DEF LaterEntries, Confirmed, TypeOK, PendingEntry,
       Heights, HeightsOrZero
  <2>3. /\ \A p \in work' : p.height > blockHeight
        /\ \E p \in work' : p.height = blockHeight + 1
    <3> DEFINE Missing == (blockHeight + 1)..(first.height - 1)
    <3>1. PICK answer \in [Missing -> PayloadCids] :
            work' = {[height |-> h, req |-> 0, touched |-> Received,
                      cid |-> answer[h]] : h \in Missing}
      BY <2>1
    <3>2. blockHeight + 1 \in Missing /\ \A h \in Missing : h > blockHeight
      BY <2>2
    <3>3. [height |-> blockHeight + 1, req |-> 0, touched |-> Received,
           cid |-> answer[blockHeight + 1]] \in work'
      BY <3>1, <3>2
    <3>4. \A p \in work' : \E h \in Missing : p.height = h
      BY <3>1
    <3> HIDE DEF Missing
    <3> QED
      BY <3>2, <3>3, <3>4
  <2> QED
    BY <1>3, <2>3 DEF HealMissing, ScanDone
<1>4. CASE NoHealing
  BY <1>4, EndTaskHeight DEF NoHealing, ScanDone
<1>5. CASE HealClear
  BY <1>5 DEF HealClear, GoTo
<1>6. CASE HealFill
  <2>1. PICK p \in work : IsLowest(p, work) /\ block' = AsCallback(p)
    BY <1>6 DEF HealFill
  <2>2. p.height = blockHeight + 1
    <3>1. PICK q \in work : q.height = blockHeight + 1
      BY <1>6 DEF HealFill
    <3>2. p.height <= q.height /\ p.height > blockHeight
      BY <1>6, <2>1, <3>1 DEF IsLowest, HealFill
    <3>3. p.height \in Int /\ blockHeight \in Int
      BY SizesAreNaturals DEF TypeOK, PendingEntry, Heights, HeightsOrZero
    <3> QED
      BY <3>1, <3>2, <3>3
  <2> QED
    BY <1>6, <2>1, <2>2 DEF HealFill, AsCallback
<1>7. CASE HealPending
  BY <1>7 DEF HealPending
<1>8. CASE HealRead
  BY <1>8, CreateHeight DEF HealRead
<1> QED
  BY <1>1, <1>2, <1>3, <1>4, <1>5, <1>6, <1>7, <1>8 DEF Heal

LEMMA CreateBlockHeight == TypeOK /\ HeightInv /\ CreateBlock => HeightInv'
<1> SUFFICES ASSUME TypeOK, HeightInv, CreateBlock PROVE HeightInv'
  OBVIOUS
<1>0. blockHeight \in Int
  BY SizesAreNaturals DEF TypeOK, HeightsOrZero
<1> USE DEF chainVars, HeightInv, Recorded, HealLabels, GoTo
<1>1. CASE RecordSegment
  BY <1>1 DEF RecordSegment, EndTask
<1>2. CASE PutDagBlock
  BY <1>2 DEF PutDagBlock
<1>3. CASE SetBlockHeight
  <2>1. blockHeight' = blockHeight + 1
    BY <1>3 DEF SetBlockHeight
  <2>2. Recorded' = blockHeight /\ Recorded = blockHeight
    BY <1>0, <1>3, <2>1 DEF SetBlockHeight
  <2>3. \A h \in Heights : h > Recorded' => dagCids'[h] = {}
    BY <1>3, <2>2 DEF SetBlockHeight
  <2> QED
    BY <1>3, <2>3 DEF SetBlockHeight
<1>4. CASE SetLastDagCid
  BY <1>4 DEF SetLastDagCid
<1>5. CASE AddDagCid
  <2>1. block.height = blockHeight /\ block.height \in Heights
    BY <1>5 DEF AddDagCid, TypeOK, BlockLabels
  <2>2. \A h \in Heights : h > blockHeight => dagCids'[h] = dagCids[h]
    BY <1>0, <1>5, <2>1 DEF AddDagCid, TypeOK
  <2>3. \A h \in Heights : h > blockHeight => dagCids[h] = {}
    BY <1>0, <1>5, SizesAreNaturals DEF AddDagCid, Heights
  <2> QED
    BY <1>5, <2>1, <2>2, <2>3 DEF AddDagCid
<1>6. CASE ClearPending
  BY <1>6 DEF ClearPending
<1>7. CASE Drain
  <2>1. CASE EndTask
    BY <1>7, <2>1, EndTaskHeight DEF Drain
  <2>2. ASSUME NEW p \in Queued(block.height), Create(AsCallback(p), view)
        PROVE  HeightInv'
    <3>1. AsCallback(p).height = blockHeight + 1
      BY <1>7 DEF Drain, Queued, AsCallback
    <3>2. UNCHANGED <<blockHeight, dagCids>> /\ pc = "drain"
      BY <1>7 DEF Drain
    <3> QED
      BY <2>2, <3>1, <3>2, CreateHeight
  <2> QED
    BY <1>7, <2>1, <2>2 DEF Drain
<1> QED
  BY <1>1, <1>2, <1>3, <1>4, <1>5, <1>6, <1>7 DEF CreateBlock

\* A task that dies before its CID is recorded leaves even less on record.
LEMMA TaskDiesHeight == TypeOK /\ HeightInv /\ TaskDies => HeightInv'
<1> SUFFICES ASSUME TypeOK, HeightInv, TaskDies PROVE HeightInv'
  OBVIOUS
<1>1. blockHeight \in Int
  BY SizesAreNaturals DEF TypeOK, HeightsOrZero
<1>2. \A h \in Heights : h > blockHeight => dagCids[h] = {}
  BY <1>1, SizesAreNaturals DEF HeightInv, Recorded, Heights
<1> QED
  BY <1>2 DEF TaskDies, EndTask, HeightInv, Recorded, HealLabels, chainVars

LEMMA StepHeight == TypeOK /\ HeightInv /\ [Next]_vars => HeightInv'
<1> SUFFICES ASSUME TypeOK, HeightInv, [Next]_vars PROVE HeightInv'
  OBVIOUS
<1>1. CASE UNCHANGED vars
  BY <1>1 DEF vars, HeightInv, Recorded, chainVars, taskVars
<1>2. CASE Commit
  BY <1>2 DEF Commit, CommitSnapshot, AddToPendingTxns, Resubmit, HeightInv,
     Recorded, chainVars, taskVars
<1> QED
  BY <1>1, <1>2, ReceiveHeight, HandleEarlyHeight, HealHeight,
     CreateBlockHeight, TaskDiesHeight DEF Next, Task

\* Whatever makes a block, a callback, healing or the drain, makes the next one,
\* and nothing is on record above the chain.
THEOREM HeightsHold == Spec => [](TypeOK /\ HeightInv)
<1>1. Init => HeightInv
  BY InitHeight
<1>2. TypeOK /\ HeightInv /\ [Next]_vars => HeightInv'
  BY StepHeight
<1> QED
  BY <1>1, <1>2, TypeCorrect, PTL DEF Spec

\* What a step can do to the chain: nothing, or one write of CreateBlock.
LEMMA ChainWrites ==
    ASSUME [Next]_vars
    PROVE  \/ UNCHANGED <<blockHeight, dagCids, ipfs>>
           \/ PutDagBlock \/ SetBlockHeight \/ AddDagCid
<1>1. CASE UNCHANGED vars
  BY <1>1 DEF vars, chainVars
<1>2. CASE Commit
  BY <1>2 DEF Commit, CommitSnapshot, AddToPendingTxns, Resubmit, chainVars
<1>3. CASE Receive
  BY <1>3 DEF Receive, DiscardStale, DiscardUnknown, TakeNext, TakeEarly,
     chainVars
<1>4. CASE HandleEarly
  BY <1>4 DEF HandleEarly, SaveRemove, SaveAdd, Scan, PublishResubmission,
     TouchRemove, TouchAdd, chainVars
<1>5. CASE Heal
  BY <1>5 DEF Heal, HealReady, ReadyRead, HealMissing, NoHealing, HealClear,
     HealFill, HealPending, HealRead, chainVars
<1>6. CASE CreateBlock
  BY <1>6 DEF CreateBlock, RecordSegment, SetLastDagCid, ClearPending, Drain,
     chainVars
<1>7. CASE TaskDies
  BY <1>7 DEF TaskDies, chainVars
<1> QED
  BY <1>1, <1>2, <1>3, <1>4, <1>5, <1>6, <1>7 DEF Next, Task

\* The finalized height never moves back or skips a height, whichever callback
\* arrives, however often, and wherever tasks die.
THEOREM HeightAdvances == Spec => HeightAdvancesByOne
<1>1. HeightInv /\ [Next]_vars => [blockHeight' = blockHeight + 1]_blockHeight
  <2> SUFFICES ASSUME HeightInv, [Next]_vars
               PROVE  [blockHeight' = blockHeight + 1]_blockHeight
    OBVIOUS
  <2>1. CASE SetBlockHeight
    BY <2>1 DEF SetBlockHeight, HeightInv
  <2> QED
    BY <2>1, ChainWrites DEF PutDagBlock, AddDagCid
<1> QED
  BY <1>1, HeightsHold, PTL DEF Spec, HeightAdvancesByOne

\* A CID on record for a height is never replaced or joined by another, even
\* when tasks die between any two writes and callbacks are repeated.
THEOREM RecordIsFinal == Spec => FinalizedIsFinal
<1>1. ASSUME TypeOK, HeightInv, [Next]_vars
      PROVE  [\A h \in Heights :
                 dagCids[h] # {} => dagCids'[h] = dagCids[h]]_dagCids
  <2>1. CASE AddDagCid
    <3>1. block.height \in Heights /\ dagCids[block.height] = {}
      BY <1>1, <2>1, SizesAreNaturals
         DEF AddDagCid, TypeOK, BlockLabels, HeightInv, Recorded, Heights
    <3> QED
      BY <1>1, <2>1, <3>1 DEF AddDagCid, TypeOK
  <2> QED
    BY <1>1, <2>1, ChainWrites DEF PutDagBlock, SetBlockHeight
<1> QED
  BY <1>1, HeightsHold, PTL DEF Spec, FinalizedIsFinal

(***************************************************************************)
(* The links of the chain, unless a task dies while it records a block     *)
(***************************************************************************)
\* Nothing a block does not depend on can break its link.
LEMMA ContinuesFrame ==
    ASSUME NEW c \in DOMAIN ipfs, NEW h, Continues(c, h),
           ipfs'[c] = ipfs[c], dagCids'[h - 1] = dagCids[h - 1]
    PROVE  Continues(c, h)'
BY DEF Continues, StartsSegment

\* The block that is put continues the chain.
LEMMA PutContinues ==
    ASSUME TypeOK, HeightInv, LinkInv, PutDagBlock
    PROVE  newCid' \in DOMAIN ipfs' /\ Continues(newCid, block.height)'
<1>1. /\ block.height \in Heights
      /\ block.height = blockHeight + 1
      /\ blockHeight \in Nat
  BY SizesAreNaturals DEF PutDagBlock, TypeOK, BlockLabels, HeightInv, HeightsOrZero
<1>2. PICK last \in IF PreviousCids = {} THEN {NoCid} ELSE PreviousCids :
        PutInIpfs(NewBlock(last))
  BY DEF PutDagBlock
<1>3. last \in DagCids
  BY <1>1, PreviousCidsType, NoCallbackType
<1>4. NewBlock(last) \in Block
  BY <1>1, <1>3, NewBlockType
<1>5. newCid' \in DOMAIN ipfs' /\ ipfs'[newCid'] = NewBlock(last)
  BY <1>2, <1>4, BlockInIpfs
<1>6. UNCHANGED <<block, dagCids>>
  BY DEF PutDagBlock
<1>7. CASE block.height = 1
  <2>1. last = NoCid /\ ~StartsSegment(block.height)
    BY <1>2, <1>7, SegmentsHoldTwoBlocks DEF PreviousCids, StartsSegment
  <2> QED
    BY <1>5, <1>6, <1>7, <2>1 DEF Continues, NewBlock
<1>8. CASE block.height # 1
  <2>1. dagCids[blockHeight] = {last}
    <3>1. blockHeight \in 1..Recorded
      BY <1>1, <1>8 DEF PutDagBlock, Recorded
    <3>2. PICK c : dagCids[blockHeight] = {c}
      BY <3>1 DEF LinkInv
    <3>3. PreviousCids = {c}
      BY <1>1, <1>8, <3>2 DEF PreviousCids
    <3> QED
      BY <1>2, <3>2, <3>3
  <2>2. dagCids'[block'.height - 1] = {last}
    BY <1>1, <1>6, <2>1
  <2> QED
    BY <1>5, <1>6, <1>8, <2>2 DEF Continues, NewBlock, StartsSegment
<1> QED
  BY <1>5, <1>7, <1>8

\* Only SetBlockHeight and AddDagCid enter and leave the two steps between which
\* the last height has no CID, and the block being recorded is fixed meanwhile.
Recording == pc \in {"setLast", "addCid"}

LEMMA RecordingSteps ==
    ASSUME FailAt \cap {"setLast", "addCid"} = {}, [Next]_vars
    PROVE  \/ PutDagBlock \/ SetBlockHeight \/ AddDagCid
           \/ /\ Recording' <=> Recording
              /\ Recording' \/ pc' = "setHeight" =>
                    /\ Recording \/ pc = "setHeight"
                    /\ UNCHANGED <<newCid, block>>
<1> USE DEF Recording
<1>1. CASE UNCHANGED vars
  BY <1>1 DEF vars, taskVars
<1>2. CASE Commit
  BY <1>2 DEF Commit, CommitSnapshot, AddToPendingTxns, Resubmit, taskVars
<1>3. CASE Receive
  BY <1>3 DEF Receive, DiscardStale, DiscardUnknown, TakeNext, TakeEarly,
     Create, FirstStep, taskVars
<1>4. CASE HandleEarly
  BY <1>4 DEF HandleEarly, SaveRemove, SaveAdd, Scan, PublishResubmission,
     TouchRemove, TouchAdd, GoTo
<1>5. CASE Heal
  BY <1>5 DEF Heal, HealReady, ReadyRead, HealMissing, NoHealing, HealClear,
     HealFill, HealPending, HealRead, ScanDone, EndTask, Create, FirstStep, GoTo
<1>6. CASE CreateBlock
  BY <1>6 DEF CreateBlock, RecordSegment, SetLastDagCid, ClearPending, Drain,
     EndTask, Create, FirstStep, GoTo
<1>7. CASE TaskDies
  BY <1>7 DEF TaskDies, EndTask
<1> QED
  BY <1>1, <1>2, <1>3, <1>4, <1>5, <1>6, <1>7 DEF Next, Task

LEMMA StepLinks ==
    ASSUME FailAt \cap {"setLast", "addCid"} = {},
           TypeOK, HeightInv, LinkInv, [Next]_vars
    PROVE  LinkInv'
<1>0. blockHeight \in Nat
  BY SizesAreNaturals DEF TypeOK, HeightsOrZero
<1>1. CASE PutDagBlock
  <2>1. UNCHANGED <<blockHeight, dagCids>> /\ Recorded' = Recorded
    BY <1>1 DEF PutDagBlock, Recorded
  <2>2. ASSUME NEW h \in 1..Recorded
        PROVE  \E c \in DOMAIN ipfs' : dagCids'[h] = {c} /\ Continues(c, h)'
    <3>1. PICK c \in DOMAIN ipfs : dagCids[h] = {c} /\ Continues(c, h)
      BY DEF LinkInv
    <3>2. c \in DOMAIN ipfs' /\ ipfs'[c] = ipfs[c]
      <4>1. PICK last \in IF PreviousCids = {} THEN {NoCid} ELSE PreviousCids :
              PutInIpfs(NewBlock(last))
        BY <1>1 DEF PutDagBlock
      <4>2. block.height \in Heights
        BY <1>1 DEF PutDagBlock, TypeOK, BlockLabels
      <4>3. last \in DagCids
        BY <4>2, PreviousCidsType, NoCallbackType
      <4>4. NewBlock(last) \in Block
        BY <4>2, <4>3, NewBlockType
      <4> QED
        BY <3>1, <4>1, <4>4, BlockInIpfs
    <3> QED
      BY <2>1, <3>1, <3>2, ContinuesFrame
  <2> QED
    BY <1>1, <2>1, <2>2, PutContinues DEF LinkInv, PutDagBlock
<1>2. CASE SetBlockHeight
  <2>1. UNCHANGED <<dagCids, ipfs, newCid, block>>
    BY <1>2 DEF SetBlockHeight, GoTo
  <2>2. Recorded' = Recorded
    BY <1>0, <1>2 DEF SetBlockHeight, GoTo, Recorded, HeightInv
  <2> QED
    BY <1>2, <2>1, <2>2 DEF LinkInv, SetBlockHeight, GoTo, Continues
<1>3. CASE AddDagCid
  <2>1. /\ UNCHANGED <<blockHeight, ipfs>>
        /\ block.height = blockHeight
        /\ block.height \in Heights
        /\ Recorded = blockHeight - 1
        /\ Recorded' = blockHeight
        /\ pc' = "clear"
    BY <1>3 DEF AddDagCid, GoTo, Recorded, HeightInv, TypeOK, BlockLabels
  <2>2. /\ dagCids'[blockHeight] = {newCid}
        /\ \A h \in Heights : h # blockHeight => dagCids'[h] = dagCids[h]
    <3>1. dagCids[blockHeight] = {}
      BY <1>0, <2>1 DEF HeightInv
    <3> QED
      BY <1>3, <2>1, <3>1 DEF AddDagCid, TypeOK
  <2>3. \A h \in 1..blockHeight : h # 1 => dagCids'[h - 1] = dagCids[h - 1]
    BY <1>0, <2>1, <2>2, SizesAreNaturals DEF Heights
  <2>4. ASSUME NEW h \in 1..blockHeight
        PROVE  \E c \in DOMAIN ipfs : dagCids'[h] = {c} /\ Continues(c, h)'
    <3>1. PICK c \in DOMAIN ipfs :
            /\ dagCids'[h] = {c}
            /\ Continues(c, h)
      <4>1. CASE h = blockHeight
        BY <1>3, <2>1, <2>2, <4>1 DEF LinkInv, AddDagCid
      <4>2. CASE h # blockHeight
        <5>1. h \in 1..Recorded /\ h \in Heights
          BY <1>0, <2>1, <4>2, SizesAreNaturals DEF Heights
        <5> QED
          BY <2>2, <4>2, <5>1 DEF LinkInv
      <4> QED
        BY <4>1, <4>2
    <3> QED
      BY <2>1, <2>3, <3>1 DEF Continues, StartsSegment
  <2> QED
    BY <2>1, <2>4 DEF LinkInv
<1>4. CASE /\ UNCHANGED <<blockHeight, dagCids, ipfs>>
           /\ ~(PutDagBlock \/ SetBlockHeight \/ AddDagCid)
  <2>1. /\ Recording' <=> Recording
        /\ Recording' \/ pc' = "setHeight" =>
              /\ Recording \/ pc = "setHeight"
              /\ UNCHANGED <<newCid, block>>
    BY <1>4, RecordingSteps
  <2>2. Recorded' = Recorded
    BY <1>4, <2>1 DEF Recorded, Recording
  <2> QED
    BY <1>4, <2>1, <2>2 DEF LinkInv, Continues, Recording
<1> QED
  BY <1>1, <1>2, <1>3, <1>4, ChainWrites

\* Unless a task dies between the SET of blockHeight and the ZADD of the CID,
\* every finalized height has exactly one CID, of a block that links to the one
\* recorded for the height below.
THEOREM ChainLinked ==
    ASSUME FailAt \cap {"setLast", "addCid"} = {}
    PROVE  Spec => []ChainIsLinked
<1>1. Init => LinkInv
  BY DEF Init, LinkInv, Recorded
<1>2. TypeOK /\ HeightInv /\ LinkInv /\ [Next]_vars => LinkInv'
  BY StepLinks
<1>3. HeightInv /\ LinkInv => ChainIsLinked
  BY DEF HeightInv, LinkInv, ChainIsLinked
<1> QED
  BY <1>1, <1>2, <1>3, HeightsHold, PTL DEF Spec

(***************************************************************************)
(* Where segments begin                                                    *)
(***************************************************************************)
LEMMA Division ==
    ASSUME NEW n \in Nat
    PROVE  /\ n \div SegmentSize \in Nat
           /\ n % SegmentSize \in 0..(SegmentSize - 1)
           /\ n = SegmentSize * (n \div SegmentSize) + (n % SegmentSize)
<1>1. n \div SegmentSize \in Int /\ n % SegmentSize \in 0..(SegmentSize - 1)
  BY SegmentsHoldTwoBlocks, SMTT(30)
<1>2. n = SegmentSize * (n \div SegmentSize) + (n % SegmentSize)
  BY SegmentsHoldTwoBlocks, SMTT(30)
<1>3. n \div SegmentSize >= 0
  BY SegmentsHoldTwoBlocks, SMTT(30)
<1> QED
  BY <1>1, <1>2, <1>3

\* A greater factor gives a multiple that is greater by a segment at least.
LEMMA MultiplesApart ==
    ASSUME NEW j \in Int, NEW k \in Int, j < k
    PROVE  SegmentSize * j + SegmentSize <= SegmentSize * k
<1>1. j + 1 <= k
  OBVIOUS
<1>2. SegmentSize * (k - j) >= SegmentSize
  BY <1>1, SegmentsHoldTwoBlocks, SMTT(30)
<1>3. SegmentSize * (k - j) = SegmentSize * k - SegmentSize * j
  BY SegmentsHoldTwoBlocks, SMTT(30)
<1>4. SegmentSize * j \in Int /\ SegmentSize * k \in Int
  BY SegmentsHoldTwoBlocks
<1> QED
  BY <1>2, <1>3, <1>4, SegmentsHoldTwoBlocks

LEMMA BoundaryOf ==
    ASSUME NEW k \in Nat \ {0}
    PROVE  /\ SegmentSize * k + 1 \in Nat
           /\ StartsSegment(SegmentSize * k + 1)
<1> DEFINE h == SegmentSize * k + 1
<1>1. SegmentSize * k \in Nat /\ SegmentSize * k >= SegmentSize
  BY SegmentsHoldTwoBlocks, SMTT(30)
<1>2. h \in Nat /\ h = SegmentSize * k + 1 /\ h > SegmentSize
  BY <1>1, SegmentsHoldTwoBlocks
<1> HIDE DEF h
<1>3. h % SegmentSize = 1
  <2> DEFINE q == h \div SegmentSize
             r == h % SegmentSize
  <2>1. q \in Nat /\ r \in 0..(SegmentSize - 1) /\ h = SegmentSize * q + r
    BY <1>2, Division
  <2> HIDE DEF q, r
  <2>2. SegmentSize * q \in Int /\ SegmentSize * k \in Int
    BY <2>1, SegmentsHoldTwoBlocks
  <2>3. ~ (q < k)
    BY <1>2, <2>1, <2>2, MultiplesApart, SegmentsHoldTwoBlocks
  <2>4. ~ (k < q)
    BY <1>2, <2>1, <2>2, MultiplesApart, SegmentsHoldTwoBlocks
  <2>5. q = k
    BY <2>1, <2>3, <2>4
  <2> QED
    BY <1>2, <2>1, <2>2, <2>5, SegmentsHoldTwoBlocks DEF r
<1> QED
  BY <1>2, <1>3 DEF StartsSegment, h

LEMMA BoundaryFactor ==
    ASSUME NEW h \in Nat, StartsSegment(h)
    PROVE  \E k \in Nat \ {0} : h = SegmentSize * k + 1
<1>1. h \div SegmentSize \in Nat /\ h = SegmentSize * (h \div SegmentSize) + 1
  BY Division DEF StartsSegment
<1>2. h \div SegmentSize # 0
  BY <1>1, SegmentsHoldTwoBlocks DEF StartsSegment
<1> QED
  BY <1>1, <1>2

\* Two segments begin at a distance of a full segment at least.
LEMMA BoundariesApart ==
    ASSUME NEW g \in Nat, NEW h \in Nat, StartsSegment(g), StartsSegment(h), g < h
    PROVE  g + SegmentSize <= h
<1>1. PICK j \in Nat \ {0} : g = SegmentSize * j + 1
  BY BoundaryFactor
<1>2. PICK k \in Nat \ {0} : h = SegmentSize * k + 1
  BY BoundaryFactor
<1>3. SegmentSize * j \in Int /\ SegmentSize * k \in Int
  BY SegmentsHoldTwoBlocks
<1>4. ~ (j = k) /\ ~ (k < j)
  BY <1>1, <1>2, <1>3, MultiplesApart, SegmentsHoldTwoBlocks
<1>5. j < k
  BY <1>4
<1> QED
  BY <1>1, <1>2, <1>3, <1>5, MultiplesApart, SegmentsHoldTwoBlocks

\* A full segment below one that begins there begins another, except the first.
LEMMA BoundaryBelow ==
    ASSUME NEW h \in Nat, StartsSegment(h)
    PROVE  \/ h = SegmentSize + 1
           \/ h - SegmentSize \in Nat /\ StartsSegment(h - SegmentSize)
<1>1. PICK k \in Nat \ {0} : h = SegmentSize * k + 1
  BY BoundaryFactor
<1>2. CASE k = 1
  BY <1>1, <1>2, SegmentsHoldTwoBlocks
<1>3. CASE k # 1
  <2>1. k - 1 \in Nat \ {0}
    BY <1>3
  <2>2. SegmentSize * (k - 1) + 1 = h - SegmentSize
    <3>1. SegmentSize * (k - 1) = SegmentSize * k - SegmentSize
      BY SegmentsHoldTwoBlocks, SMTT(30)
    <3>2. SegmentSize * k \in Int
      BY SegmentsHoldTwoBlocks
    <3> QED
      BY <1>1, <3>1, <3>2, SegmentsHoldTwoBlocks
  <2> QED
    BY <2>1, <2>2, BoundaryOf
<1> QED
  BY <1>2, <1>3

\* Every height below a boundary is in the segment before one of them.
LEMMA BoundaryAbove ==
    ASSUME NEW b \in Nat, StartsSegment(b), NEW h \in 1..(b - 1)
    PROVE  \E g \in Nat : /\ StartsSegment(g) /\ g <= b
                          /\ g - SegmentSize <= h /\ h < g
<1>1. PICK m \in Nat \ {0} : b = SegmentSize * m + 1
  BY BoundaryFactor
<1> DEFINE q == (h - 1) \div SegmentSize
           r == (h - 1) % SegmentSize
<1>2. /\ q \in Nat /\ r \in 0..(SegmentSize - 1)
      /\ h - 1 = SegmentSize * q + r
  <2>1. h - 1 \in Nat
    OBVIOUS
  <2> QED
    BY <2>1, Division
<1> HIDE DEF q, r
<1>3. q + 1 \in Nat \ {0}
  BY <1>2
<1>4. /\ SegmentSize * (q + 1) = SegmentSize * q + SegmentSize
      /\ SegmentSize * q \in Int /\ SegmentSize * m \in Int
  BY <1>2, SegmentsHoldTwoBlocks, SMTT(30)
<1> DEFINE g == SegmentSize * (q + 1) + 1
<1>5. g \in Nat /\ StartsSegment(g)
  BY <1>3, BoundaryOf
<1>6. g = SegmentSize * q + SegmentSize + 1
  BY <1>4
<1> HIDE DEF g
<1>7. g - SegmentSize <= h /\ h < g
  BY <1>2, <1>4, <1>6, SegmentsHoldTwoBlocks
<1>8. q < m
  <2>1. ~ (m < q) /\ m # q
    BY <1>1, <1>2, <1>4, MultiplesApart, SegmentsHoldTwoBlocks
  <2> QED
    BY <1>2, <2>1
<1>9. g <= b
  BY <1>1, <1>2, <1>4, <1>6, <1>8, MultiplesApart, SegmentsHoldTwoBlocks
<1> QED
  BY <1>5, <1>7, <1>9

(***************************************************************************)
(* Segments, unless a task dies between recording one and the SET of       *)
(* blockHeight                                                             *)
(***************************************************************************)
\* The task is between the two for a block that starts a segment.
AtBoundary == pc \in {"put", "setHeight"} /\ StartsSegment(block.height)

\* A segment is full, ends below a boundary and has the one CID there; each
\* boundary of the chain has one, and so has the one that is being crossed.
SegmentInv ==
    /\ \A h \in Heights : \A c, d \in dagCids[h] : c = d
    /\ pc = "segment" => StartsSegment(block.height)
    /\ \A s \in segments :
          /\ s.end \in 1..blockHeight /\ StartsSegment(s.end + 1)
          /\ s.begin = s.end + 1 - SegmentSize
          /\ dagCids[s.end] = {s.cid}
          /\ s.end = blockHeight => AtBoundary
    /\ \A b \in 1..blockHeight :
          StartsSegment(b) => \E s \in segments : s.end = b - 1
    /\ AtBoundary => \E s \in segments : s.end = block.height - 1

LEMMA BoundarySteps ==
    ASSUME FailAt \cap {"put", "setHeight"} = {}, [Next]_vars
    PROVE  \/ RecordSegment \/ SetBlockHeight
           \/ /\ UNCHANGED <<segments, blockHeight>>
              /\ AtBoundary' => AtBoundary
              /\ AtBoundary => AtBoundary' /\ block' = block
              /\ pc' = "segment" => \/ StartsSegment(block'.height)
                                    \/ pc = "segment" /\ block' = block
<1> USE DEF AtBoundary, chainVars
<1>1. CASE UNCHANGED vars
  BY <1>1 DEF vars, taskVars
<1>2. CASE Commit
  BY <1>2 DEF Commit, CommitSnapshot, AddToPendingTxns, Resubmit, taskVars
<1>3. CASE Receive
  BY <1>3 DEF Receive, DiscardStale, DiscardUnknown, TakeNext, TakeEarly,
     Create, FirstStep, taskVars
<1>4. CASE HandleEarly
  BY <1>4 DEF HandleEarly, SaveRemove, SaveAdd, Scan, PublishResubmission,
     TouchRemove, TouchAdd, GoTo
<1>5. CASE Heal
  BY <1>5 DEF Heal, HealReady, ReadyRead, HealMissing, NoHealing, HealClear,
     HealFill, HealPending, HealRead, ScanDone, EndTask, Create, FirstStep, GoTo
<1>6. CASE PutDagBlock \/ SetLastDagCid \/ AddDagCid \/ ClearPending
  BY <1>6 DEF PutDagBlock, SetLastDagCid, AddDagCid, ClearPending, GoTo
<1>7. CASE Drain
  BY <1>7 DEF Drain, EndTask, Create, FirstStep
<1>8. CASE TaskDies
  BY <1>8 DEF TaskDies, EndTask
<1> QED
  BY <1>1, <1>2, <1>3, <1>4, <1>5, <1>6, <1>7, <1>8 DEF Next, Task, CreateBlock

\* What a step can do to the record: nothing, or the CID of the last height.
LEMMA RecordStep ==
    ASSUME TypeOK, HeightInv, [Next]_vars
    PROVE  \/ dagCids' = dagCids /\ ~AddDagCid
           \/ /\ AddDagCid
              /\ block.height = blockHeight /\ blockHeight \in Heights
              /\ dagCids[blockHeight] = {} /\ dagCids'[blockHeight] = {newCid}
              /\ \A h \in Heights : h # blockHeight => dagCids'[h] = dagCids[h]
<1>1. CASE AddDagCid
  <2>1. block.height \in Heights /\ block.height = blockHeight
    BY <1>1 DEF AddDagCid, TypeOK, BlockLabels, HeightInv
  <2>2. dagCids[blockHeight] = {}
    BY <1>1, <2>1, SizesAreNaturals DEF AddDagCid, HeightInv, Recorded, Heights
  <2> QED
    BY <1>1, <2>1, <2>2 DEF AddDagCid, TypeOK
<1>2. CASE ~AddDagCid
  BY <1>2, ChainWrites DEF PutDagBlock, SetBlockHeight
<1> QED
  BY <1>1, <1>2

LEMMA OneCidStep ==
    ASSUME TypeOK, HeightInv, SegmentInv, [Next]_vars
    PROVE  \A h \in Heights : \A c, d \in dagCids'[h] : c = d
BY RecordStep DEF SegmentInv

\* A segment is as it was as long as the record at its end is.
LEMMA SegmentFrame ==
    ASSUME TypeOK, HeightInv, SegmentInv, [Next]_vars, NEW s \in segments
    PROVE  dagCids'[s.end] = {s.cid}
<1>1. s.end \in Heights /\ dagCids[s.end] = {s.cid}
  BY SizesAreNaturals DEF SegmentInv, Heights, TypeOK, HeightsOrZero
<1>2. CASE AddDagCid
  BY <1>1, <1>2, RecordStep
<1> QED
  BY <1>1, <1>2, RecordStep

\* The segment that is recorded begins where the last one ended.
LEMMA RecordedSegment ==
    ASSUME TypeOK, HeightInv, SegmentInv, RecordSegment, PreviousCids # {}
    PROVE  /\ blockHeight \in Heights /\ StartsSegment(blockHeight + 1)
           /\ \A s \in segments : s.end < blockHeight
           /\ PreviousCids = dagCids[blockHeight]
           /\ NextBegin = {blockHeight + 1 - SegmentSize}
<1>1. /\ pc = "segment" /\ block.height = blockHeight + 1 /\ block.height \in Heights
      /\ StartsSegment(block.height) /\ blockHeight \in Nat
  BY SizesAreNaturals DEF RecordSegment, HeightInv, SegmentInv, TypeOK, BlockLabels,
     HeightsOrZero
<1>2. blockHeight \in Heights /\ block.height # 1
  BY <1>1, SegmentsHoldTwoBlocks, SizesAreNaturals DEF StartsSegment, Heights
<1>3. \A s \in segments : s.end \in 1..blockHeight /\ s.end # blockHeight
  BY <1>1 DEF SegmentInv, AtBoundary
<1>4. \A s \in segments : s.end < blockHeight /\ StartsSegment(s.end + 1)
  BY <1>1, <1>3 DEF SegmentInv
<1>5. PreviousCids = dagCids[blockHeight]
  BY <1>1, <1>2 DEF PreviousCids
<1>6. NextBegin = {blockHeight + 1 - SegmentSize}
  <2>1. PICK n \in Nat : n = blockHeight + 1 /\ StartsSegment(n)
    BY <1>1
  <2>2. CASE n = SegmentSize + 1
    <3>1. \A s \in segments : s.end + 1 > SegmentSize
      BY <1>4 DEF StartsSegment
    <3>2. segments = {}
      BY <1>1, <1>3, <1>4, <2>1, <2>2, <3>1, SegmentsHoldTwoBlocks
    <3>3. blockHeight + 1 - SegmentSize = 1
      BY <1>1, <2>1, <2>2, SegmentsHoldTwoBlocks
    <3> QED
      BY <3>2, <3>3 DEF NextBegin
  <2>3. CASE n - SegmentSize \in Nat /\ StartsSegment(n - SegmentSize)
    <3> DEFINE b == n - SegmentSize
    <3>1. b \in 1..blockHeight
      BY <1>1, <2>1, <2>3, SegmentsHoldTwoBlocks DEF StartsSegment
    <3>2. PICK s \in segments : s.end = b - 1
      BY <2>3, <3>1 DEF SegmentInv
    <3>3. ASSUME NEW o \in segments
          PROVE  o.end <= b - 1
      <4>1. o.end \in Nat /\ o.end + 1 \in Nat /\ o.end + 1 < n
        BY <1>1, <1>3, <1>4, <2>1
      <4>2. o.end + 1 + SegmentSize <= n
        BY <1>4, <2>1, <4>1, BoundariesApart
      <4> QED
        BY <4>1, <4>2, SegmentsHoldTwoBlocks
    <3>4. LastSegments # {} /\ \A o \in LastSegments : o.end = b - 1
      <4>1. s \in LastSegments
        BY <3>2, <3>3 DEF LastSegments
      <4>2. ASSUME NEW o \in LastSegments
            PROVE  o.end = b - 1
        <5>1. o \in segments /\ s.end <= o.end
          BY <3>2 DEF LastSegments
        <5>2. o.end \in Int /\ b - 1 \in Int /\ o.end <= b - 1
          BY <1>3, <3>1, <3>3, <5>1
        <5> QED
          BY <3>2, <5>1, <5>2
      <4> QED
        BY <4>1, <4>2
    <3>5. /\ segments # {} /\ (b - 1) + 1 = b
          /\ b = blockHeight + 1 - SegmentSize
      BY <1>1, <2>1, <3>1, <3>2, SegmentsHoldTwoBlocks
    <3> HIDE DEF b
    <3>6. {o.end + 1 : o \in LastSegments} = {b}
      BY <3>4, <3>5
    <3> QED
      BY <3>5, <3>6 DEF NextBegin
  <2> QED
    BY <2>1, <2>2, <2>3, BoundaryBelow
<1> QED
  BY <1>1, <1>2, <1>4, <1>5, <1>6

LEMMA RecordSegmentSegments ==
    ASSUME TypeOK, HeightInv, SegmentInv, RecordSegment PROVE SegmentInv'
<1>1. /\ pc = "segment" /\ UNCHANGED <<blockHeight, dagCids>>
      /\ block.height = blockHeight + 1 /\ blockHeight \in Nat
  BY SizesAreNaturals DEF RecordSegment, HeightInv, TypeOK, HeightsOrZero
<1>2. CASE EndTask /\ UNCHANGED segments
  BY <1>1, <1>2 DEF SegmentInv, EndTask, AtBoundary
<1>3. CASE ~(EndTask /\ UNCHANGED segments)
  <2>1. PICK last \in PreviousCids, first \in NextBegin :
          /\ segments' = {s \in segments : s.end # block.height - 1} \union
                 {[begin |-> first, end |-> block.height - 1, cid |-> last]}
          /\ GoTo("put")
    BY <1>3 DEF RecordSegment
  <2>2. /\ blockHeight \in Heights /\ StartsSegment(blockHeight + 1)
        /\ \A s \in segments : s.end < blockHeight
        /\ PreviousCids = dagCids[blockHeight]
        /\ NextBegin = {blockHeight + 1 - SegmentSize}
    BY <2>1, RecordedSegment
  <2> DEFINE n == [begin |-> blockHeight + 1 - SegmentSize, end |-> blockHeight,
                   cid |-> last]
  <2>3. segments' = segments \union {n}
    <3>1. block.height - 1 = blockHeight
      BY <1>1
    <3>2. \A s \in segments : s.end # blockHeight
      BY <1>1, <2>2 DEF SegmentInv
    <3> QED
      BY <2>1, <2>2, <3>1, <3>2
  <2>4. AtBoundary'
    BY <1>1, <2>1, <2>2 DEF GoTo, AtBoundary
  <2>5. dagCids[blockHeight] = {last}
    BY <2>1, <2>2 DEF SegmentInv
  <2>6. /\ n.end = blockHeight /\ n.begin = n.end + 1 - SegmentSize /\ n.cid = last
        /\ blockHeight \in 1..blockHeight
    BY <1>1, <2>2, SizesAreNaturals DEF Heights
  <2>7. n \in segments' /\ \A s \in segments' : s \in segments \/ s = n
    BY <2>3
  <2>8. block' = block /\ pc' = "put" /\ block.height - 1 = n.end
    BY <1>1, <2>1, <2>6 DEF GoTo
  <2> HIDE DEF n
  <2>9. \A s \in segments' :
          /\ s.end \in 1..blockHeight /\ StartsSegment(s.end + 1)
          /\ s.begin = s.end + 1 - SegmentSize
          /\ dagCids[s.end] = {s.cid}
    <3> TAKE s \in segments'
    <3>1. CASE s \in segments
      BY <3>1 DEF SegmentInv
    <3>2. CASE s = n
      BY <2>2, <2>5, <2>6, <3>2
    <3> QED
      BY <2>7, <3>1, <3>2
  <2>10. \A b \in 1..blockHeight :
            StartsSegment(b) => \E s \in segments' : s.end = b - 1
    BY <2>3 DEF SegmentInv
  <2>11. \E s \in segments' : s.end = block.height - 1
    BY <2>7, <2>8
  <2> QED
    BY <1>1, <2>4, <2>8, <2>9, <2>10, <2>11 DEF SegmentInv
<1> QED
  BY <1>2, <1>3

LEMMA SetBlockHeightSegments ==
    ASSUME TypeOK, HeightInv, SegmentInv, SetBlockHeight PROVE SegmentInv'
<1>1. /\ pc = "setHeight" /\ UNCHANGED <<dagCids, segments>> /\ pc' = "setLast"
      /\ blockHeight' = blockHeight + 1 /\ block.height = blockHeight + 1
      /\ blockHeight \in Nat
  BY SizesAreNaturals DEF SetBlockHeight, GoTo, HeightInv, TypeOK, HeightsOrZero
<1>2. ~AtBoundary'
  BY <1>1 DEF AtBoundary
<1>3. \A s \in segments : s.end \in 1..blockHeight' /\ s.end # blockHeight'
  BY <1>1 DEF SegmentInv
<1>4. \A b \in 1..blockHeight' : StartsSegment(b) => \E s \in segments : s.end = b - 1
  <2> TAKE b \in 1..blockHeight'
  <2>1. CASE b = block.height
    BY <1>1, <2>1 DEF SegmentInv, AtBoundary
  <2>2. CASE b # block.height
    <3>1. b \in 1..blockHeight
      BY <1>1, <2>2
    <3> QED
      BY <3>1 DEF SegmentInv
  <2> QED
    BY <2>1, <2>2
<1> QED
  BY <1>1, <1>2, <1>3, <1>4 DEF SegmentInv

LEMMA StepSegments ==
    ASSUME FailAt \cap {"put", "setHeight"} = {},
           TypeOK, HeightInv, SegmentInv, [Next]_vars
    PROVE  SegmentInv'
<1>1. CASE /\ UNCHANGED <<segments, blockHeight>>
           /\ AtBoundary' => AtBoundary
           /\ AtBoundary => AtBoundary' /\ block' = block
           /\ pc' = "segment" => \/ StartsSegment(block'.height)
                                 \/ pc = "segment" /\ block' = block
  <2>1. \A s \in segments : dagCids'[s.end] = {s.cid}
    BY SegmentFrame
  <2>2. \A h \in Heights : \A c, d \in dagCids'[h] : c = d
    BY OneCidStep
  <2>3. pc' = "segment" => StartsSegment(block'.height)
    BY <1>1 DEF SegmentInv
  <2> QED
    BY <1>1, <2>1, <2>2, <2>3 DEF SegmentInv
<1> QED
  BY <1>1, BoundarySteps, RecordSegmentSegments, SetBlockHeightSegments

\* Full segments that end below every boundary cut the chain into pieces.
LEMMA FullSegmentsTile == ASSUME TypeOK, SegmentInv PROVE SegmentsTile
<1>0. blockHeight \in Nat
  BY SizesAreNaturals DEF TypeOK, HeightsOrZero
<1>1. ASSUME NEW b \in 1..blockHeight, StartsSegment(b), NEW h \in 1..(b - 1)
      PROVE  \E s \in segments :
                /\ s.begin <= h /\ h <= s.end
                /\ \A o \in segments : o.begin <= h /\ h <= o.end => o = s
  <2>1. b \in Nat
    BY <1>0
  <2>2. PICK g \in Nat : /\ StartsSegment(g) /\ g <= b
                         /\ g - SegmentSize <= h /\ h < g
    BY <1>1, <2>1, BoundaryAbove
  <2>3. g \in 1..blockHeight
    BY <1>0, <2>2
  <2>4. PICK s \in segments : s.end = g - 1
    BY <2>2, <2>3 DEF SegmentInv
  <2>5. s.begin <= h /\ h <= s.end
    <3>1. s.begin = s.end + 1 - SegmentSize
      BY DEF SegmentInv
    <3> QED
      BY <2>2, <2>4, <3>1, SegmentsHoldTwoBlocks
  <2>6. ASSUME NEW o \in segments, o.begin <= h, h <= o.end
        PROVE  o = s
    <3>1. /\ o.end \in Nat /\ o.end + 1 \in Nat /\ StartsSegment(o.end + 1)
          /\ o.begin = o.end + 1 - SegmentSize /\ dagCids[o.end] = {o.cid}
      BY <1>0 DEF SegmentInv
    <3>2. ~ (o.end + 1 < g)
      BY <2>2, <2>6, <3>1, SegmentsHoldTwoBlocks, BoundariesApart
    <3>3. ~ (g < o.end + 1)
      BY <2>2, <2>6, <3>1, SegmentsHoldTwoBlocks, BoundariesApart
    <3>4. o.end = s.end
      BY <2>2, <2>4, <3>1, <3>2, <3>3
    <3>5. o.begin = s.begin /\ o.cid = s.cid
      BY <3>1, <3>4 DEF SegmentInv
    <3> QED
      BY <3>4, <3>5 DEF TypeOK, Segment
  <2> QED
    BY <2>5, <2>6
<1> QED
  BY <1>1 DEF SegmentsTile, SegmentInv

\* Unless a task dies between the HSET of a segment and the SET of blockHeight,
\* the segments handed to archival cut the chain without gap or overlap, each
\* with the CID of its last block; a task that dies while it records a block
\* does no harm here.
THEOREM SegmentsAreTiles ==
    ASSUME FailAt \cap {"put", "setHeight"} = {}
    PROVE  Spec => []SegmentsTile
<1>1. Init => SegmentInv
  BY DEF Init, SegmentInv, AtBoundary
<1>2. TypeOK /\ HeightInv /\ SegmentInv /\ [Next]_vars => SegmentInv'
  BY StepSegments
<1>3. TypeOK /\ SegmentInv => SegmentsTile
  BY FullSegmentsTile
<1> QED
  BY <1>1, <1>2, <1>3, HeightsHold, PTL DEF Spec

(***************************************************************************)
(* The append-only chain of DagChain                                       *)
(***************************************************************************)
VisibleBlock(h) == [data |-> RecordedBlock(h).data, link |-> LinkKind(RecordedBlock(h))]

Blocks == [data : PayloadCids, link : {"none", "root", "prev"}]

\* A function on 1..n is a sequence of length n.
LEMMA FunctionIsSeq ==
    ASSUME NEW n \in Nat, NEW S, NEW f \in [1..n -> S]
    PROVE  f \in Seq(S) /\ Len(f) = n
OBVIOUS

\* The block on record at a height is of the one CID there, and refers to the
\* block below it the way the abstract chain wants it.
LEMMA RecordedLink ==
    ASSUME TypeOK, HeightInv, LinkInv, NEW h \in 1..Recorded, NEW c, dagCids[h] = {c}
    PROVE  /\ RecordedBlock(h) = ipfs[c] /\ c \in DOMAIN ipfs /\ c # NoCid
           /\ Continues(c, h) /\ ipfs[c] \in Block
<1>1. PICK d \in DOMAIN ipfs : dagCids[h] = {d} /\ Continues(d, h)
  BY DEF LinkInv
<1>2. c = d
  BY <1>1
<1>3. RecordedBlock(h) = ipfs[c]
  BY DEF RecordedBlock
<1>4. ipfs \in Seq(Block)
  BY DEF TypeOK
<1>5. c # NoCid /\ ipfs[c] \in Block
  BY <1>1, <1>2, <1>4, LenProperties DEF NoCid
<1> QED
  BY <1>1, <1>2, <1>3, <1>5

LEMMA ContinuingLink ==
    ASSUME NEW h \in Nat \ {0}, NEW c, Continues(c, h),
           h # 1 => \E d : d # NoCid /\ dagCids[h - 1] = {d}
    PROVE  LinkKind(ipfs[c]) = Chain!LinkOf(h)
<1>1. CASE h = 1
  BY <1>1 DEF Continues, LinkKind, Chain!LinkOf
<1>2. CASE h # 1 /\ StartsSegment(h)
  <2>1. ipfs[c].prev = NoCid /\ ipfs[c].root # NoCid
    BY <1>2 DEF Continues
  <2> QED
    BY <1>2, <2>1 DEF LinkKind, Chain!LinkOf, StartsSegment
<1>3. CASE h # 1 /\ ~StartsSegment(h)
  <2>1. ipfs[c].prev # NoCid
    BY <1>3 DEF Continues
  <2> QED
    BY <1>3, <2>1 DEF LinkKind, Chain!LinkOf, StartsSegment
<1> QED
  BY <1>1, <1>2, <1>3

\* What a reader sees is a sequence of blocks.
VisibleSeq ==
    /\ Recorded \in Nat /\ VisibleChain \in Seq(Blocks)
    /\ Len(VisibleChain) = Recorded
    /\ \A h \in 1..Recorded : VisibleChain[h] = VisibleBlock(h)

LEMMA VisibleIsSeq == ASSUME TypeOK, HeightInv, LinkInv PROVE VisibleSeq
<1>1. Recorded \in Nat
  <2>1. blockHeight \in Nat
    BY SizesAreNaturals DEF TypeOK, HeightsOrZero
  <2>2. CASE pc \in {"setLast", "addCid"}
    BY <2>1, <2>2, SizesAreNaturals DEF Recorded, HeightInv, TypeOK, BlockLabels,
       Heights
  <2> QED
    BY <2>1, <2>2 DEF Recorded
<1>2. ASSUME NEW h \in 1..Recorded
      PROVE  VisibleBlock(h) \in Blocks
  <2>1. PICK c : dagCids[h] = {c}
    BY DEF LinkInv
  <2>2. RecordedBlock(h) \in Block
    BY <2>1, RecordedLink
  <2> QED
    BY <2>2 DEF VisibleBlock, Blocks, Block, LinkKind
<1>3. VisibleChain = [h \in 1..Recorded |-> VisibleBlock(h)]
  BY DEF VisibleChain, VisibleBlock
<1>4. VisibleChain \in [1..Recorded -> Blocks]
  BY <1>2, <1>3
<1> QED
  BY <1>1, <1>3, <1>4, FunctionIsSeq DEF VisibleSeq

LEMMA VisibleStart == ASSUME Init PROVE Chain!ChainInit
<1>1. TypeOK /\ HeightInv /\ LinkInv /\ Recorded = 0
  BY InitType, InitHeight DEF Init, LinkInv, Recorded
<1>2. VisibleChain \in Seq(Blocks) /\ Len(VisibleChain) = 0
  BY <1>1, VisibleIsSeq DEF VisibleSeq
<1> QED
  BY <1>2, EmptySeq DEF Chain!ChainInit

\* The blocks on record stay what they are.
LEMMA VisibleStays ==
    ASSUME FailAt \cap {"setLast", "addCid"} = {},
           TypeOK, HeightInv, LinkInv, [Next]_vars, NEW h \in 1..Recorded
    PROVE  VisibleBlock(h)' = VisibleBlock(h)
<1>1. PICK c \in DOMAIN ipfs : dagCids[h] = {c}
  BY DEF LinkInv
<1>2. ipfs'[c] = ipfs[c]
  <2>1. CASE PutDagBlock
    <3>1. PICK last \in IF PreviousCids = {} THEN {NoCid} ELSE PreviousCids :
            PutInIpfs(NewBlock(last))
      BY <2>1 DEF PutDagBlock
    <3>2. block.height \in Heights
      BY <2>1 DEF PutDagBlock, TypeOK, BlockLabels
    <3>3. last \in DagCids
      BY <3>2, PreviousCidsType, NoCallbackType
    <3>4. NewBlock(last) \in Block
      BY <3>2, <3>3, NewBlockType
    <3> QED
      BY <1>1, <3>1, <3>4, BlockInIpfs
  <2> QED
    BY <2>1, ChainWrites DEF SetBlockHeight, AddDagCid
<1>3. dagCids'[h] = {c}
  <2>1. /\ blockHeight \in Nat /\ h \in Heights
        /\ AddDagCid => h # blockHeight
    BY SizesAreNaturals DEF TypeOK, HeightsOrZero, Heights, Recorded, AddDagCid
  <2> QED
    BY <1>1, <2>1, RecordStep
<1>4. RecordedBlock(h) = ipfs[c] /\ RecordedBlock(h)' = ipfs'[c]
  BY <1>1, <1>3 DEF RecordedBlock
<1> QED
  BY <1>2, <1>4 DEF VisibleBlock, LinkKind

LEMMA RecordedStep ==
    ASSUME FailAt \cap {"setLast", "addCid"} = {},
           TypeOK, HeightInv, [Next]_vars
    PROVE  \/ Recorded' = Recorded
           \/ AddDagCid /\ Recorded' = Recorded + 1 /\ Recorded' = blockHeight
<1>0. blockHeight \in Nat
  BY SizesAreNaturals DEF TypeOK, HeightsOrZero
<1>1. CASE PutDagBlock
  BY <1>1 DEF PutDagBlock, Recorded
<1>2. CASE SetBlockHeight
  BY <1>0, <1>2 DEF SetBlockHeight, GoTo, Recorded, HeightInv
<1>3. CASE AddDagCid
  BY <1>0, <1>3 DEF AddDagCid, GoTo, Recorded
<1>4. CASE UNCHANGED blockHeight /\ ~(PutDagBlock \/ SetBlockHeight \/ AddDagCid)
  BY <1>4, RecordingSteps DEF Recorded, Recording
<1> QED
  BY <1>1, <1>2, <1>3, <1>4, ChainWrites

LEMMA VisibleStep ==
    ASSUME FailAt \cap {"setLast", "addCid"} = {},
           TypeOK, HeightInv, LinkInv, VisibleSeq, VisibleSeq', [Next]_vars
    PROVE  [Chain!ChainNext]_VisibleChain
<1>1. /\ Recorded \in Nat /\ VisibleChain \in Seq(Blocks)
      /\ Len(VisibleChain) = Recorded
      /\ \A h \in 1..Recorded : VisibleChain[h] = VisibleBlock(h)
  BY DEF VisibleSeq
<1>2. /\ Recorded' \in Nat /\ VisibleChain' \in Seq(Blocks)
      /\ Len(VisibleChain') = Recorded'
      /\ \A h \in 1..Recorded' : VisibleChain'[h] = VisibleBlock(h)'
  BY DEF VisibleSeq
<1>3. \A h \in 1..Recorded : VisibleBlock(h)' = VisibleBlock(h)
  BY VisibleStays
<1>4. CASE Recorded' = Recorded
  <2>1. \A h \in 1..Recorded : VisibleChain'[h] = VisibleChain[h]
    BY <1>1, <1>2, <1>3, <1>4
  <2>2. VisibleChain' = VisibleChain
    BY <1>1, <1>2, <1>4, <2>1, SeqEqual
  <2> QED
    BY <2>2
<1>5. CASE AddDagCid /\ Recorded' = Recorded + 1 /\ Recorded' = blockHeight
  <2> DEFINE n == [data |-> ipfs[newCid].data,
                   link |-> Chain!LinkOf(Len(VisibleChain) + 1)]
  <2>1. /\ Continues(newCid, blockHeight) /\ newCid \in DOMAIN ipfs
        /\ dagCids'[blockHeight] = {newCid} /\ ipfs' = ipfs
    BY <1>5, RecordStep DEF AddDagCid, LinkInv, HeightInv
  <2>2. blockHeight # 1 => \E d : d # NoCid /\ dagCids[blockHeight - 1] = {d}
    <3>1. CASE blockHeight # 1
      <4>1. blockHeight - 1 \in 1..Recorded /\ blockHeight - 1 = Recorded
        BY <1>1, <1>5, <3>1
      <4>2. PICK d : dagCids[blockHeight - 1] = {d}
        BY <4>1 DEF LinkInv
      <4>3. d # NoCid
        BY <4>1, <4>2, RecordedLink
      <4> QED
        BY <4>2, <4>3
    <3> QED
      BY <3>1
  <2>3. LinkKind(ipfs[newCid]) = Chain!LinkOf(blockHeight)
    <3>1. blockHeight \in Nat \ {0}
      BY <1>1, <1>5
    <3> QED
      BY <2>1, <2>2, <3>1, ContinuingLink
  <2>4. PICK b \in Nat : b = blockHeight
    BY <1>1, <1>5
  <2>5. VisibleBlock(b)' = n
    <3>1. RecordedBlock(b)' = ipfs[newCid]
      BY <2>1, <2>4 DEF RecordedBlock
    <3>2. LinkKind(RecordedBlock(b))' = LinkKind(ipfs[newCid])
      BY <3>1 DEF LinkKind
    <3>3. Len(VisibleChain) + 1 = b
      BY <1>1, <1>5, <2>4
    <3> QED
      BY <2>3, <2>4, <3>1, <3>2, <3>3 DEF VisibleBlock
  <2>6. ipfs[newCid].data \in PayloadCids
    <3>1. ipfs[newCid] \in Block
      BY <2>1, LenProperties DEF TypeOK
    <3> QED
      BY <3>1 DEF Block
  <2>7. n \in Blocks
    BY <2>6 DEF Blocks, Chain!LinkOf
  <2> HIDE DEF n
  <2>8. /\ Append(VisibleChain, n) \in Seq(Blocks)
        /\ Len(Append(VisibleChain, n)) = Recorded + 1
        /\ \A i \in 1..Recorded : Append(VisibleChain, n)[i] = VisibleChain[i]
        /\ Append(VisibleChain, n)[Recorded + 1] = n
    BY <1>1, <2>7, AppendProperties
  <2>9. \A h \in 1..(Recorded + 1) : VisibleChain'[h] = Append(VisibleChain, n)[h]
    <3> TAKE h \in 1..(Recorded + 1)
    <3>1. CASE h = Recorded + 1
      <4>1. h = b /\ h \in 1..Recorded'
        BY <1>1, <1>5, <2>4, <3>1
      <4> QED
        BY <1>2, <2>5, <2>8, <3>1, <4>1
    <3>2. CASE h # Recorded + 1
      <4>1. h \in 1..Recorded /\ h \in 1..Recorded'
        BY <1>1, <1>5, <3>2
      <4> QED
        BY <1>1, <1>2, <1>3, <2>8, <4>1
    <3> QED
      BY <3>1, <3>2
  <2>10. VisibleChain' = Append(VisibleChain, n)
    BY <1>2, <1>5, <2>8, <2>9, SeqEqual
  <2> QED
    BY <2>6, <2>10 DEF Chain!ChainNext, Chain!Finalize, n
<1> QED
  BY <1>4, <1>5, RecordedStep

\* Unless a task dies while it records a block, the finalizer implements the
\* append-only chain: what a reader of Cids sees grows by the next block, with
\* the right kind of link, and never changes otherwise.
THEOREM ChainIsImplemented ==
    ASSUME FailAt \cap {"setLast", "addCid"} = {}
    PROVE  Spec => ImplementsChain
<1>1. Init => Chain!ChainInit
  BY VisibleStart
<1>2. Init => LinkInv
  BY DEF Init, LinkInv, Recorded
<1>3. TypeOK /\ HeightInv /\ LinkInv /\ [Next]_vars => LinkInv'
  BY StepLinks
<1>4. TypeOK /\ HeightInv /\ LinkInv => VisibleSeq
  BY VisibleIsSeq
<1>5. TypeOK /\ HeightInv /\ LinkInv /\ VisibleSeq /\ VisibleSeq' /\ [Next]_vars
      => [Chain!ChainNext]_VisibleChain
  BY VisibleStep
<1> QED
  BY <1>1, <1>2, <1>3, <1>4, <1>5, HeightsHold, PTL
     DEF Spec, ImplementsChain, Chain!ChainSpec

(***************************************************************************)
(* The payload index without consensus                                     *)
(***************************************************************************)
\* Without consensus every CID of a payload is the one this node computed for the
\* height, and the index has it, at a height with that content, from when its
\* snapshot is committed.
LocalInv ==
    /\ \A h \in Heights : payloadCids[h] \subseteq {LocalCid[h]}
    /\ \A h \in Heights : stage[h] # "new" =>
          \E g \in Heights : /\ stage[g] # "new" /\ LocalCid[g] = LocalCid[h]
                             /\ LocalCid[h] \in payloadCids[g]
    /\ \A p \in pending \union view \union work \union callbacks \union commitQueue :
          p.cid = LocalCid[p.height] /\ stage[p.height] # "new"
    /\ pc \in EventLabels =>
          event.cid = LocalCid[event.height] /\ stage[event.height] # "new"
    /\ pc \in BlockLabels =>
          block.cid = LocalCid[block.height] /\ stage[block.height] # "new"
    /\ pc \notin HealLabels \union {"healPending", "healRead"}
    /\ \A h \in 1..blockHeight : stage[h] # "new"
    /\ pc \in {"setHeight", "setLast", "addCid"} =>
          newCid \in DOMAIN ipfs /\ ipfs[newCid].data = block.cid
    /\ \A h \in Heights : \A c \in dagCids[h] :
          c \in DOMAIN ipfs /\ ipfs[c].data = LocalCid[h]

\* What LocalInv says of an entry, a callback or a resubmission.
LocalAt(p) == p.cid = LocalCid[p.height] /\ stage[p.height] # "new"

LEMMA CommitLocal ==
    ASSUME ~UseConsensus, TypeOK, LocalInv, Commit PROVE LocalInv'
<1>1. /\ stage \in [Heights -> {"new", "committed", "queued"}]
      /\ payloadCids \in [Heights -> SUBSET PayloadCids]
      /\ UNCHANGED <<chainVars, taskVars>>
      /\ pending \in SUBSET PendingEntry /\ view \in SUBSET PendingEntry
      /\ work \in SUBSET PendingEntry /\ commitQueue \in SUBSET Resubmission
      /\ \A c \in callbacks : c.height \in Heights
  BY DEF Commit, CommitSnapshot, AddToPendingTxns, Resubmit, TypeOK
<1>2. ASSUME stage' \in [Heights -> {"new", "committed", "queued"}],
             \A h \in Heights : stage[h] # "new" => stage'[h] # "new",
             \A h \in Heights : payloadCids'[h] \subseteq {LocalCid[h]},
             \A h \in Heights : stage'[h] # "new" =>
                \E g \in Heights : /\ stage'[g] # "new" /\ LocalCid[g] = LocalCid[h]
                                   /\ LocalCid[h] \in payloadCids'[g],
             \A p \in pending' \union callbacks' \union commitQueue' :
                \/ p \in pending \union callbacks \union commitQueue
                \/ /\ p.cid = LocalCid[p.height] /\ p.height \in Heights
                   /\ stage'[p.height] # "new"
      PROVE  LocalInv'
  <2>1. \A p \in pending \union view \union work \union callbacks \union commitQueue :
           p.height \in Heights
    BY <1>1 DEF PendingEntry, Resubmission
  <2>2. \A p \in pending' \union view' \union work' \union callbacks' \union commitQueue' :
           p.cid = LocalCid[p.height] /\ stage'[p.height] # "new"
    BY <1>1, <1>2, <2>1 DEF LocalInv, taskVars
  <2>3. /\ pc \in EventLabels => event.height \in Heights
        /\ pc \in BlockLabels => block.height \in Heights
        /\ \A h \in 1..blockHeight : h \in Heights
    BY SizesAreNaturals DEF TypeOK, HeightsOrZero, Heights
  <2> QED
    BY <1>1, <1>2, <2>2, <2>3 DEF LocalInv, chainVars, taskVars
<1>3. ASSUME NEW h \in Heights, CommitSnapshot(h)
      PROVE  LocalInv'
  <2>1. /\ stage' = [stage EXCEPT ![h] = "committed"]
        /\ UNCHANGED <<pending, callbacks, commitQueue>>
        /\ payloadCids' = Scored(payloadCids, {[height |-> h, cid |-> LocalCid[h]]})
    BY <1>3 DEF CommitSnapshot, commitVars
  <2>2. LocalCid[h] # "null"
    BY ContentsHaveCids
  <2>3. \A g \in Heights :
           payloadCids'[g] = {c \in payloadCids[g] : c = "null" \/ c # LocalCid[h]}
                             \union IF g = h THEN {LocalCid[h]} ELSE {}
    <3>1. PICK n : n = [height |-> h, cid |-> LocalCid[h]]
      OBVIOUS
    <3>2. n.height = h /\ n.cid = LocalCid[h] /\ payloadCids' = Scored(payloadCids, {n})
      BY <2>1, <3>1
    <3>3. ASSUME NEW g \in Heights
          PROVE  payloadCids'[g] = {c \in payloadCids[g] : c = "null" \/ c # LocalCid[h]}
                                   \union IF g = h THEN {LocalCid[h]} ELSE {}
      <4>1. payloadCids'[g] =
               {c \in payloadCids[g] : c = "null" \/ \A p \in {n} : p.cid # c}
               \union {p.cid : p \in {q \in AtHeight({n}, g) :
                   q.cid = "null" \/ \A o \in {n} : o.cid = q.cid => o.height <= g}}
        BY <3>2 DEF Scored
      <4>2. \A q : q \in AtHeight({n}, g) <=> q = n /\ g = h
        BY <3>2 DEF AtHeight
      <4>3. h <= h
        BY SizesAreNaturals DEF Heights
      <4>4. {p.cid : p \in {q \in AtHeight({n}, g) :
                q.cid = "null" \/ \A o \in {n} : o.cid = q.cid => o.height <= g}}
            = IF g = h THEN {LocalCid[h]} ELSE {}
        BY <3>2, <4>2, <4>3
      <4>5. {c \in payloadCids[g] : c = "null" \/ \A p \in {n} : p.cid # c}
            = {c \in payloadCids[g] : c = "null" \/ c # LocalCid[h]}
        BY <3>2
      <4> QED
        BY <4>1, <4>4, <4>5
    <3> QED
      BY <3>3
  <2>4. \A g \in Heights : payloadCids'[g] \subseteq {LocalCid[g]}
    BY <2>3 DEF LocalInv
  <2>5. \A g \in Heights : stage'[g] # "new" <=> stage[g] # "new" \/ g = h
    BY <1>1, <2>1
  <2>6. ASSUME NEW g \in Heights, stage'[g] # "new"
        PROVE  \E k \in Heights : /\ stage'[k] # "new" /\ LocalCid[k] = LocalCid[g]
                                  /\ LocalCid[g] \in payloadCids'[k]
    <3>1. CASE LocalCid[g] = LocalCid[h]
      BY <2>3, <2>5, <3>1
    <3>2. CASE LocalCid[g] # LocalCid[h]
      <4>1. stage[g] # "new"
        BY <2>5, <2>6, <3>2
      <4>2. PICK k \in Heights : /\ stage[k] # "new" /\ LocalCid[k] = LocalCid[g]
                                 /\ LocalCid[g] \in payloadCids[k]
        BY <4>1 DEF LocalInv
      <4> QED
        BY <2>3, <2>5, <3>2, <4>2
    <3> QED
      BY <3>1, <3>2
  <2>7. stage' \in [Heights -> {"new", "committed", "queued"}]
    BY <1>1, <2>1
  <2> QED
    BY <1>2, <2>1, <2>4, <2>5, <2>6, <2>7
<1>4. ASSUME NEW h \in Heights, AddToPendingTxns(h)
      PROVE  LocalInv'
  <2>1. /\ stage[h] = "committed" /\ stage' = [stage EXCEPT ![h] = "queued"]
        /\ payloadCids' = payloadCids /\ commitQueue' = commitQueue
        /\ Enqueue(h, LocalCid[h], CallbackPending, pending)
    BY <1>4 DEF AddToPendingTxns
  <2>2. \A p \in pending' \union callbacks' :
           \/ p \in pending \union callbacks
           \/ p.cid = LocalCid[h] /\ p.height = h
    <3>1. PICK r : /\ pending' = pending \union
                         {[height |-> h, req |-> r, touched |-> CallbackPending,
                           cid |-> LocalCid[h]]}
                   /\ callbacks' = callbacks \union
                         {[height |-> h, req |-> r, cid |-> LocalCid[h]]}
      BY <2>1 DEF Enqueue
    <3>2. \A p \in pending' : p \in pending \/ (p.cid = LocalCid[h] /\ p.height = h)
      BY <3>1
    <3>3. \A p \in callbacks' : p \in callbacks \/ (p.cid = LocalCid[h] /\ p.height = h)
      BY <3>1
    <3> QED
      BY <3>2, <3>3
  <2>3. \A g \in Heights : stage'[g] # "new" <=> stage[g] # "new"
    BY <1>1, <2>1
  <2>4. stage' \in [Heights -> {"new", "committed", "queued"}] /\ stage'[h] # "new"
    BY <1>1, <2>1
  <2>5. /\ \A g \in Heights : payloadCids'[g] \subseteq {LocalCid[g]}
        /\ \A g \in Heights : stage'[g] # "new" =>
              \E k \in Heights : /\ stage'[k] # "new" /\ LocalCid[k] = LocalCid[g]
                                 /\ LocalCid[g] \in payloadCids'[k]
    BY <2>1, <2>3 DEF LocalInv
  <2>6. \A p \in pending' \union callbacks' \union commitQueue' :
           \/ p \in pending \union callbacks \union commitQueue
           \/ /\ p.cid = LocalCid[p.height] /\ p.height \in Heights
              /\ stage'[p.height] # "new"
    BY <2>1, <2>2, <2>4
  <2> QED
    BY <1>2, <2>3, <2>4, <2>5, <2>6
<1>5. ASSUME NEW m \in commitQueue, Resubmit(m)
      PROVE  LocalInv'
  <2>1. m.cid = LocalCid[m.height] /\ m.height \in Heights /\ stage[m.height] # "new"
    BY <1>1 DEF LocalInv, Resubmission
  <2>2. \A p \in pending' \union callbacks' \union commitQueue' :
           \/ p \in pending \union callbacks \union commitQueue
           \/ /\ p.cid = LocalCid[p.height] /\ p.height \in Heights
              /\ stage[p.height] # "new"
    BY <1>5, <2>1 DEF Resubmit, Enqueue, WithoutHeight
  <2>3. stage' = stage /\ payloadCids' = payloadCids
    BY <1>5 DEF Resubmit
  <2> QED
    BY <1>1, <1>2, <2>2, <2>3 DEF LocalInv
<1> QED
  BY <1>3, <1>4, <1>5 DEF Commit

\* The steps of the finalizer leave index and snapshots alone: what they hold is
\* of the heights that they have found pending.
LEMMA LocalFrame ==
    ASSUME LocalInv, UNCHANGED <<stage, payloadCids>>,
           \A p \in pending' \union view' \union work' \union callbacks' \union commitQueue' :
              LocalAt(p),
           pc' \in EventLabels => LocalAt(event'),
           pc' \in BlockLabels => LocalAt(block'),
           pc' \notin HealLabels \union {"healPending", "healRead"},
           \A h \in 1..blockHeight' : stage[h] # "new",
           pc' \in {"setHeight", "setLast", "addCid"} =>
              newCid' \in DOMAIN ipfs' /\ ipfs'[newCid'].data = block'.cid,
           \A h \in Heights : \A c \in dagCids'[h] :
              c \in DOMAIN ipfs' /\ ipfs'[c].data = LocalCid[h]
    PROVE  LocalInv'
BY DEF LocalInv, LocalAt

\* A block begins, or the task ends: pc' is not where a CID is awaited.
LEMMA BlockStarts ==
    ASSUME NEW p, NEW entries, Create(p, entries)
    PROVE  /\ block' = p /\ view' = entries /\ work' = {}
           /\ pc' \in {"segment", "put"} /\ pc' \notin EventLabels
           /\ pc' \notin HealLabels \union {"healPending", "healRead"}
BY DEF Create, FirstStep, EventLabels, HealLabels

LEMMA TaskEnds ==
    ASSUME EndTask
    PROVE  /\ pc' = "idle" /\ view' = {} /\ work' = {}
           /\ pc' \notin EventLabels \union BlockLabels
           /\ pc' \notin HealLabels \union {"healPending", "healRead"}
BY DEF EndTask, EventLabels, BlockLabels, HealLabels

\* What LocalInv says of the entries, callbacks and resubmissions.
LEMMA LocalEntries ==
    ASSUME LocalInv
    PROVE  /\ \A p \in pending \union view \union work \union callbacks \union commitQueue :
                 LocalAt(p)
           /\ \A p \in pending \union view \union work : LocalAt(AsCallback(p))
           /\ pc \in EventLabels => LocalAt(event)
           /\ pc \in BlockLabels => LocalAt(block)
BY DEF LocalInv, LocalAt, AsCallback

LEMMA ReceiveLocal ==
    ASSUME TypeOK, LocalInv, Receive PROVE LocalInv'
<1> PICK c \in callbacks :
      DiscardStale(c) \/ DiscardUnknown(c) \/ TakeNext(c) \/ TakeEarly(c)
  BY DEF Receive
<1>1. /\ UNCHANGED <<stage, payloadCids, blockHeight, dagCids, ipfs, commitQueue>>
      /\ pending' \subseteq pending /\ callbacks' \subseteq callbacks
  BY DEF DiscardStale, DiscardUnknown, TakeNext, TakeEarly, Consume, WithoutHeight,
     chainVars, commitVars
<1>2. CASE DiscardStale(c) \/ DiscardUnknown(c)
  <2>1. UNCHANGED taskVars
    BY <1>2 DEF DiscardStale, DiscardUnknown
  <2> QED
    BY <1>1, <2>1, LocalEntries, LocalFrame DEF LocalInv, taskVars
<1>3. CASE TakeNext(c)
  <2>1. Create(c, {p \in pending : p.height > c.height})
    BY <1>3 DEF TakeNext
  <2>2. /\ block' = c /\ view' \subseteq pending /\ work' = {}
        /\ pc' \in {"segment", "put"} /\ pc' \notin EventLabels
        /\ pc' \notin HealLabels \union {"healPending", "healRead"}
    BY <2>1, BlockStarts
  <2> QED
    BY <1>1, <2>2, LocalEntries, LocalFrame DEF LocalInv
<1>4. CASE TakeEarly(c)
  <2>1. /\ pc' = "saveRemove" /\ event' = c /\ view' = view /\ work' \subseteq pending
    BY <1>4 DEF TakeEarly, Matches
  <2>2. pc' \notin BlockLabels \union HealLabels \union {"healPending", "healRead"}
    BY <2>1 DEF BlockLabels, HealLabels
  <2> QED
    BY <1>1, <2>1, <2>2, LocalEntries, LocalFrame DEF LocalInv
<1> QED
  BY <1>2, <1>3, <1>4

LEMMA HandleEarlyLocal ==
    ASSUME TypeOK, LocalInv, HandleEarly PROVE LocalInv'
<1>1. /\ UNCHANGED <<stage, payloadCids, blockHeight, dagCids, ipfs, callbacks>>
      /\ event' = event /\ pc \in EventLabels /\ pc' \in EventLabels
  BY DEF HandleEarly, SaveRemove, SaveAdd, Scan, PublishResubmission, TouchRemove,
     TouchAdd, GoTo, chainVars, commitVars, EventLabels
<1>2. pc' \notin BlockLabels \union HealLabels \union {"healPending", "healRead"}
  BY <1>1 DEF EventLabels, BlockLabels, HealLabels
<1>3. \A p \in pending' \union view' \union work' \union commitQueue' : LocalAt(p)
  <2>1. CASE SaveRemove
    BY <2>1, LocalEntries DEF SaveRemove, commitVars
  <2>2. CASE SaveAdd
    <3>1. LocalAt([height |-> event.height, req |-> event.req, touched |-> Received,
                   cid |-> event.cid])
      BY <1>1, LocalEntries DEF LocalAt
    <3> QED
      BY <2>2, <3>1, LocalEntries DEF SaveAdd, commitVars, GoTo
  <2>3. CASE Scan
    BY <2>3, LocalEntries DEF Scan, Overdue, commitVars
  <2>4. CASE PublishResubmission
    <3>1. \A p \in work : LocalAt([height |-> p.height, cid |-> p.cid,
                                   block |-> event.height])
      BY LocalEntries DEF LocalAt
    <3> QED
      BY <2>4, <3>1, LocalEntries DEF PublishResubmission, GoTo
  <2>5. CASE TouchRemove
    BY <2>5, LocalEntries DEF TouchRemove, commitVars, GoTo
  <2>6. CASE TouchAdd
    <3>1. \A p \in work : LocalAt([p EXCEPT !.touched = event.height])
      <4>1. \A p \in work : p \in PendingEntry /\ LocalAt(p)
        BY LocalEntries DEF TypeOK
      <4> QED
        BY <4>1 DEF LocalAt, PendingEntry
    <3> QED
      BY <2>6, <3>1, LocalEntries DEF TouchAdd, commitVars
  <2> QED
    BY <2>1, <2>2, <2>3, <2>4, <2>5, <2>6 DEF HandleEarly
<1> QED
  BY <1>1, <1>2, <1>3, LocalEntries, LocalFrame DEF LocalInv, EventLabels

LEMMA HealLocal ==
    ASSUME ~UseConsensus, TypeOK, LocalInv, Heal PROVE LocalInv'
<1>1. HealReady \/ ReadyRead \/ NoHealing
  BY DEF Heal, HealMissing, CanHealMissing, HealClear, HealFill, HealPending, HealRead,
     LocalInv, HealLabels
<1>2. /\ UNCHANGED <<stage, payloadCids, blockHeight, dagCids, ipfs, callbacks,
                     commitQueue, pending>>
  BY <1>1 DEF HealReady, ReadyRead, NoHealing, chainVars, commitVars
<1>3. CASE HealReady
  <2>1. /\ pc' = "readyRead" /\ view' = view /\ work' = work
        /\ \E p \in view : block' = AsCallback(p)
    BY <1>3 DEF HealReady, ReadyEntries, Confirmed
  <2>2. pc' \notin EventLabels \union HealLabels \union {"healPending", "healRead"}
    BY <2>1 DEF EventLabels, HealLabels
  <2> QED
    BY <1>2, <2>1, <2>2, LocalEntries, LocalFrame DEF LocalInv
<1>4. CASE ReadyRead
  <2>1. Create(block, {p \in pending : p.height > blockHeight}) /\ pc \in BlockLabels
    BY <1>4 DEF ReadyRead, BlockLabels
  <2>2. /\ block' = block /\ view' \subseteq pending /\ work' = {}
        /\ pc' \in {"segment", "put"} /\ pc' \notin EventLabels
        /\ pc' \notin HealLabels \union {"healPending", "healRead"}
    BY <2>1, BlockStarts
  <2> QED
    BY <1>2, <2>1, <2>2, LocalEntries, LocalFrame DEF LocalInv
<1>5. CASE NoHealing
  BY <1>2, <1>5, TaskEnds, LocalEntries, LocalFrame DEF NoHealing, LocalInv
<1> QED
  BY <1>1, <1>3, <1>4, <1>5

LEMMA CreateBlockLocal ==
    ASSUME TypeOK, HeightInv, LocalInv, CreateBlock PROVE LocalInv'
<1>0. /\ pc \in BlockLabels /\ block.height \in Heights /\ LocalAt(block)
      /\ UNCHANGED <<stage, payloadCids, callbacks, commitQueue>>
      /\ pending' \subseteq pending
  <2>1. pc \in BlockLabels
    BY DEF CreateBlock, RecordSegment, PutDagBlock, SetBlockHeight, SetLastDagCid,
       AddDagCid, ClearPending, Drain, BlockLabels
  <2>2. /\ UNCHANGED <<stage, payloadCids, callbacks, commitQueue>>
        /\ pending' \subseteq pending
    BY DEF CreateBlock, RecordSegment, PutDagBlock, SetBlockHeight, SetLastDagCid,
       AddDagCid, ClearPending, Drain, WithoutHeight, commitVars
  <2> QED
    BY <2>1, <2>2, LocalEntries DEF TypeOK
<1>1. CASE RecordSegment
  <2>1. UNCHANGED <<blockHeight, dagCids, ipfs>>
    BY <1>1 DEF RecordSegment
  <2>2. EndTask \/ GoTo("put")
    BY <1>1 DEF RecordSegment
  <2>3. "put" \notin EventLabels \union HealLabels \union {"healPending", "healRead"}
    BY DEF EventLabels, HealLabels
  <2> QED
    BY <1>0, <2>1, <2>2, <2>3, TaskEnds, LocalEntries, LocalFrame DEF LocalInv, GoTo
<1>2. CASE PutDagBlock
  <2>1. PICK last \in IF PreviousCids = {} THEN {NoCid} ELSE PreviousCids :
          PutInIpfs(NewBlock(last))
    BY <1>2 DEF PutDagBlock
  <2>2. last \in DagCids
    BY <1>0, PreviousCidsType, NoCallbackType
  <2>3. NewBlock(last) \in Block
    BY <1>0, <2>2, NewBlockType
  <2>4. NewBlock(last).data = block.cid
    BY DEF NewBlock
  <2>5. /\ newCid' \in DOMAIN ipfs' /\ DOMAIN ipfs \subseteq DOMAIN ipfs'
        /\ \A i \in DOMAIN ipfs : ipfs'[i] = ipfs[i]
    BY <2>1, <2>3, BlockInIpfs
  <2>6. ipfs'[newCid'].data = block.cid
    <3>1. PICK b : b = NewBlock(last)
      OBVIOUS
    <3>2. b \in Block /\ PutInIpfs(b)
      BY <2>1, <2>3, <3>1
    <3>3. ipfs'[newCid'] = b
      BY <3>2, BlockInIpfs
    <3> QED
      BY <2>4, <3>1, <3>3
  <2>7. /\ UNCHANGED <<blockHeight, dagCids, view, work, block>> /\ pc' = "setHeight"
    BY <1>2 DEF PutDagBlock
  <2>8. "setHeight" \notin EventLabels \union HealLabels \union {"healPending", "healRead"}
    BY DEF EventLabels, HealLabels
  <2> QED
    BY <1>0, <2>5, <2>6, <2>7, <2>8, LocalEntries, LocalFrame DEF LocalInv
<1>3. CASE SetBlockHeight \/ SetLastDagCid \/ AddDagCid \/ ClearPending
  <2>1. /\ UNCHANGED <<ipfs, view, work, block, newCid>>
        /\ pc' \in {"setLast", "addCid", "clear", "drain"}
        /\ pc' \in {"setLast", "addCid"} => pc \in {"setHeight", "setLast"}
    BY <1>3 DEF SetBlockHeight, SetLastDagCid, AddDagCid, ClearPending, GoTo, chainVars
  <2>2. pc' \notin EventLabels \union HealLabels \union {"healPending", "healRead"}
    BY <2>1 DEF EventLabels, HealLabels
  <2>3. \A h \in 1..blockHeight' : stage[h] # "new"
    <3>1. blockHeight \in Nat
      BY SizesAreNaturals DEF TypeOK, HeightsOrZero
    <3>2. blockHeight' = blockHeight \/ (blockHeight' = blockHeight + 1
                                         /\ block.height = blockHeight + 1)
      BY <1>3 DEF SetBlockHeight, SetLastDagCid, AddDagCid, ClearPending, chainVars,
         HeightInv
    <3> QED
      BY <1>0, <3>1, <3>2 DEF LocalInv, LocalAt
  <2>4. \A h \in Heights : \A c \in dagCids'[h] :
           c \in DOMAIN ipfs /\ ipfs[c].data = LocalCid[h]
    <3>1. CASE AddDagCid
      <4>1. newCid \in DOMAIN ipfs /\ ipfs[newCid].data = LocalCid[block.height]
        BY <1>0, <3>1 DEF AddDagCid, LocalInv, LocalAt
      <4>2. \A h \in Heights : \A c \in dagCids'[h] :
               c \in dagCids[h] \/ (h = block.height /\ c = newCid)
        BY <3>1 DEF AddDagCid, TypeOK
      <4> QED
        BY <4>1, <4>2 DEF LocalInv
    <3>2. CASE SetBlockHeight \/ SetLastDagCid \/ ClearPending
      BY <3>2 DEF SetBlockHeight, SetLastDagCid, ClearPending, chainVars, LocalInv
    <3> QED
      BY <1>3, <3>1, <3>2
  <2> QED
    BY <1>0, <2>1, <2>2, <2>3, <2>4, LocalEntries, LocalFrame DEF LocalInv
<1>4. CASE Drain
  <2>1. UNCHANGED <<blockHeight, dagCids, ipfs>>
    BY <1>4 DEF Drain, chainVars
  <2>2. CASE EndTask
    BY <1>0, <2>1, <2>2, TaskEnds, LocalEntries, LocalFrame DEF LocalInv
  <2>3. ASSUME NEW p \in Queued(block.height), Create(AsCallback(p), view)
        PROVE  LocalInv'
    <3>1. /\ p \in view
          /\ block' = AsCallback(p) /\ view' = view /\ work' = {}
          /\ pc' \in {"segment", "put"} /\ pc' \notin EventLabels
          /\ pc' \notin HealLabels \union {"healPending", "healRead"}
      BY <2>3, BlockStarts DEF Queued, Confirmed
    <3> QED
      BY <1>0, <2>1, <3>1, LocalEntries, LocalFrame DEF LocalInv
  <2> QED
    BY <1>4, <2>2, <2>3 DEF Drain
<1> QED
  BY <1>1, <1>2, <1>3, <1>4 DEF CreateBlock

LEMMA StepLocal ==
    ASSUME ~UseConsensus, TypeOK, HeightInv, LocalInv, [Next]_vars PROVE LocalInv'
<1>1. CASE UNCHANGED vars
  BY <1>1 DEF LocalInv, vars, chainVars, commitVars, taskVars
<1>2. CASE TaskDies
  <2>1. /\ UNCHANGED <<stage, payloadCids, blockHeight, dagCids, ipfs, callbacks,
                       commitQueue, pending>>
        /\ EndTask
    BY <1>2 DEF TaskDies, chainVars, commitVars
  <2> QED
    BY <2>1, TaskEnds, LocalEntries, LocalFrame DEF LocalInv
<1> QED
  BY <1>1, <1>2, CommitLocal, ReceiveLocal, HandleEarlyLocal, HealLocal,
     CreateBlockLocal DEF Next, Task

\* Without a consensus service, payloadCids holds for a finalized height at most
\* the CID its block carries, and that CID is there or at a committed height with
\* the same content, wherever tasks die, although the index and the chain are
\* written by different services from different messages.
THEOREM IndexMatches ==
    ASSUME ~UseConsensus PROVE Spec => []PayloadIndexMatchesChain
<1>1. Init => LocalInv
  BY DEF Init, LocalInv, EventLabels, BlockLabels, HealLabels
<1>2. TypeOK /\ HeightInv /\ LocalInv /\ [Next]_vars => LocalInv'
  BY StepLocal
<1>3. TypeOK /\ HeightInv /\ LocalInv => PayloadIndexMatchesChain
  <2> SUFFICES ASSUME TypeOK, HeightInv, LocalInv, NEW h \in 1..Recorded,
                      NEW c \in dagCids[h]
               PROVE  /\ payloadCids[h] \subseteq {ipfs[c].data}
                      /\ \E g \in Heights :
                            /\ ipfs[c].data \in payloadCids[g]
                            /\ g = h \/ (stage[g] # "new" /\ LocalCid[g] = ipfs[c].data)
    BY DEF PayloadIndexMatchesChain
  <2>1. h \in 1..blockHeight /\ h \in Heights
    BY SizesAreNaturals DEF Recorded, TypeOK, HeightsOrZero, Heights
  <2>2. /\ ipfs[c].data = LocalCid[h] /\ payloadCids[h] \subseteq {LocalCid[h]}
        /\ stage[h] # "new"
    BY <2>1 DEF LocalInv
  <2>3. PICK g \in Heights : /\ stage[g] # "new" /\ LocalCid[g] = LocalCid[h]
                             /\ LocalCid[h] \in payloadCids[g]
    BY <2>1, <2>2 DEF LocalInv
  <2> QED
    BY <2>2, <2>3
<1> QED
  BY <1>1, <1>2, <1>3, HeightsHold, PTL DEF Spec

(***************************************************************************)
(* Confirmed entries stay ahead of the chain                               *)
(***************************************************************************)
ConfirmedAbove(h) == \A p \in Confirmed(pending) : p.height > h

\* A confirmed entry above a new block is in the list that Drain goes through.
ConfirmedIsRead ==
    \A p \in Confirmed(pending) : p.height > block.height => p \in view

\* Outside a block every confirmed entry is above the next height. While a block
\* is made, none is below it and those above it will be drained.
AheadInv ==
    /\ pc \in {"idle"} \union EventLabels \union HealLabels =>
          ConfirmedAbove(blockHeight + 1)
    /\ pc \in EventLabels => event.height > blockHeight + 1
    /\ pc \in {"resubmit", "touchRemove", "touchAdd"} =>
          \A p \in Confirmed(view) : p.height > blockHeight + 1
    /\ pc \in {"readyRead", "healPending", "healRead"} => ConfirmedAbove(blockHeight)
    /\ pc = "healPending" => \A p \in work : p.height > blockHeight
    /\ pc = "segment" => StartsSegment(block.height)
    /\ pc \in {"segment", "put", "setHeight", "setLast", "addCid", "clear"} =>
          ConfirmedAbove(block.height - 1) /\ ConfirmedIsRead
    /\ pc = "drain" => ConfirmedAbove(block.height) /\ ConfirmedIsRead

\* The heights that are compared are numbers.
LEMMA HeightsAreNumbers ==
    ASSUME TypeOK
    PROVE  /\ blockHeight \in Nat
           /\ \A p \in pending \union view \union work : p.height \in Nat
           /\ \A c \in callbacks : c.height \in Nat
           /\ block.height \in Nat /\ event.height \in Nat
BY SizesAreNaturals
   DEF TypeOK, HeightsOrZero, Heights, PendingEntry, Callback

LEMMA AheadFrame ==
    ASSUME AheadInv, UNCHANGED <<blockHeight, taskVars>>,
           \A p \in Confirmed(pending') : p \in Confirmed(pending)
    PROVE  AheadInv'
BY DEF AheadInv, ConfirmedAbove, ConfirmedIsRead, taskVars

LEMMA EndTaskAhead ==
    ASSUME EndTask, ConfirmedAbove(blockHeight + 1)' PROVE AheadInv'
BY DEF EndTask, AheadInv, EventLabels, HealLabels

LEMMA CreateAhead ==
    ASSUME NEW p, NEW entries, Create(p, entries),
           \A q \in Confirmed(pending') :
              q.height > p.height - 1 /\ (q.height > p.height => q \in entries)
    PROVE  AheadInv'
<1>1. /\ block' = p /\ view' = entries /\ pc' \in {"segment", "put"}
      /\ pc' = "segment" => StartsSegment(p.height)
  BY DEF Create, FirstStep
<1>2. ConfirmedAbove(block.height - 1)' /\ ConfirmedIsRead'
  BY <1>1 DEF ConfirmedAbove, ConfirmedIsRead
<1> QED
  BY <1>1, <1>2 DEF AheadInv, EventLabels, HealLabels, StartsSegment

\* A new entry is pending, or touched at the height of a callback: not received.
LEMMA CommitAhead ==
    ASSUME TypeOK, AheadInv, Commit PROVE AheadInv'
<1>1. UNCHANGED <<blockHeight, taskVars>>
  BY DEF Commit, CommitSnapshot, AddToPendingTxns, Resubmit, chainVars
<1>2. \A p \in Confirmed(pending') : p \in Confirmed(pending)
  <2>1. ASSUME NEW h \in Heights, CommitSnapshot(h) \/ AddToPendingTxns(h)
        PROVE  \A p \in Confirmed(pending') : p \in Confirmed(pending)
    BY <2>1 DEF CommitSnapshot, AddToPendingTxns, Enqueue, Confirmed,
       CallbackPending, Received
  <2>2. ASSUME NEW m \in commitQueue, Resubmit(m)
        PROVE  \A p \in Confirmed(pending') : p \in Confirmed(pending)
    <3>1. m.block \in Heights
      BY DEF TypeOK, Resubmission
    <3>2. m.block # Received
      BY <3>1, SizesAreNaturals DEF Heights, Received
    <3> QED
      BY <2>2, <3>2 DEF Resubmit, Enqueue, Confirmed, WithoutHeight
  <2> QED
    BY <2>1, <2>2 DEF Commit
<1> QED
  BY <1>1, <1>2, AheadFrame

LEMMA ReceiveAhead ==
    ASSUME TypeOK, AheadInv, Receive PROVE AheadInv'
<1> PICK c \in callbacks :
      DiscardStale(c) \/ DiscardUnknown(c) \/ TakeNext(c) \/ TakeEarly(c)
  BY DEF Receive
<1>1. blockHeight' = blockHeight /\ \A p \in pending' : p \in pending
  BY DEF DiscardStale, DiscardUnknown, TakeNext, TakeEarly, WithoutHeight, chainVars
<1>2. ConfirmedAbove(blockHeight + 1)
  BY DEF AheadInv, DiscardStale, DiscardUnknown, TakeNext, TakeEarly
<1>3. CASE DiscardStale(c) \/ DiscardUnknown(c)
  BY <1>1, <1>3, AheadFrame DEF DiscardStale, DiscardUnknown, Confirmed
<1>4. CASE TakeNext(c)
  <2>1. Create(c, {p \in pending : p.height > c.height})
        /\ c.height = blockHeight + 1 /\ pending' = pending
    BY <1>4 DEF TakeNext, IsNext
  <2>2. \A q \in Confirmed(pending') :
           /\ q.height > c.height - 1
           /\ q.height > c.height => q \in {p \in pending : p.height > c.height}
    BY <1>2, <2>1, HeightsAreNumbers DEF ConfirmedAbove, Confirmed
  <2> QED
    BY <2>1, <2>2, CreateAhead
<1>5. CASE TakeEarly(c)
  <2>1. /\ pc' = "saveRemove" /\ event' = c /\ c.height > blockHeight + 1
        /\ pending' = pending
    BY <1>5 DEF TakeEarly, IsEarly
  <2> QED
    BY <1>1, <1>2, <2>1 DEF AheadInv, ConfirmedAbove, EventLabels, HealLabels
<1> QED
  BY <1>3, <1>4, <1>5

LEMMA HandleEarlyAhead ==
    ASSUME TypeOK, AheadInv, HandleEarly PROVE AheadInv'
<1>1. /\ pc \in EventLabels /\ pc' \in EventLabels
      /\ UNCHANGED <<blockHeight, event>>
  BY DEF HandleEarly, SaveRemove, SaveAdd, Scan, PublishResubmission, TouchRemove,
     TouchAdd, GoTo, chainVars, EventLabels
<1>2. ConfirmedAbove(blockHeight + 1) /\ event.height > blockHeight + 1
  BY <1>1 DEF AheadInv
<1>3. ConfirmedAbove(blockHeight + 1)'
  <2>1. CASE SaveAdd
    BY <1>1, <1>2, <2>1 DEF SaveAdd, ConfirmedAbove, Confirmed
  <2>2. CASE TouchAdd
    <3>1. PICK p \in work :
            pending' = pending \union {[p EXCEPT !.touched = event.height]}
      BY <2>2 DEF TouchAdd
    <3>2. [p EXCEPT !.touched = event.height].touched = event.height
      BY DEF TypeOK, PendingEntry
    <3>3. event.height # Received
      BY HeightsAreNumbers DEF Received
    <3> QED
      BY <1>1, <1>2, <3>1, <3>2, <3>3 DEF ConfirmedAbove, Confirmed
  <2>3. CASE SaveRemove \/ Scan \/ PublishResubmission \/ TouchRemove
    BY <1>1, <1>2, <2>3 DEF SaveRemove, Scan, PublishResubmission, TouchRemove,
       ConfirmedAbove, Confirmed
  <2> QED
    BY <2>1, <2>2, <2>3 DEF HandleEarly
<1>4. pc' \in {"resubmit", "touchRemove", "touchAdd"} =>
         \A p \in Confirmed(view') : p.height > blockHeight' + 1
  <2>1. CASE Scan
    BY <1>1, <1>2, <2>1 DEF Scan, ConfirmedAbove, Confirmed
  <2>2. CASE SaveRemove \/ SaveAdd
    BY <2>2 DEF SaveRemove, SaveAdd, GoTo
  <2>3. CASE PublishResubmission \/ TouchRemove \/ TouchAdd
    BY <1>1, <2>3 DEF PublishResubmission, TouchRemove, TouchAdd, GoTo, AheadInv
  <2> QED
    BY <2>1, <2>2, <2>3 DEF HandleEarly
<1> QED
  BY <1>1, <1>2, <1>3, <1>4 DEF AheadInv, EventLabels, HealLabels

LEMMA HealAhead ==
    ASSUME TypeOK, HeightInv, AheadInv, Heal PROVE AheadInv'
<1>0. blockHeight' = blockHeight
  BY DEF Heal, HealReady, ReadyRead, HealMissing, NoHealing, HealClear, HealFill,
     HealPending, HealRead, chainVars
<1>1. CASE HealReady \/ HealMissing \/ NoHealing
  <2>1. ConfirmedAbove(blockHeight + 1)' /\ ConfirmedAbove(blockHeight)'
    BY <1>0, <1>1, HeightsAreNumbers DEF HealReady, HealMissing, NoHealing, ScanDone,
       EventLabels, AheadInv, ConfirmedAbove, Confirmed
  <2> QED
    BY <1>1, <2>1, EndTaskAhead DEF HealReady, HealMissing, NoHealing, AheadInv,
       EventLabels, HealLabels
<1>2. CASE HealClear \/ HealFill
  <2>1. /\ ConfirmedAbove(blockHeight + 1)' /\ ConfirmedAbove(blockHeight)'
        /\ \A p \in work' : p.height > blockHeight
    BY <1>0, <1>2, HeightsAreNumbers DEF HealClear, HealFill, GoTo, HealLabels, AheadInv,
       HeightInv, ConfirmedAbove, Confirmed
  <2> QED
    BY <1>0, <1>2, <2>1 DEF HealClear, HealFill, GoTo, AheadInv, EventLabels, HealLabels
<1>3. CASE HealPending
  <2>1. ConfirmedAbove(blockHeight)' /\ \A p \in work' : p.height > blockHeight
    BY <1>0, <1>3 DEF HealPending, AheadInv, ConfirmedAbove, Confirmed
  <2> QED
    BY <1>0, <1>3, <2>1 DEF HealPending, AheadInv, EventLabels, HealLabels
<1>4. CASE ReadyRead \/ HealRead
  <2>1. /\ ConfirmedAbove(blockHeight) /\ block.height = blockHeight + 1
        /\ pending' = pending
        /\ \/ Create(block, {p \in pending : p.height > blockHeight})
           \/ Create(block, {p \in pending : p.height > block.height})
    BY <1>4 DEF ReadyRead, HealRead, AheadInv, HeightInv
  <2>2. \A q \in Confirmed(pending') :
           /\ q.height > block.height - 1
           /\ q.height > block.height =>
                 /\ q \in {p \in pending : p.height > blockHeight}
                 /\ q \in {p \in pending : p.height > block.height}
    BY <2>1, HeightsAreNumbers DEF ConfirmedAbove, Confirmed
  <2> QED
    BY <2>1, <2>2, CreateAhead
<1> QED
  BY <1>1, <1>2, <1>3, <1>4 DEF Heal

\* A segment starts above the first block, whose predecessor is on record.
LEMMA PreviousIsRecorded ==
    ASSUME TypeOK, HeightInv, LinkInv, AheadInv, pc = "segment"
    PROVE  PreviousCids # {}
<1>1. /\ block.height = blockHeight + 1 /\ Recorded = blockHeight
      /\ block.height > SegmentSize
  BY DEF HeightInv, Recorded, AheadInv, StartsSegment
<1>2. block.height # 1 /\ block.height - 1 \in 1..Recorded
  BY <1>1, HeightsAreNumbers, SegmentsHoldTwoBlocks
<1>3. PICK c : dagCids[block.height - 1] = {c}
  BY <1>2 DEF LinkInv
<1> QED
  BY <1>2, <1>3 DEF PreviousCids

LEMMA CreateBlockAhead ==
    ASSUME TypeOK, HeightInv, LinkInv, AheadInv, CreateBlock PROVE AheadInv'
<1>1. CASE RecordSegment
  <2>1. GoTo("put") /\ pending' = pending /\ pc = "segment"
    BY <1>1, PreviousIsRecorded DEF RecordSegment
  <2>2. (ConfirmedAbove(block.height - 1) /\ ConfirmedIsRead)'
    BY <2>1 DEF GoTo, AheadInv, ConfirmedAbove, ConfirmedIsRead
  <2> QED
    BY <2>1, <2>2 DEF GoTo, AheadInv, EventLabels, HealLabels
<1>2. CASE PutDagBlock \/ SetBlockHeight \/ SetLastDagCid \/ AddDagCid
  <2>1. /\ pc \in {"put", "setHeight", "setLast", "addCid"}
        /\ pc' \in {"setHeight", "setLast", "addCid", "clear"}
        /\ UNCHANGED <<pending, block, view>>
    BY <1>2 DEF PutDagBlock, SetBlockHeight, SetLastDagCid, AddDagCid, GoTo
  <2>2. (ConfirmedAbove(block.height - 1) /\ ConfirmedIsRead)'
    BY <2>1 DEF AheadInv, ConfirmedAbove, ConfirmedIsRead
  <2> QED
    BY <2>1, <2>2 DEF AheadInv, EventLabels, HealLabels
<1>3. CASE ClearPending
  <2>1. /\ pc = "clear" /\ pc' = "drain" /\ UNCHANGED <<block, view>>
        /\ pending' = WithoutHeight(pending, block.height)
    BY <1>3 DEF ClearPending, GoTo
  <2>2. ConfirmedAbove(block.height - 1) /\ ConfirmedIsRead
    BY <2>1 DEF AheadInv
  <2>3. (ConfirmedAbove(block.height) /\ ConfirmedIsRead)'
    BY <2>1, <2>2, HeightsAreNumbers
       DEF ConfirmedAbove, ConfirmedIsRead, Confirmed, WithoutHeight
  <2> QED
    BY <2>1, <2>3 DEF AheadInv, EventLabels, HealLabels
<1>4. CASE Drain
  <2>1. /\ ConfirmedAbove(block.height) /\ ConfirmedIsRead
        /\ block.height = blockHeight
        /\ UNCHANGED <<pending, blockHeight>>
    BY <1>4 DEF Drain, AheadInv, HeightInv, chainVars
  <2>2. CASE Queued(block.height) = {} /\ EndTask
    <3>1. \A p \in Confirmed(pending) : p.height > blockHeight + 1
      <4> TAKE p \in Confirmed(pending)
      <4>1. p.height > blockHeight /\ p \in Confirmed(view)
        BY <2>1 DEF ConfirmedAbove, ConfirmedIsRead, Confirmed
      <4>2. p.height # block.height + 1
        BY <2>2, <4>1 DEF Queued
      <4>3. p.height \in Nat
        BY HeightsAreNumbers DEF Confirmed
      <4> QED
        BY <2>1, <4>1, <4>2, <4>3, HeightsAreNumbers
    <3>2. ConfirmedAbove(blockHeight + 1)'
      BY <2>1, <3>1 DEF ConfirmedAbove, Confirmed
    <3> QED
      BY <2>2, <3>2, EndTaskAhead
  <2>3. ASSUME NEW p \in Queued(block.height), Create(AsCallback(p), view)
        PROVE  AheadInv'
    <3>1. AsCallback(p).height = block.height + 1
      BY DEF Queued, AsCallback
    <3>2. \A q \in Confirmed(pending') :
             /\ q.height > AsCallback(p).height - 1
             /\ q.height > AsCallback(p).height => q \in view
      BY <2>1, <3>1, HeightsAreNumbers DEF ConfirmedAbove, ConfirmedIsRead, Confirmed
    <3> QED
      BY <2>3, <3>2, CreateAhead
  <2> QED
    BY <1>4, <2>2, <2>3 DEF Drain
<1> QED
  BY <1>1, <1>2, <1>3, <1>4 DEF CreateBlock

LEMMA StepAhead ==
    ASSUME FailAt \cap BlockLabels = {},
           TypeOK, HeightInv, LinkInv, AheadInv, [Next]_vars
    PROVE  AheadInv'
<1>1. CASE UNCHANGED vars
  BY <1>1, AheadFrame DEF vars, chainVars
<1>2. CASE TaskDies
  <2>1. pc \in Labels \ BlockLabels
    BY <1>2 DEF TaskDies, TypeOK
  <2>2. ConfirmedAbove(blockHeight + 1)
    BY <2>1 DEF AheadInv, Labels
  <2>3. EndTask /\ UNCHANGED <<pending, blockHeight>>
    BY <1>2 DEF TaskDies, chainVars
  <2>4. ConfirmedAbove(blockHeight + 1)'
    BY <2>2, <2>3 DEF ConfirmedAbove, Confirmed
  <2> QED
    BY <2>3, <2>4, EndTaskAhead
<1> QED
  BY <1>1, <1>2, CommitAhead, ReceiveAhead, HandleEarlyAhead, HealAhead,
     CreateBlockAhead DEF Next, Task

\* The invariants hold together if no task dies while it makes blocks.
LEMMA AheadHolds ==
    ASSUME FailAt \cap BlockLabels = {}
    PROVE  Spec => [](TypeOK /\ AheadInv)
<1>1. Init => LinkInv /\ AheadInv
  <2>1. Init => LinkInv
    BY DEF Init, LinkInv, Recorded
  <2>2. Init => AheadInv
    BY DEF Init, AheadInv, ConfirmedAbove, Confirmed, EventLabels, HealLabels
  <2> QED
    BY <2>1, <2>2
<1>2. FailAt \cap {"setLast", "addCid"} = {}
  BY DEF BlockLabels
<1>3. TypeOK /\ HeightInv /\ LinkInv /\ [Next]_vars => LinkInv'
  BY <1>2, StepLinks
<1>4. TypeOK /\ HeightInv /\ LinkInv /\ AheadInv /\ [Next]_vars => AheadInv'
  BY StepAhead
<1> QED
  BY <1>1, <1>3, <1>4, HeightsHold, PTL DEF Spec

\* If no task dies while it makes blocks, a callback leaves no confirmed entry at
\* or below the next height: what could be finalized has been. It may die while
\* it saves its entry, scans, resubmits or fills in what healing found.
THEOREM ConfirmedStayAhead ==
    ASSUME FailAt \cap BlockLabels = {}
    PROVE  Spec => []ConfirmedAreAhead
<1>1. AheadInv => ConfirmedAreAhead
  BY DEF AheadInv, ConfirmedAbove, ConfirmedAreAhead
<1> QED
  BY <1>1, AheadHolds, PTL

(***************************************************************************)
(* Healing                                                                 *)
(***************************************************************************)
LEMMA HealingStep ==
    ASSUME EpochKeys, "resubmit" \notin FailAt, TypeOK, AheadInv, Next,
           ScanDone, HealingIsDue, UseConsensus, EventIsRead
    PROVE  pc' # "idle"
<1>1. pc = "resubmit" /\ pc \in EventLabels
  BY DEF ScanDone, EventLabels
<1>2. \A p \in Confirmed(view) : p.height > blockHeight + 1
  BY <1>1 DEF AheadInv
<1>3. ReadyEntries = {}
  <2> SUFFICES ASSUME NEW p \in Confirmed(view), p.height = blockHeight + 1
               PROVE  FALSE
    BY DEF ReadyEntries
  <2> QED
    BY <1>2, HeightsAreNumbers DEF Confirmed
<1>4. LaterEntries # {}
  BY <1>2 DEF EventIsRead, LaterEntries
<1>5. ~NoHealing
  BY <1>3, <1>4 DEF NoHealing, CanHealMissing
<1>6. CASE Commit
  BY <1>1, <1>6 DEF Commit, CommitSnapshot, AddToPendingTxns, Resubmit, taskVars
<1>7. CASE Receive
  BY <1>1, <1>7 DEF Receive, DiscardStale, DiscardUnknown, TakeNext, TakeEarly
<1>8. CASE HandleEarly
  BY <1>8 DEF HandleEarly, SaveRemove, SaveAdd, Scan, PublishResubmission,
     TouchRemove, TouchAdd, GoTo
<1>9. CASE Heal
  BY <1>1, <1>5, <1>9 DEF Heal, HealReady, ReadyRead, HealMissing, HealClear,
     HealFill, HealPending, HealRead
<1>10. CASE CreateBlock
  BY <1>1, <1>10 DEF CreateBlock, RecordSegment, PutDagBlock, SetBlockHeight,
     SetLastDagCid, AddDagCid, ClearPending, Drain
<1>11. CASE TaskDies
  BY <1>1, <1>11 DEF TaskDies
<1> QED
  BY <1>6, <1>7, <1>8, <1>9, <1>10, <1>11 DEF Next, Task

\* With epoch keys, a callback that is due to heal and has read its own entry
\* goes on to make the next block: at every such point the missing heights can be
\* asked for, since nothing confirmed is left at the next height.
THEOREM HealingMoves ==
    ASSUME EpochKeys, FailAt \cap (BlockLabels \union {"resubmit"}) = {}
    PROVE  Spec => HealingMovesChain
<1>1. FailAt \cap BlockLabels = {} /\ "resubmit" \notin FailAt
  OBVIOUS
<1>2. TypeOK /\ AheadInv /\ [Next]_vars =>
         [ScanDone /\ HealingIsDue /\ UseConsensus /\ EventIsRead => pc' # "idle"]_vars
  BY <1>1, HealingStep
<1> QED
  BY <1>1, <1>2, AheadHolds, PTL DEF Spec, HealingMovesChain
=============================================================================
