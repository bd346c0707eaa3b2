----------------------------- MODULE DagFinalizer -----------------------------
(***************************************************************************)
(* The DAG finalizer (dag_finalizer.py, utils/dag_utils.py) of one project *)
(* and what the payload commit service (go/payload-commit) writes to the   *)
(* Redis keys they share.                                                  *)
(*                                                                         *)
(* The finalizer runs at most one callback of a project at a time: the     *)
(* asyncio lock of acquire_project_atomic_lock is the value "idle" of pc.  *)
(* Inside a callback every await on Redis or IPFS is a step, so the commit *)
(* service can write between any two of them and the task can die there.   *)
(***************************************************************************)
EXTENDS Integers, Sequences, FiniteSets

CONSTANTS
    MaxHeight,      \* bound: the tentative heights are 1..MaxHeight
    MaxRequests,    \* bound: request IDs issued for one height
    MaxFaults,      \* bound: dead tasks and duplicated callbacks, together
    SegmentSize,    \* settings.pruning.segment_size
    ResubmitAfter,  \* num_block_to_wait_for_resubmission (10 in the code)
    HealAfter,      \* threshold_before_self_healing_check (5 in the code)
    UseConsensus,   \* settings.use_consensus
    EpochKeys,      \* does the project have epochSize and firstEpochEndHeight?
    Snapshots,      \* CIDs of payloads, of this node or of another
    LocalCid,       \* the CID this node computes for each height
    FailAt          \* the labels of pc at which the running task may die

ASSUME SizesAreNaturals ==
    /\ MaxHeight \in Nat
    /\ MaxRequests \in Nat
    /\ MaxFaults \in Nat
    /\ ResubmitAfter \in Nat
    /\ HealAfter \in Nat

ASSUME SegmentsHoldTwoBlocks == SegmentSize \in Nat /\ SegmentSize > 1

ASSUME FlagsAreBoolean == UseConsensus \in BOOLEAN /\ EpochKeys \in BOOLEAN

Heights == 1..MaxHeight
HeightsOrZero == 0..MaxHeight

\* Equal contents have one CID, so two heights may share theirs.
ASSUME ContentsHaveCids ==
    LocalCid \in [Heights -> Snapshots] /\ "null" \notin Snapshots

\* "null" is the 'null_<epoch>' marker of healing, another one for each height.
PayloadCids == Snapshots \union {"null"}

Received == -1      \* lastTouchedBlock once the callback has arrived
CallbackPending == 0

NoCid == 0          \* None where a DAG CID is expected
DagCids == Nat

\* A DAGFinalizerCallback. req 0 is the fresh uuid of a healed entry, which no
\* callback ever carries.
Callback == [height : HeightsOrZero, req : Nat, cid : PayloadCids]
NoCallback == [height |-> 0, req |-> 0, cid |-> "null"]

\* A member of the pendingTransactions zset, with its score.
PendingEntry == [height : Heights, req : Nat, touched : Int, cid : PayloadCids]

\* A block in IPFS; its CID is its index in ipfs, so equal content has one CID.
Block == [height : Heights, prev : DagCids, root : DagCids,
          data : PayloadCids, stamp : Nat]

\* A value of the dagSegments hash, keyed by end.
Segment == [begin : Nat, end : Nat, cid : DagCids]

\* A resubmission published to commit-payloads.
Resubmission == [height : Heights, cid : PayloadCids, block : Heights]

VARIABLES
    (* Redis keys of the project *)
    pending,        \* pendingTransactions
    blockHeight,    \* blockHeight
    lastDagCid,     \* lastDagCid
    dagCids,        \* Cids zset: height -> CIDs with that score
    payloadCids,    \* payloadCids zset: height -> CIDs with that score
    segments,       \* dagSegments
    discarded,      \* discardedTransactions
    (* IPFS *)
    ipfs,           \* the blocks put so far
    (* Queues *)
    callbacks,      \* DAG finalizer callbacks not yet processed
    commitQueue,    \* resubmissions not yet processed
    (* Payload commit service *)
    stage,          \* per height: "new", "committed" or "queued"
    issued,         \* per height: request IDs issued
    faults,         \* faults so far
    (* The running task of the finalizer *)
    pc,             \* what it does next; "idle" when the lock is free
    event,          \* the callback it processes
    view,           \* the pending entries it read last
    work,           \* the entries it still has to rewrite or add
    block,          \* the entry it turns into a block
    newCid          \* the CID of the block it has put

chainVars == <<blockHeight, lastDagCid, dagCids, segments, ipfs>>
commitVars == <<commitQueue, stage, issued>>
taskVars == <<pc, event, view, work, block, newCid>>
vars == <<pending, chainVars, payloadCids, discarded, callbacks, commitVars,
          faults, taskVars>>

\* The awaits of a callback, in the order they can come: those at which its
\* event is still needed, and those at which a block is being made.
EventLabels == {"saveRemove", "saveAdd", "scan", "resubmit", "touchRemove",
                "touchAdd"}
HealLabels == {"healClear", "healFill"}
BlockLabels == {"readyRead", "healPending", "healRead", "segment", "put",
                "setHeight", "setLast", "addCid", "clear", "drain"}
Labels == {"idle"} \union EventLabels \union HealLabels \union BlockLabels

TypeOK ==
    /\ pending \in SUBSET PendingEntry
    /\ blockHeight \in HeightsOrZero
    /\ lastDagCid \in DagCids
    /\ dagCids \in [Heights -> SUBSET DagCids]
    /\ payloadCids \in [Heights -> SUBSET PayloadCids]
    /\ segments \in SUBSET Segment
    /\ discarded \in SUBSET (Heights \X Nat)
    /\ ipfs \in Seq(Block)
    /\ callbacks \in SUBSET Callback
    /\ \A c \in callbacks : c.height \in Heights
    /\ commitQueue \in SUBSET Resubmission
    /\ stage \in [Heights -> {"new", "committed", "queued"}]
    /\ issued \in [Heights -> Nat]
    /\ faults \in Nat
    /\ pc \in Labels
    /\ event \in Callback
    /\ view \in SUBSET PendingEntry
    /\ work \in SUBSET PendingEntry
    /\ block \in Callback
    /\ newCid \in DagCids
    /\ pc \in EventLabels => event.height \in Heights
    /\ pc \in BlockLabels => block.height \in Heights

Init ==
    /\ pending = {}
    /\ blockHeight = 0
    /\ lastDagCid = NoCid
    /\ dagCids = [h \in Heights |-> {}]
    /\ payloadCids = [h \in Heights |-> {}]
    /\ segments = {}
    /\ discarded = {}
    /\ ipfs = <<>>
    /\ callbacks = {}
    /\ commitQueue = {}
    /\ stage = [h \in Heights |-> "new"]
    /\ issued = [h \in Heights |-> 0]
    /\ faults = 0
    /\ pc = "idle"
    /\ event = NoCallback
    /\ view = {}
    /\ work = {}
    /\ block = NoCallback
    /\ newCid = NoCid

(***************************************************************************)
(* Helpers                                                                 *)
(***************************************************************************)
AtHeight(entries, h) == {p \in entries : p.height = h}
WithoutHeight(entries, h) == {p \in entries : p.height # h}
Confirmed(entries) == {p \in entries : p.touched = Received}

\* The entries a callback stands for: same request ID at the same height.
Matches(c) == {p \in pending : p.req = c.req /\ p.height = c.height}

AsCallback(p) == [height |-> p.height, req |-> p.req, cid |-> p.cid]

\* (mutant) the guard for a chain shorter than a segment is forgotten
StartsSegmentAlways(h) == h % SegmentSize = 1

\* Does the block at h start a new chain segment?
StartsSegment(h) == h > SegmentSize /\ h % SegmentSize = 1

\* A ZADD to the payloadCids zset. A member has one score: a CID leaves the height
\* it was at, and of several heights in one mapping it gets the last.
Scored(index, added) ==
    [h \in Heights |->
        {c \in index[h] : c = "null" \/ \A p \in added : p.cid # c}
        \union {p.cid : p \in {q \in AtHeight(added, h) :
            q.cid = "null" \/ \A o \in added : o.cid = q.cid => o.height <= h}}]

FirstStep(h) == IF StartsSegment(h) THEN "segment" ELSE "put"

\* The task ends, normally or by an exception: its locals are gone.
EndTask ==
    /\ pc' = "idle"
    /\ event' = NoCallback
    /\ view' = {}
    /\ work' = {}
    /\ block' = NoCallback
    /\ newCid' = NoCid

\* Start creating the block of p, with the pending entries read before it.
Create(p, entries) ==
    /\ pc' = FirstStep(p.height)
    /\ block' = p
    /\ view' = entries
    /\ event' = NoCallback
    /\ work' = {}
    /\ newCid' = NoCid

GoTo(label) == pc' = label /\ UNCHANGED <<event, view, work, block, newCid>>

(***************************************************************************)
(* The payload commit service and the callback it posts                    *)
(***************************************************************************)
\* (mutant) the CID is not added to payloadCids
CommitSnapshotUnindexed(h) ==
    /\ stage[h] = "new"
    /\ stage' = [stage EXCEPT ![h] = "committed"]
    /\ UNCHANGED <<pending, chainVars, payloadCids, discarded, callbacks,
                   commitQueue, issued, faults, taskVars>>

\* A snapshot gets its tentative height and its CID goes to payloadCids.
CommitSnapshot(h) ==
    /\ stage[h] = "new"
    /\ stage' = [stage EXCEPT ![h] = "committed"]
    /\ payloadCids' = Scored(payloadCids, {[height |-> h, cid |-> LocalCid[h]]})
    /\ UNCHANGED <<pending, chainVars, discarded, callbacks, commitQueue,
                   issued, faults, taskVars>>

\* A pending entry for a fresh request ID, and the finalizer callback for it.
Enqueue(h, cid, touched, entries) ==
    LET r == issued[h] + 1
    IN /\ r <= MaxRequests
       /\ issued' = [issued EXCEPT ![h] = r]
       /\ pending' = entries \union
              {[height |-> h, req |-> r, touched |-> touched, cid |-> cid]}
       /\ callbacks' = callbacks \union {[height |-> h, req |-> r, cid |-> cid]}

\* With consensus the CID that is queued is the one consensus settled on.
AddToPendingTxns(h) ==
    /\ stage[h] = "committed"
    /\ stage' = [stage EXCEPT ![h] = "queued"]
    /\ \E cid \in IF UseConsensus THEN Snapshots ELSE {LocalCid[h]} :
          Enqueue(h, cid, CallbackPending, pending)
    /\ UNCHANGED <<chainVars, payloadCids, discarded, commitQueue, faults,
                   taskVars>>

\* A resubmission replaces whatever is pending at its height. The finalizer
\* cannot tell the ZREMRANGEBYSCORE and the ZADD apart: it looks for an entry
\* by its request ID, and the fresh one has a callback only afterwards.
Resubmit(m) ==
    /\ commitQueue' = commitQueue \ {m}
    /\ Enqueue(m.height, m.cid, m.block, WithoutHeight(pending, m.height))
    /\ UNCHANGED <<chainVars, payloadCids, discarded, stage, faults, taskVars>>

(***************************************************************************)
(* Taking a callback                                                       *)
(***************************************************************************)
\* The callback leaves the queue, or (a retried webhook) stays for once more.
Consume(c) ==
    \/ callbacks' = callbacks \ {c} /\ UNCHANGED faults
    \/ faults < MaxFaults /\ faults' = faults + 1 /\ UNCHANGED callbacks

\* (mutant) an event at the finalized height still counts as in order
IsNextOrLast(c) == c.height \in {blockHeight, blockHeight + 1}

IsStale(c) == c.height <= blockHeight
IsNext(c) == c.height = blockHeight + 1
IsEarly(c) == c.height > blockHeight + 1

\* The height is finalized already: the event is discarded.
DiscardStale(c) ==
    /\ pc = "idle"
    /\ IsStale(c)
    /\ Consume(c)
    /\ pending' = WithoutHeight(pending, c.height)
    /\ discarded' = discarded \union {<<c.height, c.req>>}
    /\ UNCHANGED <<chainVars, payloadCids, commitVars, taskVars>>

\* The request ID is not pending: the event is discarded.
DiscardUnknown(c) ==
    /\ pc = "idle"
    /\ IsNext(c) \/ IsEarly(c)
    /\ Matches(c) = {}
    /\ Consume(c)
    /\ discarded' = discarded \union {<<c.height, c.req>>}
    /\ UNCHANGED <<pending, chainVars, payloadCids, commitVars, taskVars>>

\* The next height: create its block, then drain what is confirmed above it.
TakeNext(c) ==
    /\ pc = "idle"
    /\ IsNext(c)
    /\ Matches(c) # {}
    /\ Consume(c)
    /\ Create(c, {p \in pending : p.height > c.height})
    /\ UNCHANGED <<pending, chainVars, payloadCids, discarded, commitVars>>

\* A later height: remember the entry to mark as confirmed.
TakeEarly(c) ==
    /\ pc = "idle"
    /\ IsEarly(c)
    /\ Consume(c)
    /\ \E p \in Matches(c) : work' = {p}
    /\ pc' = "saveRemove"
    /\ event' = c
    /\ UNCHANGED <<pending, chainVars, payloadCids, discarded, commitVars,
                   view, block, newCid>>

(***************************************************************************)
(* An early callback: save it, resubmit old entries, heal                  *)
(***************************************************************************)
\* save_event_data rewrites the entry with a ZREM and then a ZADD.
SaveRemove ==
    /\ pc = "saveRemove"
    /\ pending' = pending \ work
    /\ work' = {}
    /\ pc' = "saveAdd"
    /\ UNCHANGED <<chainVars, payloadCids, discarded, callbacks, commitVars,
                   faults, event, view, block, newCid>>

SaveAdd ==
    /\ pc = "saveAdd"
    /\ pending' = pending \union {[height |-> event.height, req |-> event.req,
                                   touched |-> Received, cid |-> event.cid]}
    /\ GoTo("scan")
    /\ UNCHANGED <<chainVars, payloadCids, discarded, callbacks, commitVars,
                   faults>>

\* Entries whose callback is overdue; the code keeps one of them per height.
Overdue(entries) ==
    {p \in entries : /\ p.touched = CallbackPending
                     /\ p.height + ResubmitAfter <= event.height}

OnePerHeight(chosen, entries) ==
    /\ chosen \subseteq entries
    /\ \A p \in entries : \E q \in chosen : q.height = p.height
    /\ \A p, q \in chosen : p.height = q.height => p = q

Scan ==
    /\ pc = "scan"
    /\ LET read == {p \in pending : /\ blockHeight < p.height
                                    /\ p.height <= event.height}
       IN /\ view' = read
          /\ \E chosen \in SUBSET Overdue(read) :
                /\ OnePerHeight(chosen, Overdue(read))
                /\ work' = chosen
    /\ pc' = "resubmit"
    /\ UNCHANGED <<pending, chainVars, payloadCids, discarded, callbacks,
                   commitVars, faults, event, block, newCid>>

\* The entries are handled in the order of their heights.
IsLowest(p, entries) == p \in entries /\ \A q \in entries : p.height <= q.height

PublishResubmission ==
    /\ pc = "resubmit"
    /\ \E p \in work :
          /\ IsLowest(p, work)
          /\ commitQueue' = commitQueue \union
                 {[height |-> p.height, cid |-> p.cid, block |-> event.height]}
    /\ GoTo("touchRemove")
    /\ UNCHANGED <<pending, chainVars, payloadCids, discarded, callbacks,
                   stage, issued, faults>>

TouchRemove ==
    /\ pc = "touchRemove"
    /\ \E p \in work : IsLowest(p, work) /\ pending' = pending \ {p}
    /\ GoTo("touchAdd")
    /\ UNCHANGED <<chainVars, payloadCids, discarded, callbacks, commitVars,
                   faults>>

TouchAdd ==
    /\ pc = "touchAdd"
    /\ \E p \in work :
          /\ IsLowest(p, work)
          /\ pending' = pending \union {[p EXCEPT !.touched = event.height]}
          /\ work' = work \ {p}
    /\ pc' = "resubmit"
    /\ UNCHANGED <<chainVars, payloadCids, discarded, callbacks, commitVars,
                   faults, event, view, block, newCid>>

(***************************************************************************)
(* Self healing, decided on the entries Scan read                          *)
(***************************************************************************)
ScanDone == pc = "resubmit" /\ work = {}
HealingIsDue == event.height > (blockHeight + HealAfter) - 1

\* (mutant) whatever is confirmed counts as next
ReadyEntriesAnywhere == {p \in Confirmed(view) : p.height > blockHeight}

ReadyEntries == {p \in Confirmed(view) : p.height = blockHeight + 1}

\* (mutant) only what is confirmed below the event counts
LaterBelowEvent ==
    {p \in Confirmed(view) :
        blockHeight + 1 < p.height /\ p.height < event.height}

LaterEntries == {p \in Confirmed(view) : p.height > blockHeight + 1}

\* Exactly one confirmed entry is next: its callback is simulated.
HealReady ==
    /\ ScanDone
    /\ HealingIsDue
    /\ \E p \in ReadyEntries :
          /\ ReadyEntries = {p}
          /\ block' = AsCallback(p)
    /\ pc' = "readyRead"
    /\ UNCHANGED <<pending, chainVars, payloadCids, discarded, callbacks,
                   commitVars, faults, event, view, work, newCid>>

ReadyRead ==
    /\ pc = "readyRead"
    /\ Create(block, {p \in pending : p.height > blockHeight})
    /\ UNCHANGED <<pending, chainVars, payloadCids, discarded, callbacks,
                   commitVars, faults>>

\* None is next and the consensus service can be asked for what is missing
\* below the first confirmed entry: its CID, or null on any other answer.
CanHealMissing ==
    UseConsensus /\ EpochKeys /\ ReadyEntries = {} /\ LaterEntries # {}

HealMissing ==
    /\ ScanDone
    /\ HealingIsDue
    /\ CanHealMissing
    /\ \E first \in LaterEntries :
          /\ IsLowest(first, LaterEntries)
          /\ \E answer \in [(blockHeight + 1)..(first.height - 1) -> PayloadCids] :
                work' = {[height |-> h, req |-> 0, touched |-> Received,
                          cid |-> answer[h]] :
                             h \in (blockHeight + 1)..(first.height - 1)}
    /\ pc' = "healClear"
    /\ UNCHANGED <<pending, chainVars, payloadCids, discarded, callbacks,
                   commitVars, faults, event, view, block, newCid>>

\* Nothing to heal, two confirmed entries at the next height, no consensus
\* service, no epoch keys, or nothing confirmed above: the callback ends here.
NoHealing ==
    /\ ScanDone
    /\ \/ ~HealingIsDue
       \/ \E p, q \in ReadyEntries : p # q
       \/ ReadyEntries = {} /\ ~CanHealMissing
    /\ EndTask
    /\ UNCHANGED <<pending, chainVars, payloadCids, discarded, callbacks,
                   commitVars, faults>>

\* The local CIDs of null heights leave payloadCids, then every answer joins.
HealClear ==
    /\ pc = "healClear"
    /\ payloadCids' = [h \in Heights |->
           IF \E p \in work : p.height = h /\ p.cid = "null"
           THEN {} ELSE payloadCids[h]]
    /\ GoTo("healFill")
    /\ UNCHANGED <<pending, chainVars, discarded, callbacks, commitVars, faults>>

HealFill ==
    /\ pc = "healFill"
    /\ payloadCids' = Scored(payloadCids, work)
    /\ \E p \in work : IsLowest(p, work) /\ block' = AsCallback(p)
    /\ pc' = "healPending"
    /\ UNCHANGED <<pending, chainVars, discarded, callbacks, commitVars, faults,
                   event, view, work, newCid>>

HealPending ==
    /\ pc = "healPending"
    /\ \E p \in work :
          /\ IsLowest(p, work)
          /\ pending' = pending \union {p}
          /\ work' = work \ {p}
          /\ pc' = IF work = {p} THEN "healRead" ELSE "healPending"
    /\ UNCHANGED <<chainVars, payloadCids, discarded, callbacks, commitVars,
                   faults, event, view, block, newCid>>

HealRead ==
    /\ pc = "healRead"
    /\ Create(block, {p \in pending : p.height > block.height})
    /\ UNCHANGED <<pending, chainVars, payloadCids, discarded, callbacks,
                   commitVars, faults>>

(***************************************************************************)
(* Creating the block at block.height                                      *)
(***************************************************************************)
PreviousCids == IF block.height = 1 THEN {} ELSE dagCids[block.height - 1]

LastSegments == {s \in segments : \A o \in segments : o.end <= s.end}

\* (mutant) a segment begins at the end of the one before it
BeginAtLastEnd == IF segments = {} THEN {1} ELSE {s.end : s \in LastSegments}

\* The segment before a boundary begins where the last one ended. Without a
\* CID for its last block the metadata is invalid and the task dies.
NextBegin == IF segments = {} THEN {1} ELSE {s.end + 1 : s \in LastSegments}

RecordSegment ==
    /\ pc = "segment"
    /\ \/ /\ PreviousCids = {}
          /\ EndTask
          /\ UNCHANGED segments
       \/ \E last \in PreviousCids, first \in NextBegin :
             /\ segments' = {s \in segments : s.end # block.height - 1} \union
                    {[begin |-> first, end |-> block.height - 1, cid |-> last]}
             /\ GoTo("put")
    /\ UNCHANGED <<pending, blockHeight, lastDagCid, dagCids, ipfs, payloadCids,
                   discarded, callbacks, commitVars, faults>>

\* (mutant) the boundary of a segment is ignored
NewBlockUnsegmented(last) ==
    [height |-> block.height, prev |-> last, root |-> NoCid,
     data |-> block.cid, stamp |-> block.req]

\* The block links to its predecessor by prevCid, at a boundary by prevRoot.
NewBlock(last) ==
    [height |-> block.height,
     prev |-> IF StartsSegment(block.height) THEN NoCid ELSE last,
     root |-> IF StartsSegment(block.height) THEN last ELSE NoCid,
     data |-> block.cid,
     stamp |-> block.req]

\* IPFS addresses by content: putting a block twice gives the same CID.
PutInIpfs(b) ==
    \/ \E i \in DOMAIN ipfs : ipfs[i] = b /\ newCid' = i /\ UNCHANGED ipfs
    \/ /\ \A i \in DOMAIN ipfs : ipfs[i] # b
       /\ ipfs' = Append(ipfs, b)
       /\ newCid' = Len(ipfs) + 1

PutDagBlock ==
    /\ pc = "put"
    /\ \E last \in IF PreviousCids = {} THEN {NoCid} ELSE PreviousCids :
          PutInIpfs(NewBlock(last))
    /\ pc' = "setHeight"
    /\ UNCHANGED <<pending, blockHeight, lastDagCid, dagCids, segments,
                   payloadCids, discarded, callbacks, commitVars, faults,
                   event, view, work, block>>

\* (mutant) off by one
SetBlockHeightTooFar ==
    /\ pc = "setHeight"
    /\ blockHeight' = block.height + 1
    /\ GoTo("setLast")
    /\ UNCHANGED <<pending, lastDagCid, dagCids, segments, ipfs, payloadCids,
                   discarded, callbacks, commitVars, faults>>

SetBlockHeight ==
    /\ pc = "setHeight"
    /\ blockHeight' = block.height
    /\ GoTo("setLast")
    /\ UNCHANGED <<pending, lastDagCid, dagCids, segments, ipfs, payloadCids,
                   discarded, callbacks, commitVars, faults>>

SetLastDagCid ==
    /\ pc = "setLast"
    /\ lastDagCid' = newCid
    /\ GoTo("addCid")
    /\ UNCHANGED <<pending, blockHeight, dagCids, segments, ipfs, payloadCids,
                   discarded, callbacks, commitVars, faults>>

AddDagCid ==
    /\ pc = "addCid"
    /\ dagCids' = [dagCids EXCEPT ![block.height] = @ \union {newCid}]
    /\ GoTo("clear")
    /\ UNCHANGED <<pending, blockHeight, lastDagCid, segments, ipfs,
                   payloadCids, discarded, callbacks, commitVars, faults>>

ClearPending ==
    /\ pc = "clear"
    /\ pending' = WithoutHeight(pending, block.height)
    /\ GoTo("drain")
    /\ UNCHANGED <<chainVars, payloadCids, discarded, callbacks, commitVars,
                   faults>>

\* (mutant) the drain never finds the next height
QueuedNever(height) == {p \in Confirmed(view) : p.height = height}

\* The queued confirmed entry right above the new block, in the list read
\* before the first block was created.
Queued(height) == {p \in Confirmed(view) : p.height = height + 1}

Drain ==
    /\ pc = "drain"
    /\ \/ \E p \in Queued(block.height) : Create(AsCallback(p), view)
       \/ Queued(block.height) = {} /\ EndTask
    /\ UNCHANGED <<pending, chainVars, payloadCids, discarded, callbacks,
                   commitVars, faults>>

(***************************************************************************)
(* The task dies: an exception that the lock wrapper logs and swallows, or *)
(* the process, whose callbacks are acknowledged before they are processed *)
(***************************************************************************)
TaskDies ==
    /\ pc \in FailAt
    /\ pc # "idle"
    /\ faults < MaxFaults
    /\ faults' = faults + 1
    /\ EndTask
    /\ UNCHANGED <<pending, chainVars, payloadCids, discarded, callbacks,
                   commitVars>>

(***************************************************************************)
(* Specification                                                           *)
(***************************************************************************)
Commit ==
    \/ \E h \in Heights : CommitSnapshot(h) \/ AddToPendingTxns(h)
    \/ \E m \in commitQueue : Resubmit(m)

Receive ==
    \E c \in callbacks :
        DiscardStale(c) \/ DiscardUnknown(c) \/ TakeNext(c) \/ TakeEarly(c)

HandleEarly ==
    \/ SaveRemove \/ SaveAdd \/ Scan
    \/ PublishResubmission \/ TouchRemove \/ TouchAdd

Heal ==
    \/ HealReady \/ ReadyRead \/ HealMissing \/ NoHealing
    \/ HealClear \/ HealFill \/ HealPending \/ HealRead

CreateBlock ==
    \/ RecordSegment \/ PutDagBlock \/ SetBlockHeight \/ SetLastDagCid
    \/ AddDagCid \/ ClearPending \/ Drain

Task == HandleEarly \/ Heal \/ CreateBlock

Next == Commit \/ Receive \/ Task \/ TaskDies

Spec == Init /\ [][Next]_vars

FairSpec == Spec /\ WF_vars(Commit) /\ WF_vars(Receive) /\ WF_vars(Task)

(***************************************************************************)
(* Properties                                                              *)
(***************************************************************************)
\* The heights whose CID is on record: the last one is still missing between
\* the SET of blockHeight and the ZADD of its CID (dag_utils.py 288-298).
Recorded ==
    IF pc \in {"setLast", "addCid"} THEN blockHeight - 1 ELSE blockHeight

\* Block c continues the chain that ends below height h.
Continues(c, h) ==
    /\ ipfs[c].height = h
    /\ IF h = 1 THEN ipfs[c].prev = NoCid /\ ipfs[c].root = NoCid
       ELSE IF StartsSegment(h)
       THEN ipfs[c].prev = NoCid /\ dagCids[h - 1] = {ipfs[c].root}
       ELSE ipfs[c].root = NoCid /\ dagCids[h - 1] = {ipfs[c].prev}

\* Every finalized height has exactly one CID, of a block made for that height
\* that links to the one recorded below it; no CID is on record above.
ChainIsLinked ==
    /\ \A h \in 1..Recorded :
           \E c \in DOMAIN ipfs : dagCids[h] = {c} /\ Continues(c, h)
    /\ \A h \in Heights : h > Recorded => dagCids[h] = {}

\* The finalized height moves one block at a time and never back, whichever
\* callback, healing or drained entry produced the block.
HeightAdvancesByOne == [][blockHeight' = blockHeight + 1]_blockHeight

\* A CID on record for a height is never replaced or joined by another, even
\* when tasks die anywhere and callbacks are repeated.
FinalizedIsFinal ==
    [][\A h \in Heights : dagCids[h] # {} => dagCids'[h] = dagCids[h]]_dagCids

\* The segments handed to archival cut the chain below the last boundary into
\* pieces without gap or overlap, each with the CID of its last block.
SegmentsTile ==
    /\ \A b \in 1..blockHeight : StartsSegment(b) =>
          \A h \in 1..(b - 1) :
             \E s \in segments :
                /\ s.begin <= h /\ h <= s.end
                /\ \A o \in segments : o.begin <= h /\ h <= o.end => o = s
    /\ \A s \in segments : dagCids[s.end] = {s.cid}

\* Between callbacks no confirmed entry is left at or below the next height:
\* what could be finalized has been, and nothing finalized lingers.
ConfirmedAreAhead ==
    pc = "idle" => \A p \in Confirmed(pending) : p.height > blockHeight + 1

\* payloadCids, the index the API and the verifier read, holds for a finalized
\* height nothing but the CID its block carries. The entry is missing only if a
\* snapshot with the same content has been committed for another height, which
\* then has it: a CID has one score.
PayloadIndexMatchesChain ==
    \A h \in 1..Recorded : \A c \in dagCids[h] :
        /\ payloadCids[h] \subseteq {ipfs[c].data}
        /\ \E g \in Heights :
              /\ ipfs[c].data \in payloadCids[g]
              /\ g = h \/ (stage[g] # "new" /\ LocalCid[g] = ipfs[c].data)

\* Has the scan read the entry that this callback has saved? A resubmission of
\* its height that is processed in between replaces the entry.
EventIsRead == \E p \in Confirmed(view) : p.height = event.height

\* When healing is due the callback does not end with the chain where it was,
\* unless its own entry has been replaced: nothing need be confirmed then, and
\* the code takes the first element of an empty list (dag_finalizer.py 503).
HealingMovesChain ==
    [][ScanDone /\ HealingIsDue /\ UseConsensus /\ EventIsRead => pc' # "idle"]_vars

\* Once every snapshot is committed and every callback delivered, the chain
\* reaches the last height and nothing stays pending.
EverythingIsFinalized ==
    <>[](blockHeight = MaxHeight /\ pending = {} /\ pc = "idle")

\* The chain a reader sees: the blocks on record, by height.
LinkKind(b) ==
    IF b.prev # NoCid THEN "prev" ELSE IF b.root # NoCid THEN "root" ELSE "none"
RecordedBlock(h) == ipfs[CHOOSE c \in dagCids[h] : TRUE]
VisibleChain ==
    [h \in 1..Recorded |->
        [data |-> RecordedBlock(h).data, link |-> LinkKind(RecordedBlock(h))]]

Chain == INSTANCE DagChain WITH chain <- VisibleChain, Payloads <- PayloadCids

\* The finalizer implements the append-only chain.
ImplementsChain == Chain!ChainSpec
=============================================================================
