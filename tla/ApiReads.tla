------------------------------- MODULE ApiReads -------------------------------
(***************************************************************************)
(* The read endpoints of the audit protocol API (main.py, retrieval_utils)  *)
(* against a chain that is finalized and pruned meanwhile: a request reads   *)
(* blockHeight, pruningStatus, the CIDs and the content in calls of their    *)
(* own. One request at a time is enough: requests write nothing that others *)
(* read.                                                                     *)
(***************************************************************************)
EXTENDS PruningArchival

CONSTANT Asked      \* bound: the requests that are made

Ops == {"payloads", "block", "data", "status"}

\* A range has a from_height, low, and a to_height.
ASSUME AskedAssumption ==
    Asked \subseteq
        {a \in [op : Ops, height : Heights, low : Heights] :
            IF a.op = "payloads" THEN a.low <= a.height ELSE a.low = a.height}

VARIABLES
    (* The snapshots on their way to the chain *)
    stage,          \* of each height: its status, and Cleared
    rewritten,      \* the height whose pending entry is out for an update; or 0
    cleared,        \* the height whose payload CID healing has removed; or 0
    empty,          \* the heights healed with a block without a payload
    (* IPFS *)
    outage,         \* does it fail to answer for the moment?
    (* The request *)
    req,            \* the request under way, with what it has read
    reply,          \* the last answer
    shown,          \* the status in it; or 0
    disturbed       \* has the request met what excuses its answer?

snapshotVars == <<stage, rewritten, cleared, empty>>
apiVars == <<req, reply, shown>>
vars == <<pruningVars, snapshotVars, outage, apiVars, disturbed>>

\* SNAPSHOT_STATUS_MAP, and the stage of a block whose pending entries are
\* removed.
CommitPending == 1
AckPending == 2
ConfirmationPending == 3
Confirmed == 4
Cleared == 5
Stages == CommitPending..Cleared

Reads == {"blockHeight", "pruningStatus", "cid", "content", "payloadCid",
          "pending"}

\* height is the one asked for, or the one a range has come down to, low its
\* from_height; hollow when a block of it could not be read; before is the stage
\* of height when a request for a status came.
Request ==
    [op : Ops, next : Reads, height : Heights, low : Heights,
     lastPruned : HeightsOrZero, hollow : BOOLEAN, before : Stages]

NoRequest == [op |-> "none"]

\* What a request is answered: an HTTP error, a pointer to the archive, the
\* content (not all of it when hollow), or a status.
Replies == {"none", "invalid", "notFound", "error", "archived", "requestId",
            "ok", "hollow", "status"}

TypeOK ==
    /\ PruningTypeOK
    /\ stage \in [Heights -> Stages]
    /\ rewritten \in HeightsOrZero /\ cleared \in HeightsOrZero
    /\ empty \in SUBSET Heights
    /\ outage \in BOOLEAN
    /\ req \in Request \union {NoRequest}
    /\ reply \in Replies
    /\ shown \in 0..Confirmed
    /\ disturbed \in BOOLEAN

Init ==
    /\ PruningInit
    /\ stage = [h \in Heights |-> IF h <= top THEN Cleared ELSE CommitPending]
    /\ rewritten = 0 /\ cleared = 0 /\ empty = {}
    /\ outage = FALSE
    /\ req = NoRequest
    /\ reply = "none" /\ shown = 0
    /\ disturbed = FALSE

(***************************************************************************)
(* Commit service and finalizer                                             *)
(***************************************************************************)
Progresses(h, s) == stage[h] = s /\ stage' = [stage EXCEPT ![h] = s + 1]

\* Heights are taken one after the other.
IsNext(h) == h = top + 1 /\ (top > 0 => stage[top] = Cleared)

\* A snapshot is indexed and gets its pending entry.
Advance(h) ==
    /\ IsNext(h)
    /\ Progresses(h, CommitPending) \/ Progresses(h, AckPending)
    /\ UNCHANGED <<pruningVars, rewritten, cleared, empty>>

\* The entry is touched or confirmed by removing it and adding it again.
TakeOut(h) ==
    /\ rewritten = 0 /\ cleared = 0
    /\ h = top + 1
    /\ stage[h] = ConfirmationPending
    /\ rewritten' = h
    /\ UNCHANGED <<pruningVars, stage, cleared, empty>>

PutBack ==
    /\ rewritten # 0
    /\ rewritten' = 0
    /\ UNCHANGED stage \/ Progresses(rewritten, ConfirmationPending)
    /\ UNCHANGED <<pruningVars, cleared, empty>>

\* A height without its callback is healed: without an answer of the consensus
\* service its payload CID makes way for null, in two calls, and then the height
\* gets a confirmed entry.
HealClear(h) ==
    /\ rewritten = 0 /\ cleared = 0
    /\ IsNext(h)
    /\ stage[h] \in {AckPending, ConfirmationPending}
    /\ cleared' = h
    /\ UNCHANGED <<pruningVars, stage, rewritten, empty>>

HealFill ==
    /\ cleared # 0
    /\ cleared' = 0
    /\ UNCHANGED <<pruningVars, stage, rewritten, empty>>

HealPending(h) ==
    /\ rewritten = 0 /\ cleared = 0
    /\ IsNext(h)
    /\ stage[h] \in {AckPending, ConfirmationPending}
    /\ stage' = [stage EXCEPT ![h] = Confirmed]
    /\ \E isNull \in BOOLEAN :
          empty' = IF isNull THEN empty \union {h} ELSE empty
    /\ UNCHANGED <<pruningVars, rewritten, cleared>>

FinalizeNext ==
    /\ top < MaxHeight
    /\ stage[top + 1] = Confirmed
    /\ SetHeight
    /\ UNCHANGED snapshotVars

RecordCid == AddCid /\ UNCHANGED snapshotVars

ClearPending ==
    /\ top > 0 /\ recorded = top
    /\ Progresses(top, Confirmed)
    /\ UNCHANGED <<pruningVars, rewritten, cleared, empty>>

(***************************************************************************)
(* Requests                                                                 *)
(***************************************************************************)
IsReading(key) == req # NoRequest /\ req.next = key

Answers(r) == reply' = r /\ shown' = 0 /\ req' = NoRequest

Shows(s) == reply' = "status" /\ shown' = s /\ req' = NoRequest

GoesOn(r) == req' = r /\ UNCHANGED <<reply, shown>>

\* The project exists. A range without a to_height is one whose to_height is
\* the blockHeight it reads.
Arrive ==
    /\ req = NoRequest
    /\ \E a \in Asked :
          req' = [op |-> a.op, next |-> "blockHeight",
                  height |-> a.height, low |-> a.low,
                  lastPruned |-> 0, hollow |-> FALSE,
                  before |-> IF a.op = "status" THEN stage[a.height] ELSE Cleared]
    /\ reply' = "none" /\ shown' = 0

\* A height above blockHeight has a status all the same.
ReadBlockHeight ==
    /\ IsReading("blockHeight")
    /\ IF req.op = "status"
       THEN GoesOn([req EXCEPT !.next =
                       IF req.height > top THEN "payloadCid" ELSE "cid"])
       ELSE IF req.height > top THEN Answers("invalid")
       ELSE GoesOn([req EXCEPT !.next = "pruningStatus"])

\* (mutant) the point reads take a height below the segment for pruned
IsArchivedAbove(p) == req.low <= p + 1

\* (mutant) the comparison of the point reads for a range as well
IsArchivedStrict(p) == req.low < p

\* The last pruned height itself is archived for a range only.
IsArchived(p) == IF req.op = "payloads" THEN req.low <= p ELSE req.height < p

\* A point read is put on the list of retrieval requests, which nobody reads.
ReadPruningStatus ==
    /\ IsReading("pruningStatus")
    /\ IF IsArchived(lastPruned)
       THEN Answers(IF req.op = "payloads" THEN "archived" ELSE "requestId")
       ELSE GoesOn([req EXCEPT !.next = "cid", !.lastPruned = lastPruned])

HasCid(h) == h \in (cidsLow + 1)..recorded

\* A status without a CID is not found; a block without one raises.
ReadCid ==
    /\ IsReading("cid")
    /\ IF HasCid(req.height) THEN GoesOn([req EXCEPT !.next = "content"])
       ELSE Answers(IF req.op = "status" THEN "notFound" ELSE "error")

IsGone(h) ==
    \E i \in uncached \intersect collected : h \in Begin(i)..End(i)

\* One block of a range, from to_height down to from_height.
NextBlock(isHollow) ==
    IF req.op = "payloads" /\ req.height > req.low
    THEN GoesOn([req EXCEPT !.next = "cid", !.height = @ - 1, !.hollow = isHollow])
    ELSE Answers(IF isHollow THEN "hollow" ELSE "ok")

\* The status of a block without a payload looks for the CID of it and raises.
ReadContent ==
    /\ IsReading("content")
    /\ ~ IsGone(req.height)
    /\ IF req.op # "status" THEN NextBlock(req.hollow)
       ELSE IF req.height \in empty THEN Answers("error")
       ELSE Shows(Confirmed)

\* get_dag_block returns an empty object when IPFS has no answer, which is itself
\* answered as a block; the status looks for a payload CID in it and raises. When
\* the payload alone cannot be read the request fails.
ReadNothing ==
    /\ IsReading("content")
    /\ IsGone(req.height) \/ outage
    /\ \/ req.op # "status" /\ NextBlock(TRUE)
       \/ /\ req.op = "status" \/ (req.op # "block" /\ req.height \notin empty)
          /\ Answers("error")

ReadPayloadCid ==
    /\ IsReading("payloadCid")
    /\ IF stage[req.height] = CommitPending \/ cleared = req.height
       THEN Shows(CommitPending)
       ELSE GoesOn([req EXCEPT !.next = "pending"])

\* (mutant) a height that has been indexed waits for its confirmation
StatusOfIndexed(h) ==
    IF stage[h] = Confirmed THEN Confirmed ELSE ConfirmationPending

\* Of the pending entries at h.
StatusOf(h) ==
    IF stage[h] \in {ConfirmationPending, Confirmed} /\ rewritten # h
    THEN stage[h] ELSE AckPending

ReadPending ==
    /\ IsReading("pending")
    /\ Shows(StatusOf(req.height))

Serve ==
    \/ Arrive
    \/ ReadBlockHeight \/ ReadPruningStatus
    \/ ReadCid \/ ReadContent \/ ReadNothing
    \/ ReadPayloadCid \/ ReadPending

Chain ==
    \/ PruningNext /\ UNCHANGED snapshotVars
    \/ \E h \in Heights :
          Advance(h) \/ TakeOut(h) \/ HealClear(h) \/ HealPending(h)
    \/ PutBack \/ HealFill \/ FinalizeNext \/ RecordCid \/ ClearPending

\* Bound: an outage begins when a request is about to read from IPFS, and lasts
\* for one read.
Outage ==
    /\ IsReading("content")
    /\ outage' = TRUE
    /\ UNCHANGED <<pruningVars, snapshotVars, apiVars>>

\* For a status: its entries are rewritten, or its block finalized. For content: a
\* block is being recorded, or a segment pruned. For both: content that is gone.
IsDisturbing ==
    /\ req # NoRequest
    /\ \/ IsGone(req.height)
       \/ IF req.op = "status"
          THEN \/ rewritten = req.height \/ cleared = req.height
               \/ req.before # Cleared /\ stage[req.height] = Cleared
          ELSE recorded < top \/ lastPruned < cidsLow

\* The CIDs of a segment are removed, be it one that was recorded as pruned
\* before, in a cycle that failed to remove them.
IsPruning == req # NoRequest /\ req.op # "status" /\ cidsLow' # cidsLow

Disturbs == disturbed' = (disturbed \/ IsPruning \/ IsDisturbing')

Next ==
    /\ \/ Serve /\ outage' = FALSE /\ UNCHANGED <<pruningVars, snapshotVars>>
       \/ Chain /\ UNCHANGED <<apiVars, outage>>
       \/ Outage
    /\ IF req' = NoRequest THEN disturbed' = FALSE ELSE Disturbs

Spec == Init /\ [][Next]_vars

FairSpec ==
    Spec /\ WF_vars(ProcessProject /\ UNCHANGED <<snapshotVars, outage, apiVars>>
                    /\ Disturbs)

(***************************************************************************)
(* Properties                                                               *)
(***************************************************************************)
\* With archival, whoever is told that a block is archived finds it in cold
\* storage (get_payloads, get_block, get_block_data).
ArchivedIsRecoverable ==
    [][archiving /\ req # NoRequest /\ req' = NoRequest
       /\ reply' \in {"archived", "requestId"}
          => \A i \in Segments : req.low \in Begin(i)..End(i) => i \in uploaded]_apiVars

\* Why a request for an accepted height may fail without a change meanwhile: the
\* last pruned height, which get_block and get_block_data take for stored; the
\* status of a block without a payload; IPFS not answering.
IsExempt ==
    \/ req.op \in {"block", "data"} /\ req.height = req.lastPruned
    \/ req.op = "status" /\ req.height \in empty
    \/ req.next = "content" /\ outage

\* Beyond that a request fails only if a block was being recorded or a segment
\* pruned since it came: what pruningStatus and blockHeight promise is there.
ErrorsOnlyInTransition ==
    [][req # NoRequest /\ reply' = "error" /\ req' = NoRequest
          => disturbed \/ IsExempt]_apiVars

\* A status is never better than the block, and worse than it was when the
\* request came only if the entry was rewritten or the block finalized since
\* (retrieve_block_status reads blockHeight before the pending entries).
StatusIsHonest ==
    [][req # NoRequest /\ req' = NoRequest /\ reply' = "status" =>
          /\ shown' <= stage[req.height]
          /\ shown' < req.before => disturbed \/ req.before = Cleared
          /\ req.before = Cleared => shown' = Confirmed]_apiVars
=============================================================================
