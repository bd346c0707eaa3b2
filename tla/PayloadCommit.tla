----------------------------- MODULE PayloadCommit -----------------------------
(***************************************************************************)
(* The payload commit service (go/payload-commit) for one project: several *)
(* goroutines take commits from RabbitMQ, give each a tentative height,    *)
(* index its CID, anchor it or wait for consensus, add it to the pending   *)
(* transactions and post the finalizer callback; one more goroutine polls  *)
(* the consensus service.                                                  *)
(*                                                                         *)
(* Three times the service makes two calls that belong together and holds  *)
(* no lock across them. History variables keep the commits whose           *)
(* goroutines met there; they change nothing the service does, and the     *)
(* properties that such a meeting can break say so.                        *)
(*                                                                         *)
(* pc[p] is what goroutine p does next. A label stands before every call   *)
(* to Redis, to another service, or to memory that goroutines share.       *)
(***************************************************************************)
EXTENDS Integers, FiniteSets

CONSTANTS
    Workers,        \* the goroutines that take messages (Concurrency)
    Poller,         \* the goroutine of PollConsensusForConfirmations
    Commits,        \* the commits accepted by /commit_payload
    Begin, End,     \* epoch of a commit; End 0: not ordered by the source chain
    Cids,           \* the CIDs a snapshot can have
    Content,        \* the CID of the payload of a commit
    NoCommit, NoCid,
    Anchored,       \* the commits without skipAnchorProof
    KnownSize,      \* epochSize and firstEpochEndHeight at the start,
    KnownFirst,     \*   0 when the project has no epoch yet
    UseConsensus,   \* settings.UseConsensus
    Statuses,       \* what the consensus service may answer to a submission
    MayResubmit,    \* does the finalizer resubmit overdue entries?
    MaxFaults,      \* bound: failed calls, expired waits and crashes, together
    FailAt          \* the labels of pc whose call may fail; "crash" if the
                    \*   process may die at any point

ASSUME GoroutinesAreDistinct == Poller \notin Workers

ASSUME EpochsAreBlockRanges ==
    /\ Begin \in [Commits -> Nat]
    /\ End \in [Commits -> Nat]
    /\ \A c \in Commits : Begin[c] <= End[c]

ASSUME KeysAreNaturals == KnownSize \in Nat /\ KnownFirst \in Nat

ASSUME ContentHasCid ==
    /\ Content \in [Commits -> Cids]
    /\ NoCid \notin Cids
    /\ NoCommit \notin Commits

ASSUME CommitSettings ==
    /\ Anchored \subseteq Commits
    /\ UseConsensus \in BOOLEAN
    /\ MayResubmit \in BOOLEAN
    /\ MaxFaults \in Nat

Goroutines == Workers \union {Poller}

Failed == -1        \* FetchIntFieldFromRedis when it gives up

\* A message of commit-payloads, and the PayloadCommit a goroutine works on:
\* touched is 1 for a resubmission, req the request ID of the tx manager.
Job == [commit : Commits, height : Int, cid : Cids \union {NoCid},
        touched : {0, 1}, req : Nat]
NoJob == [commit |-> NoCommit, height |-> 0, cid |-> NoCid, touched |-> 0,
          req |-> 0]

\* A member of pendingTransactions with its score; touched 0 is CallbackPending.
PendingEntry == [commit : Commits, height : Int, cid : Cids, req : Nat,
                 touched : {0, 1}]

\* A finalizer callback, posted by the service or by the tx manager, and what
\* the tx manager was asked to anchor under the request ID it gave.
Callback == [commit : Commits, height : Int, cid : Cids, req : Nat]

VARIABLES
    (* Redis keys of the project *)
    epochSize,              \* epochSize, 0 when the key does not exist
    firstEpochEndHeight,    \* firstEpochEndHeight, likewise
    tentativeBlockHeight,   \* tentativeBlockHeight, likewise
    payloadCids,            \* payloadCids zset: CID -> score, 0 if no member
    pending,                \* pendingTransactions zset
    (* RabbitMQ and the other services *)
    queue,                  \* messages not yet taken
    finalizedCid,           \* what consensus settled on for an epoch
    txs,                    \* transactions the tx manager accepted
    callbacks,              \* callbacks on their way to the finalizer
    (* Memory of the process *)
    waitQueue,              \* the value of WaitQueueForConsensus[projectId]
    params,                 \* commonTxReqParams.Params, shared by goroutines
    pc, job, size,          \* per goroutine: label, payloadCommit, epochSize
    issued,                 \* request IDs issued so far
    faults,
    (* (history) The commits whose goroutines stood together where the service *)
    (* makes two calls that belong together, and holds no lock                 *)
    metAtEpoch,             \* each found the project without an epoch
    metAtCounter,           \* each read the counter of a summary project
    metAtParams             \* each filled in the shared request parameters

epochVars == <<epochSize, firstEpochEndHeight>>
indexVars == <<tentativeBlockHeight, payloadCids>>
outVars == <<txs, callbacks, issued>>
sharedVars == <<waitQueue, params>>
localVars == <<pc, job, size>>
meetings == <<metAtEpoch, metAtCounter, metAtParams>>
vars == <<epochVars, indexVars, pending, queue, finalizedCid, outVars,
          sharedVars, localVars, faults, meetings>>

Epochs == {End[c] : c \in Commits}

HeightLabels == {"readHeight", "readSize", "setSize", "setFirst", "readFirst"}
StoredLabels == {"setHeight", "params", "send", "propose", "check",
                 "pendRemove", "pendAdd", "post"}
Labels == {"idle", "index"} \union HeightLabels \union StoredLabels

TypeOK ==
    /\ epochSize \in Nat /\ firstEpochEndHeight \in Nat
    /\ tentativeBlockHeight \in Nat
    /\ payloadCids \in [Cids -> Int]
    /\ pending \in SUBSET PendingEntry
    /\ \A p \in pending : p.height # 0
    /\ queue \in SUBSET Job
    /\ finalizedCid \in [Epochs -> Cids \union {NoCid}]
    /\ txs \in SUBSET Callback
    /\ callbacks \in SUBSET Callback
    /\ waitQueue \in Job \union {NoJob}
    /\ params \in Job \union {NoJob}
    /\ pc \in [Goroutines -> Labels]
    /\ job \in [Goroutines -> Job \union {NoJob}]
    /\ size \in [Goroutines -> Int]
    /\ issued \in Nat
    /\ faults \in Nat
    /\ metAtEpoch \in SUBSET Commits
    /\ metAtCounter \in SUBSET Commits
    /\ metAtParams \in SUBSET Commits
    /\ \A p \in Goroutines :
          /\ pc[p] # "idle" => job[p] \in Job
          /\ pc[p] \in StoredLabels => job[p].cid \in Cids /\ job[p].height # 0
          /\ pc[p] = "index" => job[p].height # 0

Init ==
    /\ epochSize = KnownSize
    /\ firstEpochEndHeight = KnownFirst
    /\ tentativeBlockHeight = 0
    /\ payloadCids = [cid \in Cids |-> 0]
    /\ pending = {}
    /\ queue = {[NoJob EXCEPT !.commit = c] : c \in Commits}
    /\ finalizedCid = [e \in Epochs |-> NoCid]
    /\ txs = {}
    /\ callbacks = {}
    /\ waitQueue = NoJob
    /\ params = NoJob
    /\ pc = [p \in Goroutines |-> "idle"]
    /\ job = [p \in Goroutines |-> NoJob]
    /\ size = [p \in Goroutines |-> 0]
    /\ issued = 0
    /\ faults = 0
    /\ metAtEpoch = {} /\ metAtCounter = {} /\ metAtParams = {}

(***************************************************************************)
(* Helpers                                                                 *)
(***************************************************************************)
GoTo(p, label) == pc' = [pc EXCEPT ![p] = label]

\* The goroutine returns from its handler.
Return(p) ==
    /\ GoTo(p, "idle")
    /\ job' = [job EXCEPT ![p] = NoJob]
    /\ size' = [size EXCEPT ![p] = 0]

\* The call at this label fails for good.
Fails(p, label) ==
    /\ pc[p] = label
    /\ label \in FailAt
    /\ faults < MaxFaults
    /\ faults' = faults + 1

\* Where a goroutine stands between the two calls.
EpochCalls == {"setSize", "setFirst"}
CounterCalls == {"index", "setHeight"}
ParamsCalls == {"send"}

\* The commits that meet when w goes to one of the labels L.
Meeting(w, L) ==
    LET others == {v \in Workers \ {w} : pc[v] \in L}
    IN IF others = {} THEN {} ELSE {job[v].commit : v \in others \union {w}}

IsOrdered(c) == Begin[c] # 0 /\ End[c] # 0
EpochLength(c) == End[c] - Begin[c] + 1

\* Integer division of Go: it truncates towards zero.
Quotient(a, b) ==
    LET q == (IF a < 0 THEN -a ELSE a) \div (IF b < 0 THEN -b ELSE b)
    IN IF (a < 0) = (b < 0) THEN q ELSE -q

\* (mutant) the height of an epoch is counted from zero
HeightFromZero(end, first, s) == Quotient(end - first, s)

\* (mutant) the size of an epoch is taken as the distance of its ends
HeightOfShortEpochs(end, first, s) == Quotient(end - first, s + 1) + 1

\* The tentative height of the epoch that ends at end.
HeightOf(end, first, s) == Quotient(end - first, s) + 1

\* Where the handler goes once the snapshot is stored.
WaitsForConsensus(j) == UseConsensus /\ IsOrdered(j.commit) /\ j.touched = 0
AfterStored(j) ==
    IF j.commit \in Anchored THEN "params"
    ELSE IF WaitsForConsensus(j) THEN "propose"
    ELSE IF j.touched = 1 THEN "pendRemove" ELSE "pendAdd"

(***************************************************************************)
(* Taking a message and giving it a tentative height                       *)
(***************************************************************************)
\* The message is acknowledged before it is handled.
Take(w) ==
    /\ pc[w] = "idle"
    /\ \E m \in queue :
          /\ queue' = queue \ {m}
          /\ job' = [job EXCEPT ![w] = m]
          /\ GoTo(w, IF m.touched = 1 THEN AfterStored(m)
                     ELSE IF IsOrdered(m.commit) THEN "readSize"
                     ELSE "readHeight")
    /\ UNCHANGED <<epochVars, indexVars, pending, finalizedCid, outVars,
                   sharedVars, size, faults, meetings>>

\* A summary project: the height after the last one.
ReadHeight(w) ==
    /\ pc[w] = "readHeight"
    /\ job' = [job EXCEPT ![w].height = tentativeBlockHeight + 1]
    /\ GoTo(w, "index")
    /\ metAtCounter' = metAtCounter \union Meeting(w, CounterCalls)
    /\ UNCHANGED <<epochVars, indexVars, pending, queue, finalizedCid, outVars,
                   sharedVars, size, faults, metAtEpoch, metAtParams>>

\* (mutant) the epoch is recorded again although its size is known
ReadSizeAlwaysFirst(w) ==
    /\ pc[w] = "readSize"
    /\ GoTo(w, "setSize")
    /\ size' = [size EXCEPT ![w] = EpochLength(job[w].commit)]
    /\ metAtEpoch' = metAtEpoch \union Meeting(w, EpochCalls)
    /\ UNCHANGED <<epochVars, indexVars, pending, queue, finalizedCid, outVars,
                   sharedVars, job, faults, metAtCounter, metAtParams>>

ReadSize(w) ==
    /\ pc[w] = "readSize"
    /\ \/ /\ epochSize = 0
          /\ GoTo(w, "setSize")
          /\ size' = [size EXCEPT ![w] = EpochLength(job[w].commit)]
          /\ metAtEpoch' = metAtEpoch \union Meeting(w, EpochCalls)
       \/ /\ epochSize # 0
          /\ GoTo(w, "readFirst")
          /\ size' = [size EXCEPT ![w] = epochSize]
          /\ UNCHANGED metAtEpoch
    /\ UNCHANGED <<epochVars, indexVars, pending, queue, finalizedCid, outVars,
                   sharedVars, job, faults, metAtCounter, metAtParams>>

SetSize(w) ==
    /\ pc[w] = "setSize"
    /\ epochSize' = size[w]
    /\ GoTo(w, "setFirst")
    /\ UNCHANGED <<firstEpochEndHeight, indexVars, pending, queue, finalizedCid,
                   outVars, sharedVars, job, size, faults, meetings>>

SetFirst(w) ==
    /\ pc[w] = "setFirst"
    /\ firstEpochEndHeight' = End[job[w].commit]
    /\ GoTo(w, "readFirst")
    /\ UNCHANGED <<epochSize, indexVars, pending, queue, finalizedCid, outVars,
                   sharedVars, job, size, faults, meetings>>

\* (mutant) height 0 no longer stands for "no height"
AssignHeightUnchecked(w, first) ==
    \/ first = 0 /\ Return(w)
    \/ /\ first # 0
       /\ job' = [job EXCEPT ![w].height =
                     HeightOf(End[job[w].commit], first, size[w])]
       /\ GoTo(w, "index")
       /\ UNCHANGED size

\* (mutant) snapshots of the first epoch are ignored like older ones
AssignHeightAboveFirst(w, first) ==
    LET h == HeightOf(End[job[w].commit], first, size[w])
    IN \/ (first = 0 \/ h <= 1) /\ Return(w)
       \/ /\ first # 0 /\ h > 1
          /\ job' = [job EXCEPT ![w].height = h]
          /\ GoTo(w, "index")
          /\ UNCHANGED size

\* Without a first epoch, or at height 0, the snapshot is dropped.
AssignHeight(w, first) ==
    LET h == HeightOf(End[job[w].commit], first, size[w])
    IN \/ (first = 0 \/ h = 0) /\ Return(w)
       \/ /\ first # 0 /\ h # 0
          /\ job' = [job EXCEPT ![w].height = h]
          /\ GoTo(w, "index")
          /\ UNCHANGED size

ReadFirst(w) ==
    /\ pc[w] = "readFirst"
    /\ AssignHeight(w, firstEpochEndHeight)
    /\ UNCHANGED <<epochVars, indexVars, pending, queue, finalizedCid, outVars,
                   sharedVars, faults, meetings>>

\* A read that gives up returns Failed. Only the height of a summary project
\* is checked for it; the epoch keys are used as if they were read.
ReadFails(w) ==
    /\ \/ Fails(w, "readHeight") /\ Return(w)
       \/ /\ Fails(w, "readSize")
          /\ size' = [size EXCEPT ![w] = Failed]
          /\ GoTo(w, "readFirst")
          /\ UNCHANGED job
       \/ Fails(w, "readFirst") /\ AssignHeight(w, Failed)
    /\ UNCHANGED <<epochVars, indexVars, pending, queue, finalizedCid, outVars,
                   sharedVars, meetings>>

(***************************************************************************)
(* Storing the snapshot                                                    *)
(***************************************************************************)
\* (mutant) the CID does not get into payloadCids
IndexNowhere(w) ==
    /\ pc[w] = "index"
    /\ job' = [job EXCEPT ![w].cid = Content[job[w].commit]]
    /\ GoTo(w, IF IsOrdered(job[w].commit) THEN AfterStored(job'[w])
               ELSE "setHeight")
    /\ UNCHANGED <<epochVars, indexVars, pending, queue, finalizedCid, outVars,
                   sharedVars, size, faults, meetings>>

\* Upload to IPFS and ZADD; a CID that is indexed already changes its score.
Index(w) ==
    /\ pc[w] = "index"
    /\ LET cid == Content[job[w].commit]
       IN /\ payloadCids' = [payloadCids EXCEPT ![cid] = job[w].height]
          /\ job' = [job EXCEPT ![w].cid = cid]
    /\ GoTo(w, IF IsOrdered(job[w].commit) THEN AfterStored(job[w])
               ELSE "setHeight")
    /\ UNCHANGED <<epochVars, tentativeBlockHeight, pending, queue,
                   finalizedCid, outVars, sharedVars, size, faults, meetings>>

\* (mutant) the new height of a summary project is not written back
SetHeightNever(w) ==
    /\ pc[w] = "setHeight"
    /\ GoTo(w, AfterStored(job[w]))
    /\ UNCHANGED <<epochVars, indexVars, pending, queue, finalizedCid, outVars,
                   sharedVars, job, size, faults, meetings>>

SetHeight(w) ==
    /\ pc[w] = "setHeight"
    /\ tentativeBlockHeight' = job[w].height
    /\ GoTo(w, AfterStored(job[w]))
    /\ UNCHANGED <<epochVars, payloadCids, pending, queue, finalizedCid,
                   outVars, sharedVars, job, size, faults, meetings>>

(***************************************************************************)
(* Anchoring: the request goes through a variable all goroutines share     *)
(***************************************************************************)
\* (mutant) the parameters are only filled in the first time
SetParamsOnce(w) ==
    /\ pc[w] = "params"
    /\ params' = IF params = NoJob THEN job[w] ELSE params
    /\ GoTo(w, "send")
    /\ metAtParams' = metAtParams \union Meeting(w, ParamsCalls)
    /\ UNCHANGED <<epochVars, indexVars, pending, queue, finalizedCid, outVars,
                   waitQueue, job, size, faults, metAtEpoch, metAtCounter>>

SetParams(w) ==
    /\ pc[w] = "params"
    /\ params' = job[w]
    /\ GoTo(w, "send")
    /\ metAtParams' = metAtParams \union Meeting(w, ParamsCalls)
    /\ UNCHANGED <<epochVars, indexVars, pending, queue, finalizedCid, outVars,
                   waitQueue, job, size, faults, metAtEpoch, metAtCounter>>

ToPending(w) ==
    GoTo(w, IF job[w].touched = 1 THEN "pendRemove" ELSE "pendAdd")

\* The tx manager accepts what params holds now, under a fresh request ID.
Accepted ==
    /\ issued' = issued + 1
    /\ txs' = txs \union {[commit |-> params.commit, height |-> params.height,
                           cid |-> params.cid, req |-> issued']}

Send(w) ==
    /\ pc[w] = "send"
    /\ Accepted
    /\ job' = [job EXCEPT ![w].req = issued']
    /\ ToPending(w)
    /\ UNCHANGED <<epochVars, indexVars, pending, queue, finalizedCid,
                   callbacks, sharedVars, size, faults, meetings>>

\* The request or its response is lost: try again, or give up and go on with
\* an empty request ID.
SendFails(w) ==
    /\ Fails(w, "send")
    /\ Accepted \/ UNCHANGED <<issued, txs>>
    /\ job' = [job EXCEPT ![w].req = 0]
    /\ GoTo(w, "params") \/ ToPending(w)
    /\ UNCHANGED <<epochVars, indexVars, pending, queue, finalizedCid,
                   callbacks, sharedVars, size, meetings>>

\* The transaction is mined and the tx manager calls the finalizer.
TxConfirmed(t) ==
    /\ t \in txs \ callbacks
    /\ callbacks' = callbacks \union {t}
    /\ UNCHANGED <<epochVars, indexVars, pending, queue, finalizedCid, txs,
                   issued, sharedVars, localVars, faults, meetings>>

(***************************************************************************)
(* Consensus                                                               *)
(***************************************************************************)
EpochOf(j) == End[j.commit]
IsFinalized(j) == finalizedCid[EpochOf(j)] # NoCid

\* The consensus service settles on one snapshot of an epoch.
Settle ==
    /\ UseConsensus
    /\ \E e \in Epochs, cid \in Cids :
          /\ finalizedCid[e] = NoCid
          /\ finalizedCid' = [finalizedCid EXCEPT ![e] = cid]
    /\ UNCHANGED <<epochVars, indexVars, pending, queue, outVars, sharedVars,
                   localVars, faults, meetings>>

\* The snapshot is accepted: it waits, in place of any other of the project.
ProposeAccepted(w) ==
    /\ pc[w] = "propose"
    /\ "ACCEPTED" \in Statuses
    /\ ~IsFinalized(job[w])
    /\ waitQueue' = job[w]
    /\ Return(w)
    /\ UNCHANGED <<epochVars, indexVars, pending, queue, finalizedCid, outVars,
                   params, faults, meetings>>

\* (mutant) the local CID is queued although consensus chose another
ProposeFinalizedLocal(w) ==
    /\ pc[w] = "propose"
    /\ "FINALIZED" \in Statuses
    /\ IsFinalized(job[w])
    /\ GoTo(w, "pendAdd")
    /\ UNCHANGED <<epochVars, indexVars, pending, queue, finalizedCid, outVars,
                   sharedVars, job, size, faults, meetings>>

\* The epoch is settled already: its CID takes the place of the local one.
ProposeFinalized(w) ==
    /\ pc[w] = "propose"
    /\ "FINALIZED" \in Statuses
    /\ IsFinalized(job[w])
    /\ job' = [job EXCEPT ![w].cid = finalizedCid[EpochOf(job[w])]]
    /\ GoTo(w, "pendAdd")
    /\ UNCHANGED <<epochVars, indexVars, pending, queue, finalizedCid, outVars,
                   sharedVars, size, faults, meetings>>

\* Any other answer is taken for consent: the local CID is queued.
ProposeOther(w) ==
    /\ pc[w] = "propose"
    /\ Statuses \ {"ACCEPTED", "FINALIZED"} # {}
    /\ ~IsFinalized(job[w])
    /\ GoTo(w, "pendAdd")
    /\ UNCHANGED <<epochVars, indexVars, pending, queue, finalizedCid, outVars,
                   sharedVars, job, size, faults, meetings>>

\* The poller reads the entry of the wait queue; workers may replace it
\* before the poller removes whatever is there by then.
PollRead ==
    /\ pc[Poller] = "idle"
    /\ waitQueue # NoJob
    /\ job' = [job EXCEPT ![Poller] = waitQueue]
    /\ GoTo(Poller, "check")
    /\ UNCHANGED <<epochVars, indexVars, pending, queue, finalizedCid, outVars,
                   sharedVars, size, faults, meetings>>

\* The entry has waited for too long: it is dropped.
PollExpired ==
    /\ Fails(Poller, "check")
    /\ waitQueue' = NoJob
    /\ Return(Poller)
    /\ UNCHANGED <<epochVars, indexVars, pending, queue, finalizedCid, outVars,
                   params, meetings>>

PollNotYet ==
    /\ pc[Poller] = "check"
    /\ ~IsFinalized(job[Poller])
    /\ Return(Poller)
    /\ UNCHANGED <<epochVars, indexVars, pending, queue, finalizedCid, outVars,
                   sharedVars, faults, meetings>>

PollFinalized ==
    /\ pc[Poller] = "check"
    /\ IsFinalized(job[Poller])
    /\ waitQueue' = NoJob
    /\ job' = [job EXCEPT ![Poller].cid = finalizedCid[EpochOf(job[Poller])]]
    /\ GoTo(Poller, "pendAdd")
    /\ UNCHANGED <<epochVars, indexVars, pending, queue, finalizedCid, outVars,
                   params, size, faults, meetings>>

(***************************************************************************)
(* The pending entry and the finalizer callback                            *)
(***************************************************************************)
\* (mutant) a resubmission removes the entries up to its height
PendRemoveUpTo(p) ==
    /\ pc[p] = "pendRemove"
    /\ pending' = {e \in pending : e.height > job[p].height}
    /\ GoTo(p, "pendAdd")
    /\ UNCHANGED <<epochVars, indexVars, queue, finalizedCid, outVars,
                   sharedVars, job, size, faults, meetings>>

\* A resubmission first removes what is pending at its height.
PendRemove(p) ==
    /\ pc[p] = "pendRemove"
    /\ pending' = {e \in pending : e.height # job[p].height}
    /\ GoTo(p, "pendAdd")
    /\ UNCHANGED <<epochVars, indexVars, queue, finalizedCid, outVars,
                   sharedVars, job, size, faults, meetings>>

AsCallback(e) == [commit |-> e.commit, height |-> e.height, cid |-> e.cid,
                  req |-> e.req]

\* Without an anchor the request ID is a fresh uuid (it is drawn earlier in
\* the code, where nobody sees it yet), and the callback is up to the service.
PendAdd(p) ==
    /\ pc[p] = "pendAdd"
    /\ LET j == job[p]
           r == IF j.commit \in Anchored THEN j.req ELSE issued + 1
       IN /\ pending' = pending \union
                {[commit |-> j.commit, height |-> j.height, cid |-> j.cid,
                  req |-> r, touched |-> j.touched]}
          /\ \/ j.commit \in Anchored /\ Return(p) /\ UNCHANGED issued
             \/ /\ j.commit \notin Anchored
                /\ issued' = r
                /\ job' = [job EXCEPT ![p].req = r]
                /\ GoTo(p, "post")
                /\ UNCHANGED size
    /\ UNCHANGED <<epochVars, indexVars, queue, finalizedCid, txs, callbacks,
                   sharedVars, faults, meetings>>

Post(p) ==
    /\ pc[p] = "post"
    /\ callbacks' = callbacks \union {AsCallback(job[p])}
    /\ Return(p)
    /\ UNCHANGED <<epochVars, indexVars, pending, queue, finalizedCid, txs,
                   issued, sharedVars, faults, meetings>>

(***************************************************************************)
(* Failures, and the finalizer's resubmissions                             *)
(***************************************************************************)
\* A write that fails after its retries ends the handler; what was written
\* before stays.
WriteFails(p) ==
    /\ \E l \in {"setSize", "setFirst", "index", "setHeight", "pendAdd", "post"} :
          Fails(p, l)
    /\ Return(p)
    /\ UNCHANGED <<epochVars, indexVars, pending, queue, finalizedCid, outVars,
                   sharedVars, meetings>>

\* A failing removal is only logged.
RemoveFails(p) ==
    /\ Fails(p, "pendRemove")
    /\ GoTo(p, "pendAdd")
    /\ UNCHANGED <<epochVars, indexVars, pending, queue, finalizedCid, outVars,
                   sharedVars, job, size, meetings>>

\* The process is gone, and with it all that is in its memory. Besides crashes
\* this is log.Fatalf when a submission to consensus fails or when params is
\* torn by two writers, and the Go runtime's fatal error when the wait queue is
\* written while the poller iterates over it.
ProcessDies ==
    /\ \/ /\ "crash" \in FailAt
          /\ faults < MaxFaults
          /\ faults' = faults + 1
       \/ \E w \in Workers : Fails(w, "propose")
    /\ pc' = [p \in Goroutines |-> "idle"]
    /\ job' = [p \in Goroutines |-> NoJob]
    /\ size' = [p \in Goroutines |-> 0]
    /\ waitQueue' = NoJob
    /\ params' = NoJob
    /\ UNCHANGED <<epochVars, indexVars, pending, queue, finalizedCid, outVars,
                   meetings>>

\* The finalizer resubmits an entry it has not resubmitted before, and marks it.
Resubmit(e) ==
    /\ MayResubmit
    /\ e.touched = 0
    /\ queue' = queue \union {[commit |-> e.commit, height |-> e.height,
                               cid |-> e.cid, touched |-> 1, req |-> 0]}
    /\ pending' = (pending \ {e}) \union {[e EXCEPT !.touched = 1]}
    /\ UNCHANGED <<epochVars, indexVars, finalizedCid, outVars, sharedVars,
                   localVars, faults, meetings>>

(***************************************************************************)
(* Specification                                                           *)
(***************************************************************************)
AssignTentativeHeight(w) ==
    ReadHeight(w) \/ ReadSize(w) \/ SetSize(w) \/ SetFirst(w) \/ ReadFirst(w)

SubmitForConsensus(w) ==
    ProposeAccepted(w) \/ ProposeFinalized(w) \/ ProposeOther(w)

AddToPendingTxns(p) == PendRemove(p) \/ PendAdd(p) \/ Post(p)

\* What a worker does when no call fails.
Work(w) ==
    \/ Take(w)
    \/ AssignTentativeHeight(w)
    \/ Index(w) \/ SetHeight(w)
    \/ SetParams(w) \/ Send(w)
    \/ SubmitForConsensus(w)
    \/ AddToPendingTxns(w)

Poll == PollRead \/ PollNotYet \/ PollFinalized \/ AddToPendingTxns(Poller)

Failure ==
    \/ \E w \in Workers : ReadFails(w) \/ SendFails(w)
    \/ \E p \in Goroutines : WriteFails(p) \/ RemoveFails(p)
    \/ PollExpired
    \/ ProcessDies

Next ==
    \/ \E w \in Workers : Work(w)
    \/ Poll
    \/ Failure
    \/ Settle
    \/ \E t \in txs : TxConfirmed(t)
    \/ \E e \in pending : Resubmit(e)

Spec == Init /\ [][Next]_vars

\* Goroutines run on, the tx manager delivers, and consensus settles.
FairSpec ==
    /\ Spec
    /\ \A w \in Workers : WF_vars(Work(w))
    /\ WF_vars(Poll)
    /\ WF_vars(Settle)
    /\ WF_vars(\E t \in txs : TxConfirmed(t))

(***************************************************************************)
(* Properties                                                              *)
(***************************************************************************)
\* Snapshots of different commits are never queued at the same height, so the
\* finalizer never has to choose between them (AssignTentativeHeight).
OneCommitPerHeight ==
    \A p, q \in pending : p.height = q.height => p.commit = q.commit

\* An entry of an epoch project is as many heights above the first epoch as its
\* epoch is epochs after it (main.go, AssignTentativeHeight).
HeightsFollowEpochs ==
    \A p \in pending :
        IsOrdered(p.commit) =>
            (p.height - 1) * epochSize = End[p.commit] - firstEpochEndHeight

\* Unless two goroutines found the project without an epoch at the same time,
\* the size of an epoch and the end of the first one are recorded once, whatever
\* fails in between: all heights of the project are counted from them
\* (GetFirstEpochDetails).
EpochKeysAreFinal ==
    [][metAtEpoch' = {} =>
          /\ epochSize # 0 => epochSize' = epochSize
          /\ firstEpochEndHeight # 0 =>
                firstEpochEndHeight' = firstEpochEndHeight]_vars

\* Unless two goroutines read the counter of a summary project before either
\* wrote it back, no two of its snapshots are pending at one height, although a
\* height whose goroutine fails or dies is given again (AssignTentativeHeight).
CountedHeightsAreOwn == metAtCounter = {} => OneCommitPerHeight

\* The CID of a pending entry is indexed at its height by the time the finalizer
\* can see the entry, through failures, crashes and resubmissions
\* (ProcessUnCommittedSnapshot stores before RabbitmqMsgHandler queues).
IndexedWhenPending == \A p \in pending : payloadCids[p.cid] = p.height

\* A callback of an unanchored snapshot never reaches the finalizer without an
\* entry to match: its own, or that of a resubmission, which may be about to
\* be added (AddToPendingTxns writes the entry before it posts).
CallbackFindsEntry ==
    \A c \in callbacks :
        c.commit \notin Anchored =>
            \/ \E p \in pending : p.height = c.height /\ p.req = c.req
            \/ \E p \in pending : p.height = c.height /\ p.touched = 1
            \/ \E w \in Workers : /\ pc[w] = "pendAdd"
                                  /\ job[w].height = c.height
                                  /\ job[w].touched = 1

\* Under consensus a snapshot of an epoch is queued only when its epoch is
\* settled, with the CID that was settled on (RabbitmqMsgHandler and
\* ProcessPendingSnapshot).
OnlyFinalizedIsQueued ==
    \A p \in pending :
        (UseConsensus /\ IsOrdered(p.commit) /\ p.commit \notin Anchored)
            => finalizedCid[End[p.commit]] = p.cid

\* The request ID of a pending entry stands for a transaction that anchors this
\* very snapshot, through lost requests, lost answers and resubmissions, unless
\* the goroutine of its commit shared the parameters with another one
\* (SubmitTxnToChain).
AnchorsItsSnapshot ==
    \A p \in pending :
        (p.commit \in Anchored \ metAtParams /\ p.req # 0) => AsCallback(p) \in txs

\* When nothing fails every commit reaches the finalizer, whichever goroutines
\* take it and in whichever order (RabbitmqMsgHandler).
EverythingIsSubmitted ==
    \A c \in Commits : <>(\E cb \in callbacks : cb.commit = c)
=============================================================================
