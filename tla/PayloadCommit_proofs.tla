------------------------ MODULE PayloadCommit_proofs ------------------------
(***************************************************************************)
(* Proofs about PayloadCommit, for every set of goroutines and commits,    *)
(* whatever calls fail: what each goroutine and each message holds, and    *)
(* from it the properties of what ends up pending. What needs a kind of    *)
(* project or of settings is stated with it; what two goroutines can spoil *)
(* is stated with the history variables of its meetings.                   *)
(***************************************************************************)
EXTENDS PayloadCommit, TLAPS

(***************************************************************************)
(* What goroutines and messages hold                                       *)
(***************************************************************************)
\* What holds of the job j and the size s of a goroutine whose label is l.
IsSound(l, j, s) ==
    /\ l # "idle" => j \in Job
    /\ l \in HeightLabels \union {"index", "setHeight"} => j.touched = 0
    /\ l = "readHeight" => ~IsOrdered(j.commit)
    /\ l \in HeightLabels \ {"readHeight"} => IsOrdered(j.commit)
    /\ l \in {"setSize", "setFirst"} => s > 0
    /\ l = "readFirst" => s # 0
    /\ l = "index" => j.height # 0 /\ (IsOrdered(j.commit) \/ j.height > 0)
    /\ l = "setHeight" => ~IsOrdered(j.commit) /\ j.height > 0
    /\ l \in StoredLabels => j.cid \in Cids /\ j.height # 0
    /\ l \in {"params", "send"} => j.commit \in Anchored
    /\ l \in {"propose", "check"} => WaitsForConsensus(j)
    /\ l \in {"propose", "check", "post"} => j.commit \notin Anchored
    /\ l = "pendRemove" => j.touched = 1

\* A job whose snapshot has its CID and its height.
StoredJob == {j \in Job : j.cid \in Cids /\ j.height # 0}

\* What the poller takes waits for consensus.
IsWaiting(j) == WaitsForConsensus(j) /\ j.commit \notin Anchored

GoroutinesSound ==
    /\ \A p \in Goroutines : IsSound(pc[p], job[p], size[p])
    /\ \A w \in Workers : pc[w] # "check" /\ (pc[w] = "send" => params # NoJob)
    /\ pc[Poller] \in {"idle", "check", "pendAdd", "post"}
    /\ pc[Poller] # "idle" => IsWaiting(job[Poller])

MessagesSound ==
    /\ \A m \in queue : m.req = 0 /\ (m.touched = 1 => m \in StoredJob)
    /\ waitQueue # NoJob => waitQueue \in StoredJob /\ IsWaiting(waitQueue)
    /\ params # NoJob => params \in StoredJob /\ params.commit \in Anchored
    /\ \A t \in txs : t.commit \in Anchored

KeysTyped ==
    /\ epochSize \in Nat /\ firstEpochEndHeight \in Nat
    /\ tentativeBlockHeight \in Nat
    /\ payloadCids \in [Cids -> Int]
    /\ issued \in Nat /\ faults \in Nat
    /\ finalizedCid \in [Epochs -> Cids \union {NoCid}]

MessagesTyped ==
    /\ pending \subseteq PendingEntry /\ \A p \in pending : p.height # 0
    /\ queue \subseteq Job
    /\ txs \subseteq Callback /\ callbacks \subseteq Callback

LocalsTyped ==
    /\ pc \in [Goroutines -> Labels]
    /\ job \in [Goroutines -> Job \union {NoJob}]
    /\ size \in [Goroutines -> Int]

PipelineInv ==
    /\ KeysTyped /\ MessagesTyped /\ LocalsTyped
    /\ GoroutinesSound /\ MessagesSound

\* A goroutine that does not work on anything is sound.
LEMMA IdleIsSound == \A s : IsSound("idle", NoJob, s)
BY DEF IsSound, HeightLabels, StoredLabels

\* NoJob is no job.
LEMMA NoJobIsNone == NoJob \notin Job /\ NoJob.commit \notin Commits
BY ContentHasCid DEF NoJob, Job

\* A goroutine at a label, with a job and a size that are sound for it, leaves
\* all goroutines sound.
LEMMA OneMoves ==
  ASSUME LocalsTyped, GoroutinesSound, NEW p \in Goroutines,
         NEW l \in Labels, NEW j \in Job \union {NoJob}, NEW s \in Int,
         IsSound(l, j, s),
         p = Poller => l \in {"idle", "check", "pendAdd", "post"}
                       /\ (l # "idle" => IsWaiting(j)),
         p \in Workers => l # "check",
         l = "send" => params' # NoJob,
         params' # params => params' # NoJob,
         pc' = [pc EXCEPT ![p] = l], job' = [job EXCEPT ![p] = j],
         size' = [size EXCEPT ![p] = s]
  PROVE  LocalsTyped' /\ GoroutinesSound'
<1>1. LocalsTyped'
  BY DEF LocalsTyped
<1>2. \A q \in Goroutines : IsSound(pc[q], job[q], size[q])'
  <2> TAKE q \in Goroutines
  <2>1. CASE q = p
    <3>1. pc'[q] = l /\ job'[q] = j /\ size'[q] = s
      BY <2>1 DEF LocalsTyped
    <3> QED
      BY <3>1
  <2>2. CASE q # p
    <3>1. pc'[q] = pc[q] /\ job'[q] = job[q] /\ size'[q] = size[q]
      BY <2>2 DEF LocalsTyped
    <3>2. IsSound(pc[q], job[q], size[q])
      BY DEF GoroutinesSound
    <3> QED
      BY <3>1, <3>2
  <2> QED
    BY <2>1, <2>2
<1>3. \A w \in Workers : pc'[w] # "check" /\ (pc'[w] = "send" => params' # NoJob)
  BY DEF LocalsTyped, GoroutinesSound, Goroutines
<1>4. /\ pc'[Poller] \in {"idle", "check", "pendAdd", "post"}
      /\ pc'[Poller] # "idle" => IsWaiting(job'[Poller])
  <2>1. Poller \in Goroutines
    BY DEF Goroutines
  <2>2. CASE p = Poller
    <3>1. pc'[Poller] = l /\ job'[Poller] = j
      BY <2>1, <2>2 DEF LocalsTyped
    <3> QED
      BY <2>2, <3>1
  <2>3. CASE p # Poller
    <3>1. pc'[Poller] = pc[Poller] /\ job'[Poller] = job[Poller]
      BY <2>1, <2>3 DEF LocalsTyped
    <3> QED
      BY <3>1 DEF GoroutinesSound
  <2> QED
    BY <2>2, <2>3
<1> QED
  BY <1>1, <1>2, <1>3, <1>4 DEF GoroutinesSound

\* A worker's job and size, when it has one.
LEMMA WorkerTypes ==
  ASSUME PipelineInv, NEW w \in Workers
  PROVE  /\ w \in Goroutines /\ w # Poller
         /\ pc[w] \in Labels /\ job[w] \in Job \union {NoJob} /\ size[w] \in Int
         /\ pc[w] # "idle" => job[w] \in Job
         /\ IsSound(pc[w], job[w], size[w])
BY GoroutinesAreDistinct
   DEF PipelineInv, LocalsTyped, GoroutinesSound, Goroutines, IsSound

LEMMA ReadHeightSound ==
  ASSUME PipelineInv, NEW w \in Workers, ReadHeight(w)
  PROVE  PipelineInv'
<1> DEFINE j == [job[w] EXCEPT !.height = tentativeBlockHeight + 1]
<1> USE WorkerTypes DEF PipelineInv
<1>1. KeysTyped' /\ MessagesTyped' /\ MessagesSound'
  BY DEF ReadHeight, KeysTyped, MessagesTyped, MessagesSound, epochVars,
         indexVars, outVars, sharedVars
<1>2. j \in Job /\ j.height > 0 /\ j.touched = job[w].touched
      /\ j.commit = job[w].commit
  BY DEF ReadHeight, KeysTyped, Job
<1>3. IsSound("index", j, size[w])
  BY <1>2 DEF ReadHeight, IsSound, HeightLabels, StoredLabels
<1>4. /\ pc' = [pc EXCEPT ![w] = "index"] /\ job' = [job EXCEPT ![w] = j]
      /\ size' = [size EXCEPT ![w] = size[w]] /\ params' = params
  BY DEF ReadHeight, GoTo, sharedVars, LocalsTyped
<1>5. LocalsTyped' /\ GoroutinesSound'
  BY <1>2, <1>3, <1>4, OneMoves DEF Labels
<1> QED
  BY <1>1, <1>5

LEMMA EpochStepsSound ==
  ASSUME PipelineInv, NEW w \in Workers,
         ReadSize(w) \/ SetSize(w) \/ SetFirst(w)
  PROVE  PipelineInv'
<1> USE WorkerTypes DEF PipelineInv
<1> DEFINE Moves(l, s) ==
      /\ pc' = [pc EXCEPT ![w] = l] /\ job' = [job EXCEPT ![w] = job[w]]
      /\ size' = [size EXCEPT ![w] = s] /\ params' = params
<1>1. job[w] \in Job /\ End[job[w].commit] \in Nat /\ Begin[job[w].commit] \in Nat
      /\ EpochLength(job[w].commit) \in Nat \ {0}
  BY EpochsAreBlockRanges
     DEF ReadSize, SetSize, SetFirst, Job, EpochLength
<1>2. CASE ReadSize(w)
  <2> DEFINE l == IF epochSize = 0 THEN "setSize" ELSE "readFirst"
             s == IF epochSize = 0 THEN EpochLength(job[w].commit) ELSE epochSize
  <2>1. KeysTyped' /\ MessagesTyped' /\ MessagesSound'
    BY <1>2 DEF ReadSize, KeysTyped, MessagesTyped, MessagesSound, epochVars,
           indexVars, outVars, sharedVars
  <2>2. s \in Nat \ {0} /\ IsSound(l, job[w], s)
    BY <1>1, <1>2 DEF ReadSize, KeysTyped, IsSound, HeightLabels, StoredLabels
  <2>3. Moves(l, s)
    BY <1>2 DEF ReadSize, GoTo, sharedVars, LocalsTyped
  <2>4. l \in Labels /\ s \in Int /\ l # "check" /\ l # "send"
    BY <2>2 DEF Labels, HeightLabels
  <2>5. LocalsTyped' /\ GoroutinesSound'
    <3> HIDE DEF l, s
    <3> QED
      BY <2>2, <2>3, <2>4, <1>1, OneMoves
  <2> QED
    BY <2>1, <2>5
<1>3. CASE SetSize(w)
  <2>1. KeysTyped' /\ MessagesTyped' /\ MessagesSound'
    BY <1>3 DEF SetSize, KeysTyped, MessagesTyped, MessagesSound, IsSound,
           indexVars, outVars, sharedVars
  <2>2. IsSound("setFirst", job[w], size[w])
    BY <1>1, <1>3 DEF SetSize, IsSound, HeightLabels, StoredLabels
  <2>3. Moves("setFirst", size[w])
    BY <1>3 DEF SetSize, GoTo, sharedVars, LocalsTyped
  <2>4. LocalsTyped' /\ GoroutinesSound'
    BY <2>2, <2>3, <1>1, OneMoves DEF Labels, HeightLabels
  <2> QED
    BY <2>1, <2>4
<1>4. CASE SetFirst(w)
  <2>1. KeysTyped' /\ MessagesTyped' /\ MessagesSound'
    BY <1>1, <1>4 DEF SetFirst, KeysTyped, MessagesTyped, MessagesSound,
           indexVars, outVars, sharedVars
  <2>2. IsSound("readFirst", job[w], size[w])
    BY <1>1, <1>4 DEF SetFirst, IsSound, HeightLabels, StoredLabels
  <2>3. Moves("readFirst", size[w])
    BY <1>4 DEF SetFirst, GoTo, sharedVars, LocalsTyped
  <2>4. LocalsTyped' /\ GoroutinesSound'
    BY <2>2, <2>3, <1>1, OneMoves DEF Labels, HeightLabels
  <2> QED
    BY <2>1, <2>4
<1> QED
  BY <1>2, <1>3, <1>4

\* Integer division by any size but zero gives an integer.
LEMMA QuotientType ==
  ASSUME NEW a \in Int, NEW b \in Int, b # 0
  PROVE  Quotient(a, b) \in Int
BY DEF Quotient

\* A worker that returns leaves everything sound.
LEMMA ReturnSound ==
  ASSUME LocalsTyped, GoroutinesSound, NEW p \in Goroutines, Return(p),
         params' = params
  PROVE  LocalsTyped' /\ GoroutinesSound'
<1>1. 0 \in Int /\ NoJob \in Job \union {NoJob} /\ "idle" \in Labels
  BY DEF Labels
<1>2. IsSound("idle", NoJob, 0)
  BY IdleIsSound
<1>3. /\ pc' = [pc EXCEPT ![p] = "idle"] /\ job' = [job EXCEPT ![p] = NoJob]
      /\ size' = [size EXCEPT ![p] = 0]
  BY DEF Return, GoTo
<1> QED
  BY <1>1, <1>2, <1>3, OneMoves

\* The height of an epoch is only given when it is not zero.
LEMMA AssignHeightSound ==
  ASSUME PipelineInv, NEW w \in Workers, NEW first \in Int,
         pc[w] = "readFirst", AssignHeight(w, first), params' = params
  PROVE  LocalsTyped' /\ GoroutinesSound'
<1> USE WorkerTypes DEF PipelineInv
<1> DEFINE h == HeightOf(End[job[w].commit], first, size[w])
           j == [job[w] EXCEPT !.height = h]
<1>1. /\ job[w] \in Job /\ End[job[w].commit] \in Nat
      /\ size[w] # 0 /\ size[w] \in Int
  BY EpochsAreBlockRanges DEF Job, IsSound
<1>2. h \in Int
  <2>1. End[job[w].commit] - first \in Int
    BY <1>1
  <2>2. Quotient(End[job[w].commit] - first, size[w]) \in Int
    BY ONLY <1>1, <2>1, QuotientType
  <2> QED
    BY <2>2 DEF HeightOf
<1>3. CASE Return(w)
  BY <1>3, ReturnSound
<1>4. CASE /\ first # 0 /\ h # 0 /\ job' = [job EXCEPT ![w].height = h]
           /\ GoTo(w, "index") /\ UNCHANGED size
  <2>1. j \in Job /\ j.height = h /\ j.touched = job[w].touched
        /\ j.commit = job[w].commit
    BY <1>1, <1>2 DEF Job
  <2>2. IsSound("index", j, size[w])
    BY <1>4, <2>1 DEF IsSound, HeightLabels, StoredLabels
  <2>3. /\ pc' = [pc EXCEPT ![w] = "index"] /\ job' = [job EXCEPT ![w] = j]
        /\ size' = [size EXCEPT ![w] = size[w]]
    BY <1>4 DEF GoTo, LocalsTyped
  <2> QED
    BY <2>1, <2>2, <2>3, OneMoves DEF Labels
<1> QED
  BY <1>3, <1>4 DEF AssignHeight

LEMMA FirstSound ==
  ASSUME PipelineInv, NEW w \in Workers, ReadFirst(w) \/ ReadFails(w)
  PROVE  PipelineInv'
<1> USE WorkerTypes DEF PipelineInv
<1>1. KeysTyped' /\ MessagesTyped' /\ MessagesSound' /\ params' = params
  BY DEF ReadFirst, ReadFails, Fails, KeysTyped, MessagesTyped, MessagesSound,
         epochVars, indexVars, outVars, sharedVars
<1>2. CASE ReadFirst(w) \/ (Fails(w, "readFirst") /\ AssignHeight(w, Failed))
  <2>1. firstEpochEndHeight \in Int /\ Failed \in Int
    BY DEF KeysTyped, Failed
  <2> QED
    BY <1>1, <1>2, <2>1, AssignHeightSound DEF ReadFirst, Fails
<1>3. CASE Return(w)
  BY <1>1, <1>3, ReturnSound
<1>4. CASE Fails(w, "readSize") /\ size' = [size EXCEPT ![w] = Failed]
           /\ GoTo(w, "readFirst") /\ UNCHANGED job
  <2>1. job[w] \in Job /\ Failed \in Int
    BY <1>4 DEF Fails, Failed
  <2>2. IsSound("readFirst", job[w], Failed)
    BY <1>4, <2>1 DEF Fails, IsSound, HeightLabels, StoredLabels, Failed
  <2>3. /\ pc' = [pc EXCEPT ![w] = "readFirst"]
        /\ job' = [job EXCEPT ![w] = job[w]]
    BY <1>4 DEF GoTo, LocalsTyped
  <2>4. LocalsTyped' /\ GoroutinesSound'
    BY <1>1, <1>4, <2>1, <2>2, <2>3, OneMoves DEF Labels, HeightLabels
  <2> QED
    BY <1>1, <2>4
<1> QED
  BY <1>2, <1>3, <1>4 DEF ReadFails

\* Where a stored snapshot goes, it is sound.
LEMMA AfterStoredSound ==
  ASSUME NEW j \in StoredJob, NEW s \in Int
  PROVE  /\ AfterStored(j) \in Labels \ {"idle", "check", "send", "index"}
         /\ AfterStored(j) \in StoredLabels
         /\ IsSound(AfterStored(j), j, s)
<1>1. j \in Job /\ j.cid \in Cids /\ j.height # 0
  BY DEF StoredJob
<1>2. CASE AfterStored(j) = "params"
  BY <1>1, <1>2 DEF AfterStored, IsSound, Labels, HeightLabels, StoredLabels
<1>3. CASE AfterStored(j) = "propose" /\ WaitsForConsensus(j)
           /\ j.commit \notin Anchored
  BY <1>1, <1>3 DEF IsSound, Labels, HeightLabels, StoredLabels
<1>4. CASE AfterStored(j) = "pendRemove" /\ j.touched = 1
  BY <1>1, <1>4 DEF IsSound, Labels, HeightLabels, StoredLabels
<1>5. CASE AfterStored(j) = "pendAdd"
  BY <1>1, <1>5 DEF IsSound, Labels, HeightLabels, StoredLabels
<1> QED
  BY <1>2, <1>3, <1>4, <1>5 DEF AfterStored

LEMMA TakeSound ==
  ASSUME PipelineInv, NEW w \in Workers, Take(w)
  PROVE  PipelineInv'
<1> USE WorkerTypes DEF PipelineInv
<1>1. PICK m \in queue :
        /\ queue' = queue \ {m}
        /\ job' = [job EXCEPT ![w] = m]
        /\ GoTo(w, IF m.touched = 1 THEN AfterStored(m)
                   ELSE IF IsOrdered(m.commit) THEN "readSize"
                   ELSE "readHeight")
  BY DEF Take
<1> DEFINE l == IF m.touched = 1 THEN AfterStored(m)
                ELSE IF IsOrdered(m.commit) THEN "readSize" ELSE "readHeight"
<1>2. KeysTyped' /\ MessagesTyped' /\ MessagesSound' /\ params' = params
      /\ size' = size
  BY <1>1 DEF Take, KeysTyped, MessagesTyped, MessagesSound, epochVars,
              indexVars, outVars, sharedVars
<1>3. m \in Job /\ (m.touched = 1 => m \in StoredJob)
  BY DEF MessagesTyped, MessagesSound
<1>4. l \in Labels \ {"check", "send"} /\ IsSound(l, m, size[w])
  <2>1. CASE m.touched = 1
    BY <1>3, <2>1, AfterStoredSound
  <2>2. CASE m.touched # 1 /\ IsOrdered(m.commit)
    <3>1. m.touched = 0 /\ l = "readSize"
      BY <1>3, <2>2 DEF Job
    <3> QED
      BY <1>3, <2>2, <3>1 DEF IsSound, Labels, HeightLabels, StoredLabels
  <2>3. CASE m.touched # 1 /\ ~IsOrdered(m.commit)
    <3>1. m.touched = 0 /\ l = "readHeight"
      BY <1>3, <2>3 DEF Job
    <3> QED
      BY <1>3, <2>3, <3>1 DEF IsSound, Labels, HeightLabels, StoredLabels
  <2> QED
    BY <2>1, <2>2, <2>3
<1>5. /\ pc' = [pc EXCEPT ![w] = l]
      /\ size' = [size EXCEPT ![w] = size[w]]
  BY <1>1, <1>2 DEF GoTo, LocalsTyped
<1>6. LocalsTyped' /\ GoroutinesSound'
  <2> HIDE DEF l
  <2> QED
    BY <1>1, <1>2, <1>3, <1>4, <1>5, OneMoves
<1> QED
  BY <1>2, <1>6

LEMMA StoreSound ==
  ASSUME PipelineInv, NEW w \in Workers, Index(w) \/ SetHeight(w)
  PROVE  PipelineInv'
<1> USE WorkerTypes DEF PipelineInv
<1>1. CASE Index(w)
  <2> DEFINE cid == Content[job[w].commit]
             j == [job[w] EXCEPT !.cid = cid]
             l == IF IsOrdered(job[w].commit) THEN AfterStored(job[w])
                  ELSE "setHeight"
  <2>1. job[w] \in Job /\ job[w].height \in Int \ {0} /\ job[w].touched = 0
        /\ (IsOrdered(job[w].commit) \/ job[w].height > 0)
    BY <1>1 DEF Index, IsSound, Job
  <2>2. cid \in Cids
    BY <2>1, ContentHasCid DEF Job
  <2>3. /\ j \in StoredJob /\ j.commit = job[w].commit
        /\ j.height = job[w].height /\ j.touched = 0
    BY <2>1, <2>2 DEF Job, StoredJob
  <2>4. AfterStored(j) = AfterStored(job[w])
    BY <2>1, <2>3 DEF AfterStored, WaitsForConsensus
  <2>5. KeysTyped' /\ MessagesTyped' /\ MessagesSound' /\ params' = params
    BY <1>1, <2>1, <2>2
       DEF Index, KeysTyped, MessagesTyped, MessagesSound, epochVars, outVars,
           sharedVars
  <2>6. l \in Labels \ {"check", "send"} /\ IsSound(l, j, size[w])
    <3>1. CASE IsOrdered(job[w].commit)
      BY <2>3, <2>4, <3>1, AfterStoredSound
    <3>2. CASE ~IsOrdered(job[w].commit)
      <4>1. j \in Job /\ j.cid \in Cids /\ j.height > 0
        BY <2>1, <2>3, <3>2 DEF StoredJob
      <4>2. l = "setHeight"
        BY <3>2
      <4> QED
        BY <2>3, <3>2, <4>1, <4>2 DEF IsSound, Labels, HeightLabels, StoredLabels
    <3> QED
      BY <3>1, <3>2
  <2>7. /\ pc' = [pc EXCEPT ![w] = l] /\ job' = [job EXCEPT ![w] = j]
        /\ size' = [size EXCEPT ![w] = size[w]]
    BY <1>1 DEF Index, GoTo, LocalsTyped
  <2>8. LocalsTyped' /\ GoroutinesSound'
    <3>1. j \in Job
      BY <2>3 DEF StoredJob
    <3> HIDE DEF l, j
    <3> QED
      BY <2>5, <2>6, <2>7, <3>1, OneMoves
  <2> QED
    BY <2>5, <2>8
<1>2. CASE SetHeight(w)
  <2>1. job[w] \in StoredJob /\ job[w].height \in Nat
    BY <1>2 DEF SetHeight, IsSound, StoredLabels, StoredJob, Job
  <2>2. KeysTyped' /\ MessagesTyped' /\ MessagesSound' /\ params' = params
    BY <1>2, <2>1 DEF SetHeight, KeysTyped, MessagesTyped, MessagesSound,
                      epochVars, outVars, sharedVars
  <2>3. /\ pc' = [pc EXCEPT ![w] = AfterStored(job[w])]
        /\ job' = [job EXCEPT ![w] = job[w]]
        /\ size' = [size EXCEPT ![w] = size[w]]
    BY <1>2 DEF SetHeight, GoTo, LocalsTyped
  <2>4. LocalsTyped' /\ GoroutinesSound'
    BY <2>1, <2>2, <2>3, AfterStoredSound, OneMoves
  <2> QED
    BY <2>2, <2>4
<1> QED
  BY <1>1, <1>2

LEMMA SetParamsSound ==
  ASSUME PipelineInv, NEW w \in Workers, SetParams(w)
  PROVE  PipelineInv'
<1> USE WorkerTypes DEF PipelineInv
<1>1. job[w] \in StoredJob /\ job[w].commit \in Anchored
  BY DEF SetParams, IsSound, StoredLabels, StoredJob
<1>2. params' = job[w] /\ params' # NoJob
  BY <1>1, NoJobIsNone DEF SetParams, StoredJob
<1>3. KeysTyped' /\ MessagesTyped' /\ MessagesSound'
  BY <1>1, <1>2 DEF SetParams, KeysTyped, MessagesTyped, MessagesSound,
                    epochVars, indexVars, outVars
<1>4. IsSound("send", job[w], size[w])
  BY <1>1 DEF IsSound, HeightLabels, StoredLabels, StoredJob
<1>5. /\ pc' = [pc EXCEPT ![w] = "send"]
      /\ job' = [job EXCEPT ![w] = job[w]]
      /\ size' = [size EXCEPT ![w] = size[w]]
  BY DEF SetParams, GoTo, LocalsTyped
<1>6. LocalsTyped' /\ GoroutinesSound'
  BY <1>2, <1>4, <1>5, OneMoves DEF Labels, StoredLabels
<1> QED
  BY <1>3, <1>6

\* An accepted transaction anchors what the shared parameters hold.
LEMMA AcceptedSound ==
  ASSUME PipelineInv, Accepted, params # NoJob
  PROVE  /\ issued' = issued + 1 /\ issued' \in Nat
         /\ txs' \subseteq Callback
         /\ \A t \in txs' : t.commit \in Anchored
<1>1. /\ params.commit \in Commits /\ params.height \in Int
      /\ params.cid \in Cids /\ params.commit \in Anchored
  BY DEF PipelineInv, MessagesSound, StoredJob, Job
<1>2. issued' = issued + 1 /\ issued' \in Nat
  BY DEF Accepted, PipelineInv, KeysTyped
<1> DEFINE t0 == [commit |-> params.commit, height |-> params.height,
                  cid |-> params.cid, req |-> issued']
<1>3. t0 \in Callback /\ t0.commit \in Anchored
  BY <1>1, <1>2 DEF Callback
<1>4. txs' = txs \union {t0}
  BY DEF Accepted
<1> QED
  BY <1>2, <1>3, <1>4 DEF PipelineInv, MessagesTyped, MessagesSound

LEMMA SendSound ==
  ASSUME PipelineInv, NEW w \in Workers, Send(w) \/ SendFails(w)
  PROVE  PipelineInv'
<1> USE WorkerTypes DEF PipelineInv
<1>1. /\ pc[w] = "send" /\ job[w] \in StoredJob /\ job[w].commit \in Anchored
      /\ params # NoJob
  BY DEF Send, SendFails, Fails, IsSound, StoredLabels, StoredJob,
         GoroutinesSound
<1>2. /\ issued' \in Nat
      /\ txs' \subseteq Callback
      /\ \A t \in txs' : t.commit \in Anchored
  <2>1. CASE Accepted
    BY <1>1, <2>1, AcceptedSound
  <2>2. CASE UNCHANGED <<issued, txs>>
    BY <2>2 DEF KeysTyped, MessagesTyped, MessagesSound
  <2> QED
    BY <2>1, <2>2 DEF Send, SendFails
<1>3. KeysTyped' /\ MessagesTyped' /\ MessagesSound' /\ params' = params
      /\ size' = size
  BY <1>2 DEF Send, SendFails, Fails, KeysTyped, MessagesTyped, MessagesSound,
              epochVars, indexVars, sharedVars
<1>4. PICK r \in Nat : job' = [job EXCEPT ![w].req = r]
  BY <1>2 DEF Send, SendFails
<1> DEFINE j == [job[w] EXCEPT !.req = r]
<1>5. j \in StoredJob /\ j.commit = job[w].commit /\ j.touched = job[w].touched
  BY <1>1 DEF StoredJob, Job
<1>6. PICK l \in {"params", "pendRemove", "pendAdd"} :
        pc' = [pc EXCEPT ![w] = l] /\ (l = "pendRemove" => job[w].touched = 1)
  BY DEF Send, SendFails, ToPending, GoTo
<1>7. IsSound(l, j, size[w])
  BY <1>1, <1>5, <1>6 DEF IsSound, HeightLabels, StoredLabels, StoredJob
<1>8. j \in Job /\ l \in Labels /\ l # "check" /\ l # "send"
  BY <1>5, <1>6 DEF StoredJob, Labels, StoredLabels
<1>9. job' = [job EXCEPT ![w] = j] /\ size' = [size EXCEPT ![w] = size[w]]
  BY <1>3, <1>4 DEF LocalsTyped
<1>10. LocalsTyped' /\ GoroutinesSound'
  <2> HIDE DEF j
  <2> QED
    BY <1>3, <1>6, <1>7, <1>8, <1>9, OneMoves
<1> QED
  BY <1>3, <1>10

\* What consensus settled on for the epoch of a commit is a CID.
LEMMA FinalizedIsCid ==
  ASSUME PipelineInv, NEW j \in Job, IsFinalized(j)
  PROVE  finalizedCid[EpochOf(j)] \in Cids
BY DEF PipelineInv, KeysTyped, IsFinalized, EpochOf, Epochs, Job

LEMMA ProposeSound ==
  ASSUME PipelineInv, NEW w \in Workers, SubmitForConsensus(w)
  PROVE  PipelineInv'
<1> USE WorkerTypes DEF PipelineInv
<1>1. /\ pc[w] = "propose" /\ job[w] \in StoredJob /\ IsWaiting(job[w])
  BY DEF SubmitForConsensus, ProposeAccepted, ProposeFinalized, ProposeOther,
         IsSound, StoredLabels, StoredJob, IsWaiting
<1>2. KeysTyped' /\ MessagesTyped' /\ MessagesSound' /\ params' = params
  BY <1>1 DEF SubmitForConsensus, ProposeAccepted, ProposeFinalized,
              ProposeOther, KeysTyped, MessagesTyped, MessagesSound, epochVars,
              indexVars, outVars, sharedVars
<1>3. CASE ProposeAccepted(w)
  BY <1>2, <1>3, ReturnSound DEF ProposeAccepted
<1>4. CASE ProposeFinalized(w)
  <2> DEFINE j == [job[w] EXCEPT !.cid = finalizedCid[EpochOf(job[w])]]
  <2>1. j \in StoredJob
    <3>1. finalizedCid[EpochOf(job[w])] \in Cids
      BY <1>1, <1>4, FinalizedIsCid DEF ProposeFinalized, StoredJob
    <3> QED
      BY <1>1, <3>1 DEF StoredJob, Job
  <2>2. IsSound("pendAdd", j, size[w])
    BY <2>1 DEF IsSound, HeightLabels, StoredLabels, StoredJob
  <2>3. /\ pc' = [pc EXCEPT ![w] = "pendAdd"] /\ job' = [job EXCEPT ![w] = j]
        /\ size' = [size EXCEPT ![w] = size[w]]
    BY <1>4 DEF ProposeFinalized, GoTo, LocalsTyped
  <2>4. LocalsTyped' /\ GoroutinesSound'
    <3>1. j \in Job
      BY <2>1 DEF StoredJob
    <3> HIDE DEF j
    <3> QED
      BY <1>2, <2>2, <2>3, <3>1, OneMoves DEF Labels, StoredLabels
  <2> QED
    BY <1>2, <2>4
<1>5. CASE ProposeOther(w)
  <2>1. IsSound("pendAdd", job[w], size[w])
    BY <1>1 DEF IsSound, HeightLabels, StoredLabels, StoredJob
  <2>2. /\ pc' = [pc EXCEPT ![w] = "pendAdd"]
        /\ job' = [job EXCEPT ![w] = job[w]]
        /\ size' = [size EXCEPT ![w] = size[w]]
    BY <1>5 DEF ProposeOther, GoTo, LocalsTyped
  <2>3. LocalsTyped' /\ GoroutinesSound'
    BY <1>2, <2>1, <2>2, OneMoves DEF Labels, StoredLabels
  <2> QED
    BY <1>2, <2>3
<1> QED
  BY <1>3, <1>4, <1>5 DEF SubmitForConsensus

\* The poller's job and size, when it has one.
LEMMA PollerTypes ==
  ASSUME PipelineInv
  PROVE  /\ Poller \in Goroutines /\ Poller \notin Workers
         /\ job[Poller] \in Job \union {NoJob} /\ size[Poller] \in Int
         /\ IsSound(pc[Poller], job[Poller], size[Poller])
         /\ pc[Poller] \in {"idle", "check", "pendAdd", "post"}
         /\ pc[Poller] # "idle" => job[Poller] \in StoredJob
                                   /\ IsWaiting(job[Poller])
BY GoroutinesAreDistinct
   DEF PipelineInv, LocalsTyped, GoroutinesSound, Goroutines, IsSound,
       StoredLabels, StoredJob

LEMMA PollSound ==
  ASSUME PipelineInv, PollRead \/ PollExpired \/ PollNotYet \/ PollFinalized
  PROVE  PipelineInv'
<1> USE PollerTypes DEF PipelineInv
<1>1. KeysTyped' /\ MessagesTyped' /\ MessagesSound' /\ params' = params
  BY DEF PollRead, PollExpired, PollNotYet, PollFinalized, Fails, KeysTyped,
         MessagesTyped, MessagesSound, epochVars, indexVars, outVars, sharedVars
<1>2. CASE PollExpired \/ PollNotYet
  BY <1>1, <1>2, ReturnSound DEF PollExpired, PollNotYet
<1>3. CASE PollRead
  <2>1. waitQueue \in StoredJob /\ IsWaiting(waitQueue)
    BY <1>3 DEF PollRead, MessagesSound
  <2>2. waitQueue \in Job /\ IsSound("check", waitQueue, size[Poller])
    BY <2>1 DEF IsSound, HeightLabels, StoredLabels, StoredJob, IsWaiting
  <2>3. /\ pc' = [pc EXCEPT ![Poller] = "check"]
        /\ job' = [job EXCEPT ![Poller] = waitQueue]
        /\ size' = [size EXCEPT ![Poller] = size[Poller]]
    BY <1>3 DEF PollRead, GoTo, LocalsTyped
  <2>4. LocalsTyped' /\ GoroutinesSound'
    BY <1>1, <2>1, <2>2, <2>3, OneMoves DEF Labels, StoredLabels
  <2> QED
    BY <1>1, <2>4
<1>4. CASE PollFinalized
  <2> DEFINE j == [job[Poller] EXCEPT !.cid = finalizedCid[EpochOf(job[Poller])]]
  <2>1. job[Poller] \in StoredJob /\ IsWaiting(job[Poller])
    BY <1>4 DEF PollFinalized
  <2>2. j \in StoredJob /\ IsWaiting(j)
    <3>1. finalizedCid[EpochOf(job[Poller])] \in Cids
      BY <1>4, <2>1, FinalizedIsCid DEF PollFinalized, StoredJob
    <3>2. j \in StoredJob /\ j.commit = job[Poller].commit
          /\ j.touched = job[Poller].touched
      BY <2>1, <3>1 DEF StoredJob, Job
    <3> QED
      BY <2>1, <3>2 DEF IsWaiting, WaitsForConsensus
  <2>3. j \in Job /\ IsSound("pendAdd", j, size[Poller])
    BY <2>2 DEF IsSound, HeightLabels, StoredLabels, StoredJob
  <2>4. /\ pc' = [pc EXCEPT ![Poller] = "pendAdd"]
        /\ job' = [job EXCEPT ![Poller] = j]
        /\ size' = [size EXCEPT ![Poller] = size[Poller]]
    BY <1>4 DEF PollFinalized, GoTo, LocalsTyped
  <2>5. LocalsTyped' /\ GoroutinesSound'
    <3> HIDE DEF j
    <3> QED
      BY <1>1, <2>2, <2>3, <2>4, OneMoves DEF Labels, StoredLabels
  <2> QED
    BY <1>1, <2>5
<1> QED
  BY <1>2, <1>3, <1>4

\* What holds of any goroutine at the labels both kinds reach.
LEMMA GoroutineTypes ==
  ASSUME PipelineInv, NEW p \in Goroutines
  PROVE  /\ job[p] \in Job \union {NoJob} /\ size[p] \in Int
         /\ IsSound(pc[p], job[p], size[p])
         /\ pc[p] \in StoredLabels => job[p] \in StoredJob
         /\ p = Poller /\ pc[p] # "idle" => IsWaiting(job[p])
         /\ pc[p] = "pendRemove" => p # Poller
BY DEF PipelineInv, LocalsTyped, GoroutinesSound, IsSound, StoredLabels,
       StoredJob, Goroutines

LEMMA PendingSound ==
  ASSUME PipelineInv, NEW p \in Goroutines,
         AddToPendingTxns(p) \/ RemoveFails(p)
  PROVE  PipelineInv'
<1> USE GoroutineTypes DEF PipelineInv
<1>1. CASE PendRemove(p) \/ RemoveFails(p)
  <2>1. KeysTyped' /\ MessagesTyped' /\ MessagesSound' /\ params' = params
    BY <1>1 DEF PendRemove, RemoveFails, Fails, KeysTyped, MessagesTyped,
                MessagesSound, epochVars, indexVars, outVars, sharedVars
  <2>2. job[p] \in StoredJob /\ IsSound("pendAdd", job[p], size[p])
    BY <1>1 DEF PendRemove, RemoveFails, Fails, IsSound, HeightLabels,
                StoredLabels, StoredJob
  <2>3. /\ pc' = [pc EXCEPT ![p] = "pendAdd"]
        /\ job' = [job EXCEPT ![p] = job[p]]
        /\ size' = [size EXCEPT ![p] = size[p]] /\ p # Poller
    BY <1>1 DEF PendRemove, RemoveFails, Fails, GoTo, LocalsTyped
  <2>4. LocalsTyped' /\ GoroutinesSound'
    BY <2>1, <2>2, <2>3, OneMoves DEF Labels, StoredLabels
  <2> QED
    BY <2>1, <2>4
<1>2. CASE PendAdd(p)
  <2> DEFINE r == IF job[p].commit \in Anchored THEN job[p].req ELSE issued + 1
             e == [commit |-> job[p].commit, height |-> job[p].height,
                   cid |-> job[p].cid, req |-> r, touched |-> job[p].touched]
             j == [job[p] EXCEPT !.req = r]
  <2>1. job[p] \in StoredJob
    BY <1>2 DEF PendAdd, StoredLabels
  <2>2. r \in Nat /\ issued + 1 \in Nat
    BY <2>1 DEF StoredJob, Job, KeysTyped
  <2>3. e \in PendingEntry /\ e.height # 0
    BY <2>1, <2>2 DEF StoredJob, Job, PendingEntry
  <2>4. pending' = pending \union {e} /\ issued' \in Nat
    BY <1>2, <2>2 DEF PendAdd, KeysTyped
  <2>5. KeysTyped' /\ MessagesTyped' /\ MessagesSound' /\ params' = params
    <3> HIDE DEF e
    <3> QED
      BY <1>2, <2>3, <2>4
         DEF PendAdd, KeysTyped, MessagesTyped, MessagesSound, epochVars,
             indexVars, sharedVars
  <2>6. CASE Return(p)
    BY <2>5, <2>6, ReturnSound
  <2>7. CASE /\ job[p].commit \notin Anchored
             /\ job' = [job EXCEPT ![p].req = r]
             /\ GoTo(p, "post") /\ UNCHANGED size
    <3>1. j \in StoredJob /\ j.commit = job[p].commit
          /\ j.touched = job[p].touched
      BY <2>1, <2>2 DEF StoredJob, Job
    <3>2. j \in Job /\ IsSound("post", j, size[p])
      BY <2>7, <3>1 DEF IsSound, HeightLabels, StoredLabels, StoredJob
    <3>3. /\ pc' = [pc EXCEPT ![p] = "post"] /\ job' = [job EXCEPT ![p] = j]
          /\ size' = [size EXCEPT ![p] = size[p]]
      BY <2>7 DEF GoTo, LocalsTyped
    <3>4. p = Poller => IsWaiting(j)
      BY <1>2, <3>1 DEF PendAdd, IsWaiting, WaitsForConsensus
    <3>5. LocalsTyped' /\ GoroutinesSound'
      <4> HIDE DEF j
      <4> QED
        BY <2>5, <3>2, <3>3, <3>4, OneMoves DEF Labels, StoredLabels
    <3> QED
      BY <2>5, <3>5
  <2> QED
    BY <1>2, <2>6, <2>7 DEF PendAdd
<1>3. CASE Post(p)
  <2>1. job[p] \in StoredJob
    BY <1>3 DEF Post, StoredLabels
  <2>2. AsCallback(job[p]) \in Callback
    BY <2>1 DEF StoredJob, Job, AsCallback, Callback
  <2>3. KeysTyped' /\ MessagesTyped' /\ MessagesSound' /\ params' = params
    <3> HIDE DEF AsCallback
    <3> QED
      BY <1>3, <2>2 DEF Post, KeysTyped, MessagesTyped, MessagesSound,
                        epochVars, indexVars, sharedVars
  <2> QED
    BY <1>3, <2>3, ReturnSound DEF Post
<1> QED
  BY <1>1, <1>2, <1>3 DEF AddToPendingTxns

LEMMA OthersSound ==
  ASSUME PipelineInv,
         \/ \E p \in Goroutines : WriteFails(p)
         \/ ProcessDies
         \/ Settle
         \/ \E t \in txs : TxConfirmed(t)
         \/ \E e \in pending : Resubmit(e)
  PROVE  PipelineInv'
<1> USE DEF PipelineInv
<1>1. ASSUME NEW p \in Goroutines, WriteFails(p) PROVE PipelineInv'
  <2>1. KeysTyped' /\ MessagesTyped' /\ MessagesSound' /\ params' = params
    BY <1>1 DEF WriteFails, Fails, KeysTyped, MessagesTyped, MessagesSound,
                epochVars, indexVars, outVars, sharedVars
  <2> QED
    BY <1>1, <2>1, ReturnSound DEF WriteFails
<1>2. CASE ProcessDies
  <2>1. KeysTyped' /\ MessagesTyped' /\ MessagesSound'
    BY <1>2 DEF ProcessDies, Fails, KeysTyped, MessagesTyped, MessagesSound,
                epochVars, indexVars, outVars
  <2>2. Poller \in Goroutines /\ Workers \subseteq Goroutines
    BY DEF Goroutines
  <2>3. \A p \in Goroutines : /\ pc'[p] = "idle" /\ job'[p] = NoJob
                              /\ size'[p] = 0
    BY <1>2 DEF ProcessDies
  <2>4. \A p \in Goroutines : IsSound(pc[p], job[p], size[p])'
    BY <2>3, IdleIsSound
  <2>5. LocalsTyped'
    BY <1>2 DEF ProcessDies, LocalsTyped, Labels
  <2> QED
    BY <2>1, <2>2, <2>3, <2>4, <2>5 DEF GoroutinesSound
<1>3. CASE Settle
  BY <1>3 DEF Settle, KeysTyped, MessagesTyped, MessagesSound, LocalsTyped,
              GoroutinesSound, epochVars, indexVars, outVars, sharedVars,
              localVars
<1>4. CASE \E t \in txs : TxConfirmed(t)
  BY <1>4 DEF TxConfirmed, KeysTyped, MessagesTyped, MessagesSound, LocalsTyped,
              GoroutinesSound, epochVars, indexVars, outVars, sharedVars,
              localVars
<1>5. ASSUME NEW e \in pending, Resubmit(e) PROVE PipelineInv'
  <2> DEFINE m == [commit |-> e.commit, height |-> e.height, cid |-> e.cid,
                   touched |-> 1, req |-> 0]
             f == [e EXCEPT !.touched = 1]
  <2>1. e \in PendingEntry /\ e.height # 0
    BY DEF MessagesTyped
  <2>2. m \in StoredJob /\ m \in Job /\ m.req = 0
    BY <2>1 DEF PendingEntry, StoredJob, Job
  <2>3. f \in PendingEntry /\ f.height # 0
    BY <2>1 DEF PendingEntry
  <2>4. queue' = queue \union {m} /\ pending' = (pending \ {e}) \union {f}
    BY <1>5 DEF Resubmit
  <2>5. MessagesTyped' /\ MessagesSound'
    <3> HIDE DEF m, f
    <3> QED
      BY <1>5, <2>2, <2>3, <2>4
         DEF Resubmit, MessagesTyped, MessagesSound, outVars, sharedVars
  <2> QED
    BY <1>5, <2>5 DEF Resubmit, KeysTyped, LocalsTyped, GoroutinesSound,
                      epochVars, indexVars, outVars, sharedVars, localVars
<1> QED
  BY <1>1, <1>2, <1>3, <1>4, <1>5

LEMMA PipelineInit == Init => PipelineInv
<1> SUFFICES ASSUME Init PROVE PipelineInv
  OBVIOUS
<1> USE DEF Init
<1>1. \A m \in queue : m \in Job /\ m.req = 0 /\ m.touched = 0
  BY DEF NoJob, Job
<1>2. KeysTyped /\ MessagesTyped /\ MessagesSound
  BY <1>1, KeysAreNaturals, CommitSettings
     DEF KeysTyped, MessagesTyped, MessagesSound
<1>3. LocalsTyped
  BY DEF LocalsTyped, Labels
<1>4. \A p \in Goroutines : IsSound(pc[p], job[p], size[p])
  BY IdleIsSound
<1>5. GoroutinesSound
  BY <1>4 DEF GoroutinesSound, Goroutines
<1> QED
  BY <1>2, <1>3, <1>5 DEF PipelineInv

LEMMA PipelineStep ==
  ASSUME PipelineInv, [Next]_vars
  PROVE  PipelineInv'
<1>1. ASSUME NEW w \in Workers, Work(w) PROVE PipelineInv'
  <2>1. w \in Goroutines
    BY DEF Goroutines
  <2> QED
    BY <1>1, <2>1, TakeSound, ReadHeightSound, EpochStepsSound, FirstSound,
       StoreSound, SetParamsSound, SendSound, ProposeSound, PendingSound
       DEF Work, AssignTentativeHeight
<1>2. CASE Poll
  BY <1>2, PollSound, PendingSound, PollerTypes DEF Poll
<1>3. CASE Failure
  BY <1>3, FirstSound, SendSound, PendingSound, PollSound, OthersSound
     DEF Failure
<1>4. CASE UNCHANGED vars
  BY <1>4 DEF vars, PipelineInv, KeysTyped, MessagesTyped, MessagesSound,
              LocalsTyped, GoroutinesSound, epochVars, indexVars, outVars,
              sharedVars, localVars
<1> QED
  BY <1>1, <1>2, <1>3, <1>4, OthersSound DEF Next

LEMMA PipelineHolds == Spec => []PipelineInv
BY PipelineInit, PipelineStep, PTL DEF Spec

(***************************************************************************)
(* The record of meetings                                                  *)
(***************************************************************************)
\* A step adds to the record at most those that a goroutine meets in it.
MeetsAt(met, newMet, w, L) == newMet = met \union Meeting(w, L)

LEMMA MeetingsFrame ==
  ASSUME [Next]_vars
  PROVE  /\ metAtEpoch' = metAtEpoch
            \/ \E w \in Workers : /\ pc[w] = "readSize"
                                  /\ MeetsAt(metAtEpoch, metAtEpoch', w, EpochCalls)
         /\ metAtCounter' = metAtCounter
            \/ \E w \in Workers : /\ pc[w] = "readHeight"
                                  /\ MeetsAt(metAtCounter, metAtCounter', w, CounterCalls)
         /\ metAtParams' = metAtParams
            \/ \E w \in Workers : /\ pc[w] = "params"
                                  /\ MeetsAt(metAtParams, metAtParams', w, ParamsCalls)
<1>1. ASSUME NEW p \in Goroutines,
             AddToPendingTxns(p) \/ RemoveFails(p) \/ WriteFails(p)
      PROVE  UNCHANGED meetings
  BY <1>1 DEF AddToPendingTxns, PendRemove, PendAdd, Post, RemoveFails, WriteFails
<1>2. ASSUME NEW w \in Workers,
             \/ Take(w) \/ SetSize(w) \/ SetFirst(w) \/ ReadFirst(w)
             \/ ReadFails(w) \/ Index(w) \/ SetHeight(w) \/ Send(w)
             \/ SendFails(w) \/ SubmitForConsensus(w)
      PROVE  UNCHANGED meetings
  BY <1>2 DEF Take, SetSize, SetFirst, ReadFirst, ReadFails, Index, SetHeight,
     Send, SendFails, SubmitForConsensus, ProposeAccepted, ProposeFinalized,
     ProposeOther
<1>3. CASE PollRead \/ PollExpired \/ PollNotYet \/ PollFinalized \/ ProcessDies
  BY <1>3 DEF PollRead, PollExpired, PollNotYet, PollFinalized, ProcessDies,
              meetings
<1>4. CASE \/ Settle \/ (\E t \in txs : TxConfirmed(t))
           \/ (\E e \in pending : Resubmit(e)) \/ UNCHANGED vars
  BY <1>4 DEF Settle, TxConfirmed, Resubmit, vars, meetings
<1>5. CASE \E w \in Workers : ReadSize(w)
  BY <1>5 DEF ReadSize, MeetsAt
<1>6. CASE \E w \in Workers : ReadHeight(w)
  BY <1>6 DEF ReadHeight, MeetsAt
<1>7. CASE \E w \in Workers : SetParams(w)
  BY <1>7 DEF SetParams, MeetsAt
<1>8. Workers \subseteq Goroutines /\ Poller \in Goroutines
  BY DEF Goroutines
<1>9. \/ UNCHANGED meetings
      \/ \E w \in Workers : ReadSize(w) \/ ReadHeight(w) \/ SetParams(w)
      \/ PollRead \/ PollExpired \/ PollNotYet \/ PollFinalized \/ ProcessDies
      \/ Settle \/ (\E t \in txs : TxConfirmed(t))
      \/ (\E e \in pending : Resubmit(e)) \/ UNCHANGED vars
  <2>1. ASSUME NEW w \in Workers, Work(w)
        PROVE  UNCHANGED meetings \/ ReadSize(w) \/ ReadHeight(w) \/ SetParams(w)
    BY <1>1, <1>2, <1>8, <2>1 DEF Work, AssignTentativeHeight
  <2>2. CASE Poll
    BY <1>1, <1>8, <2>2 DEF Poll
  <2>3. CASE Failure
    BY <1>1, <1>2, <1>8, <2>3 DEF Failure
  <2> QED
    BY <2>1, <2>2, <2>3 DEF Next
<1> QED
  BY <1>3, <1>4, <1>5, <1>6, <1>7, <1>9 DEF meetings

\* The record only grows.
LEMMA MeetingsGrow ==
  ASSUME [Next]_vars
  PROVE  /\ metAtEpoch \subseteq metAtEpoch'
         /\ metAtCounter \subseteq metAtCounter'
         /\ metAtParams \subseteq metAtParams'
BY MeetingsFrame DEF MeetsAt

MeetingsTyped ==
    /\ metAtEpoch \subseteq Commits
    /\ metAtCounter \subseteq Commits
    /\ metAtParams \subseteq Commits

LEMMA MeetingsTypedStep ==
  ASSUME PipelineInv, MeetingsTyped, [Next]_vars
  PROVE  MeetingsTyped'
<1>1. \A w \in Workers : pc[w] # "idle" => job[w].commit \in Commits
  BY WorkerTypes DEF Job
<1>2. ASSUME NEW w \in Workers, pc[w] # "idle", NEW L, "idle" \notin L
      PROVE  Meeting(w, L) \subseteq Commits
  BY <1>1, <1>2 DEF Meeting
<1>3. /\ "idle" \notin EpochCalls /\ "idle" \notin CounterCalls
      /\ "idle" \notin ParamsCalls
  BY DEF EpochCalls, CounterCalls, ParamsCalls
<1>4. \A w \in Workers :
         /\ pc[w] = "readSize" => Meeting(w, EpochCalls) \subseteq Commits
         /\ pc[w] = "readHeight" => Meeting(w, CounterCalls) \subseteq Commits
         /\ pc[w] = "params" => Meeting(w, ParamsCalls) \subseteq Commits
  BY <1>2, <1>3
<1>5. (metAtEpoch \subseteq Commits)'
  BY <1>4, MeetingsFrame DEF MeetingsTyped, MeetsAt
<1>6. (metAtCounter \subseteq Commits)'
  BY <1>4, MeetingsFrame DEF MeetingsTyped, MeetsAt
<1>7. (metAtParams \subseteq Commits)'
  BY <1>4, MeetingsFrame DEF MeetingsTyped, MeetsAt
<1> QED
  BY <1>5, <1>6, <1>7 DEF MeetingsTyped

\* Keys, messages and locals keep their types: a stored snapshot has its CID
\* and a height other than 0 in every message and at every label.
THEOREM TypeCorrect == Spec => []TypeOK
<1>1. ASSUME PipelineInv, MeetingsTyped PROVE TypeOK
  <2>1. waitQueue \in Job \union {NoJob} /\ params \in Job \union {NoJob}
    BY <1>1 DEF PipelineInv, MessagesSound, StoredJob
  <2>2. \A p \in Goroutines :
          /\ pc[p] # "idle" => job[p] \in Job
          /\ pc[p] \in StoredLabels => job[p].cid \in Cids /\ job[p].height # 0
          /\ pc[p] = "index" => job[p].height # 0
    BY <1>1 DEF PipelineInv, GoroutinesSound, IsSound
  <2> QED
    BY <1>1, <2>1, <2>2
       DEF PipelineInv, KeysTyped, MessagesTyped, LocalsTyped, MeetingsTyped,
           TypeOK
<1>2. Init => MeetingsTyped
  BY DEF Init, MeetingsTyped
<1> QED
  BY <1>1, <1>2, PipelineHolds, MeetingsTypedStep, PTL DEF Spec

(***************************************************************************)
(* The keys of the first epoch                                             *)
(***************************************************************************)
\* At most one goroutine stands at the labels L.
Alone(L) == \A v, w \in Workers : pc[v] \in L /\ pc[w] \in L => v = w

\* A goroutine that meets no other on its way to L is alone there.
LEMMA ArrivesAlone ==
  ASSUME NEW L, NEW w \in Workers, Meeting(w, L) = {},
         \A v \in Workers \ {w} : pc'[v] = pc[v]
  PROVE  Alone(L)'
<1>1. \A v \in Workers \ {w} : pc[v] \notin L
  BY DEF Meeting
<1> QED
  BY <1>1 DEF Alone

\* Where no goroutine arrives, the one that is alone stays so.
LEMMA StaysAlone ==
  ASSUME NEW L, Alone(L), \A v \in Workers : pc'[v] \in L => pc[v] \in L
  PROVE  Alone(L)'
BY DEF Alone

\* The project has both keys, or the size alone, or starts without any.
SizeComesFirst == KnownSize = 0 => KnownFirst = 0

\* Who writes a key has found it missing, and it is missing still.
KeysInv ==
    /\ KnownSize # 0 => epochSize = KnownSize /\ firstEpochEndHeight = KnownFirst
    /\ epochSize = 0 => firstEpochEndHeight = 0
    /\ \A w \in Workers :
          /\ pc[w] = "setSize" => epochSize = 0
          /\ pc[w] = "setFirst" =>
                epochSize # 0 /\ firstEpochEndHeight = 0 /\ KnownSize = 0

LEMMA KeysInit == ASSUME SizeComesFirst, Init PROVE KeysInv
BY KeysAreNaturals DEF Init, KeysInv, SizeComesFirst, Goroutines

\* A step that leaves the keys and brings no goroutine to a write of them.
LEMMA KeysStay ==
  ASSUME KeysInv, UNCHANGED epochVars,
         \A w \in Workers : pc'[w] \in {"setSize", "setFirst"} => pc'[w] = pc[w]
  PROVE  KeysInv'
BY DEF KeysInv, epochVars

\* A goroutine that goes to a label other than the writes of the keys.
LEMMA ElsewhereStays ==
  ASSUME PipelineInv, NEW p \in Goroutines, NEW l,
         l \notin {"setSize", "setFirst"}, pc' = [pc EXCEPT ![p] = l]
  PROVE  \A w \in Workers : pc'[w] \in {"setSize", "setFirst"} => pc'[w] = pc[w]
BY DEF PipelineInv, LocalsTyped, Goroutines

\* The steps that do not write a key, and lead to no write of one.
LEMMA KeysElsewhere ==
  ASSUME PipelineInv, [Next]_vars,
         \A w \in Workers : ~ReadSize(w) /\ ~SetSize(w) /\ ~SetFirst(w)
  PROVE  /\ UNCHANGED epochVars
         /\ \A w \in Workers : pc'[w] \in {"setSize", "setFirst"} => pc'[w] = pc[w]
<1> DEFINE Goal == /\ UNCHANGED epochVars
                   /\ \A w \in Workers :
                        pc'[w] \in {"setSize", "setFirst"} => pc'[w] = pc[w]
           Moves(p) == \E l \in Labels \ {"setSize", "setFirst"} : GoTo(p, l)
<1>0. Poller \in Goroutines /\ Workers \subseteq Goroutines
  BY DEF Goroutines
<1>1. ASSUME NEW p \in Goroutines, Moves(p), UNCHANGED epochVars PROVE Goal
  BY <1>1, ElsewhereStays DEF GoTo
<1>2. ASSUME NEW p \in Goroutines, AddToPendingTxns(p) \/ RemoveFails(p) \/ WriteFails(p)
      PROVE  Goal
  <2>1. Moves(p) /\ UNCHANGED epochVars
    BY <1>2 DEF AddToPendingTxns, PendRemove, PendAdd, Post, RemoveFails,
                WriteFails, Return, GoTo, Labels, StoredLabels, HeightLabels
  <2> QED
    BY <1>1, <2>1
<1>3. \A j : AfterStored(j) \in Labels \ {"setSize", "setFirst"}
  BY DEF AfterStored, Labels, StoredLabels
<1>4. ASSUME NEW w \in Workers,
             \/ Take(w) \/ ReadHeight(w) \/ ReadFirst(w) \/ ReadFails(w)
             \/ Index(w) \/ SetHeight(w)
      PROVE  Goal
  <2>1. Moves(w) /\ UNCHANGED epochVars
    BY <1>3, <1>4 DEF Take, ReadHeight, ReadFirst, ReadFails, AssignHeight,
       Index, SetHeight, Return, GoTo, Labels, StoredLabels, HeightLabels
  <2> QED
    BY <1>0, <1>1, <2>1
<1>5. ASSUME NEW w \in Workers,
             \/ SetParams(w) \/ Send(w) \/ SendFails(w) \/ SubmitForConsensus(w)
      PROVE  Goal
  <2>1. Moves(w) /\ UNCHANGED epochVars
    BY <1>5 DEF SetParams, Send, SendFails, ToPending, SubmitForConsensus,
       ProposeAccepted, ProposeFinalized, ProposeOther, Return, GoTo, Labels,
       StoredLabels, HeightLabels
  <2> QED
    BY <1>0, <1>1, <2>1
<1>6. ASSUME PollRead \/ PollExpired \/ PollNotYet \/ PollFinalized PROVE Goal
  <2>1. Moves(Poller) /\ UNCHANGED epochVars
    BY <1>6 DEF PollRead, PollExpired, PollNotYet, PollFinalized, Return, GoTo,
                Labels, StoredLabels, HeightLabels
  <2> QED
    BY <1>0, <1>1, <2>1
<1>7. CASE ProcessDies
  BY <1>7, <1>0 DEF ProcessDies, epochVars
<1>8. CASE \/ Settle \/ (\E t \in txs : TxConfirmed(t))
           \/ (\E e \in pending : Resubmit(e)) \/ UNCHANGED vars
  BY <1>8 DEF Settle, TxConfirmed, Resubmit, vars, localVars, epochVars
<1>9. ASSUME NEW w \in Workers, Work(w) PROVE Goal
  BY <1>0, <1>2, <1>4, <1>5, <1>9 DEF Work, AssignTentativeHeight
<1>10. CASE Poll
  BY <1>0, <1>2, <1>6, <1>10 DEF Poll
<1>11. CASE Failure
  BY <1>0, <1>2, <1>4, <1>5, <1>6, <1>7, <1>11 DEF Failure
<1> QED
  BY <1>8, <1>9, <1>10, <1>11 DEF Next

LEMMA KeysStep ==
  ASSUME KnownSize # 0 \/ Alone(EpochCalls), PipelineInv, KeysInv, [Next]_vars
  PROVE  /\ KeysInv'
         /\ epochSize # 0 => epochSize' = epochSize
         /\ firstEpochEndHeight # 0 => firstEpochEndHeight' = firstEpochEndHeight
<1>1. ASSUME NEW w \in Workers, ReadSize(w)
      PROVE  KeysInv' /\ UNCHANGED epochVars
  <2>1. w \in Goroutines /\ pc[w] = "readSize"
    BY <1>1 DEF Goroutines, ReadSize
  <2>2. /\ pc'[w] = "setSize" => epochSize = 0
        /\ pc'[w] # "setFirst"
        /\ \A v \in Workers \ {w} : pc'[v] = pc[v]
    BY <1>1, <2>1 DEF ReadSize, GoTo, PipelineInv, LocalsTyped, Goroutines
  <2> QED
    BY <1>1, <2>2 DEF ReadSize, KeysInv, epochVars
<1>2. ASSUME NEW w \in Workers, SetSize(w)
      PROVE  KeysInv' /\ epochSize = 0 /\ firstEpochEndHeight' = firstEpochEndHeight
  <2>1. w \in Goroutines /\ pc[w] = "setSize" /\ size[w] > 0 /\ size[w] \in Int
    BY <1>2, WorkerTypes DEF SetSize, IsSound
  <2>2. /\ epochSize = 0 /\ KnownSize = 0 /\ firstEpochEndHeight = 0
        /\ Alone(EpochCalls)
    BY <1>2, <2>1, KeysAreNaturals DEF KeysInv
  <2>3. /\ pc'[w] = "setFirst" /\ epochSize' # 0
        /\ firstEpochEndHeight' = firstEpochEndHeight
        /\ \A v \in Workers \ {w} : pc'[v] = pc[v]
    BY <1>2, <2>1 DEF SetSize, GoTo, PipelineInv, LocalsTyped, Goroutines
  <2>4. \A v \in Workers \ {w} : pc[v] \notin EpochCalls
    BY <2>1, <2>2 DEF Alone, EpochCalls
  <2> QED
    BY <2>2, <2>3, <2>4 DEF KeysInv, EpochCalls
<1>3. ASSUME NEW w \in Workers, SetFirst(w)
      PROVE  KeysInv' /\ firstEpochEndHeight = 0 /\ epochSize' = epochSize
  <2>1. w \in Goroutines /\ pc[w] = "setFirst" /\ epochSize' = epochSize
    BY <1>3, WorkerTypes DEF SetFirst
  <2>2. /\ firstEpochEndHeight = 0 /\ KnownSize = 0 /\ epochSize # 0
        /\ Alone(EpochCalls)
    BY <2>1 DEF KeysInv
  <2>3. /\ pc'[w] = "readFirst"
        /\ \A v \in Workers \ {w} : pc'[v] = pc[v]
    BY <1>3, <2>1 DEF SetFirst, GoTo, PipelineInv, LocalsTyped, Goroutines
  <2>4. \A v \in Workers \ {w} : pc[v] \notin EpochCalls
    BY <2>1, <2>2 DEF Alone, EpochCalls
  <2> QED
    BY <2>1, <2>2, <2>3, <2>4 DEF KeysInv, EpochCalls
<1>4. CASE \A w \in Workers : ~ReadSize(w) /\ ~SetSize(w) /\ ~SetFirst(w)
  BY <1>4, KeysElsewhere, KeysStay DEF epochVars
<1> QED
  BY <1>1, <1>2, <1>3, <1>4 DEF epochVars

\* A goroutine that found no epoch is alone, as long as none met another.
LEMMA EpochAlone ==
  ASSUME PipelineInv, Alone(EpochCalls), [Next]_vars, metAtEpoch' = {}
  PROVE  Alone(EpochCalls)'
<1>0. Workers \subseteq Goroutines
  BY DEF Goroutines
<1>1. ASSUME NEW w \in Workers, ReadSize(w) PROVE Alone(EpochCalls)'
  <2>1. \A v \in Workers \ {w} : pc'[v] = pc[v]
    BY <1>0, <1>1 DEF ReadSize, GoTo, PipelineInv, LocalsTyped
  <2>2. CASE epochSize = 0
    <3>1. Meeting(w, EpochCalls) = {}
      BY <1>1, <2>2 DEF ReadSize
    <3> QED
      BY <2>1, <3>1, ArrivesAlone
  <2>3. CASE epochSize # 0
    <3>1. pc'[w] \notin EpochCalls
      BY <1>0, <1>1, <2>3
         DEF ReadSize, GoTo, EpochCalls, PipelineInv, LocalsTyped
    <3> QED
      BY <2>1, <3>1, StaysAlone
  <2> QED
    BY <2>2, <2>3
<1>2. ASSUME NEW w \in Workers, SetSize(w) \/ SetFirst(w)
      PROVE  Alone(EpochCalls)'
  <2>1. pc[w] \in EpochCalls /\ \A v \in Workers \ {w} : pc'[v] = pc[v]
    BY <1>0, <1>2
       DEF SetSize, SetFirst, GoTo, EpochCalls, PipelineInv, LocalsTyped
  <2> QED
    BY <2>1, StaysAlone
<1>3. CASE \A w \in Workers : ~ReadSize(w) /\ ~SetSize(w) /\ ~SetFirst(w)
  BY <1>3, KeysElsewhere, StaysAlone DEF EpochCalls
<1> QED
  BY <1>1, <1>2, <1>3

\* The invariant of the keys, as long as no two goroutines met at them.
KeysUnlessMet == metAtEpoch = {} => KeysInv /\ Alone(EpochCalls)

\* The size of an epoch and the end of the first one never change once they are
\* recorded, whatever fails between the two writes, unless two goroutines have
\* found the project without an epoch at the same time.
THEOREM EpochKeysStay ==
  ASSUME SizeComesFirst PROVE Spec => EpochKeysAreFinal
<1> DEFINE A == metAtEpoch' = {} =>
                /\ epochSize # 0 => epochSize' = epochSize
                /\ firstEpochEndHeight # 0 =>
                      firstEpochEndHeight' = firstEpochEndHeight
<1>1. Init => KeysUnlessMet
  BY KeysInit DEF Init, KeysUnlessMet, Alone, EpochCalls, Goroutines
<1>2. ASSUME PipelineInv, KeysUnlessMet, [Next]_vars
      PROVE  KeysUnlessMet' /\ [A]_vars
  <2>1. SUFFICES ASSUME metAtEpoch' = {}
                 PROVE  KeysInv' /\ Alone(EpochCalls)' /\ A
    BY DEF KeysUnlessMet
  <2>2. KeysInv /\ Alone(EpochCalls)
    BY <1>2, <2>1, MeetingsGrow DEF KeysUnlessMet
  <2> QED
    BY <1>2, <2>1, <2>2, KeysStep, EpochAlone
<1>3. Spec => [][A]_vars
  BY <1>1, <1>2, PipelineHolds, PTL DEF Spec
<1> QED
  BY <1>3 DEF EpochKeysAreFinal

(***************************************************************************)
(* The snapshots in flight                                                 *)
(***************************************************************************)
\* A stored snapshot, wherever it is: what all its copies have in common.
Snapshot(x) == [commit |-> x.commit, height |-> x.height, cid |-> x.cid]

\* The snapshots goroutines at the labels L work on.
JobsAt(L) == {Snapshot(job[p]) : p \in {q \in Goroutines : pc[q] \in L}}

WaitingLabels == {"propose", "check"}
QueuedLabels == StoredLabels \ (WaitingLabels \union {"setHeight"})

\* Snapshots that consensus has still to settle, those whose height is still to
\* be written back, and those that are queued for the finalizer or on their way
\* there.
Waiting == JobsAt(WaitingLabels)
           \union {Snapshot(j) : j \in {waitQueue} \ {NoJob}}
Unrecorded == JobsAt({"setHeight"})
Resubmitted == {m \in queue : m.touched = 1}
Queued == JobsAt(QueuedLabels)
          \union {Snapshot(m) : m \in Resubmitted}
          \union {Snapshot(e) : e \in pending}

InFlight == Queued \union Waiting \union Unrecorded

\* It is up to consensus which snapshot of the epoch is queued.
NeedsConsensus(x) ==
    UseConsensus /\ IsOrdered(x.commit) /\ x.commit \notin Anchored

\* x is the snapshot of which w has just indexed the CID.
IsIndexedBy(w, x) ==
    /\ Index(w)
    /\ x = [commit |-> job[w].commit, height |-> job[w].height,
            cid |-> Content[job[w].commit]]

\* x waited for consensus and has the CID that was settled on.
HasSettled(x) ==
    /\ IsOrdered(x.commit) /\ UseConsensus
    /\ finalizedCid[End[x.commit]] = x.cid /\ UNCHANGED finalizedCid
    /\ \E y \in Waiting : y.commit = x.commit /\ y.height = x.height

\* x waited for consensus, and the service answered neither ACCEPTED nor
\* FINALIZED.
WasUndecided(x) == x \in Waiting /\ Statuses \ {"ACCEPTED", "FINALIZED"} # {}

\* Only the goroutine that moves brings a snapshot to other labels.
LEMMA JobsMove ==
  ASSUME LocalsTyped, NEW p \in Goroutines, NEW l, NEW j, NEW L,
         pc' = [pc EXCEPT ![p] = l], job' = [job EXCEPT ![p] = j]
  PROVE  \A x \in JobsAt(L)' : x \in JobsAt(L) \/ (l \in L /\ x = Snapshot(j))
<1> SUFFICES ASSUME NEW q \in Goroutines, pc'[q] \in L
             PROVE  \/ Snapshot(job'[q]) \in JobsAt(L)
                    \/ l \in L /\ Snapshot(job'[q]) = Snapshot(j)
  BY DEF JobsAt, Snapshot
<1>1. CASE q = p
  BY <1>1 DEF LocalsTyped
<1>2. CASE q # p
  <2>1. pc'[q] = pc[q] /\ job'[q] = job[q]
    BY <1>2 DEF LocalsTyped
  <2> QED
    BY <2>1 DEF JobsAt
<1> QED
  BY <1>1, <1>2

\* A goroutine at one of the labels L works on one of their snapshots.
LEMMA JobIsAt ==
  ASSUME NEW p \in Goroutines, NEW L, pc[p] \in L
  PROVE  Snapshot(job[p]) \in JobsAt(L)
BY DEF JobsAt

\* A goroutine whose snapshot is stored and is not waiting has it queued.
LEMMA QueuedWhenStored ==
  ASSUME NEW p \in Goroutines
  PROVE  /\ pc[p] \in QueuedLabels => Snapshot(job[p]) \in Queued
         /\ pc[p] \in WaitingLabels => Snapshot(job[p]) \in Waiting
         /\ pc[p] = "setHeight" => Snapshot(job[p]) \in Unrecorded
BY JobIsAt DEF Queued, Waiting, Unrecorded

\* A step of one goroutine that adds nothing but its own job j at label l.
LEMMA FlowMoves ==
  ASSUME PipelineInv, NEW p \in Goroutines, NEW l, NEW j,
         pc' = [pc EXCEPT ![p] = l], job' = [job EXCEPT ![p] = j],
         \A m \in Resubmitted' : m \in queue,
         \A e \in pending' : Snapshot(e) \in Queued,
         waitQueue' \in {waitQueue, NoJob} \/ Snapshot(waitQueue') \in Waiting
  PROVE  /\ \A x \in Queued' :
              x \in Queued \/ (l \in QueuedLabels /\ x = Snapshot(j))
         /\ \A x \in Waiting' :
              x \in Waiting \/ (l \in WaitingLabels /\ x = Snapshot(j))
         /\ \A x \in Unrecorded' :
              x \in Unrecorded \/ (l = "setHeight" /\ x = Snapshot(j))
<1>1. LocalsTyped
  BY DEF PipelineInv
<1>2. \A x \in JobsAt(QueuedLabels)' :
         x \in JobsAt(QueuedLabels) \/ (l \in QueuedLabels /\ x = Snapshot(j))
  BY <1>1, JobsMove
<1>3. \A x \in JobsAt(WaitingLabels)' :
         x \in JobsAt(WaitingLabels) \/ (l \in WaitingLabels /\ x = Snapshot(j))
  BY <1>1, JobsMove
<1>4. \A m \in Resubmitted' : Snapshot(m) \in Queued
  BY DEF Resubmitted, Queued
<1>5. \A x \in Queued' : \/ x \in JobsAt(QueuedLabels)'
                         \/ \E m \in Resubmitted' : x = Snapshot(m)
                         \/ \E e \in pending' : x = Snapshot(e)
  BY DEF Queued, Snapshot
<1>6. \A x \in Waiting' : \/ x \in JobsAt(WaitingLabels)'
                          \/ waitQueue' # NoJob /\ x = Snapshot(waitQueue')
  BY DEF Waiting, Snapshot
<1>7. waitQueue' # NoJob => Snapshot(waitQueue') \in Waiting
  BY DEF Waiting
<1>8. JobsAt(QueuedLabels) \subseteq Queued /\ JobsAt(WaitingLabels) \subseteq Waiting
  BY DEF Queued, Waiting
<1>9. \A x \in Queued' :
              x \in Queued \/ (l \in QueuedLabels /\ x = Snapshot(j))
  BY <1>2, <1>4, <1>5, <1>8
<1>10. \A x \in Waiting' :
              x \in Waiting \/ (l \in WaitingLabels /\ x = Snapshot(j))
  BY <1>3, <1>6, <1>7, <1>8
<1>11. \A x \in Unrecorded' :
              x \in Unrecorded \/ (l \in {"setHeight"} /\ x = Snapshot(j))
  BY <1>1, JobsMove DEF Unrecorded
<1> QED
  BY <1>9, <1>10, <1>11

\* Where every snapshot that is in flight after a step comes from.
FlowStep ==
    /\ \A x \in Queued' : \/ x \in Queued
                          \/ /\ \E w \in Workers : IsIndexedBy(w, x)
                             /\ IsOrdered(x.commit) /\ ~NeedsConsensus(x)
                          \/ \E w \in Workers :
                                SetHeight(w) /\ x = Snapshot(job[w])
                          \/ HasSettled(x)
                          \/ WasUndecided(x)
    /\ \A x \in Waiting' : x \in Waiting \/ \E w \in Workers : IsIndexedBy(w, x)
    /\ \A x \in Unrecorded' :
          x \in Unrecorded \/ \E w \in Workers : IsIndexedBy(w, x)

\* A goroutine that goes to a label whose snapshots are not stored.
LEMMA FlowNone ==
  ASSUME PipelineInv, NEW p \in Goroutines, NEW l \in Labels \ StoredLabels,
         NEW j, pc' = [pc EXCEPT ![p] = l], job' = [job EXCEPT ![p] = j],
         \A m \in Resubmitted' : m \in queue, pending' = pending,
         waitQueue' \in {waitQueue, NoJob}
  PROVE  FlowStep
<1>1. \A e \in pending' : Snapshot(e) \in Queued
  BY DEF Queued
<1>2. l \notin QueuedLabels /\ l \notin WaitingLabels /\ l # "setHeight"
  BY DEF QueuedLabels, WaitingLabels, StoredLabels
<1> QED
  BY <1>1, <1>2, FlowMoves DEF FlowStep

\* A goroutine that goes on to queue a snapshot that is queued.
LEMMA FlowSame ==
  ASSUME PipelineInv, NEW p \in Goroutines, NEW l \in QueuedLabels,
         NEW j, pc' = [pc EXCEPT ![p] = l], job' = [job EXCEPT ![p] = j],
         Snapshot(j) \in Queued,
         \A m \in Resubmitted' : m \in queue,
         \A e \in pending' : Snapshot(e) \in Queued,
         waitQueue' = waitQueue
  PROVE  FlowStep
<1>1. l \notin WaitingLabels /\ l # "setHeight"
  BY DEF QueuedLabels
<1> QED
  BY <1>1, FlowMoves DEF FlowStep

LEMMA FlowStored ==
  ASSUME PipelineInv, NEW w \in Workers,
         Take(w) \/ Index(w) \/ SetHeight(w) \/ SetParams(w) \/ Send(w) \/ SendFails(w)
  PROVE  FlowStep
<1> USE WorkerTypes
<1>0. /\ \A m \in Resubmitted' : m \in queue
      /\ \A e \in pending' : Snapshot(e) \in Queued
      /\ waitQueue' = waitQueue /\ pending' = pending
  BY DEF Take, Index, SetHeight, SetParams, Send, SendFails, Resubmitted,
         Queued, sharedVars
<1>1. CASE Take(w)
  <2>1. PICK m \in queue :
          /\ job' = [job EXCEPT ![w] = m]
          /\ GoTo(w, IF m.touched = 1 THEN AfterStored(m)
                     ELSE IF IsOrdered(m.commit) THEN "readSize"
                     ELSE "readHeight")
    BY <1>1 DEF Take
  <2>2. CASE m.touched = 1
    <3>1. Snapshot(m) \in Queued
      BY <2>2 DEF Queued, Resubmitted
    <3>2. AfterStored(m) \in QueuedLabels
      BY <2>2 DEF AfterStored, WaitsForConsensus, QueuedLabels, WaitingLabels,
                  StoredLabels
    <3>3. pc' = [pc EXCEPT ![w] = AfterStored(m)]
      BY <2>1, <2>2 DEF GoTo
    <3> QED
      BY <1>0, <2>1, <3>1, <3>2, <3>3, FlowSame
  <2>3. CASE m.touched # 1
    <3> DEFINE l == IF IsOrdered(m.commit) THEN "readSize" ELSE "readHeight"
    <3>1. l \in Labels \ StoredLabels
      BY DEF Labels, HeightLabels, StoredLabels
    <3>2. pc' = [pc EXCEPT ![w] = l]
      BY <2>1, <2>3 DEF GoTo
    <3> HIDE DEF l
    <3> QED
      BY <1>0, <2>1, <3>1, <3>2, FlowNone
  <2> QED
    BY <2>2, <2>3
<1>2. CASE Index(w)
  <2> DEFINE j == [job[w] EXCEPT !.cid = Content[job[w].commit]]
  <2>1. job' = [job EXCEPT ![w] = j]
    BY <1>2 DEF Index
  <2> DEFINE l == IF IsOrdered(job[w].commit) THEN AfterStored(job[w])
                  ELSE "setHeight"
  <2>2. pc' = [pc EXCEPT ![w] = l]
    BY <1>2 DEF Index, GoTo
  <2>3. Snapshot(j) = [commit |-> job[w].commit, height |-> job[w].height,
                       cid |-> Content[job[w].commit]]
    BY <1>2 DEF Index, Snapshot, Job
  <2>4. IsIndexedBy(w, Snapshot(j))
    BY <1>2, <2>3 DEF IsIndexedBy
  <2>5. NeedsConsensus(Snapshot(j)) \/ ~IsOrdered(Snapshot(j).commit)
          => l \notin QueuedLabels
    <3>1. job[w].touched = 0 /\ Snapshot(j).commit = job[w].commit
      BY <1>2, <2>3 DEF Index, IsSound
    <3> QED
      BY <3>1 DEF NeedsConsensus, AfterStored, WaitsForConsensus,
                  QueuedLabels, WaitingLabels
  <2> HIDE DEF j, l
  <2> QED
    BY <1>0, <2>1, <2>2, <2>4, <2>5, FlowMoves DEF FlowStep
<1>3. CASE SetHeight(w)
  <2>1. job' = [job EXCEPT ![w] = job[w]]
        /\ pc' = [pc EXCEPT ![w] = AfterStored(job[w])]
    BY <1>3 DEF SetHeight, GoTo, PipelineInv, LocalsTyped
  <2>2. AfterStored(job[w]) \in QueuedLabels
    BY <1>3
       DEF SetHeight, IsSound, AfterStored, WaitsForConsensus, QueuedLabels,
           WaitingLabels, StoredLabels
  <2>3. AfterStored(job[w]) \notin WaitingLabels
        /\ AfterStored(job[w]) # "setHeight"
    BY <2>2 DEF QueuedLabels
  <2> QED
    BY <1>0, <1>3, <2>1, <2>2, <2>3, FlowMoves DEF FlowStep
<1>4. CASE SetParams(w)
  <2>1. job' = [job EXCEPT ![w] = job[w]]
        /\ pc' = [pc EXCEPT ![w] = "send"]
    BY <1>4 DEF SetParams, GoTo, PipelineInv, LocalsTyped
  <2>2. "send" \in QueuedLabels /\ Snapshot(job[w]) \in Queued
    BY <1>4, QueuedWhenStored
       DEF SetParams, QueuedLabels, WaitingLabels, StoredLabels
  <2> QED
    BY <1>0, <2>1, <2>2, FlowSame
<1>5. CASE Send(w) \/ SendFails(w)
  <2>1. PICK r : job' = [job EXCEPT ![w].req = r]
    BY <1>5 DEF Send, SendFails
  <2>2. PICK l \in {"params", "pendRemove", "pendAdd"} : pc' = [pc EXCEPT ![w] = l]
    BY <1>5 DEF Send, SendFails, ToPending, GoTo
  <2>3. pc[w] = "send" /\ Snapshot(job[w]) \in Queued
    BY <1>5, QueuedWhenStored
       DEF Send, SendFails, Fails, QueuedLabels, WaitingLabels, StoredLabels
  <2> DEFINE j == [job[w] EXCEPT !.req = r]
  <2>4. Snapshot(j) = Snapshot(job[w])
    BY <2>3 DEF Snapshot, Job
  <2>5. l \in QueuedLabels /\ job' = [job EXCEPT ![w] = j]
    BY <2>1 DEF QueuedLabels, WaitingLabels, StoredLabels
  <2> HIDE DEF j
  <2> QED
    BY <1>0, <2>2, <2>3, <2>4, <2>5, FlowSame
<1> QED
  BY <1>1, <1>2, <1>3, <1>4, <1>5

LEMMA FlowNumbered ==
  ASSUME PipelineInv, NEW w \in Workers,
         AssignTentativeHeight(w) \/ ReadFails(w)
  PROVE  FlowStep
<1> USE WorkerTypes
<1>1. /\ \A m \in Resubmitted' : m \in queue
      /\ waitQueue' = waitQueue /\ pending' = pending
  BY DEF AssignTentativeHeight, ReadHeight, ReadSize, SetSize, SetFirst,
         ReadFirst, ReadFails, Resubmitted, sharedVars
<1>2. \E l \in Labels \ StoredLabels : pc' = [pc EXCEPT ![w] = l]
  BY DEF AssignTentativeHeight, ReadHeight, ReadSize, SetSize, SetFirst,
         ReadFirst, ReadFails, AssignHeight, Return, GoTo, Labels,
         HeightLabels, StoredLabels
<1>3. \E j : job' = [job EXCEPT ![w] = j]
  <2>1. CASE UNCHANGED job
    <3>1. job' = [job EXCEPT ![w] = job[w]]
      BY <2>1 DEF PipelineInv, LocalsTyped
    <3> QED
      BY <3>1
  <2>2. CASE ~ UNCHANGED job
    BY <2>2
       DEF AssignTentativeHeight, ReadHeight, ReadSize, SetSize, SetFirst,
           ReadFirst, ReadFails, AssignHeight, Return
  <2> QED
    BY <2>1, <2>2
<1> QED
  BY <1>1, <1>2, <1>3, FlowNone

LEMMA FlowConsensus ==
  ASSUME PipelineInv,
         \/ \E w \in Workers : SubmitForConsensus(w)
         \/ PollRead \/ PollExpired \/ PollNotYet \/ PollFinalized
  PROVE  FlowStep
<1>0. /\ \A m \in Resubmitted' : m \in queue
      /\ \A e \in pending' : Snapshot(e) \in Queued
      /\ pending' = pending
  BY DEF SubmitForConsensus, ProposeAccepted, ProposeFinalized, ProposeOther,
         PollRead, PollExpired, PollNotYet, PollFinalized, Resubmitted, Queued
<1>a. "idle" \in Labels \ StoredLabels /\ "pendAdd" \in QueuedLabels
      /\ "pendAdd" \notin WaitingLabels /\ "pendAdd" # "setHeight"
  BY DEF Labels, StoredLabels, QueuedLabels, WaitingLabels
\* A snapshot that waited becomes one that is queued under the settled CID.
<1>1. ASSUME NEW p \in Goroutines, pc[p] \in WaitingLabels, job[p] \in StoredJob,
             IsWaiting(job[p]), IsFinalized(job[p]),
             job' = [job EXCEPT ![p].cid = finalizedCid[EpochOf(job[p])]],
             GoTo(p, "pendAdd"), UNCHANGED finalizedCid,
             waitQueue' \in {waitQueue, NoJob}
      PROVE  FlowStep
  <2> DEFINE j == [job[p] EXCEPT !.cid = finalizedCid[EpochOf(job[p])]]
  <2>1. /\ Snapshot(j).commit = job[p].commit
        /\ Snapshot(j).height = job[p].height
        /\ Snapshot(j).cid = finalizedCid[End[job[p].commit]]
    BY <1>1 DEF Snapshot, StoredJob, Job, EpochOf
  <2>2. HasSettled(Snapshot(j))
    <3>1. Snapshot(job[p]) \in Waiting
      BY <1>1, QueuedWhenStored
    <3>2. Snapshot(job[p]).commit = job[p].commit
          /\ Snapshot(job[p]).height = job[p].height
      BY DEF Snapshot
    <3>3. \E y \in Waiting : y.commit = Snapshot(j).commit
                             /\ y.height = Snapshot(j).height
      BY <2>1, <3>1, <3>2
    <3> HIDE DEF j
    <3> QED
      BY <1>1, <2>1, <3>3 DEF HasSettled, IsWaiting, WaitsForConsensus
  <2>3. job' = [job EXCEPT ![p] = j] /\ pc' = [pc EXCEPT ![p] = "pendAdd"]
    BY <1>1 DEF GoTo
  <2> HIDE DEF j
  <2>4. /\ \A x \in Queued' : x \in Queued \/ x = Snapshot(j)
        /\ Waiting' \subseteq Waiting /\ Unrecorded' \subseteq Unrecorded
    BY <1>a, <1>0, <1>1, <2>3, FlowMoves
  <2> QED
    BY <2>2, <2>4 DEF FlowStep
<1>2. ASSUME NEW w \in Workers, ProposeAccepted(w) PROVE FlowStep
  <2>1. w \in Goroutines /\ Snapshot(waitQueue') \in Waiting
    BY <1>2, WorkerTypes, QueuedWhenStored DEF ProposeAccepted, WaitingLabels
  <2>2. job' = [job EXCEPT ![w] = NoJob] /\ pc' = [pc EXCEPT ![w] = "idle"]
    BY <1>2 DEF ProposeAccepted, Return, GoTo
  <2>3. /\ "idle" \notin QueuedLabels /\ "idle" \notin WaitingLabels
        /\ "idle" # "setHeight"
    BY DEF QueuedLabels, WaitingLabels, StoredLabels
  <2> QED
    BY <1>0, <2>1, <2>2, <2>3, FlowMoves DEF FlowStep
<1>3. ASSUME NEW w \in Workers, ProposeFinalized(w) PROVE FlowStep
  <2>1. w \in Goroutines /\ pc[w] \in WaitingLabels /\ job[w] \in StoredJob
        /\ IsWaiting(job[w])
    BY <1>3, WorkerTypes
       DEF ProposeFinalized, WaitingLabels, IsSound, StoredLabels, StoredJob,
           IsWaiting
  <2> QED
    BY <1>1, <1>3, <2>1 DEF ProposeFinalized, sharedVars
<1>4. ASSUME NEW w \in Workers, ProposeOther(w) PROVE FlowStep
  <2>1. w \in Goroutines /\ Snapshot(job[w]) \in Waiting
    BY <1>4, WorkerTypes, QueuedWhenStored DEF ProposeOther, WaitingLabels
  <2>2. WasUndecided(Snapshot(job[w]))
    BY <1>4, <2>1 DEF ProposeOther, WasUndecided
  <2>3. job' = [job EXCEPT ![w] = job[w]] /\ pc' = [pc EXCEPT ![w] = "pendAdd"]
        /\ waitQueue' = waitQueue
    BY <1>4 DEF ProposeOther, GoTo, PipelineInv, LocalsTyped, sharedVars
  <2> QED
    BY <1>0, <1>a, <2>1, <2>2, <2>3, FlowMoves DEF FlowStep
<1>5. CASE PollExpired \/ PollNotYet
  <2>1. /\ job' = [job EXCEPT ![Poller] = NoJob]
        /\ pc' = [pc EXCEPT ![Poller] = "idle"]
        /\ waitQueue' \in {waitQueue, NoJob}
    BY <1>5 DEF PollExpired, PollNotYet, Return, GoTo, sharedVars
  <2> QED
    BY <1>0, <1>a, <2>1, PollerTypes, FlowNone
<1>6. CASE PollRead
  <2>1. /\ job' = [job EXCEPT ![Poller] = waitQueue]
        /\ pc' = [pc EXCEPT ![Poller] = "check"] /\ waitQueue' = waitQueue
    BY <1>6 DEF PollRead, GoTo, sharedVars
  <2>2. /\ Snapshot(waitQueue) \in Waiting /\ "check" \notin QueuedLabels
        /\ "check" # "setHeight"
    BY <1>6 DEF PollRead, Waiting, QueuedLabels, WaitingLabels
  <2> QED
    BY <1>0, <2>1, <2>2, PollerTypes, FlowMoves DEF FlowStep
<1>7. CASE PollFinalized
  <2>1. Poller \in Goroutines /\ pc[Poller] \in WaitingLabels
        /\ job[Poller] \in StoredJob /\ IsWaiting(job[Poller])
    BY <1>7, PollerTypes DEF PollFinalized, WaitingLabels
  <2> QED
    BY <1>1, <1>7, <2>1 DEF PollFinalized
<1> QED
  BY <1>2, <1>3, <1>4, <1>5, <1>6, <1>7 DEF SubmitForConsensus

LEMMA FlowPending ==
  ASSUME PipelineInv, NEW p \in Goroutines,
         AddToPendingTxns(p) \/ RemoveFails(p) \/ WriteFails(p)
  PROVE  FlowStep
<1>0. (\A m \in Resubmitted' : m \in queue) /\ waitQueue' = waitQueue
  BY DEF AddToPendingTxns, PendRemove, PendAdd, Post, RemoveFails, WriteFails,
         Resubmitted, sharedVars
<1>a. "idle" \in Labels \ StoredLabels /\ {"pendAdd", "post"} \subseteq QueuedLabels
  BY DEF Labels, StoredLabels, QueuedLabels, WaitingLabels
<1>1. ASSUME Return(p), pending' = pending PROVE FlowStep
  <2>1. job' = [job EXCEPT ![p] = NoJob] /\ pc' = [pc EXCEPT ![p] = "idle"]
    BY <1>1 DEF Return, GoTo
  <2> QED
    BY <1>0, <1>a, <1>1, <2>1, FlowNone
<1>2. CASE PendRemove(p) \/ RemoveFails(p)
  <2>1. job' = [job EXCEPT ![p] = job[p]] /\ pc' = [pc EXCEPT ![p] = "pendAdd"]
    BY <1>2 DEF PendRemove, RemoveFails, GoTo, PipelineInv, LocalsTyped
  <2>2. Snapshot(job[p]) \in Queued
    BY <1>2, QueuedWhenStored
       DEF PendRemove, RemoveFails, Fails, QueuedLabels, WaitingLabels,
           StoredLabels
  <2>3. \A e \in pending' : Snapshot(e) \in Queued
    BY <1>2 DEF PendRemove, RemoveFails, Queued
  <2> QED
    BY <1>0, <1>a, <2>1, <2>2, <2>3, FlowSame
<1>3. CASE PendAdd(p)
  <2> DEFINE r == IF job[p].commit \in Anchored THEN job[p].req ELSE issued + 1
             e0 == [commit |-> job[p].commit, height |-> job[p].height,
                    cid |-> job[p].cid, req |-> r, touched |-> job[p].touched]
             j == [job[p] EXCEPT !.req = r]
  <2>1. Snapshot(job[p]) \in Queued /\ job[p] \in Job
    BY <1>3, QueuedWhenStored, GoroutineTypes
       DEF PendAdd, QueuedLabels, WaitingLabels, StoredLabels, StoredJob
  <2>2. Snapshot(e0) = Snapshot(job[p]) /\ Snapshot(j) = Snapshot(job[p])
    BY <2>1 DEF Snapshot, Job
  <2>3. \A e \in pending' : Snapshot(e) \in Queued
    <3>1. pending' = pending \union {e0}
      BY <1>3 DEF PendAdd
    <3> HIDE DEF e0
    <3> QED
      BY <2>1, <2>2, <3>1 DEF Queued
  <2>4. CASE Return(p)
    <3>1. job' = [job EXCEPT ![p] = NoJob] /\ pc' = [pc EXCEPT ![p] = "idle"]
      BY <2>4 DEF Return, GoTo
    <3>2. /\ "idle" \notin QueuedLabels /\ "idle" \notin WaitingLabels
          /\ "idle" # "setHeight"
      BY DEF QueuedLabels, WaitingLabels, StoredLabels
    <3> QED
      BY <1>0, <2>3, <3>1, <3>2, FlowMoves DEF FlowStep
  <2>5. CASE job' = [job EXCEPT ![p].req = r] /\ GoTo(p, "post")
    <3>1. job' = [job EXCEPT ![p] = j] /\ pc' = [pc EXCEPT ![p] = "post"]
      BY <2>5 DEF GoTo
    <3> HIDE DEF j
    <3> QED
      BY <1>0, <1>a, <2>1, <2>2, <2>3, <3>1, FlowSame
  <2> QED
    BY <1>3, <2>4, <2>5 DEF PendAdd
<1>4. CASE Post(p) \/ WriteFails(p)
  BY <1>1, <1>4 DEF Post, WriteFails
<1> QED
  BY <1>2, <1>3, <1>4 DEF AddToPendingTxns

LEMMA FlowOthers ==
  ASSUME PipelineInv,
         \/ ProcessDies
         \/ Settle
         \/ \E t \in txs : TxConfirmed(t)
         \/ \E e \in pending : Resubmit(e)
         \/ UNCHANGED vars
  PROVE  FlowStep
<1>1. CASE ProcessDies
  <2>1. \A p \in Goroutines : pc'[p] = "idle"
    BY <1>1 DEF ProcessDies
  <2>2. /\ JobsAt(QueuedLabels)' = {} /\ JobsAt(WaitingLabels)' = {}
        /\ Unrecorded' = {}
    BY <2>1 DEF JobsAt, QueuedLabels, WaitingLabels, StoredLabels, Unrecorded
  <2>3. pending' = pending /\ queue' = queue /\ waitQueue' = NoJob
    BY <1>1 DEF ProcessDies
  <2> QED
    BY <2>2, <2>3 DEF FlowStep, Queued, Waiting, Resubmitted
<1>2. CASE Settle \/ (\E t \in txs : TxConfirmed(t)) \/ UNCHANGED vars
  <2>1. /\ pending' = pending /\ queue' = queue /\ waitQueue' = waitQueue
        /\ pc' = pc /\ job' = job
    BY <1>2 DEF Settle, TxConfirmed, vars, localVars, sharedVars
  <2> QED
    BY <2>1 DEF FlowStep, Queued, Waiting, Unrecorded, Resubmitted, JobsAt
<1>3. ASSUME NEW e \in pending, Resubmit(e) PROVE FlowStep
  <2> DEFINE m0 == [commit |-> e.commit, height |-> e.height, cid |-> e.cid,
                    touched |-> 1, req |-> 0]
             f0 == [e EXCEPT !.touched = 1]
  <2>1. e \in PendingEntry
    BY DEF PipelineInv, MessagesTyped
  <2>2. Snapshot(m0) = Snapshot(e) /\ Snapshot(f0) = Snapshot(e)
    BY <2>1 DEF Snapshot, PendingEntry
  <2>3. queue' = queue \union {m0} /\ pending' = (pending \ {e}) \union {f0}
    BY <1>3 DEF Resubmit
  <2>4. Snapshot(e) \in Queued
    BY DEF Queued
  <2> HIDE DEF m0, f0
  <2>5. \A x \in pending' : Snapshot(x) \in Queued
    BY <2>2, <2>3, <2>4 DEF Queued
  <2>6. \A x \in Resubmitted' : Snapshot(x) \in Queued
    BY <2>2, <2>3, <2>4 DEF Queued, Resubmitted
  <2>7. waitQueue' = waitQueue /\ pc' = pc /\ job' = job
    BY <1>3 DEF Resubmit, localVars, sharedVars
  <2>8. \A x \in Queued' : x \in Queued
    BY <2>5, <2>6, <2>7 DEF Queued, JobsAt
  <2> QED
    BY <2>7, <2>8 DEF FlowStep, Waiting, Unrecorded, JobsAt
<1> QED
  BY <1>1, <1>2, <1>3

LEMMA FlowHolds == ASSUME PipelineInv, [Next]_vars PROVE FlowStep
<1>1. Poller \in Goroutines /\ Workers \subseteq Goroutines
  BY DEF Goroutines
<1>2. ASSUME NEW w \in Workers, Work(w) PROVE FlowStep
  BY <1>1, <1>2, FlowStored, FlowNumbered, FlowConsensus, FlowPending DEF Work
<1>3. CASE Poll
  BY <1>1, <1>3, FlowConsensus, FlowPending DEF Poll
<1>4. CASE Failure
  BY <1>1, <1>4, FlowStored, FlowNumbered, FlowConsensus, FlowPending, FlowOthers
     DEF Failure
<1> QED
  BY <1>2, <1>3, <1>4, FlowOthers DEF Next

\* Taken together: a snapshot in flight was so before, has just been indexed, or
\* has just got the CID that was settled on.
LEMMA InFlightStep ==
  ASSUME PipelineInv, [Next]_vars, NEW x \in InFlight'
  PROVE  x \in InFlight \/ (\E w \in Workers : IsIndexedBy(w, x)) \/ HasSettled(x)
<1>1. ASSUME NEW w \in Workers, SetHeight(w) PROVE Snapshot(job[w]) \in Unrecorded
  BY <1>1, QueuedWhenStored, WorkerTypes DEF SetHeight
<1> QED
  BY <1>1, FlowHolds DEF FlowStep, WasUndecided, InFlight

(***************************************************************************)
(* What is queued is what consensus settled on                             *)
(***************************************************************************)
\* A snapshot that is up to consensus has the CID that was settled on.
IsSettled(x) == NeedsConsensus(x) => finalizedCid[End[x.commit]] = x.cid

SettledInv == \A x \in Queued : IsSettled(x)

\* The snapshots in flight have commits, heights and CIDs.
LEMMA InFlightTypes ==
  ASSUME PipelineInv
  PROVE  /\ \A x \in InFlight : /\ x.commit \in Commits /\ x.cid \in Cids
                                /\ x.height \in Int \ {0}
         /\ \A x \in Waiting : IsOrdered(x.commit) /\ UseConsensus
         /\ \A x \in Unrecorded : ~IsOrdered(x.commit)
<1>1. \A j \in StoredJob \union {e \in PendingEntry : e.height # 0} :
        /\ Snapshot(j).commit \in Commits /\ Snapshot(j).cid \in Cids
        /\ Snapshot(j).height \in Int \ {0}
  BY DEF Snapshot, StoredJob, Job, PendingEntry
<1>2. \A p \in Goroutines : pc[p] \in StoredLabels => job[p] \in StoredJob
  BY GoroutineTypes
<1>3. \A p \in Goroutines : pc[p] \in WaitingLabels => IsWaiting(job[p])
  BY DEF PipelineInv, GoroutinesSound, IsSound, WaitingLabels, IsWaiting
<1>4. Resubmitted \subseteq StoredJob /\ (waitQueue # NoJob => waitQueue \in StoredJob
                                         /\ IsWaiting(waitQueue))
  BY DEF PipelineInv, MessagesSound, Resubmitted
<1>5. pending \subseteq {e \in PendingEntry : e.height # 0}
  BY DEF PipelineInv, MessagesTyped
<1>6. \A x \in Queued :
        /\ x.commit \in Commits /\ x.cid \in Cids /\ x.height \in Int \ {0}
  BY <1>1, <1>2, <1>4, <1>5 DEF Queued, JobsAt, QueuedLabels
<1>7. \A x \in Waiting :
        /\ x.commit \in Commits /\ x.cid \in Cids /\ x.height \in Int \ {0}
  BY <1>1, <1>2, <1>4 DEF Waiting, JobsAt, WaitingLabels, StoredLabels
<1>8. \A j : IsWaiting(j) => IsOrdered(Snapshot(j).commit) /\ UseConsensus
  BY DEF IsWaiting, WaitsForConsensus, Snapshot
<1>9. \A x \in Waiting : IsOrdered(x.commit) /\ UseConsensus
  BY <1>3, <1>4, <1>8 DEF Waiting, JobsAt
<1>10. \A x \in Unrecorded :
        /\ x.commit \in Commits /\ x.cid \in Cids /\ x.height \in Int \ {0}
        /\ ~IsOrdered(x.commit)
  <2>1. \A p \in Goroutines : pc[p] = "setHeight" => /\ job[p] \in StoredJob
                                                  /\ ~IsOrdered(job[p].commit)
    BY <1>2 DEF PipelineInv, GoroutinesSound, IsSound, StoredLabels
  <2>2. \A j : Snapshot(j).commit = j.commit
    BY DEF Snapshot
  <2> QED
    BY <1>1, <2>1, <2>2 DEF Unrecorded, JobsAt
<1> QED
  BY <1>6, <1>7, <1>9, <1>10 DEF InFlight

\* What is settled stays so.
LEMMA FinalizedStays ==
  ASSUME [Next]_vars, PipelineInv, NEW e \in Epochs, finalizedCid[e] # NoCid
  PROVE  finalizedCid'[e] = finalizedCid[e]
<1>1. CASE UNCHANGED finalizedCid
  BY <1>1
<1>2. CASE Settle
  BY <1>2 DEF Settle, PipelineInv, KeysTyped
<1>3. ASSUME NEW w \in Workers, Work(w) PROVE UNCHANGED finalizedCid
  BY <1>3 DEF Work, Take, AssignTentativeHeight, ReadHeight, ReadSize, SetSize,
     SetFirst, ReadFirst, Index, SetHeight, SetParams, Send,
     SubmitForConsensus, ProposeAccepted, ProposeFinalized, ProposeOther,
     AddToPendingTxns, PendRemove, PendAdd, Post
<1>4. CASE Poll
  BY <1>4 DEF Poll, PollRead, PollNotYet, PollFinalized, AddToPendingTxns,
              PendRemove, PendAdd, Post
<1>5. CASE Failure
  BY <1>5 DEF Failure, ReadFails, SendFails, WriteFails, RemoveFails,
              PollExpired, ProcessDies
<1>6. CASE (\E t \in txs : TxConfirmed(t)) \/ (\E f \in pending : Resubmit(f))
           \/ UNCHANGED vars
  BY <1>6 DEF TxConfirmed, Resubmit, vars
<1> QED
  BY <1>1, <1>2, <1>3, <1>4, <1>5, <1>6 DEF Next

LEMMA SettledStep ==
  ASSUME Statuses \subseteq {"ACCEPTED", "FINALIZED"},
         PipelineInv, SettledInv, [Next]_vars
  PROVE  SettledInv'
<1> SUFFICES ASSUME NEW x \in Queued', NeedsConsensus(x)
             PROVE  finalizedCid'[End[x.commit]] = x.cid
  BY DEF SettledInv, IsSettled, NeedsConsensus
<1>1. CASE x \in Queued
  <2>1. x.commit \in Commits /\ x.cid # NoCid
    BY <1>1, InFlightTypes, ContentHasCid DEF InFlight
  <2>2. End[x.commit] \in Epochs /\ finalizedCid[End[x.commit]] = x.cid
    BY <1>1, <2>1 DEF SettledInv, IsSettled, Epochs
  <2> QED
    BY <2>1, <2>2, FinalizedStays
<1>2. CASE HasSettled(x)
  BY <1>2 DEF HasSettled
<1>3. ~WasUndecided(x)
  BY DEF WasUndecided
<1>4. ASSUME NEW w \in Workers, SetHeight(w) PROVE x # Snapshot(job[w])
  <2>1. ~IsOrdered(Snapshot(job[w]).commit)
    BY <1>4, WorkerTypes DEF SetHeight, IsSound, Snapshot
  <2> QED
    BY <2>1 DEF NeedsConsensus
<1> QED
  BY <1>1, <1>2, <1>3, <1>4, FlowHolds DEF FlowStep

\* A snapshot of an epoch that is up to consensus is only queued under the CID
\* that was settled on, whichever goroutine queues it and however often it is
\* resubmitted: as long as the service answers ACCEPTED or FINALIZED.
THEOREM FinalizedIsQueued ==
  ASSUME Statuses \subseteq {"ACCEPTED", "FINALIZED"}
  PROVE  Spec => []OnlyFinalizedIsQueued
<1>1. Init => SettledInv
  <2>1. ASSUME Init PROVE Queued = {}
    <3>1. JobsAt(QueuedLabels) = {}
      BY <2>1 DEF Init, JobsAt, QueuedLabels, StoredLabels
    <3>2. Resubmitted = {} /\ pending = {}
      BY <2>1 DEF Init, Resubmitted, NoJob
    <3> QED
      BY <3>1, <3>2 DEF Queued
  <2> QED
    BY <2>1 DEF SettledInv
<1>2. PipelineInv /\ SettledInv /\ [Next]_vars => SettledInv'
  BY SettledStep
<1>3. SettledInv => OnlyFinalizedIsQueued
  <2>1. ASSUME SettledInv, NEW p \in pending, NeedsConsensus(p)
        PROVE  finalizedCid[End[p.commit]] = p.cid
    <3>1. IsSettled(Snapshot(p))
      BY <2>1 DEF SettledInv, Queued
    <3> QED
      BY <2>1, <3>1 DEF IsSettled, NeedsConsensus, Snapshot
  <2> QED
    BY <2>1 DEF OnlyFinalizedIsQueued, NeedsConsensus
<1> QED
  BY <1>1, <1>2, <1>3, PipelineHolds, PTL DEF Spec

(***************************************************************************)
(* Heights follow epochs                                                   *)
(***************************************************************************)
\* The labels before the CID of the snapshot is indexed.
Unindexed == HeightLabels \union {"index"}

\* Nothing changes for goroutine p.
Stands(p) == pc'[p] = pc[p] /\ job'[p] = job[p] /\ size'[p] = size[p]

\* Only p moves, to label l.
MovesTo(p, l) ==
    /\ pc' = [pc EXCEPT ![p] = l]
    /\ \E j : job' = [job EXCEPT ![p] = j]
    /\ \E s : size' = [size EXCEPT ![p] = s]

LEMMA MoveIsLocal ==
  ASSUME PipelineInv, NEW p \in Goroutines, NEW l, MovesTo(p, l)
  PROVE  pc'[p] = l /\ \A q \in Goroutines \ {p} : Stands(q)
BY DEF PipelineInv, LocalsTyped, MovesTo, Stands

LEMMA ReturnMoves ==
  ASSUME NEW p \in Goroutines, Return(p) PROVE MovesTo(p, "idle")
BY DEF Return, GoTo, MovesTo

\* A worker is at one of the labels Unindexed only after a step of its own that
\* takes a message or gives it a height.
LEMMA UnindexedArrives ==
  ASSUME PipelineInv, [Next]_vars, NEW w \in Workers, pc'[w] \in Unindexed
  PROVE  Stands(w) \/ Take(w) \/ AssignTentativeHeight(w) \/ ReadFails(w)
<1> DEFINE Goal == Stands(w) \/ Take(w) \/ AssignTentativeHeight(w) \/ ReadFails(w)
<1>0. /\ Workers \subseteq Goroutines /\ Poller \in Goroutines
      /\ "idle" \notin Unindexed /\ StoredLabels \intersect Unindexed = {}
  BY DEF Goroutines, Unindexed, HeightLabels, StoredLabels
\* Goroutine p goes to a label that is not one of them.
<1>1. ASSUME NEW p \in Goroutines, NEW l, l \notin Unindexed, MovesTo(p, l)
      PROVE  Goal
  BY <1>0, <1>1, MoveIsLocal
<1>2. \A p \in Goroutines : Return(p) => Goal
  BY <1>0, <1>1, ReturnMoves
<1>3. ASSUME NEW v \in Workers, Take(v) \/ AssignTentativeHeight(v) \/ ReadFails(v)
      PROVE  Goal
  <2>1. CASE v = w
    BY <1>3, <2>1
  <2>2. CASE v # w
    <3>1. pc'[w] = pc[w] /\ job'[w] = job[w] /\ size'[w] = size[w]
      BY <1>0, <1>3, <2>2
         DEF Take, AssignTentativeHeight, ReadHeight, ReadSize, SetSize,
             SetFirst, ReadFirst, ReadFails, AssignHeight, Return, GoTo,
             PipelineInv, LocalsTyped
    <3> QED
      BY <3>1 DEF Stands
  <2> QED
    BY <2>1, <2>2
<1>4. \A j : AfterStored(j) \in StoredLabels
  BY DEF AfterStored, StoredLabels
<1>5. ASSUME NEW v \in Workers,
             Index(v) \/ SetHeight(v) \/ SetParams(v) \/ Send(v) \/ SendFails(v)
      PROVE  Goal
  <2>1. \E l \in StoredLabels : pc' = [pc EXCEPT ![v] = l]
    BY <1>4, <1>5 DEF Index, SetHeight, SetParams, Send, SendFails, ToPending,
                      GoTo, StoredLabels
  <2>2. \E j : job' = [job EXCEPT ![v] = j]
    <3>1. job' = [job EXCEPT ![v] = job[v]] \/ ~ UNCHANGED job
      BY DEF PipelineInv, LocalsTyped
    <3> QED
      BY <1>5, <3>1 DEF Index, SetHeight, SetParams, Send, SendFails
  <2>3. size' = [size EXCEPT ![v] = size[v]]
    BY <1>5 DEF Index, SetHeight, SetParams, Send, SendFails, PipelineInv,
                LocalsTyped
  <2> QED
    BY <1>0, <1>1, <2>1, <2>2, <2>3 DEF MovesTo
<1>6. ASSUME NEW p \in Goroutines,
             \/ p \in Workers /\ SubmitForConsensus(p)
             \/ p = Poller /\ (PollRead \/ PollExpired \/ PollNotYet \/ PollFinalized)
             \/ AddToPendingTxns(p) \/ RemoveFails(p) \/ WriteFails(p)
      PROVE  Goal
  <2>1. CASE Return(p)
    BY <1>2, <2>1
  <2>2. CASE ~Return(p)
    <3>1. \E l \in StoredLabels : pc' = [pc EXCEPT ![p] = l]
      BY <1>6, <2>2
         DEF SubmitForConsensus, ProposeAccepted, ProposeFinalized,
             ProposeOther, PollRead, PollExpired, PollNotYet, PollFinalized,
             AddToPendingTxns, PendRemove, PendAdd, Post, RemoveFails,
             WriteFails, GoTo, StoredLabels
    <3>2. \E j : job' = [job EXCEPT ![p] = j]
      <4>1. job' = [job EXCEPT ![p] = job[p]] \/ ~ UNCHANGED job
        BY DEF PipelineInv, LocalsTyped
      <4> QED
        BY <1>6, <2>2, <4>1
           DEF SubmitForConsensus, ProposeAccepted, ProposeFinalized,
               ProposeOther, PollRead, PollExpired, PollNotYet, PollFinalized,
               AddToPendingTxns, PendRemove, PendAdd, Post, RemoveFails,
               WriteFails
    <3>3. size' = [size EXCEPT ![p] = size[p]]
      BY <1>6, <2>2
         DEF SubmitForConsensus, ProposeAccepted, ProposeFinalized,
             ProposeOther, PollRead, PollExpired, PollNotYet, PollFinalized,
             AddToPendingTxns, PendRemove, PendAdd, Post, RemoveFails,
             WriteFails, PipelineInv, LocalsTyped
    <3> QED
      BY <1>0, <1>1, <3>1, <3>2, <3>3 DEF MovesTo
  <2> QED
    BY <2>1, <2>2
<1>7. CASE ProcessDies
  BY <1>0, <1>7 DEF ProcessDies
<1>8. CASE \/ Settle \/ (\E t \in txs : TxConfirmed(t))
           \/ (\E e \in pending : Resubmit(e)) \/ UNCHANGED vars
  BY <1>8 DEF Settle, TxConfirmed, Resubmit, vars, localVars, Stands
<1>9. ASSUME NEW v \in Workers, Work(v) PROVE Goal
  BY <1>0, <1>3, <1>5, <1>6, <1>9 DEF Work
<1>10. CASE Poll
  BY <1>0, <1>6, <1>10 DEF Poll
<1>11. CASE Failure
  BY <1>0, <1>3, <1>5, <1>6, <1>7, <1>11 DEF Failure
<1> QED
  BY <1>8, <1>9, <1>10, <1>11 DEF Next

\* The project has its epoch keys, no read of them gives up, and every epoch is
\* a number of epochs after the first one, or before it.
EpochsAligned ==
    /\ KnownSize # 0 /\ KnownFirst # 0
    /\ FailAt \intersect {"readSize", "readFirst"} = {}
    /\ \A c \in Commits :
          IsOrdered(c) => \E k \in Int : End[c] - KnownFirst = k * KnownSize

\* x is as many heights above the first epoch as its epoch is epochs after it.
OnEpoch(x) ==
    IsOrdered(x.commit) =>
        (x.height - 1) * KnownSize = End[x.commit] - KnownFirst

NumberedInv ==
    /\ \A w \in Workers : /\ pc[w] = "readFirst" => size[w] = KnownSize
                          /\ pc[w] = "index" => OnEpoch(job[w])
    /\ \A x \in InFlight : OnEpoch(x)

\* Division of a multiple is exact, of a negative one too.
LEMMA QuotientOfMultiple ==
  ASSUME NEW k \in Int, NEW s \in Nat \ {0}
  PROVE  Quotient(k * s, s) = k
<1>1. \A n \in Nat : (n * s) \div s = n
  <2> TAKE n \in Nat
  <2> DEFINE q == (n * s) \div s
  <2>1. n * s \in Int /\ q \in Int
    OBVIOUS
  <2>2. s * q <= n * s /\ n * s < s * (q + 1)
    BY <2>1, SMTT(30)
  <2>3. ~ (q < n)
    <3> HIDE DEF q
    <3> SUFFICES ASSUME q + 1 <= n PROVE FALSE
      BY <2>1
    <3>1. s * (q + 1) <= s * n
      BY <2>1, SMTT(30)
    <3> QED
      BY <2>1, <2>2, <3>1, SMTT(30)
  <2>4. ~ (q > n)
    <3> HIDE DEF q
    <3> SUFFICES ASSUME n + 1 <= q PROVE FALSE
      BY <2>1
    <3>1. s * (n + 1) <= s * q
      BY <2>1, SMTT(30)
    <3> QED
      BY <2>1, <2>2, <3>1, SMTT(30)
  <2> QED
    BY <2>1, <2>3, <2>4
<1>2. CASE k >= 0
  <2>1. ~ (k * s < 0) /\ ~ (s < 0) /\ k * s \in Int
    BY <1>2, SMTT(30)
  <2> QED
    BY <1>1, <1>2, <2>1 DEF Quotient
<1>3. CASE k < 0
  <2>1. k * s < 0 /\ ~ (s < 0) /\ -(k * s) = (-k) * s /\ -k \in Nat
    BY <1>3, SMTT(30)
  <2>2. ((-k) * s) \div s = -k
    BY <1>1, <2>1
  <2>3. Quotient(k * s, s) = -(-k)
    BY <2>1, <2>2 DEF Quotient
  <2> QED
    BY <2>3
<1> QED
  BY <1>2, <1>3

LEMMA AlignedHeight ==
  ASSUME EpochsAligned, NEW j \in Job, IsOrdered(j.commit)
  PROVE  OnEpoch([j EXCEPT !.height = HeightOf(End[j.commit], KnownFirst, KnownSize)])
<1> DEFINE h == HeightOf(End[j.commit], KnownFirst, KnownSize)
           i == [j EXCEPT !.height = h]
<1>1. i.height = h /\ i.commit = j.commit /\ j.commit \in Commits
  BY DEF Job
<1>2. PICK k \in Int : End[j.commit] - KnownFirst = k * KnownSize
  BY <1>1 DEF EpochsAligned
<1>3. KnownSize \in Nat \ {0}
  BY KeysAreNaturals DEF EpochsAligned
<1>4. Quotient(k * KnownSize, KnownSize) = k
  BY <1>3, QuotientOfMultiple
<1>5. h = k + 1
  BY <1>2, <1>4 DEF HeightOf
<1>6. (i.height - 1) = k
  BY <1>1, <1>5
<1> QED
  BY <1>1, <1>2, <1>6 DEF OnEpoch

LEMMA NumberedStep ==
  ASSUME EpochsAligned, PipelineInv, KeysInv, NumberedInv, [Next]_vars
  PROVE  NumberedInv'
<1>1. /\ epochSize = KnownSize /\ firstEpochEndHeight = KnownFirst
      /\ KnownSize # 0 /\ KnownFirst # 0
      /\ \A w \in Workers : pc[w] \notin {"setSize", "setFirst"}
  BY DEF KeysInv, EpochsAligned
<1>2. ASSUME NEW w \in Workers, pc'[w] = "readFirst" PROVE size'[w] = KnownSize
  <2>1. w \in Goroutines /\ pc'[w] \in Unindexed
    BY <1>2 DEF Goroutines, Unindexed, HeightLabels
  <2>2. CASE Stands(w)
    BY <1>2, <2>2 DEF Stands, NumberedInv
  <2>3. CASE Take(w)
    BY <1>2, <2>1, <2>3
       DEF Take, GoTo, AfterStored, PipelineInv, LocalsTyped
  <2>4. CASE ReadSize(w)
    BY <1>1, <1>2, <2>1, <2>4 DEF ReadSize, GoTo, PipelineInv, LocalsTyped
  <2>5. CASE ReadHeight(w) \/ SetSize(w) \/ SetFirst(w)
    BY <1>1, <1>2, <2>1, <2>5
       DEF ReadHeight, SetSize, SetFirst, GoTo, PipelineInv, LocalsTyped
  <2>6. CASE ReadFirst(w) \/ ReadFails(w)
    BY <1>2, <2>1, <2>6
       DEF ReadFirst, ReadFails, Fails, EpochsAligned, AssignHeight, Return,
           GoTo, PipelineInv, LocalsTyped
  <2> QED
    BY <2>1, <2>2, <2>3, <2>4, <2>5, <2>6, UnindexedArrives
       DEF AssignTentativeHeight
<1>3. ASSUME NEW w \in Workers, pc'[w] = "index" PROVE OnEpoch(job'[w])
  <2>1. w \in Goroutines /\ pc'[w] \in Unindexed
    BY <1>3 DEF Goroutines, Unindexed, HeightLabels
  <2>2. CASE Stands(w)
    BY <1>3, <2>2 DEF Stands, NumberedInv
  <2>3. CASE Take(w) \/ ReadSize(w) \/ SetSize(w) \/ SetFirst(w)
    BY <1>3, <2>1, <2>3
       DEF Take, AfterStored, ReadSize, SetSize, SetFirst, GoTo, PipelineInv,
           LocalsTyped
  <2>4. CASE ReadHeight(w)
    <3>1. job[w] \in Job /\ ~IsOrdered(job[w].commit)
      BY <2>4, WorkerTypes DEF ReadHeight, IsSound
    <3>2. job'[w].commit = job[w].commit
      BY <2>1, <2>4, <3>1 DEF ReadHeight, PipelineInv, LocalsTyped, Job
    <3> QED
      BY <3>1, <3>2 DEF OnEpoch
  <2>5. CASE ReadFirst(w)
    <3>1. job[w] \in Job /\ IsOrdered(job[w].commit) /\ size[w] = KnownSize
      BY <2>5, WorkerTypes DEF ReadFirst, IsSound, NumberedInv, HeightLabels
    <3>2. job' = [job EXCEPT ![w].height =
                     HeightOf(End[job[w].commit], KnownFirst, KnownSize)]
      BY <1>1, <1>3, <2>1, <2>5, <3>1
         DEF ReadFirst, AssignHeight, Return, GoTo, PipelineInv, LocalsTyped
    <3>3. job'[w] = [job[w] EXCEPT !.height =
                     HeightOf(End[job[w].commit], KnownFirst, KnownSize)]
      BY <2>1, <3>2 DEF PipelineInv, LocalsTyped
    <3> QED
      BY <3>1, <3>3, AlignedHeight
  <2>6. CASE ReadFails(w)
    BY <1>3, <2>1, <2>6
       DEF ReadFails, Fails, EpochsAligned, Return, GoTo, PipelineInv,
           LocalsTyped
  <2> QED
    BY <2>1, <2>2, <2>3, <2>4, <2>5, <2>6, UnindexedArrives
       DEF AssignTentativeHeight
<1>4. ASSUME NEW x \in InFlight' PROVE OnEpoch(x)
  <2>1. ASSUME NEW w \in Workers, IsIndexedBy(w, x) PROVE OnEpoch(x)
    <3>1. OnEpoch(job[w]) /\ x.commit = job[w].commit /\ x.height = job[w].height
      BY <2>1 DEF IsIndexedBy, Index, NumberedInv
    <3> QED
      BY <3>1 DEF OnEpoch
  <2>2. CASE HasSettled(x)
    <3>1. PICK y \in Waiting : y.commit = x.commit /\ y.height = x.height
      BY <2>2 DEF HasSettled
    <3>2. OnEpoch(y)
      BY DEF NumberedInv, InFlight
    <3> QED
      BY <3>1, <3>2 DEF OnEpoch
  <2>3. CASE x \in InFlight
    BY <2>3 DEF NumberedInv
  <2> QED
    BY <2>1, <2>2, <2>3, InFlightStep
<1>5. \A w \in Workers : pc'[w] = "index" => OnEpoch(job'[w])
  BY <1>3
<1> QED
  BY <1>2, <1>4, <1>5 DEF NumberedInv, OnEpoch

LEMMA InFlightInit == Init => InFlight = {}
<1> SUFFICES ASSUME Init PROVE InFlight = {}
  OBVIOUS
<1>1. JobsAt(QueuedLabels) = {} /\ JobsAt(WaitingLabels) = {}
  BY DEF Init, JobsAt, QueuedLabels, WaitingLabels, StoredLabels
<1>2. Unrecorded = {}
  BY DEF Init, JobsAt, Unrecorded
<1>3. Resubmitted = {} /\ pending = {} /\ waitQueue = NoJob
  BY DEF Init, Resubmitted, NoJob
<1> QED
  BY <1>1, <1>2, <1>3 DEF InFlight, Queued, Waiting

LEMMA NumberedHolds ==
  ASSUME EpochsAligned PROVE Spec => [](KeysInv /\ NumberedInv)
<1>1. SizeComesFirst /\ KnownSize # 0
  BY DEF EpochsAligned, SizeComesFirst
<1>2. Init => KeysInv /\ NumberedInv
  BY <1>1, KeysInit, InFlightInit DEF Init, NumberedInv, Goroutines
<1>3. PipelineInv /\ KeysInv /\ NumberedInv /\ [Next]_vars
        => KeysInv' /\ NumberedInv'
  BY <1>1, KeysStep, NumberedStep
<1> QED
  BY <1>2, <1>3, PipelineHolds, PTL DEF Spec

LEMMA PendingInFlight == \A p \in pending : Snapshot(p) \in InFlight
BY DEF InFlight, Queued

\* An entry of an epoch project has the height of its epoch, whichever goroutine
\* took it, in whichever order, however often it was resubmitted and whatever
\* failed meanwhile other than the reads of the epoch keys.
THEOREM HeightsAreOfEpochs ==
  ASSUME EpochsAligned PROVE Spec => []HeightsFollowEpochs
<1>1. ASSUME KeysInv, NumberedInv PROVE HeightsFollowEpochs
  <2>1. epochSize = KnownSize /\ firstEpochEndHeight = KnownFirst
    BY <1>1 DEF KeysInv, EpochsAligned
  <2>2. \A p \in pending : OnEpoch(p)
    BY <1>1, PendingInFlight DEF NumberedInv, OnEpoch, Snapshot
  <2> QED
    BY <2>1, <2>2 DEF HeightsFollowEpochs, OnEpoch
<1> QED
  BY <1>1, NumberedHolds, PTL

\* When every epoch has one commit, no two commits are queued at one height.
THEOREM OneCommitPerEpochHeight ==
  ASSUME EpochsAligned, \A c \in Commits : IsOrdered(c),
         \A c, d \in Commits : End[c] = End[d] => c = d
  PROVE  Spec => []OneCommitPerHeight
<1>1. ASSUME PipelineInv, NumberedInv PROVE OneCommitPerHeight
  <2>1. \A p \in pending : p.commit \in Commits /\ End[p.commit] \in Int
    BY <1>1, EpochsAreBlockRanges DEF PipelineInv, MessagesTyped, PendingEntry
  <2>2. \A p \in pending :
          (p.height - 1) * KnownSize = End[p.commit] - KnownFirst
    BY <1>1, <2>1, PendingInFlight DEF NumberedInv, OnEpoch, Snapshot
  <2>3. ASSUME NEW p \in pending, NEW q \in pending, p.height = q.height
        PROVE  p.commit = q.commit
    <3>1. End[p.commit] - KnownFirst = End[q.commit] - KnownFirst
      BY <2>2, <2>3
    <3>2. End[p.commit] = End[q.commit]
      BY <2>1, <3>1, KeysAreNaturals
    <3> QED
      BY <2>1, <3>2
  <2> QED
    BY <2>3 DEF OneCommitPerHeight
<1> QED
  BY <1>1, NumberedHolds, PipelineHolds, PTL

(***************************************************************************)
(* What is pending is indexed                                              *)
(***************************************************************************)
\* Without consensus every snapshot keeps its own CID, and no two commits have
\* the same content.
OwnCids ==
    /\ ~UseConsensus
    /\ \A c, d \in Commits : Content[c] = Content[d] => c = d

Untaken == {m \in queue : m.touched = 0}

\* A commit is on its way to the index at most once, and not after it.
IndexInv ==
    /\ \A x \in InFlight :
          x.cid = Content[x.commit] /\ payloadCids[x.cid] = x.height
    /\ \A m \in Untaken, x \in InFlight : x.commit # m.commit
    /\ \A m, n \in Untaken : m.commit = n.commit => m = n
    /\ \A m \in Untaken, w \in Workers :
          pc[w] \in Unindexed => m.commit # job[w].commit
    /\ \A w \in Workers, x \in InFlight :
          pc[w] \in Unindexed => x.commit # job[w].commit
    /\ \A v, w \in Workers :
          (v # w /\ pc[v] \in Unindexed /\ pc[w] \in Unindexed) =>
              job[v].commit # job[w].commit

\* Only Index writes payloadCids, only API messages are untaken, and SetHeight
\* alone writes the tentative height.
LEMMA IndexFrame ==
  ASSUME [Next]_vars
  PROVE  /\ UNCHANGED payloadCids \/ \E w \in Workers : Index(w)
         /\ UNCHANGED tentativeBlockHeight \/ \E w \in Workers : SetHeight(w)
         /\ Untaken' \subseteq Untaken
<1> DEFINE Goal ==
      /\ UNCHANGED payloadCids \/ \E w \in Workers : Index(w)
      /\ UNCHANGED tentativeBlockHeight \/ \E w \in Workers : SetHeight(w)
      /\ Untaken' \subseteq Untaken
<1>1. ASSUME NEW p,
             \/ Take(p) \/ AssignTentativeHeight(p) \/ ReadFails(p)
             \/ SetParams(p) \/ Send(p) \/ SendFails(p)
             \/ SubmitForConsensus(p) \/ AddToPendingTxns(p)
             \/ RemoveFails(p) \/ WriteFails(p)
      PROVE  Goal
  BY <1>1 DEF Take, AssignTentativeHeight, ReadHeight, ReadSize, SetSize,
     SetFirst, ReadFirst, ReadFails, SetParams, Send, SendFails,
     SubmitForConsensus, ProposeAccepted, ProposeFinalized, ProposeOther,
     AddToPendingTxns, PendRemove, PendAdd, Post, RemoveFails, WriteFails,
     Untaken, indexVars
<1>2. ASSUME NEW w \in Workers, Index(w) \/ SetHeight(w) PROVE Goal
  BY <1>2 DEF Index, SetHeight, Untaken
<1>3. CASE PollRead \/ PollExpired \/ PollNotYet \/ PollFinalized \/ ProcessDies
  BY <1>3 DEF PollRead, PollExpired, PollNotYet, PollFinalized, ProcessDies,
              Untaken, indexVars
<1>4. CASE \/ Settle \/ (\E t \in txs : TxConfirmed(t))
           \/ (\E e \in pending : Resubmit(e)) \/ UNCHANGED vars
  BY <1>4 DEF Settle, TxConfirmed, Resubmit, vars, Untaken, indexVars
<1>5. ASSUME NEW w \in Workers, Work(w) PROVE Goal
  BY <1>1, <1>2, <1>5 DEF Work
<1>6. CASE Poll
  BY <1>1, <1>3, <1>6 DEF Poll
<1>7. CASE Failure
  BY <1>1, <1>3, <1>7 DEF Failure
<1> QED
  BY <1>4, <1>5, <1>6, <1>7 DEF Next

\* A worker on its way to the index had its commit before, or takes it.
LEMMA CommitIsKept ==
  ASSUME PipelineInv, [Next]_vars, NEW w \in Workers, pc'[w] \in Unindexed
  PROVE  \/ /\ pc[w] \in Unindexed /\ job'[w].commit = job[w].commit
            /\ ~Index(w)
         \/ /\ job'[w] \in Untaken \ Untaken'
            /\ \A v \in Workers \ {w} : Stands(v)
<1>0. w \in Goroutines /\ Workers \subseteq Goroutines
  BY DEF Goroutines
<1>1. ~Index(w)
  <2>1. \A j : AfterStored(j) \notin Unindexed
    BY DEF AfterStored, Unindexed, HeightLabels
  <2> QED
    BY <1>0, <2>1 DEF Index, GoTo, PipelineInv, LocalsTyped, Unindexed, HeightLabels
<1>2. CASE Stands(w)
  BY <1>1, <1>2 DEF Stands
<1>3. CASE Take(w)
  <2>1. PICK m \in queue :
          /\ queue' = queue \ {m} /\ job' = [job EXCEPT ![w] = m]
          /\ GoTo(w, IF m.touched = 1 THEN AfterStored(m)
                     ELSE IF IsOrdered(m.commit) THEN "readSize"
                     ELSE "readHeight")
          /\ size' = size
    BY <1>3 DEF Take
  <2>2. m.touched = 0
    <3>1. m \in Job /\ AfterStored(m) \notin Unindexed
      BY DEF PipelineInv, MessagesTyped, AfterStored, Unindexed, HeightLabels
    <3> QED
      BY <1>0, <2>1, <3>1 DEF Job, GoTo, PipelineInv, LocalsTyped
  <2>3. job'[w] = m /\ m \in Untaken /\ m \notin Untaken'
    BY <1>0, <2>1, <2>2 DEF Untaken, PipelineInv, LocalsTyped
  <2>4. \A v \in Workers \ {w} : Stands(v)
    BY <1>0, <2>1 DEF GoTo, Stands, PipelineInv, LocalsTyped
  <2> QED
    BY <2>3, <2>4
<1>4. CASE AssignTentativeHeight(w) \/ ReadFails(w)
  <2>1. pc[w] \in Unindexed
    BY <1>4 DEF AssignTentativeHeight, ReadHeight, ReadSize, SetSize, SetFirst,
                ReadFirst, ReadFails, Fails, Unindexed, HeightLabels
  <2>2. job[w] \in Job
    BY <2>1, WorkerTypes DEF Unindexed, HeightLabels
  <2>3. \/ job' = job
        \/ \E h : job' = [job EXCEPT ![w].height = h]
        \/ Return(w)
    BY <1>4 DEF AssignTentativeHeight, ReadHeight, ReadSize, SetSize, SetFirst,
                ReadFirst, ReadFails, AssignHeight
  <2>4. ~Return(w)
    BY <1>0 DEF Return, GoTo, PipelineInv, LocalsTyped, Unindexed, HeightLabels
  <2>5. job'[w].commit = job[w].commit
    BY <1>0, <2>2, <2>3, <2>4 DEF PipelineInv, LocalsTyped, Job
  <2> QED
    BY <1>1, <2>1, <2>5
<1> QED
  BY <1>2, <1>3, <1>4, UnindexedArrives

LEMMA IndexStep ==
  ASSUME OwnCids, PipelineInv, IndexInv, [Next]_vars
  PROVE  IndexInv'
<1> DEFINE Before(w) == pc[w] \in Unindexed /\ job'[w].commit = job[w].commit
                        /\ ~Index(w)
           Takes(w) == /\ job'[w] \in Untaken \ Untaken'
                       /\ \A v \in Workers \ {w} : Stands(v)
<1>1. \A x \in InFlight' : x \in InFlight \/ \E w \in Workers : IsIndexedBy(w, x)
  BY InFlightStep DEF HasSettled, OwnCids
<1>2. \A w \in Workers : pc'[w] \in Unindexed => Before(w) \/ Takes(w)
  BY CommitIsKept
<1>3. Untaken' \subseteq Untaken
  BY IndexFrame
<1>4. ASSUME NEW w \in Workers, Index(w)
      PROVE  pc[w] \in Unindexed /\ job[w] \in Job /\ job[w].commit \in Commits
  BY <1>4, WorkerTypes DEF Index, Unindexed, Job
<1>5. ASSUME NEW w \in Workers, NEW x, IsIndexedBy(w, x)
      PROVE  /\ Index(w) /\ x.commit = job[w].commit /\ x.height = job[w].height
             /\ x.cid = Content[x.commit]
  BY <1>5 DEF IsIndexedBy
<1>6. ASSUME NEW x \in InFlight'
      PROVE  x.cid = Content[x.commit] /\ payloadCids'[x.cid] = x.height
  <2>1. ASSUME NEW w \in Workers, IsIndexedBy(w, x)
        PROVE  payloadCids'[x.cid] = x.height
    <3>1. Content[job[w].commit] \in Cids
      BY <1>4, <1>5, <2>1, ContentHasCid
    <3> QED
      BY <1>5, <2>1, <3>1 DEF Index, PipelineInv, KeysTyped
  <2>2. ASSUME x \in InFlight
        PROVE  x.cid = Content[x.commit] /\ payloadCids'[x.cid] = x.height
    <3>1. x.cid = Content[x.commit] /\ payloadCids[x.cid] = x.height
          /\ x.commit \in Commits /\ x.cid \in Cids
      BY <2>2, InFlightTypes DEF IndexInv
    <3>2. ASSUME NEW w \in Workers, Index(w) PROVE payloadCids'[x.cid] = payloadCids[x.cid]
      <4>1. x.commit # job[w].commit
        BY <1>4, <2>2, <3>2 DEF IndexInv
      <4>2. x.cid # Content[job[w].commit]
        BY <1>4, <3>1, <3>2, <4>1 DEF OwnCids
      <4> QED
        BY <3>1, <3>2, <4>2 DEF Index, PipelineInv, KeysTyped
    <3> QED
      BY <3>1, <3>2, IndexFrame
  <2> QED
    BY <1>1, <1>5, <2>1, <2>2
<1>7. ASSUME NEW m \in Untaken', NEW x \in InFlight' PROVE x.commit # m.commit
  <2>1. ASSUME NEW w \in Workers, IsIndexedBy(w, x) PROVE x.commit # m.commit
    BY <1>3, <1>4, <1>5, <2>1 DEF IndexInv
  <2> QED
    BY <1>1, <1>3, <2>1 DEF IndexInv
<1>8. \A m, n \in Untaken' : m.commit = n.commit => m = n
  BY <1>3 DEF IndexInv
<1>9. ASSUME NEW m \in Untaken', NEW w \in Workers, pc'[w] \in Unindexed
      PROVE  m.commit # job'[w].commit
  <2>1. CASE Before(w)
    BY <1>3, <2>1 DEF IndexInv
  <2>2. CASE Takes(w)
    BY <1>3, <2>2 DEF IndexInv
  <2> QED
    BY <1>2, <1>9, <2>1, <2>2
<1>10. ASSUME NEW w \in Workers, NEW x \in InFlight', pc'[w] \in Unindexed
       PROVE  x.commit # job'[w].commit
  <2>1. CASE Before(w)
    <3>1. ASSUME NEW v \in Workers, IsIndexedBy(v, x) PROVE x.commit # job'[w].commit
      <4>1. v # w
        BY <1>5, <2>1, <3>1
      <4> QED
        BY <1>4, <1>5, <2>1, <3>1, <4>1 DEF IndexInv
    <3>2. ASSUME x \in InFlight PROVE x.commit # job'[w].commit
      BY <2>1, <3>2 DEF IndexInv
    <3> QED
      BY <1>1, <3>1, <3>2
  <2>2. CASE Takes(w)
    <3>1. ASSUME NEW v \in Workers, IsIndexedBy(v, x) PROVE x.commit # job'[w].commit
      BY <1>4, <1>5, <2>2, <3>1 DEF IndexInv
    <3>2. ASSUME x \in InFlight PROVE x.commit # job'[w].commit
      BY <2>2, <3>2 DEF IndexInv
    <3> QED
      BY <1>1, <3>1, <3>2
  <2> QED
    BY <1>2, <1>10, <2>1, <2>2
<1>11. ASSUME NEW v \in Workers, NEW w \in Workers, v # w,
              pc'[v] \in Unindexed, pc'[w] \in Unindexed
       PROVE  job'[v].commit # job'[w].commit
  <2>1. CASE Before(v) /\ Before(w)
    BY <1>11, <2>1 DEF IndexInv
  <2>2. CASE Takes(v)
    <3>1. pc[w] \in Unindexed /\ job'[w] = job[w]
      BY <1>11, <2>2 DEF Stands
    <3> QED
      BY <2>2, <3>1 DEF IndexInv
  <2>3. CASE Takes(w)
    <3>1. pc[v] \in Unindexed /\ job'[v] = job[v]
      BY <1>11, <2>3 DEF Stands
    <3> QED
      BY <2>3, <3>1 DEF IndexInv
  <2> QED
    BY <1>2, <1>11, <2>1, <2>2, <2>3
<1> QED
  BY <1>6, <1>7, <1>8, <1>9, <1>10, <1>11 DEF IndexInv

\* Whatever fails, and wherever the process dies, the CID of a pending entry is
\* indexed at the height of the entry: if commits have different content and
\* consensus does not replace it.
THEOREM PendingIsIndexed ==
  ASSUME OwnCids PROVE Spec => []IndexedWhenPending
<1>1. ASSUME Init PROVE IndexInv
  <2>1. InFlight = {} /\ \A w \in Workers : pc[w] \notin Unindexed
    BY <1>1, InFlightInit DEF Init, Unindexed, HeightLabels, Goroutines
  <2>2. \A m \in Untaken : m = [NoJob EXCEPT !.commit = m.commit]
    BY <1>1 DEF Init, Untaken, NoJob
  <2> QED
    BY <2>1, <2>2 DEF IndexInv
<1>2. PipelineInv /\ IndexInv /\ [Next]_vars => IndexInv'
  BY IndexStep
<1>3. ASSUME IndexInv PROVE IndexedWhenPending
  <2>1. ASSUME NEW p \in pending PROVE payloadCids[p.cid] = p.height
    <3>1. Snapshot(p).cid = p.cid /\ Snapshot(p).height = p.height
      BY DEF Snapshot
    <3> QED
      BY <1>3, <3>1, PendingInFlight DEF IndexInv
  <2> QED
    BY <2>1 DEF IndexedWhenPending
<1> QED
  BY <1>1, <1>2, <1>3, PipelineHolds, PTL DEF Spec

\* While one worker moves the others stand, and only one that fills in the
\* parameters changes them.
LEMMA OthersStand ==
  ASSUME PipelineInv, NEW v \in Workers, NEW w \in Workers \ {v},
         \/ Work(v) \/ ReadFails(v) \/ SendFails(v)
         \/ WriteFails(v) \/ RemoveFails(v)
  PROVE  /\ pc'[w] = pc[w] /\ job'[w] = job[w]
         /\ params' = params \/ SetParams(v)
<1>0. v \in Goroutines /\ w \in Goroutines /\ w # v
  BY DEF Goroutines
<1>1. CASE \/ Take(v) \/ AssignTentativeHeight(v) \/ ReadFails(v)
           \/ Index(v) \/ SetHeight(v)
  BY <1>0, <1>1
     DEF Take, AssignTentativeHeight, ReadHeight, ReadSize, SetSize, SetFirst,
         ReadFirst, AssignHeight, ReadFails, Index, SetHeight, Return, GoTo,
         sharedVars, PipelineInv, LocalsTyped
<1>2. CASE \/ SetParams(v) \/ Send(v) \/ SendFails(v) \/ SubmitForConsensus(v)
  BY <1>0, <1>2
     DEF SetParams, Send, SendFails, ToPending, SubmitForConsensus,
         ProposeAccepted, ProposeFinalized, ProposeOther, Return, GoTo,
         sharedVars, PipelineInv, LocalsTyped
<1>3. CASE AddToPendingTxns(v) \/ RemoveFails(v) \/ WriteFails(v)
  BY <1>0, <1>3
     DEF AddToPendingTxns, PendRemove, PendAdd, Post, RemoveFails, WriteFails,
         Return, GoTo, sharedVars, PipelineInv, LocalsTyped
<1> QED
  BY <1>1, <1>2, <1>3 DEF Work

(***************************************************************************)
(* Summary projects: the height is counted                                 *)
(***************************************************************************)
\* A project whose commits are not ordered by the source chain.
SummaryProject == \A c \in Commits : ~IsOrdered(c)

\* Only the snapshot whose height is not written back yet is above the counter.
CounterInv ==
    /\ \A w \in Workers : pc[w] \in {"index", "setHeight"} =>
                              job[w].height = tentativeBlockHeight + 1
    /\ \A x \in Queued : x.height <= tentativeBlockHeight
    /\ \A x, y \in Queued : x.height = y.height => x.commit = y.commit

LEMMA CounterStep ==
  ASSUME SummaryProject, Alone(CounterCalls), PipelineInv, CounterInv, [Next]_vars
  PROVE  CounterInv'
<1>0. Workers \subseteq Goroutines /\ tentativeBlockHeight \in Nat
  BY DEF Goroutines, PipelineInv, KeysTyped
<1>1. ASSUME NEW w \in Workers, NEW x, IsIndexedBy(w, x)
      PROVE  ~IsOrdered(x.commit)
  BY <1>1, WorkerTypes DEF IsIndexedBy, Index, Job, SummaryProject
<1>2. \A x \in Queued' : x \in Queued \/ \E w \in Workers :
                            SetHeight(w) /\ x = Snapshot(job[w])
  <2>1. Waiting = {}
    BY InFlightTypes DEF InFlight, SummaryProject
  <2> QED
    BY <1>1, <2>1, FlowHolds DEF FlowStep, HasSettled, WasUndecided
<1>3. \A x \in Queued : x.height \in Int
  BY InFlightTypes DEF InFlight
<1>4. CASE \E w \in Workers : SetHeight(w)
  <2>1. PICK w \in Workers : SetHeight(w)
    BY <1>4
  <2>2. tentativeBlockHeight' = tentativeBlockHeight + 1
        /\ job[w].height = tentativeBlockHeight + 1
    BY <2>1 DEF SetHeight, CounterInv
  <2>3. \A v \in Workers : pc'[v] \notin {"index", "setHeight"}
    <3>1. pc'[w] \notin {"index", "setHeight"}
      BY <1>0, <2>1 DEF SetHeight, GoTo, AfterStored, PipelineInv, LocalsTyped
    <3>2. ASSUME NEW v \in Workers \ {w} PROVE pc'[v] \notin {"index", "setHeight"}
      BY <1>0, <2>1, <3>2
         DEF SetHeight, GoTo, Alone, CounterCalls, PipelineInv, LocalsTyped
    <3> QED
      BY <3>1, <3>2
  <2>4. Snapshot(job[w]).height = tentativeBlockHeight + 1
    BY <2>2 DEF Snapshot
  <2>5. \A x \in Queued' : x \in Queued \/ x = Snapshot(job[w])
    BY <1>2, <2>1 DEF SetHeight, Alone, CounterCalls
  <2>6. \A x \in Queued' : x.height <= tentativeBlockHeight'
    BY <1>0, <1>3, <2>2, <2>4, <2>5 DEF CounterInv
  <2>7. \A x, y \in Queued' : x.height = y.height => x.commit = y.commit
    <3> SUFFICES ASSUME NEW x \in Queued', NEW y \in Queued', x.height = y.height
                 PROVE  x.commit = y.commit
      OBVIOUS
    <3>1. \A z \in Queued : z.height # Snapshot(job[w]).height
      BY <1>0, <1>3, <2>4 DEF CounterInv
    <3> QED
      BY <2>5, <3>1 DEF CounterInv
  <2> QED
    BY <2>3, <2>6, <2>7 DEF CounterInv
<1>5. CASE ~ \E w \in Workers : SetHeight(w)
  <2>1. tentativeBlockHeight' = tentativeBlockHeight /\ Queued' \subseteq Queued
    BY <1>2, <1>5, IndexFrame
  <2>2. ASSUME NEW w \in Workers, pc'[w] = "index"
        PROVE  job'[w].height = tentativeBlockHeight + 1
    <3>1. w \in Goroutines /\ pc'[w] \in Unindexed
      BY <1>0, <2>2 DEF Unindexed
    <3>2. CASE Stands(w)
      BY <2>2, <3>2 DEF Stands, CounterInv
    <3>3. CASE ReadHeight(w)
      <4>1. job[w] \in Job
        BY <3>3, WorkerTypes DEF ReadHeight
      <4> QED
        BY <3>1, <3>3, <4>1 DEF ReadHeight, PipelineInv, LocalsTyped, Job
    <3>4. CASE Take(w)
      BY <2>2, <3>1, <3>4 DEF Take, AfterStored, GoTo, PipelineInv, LocalsTyped
    <3>5. CASE ReadSize(w) \/ SetSize(w) \/ SetFirst(w) \/ ReadFirst(w)
      <4>1. pc[w] \in HeightLabels \ {"readHeight"} /\ pc[w] # "idle"
        BY <3>5 DEF ReadSize, SetSize, SetFirst, ReadFirst, HeightLabels
      <4> QED
        BY <4>1, WorkerTypes DEF IsSound, SummaryProject, Job
    <3>6. CASE ReadFails(w)
      <4>1. CASE pc[w] = "readHeight"
        BY <2>2, <3>1, <3>6, <4>1
           DEF ReadFails, Fails, Return, GoTo, PipelineInv, LocalsTyped
      <4>2. CASE pc[w] \in {"readSize", "readFirst"}
        BY <4>2, WorkerTypes DEF IsSound, HeightLabels, SummaryProject, Job
      <4> QED
        BY <3>6, <4>1, <4>2 DEF ReadFails, Fails
    <3> QED
      BY <3>1, <3>2, <3>3, <3>4, <3>5, <3>6, UnindexedArrives
         DEF AssignTentativeHeight
  <2>3. ASSUME NEW w \in Workers, pc'[w] = "setHeight"
        PROVE  job'[w].height = tentativeBlockHeight + 1
    <3> DEFINE x == Snapshot(job'[w])
    <3>1. x \in Unrecorded'
      BY <1>0, <2>3 DEF Unrecorded, JobsAt, Snapshot
    <3>2. ASSUME NEW v \in Workers, IsIndexedBy(v, x)
          PROVE  x.height = tentativeBlockHeight + 1
      BY <3>2 DEF IsIndexedBy, Index, CounterInv
    <3>3. ASSUME x \in Unrecorded PROVE x.height = tentativeBlockHeight + 1
      <4>1. PICK p \in Goroutines : pc[p] = "setHeight" /\ x = Snapshot(job[p])
        BY <3>3 DEF Unrecorded, JobsAt
      <4>2. p \in Workers
        BY <4>1, PollerTypes DEF Goroutines
      <4>3. x.height = job[p].height
        BY <4>1 DEF Snapshot
      <4> QED
        BY <4>1, <4>2, <4>3 DEF CounterInv
    <3>4. x.height = job'[w].height
      BY DEF Snapshot
    <3> HIDE DEF x
    <3> QED
      BY <3>1, <3>2, <3>3, <3>4, FlowHolds DEF FlowStep
  <2> QED
    BY <2>1, <2>2, <2>3 DEF CounterInv
<1> QED
  BY <1>4, <1>5

\* A goroutine arrives between the two calls to the counter by the first one.
LEMMA CounterArrives ==
  ASSUME SummaryProject, PipelineInv, [Next]_vars, NEW w \in Workers,
         pc'[w] \in CounterCalls
  PROVE  pc[w] \in CounterCalls \/ ReadHeight(w)
<1>0. Workers \subseteq Goroutines /\ Poller \in Goroutines /\ Poller \notin Workers
  BY GoroutinesAreDistinct DEF Goroutines
<1>1. \A j : AfterStored(j) \notin CounterCalls
  BY DEF AfterStored, CounterCalls
<1>2. pc[w] # "idle" => ~IsOrdered(job[w].commit)
  BY WorkerTypes DEF Job, SummaryProject
<1>3. CASE Take(w) \/ AssignTentativeHeight(w) \/ ReadFails(w)
  <2>1. CASE Take(w)
    BY <1>0, <1>1, <2>1
       DEF Take, GoTo, CounterCalls, PipelineInv, LocalsTyped
  <2>2. CASE ReadSize(w) \/ SetSize(w) \/ SetFirst(w) \/ ReadFirst(w)
    BY <1>2, <2>2, WorkerTypes
       DEF ReadSize, SetSize, SetFirst, ReadFirst, IsSound, HeightLabels
  <2>3. CASE ReadFails(w)
    <3>1. CASE pc[w] = "readHeight"
      BY <1>0, <2>3, <3>1
         DEF ReadFails, Fails, Return, GoTo, CounterCalls, PipelineInv,
             LocalsTyped
    <3>2. CASE pc[w] \in {"readSize", "readFirst"}
      BY <1>2, <3>2, WorkerTypes DEF IsSound, HeightLabels
    <3> QED
      BY <2>3, <3>1, <3>2 DEF ReadFails, Fails
  <2> QED
    BY <1>3, <2>1, <2>2, <2>3 DEF AssignTentativeHeight
<1>4. CASE pc'[w] = "index"
  <2>1. pc'[w] \in Unindexed
    BY <1>4 DEF Unindexed
  <2>2. Stands(w) => pc[w] \in CounterCalls
    BY DEF Stands
  <2> QED
    BY <1>3, <2>1, <2>2, UnindexedArrives
<1>5. CASE pc'[w] = "setHeight"
  <2>1. ASSUME NEW v \in Workers,
               \/ Work(v) \/ ReadFails(v) \/ SendFails(v)
               \/ WriteFails(v) \/ RemoveFails(v)
        PROVE  pc[w] \in CounterCalls \/ ReadHeight(w)
    <3>1. CASE v # w
      BY <1>5, <2>1, <3>1, OthersStand DEF CounterCalls
    <3>2. CASE v = w /\ (Index(w) \/ SetHeight(w))
      BY <3>2 DEF Index, SetHeight, CounterCalls
    <3>3. CASE v = w /\ (SetParams(w) \/ Send(w) \/ SendFails(w) \/ SubmitForConsensus(w))
      BY <1>0, <1>5, <3>3
         DEF SetParams, Send, SendFails, ToPending, SubmitForConsensus,
             ProposeAccepted, ProposeFinalized, ProposeOther, Return, GoTo,
             PipelineInv, LocalsTyped
    <3>4. CASE v = w /\ (AddToPendingTxns(w) \/ RemoveFails(w) \/ WriteFails(w))
      BY <1>0, <1>5, <3>4
         DEF AddToPendingTxns, PendRemove, PendAdd, Post, RemoveFails,
             WriteFails, Return, GoTo, PipelineInv, LocalsTyped
    <3> QED
      BY <1>3, <2>1, <3>1, <3>2, <3>3, <3>4 DEF Work
  <2>2. CASE \/ PollRead \/ PollExpired \/ PollNotYet \/ PollFinalized
             \/ AddToPendingTxns(Poller) \/ RemoveFails(Poller)
             \/ WriteFails(Poller)
    <3>1. pc'[w] = pc[w]
      BY <1>0, <2>2
         DEF PollRead, PollExpired, PollNotYet, PollFinalized,
             AddToPendingTxns, PendRemove, PendAdd, Post, RemoveFails,
             WriteFails, Return, GoTo, PipelineInv, LocalsTyped
    <3> QED
      BY <3>1
  <2>3. CASE \/ Settle \/ (\E t \in txs : TxConfirmed(t))
             \/ (\E e \in pending : Resubmit(e)) \/ UNCHANGED vars
    BY <2>3 DEF Settle, TxConfirmed, Resubmit, vars, localVars
  <2>4. ~ProcessDies
    BY <1>0, <1>5 DEF ProcessDies
  <2>5. CASE Failure
    <3>1. \/ \E v \in Workers : \/ ReadFails(v) \/ SendFails(v)
                                \/ WriteFails(v) \/ RemoveFails(v)
          \/ WriteFails(Poller) \/ RemoveFails(Poller)
          \/ PollExpired \/ ProcessDies
      BY <2>5 DEF Failure, Goroutines
    <3> QED
      BY <2>1, <2>2, <2>4, <3>1
  <2>6. CASE Poll
    BY <2>2, <2>6 DEF Poll
  <2> QED
    BY <2>1, <2>3, <2>5, <2>6 DEF Next
<1> QED
  BY <1>4, <1>5 DEF CounterCalls

\* A goroutine between the two calls is alone, as long as none met another.
LEMMA CounterAlone ==
  ASSUME SummaryProject, PipelineInv, Alone(CounterCalls), [Next]_vars,
         metAtCounter' = {}
  PROVE  Alone(CounterCalls)'
<1>1. ASSUME NEW w \in Workers, ReadHeight(w) PROVE Alone(CounterCalls)'
  <2>1. \A v \in Workers \ {w} : pc'[v] = pc[v]
    BY <1>1 DEF ReadHeight, GoTo, Goroutines, PipelineInv, LocalsTyped
  <2>2. Meeting(w, CounterCalls) = {}
    BY <1>1 DEF ReadHeight
  <2> QED
    BY <2>1, <2>2, ArrivesAlone
<1>2. CASE \A w \in Workers : ~ReadHeight(w)
  BY <1>2, CounterArrives, StaysAlone
<1> QED
  BY <1>1, <1>2

\* The invariant of the counter, as long as no two goroutines met at it.
CounterUnlessMet == metAtCounter = {} => CounterInv /\ Alone(CounterCalls)

\* Two snapshots of a summary project never share a height in the pending set,
\* although a height whose goroutine fails before it is written back is given
\* again, unless two goroutines have read the counter before either wrote it.
THEOREM CountedOnce ==
  ASSUME SummaryProject PROVE Spec => []CountedHeightsAreOwn
<1>1. Init => CounterUnlessMet
  BY InFlightInit
     DEF Init, CounterUnlessMet, CounterInv, InFlight, Goroutines, Alone,
         CounterCalls
<1>2. ASSUME PipelineInv, CounterUnlessMet, [Next]_vars
      PROVE  CounterUnlessMet'
  <2>1. SUFFICES ASSUME metAtCounter' = {}
                 PROVE  CounterInv' /\ Alone(CounterCalls)'
    BY DEF CounterUnlessMet
  <2>2. CounterInv /\ Alone(CounterCalls)
    BY <1>2, <2>1, MeetingsGrow DEF CounterUnlessMet
  <2> QED
    BY <1>2, <2>1, <2>2, CounterStep, CounterAlone
<1>3. ASSUME CounterInv PROVE OneCommitPerHeight
  <2>1. \A p \in pending : /\ Snapshot(p) \in Queued
                           /\ Snapshot(p).height = p.height
                           /\ Snapshot(p).commit = p.commit
    BY DEF Queued, Snapshot
  <2> QED
    BY <1>3, <2>1 DEF CounterInv, OneCommitPerHeight
<1>4. CounterUnlessMet => CountedHeightsAreOwn
  BY <1>3 DEF CounterUnlessMet, CountedHeightsAreOwn
<1> QED
  BY <1>1, <1>2, <1>4, PipelineHolds, PTL DEF Spec

(***************************************************************************)
(* What the tx manager anchors                                             *)
(***************************************************************************)
\* If x carries a request ID, it is that of a transaction for its snapshot, or
\* its goroutine has met another one.
IsAnchored(x) ==
    (x.commit \in Anchored \ metAtParams /\ x.req # 0) => AsCallback(x) \in txs

AnchorInv ==
    /\ \A e \in pending : IsAnchored(e)
    /\ \A w \in Workers :
          /\ pc[w] \in {"pendRemove", "pendAdd"} => IsAnchored(job[w])
          /\ pc[w] = "send" /\ job[w].commit \notin metAtParams
                => Snapshot(params) = Snapshot(job[w])

\* Transactions are only added, and pending entries are old ones, resubmitted
\* ones, or that of the goroutine which adds one.
LEMMA AnchorFrame ==
  ASSUME [Next]_vars
  PROVE  /\ txs \subseteq txs'
         /\ \/ \A e \in pending' : e \in pending
            \/ \E e \in pending : Resubmit(e)
            \/ \E p \in Goroutines : PendAdd(p)
<1> DEFINE Goal == /\ txs \subseteq txs'
                   /\ \/ \A e \in pending' : e \in pending
                      \/ \E e \in pending : Resubmit(e)
                      \/ \E p \in Goroutines : PendAdd(p)
<1>1. ASSUME NEW p \in Goroutines,
             \/ Take(p) \/ AssignTentativeHeight(p) \/ ReadFails(p)
             \/ Index(p) \/ SetHeight(p)
             \/ SetParams(p) \/ Send(p) \/ SendFails(p)
             \/ SubmitForConsensus(p) \/ AddToPendingTxns(p)
             \/ RemoveFails(p) \/ WriteFails(p)
      PROVE  Goal
  <2>1. txs \subseteq txs'
    BY <1>1 DEF Take, AssignTentativeHeight, ReadHeight, ReadSize, SetSize,
     SetFirst, ReadFirst, ReadFails, Index, SetHeight, SetParams, Send,
     SendFails, Accepted, SubmitForConsensus, ProposeAccepted, ProposeFinalized,
     ProposeOther, AddToPendingTxns, PendRemove, PendAdd, Post, RemoveFails,
     WriteFails, outVars
  <2>2. (\A e \in pending' : e \in pending) \/ PendAdd(p)
    BY <1>1 DEF Take, AssignTentativeHeight, ReadHeight, ReadSize, SetSize,
     SetFirst, ReadFirst, ReadFails, Index, SetHeight, SetParams, Send,
     SendFails, SubmitForConsensus, ProposeAccepted, ProposeFinalized,
     ProposeOther, AddToPendingTxns, PendRemove, Post, RemoveFails, WriteFails
  <2> QED
    BY <2>1, <2>2
<1>2. CASE PollRead \/ PollExpired \/ PollNotYet \/ PollFinalized \/ ProcessDies
  BY <1>2 DEF PollRead, PollExpired, PollNotYet, PollFinalized, ProcessDies,
              outVars
<1>3. CASE \/ Settle \/ (\E t \in txs : TxConfirmed(t))
           \/ (\E e \in pending : Resubmit(e)) \/ UNCHANGED vars
  BY <1>3 DEF Settle, TxConfirmed, Resubmit, vars, outVars
<1>4. Workers \subseteq Goroutines /\ Poller \in Goroutines
  BY DEF Goroutines
<1>5. ASSUME NEW w \in Workers, Work(w) PROVE Goal
  BY <1>1, <1>4, <1>5 DEF Work
<1>6. CASE Poll
  BY <1>1, <1>2, <1>4, <1>6 DEF Poll
<1>7. CASE Failure
  BY <1>1, <1>2, <1>4, <1>7 DEF Failure
<1> QED
  BY <1>3, <1>5, <1>6, <1>7 DEF Next

LEMMA AnchorPending ==
  ASSUME PipelineInv, AnchorInv, [Next]_vars
  PROVE  \A e \in pending' : IsAnchored(e)'
<1>1. \A e \in pending : IsAnchored(e)'
  BY AnchorFrame, MeetingsGrow DEF AnchorInv, IsAnchored
<1>2. ASSUME NEW e \in pending, Resubmit(e), NEW f \in pending'
      PROVE  IsAnchored(f)'
  <2> DEFINE g == [e EXCEPT !.touched = 1]
  <2>1. AsCallback(g) = AsCallback(e) /\ g.commit = e.commit /\ g.req = e.req
    BY DEF AsCallback, PipelineInv, MessagesTyped, PendingEntry
  <2>2. f = g \/ f \in pending
    BY <1>2 DEF Resubmit
  <2> HIDE DEF g
  <2>3. IsAnchored(e)' => IsAnchored(g)'
    BY <2>1 DEF IsAnchored
  <2> QED
    BY <1>1, <2>2, <2>3
<1>3. ASSUME NEW p \in Goroutines, PendAdd(p), NEW f \in pending'
      PROVE  IsAnchored(f)'
  <2> DEFINE r == IF job[p].commit \in Anchored THEN job[p].req ELSE issued + 1
             e0 == [commit |-> job[p].commit, height |-> job[p].height,
                    cid |-> job[p].cid, req |-> r, touched |-> job[p].touched]
  <2>1. (f \in pending \/ f = e0) /\ txs' = txs
    BY <1>3 DEF PendAdd
  <2>2. CASE f = e0 /\ job[p].commit \in Anchored
    <3>1. p \in Workers
      BY <1>3, <2>2, PollerTypes DEF PendAdd, Goroutines, IsWaiting
    <3>2. IsAnchored(job[p])
      BY <1>3, <3>1 DEF PendAdd, AnchorInv
    <3>3. AsCallback(f) = AsCallback(job[p]) /\ f.commit = job[p].commit
          /\ f.req = job[p].req
      BY <2>2 DEF AsCallback
    <3> QED
      BY <2>1, <3>2, <3>3, MeetingsGrow DEF IsAnchored
  <2>3. CASE f = e0 /\ job[p].commit \notin Anchored
    BY <2>3 DEF IsAnchored
  <2> QED
    BY <1>1, <2>1, <2>2, <2>3
<1> QED
  BY <1>1, <1>2, <1>3, AnchorFrame

LEMMA AnchorStep ==
  ASSUME PipelineInv, AnchorInv, [Next]_vars
  PROVE  AnchorInv'
<1> DEFINE Good(w) ==
      /\ pc[w] \in {"pendRemove", "pendAdd"} => IsAnchored(job[w])
      /\ pc[w] = "send" /\ job[w].commit \notin metAtParams
            => Snapshot(params) = Snapshot(job[w])
<1>0. Workers \subseteq Goroutines /\ Poller \in Goroutines /\ Poller \notin Workers
  BY GoroutinesAreDistinct DEF Goroutines
<1>1. \A w \in Workers : IsAnchored(job[w]) /\ job'[w] = job[w] => IsAnchored(job[w])'
  BY AnchorFrame, MeetingsGrow DEF IsAnchored
\* A worker that stands while the parameters stay, or are filled in by another.
<1>2. ASSUME NEW w \in Workers, pc'[w] = pc[w], job'[w] = job[w], params' = params
      PROVE  Good(w)'
  BY <1>1, <1>2, MeetingsGrow DEF AnchorInv, Snapshot
<1>14. ASSUME NEW w \in Workers, NEW v \in Workers \ {w},
              pc'[w] = pc[w], job'[w] = job[w], SetParams(v)
       PROVE  Good(w)'
  <2>1. Meeting(v, ParamsCalls) \subseteq metAtParams'
    BY <1>14 DEF SetParams
  <2>2. pc'[w] = "send" => job'[w].commit \in metAtParams'
    BY <1>14, <2>1 DEF Meeting, ParamsCalls
  <2> QED
    BY <1>1, <1>14, <2>2 DEF AnchorInv
<1>3. ASSUME NEW w \in Workers, pc'[w] \notin {"pendRemove", "pendAdd", "send"}
      PROVE  Good(w)'
  BY <1>3
<1>4. ASSUME NEW w \in Workers, pc'[w] \in {"pendRemove", "pendAdd"},
             job'[w].commit \notin Anchored \/ job'[w].req = 0
      PROVE  Good(w)'
  BY <1>4 DEF IsAnchored
<1>5. ASSUME NEW w \in Workers,
             \/ Take(w) \/ AssignTentativeHeight(w) \/ ReadFails(w)
             \/ Index(w) \/ SetHeight(w)
      PROVE  Good(w)'
  <2>1. \A j : /\ j.commit \in Anchored => AfterStored(j) = "params"
               /\ AfterStored(j) # "send"
    BY DEF AfterStored
  <2>2. CASE Take(w)
    <3>1. PICK m \in queue :
            /\ job' = [job EXCEPT ![w] = m]
            /\ GoTo(w, IF m.touched = 1 THEN AfterStored(m)
                       ELSE IF IsOrdered(m.commit) THEN "readSize"
                       ELSE "readHeight")
      BY <2>2 DEF Take
    <3>2. job'[w] = m /\ m.req = 0 /\ pc'[w] # "send"
      BY <1>0, <2>1, <3>1 DEF GoTo, PipelineInv, LocalsTyped, MessagesSound
    <3> QED
      BY <1>3, <1>4, <3>2
  <2>3. CASE AssignTentativeHeight(w) \/ ReadFails(w)
    <3>1. pc'[w] \notin {"pendRemove", "pendAdd", "send"}
      BY <1>0, <2>3
         DEF AssignTentativeHeight, ReadHeight, ReadSize, SetSize, SetFirst,
             ReadFirst, ReadFails, AssignHeight, Return, GoTo, PipelineInv,
             LocalsTyped
    <3> QED
      BY <1>3, <3>1
  <2>4. CASE Index(w) \/ SetHeight(w)
    <3>1. /\ job[w] \in Job
          /\ pc'[w] = AfterStored(job[w]) \/ pc'[w] = "setHeight"
      BY <1>0, <2>4, WorkerTypes
         DEF Index, SetHeight, GoTo, PipelineInv, LocalsTyped
    <3>2. job'[w].commit = job[w].commit
      BY <1>0, <2>4, <3>1 DEF Index, SetHeight, PipelineInv, LocalsTyped, Job
    <3> QED
      BY <1>3, <1>4, <2>1, <3>1, <3>2
  <2> QED
    BY <1>5, <2>2, <2>3, <2>4
<1>6. ASSUME NEW w \in Workers, SetParams(w) \/ Send(w) \/ SendFails(w)
      PROVE  Good(w)'
  <2>1. CASE SetParams(w)
    BY <1>0, <2>1 DEF SetParams, GoTo, PipelineInv, LocalsTyped
  <2>2. CASE Send(w)
    <3>1. job[w] \in Job /\ pc[w] = "send"
      BY <2>2, WorkerTypes DEF Send
    <3>2. job'[w] = [job[w] EXCEPT !.req = issued'] /\ pc'[w] # "send"
      BY <1>0, <2>2 DEF Send, ToPending, GoTo, PipelineInv, LocalsTyped
    <3>3. SUFFICES ASSUME job'[w].commit \notin metAtParams'
                   PROVE  AsCallback(job'[w]) \in txs'
      BY <3>2 DEF IsAnchored
    <3>4. job[w].commit \notin metAtParams
      BY <3>1, <3>2, <3>3, MeetingsGrow DEF Job
    <3>5. params.commit = job[w].commit /\ params.height = job[w].height
          /\ params.cid = job[w].cid
      BY <3>1, <3>4 DEF Snapshot, AnchorInv
    <3>6. AsCallback(job'[w]) = [commit |-> params.commit,
               height |-> params.height, cid |-> params.cid, req |-> issued']
      BY <3>1, <3>2, <3>5 DEF AsCallback, Job
    <3> QED
      BY <2>2, <3>6 DEF Send, Accepted
  <2>3. CASE SendFails(w)
    <3>1. job[w] \in Job
      BY <2>3, WorkerTypes DEF SendFails, Fails
    <3>2. job'[w].req = 0 /\ pc'[w] # "send"
      BY <1>0, <2>3, <3>1
         DEF SendFails, ToPending, GoTo, PipelineInv, LocalsTyped, Job
    <3> QED
      BY <1>3, <1>4, <3>2
  <2> QED
    BY <1>6, <2>1, <2>2, <2>3
<1>7. ASSUME NEW w \in Workers, SubmitForConsensus(w) PROVE Good(w)'
  <2>1. job[w] \in Job /\ job[w].commit \notin Anchored
    BY <1>7, WorkerTypes
       DEF SubmitForConsensus, ProposeAccepted, ProposeFinalized, ProposeOther,
           IsSound
  <2>2. CASE ProposeAccepted(w)
    BY <1>0, <1>3, <2>2 DEF ProposeAccepted, Return, GoTo, PipelineInv, LocalsTyped
  <2>3. CASE ProposeFinalized(w) \/ ProposeOther(w)
    <3>1. pc'[w] = "pendAdd" /\ job'[w].commit = job[w].commit
      BY <1>0, <2>1, <2>3
         DEF ProposeFinalized, ProposeOther, GoTo, PipelineInv, LocalsTyped, Job
    <3> QED
      BY <1>4, <2>1, <3>1
  <2> QED
    BY <1>7, <2>2, <2>3 DEF SubmitForConsensus
<1>8. ASSUME NEW w \in Workers,
             AddToPendingTxns(w) \/ RemoveFails(w) \/ WriteFails(w)
      PROVE  Good(w)'
  <2>1. CASE PendRemove(w) \/ RemoveFails(w)
    <3>1. pc[w] = "pendRemove" /\ pc'[w] = "pendAdd" /\ job'[w] = job[w]
      BY <1>0, <2>1
         DEF PendRemove, RemoveFails, Fails, GoTo, PipelineInv, LocalsTyped
    <3> QED
      BY <1>1, <3>1 DEF AnchorInv
  <2>2. CASE PendAdd(w) \/ Post(w) \/ WriteFails(w)
    <3>1. pc'[w] \notin {"pendRemove", "pendAdd", "send"}
      BY <1>0, <2>2
         DEF PendAdd, Post, WriteFails, Return, GoTo, PipelineInv, LocalsTyped
    <3> QED
      BY <1>3, <3>1
  <2> QED
    BY <1>8, <2>1, <2>2 DEF AddToPendingTxns
<1>9. ASSUME NEW w \in Workers,
             \/ PollRead \/ PollExpired \/ PollNotYet \/ PollFinalized
             \/ AddToPendingTxns(Poller) \/ RemoveFails(Poller)
             \/ WriteFails(Poller)
      PROVE  Good(w)'
  <2>1. pc'[w] = pc[w] /\ job'[w] = job[w] /\ params' = params
    BY <1>0, <1>9
       DEF PollRead, PollExpired, PollNotYet, PollFinalized, AddToPendingTxns,
           PendRemove, PendAdd, Post, RemoveFails, WriteFails, Return, GoTo,
           sharedVars, PipelineInv, LocalsTyped
  <2> QED
    BY <1>2, <2>1
<1>10. ASSUME NEW w \in Workers, ProcessDies PROVE Good(w)'
  BY <1>0, <1>3, <1>10 DEF ProcessDies
<1>11. ASSUME NEW w \in Workers,
              \/ Settle \/ (\E t \in txs : TxConfirmed(t))
              \/ (\E e \in pending : Resubmit(e)) \/ UNCHANGED vars
       PROVE  Good(w)'
  BY <1>2, <1>11 DEF Settle, TxConfirmed, Resubmit, vars, localVars, sharedVars
<1>15. ASSUME NEW w \in Workers, NEW v \in Workers,
              \/ Work(v) \/ ReadFails(v) \/ SendFails(v)
              \/ WriteFails(v) \/ RemoveFails(v)
       PROVE  Good(w)'
  <2>1. CASE v = w
    BY <1>5, <1>6, <1>7, <1>8, <1>15, <2>1 DEF Work
  <2>2. CASE v # w
    <3>1. pc'[w] = pc[w] /\ job'[w] = job[w] /\ (params' = params \/ SetParams(v))
      BY <1>15, <2>2, OthersStand
    <3> QED
      BY <1>2, <1>14, <2>2, <3>1
  <2> QED
    BY <2>1, <2>2
<1>12. ASSUME NEW w \in Workers PROVE Good(w)'
  <2>1. CASE \E v \in Workers : Work(v)
    BY <1>15, <2>1
  <2>2. CASE Poll
    BY <1>9, <2>2 DEF Poll
  <2>3. CASE Failure
    <3>1. \/ \E v \in Workers : \/ ReadFails(v) \/ SendFails(v)
                                \/ WriteFails(v) \/ RemoveFails(v)
          \/ WriteFails(Poller) \/ RemoveFails(Poller)
          \/ PollExpired \/ ProcessDies
      BY <2>3 DEF Failure, Goroutines
    <3> QED
      BY <1>9, <1>10, <1>15, <3>1
  <2> QED
    BY <1>11, <2>1, <2>2, <2>3 DEF Next
<1>13. \A w \in Workers : Good(w)'
  BY <1>12
<1> QED
  BY <1>13, AnchorPending DEF AnchorInv

\* The request ID of a pending entry is that of a transaction for the very
\* snapshot of the entry, through lost requests and answers and through
\* resubmissions, unless its goroutine used the shared parameters together with
\* another one.
THEOREM RequestsAnchorTheirSnapshot == Spec => []AnchorsItsSnapshot
<1>1. Init => AnchorInv
  BY DEF Init, AnchorInv, Goroutines
<1>2. PipelineInv /\ AnchorInv /\ [Next]_vars => AnchorInv'
  BY AnchorStep
<1>3. AnchorInv => AnchorsItsSnapshot
  BY DEF AnchorInv, IsAnchored, AnchorsItsSnapshot
<1> QED
  BY <1>1, <1>2, <1>3, PipelineHolds, PTL DEF Spec

(***************************************************************************)
(* Callbacks find their entries                                            *)
(***************************************************************************)
\* The process does not die, and adding a pending entry does not fail.
EntriesAreAdded == FailAt \intersect {"propose", "pendAdd", "crash"} = {}

\* A worker that is about to add an entry at height h again.
IsReplacing(w, h) == pc[w] = "pendAdd" /\ job[w].height = h /\ job[w].touched = 1

\* A callback for height h with request ID r finds an entry to match.
IsCovered(h, r) ==
    \/ \E e \in pending : e.height = h /\ (e.req = r \/ e.touched = 1)
    \/ \E w \in Workers : IsReplacing(w, h)

CoveredInv ==
    /\ \A c \in callbacks : c.commit \notin Anchored => IsCovered(c.height, c.req)
    /\ \A p \in Goroutines : pc[p] = "post" => IsCovered(job[p].height, job[p].req)

\* What each kind of step does to goroutines at the last two labels, to the
\* pending entries and to the callbacks.
LEMMA CoverFrame ==
  ASSUME EntriesAreAdded, PipelineInv, [Next]_vars
  PROVE  \/ \E p \in Workers : PendRemove(p)
         \/ \E p \in Goroutines : PendAdd(p)
         \/ \E p \in Goroutines : Post(p)
         \/ \E e \in pending : Resubmit(e)
         \/ /\ pending' = pending
            /\ \A c \in callbacks' : c \in callbacks \/ c \in txs
            /\ \A p \in Goroutines :
                  /\ pc[p] = "pendAdd" => pc'[p] = "pendAdd" /\ job'[p] = job[p]
                  /\ pc'[p] = "post" => pc[p] = "post" /\ job'[p] = job[p]
<1> DEFINE Same == /\ pending' = pending
                   /\ \A c \in callbacks' : c \in callbacks \/ c \in txs
                   /\ \A p \in Goroutines :
                        /\ pc[p] = "pendAdd" => pc'[p] = "pendAdd" /\ job'[p] = job[p]
                        /\ pc'[p] = "post" => pc[p] = "post" /\ job'[p] = job[p]
<1>0. Workers \subseteq Goroutines /\ Poller \in Goroutines
  BY DEF Goroutines
<1>1. ASSUME NEW p \in Goroutines, pc[p] # "pendAdd", pc'[p] # "post",
             pending' = pending, callbacks' = callbacks,
             \A q \in Goroutines \ {p} : pc'[q] = pc[q] /\ job'[q] = job[q]
      PROVE  Same
  BY <1>1
<1>2. ASSUME NEW p \in Goroutines,
             \/ Take(p) \/ AssignTentativeHeight(p) \/ ReadFails(p)
      PROVE  Same
  <2>1. pc[p] # "pendAdd" /\ pending' = pending /\ callbacks' = callbacks
    BY <1>2 DEF Take, AssignTentativeHeight, ReadHeight, ReadSize, SetSize,
     SetFirst, ReadFirst, ReadFails, Fails, outVars
  <2>2. \A q \in Goroutines \ {p} : pc'[q] = pc[q] /\ job'[q] = job[q]
    BY <1>2 DEF Take, AssignTentativeHeight, ReadHeight, ReadSize, SetSize,
     SetFirst, ReadFirst, ReadFails, AssignHeight, Return, GoTo, PipelineInv,
     LocalsTyped
  <2>3. pc'[p] # "post"
    BY <1>2 DEF Take, AssignTentativeHeight, ReadHeight, ReadSize, SetSize,
     SetFirst, ReadFirst, ReadFails, AssignHeight, AfterStored, Return, GoTo,
     PipelineInv, LocalsTyped
  <2> QED
    BY <1>1, <2>1, <2>2, <2>3
<1>3. ASSUME NEW p \in Goroutines,
             \/ Index(p) \/ SetHeight(p) \/ SetParams(p) \/ Send(p) \/ SendFails(p)
             \/ SubmitForConsensus(p) \/ RemoveFails(p)
      PROVE  Same
  <2>1. pc[p] # "pendAdd" /\ pending' = pending /\ callbacks' = callbacks
    BY <1>3 DEF Index, SetHeight, SetParams, Send, SendFails,
     SubmitForConsensus, ProposeAccepted, ProposeFinalized, ProposeOther,
     RemoveFails, Fails, outVars
  <2>2. \A q \in Goroutines \ {p} : pc'[q] = pc[q] /\ job'[q] = job[q]
    BY <1>3 DEF Index, SetHeight, SetParams, Send, SendFails, ToPending,
     SubmitForConsensus, ProposeAccepted, ProposeFinalized, ProposeOther,
     RemoveFails, Return, GoTo, PipelineInv, LocalsTyped
  <2>3. pc'[p] # "post"
    BY <1>3 DEF Index, SetHeight, SetParams, Send, SendFails, ToPending,
     SubmitForConsensus, ProposeAccepted, ProposeFinalized, ProposeOther,
     RemoveFails, AfterStored, Return, GoTo, PipelineInv, LocalsTyped
  <2> QED
    BY <1>1, <2>1, <2>2, <2>3
<1>4. ASSUME NEW p \in Goroutines, WriteFails(p) PROVE Same
  <2>1. pc[p] # "pendAdd" /\ pending' = pending /\ callbacks' = callbacks
    BY <1>4 DEF WriteFails, Fails, outVars, EntriesAreAdded
  <2>2. /\ \A q \in Goroutines \ {p} : pc'[q] = pc[q] /\ job'[q] = job[q]
        /\ pc'[p] # "post"
    BY <1>4 DEF WriteFails, Return, GoTo, PipelineInv, LocalsTyped
  <2> QED
    BY <1>1, <2>1, <2>2
<1>5. CASE PollRead \/ PollExpired \/ PollNotYet \/ PollFinalized
  <2>1. pc[Poller] # "pendAdd" /\ pending' = pending /\ callbacks' = callbacks
    BY <1>5 DEF PollRead, PollExpired, PollNotYet, PollFinalized, Fails, outVars
  <2>2. /\ \A q \in Goroutines \ {Poller} : pc'[q] = pc[q] /\ job'[q] = job[q]
        /\ pc'[Poller] # "post"
    BY <1>0, <1>5 DEF PollRead, PollExpired, PollNotYet, PollFinalized, Return,
                      GoTo, PipelineInv, LocalsTyped
  <2> QED
    BY <1>0, <1>1, <2>1, <2>2
<1>6. ~ProcessDies
  BY DEF ProcessDies, Fails, EntriesAreAdded
<1>7. CASE Settle \/ (\E t \in txs : TxConfirmed(t)) \/ UNCHANGED vars
  BY <1>7 DEF Settle, TxConfirmed, vars, localVars, outVars
<1>8. \A p \in Goroutines : PendRemove(p) => p \in Workers
  BY PollerTypes DEF PendRemove, Goroutines
<1>9. ASSUME NEW w \in Workers, Work(w)
      PROVE  Same \/ PendRemove(w) \/ PendAdd(w) \/ Post(w)
  BY <1>0, <1>2, <1>3, <1>9 DEF Work, AddToPendingTxns
<1>10. CASE Poll
  BY <1>0, <1>5, <1>8, <1>10 DEF Poll, AddToPendingTxns
<1>11. CASE Failure
  BY <1>0, <1>2, <1>3, <1>4, <1>5, <1>6, <1>11 DEF Failure
<1> QED
  BY <1>0, <1>7, <1>9, <1>10, <1>11 DEF Next

LEMMA CoveredStep ==
  ASSUME EntriesAreAdded, PipelineInv, CoveredInv, [Next]_vars
  PROVE  CoveredInv'
<1> DEFINE Stay == \A h, r : IsCovered(h, r) => IsCovered(h, r)'
           Posts == \A p \in Goroutines : pc'[p] = "post" =>
                        pc[p] = "post" /\ job'[p] = job[p]
<1>0. Workers \subseteq Goroutines
  BY DEF Goroutines
<1>1. ASSUME Stay, Posts, \A c \in callbacks' : c \in callbacks \/ c \in txs
      PROVE  CoveredInv'
  BY <1>1 DEF CoveredInv, PipelineInv, MessagesSound
<1>2. ASSUME NEW p \in Workers, PendRemove(p) PROVE CoveredInv'
  <2>1. /\ pc[p] = "pendRemove" /\ job[p].touched = 1
        /\ pc'[p] = "pendAdd" /\ job'[p] = job[p]
        /\ pending' = {e \in pending : e.height # job[p].height}
        /\ callbacks' = callbacks
    BY <1>0, <1>2, GoroutineTypes
       DEF PendRemove, GoTo, IsSound, PipelineInv, LocalsTyped, outVars
  <2>2. \A q \in Goroutines \ {p} : pc'[q] = pc[q] /\ job'[q] = job[q]
    BY <1>2 DEF PendRemove, GoTo, PipelineInv, LocalsTyped
  <2>3. ASSUME NEW h, NEW r, IsCovered(h, r) PROVE IsCovered(h, r)'
    <3>1. CASE h = job[p].height
      <4>1. IsReplacing(p, h)'
        BY <2>1, <3>1 DEF IsReplacing
      <4> QED
        BY <4>1 DEF IsCovered
    <3>2. CASE h # job[p].height
      <4>1. \A w \in Workers : IsReplacing(w, h) => IsReplacing(w, h)'
        BY <1>0, <2>1, <2>2 DEF IsReplacing
      <4> QED
        BY <2>1, <2>3, <3>2, <4>1 DEF IsCovered
    <3> QED
      BY <3>1, <3>2
  <2> QED
    BY <1>1, <2>1, <2>2, <2>3
<1>3. ASSUME NEW p \in Goroutines, PendAdd(p) PROVE CoveredInv'
  <2> DEFINE r0 == IF job[p].commit \in Anchored THEN job[p].req ELSE issued + 1
  <2>1. PICK e0 : e0 = [commit |-> job[p].commit, height |-> job[p].height,
                        cid |-> job[p].cid, req |-> r0,
                        touched |-> job[p].touched]
    OBVIOUS
  <2>2. pending' = pending \union {e0} /\ callbacks' = callbacks
    BY <1>3, <2>1 DEF PendAdd
  <2>3. /\ e0.height = job[p].height /\ e0.touched = job[p].touched
        /\ e0.req = r0
    BY <2>1
  <2>4. \A q \in Goroutines \ {p} : pc'[q] = pc[q] /\ job'[q] = job[q]
    BY <1>3 DEF PendAdd, Return, GoTo, PipelineInv, LocalsTyped
  <2>5. ASSUME NEW h, NEW r, IsCovered(h, r) PROVE IsCovered(h, r)'
    <3>1. CASE p \in Workers /\ IsReplacing(p, h)
      BY <2>2, <2>3, <3>1 DEF IsReplacing, IsCovered
    <3>2. \A w \in Workers \ {p} : IsReplacing(w, h) => IsReplacing(w, h)'
      BY <1>0, <2>4 DEF IsReplacing
    <3> QED
      BY <2>2, <2>5, <3>1, <3>2 DEF IsCovered
  <2>6. pc'[p] = "post" => job'[p].height = e0.height /\ job'[p].req = e0.req
    <3>1. job[p] \in Job
      BY <1>3, GoroutineTypes DEF PendAdd, StoredLabels, StoredJob
    <3> QED
      BY <1>3, <2>3, <3>1 DEF PendAdd, Return, GoTo, PipelineInv, LocalsTyped, Job
  <2>7. ASSUME NEW q \in Goroutines, pc'[q] = "post"
        PROVE  IsCovered(job[q].height, job[q].req)'
    <3>1. CASE q = p
      BY <2>2, <2>6, <2>7, <3>1 DEF IsCovered
    <3>2. CASE q # p
      <4>1. IsCovered(job[q].height, job[q].req) /\ job'[q] = job[q]
        BY <2>4, <2>7, <3>2 DEF CoveredInv
      <4> QED
        BY <2>5, <4>1
    <3> QED
      BY <3>1, <3>2
  <2>8. \A c \in callbacks' :
           c.commit \notin Anchored => IsCovered(c.height, c.req)'
    BY <2>2, <2>5 DEF CoveredInv
  <2> QED
    BY <2>7, <2>8 DEF CoveredInv
<1>4. ASSUME NEW p \in Goroutines, Post(p) PROVE CoveredInv'
  <2>1. /\ pc[p] = "post" /\ pc'[p] = "idle" /\ pending' = pending
        /\ callbacks' = callbacks \union {AsCallback(job[p])}
        /\ \A q \in Goroutines \ {p} : pc'[q] = pc[q] /\ job'[q] = job[q]
    BY <1>4 DEF Post, Return, GoTo, PipelineInv, LocalsTyped
  <2>2. \A w \in Workers : \A h : IsReplacing(w, h) => IsReplacing(w, h)'
    BY <1>0, <2>1 DEF IsReplacing
  <2>3. Stay
    BY <2>1, <2>2 DEF IsCovered
  <2>4. IsCovered(AsCallback(job[p]).height, AsCallback(job[p]).req)
    BY <2>1 DEF CoveredInv, AsCallback
  <2>5. \A c \in callbacks' :
           c.commit \notin Anchored => IsCovered(c.height, c.req)
    BY <2>1, <2>4 DEF CoveredInv
  <2>6. \A q \in Goroutines : pc'[q] = "post" =>
           IsCovered(job[q].height, job[q].req) /\ job'[q] = job[q]
    BY <2>1 DEF CoveredInv
  <2> QED
    BY <2>3, <2>5, <2>6 DEF CoveredInv
<1>5. ASSUME NEW e \in pending, Resubmit(e) PROVE CoveredInv'
  <2>1. /\ pending' = (pending \ {e}) \union {[e EXCEPT !.touched = 1]}
        /\ pc' = pc /\ job' = job /\ callbacks' = callbacks
    BY <1>5 DEF Resubmit, localVars, outVars
  <2>2. PICK f : f = [e EXCEPT !.touched = 1]
    OBVIOUS
  <2>3. f.height = e.height /\ f.req = e.req /\ f.touched = 1
    BY <2>2 DEF PipelineInv, MessagesTyped, PendingEntry
  <2>4. \A w \in Workers : \A h : IsReplacing(w, h) => IsReplacing(w, h)'
    BY <2>1 DEF IsReplacing
  <2>5. pending' = (pending \ {e}) \union {f}
    BY <2>1, <2>2
  <2>6. Stay
    BY <2>3, <2>4, <2>5 DEF IsCovered
  <2> QED
    BY <1>1, <2>1, <2>6
<1>6. CASE /\ pending' = pending
           /\ \A c \in callbacks' : c \in callbacks \/ c \in txs
           /\ \A p \in Goroutines :
                 /\ pc[p] = "pendAdd" => pc'[p] = "pendAdd" /\ job'[p] = job[p]
                 /\ pc'[p] = "post" => pc[p] = "post" /\ job'[p] = job[p]
  <2>1. \A w \in Workers : \A h : IsReplacing(w, h) => IsReplacing(w, h)'
    BY <1>0, <1>6 DEF IsReplacing
  <2>2. Stay
    BY <1>6, <2>1 DEF IsCovered
  <2> QED
    BY <1>1, <1>6, <2>2
<1> QED
  BY <1>2, <1>3, <1>4, <1>5, <1>6, CoverFrame

\* A callback without an anchor always finds an entry to match, however often
\* entries are resubmitted and replaced by several goroutines at once: if what
\* is removed is also added again.
THEOREM CallbacksFindEntries ==
  ASSUME EntriesAreAdded PROVE Spec => []CallbackFindsEntry
<1>1. Init => CoveredInv
  BY DEF Init, CoveredInv
<1>2. PipelineInv /\ CoveredInv /\ [Next]_vars => CoveredInv'
  BY CoveredStep
<1>3. CoveredInv => CallbackFindsEntry
  BY DEF CoveredInv, IsCovered, IsReplacing, CallbackFindsEntry
<1> QED
  BY <1>1, <1>2, <1>3, PipelineHolds, PTL DEF Spec
=============================================================================
