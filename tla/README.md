# TLA+ specifications of the audit protocol

This directory models the audit protocol of PowerLoom: a snapshotter commits
snapshots of a project, and the services of this repository turn them into a
chain of IPFS DAG blocks per project, keep indexes over the chain, verify it and
archive its old segments. The specifications are translated from the source;
`PROJECT.json` maps every definition to the lines it stands for.

## 1. Inventory

| Component | Source | State | Operations |
|---|---|---|---|
| Payload commit service | `go/payload-commit` | Redis: `tentativeBlockHeight`, `epochSize`, `firstEpochEndHeight`, `payloadCids`, `pendingTransactions`; in memory: `WaitQueueForConsensus` | take a commit or a resubmission from RabbitMQ, assign its tentative height, upload it, index its CID, anchor it or wait for consensus, queue it as pending, post the finalizer callback |
| Callback receiver | `dag_finalizer_callback_receiver.py` | none | publish a callback to `dag-processing` |
| DAG finalizer | `dag_finalizer.py`, `utils/dag_utils.py` | Redis: `blockHeight`, `lastDagCid`, `Cids`, `pendingTransactions`, `payloadCids`, `dagSegments`, `discardedTransactions`; IPFS blocks; one asyncio lock per project | discard, park or finalize a callback; resubmit overdue entries; heal; record segments; drain |
| Pruning and archival | `go/pruning-archival` | Redis: `dagSegments` states, `pruningStatus`; archives | export and upload the oldest segments unless archival is off, unpin them, remove their CIDs from Redis and their files from the local cache |
| DAG verifier | `go/dag-verifier` | Redis: last verified heights, reported issues | scan new blocks for gaps, bad links and differing payloads; check archived segments |
| Sliding window indexer | `proto_sliding_window_cacher_service.py` | Redis: head and tail markers of each window | find the epoch all projects have reached, move the markers there |
| Aggregators | `pair_data_aggregation_service.py`, `v2_pairs_daily_stats_snapshotter.py`, `go/token-aggregator` | Redis: sums, recent logs and daily statistics of each pair, zsets of summaries | aggregate what the windows cover, commit summaries as snapshots and list them |
| API | `main.py`, `utils/retrieval_utils.py` | registration keys, `pendingRetrievalRequests` | register projects, accept commits, serve blocks, payloads, ranges and the status of a height |

How they interact: everything goes through Redis keys of the project and
RabbitMQ. The commit service adds to `pendingTransactions` while the finalizer
reads and rewrites it; the finalizer publishes resubmissions back to the commit
service; verifier, indexer and API only read what the finalizer records
(`blockHeight`, `Cids`, `payloadCids`, `dagSegments`), and the pruner removes it
behind the tail marker of the longest window. Indexer and aggregators are one
process that runs in cycles: first the indexes, then the pairs and the daily
statistics, the last two concurrently. What they summarise goes back to the API
as a snapshot of a summary project.

What is hard: callbacks arrive in any order, late, twice or never; every await of
the finalizer lets the commit service write; a task may die at any await (the
lock wrapper logs and swallows its exception) and the process may crash with
callbacks it has already acknowledged; block creation is four writes to two
stores with no transaction; healing guesses from what it read a while ago.

What makes each correct:

* finalizer: the chain is append-only, one block per height, each linked to the
  one below; segments cut it without gap or overlap; everything confirmed is
  finalized in the end; healing gets a stuck chain moving; the payload index
  agrees with the chain;
* payload commit: every snapshot gets the height of its epoch, no two the same;
  nothing accepted is forgotten;
* pruning: a block is removed only after the indexes have left it behind and, with
  archival, its segment is archived; and every such segment is pruned in the end;
* indexer: head and tail delimit the window, no block of its period is outside,
  and the heads do not move back;
* aggregators: the sums are those of the blocks in the window, however often a
  cycle is cut short; a listed summary names its own payload and is listed once;
* API: what it calls archived can be recovered, what is stored is served, and a
  status is never better than the snapshot;
* verifier: what it reports as verified has no gap.

The hazards behind these are listed with their lines in `PROJECT.json`.

## 2. Plan

| Module | Extends | Models | State of it |
|---|---|---|---|
| `DagChain` | | the chain a reader may rely on | abstract specification of `DagFinalizer` |
| `DagFinalizer` | | finalizer, callback receiver, what the commit service writes | modelled, proved in `DagFinalizer_proofs` |
| `PayloadCommit` | | payload commit service | modelled, proved in `PayloadCommit_proofs` |
| `SlidingWindow` | | the indexer | modelled, lemmas in `SlidingWindow_proofs` |
| `PairAggregation` | `SlidingWindow` | the aggregation of one pair, in the indexer's process | modelled, proved in `PairAggregation_proofs` |
| `SummarySnapshots` | | the two coroutines that commit and list summaries | modelled, proved in `SummarySnapshots_proofs` |
| `PruningArchival` | | the pruner, with IPFS and cold storage | modelled, lemmas in `PruningArchival_proofs` |
| `ArchiveStore` | | where the segments of a chain can be read | abstract specification of `PruningArchival` |
| `ApiReads` | `PruningArchival` | the read endpoints against a changing chain | modelled, proved in `ApiReads_proofs` |

`IntegerLemmas` has the facts on sets of numbers that the proofs share. Every
safety property that a passing run checks is a theorem (section 8). What is left:

1. The composition of `PayloadCommit` and `DagFinalizer`: the finalizer takes
   entries away, resubmissions go round, and a callback can come before its entry.
   It would say which lost snapshots a resubmission repairs.

## 3. The DAG finalizer: `DagFinalizer`

One project; the code keeps projects apart by key and by lock.

State. The Redis keys are variables under their names: `pending` is the
`pendingTransactions` zset (records with the height as score), `dagCids` and
`payloadCids` map a height to the members with that score, `segments` is the
`dagSegments` hash. `ipfs` is a sequence of blocks, a CID its index, so equal
content has one CID; `NoCid` is `None`. `callbacks` holds the callbacks not yet
processed: those in RabbitMQ and, because messages are acknowledged when their
task is only scheduled, those of tasks that wait for the lock. A callback that
is lost is one that is never delivered: every safety property covers it, since
no safety run demands delivery.

The running task is `pc`, with its locals `event`, `view` (the pending entries
read last), `work` (the entries a loop still has to handle), `block` and
`newCid`. `pc = "idle"` is the free lock. Every label stands before an await on
Redis or IPFS that writes, or that reads what the commit service may change.
Reads that nobody else can influence are folded into the next step: under the
lock only the task itself writes `blockHeight`, `Cids` and `dagSegments`.

Actions, in the order of the code:

| Action | Code |
|---|---|
| `CommitSnapshot`, `AddToPendingTxns`, `Resubmit` | what the commit service writes for a snapshot, when it is confirmed, and for a resubmission |
| `DiscardStale`, `DiscardUnknown`, `TakeNext`, `TakeEarly` | the three branches on the height of the event |
| `SaveRemove`, `SaveAdd` | `save_event_data`: ZREM, then ZADD with `lastTouchedBlock` -1 |
| `Scan`, `PublishResubmission`, `TouchRemove`, `TouchAdd` | overdue entries: read, publish, mark |
| `HealReady`, `ReadyRead` | healing when one confirmed entry is next |
| `HealMissing`, `HealClear`, `HealFill`, `HealPending`, `HealRead` | healing from the consensus service |
| `NoHealing` | every way in which the branch ends without a block |
| `RecordSegment`, `PutDagBlock`, `SetBlockHeight`, `SetLastDagCid`, `AddDagCid`, `ClearPending`, `Drain` | `_in_order_block_creation_and_state_update` |
| `TaskDies` | an exception or a crash at any label of `FailAt` |

Abstractions. A CID of a payload is one of `Snapshots` or `null` (nothing). Equal
content has one CID: `LocalCid` says what this node computes for each height, and
the `payloadCids` zset keeps one score per CID (`Scored`), so that a later snapshot
takes the entry of an earlier one with the same content away from its height. The
consensus service may answer anything. A request ID is
a number per height, and 0 is the fresh uuid of a healed entry, which no callback
carries. Timestamp and transaction hash of a block are one `stamp`, its request
ID. The commit service's ZREMRANGEBYSCORE and ZADD of a resubmission are one
step: the finalizer finds an entry by its request ID, and the callback for the
fresh one is posted only afterwards. `discard_event` and the two writes of
`discardedTransactions` are one step, because nobody reads that key in between.
A failing IPFS put is retried without end by the code, so it is only a delay.
The commit callback and the healing notifications over HTTP are left out.

`DagChain` is the abstract promise of `docs/Introduction.md`: a list that only
grows by the next block, linked by `prevCid`, or by `prevRoot` at the start of a
segment. `ImplementsChain` maps what a reader of `Cids` sees to it.

### Runs (module `MCDagFinalizer`)

Segments of two blocks put two boundaries into four or five heights, and
`ResubmitAfter`, `HealAfter` shrink from 10 and 5 to 1..3 so that resubmission
and healing happen in short chains (9 switches resubmission off).

| Run | Bounds | Shows |
|---|---|---|
| `fin_standalone` | 4 heights, two with equal content, 2 requests each, no failure, no consensus, fair | `TypeOK`, `PayloadIndexMatchesChain`, `EverythingIsFinalized` hold |
| `fin_healing` | 3 heights, 2 requests, resubmission and healing after 1 and 2, consensus, one repeated callback | `ConfirmedAreAhead`, `HealingMovesChain`, `ImplementsChain`, `FinalizedIsFinal`, `HeightAdvancesByOne` hold without dead tasks |
| `fin_segment_failures` | 5 heights, one fault outside `put`, `setHeight`, `setLast`, `addCid` | `SegmentsTile`, `ChainIsLinked` hold |
| `fin_lost_segment` | 4 heights, one fault in `put` | `SegmentsTile` is violated |

`MaxFaults` counts dead tasks and duplicated callbacks together. One fault is
enough for the safety runs because the code keeps nothing between tasks but the
Redis keys: what a second fault could add is a second state reached by the
first. The bounds are a choice all the same; the theorems below have none.
Deadlock is not checked: when every snapshot is finalized the system stops.

Fairness (`FairSpec`): weak fairness of `Commit`, `Receive` and `Task`. The
commit service works off its queue, RabbitMQ delivers what it holds, and the
event loop resumes a task whose await is over. `EverythingIsFinalized` is checked
without faults and without consensus: a callback that is lost, or a snapshot that
consensus never confirms, leaves a gap that healing or the operator must close.

### Where the properties end

Each restriction of a run stands for something the code does not hold beyond it:

* `fin_segment_failures` spares `put` and `setHeight`: `fin_lost_segment` shows
  how a segment is lost there (`findings`). It spares `setLast` and `addCid`
  because a task that dies between the SET of `blockHeight` and the ZADD of the
  CID (`dag_utils.py:289`) makes the next block link to nothing.
* `fin_standalone` has no consensus: the CID consensus settles on is never added
  to `payloadCids` (`consensus.go:195`), so index and chain differ with it. The
  first and the third height have the same content there, and whichever is
  committed last has the one entry (`redis_client.go:149`).
* `fin_healing` has no dead task: two healings that die after `healFill` leave two
  confirmed entries at the next height, and healing only logs from then on
  (`dag_finalizer.py:484`).
* `HealingMovesChain` asks for `EventIsRead`. A resubmission of the callback's own
  height that is processed between `SaveAdd` and `Scan` replaces the entry just
  marked; when nothing else is confirmed, healing takes element 0 of an empty
  list and the callback ends with an exception (`dag_finalizer.py:503`). This
  takes more heights than `fin_healing` has, for instance six with resubmission
  after 1 and healing after 3 blocks: the proof found it, not the run.
* `fin_healing` has the epoch keys. Without them healing ends with an exception.

## 4. The payload commit service: `PayloadCommit`

One project. The keys are variables under their names, 0 for a key that does
not exist; `payloadCids` maps a CID to its one score, because a member of a
sorted set has only one. `queue` holds the messages not yet taken: commits of
several API workers come in any order, so it is a set. A message is gone when it
is taken, because `StartConsumer` acknowledges it before it calls the handler.

The goroutines are `Workers` (the consumers) and `Poller`. `pc[p]` is the call
goroutine `p` makes next, `job[p]` its `payloadCommit`, `size[p]` the local
`epochSize`. `waitQueue` and `params` are the package variables
`WaitQueueForConsensus` (its one entry for this project) and
`commonTxReqParams.Params`, which all goroutines share.

| Action | Code |
|---|---|
| `Take` | the consumer loop and the start of `RabbitmqMsgHandler` |
| `ReadHeight`, `SetHeight` | the counter of a summary project |
| `ReadSize`, `SetSize`, `SetFirst`, `ReadFirst` | `GetFirstEpochDetails` and `AssignTentativeHeight`, one step per call to Redis |
| `Index` | upload to IPFS and `AddPayloadCidToZSet` |
| `SetParams`, `Send`, `TxConfirmed` | `SubmitTxnToChain`, and the transaction manager |
| `ProposeAccepted`, `ProposeFinalized`, `ProposeOther`, `Settle` | the answers to `/submitSnapshot`, and the consensus service |
| `PollRead`, `PollNotYet`, `PollExpired`, `PollFinalized` | `PollConsensusForConfirmations` |
| `PendRemove`, `PendAdd`, `Post` | `UpdatePendingTxnInRedis` and the finalizer callback |
| `ReadFails`, `WriteFails`, `RemoveFails`, `SendFails`, `ProcessDies` | what the code does when a call has used up its retries, and a crash |
| `Resubmit` | the finalizer resubmits an entry |

Abstractions. Retries of a call are a delay; `Fails` is the call that gives up.
A write that fails has not happened; that it happened and only the answer was
lost differs only in what the goroutine does afterwards, which `ProcessDies`
covers. Two goroutines that write `params` at once can leave it torn: marshalling
it then fails and the code calls `log.Fatalf`, so the outcome is that the
process dies, as it is when the Go runtime finds the wait queue written during
the iteration of the poller. Request IDs are numbers, 0 the empty one;
`lastTouchedBlock` is 0 or 1. `Resubmit` publishes and marks the entry in one
step; the steps between are in `DagFinalizer`. The finalizer takes no entry away:
only the composition of the plan will.

Three history variables (`meetings`) keep the commits whose goroutines stood
together between two calls that belong together and that no lock protects; the
action that brings a goroutine there adds those it meets (`Meeting`). `EpochCalls`
are those after the project was found without an epoch, `CounterCalls` those between
reading the counter of a summary project and writing it back, `ParamsCalls` that
between filling in the shared request parameters and marshalling the request. No
guard reads them. The properties that two goroutines can spoil name them, so that
they say of the shipped concurrency of 20 when it does harm and that nothing else
does.

### Runs (module `MCPayloadCommit`)

Up to three commits with CIDs of their own; epochs have two blocks, and the
first ends at block 2.

| Run | Bounds | Shows |
|---|---|---|
| `pc_epochs` | 3 epochs of a known project, 2 workers, resubmissions, one failed call | `OneCommitPerHeight`, `HeightsFollowEpochs`, `IndexedWhenPending`, `CallbackFindsEntry` hold |
| `pc_first_epoch` | 2 epochs of a new project, 2 workers, consensus, resubmissions, one failure or crash anywhere | `TypeOK`, `OnlyFinalizedIsQueued`, `EpochKeysAreFinal` hold |
| `pc_summary` | 2 anchored commits of a summary project, 2 workers, resubmissions, one failure or crash anywhere | `CountedHeightsAreOwn`, `AnchorsItsSnapshot` hold |
| `pc_live` | 2 epochs, one anchored, 2 workers, consensus, no failure, fair | `EverythingIsSubmitted` holds |
| `pc_indeterminate` | 2 epochs under consensus, the service may answer `INDETERMINATE` | `OnlyFinalizedIsQueued` is violated |

Two workers are enough for every race of two goroutines; `pc_epochs` has three
commits for a third that finds what two have left. In `pc_summary` a resubmission
is the third: more commits take it beyond what can be enumerated, and the theorems
have no such bound. Deadlock is not checked: the service stops when its queue is
empty.

Fairness (`FairSpec`): weak fairness of every worker and of the poller (goroutines
are scheduled, and the polling loop is endless), of the transaction manager's
callback, and of the consensus service, which settles every epoch. The last is
the service's promise, not this code's; it is needed by `pc_live` only.

### Where the properties end

The violation run is explained under `findings`. The bounds of the passing runs
stand for the rest:

* `CountedHeightsAreOwn` exempts the runs of a summary project in which two workers
  have read the same `tentativeBlockHeight` (`main.go:266`): their snapshots share
  a height, and the counter may be set back by the slower one.
* `EpochKeysAreFinal` exempts those in which two workers find the project without an
  epoch (`main.go:240`): each writes its own keys over those of the other.
* `AnchorsItsSnapshot` exempts a commit whose goroutine shares `commonTxReqParams`
  with another one (`main.go:850`): both requests carry what was written last.
  Without these exemptions all three are violated with two workers.
* `pc_live` has two epochs that are not both waiting for consensus: the wait queue
  has one entry per project, and a second snapshot replaces the first, which is
  then never asked for again (`consensus.go:84`).
* `pc_epochs` starts with known epoch keys. A new project whose second SET fails
  (`main.go:247`) has a size and no first epoch, and drops every snapshot after.
* `pc_epochs` spares the reads of the keys: a failed read is the number -1, which
  `main.go:225` does not check, and the height comes out wrong.
* `pc_epochs` has no equal contents: a CID that is indexed already moves to the
  later height (`redis_client.go:149`).
* `pc_epochs` lets no entry fail to be added: a resubmission that has removed the
  old entry and cannot add its own leaves its height without any.

## 5. Windows and sums: `SlidingWindow`, `PairAggregation`

`SlidingWindow` is one cycle of `build_primary_indexes` after the other, over any
set of projects. A block is its height; the epoch of height `h` of a project is
`First + h - 1`, which stands for the end of its height range and for the time
stamp of its payload. The finalizer (`Finalize`) adds blocks at any time, some
with a null payload (`empty`). Blocks do not change, so that a walk over them,
as in `find_tail`, is one step; what moves, `blockHeight`, is read project by
project, and the two markers of a series are written one after the other
(`half` holds the series in between, with the tail that was found). All series are indexed concurrently.

| Action | Code |
|---|---|
| `ReadHeight` | `get_max_height_pair_project`; its `finally: return` hides what failed |
| `SkipIndexing`, `GiveUpCycle`, `StartIndexing` | the common epoch, `adjust_projects_head_by_source_height`, and the ways it ends the cycle |
| `IndexSeries`, `SetTail` | `build_primary_index`: the head marker, then the tail marker |
| `Indexed`, `RestartCycle`, `Crash` | `periodic_retrieval` |

`PairAggregation` is `process_pairs_trade_volume_and_reserves` of one pair, which
the same process runs after the indexes: `pc` goes on from "aggregate". A sum is
a function from heights to how often each is counted in it; `cache` is the
sliding window data, with an auxiliary field for the blocks that could not be
read. The blocks of a range are read without a step between them, because only
the indexer, which waits, moves the markers. A block has one log.

| Action | Code |
|---|---|
| `Aggregate` | the front and back chains and the new aggregates |
| `NoResult` | every return or exception before the first write |
| `StoreLogs`, `StoreDaily`, `Store` | the three writes, in order |

Run `windows` (module `MCPairAggregation`): a trade volume project with both
windows, a reserves project that starts one epoch later, 5 blocks each, one of
them without a payload, windows of 1 and 2 epochs, heads moved back by one block
at most (11 in the code), 3 logs (75), one failed call or crash anywhere. Windows of
2 and 3 blocks move and lose blocks three times within 5; the later start makes
the adjustment necessary. `TypeOK`, `NothingInPeriodIsLost`, `SumsAreExact`,
`LogsKeepWindow`, `HeadNeverMovesBack` and `SumsCatchUp` hold.

Fairness (`FairSpec`): weak fairness of the process, an event loop that starts a
new cycle after every one. The finalizer is not fair: `SumsCatchUp` says what
happens once it has stopped.

Where the properties end:

* `SumsAreExact` exempts the blocks that could not be read: they are dropped
  silently (`pair_data_aggregation_service.py:65`), and the difference stays.
* `SumsCatchUp` needs payloads in the last blocks: one without ends the cycle's
  indexing for every project (`proto_sliding_window_cacher_service.py:222`).
* `NothingInPeriodIsLost` exempts the blocks that `find_tail` has passed because
  it could not read them: it never comes back to them
  (`proto_sliding_window_cacher_service.py:94`).
* The pair is alone. The pairs share no key.
* The set of projects is fixed. One that is registered for indexing later, with a
  chain that lags behind the others, would move the common epoch back.

## 6. Summaries: `SummarySnapshots`

The coroutines `v2_pairs_data` ("summary") and `v2_pairs_daily_stats_snapshotter`
("daily") of one cycle, each with its `pc` and its locals. A payload is the common
block height it is about. `queue` is RabbitMQ, `chain` what the commit service has
given a height: its length is the tentative height, which both read to predict
the height of what they commit. `entries` are the two zsets of snapshots; the
CIDs they hold are those of the chain at the predicted height.

| Action | Code |
|---|---|
| `PairsData` | the results of the pairs, and whether they agree on a height that is new |
| `LatestSummary`, `SummaryStamp` | the newest summary, its time stamp and payload |
| `ReadTentative`, `Post`, `Confirmed`, `GiveUp` | commit, and wait for the block status |
| `Write`, `Written`, `Prune` | the gather of the writes, and the pruning of the zsets |
| `Assign` | the commit service, for summary projects |

The results of the pairs are arbitrary, except that the height of a pair does not
go back (`HeadNeverMovesBack` of section 5). A time stamp is pruned only when
its summary is older than the one just listed.

Run `summaries`: 2 pairs, heights up to 3, 3 blocks per project, zsets cut to one entry
(20 in the code), one lost request or answer, failed write or crash, and a commit
service that takes from its queue whenever it likes. `EntryTrailsItsPayload`,
`EntryNamesItsPayload` and `OneDailyPerSummary` hold, safety only. Deadlock is not
checked: at the bound of the chain nothing more can be committed.

A cycle starts whether or not the commit service has worked off its queue
(`proto_sliding_window_cacher_service.py:318`). If a commit of the project is still
waiting when a coroutine reads the tentative height, the height it predicts is
that of the waiting payload, and the entry names it
(`pair_data_aggregation_service.py:848`). `behind` and `late` are history variables
that record this moment and the entries that come of it; the actions do not read
them.

* `EntryTrailsItsPayload` holds in any case: what an entry names was committed
  before its own payload, never after it, and its own payload is in the project.
* `EntryNamesItsPayload` says that a waiting commit is the only way to go wrong.
* `OneDailyPerSummary` exempts a height that a summary of another height was listed
  with: each such summary makes the daily coroutine list its statistics again.

Where the properties end:

* The exemptions above are all reached in the run: the code lists summaries with
  the payload of another height, and statistics twice.
* That the newest entry survives the pruning is not claimed: `RemovedByRank` has
  the computation of the code. With one entry more than the 20 it removes one; with
  two more, after a pruning that failed, it removes all of them
  (`pair_data_aggregation_service.py:930`).

## 7. Pruning and reading: `PruningArchival`, `ApiReads`

`PruningArchival` is one project of the pruner. Its actions are the calls of
`ProcessProject` in their order: `StartCycle`, `Archive`, `GetCids`, `UnPin`,
`UpdateStatus`, `PruneZsets`, `RecordPruned`, `DeleteFromCache`. A call that fails
has used up its retries; the code goes on after most of them. Content is handled
by segment: pinned or not, collected by IPFS (`Collect`, at any time once it is
unpinned), cached, uploaded. `MoveTail` is the indexer.

`archiving` is the setting `perform_archival`: on in the code's defaults
(`pruning-archival/main.go:112`), off in `settings.example.json:124`. It has either
value and never changes. Without it `Archive` goes on to the CIDs without an export,
which cannot fail. The sorted sets are pruned in both cases, as both sources have it.
`perform_ipfs_unpin` only decides, with the others, whether a cycle runs at all
(`main.go:134`), and is on.

Most projects have no tail marker until the indexer sets one, and summary projects
never do: `OldestIndexed` is then a distance from the head. `MoveTail` may set the
first marker anywhere, because `find_tail` searches from the start of the chain, and
the pruner may have gone further by distance. `byDistance` is a history variable: the
height the last cycle without a marker pruned to.

`ArchiveStore` is the abstract promise: with archival each segment is in the store,
in both, or in the archive, in this order; without it, in the store and then
nowhere. `ImplementsStore` maps a segment to "store" as long as its content has not
been collected and Redis has its CIDs. The order in which the segments are processed
matters for it: `PruneZSetInRedis` removes from `-inf` on, so that a newer segment
takes the CIDs of an older one along.

`ApiReads` adds the path of a snapshot to the chain, as far as a reader sees it
(`stage`: indexed, pending, confirmed, finalized, cleared), and one request at a
time. A request is the calls of its endpoint one by one: `ReadBlockHeight`,
`ReadPruningStatus`, `ReadCid`, `ReadContent` or `ReadNothing`, and for a status
above `blockHeight` `ReadPayloadCid` and `ReadPending`. A range walks down with
`NextBlock`. Healing (`HealClear`, `HealFill`, `HealPending`) takes the payload CID of
the next height away, adds what the consensus service says or a null, and confirms
the height; `empty` are the heights whose block has no payload for it. `Outage` is
IPFS not answering a read, which `get_dag_block` turns into an empty object.

`disturbed` is auxiliary: it records that something happened during
the request which excuses its answer: a state that does (`IsDisturbing`), or a
step that removes CIDs (`IsPruning`), which in a cycle after one that failed can
come without any sign of it in the state.

Run `archive` (module `MCApiReads`): segments of 2 blocks, 4 blocks at the start
and 5 in the end, no buffer behind the index and one block behind the head (100 and
1000 in the code), tail markers at 2 and 5, archival on or off, six requests on
either side of the first boundary, across it and at the growing end of the chain,
one failed call or crash. Two segments are pruned within these bounds, one after the
other or in one cycle; a tail at 2 is one below what was pruned by distance. One
request is enough: requests write nothing that others read. An outage begins when a
request is about to read content and lasts for that read: no other step depends on
it.

Fairness: weak fairness of `ProcessProject`, a loop over all projects that is
repeated for ever. It is needed by `EverySegmentIsPruned` only.

Where the properties end:

* `EverySegmentIsPruned` allows for `IsStuck`: when the status of an archived
  segment could not be written and IPFS has collected it, the segment can be
  neither exported nor passed over (`pruning-archival/main.go:448`). It also allows
  for a first tail marker that falls back behind the segment (`IsAhead`).
* `RecentIsKept` exempts the blocks below `byDistance`. They can be part of the first
  window of a project that is registered for indexing late
  (`pruning-archival/main.go:275`): the indexer will not find them.
* `NothingIsLost` and `ArchivedIsRecoverable` promise an archive only when there is
  one. With the example settings a segment is removed with no copy left, and
  `main.py:240` answers nevertheless that the data "has been archived".
* `ErrorsOnlyInTransition` exempts the last pruned height for point reads: they
  compare with `<` where ranges compare with `<=` (`main.py:304`, `main.py:240`).
  It exempts the status of a block without a payload, which is finalized and raises
  all the same because it has no `data` (`retrieval_utils.py:165`), and a read that
  IPFS does not answer (`dag_utils.py:112`).
* A block that cannot be read is answered as an empty object
  (`dag_utils.py:112`): the reply is "hollow", and nothing forbids it.

## 8. Proofs

Every theorem holds for every value of the constants under the assumptions that
the module with the constants states (bounds are naturals, a segment has two
blocks or more, epochs end after they begin), and under the hypotheses named
below, each of which is a restriction that sections 3 to 7 explain and that the
run of the property satisfies. Between them the theorems state every invariant
and every safety action property that a passing run checks; only the four
liveness properties are not among them.

A property is seldom inductive. Each section names the invariant that is, and why
it is needed.

### `DagFinalizer_proofs`

| Theorem | Property | Hypothesis |
|---|---|---|
| `TypeCorrect` | `TypeOK` | |
| `HeightAdvances` | `HeightAdvancesByOne` | |
| `RecordIsFinal` | `FinalizedIsFinal` | |
| `ChainLinked` | `ChainIsLinked` | no task dies at `setLast`, `addCid` |
| `ChainIsImplemented` | `ImplementsChain` | the same |
| `SegmentsAreTiles` | `SegmentsTile` | no task dies at `put`, `setHeight` |
| `IndexMatches` | `PayloadIndexMatchesChain` | no consensus |
| `ConfirmedStayAhead` | `ConfirmedAreAhead` | no task dies at a label of `BlockLabels` |
| `HealingMoves` | `HealingMovesChain` | the same, nor at `resubmit`; the project has epoch keys |

* All but the first rest on `HeightInv`: a step that sets `blockHeight` knows only its
  local `block`. It says that a block being made is the one above `blockHeight`
  until `SetBlockHeight` and the one at it afterwards, that healing holds entries
  from the next height up, and that nothing is on record above the chain.
* `LinkInv` adds that the block about to be recorded continues the chain. For
  `ChainIsImplemented` a reader's chain is a sequence (`VisibleSeq`), `AddDagCid`
  appends to it what `LinkInv` says of the new block, and every other step leaves
  it as it is: no block in IPFS and no CID on record changes.
* `SegmentInv`: a segment is full, ends right below a boundary with the CID there,
  and each boundary of the chain, and the one being crossed, has its segment. That
  such segments tile the chain is arithmetic on multiples of `SegmentSize`
  (`BoundariesApart`, `BoundaryAbove`), which `FullSegmentsTile` puts together.
* `LocalInv`: without consensus whatever queue, entry, local or block names a
  height has the CID this node computed for it, after its snapshot was committed,
  and from then on the index has that CID at a committed height with the content.
* `AheadInv`: between callbacks, and until a block is begun, everything confirmed
  is above the next height. While blocks are made nothing confirmed is below the
  current one, and what is above it has been read, so that the drain finds it. It
  needs `LinkInv`: at a boundary the task would stop without the CID below.
* `HealingMoves` follows from `AheadInv`: when a callback comes to heal, nothing is
  confirmed at the next height, and its own entry is above it. The proof found
  that the property needs `EventIsRead` (section 3).

These theorems cover tasks that die at places, and any number of times, which
`fin_healing` and `fin_standalone` leave out.

### `PayloadCommit_proofs`

| Theorem | Property | Hypothesis |
|---|---|---|
| `TypeCorrect` | `TypeOK` | |
| `EpochKeysStay` | `EpochKeysAreFinal` | `SizeComesFirst`: no first epoch without a size at the start |
| `FinalizedIsQueued` | `OnlyFinalizedIsQueued` | the service answers `ACCEPTED` or `FINALIZED` |
| `HeightsAreOfEpochs` | `HeightsFollowEpochs` | `EpochsAligned`: keys known and read, epochs of that size |
| `OneCommitPerEpochHeight` | `OneCommitPerHeight` | the same, for commits with epochs of their own |
| `CountedOnce` | `CountedHeightsAreOwn` | `SummaryProject`: no commit has an epoch |
| `PendingIsIndexed` | `IndexedWhenPending` | `OwnCids`: no consensus, contents differ |
| `RequestsAnchorTheirSnapshot` | `AnchorsItsSnapshot` | |
| `CallbacksFindEntries` | `CallbackFindsEntry` | `EntriesAreAdded`: adding an entry does not fail, no crash |

`PipelineInv` says of each label what the job and the locals of a goroutine there
are, and the same of each message: from `index` on a snapshot has a height, and
after it a CID. All theorems rest on it. Four of them follow the snapshot: `Queued`,
`Waiting` and `Unrecorded` are the snapshots in flight, wherever they are, and
`FlowStep` says for one step where each of them comes from. With it `SettledInv`,
`NumberedInv`, `CounterInv` and `IndexInv` are statements about sets of snapshots
instead of a dozen labels. `HeightsAreOfEpochs` rests on the truncating division
of Go being exact for multiples (`QuotientOfMultiple`), before the first epoch
too.

No theorem bounds the number of workers. `MeetingsFrame` says which step adds to
which record, and `MeetingsGrow` that nothing is ever taken off it. A goroutine that
meets no other on its way to the labels between two calls is alone there
(`ArrivesAlone`), so that `Alone` can be carried along as long as nobody is on
record (`EpochAlone`, `CounterAlone`), and `KeysInv` and `CounterInv` need no more
than that: who writes a key has found it missing and it is missing still; only the
one snapshot in between is above the counter. `AnchorInv` exempts single commits:
the parameters are still those of a goroutine that is about to send them, unless
it is on record.

### `PairAggregation_proofs`, on `SlidingWindow_proofs`

| Theorem | Property |
|---|---|
| `TypeCorrect` | `TypeOK` |
| `NothingIsEverLost` | `NothingInPeriodIsLost` |
| `MarkersNeverMoveBack` | `HeadNeverMovesBack` |
| `SumsStayExact` | `SumsAreExact` |
| `LogsKeepTheWindow` | `LogsKeepWindow` |

No hypothesis. `WindowInv` is about the indexer: `HeadsReached` says that what a
cycle will choose as the height of a project is not below any head, whatever the
other projects have read by then (`Low`), which is why heads do not move back;
`HalfSet` says of a series between its two writes that the tail it has found
leaves out no block of the period of the new head. `PairInv` adds that cached and
computed aggregates are exact for the markers they were computed for and not
ahead of the markers, and what logs are still to be stored. `SumsStayExact` uses
`EndsAtHand`: the code looks up the aggregates of the 7d window only when the
24h head has moved (`MarkersMoved`), and it is because an empty 7d front raises
that the sum of a window which has not moved is never written.

### `SummarySnapshots_proofs`

| Theorem | Property |
|---|---|
| `TypeCorrect` | `TypeOK` |
| `EntriesTrailTheirPayload` | `EntryTrailsItsPayload` |
| `EntriesNameTheirPayload` | `EntryNamesItsPayload` |
| `OneDailyIsListed` | `OneDailyPerSummary` |

No hypothesis. `OwnPayload` says that if nothing was queued when the coroutine
read its tentative height, everything queued or above that height since is the
coroutine's payload, so that whatever the commit service puts at the predicted
height is. `Trails` says what remains without that: the payload has a place in
chain or queue at the predicted height or above, and keeps it (`HeldStays`),
because the commit service gives heights in the order of the queue. `DailyInv`
says that statistics still to be listed are for a height above those listed.

### `ApiReads_proofs`, on `PruningArchival_proofs`

| Theorem | Property |
|---|---|
| `TypeCorrect` | `TypeOK` |
| `NothingIsEverLost` | `NothingIsLost` |
| `RecentIsAlwaysKept` | `RecentIsKept` |
| `StoreIsImplemented` | `ImplementsStore` |
| `ArchivedAreRecoverable` | `ArchivedIsRecoverable` |
| `ErrorsAreExcused` | `ErrorsOnlyInTransition` |
| `StatusesAreHonest` | `StatusIsHonest` |

No hypothesis. `PruningInv` has `UploadedFirst` (with archival, whatever marks a
segment as done or takes it away comes after its upload) and `InOrder` (a cycle leaves out no
older segment that is not uploaded): the latter is needed because one
`ZREMRANGEBYSCORE` takes the CIDs of all older segments along. `AgeInv`, for
`RecentIsAlwaysKept`, says of every segment of a cycle and of everything removed that
it is behind the indexes (`IsLeft`), which a marker that moves on keeps and a first
marker can only break for what `byDistance` remembers (`LeftStays`). `ReadInv` records
what a request has learnt (`StatusInv`, `ContentInv`) and that it stays true,
because stages, the chain and the pruned heights only grow. The proof of
`ErrorsAreExcused` found that a segment can be pruned in a cycle after the one
that recorded it, with two failed calls; `disturbed` had missed that.

### Only model-checked

`EverythingIsFinalized`, `EverythingIsSubmitted`, `SumsCatchUp` and
`EverySegmentIsPruned` are liveness under fairness, which the provers cannot
reason about. The facts on sets of numbers that `IntegerLemmas` has (a least
element, an enumeration in order) are proved from well-founded minima, without
the induction schemes of the library.

## 9. Not modelled

* The DAG verifier: it reads the chain and writes reports that no other service
  reads. The token aggregator: it does for tokens what
  `v2_pairs_daily_stats_snapshotter` does for pairs.
* The registration endpoints: each writes a set or a hash once.
* The pruner's file backup of the sorted sets (`backup_redis_zsets_to_file`), which
  is off in the defaults and in the example settings, and a pruner that leaves the
  sorted sets alone (`prune_redis_zsets` off), which neither ships.
* Several projects at once in the finalizer, the commit service and the pruner:
  they share nothing but what the modules have.
* The content of blocks and payloads, the numbers computed from it, HTTP
  notifications, reports, logging, the retries inside a call.
* `RabbitmqSelectLoopInteractor` (most of `utils/rabbitmq_utils.py`), which no
  service uses; the launchers, the settings, the simulators and manual tests.
