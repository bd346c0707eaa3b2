--------------------------- MODULE PairAggregation ---------------------------
(***************************************************************************)
(* process_pairs_trade_volume_and_reserves of one pair                      *)
(* (pair_data_aggregation_service.py), run after the indexer in every cycle *)
(* of the same process: it keeps the sums over the 24h and the 7d window by *)
(* adding the blocks ahead of the processed heads and subtracting those     *)
(* behind the tail markers.                                                 *)
(*                                                                          *)
(* A sum is represented by how often each height is counted in it.          *)
(***************************************************************************)
EXTENDS SlidingWindow, Sequences

CONSTANTS
    Volume,         \* the pair's trade volume project
    Reserves,       \* the pair's reserves project
    MaxLogs,        \* recent logs kept (75 in the code); a block has one log
    NoCache         \* the sliding window data before the first aggregation

ASSUME PairProjects ==
    /\ Volume \in Projects /\ Series[Volume] = Timed
    /\ Reserves \in Projects /\ Series[Reserves] = {"0"}
    /\ Volume # Reserves
    /\ MaxLogs \in Nat

Sums == [Heights -> Int]

\* slidingWindowData: the processed markers and the aggregates. "missed" is
\* auxiliary: the blocks of a window that could not be read when they entered
\* or left it.
Cache == [head : [Timed -> Heights], tail : [Timed -> Heights],
          sum : [Timed -> Sums], missed : SUBSET (Timed \X Heights)]

ASSUME NoCacheIsNone == NoCache \notin Cache

VARIABLES
    cache,          \* slidingWindowData in Redis
    logs,           \* cachedRecentLogs in Redis: heights, newest first
    daily,          \* dailyStats zset: the 24h heads of the snapshots in it
    next,           \* the cache that the running call computed
    recent          \* the blocks whose logs it stores

pairVars == <<cache, logs, daily, next, recent>>
vars == <<windowVars, pairVars>>

AggregateLabels == {"aggregate", "logs", "daily", "store"}

TypeOK ==
    /\ WindowTypeOK
    /\ pc \in {"heights", "index"} \union AggregateLabels
    /\ cache \in Cache \union {NoCache}
    /\ logs \in Seq(Heights) /\ Len(logs) <= MaxLogs
    /\ daily \in SUBSET Heights
    /\ next \in Cache \union {NoCache}
    /\ recent \in SUBSET Heights
    /\ pc \in AggregateLabels \ {"aggregate"} => next # NoCache

Init ==
    /\ WindowInit
    /\ cache = NoCache
    /\ logs = <<>>
    /\ daily = {}
    /\ next = NoCache
    /\ recent = {}

(***************************************************************************)
(* What the call reads                                                      *)
(***************************************************************************)
\* get_dag_blocks_in_range, which drops what has no payload or cannot be read.
BlocksInRange(t, a, b, unread) ==
    {h \in a..b : HasPayload(Volume, h) /\ <<t, h>> \notin unread}

\* The blocks that entered and that left the window since the last call. The
\* guard of the 7d front compares with the processed head of 24h.
EnteredBlocks(t, unread) ==
    IF head[Volume][t] > cache.head["24h"]
    THEN BlocksInRange(t, cache.head[t] + 1, head[Volume][t], unread)
    ELSE {}

\* (mutant) the back of the window includes the new tail
LeftToTail(t, unread) ==
    BlocksInRange(t, cache.tail[t], tail[Volume][t], unread)

LeftBlocks(t, unread) ==
    BlocksInRange(t, cache.tail[t], tail[Volume][t] - 1, unread)

Window(t, unread) == BlocksInRange(t, tail[Volume][t], head[Volume][t], unread)

Added(t, unread) ==
    IF cache = NoCache THEN Window(t, unread) ELSE EnteredBlocks(t, unread)
Removed(t, unread) == IF cache = NoCache THEN {} ELSE LeftBlocks(t, unread)

ToRead == {r \in Timed \X Heights :
                r[2] \in Added(r[1], {}) \union Removed(r[1], {})}

CountIf(b) == IF b THEN 1 ELSE 0
OldSum(t) == IF cache = NoCache THEN [h \in Heights |-> 0] ELSE cache.sum[t]
OldMissed == IF cache = NoCache THEN {} ELSE cache.missed

\* calculate_pair_trade_volume of both chains, applied to the aggregate.
NextSum(t, unread) ==
    [h \in Heights |-> OldSum(t)[h] + CountIf(h \in Added(t, unread))
                                    - CountIf(h \in Removed(t, unread))]

\* The block at the head of the reserves has a payload when the head is set.
ReservesKnown == head[Reserves]["0"] > 0

\* All markers are set, the reserves are known and the 24h head has moved.
MarkersMoved ==
    /\ \A t \in Timed : tail[Volume][t] > 0 /\ head[Volume][t] > 1
    /\ ReservesKnown
    /\ cache # NoCache => head[Volume]["24h"] > cache.head["24h"]

\* The head blocks of both windows are at hand, and their tail blocks when there
\* is a cache; without one of them the call returns nothing or raises, before it
\* has written anything.
EndsAtHand(unread) ==
    \A t \in Timed :
        /\ Added(t, unread) # {}
        /\ cache # NoCache => HasPayload(Volume, tail[Volume][t])

(***************************************************************************)
(* Steps of the call                                                        *)
(***************************************************************************)
EndCycle == RestartCycle /\ next' = NoCache /\ recent' = {}

Aggregate ==
    /\ pc = "aggregate"
    /\ \E unread \in SUBSET ToRead :
          /\ unread # {} => "read" \in FailAt
          /\ faults' = faults + Cardinality(unread)
          /\ faults' <= MaxFaults
          /\ MarkersMoved /\ EndsAtHand(unread)
          /\ next' = [head |-> [t \in Timed |-> head[Volume][t]],
                      tail |-> [t \in Timed |-> tail[Volume][t]],
                      sum |-> [t \in Timed |-> NextSum(t, unread)],
                      missed |-> OldMissed \union unread]
          /\ recent' = Added("24h", unread)
    /\ pc' = "logs"
    /\ UNCHANGED <<chainVars, markerVars, cycleVars, cache, logs, daily>>

\* The pair has no result in this cycle: nothing moved, or a call before the
\* first write failed (the RPC for the tokens' metadata, a block, Redis).
NoResult ==
    /\ pc = "aggregate"
    /\ \/ ~(MarkersMoved /\ EndsAtHand({})) /\ UNCHANGED faults
       \/ Fails("metadata")
    /\ EndCycle
    /\ UNCHANGED <<chainVars, markerVars, cache, logs, daily>>

\* The heights of S, newest first.
NewestFirst(S) ==
    CHOOSE s \in [1..Cardinality(S) -> S] :
        \A i, j \in 1..Cardinality(S) : i < j => s[i] > s[j]

\* (mutant) only the logs of the newest blocks are kept
LogsOfFront == NewestFirst(recent)

\* The logs to store, before they are cut to MaxLogs.
NewestLogs == NewestFirst(recent) \o logs

\* store_recent_transactions_logs
StoreLogs ==
    /\ pc = "logs"
    /\ \/ /\ logs' = SubSeq(NewestLogs, 1, Least({Len(NewestLogs), MaxLogs}))
          /\ pc' = "daily"
          /\ UNCHANGED <<faults, heightMap, toRead, todo, half, next, recent>>
       \/ Fails("logs") /\ EndCycle /\ UNCHANGED logs
    /\ UNCHANGED <<chainVars, markerVars, cache, daily>>

\* store_pair_daily_stats; entries older than 25 hours go.
StoreDaily ==
    /\ pc = "daily"
    /\ \/ /\ daily' = {h \in daily \union {next.head["24h"]} :
                           next.head["24h"] - h <= Day}
          /\ pc' = "store"
          /\ UNCHANGED <<faults, heightMap, toRead, todo, half, next, recent>>
       \/ Fails("daily") /\ EndCycle /\ UNCHANGED daily
    /\ UNCHANGED <<chainVars, markerVars, cache, logs>>

\* The final MSET of the pair data and the sliding window data.
Store ==
    /\ pc = "store"
    /\ \/ cache' = next /\ UNCHANGED faults
       \/ Fails("store") /\ UNCHANGED cache
    /\ EndCycle
    /\ UNCHANGED <<chainVars, markerVars, logs, daily>>

ProcessPair == Aggregate \/ NoResult \/ StoreLogs \/ StoreDaily \/ Store

ProcessDies ==
    /\ Crash
    /\ next' = NoCache /\ recent' = {}
    /\ UNCHANGED <<cache, logs, daily>>

Next ==
    \/ (Index \/ Environment) /\ UNCHANGED pairVars
    \/ ProcessPair
    \/ ProcessDies

Spec == Init /\ [][Next]_vars

\* The event loop of the process runs on.
FairSpec ==
    Spec /\ WF_vars((Index /\ UNCHANGED pairVars) \/ ProcessPair)

(***************************************************************************)
(* Properties                                                               *)
(***************************************************************************)
\* Every block with a payload in the window that was processed last is counted
\* once in the aggregate, and nothing else is, however often calls fail between
\* the writes: only the blocks that could not be read are off (the front and
\* back chains of process_pairs).
SumsAreExact ==
    cache # NoCache =>
        \A t \in Timed : \A h \in Heights :
            <<t, h>> \in cache.missed \/ cache.sum[t][h] =
                CountIf(/\ h \in cache.tail[t]..cache.head[t]
                        /\ HasPayload(Volume, h))

\* The recent logs hold every block of the processed 24h window, unless newer
\* ones fill them, also when a call is repeated after its logs were stored
\* (store_recent_transactions_logs comes before the final MSET).
LogsKeepWindow ==
    cache # NoCache =>
        \A h \in cache.tail["24h"]..cache.head["24h"] :
            HasPayload(Volume, h) =>
                \/ <<"24h", h>> \in cache.missed
                \/ \E i \in DOMAIN logs : logs[i] = h
                \/ Len(logs) = MaxLogs

\* Once the finalizer has stopped at blocks with payloads, the pair's sums end
\* at the epoch both projects have reached (no further apart than the indexer
\* moves a head back), whatever failed before (the cycle
\* of periodic_retrieval).
SumsCatchUp ==
    (\A p \in Projects :
        /\ top[p] = MaxHeight
        /\ \A h \in (MaxHeight - AdjustCycles)..MaxHeight : HasPayload(p, h))
    ~> (cache # NoCache /\ Epoch(Volume, cache.head["24h"]) =
            Least({Epoch(p, MaxHeight) : p \in Projects}))
=============================================================================
