-------------------------- MODULE SummarySnapshots --------------------------
(***************************************************************************)
(* The snapshots over all pairs: v2_pairs_data                              *)
(* (pair_data_aggregation_service.py) commits a summary of the pairs when    *)
(* all have reached a common block height, and                              *)
(* v2_pairs_daily_stats_snapshotter commits statistics computed from the    *)
(* newest summary. Both run concurrently in each cycle of the indexer, and  *)
(* both wait for the commit service to give the payload a height, which     *)
(* they have predicted from the tentative height.                           *)
(*                                                                          *)
(* A payload, and its CID, is the common block height it is about.          *)
(***************************************************************************)
EXTENDS Integers, Sequences, FiniteSets

CONSTANTS
    Pairs,          \* PAIR_CONTRACTS
    Cap,            \* entries a zset is pruned to (20 in the code)
    MaxCommon,      \* bound: common block heights are 1..MaxCommon
    MaxBlocks,      \* bound: payloads committed to one project
    MaxFaults,      \* bound: failed calls and crashes, together
    FailAt          \* the calls that may fail, and "crash"

ASSUME SnapshotConstants ==
    /\ Pairs # {} /\ Cap \in Nat \ {0}
    /\ MaxCommon \in Nat \ {0} /\ MaxBlocks \in Nat /\ MaxFaults \in Nat

Kinds == {"summary", "daily"}       \* also the projects they commit to
Payloads == 1..MaxCommon
DagHeights == 1..MaxBlocks

None == 0           \* a pair, or all of them, without a result
Error == -1         \* a pair whose aggregation raised

\* An entry of a snapshots zset: its score, and the payload at a height of the
\* project's DAG.
Entry == [score : Payloads, cid : Payloads, dagHeight : DagHeights]

VARIABLES
    (* Commit service and finalizer, per project *)
    queue,          \* payloads on commit-payloads
    chain,          \* payloads with a tentative height, lowest first
    (* Redis *)
    entries,        \* the two snapshots zsets
    stamps,         \* summaries with a time stamp in the timestamp zset
    lastHeight,     \* last block height of a summary
    (* The two coroutines *)
    pc,             \* what each does next; "idle" when it has returned
    payload,        \* the payload each commits
    tentative,      \* the tentative height each has read
    writes,         \* its writes still under way
    raised,         \* has one of them failed?
    seen,           \* the greatest height a pair has reported
    faults,         \* faults so far
    (* History: it is read by properties only *)
    behind,         \* had the project commits waiting at ReadTentative?
    late            \* the entries, with their kind, listed after such a read

commitVars == <<queue, chain>>
redisVars == <<entries, stamps, lastHeight>>
localVars == <<payload, tentative, writes, raised>>
historyVars == <<behind, late>>
vars == <<commitVars, redisVars, pc, localVars, seen, faults, historyVars>>

Labels == {"idle", "pairs", "latest", "stamp", "tentative", "post", "wait",
           "write", "prune"}

TypeOK ==
    /\ queue \in [Kinds -> Seq(Payloads)]
    /\ chain \in [Kinds -> Seq(Payloads)]
    /\ \A x \in Kinds : entries[x] \subseteq Entry
    /\ stamps \in SUBSET Payloads
    /\ lastHeight \in Payloads \union {None}
    /\ pc \in [Kinds -> Labels]
    /\ payload \in [Kinds -> Payloads \union {None}]
    /\ tentative \in [Kinds -> 0..MaxBlocks]
    /\ writes \in [Kinds -> SUBSET {"zset", "stamps", "payload", "last"}]
    /\ raised \in [Kinds -> BOOLEAN]
    /\ seen \in Payloads
    /\ faults \in 0..MaxFaults
    /\ behind \in [Kinds -> BOOLEAN]
    /\ late \in SUBSET (Kinds \X Entry)

Init ==
    /\ queue = [x \in Kinds |-> <<>>]
    /\ chain = [x \in Kinds |-> <<>>]
    /\ entries = [x \in Kinds |-> {}]
    /\ stamps = {}
    /\ lastHeight = None
    /\ pc = [x \in Kinds |-> "idle"]
    /\ payload = [x \in Kinds |-> None]
    /\ tentative = [x \in Kinds |-> 0]
    /\ writes = [x \in Kinds |-> {}]
    /\ raised = [x \in Kinds |-> FALSE]
    /\ seen = 1
    /\ faults = 0
    /\ behind = [x \in Kinds |-> FALSE]
    /\ late = {}

Fails(label) == label \in FailAt /\ faults < MaxFaults /\ faults' = faults + 1

Goes(x, label) == pc' = [pc EXCEPT ![x] = label]

\* periodic_retrieval starts both again once both have returned and some time
\* has passed, whatever the commit service has still to do. Their locals are new.
NextCycle ==
    /\ \A x \in Kinds : pc[x] = "idle"
    /\ pc' = [x \in Kinds |-> IF x = "summary" THEN "pairs" ELSE "latest"]
    /\ payload' = [x \in Kinds |-> None]
    /\ tentative' = [x \in Kinds |-> 0]
    /\ behind' = [x \in Kinds |-> FALSE]
    /\ UNCHANGED <<commitVars, redisVars, writes, raised, seen, faults, late>>

(***************************************************************************)
(* What there is to commit                                                  *)
(***************************************************************************)
\* (mutant) that they agree is enough
CommonOfAny(results) ==
    LET H == {results[p] : p \in Pairs}
    IN IF Cardinality(H) = 1 THEN CHOOSE h \in H : TRUE ELSE None

\* The height all pairs agree on, if every one of them has a result.
CommonHeight(results) ==
    LET H == {results[p] : p \in Pairs}
    IN IF Cardinality(H) = 1 /\ H \subseteq Payloads
       THEN CHOOSE h \in H : TRUE ELSE None

\* The head of a pair does not move back: no common height is below what a
\* pair has reported before.
PairsData ==
    /\ pc["summary"] = "pairs"
    /\ \E results \in [Pairs -> {None, Error} \union (seen..MaxCommon)] :
          LET h == CommonHeight(results) IN
          /\ payload' = [payload EXCEPT !["summary"] = h]
          /\ Goes("summary", IF h > lastHeight THEN "tentative" ELSE "idle")
          /\ seen' = CHOOSE s \in {seen} \union {results[p] : p \in Pairs} :
                        \A p \in Pairs : s >= seen /\ s >= results[p]
    /\ UNCHANGED <<commitVars, redisVars, tentative, writes, raised, faults,
                    historyVars>>

\* An entry no other of its zset has a greater score than.
Newest(Z) == {e \in Z : \A f \in Z : f.score <= e.score}

\* (mutant) statistics for its height are no reason to stop
LatestSummaryAgain ==
    /\ pc["daily"] = "latest"
    /\ \/ \E e \in Newest(entries["summary"]) :
             /\ \A f \in entries["daily"] : f.score <= e.score
             /\ payload' = [payload EXCEPT !["daily"] = e.cid]
             /\ Goes("daily", "stamp")
       \/ /\ entries["summary"] = {}
          /\ Goes("daily", "idle")
          /\ UNCHANGED payload
    /\ UNCHANGED <<commitVars, redisVars, tentative, writes, raised, seen,
                    faults, historyVars>>

\* The newest summary, when no statistics for its height are listed yet.
LatestSummary ==
    /\ pc["daily"] = "latest"
    /\ \/ \E e \in Newest(entries["summary"]) :
             /\ \A f \in entries["daily"] : f.score < e.score
             /\ payload' = [payload EXCEPT !["daily"] = e.cid]
             /\ Goes("daily", "stamp")
       \/ /\ \/ entries["summary"] = {}
             \/ \E e \in Newest(entries["summary"]), f \in entries["daily"] :
                   f.score >= e.score
          /\ Goes("daily", "idle")
          /\ UNCHANGED payload
    /\ UNCHANGED <<commitVars, redisVars, tentative, writes, raised, seen,
                    faults, historyVars>>

\* The time stamp is needed to find the summary of a day ago, whose payload is
\* fetched with that of the newest.
SummaryStamp ==
    /\ pc["daily"] = "stamp"
    /\ \/ /\ Goes("daily", IF payload["daily"] \in stamps
                           THEN "tentative" ELSE "idle")
          /\ UNCHANGED faults
       \/ Fails("fetch") /\ Goes("daily", "idle")
    /\ UNCHANGED <<commitVars, redisVars, localVars, seen, historyVars>>

(***************************************************************************)
(* Committing it                                                            *)
(***************************************************************************)
ReadTentative(x) ==
    /\ pc[x] = "tentative"
    /\ tentative' = [tentative EXCEPT ![x] = Len(chain[x])]
    /\ behind' = [behind EXCEPT ![x] = queue[x] # <<>>]
    /\ Goes(x, "post")
    /\ UNCHANGED <<commitVars, redisVars, payload, writes, raised, seen,
                    faults, late>>

\* The API publishes what it is sent, each time with a new commit ID.
Publish(x, n) ==
    queue' = [queue EXCEPT ![x] = @ \o [i \in 1..n |-> payload[x]]]

\* helper_functions.commit_payload. A request that times out may have been
\* accepted all the same: the retry commits the payload again, and when every
\* attempt seems to fail the caller does not wait for what it committed.
Post(x) ==
    /\ pc[x] = "post"
    /\ \E n \in 0..3 :
          /\ Len(chain[x]) + Len(queue[x]) + n <= MaxBlocks
          /\ Publish(x, n)
          /\ \/ n = 1 /\ Goes(x, "wait") /\ UNCHANGED faults
             \/ Fails("post") /\ (Goes(x, "idle") \/ (n > 0 /\ Goes(x, "wait")))
    /\ UNCHANGED <<chain, redisVars, localVars, seen, historyVars>>

\* AssignTentativeHeight for a summary project.
Assign(x) ==
    /\ queue[x] # <<>>
    /\ chain' = [chain EXCEPT ![x] = Append(@, Head(queue[x]))]
    /\ queue' = [queue EXCEPT ![x] = Tail(@)]
    /\ UNCHANGED <<redisVars, pc, localVars, seen, faults, historyVars>>

\* (mutant) the height is the one that was read
ExpectedAsRead(x) == tentative[x]

\* updated_audit_project_block_height
Expected(x) == tentative[x] + 1

Writes(x) == IF x = "summary" THEN {"zset", "stamps", "payload", "last"}
             ELSE {"zset", "payload"}

\* The block status at the expected height is TX_CONFIRMATION_PENDING or more.
\* The wait is 30 or 40 seconds at most: it may end before or after that. The
\* entry of a summary needs the oldest blocks of a pair, which may not be read.
Confirmed(x) ==
    /\ pc[x] = "wait"
    /\ Expected(x) \in DOMAIN chain[x]
    /\ \/ /\ Goes(x, "write")
          /\ writes' = [writes EXCEPT ![x] = Writes(x)]
          /\ UNCHANGED faults
       \/ /\ x = "summary" /\ Fails("oldest")
          /\ Goes(x, "idle")
          /\ UNCHANGED writes
    /\ UNCHANGED <<commitVars, redisVars, payload, tentative, raised, seen,
                    historyVars>>

GiveUp(x) ==
    /\ pc[x] = "wait"
    /\ Goes(x, "idle")
    /\ UNCHANGED <<commitVars, redisVars, localVars, seen, faults, historyVars>>

(***************************************************************************)
(* Listing it                                                               *)
(***************************************************************************)
\* (mutant) the payload is that of the greatest height
NewEntryOfLast(x) == [score |-> payload[x], cid |-> chain[x][Len(chain[x])],
                      dagHeight |-> Expected(x)]

NewEntry(x) == [score |-> payload[x], cid |-> chain[x][Expected(x)],
                dagHeight |-> Expected(x)]

\* The writes of a gather run concurrently, and go on when one of them fails.
\* The cached copy of the payload expires; nothing here reads it.
Write(x, w) ==
    /\ pc[x] = "write"
    /\ w \in writes[x]
    /\ writes' = [writes EXCEPT ![x] = @ \ {w}]
    /\ \/ /\ entries' = IF w = "zset"
                        THEN [entries EXCEPT ![x] = @ \union {NewEntry(x)}]
                        ELSE entries
          /\ stamps' = IF w = "stamps" THEN stamps \union {NewEntry(x).cid}
                       ELSE stamps
          /\ lastHeight' = IF w = "last" THEN payload[x] ELSE lastHeight
          /\ late' = IF w = "zset" /\ behind[x]
                     THEN late \union {<<x, NewEntry(x)>>} ELSE late
          /\ UNCHANGED <<raised, faults>>
       \/ /\ Fails("write")
          /\ raised' = [raised EXCEPT ![x] = TRUE]
          /\ UNCHANGED <<redisVars, late>>
    /\ UNCHANGED <<commitVars, pc, payload, tentative, seen, behind>>

Written(x) ==
    /\ pc[x] = "write"
    /\ writes[x] = {}
    /\ Goes(x, IF raised[x] THEN "idle" ELSE "prune")
    /\ raised' = [raised EXCEPT ![x] = FALSE]
    /\ UNCHANGED <<commitVars, redisVars, payload, tentative, writes, seen,
                    faults, historyVars>>

\* How many entries zremrangebyrank(0, -1 * (n - Cap) + 1) removes from n. A
\* negative rank counts from the end.
RemovedByRank(n) ==
    LET max == Cap - n + 1
    IN IF max >= 0 THEN max + 1 ELSE n + max + 1

\* Old time stamps go as well, those of the summary just listed never.
Prune(x) ==
    /\ pc[x] = "prune"
    /\ \/ /\ \E R \in SUBSET entries[x] :
                /\ Cardinality(R) = IF Cardinality(entries[x]) > Cap
                                    THEN RemovedByRank(Cardinality(entries[x]))
                                    ELSE 0
                /\ \A e \in R, f \in entries[x] \ R : e.score <= f.score
                /\ entries' = [entries EXCEPT ![x] = @ \ R]
          /\ IF x = "summary"
             THEN \E old \in 0..(payload[x] - 1) : stamps' = stamps \ (1..old)
             ELSE UNCHANGED stamps
          /\ UNCHANGED faults
       \/ Fails("prune") /\ UNCHANGED <<entries, stamps>>
    /\ Goes(x, "idle")
    /\ UNCHANGED <<commitVars, lastHeight, localVars, seen, historyVars>>

\* The process of the two coroutines dies and is started again.
Crash ==
    /\ Fails("crash")
    /\ \E x \in Kinds : pc[x] # "idle"
    /\ pc' = [x \in Kinds |-> "idle"]
    /\ payload' = [x \in Kinds |-> None]
    /\ tentative' = [x \in Kinds |-> 0]
    /\ writes' = [x \in Kinds |-> {}]
    /\ raised' = [x \in Kinds |-> FALSE]
    /\ UNCHANGED <<commitVars, redisVars, seen, historyVars>>

\* The second half of either coroutine.
CommitAndList(x) ==
    \/ ReadTentative(x) \/ Post(x) \/ Confirmed(x) \/ GiveUp(x)
    \/ (\E w \in writes[x] : Write(x, w)) \/ Written(x) \/ Prune(x)

V2PairsData == PairsData \/ CommitAndList("summary")

DailyStatsSnapshotter ==
    LatestSummary \/ SummaryStamp \/ CommitAndList("daily")

Next ==
    \/ NextCycle
    \/ V2PairsData
    \/ DailyStatsSnapshotter
    \/ \E x \in Kinds : Assign(x)
    \/ Crash

Spec == Init /\ [][Next]_vars

(***************************************************************************)
(* Properties                                                               *)
(***************************************************************************)
\* What the project has and will have at its heights.
Committed(x) == chain[x] \o queue[x]

\* A commit service that lags behind makes an entry name the payload of an
\* earlier commit, but never a later one or none: the entry has the CID of its
\* DAG height, and the payload it was written for is committed there or above
\* (v2_pairs_data and v2_pairs_daily_stats_snapshotter guess the height).
EntryTrailsItsPayload ==
    \A x \in Kinds : \A e \in entries[x] :
        /\ e.dagHeight \in DOMAIN chain[x] /\ chain[x][e.dagHeight] = e.cid
        /\ \E h \in DOMAIN Committed(x) :
              h >= e.dagHeight /\ Committed(x)[h] = e.score

\* A lagging commit service is all that can go wrong: through lost answers,
\* repeated commits, waits given up and crashes, an entry names its payload if
\* no commit of the project was waiting when its height was guessed.
EntryNamesItsPayload ==
    \A x \in Kinds : \A e \in entries[x] : e.score = e.cid \/ <<x, e>> \in late

\* The payloads that a summary of another height has been listed with.
Mistaken ==
    {e.cid : e \in {z[2] : z \in {y \in late : y[1] = "summary"
                                            /\ y[2].cid # y[2].score}}}

\* However often waiting for the statistics is given up and they are committed
\* again, they are listed once for a height, unless a newer summary was listed
\* with the payload of that height (v2_pairs_daily_stats_snapshotter).
OneDailyPerSummary ==
    \A e, f \in entries["daily"] : e.score = f.score => e = f \/ e.score \in Mistaken
=============================================================================
