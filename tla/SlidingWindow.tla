---------------------------- MODULE SlidingWindow ----------------------------
(***************************************************************************)
(* The sliding window indexer (proto_sliding_window_cacher_service.py): in  *)
(* every cycle it finds the greatest epoch all projects have reached and    *)
(* moves the head and tail markers of each registered time series there.    *)
(*                                                                          *)
(* Height h of project p is a block of epoch First[p] + h - 1, and an epoch *)
(* stands for its end and for the time stamp of the payload. Blocks do not  *)
(* change, so that a sequence of block reads is one step; the reads of      *)
(* blockHeight, which moves, and the writes of the markers are steps.       *)
(***************************************************************************)
EXTENDS Integers, FiniteSets

CONSTANTS
    Projects,       \* the projects registered for indexing
    Series,         \* the time series of each: some of Periods
    First,          \* the epoch of each project's height 1
    Day,            \* epochs in 24h
    Week,           \* epochs in 7d
    AdjustCycles,   \* blocks a head is moved back at most (11 in the code)
    MaxHeight,      \* bound: blocks of a project
    MaxEmpty,       \* bound: blocks without a payload
    MaxFaults,      \* bound: failed calls and crashes, together
    FailAt          \* the calls that may fail, and "crash"

Periods == {"24h", "7d", "0"}

ASSUME WindowConstants ==
    /\ Series \in [Projects -> SUBSET Periods]
    /\ First \in [Projects -> Nat]
    /\ Day \in Nat /\ Week \in Nat
    /\ AdjustCycles \in Nat
    /\ MaxHeight \in Nat /\ MaxEmpty \in Nat /\ MaxFaults \in Nat

Heights == 1..MaxHeight
HeightsOrZero == 0..MaxHeight
Timed == {"24h", "7d"}

NoBlock == 0        \* what the height map lacks: a project whose head block
NoKey == -1         \* has no payload, or one without a blockHeight

VARIABLES
    (* The chains, as the finalizer leaves them *)
    top,            \* blockHeight
    empty,          \* the blocks with a null payload, as <<project, height>>
    (* Redis *)
    head,           \* slidingCache head markers; 0 when missing
    tail,           \* slidingCache tail markers; 0 when missing
    skipped,        \* auxiliary: the blocks of a series, as <<project, period,
                    \* height>>, that find_tail has passed because it could not
                    \* read them
    (* The running cycle *)
    pc,             \* its phase
    heightMap,      \* project_source_height_map
    toRead,         \* the projects it has still to read
    todo,           \* the series it has still to index
    half,           \* the series whose head marker alone is set, as
                    \* <<project, period, the tail to set>>
    faults          \* faults so far

chainVars == <<top, empty>>
markerVars == <<head, tail, skipped>>
cycleVars == <<heightMap, toRead, todo, half>>
windowVars == <<chainVars, markerVars, cycleVars, pc, faults>>

AllSeries == {s \in Projects \X Periods : s[2] \in Series[s[1]]}

WindowTypeOK ==
    /\ top \in [Projects -> HeightsOrZero]
    /\ empty \in SUBSET (Projects \X Heights)
    /\ head \in [Projects -> [Periods -> HeightsOrZero]]
    /\ tail \in [Projects -> [Periods -> HeightsOrZero]]
    /\ heightMap \in [Projects -> HeightsOrZero \union {NoKey}]
    /\ toRead \in SUBSET Projects
    /\ todo \in SUBSET AllSeries
    /\ skipped \in SUBSET (Projects \X Timed \X Heights)
    /\ half \in SUBSET (Projects \X Timed \X Heights)
    /\ \A s \in half : <<s[1], s[2]>> \in todo
    /\ faults \in 0..MaxFaults

WindowInit ==
    /\ top = [p \in Projects |-> 0]
    /\ empty = {}
    /\ head = [p \in Projects |-> [t \in Periods |-> 0]]
    /\ tail = [p \in Projects |-> [t \in Periods |-> 0]]
    /\ skipped = {}
    /\ pc = "heights"
    /\ heightMap = [p \in Projects |-> NoBlock]
    /\ toRead = Projects
    /\ todo = {}
    /\ half = {}
    /\ faults = 0

(***************************************************************************)
(* Blocks                                                                   *)
(***************************************************************************)
Epoch(p, h) == First[p] + h - 1

Span(t) == IF t = "24h" THEN Day ELSE Week

\* get_dag_block_by_height returns data: the block is there and not empty.
HasPayload(p, h) == h \in 1..top[p] /\ <<p, h>> \notin empty

InPeriod(p, t, h, k) == Epoch(p, h) - Epoch(p, k) <= Span(t)

Least(S) == CHOOSE x \in S : \A y \in S : x <= y
Greatest(S) == CHOOSE x \in S : \A y \in S : x >= y

Fails(label) == label \in FailAt /\ faults < MaxFaults /\ faults' = faults + 1

(***************************************************************************)
(* The finalizer                                                            *)
(***************************************************************************)
Finalize(p) ==
    /\ top[p] < MaxHeight
    /\ top' = [top EXCEPT ![p] = @ + 1]
    /\ \/ UNCHANGED empty
       \/ /\ Cardinality(empty) < MaxEmpty
          /\ empty' = empty \union {<<p, top[p] + 1>>}
    /\ UNCHANGED <<markerVars, cycleVars, pc, faults>>

(***************************************************************************)
(* The common epoch                                                         *)
(***************************************************************************)
\* (mutant) the next cycle starts with the projects read already
RestartCycleUnread ==
    /\ pc' = "heights"
    /\ heightMap' = [p \in Projects |-> NoBlock]
    /\ toRead' = {} /\ todo' = {} /\ half' = {}

\* The next cycle starts from scratch: nothing but the markers is kept.
RestartCycle ==
    /\ pc' = "heights"
    /\ heightMap' = [p \in Projects |-> NoBlock]
    /\ toRead' = Projects
    /\ todo' = {} /\ half' = {}

\* An exception of the read leaves the project out of the map, like a head
\* block without a payload: "finally: return" hides it from the caller.
ReadHeight(p) ==
    /\ pc = "heights"
    /\ p \in toRead
    /\ toRead' = toRead \ {p}
    /\ \/ /\ heightMap' = [heightMap EXCEPT ![p] =
                 IF top[p] = 0 THEN NoKey
                 ELSE IF HasPayload(p, top[p]) THEN top[p] ELSE NoBlock]
          /\ UNCHANGED faults
       \/ Fails("heights") /\ UNCHANGED heightMap
    /\ UNCHANGED <<chainVars, markerVars, pc, todo, half>>

Mapped == {p \in Projects : heightMap[p] > 0}

\* (mutant) the latest epoch instead of the one all have reached
LatestEpoch == Greatest({Epoch(p, heightMap[p]) : p \in Mapped})

CommonEpoch == Least({Epoch(p, heightMap[p]) : p \in Mapped})

\* (mutant) a project too far ahead starts over
AdjustedOrFirst(p) ==
    LET h == CommonEpoch - First[p] + 1
    IN IF h >= Greatest({1, heightMap[p] - AdjustCycles}) THEN h ELSE 1

\* Where a project's head ends: at the common epoch, or as near to it as the
\* chain and the number of attempts allow.
Adjusted(p) ==
    Greatest({1, heightMap[p] - AdjustCycles, CommonEpoch - First[p] + 1})

\* A block without a payload on the way there ends the cycle's indexing.
MeetsEmptyBlock ==
    \E p \in Mapped : \E h \in Adjusted(p)..heightMap[p] : <<p, h>> \in empty

HeightsRead == pc = "heights" /\ toRead = {}
Initialised == \A p \in Projects : heightMap[p] # NoKey

SkipIndexing ==
    /\ HeightsRead
    /\ \/ ~Initialised /\ UNCHANGED faults
       \/ Initialised /\ Mapped # {} /\ MeetsEmptyBlock /\ UNCHANGED faults
       \/ Initialised /\ Mapped # {} /\ Fails("adjust")
    /\ pc' = "aggregate"
    /\ UNCHANGED <<chainVars, markerVars, cycleVars>>

\* A project missing from the map raises before anything is indexed, and
\* periodic_retrieval goes on to the next cycle without aggregating.
GiveUpCycle ==
    /\ HeightsRead /\ Initialised
    /\ Mapped = {} \/ (~MeetsEmptyBlock /\ Mapped # Projects)
    /\ RestartCycle
    /\ UNCHANGED <<chainVars, markerVars, faults>>

StartIndexing ==
    /\ HeightsRead
    /\ Mapped = Projects
    /\ ~MeetsEmptyBlock
    /\ heightMap' = [p \in Projects |-> Adjusted(p)]
    /\ todo' = AllSeries
    /\ pc' = "index"
    /\ UNCHANGED <<chainVars, markerVars, toRead, half, faults>>

(***************************************************************************)
(* The markers of one series                                                *)
(***************************************************************************)
\* (mutant) the search resumes above the tail marker
SearchAboveTail(p, t) ==
    IF head[p][t] = 0 \/ tail[p][t] = 0 THEN 1 ELSE tail[p][t] + 1

\* Where find_tail starts.
SearchFrom(p, t) ==
    IF head[p][t] = 0 \/ tail[p][t] = 0 THEN 1 ELSE tail[p][t]

\* What find_tail looks for: it returns the first it can read.
Tails(p, t) ==
    {k \in SearchFrom(p, t)..(heightMap[p] - 1) :
        HasPayload(p, k) /\ InPeriod(p, t, heightMap[p], k)}

PassedFor(p, t, k) == {j \in Tails(p, t) : j < k}

SetHead(p, t) == head' = [head EXCEPT ![p][t] = heightMap[p]]

IsHalf(p, t) == \E s \in half : s[1] = p /\ s[2] = t

\* The series "0" has no tail.
IndexSeries(p, t) ==
    /\ pc = "index"
    /\ <<p, t>> \in todo /\ ~ IsHalf(p, t)
    /\ \/ /\ t \notin Timed
          /\ SetHead(p, t)
          /\ todo' = todo \ {<<p, t>>}
          /\ UNCHANGED <<half, skipped, faults>>
       \/ /\ t \in Timed
          /\ \E k \in Tails(p, t) :
                /\ PassedFor(p, t, k) # {} => "find" \in FailAt
                /\ faults' = faults + Cardinality(PassedFor(p, t, k))
                /\ faults' <= MaxFaults
                /\ half' = half \union {<<p, t, k>>}
                /\ skipped' = skipped \union
                                  {<<p, t, j>> : j \in PassedFor(p, t, k)}
          /\ SetHead(p, t)
          /\ UNCHANGED todo
       \/ /\ \/ t \in Timed /\ Tails(p, t) = {} /\ UNCHANGED faults
             \/ Fails("index")
          /\ todo' = todo \ {<<p, t>>}
          /\ UNCHANGED <<head, half, skipped>>
    /\ UNCHANGED <<chainVars, tail, pc, heightMap, toRead>>

SetTail(p, t, k) ==
    /\ pc = "index"
    /\ <<p, t, k>> \in half
    /\ \/ tail' = [tail EXCEPT ![p][t] = k] /\ UNCHANGED faults
       \/ Fails("setTail") /\ UNCHANGED tail
    /\ todo' = todo \ {<<p, t>>}
    /\ half' = half \ {<<p, t, k>>}
    /\ UNCHANGED <<chainVars, head, skipped, pc, heightMap, toRead>>

Indexed ==
    /\ pc = "index"
    /\ todo = {}
    /\ pc' = "aggregate"
    /\ UNCHANGED <<chainVars, markerVars, cycleVars, faults>>

Crash ==
    /\ Fails("crash")
    /\ RestartCycle
    /\ UNCHANGED <<chainVars, markerVars>>

\* build_primary_indexes, up to the aggregation that follows it.
Index ==
    \/ \E p \in Projects : ReadHeight(p)
    \/ SkipIndexing \/ GiveUpCycle \/ StartIndexing
    \/ \E p \in Projects, t \in Periods : IndexSeries(p, t)
    \/ \E p \in Projects, t \in Timed, k \in Heights : SetTail(p, t, k)
    \/ Indexed

Environment == \E p \in Projects : Finalize(p)

(***************************************************************************)
(* Properties of the markers                                                *)
(***************************************************************************)
\* No block with a payload in the period that ends at the head marker is below
\* the tail marker, whatever fails between the two writes, but for those that
\* could not be read when the tail came past them (find_tail resumes at the old
\* tail, build_primary_index).
NothingInPeriodIsLost ==
    \A p \in Projects, t \in Timed : \A k \in 1..(tail[p][t] - 1) :
        HasPayload(p, k) /\ <<p, t, k>> \notin skipped
            => ~InPeriod(p, t, head[p][t], k)

\* A head marker never goes back, although the common epoch is computed anew in
\* every cycle and a project far ahead is moved back only so far
\* (adjust_projects_head_by_source_height).
HeadNeverMovesBack ==
    [][\A p \in Projects, t \in Periods :
            head'[p][t] >= head[p][t] /\ tail'[p][t] >= tail[p][t]]_markerVars
=============================================================================
