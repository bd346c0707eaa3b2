----------------------- MODULE PairAggregation_proofs -----------------------
(***************************************************************************)
(* Theorems about PairAggregation and the indexer in front of it, for every *)
(* set of projects, window, chain length, log size and number of faults.    *)
(***************************************************************************)
EXTENDS PairAggregation, SlidingWindow_proofs, SequenceTheorems

(***************************************************************************)
(* The markers                                                              *)
(***************************************************************************)
LEMMA TimedIsFinite == IsFiniteSet(Timed \X Heights)
<1>1. IsFiniteSet({"24h"} \union {"7d"})
  BY FS_Singleton, FS_AddElement
<1>2. Timed = {"24h"} \union {"7d"}
  BY DEF Timed
<1>3. IsFiniteSet(Heights)
  BY FS_Interval, WindowConstants DEF Heights
<1> QED
  BY <1>1, <1>2, <1>3, FS_Product

\* The failed reads of an aggregation are counted.
LEMMA UnreadIsFinite ==
    ASSUME NEW unread \in SUBSET ToRead
    PROVE  Cardinality(unread) \in Nat
<1>1. unread \subseteq Timed \X Heights
  BY DEF ToRead
<1> QED
  BY <1>1, TimedIsFinite, FS_Subset, FS_CardinalityType

\* The aggregation leaves the markers and the chains alone.
LEMMA NextIsWindowStep ==
    ASSUME WindowTypeOK, [Next]_vars
    PROVE  WindowStep
<1>0. \A label : Fails(label) => faults' \in 0..MaxFaults
  BY WindowConstants DEF Fails, WindowTypeOK
<1>1. CASE UNCHANGED vars
  BY <1>1 DEF WindowStep, vars
<1>2. CASE (Index \/ Environment) /\ UNCHANGED pairVars
  BY <1>2 DEF WindowStep
<1>3. CASE ProcessDies
  BY <1>3 DEF ProcessDies, WindowStep
<1>4. CASE Aggregate
  <2>1. faults' \in 0..MaxFaults
    BY <1>4, UnreadIsFinite, WindowConstants DEF Aggregate, WindowTypeOK
  <2> QED
    BY <1>4, <2>1 DEF Aggregate, AggregationStep, WindowStep
<1>5. CASE NoResult
  BY <1>0, <1>5
     DEF NoResult, EndCycle, AggregationStep, WindowStep, WindowTypeOK
<1>6. CASE StoreLogs
  BY <1>0, <1>6
     DEF StoreLogs, EndCycle, AggregationStep, WindowStep, WindowTypeOK, cycleVars
<1>7. CASE StoreDaily
  BY <1>0, <1>7
     DEF StoreDaily, EndCycle, AggregationStep, WindowStep, WindowTypeOK, cycleVars
<1>8. CASE Store
  BY <1>0, <1>8
     DEF Store, EndCycle, AggregationStep, WindowStep, WindowTypeOK
<1> QED
  BY <1>1, <1>2, <1>3, <1>4, <1>5, <1>6, <1>7, <1>8 DEF Next, ProcessPair

LEMMA WindowInvHolds == Spec => []WindowInv
<1>1. Init => WindowInv
  BY WindowInitInv DEF Init
<1>2. WindowInv /\ [Next]_vars => WindowInv'
  BY NextIsWindowStep, WindowInvStep DEF WindowInv
<1> QED
  BY <1>1, <1>2, PTL DEF Spec

\* No block of the period that ends at a head marker is below the tail marker,
\* but for those that could not be read, wherever the indexer fails or dies.
THEOREM NothingIsEverLost == Spec => []NothingInPeriodIsLost
<1>1. WindowInv => NothingInPeriodIsLost
  BY DEF WindowInv
<1> QED
  BY <1>1, WindowInvHolds, PTL

\* No marker goes back, although the common epoch is computed anew in every cycle
\* and a project far ahead is moved back only so far.
THEOREM MarkersNeverMoveBack == Spec => HeadNeverMovesBack
<1>1. ASSUME WindowInv, WindowInv', [Next]_vars
      PROVE  [\A p \in Projects, t \in Periods :
                 head'[p][t] >= head[p][t] /\ tail'[p][t] >= tail[p][t]]_markerVars
  <2>1. \A p \in Projects, t \in Periods :
           head[p][t] <= head'[p][t] /\ tail[p][t] <= tail'[p][t]
    BY <1>1, NextIsWindowStep, MarkersGrow DEF WindowInv
  <2>2. \A p \in Projects, t \in Periods :
           /\ head[p][t] \in Int /\ head'[p][t] \in Int
           /\ tail[p][t] \in Int /\ tail'[p][t] \in Int
    <3>1. HeightsOrZero \subseteq Int
      BY WindowConstants DEF HeightsOrZero
    <3>2. WindowTypeOK /\ WindowTypeOK'
      BY <1>1 DEF WindowInv
    <3>3. /\ head \in [Projects -> [Periods -> HeightsOrZero]]
          /\ head' \in [Projects -> [Periods -> HeightsOrZero]]
          /\ tail \in [Projects -> [Periods -> HeightsOrZero]]
          /\ tail' \in [Projects -> [Periods -> HeightsOrZero]]
      BY <3>2 DEF WindowTypeOK
    <3> QED
      BY <3>1, <3>3
  <2> QED
    BY <2>1, <2>2
<1> QED
  BY <1>1, WindowInvHolds, PTL DEF Spec, HeadNeverMovesBack

(***************************************************************************)
(* The aggregates and the logs                                              *)
(***************************************************************************)
\* A cache does not exceed the markers of the pair.
IsBehind(c) ==
    c # NoCache =>
        /\ c \in Cache
        /\ \A t \in Timed : /\ c.tail[t] <= c.head[t]
                            /\ c.tail[t] <= tail[Volume][t]
                            /\ c.head[t] <= head[Volume][t]

\* Its sums count the blocks of its windows.
IsExact(c) ==
    c # NoCache =>
        \A t \in Timed : \A h \in Heights :
            <<t, h>> \in c.missed \/ c.sum[t][h] =
                CountIf(/\ h \in c.tail[t]..c.head[t]
                        /\ HasPayload(Volume, h))

HasLog(h) ==
    (\E i \in 1..Len(logs) : logs[i] = h) \/ Len(logs) = MaxLogs

\* The logs hold the blocks of its 24h window, but for those of S.
HasLogs(c, S) ==
    c # NoCache =>
        \A h \in c.tail["24h"]..c.head["24h"] :
            HasPayload(Volume, h) =>
                <<"24h", h>> \in c.missed \/ HasLog(h) \/ h \in S

\* The cache that a call has computed, and the logs it has still to store.
PairInv ==
    /\ TypeOK
    /\ pc \in {"heights", "index", "aggregate"} => next = NoCache
    /\ IsBehind(cache) /\ IsBehind(next)
    /\ IsExact(cache) /\ IsExact(next)
    /\ HasLogs(cache, {})
    /\ pc = "logs" => HasLogs(next, recent)
    /\ pc \in {"daily", "store"} => HasLogs(next, {})

\* The list of heights exists, and has all of them.
LEMMA NewestFirstLists ==
    ASSUME NEW S \in SUBSET Heights
    PROVE  /\ NewestFirst(S) \in Seq(Heights)
           /\ \A h \in S : \E i \in 1..Len(NewestFirst(S)) : NewestFirst(S)[i] = h
<1> DEFINE n == Cardinality(S)
           s == NewestFirst(S)
<1>1. IsFiniteSet(S) /\ S \in SUBSET Nat
  <2>1. IsFiniteSet(Heights)
    BY FS_Interval, WindowConstants DEF Heights
  <2> QED
    BY <2>1, FS_Subset, WindowSets
<1>2. n \in Nat
  BY <1>1, FS_CardinalityType
<1>3. \E u \in [1..n -> S] : \A i, j \in 1..n : i < j => u[i] > u[j]
  <2>1. PICK u \in Descending(S) : TRUE
    BY <1>1, DescendingExists
  <2> QED
    BY <2>1 DEF Descending
<1>4. s \in [1..n -> S] /\ \A i, j \in 1..n : i < j => s[i] > s[j]
  BY <1>3 DEF NewestFirst
<1> HIDE DEF n, s
<1>5. \A i, j \in 1..n : i # j => s[i] # s[j]
  <2> SUFFICES ASSUME NEW i \in 1..n, NEW j \in 1..n, i # j PROVE s[i] # s[j]
    OBVIOUS
  <2>1. s[i] \in Int /\ s[j] \in Int
    <3>1. s[i] \in S /\ s[j] \in S
      BY <1>4
    <3>2. S \subseteq Int
      BY <1>1
    <3> QED
      BY <3>1, <3>2
  <2>2. i < j \/ j < i
    BY <1>2
  <2> QED
    BY <1>4, <2>1, <2>2
<1>6. ASSUME NEW h \in S, \A i \in 1..n : s[i] # h
      PROVE  FALSE
  <2>1. IsFiniteSet(S \ {h}) /\ Cardinality(S \ {h}) = n - 1
    BY <1>1, FS_RemoveElement DEF n
  <2>2. IsFiniteSet(1..n) /\ Cardinality(1..n) = n
    BY <1>2, FS_Interval
  <2>3. Cardinality(S \ {h}) < Cardinality(1..n)
    BY <1>2, <2>1, <2>2
  <2>4. s \in [1..n -> S \ {h}]
    BY <1>4, <1>6
  <2>5. \E i, j \in 1..n : i # j /\ s[i] = s[j]
    <3>1. ASSUME NEW D, NEW T, NEW g \in [D -> T], IsFiniteSet(D), IsFiniteSet(T),
                 Cardinality(T) < Cardinality(D)
          PROVE  \E i, j \in D : i # j /\ g[i] = g[j]
      BY <3>1, FS_PigeonHole
    <3> HIDE DEF NewestFirst
    <3> QED
      BY <2>1, <2>2, <2>3, <2>4, <3>1
  <2> QED
    BY <1>5, <2>5
<1>7. s \in Seq(Heights) /\ Len(s) = n
  BY <1>2, <1>4
<1> QED
  BY <1>6, <1>7 DEF s

\* The logs that are stored are the newest ones; what is dropped makes room.
LEMMA LogsCut ==
    ASSUME TypeOK, NEW k, k = Least({Len(NewestLogs), MaxLogs})
    PROVE  /\ SubSeq(NewestLogs, 1, k) \in Seq(Heights)
           /\ Len(SubSeq(NewestLogs, 1, k)) = k /\ k \in Nat /\ k <= MaxLogs
           /\ \A h \in Heights :
                 HasLog(h) \/ h \in recent =>
                    \/ \E i \in 1..k : SubSeq(NewestLogs, 1, k)[i] = h
                    \/ k = MaxLogs
<1> DEFINE f == NewestFirst(recent)
           a == Len(f)
           b == Len(logs)
<1>1. /\ f \in Seq(Heights)
      /\ \A h \in recent : \E i \in 1..a : f[i] = h
  BY NewestFirstLists DEF TypeOK
<1>2. logs \in Seq(Heights) /\ b \in Nat /\ b <= MaxLogs /\ MaxLogs \in Nat
      /\ a \in Nat
  BY <1>1, PairProjects DEF TypeOK
<1> HIDE DEF f
<1>3. /\ NewestLogs \in Seq(Heights) /\ Len(NewestLogs) = a + b
      /\ \A i \in 1..a : NewestLogs[i] = f[i]
      /\ \A i \in 1..b : NewestLogs[a + i] = logs[i]
  BY <1>1, <1>2 DEF NewestLogs, f
<1> HIDE DEF a, b
<1>4. \E x \in {a + b, MaxLogs} : \A y \in {a + b, MaxLogs} : x <= y
  <2>1. CASE a + b <= MaxLogs
    BY <1>2, <2>1
  <2>2. CASE ~(a + b <= MaxLogs)
    BY <1>2, <2>2
  <2> QED
    BY <2>1, <2>2
<1>5. /\ k \in {a + b, MaxLogs} /\ k <= a + b /\ k <= MaxLogs
  BY <1>3, <1>4 DEF Least
<1>6. k \in Nat
  BY <1>2, <1>5
<1> DEFINE u == SubSeq(NewestLogs, 1, k)
<1>7. /\ u \in Seq(Heights) /\ Len(u) = k
      /\ \A i \in 1..k : u[i] = NewestLogs[i]
  <2>1. k <= Len(NewestLogs) /\ 1 \in Nat
    BY <1>3, <1>5
  <2>2. u \in Seq(Heights) /\ Len(u) = k
    <3>1. k \in Int /\ 1 \in Int
      BY <1>6
    <3>2. \A i \in 1..k : NewestLogs[i] \in Heights
      BY <1>3, <1>6, <2>1
    <3>3. Len(u) = IF 1 <= k THEN k - 1 + 1 ELSE 0
      BY <3>1, <3>2, SubSeqProperties
    <3>4. u \in Seq(Heights)
      BY <3>1, <3>2, SubSeqProperties
    <3> HIDE DEF u
    <3>5. Len(u) = k
      BY <1>6, <3>3
    <3> QED
      BY <3>4, <3>5
  <2>3. ASSUME NEW i \in 1..k PROVE u[i] = NewestLogs[i]
    BY <1>3, <1>6, <2>1
  <2> QED
    BY <2>2, <2>3
<1> HIDE DEF u
<1>8. ASSUME NEW h \in Heights, HasLog(h) \/ h \in recent, k # MaxLogs
      PROVE  \E i \in 1..k : u[i] = h
  <2>1. k = a + b
    BY <1>5, <1>8
  <2>2. CASE h \in recent
    <3>1. PICK i \in 1..a : f[i] = h
      BY <1>1, <2>2 DEF a
    <3>2. i \in 1..k
      BY <1>2, <2>1
    <3>3. u[i] = h
      BY <1>3, <1>7, <3>1, <3>2
    <3> QED
      BY <3>2, <3>3
  <2>3. CASE HasLog(h)
    <3>1. b # MaxLogs
      BY <1>2, <1>5, <1>8, <2>1
    <3>2. PICK i \in 1..b : logs[i] = h
      BY <2>3, <3>1 DEF HasLog, b
    <3>3. a + i \in 1..k
      BY <1>2, <2>1
    <3>4. u[a + i] = h
      BY <1>3, <1>7, <3>2, <3>3
    <3> QED
      BY <3>3, <3>4
  <2> QED
    BY <1>8, <2>2, <2>3
<1> QED
  BY <1>5, <1>6, <1>7, <1>8 DEF u

LEMMA CacheType ==
    ASSUME NEW c \in Cache, NEW t \in Timed
    PROVE  /\ c.head[t] \in Heights /\ c.tail[t] \in Heights
           /\ c.head[t] \in Int /\ c.tail[t] \in Int
           /\ c.sum[t] \in Sums /\ \A h \in Heights : c.sum[t][h] \in Int
           /\ c.missed \in SUBSET (Timed \X Heights)
<1>1. Heights \subseteq Int
  BY WindowSets
<1> QED
  BY <1>1 DEF Cache, Sums

\* While the windows of a cache are below the markers, their blocks stay as they
\* are.
LEMMA CacheStays ==
    ASSUME WindowInv, WindowStep, WindowTypeOK'
    PROVE  \A c : IsBehind(c) =>
              /\ IsBehind(c)'
              /\ IsExact(c) => IsExact(c)'
              /\ c # NoCache =>
                   \A t \in Timed : \A h \in c.tail[t]..c.head[t] :
                      HasPayload(Volume, h)' <=> HasPayload(Volume, h)
<1> SUFFICES ASSUME NEW c, IsBehind(c), c # NoCache
             PROVE  /\ IsBehind(c)'
                    /\ IsExact(c) => IsExact(c)'
                    /\ \A t \in Timed : \A h \in c.tail[t]..c.head[t] :
                          HasPayload(Volume, h)' <=> HasPayload(Volume, h)
  BY DEF IsBehind, IsExact
<1>0. Volume \in Projects
  BY PairProjects
<1>1. c \in Cache /\ \A t \in Timed :
         /\ c.tail[t] <= c.head[t]
         /\ c.tail[t] <= tail[Volume][t] /\ c.head[t] <= head[Volume][t]
  BY DEF IsBehind
<1>2. ASSUME NEW t \in Timed
      PROVE  /\ c.tail[t] \in Int /\ c.head[t] \in Int /\ c.tail[t] >= 1
             /\ tail[Volume][t] \in Int /\ tail'[Volume][t] \in Int
             /\ head[Volume][t] \in Int /\ head'[Volume][t] \in Int
             /\ tail[Volume][t] <= tail'[Volume][t]
             /\ head[Volume][t] <= head'[Volume][t]
             /\ head[Volume][t] <= top[Volume] /\ top[Volume] \in Int
  <2>1. t \in Periods /\ HeightsOrZero \subseteq Int
    BY WindowSets, WindowConstants DEF HeightsOrZero
  <2>2. WindowTypeOK /\ WithinChain
    BY DEF WindowInv
  <2>3. /\ tail[Volume][t] \in HeightsOrZero /\ head[Volume][t] \in HeightsOrZero
        /\ top[Volume] \in HeightsOrZero
    BY <1>0, <2>1, <2>2 DEF WindowTypeOK
  <2>4. tail'[Volume][t] \in HeightsOrZero /\ head'[Volume][t] \in HeightsOrZero
    BY <1>0, <2>1 DEF WindowTypeOK
  <2>5. head[Volume][t] <= top[Volume]
    BY <1>0, <2>1, <2>2 DEF WithinChain
  <2>6. /\ tail[Volume][t] <= tail'[Volume][t]
        /\ head[Volume][t] <= head'[Volume][t]
    BY <1>0, <2>1, MarkersGrow
  <2>7. c.tail[t] \in Heights /\ c.head[t] \in Heights
    BY <1>1, CacheType
  <2>8. c.tail[t] \in Int /\ c.head[t] \in Int /\ c.tail[t] >= 1
    BY <2>7, WindowConstants DEF Heights
  <2> QED
    BY <2>1, <2>3, <2>4, <2>5, <2>6, <2>8
<1>3. IsBehind(c)'
  <2>1. \A t \in Timed :
           c.tail[t] <= tail'[Volume][t] /\ c.head[t] <= head'[Volume][t]
    BY <1>1, <1>2
  <2> QED
    BY <1>1, <2>1 DEF IsBehind
<1>4. ASSUME NEW t \in Timed, NEW h \in c.tail[t]..c.head[t]
      PROVE  HasPayload(Volume, h)' <=> HasPayload(Volume, h)
  <2>1. c.head[t] <= head[Volume][t]
    BY <1>1
  <2>2. h \in 1..top[Volume]
    BY <1>2, <2>1
  <2>3. WindowTypeOK
    BY DEF WindowInv
  <2> QED
    BY <1>0, <2>2, <2>3, ChainGrows
<1>5. IsExact(c) => IsExact(c)'
  <2> SUFFICES ASSUME IsExact(c), NEW t \in Timed, NEW h \in Heights,
                      <<t, h>> \notin c.missed
               PROVE  c.sum[t][h] = CountIf(/\ h \in c.tail[t]..c.head[t]
                                            /\ HasPayload(Volume, h)')
    BY DEF IsExact, CountIf
  <2>1. c.sum[t][h] = CountIf(/\ h \in c.tail[t]..c.head[t]
                              /\ HasPayload(Volume, h))
    BY DEF IsExact
  <2> QED
    BY <1>4, <2>1 DEF CountIf
<1> QED
  BY <1>3, <1>4, <1>5

\* What the running call has computed stands for the markers as they are.
LEMMA AggregateResult ==
    ASSUME WindowInv, PairInv, Aggregate
    PROVE  /\ next' \in Cache /\ recent' \in SUBSET Heights
           /\ IsBehind(next)' /\ IsExact(next)' /\ HasLogs(next, recent)'
<1>1. PICK unread \in SUBSET ToRead :
         /\ MarkersMoved /\ EndsAtHand(unread)
         /\ next' = [head |-> [t \in Timed |-> head[Volume][t]],
                     tail |-> [t \in Timed |-> tail[Volume][t]],
                     sum |-> [t \in Timed |-> NextSum(t, unread)],
                     missed |-> OldMissed \union unread]
         /\ recent' = Added("24h", unread)
  BY DEF Aggregate
<1>2. UNCHANGED <<top, empty, head, tail, logs, cache>>
  BY DEF Aggregate, chainVars, markerVars
<1>3. /\ Volume \in Projects /\ "24h" \in Timed
      /\ Timed \subseteq Periods /\ Heights \subseteq Int
  <2>1. Heights \subseteq Int
    BY WindowSets
  <2> QED
    BY <2>1, PairProjects, WindowSets DEF Timed
<1>4. \A t \in Timed :
         /\ head[Volume][t] \in Heights /\ tail[Volume][t] \in Heights
         /\ tail[Volume][t] <= head[Volume][t]
  <2> SUFFICES ASSUME NEW t \in Timed
               PROVE  /\ head[Volume][t] \in Heights /\ tail[Volume][t] \in Heights
                      /\ tail[Volume][t] <= head[Volume][t]
    OBVIOUS
  <2>1. head[Volume][t] \in HeightsOrZero /\ tail[Volume][t] \in HeightsOrZero
    BY <1>3 DEF WindowInv, WindowTypeOK
  <2>2. head[Volume][t] # 0 /\ tail[Volume][t] # 0
    BY <1>1 DEF MarkersMoved
  <2>3. tail[Volume][t] <= head[Volume][t]
    BY <1>3 DEF WindowInv, WithinChain
  <2> QED
    BY <2>1, <2>2, <2>3, WindowSets
<1>5. cache # NoCache => cache \in Cache /\ IsBehind(cache) /\ IsExact(cache)
  BY DEF PairInv, IsBehind
<1>6. \A t \in Timed, h \in Heights : OldSum(t)[h] \in Int
  BY <1>5, CacheType DEF OldSum
<1>7. \A t \in Timed : NextSum(t, unread) \in Sums
  BY <1>6 DEF NextSum, Sums, CountIf
<1>8. OldMissed \union unread \in SUBSET (Timed \X Heights)
  <2>1. OldMissed \in SUBSET (Timed \X Heights)
    BY <1>3, <1>5, CacheType DEF OldMissed
  <2>2. unread \in SUBSET (Timed \X Heights)
    BY DEF ToRead
  <2> QED
    BY <2>1, <2>2
<1>9. next' \in Cache
  BY <1>1, <1>4, <1>7, <1>8 DEF Cache
<1>10. \A t \in Timed : Added(t, unread) \subseteq Heights
  <2>1. top[Volume] \in HeightsOrZero
    BY <1>3 DEF WindowInv, WindowTypeOK
  <2>2. \A h : HasPayload(Volume, h) => h \in Heights
    BY <2>1, WindowConstants DEF HasPayload, Heights, HeightsOrZero
  <2> QED
    BY <2>2 DEF Added, Window, EnteredBlocks, BlocksInRange
<1>11. IsBehind(next)'
  <2>1. \A t \in Timed : head[Volume][t] <= head[Volume][t]
                         /\ tail[Volume][t] <= tail[Volume][t]
    <3>1. \A t \in Timed : head[Volume][t] \in Int /\ tail[Volume][t] \in Int
      BY <1>3, <1>4
    <3>2. \A x \in Int : x <= x
      OBVIOUS
    <3> QED
      BY <3>1, <3>2, Zenon
  <2> QED
    BY <1>1, <1>2, <1>4, <1>9, <2>1 DEF IsBehind
<1>12. ASSUME NEW t \in Timed, NEW h \in Heights, <<t, h>> \notin unread,
              <<t, h>> \notin OldMissed
       PROVE  NextSum(t, unread)[h] =
                 CountIf(/\ h \in tail[Volume][t]..head[Volume][t]
                         /\ HasPayload(Volume, h))
  <2>1. /\ h \in Int /\ head[Volume][t] \in Int /\ tail[Volume][t] \in Int
        /\ tail[Volume][t] <= head[Volume][t]
    BY <1>3, <1>4
  <2>2. NextSum(t, unread)[h] = OldSum(t)[h] + CountIf(h \in Added(t, unread))
                                             - CountIf(h \in Removed(t, unread))
    BY DEF NextSum
  <2>3. CASE cache = NoCache
    <3>1. OldSum(t)[h] = 0 /\ CountIf(h \in Removed(t, unread)) = 0
      BY <2>3 DEF OldSum, Removed, CountIf
    <3>2. h \in Added(t, unread) <=> /\ h \in tail[Volume][t]..head[Volume][t]
                                     /\ HasPayload(Volume, h)
      BY <1>12, <2>3 DEF Added, Window, BlocksInRange
    <3> QED
      BY <2>2, <3>1, <3>2 DEF CountIf
  <2>4. CASE cache # NoCache
    <3>1. /\ cache.head[t] \in Int /\ cache.tail[t] \in Int
          /\ cache.tail[t] <= cache.head[t]
          /\ cache.tail[t] <= tail[Volume][t] /\ cache.head[t] <= head[Volume][t]
      BY <1>5, <2>4, CacheType DEF IsBehind
    <3>2. OldSum(t)[h] = CountIf(/\ h \in cache.tail[t]..cache.head[t]
                                 /\ HasPayload(Volume, h))
      BY <1>5, <1>12, <2>4 DEF OldSum, OldMissed, IsExact
    <3>4. h \in Added(t, unread) <=>
             /\ h \in (cache.head[t] + 1)..head[Volume][t]
             /\ HasPayload(Volume, h)
      <4>1. Added(t, unread) =
               BlocksInRange(t, cache.head[t] + 1, head[Volume][t], unread)
        BY <1>1, <2>4 DEF EndsAtHand, Added, EnteredBlocks
      <4> QED
        BY <1>12, <4>1 DEF BlocksInRange
    <3>5. h \in Removed(t, unread) <=>
             /\ h \in cache.tail[t]..(tail[Volume][t] - 1)
             /\ HasPayload(Volume, h)
      BY <1>12, <2>4 DEF Removed, LeftBlocks, BlocksInRange
    <3>6. CASE ~HasPayload(Volume, h)
      BY <2>2, <3>2, <3>4, <3>5, <3>6 DEF CountIf
    <3>7. CASE HasPayload(Volume, h)
      <4>1. CASE h < tail[Volume][t]
        BY <2>1, <2>2, <3>1, <3>2, <3>4, <3>5, <3>7, <4>1 DEF CountIf
      <4>2. CASE ~(h < tail[Volume][t])
        BY <2>1, <2>2, <3>1, <3>2, <3>4, <3>5, <3>7, <4>2 DEF CountIf
      <4> QED
        BY <4>1, <4>2
    <3> QED
      BY <3>6, <3>7
  <2> QED
    BY <2>3, <2>4
<1>13. IsExact(next)'
  <2> SUFFICES ASSUME NEW t \in Timed, NEW h \in Heights,
                      <<t, h>> \notin next'.missed
               PROVE  next'.sum[t][h] =
                         CountIf(/\ h \in next'.tail[t]..next'.head[t]
                                 /\ HasPayload(Volume, h)')
    BY DEF IsExact, CountIf
  <2>1. <<t, h>> \notin unread /\ <<t, h>> \notin OldMissed
    BY <1>1
  <2>2. /\ next'.sum[t] = NextSum(t, unread)
        /\ next'.tail[t] = tail[Volume][t] /\ next'.head[t] = head[Volume][t]
    BY <1>1
  <2>3. HasPayload(Volume, h)' <=> HasPayload(Volume, h)
    BY <1>2 DEF HasPayload
  <2> QED
    BY <1>12, <2>1, <2>2, <2>3 DEF CountIf
<1>14. HasLogs(next, recent)'
  <2> SUFFICES ASSUME NEW h \in next'.tail["24h"]..next'.head["24h"],
                      HasPayload(Volume, h), <<"24h", h>> \notin next'.missed,
                      h \notin recent'
               PROVE  HasLog(h)
    BY <1>2 DEF HasLogs, HasLog, HasPayload
  <2>1. /\ next'.tail["24h"] = tail[Volume]["24h"]
        /\ next'.head["24h"] = head[Volume]["24h"]
    BY <1>1, <1>3
  <2>2. h \in tail[Volume]["24h"]..head[Volume]["24h"] /\ h \in Int
        /\ <<"24h", h>> \notin unread /\ <<"24h", h>> \notin OldMissed
        /\ h \notin Added("24h", unread)
    <3>1. tail[Volume]["24h"] \in Int /\ head[Volume]["24h"] \in Int
      BY <1>3, <1>4
    <3> QED
      BY <1>1, <2>1, <3>1
  <2>3. cache # NoCache
    BY <2>2 DEF Added, Window, BlocksInRange
  <2>4. /\ cache.head["24h"] \in Int /\ cache.tail["24h"] \in Int
        /\ cache.tail["24h"] <= tail[Volume]["24h"]
        /\ tail[Volume]["24h"] \in Int /\ head[Volume]["24h"] \in Int
    BY <1>3, <1>4, <1>5, <2>3, CacheType DEF IsBehind
  <2>5. head[Volume]["24h"] > cache.head["24h"]
    BY <1>1, <2>3 DEF MarkersMoved
  <2>6. h \notin (cache.head["24h"] + 1)..head[Volume]["24h"]
    BY <2>2, <2>3, <2>5 DEF Added, EnteredBlocks, BlocksInRange
  <2>7. h \in cache.tail["24h"]..cache.head["24h"]
    BY <2>2, <2>4, <2>6
  <2>8. HasLogs(cache, {})
    BY DEF PairInv
  <2> QED
    BY <2>2, <2>3, <2>7, <2>8 DEF HasLogs, OldMissed
<1> QED
  BY <1>1, <1>3, <1>9, <1>10, <1>11, <1>13, <1>14

LEMMA PairInitInv == Init => PairInv
<1> SUFFICES ASSUME Init PROVE PairInv
  OBVIOUS
<1>1. WindowTypeOK
  BY WindowInitInv DEF Init, WindowInv
<1>2. logs \in Seq(Heights) /\ Len(logs) = 0 /\ MaxLogs \in Nat
  BY PairProjects DEF Init
<1>3. TypeOK
  BY <1>1, <1>2 DEF Init, WindowInit, TypeOK, AggregateLabels
<1> QED
  BY <1>3 DEF Init, WindowInit, PairInv, IsBehind, IsExact, HasLogs

\* While the logs are left alone, they hold what they held.
LEMMA LogsStay ==
    ASSUME WindowInv, WindowStep, WindowTypeOK', UNCHANGED logs
    PROVE  \A c, S : IsBehind(c) /\ HasLogs(c, S) => HasLogs(c, S)'
<1> SUFFICES ASSUME NEW c, NEW S, IsBehind(c), HasLogs(c, S), c # NoCache,
                    NEW h \in c.tail["24h"]..c.head["24h"], HasPayload(Volume, h)'
             PROVE  <<"24h", h>> \in c.missed \/ HasLog(h) \/ h \in S
  BY DEF HasLogs, HasLog
<1>1. "24h" \in Timed
  BY DEF Timed
<1>2. HasPayload(Volume, h)
  BY <1>1, CacheStays
<1> QED
  BY <1>2 DEF HasLogs

\* A new tail of the log keeps what the caches need.
LEMMA StoreLogsInv ==
    ASSUME WindowInv, PairInv, pc = "logs", UNCHANGED <<top, empty, cache, next>>,
           logs' = SubSeq(NewestLogs, 1, Least({Len(NewestLogs), MaxLogs}))
    PROVE  /\ logs' \in Seq(Heights) /\ Len(logs') <= MaxLogs
           /\ HasLogs(cache, {})' /\ HasLogs(next, {})'
<1> DEFINE k == Least({Len(NewestLogs), MaxLogs})
<1>1. TypeOK
  BY DEF PairInv
<1>2. /\ SubSeq(NewestLogs, 1, k) \in Seq(Heights)
      /\ Len(SubSeq(NewestLogs, 1, k)) = k /\ k \in Nat /\ k <= MaxLogs
      /\ \A h \in Heights :
            HasLog(h) \/ h \in recent =>
               \/ \E i \in 1..k : SubSeq(NewestLogs, 1, k)[i] = h
               \/ k = MaxLogs
  BY <1>1, LogsCut
<1> HIDE DEF k
<1>3. /\ logs' \in Seq(Heights) /\ Len(logs') = k /\ k <= MaxLogs
      /\ \A h \in Heights : HasLog(h) \/ h \in recent =>
            (\E i \in 1..k : logs'[i] = h) \/ k = MaxLogs
  BY <1>2 DEF k
<1>4. \A h \in Heights : HasLog(h) \/ h \in recent => HasLog(h)'
  BY <1>3 DEF HasLog
<1>5. \A c, S : IsBehind(c) /\ HasLogs(c, S) /\ S \subseteq recent
                   => \A h \in c.tail["24h"]..c.head["24h"] :
                         c # NoCache /\ HasPayload(Volume, h) =>
                            <<"24h", h>> \in c.missed \/ HasLog(h)'
  <2> SUFFICES ASSUME NEW c, NEW S, IsBehind(c), HasLogs(c, S), S \subseteq recent,
                      NEW h \in c.tail["24h"]..c.head["24h"], c # NoCache,
                      HasPayload(Volume, h), <<"24h", h>> \notin c.missed
               PROVE  HasLog(h)'
    OBVIOUS
  <2>1. HasLog(h) \/ h \in recent
    BY DEF HasLogs
  <2>2. h \in Heights
    <3>1. "24h" \in Timed /\ c \in Cache
      BY DEF IsBehind, Timed
    <3>2. c.tail["24h"] \in Heights /\ c.head["24h"] \in Heights
      BY <3>1, CacheType
    <3> QED
      BY <3>2, WindowConstants DEF Heights
  <2> QED
    BY <1>4, <2>1, <2>2
<1>6. \A h : HasPayload(Volume, h)' <=> HasPayload(Volume, h)
  BY DEF HasPayload
<1>7. HasLogs(cache, {})'
  BY <1>5, <1>6 DEF HasLogs, PairInv
<1>8. HasLogs(next, {})'
  BY <1>5, <1>6 DEF HasLogs, PairInv
<1> QED
  BY <1>3, <1>7, <1>8

LEMMA PairInvStep == WindowInv /\ PairInv /\ [Next]_vars => PairInv'
<1> SUFFICES ASSUME WindowInv, PairInv, [Next]_vars PROVE PairInv'
  OBVIOUS
<1>1. WindowStep /\ WindowTypeOK /\ WindowTypeOK' /\ TypeOK
  BY NextIsWindowStep, WindowTypeStep DEF WindowInv, PairInv
<1>2. \A c : IsBehind(c) => IsBehind(c)' /\ (IsExact(c) => IsExact(c)')
  BY <1>1, CacheStays
<1>3. UNCHANGED logs =>
         \A c, S : IsBehind(c) /\ HasLogs(c, S) => HasLogs(c, S)'
  BY <1>1, LogsStay
<1>4. /\ UNCHANGED cache => IsBehind(cache)' /\ IsExact(cache)'
      /\ UNCHANGED next => IsBehind(next)' /\ IsExact(next)'
  <2>1. IsBehind(cache) /\ IsBehind(next) /\ IsExact(cache) /\ IsExact(next)
    BY DEF PairInv
  <2>2. UNCHANGED cache => IsBehind(cache)'
    BY <1>2, <2>1 DEF IsBehind
  <2>3. UNCHANGED next => IsBehind(next)'
    BY <1>2, <2>1 DEF IsBehind
  <2>4. ASSUME UNCHANGED cache PROVE IsExact(cache)'
    <3>1. \A c : IsBehind(c) /\ IsExact(c) => IsExact(c)'
      BY <1>2
    <3> QED
      BY <2>1, <2>4, <3>1 DEF IsBehind, IsExact
  <2>5. ASSUME UNCHANGED next PROVE IsExact(next)'
    <3>1. \A c : IsBehind(c) /\ IsExact(c) => IsExact(c)'
      BY <1>2
    <3> QED
      BY <2>1, <2>5, <3>1 DEF IsBehind, IsExact
  <2> QED
    BY <2>2, <2>3, <2>4, <2>5
<1>5. next' = NoCache => IsBehind(next)' /\ IsExact(next)'
                         /\ \A S : HasLogs(next, S)'
  BY DEF IsBehind, IsExact, HasLogs
<1>6. /\ UNCHANGED <<cache, logs>> => HasLogs(cache, {})'
      /\ UNCHANGED <<next, logs>> /\ HasLogs(next, {}) => HasLogs(next, {})'
  <2>1. IsBehind(cache) /\ IsBehind(next) /\ HasLogs(cache, {})
    BY DEF PairInv
  <2>2. ASSUME cache' = cache, logs' = logs PROVE HasLogs(cache, {})'
    <3>1. \A c : IsBehind(c) /\ HasLogs(c, {}) => HasLogs(c, {})'
      BY <1>3, <2>2
    <3> QED
      BY <2>1, <2>2, <3>1 DEF HasLogs
  <2>3. ASSUME next' = next, logs' = logs, HasLogs(next, {})
        PROVE  HasLogs(next, {})'
    <3>1. \A c : IsBehind(c) /\ HasLogs(c, {}) => HasLogs(c, {})'
      BY <1>3, <2>3
    <3> QED
      BY <2>1, <2>3, <3>1 DEF HasLogs
  <2> QED
    BY <2>2, <2>3
<1>7. CASE EndCycle /\ UNCHANGED <<cache, logs, daily>>
  <2>1. pc' = "heights" /\ next' = NoCache /\ recent' = {}
    BY <1>7 DEF EndCycle, RestartCycle
  <2>2. TypeOK'
    BY <1>1, <1>7, <2>1 DEF TypeOK, AggregateLabels
  <2> QED
    BY <1>4, <1>5, <1>6, <1>7, <2>1, <2>2 DEF PairInv
<1>8. CASE UNCHANGED vars
  <2>1. UNCHANGED <<cache, logs, daily, next, recent, pc, top, empty, head, tail>>
    BY <1>8 DEF vars, pairVars, windowVars, chainVars, markerVars
  <2>2. TypeOK'
    BY <1>1, <2>1 DEF TypeOK
  <2>3. HasLogs(next, recent)' = HasLogs(next, recent)
        /\ HasLogs(next, {})' = HasLogs(next, {})
    BY <2>1 DEF HasLogs, HasLog, HasPayload
  <2> QED
    BY <1>4, <1>6, <2>1, <2>2, <2>3 DEF PairInv
<1>9. CASE (Index \/ Environment) /\ UNCHANGED pairVars
  <2>1. UNCHANGED <<cache, logs, daily, next, recent>>
    BY <1>9 DEF pairVars
  <2>2. CASE UNCHANGED pc
    <3>1. TypeOK'
      BY <1>1, <2>1, <2>2 DEF TypeOK
    <3>2. pc' = "logs" => HasLogs(next, recent)'
      BY <1>3, <2>1, <2>2 DEF PairInv, HasLogs
    <3>3. pc' \in {"daily", "store"} => HasLogs(next, {})'
      BY <1>3, <2>1, <2>2 DEF PairInv, HasLogs
    <3> QED
      BY <1>4, <1>6, <2>1, <2>2, <3>1, <3>2, <3>3 DEF PairInv
  <2>3. CASE pc \in {"heights", "index"} /\ pc' \in {"heights", "index", "aggregate"}
    <3>1. TypeOK'
      BY <1>1, <2>1, <2>3 DEF TypeOK, AggregateLabels
    <3> QED
      BY <1>4, <1>6, <2>1, <2>3, <3>1 DEF PairInv
  <2> QED
    BY <1>9, <2>2, <2>3
       DEF Index, Environment, Finalize, ReadHeight, SkipIndexing, GiveUpCycle,
           StartIndexing, HeightsRead, RestartCycle, IndexSeries, SetTail, Indexed
<1>10. CASE ProcessDies
  BY <1>7, <1>10 DEF ProcessDies, Crash, EndCycle
<1>11. CASE NoResult
  BY <1>7, <1>11 DEF NoResult
<1>12. CASE Aggregate
  <2>1. /\ next' \in Cache /\ recent' \in SUBSET Heights
        /\ IsBehind(next)' /\ IsExact(next)' /\ HasLogs(next, recent)'
    BY <1>12, AggregateResult
  <2>2. UNCHANGED <<cache, logs, daily>> /\ pc' = "logs"
    BY <1>12 DEF Aggregate
  <2>3. TypeOK'
    BY <1>1, <2>1, <2>2, NoCacheIsNone DEF TypeOK, AggregateLabels
  <2> QED
    BY <1>4, <1>6, <2>1, <2>2, <2>3 DEF PairInv
<1>13. CASE StoreLogs
  <2>1. CASE EndCycle /\ UNCHANGED logs
    BY <1>7, <1>13, <2>1 DEF StoreLogs
  <2>2. CASE /\ logs' = SubSeq(NewestLogs, 1, Least({Len(NewestLogs), MaxLogs}))
             /\ pc' = "daily" /\ UNCHANGED <<next, recent>>
    <3>1. pc = "logs" /\ UNCHANGED <<top, empty, cache, next, recent, daily>>
      BY <1>13, <2>2 DEF StoreLogs, chainVars
    <3>2. /\ logs' \in Seq(Heights) /\ Len(logs') <= MaxLogs
          /\ HasLogs(cache, {})' /\ HasLogs(next, {})'
      BY <2>2, <3>1, StoreLogsInv
    <3>3. TypeOK'
      BY <1>1, <2>2, <3>1, <3>2 DEF TypeOK, AggregateLabels
    <3> QED
      BY <1>4, <2>2, <3>1, <3>2, <3>3 DEF PairInv
  <2> QED
    BY <1>13, <2>1, <2>2 DEF StoreLogs
<1>14. CASE StoreDaily
  <2>1. CASE EndCycle /\ UNCHANGED daily
    BY <1>7, <1>14, <2>1 DEF StoreDaily
  <2>2. CASE /\ daily' = {h \in daily \union {next.head["24h"]} :
                              next.head["24h"] - h <= Day}
             /\ pc' = "store" /\ UNCHANGED <<next, recent>>
    <3>1. pc = "daily" /\ UNCHANGED <<cache, logs>>
      BY <1>14 DEF StoreDaily
    <3>2. next # NoCache /\ next \in Cache
      BY <1>1, <3>1 DEF TypeOK, AggregateLabels
    <3>3. next.head["24h"] \in Heights
      BY <3>2, CacheType DEF Timed
    <3>4. daily' \in SUBSET Heights
      BY <1>1, <2>2, <3>3 DEF TypeOK
    <3>5. TypeOK'
      BY <1>1, <2>2, <3>1, <3>4, <3>2 DEF TypeOK, AggregateLabels
    <3>6. HasLogs(next, {})'
      BY <1>6, <2>2, <3>1 DEF PairInv
    <3> QED
      BY <1>4, <1>6, <2>2, <3>1, <3>5, <3>6 DEF PairInv
  <2> QED
    BY <1>14, <2>1, <2>2 DEF StoreDaily
<1>15. CASE Store
  <2>1. CASE UNCHANGED cache
    BY <1>7, <1>15, <2>1 DEF Store
  <2>2. CASE cache' = next
    <3>1. /\ pc = "store" /\ UNCHANGED <<logs, daily>> /\ pc' = "heights"
          /\ next' = NoCache /\ recent' = {}
      BY <1>15 DEF Store, EndCycle, RestartCycle
    <3>2. IsBehind(cache)' /\ IsExact(cache)'
      BY <1>2, <2>2 DEF PairInv, IsBehind, IsExact
    <3>3. HasLogs(cache, {})'
      BY <1>3, <2>2, <3>1 DEF PairInv, HasLogs
    <3>4. TypeOK'
      BY <1>1, <2>2, <3>1 DEF TypeOK, AggregateLabels
    <3> QED
      BY <1>5, <3>1, <3>2, <3>3, <3>4 DEF PairInv
  <2> QED
    BY <1>15, <2>1, <2>2 DEF Store
<1> QED
  BY <1>8, <1>9, <1>10, <1>11, <1>12, <1>13, <1>14, <1>15 DEF Next, ProcessPair

LEMMA PairInvHolds == Spec => []PairInv
<1>1. Spec => []WindowInv
  BY WindowInvHolds
<1> QED
  BY <1>1, PairInitInv, PairInvStep, PTL DEF Spec

\* The markers, the sums, the logs and the locals of a call keep their types.
THEOREM TypeCorrect == Spec => []TypeOK
<1>1. PairInv => TypeOK
  BY DEF PairInv
<1> QED
  BY <1>1, PairInvHolds, PTL

\* Every readable block of the processed windows is counted once and nothing else
\* is, wherever calls fail, and however often the same blocks are added again.
THEOREM SumsStayExact == Spec => []SumsAreExact
<1>1. PairInv => SumsAreExact
  BY DEF PairInv, SumsAreExact, IsExact
<1> QED
  BY <1>1, PairInvHolds, PTL

\* The recent logs hold the processed 24h window, or as many newer ones as fit.
THEOREM LogsKeepTheWindow == Spec => []LogsKeepWindow
<1>1. PairInv => LogsKeepWindow
  <2> SUFFICES ASSUME PairInv PROVE LogsKeepWindow
    OBVIOUS
  <2>1. DOMAIN logs = 1..Len(logs)
    BY DEF PairInv, TypeOK
  <2> QED
    BY <2>1 DEF PairInv, HasLogs, HasLog, LogsKeepWindow
<1> QED
  BY <1>1, PairInvHolds, PTL
=============================================================================
