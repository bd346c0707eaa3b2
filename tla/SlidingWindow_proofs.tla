------------------------ MODULE SlidingWindow_proofs ------------------------
(***************************************************************************)
(* Lemmas about SlidingWindow, for every set of projects, window, chain      *)
(* length and number of faults; PairAggregation_proofs draws the theorems   *)
(* from them.                                                               *)
(***************************************************************************)
EXTENDS SlidingWindow, IntegerLemmas, FiniteSetTheorems

\* What the indexer, the finalizer and the aggregation after the indexer, which
\* only reads the markers, do to the windows.
AggregationStep ==
    /\ pc \notin {"heights", "index"}
    /\ faults' \in 0..MaxFaults
    /\ RestartCycle \/ (UNCHANGED cycleVars /\ pc' \notin {"heights", "index"})
    /\ UNCHANGED <<chainVars, markerVars>>

WindowStep ==
    Index \/ Environment \/ Crash \/ AggregationStep \/ UNCHANGED windowVars

(***************************************************************************)
(* The inductive invariant                                                  *)
(***************************************************************************)
\* Series are indexed in one phase only.
Phased == pc # "index" => todo = {}

\* What is known of a project does not exceed its chain, and a tail its head.
WithinChain ==
    \A p \in Projects :
        /\ heightMap[p] <= top[p]
        /\ pc = "index" => heightMap[p] >= 1
        /\ \A t \in Periods : head[p][t] <= top[p]
        /\ \A t \in Timed : tail[p][t] <= head[p][t]

\* The height of each project that the markers may rely on: what the cycle has
\* read, or will read at least.
Low == [q \in Projects |->
            IF pc = "heights" /\ heightMap[q] > 0 THEN heightMap[q] ELSE top[q]]

\* The cycle moves the head of p to h or above, if it finds the heights L.
Reached(p, h, L) ==
    \/ h <= 1
    \/ h <= L[p] - AdjustCycles
    \/ \A q \in Projects : Epoch(p, h) <= Epoch(q, L[q])

\* The heads will be moved to where they are or further.
HeadsReached ==
    \A p \in Projects :
        /\ \A t \in Periods : Reached(p, head[p][t], Low)
        /\ pc = "index" =>
              /\ Reached(p, heightMap[p], Low)
              /\ \A t \in Periods : head[p][t] <= heightMap[p]

\* A tail marker at k leaves out no block of the period.
NoneLost(p, t, k) ==
    \A j \in 1..(k - 1) :
        HasPayload(p, j) /\ <<p, t, j>> \notin skipped
            => ~InPeriod(p, t, head[p][t], j)

\* The tail that a series is about to get, when its head is set.
HalfSet ==
    /\ \A s \in half :
          /\ head[s[1]][s[2]] = heightMap[s[1]]
          /\ tail[s[1]][s[2]] <= s[3] /\ s[3] < heightMap[s[1]]
          /\ NoneLost(s[1], s[2], s[3])
    /\ \A s, r \in half : s[1] = r[1] /\ s[2] = r[2] => s = r

WindowInv ==
    /\ WindowTypeOK
    /\ Phased
    /\ WithinChain
    /\ HeadsReached
    /\ HalfSet
    /\ NothingInPeriodIsLost

(***************************************************************************)
(* Operators                                                                *)
(***************************************************************************)
LEMMA WindowSets ==
    /\ Heights \subseteq Nat \ {0} /\ HeightsOrZero = Heights \union {0}
    /\ Timed \subseteq Periods /\ "0" \notin Timed
BY WindowConstants DEF Heights, HeightsOrZero, Timed, Periods

LEMMA EpochType ==
    ASSUME NEW p \in Projects, NEW h \in Heights
    PROVE  Epoch(p, h) \in Nat /\ Epoch(p, h) >= First[p]
BY WindowConstants DEF Epoch, Heights

\* The common epoch is the epoch of some project, and no project is behind it.
LEMMA CommonEpochIsLeast ==
    ASSUME WindowTypeOK, Mapped # {}
    PROVE  /\ \E q \in Mapped : CommonEpoch = Epoch(q, heightMap[q])
           /\ \A q \in Mapped : CommonEpoch <= Epoch(q, heightMap[q])
           /\ CommonEpoch \in Nat
<1> DEFINE E == {Epoch(p, heightMap[p]) : p \in Mapped}
<1>1. \A p \in Mapped : heightMap[p] \in Heights
  BY WindowConstants DEF WindowTypeOK, Mapped, HeightsOrZero, Heights, NoKey
<1>2. E \subseteq Nat /\ E # {}
  BY <1>1, EpochType DEF Mapped
<1>3. \E x \in E : \A y \in E : x <= y
  BY <1>2, NatMinimum
<1>4. CommonEpoch \in E /\ \A y \in E : CommonEpoch <= y
  BY <1>3 DEF CommonEpoch, Least
<1> QED
  BY <1>2, <1>4

LEMMA GreatestOfThree ==
    ASSUME NEW a \in Int, NEW b \in Int, NEW c \in Int
    PROVE  /\ Greatest({a, b, c}) \in {a, b, c}
           /\ Greatest({a, b, c}) >= a
           /\ Greatest({a, b, c}) >= b
           /\ Greatest({a, b, c}) >= c
<1>1. \E x \in {a, b, c} : \A y \in {a, b, c} : x >= y
  <2>1. CASE a >= b /\ a >= c
    BY <2>1
  <2>2. CASE b >= a /\ b >= c
    BY <2>2
  <2>3. CASE c >= a /\ c >= b
    BY <2>3
  <2> QED
    BY <2>1, <2>2, <2>3
<1> QED
  BY <1>1 DEF Greatest

\* Where a head ends up is a height of the chain no higher than the head block,
\* and whatever was in reach of the heights the cycle found is at or below it.
LEMMA AdjustedBounds ==
    ASSUME WindowTypeOK, Mapped = Projects, NEW p \in Projects
    PROVE  /\ Adjusted(p) \in Heights /\ Adjusted(p) <= heightMap[p]
           /\ Reached(p, Adjusted(p), heightMap)
           /\ \A h \in HeightsOrZero :
                 Reached(p, h, heightMap) => h <= Adjusted(p)
<1>1. /\ heightMap[p] \in Heights /\ heightMap[p] \in Int
      /\ 1 <= heightMap[p] /\ heightMap[p] <= MaxHeight
  BY WindowConstants DEF WindowTypeOK, Mapped, HeightsOrZero, Heights, NoKey
<1>2. /\ AdjustCycles \in Nat /\ First[p] \in Nat
  BY WindowConstants
<1>3. /\ \E q \in Projects : CommonEpoch = Epoch(q, heightMap[q])
      /\ \A q \in Projects : CommonEpoch <= Epoch(q, heightMap[q])
      /\ CommonEpoch \in Nat
  BY CommonEpochIsLeast
<1>4. CommonEpoch <= First[p] + heightMap[p] - 1
  BY <1>3 DEF Epoch
<1> DEFINE b == heightMap[p] - AdjustCycles
           c == CommonEpoch - First[p] + 1
<1>5. b \in Int /\ c \in Int /\ b <= heightMap[p] /\ c <= heightMap[p]
  BY <1>1, <1>2, <1>3, <1>4
<1>6. Adjusted(p) = Greatest({1, b, c})
  BY DEF Adjusted
<1> HIDE DEF b, c
<1>7. /\ Adjusted(p) \in {1, b, c}
      /\ Adjusted(p) >= 1 /\ Adjusted(p) >= b /\ Adjusted(p) >= c
  <2> DEFINE g == Greatest({1, b, c})
  <2>1. 1 \in Int
    OBVIOUS
  <2>2. g \in {1, b, c} /\ g >= 1 /\ g >= b /\ g >= c
    BY <1>5, <2>1, GreatestOfThree, Zenon
  <2> QED
    BY <1>6, <2>2
<1>8. Adjusted(p) \in Int /\ Adjusted(p) <= heightMap[p] /\ Adjusted(p) >= 1
  <2>1. Adjusted(p) \in Int
    BY <1>5, <1>7
  <2>2. 1 <= heightMap[p] /\ b <= heightMap[p] /\ c <= heightMap[p]
    BY <1>1, <1>5
  <2>3. Adjusted(p) <= heightMap[p]
    BY <1>7, <2>2
  <2> QED
    BY <1>7, <2>1, <2>3
<1>9. Adjusted(p) \in Heights
  BY <1>1, <1>8, WindowConstants DEF Heights
<1>10. Reached(p, Adjusted(p), heightMap)
  <2>1. CASE Adjusted(p) = 1
    BY <2>1 DEF Reached
  <2>2. CASE Adjusted(p) = b
    BY <2>2, <1>5 DEF Reached, b
  <2>3. CASE Adjusted(p) = c
    BY <2>3, <1>2, <1>3 DEF Reached, Epoch, c
  <2> QED
    BY <1>7, <2>1, <2>2, <2>3
<1>11. ASSUME NEW h \in HeightsOrZero, Reached(p, h, heightMap)
       PROVE  h <= Adjusted(p)
  <2>1. h \in Int
    BY WindowConstants DEF HeightsOrZero
  <2>2. CASE h <= 1
    BY <2>1, <2>2, <1>7, <1>8
  <2>3. CASE h <= heightMap[p] - AdjustCycles
    BY <2>1, <2>3, <1>5, <1>7, <1>8 DEF b
  <2>4. CASE \A q \in Projects : Epoch(p, h) <= Epoch(q, heightMap[q])
    <3>1. Epoch(p, h) <= CommonEpoch
      BY <2>4, <1>3
    <3>2. h <= CommonEpoch - First[p] + 1
      BY <2>1, <3>1, <1>2, <1>3 DEF Epoch
    <3> QED
      BY <2>1, <3>2, <1>5, <1>7, <1>8 DEF c
  <2> QED
    BY <1>11, <2>2, <2>3, <2>4 DEF Reached
<1> QED
  BY <1>8, <1>9, <1>10, <1>11

\* What is in reach stays there when the projects grow.
LEMMA ReachGrows ==
    ASSUME NEW p \in Projects, NEW h \in HeightsOrZero,
           NEW L \in [Projects -> Int], NEW M \in [Projects -> Int],
           \A q \in Projects : L[q] <= M[q],
           Reached(p, h, L)
    PROVE  Reached(p, h, M)
<1>1. CASE h <= 1
  BY <1>1 DEF Reached
<1>2. CASE h <= L[p] - AdjustCycles
  BY <1>2, WindowConstants DEF Reached, HeightsOrZero
<1>3. CASE \A q \in Projects : Epoch(p, h) <= Epoch(q, L[q])
  <2>1. ASSUME NEW q \in Projects PROVE Epoch(p, h) <= Epoch(q, M[q])
    BY <1>3, WindowConstants DEF Epoch, HeightsOrZero
  <2> QED
    BY <2>1 DEF Reached
<1> QED
  BY <1>1, <1>2, <1>3 DEF Reached

\* The search for a tail reads finitely many blocks.
LEMMA PassedIsFinite ==
    ASSUME WindowTypeOK, NEW p \in Projects, NEW t \in Timed, NEW k
    PROVE  Cardinality(PassedFor(p, t, k)) \in Nat
<1>1. heightMap[p] \in Int /\ SearchFrom(p, t) \in Int
  BY WindowConstants, WindowSets
     DEF WindowTypeOK, HeightsOrZero, NoKey, SearchFrom
<1>2. IsFiniteSet(SearchFrom(p, t)..(heightMap[p] - 1))
  BY <1>1, FS_Interval
<1>3. PassedFor(p, t, k) \subseteq SearchFrom(p, t)..(heightMap[p] - 1)
  BY DEF PassedFor, Tails
<1> QED
  BY <1>2, <1>3, FS_Subset, FS_CardinalityType

\* A tail that is found is a height below the head, at or above the old tail.
LEMMA TailBounds ==
    ASSUME WindowTypeOK, WithinChain, NEW p \in Projects, NEW t \in Timed,
           NEW k \in Tails(p, t)
    PROVE  k \in Heights /\ k < heightMap[p] /\ tail[p][t] <= k
<1>1. /\ heightMap[p] \in Int /\ heightMap[p] <= MaxHeight
      /\ tail[p][t] \in Nat /\ head[p][t] \in Nat
  BY WindowConstants, WindowSets DEF WindowTypeOK, HeightsOrZero, NoKey
<1>2. SearchFrom(p, t) \in Nat /\ SearchFrom(p, t) >= 1
  BY <1>1 DEF SearchFrom
<1>3. tail[p][t] <= head[p][t]
  BY DEF WithinChain
<1>4. tail[p][t] <= SearchFrom(p, t)
  BY <1>1, <1>3 DEF SearchFrom
<1>5. k \in Int /\ k >= SearchFrom(p, t) /\ k <= heightMap[p] - 1
  BY <1>1, <1>2 DEF Tails
<1> QED
  BY <1>1, <1>2, <1>4, <1>5, WindowConstants DEF Heights

(***************************************************************************)
(* Types                                                                    *)
(***************************************************************************)
LEMMA WindowInitInv == WindowInit => WindowInv
<1> SUFFICES ASSUME WindowInit PROVE WindowInv
  OBVIOUS
<1>1. MaxHeight \in Nat /\ 0 \in HeightsOrZero /\ 0 \in 0..MaxFaults
  BY WindowConstants DEF HeightsOrZero
<1>2. /\ top \in [Projects -> HeightsOrZero]
      /\ heightMap \in [Projects -> HeightsOrZero \union {NoKey}]
  BY <1>1 DEF WindowInit, NoBlock
<1>3. /\ head \in [Projects -> [Periods -> HeightsOrZero]]
      /\ tail \in [Projects -> [Periods -> HeightsOrZero]]
      /\ \A p \in Projects, t \in Periods : head[p][t] = 0 /\ tail[p][t] = 0
  BY <1>1 DEF WindowInit
<1>4. WindowTypeOK
  BY <1>1, <1>2, <1>3 DEF WindowInit, WindowTypeOK
<1>5. WithinChain
  BY <1>3, WindowSets DEF WindowInit, WithinChain, NoBlock
<1>6. HeadsReached
  BY <1>3 DEF WindowInit, HeadsReached, Reached
<1>7. NothingInPeriodIsLost
  BY <1>3, WindowSets DEF NothingInPeriodIsLost
<1> QED
  BY <1>4, <1>5, <1>6, <1>7 DEF WindowInit, WindowInv, Phased, HalfSet

LEMMA RestartType ==
    ASSUME WindowTypeOK, RestartCycle
    PROVE  /\ heightMap' \in [Projects -> HeightsOrZero \union {NoKey}]
           /\ toRead' \in SUBSET Projects
           /\ todo' = {} /\ half' = {}
BY WindowConstants DEF RestartCycle, NoBlock, HeightsOrZero

LEMMA WindowTypeStep == WindowInv /\ WindowStep => WindowTypeOK'
<1> SUFFICES ASSUME WindowTypeOK, WithinChain, HalfSet, WindowStep PROVE WindowTypeOK'
  BY DEF WindowInv
<1>0. \A label : Fails(label) => faults' \in 0..MaxFaults
  BY WindowConstants DEF Fails, WindowTypeOK
<1>1. CASE UNCHANGED windowVars
  BY <1>1 DEF WindowTypeOK, windowVars, chainVars, markerVars, cycleVars
<1>2. ASSUME NEW p \in Projects, Finalize(p) PROVE WindowTypeOK'
  <2>1. top[p] + 1 \in Heights
    BY <1>2, WindowConstants DEF Finalize, WindowTypeOK, HeightsOrZero, Heights
  <2>2. top' \in [Projects -> HeightsOrZero]
    BY <1>2, <2>1, WindowSets DEF Finalize, WindowTypeOK
  <2>3. empty' \in SUBSET (Projects \X Heights)
    BY <1>2, <2>1 DEF Finalize, WindowTypeOK
  <2> QED
    BY <1>2, <2>2, <2>3 DEF Finalize, WindowTypeOK, markerVars, cycleVars
<1>3. CASE Crash
  BY <1>0, <1>3, RestartType DEF Crash, WindowTypeOK, chainVars, markerVars
<1>4. CASE AggregationStep
  <2>1. CASE RestartCycle
    BY <1>4, <2>1, RestartType
       DEF AggregationStep, WindowTypeOK, chainVars, markerVars
  <2>2. CASE UNCHANGED cycleVars
    BY <1>4, <2>2
       DEF AggregationStep, WindowTypeOK, chainVars, markerVars, cycleVars
  <2> QED
    BY <1>4, <2>1, <2>2 DEF AggregationStep
<1>5. ASSUME NEW p \in Projects, ReadHeight(p) PROVE WindowTypeOK'
  <2>1. /\ top[p] \in HeightsOrZero /\ NoBlock \in HeightsOrZero
    BY WindowConstants DEF WindowTypeOK, NoBlock, HeightsOrZero
  <2>2. heightMap' \in [Projects -> HeightsOrZero \union {NoKey}]
    BY <1>5, <2>1 DEF ReadHeight, WindowTypeOK
  <2>3. faults' \in 0..MaxFaults
    BY <1>0, <1>5 DEF ReadHeight, WindowTypeOK
  <2> QED
    BY <1>5, <2>2, <2>3 DEF ReadHeight, WindowTypeOK, chainVars, markerVars
<1>6. CASE SkipIndexing
  BY <1>0, <1>6 DEF SkipIndexing, WindowTypeOK, chainVars, markerVars, cycleVars
<1>7. CASE GiveUpCycle
  BY <1>7, RestartType DEF GiveUpCycle, WindowTypeOK, chainVars, markerVars
<1>8. CASE StartIndexing
  <2>1. heightMap' \in [Projects -> HeightsOrZero \union {NoKey}]
    BY <1>8, AdjustedBounds, WindowSets DEF StartIndexing
  <2>2. \A s \in half : <<s[1], s[2]>> \in AllSeries
    BY DEF WindowTypeOK
  <2> QED
    BY <1>8, <2>1, <2>2 DEF StartIndexing, WindowTypeOK, chainVars, markerVars
<1>9. ASSUME NEW p \in Projects, NEW t \in Periods, IndexSeries(p, t)
      PROVE  WindowTypeOK'
  <2>1. CASE UNCHANGED <<head, half, skipped>> /\ todo' = todo \ {<<p, t>>}
             /\ faults' \in 0..MaxFaults
    <3>1. \A s \in half : <<s[1], s[2]>> \in todo'
      <4> SUFFICES ASSUME NEW s \in half PROVE <<s[1], s[2]>> \in todo \ {<<p, t>>}
        BY <2>1
      <4>1. <<s[1], s[2]>> \in todo
        BY DEF WindowTypeOK
      <4>2. ~(s[1] = p /\ s[2] = t)
        BY <1>9 DEF IndexSeries, IsHalf
      <4> QED
        BY <4>1, <4>2
    <3> QED
      BY <1>9, <2>1, <3>1 DEF IndexSeries, WindowTypeOK, chainVars
  <2>2. heightMap[p] \in HeightsOrZero \/ pc # "index"
    BY WindowConstants DEF WindowTypeOK, WithinChain, NoKey, HeightsOrZero
  <2>3. CASE SetHead(p, t) /\ UNCHANGED <<half, skipped, faults>>
             /\ todo' = todo \ {<<p, t>>}
    <3>1. head' \in [Projects -> [Periods -> HeightsOrZero]]
      BY <1>9, <2>2, <2>3 DEF IndexSeries, SetHead, WindowTypeOK
    <3>2. \A s \in half : <<s[1], s[2]>> \in todo'
      <4> SUFFICES ASSUME NEW s \in half PROVE <<s[1], s[2]>> \in todo \ {<<p, t>>}
        BY <2>3
      <4>1. <<s[1], s[2]>> \in todo
        BY DEF WindowTypeOK
      <4>2. ~(s[1] = p /\ s[2] = t)
        BY <1>9 DEF IndexSeries, IsHalf
      <4> QED
        BY <4>1, <4>2
    <3> QED
      BY <1>9, <2>3, <3>1, <3>2 DEF IndexSeries, WindowTypeOK, chainVars
  <2>4. ASSUME t \in Timed, NEW k \in Tails(p, t),
               faults' = faults + Cardinality(PassedFor(p, t, k)),
               faults' <= MaxFaults,
               half' = half \union {<<p, t, k>>},
               skipped' = skipped \union {<<p, t, j>> : j \in PassedFor(p, t, k)},
               SetHead(p, t), UNCHANGED todo
        PROVE  WindowTypeOK'
    <3>1. head' \in [Projects -> [Periods -> HeightsOrZero]]
      BY <1>9, <2>2, <2>4 DEF IndexSeries, SetHead, WindowTypeOK
    <3>2. faults' \in 0..MaxFaults
      BY <2>4, PassedIsFinite, WindowConstants DEF WindowTypeOK
    <3>3. \A j \in Tails(p, t) : j \in Heights
      BY <2>4, TailBounds
    <3>4. skipped' \in SUBSET (Projects \X Timed \X Heights)
      BY <2>4, <3>3 DEF WindowTypeOK, PassedFor
    <3>5. half' \in SUBSET (Projects \X Timed \X Heights)
      BY <2>4, <3>3 DEF WindowTypeOK
    <3>6. \A s \in half' : <<s[1], s[2]>> \in todo'
      <4>1. <<p, t>> \in todo' /\ todo' = todo
        BY <1>9, <2>4 DEF IndexSeries
      <4>2. \A s \in half' : s \in half \/ (s[1] = p /\ s[2] = t)
        BY <2>4
      <4> QED
        BY <4>1, <4>2 DEF WindowTypeOK
    <3> QED
      BY <1>9, <2>4, <3>1, <3>2, <3>4, <3>5, <3>6
         DEF IndexSeries, WindowTypeOK, chainVars
  <2> QED
    BY <1>0, <1>9, <2>1, <2>3, <2>4 DEF IndexSeries, WindowTypeOK
<1>10. ASSUME NEW p \in Projects, NEW t \in Timed, NEW k \in Heights,
              SetTail(p, t, k)
       PROVE  WindowTypeOK'
  <2>1. k \in HeightsOrZero /\ t \in Periods
    BY WindowSets
  <2>2. tail' \in [Projects -> [Periods -> HeightsOrZero]]
    <3>1. CASE tail' = [tail EXCEPT ![p][t] = k]
      BY <2>1, <3>1 DEF WindowTypeOK
    <3>2. CASE tail' = tail
      BY <3>2 DEF WindowTypeOK
    <3> QED
      BY <1>10, <3>1, <3>2 DEF SetTail
  <2>3. ASSUME NEW s \in half' PROVE <<s[1], s[2]>> \in todo'
    <3>1. s \in half /\ s # <<p, t, k>> /\ <<p, t, k>> \in half
      BY <1>10, <2>3 DEF SetTail
    <3>2. ~(s[1] = p /\ s[2] = t)
      BY <3>1 DEF HalfSet
    <3> QED
      BY <1>10, <3>1, <3>2 DEF SetTail, WindowTypeOK
  <2>4. faults' \in 0..MaxFaults
    BY <1>0, <1>10 DEF SetTail, WindowTypeOK
  <2> QED
    BY <1>10, <2>2, <2>3, <2>4 DEF SetTail, WindowTypeOK, chainVars
<1>11. CASE Indexed
  BY <1>11 DEF Indexed, WindowTypeOK, chainVars, markerVars, cycleVars
<1> QED
  BY <1>1, <1>2, <1>3, <1>4, <1>5, <1>6, <1>7, <1>8, <1>9, <1>10, <1>11
     DEF WindowStep, Index, Environment

(***************************************************************************)
(* The steps preserve the invariant                                         *)
(***************************************************************************)
LEMMA PhasedStep == WindowInv /\ WindowStep => Phased'
<1> SUFFICES ASSUME WindowTypeOK, Phased, WindowStep, pc' # "index" PROVE todo' = {}
  BY DEF WindowInv, Phased
<1>1. CASE UNCHANGED windowVars
  BY <1>1 DEF Phased, windowVars, cycleVars
<1>2. ASSUME NEW p \in Projects, Finalize(p) PROVE todo' = {}
  BY <1>2 DEF Finalize, Phased, cycleVars
<1>3. CASE Crash \/ AggregationStep
  BY <1>3 DEF Crash, AggregationStep, RestartCycle, Phased, cycleVars
<1>4. ASSUME NEW p \in Projects, ReadHeight(p) PROVE todo' = {}
  BY <1>4 DEF ReadHeight, Phased
<1>5. CASE SkipIndexing \/ GiveUpCycle \/ StartIndexing \/ Indexed
  BY <1>5
     DEF SkipIndexing, GiveUpCycle, StartIndexing, Indexed, HeightsRead,
         RestartCycle, Phased, cycleVars
<1>6. ASSUME NEW p \in Projects, NEW t \in Periods, IndexSeries(p, t)
      PROVE  todo' = {}
  BY <1>6 DEF IndexSeries
<1>7. ASSUME NEW p \in Projects, NEW t \in Timed, NEW k \in Heights, SetTail(p, t, k)
      PROVE  todo' = {}
  BY <1>7 DEF SetTail
<1> QED
  BY <1>1, <1>2, <1>3, <1>4, <1>5, <1>6, <1>7 DEF WindowStep, Index, Environment

\* What a step does to the chains: a block is added, and never changes.
LEMMA ChainGrows ==
    ASSUME WindowTypeOK, WindowStep
    PROVE  \A p \in Projects :
              /\ top[p] <= top'[p]
              /\ \A j \in 1..top[p] : HasPayload(p, j)' <=> HasPayload(p, j)
<1> SUFFICES ASSUME NEW p \in Projects
             PROVE  /\ top[p] <= top'[p]
                    /\ \A j \in 1..top[p] : HasPayload(p, j)' <=> HasPayload(p, j)
  OBVIOUS
<1>1. top[p] \in Int
  BY WindowConstants DEF WindowTypeOK, HeightsOrZero
<1>2. CASE UNCHANGED chainVars
  BY <1>1, <1>2 DEF chainVars, HasPayload
<1>3. ASSUME NEW q \in Projects, Finalize(q)
      PROVE  /\ top[p] <= top'[p]
             /\ \A j \in 1..top[p] : HasPayload(p, j)' <=> HasPayload(p, j)
  <2>1. top'[p] = IF p = q THEN top[p] + 1 ELSE top[p]
    BY <1>3 DEF Finalize, WindowTypeOK
  <2>2. empty' \subseteq empty \union {<<q, top[q] + 1>>} /\ empty \subseteq empty'
    BY <1>3 DEF Finalize
  <2>3. ASSUME NEW j \in 1..top[p]
        PROVE  HasPayload(p, j)' <=> HasPayload(p, j)
    <3>1. j \in Int /\ j <= top[p] /\ j \in 1..top'[p]
      BY <1>1, <2>1
    <3>2. <<p, j>> # <<q, top[q] + 1>>
      BY <1>1, <3>1
    <3>3. <<p, j>> \in empty' <=> <<p, j>> \in empty
      BY <2>2, <3>2
    <3> QED
      BY <3>1, <3>3 DEF HasPayload
  <2> QED
    BY <1>1, <2>1, <2>3
<1> QED
  BY <1>2, <1>3
     DEF WindowStep, Index, Environment, Crash, AggregationStep, ReadHeight,
         SkipIndexing, GiveUpCycle, StartIndexing, IndexSeries, SetTail, Indexed,
         windowVars

\* What the indexing may rely on only grows.
LEMMA LowGrows ==
    ASSUME WindowInv, WindowStep, WindowTypeOK'
    PROVE  /\ Low \in [Projects -> Int] /\ Low' \in [Projects -> Int]
           /\ \A q \in Projects : Low[q] <= Low'[q]
<1>0. WindowTypeOK /\ WithinChain
  BY DEF WindowInv
<1>1. HeightsOrZero \subseteq Int /\ NoKey \in Int
  BY WindowConstants DEF HeightsOrZero, NoKey
<1>2. Low \in [Projects -> Int]
  BY <1>0, <1>1 DEF Low, WindowTypeOK
<1>3. Low' \in [Projects -> Int]
  BY <1>1 DEF Low, WindowTypeOK
<1>4. ASSUME NEW q \in Projects PROVE Low[q] <= Low'[q]
  <2>0. /\ Low[q] = IF pc = "heights" /\ heightMap[q] > 0
                    THEN heightMap[q] ELSE top[q]
        /\ Low'[q] = IF pc' = "heights" /\ heightMap'[q] > 0
                     THEN heightMap'[q] ELSE top'[q]
    BY DEF Low
  <2>1. /\ top[q] \in Int /\ top'[q] \in Int /\ heightMap[q] \in Int
        /\ heightMap'[q] \in Int /\ top[q] <= top'[q] /\ heightMap[q] <= top[q]
    BY <1>0, <1>1, ChainGrows DEF WithinChain, WindowTypeOK
  <2>2. CASE Low'[q] = top'[q]
    BY <2>0, <2>1, <2>2
  <2>3. CASE pc' = "heights" /\ heightMap'[q] > 0
    <3>1. ~ RestartCycle
      BY <2>3 DEF RestartCycle, NoBlock
    <3>2. CASE UNCHANGED <<pc, heightMap>>
      BY <2>0, <2>1, <2>3, <3>2
    <3>3. ASSUME NEW p \in Projects, ReadHeight(p)
          PROVE  Low[q] <= Low'[q]
      <4>1. CASE heightMap'[q] = heightMap[q]
        BY <2>0, <2>1, <2>3, <3>3, <4>1 DEF ReadHeight
      <4>2. CASE heightMap'[q] # heightMap[q]
        <5>1. heightMap'[q] = top[q]
          BY <1>0, <2>3, <3>3, <4>2
             DEF ReadHeight, WindowTypeOK, NoBlock, NoKey
        <5> QED
          BY <2>0, <2>1, <2>3, <5>1
      <4> QED
        BY <4>1, <4>2
    <3> QED
      BY <2>3, <3>1, <3>2, <3>3
         DEF WindowStep, Index, Environment, Crash, AggregationStep, Finalize,
             SkipIndexing, GiveUpCycle, StartIndexing, IndexSeries, SetTail,
             Indexed, windowVars, cycleVars
  <2> QED
    BY <2>0, <2>2, <2>3
<1> QED
  BY <1>2, <1>3, <1>4

\* A marker never goes back.
LEMMA MarkersGrow ==
    ASSUME WindowInv, WindowStep
    PROVE  \A p \in Projects, t \in Periods :
              /\ head[p][t] <= head'[p][t]
              /\ tail[p][t] <= tail'[p][t]
<1>0. WindowTypeOK /\ HeadsReached /\ HalfSet
  BY DEF WindowInv
<1> SUFFICES ASSUME NEW p \in Projects, NEW t \in Periods
             PROVE  head[p][t] <= head'[p][t] /\ tail[p][t] <= tail'[p][t]
  OBVIOUS
<1>1. head[p][t] \in Int /\ tail[p][t] \in Int
  BY <1>0, WindowConstants DEF WindowTypeOK, HeightsOrZero
<1>2. CASE UNCHANGED markerVars
  BY <1>1, <1>2 DEF markerVars
<1>3. ASSUME NEW q \in Projects, NEW u \in Periods, IndexSeries(q, u)
      PROVE  head[p][t] <= head'[p][t] /\ tail[p][t] <= tail'[p][t]
  <2>1. head[q][u] <= heightMap[q]
    BY <1>0, <1>3 DEF IndexSeries, HeadsReached
  <2>2. head'[p][t] = head[p][t] \/ (head'[p][t] = heightMap[q] /\ p = q /\ t = u)
    BY <1>0, <1>3 DEF IndexSeries, SetHead, WindowTypeOK
  <2> QED
    BY <1>1, <1>3, <2>1, <2>2 DEF IndexSeries
<1>4. ASSUME NEW q \in Projects, NEW u \in Timed, NEW k \in Heights, SetTail(q, u, k)
      PROVE  head[p][t] <= head'[p][t] /\ tail[p][t] <= tail'[p][t]
  <2>1. tail[q][u] <= k
    BY <1>0, <1>4 DEF SetTail, HalfSet
  <2>2. tail'[p][t] = tail[p][t] \/ (tail'[p][t] = k /\ p = q /\ t = u)
    BY <1>0, <1>4 DEF SetTail, WindowTypeOK
  <2> QED
    BY <1>1, <1>4, <2>1, <2>2 DEF SetTail
<1> QED
  BY <1>2, <1>3, <1>4
     DEF WindowStep, Index, Environment, Crash, AggregationStep, Finalize,
         ReadHeight, SkipIndexing, GiveUpCycle, StartIndexing, Indexed, windowVars

LEMMA WithinChainStep ==
    ASSUME WindowInv, WindowStep, WindowTypeOK'
    PROVE  WithinChain'
<1>0. WindowTypeOK /\ WithinChain /\ HalfSet
  BY DEF WindowInv
<1>1. HeightsOrZero \subseteq Int /\ NoKey \in Int /\ 0 \in Int
  BY WindowConstants DEF HeightsOrZero, NoKey
<1> SUFFICES ASSUME NEW p \in Projects
             PROVE  /\ heightMap'[p] <= top'[p]
                    /\ pc' = "index" => heightMap'[p] >= 1
                    /\ \A t \in Periods : head'[p][t] <= top'[p]
                    /\ \A t \in Timed : tail'[p][t] <= head'[p][t]
  BY DEF WithinChain
<1>2. /\ top[p] \in Int /\ top'[p] \in Int /\ heightMap[p] \in Int
      /\ heightMap'[p] \in Int /\ top[p] <= top'[p] /\ heightMap[p] <= top[p]
      /\ top[p] >= 0
  BY <1>0, <1>1, ChainGrows, WindowConstants
     DEF WithinChain, WindowTypeOK, HeightsOrZero
<1>3. /\ heightMap'[p] <= top'[p]
      /\ pc' = "index" => heightMap'[p] >= 1
  <2>1. CASE RestartCycle
    BY <1>2, <2>1 DEF RestartCycle, NoBlock
  <2>2. CASE UNCHANGED heightMap /\ (pc' = "index" => pc = "index")
    BY <1>0, <1>2, <2>2 DEF WithinChain
  <2>3. ASSUME NEW q \in Projects, ReadHeight(q)
        PROVE  heightMap'[p] <= top'[p] /\ pc' # "index"
    <3>1. heightMap'[p] \in {heightMap[p], top[p], 0, -1}
      BY <1>0, <2>3 DEF ReadHeight, WindowTypeOK, NoBlock, NoKey
    <3> QED
      BY <1>2, <2>3, <3>1 DEF ReadHeight
  <2>4. CASE StartIndexing
    <3>1. Adjusted(p) \in Heights /\ Adjusted(p) <= heightMap[p]
      BY <1>0, <2>4, AdjustedBounds DEF StartIndexing
    <3> QED
      BY <1>2, <2>4, <3>1 DEF StartIndexing, Heights
  <2> QED
    BY <2>1, <2>2, <2>3, <2>4
       DEF WindowStep, Index, Environment, Crash, AggregationStep, Finalize,
           SkipIndexing, GiveUpCycle, IndexSeries, SetTail, Indexed, windowVars,
           cycleVars
<1>4. ASSUME NEW t \in Periods
      PROVE  head'[p][t] <= top'[p]
  <2>1. head[p][t] <= top[p] /\ head[p][t] \in Int
    BY <1>0, <1>1 DEF WithinChain, WindowTypeOK
  <2>2. CASE head'[p][t] = head[p][t]
    BY <1>2, <2>1, <2>2
  <2>3. ASSUME NEW q \in Projects, NEW u \in Periods, IndexSeries(q, u),
               head'[p][t] # head[p][t]
        PROVE  head'[p][t] <= top'[p]
    <3>1. head'[p][t] = heightMap[p]
      BY <1>0, <2>3 DEF IndexSeries, SetHead, WindowTypeOK
    <3> QED
      BY <1>2, <3>1
  <2> QED
    BY <2>2, <2>3
       DEF WindowStep, Index, Environment, Crash, AggregationStep, Finalize,
           ReadHeight, SkipIndexing, GiveUpCycle, StartIndexing, SetTail,
           Indexed, windowVars, markerVars
<1>5. ASSUME NEW t \in Timed
      PROVE  tail'[p][t] <= head'[p][t]
  <2>1. /\ t \in Periods /\ tail[p][t] \in Int /\ head[p][t] \in Int
        /\ tail[p][t] <= head[p][t]
    <3>1. t \in Periods
      BY WindowSets
    <3>2. tail[p][t] \in Int /\ head[p][t] \in Int
      BY <1>0, <1>1, <3>1 DEF WindowTypeOK
    <3> QED
      BY <1>0, <3>1, <3>2 DEF WithinChain
  <2>2. head'[p][t] \in Int /\ head[p][t] <= head'[p][t]
    BY <1>1, <2>1, MarkersGrow DEF WindowTypeOK
  <2>3. CASE tail'[p][t] = tail[p][t]
    BY <2>1, <2>2, <2>3
  <2>4. ASSUME NEW q \in Projects, NEW u \in Timed, NEW k \in Heights,
               SetTail(q, u, k), tail'[p][t] # tail[p][t]
        PROVE  tail'[p][t] <= head'[p][t]
    <3>1. tail'[p][t] = k /\ p = q /\ t = u
      BY <1>0, <2>1, <2>4, WindowSets DEF SetTail, WindowTypeOK
    <3>2. <<p, t, k>> \in half
      BY <2>4, <3>1 DEF SetTail
    <3>3. head[p][t] = heightMap[p] /\ k < heightMap[p]
      BY <1>0, <3>2 DEF HalfSet
    <3>4. k \in Int
      BY WindowConstants DEF Heights
    <3> QED
      BY <1>2, <2>1, <2>2, <3>1, <3>3, <3>4
  <2> QED
    BY <2>3, <2>4
       DEF WindowStep, Index, Environment, Crash, AggregationStep, Finalize,
           ReadHeight, SkipIndexing, GiveUpCycle, StartIndexing, IndexSeries,
           Indexed, windowVars, markerVars
<1> QED
  BY <1>3, <1>4, <1>5

LEMMA HeadsReachedStep ==
    ASSUME WindowInv, WindowStep, WindowTypeOK'
    PROVE  HeadsReached'
<1>0. WindowTypeOK /\ HeadsReached
  BY DEF WindowInv
<1>1. /\ Low \in [Projects -> Int] /\ Low' \in [Projects -> Int]
      /\ \A q \in Projects : Low[q] <= Low'[q]
  BY LowGrows
<1>2. \A p \in Projects, h \in HeightsOrZero :
         Reached(p, h, Low) => Reached(p, h, Low')
  BY <1>1, ReachGrows
<1>3. \A p \in Projects, t \in Periods :
         head[p][t] \in HeightsOrZero /\ Reached(p, head[p][t], Low')
  BY <1>0, <1>2 DEF HeadsReached, WindowTypeOK
<1>4. ASSUME pc = "index", NEW p \in Projects
      PROVE  /\ heightMap[p] \in HeightsOrZero
             /\ Reached(p, heightMap[p], Low')
             /\ \A t \in Periods : head[p][t] <= heightMap[p]
  <2>1. heightMap[p] \in HeightsOrZero
    BY <1>0, <1>4, WindowConstants
       DEF WindowInv, WithinChain, WindowTypeOK, NoKey, HeightsOrZero
  <2> QED
    BY <1>0, <1>2, <1>4, <2>1 DEF HeadsReached
<1>5. CASE UNCHANGED head /\ (pc' = "index" => pc = "index" /\ UNCHANGED heightMap)
  BY <1>3, <1>4, <1>5 DEF HeadsReached
<1>6. CASE StartIndexing
  <2>1. WindowTypeOK /\ Mapped = Projects
    BY <1>0, <1>6 DEF StartIndexing
  <2>2. ASSUME NEW p \in Projects
        PROVE  /\ Reached(p, Adjusted(p), Low')
               /\ \A t \in Periods : head[p][t] <= Adjusted(p)
    <3>1. \A q \in Projects : Low[q] = heightMap[q]
      BY <1>6, <2>1 DEF Low, Mapped, StartIndexing, HeightsRead
    <3>2. \A h : Reached(p, h, Low) <=> Reached(p, h, heightMap)
      BY <3>1 DEF Reached
    <3>3. Adjusted(p) \in HeightsOrZero /\ Reached(p, Adjusted(p), Low)
      BY <2>1, <3>2, AdjustedBounds, WindowSets
    <3>4. \A t \in Periods : Reached(p, head[p][t], heightMap)
      BY <1>0, <3>2 DEF HeadsReached
    <3> QED
      BY <1>2, <1>3, <2>1, <3>3, <3>4, AdjustedBounds
  <2>3. /\ UNCHANGED head
        /\ \A p \in Projects : heightMap'[p] = Adjusted(p)
    BY <1>6 DEF StartIndexing, markerVars
  <2> QED
    BY <1>3, <2>2, <2>3 DEF HeadsReached
<1>7. ASSUME NEW q \in Projects, NEW u \in Periods, IndexSeries(q, u)
      PROVE  HeadsReached'
  <2>1. pc = "index" /\ UNCHANGED <<pc, heightMap>>
    BY <1>7 DEF IndexSeries
  <2>2. \A p \in Projects, t \in Periods :
           head'[p][t] = head[p][t] \/ head'[p][t] = heightMap[p]
    BY <1>0, <1>7 DEF IndexSeries, SetHead, WindowTypeOK
  <2>3. \A p \in Projects : heightMap[p] <= heightMap[p]
    <3>1. HeightsOrZero \union {NoKey} \subseteq Int
      BY WindowConstants DEF HeightsOrZero, NoKey
    <3>2. \A p \in Projects : heightMap[p] \in Int
      BY <1>0, <3>1 DEF WindowTypeOK
    <3> QED
      BY <3>2
  <2> QED
    BY <1>3, <1>4, <2>1, <2>2, <2>3 DEF HeadsReached
<1> QED
  BY <1>5, <1>6, <1>7
     DEF WindowStep, Index, Environment, Crash, AggregationStep, RestartCycle,
         Finalize, ReadHeight, SkipIndexing, GiveUpCycle, SetTail, Indexed,
         windowVars, markerVars, cycleVars

\* Blocks that a tail marker leaves out stay out of the period.
LEMMA NoneLostStays ==
    ASSUME WindowInv, WindowStep, WindowTypeOK',
           NEW p \in Projects, NEW t \in Timed, NEW k \in Int,
           k <= top[p] + 1, NoneLost(p, t, k)
    PROVE  NoneLost(p, t, k)'
<1>0. WindowTypeOK
  BY DEF WindowInv
<1> SUFFICES ASSUME NEW j \in 1..(k - 1),
                    HasPayload(p, j)', <<p, t, j>> \notin skipped'
             PROVE  ~InPeriod(p, t, head'[p][t], j)
  BY DEF NoneLost, InPeriod, Epoch
<1>1. top[p] \in Int /\ t \in Periods
  BY <1>0, WindowSets, WindowConstants DEF WindowTypeOK, HeightsOrZero
<1>2. j \in 1..top[p]
  BY <1>1
<1>3. HasPayload(p, j)
  BY <1>0, <1>2, ChainGrows
<1>4. skipped \subseteq skipped'
  BY DEF WindowStep, Index, Environment, Crash, AggregationStep, Finalize,
         ReadHeight, SkipIndexing, GiveUpCycle, StartIndexing, IndexSeries,
         SetTail, Indexed, windowVars, markerVars
<1>5. ~InPeriod(p, t, head[p][t], j)
  BY <1>3, <1>4 DEF NoneLost
<1>6. /\ head[p][t] \in Int /\ head'[p][t] \in Int /\ head[p][t] <= head'[p][t]
      /\ First[p] \in Int /\ Span(t) \in Int
  BY <1>0, <1>1, MarkersGrow, WindowConstants
     DEF WindowTypeOK, HeightsOrZero, Span
<1> QED
  BY <1>5, <1>6 DEF InPeriod, Epoch

LEMMA HalfSetStep ==
    ASSUME WindowInv, WindowStep, WindowTypeOK'
    PROVE  HalfSet'
<1>0. WindowTypeOK /\ WithinChain /\ HalfSet /\ NothingInPeriodIsLost
  BY DEF WindowInv
<1>1. ASSUME NEW s \in half
      PROVE  /\ s[1] \in Projects /\ s[2] \in Timed /\ s[2] \in Periods
             /\ s[3] \in Int /\ s[3] <= top[s[1]] + 1
  <2>1. /\ s[1] \in Projects /\ s[2] \in Timed /\ s[3] \in Heights
        /\ s[3] < heightMap[s[1]]
    BY <1>0 DEF WindowTypeOK, HalfSet
  <2>2. /\ heightMap[s[1]] <= top[s[1]]
        /\ heightMap[s[1]] \in Int /\ top[s[1]] \in Int
    BY <1>0, <2>1, WindowConstants
       DEF WithinChain, WindowTypeOK, HeightsOrZero, NoKey
  <2>3. s[3] \in Int /\ s[2] \in Periods
    <3>1. Heights \subseteq Int /\ Timed \subseteq Periods
      BY WindowSets
    <3> QED
      BY <2>1, <3>1
  <2>4. s[3] <= top[s[1]] + 1
    BY <2>1, <2>2, <2>3
  <2> QED
    BY <2>1, <2>3, <2>4
<1>2. ASSUME NEW s \in half PROVE NoneLost(s[1], s[2], s[3])'
  BY <1>0, <1>1, NoneLostStays DEF HalfSet
<1>3. CASE half' \subseteq half /\ UNCHANGED <<head, heightMap>>
           /\ \A s \in half' : tail'[s[1]][s[2]] = tail[s[1]][s[2]]
  BY <1>0, <1>2, <1>3 DEF HalfSet
<1>4. CASE half' = {}
  BY <1>4 DEF HalfSet
<1>5. ASSUME NEW p \in Projects, NEW t \in Periods, IndexSeries(p, t)
      PROVE  HalfSet'
  <2>1. ASSUME NEW s \in half
        PROVE  ~(s[1] = p /\ s[2] = t)
    BY <1>5 DEF IndexSeries, IsHalf
  <2>2. ASSUME NEW s \in half
        PROVE  /\ head'[s[1]][s[2]] = heightMap'[s[1]]
               /\ tail'[s[1]][s[2]] <= s[3] /\ s[3] < heightMap'[s[1]]
    <3>1. /\ head'[s[1]][s[2]] = head[s[1]][s[2]]
          /\ UNCHANGED <<tail, heightMap>>
      BY <1>0, <1>1, <1>5, <2>1 DEF IndexSeries, SetHead, WindowTypeOK
    <3> QED
      BY <1>0, <3>1 DEF HalfSet
  <2>3. CASE UNCHANGED half
    BY <1>0, <1>2, <2>2, <2>3 DEF HalfSet
  <2>4. ASSUME t \in Timed, NEW k \in Tails(p, t),
               half' = half \union {<<p, t, k>>},
               skipped' = skipped \union {<<p, t, j>> : j \in PassedFor(p, t, k)},
               SetHead(p, t)
        PROVE  HalfSet'
    <3>1. k \in Heights /\ k < heightMap[p] /\ tail[p][t] <= k
      BY <1>0, <2>4, TailBounds
    <3>2. UNCHANGED <<tail, heightMap, top, empty>> /\ head'[p][t] = heightMap[p]
      BY <1>0, <1>5, <2>4 DEF IndexSeries, SetHead, WindowTypeOK, chainVars
    <3>3. NoneLost(p, t, k)'
      <4> SUFFICES ASSUME NEW j \in 1..(k - 1), HasPayload(p, j),
                          <<p, t, j>> \notin skipped'
                   PROVE  ~InPeriod(p, t, heightMap[p], j)
        BY <3>2 DEF NoneLost, InPeriod, Epoch, HasPayload
      <4>1. /\ k \in Int /\ j \in Int /\ 1 <= j /\ j < k
            /\ heightMap[p] \in Int /\ tail[p][t] \in Int /\ tail[p][t] >= 0
            /\ head[p][t] \in Int
        BY <1>0, <3>1, WindowConstants
           DEF Heights, WindowTypeOK, HeightsOrZero, NoKey
      <4>2. CASE j < SearchFrom(p, t)
        <5>1. j \in 1..(tail[p][t] - 1)
          BY <4>1, <4>2 DEF SearchFrom
        <5>2. <<p, t, j>> \notin skipped
          BY <2>4
        <5>3. ~InPeriod(p, t, head[p][t], j)
          BY <1>0, <2>4, <5>1, <5>2 DEF NothingInPeriodIsLost
        <5>4. /\ head[p][t] <= heightMap[p]
              /\ First[p] \in Int /\ Span(t) \in Int
          BY <3>2, MarkersGrow, WindowConstants DEF Span
        <5> QED
          BY <4>1, <5>3, <5>4 DEF InPeriod, Epoch
      <4>3. CASE ~(j < SearchFrom(p, t))
        <5>1. SearchFrom(p, t) \in Int
          BY <4>1 DEF SearchFrom
        <5>2. j \in SearchFrom(p, t)..(heightMap[p] - 1)
          BY <3>1, <4>1, <4>3, <5>1
        <5>3. j \notin PassedFor(p, t, k)
          BY <2>4
        <5> QED
          BY <4>1, <5>2, <5>3 DEF PassedFor, Tails
      <4> QED
        BY <4>2, <4>3
    <3>4. \A s \in half' : s \in half \/ s = <<p, t, k>>
      BY <2>4
    <3>5. \A s, r \in half' : s[1] = r[1] /\ s[2] = r[2] => s = r
      BY <1>0, <2>1, <3>4 DEF HalfSet
    <3>6. /\ head'[p][t] = heightMap'[p] /\ tail'[p][t] <= k /\ k < heightMap'[p]
      BY <3>1, <3>2
    <3>7. \A s \in half' :
             /\ head'[s[1]][s[2]] = heightMap'[s[1]]
             /\ tail'[s[1]][s[2]] <= s[3] /\ s[3] < heightMap'[s[1]]
             /\ NoneLost(s[1], s[2], s[3])'
      BY <1>2, <2>2, <3>3, <3>4, <3>6
    <3> QED
      BY <3>5, <3>7 DEF HalfSet
  <2> QED
    BY <1>5, <2>3, <2>4 DEF IndexSeries
<1>6. ASSUME NEW p \in Projects, NEW t \in Timed, NEW k \in Heights, SetTail(p, t, k)
      PROVE  HalfSet'
  <2>1. /\ half' \subseteq half /\ UNCHANGED <<head, heightMap>>
        /\ <<p, t, k>> \in half /\ <<p, t, k>> \notin half'
    BY <1>6 DEF SetTail
  <2>2. ASSUME NEW s \in half'
        PROVE  tail'[s[1]][s[2]] = tail[s[1]][s[2]]
    <3>1. s \in half /\ ~(s[1] = p /\ s[2] = t)
      BY <1>0, <2>1 DEF HalfSet
    <3> QED
      BY <1>0, <1>1, <1>6, <3>1 DEF SetTail, WindowTypeOK
  <2> QED
    BY <1>3, <2>1, <2>2
<1>7. CASE StartIndexing
  <2>1. half = {}
    BY <1>0, <1>7 DEF WindowInv, Phased, WindowTypeOK, StartIndexing, HeightsRead
  <2> QED
    BY <1>4, <1>7, <2>1 DEF StartIndexing
<1>8. ASSUME NEW p \in Projects, ReadHeight(p) PROVE HalfSet'
  <2>1. half = {}
    BY <1>0, <1>8 DEF WindowInv, Phased, WindowTypeOK, ReadHeight
  <2> QED
    BY <1>4, <1>8, <2>1 DEF ReadHeight
<1> QED
  BY <1>3, <1>4, <1>5, <1>6, <1>7, <1>8
     DEF WindowStep, Index, Environment, Crash, AggregationStep, RestartCycle,
         Finalize, SkipIndexing, GiveUpCycle, Indexed, windowVars, markerVars,
         cycleVars

LEMMA NothingLostStep ==
    ASSUME WindowInv, WindowStep, WindowTypeOK'
    PROVE  NothingInPeriodIsLost'
<1>0. WindowTypeOK /\ WithinChain /\ HalfSet /\ NothingInPeriodIsLost
  BY DEF WindowInv
<1> SUFFICES ASSUME NEW p \in Projects, NEW t \in Timed
             PROVE  NoneLost(p, t, tail[p][t])'
  BY DEF NothingInPeriodIsLost, NoneLost
<1>1. /\ t \in Periods /\ tail[p][t] \in Int /\ top[p] \in Int
      /\ tail[p][t] <= top[p]
  <2>1. HeightsOrZero \subseteq Int /\ t \in Periods
    BY WindowSets, WindowConstants DEF HeightsOrZero
  <2> QED
    <3>1. /\ tail[p][t] \in Int /\ head[p][t] \in Int /\ top[p] \in Int
      BY <1>0, <2>1 DEF WindowTypeOK
    <3>2. tail[p][t] <= head[p][t] /\ head[p][t] <= top[p]
      BY <1>0, <2>1 DEF WithinChain
    <3> QED
      BY <2>1, <3>1, <3>2
<1>2. NoneLost(p, t, tail[p][t])
  BY <1>0 DEF NothingInPeriodIsLost, NoneLost
<1>3. CASE tail'[p][t] = tail[p][t]
  <2> DEFINE k == tail[p][t]
  <2>1. k \in Int /\ k <= top[p] + 1 /\ NoneLost(p, t, k)
    BY <1>1, <1>2
  <2>2. \A j \in 1..(tail[p][t] - 1) :
           HasPayload(p, j)' /\ <<p, t, j>> \notin skipped'
               => ~InPeriod(p, t, head[p][t], j)'
    <3>1. \A m \in Int : m <= top[p] + 1 /\ NoneLost(p, t, m) =>
             \A j \in 1..(m - 1) :
                HasPayload(p, j)' /\ <<p, t, j>> \notin skipped'
                    => ~InPeriod(p, t, head[p][t], j)'
      BY NoneLostStays DEF NoneLost
    <3> QED
      BY <2>1, <3>1
  <2> QED
    BY <1>3, <2>2 DEF NoneLost
<1>4. ASSUME NEW q \in Projects, NEW u \in Timed, NEW k \in Heights,
             SetTail(q, u, k), tail'[p][t] # tail[p][t]
      PROVE  NoneLost(p, t, tail[p][t])'
  <2>1. p = q /\ t = u /\ tail'[p][t] = k
    BY <1>0, <1>1, <1>4 DEF SetTail, WindowTypeOK
  <2>2. <<p, t, k>> \in half
    BY <1>4, <2>1 DEF SetTail
  <2>3. NoneLost(p, t, k) /\ k < heightMap[p]
    BY <1>0, <2>2 DEF HalfSet
  <2>4. k \in Int /\ k <= top[p] + 1
    <3>1. k \in Int
      BY WindowSets
    <3>2. heightMap[p] \in Int /\ heightMap[p] <= top[p]
      BY <1>0, WindowConstants DEF WindowTypeOK, WithinChain, HeightsOrZero, NoKey
    <3> QED
      BY <1>1, <2>3, <3>1, <3>2
  <2>5. NoneLost(p, t, k)'
    BY <2>3, <2>4, NoneLostStays
  <2> QED
    BY <2>1, <2>5 DEF NoneLost
<1> QED
  BY <1>3, <1>4
     DEF WindowStep, Index, Environment, Crash, AggregationStep, Finalize,
         ReadHeight, SkipIndexing, GiveUpCycle, StartIndexing, IndexSeries,
         Indexed, windowVars, markerVars

LEMMA WindowInvStep == WindowInv /\ WindowStep => WindowInv'
BY WindowTypeStep, PhasedStep, WithinChainStep, HeadsReachedStep, HalfSetStep,
   NothingLostStep
   DEF WindowInv
=============================================================================
