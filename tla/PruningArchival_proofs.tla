------------------------ MODULE PruningArchival_proofs ------------------------
(***************************************************************************)
(* Lemmas about PruningArchival, for every segment size, chain length and    *)
(* number of faults; ApiReads_proofs draws the theorems from them.          *)
(***************************************************************************)
EXTENDS PruningArchival, IntegerLemmas

(***************************************************************************)
(* Segments                                                                 *)
(***************************************************************************)
LEMMA SegmentType == Segments \subseteq Nat /\ HeightsOrZero \subseteq Int
BY PruningConstants DEF Segments, HeightsOrZero

\* A segment lies within the chain.
LEMMA SegmentBounds ==
    ASSUME NEW i \in Segments
    PROVE  /\ Begin(i) \in Heights /\ End(i) \in Heights
           /\ Begin(i) <= End(i)
<1>1. /\ i \in Nat /\ i >= 1 /\ Size \in Nat /\ Size >= 1 /\ MaxHeight \in Nat
      /\ i <= MaxHeight \div Size
  BY PruningConstants DEF Segments
<1>2. MaxHeight \div Size \in Nat /\ (MaxHeight \div Size) * Size <= MaxHeight
  BY <1>1
<1>3. i * Size <= (MaxHeight \div Size) * Size
  BY <1>1, <1>2
<1>4. (i - 1) * Size = i * Size - Size /\ (i - 1) * Size >= 0
  BY <1>1
<1>5. i * Size \in Int
  BY <1>1
<1> QED
  BY <1>1, <1>2, <1>3, <1>4, <1>5 DEF Begin, End, Heights

\* Segments follow one another.
LEMMA SegmentOrder ==
    ASSUME NEW i \in Segments, NEW j \in Segments, i < j
    PROVE  End(i) < Begin(j) /\ End(i) < End(j)
<1>1. i \in Nat /\ j \in Nat /\ Size \in Nat /\ Size >= 1 /\ i <= j - 1
  BY PruningConstants DEF Segments
<1>2. i * Size <= (j - 1) * Size
  BY <1>1
<1>3. (j - 1) * Size = j * Size - Size /\ i * Size \in Int /\ j * Size \in Int
  BY <1>1
<1> QED
  BY <1>1, <1>2, <1>3 DEF Begin, End

\* The segment a cycle works on is the lowest of those it has still to archive.
LEMMA CurrentIsLeast ==
    ASSUME todo \in SUBSET Segments, todo # {}
    PROVE  Current \in todo /\ \A j \in todo : Current <= j
<1>1. \E i \in todo : \A j \in todo : i <= j
  BY SegmentType, NatMinimum
<1> QED
  BY <1>1 DEF Current

(***************************************************************************)
(* Types                                                                    *)
(***************************************************************************)
\* What the service, IPFS and the finalizer do to the project.
PruningStep == PruningNext \/ SetHeight \/ AddCid \/ UNCHANGED pruningVars

LEMMA PruningInitType == PruningInit => PruningTypeOK
BY PruningConstants, SegmentBounds
   DEF PruningInit, PruningTypeOK, Calls, HeightsOrZero, Heights

LEMMA FailsType ==
    ASSUME NEW call, Fails(call), faults \in 0..MaxFaults
    PROVE  faults' \in 0..MaxFaults
BY PruningConstants DEF Fails

LEMMA PruningStepType == PruningTypeOK /\ PruningStep => PruningTypeOK'
<1> SUFFICES ASSUME PruningTypeOK, PruningStep PROVE PruningTypeOK'
  OBVIOUS
<1>0. todo # {} =>
        /\ Current \in todo /\ Current \in Segments
        /\ End(Current) \in HeightsOrZero
  BY CurrentIsLeast, SegmentBounds DEF PruningTypeOK, Heights, HeightsOrZero
<1>1. CASE UNCHANGED pruningVars
  BY <1>1 DEF PruningTypeOK, pruningVars, chainVars, pruneVars, storeVars
<1>2. CASE SetHeight
  BY <1>2, PruningConstants DEF SetHeight, PruningTypeOK, storeVars, HeightsOrZero
<1>3. CASE AddCid
  BY <1>3 DEF AddCid, PruningTypeOK, pruneVars, storeVars
<1>4. CASE MoveTail
  BY <1>4, PruningConstants
     DEF MoveTail, PruningTypeOK, pruneVars, storeVars, Heights, HeightsOrZero
<1>5. ASSUME NEW i \in Segments, Collect(i) PROVE PruningTypeOK'
  BY <1>5 DEF Collect, PruningTypeOK, chainVars, pruneVars
<1>6. CASE StartCycle
  <2>1. tail = 0 => HeightToPrune <= top
    BY PruningConstants
       DEF HeightToPrune, OldestIndexed, PruningTypeOK, HeightsOrZero
  <2>2. tail = 0 => HeightToPrune \in HeightsOrZero
    BY <1>6, <2>1, PruningConstants
       DEF StartCycle, HeightToPrune, OldestIndexed, PruningTypeOK, HeightsOrZero
  <2> QED
    BY <1>6, <2>2
       DEF StartCycle, PruningTypeOK, chainVars, pruneVars, storeVars, Calls
<1> USE DEF PruningTypeOK, chainVars, Calls
<1>7. CASE Archive
  BY <1>0, <1>7, FailsType DEF Archive, EndCycle, pruneVars
<1>8. CASE GetCids
  BY <1>8, FailsType DEF GetCids, EndCycle, pruneVars, storeVars
<1>9. CASE UnPin
  BY <1>0, <1>9, FailsType DEF UnPin, pruneVars
<1>10. CASE UpdateStatus
  BY <1>0, <1>10, FailsType DEF UpdateStatus, storeVars
<1>11. CASE PruneZsets
  BY <1>0, <1>11, FailsType DEF PruneZsets, storeVars
<1>12. CASE RecordPruned
  BY <1>0, <1>12, FailsType DEF RecordPruned, storeVars
<1>13. CASE DeleteFromCache
  BY <1>0, <1>13, FailsType DEF DeleteFromCache, pruneVars
<1>14. CASE Crash
  BY <1>14, FailsType DEF Crash, EndCycle, pruneVars, storeVars
<1> QED
  BY <1>1, <1>2, <1>3, <1>4, <1>5, <1>6, <1>7, <1>8, <1>9, <1>10, <1>11, <1>12,
     <1>13, <1>14 DEF PruningStep, PruningNext, ProcessProject

(***************************************************************************)
(* Nothing is removed before it is archived                                 *)
(***************************************************************************)
\* A segment is on record as soon as the chain has grown past it.
Recorded ==
    /\ \A i \in Segments : status[i] = "none" <=> End(i) >= top
    /\ \A i \in todo : End(i) < top

\* With archival, whatever marks a segment as done or takes it away comes after
\* its upload; without it, nothing is uploaded or called COLD.
IsTaken(i) ==
    \/ status[i] \in {"cold", "pruned"} \/ i \in unpinned
    \/ Begin(i) <= cidsLow \/ Begin(i) <= lastPruned

UploadedFirst ==
    /\ archiving => \A i \in Segments : IsTaken(i) => i \in uploaded
    /\ ~archiving => \A i \in Segments : status[i] # "cold" /\ i \notin uploaded
    /\ collected \subseteq unpinned
    /\ archiving /\ pc \notin {"idle", "archive"} => Current \in uploaded

\* A cycle leaves out no segment below one it works on but what is uploaded.
InOrder ==
    archiving =>
        \A i \in Segments, j \in todo : i < j => i \in todo \union uploaded

PruningInv == PruningTypeOK /\ Recorded /\ UploadedFirst /\ InOrder

LEMMA PruningInitInv == PruningInit => PruningInv
<1> SUFFICES ASSUME PruningInit PROVE PruningInv
  OBVIOUS
<1>1. \A i \in Segments : ~(Begin(i) <= 0) /\ End(i) \in Int
  BY SegmentBounds DEF Heights
<1>2. AtStart \in Int
  BY PruningConstants
<1> QED
  BY <1>1, <1>2, PruningInitType
     DEF PruningInit, PruningInv, Recorded, UploadedFirst, IsTaken, InOrder

LEMMA RecordedStep == PruningTypeOK /\ Recorded /\ PruningStep => Recorded'
<1> SUFFICES ASSUME PruningTypeOK, Recorded, PruningStep PROVE Recorded'
  OBVIOUS
<1>0. /\ \A i \in Segments : End(i) \in Int
      /\ top \in Int
      /\ todo # {} => Current \in todo /\ Current \in Segments
  BY SegmentBounds, CurrentIsLeast DEF Heights, PruningTypeOK, HeightsOrZero
<1>1. CASE SetHeight
  BY <1>0, <1>1 DEF SetHeight, Recorded, PruningTypeOK
<1>2. CASE StartCycle
  <2>1. ASSUME NEW i \in todo' PROVE End(i) < top
    <3>1. i \in Segments /\ status[i] = "pending"
      BY <1>2 DEF StartCycle
    <3> QED
      BY <1>0, <3>1 DEF Recorded
  <2> QED
    BY <1>2, <2>1 DEF StartCycle, Recorded, chainVars, pruneVars
<1>3. CASE UpdateStatus
  BY <1>0, <1>3 DEF UpdateStatus, Recorded, chainVars, PruningTypeOK
<1>4. CASE DeleteFromCache
  BY <1>4 DEF DeleteFromCache, Recorded, chainVars, pruneVars
<1>5. CASE UNCHANGED <<top, status>> /\ todo' \in {todo, {}}
  BY <1>5 DEF Recorded
<1> QED
  BY <1>1, <1>2, <1>3, <1>4, <1>5
     DEF PruningStep, pruningVars, AddCid, PruningNext, MoveTail, Collect,
         ProcessProject, Archive, GetCids, UnPin, PruneZsets, RecordPruned,
         Crash, EndCycle, chainVars, pruneVars

LEMMA InOrderStep == PruningInv /\ PruningStep => InOrder'
<1> SUFFICES ASSUME PruningInv, PruningStep PROVE InOrder'
  OBVIOUS
<1>0. todo # {} => Current \in todo
  BY CurrentIsLeast DEF PruningInv, PruningTypeOK
<1>1. CASE StartCycle
  <2> SUFFICES ASSUME archiving, NEW i \in Segments, NEW j \in todo', i < j
               PROVE  i \in todo' \union uploaded'
    BY <1>1 DEF InOrder, StartCycle, chainVars
  <2>1. /\ j \in Segments /\ status[j] = "pending" /\ IsOld(j)
        /\ todo' = {k \in Segments : status[k] = "pending" /\ IsOld(k)}
        /\ uploaded' = uploaded
    BY <1>1 DEF StartCycle, storeVars
  <2>2. End(i) < End(j) /\ End(i) \in Int /\ End(j) \in Int
    BY <2>1, SegmentOrder, SegmentBounds DEF Heights
  <2>3. HeightToPrune \in Int /\ top \in Int
    BY PruningConstants
       DEF PruningInv, PruningTypeOK, HeightToPrune, OldestIndexed, HeightsOrZero
  <2>4. IsOld(i)
    BY <2>1, <2>2, <2>3 DEF IsOld
  <2>5. status[i] # "none"
    BY <2>1, <2>2, <2>3 DEF PruningInv, Recorded
  <2>6. status[i] \in {"pending", "cold", "pruned"}
    BY <2>5 DEF PruningInv, PruningTypeOK
  <2> QED
    BY <2>1, <2>4, <2>6 DEF PruningInv, UploadedFirst, IsTaken
<1>2. CASE DeleteFromCache
  BY <1>0, <1>2 DEF DeleteFromCache, PruningInv, InOrder, UploadedFirst, IsTaken,
         chainVars, pruneVars
<1>3. CASE /\ todo' \in {todo, {}} /\ uploaded \subseteq uploaded'
           /\ archiving' = archiving
  BY <1>3 DEF PruningInv, InOrder
<1> QED
  BY <1>1, <1>2, <1>3
     DEF PruningStep, pruningVars, SetHeight, AddCid, PruningNext, MoveTail,
         Collect, ProcessProject, Archive, GetCids, UnPin, UpdateStatus,
         PruneZsets, RecordPruned, Crash, EndCycle, chainVars, storeVars

LEMMA UploadedFirstStep == PruningInv /\ PruningStep => UploadedFirst'
<1> SUFFICES ASSUME PruningInv, PruningStep PROVE UploadedFirst'
  OBVIOUS
<1> USE DEF PruningInv, chainVars
<1>0. todo # {} =>
        /\ Current \in todo /\ Current \in Segments
        /\ \A j \in todo : Current <= j
  BY CurrentIsLeast DEF PruningTypeOK
<1>1. /\ \A i \in Segments : Begin(i) \in Int /\ End(i) \in Int /\ i \in Int
      /\ top \in Int /\ cidsLow \in Int /\ lastPruned \in Int
  BY SegmentBounds, SegmentType DEF Heights, PruningTypeOK, HeightsOrZero
<1>c. todo' = todo => Current' = Current
  BY DEF Current
\* The segments up to the current one are uploaded once it is.
<1>2. ASSUME archiving, todo # {}, Current \in uploaded,
             NEW i \in Segments, Begin(i) <= End(Current)
      PROVE  i \in uploaded
  <2>1. i <= Current
    BY <1>0, <1>1, <1>2, SegmentOrder
  <2>2. CASE i = Current
    BY <1>2, <2>2
  <2>3. CASE i < Current
    <3>1. i \notin todo
      BY <1>0, <1>1, <1>2, <2>3
    <3> QED
      BY <1>0, <1>2, <2>3, <3>1 DEF InOrder
  <2> QED
    BY <1>0, <1>1, <1>2, <2>1, <2>2, <2>3
<1>3. CASE SetHeight
  BY <1>c, <1>1, <1>3 DEF SetHeight, UploadedFirst, IsTaken, PruningTypeOK, storeVars
<1>4. ASSUME NEW i \in Segments, Collect(i) PROVE UploadedFirst'
  BY <1>c, <1>4 DEF Collect, UploadedFirst, IsTaken, pruneVars
<1>5. CASE StartCycle
  BY <1>5 DEF StartCycle, UploadedFirst, IsTaken, pruneVars, storeVars
<1>6. CASE Archive
  BY <1>c, <1>6 DEF Archive, EndCycle, UploadedFirst, IsTaken, pruneVars
<1>7. CASE GetCids
  BY <1>c, <1>7 DEF GetCids, EndCycle, UploadedFirst, IsTaken, pruneVars, storeVars
<1>8. CASE UnPin
  BY <1>c, <1>8 DEF UnPin, UploadedFirst, IsTaken, pruneVars
<1>9. CASE UpdateStatus
  BY <1>c, <1>0, <1>9 DEF UpdateStatus, UploadedFirst, IsTaken, storeVars,
     PruningTypeOK
<1>10. CASE PruneZsets
  BY <1>c, <1>1, <1>2, <1>10 DEF PruneZsets, UploadedFirst, IsTaken, storeVars,
     PruningTypeOK
<1>11. CASE RecordPruned
  BY <1>c, <1>1, <1>2, <1>11 DEF RecordPruned, UploadedFirst, IsTaken, storeVars,
     PruningTypeOK
<1>12. CASE DeleteFromCache
  BY <1>12 DEF DeleteFromCache, UploadedFirst, IsTaken, pruneVars
<1>13. CASE Crash
  BY <1>13 DEF Crash, EndCycle, UploadedFirst, IsTaken, pruneVars, storeVars
<1>14. CASE UNCHANGED <<archiving, pruneVars, storeVars, pc, todo>>
  BY <1>c, <1>14 DEF UploadedFirst, IsTaken, pruneVars, storeVars
<1> QED
  BY <1>3, <1>4, <1>5, <1>6, <1>7, <1>8, <1>9, <1>10, <1>11, <1>12, <1>13, <1>14
     DEF PruningStep, pruningVars, AddCid, PruningNext, MoveTail, ProcessProject

LEMMA PruningInvStep == PruningInv /\ PruningStep => PruningInv'
BY PruningStepType, RecordedStep, InOrderStep, UploadedFirstStep DEF PruningInv

LEMMA NothingLost == PruningInv => NothingIsLost
<1>1. \A i \in Segments : Begin(i) \in Int /\ End(i) \in Int /\ Begin(i) <= End(i)
  BY SegmentBounds DEF Heights
<1> QED
  BY <1>1 DEF PruningInv, PruningTypeOK, HeightsOrZero, UploadedFirst, IsTaken,
     NothingIsLost

(***************************************************************************)
(* Only what is old enough is removed                                       *)
(***************************************************************************)
\* How far the service may go: a block below has been left behind by the oldest
\* index, or by the distance a cycle went by while there was no index.
IsLeft(h) == (tail > 0 /\ h < HeightToPrune) \/ h < byDistance

AgeInv ==
    /\ tail = 0 => byDistance = 0 \/ byDistance <= HeightToPrune
    /\ cidsLow > 0 => IsLeft(cidsLow)
    /\ \A i \in unpinned \union uncached \union todo : IsLeft(End(i))

LEMMA PruningInitAge == PruningInit => AgeInv
BY DEF PruningInit, AgeInv

\* With a tail marker the pruning height never moves back, and without one it
\* does not fall below what the last cycle went by.
LEMMA PruningHeightGrows ==
    ASSUME PruningTypeOK, AgeInv, PruningStep
    PROVE  /\ HeightToPrune \in Int /\ HeightToPrune' \in Int
           /\ tail > 0 => tail' > 0 /\ HeightToPrune <= HeightToPrune'
           /\ byDistance \in Int /\ byDistance' \in Int
           /\ byDistance <= byDistance'
           /\ tail' = 0 => byDistance' = 0 \/ byDistance' <= HeightToPrune'
<1> USE PruningConstants DEF PruningTypeOK, HeightsOrZero, HeightToPrune,
        OldestIndexed, AgeInv
<1>1. CASE SetHeight
  BY <1>1 DEF SetHeight
<1>2. CASE MoveTail
  BY <1>2 DEF MoveTail
<1>3. CASE StartCycle
  BY <1>3 DEF StartCycle, chainVars
<1>4. CASE UNCHANGED <<top, tail, byDistance>>
  BY <1>4
<1> QED
  BY <1>1, <1>2, <1>3, <1>4
     DEF PruningStep, pruningVars, AddCid, PruningNext, Collect, ProcessProject,
         Archive, GetCids, UnPin, UpdateStatus, PruneZsets,
         RecordPruned, DeleteFromCache, Crash, chainVars

\* What has been left behind stays so.
LEMMA LeftStays ==
    ASSUME PruningTypeOK, AgeInv, PruningStep, NEW h \in Int, IsLeft(h)
    PROVE  IsLeft(h)'
BY PruningHeightGrows DEF IsLeft

LEMMA AgeStep == PruningTypeOK /\ AgeInv /\ PruningStep => AgeInv'
<1> SUFFICES ASSUME PruningTypeOK, AgeInv, PruningStep PROVE AgeInv'
  OBVIOUS
<1>0. todo # {} => Current \in todo
  BY CurrentIsLeast DEF PruningTypeOK
<1>1. /\ \A i \in Segments : End(i) \in Int
      /\ cidsLow \in Int
      /\ unpinned \union uncached \union todo \subseteq Segments
  BY SegmentBounds, SegmentType DEF Heights, PruningTypeOK
<1>s. \A h \in Int : IsLeft(h) => IsLeft(h)'
  BY LeftStays
<1>l. PICK low \in Int : low = cidsLow
  BY <1>1
<1>2. /\ \A i \in unpinned \union uncached \union todo : IsLeft(End(i))'
      /\ low > 0 => IsLeft(low)'
  <2>1. \A i \in unpinned \union uncached \union todo :
            End(i) \in Int /\ IsLeft(End(i))
    BY <1>1 DEF AgeInv
  <2>2. low > 0 => IsLeft(low)
    BY <1>l DEF AgeInv, IsLeft
  <2> QED
    BY <1>s, <2>1, <2>2
<1>3. tail' = 0 => byDistance' = 0 \/ byDistance' <= HeightToPrune'
  BY PruningHeightGrows
<1>4. ASSUME \/ cidsLow' = cidsLow
             \/ todo # {} /\ cidsLow' = End(Current),
             \A i \in unpinned' \union uncached' :
                \/ i \in unpinned \union uncached
                \/ todo # {} /\ i = Current,
             todo' \subseteq todo
      PROVE  AgeInv'
  <2>1. (cidsLow > 0 => IsLeft(cidsLow))'
    BY <1>0, <1>l, <1>2, <1>4 DEF IsLeft
  <2>2. \A i \in unpinned' \union uncached' \union todo' : IsLeft(End(i))'
    BY <1>0, <1>2, <1>4
  <2> QED
    BY <1>3, <2>1, <2>2 DEF AgeInv, IsLeft
<1>5. CASE StartCycle
  <2>1. UNCHANGED <<cidsLow, unpinned, uncached>>
    BY <1>5 DEF StartCycle, pruneVars, storeVars
  <2>2. ASSUME NEW i \in todo' PROVE IsLeft(End(i))'
    <3>1. End(i) < HeightToPrune
      BY <1>5, <2>2 DEF StartCycle, IsOld
    <3>2. tail \in Nat /\ tail' = tail /\ HeightToPrune' = HeightToPrune
      BY <1>5 DEF StartCycle, chainVars, HeightToPrune, OldestIndexed, PruningTypeOK,
         HeightsOrZero
    <3>3. tail = 0 => byDistance' = HeightToPrune
      BY <1>5 DEF StartCycle
    <3> QED
      BY <3>1, <3>2, <3>3 DEF IsLeft
  <2>3. \A i \in unpinned' \union uncached' \union todo' : IsLeft(End(i))'
    BY <1>2, <2>1, <2>2
  <2> QED
    BY <1>l, <1>2, <1>3, <2>1, <2>3 DEF AgeInv, IsLeft
<1>6. CASE UnPin
  BY <1>4, <1>6 DEF UnPin, pruneVars, PruningTypeOK
<1>7. CASE PruneZsets
  BY <1>4, <1>7 DEF PruneZsets, storeVars, PruningTypeOK
<1>8. CASE DeleteFromCache
  BY <1>4, <1>8 DEF DeleteFromCache, pruneVars, PruningTypeOK
<1>9. CASE UNCHANGED <<cidsLow, unpinned, uncached>> /\ todo' \subseteq todo
  BY <1>4, <1>9
<1> QED
  BY <1>5, <1>6, <1>7, <1>8, <1>9
     DEF PruningStep, pruningVars, SetHeight, AddCid, PruningNext, MoveTail,
         Collect, ProcessProject, Archive, GetCids, UpdateStatus, RecordPruned,
         Crash, EndCycle, pruneVars, storeVars

LEMMA RecentKept == PruningTypeOK /\ AgeInv => RecentIsKept
<1> SUFFICES ASSUME PruningTypeOK, AgeInv, NEW h \in Heights, IsRemoved(h)
             PROVE  h < HeightToPrune \/ h < byDistance
  BY DEF RecentIsKept
<1>1. /\ h \in Nat /\ h > 0 /\ cidsLow \in Int /\ byDistance \in Int
      /\ HeightToPrune \in Int
      /\ \A i \in Segments : Begin(i) \in Int /\ End(i) \in Int
  BY PruningConstants, SegmentBounds
     DEF Heights, HeightsOrZero, PruningTypeOK, HeightToPrune, OldestIndexed
<1>2. CASE h <= cidsLow
  BY <1>1, <1>2 DEF AgeInv, IsLeft
<1>3. ASSUME NEW i \in unpinned \union uncached, h \in Begin(i)..End(i)
      PROVE  h < HeightToPrune \/ h < byDistance
  <2>1. i \in Segments /\ IsLeft(End(i))
    BY <1>3 DEF AgeInv, PruningTypeOK
  <2> QED
    BY <1>1, <1>3, <2>1 DEF IsLeft
<1> QED
  BY <1>2, <1>3 DEF IsRemoved

(***************************************************************************)
(* The store of ArchiveStore                                                *)
(***************************************************************************)
LEMMA PruningInitStore == PruningInit => Store!StoreInit
<1> SUFFICES ASSUME PruningInit PROVE Store!StoreInit
  OBVIOUS
<1>1. \A i \in Segments : End(i) > 0
  BY SegmentBounds DEF Heights
<1> QED
  BY <1>1 DEF PruningInit, Store!StoreInit, Location, IsReadable

\* What has gone does not come back.
LEMMA GoneStaysGone ==
    ASSUME PruningInv, PruningInv', PruningStep
    PROVE  \A i \in Segments : IsReadable(i)' => IsReadable(i)
<1>1. todo # {} => Current \in todo /\ Current \in Segments
  BY CurrentIsLeast DEF PruningInv, PruningTypeOK
<1>2. /\ collected \subseteq collected'
      /\ cidsLow \in Int /\ cidsLow' \in Int /\ cidsLow <= cidsLow'
  BY <1>1, SegmentBounds
     DEF PruningStep, pruningVars, SetHeight, AddCid, PruningNext, MoveTail,
         Collect, ProcessProject, StartCycle, Archive, GetCids, UnPin,
         UpdateStatus, PruneZsets, RecordPruned, DeleteFromCache, Crash,
         pruneVars, storeVars, PruningInv, PruningTypeOK, HeightsOrZero, Heights
<1> QED
  BY <1>2, SegmentBounds DEF IsReadable, Heights

\* With archival, what is not in cold storage is readable.
ReadableFirst ==
    archiving => \A i \in Segments : i \notin uploaded => IsReadable(i)

LEMMA ReadableUntilUploaded == PruningInv => ReadableFirst
BY NothingLost, SegmentBounds
   DEF ReadableFirst, NothingIsLost, IsReadable, PruningInv, PruningTypeOK, HeightsOrZero, Heights

\* Every step of the service is a step of the store or does not touch it.
LEMMA StoreStep ==
    PruningInv /\ PruningInv' /\ PruningStep
        => [Store!StoreNext]_<<archiving, Location>>
<1> SUFFICES ASSUME PruningInv, PruningInv', PruningStep
             PROVE  Store!StoreNext
  OBVIOUS
<1>0. archiving \in BOOLEAN /\ archiving' = archiving
  BY DEF PruningInv, PruningTypeOK, PruningStep, pruningVars, SetHeight, AddCid,
         PruningNext, MoveTail, Collect, ProcessProject, StartCycle, Archive,
         GetCids, UnPin, UpdateStatus, PruneZsets, RecordPruned, DeleteFromCache,
         Crash, chainVars
<1>1. todo # {} => Current \in todo /\ Current \in Segments
  BY CurrentIsLeast DEF PruningInv, PruningTypeOK
<1>a. ReadableFirst /\ ReadableFirst'
  BY ReadableUntilUploaded, PTL
<1>2. CASE Archive /\ uploaded' # uploaded
  <2>1. /\ archiving /\ Current \in Segments
        /\ uploaded' = uploaded \union {Current} /\ Current \notin uploaded
        /\ \A i \in Segments : IsReadable(i)' <=> IsReadable(i)
    BY <1>1, <1>2
       DEF Archive, PruningInv, PruningTypeOK, pruneVars, IsReadable
  <2>2. IsReadable(Current)
    BY <1>a, <2>1 DEF ReadableFirst
  <2>3. Store!Copy(Current)
    BY <2>1, <2>2 DEF Store!Copy, Location
  <2> QED
    BY <1>0, <2>1, <2>3 DEF Store!StoreNext
<1>3. CASE uploaded' = uploaded /\ archiving
  <2> DEFINE R == {i \in Segments : Location[i] = "both" /\ ~IsReadable(i)'}
  <2>1. \A i \in Segments : i \notin uploaded => IsReadable(i)
    BY <1>3, <1>a DEF ReadableFirst
  <2>2. \A i \in Segments : i \notin uploaded' => IsReadable(i)'
    BY <1>0, <1>3, <1>a DEF ReadableFirst
  <2>3. Location' = [i \in Segments |-> IF i \in R THEN "archive" ELSE Location[i]]
    BY <1>3, <2>1, <2>2, GoneStaysGone DEF Location
  <2>4. Store!Remove(R)
    BY <1>3, <2>3 DEF Store!Remove, Store!Leave
  <2> QED
    BY <1>0, <2>4 DEF Store!StoreNext
<1>4. CASE uploaded' = uploaded /\ ~archiving
  <2> DEFINE R == {i \in Segments : Location[i] = "store" /\ ~IsReadable(i)'}
  <2>1. \A i \in Segments : i \notin uploaded
    BY <1>4 DEF PruningInv, UploadedFirst
  <2>2. Location' = [i \in Segments |-> IF i \in R THEN "nowhere" ELSE Location[i]]
    BY <1>4, <2>1, GoneStaysGone DEF Location
  <2>3. Store!Drop(R)
    BY <1>4, <2>2 DEF Store!Drop, Store!Leave, Location
  <2> QED
    BY <1>0, <2>3 DEF Store!StoreNext
<1> QED
  BY <1>0, <1>2, <1>3, <1>4
     DEF PruningStep, pruningVars, SetHeight, AddCid, PruningNext, MoveTail,
         Collect, ProcessProject, StartCycle, GetCids, UnPin, UpdateStatus,
         PruneZsets, RecordPruned, DeleteFromCache, Crash, storeVars
=============================================================================
