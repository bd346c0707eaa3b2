----------------------- MODULE SummarySnapshots_proofs -----------------------
(***************************************************************************)
(* Proofs about SummarySnapshots, for every number of pairs, payloads and  *)
(* failures. Each coroutine guesses the height of what it commits; the     *)
(* guess is right when the queue of its project is empty at that moment,   *)
(* because the coroutine is the only one that commits to the project, and  *)
(* never too high, because heights are given in the order of the queue.    *)
(***************************************************************************)
EXTENDS SummarySnapshots, IntegerLemmas, SequenceTheorems, TLAPS

CommitLabels == {"stamp", "tentative", "post", "wait", "write", "prune"}

\* The types, and what makes the writes well typed: there is a payload to
\* write, and the chain has it.
SnapshotTypes ==
    /\ queue \in [Kinds -> Seq(Payloads)]
    /\ chain \in [Kinds -> Seq(Payloads)]
    /\ \A x \in Kinds : Len(chain[x]) + Len(queue[x]) <= MaxBlocks
    /\ entries \in [Kinds -> SUBSET Entry]
    /\ stamps \in SUBSET Payloads
    /\ lastHeight \in Payloads \union {None}
    /\ pc \in [Kinds -> Labels]
    /\ payload \in [Kinds -> Payloads \union {None}]
    /\ tentative \in [Kinds -> 0..MaxBlocks]
    /\ writes \in [Kinds -> SUBSET {"zset", "stamps", "payload", "last"}]
    /\ raised \in [Kinds -> BOOLEAN]
    /\ seen \in Payloads
    /\ faults \in 0..MaxFaults
    /\ behind \in [Kinds -> BOOLEAN]
    /\ late \in SUBSET (Kinds \X Entry)
    /\ \A x \in Kinds :
          /\ pc[x] \in CommitLabels => payload[x] \in Payloads
          /\ pc[x] = "write" => Expected(x) \in DOMAIN chain[x]

\* The payload p has the height h, or will have it.
Held(x, h, p) ==
    \/ h \in DOMAIN chain[x] /\ chain[x][h] = p
    \/ h - Len(chain[x]) \in DOMAIN queue[x] /\ queue[x][h - Len(chain[x])] = p

HeldFrom(x, h, p) == \E n \in Nat : n >= h /\ Held(x, n, p)

\* If nothing was queued at ReadTentative, nothing is until the coroutine posts;
\* after that all that is queued, or is above the height read, is its payload.
OwnPayload(x) ==
    ~behind[x] =>
        /\ pc[x] = "post" => queue[x] = <<>> /\ tentative[x] = Len(chain[x])
        /\ pc[x] \in {"wait", "write"} =>
              /\ \A i \in DOMAIN queue[x] : queue[x][i] = payload[x]
              /\ \A i \in DOMAIN chain[x] :
                    i > tentative[x] => chain[x][i] = payload[x]

\* In any case the payload comes to stand above the height read.
Trails(x) ==
    /\ pc[x] = "post" => tentative[x] <= Len(chain[x])
    /\ pc[x] \in {"wait", "write"} => HeldFrom(x, Expected(x), payload[x])

PayloadsInv == \A x \in Kinds : OwnPayload(x) /\ Trails(x)

\* EntryTrailsItsPayload, of the chain and the queue.
EntriesTrail ==
    \A x \in Kinds : \A e \in entries[x] :
        /\ e.dagHeight \in DOMAIN chain[x] /\ chain[x][e.dagHeight] = e.cid
        /\ HeldFrom(x, e.dagHeight, e.score)

\* Statistics that are still to be listed are for a height above those listed.
ToBeListed ==
    \/ pc["daily"] \in {"stamp", "tentative", "post", "wait"}
    \/ pc["daily"] = "write" /\ "zset" \in writes["daily"]

DailyInv ==
    ToBeListed => \/ payload["daily"] \in Mistaken
                  \/ \A f \in entries["daily"] : f.score < payload["daily"]

ListingInv == EntryNamesItsPayload /\ DailyInv /\ OneDailyPerSummary

(***************************************************************************)
(* Types                                                                   *)
(***************************************************************************)
\* What the API has published n times is at the end of the queue n times.
LEMMA Published ==
  ASSUME NEW s \in Seq(Payloads), NEW n \in Nat, NEW p \in Payloads,
         NEW r \in Seq(Payloads), Len(r) = n, \A i \in 1..n : r[i] = p,
         NEW t, t = s \o r
  PROVE  /\ t \in Seq(Payloads) /\ Len(t) = Len(s) + n
         /\ \A i \in DOMAIN t : t[i] = p \/ (i \in DOMAIN s /\ t[i] = s[i])
         /\ \A i \in DOMAIN s : i \in DOMAIN t /\ t[i] = s[i]
         /\ n > 0 => Len(t) \in DOMAIN t /\ t[Len(t)] = p
<1>2. Len(s) \in Nat /\ DOMAIN s = 1..Len(s)
  BY LenProperties
<1>3. /\ t \in Seq(Payloads) /\ Len(t) = Len(s) + n
      /\ \A i \in 1 .. Len(s) + n : t[i] = IF i <= Len(s) THEN s[i]
                                           ELSE r[i - Len(s)]
  BY ConcatProperties
<1>4. DOMAIN t = 1..(Len(s) + n)
  BY <1>3, LenProperties
<1> QED
  BY <1>2, <1>3, <1>4

\* The types are kept by each of the actions.
LEMMA NextCycleTypes ==
  ASSUME SnapshotTypes, NextCycle PROVE SnapshotTypes'
BY SnapshotConstants DEF SnapshotTypes, NextCycle, Kinds, Labels, CommitLabels, Expected,
       commitVars, redisVars, localVars

\* A height that all pairs report is one of a payload.
LEMMA CommonType ==
  ASSUME NEW results \in [Pairs -> {None, Error} \union (seen..MaxCommon)]
  PROVE  CommonHeight(results) \in Payloads \union {None}
<1>1. PICK p \in Pairs : TRUE
  BY SnapshotConstants
<1>2. results[p] \in {results[q] : q \in Pairs}
  OBVIOUS
<1> QED
  BY <1>2 DEF CommonHeight

\* The greatest height reported so far exists.
LEMMA SeenType ==
  ASSUME seen \in Payloads,
         NEW results \in [Pairs -> {None, Error} \union (seen..MaxCommon)],
         seen' = CHOOSE s \in {seen} \union {results[p] : p \in Pairs} :
                    \A p \in Pairs : s >= seen /\ s >= results[p]
  PROVE  seen' \in Payloads
<1> DEFINE H == ({seen} \union {results[p] : p \in Pairs}) \intersect Nat
<1>1. seen \in 1..MaxCommon /\ MaxCommon \in Nat
  BY SnapshotConstants DEF Payloads
<1>2. \A p \in Pairs : results[p] \in -1..MaxCommon
  BY <1>1 DEF None, Error
<1>3. H \in SUBSET (0..MaxCommon) /\ H # {}
  BY <1>1, <1>2
<1>4. PICK m \in H : \A y \in H : m >= y
  BY <1>1, <1>3, NatMaximum
<1>5. m >= seen /\ m \in 1..MaxCommon
  BY <1>1, <1>3, <1>4
<1>6. \A p \in Pairs : m >= results[p]
  <2> TAKE p \in Pairs
  <2>1. CASE results[p] \in Nat
    BY <1>4, <2>1
  <2>2. CASE results[p] \notin Nat
    BY <1>2, <1>5, <2>2
  <2> QED
    BY <2>1, <2>2
<1>7. \E s \in {seen} \union {results[p] : p \in Pairs} :
         \A p \in Pairs : s >= seen /\ s >= results[p]
  <2>1. m \in {seen} \union {results[p] : p \in Pairs}
    BY <1>4
  <2> QED
    BY <1>5, <1>6, <2>1
<1>8. /\ seen' \in {seen} \union {results[p] : p \in Pairs}
      /\ \A p \in Pairs : seen' >= seen /\ seen' >= results[p]
  <2> DEFINE A == {seen} \union {results[p] : p \in Pairs}
             F(s) == \A p \in Pairs : s >= seen /\ s >= results[p]
  <2>1. \E s \in A : F(s)
    BY <1>7
  <2>2. seen' = CHOOSE s \in A : F(s)
    OBVIOUS
  <2> HIDE DEF A, F
  <2>3. seen' \in A /\ F(seen')
    BY <2>1, <2>2
  <2> QED
    BY <2>3 DEF A, F
<1>9. PICK q \in Pairs : TRUE
  BY SnapshotConstants
<1> QED
  BY <1>1, <1>2, <1>8, <1>9 DEF Payloads

LEMMA PairsDataTypes ==
  ASSUME SnapshotTypes, PairsData PROVE SnapshotTypes'
<1>1. PICK results \in [Pairs -> {None, Error} \union (seen..MaxCommon)] :
        /\ payload' = [payload EXCEPT !["summary"] = CommonHeight(results)]
        /\ Goes("summary", IF CommonHeight(results) > lastHeight THEN "tentative"
                           ELSE "idle")
        /\ seen' = CHOOSE s \in {seen} \union {results[p] : p \in Pairs} :
                      \A p \in Pairs : s >= seen /\ s >= results[p]
  BY DEF PairsData
<1>2. seen' \in Payloads
  BY <1>1, SeenType DEF SnapshotTypes
<1> DEFINE h == CommonHeight(results)
<1>3. h \in Payloads \union {None}
  BY CommonType
<1>4. h > lastHeight => h \in Payloads
  BY <1>3, SnapshotConstants DEF SnapshotTypes, None, Payloads
<1> HIDE DEF h
<1>5. /\ payload' = [payload EXCEPT !["summary"] = h]
      /\ pc' = [pc EXCEPT !["summary"] = IF h > lastHeight THEN "tentative"
                                          ELSE "idle"]
  BY <1>1 DEF h, Goes
<1>6. UNCHANGED <<commitVars, redisVars, tentative, writes, raised, faults, historyVars>>
  BY DEF PairsData
<1>7. payload' \in [Kinds -> Payloads \union {None}] /\ pc' \in [Kinds -> Labels]
  BY <1>3, <1>5 DEF SnapshotTypes, Labels
<1>8. \A x \in Kinds :
          /\ pc'[x] \in CommitLabels => payload'[x] \in Payloads
          /\ pc'[x] = "write" => Expected(x)' \in DOMAIN chain'[x]
  BY <1>4, <1>5, <1>6 DEF SnapshotTypes, Kinds, CommitLabels, Expected, commitVars
<1> QED
  BY <1>2, <1>6, <1>7, <1>8 DEF SnapshotTypes, historyVars, commitVars, redisVars

LEMMA LatestSummaryTypes ==
  ASSUME SnapshotTypes, LatestSummary PROVE SnapshotTypes'
<1>1. UNCHANGED <<commitVars, redisVars, tentative, writes, raised, seen, faults, historyVars>>
  BY DEF LatestSummary
<1>2. \/ \E e \in Entry : /\ payload' = [payload EXCEPT !["daily"] = e.cid]
                          /\ pc' = [pc EXCEPT !["daily"] = "stamp"]
      \/ payload' = payload /\ pc' = [pc EXCEPT !["daily"] = "idle"]
  <2>1. Newest(entries["summary"]) \subseteq Entry
    BY DEF SnapshotTypes, Newest, Kinds
  <2> QED
    BY <2>1 DEF LatestSummary, Goes
<1>3. /\ payload' \in [Kinds -> Payloads \union {None}] /\ pc' \in [Kinds -> Labels]
      /\ \A x \in Kinds :
            /\ pc'[x] \in CommitLabels => payload'[x] \in Payloads
            /\ pc'[x] = "write" => pc[x] = "write"
  BY <1>2 DEF SnapshotTypes, Labels, Kinds, CommitLabels, Entry
<1> QED
  BY <1>1, <1>3 DEF SnapshotTypes, historyVars, commitVars, redisVars, Expected

LEMMA SummaryStampTypes ==
  ASSUME SnapshotTypes, SummaryStamp PROVE SnapshotTypes'
<1>1. UNCHANGED <<commitVars, redisVars, localVars, seen, historyVars>>
  BY DEF SummaryStamp
<1>2. /\ pc["daily"] = "stamp" /\ faults' \in 0..MaxFaults
      /\ pc' = [pc EXCEPT !["daily"] = "tentative"] \/ pc' = [pc EXCEPT !["daily"] = "idle"]
  BY SnapshotConstants DEF SummaryStamp, Goes, Fails, SnapshotTypes
<1>3. /\ pc' \in [Kinds -> Labels]
      /\ \A x \in Kinds : /\ pc'[x] \in CommitLabels => pc[x] \in CommitLabels
                          /\ pc'[x] = "write" => pc[x] = "write"
  BY <1>2 DEF SnapshotTypes, Labels, Kinds, CommitLabels
<1> QED
  BY <1>1, <1>2, <1>3 DEF SnapshotTypes, historyVars, commitVars, redisVars, localVars, Expected

LEMMA ReadTentativeTypes ==
  ASSUME SnapshotTypes, NEW x \in Kinds, ReadTentative(x) PROVE SnapshotTypes'
<1>1. UNCHANGED <<commitVars, redisVars, payload, writes, raised, seen, faults, late>>
  BY DEF ReadTentative
<1>2. /\ pc[x] = "tentative" /\ pc' = [pc EXCEPT ![x] = "post"]
      /\ tentative' = [tentative EXCEPT ![x] = Len(chain[x])]
  BY DEF ReadTentative, Goes
<1>3. Len(chain[x]) \in 0..MaxBlocks
  <2>1. chain[x] \in Seq(Payloads) /\ queue[x] \in Seq(Payloads)
    BY DEF SnapshotTypes
  <2>2. Len(chain[x]) \in Nat /\ Len(queue[x]) \in Nat
    BY <2>1, LenProperties
  <2> QED
    BY <2>2, SnapshotConstants DEF SnapshotTypes
<1>4. /\ pc' \in [Kinds -> Labels] /\ tentative' \in [Kinds -> 0..MaxBlocks]
      /\ \A y \in Kinds :
            /\ pc'[y] \in CommitLabels => pc[y] \in CommitLabels
            /\ pc'[y] = "write" => pc[y] = "write" /\ tentative'[y] = tentative[y]
  BY <1>2, <1>3 DEF SnapshotTypes, Labels, CommitLabels
<1>5. behind' \in [Kinds -> BOOLEAN]
  <2>1. behind \in [Kinds -> BOOLEAN] /\ behind' = [behind EXCEPT ![x] = queue[x] # <<>>]
    BY DEF ReadTentative, SnapshotTypes
  <2>2. (queue[x] # <<>>) \in BOOLEAN
    OBVIOUS
  <2> QED
    BY <2>1, <2>2, Zenon
<1> QED
  BY <1>1, <1>4, <1>5 DEF SnapshotTypes, commitVars, redisVars, Expected

\* What Post does to the queue.
LEMMA Posted ==
  ASSUME SnapshotTypes, NEW x \in Kinds, Post(x)
  PROVE  /\ queue' \in [Kinds -> Seq(Payloads)]
         /\ \A y \in Kinds \ {x} : queue'[y] = queue[y]
         /\ Len(chain[x]) + Len(queue'[x]) <= MaxBlocks
         /\ \A i \in DOMAIN queue'[x] :
               \/ queue'[x][i] = payload[x]
               \/ i \in DOMAIN queue[x] /\ queue'[x][i] = queue[x][i]
         /\ \A i \in DOMAIN queue[x] :
               i \in DOMAIN queue'[x] /\ queue'[x][i] = queue[x][i]
         /\ pc'[x] = "wait" =>
               /\ Len(queue'[x]) \in DOMAIN queue'[x]
               /\ queue'[x][Len(queue'[x])] = payload[x]
<1>1. PICK n \in 0..3 : /\ Len(chain[x]) + Len(queue[x]) + n <= MaxBlocks
                        /\ Publish(x, n)
                        /\ pc'[x] = "wait" => n > 0
  <2>1. pc \in [Kinds -> Labels]
    BY DEF SnapshotTypes
  <2> QED
    <3>1. PICK n \in 0..3 :
            /\ Len(chain[x]) + Len(queue[x]) + n <= MaxBlocks
            /\ Publish(x, n)
            /\ \/ n = 1
               \/ pc' = [pc EXCEPT ![x] = "idle"] \/ n > 0
      BY DEF Post, Goes
    <3>2. pc'[x] = "wait" => n > 0
      BY <2>1, <3>1
    <3> QED
      BY <3>1, <3>2
<1>2. pc[x] = "post" /\ payload[x] \in Payloads /\ queue[x] \in Seq(Payloads)
  BY DEF Post, SnapshotTypes, CommitLabels
<1> DEFINE t == queue[x] \o [i \in 1..n |-> payload[x]]
<1>0. t = queue[x] \o [i \in 1..n |-> payload[x]] /\ n \in Nat
  OBVIOUS
<1> HIDE DEF t
<1>3. /\ t \in Seq(Payloads) /\ Len(t) = Len(queue[x]) + n
      /\ \A i \in DOMAIN t : \/ t[i] = payload[x]
                             \/ i \in DOMAIN queue[x] /\ t[i] = queue[x][i]
      /\ \A i \in DOMAIN queue[x] : i \in DOMAIN t /\ t[i] = queue[x][i]
      /\ n > 0 => Len(t) \in DOMAIN t /\ t[Len(t)] = payload[x]
  <2> DEFINE r == [i \in 1..n |-> payload[x]]
  <2>0. /\ r \in Seq(Payloads) /\ Len(r) = n /\ \A i \in 1..n : r[i] = payload[x]
        /\ t = queue[x] \o r
    BY <1>0, <1>2
  <2> HIDE DEF r
  <2>1. PICK s, p, u, v : s = queue[x] /\ p = payload[x] /\ u = r /\ v = t
    OBVIOUS
  <2>2. /\ s \in Seq(Payloads) /\ p \in Payloads /\ n \in Nat
        /\ u \in Seq(Payloads) /\ Len(u) = n /\ \A i \in 1..n : u[i] = p
        /\ v = s \o u
    BY <1>0, <1>2, <2>0, <2>1
  <2>3. /\ v \in Seq(Payloads) /\ Len(v) = Len(s) + n
        /\ \A i \in DOMAIN v : v[i] = p \/ (i \in DOMAIN s /\ v[i] = s[i])
        /\ \A i \in DOMAIN s : i \in DOMAIN v /\ v[i] = s[i]
        /\ n > 0 => Len(v) \in DOMAIN v /\ v[Len(v)] = p
    BY <2>2, Published
  <2> QED
    BY <2>1, <2>3
<1>4. queue' = [queue EXCEPT ![x] = t]
  BY <1>1 DEF Publish, t
<1>5. queue'[x] = t /\ queue' \in [Kinds -> Seq(Payloads)]
  BY <1>3, <1>4 DEF SnapshotTypes
<1>6. Len(chain[x]) \in Nat /\ Len(queue[x]) \in Nat
  BY LenProperties DEF SnapshotTypes
<1>7. Len(chain[x]) + Len(t) <= MaxBlocks
  <2>1. \A c, q \in Nat : c + q + n <= MaxBlocks => c + (q + n) <= MaxBlocks
    BY SnapshotConstants
  <2> QED
    BY <1>1, <1>3, <1>6, <2>1
<1> QED
  BY <1>1, <1>3, <1>4, <1>5, <1>7 DEF SnapshotTypes

LEMMA PostTypes ==
  ASSUME SnapshotTypes, NEW x \in Kinds, Post(x) PROVE SnapshotTypes'
<1>1. UNCHANGED <<chain, redisVars, localVars, seen, historyVars>>
  BY DEF Post
<1>2. /\ pc[x] = "post" /\ faults' \in 0..MaxFaults
      /\ pc' = [pc EXCEPT ![x] = "wait"] \/ pc' = [pc EXCEPT ![x] = "idle"]
  BY SnapshotConstants DEF Post, Goes, Fails, SnapshotTypes
<1>3. /\ pc' \in [Kinds -> Labels]
      /\ \A y \in Kinds : /\ pc'[y] \in CommitLabels => pc[y] \in CommitLabels
                          /\ pc'[y] = "write" => pc[y] = "write"
  BY <1>2 DEF SnapshotTypes, Labels, CommitLabels
<1>4. /\ queue' \in [Kinds -> Seq(Payloads)]
      /\ \A y \in Kinds : Len(chain[y]) + Len(queue'[y]) <= MaxBlocks
  BY Posted DEF SnapshotTypes
<1> QED
  BY <1>1, <1>2, <1>3, <1>4 DEF SnapshotTypes, historyVars, redisVars, localVars, Expected

\* What Assign does to the chain and to the queue.
LEMMA Assigned ==
  ASSUME SnapshotTypes, NEW x \in Kinds, Assign(x)
  PROVE  /\ queue' \in [Kinds -> Seq(Payloads)] /\ chain' \in [Kinds -> Seq(Payloads)]
         /\ \A y \in Kinds \ {x} : queue'[y] = queue[y] /\ chain'[y] = chain[y]
         /\ queue[x] # <<>> /\ 1 \in DOMAIN queue[x]
         /\ Len(chain'[x]) = Len(chain[x]) + 1 /\ Len(queue'[x]) = Len(queue[x]) - 1
         /\ DOMAIN chain[x] \subseteq DOMAIN chain'[x]
         /\ \A i \in DOMAIN chain[x] : chain'[x][i] = chain[x][i]
         /\ \A i \in DOMAIN chain'[x] \ DOMAIN chain[x] : chain'[x][i] = queue[x][1]
         /\ \A i \in DOMAIN queue'[x] :
               i + 1 \in DOMAIN queue[x] /\ queue'[x][i] = queue[x][i + 1]
<1>1. /\ queue[x] # <<>> /\ queue[x] \in Seq(Payloads) /\ chain[x] \in Seq(Payloads)
      /\ chain' = [chain EXCEPT ![x] = Append(chain[x], Head(queue[x]))]
      /\ queue' = [queue EXCEPT ![x] = Tail(queue[x])]
  BY DEF Assign, SnapshotTypes
<1>2. /\ Head(queue[x]) \in Payloads /\ Tail(queue[x]) \in Seq(Payloads)
      /\ Head(queue[x]) = queue[x][1]
      /\ Len(Tail(queue[x])) = Len(queue[x]) - 1
      /\ \A i \in 1..Len(Tail(queue[x])) : Tail(queue[x])[i] = queue[x][i + 1]
  BY <1>1, HeadTailProperties
<1>3. /\ Append(chain[x], Head(queue[x])) \in Seq(Payloads)
      /\ Len(Append(chain[x], Head(queue[x]))) = Len(chain[x]) + 1
      /\ \A i \in 1..Len(chain[x]) : Append(chain[x], Head(queue[x]))[i] = chain[x][i]
      /\ Append(chain[x], Head(queue[x]))[Len(chain[x]) + 1] = queue[x][1]
  BY <1>1, <1>2, AppendProperties
<1>4. /\ queue' \in [Kinds -> Seq(Payloads)] /\ chain' \in [Kinds -> Seq(Payloads)]
      /\ \A y \in Kinds \ {x} : queue'[y] = queue[y] /\ chain'[y] = chain[y]
      /\ chain'[x] = Append(chain[x], Head(queue[x])) /\ queue'[x] = Tail(queue[x])
  BY <1>1, <1>2, <1>3 DEF SnapshotTypes
<1>5. /\ DOMAIN chain[x] = 1..Len(chain[x]) /\ DOMAIN queue[x] = 1..Len(queue[x])
      /\ DOMAIN chain'[x] = 1..Len(chain'[x]) /\ DOMAIN queue'[x] = 1..Len(queue'[x])
      /\ Len(chain[x]) \in Nat /\ Len(queue[x]) \in Nat /\ Len(queue[x]) # 0
  BY <1>1, <1>4, LenProperties, EmptySeq
<1> QED
  BY <1>1, <1>2, <1>3, <1>4, <1>5

LEMMA AssignTypes ==
  ASSUME SnapshotTypes, NEW x \in Kinds, Assign(x) PROVE SnapshotTypes'
<1>1. UNCHANGED <<redisVars, pc, localVars, seen, faults, historyVars>>
  BY DEF Assign
<1>2. \A y \in Kinds : DOMAIN chain[y] \subseteq DOMAIN chain'[y]
  BY Assigned
<1>3. \A y \in Kinds : Len(chain'[y]) + Len(queue'[y]) <= MaxBlocks
  <2>1. Len(chain[x]) \in Nat /\ Len(queue[x]) \in Nat
    BY LenProperties DEF SnapshotTypes
  <2>2. \A c, q \in Nat : (c + 1) + (q - 1) = c + q
    OBVIOUS
  <2>3. Len(chain'[x]) = Len(chain[x]) + 1 /\ Len(queue'[x]) = Len(queue[x]) - 1
    BY Assigned
  <2>4. Len(chain'[x]) + Len(queue'[x]) = Len(chain[x]) + Len(queue[x])
    BY <2>1, <2>2, <2>3
  <2>5. \A y \in Kinds \ {x} : Len(chain'[y]) + Len(queue'[y]) <= MaxBlocks
    BY Assigned DEF SnapshotTypes
  <2>6. Len(chain'[x]) + Len(queue'[x]) <= MaxBlocks
    BY <2>4 DEF SnapshotTypes
  <2> QED
    BY <2>5, <2>6
<1>4. queue' \in [Kinds -> Seq(Payloads)] /\ chain' \in [Kinds -> Seq(Payloads)]
  BY Assigned
<1> QED
  BY <1>1, <1>2, <1>3, <1>4 DEF SnapshotTypes, historyVars, redisVars, localVars, Expected

LEMMA ConfirmedTypes ==
  ASSUME SnapshotTypes, NEW x \in Kinds, Confirmed(x) PROVE SnapshotTypes'
<1>1. UNCHANGED <<commitVars, redisVars, payload, tentative, raised, seen, historyVars>>
  BY DEF Confirmed
<1>2. /\ pc[x] = "wait" /\ Expected(x) \in DOMAIN chain[x]
      /\ faults' \in 0..MaxFaults
      /\ \/ pc' = [pc EXCEPT ![x] = "write"] /\ writes' = [writes EXCEPT ![x] = Writes(x)]
         \/ pc' = [pc EXCEPT ![x] = "idle"] /\ writes' = writes
  BY SnapshotConstants DEF Confirmed, Goes, Fails, SnapshotTypes
<1>3. Writes(x) \in SUBSET {"zset", "stamps", "payload", "last"}
  BY DEF Writes
<1>4. /\ pc' \in [Kinds -> Labels]
      /\ \A y \in Kinds :
            /\ pc'[y] \in CommitLabels => pc[y] \in CommitLabels
            /\ pc'[y] = "write" => pc[y] = "write" \/ y = x
  BY <1>2 DEF SnapshotTypes, Labels, CommitLabels
<1>5. writes' \in [Kinds -> SUBSET {"zset", "stamps", "payload", "last"}]
  <2>1. writes \in [Kinds -> SUBSET {"zset", "stamps", "payload", "last"}]
    BY DEF SnapshotTypes
  <2> QED
    BY <1>2, <1>3, <2>1
<1> QED
  BY <1>1, <1>2, <1>4, <1>5 DEF SnapshotTypes, historyVars, commitVars, redisVars, Expected

LEMMA GiveUpTypes ==
  ASSUME SnapshotTypes, NEW x \in Kinds, GiveUp(x) PROVE SnapshotTypes'
<1>1. UNCHANGED <<commitVars, redisVars, localVars, seen, faults, historyVars>>
  BY DEF GiveUp
<1>2. /\ pc' \in [Kinds -> Labels]
      /\ \A y \in Kinds : /\ pc'[y] \in CommitLabels => pc[y] \in CommitLabels
                          /\ pc'[y] = "write" => pc[y] = "write"
  BY DEF GiveUp, Goes, SnapshotTypes, Labels, CommitLabels
<1> QED
  BY <1>1, <1>2 DEF SnapshotTypes, historyVars, commitVars, redisVars, localVars, Expected

\* The entry that is written.
LEMMA NewEntryType ==
  ASSUME SnapshotTypes, NEW x \in Kinds, pc[x] = "write"
  PROVE  NewEntry(x) \in Entry /\ payload[x] \in Payloads
<1>1. /\ payload[x] \in Payloads /\ Expected(x) \in DOMAIN chain[x]
      /\ chain[x] \in Seq(Payloads) /\ queue[x] \in Seq(Payloads)
      /\ Len(chain[x]) + Len(queue[x]) <= MaxBlocks
  BY DEF SnapshotTypes, CommitLabels
<1>2. /\ chain[x] \in [1..Len(chain[x]) -> Payloads]
      /\ Len(chain[x]) \in Nat /\ Len(queue[x]) \in Nat
  BY <1>1, LenProperties
<1>3. Expected(x) \in DagHeights
  <2>1. \A c, q \in Nat : c + q <= MaxBlocks => c <= MaxBlocks
    BY SnapshotConstants
  <2>2. Expected(x) \in 1..Len(chain[x]) /\ Len(chain[x]) <= MaxBlocks
    BY <1>1, <1>2, <2>1
  <2> QED
    BY <1>2, <2>2, SnapshotConstants DEF DagHeights
<1> QED
  BY <1>1, <1>2, <1>3 DEF NewEntry, Entry

LEMMA WriteTypes ==
  ASSUME SnapshotTypes, NEW x \in Kinds, NEW w \in writes[x], Write(x, w)
  PROVE  SnapshotTypes'
<1>1. UNCHANGED <<commitVars, pc, payload, tentative, seen, behind>>
  BY DEF Write
<1>2. NewEntry(x) \in Entry /\ payload[x] \in Payloads
  BY NewEntryType DEF Write
<1>3. faults' \in 0..MaxFaults /\ raised' \in [Kinds -> BOOLEAN]
  <2>1. \/ faults' = faults /\ raised' = raised
        \/ /\ faults < MaxFaults /\ faults' = faults + 1
           /\ raised' = [raised EXCEPT ![x] = TRUE]
    BY DEF Write, Fails
  <2>2. faults' \in 0..MaxFaults
    BY <2>1, SnapshotConstants DEF SnapshotTypes
  <2>3. raised' \in [Kinds -> BOOLEAN]
    BY <2>1, Zenon DEF SnapshotTypes
  <2> QED
    BY <2>2, <2>3
<1>4. writes' \in [Kinds -> SUBSET {"zset", "stamps", "payload", "last"}]
  BY DEF Write, SnapshotTypes
<1>5. /\ entries' \in [Kinds -> SUBSET Entry] /\ stamps' \in SUBSET Payloads
      /\ lastHeight' \in Payloads \union {None}
  <2>1. NewEntry(x).cid \in Payloads
    BY <1>2 DEF Entry
  <2>2. entries' = entries
        \/ entries' = [entries EXCEPT ![x] = entries[x] \union {NewEntry(x)}]
    BY DEF Write, redisVars
  <2>3. stamps' = stamps \/ stamps' = stamps \union {NewEntry(x).cid}
    BY DEF Write, redisVars
  <2>4. lastHeight' = lastHeight \/ lastHeight' = payload[x]
    BY DEF Write, redisVars
  <2>5. entries' \in [Kinds -> SUBSET Entry]
    <3>1. entries \in [Kinds -> SUBSET Entry] /\ entries[x] \union {NewEntry(x)} \in SUBSET Entry
      BY <1>2 DEF SnapshotTypes
    <3> QED
      BY <2>2, <3>1
  <2> QED
    BY <1>2, <2>1, <2>3, <2>4, <2>5 DEF SnapshotTypes
<1>6. late' \in SUBSET (Kinds \X Entry)
  <2>1. late' = late \/ late' = late \union {<<x, NewEntry(x)>>}
    BY DEF Write
  <2> QED
    BY <1>2, <2>1 DEF SnapshotTypes
<1> QED
  BY <1>1, <1>3, <1>4, <1>5, <1>6 DEF SnapshotTypes, commitVars, Expected

LEMMA WrittenTypes ==
  ASSUME SnapshotTypes, NEW x \in Kinds, Written(x) PROVE SnapshotTypes'
<1>1. UNCHANGED <<commitVars, redisVars, payload, tentative, writes, seen, faults, historyVars>>
  BY DEF Written
<1>2. /\ pc[x] = "write" /\ raised' \in [Kinds -> BOOLEAN]
      /\ pc' = [pc EXCEPT ![x] = "idle"] \/ pc' = [pc EXCEPT ![x] = "prune"]
  BY DEF Written, Goes, SnapshotTypes
<1>3. /\ pc' \in [Kinds -> Labels]
      /\ \A y \in Kinds : /\ pc'[y] \in CommitLabels => pc[y] \in CommitLabels
                          /\ pc'[y] = "write" => pc[y] = "write"
  BY <1>2 DEF SnapshotTypes, Labels, CommitLabels
<1> QED
  BY <1>1, <1>2, <1>3 DEF SnapshotTypes, historyVars, commitVars, redisVars, Expected

LEMMA PruneTypes ==
  ASSUME SnapshotTypes, NEW x \in Kinds, Prune(x) PROVE SnapshotTypes'
<1>1. UNCHANGED <<commitVars, lastHeight, localVars, seen, historyVars>>
  BY DEF Prune
<1>2. faults' \in 0..MaxFaults
  BY SnapshotConstants DEF Prune, Fails, SnapshotTypes
<1>3. stamps' \in SUBSET Payloads
  BY DEF Prune, SnapshotTypes
<1>4. entries' \in [Kinds -> SUBSET Entry]
  <2>1. entries' = entries
        \/ \E R \in SUBSET entries[x] : entries' = [entries EXCEPT ![x] = entries[x] \ R]
    BY DEF Prune
  <2> QED
    BY <2>1 DEF SnapshotTypes
<1>5. /\ pc' \in [Kinds -> Labels]
      /\ \A y \in Kinds : /\ pc'[y] \in CommitLabels => pc[y] \in CommitLabels
                          /\ pc'[y] = "write" => pc[y] = "write"
  BY DEF Prune, Goes, SnapshotTypes, Labels, CommitLabels
<1> QED
  BY <1>1, <1>2, <1>3, <1>4, <1>5 DEF SnapshotTypes, historyVars, commitVars, localVars, Expected

LEMMA CrashTypes ==
  ASSUME SnapshotTypes, Crash PROVE SnapshotTypes'
<1>1. UNCHANGED <<commitVars, redisVars, seen, historyVars>>
  BY DEF Crash
<1>2. faults' \in 0..MaxFaults /\ 0 \in 0..MaxBlocks
  BY SnapshotConstants DEF Crash, Fails, SnapshotTypes
<1>3. /\ pc' = [y \in Kinds |-> "idle"] /\ payload' = [y \in Kinds |-> None]
      /\ tentative' = [y \in Kinds |-> 0] /\ writes' = [y \in Kinds |-> {}]
      /\ raised' = [y \in Kinds |-> FALSE]
  BY DEF Crash
<1>4. /\ pc' \in [Kinds -> Labels] /\ payload' \in [Kinds -> Payloads \union {None}]
      /\ tentative' \in [Kinds -> 0..MaxBlocks]
      /\ writes' \in [Kinds -> SUBSET {"zset", "stamps", "payload", "last"}]
      /\ raised' \in [Kinds -> BOOLEAN]
      /\ \A y \in Kinds : pc'[y] \notin CommitLabels /\ pc'[y] # "write"
  BY <1>2, <1>3 DEF Labels, CommitLabels
<1> QED
  BY <1>1, <1>2, <1>4 DEF SnapshotTypes, historyVars, commitVars, redisVars, Expected

LEMMA InitTypes ==
  ASSUME Init PROVE SnapshotTypes
<1>1. /\ queue = [x \in Kinds |-> <<>>] /\ chain = [x \in Kinds |-> <<>>]
      /\ entries = [x \in Kinds |-> {}] /\ stamps = {} /\ lastHeight = None
      /\ pc = [x \in Kinds |-> "idle"] /\ payload = [x \in Kinds |-> None]
      /\ tentative = [x \in Kinds |-> 0] /\ writes = [x \in Kinds |-> {}]
      /\ raised = [x \in Kinds |-> FALSE] /\ seen = 1 /\ faults = 0
      /\ behind = [x \in Kinds |-> FALSE] /\ late = {}
  BY DEF Init
<1>2. <<>> \in Seq(Payloads) /\ Len(<<>>) = 0
  BY EmptySeq
<1>3. /\ seen \in Payloads /\ faults \in 0..MaxFaults /\ 0 \in 0..MaxBlocks
      /\ 0 + 0 <= MaxBlocks
  BY <1>1, SnapshotConstants DEF Payloads
<1>4. \A x \in Kinds : Len(chain[x]) + Len(queue[x]) <= MaxBlocks
  BY <1>1, <1>2, <1>3
<1>5. /\ queue \in [Kinds -> Seq(Payloads)] /\ chain \in [Kinds -> Seq(Payloads)]
      /\ entries \in [Kinds -> SUBSET Entry] /\ tentative \in [Kinds -> 0..MaxBlocks]
  BY <1>1, <1>2, <1>3
<1>6. /\ pc \in [Kinds -> Labels] /\ payload \in [Kinds -> Payloads \union {None}]
      /\ writes \in [Kinds -> SUBSET {"zset", "stamps", "payload", "last"}]
      /\ raised \in [Kinds -> BOOLEAN]
      /\ \A x \in Kinds : pc[x] \notin CommitLabels /\ pc[x] # "write"
  BY <1>1 DEF Labels, CommitLabels
<1> QED
  BY <1>1, <1>3, <1>4, <1>5, <1>6 DEF SnapshotTypes

LEMMA NextTypes ==
  ASSUME SnapshotTypes, [Next]_vars PROVE SnapshotTypes'
<1>1. CASE UNCHANGED vars
  BY <1>1 DEF SnapshotTypes, vars, commitVars, redisVars, localVars, historyVars,
     Expected
<1>2. ASSUME NEW x \in Kinds, CommitAndList(x)
      PROVE  SnapshotTypes'
  BY <1>2, ReadTentativeTypes, PostTypes, ConfirmedTypes, GiveUpTypes, WriteTypes,
     WrittenTypes, PruneTypes DEF CommitAndList
<1>3. CASE V2PairsData
  BY <1>2, <1>3, PairsDataTypes DEF V2PairsData, Kinds
<1>4. CASE DailyStatsSnapshotter
  BY <1>2, <1>4, LatestSummaryTypes, SummaryStampTypes
     DEF DailyStatsSnapshotter, Kinds
<1> QED
  BY <1>1, <1>3, <1>4, NextCycleTypes, AssignTypes, CrashTypes DEF Next

\* The state of both coroutines, of the commit service and of the zsets has the
\* types they rely on, the heights predicted for a payload among them.
THEOREM TypeCorrect == Spec => []TypeOK
<1>1. Init => SnapshotTypes
  BY InitTypes
<1>2. SnapshotTypes /\ [Next]_vars => SnapshotTypes'
  BY NextTypes
<1>3. SnapshotTypes => TypeOK
  BY DEF SnapshotTypes, TypeOK
<1> QED
  BY <1>1, <1>2, <1>3, PTL DEF Spec

(***************************************************************************)
(* Payloads and heights                                                    *)
(***************************************************************************)
\* A project that the step does not concern, or whose coroutine is elsewhere.
LEMMA Unconcerned ==
  ASSUME NEW x \in Kinds, OwnPayload(x), Trails(x),
         \/ /\ pc'[x] = pc[x] /\ queue'[x] = queue[x] /\ chain'[x] = chain[x]
            /\ tentative'[x] = tentative[x] /\ payload'[x] = payload[x]
            /\ behind'[x] = behind[x]
         \/ pc'[x] \notin {"post", "wait", "write"}
  PROVE  OwnPayload(x)' /\ Trails(x)'
BY DEF OwnPayload, Trails, HeldFrom, Held, Expected

LEMMA PreparingPayloads ==
  ASSUME SnapshotTypes, PayloadsInv,
         NextCycle \/ PairsData \/ LatestSummary \/ SummaryStamp
  PROVE  PayloadsInv'
<1> SUFFICES ASSUME NEW x \in Kinds PROVE OwnPayload(x)' /\ Trails(x)'
  BY DEF PayloadsInv
<1>1. /\ OwnPayload(x) /\ Trails(x)
      /\ pc \in [Kinds -> Labels] /\ payload \in [Kinds -> Payloads \union {None}]
  BY DEF PayloadsInv, SnapshotTypes
<1>2. CASE NextCycle
  <2>1. pc'[x] \in {"pairs", "latest"}
    BY <1>2 DEF NextCycle
  <2> QED
    BY <1>1, <2>1, Unconcerned
<1>3. CASE PairsData \/ LatestSummary \/ SummaryStamp
  <2>1. queue' = queue /\ chain' = chain /\ tentative' = tentative /\ behind' = behind
    BY <1>3 DEF PairsData, LatestSummary, SummaryStamp, commitVars, localVars,
       historyVars
  <2>2. \/ pc'[x] = pc[x] /\ payload'[x] = payload[x]
        \/ pc'[x] \in {"tentative", "idle", "stamp"}
    BY <1>1, <1>3 DEF PairsData, LatestSummary, SummaryStamp, Goes, localVars, Kinds
  <2> QED
    BY <1>1, <2>1, <2>2, Unconcerned
<1> QED
  BY <1>2, <1>3

LEMMA CommittingPayloads ==
  ASSUME SnapshotTypes, PayloadsInv, NEW x \in Kinds,
         \/ ReadTentative(x) \/ Confirmed(x) \/ GiveUp(x)
         \/ (\E w \in writes[x] : Write(x, w)) \/ Written(x) \/ Prune(x)
  PROVE  PayloadsInv'
<1> SUFFICES ASSUME NEW y \in Kinds PROVE OwnPayload(y)' /\ Trails(y)'
  BY DEF PayloadsInv
<1>1. /\ OwnPayload(x) /\ OwnPayload(y) /\ Trails(x) /\ Trails(y)
      /\ pc \in [Kinds -> Labels] /\ tentative \in [Kinds -> 0..MaxBlocks]
      /\ behind \in [Kinds -> BOOLEAN] /\ Len(chain[x]) \in Nat
  BY LenProperties DEF PayloadsInv, SnapshotTypes
<1>2. queue' = queue /\ chain' = chain /\ payload' = payload
  BY DEF ReadTentative, Confirmed, GiveUp, Write, Written, Prune, commitVars,
         localVars
<1>3. /\ y # x => pc'[y] = pc[y] /\ tentative'[y] = tentative[y] /\ behind'[y] = behind[y]
      /\ \/ /\ pc[x] = "tentative" /\ pc'[x] = "post"
            /\ tentative'[x] = Len(chain[x]) /\ behind'[x] = (queue[x] # <<>>)
         \/ /\ pc[x] = "wait" /\ pc'[x] = "write"
            /\ tentative'[x] = tentative[x] /\ behind'[x] = behind[x]
         \/ /\ pc'[x] = pc[x]
            /\ tentative'[x] = tentative[x] /\ behind'[x] = behind[x]
         \/ pc'[x] \in {"idle", "prune"}
  <2>1. CASE ReadTentative(x)
    <3>1. /\ pc[x] = "tentative" /\ pc' = [pc EXCEPT ![x] = "post"]
          /\ tentative' = [tentative EXCEPT ![x] = Len(chain[x])]
          /\ behind' = [behind EXCEPT ![x] = (queue[x] # <<>>)]
      BY <2>1 DEF ReadTentative, Goes
    <3>2. behind'[x] = (queue[x] # <<>>) /\ (y # x => behind'[y] = behind[y])
      BY <1>1, <3>1, Zenon
    <3> QED
      BY <1>1, <3>1, <3>2
  <2>2. CASE Confirmed(x)
    BY <1>1, <2>2 DEF Confirmed, Goes, historyVars
  <2>3. CASE GiveUp(x)
    BY <1>1, <2>3 DEF GiveUp, Goes, localVars, historyVars
  <2>4. CASE \E w \in writes[x] : Write(x, w)
    BY <1>1, <2>4 DEF Write
  <2>5. CASE Written(x)
    BY <1>1, <2>5 DEF Written, Goes, historyVars
  <2>6. CASE Prune(x)
    BY <1>1, <2>6 DEF Prune, Goes, localVars, historyVars
  <2> QED
    BY <2>1, <2>2, <2>3, <2>4, <2>5, <2>6
<1>4. CASE y # x
  BY <1>1, <1>2, <1>3, <1>4, Unconcerned
<1>5. CASE y = x
  <2>1. CASE pc'[x] = "post" /\ tentative'[x] = Len(chain[x])
                             /\ behind'[x] = (queue[x] # <<>>)
    <3>1. ~behind'[x] => queue[x] = <<>>
      BY <2>1, Zenon
    <3>2. Len(chain[x]) \in Nat
      BY LenProperties DEF SnapshotTypes
    <3>3. OwnPayload(x)'
      <4>1. pc'[x] = "post" /\ tentative'[x] = Len(chain[x])
        BY <2>1
      <4> QED
        BY <1>2, <3>1, <4>1 DEF OwnPayload
    <3>4. Trails(x)'
      <4>1. pc'[x] = "post" /\ tentative'[x] = Len(chain[x])
        BY <2>1
      <4> QED
        BY <1>2, <3>2, <4>1 DEF Trails
    <3> QED
      BY <1>5, <3>3, <3>4
  <2>2. CASE /\ pc[x] = "wait" /\ pc'[x] = "write"
             /\ tentative'[x] = tentative[x] /\ behind'[x] = behind[x]
    <3>1. HeldFrom(x, Expected(x), payload[x])'
      BY <1>1, <1>2, <2>2 DEF Trails, HeldFrom, Held, Expected
    <3> QED
      BY <1>1, <1>2, <1>5, <2>2, <3>1 DEF OwnPayload, Trails
  <2>3. CASE \/ /\ pc'[x] = pc[x]
                /\ tentative'[x] = tentative[x] /\ behind'[x] = behind[x]
             \/ pc'[x] \in {"idle", "prune"}
    BY <1>1, <1>2, <1>5, <2>3, Unconcerned
  <2> QED
    BY <1>3, <2>1, <2>2, <2>3
<1> QED
  BY <1>4, <1>5

LEMMA PostPayloads ==
  ASSUME SnapshotTypes, PayloadsInv, NEW x \in Kinds, Post(x) PROVE PayloadsInv'
<1> SUFFICES ASSUME NEW y \in Kinds PROVE OwnPayload(y)' /\ Trails(y)'
  BY DEF PayloadsInv
<1>1. /\ OwnPayload(x) /\ OwnPayload(y) /\ Trails(x) /\ Trails(y)
      /\ pc \in [Kinds -> Labels] /\ chain[x] \in Seq(Payloads)
  BY DEF PayloadsInv, SnapshotTypes
<1>2. chain' = chain /\ tentative' = tentative /\ payload' = payload /\ behind' = behind
  BY DEF Post, localVars, historyVars
<1>3. /\ y # x => pc'[y] = pc[y] /\ queue'[y] = queue[y]
      /\ pc[x] = "post" /\ pc'[x] \in {"wait", "idle"}
  BY <1>1, Posted DEF Post, Goes
<1>4. CASE y # x
  BY <1>1, <1>2, <1>3, <1>4, Unconcerned
<1>5. CASE y = x
  <2>1. OwnPayload(x)'
    <3>1. CASE ~behind[x]
      <4>1. queue[x] = <<>> /\ tentative[x] = Len(chain[x])
        BY <1>1, <1>3, <3>1 DEF OwnPayload
      <4>2. \A i \in DOMAIN queue[x] : FALSE
        BY <4>1
      <4>3. \A i \in DOMAIN queue'[x] : queue'[x][i] = payload[x]
        BY <4>2, Posted
      <4>4. \A i \in DOMAIN chain[x] : ~ (i > tentative[x])
        BY <1>1, <4>1, LenProperties
      <4> QED
        BY <1>2, <1>3, <4>3, <4>4 DEF OwnPayload
    <3> QED
      BY <1>2, <3>1 DEF OwnPayload
  <2>2. Trails(x)'
    <3>1. CASE pc'[x] = "wait"
      <4>1. /\ Len(queue'[x]) \in DOMAIN queue'[x]
            /\ queue'[x][Len(queue'[x])] = payload[x]
        BY <1>1, <3>1, Posted
      <4>2. /\ Len(chain[x]) \in Nat /\ Len(queue'[x]) \in Nat /\ Len(queue'[x]) >= 1
            /\ tentative[x] <= Len(chain[x]) /\ tentative[x] \in 0..MaxBlocks
        <5>1. queue'[x] \in Seq(Payloads)
          BY Posted
        <5>2. DOMAIN queue'[x] = 1..Len(queue'[x]) /\ Len(queue'[x]) \in Nat
          BY <5>1, LenProperties
        <5> QED
          BY <1>1, <1>3, <4>1, <5>2, LenProperties DEF Trails, SnapshotTypes
      <4>3. PICK c \in Nat, q \in Nat, t \in Nat :
              c = Len(chain[x]) /\ q = Len(queue'[x]) /\ t = tentative[x]
        BY <4>2, SnapshotConstants
      <4>6. PICK n \in Nat : n = c + q
        OBVIOUS
      <4>4. n - Len(chain[x]) = Len(queue'[x]) /\ n >= tentative[x] + 1
        <5>1. q >= 1 /\ t <= c
          BY <4>2, <4>3
        <5>2. n - c = q /\ n >= t + 1
          BY <4>6, <5>1
        <5> QED
          BY <4>3, <5>2
      <4>5. HeldFrom(x, Expected(x), payload[x])'
        <5>1. /\ n >= tentative'[x] + 1
              /\ n - Len(chain'[x]) \in DOMAIN queue'[x]
              /\ queue'[x][n - Len(chain'[x])] = payload'[x]
          BY <1>2, <4>1, <4>4
        <5> QED
          BY <5>1 DEF HeldFrom, Held, Expected
      <4> QED
        BY <3>1, <4>5 DEF Trails
    <3>2. CASE pc'[x] # "wait"
      BY <1>3, <3>2 DEF Trails
    <3> QED
      BY <3>1, <3>2
  <2> QED
    BY <1>5, <2>1, <2>2
<1> QED
  BY <1>4, <1>5

\* The commit service gives the heights in the order of the queue, and what the
\* API publishes goes to its end: what has a place keeps it.
LEMMA HeldStays ==
  ASSUME SnapshotTypes, NEW x \in Kinds, NEW h \in Nat, NEW p, Held(x, h, p),
         \/ chain'[x] = chain[x] /\ queue'[x] = queue[x]
         \/ Post(x) \/ Assign(x)
  PROVE  Held(x, h, p)'
<1>1. chain[x] \in Seq(Payloads) /\ queue[x] \in Seq(Payloads)
  BY DEF SnapshotTypes
<1>2. CASE chain'[x] = chain[x] /\ queue'[x] = queue[x]
  BY <1>2 DEF Held
<1>3. CASE Post(x)
  <2>1. /\ chain' = chain
        /\ \A i \in DOMAIN queue[x] : i \in DOMAIN queue'[x] /\ queue'[x][i] = queue[x][i]
    BY <1>3, Posted DEF Post
  <2> QED
    BY <2>1 DEF Held
<1>4. CASE Assign(x)
  <2>1. /\ Len(chain[x]) \in Nat /\ DOMAIN chain[x] = 1..Len(chain[x])
        /\ Len(queue[x]) \in Nat /\ DOMAIN queue[x] = 1..Len(queue[x])
    BY <1>1, LenProperties
  <2>2. chain'[x] \in Seq(Payloads) /\ queue'[x] \in Seq(Payloads)
    BY <1>4, Assigned
  <2>3. /\ Len(chain'[x]) = Len(chain[x]) + 1 /\ Len(queue'[x]) = Len(queue[x]) - 1
        /\ DOMAIN chain'[x] = 1..Len(chain'[x]) /\ DOMAIN queue'[x] = 1..Len(queue'[x])
    BY <1>4, <2>2, Assigned, LenProperties
  <2>4. CASE h \in DOMAIN chain[x] /\ chain[x][h] = p
    <3>1. h \in DOMAIN chain'[x] /\ chain'[x][h] = chain[x][h]
      BY <1>4, <2>4, Assigned
    <3> QED
      BY <2>4, <3>1 DEF Held
  <2>5. CASE /\ h - Len(chain[x]) \in DOMAIN queue[x]
             /\ queue[x][h - Len(chain[x])] = p
    <3>1. CASE h = Len(chain[x]) + 1
      <4>1. h \in DOMAIN chain'[x] \ DOMAIN chain[x] /\ h - Len(chain[x]) = 1
        BY <2>1, <2>3, <3>1
      <4>2. chain'[x][h] = queue[x][1]
        BY <1>4, <4>1, Assigned
      <4> QED
        BY <2>5, <4>1, <4>2 DEF Held
    <3>2. CASE h # Len(chain[x]) + 1
      <4> DEFINE i == h - Len(chain'[x])
      <4>1. i \in DOMAIN queue'[x] /\ i + 1 = h - Len(chain[x])
        BY <2>1, <2>3, <2>5, <3>2
      <4> HIDE DEF i
      <4>2. queue'[x][i] = queue[x][i + 1]
        BY <1>4, <4>1, Assigned
      <4>3. queue'[x][i] = p
        BY <2>5, <4>1, <4>2
      <4> QED
        BY <4>1, <4>3 DEF Held, i
    <3> QED
      BY <3>1, <3>2
  <2> QED
    BY <2>4, <2>5 DEF Held
<1> QED
  BY <1>2, <1>3, <1>4

LEMMA HeldFromStays ==
  ASSUME SnapshotTypes, NEW x \in Kinds, NEW h, NEW p, HeldFrom(x, h, p),
         \/ chain'[x] = chain[x] /\ queue'[x] = queue[x]
         \/ Post(x) \/ Assign(x)
  PROVE  \E n \in Nat : n >= h /\ Held(x, n, p)'
<1>1. PICK n \in Nat : n >= h /\ Held(x, n, p)
  BY DEF HeldFrom
<1>2. Held(x, n, p)'
  BY <1>1, HeldStays
<1> QED
  BY <1>1, <1>2

LEMMA AssignPayloads ==
  ASSUME SnapshotTypes, PayloadsInv, NEW x \in Kinds, Assign(x) PROVE PayloadsInv'
<1> SUFFICES ASSUME NEW y \in Kinds PROVE OwnPayload(y)' /\ Trails(y)'
  BY DEF PayloadsInv
<1>1. OwnPayload(x) /\ OwnPayload(y) /\ Trails(x) /\ Trails(y)
  BY DEF PayloadsInv
<1>2. pc' = pc /\ tentative' = tentative /\ payload' = payload /\ behind' = behind
  BY DEF Assign, localVars, historyVars
<1>3. CASE y # x
  BY <1>1, <1>2, <1>3, Assigned, Unconcerned
<1>4. CASE y = x
  <2>1. OwnPayload(x)'
    <3>1. CASE ~behind[x] /\ pc[x] \in {"wait", "write"}
      <4>1. /\ \A i \in DOMAIN queue[x] : queue[x][i] = payload[x]
            /\ \A i \in DOMAIN chain[x] : i > tentative[x] => chain[x][i] = payload[x]
        BY <1>1, <3>1 DEF OwnPayload
      <4>2. ASSUME NEW i \in DOMAIN queue'[x]
            PROVE  queue'[x][i] = payload[x]
        <5>1. i + 1 \in DOMAIN queue[x] /\ queue'[x][i] = queue[x][i + 1]
          BY Assigned
        <5> QED
          BY <4>1, <5>1
      <4>3. ASSUME NEW i \in DOMAIN chain'[x], i > tentative[x]
            PROVE  chain'[x][i] = payload[x]
        <5>1. CASE i \in DOMAIN chain[x]
          <6>1. chain'[x][i] = chain[x][i]
            BY <5>1, Assigned
          <6> QED
            BY <4>1, <4>3, <5>1, <6>1
        <5>2. CASE i \notin DOMAIN chain[x]
          <6>1. chain'[x][i] = queue[x][1] /\ 1 \in DOMAIN queue[x]
            BY <5>2, Assigned
          <6> QED
            BY <4>1, <6>1
        <5> QED
          BY <5>1, <5>2
      <4> QED
        BY <1>2, <3>1, <4>2, <4>3 DEF OwnPayload
    <3>2. CASE ~behind[x] /\ pc[x] = "post"
      BY <1>1, <3>2, Assigned DEF OwnPayload
    <3> QED
      BY <1>2, <3>1, <3>2 DEF OwnPayload
  <2>2. Trails(x)'
    <3>1. pc[x] = "post" => tentative[x] <= Len(chain'[x])
      <4>1. /\ Len(chain'[x]) = Len(chain[x]) + 1 /\ Len(chain[x]) \in Nat
            /\ tentative[x] \in 0..MaxBlocks
        BY Assigned, LenProperties DEF SnapshotTypes
      <4> QED
        BY <1>1, <4>1, SnapshotConstants DEF Trails
    <3>2. ASSUME pc[x] \in {"wait", "write"}
          PROVE  HeldFrom(x, Expected(x), payload[x])'
      <4>1. PICK h, p : h = Expected(x) /\ p = payload[x]
        OBVIOUS
      <4>2. HeldFrom(x, h, p)
        BY <1>1, <3>2, <4>1 DEF Trails
      <4>3. \E n \in Nat : n >= h /\ Held(x, n, p)'
        BY <4>2, HeldFromStays
      <4>4. h = Expected(x)' /\ p = payload'[x]
        BY <1>2, <4>1 DEF Expected
      <4> QED
        BY <4>3, <4>4 DEF HeldFrom, Held
    <3> QED
      BY <1>2, <3>1, <3>2 DEF Trails
  <2> QED
    BY <1>4, <2>1, <2>2
<1> QED
  BY <1>3, <1>4

LEMMA NextPayloads ==
  ASSUME SnapshotTypes, PayloadsInv, [Next]_vars PROVE PayloadsInv'
<1>1. CASE UNCHANGED vars
  <2>1. /\ pc' = pc /\ queue' = queue /\ chain' = chain /\ tentative' = tentative
        /\ payload' = payload /\ behind' = behind
    BY <1>1 DEF vars, commitVars, localVars, historyVars
  <2> QED
    BY <2>1, Unconcerned DEF PayloadsInv
<1>2. ASSUME NEW x \in Kinds, CommitAndList(x)
      PROVE  PayloadsInv'
  BY <1>2, CommittingPayloads, PostPayloads DEF CommitAndList
<1>3. CASE V2PairsData
  BY <1>2, <1>3, PreparingPayloads DEF V2PairsData, Kinds
<1>4. CASE DailyStatsSnapshotter
  BY <1>2, <1>4, PreparingPayloads DEF DailyStatsSnapshotter, Kinds
<1>5. CASE Crash
  BY <1>5 DEF PayloadsInv, OwnPayload, Trails, Crash
<1> QED
  BY <1>1, <1>3, <1>4, <1>5, PreparingPayloads, AssignPayloads DEF Next

(***************************************************************************)
(* What is listed                                                          *)
(***************************************************************************)
\* What any step does to the chain and the queue of a project.
LEMMA QueueSteps ==
  ASSUME SnapshotTypes, [Next]_vars, NEW x \in Kinds
  PROVE  \/ chain'[x] = chain[x] /\ queue'[x] = queue[x]
         \/ Post(x) \/ Assign(x)
<1>1. CASE UNCHANGED vars
  BY <1>1 DEF vars, commitVars
<1>2. ASSUME NEW y \in Kinds, CommitAndList(y)
      PROVE  \/ chain'[x] = chain[x] /\ queue'[x] = queue[x]
             \/ Post(x) \/ Assign(x)
  <2>1. CASE Post(y)
    BY <2>1, Posted DEF Post
  <2>2. CASE ~Post(y)
    BY <1>2, <2>2 DEF CommitAndList, ReadTentative, Confirmed, GiveUp, Write, Written,
       Prune, commitVars
  <2> QED
    BY <2>1, <2>2
<1>3. ASSUME NEW y \in Kinds, Assign(y)
      PROVE  \/ chain'[x] = chain[x] /\ queue'[x] = queue[x]
             \/ Post(x) \/ Assign(x)
  BY <1>3, Assigned
<1>4. CASE NextCycle \/ Crash
  BY <1>4 DEF NextCycle, Crash, commitVars
<1>5. CASE V2PairsData
  BY <1>2, <1>5 DEF V2PairsData, PairsData, commitVars, Kinds
<1>6. CASE DailyStatsSnapshotter
  BY <1>2, <1>6 DEF DailyStatsSnapshotter, LatestSummary, SummaryStamp, commitVars, Kinds
<1> QED
  BY <1>1, <1>3, <1>4, <1>5, <1>6 DEF Next

\* Only Write adds an entry.
LEMMA EntrySteps ==
  ASSUME SnapshotTypes, [Next]_vars, NEW x \in Kinds, NEW e \in entries'[x]
  PROVE  e \in entries[x] \/ (pc[x] = "write" /\ e = NewEntry(x))
<1>0. entries \in [Kinds -> SUBSET Entry]
  BY DEF SnapshotTypes
<1>1. CASE entries' = entries
  BY <1>1
<1>2. ASSUME NEW y \in Kinds, CommitAndList(y)
      PROVE  e \in entries[x] \/ (pc[x] = "write" /\ e = NewEntry(x))
  <2>1. CASE Prune(y)
    BY <1>0, <2>1 DEF Prune
  <2>2. ASSUME NEW w \in writes[y], Write(y, w)
        PROVE  e \in entries[x] \/ (pc[x] = "write" /\ e = NewEntry(x))
    <3>1. pc[y] = "write"
      BY <2>2 DEF Write
    <3>2. entries' = entries \/ entries' = [entries EXCEPT ![y] = @ \union {NewEntry(y)}]
      BY <2>2 DEF Write, redisVars
    <3> QED
      BY <1>0, <3>1, <3>2
  <2>3. CASE ReadTentative(y) \/ Post(y) \/ Confirmed(y) \/ GiveUp(y) \/ Written(y)
    BY <1>1, <2>3 DEF ReadTentative, Confirmed, GiveUp, Post, Written, redisVars
  <2> QED
    BY <1>2, <2>1, <2>2, <2>3 DEF CommitAndList
<1>3. CASE UNCHANGED vars
  BY <1>1, <1>3 DEF vars, redisVars
<1>4. CASE NextCycle \/ Crash \/ \E y \in Kinds : Assign(y)
  BY <1>1, <1>4 DEF NextCycle, Crash, Assign, redisVars
<1>5. CASE V2PairsData
  BY <1>1, <1>2, <1>5 DEF V2PairsData, PairsData, redisVars, Kinds
<1>6. CASE DailyStatsSnapshotter
  BY <1>1, <1>2, <1>6 DEF DailyStatsSnapshotter, LatestSummary, SummaryStamp, redisVars,
     Kinds
<1> QED
  BY <1>3, <1>4, <1>5, <1>6 DEF Next

\* Heights that are given are not changed.
LEMMA ChainGrows ==
  ASSUME SnapshotTypes, [Next]_vars, NEW x \in Kinds, NEW h \in DOMAIN chain[x]
  PROVE  h \in DOMAIN chain'[x] /\ chain'[x][h] = chain[x][h]
BY QueueSteps, Assigned DEF Post

LEMMA NextTrail ==
  ASSUME SnapshotTypes, PayloadsInv, EntriesTrail, [Next]_vars PROVE EntriesTrail'
<1> SUFFICES ASSUME NEW x \in Kinds, NEW e \in entries'[x]
             PROVE  /\ e.dagHeight \in DOMAIN chain'[x]
                    /\ chain'[x][e.dagHeight] = e.cid
                    /\ \E n \in Nat : n >= e.dagHeight /\ Held(x, n, e.score)'
  BY DEF EntriesTrail, HeldFrom
<1>1. /\ e.dagHeight \in DOMAIN chain[x] /\ chain[x][e.dagHeight] = e.cid
      /\ HeldFrom(x, e.dagHeight, e.score)
  <2>1. CASE e \in entries[x]
    BY <2>1 DEF EntriesTrail
  <2>2. CASE pc[x] = "write" /\ e = NewEntry(x)
    BY <2>2 DEF SnapshotTypes, PayloadsInv, Trails, NewEntry
  <2> QED
    BY <2>1, <2>2, EntrySteps
<1>2. e.dagHeight \in DOMAIN chain'[x] /\ chain'[x][e.dagHeight] = e.cid
  BY <1>1, ChainGrows
<1>3. PICK h, p : h = e.dagHeight /\ p = e.score
  OBVIOUS
<1>4. HeldFrom(x, h, p)
  BY <1>1, <1>3
<1>5. \E n \in Nat : n >= h /\ Held(x, n, p)'
  BY <1>4, HeldFromStays, QueueSteps
<1> QED
  BY <1>2, <1>3, <1>5

\* An entry names the payload its coroutine has committed, if nothing waited to
\* be committed before it.
LEMMA NewEntryNames ==
  ASSUME SnapshotTypes, PayloadsInv, NEW x \in Kinds, pc[x] = "write"
  PROVE  /\ NewEntry(x).score = payload[x]
         /\ ~behind[x] => NewEntry(x).cid = payload[x]
<1>1. /\ ~behind[x] => \A i \in DOMAIN chain[x] :
                          i > tentative[x] => chain[x][i] = payload[x]
      /\ Expected(x) \in DOMAIN chain[x] /\ tentative[x] \in 0..MaxBlocks
  BY DEF PayloadsInv, OwnPayload, SnapshotTypes
<1>2. Expected(x) > tentative[x]
  BY <1>1, SnapshotConstants DEF Expected
<1> QED
  BY <1>1, <1>2 DEF NewEntry

\* What is mistaken stays so.
LEMMA MistakenStays ==
  ASSUME late \subseteq late' PROVE Mistaken \subseteq Mistaken'
BY DEF Mistaken

\* A step that lists nothing and prepares no other statistics.
LEMMA NothingListed ==
  ASSUME ListingInv, \A x \in Kinds : entries'[x] \subseteq entries[x], late' = late,
         ToBeListed' => ToBeListed /\ payload'["daily"] = payload["daily"]
  PROVE  ListingInv'
<1>1. "daily" \in Kinds /\ Mistaken' = Mistaken
  BY DEF Kinds, Mistaken
<1>2. EntryNamesItsPayload' /\ OneDailyPerSummary'
  BY <1>1 DEF ListingInv, EntryNamesItsPayload, OneDailyPerSummary
<1>3. DailyInv'
  BY <1>1 DEF ListingInv, DailyInv
<1> QED
  BY <1>2, <1>3 DEF ListingInv

LEMMA SummaryListing ==
  ASSUME SnapshotTypes, ListingInv, LatestSummary PROVE ListingInv'
<1>1. entries' = entries /\ writes' = writes /\ late' = late /\ pc \in [Kinds -> Labels]
      /\ payload \in [Kinds -> Payloads \union {None}]
      /\ pc["daily"] = "latest" /\ "daily" \in Kinds
  BY DEF LatestSummary, redisVars, historyVars, SnapshotTypes, Kinds
<1>2. CASE pc'["daily"] = "stamp"
  <2>1. PICK e \in Newest(entries["summary"]) :
          /\ \A f \in entries["daily"] : f.score < e.score
          /\ payload' = [payload EXCEPT !["daily"] = e.cid]
    BY <1>1, <1>2 DEF LatestSummary, Goes, Kinds
  <2>2. payload'["daily"] = e.cid
    BY <1>1, <2>1
  <2>3. e.score = e.cid \/ e.cid \in Mistaken
    <3>1. e.score = e.cid \/ <<"summary", e>> \in late
      BY DEF ListingInv, EntryNamesItsPayload, Newest, Kinds
    <3>2. ASSUME e.score # e.cid, <<"summary", e>> \in late
          PROVE  e.cid \in Mistaken
      <4> DEFINE y == <<"summary", e>>
      <4>1. y \in late /\ y[1] = "summary" /\ y[2] = e
        BY <3>2
      <4> HIDE DEF y
      <4>2. e \in {z[2] : z \in {u \in late : u[1] = "summary" /\ u[2].cid # u[2].score}}
        BY <3>2, <4>1
      <4> QED
        BY <4>2 DEF Mistaken
    <3> QED
      BY <3>1, <3>2
  <2>4. Mistaken' = Mistaken
    BY <1>1 DEF Mistaken
  <2>5. EntryNamesItsPayload' /\ OneDailyPerSummary'
    BY <1>1, <2>4 DEF ListingInv, EntryNamesItsPayload, OneDailyPerSummary
  <2>6. DailyInv'
    BY <1>1, <2>1, <2>2, <2>3, <2>4 DEF DailyInv
  <2> QED
    BY <2>5, <2>6 DEF ListingInv
<1>3. CASE pc'["daily"] # "stamp"
  <2>1. pc'["daily"] = "idle"
    BY <1>1, <1>3 DEF LatestSummary, Goes, Kinds
  <2> QED
    BY <1>1, <2>1, NothingListed DEF ToBeListed
<1> QED
  BY <1>2, <1>3

LEMMA OtherListing ==
  ASSUME SnapshotTypes, ListingInv,
         \/ NextCycle \/ PairsData \/ SummaryStamp \/ Crash
         \/ \E x \in Kinds : \/ ReadTentative(x) \/ Post(x) \/ Confirmed(x) \/ GiveUp(x)
                             \/ Written(x) \/ Prune(x) \/ Assign(x)
  PROVE  ListingInv'
<1>1. /\ pc \in [Kinds -> Labels] /\ payload \in [Kinds -> Payloads \union {None}]
      /\ writes \in [Kinds -> SUBSET {"zset", "stamps", "payload", "last"}]
      /\ entries \in [Kinds -> SUBSET Entry] /\ Kinds = {"summary", "daily"}
  BY DEF SnapshotTypes, Kinds
<1>2. CASE NextCycle
  <2>1. late' = late /\ entries' = entries /\ pc'["daily"] = "latest"
    BY <1>1, <1>2 DEF NextCycle, redisVars, historyVars
  <2> QED
    BY <2>1, NothingListed DEF ToBeListed
<1>3. CASE PairsData
  <2>1. /\ late' = late /\ entries' = entries /\ writes' = writes
        /\ pc'["daily"] = pc["daily"] /\ payload'["daily"] = payload["daily"]
    BY <1>1, <1>3 DEF PairsData, redisVars, historyVars, Goes
  <2> QED
    BY <2>1, NothingListed DEF ToBeListed
<1>4. CASE SummaryStamp
  <2>1. /\ late' = late /\ entries' = entries /\ payload' = payload
        /\ pc["daily"] = "stamp" /\ pc'["daily"] \in {"tentative", "idle"}
    BY <1>1, <1>4 DEF SummaryStamp, redisVars, historyVars, localVars, Goes
  <2> QED
    BY <2>1, NothingListed DEF ToBeListed
<1>5. CASE Crash
  <2>1. late' = late /\ entries' = entries /\ pc'["daily"] = "idle"
    BY <1>1, <1>5 DEF Crash, redisVars, historyVars
  <2> QED
    BY <2>1, NothingListed DEF ToBeListed
<1>6. ASSUME NEW x \in Kinds, ReadTentative(x) \/ Post(x) \/ GiveUp(x) \/ Assign(x)
      PROVE  ListingInv'
  <2>1. late' = late /\ entries' = entries /\ payload' = payload /\ writes' = writes
    BY <1>6 DEF ReadTentative, Post, GiveUp, Assign, redisVars, historyVars, localVars
  <2>2. \/ pc'["daily"] = pc["daily"]
        \/ pc'["daily"] = "idle"
        \/ pc["daily"] \in {"tentative", "post"} /\ pc'["daily"] \in {"post", "wait"}
    BY <1>1, <1>6 DEF ReadTentative, Post, GiveUp, Assign, Goes
  <2> QED
    BY <2>1, <2>2, NothingListed DEF ToBeListed
<1>7. ASSUME NEW x \in Kinds, Confirmed(x)
      PROVE  ListingInv'
  <2>1. late' = late /\ entries' = entries /\ payload' = payload
    BY <1>7 DEF Confirmed, redisVars, historyVars
  <2>2. \/ pc'["daily"] = pc["daily"] /\ writes'["daily"] = writes["daily"]
        \/ pc["daily"] = "wait"
    BY <1>1, <1>7 DEF Confirmed, Goes
  <2> QED
    BY <2>1, <2>2, NothingListed DEF ToBeListed
<1>8. ASSUME NEW x \in Kinds, Written(x)
      PROVE  ListingInv'
  <2>1. late' = late /\ entries' = entries /\ payload' = payload /\ writes' = writes
    BY <1>8 DEF Written, redisVars, historyVars
  <2>2. pc'["daily"] \in {pc["daily"], "idle", "prune"}
    BY <1>1, <1>8 DEF Written, Goes
  <2> QED
    BY <2>1, <2>2, NothingListed DEF ToBeListed
<1>9. ASSUME NEW x \in Kinds, Prune(x)
      PROVE  ListingInv'
  <2>1. \A y \in Kinds : entries'[y] \subseteq entries[y]
    <3>1. entries' = entries
          \/ \E R \in SUBSET entries[x] : entries' = [entries EXCEPT ![x] = entries[x] \ R]
      BY <1>9 DEF Prune
    <3> QED
      BY <1>1, <3>1
  <2>2. /\ late' = late /\ payload' = payload /\ writes' = writes
        /\ pc'["daily"] \in {pc["daily"], "idle"}
    BY <1>1, <1>9 DEF Prune, Goes, localVars, historyVars
  <2> QED
    BY <2>1, <2>2, NothingListed DEF ToBeListed
<1> QED
  BY <1>2, <1>3, <1>4, <1>5, <1>6, <1>7, <1>8, <1>9

LEMMA WriteListing ==
  ASSUME SnapshotTypes, PayloadsInv, ListingInv, NEW x \in Kinds,
         NEW w \in writes[x], Write(x, w)
  PROVE  ListingInv'
<1> DEFINE n == NewEntry(x)
<1>1. /\ pc[x] = "write" /\ pc' = pc /\ payload' = payload
      /\ writes' = [writes EXCEPT ![x] = writes[x] \ {w}]
  BY DEF Write
<1>2. /\ writes \in [Kinds -> SUBSET {"zset", "stamps", "payload", "last"}]
      /\ entries \in [Kinds -> SUBSET Entry] /\ n \in Entry
      /\ n.score = payload[x] /\ (~behind[x] => n.cid = payload[x])
  BY <1>1, NewEntryNames, NewEntryType DEF SnapshotTypes
<1>3. ToBeListed' => ToBeListed
  BY <1>1, <1>2 DEF ToBeListed, Kinds
<1>4. \/ entries' = entries /\ late' = late
      \/ /\ w = "zset" /\ entries' = [entries EXCEPT ![x] = entries[x] \union {n}]
         /\ late \subseteq late' /\ (behind[x] => <<x, n>> \in late')
  BY DEF Write, redisVars
<1> HIDE DEF n
<1>5. CASE entries' = entries /\ late' = late
  BY <1>1, <1>3, <1>5, NothingListed
<1>6. CASE /\ w = "zset" /\ entries' = [entries EXCEPT ![x] = entries[x] \union {n}]
           /\ late \subseteq late' /\ (behind[x] => <<x, n>> \in late')
  <2>1. \A y \in Kinds : \A e \in entries'[y] : e \in entries[y] \/ (y = x /\ e = n)
    BY <1>2, <1>6
  <2>2. n.score = n.cid \/ <<x, n>> \in late'
    BY <1>2, <1>6
  <2>3. EntryNamesItsPayload'
    BY <1>6, <2>1, <2>2 DEF ListingInv, EntryNamesItsPayload
  <2>4. Mistaken \subseteq Mistaken'
    BY <1>6, MistakenStays
  <2>5. CASE x = "daily"
    <3>1. ~ToBeListed' /\ ToBeListed
      BY <1>1, <1>2, <1>6, <2>5 DEF ToBeListed
    <3>2. n.score \in Mistaken \/ \A f \in entries["daily"] : f.score < n.score
      BY <1>2, <2>5, <3>1 DEF ListingInv, DailyInv
    <3>3. n.score \in Mistaken \/ \A f \in entries["daily"] : f.score # n.score
      <4>1. \A f \in entries["daily"] : f.score \in Nat /\ n.score \in Nat
        BY <1>2, SnapshotConstants DEF Entry, Payloads, Kinds
      <4> QED
        BY <3>2, <4>1
    <3>4. OneDailyPerSummary'
      BY <2>1, <2>4, <2>5, <3>3 DEF ListingInv, OneDailyPerSummary, Kinds
    <3> QED
      BY <2>3, <3>1, <3>4 DEF ListingInv, DailyInv
  <2>6. CASE x # "daily"
    <3>1. entries'["daily"] = entries["daily"]
      BY <1>2, <1>6, <2>6 DEF Kinds
    <3> QED
      BY <1>1, <1>3, <2>3, <2>4, <3>1 DEF ListingInv, DailyInv, OneDailyPerSummary
  <2> QED
    BY <2>5, <2>6
<1> QED
  BY <1>4, <1>5, <1>6

LEMMA NextListing ==
  ASSUME SnapshotTypes, PayloadsInv, ListingInv, [Next]_vars PROVE ListingInv'
<1>1. CASE UNCHANGED vars
  BY <1>1 DEF ListingInv, EntryNamesItsPayload, DailyInv, OneDailyPerSummary,
     ToBeListed, Mistaken, vars, redisVars, localVars, historyVars
<1>2. ASSUME NEW x \in Kinds, CommitAndList(x)
      PROVE  ListingInv'
  BY <1>2, OtherListing, WriteListing DEF CommitAndList
<1>3. CASE V2PairsData
  BY <1>2, <1>3, OtherListing DEF V2PairsData, Kinds
<1>4. CASE DailyStatsSnapshotter
  BY <1>2, <1>4, OtherListing, SummaryListing DEF DailyStatsSnapshotter, Kinds
<1> QED
  BY <1>1, <1>3, <1>4, OtherListing DEF Next

(***************************************************************************)
(* Theorems                                                                *)
(***************************************************************************)
SnapshotsInv == SnapshotTypes /\ PayloadsInv /\ EntriesTrail /\ ListingInv

LEMMA SnapshotsInvariant == Spec => []SnapshotsInv
<1>1. Init => SnapshotsInv
  <2>1. Init => PayloadsInv /\ EntriesTrail /\ ListingInv
    BY DEF Init, PayloadsInv, OwnPayload, Trails, EntriesTrail, ListingInv,
           EntryNamesItsPayload, DailyInv, ToBeListed, OneDailyPerSummary, Kinds
  <2> QED
    BY <2>1, InitTypes DEF SnapshotsInv
<1>2. SnapshotsInv /\ [Next]_vars => SnapshotsInv'
  BY NextTypes, NextPayloads, NextTrail, NextListing DEF SnapshotsInv
<1> QED
  BY <1>1, <1>2, PTL DEF Spec

\* A height is held where the chain and the queue after it have it.
LEMMA HeldIsCommitted ==
  ASSUME SnapshotTypes, NEW x \in Kinds, NEW n \in Nat, NEW p, Held(x, n, p)
  PROVE  n \in DOMAIN Committed(x) /\ Committed(x)[n] = p
<1> DEFINE c == chain[x]
           q == queue[x]
<1>1. c \in Seq(Payloads) /\ q \in Seq(Payloads)
  BY DEF SnapshotTypes
<1>2. /\ Len(c) \in Nat /\ DOMAIN c = 1..Len(c)
      /\ Len(q) \in Nat /\ DOMAIN q = 1..Len(q)
  BY <1>1, LenProperties
<1>3. \/ n \in DOMAIN c /\ c[n] = p
      \/ n - Len(c) \in DOMAIN q /\ q[n - Len(c)] = p
  BY DEF Held
<1> HIDE DEF c, q
<1>4. /\ c \o q \in Seq(Payloads) /\ Len(c \o q) = Len(c) + Len(q)
      /\ \A i \in 1 .. Len(c) + Len(q) : (c \o q)[i] = IF i <= Len(c) THEN c[i]
                                                       ELSE q[i - Len(c)]
  BY <1>1, ConcatProperties
<1>5. DOMAIN (c \o q) = 1 .. Len(c) + Len(q)
  BY <1>4, LenProperties
<1>6. n \in DOMAIN (c \o q) /\ (c \o q)[n] = p
  BY <1>2, <1>3, <1>4, <1>5
<1> QED
  BY <1>6 DEF Committed, c, q

\* Whatever the commit service has still to do when a height is guessed, an entry
\* has the CID of its height, and the payload it was written for is committed
\* there or above (v2_pairs_data, v2_pairs_daily_stats_snapshotter).
THEOREM EntriesTrailTheirPayload == Spec => []EntryTrailsItsPayload
<1>1. ASSUME SnapshotsInv PROVE EntryTrailsItsPayload
  <2> SUFFICES ASSUME NEW x \in Kinds, NEW e \in entries[x]
               PROVE  /\ e.dagHeight \in DOMAIN chain[x]
                      /\ chain[x][e.dagHeight] = e.cid
                      /\ \E h \in DOMAIN Committed(x) :
                            h >= e.dagHeight /\ Committed(x)[h] = e.score
    BY DEF EntryTrailsItsPayload
  <2>1. /\ e.dagHeight \in DOMAIN chain[x] /\ chain[x][e.dagHeight] = e.cid
        /\ HeldFrom(x, e.dagHeight, e.score)
    BY <1>1 DEF SnapshotsInv, EntriesTrail
  <2>2. PICK n \in Nat : n >= e.dagHeight /\ Held(x, n, e.score)
    BY <2>1 DEF HeldFrom
  <2>3. n \in DOMAIN Committed(x) /\ Committed(x)[n] = e.score
    BY <1>1, <2>2, HeldIsCommitted DEF SnapshotsInv
  <2> QED
    BY <2>1, <2>2, <2>3
<1> QED
  BY <1>1, SnapshotsInvariant, PTL

\* An entry names the payload it was written for although the height of the
\* payload was guessed before it was committed, unless commits of the project
\* were waiting at that moment: whatever else is committed twice, is given up or
\* fails (v2_pairs_data, v2_pairs_daily_stats_snapshotter).
THEOREM EntriesNameTheirPayload == Spec => []EntryNamesItsPayload
<1>1. SnapshotsInv => EntryNamesItsPayload
  BY DEF SnapshotsInv, ListingInv
<1> QED
  BY <1>1, SnapshotsInvariant, PTL

\* Statistics are listed once for a height, however often a cycle gives up on
\* them, is repeated or is cut short, unless a summary of another height has been
\* listed with the payload of theirs (v2_pairs_daily_stats_snapshotter).
THEOREM OneDailyIsListed == Spec => []OneDailyPerSummary
<1>1. SnapshotsInv => OneDailyPerSummary
  BY DEF SnapshotsInv, ListingInv
<1> QED
  BY <1>1, SnapshotsInvariant, PTL
=============================================================================
