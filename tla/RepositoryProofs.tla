--------------------------- MODULE RepositoryProofs ---------------------------
(***************************************************************************)
(* Repository implements AtomicCommands, for every set of aggregates,      *)
(* callers and commands, every Aggregate::handle and every bound.          *)
(***************************************************************************)
EXTENDS Repository, EventStoreProofs, SequenceTheorems, FiniteSetTheorems, TLAPS

(* The positions a stream lists lie in the log, and the k-th of them is    *)
(* at k or later: so no stream is longer than the log.                     *)
IndexInBounds ==
    \A id \in Ids : \A k \in 1..Len(streams[id]) :
       streams[id][k] \in k..Len(global)

(* The k-th envelope of a stream has revision k. *)
RevisionIsPosition ==
    \A id \in Ids : \A k \in 1..Len(streams[id]) :
       global[streams[id][k]].revision = k

(* A caller that is not idle executes a command, and has an outcome        *)
(* exactly when it is done.                                                *)
CallersAreConsistent ==
    \A c \in Callers :
       /\ pc[c] # "idle" => call[c] \in Calls
       /\ outcome[c] # "none" <=> pc[c] = "done"

IndInv ==
    /\ TypeOK
    /\ Len(global) <= MaxEvents
    /\ IndexInBounds
    /\ RevisionIsPosition
    /\ CallersAreConsistent
    /\ LoadedIsFaithful
    /\ SnapshotsAreFaithful

-------------------------------------------------------------------------------
(* Filtering a sequence by a final segment of its positions returns that   *)
(* segment.                                                                *)
LEMMA SelectAtSuffix ==
    ASSUME NEW s, NEW n \in Nat, NEW r \in 0..n
    PROVE  SelectAt(s, (r + 1)..n) = [j \in 1..(n - r) |-> s[r + j]]
<1> DEFINE K == (r + 1)..n
<1>1. Cardinality(K) = n - r
  <2>1. r + 1 \in Int /\ n \in Int
    OBVIOUS
  <2>2. Cardinality(K) = IF r + 1 > n THEN 0 ELSE n - (r + 1) + 1
    BY <2>1, FS_Interval, Zenon
  <2> HIDE DEF K
  <2> QED
    BY <2>2
<1>2. ASSUME NEW j \in 1..(n - r)
      PROVE  (CHOOSE k \in K : Cardinality({m \in K : m <= k}) = j) = r + j
  <2>1. ASSUME NEW k \in K
        PROVE  Cardinality({m \in K : m <= k}) = k - r
    <3>1. {m \in K : m <= k} = (r + 1)..k
      OBVIOUS
    <3>2. r + 1 \in Int /\ k \in Int /\ k >= r + 1
      OBVIOUS
    <3>3. Cardinality((r + 1)..k) = IF r + 1 > k THEN 0 ELSE k - (r + 1) + 1
      BY <3>2, FS_Interval, Zenon
    <3>4. Cardinality((r + 1)..k) = k - r
      BY <3>2, <3>3
    <3> QED
      BY <3>1, <3>4, Zenon
  <2>2. r + j \in K
    OBVIOUS
  <2>3. \A k \in K : Cardinality({m \in K : m <= k}) = j <=> k = r + j
    BY <2>1
  <2> HIDE DEF K
  <2> QED
    BY <2>2, <2>3
<1> HIDE DEF K
<1> DEFINE Pick(j) == CHOOSE k \in K : Cardinality({m \in K : m <= k}) = j
<1>3. SelectAt(s, K) = [j \in 1..(n - r) |-> s[Pick(j)]]
  BY <1>1, Zenon DEF SelectAt
<1>4. \A j \in 1..(n - r) : Pick(j) = r + j
  BY <1>2
<1> HIDE DEF Pick
<1>5. SelectAt(s, K) = [j \in 1..(n - r) |-> s[r + j]]
  BY <1>3, <1>4
<1> QED
  BY <1>5 DEF K

-------------------------------------------------------------------------------
(* No stream is longer than the log. *)
LEMMA StreamFitsLog ==
    ASSUME StoreTypeOK, IndexInBounds, NEW id \in Ids
    PROVE  Len(streams[id]) \in Nat /\ Len(global) \in Nat /\ Len(streams[id]) <= Len(global)
<1>1. Len(streams[id]) \in Nat /\ Len(global) \in Nat
  BY LenProperties DEF StoreTypeOK
<1>2. CASE Len(streams[id]) = 0
  BY <1>1, <1>2
<1>3. CASE Len(streams[id]) > 0
  <2>1. streams[id][Len(streams[id])] \in Len(streams[id])..Len(global)
    BY <1>1, <1>3 DEF IndexInBounds
  <2> QED
    BY <1>1, <2>1
<1> QED
  BY <1>1, <1>2, <1>3

(* An append keeps the index in step with the log. *)
LEMMA AppendKeepsIndex ==
    ASSUME StoreTypeOK, IndexInBounds, RevisionIsPosition, NEW id \in Ids, NEW expected,
           NEW payloads \in Seq(Payloads), AppendEvents(id, expected, payloads)
    PROVE  IndexInBounds' /\ RevisionIsPosition'
<1> DEFINE n == Len(payloads)
<1>1. n \in Nat
  BY LenProperties
<1>2. ASSUME NEW x \in Ids, NEW k \in 1..Len(streams'[x])
      PROVE  streams'[x][k] \in k..Len(global') /\ global'[streams'[x][k]].revision = k
  <2>1. /\ Len(streams[x]) \in Nat
        /\ Len(global) \in Nat
        /\ Len(streams[x]) <= Len(global)
        /\ Len(global') = Len(global) + n
    BY StreamFitsLog, AppendAdds
  <2>2. CASE k \in 1..Len(streams[x])
    <3>1. streams'[x][k] = streams[x][k]
      BY <2>2, AppendAdds
    <3>2. streams[x][k] \in k..Len(global) /\ global[streams[x][k]].revision = k
      BY <2>2 DEF IndexInBounds, RevisionIsPosition
    <3>3. global'[streams[x][k]] = global[streams[x][k]]
      <4>1. streams[x][k] \in 1..Len(global)
        BY <2>1, <2>2, <3>2
      <4> QED
        BY <4>1, AppendAdds
    <3> QED
      BY <1>1, <2>1, <3>1, <3>2, <3>3
  <2>3. CASE k \notin 1..Len(streams[x])
    <3>1. x = id
      BY <2>3, AppendAdds
    <3>2. Len(streams'[id]) = Len(streams[id]) + n
      BY AppendAdds
    <3>3. PICK j \in 1..n : k = Len(streams[id]) + j
      <4>1. k - Len(streams[id]) \in 1..n /\ k = Len(streams[id]) + (k - Len(streams[id]))
        BY <1>1, <2>1, <2>3, <3>1, <3>2
      <4> QED
        BY <4>1
    <3>4. streams'[id][Len(streams[id]) + j] = Len(global) + j
      BY AppendAdds
    <3>5. global'[Len(global) + j] = NewEnvelopes(id, payloads)[j]
      BY AppendAdds
    <3>6. NewEnvelopes(id, payloads)[j].revision = Len(streams[id]) + j
      BY DEF NewEnvelopes, ActualRevision
    <3> QED
      BY <1>1, <2>1, <3>1, <3>3, <3>4, <3>5, <3>6
  <2> QED
    BY <2>2, <2>3
<1> QED
  BY <1>2 DEF IndexInBounds, RevisionIsPosition

(* An append changes no prefix that existed, so what was faithful to a     *)
(* stream stays faithful to it.                                            *)
LEMMA AppendKeepsPrefixes ==
    ASSUME StoreTypeOK, IndexInBounds, NEW id \in Ids, NEW expected,
           NEW payloads \in Seq(Payloads), AppendEvents(id, expected, payloads),
           NEW x \in Ids
    PROVE  /\ Len(streams[x]) \in Nat
           /\ Len(streams'[x]) \in Nat
           /\ Len(streams[x]) <= Len(streams'[x])
           /\ \A k \in 1..Len(streams[x]) :
                 global'[streams'[x][k]].payload = global[streams[x][k]].payload
           /\ \A r \in 0..Len(streams[x]) : Prefix(x, r)' = Prefix(x, r)
<1>1. Len(payloads) \in Nat /\ Len(streams[x]) \in Nat /\ Len(global) \in Nat
  BY LenProperties, StreamFitsLog
<1>2. Len(streams'[x]) \in Nat /\ Len(streams[x]) <= Len(streams'[x])
  BY <1>1, AppendAdds
<1>3. ASSUME NEW k \in 1..Len(streams[x])
      PROVE  global'[streams'[x][k]].payload = global[streams[x][k]].payload
  <2>1. streams'[x][k] = streams[x][k]
    BY AppendAdds
  <2>2. streams[x][k] \in 1..Len(global)
    <3>1. streams[x][k] \in k..Len(global)
      BY DEF IndexInBounds
    <3> QED
      BY <1>1, <3>1
  <2>3. global'[streams[x][k]] = global[streams[x][k]]
    BY <2>2, AppendAdds
  <2> QED
    BY <2>1, <2>3
<1>4. ASSUME NEW r \in 0..Len(streams[x])
      PROVE  Prefix(x, r)' = Prefix(x, r)
  <2>1. \A k \in 1..r : k \in 1..Len(streams[x])
    BY <1>1
  <2> QED
    BY <1>3, <2>1 DEF Prefix
<1> QED
  BY <1>1, <1>2, <1>3, <1>4

(* A prefix of a stream is a sequence of payloads. *)
LEMMA PrefixType ==
    ASSUME StoreTypeOK, IndexInBounds, NEW id \in Ids, NEW r \in 0..Len(streams[id])
    PROVE  /\ Prefix(id, r) \in [1..r -> Payloads]
           /\ Prefix(id, r) \in Seq(Payloads)
           /\ Len(Prefix(id, r)) = r
<1>1. Len(streams[id]) \in Nat /\ Len(global) \in Nat /\ r \in Nat
  BY StreamFitsLog
<1>2. ASSUME NEW k \in 1..r
      PROVE  global[streams[id][k]].payload \in Payloads
  <2>1. k \in 1..Len(streams[id])
    BY <1>1
  <2>2. streams[id][k] \in k..Len(global)
    BY <2>1 DEF IndexInBounds
  <2>3. streams[id][k] \in 1..Len(global)
    BY <1>1, <2>2
  <2>4. global[streams[id][k]] \in Envelope
    BY <2>3, ElementOfSeq DEF StoreTypeOK
  <2> QED
    BY <2>4 DEF Envelope
<1>3. Prefix(id, r) \in [1..r -> Payloads]
  BY <1>2 DEF Prefix
<1> QED
  BY <1>1, <1>3, FunctionIsSeq

(* An append concatenates its payloads to the events of its aggregate and  *)
(* touches no other aggregate.                                             *)
LEMMA AppendExtendsCommitted ==
    ASSUME StoreTypeOK, IndexInBounds, RevisionIsPosition, NEW id \in Ids, NEW expected,
           NEW payloads \in Seq(Payloads), AppendEvents(id, expected, payloads)
    PROVE  /\ Committed(id)' = Committed(id) \o payloads
           /\ \A other \in Ids \ {id} : Committed(other)' = Committed(other)
<1> DEFINE n == Len(payloads)
           r == Len(streams[id])
<1>1. n \in Nat /\ r \in Nat /\ Len(global) \in Nat
  BY LenProperties, StreamFitsLog
<1>2. Len(streams'[id]) = r + n
  BY AppendAdds
<1>3. Committed(id) \in Seq(Payloads) /\ Len(Committed(id)) = r
  BY <1>1, PrefixType DEF Committed
<1>4. Committed(id)' \in Seq(Payloads) /\ Len(Committed(id)') = r + n
  <2>1. StoreTypeOK' /\ IndexInBounds'
    BY AppendAdds, AppendKeepsIndex
  <2>2. Committed(id)' = [k \in 1..(r + n) |-> global'[streams'[id][k]].payload]
    BY <1>2 DEF Committed, Prefix
  <2>3. ASSUME NEW k \in 1..(r + n)
        PROVE  global'[streams'[id][k]].payload \in Payloads
    <3>1. streams'[id][k] \in k..Len(global') /\ Len(global') \in Nat
      BY <1>1, <1>2, <2>1, AppendAdds DEF IndexInBounds
    <3>2. streams'[id][k] \in 1..Len(global')
      BY <1>1, <3>1
    <3>3. global'[streams'[id][k]] \in Envelope
      BY <2>1, <3>2, ElementOfSeq DEF StoreTypeOK
    <3> QED
      BY <3>3 DEF Envelope
  <2>4. Committed(id)' \in [1..(r + n) -> Payloads]
    BY <2>2, <2>3
  <2> QED
    BY <1>1, <2>4, FunctionIsSeq, SMTT(30)
<1>5. ASSUME NEW k \in 1..r
      PROVE  Committed(id)'[k] = Committed(id)[k]
  <2>1. k \in 1..Len(streams'[id])
    BY <1>1, <1>2
  <2>2. Committed(id)'[k] = global'[streams'[id][k]].payload
    BY <2>1 DEF Committed, Prefix
  <2>3. Committed(id)[k] = global[streams[id][k]].payload
    BY DEF Committed, Prefix
  <2> QED
    BY <2>2, <2>3, AppendKeepsPrefixes
<1>6. ASSUME NEW j \in 1..n
      PROVE  Committed(id)'[r + j] = payloads[j]
  <2>1. r + j \in 1..Len(streams'[id])
    BY <1>1, <1>2
  <2>2. Committed(id)'[r + j] = global'[streams'[id][r + j]].payload
    BY <2>1 DEF Committed, Prefix
  <2>3. streams'[id][r + j] = Len(global) + j
    BY AppendAdds
  <2>4. global'[Len(global) + j] = NewEnvelopes(id, payloads)[j]
    BY AppendAdds
  <2>5. NewEnvelopes(id, payloads)[j].payload = payloads[j]
    BY DEF NewEnvelopes
  <2> QED
    BY <2>2, <2>3, <2>4, <2>5
<1>7. Committed(id)' = Committed(id) \o payloads
  <2> DEFINE whole == Committed(id) \o payloads
             after == Committed(id)'
             before == Committed(id)
  <2>1. /\ whole \in Seq(Payloads)
        /\ Len(whole) = r + n
        /\ \A i \in 1..r : whole[i] = before[i]
        /\ \A j \in 1..n : whole[r + j] = payloads[j]
    <3>1. /\ before \o payloads \in Seq(Payloads)
          /\ Len(before \o payloads) = Len(before) + Len(payloads)
          /\ \A i \in 1..Len(before) : (before \o payloads)[i] = before[i]
          /\ \A j \in 1..Len(payloads) : (before \o payloads)[Len(before) + j] = payloads[j]
      <4>1. before \in Seq(Payloads) /\ payloads \in Seq(Payloads)
        BY <1>3
      <4> HIDE DEF before
      <4> QED
        BY <4>1, ConcatAt
    <3> QED
      BY <1>3, <3>1
  <2>2. after \in Seq(Payloads) /\ Len(after) = r + n
    BY <1>4
  <2>3. \A i \in 1..r : after[i] = before[i]
    BY <1>5
  <2>4. \A j \in 1..n : after[r + j] = payloads[j]
    BY <1>6
  <2> HIDE DEF whole, after, before, n, r
  <2>5. ASSUME NEW i \in 1..(r + n)
        PROVE  after[i] = whole[i]
    <3>1. CASE i \in 1..r
      BY <2>1, <2>3, <3>1
    <3>2. CASE i \notin 1..r
      <4>1. i - r \in 1..n /\ i = r + (i - r)
        BY <1>1, <3>2
      <4>2. after[r + (i - r)] = whole[r + (i - r)]
        BY <2>1, <2>4, <4>1
      <4> QED
        BY <4>1, <4>2
    <3> QED
      BY <3>1, <3>2
  <2>6. after = whole
    BY <2>1, <2>2, <2>5, SeqEqual
  <2> QED
    BY <2>6 DEF after, whole
<1>8. ASSUME NEW other \in Ids \ {id}
      PROVE  Committed(other)' = Committed(other)
  <2>1. streams'[other] = streams[other] /\ Len(streams[other]) \in Nat
    BY AppendAdds, StreamFitsLog
  <2>2. \A k \in 1..Len(streams[other]) :
           global'[streams'[other][k]].payload = global[streams[other][k]].payload
    BY AppendKeepsPrefixes
  <2> QED
    BY <2>1, <2>2 DEF Committed, Prefix
<1> QED
  BY <1>7, <1>8

-------------------------------------------------------------------------------
(* Folding a run of consecutive revisions into an aggregate. *)
LEMMA ApplyRun ==
    ASSUME NEW a \in LoadedAggregate, NEW envelopes \in Seq(Envelope),
           \A k \in 1..Len(envelopes) : envelopes[k].revision = a.revision + k
    PROVE  ApplyEnvelopes(a, envelopes) =
              [state |-> a.state \o [k \in 1..Len(envelopes) |-> envelopes[k].payload],
               revision |-> a.revision + Len(envelopes)]
<1>1. Len(envelopes) \in Nat /\ a.revision \in Nat
  BY LenProperties DEF LoadedAggregate
<1>2. (IF envelopes = <<>> THEN a.revision ELSE envelopes[Len(envelopes)].revision)
         = a.revision + Len(envelopes)
  <2>1. CASE envelopes = <<>>
    BY <1>1, <2>1
  <2>2. CASE envelopes # <<>>
    <3>1. Len(envelopes) \in 1..Len(envelopes)
      BY <1>1, <2>2, EmptySeq
    <3> QED
      BY <2>2, <3>1
  <2> QED
    BY <2>1, <2>2
<1> QED
  BY <1>2 DEF ApplyEnvelopes

(* load returns the stream's envelopes in revision order. *)
LEMMA LoadType ==
    ASSUME StoreTypeOK, IndexInBounds, RevisionIsPosition, NEW id \in Ids
    PROVE  /\ Load(id) \in Seq(Envelope)
           /\ Len(Load(id)) = Len(streams[id])
           /\ \A k \in 1..Len(streams[id]) :
                 /\ Load(id)[k] \in Envelope
                 /\ Load(id)[k].revision = k
                 /\ Load(id)[k].payload = Committed(id)[k]
<1>1. Len(streams[id]) \in Nat /\ Len(global) \in Nat
  BY StreamFitsLog
<1>2. ASSUME NEW k \in 1..Len(streams[id])
      PROVE  /\ Load(id)[k] \in Envelope
             /\ Load(id)[k].revision = k
             /\ Load(id)[k].payload = Committed(id)[k]
  <2>1. Load(id)[k] = global[streams[id][k]]
    BY DEF Load
  <2>2. streams[id][k] \in k..Len(global)
    BY DEF IndexInBounds
  <2>3. streams[id][k] \in 1..Len(global)
    BY <1>1, <2>2
  <2>4. global[streams[id][k]] \in Envelope
    BY <2>3, ElementOfSeq DEF StoreTypeOK
  <2> QED
    BY <2>1, <2>4 DEF RevisionIsPosition, Committed, Prefix
<1>3. Load(id) \in [1..Len(streams[id]) -> Envelope]
  BY <1>2 DEF Load
<1> QED
  BY <1>1, <1>2, <1>3, FunctionIsSeq

(* Replaying the stream gives its current state and revision. *)
LEMMA ReplayIsCurrent ==
    ASSUME StoreTypeOK, IndexInBounds, RevisionIsPosition, NEW id \in Ids
    PROVE  Replay(Load(id)) = [state |-> Committed(id), revision |-> Len(streams[id])]
<1> DEFINE n == Len(streams[id])
           stream == Load(id)
<1>1. n \in Nat
  BY StreamFitsLog
<1>2. NewAggregate \in LoadedAggregate
  BY EmptySeq DEF NewAggregate, LoadedAggregate
<1>3. /\ stream \in Seq(Envelope)
      /\ Len(stream) = n
      /\ \A k \in 1..n : stream[k].revision = k /\ stream[k].payload = Committed(id)[k]
  BY LoadType
<1> HIDE DEF stream
<1>4. \A k \in 1..Len(stream) : stream[k].revision = NewAggregate.revision + k
  BY <1>1, <1>3 DEF NewAggregate
<1>5. Replay(stream) =
         [state |-> NewAggregate.state \o [k \in 1..Len(stream) |-> stream[k].payload],
          revision |-> NewAggregate.revision + Len(stream)]
  BY <1>2, <1>3, <1>4, ApplyRun DEF Replay
<1>6. [k \in 1..Len(stream) |-> stream[k].payload] = Committed(id)
  BY <1>3 DEF Committed, Prefix
<1>7. Committed(id) \in Seq(Payloads)
  BY <1>1, PrefixType DEF Committed
<1>8. <<>> \o Committed(id) = Committed(id)
  BY <1>7, ConcatEmptySeq
<1>9. NewAggregate.state = <<>> /\ NewAggregate.revision + Len(stream) = n
  BY <1>1, <1>3 DEF NewAggregate
<1> QED
  BY <1>5, <1>6, <1>8, <1>9 DEF stream

(* Replaying the tail of the stream onto a snapshot of any of its earlier  *)
(* revisions gives its current state and revision.                         *)
LEMMA TailIsCurrent ==
    ASSUME StoreTypeOK, IndexInBounds, RevisionIsPosition, NEW id \in Ids,
           NEW a \in LoadedAggregate, Faithful(a, id)
    PROVE  ApplyEnvelopes(a, LoadAfterRevision(id, a.revision)) =
              [state |-> Committed(id), revision |-> Len(streams[id])]
<1> DEFINE n == Len(streams[id])
           r == a.revision
           stream == Load(id)
           tail == LoadAfterRevision(id, r)
           whole == Committed(id)
<1>1. n \in Nat /\ r \in Nat /\ r \in 0..n /\ r <= n
  BY StreamFitsLog DEF Faithful, LoadedAggregate
<1>2. /\ stream \in Seq(Envelope)
      /\ Len(stream) = n
      /\ \A k \in 1..n : /\ stream[k] \in Envelope
                         /\ stream[k].revision = k
                         /\ stream[k].payload = whole[k]
  BY LoadType
<1>3. tail = [j \in 1..(n - r) |-> stream[r + j]]
  <2>1. tail = SelectAt(stream, {k \in 1..Len(stream) : stream[k].revision > r})
    BY DEF LoadAfterRevision
  <2> HIDE DEF stream, n, r, tail
  <2>2. {k \in 1..Len(stream) : stream[k].revision > r} = (r + 1)..n
    BY <1>1, <1>2
  <2>3. SelectAt(stream, (r + 1)..n) = [j \in 1..(n - r) |-> stream[r + j]]
    BY <1>1, SelectAtSuffix
  <2> QED
    BY <2>1, <2>2, <2>3
<1> HIDE DEF stream, tail, n, r
<1>4. \A j \in 1..(n - r) : r + j \in 1..n
  BY <1>1
<1>5. /\ tail \in Seq(Envelope)
      /\ Len(tail) = n - r
      /\ \A j \in 1..(n - r) : tail[j].revision = r + j /\ tail[j].payload = whole[r + j]
  <2>1. tail \in [1..(n - r) -> Envelope] /\ n - r \in Nat
    BY <1>1, <1>2, <1>3, <1>4
  <2>2. tail \in Seq(Envelope) /\ Len(tail) = n - r
    BY <2>1, FunctionIsSeq
  <2>3. \A j \in 1..(n - r) : tail[j] = stream[r + j]
    BY <1>3
  <2> HIDE DEF whole
  <2> QED
    BY <1>2, <1>4, <2>2, <2>3
<1>6. ApplyEnvelopes(a, tail) =
         [state |-> a.state \o [k \in 1..Len(tail) |-> tail[k].payload],
          revision |-> r + Len(tail)]
  BY <1>5, ApplyRun DEF r
<1> DEFINE rest == [k \in 1..Len(tail) |-> tail[k].payload]
<1>7. a.state \in Seq(Payloads) /\ Len(a.state) = r /\ \A k \in 1..r : a.state[k] = whole[k]
  <2>1. a.state = Prefix(id, r) /\ r \in 0..Len(streams[id])
    BY DEF Faithful, r
  <2>2. Prefix(id, r) \in Seq(Payloads) /\ Len(Prefix(id, r)) = r
    BY <2>1, PrefixType
  <2>3. \A k \in 1..r : Prefix(id, r)[k] = Committed(id)[k]
    BY <1>1 DEF Prefix, Committed, n
  <2> QED
    BY <2>1, <2>2, <2>3
<1>8. rest \in Seq(Payloads) /\ Len(rest) = n - r /\ \A j \in 1..(n - r) : rest[j] = whole[r + j]
  <2>1. \A k \in 1..Len(tail) : tail[k].payload \in Payloads
    <3>1. \A k \in 1..Len(tail) : tail[k] \in Envelope
      BY <1>5, ElementOfSeq
    <3> QED
      BY <3>1 DEF Envelope
  <2>2. rest \in [1..Len(tail) -> Payloads] /\ Len(tail) \in Nat
    BY <2>1, <1>5, <1>1
  <2>3. rest \in Seq(Payloads) /\ Len(rest) = Len(tail)
    BY <2>2, FunctionIsSeq
  <2> HIDE DEF whole
  <2> QED
    BY <1>5, <2>3
<1>9. whole \in Seq(Payloads) /\ Len(whole) = n
  BY <1>1, PrefixType DEF Committed, n
<1> HIDE DEF rest, whole
<1>10. /\ a.state \o rest \in Seq(Payloads)
       /\ Len(a.state \o rest) = Len(a.state) + Len(rest)
       /\ \A i \in 1..Len(a.state) : (a.state \o rest)[i] = a.state[i]
       /\ \A j \in 1..Len(rest) : (a.state \o rest)[Len(a.state) + j] = rest[j]
  <2>1. a.state \in Seq(Payloads) /\ rest \in Seq(Payloads)
    BY <1>7, <1>8
  <2> QED
    BY <2>1, ConcatAt
<1>11. a.state \o rest = whole
  <2> DEFINE joined == a.state \o rest
  <2>1. joined \in Seq(Payloads) /\ Len(joined) = n
    BY <1>1, <1>7, <1>8, <1>10
  <2>2. \A i \in 1..r : joined[i] = whole[i]
    BY <1>7, <1>10
  <2>3. \A j \in 1..(n - r) : joined[r + j] = whole[r + j]
    BY <1>7, <1>8, <1>10
  <2> HIDE DEF joined
  <2>4. ASSUME NEW i \in 1..n
        PROVE  joined[i] = whole[i]
    <3>1. i \in 1..r \/ (i - r \in 1..(n - r) /\ i = r + (i - r))
      BY <1>1
    <3> QED
      BY <2>2, <2>3, <3>1
  <2>5. joined = whole
    BY <1>9, <2>1, <2>4, SeqEqual
  <2> QED
    BY <2>5 DEF joined
<1>12. r + Len(tail) = n
  BY <1>1, <1>5
<1> QED
  BY <1>6, <1>11, <1>12 DEF rest, tail, r, whole, n

(* handle on a faithful state answers with a verdict and payloads. *)
LEMMA DecisionType ==
    ASSUME StoreTypeOK, IndexInBounds, Len(global) <= MaxEvents, NEW id \in Ids,
           NEW a, Faithful(a, id), NEW command \in Commands
    PROVE  /\ Handle(a.state, command).ok \in BOOLEAN
           /\ Handle(a.state, command).events \in Seq(Payloads)
<1> DEFINE r == a.revision
<1>1. r \in 0..Len(streams[id]) /\ a.state = Prefix(id, r)
  BY DEF Faithful
<1>2. /\ Len(streams[id]) \in Nat /\ Len(global) \in Nat
      /\ Len(streams[id]) <= Len(global) /\ MaxEvents \in Nat
  BY StreamFitsLog, StoreAssumption
<1>3. r \in 0..MaxEvents
  BY <1>1, <1>2
<1>4. Prefix(id, r) \in [1..r -> Payloads]
  BY <1>1, PrefixType
<1> HIDE DEF r
<1>5. a.state \in UNION {[1..n -> Payloads] : n \in 0..MaxEvents}
  BY <1>1, <1>3, <1>4
<1>6. /\ Handle(a.state, command).ok \in BOOLEAN
      /\ Handle(a.state, command).events \in Batches
  BY <1>5, HandleAssumption
<1>7. Batches \subseteq Seq(Payloads)
  BY StoreAssumption, SeqDef DEF Batches
<1> QED
  BY <1>6, <1>7

(* What stays the same when a step leaves the store alone. *)
LEMMA StoreUnchanged ==
    ASSUME UNCHANGED storeVars
    PROVE  /\ StoreTypeOK' <=> StoreTypeOK
           /\ IndexInBounds' <=> IndexInBounds
           /\ RevisionIsPosition' <=> RevisionIsPosition
           /\ \A id \in Ids : Committed(id)' = Committed(id)
           /\ \A a, id : Faithful(a, id)' <=> Faithful(a, id)
BY DEF storeVars, StoreTypeOK, IndexInBounds, RevisionIsPosition, Committed, Prefix, Faithful

-------------------------------------------------------------------------------
(* Initially the invariant holds: nothing is stored and nobody runs. *)
LEMMA InitIndInv == Init => IndInv
<1> SUFFICES ASSUME Init PROVE IndInv
  OBVIOUS
<1>1. StoreTypeOK
  <2>1. <<>> \in Seq(Nat) /\ <<>> \in Seq(Envelope)
    BY EmptySeq
  <2> QED
    BY <2>1 DEF Init, StoreInit, StoreTypeOK
<1>2. \A id \in Ids : Len(streams[id]) = 0
  BY EmptySeq DEF Init, StoreInit
<1>3. TypeOK
  <2>1. NewAggregate \in LoadedAggregate
    BY EmptySeq DEF NewAggregate, LoadedAggregate
  <2> QED
    BY <1>1, <2>1 DEF Init, TypeOK, PCs, Outcomes
<1>4. Len(global) <= MaxEvents
  BY EmptySeq, StoreAssumption DEF Init, StoreInit
<1>5. IndexInBounds /\ RevisionIsPosition
  BY <1>2 DEF IndexInBounds, RevisionIsPosition
<1>6. CallersAreConsistent /\ LoadedIsFaithful /\ SnapshotsAreFaithful
  BY DEF Init, CallersAreConsistent, LoadedIsFaithful, SnapshotsAreFaithful
<1> QED
  BY <1>3, <1>4, <1>5, <1>6 DEF IndInv

(* Steps that leave the event store alone. *)
LEMMA QuietStep ==
    ASSUME IndInv, UNCHANGED storeVars,
           \/ \E c \in Callers :
                 \/ Invoke(c) \/ LoadStream(c) \/ LoadSnapshot(c) \/ LoadTail(c)
                 \/ RejectCommand(c) \/ ConflictCommand(c) \/ SaveSnapshot(c) \/ Finish(c)
           \/ ClearSnapshots
           \/ UNCHANGED vars
    PROVE  IndInv'
<1>1. StoreTypeOK /\ IndexInBounds /\ RevisionIsPosition
  BY DEF IndInv, TypeOK
<1>2. /\ StoreTypeOK' /\ IndexInBounds' /\ RevisionIsPosition'
      /\ Len(global') <= MaxEvents
      /\ \A a, id : Faithful(a, id)' <=> Faithful(a, id)
  BY <1>1, StoreUnchanged DEF IndInv, storeVars
<1>3. ASSUME NEW id \in Ids
      PROVE  /\ [state |-> Committed(id), revision |-> Len(streams[id])] \in LoadedAggregate
             /\ Faithful([state |-> Committed(id), revision |-> Len(streams[id])], id)
  <2>1. Len(streams[id]) \in Nat
    BY <1>1, StreamFitsLog
  <2>2. Prefix(id, Len(streams[id])) \in Seq(Payloads)
    BY <1>1, <2>1, PrefixType
  <2> QED
    BY <2>1, <2>2 DEF LoadedAggregate, Faithful, Committed
<1>4. NewAggregate \in LoadedAggregate
  BY EmptySeq DEF NewAggregate, LoadedAggregate
<1> USE DEF IndInv, TypeOK, CallersAreConsistent, LoadedIsFaithful, SnapshotsAreFaithful,
            PCs, Outcomes
<1>5. CASE \E c \in Callers : Invoke(c)
  <2>1. PICK c \in Callers : Invoke(c)
    BY <1>5
  <2>2. call' \in [Callers -> Calls \cup {NoCall}] /\ call'[c] \in Calls
    BY <2>1 DEF Invoke, Calls
  <2> QED
    BY <1>2, <2>1, <2>2 DEF Invoke
<1>6. CASE \E c \in Callers : LoadStream(c)
  <2>1. PICK c \in Callers : LoadStream(c)
    BY <1>6
  <2>2. call[c].id \in Ids
    BY <2>1 DEF LoadStream, Calls
  <2>3. loaded' = [loaded EXCEPT ![c] =
                      [state |-> Committed(call[c].id), revision |-> Len(streams[call[c].id])]]
    BY <1>1, <2>1, <2>2, ReplayIsCurrent DEF LoadStream
  <2>4. loaded' \in [Callers -> LoadedAggregate] /\ Faithful(loaded'[c], call[c].id)
    BY <1>3, <2>2, <2>3
  <2> QED
    BY <1>2, <2>1, <2>3, <2>4 DEF LoadStream
<1>7. CASE \E c \in Callers : LoadSnapshot(c)
  <2>1. PICK c \in Callers : LoadSnapshot(c)
    BY <1>7
  <2>2. call[c].id \in Ids
    BY <2>1 DEF LoadSnapshot, Calls
  <2>3. CASE snapshots[call[c].id] = NoSnapshot
    BY <1>2, <2>1, <2>3 DEF LoadSnapshot
  <2>4. CASE snapshots[call[c].id] # NoSnapshot
    <3>1. /\ snapshots[call[c].id] \in LoadedAggregate
          /\ Faithful(snapshots[call[c].id], call[c].id)
      BY <2>2, <2>4
    <3> QED
      BY <1>2, <2>1, <2>4, <3>1 DEF LoadSnapshot
  <2> QED
    BY <2>3, <2>4
<1>8. CASE \E c \in Callers : LoadTail(c)
  <2>1. PICK c \in Callers : LoadTail(c)
    BY <1>8
  <2>2. call[c].id \in Ids /\ loaded[c] \in LoadedAggregate /\ Faithful(loaded[c], call[c].id)
    BY <2>1 DEF LoadTail, Calls
  <2>3. loaded' = [loaded EXCEPT ![c] =
                      [state |-> Committed(call[c].id), revision |-> Len(streams[call[c].id])]]
    BY <1>1, <2>1, <2>2, TailIsCurrent DEF LoadTail
  <2>4. loaded' \in [Callers -> LoadedAggregate] /\ Faithful(loaded'[c], call[c].id)
    BY <1>3, <2>2, <2>3
  <2> QED
    BY <1>2, <2>1, <2>3, <2>4 DEF LoadTail
<1>9. CASE \E c \in Callers : RejectCommand(c) \/ ConflictCommand(c)
  BY <1>2, <1>9 DEF RejectCommand, ConflictCommand
<1>10. CASE \E c \in Callers : SaveSnapshot(c)
  <2>1. PICK c \in Callers : SaveSnapshot(c)
    BY <1>10
  <2>2. call[c].id \in Ids /\ loaded[c] \in LoadedAggregate /\ Faithful(loaded[c], call[c].id)
    BY <2>1 DEF SaveSnapshot, Calls
  <2> QED
    BY <1>2, <2>1, <2>2 DEF SaveSnapshot
<1>11. CASE \E c \in Callers : Finish(c)
  BY <1>2, <1>4, <1>11 DEF Finish
<1>12. CASE ClearSnapshots
  BY <1>2, <1>12 DEF ClearSnapshots
<1>13. CASE UNCHANGED vars
  BY <1>2, <1>13 DEF vars, repoVars
<1> QED
  BY <1>5, <1>6, <1>7, <1>8, <1>9, <1>10, <1>11, <1>12, <1>13

(* A commit: the caller's aggregate is the current state of its stream,    *)
(* and every other aggregate held stays faithful to its own.               *)
LEMMA CommitFacts ==
    ASSUME IndInv, NEW c \in Callers, CommitCommand(c)
    PROVE  /\ call[c] \in Calls
           /\ Decision(c).events \in Seq(Payloads)
           /\ loaded[c].revision = Len(streams[call[c].id])
           /\ loaded[c].state = Committed(call[c].id)
           /\ AppendEvents(call[c].id, Exact(loaded[c].revision), Decision(c).events)
<1>1. /\ call[c] \in Calls
      /\ Faithful(loaded[c], call[c].id)
      /\ AppendEvents(call[c].id, Exact(loaded[c].revision), Decision(c).events)
  BY DEF CommitCommand, IndInv, CallersAreConsistent, LoadedIsFaithful
<1>2. call[c].id \in Ids /\ call[c].command \in Commands
  BY <1>1 DEF Calls
<1>3. Decision(c).events \in Seq(Payloads)
  BY <1>1, <1>2, DecisionType DEF IndInv, TypeOK, Decision
<1>4. loaded[c].revision = Len(streams[call[c].id])
  BY <1>1 DEF AppendEvents, Satisfies, Exact, ActualRevision
<1>5. loaded[c].state = Committed(call[c].id)
  BY <1>1, <1>4 DEF Faithful, Committed
<1> QED
  BY <1>1, <1>3, <1>4, <1>5

(* Applying the committed envelopes to the current state gives the state   *)
(* after the commit.                                                       *)
LEMMA CommitApplies ==
    ASSUME StoreTypeOK, IndexInBounds, RevisionIsPosition, NEW id \in Ids, NEW expected,
           NEW payloads \in Seq(Payloads), AppendEvents(id, expected, payloads),
           NEW a \in LoadedAggregate, a.revision = Len(streams[id]), a.state = Committed(id),
           NEW b, b = ApplyEnvelopes(a, NewEnvelopes(id, payloads))
    PROVE  b \in LoadedAggregate /\ Faithful(b, id)'
<1> DEFINE envelopes == NewEnvelopes(id, payloads)
           n == Len(payloads)
           m == Len(streams[id])
<1>1. n \in Nat /\ m \in Nat /\ next_sequence \in Nat
  BY LenProperties, StreamFitsLog DEF StoreTypeOK
<1>2. \A k \in 1..n : payloads[k] \in Payloads
  BY ElementOfSeq
<1>3. envelopes \in [1..n -> Envelope]
  BY <1>1, <1>2 DEF NewEnvelopes, Envelope, ActualRevision
<1>4. envelopes \in Seq(Envelope) /\ Len(envelopes) = n
  BY <1>1, <1>3, FunctionIsSeq
<1>5. \A k \in 1..n : /\ envelopes[k].revision = a.revision + k
                      /\ envelopes[k].payload = payloads[k]
  BY DEF NewEnvelopes, ActualRevision
<1> HIDE DEF envelopes
<1>6. b = [state |-> a.state \o [k \in 1..Len(envelopes) |-> envelopes[k].payload],
           revision |-> a.revision + Len(envelopes)]
  <2>1. b = ApplyEnvelopes(a, envelopes)
    BY DEF envelopes
  <2>2. \A k \in 1..Len(envelopes) : envelopes[k].revision = a.revision + k
    BY <1>4, <1>5
  <2> QED
    BY <1>4, <2>1, <2>2, ApplyRun
<1>7. [k \in 1..Len(envelopes) |-> envelopes[k].payload] = payloads
  <2>1. payloads = [k \in 1..n |-> payloads[k]]
    BY LenProperties
  <2> HIDE DEF n
  <2> QED
    BY <1>4, <1>5, <2>1
<1>8. b = [state |-> Committed(id) \o payloads, revision |-> m + n]
  BY <1>4, <1>6, <1>7
<1>9. Committed(id)' = Committed(id) \o payloads
  BY AppendExtendsCommitted
<1>10. Len(streams'[id]) = m + n
  BY AppendAdds
<1>11. Committed(id) \o payloads \in Seq(Payloads)
  <2>1. Committed(id) \in Seq(Payloads)
    BY <1>1, PrefixType DEF Committed
  <2> QED
    BY <2>1, ConcatProperties
<1>12. b \in LoadedAggregate
  BY <1>1, <1>8, <1>11 DEF LoadedAggregate
<1>13. b.revision = m + n /\ b.state = Committed(id)'
  BY <1>8, <1>9
<1>14. Faithful(b, id)'
  <2>1. b.revision \in 0..Len(streams'[id])
    BY <1>1, <1>10, <1>13
  <2> QED
    BY <1>10, <1>13, <2>1 DEF Faithful, Committed, Prefix
<1> QED
  BY <1>12, <1>14

(* CommitCommand preserves the invariant. *)
LEMMA CommitStep ==
    ASSUME IndInv, NEW c \in Callers, CommitCommand(c)
    PROVE  IndInv'
<1>1. /\ StoreTypeOK /\ IndexInBounds /\ RevisionIsPosition
      /\ call[c] \in Calls /\ call[c].id \in Ids
      /\ Decision(c).events \in Seq(Payloads)
      /\ loaded[c] \in LoadedAggregate
  BY CommitFacts DEF IndInv, TypeOK, Calls
<1>2. PICK id \in Ids : id = call[c].id
  BY <1>1
<1>2a. PICK payloads \in Seq(Payloads) : payloads = Decision(c).events
  BY <1>1
<1>2b. PICK a \in LoadedAggregate : a = loaded[c]
  BY <1>1
<1>2c. PICK expected : expected = Exact(loaded[c].revision)
  OBVIOUS
<1>3. AppendEvents(id, expected, payloads)
  BY <1>2, <1>2a, <1>2c, CommitFacts
<1>4. StoreTypeOK' /\ IndexInBounds' /\ RevisionIsPosition'
  BY <1>1, <1>3, AppendAdds, AppendKeepsIndex
<1>5. Len(global') <= MaxEvents
  <2>1. Len(global') = Len(global) + Len(payloads)
    BY <1>1, <1>3, AppendAdds
  <2> QED
    BY <1>2a, <2>1 DEF CommitCommand
<1>6. \A x \in Ids : \A d : Faithful(d, x) => Faithful(d, x)'
  <2> TAKE x \in Ids
  <2> TAKE d
  <2> SUFFICES ASSUME Faithful(d, x) PROVE Faithful(d, x)'
    OBVIOUS
  <2>1. d.revision \in 0..Len(streams[x]) /\ d.state = Prefix(x, d.revision)
    BY DEF Faithful
  <2>2. /\ Len(streams[x]) \in Nat /\ Len(streams'[x]) \in Nat
        /\ Len(streams[x]) <= Len(streams'[x])
        /\ \A r \in 0..Len(streams[x]) : Prefix(x, r)' = Prefix(x, r)
    BY <1>1, <1>3, AppendKeepsPrefixes
  <2>3. d.revision \in 0..Len(streams'[x]) /\ Prefix(x, d.revision)' = d.state
    BY <2>1, <2>2
  <2> QED
    BY <2>3 DEF Faithful
<1>7. /\ ApplyEnvelopes(a, NewEnvelopes(id, payloads)) \in LoadedAggregate
      /\ \A b : b = ApplyEnvelopes(a, NewEnvelopes(id, payloads)) => Faithful(b, id)'
  <2>1. a.revision = Len(streams[id]) /\ a.state = Committed(id)
    BY <1>2, <1>2b, CommitFacts
  <2>2. ASSUME NEW b, b = ApplyEnvelopes(a, NewEnvelopes(id, payloads))
        PROVE  b \in LoadedAggregate /\ Faithful(b, id)'
    BY <1>1, <1>3, <2>1, <2>2, CommitApplies
  <2> QED
    BY <2>2
<1>8. /\ loaded' \in [Callers -> LoadedAggregate]
      /\ Faithful(loaded[c], id)'
      /\ \A d \in Callers \ {c} : loaded'[d] = loaded[d]
  <2>1. \/ loaded' = [loaded EXCEPT ![c] = ApplyEnvelopes(a, NewEnvelopes(id, payloads))]
        \/ loaded' = [loaded EXCEPT ![c] = a]
    BY <1>2, <1>2a, <1>2b DEF CommitCommand
  <2>2. Faithful(a, id)
    BY <1>2, <1>2b DEF IndInv, LoadedIsFaithful, CommitCommand
  <2>3. loaded \in [Callers -> LoadedAggregate]
    BY DEF IndInv, TypeOK
  <2>4. /\ loaded' \in [Callers -> LoadedAggregate]
        /\ \A d \in Callers \ {c} : loaded'[d] = loaded[d]
    BY <1>7, <2>1, <2>3
  <2>5. Faithful(loaded[c], id)'
    <3>1. loaded'[c] = a \/ loaded'[c] = ApplyEnvelopes(a, NewEnvelopes(id, payloads))
      BY <2>1, <2>3
    <3>2. PICK b : b = loaded'[c]
      OBVIOUS
    <3>3. Faithful(b, id)'
      BY <1>6, <1>7, <2>2, <3>1, <3>2
    <3> QED
      BY <3>2, <3>3
  <2> QED
    BY <2>4, <2>5
<1>9. /\ call' = call /\ snapshots' = snapshots
      /\ pc' = [pc EXCEPT ![c] = "done"]
      /\ outcome' = [outcome EXCEPT ![c] = "committed"]
  BY DEF CommitCommand
<1>10. TypeOK'
  BY <1>4, <1>8, <1>9 DEF IndInv, TypeOK, PCs, Outcomes
<1>11. CallersAreConsistent'
  BY <1>1, <1>9 DEF IndInv, TypeOK, CallersAreConsistent, PCs, Outcomes
<1>12. LoadedIsFaithful'
  <2> SUFFICES ASSUME NEW d \in Callers,
                      (pc[d] \in {"load_tail", "append"} \/ outcome[d] = "committed")'
               PROVE  Faithful(loaded[d], call[d].id)'
    BY DEF LoadedIsFaithful
  <2>1. CASE d = c
    BY <1>2, <1>8, <1>9, <2>1
  <2>2. CASE d # c
    <3>1. pc'[d] = pc[d] /\ outcome'[d] = outcome[d] /\ loaded'[d] = loaded[d]
      BY <1>8, <1>9, <2>2 DEF IndInv, TypeOK
    <3>2. pc[d] # "idle" /\ Faithful(loaded[d], call[d].id)
      BY <3>1 DEF IndInv, LoadedIsFaithful, CallersAreConsistent
    <3>3. call[d].id \in Ids
      BY <3>2 DEF IndInv, CallersAreConsistent, Calls
    <3> QED
      BY <1>6, <1>9, <3>1, <3>2, <3>3
  <2> QED
    BY <2>1, <2>2
<1>13. SnapshotsAreFaithful'
  BY <1>6, <1>9 DEF IndInv, SnapshotsAreFaithful
<1> QED
  BY <1>4, <1>5, <1>10, <1>11, <1>12, <1>13 DEF IndInv

(* Every step preserves the invariant. *)
LEMMA NextIndInv == IndInv /\ [Next]_vars => IndInv'
<1> SUFFICES ASSUME IndInv, [Next]_vars PROVE IndInv'
  OBVIOUS
<1>1. CASE \E c \in Callers : CommitCommand(c)
  BY <1>1, CommitStep
<1>2. CASE ~ \E c \in Callers : CommitCommand(c)
  <2>1. UNCHANGED storeVars
    BY <1>2 DEF Next, vars, Invoke, LoadStream, LoadSnapshot, LoadTail, RejectCommand,
                ConflictCommand, SaveSnapshot, Finish, ClearSnapshots
  <2> QED
    BY <1>2, <2>1, QuietStep DEF Next
<1> QED
  BY <1>1, <1>2

(* In every state the index matches the log and every aggregate held by a  *)
(* caller of the execute methods or by the snapshot store is the replay of *)
(* a prefix of its stream.                                                 *)
THEOREM IndInvHolds == Spec => []IndInv
BY InitIndInv, NextIndInv, PTL DEF Spec

-------------------------------------------------------------------------------
(* The refinement.  A step of caller c changes the abstract call of c only. *)
LEMMA OnlyCallerMoves ==
    ASSUME NEW c \in Callers,
           \A d \in Callers \ {c} : /\ pc'[d] = pc[d] /\ call'[d] = call[d]
                                    /\ loaded'[d] = loaded[d] /\ outcome'[d] = outcome[d]
    PROVE  AbstractCall' = [AbstractCall EXCEPT ![c] = AbstractCall'[c]]
<1>1. ASSUME NEW d \in Callers \ {c}
      PROVE  AbstractCall'[d] = AbstractCall[d]
  <2>1. CallStatus(d)' = CallStatus(d)
    BY DEF CallStatus, Decision
  <2> QED
    BY <2>1 DEF AbstractCall
<1>2. /\ AbstractCall = [d \in Callers |-> AbstractCall[d]]
      /\ AbstractCall' = [d \in Callers |-> AbstractCall'[d]]
  BY DEF AbstractCall
<1> HIDE DEF AbstractCall
<1> QED
  BY <1>1, <1>2

(* The abstract call of a caller, phase by phase. *)
AbstractCallByPhase ==
    \A c \in Callers :
       /\ pc[c] = "idle" => AbstractCall[c] = Atomic!Idle
       /\ pc[c] # "idle" =>
             AbstractCall[c] = Atomic!Calling(CallStatus(c), call[c].id, call[c].command)
       /\ pc[c] \in {"load", "load_snapshot", "load_tail"} => CallStatus(c) = "pending"
       /\ pc[c] = "append" => CallStatus(c) = IF Decision(c).ok THEN "pending" ELSE "rejected"
       /\ outcome[c] = "committed" => CallStatus(c) = "committed"
       /\ outcome[c] = "concurrency_error" => CallStatus(c) = "conflict"
       /\ outcome[c] = "domain_error" => CallStatus(c) = "rejected"
       /\ CallStatus(c) # "idle"

(* What AbstractCall is in each phase of a call. *)
LEMMA AbstractCallOf == IndInv => AbstractCallByPhase
<1> SUFFICES ASSUME IndInv, NEW c \in Callers
             PROVE  /\ pc[c] = "idle" => AbstractCall[c] = Atomic!Idle
                    /\ pc[c] # "idle" =>
                          AbstractCall[c] = Atomic!Calling(CallStatus(c), call[c].id, call[c].command)
                    /\ pc[c] \in {"load", "load_snapshot", "load_tail"} => CallStatus(c) = "pending"
                    /\ pc[c] = "append" =>
                          CallStatus(c) = IF Decision(c).ok THEN "pending" ELSE "rejected"
                    /\ outcome[c] = "committed" => CallStatus(c) = "committed"
                    /\ outcome[c] = "concurrency_error" => CallStatus(c) = "conflict"
                    /\ outcome[c] = "domain_error" => CallStatus(c) = "rejected"
                    /\ CallStatus(c) # "idle"
  BY DEF AbstractCallByPhase
<1>1. pc[c] # "done" => outcome[c] = "none"
  BY DEF IndInv, CallersAreConsistent
<1>2. /\ pc[c] \in {"load", "load_snapshot", "load_tail"} => CallStatus(c) = "pending"
      /\ pc[c] = "append" => CallStatus(c) = IF Decision(c).ok THEN "pending" ELSE "rejected"
      /\ outcome[c] = "committed" => CallStatus(c) = "committed"
      /\ outcome[c] = "concurrency_error" => CallStatus(c) = "conflict"
      /\ outcome[c] = "domain_error" => CallStatus(c) = "rejected"
      /\ CallStatus(c) # "idle"
  BY <1>1 DEF CallStatus
<1> QED
  BY <1>2 DEF AbstractCall, Atomic!Idle, Atomic!Calling

(* Loading is the instant at which a rejection takes effect. *)
LEMMA LoadRefines ==
    ASSUME IndInv, AbstractCallByPhase, AbstractCallByPhase', NEW c \in Callers,
           LoadStream(c) \/ LoadTail(c)
    PROVE  Atomic!Reject(c) \/ UNCHANGED Atomic!atomicVars
<1> DEFINE id == call[c].id
           command == call[c].command
           was == AbstractCall
           now == AbstractCall'
<1>1. /\ UNCHANGED storeVars /\ call' = call /\ outcome' = outcome
      /\ pc[c] \in {"load", "load_tail"} /\ pc' = [pc EXCEPT ![c] = "append"]
  BY DEF LoadStream, LoadTail
<1>2. /\ StoreTypeOK /\ IndexInBounds /\ RevisionIsPosition
      /\ call[c] \in Calls /\ id \in Ids /\ pc'[c] = "append"
      /\ pc[c] # "idle" /\ pc'[c] # "idle"
  BY <1>1 DEF IndInv, TypeOK, CallersAreConsistent, Calls
<1>3. loaded' = [loaded EXCEPT ![c] = [state |-> Committed(id), revision |-> Len(streams[id])]]
  <2>1. CASE LoadStream(c)
    BY <1>2, <2>1, ReplayIsCurrent DEF LoadStream
  <2>2. CASE LoadTail(c)
    <3>1. loaded[c] \in LoadedAggregate /\ Faithful(loaded[c], id)
      BY <2>2 DEF LoadTail, IndInv, TypeOK, LoadedIsFaithful
    <3> QED
      BY <1>2, <2>2, <3>1, TailIsCurrent DEF LoadTail
  <2> QED
    BY <2>1, <2>2
<1>4. now = [was EXCEPT ![c] = now[c]]
  <2>1. \A d \in Callers \ {c} : /\ pc'[d] = pc[d] /\ call'[d] = call[d]
                                 /\ loaded'[d] = loaded[d] /\ outcome'[d] = outcome[d]
    BY <1>1, <1>3 DEF IndInv, TypeOK
  <2> QED
    BY <2>1, OnlyCallerMoves
<1>5. was[c] = Atomic!Calling("pending", id, command)
  BY <1>1, <1>2 DEF AbstractCallByPhase
<1>6. Decision(c)' = Handle(Committed(id), command)
  BY <1>1, <1>3 DEF Decision, IndInv, TypeOK
<1>7. now[c] = Atomic!Calling(IF Handle(Committed(id), command).ok THEN "pending" ELSE "rejected",
                              id, command)
  BY <1>1, <1>2, <1>6 DEF AbstractCallByPhase
<1>8. AbstractLog' = AbstractLog /\ AbstractLog[id] = Committed(id)
  BY <1>1, <1>2, StoreUnchanged DEF AbstractLog
<1> HIDE DEF was, now, id, command
<1>9. was[c].status = "pending" /\ was[c].id = id /\ was[c].command = command
  BY <1>5 DEF Atomic!Calling
<1>10. CASE Handle(Committed(id), command).ok
  <2>1. now[c] = was[c]
    BY <1>5, <1>7, <1>10
  <2>2. now = was
    BY <1>4, <2>1 DEF was, AbstractCall
  <2> QED
    BY <1>8, <2>2 DEF Atomic!atomicVars, was, now
<1>11. CASE ~Handle(Committed(id), command).ok
  <2>1. now[c] = [was[c] EXCEPT !.status = "rejected"]
    BY <1>5, <1>7, <1>11 DEF Atomic!Calling
  <2>2. now = [was EXCEPT ![c].status = "rejected"]
    BY <1>4, <2>1
  <2> QED
    BY <1>8, <1>9, <1>11, <2>2 DEF Atomic!Reject, was, now
<1> QED
  BY <1>10, <1>11

(* The append is the instant at which a commit takes effect: the decision  *)
(* was taken on the state the append finds.                                *)
LEMMA CommitRefines ==
    ASSUME IndInv, AbstractCallByPhase, AbstractCallByPhase', NEW c \in Callers,
           CommitCommand(c)
    PROVE  Atomic!Commit(c)
<1> DEFINE was == AbstractCall
           now == AbstractCall'
<1>1. PICK id \in Ids : id = call[c].id
  BY CommitFacts DEF Calls
<1>2. PICK payloads \in Seq(Payloads) : payloads = Decision(c).events
  BY CommitFacts
<1>3. PICK expected : expected = Exact(loaded[c].revision)
  OBVIOUS
<1>4. AppendEvents(id, expected, payloads)
  BY <1>1, <1>2, <1>3, CommitFacts
<1>5. /\ Committed(id)' = Committed(id) \o payloads
      /\ \A other \in Ids \ {id} : Committed(other)' = Committed(other)
  BY <1>4, AppendExtendsCommitted DEF IndInv, TypeOK
<1>6. /\ pc[c] = "append" /\ Decision(c).ok /\ call' = call
      /\ pc' = [pc EXCEPT ![c] = "done"]
      /\ outcome' = [outcome EXCEPT ![c] = "committed"]
      /\ \A d \in Callers \ {c} : loaded'[d] = loaded[d]
  BY DEF CommitCommand, IndInv, TypeOK
<1>7. Decision(c) = Handle(Committed(id), call[c].command)
  BY <1>1, CommitFacts DEF Decision
<1>8. now = [was EXCEPT ![c] = now[c]]
  <2>1. \A d \in Callers \ {c} : /\ pc'[d] = pc[d] /\ call'[d] = call[d]
                                 /\ loaded'[d] = loaded[d] /\ outcome'[d] = outcome[d]
    BY <1>6 DEF IndInv, TypeOK
  <2> QED
    BY <2>1, OnlyCallerMoves
<1>9. was[c] = Atomic!Calling("pending", id, call[c].command)
  BY <1>1, <1>6 DEF AbstractCallByPhase
<1>10. now[c] = Atomic!Calling("committed", id, call[c].command)
  <2>1. pc'[c] # "idle" /\ outcome'[c] = "committed"
    BY <1>6 DEF IndInv, TypeOK
  <2> QED
    BY <1>1, <1>6, <2>1 DEF AbstractCallByPhase
<1>11. AbstractLog' = [AbstractLog EXCEPT ![id] = Committed(id) \o payloads]
  BY <1>5 DEF AbstractLog
<1>12. AbstractLog[id] = Committed(id)
  BY DEF AbstractLog
<1> HIDE DEF was, now
<1>13. was[c].status = "pending" /\ was[c].id = id /\ was[c].command = call[c].command
  BY <1>9 DEF Atomic!Calling
<1>14. now = [was EXCEPT ![c].status = "committed"]
  <2>1. now[c] = [was[c] EXCEPT !.status = "committed"]
    BY <1>9, <1>10 DEF Atomic!Calling
  <2> QED
    BY <1>8, <2>1
<1>15. payloads = Handle(AbstractLog[id], call[c].command).events
       /\ Handle(AbstractLog[id], call[c].command).ok
  BY <1>2, <1>6, <1>7, <1>12
<1>16. AbstractLog' = [AbstractLog EXCEPT ![id] = @ \o Handle(@, call[c].command).events]
  BY <1>11, <1>12, <1>15
<1> QED
  BY <1>13, <1>14, <1>15, <1>16 DEF Atomic!Commit, was, now

(* The steps around them. *)
LEMMA OtherRefines ==
    ASSUME IndInv, AbstractCallByPhase, AbstractCallByPhase', NEW c \in Callers,
           \/ Invoke(c) \/ LoadSnapshot(c) \/ RejectCommand(c)
           \/ ConflictCommand(c) \/ SaveSnapshot(c) \/ Finish(c)
    PROVE  \/ Atomic!Invoke(c) \/ Atomic!Conflict(c) \/ Atomic!Finish(c)
           \/ UNCHANGED Atomic!atomicVars
<1> DEFINE was == AbstractCall
           now == AbstractCall'
<1>1. UNCHANGED storeVars
  BY DEF Invoke, LoadSnapshot, RejectCommand, ConflictCommand, SaveSnapshot, Finish
<1>2. AbstractLog' = AbstractLog
  BY <1>1, StoreUnchanged DEF AbstractLog
<1>3. now = [was EXCEPT ![c] = now[c]]
  <2>1. \A d \in Callers \ {c} : /\ pc'[d] = pc[d] /\ call'[d] = call[d]
                                 /\ loaded'[d] = loaded[d] /\ outcome'[d] = outcome[d]
    BY DEF IndInv, TypeOK, Invoke, LoadSnapshot, RejectCommand, ConflictCommand,
           SaveSnapshot, Finish
  <2> QED
    BY <2>1, OnlyCallerMoves
<1>4. was = [was EXCEPT ![c] = was[c]]
  BY DEF AbstractCall
<1> HIDE DEF was, now
<1>5. ASSUME now[c] = was[c]
      PROVE  UNCHANGED Atomic!atomicVars
  <2>1. now = was
    BY <1>3, <1>4, <1>5
  <2> QED
    BY <1>2, <2>1 DEF Atomic!atomicVars, was, now
<1>6. CASE Invoke(c)
  <2>1. PICK id \in Ids, command \in Commands :
           /\ call'[c].id = id /\ call'[c].command = command
           /\ pc'[c] \in {"load", "load_snapshot"} /\ pc[c] = "idle"
    BY <1>6 DEF Invoke, IndInv, TypeOK
  <2>2. was[c] = Atomic!Idle /\ now[c] = Atomic!Calling("pending", id, command)
    BY <2>1 DEF AbstractCallByPhase, was, now
  <2> QED
    BY <1>2, <1>3, <2>2 DEF Atomic!Invoke, was, now
<1>7. CASE LoadSnapshot(c)
  <2>1. /\ pc[c] = "load_snapshot" /\ pc'[c] \in {"load", "load_tail"} /\ call' = call
    BY <1>7 DEF LoadSnapshot, IndInv, TypeOK
  <2>2. now[c] = was[c]
    BY <2>1 DEF AbstractCallByPhase, was, now
  <2> QED
    BY <1>5, <2>2
<1>8. CASE RejectCommand(c)
  <2>1. /\ pc[c] = "append" /\ ~Decision(c).ok /\ call' = call
        /\ outcome'[c] = "domain_error" /\ pc'[c] = "done"
    BY <1>8 DEF RejectCommand, IndInv, TypeOK
  <2>2. now[c] = was[c]
    BY <2>1 DEF AbstractCallByPhase, was, now
  <2> QED
    BY <1>5, <2>2
<1>9. CASE ConflictCommand(c)
  <2>1. /\ pc[c] = "append" /\ Decision(c).ok /\ call' = call
        /\ outcome'[c] = "concurrency_error" /\ pc'[c] = "done"
    BY <1>9 DEF ConflictCommand, IndInv, TypeOK
  <2>2. /\ was[c] = Atomic!Calling("pending", call[c].id, call[c].command)
        /\ now[c] = Atomic!Calling("conflict", call[c].id, call[c].command)
    BY <2>1 DEF AbstractCallByPhase, was, now
  <2>3. was[c].status = "pending" /\ now[c] = [was[c] EXCEPT !.status = "conflict"]
    BY <2>2 DEF Atomic!Calling
  <2>4. now = [was EXCEPT ![c].status = "conflict"]
    BY <1>3, <2>3
  <2> QED
    BY <1>2, <2>3, <2>4 DEF Atomic!Conflict, was, now
<1>10. CASE SaveSnapshot(c)
  <2>1. /\ pc' = pc /\ call' = call /\ loaded' = loaded /\ outcome' = outcome
    BY <1>10 DEF SaveSnapshot
  <2>2. now[c] = was[c]
    BY <2>1 DEF was, now, AbstractCall, CallStatus, Decision
  <2> QED
    BY <1>5, <2>2
<1>11. CASE Finish(c)
  <2>1. pc[c] # "idle" /\ pc'[c] = "idle"
    BY <1>11 DEF Finish, IndInv, TypeOK
  <2>2. /\ was[c] = Atomic!Calling(CallStatus(c), call[c].id, call[c].command)
        /\ CallStatus(c) # "idle"
        /\ now[c] = Atomic!Idle
    BY <2>1 DEF AbstractCallByPhase, was, now
  <2>3. was[c] # Atomic!Idle
    BY <2>2 DEF Atomic!Calling, Atomic!Idle
  <2>4. now = [was EXCEPT ![c] = Atomic!Idle]
    BY <1>3, <2>2
  <2> QED
    BY <1>2, <2>3, <2>4 DEF Atomic!Finish, was, now
<1> QED
  BY <1>6, <1>7, <1>8, <1>9, <1>10, <1>11

(* The repository implements AtomicCommands: concurrent commands on        *)
(* Repository::execute, execute_returning_state and execute_with_snapshot  *)
(* are serialized by the store's revision check.                           *)
THEOREM RepositoryIsAtomic == Spec => ImplementsAtomicCommands
<1>1. Init => Atomic!Init
  <2> SUFFICES ASSUME Init PROVE Atomic!Init
    OBVIOUS
  <2>1. ASSUME NEW id \in Ids
        PROVE  Committed(id) = <<>>
    <3>1. streams[id] = <<>> /\ Len(streams[id]) = 0
      BY EmptySeq DEF Init, StoreInit
    <3>2. Committed(id) \in Seq(Payloads) /\ Len(Committed(id)) = 0
      <4>1. StoreTypeOK /\ IndexInBounds
        BY InitIndInv DEF IndInv, TypeOK
      <4> QED
        BY <3>1, <4>1, PrefixType DEF Committed
    <3> QED
      BY <3>2, EmptySeq
  <2>2. AbstractLog = [id \in Ids |-> <<>>]
    BY <2>1 DEF AbstractLog
  <2>3. AbstractCall = [c \in Callers |-> [status |-> "idle"]]
    BY DEF Init, AbstractCall
  <2> QED
    BY <2>2, <2>3 DEF Atomic!Init, Atomic!Idle
<1>2. IndInv /\ AbstractCallByPhase /\ AbstractCallByPhase' /\ [Next]_vars
         => [Atomic!Next]_(Atomic!atomicVars)
  <2> SUFFICES ASSUME IndInv, AbstractCallByPhase, AbstractCallByPhase', [Next]_vars
               PROVE  [Atomic!Next]_(Atomic!atomicVars)
    OBVIOUS
  <2>1. CASE \E c \in Callers : LoadStream(c) \/ LoadTail(c)
    BY <2>1, LoadRefines DEF Atomic!Next
  <2>2. CASE \E c \in Callers : CommitCommand(c)
    BY <2>2, CommitRefines DEF Atomic!Next
  <2>3. CASE \E c \in Callers : \/ Invoke(c) \/ LoadSnapshot(c) \/ RejectCommand(c)
                                \/ ConflictCommand(c) \/ SaveSnapshot(c) \/ Finish(c)
    BY <2>3, OtherRefines DEF Atomic!Next
  <2>4. CASE ClearSnapshots \/ UNCHANGED vars
    <3>1. UNCHANGED <<storeVars, pc, call, loaded, outcome>>
      BY <2>4 DEF ClearSnapshots, vars, repoVars
    <3>2. AbstractLog' = AbstractLog
      BY <3>1, StoreUnchanged DEF AbstractLog
    <3>3. AbstractCall' = AbstractCall
      BY <3>1 DEF AbstractCall, CallStatus, Decision
    <3> QED
      BY <3>2, <3>3 DEF Atomic!atomicVars
  <2> QED
    BY <2>1, <2>2, <2>3, <2>4 DEF Next
<1> QED
  BY <1>1, <1>2, IndInvHolds, AbstractCallOf, PTL
     DEF Spec, ImplementsAtomicCommands, Atomic!Spec

-------------------------------------------------------------------------------
(* Store, snapshots and the locals of every execute call keep their types: *)
(* in particular no revision is ever negative or missing.                  *)
THEOREM TypeCorrect == Spec => []TypeOK
BY IndInvHolds, PTL DEF IndInv

(* What a caller is about to decide on, or was answered by                 *)
(* execute_returning_state, is the state of its stream at the revision it  *)
(* carries: see LoadedIsFaithful.                                          *)
THEOREM LoadsAreFaithful == Spec => []LoadedIsFaithful
BY IndInvHolds, PTL DEF IndInv

(* Every stored snapshot is a state its stream went through: see           *)
(* SnapshotsAreFaithful.                                                   *)
THEOREM SnapshotsHoldReplays == Spec => []SnapshotsAreFaithful
BY IndInvHolds, PTL DEF IndInv

(* Whatever the callers do, the index vectors and the log agree: see       *)
(* IndexMatchesLog.                                                        *)
THEOREM IndexStaysInStep == Spec => []IndexMatchesLog
<1>1. Init => StoreInv
  BY StoreInitInv DEF Init
<1>2. IndInv /\ StoreInv /\ [Next]_vars => StoreInv'
  <2> SUFFICES ASSUME IndInv, StoreInv, [Next]_vars PROVE StoreInv'
    OBVIOUS
  <2>1. ASSUME NEW c \in Callers, CommitCommand(c)
        PROVE  StoreInv'
    <3>1. /\ call[c].id \in Ids
          /\ Decision(c).events \in Seq(Payloads)
          /\ AppendEvents(call[c].id, Exact(loaded[c].revision), Decision(c).events)
      BY <2>1, CommitFacts DEF Calls
    <3> QED
      BY <3>1, AppendKeepsStoreInv
  <2>2. CASE ~ \E c \in Callers : CommitCommand(c)
    <3>1. UNCHANGED storeVars
      BY <2>2 DEF Next, vars, Invoke, LoadStream, LoadSnapshot, LoadTail, RejectCommand,
                  ConflictCommand, SaveSnapshot, Finish, ClearSnapshots
    <3> QED
      BY <3>1, StoreNextInv
  <2> QED
    BY <2>1, <2>2
<1>3. StoreInv => IndexMatchesLog
  BY DEF StoreInv, IndexMatchesLog
<1> QED
  BY <1>1, <1>2, <1>3, IndInvHolds, PTL DEF Spec

(* append answers WrongExpectedRevision only to a caller whose stream grew *)
(* after it was loaded.                                                    *)
THEOREM NoSpuriousConflict == Spec => ConflictsAreGenuine
<1>1. IndInv /\ [Next]_vars
         => [\A c \in Callers :
                outcome[c] = "none" /\ outcome'[c] = "concurrency_error"
                   => Len(streams[call[c].id]) > loaded[c].revision]_vars
  <2> SUFFICES ASSUME IndInv, Next, NEW c \in Callers,
                      outcome[c] = "none", outcome'[c] = "concurrency_error"
               PROVE  Len(streams[call[c].id]) > loaded[c].revision
    OBVIOUS
  <2>1. ConflictCommand(c)
    BY DEF Next, IndInv, TypeOK, Invoke, LoadStream, LoadSnapshot, LoadTail, RejectCommand,
           CommitCommand, ConflictCommand, SaveSnapshot, Finish, ClearSnapshots
  <2>2. Faithful(loaded[c], call[c].id) /\ call[c].id \in Ids
    BY <2>1 DEF ConflictCommand, IndInv, LoadedIsFaithful, CallersAreConsistent, Calls
  <2>3. loaded[c].revision # Len(streams[call[c].id])
    BY <2>1 DEF ConflictCommand, Satisfies, Exact, ActualRevision
  <2>4. Len(streams[call[c].id]) \in Nat
    BY <2>2, StreamFitsLog DEF IndInv, TypeOK
  <2> QED
    BY <2>2, <2>3, <2>4 DEF Faithful
<1> QED
  BY <1>1, IndInvHolds, PTL DEF Spec, ConflictsAreGenuine
===============================================================================
