--------------------------- MODULE EventStoreProofs ---------------------------
(***************************************************************************)
(* The event store keeps its three structures in step, and pages of its    *)
(* log are exact, for every set of ids and payloads and every bound, over  *)
(* any history of appends and clears.                                      *)
(***************************************************************************)
EXTENDS EventStore, SequenceTheorems, FiniteSetTheorems, TLAPS

(* The i-th envelope of the log has sequence i. *)
NumberedInOrder ==
    /\ next_sequence = Len(global) + 1
    /\ \A i \in 1..Len(global) : global[i].sequence = i

StoreInv ==
    /\ StoreTypeOK
    /\ StreamsIndexTheLog
    /\ LogIsIndexed
    /\ NumberedInOrder

-------------------------------------------------------------------------------
(* A function on 1..n is a sequence of length n. *)
LEMMA FunctionIsSeq ==
    ASSUME NEW S, NEW n \in Nat, NEW f \in [1..n -> S]
    PROVE  f \in Seq(S) /\ Len(f) = n
<1>1. f \in Seq(S)
  BY SeqDef
<1>2. DOMAIN f = 1..n /\ DOMAIN f = 1..Len(f) /\ Len(f) \in Nat
  BY <1>1, LenProperties
<1> QED
  BY <1>1, <1>2

(* A concatenation, position by position. *)
LEMMA ConcatAt ==
    ASSUME NEW S, NEW s \in Seq(S), NEW t \in Seq(S)
    PROVE  /\ s \o t \in Seq(S)
           /\ Len(s \o t) = Len(s) + Len(t)
           /\ \A i \in 1..Len(s) : (s \o t)[i] = s[i]
           /\ \A k \in 1..Len(t) : (s \o t)[Len(s) + k] = t[k]
<1>1. Len(s) \in Nat /\ Len(t) \in Nat
  BY LenProperties
<1> QED
  BY <1>1

-------------------------------------------------------------------------------
(* What an append does to the log and to every stream, position by         *)
(* position: it adds at the end and moves nothing.                         *)
LEMMA AppendAdds ==
    ASSUME StoreTypeOK, NEW id \in Ids, NEW expected,
           NEW payloads \in Seq(Payloads), AppendEvents(id, expected, payloads)
    PROVE  /\ StoreTypeOK'
           /\ Len(global') = Len(global) + Len(payloads)
           /\ \A i \in 1..Len(global) : global'[i] = global[i]
           /\ \A k \in 1..Len(payloads) :
                 global'[Len(global) + k] = NewEnvelopes(id, payloads)[k]
           /\ Len(streams'[id]) = Len(streams[id]) + Len(payloads)
           /\ \A k \in 1..Len(streams[id]) : streams'[id][k] = streams[id][k]
           /\ \A k \in 1..Len(payloads) :
                 streams'[id][Len(streams[id]) + k] = Len(global) + k
           /\ \A other \in Ids \ {id} : streams'[other] = streams[other]
<1> DEFINE envelopes == NewEnvelopes(id, payloads)
           indices == NewIndices(payloads)
           n == Len(payloads)
<1>1. n \in Nat /\ \A k \in 1..n : payloads[k] \in Payloads
  BY LenProperties, ElementOfSeq
<1>2. Len(global) \in Nat /\ Len(streams[id]) \in Nat /\ next_sequence \in Nat
  BY LenProperties DEF StoreTypeOK
<1>3. envelopes \in Seq(Envelope) /\ Len(envelopes) = n
  <2>1. envelopes \in [1..n -> Envelope]
    BY <1>1, <1>2, SMTT(30) DEF NewEnvelopes, Envelope, ActualRevision
  <2> QED
    BY <1>1, <2>1, FunctionIsSeq
<1>4. indices \in Seq(Nat) /\ Len(indices) = n /\ \A k \in 1..n : indices[k] = Len(global) + k
  <2>1. indices \in [1..n -> Nat] /\ \A k \in 1..n : indices[k] = Len(global) + k
    BY <1>1, <1>2 DEF NewIndices
  <2> QED
    BY <1>1, <2>1, FunctionIsSeq
<1>5. global' = global \o envelopes /\ global \in Seq(Envelope)
  BY DEF AppendEvents, StoreTypeOK
<1>6. /\ streams[id] \in Seq(Nat)
      /\ streams'[id] = streams[id] \o indices
      /\ streams' \in [Ids -> Seq(Nat)]
      /\ \A other \in Ids \ {id} : streams'[other] = streams[other]
  <2>1. streams[id] \in Seq(Nat) /\ streams[id] \o indices \in Seq(Nat)
    BY <1>4, ConcatProperties DEF StoreTypeOK
  <2> QED
    BY <2>1 DEF AppendEvents, StoreTypeOK
<1> HIDE DEF envelopes, indices
<1>7. /\ global' \in Seq(Envelope)
      /\ Len(global') = Len(global) + n
      /\ \A i \in 1..Len(global) : global'[i] = global[i]
      /\ \A k \in 1..n : global'[Len(global) + k] = envelopes[k]
  <2>0. global \in Seq(Envelope) /\ envelopes \in Seq(Envelope)
    BY <1>3, <1>5
  <2>1. /\ global \o envelopes \in Seq(Envelope)
        /\ Len(global \o envelopes) = Len(global) + Len(envelopes)
        /\ \A i \in 1..Len(global) : (global \o envelopes)[i] = global[i]
        /\ \A k \in 1..Len(envelopes) : (global \o envelopes)[Len(global) + k] = envelopes[k]
    BY <2>0, ConcatAt
  <2> QED
    BY <1>3, <1>5, <2>1, Zenon
<1>8. /\ Len(streams'[id]) = Len(streams[id]) + n
      /\ \A k \in 1..Len(streams[id]) : streams'[id][k] = streams[id][k]
      /\ \A k \in 1..n : streams'[id][Len(streams[id]) + k] = Len(global) + k
  <2>0. streams[id] \in Seq(Nat) /\ indices \in Seq(Nat)
    BY <1>4, <1>6
  <2>1. /\ Len(streams[id] \o indices) = Len(streams[id]) + Len(indices)
        /\ \A k \in 1..Len(streams[id]) : (streams[id] \o indices)[k] = streams[id][k]
        /\ \A k \in 1..Len(indices) : (streams[id] \o indices)[Len(streams[id]) + k] = indices[k]
    BY <2>0, ConcatAt
  <2> QED
    BY <1>4, <1>6, <2>1, Zenon
<1>9. next_sequence' \in Nat
  BY <1>1, <1>2 DEF AppendEvents
<1>10. StoreTypeOK'
  BY <1>6, <1>7, <1>9 DEF StoreTypeOK
<1> QED
  BY <1>6, <1>7, <1>8, <1>10 DEF envelopes

(* Nothing is stored: every structure is empty. *)
LEMMA EmptyStore ==
    ASSUME streams = [id \in Ids |-> <<>>], global = <<>>, next_sequence = 1
    PROVE  StoreInv
<1>1. Len(global) = 0 /\ \A id \in Ids : Len(streams[id]) = 0
  OBVIOUS
<1>2. StoreTypeOK
  BY DEF StoreTypeOK
<1> QED
  BY <1>1, <1>2 DEF StoreInv, StreamsIndexTheLog, LogIsIndexed, NumberedInOrder

(* An append keeps every part of the invariant. *)
LEMMA AppendKeepsStoreInv ==
    ASSUME StoreInv, NEW id \in Ids, NEW expected,
           NEW payloads \in Seq(Payloads), AppendEvents(id, expected, payloads)
    PROVE  StoreInv'
<1> DEFINE n == Len(payloads)
           L == Len(global)
           R == Len(streams[id])
<1>0. StoreTypeOK
  BY DEF StoreInv
<1>1. n \in Nat /\ L \in Nat /\ \A x \in Ids : Len(streams[x]) \in Nat
  BY <1>0, LenProperties DEF StoreTypeOK
<1>2. Len(global') = L + n /\ Len(streams'[id]) = R + n /\ StoreTypeOK'
  BY <1>0, AppendAdds
<1>3. \A i \in 1..L : global'[i] = global[i]
  BY <1>0, AppendAdds
<1>4. \A k \in 1..n : /\ global'[L + k].id = id
                       /\ global'[L + k].revision = R + k
                       /\ global'[L + k].sequence = L + k
  <2> SUFFICES ASSUME NEW k \in 1..n
               PROVE  /\ global'[L + k].id = id
                      /\ global'[L + k].revision = R + k
                      /\ global'[L + k].sequence = L + k
    OBVIOUS
  <2>1. global'[L + k] = NewEnvelopes(id, payloads)[k]
    BY <1>0, AppendAdds
  <2>2. next_sequence + (k - 1) = L + k
    BY <1>1 DEF StoreInv, NumberedInOrder
  <2> QED
    BY <2>1, <2>2 DEF NewEnvelopes, ActualRevision
<1>5. /\ \A k \in 1..R : streams'[id][k] = streams[id][k]
      /\ \A k \in 1..n : streams'[id][R + k] = L + k
      /\ \A x \in Ids \ {id} : streams'[x] = streams[x]
  BY <1>0, AppendAdds
<1>6. ASSUME NEW m \in 1..(R + n), m \notin 1..R
      PROVE  /\ streams'[id][m] = L + (m - R)
             /\ m - R \in 1..n
             /\ global'[L + (m - R)].id = id
             /\ global'[L + (m - R)].revision = m
  <2>1. m - R \in 1..n /\ R + (m - R) = m
    BY <1>1, <1>6
  <2> QED
    BY <1>4, <1>5, <2>1
<1>7. StreamsIndexTheLog'
  <2>1. ASSUME NEW x \in Ids, NEW k \in 1..Len(streams'[x])
        PROVE  /\ streams'[x][k] \in 1..Len(global')
               /\ global'[streams'[x][k]].id = x
               /\ global'[streams'[x][k]].revision = k
    <3>1. CASE k \in 1..Len(streams[x])
      <4>1. /\ streams[x][k] \in 1..L
            /\ global[streams[x][k]].id = x
            /\ global[streams[x][k]].revision = k
        BY <3>1 DEF StoreInv, StreamsIndexTheLog
      <4>2. streams'[x][k] = streams[x][k]
        BY <1>5, <3>1
      <4> QED
        BY <1>1, <1>2, <1>3, <4>1, <4>2
    <3>2. CASE k \notin 1..Len(streams[x])
      <4>1. x = id /\ k \in 1..(R + n) /\ k \notin 1..R
        BY <1>2, <1>5, <3>2
      <4>2. streams'[id][k] = L + (k - R) /\ k - R \in 1..n
        BY <1>6, <4>1
      <4>3. global'[L + (k - R)].id = id /\ global'[L + (k - R)].revision = k
        BY <1>6, <4>1
      <4>4. L + (k - R) \in 1..(L + n)
        BY <1>1, <4>2
      <4> QED
        BY <1>2, <4>1, <4>2, <4>3, <4>4
    <3> QED
      BY <3>1, <3>2
  <2>2. ASSUME NEW x \in Ids, NEW j \in 1..Len(streams'[x]), NEW k \in 1..Len(streams'[x]), j < k
        PROVE  streams'[x][j] < streams'[x][k]
    <3>1. CASE k \in 1..Len(streams[x])
      <4>1. j \in 1..Len(streams[x])
        BY <1>1, <2>2, <3>1
      <4>2. streams[x][j] < streams[x][k]
        BY <2>2, <3>1, <4>1 DEF StoreInv, StreamsIndexTheLog
      <4>3. streams'[x][j] = streams[x][j] /\ streams'[x][k] = streams[x][k]
        BY <1>5, <3>1, <4>1
      <4> QED
        BY <4>2, <4>3
    <3>2. CASE k \notin 1..Len(streams[x])
      <4>1. x = id /\ k \in 1..(R + n) /\ k \notin 1..R /\ j \in 1..(R + n)
        BY <1>2, <1>5, <3>2
      <4>2. streams'[id][k] = L + (k - R) /\ k - R \in 1..n
        BY <1>6, <4>1
      <4>3. CASE j \in 1..R
        <5>1. streams'[id][j] = streams[id][j] /\ streams[id][j] \in 1..L
          BY <1>5, <4>3 DEF StoreInv, StreamsIndexTheLog
        <5> QED
          BY <1>1, <4>1, <4>2, <5>1, SMTT(30)
      <4>4. CASE j \notin 1..R
        <5>1. streams'[id][j] = L + (j - R) /\ j - R \in 1..n
          BY <1>6, <4>1, <4>4
        <5>2. j \in Int /\ k \in Int /\ L \in Int /\ R \in Int /\ j < k
          BY <1>1, <2>2, <4>1
        <5> HIDE DEF L, R
        <5>3. L + (j - R) < L + (k - R)
          BY <5>2
        <5> QED
          BY <4>1, <4>2, <5>1, <5>3
      <4> QED
        BY <4>3, <4>4
    <3> QED
      BY <3>1, <3>2
  <2> QED
    BY <2>1, <2>2 DEF StreamsIndexTheLog
<1>8. LogIsIndexed'
  <2> SUFFICES ASSUME NEW i \in 1..Len(global')
               PROVE  \E k \in 1..Len(streams'[global'[i].id]) : streams'[global'[i].id][k] = i
    BY DEF LogIsIndexed
  <2>1. CASE i \in 1..L
    <3>1. global'[i] = global[i] /\ global[i].id \in Ids
      <4>1. global[i] \in Envelope
        BY <1>0, <2>1, ElementOfSeq DEF StoreTypeOK
      <4> QED
        BY <1>3, <2>1, <4>1 DEF Envelope
    <3>2. PICK k \in 1..Len(streams[global[i].id]) : streams[global[i].id][k] = i
      BY <2>1 DEF StoreInv, LogIsIndexed
    <3>3. CASE global[i].id = id
      <4>1. k \in 1..Len(streams'[id]) /\ streams'[id][k] = i
        BY <1>1, <1>2, <1>5, <3>2, <3>3
      <4> QED
        BY <3>1, <3>3, <4>1
    <3>4. CASE global[i].id # id
      <4>1. streams'[global[i].id] = streams[global[i].id]
        BY <1>5, <3>1, <3>4
      <4> QED
        BY <3>1, <3>2, <4>1
    <3> QED
      BY <3>3, <3>4
  <2>2. CASE i \notin 1..L
    <3>1. i - L \in 1..n /\ L + (i - L) = i
      BY <1>1, <1>2, <2>2
    <3>2. global'[i].id = id /\ streams'[id][R + (i - L)] = i
      BY <1>4, <1>5, <3>1
    <3>3. R + (i - L) \in 1..Len(streams'[id])
      BY <1>1, <1>2, <3>1
    <3> QED
      BY <3>2, <3>3
  <2> QED
    BY <2>1, <2>2
<1>9. NumberedInOrder'
  <2>1. next_sequence' = Len(global') + 1
    BY <1>1, <1>2 DEF StoreInv, NumberedInOrder, AppendEvents
  <2>2. ASSUME NEW i \in 1..Len(global')
        PROVE  global'[i].sequence = i
    <3>1. CASE i \in 1..L
      BY <1>3, <3>1 DEF StoreInv, NumberedInOrder
    <3>2. CASE i \notin 1..L
      <4>1. i - L \in 1..n /\ L + (i - L) = i
        BY <1>1, <1>2, <3>2
      <4> QED
        BY <1>4, <4>1
    <3> QED
      BY <3>1, <3>2
  <2> QED
    BY <2>1, <2>2 DEF NumberedInOrder
<1> QED
  BY <1>2, <1>7, <1>8, <1>9 DEF StoreInv

-------------------------------------------------------------------------------
LEMMA BatchIsSeq ==
    ASSUME NEW payloads \in Batches
    PROVE  payloads \in Seq(Payloads)
<1>1. PICK n \in 0..MaxBatch : payloads \in [1..n -> Payloads]
  BY DEF Batches
<1> QED
  BY <1>1, FunctionIsSeq, StoreAssumption DEF StoreAssumption

LEMMA StoreInitInv == StoreInit => StoreInv
BY EmptyStore DEF StoreInit

LEMMA StoreNextInv == StoreInv /\ [StoreNext]_storeVars => StoreInv'
<1> SUFFICES ASSUME StoreInv, [StoreNext]_storeVars
             PROVE  StoreInv'
  OBVIOUS
<1>1. ASSUME NEW id \in Ids, NEW expected \in ExpectedRevisions, NEW payloads \in Batches,
             AppendEvents(id, expected, payloads)
      PROVE  StoreInv'
  <2>1. payloads \in Seq(Payloads)
    BY BatchIsSeq
  <2> QED
    BY <1>1, <2>1, AppendKeepsStoreInv
<1>2. CASE Clear
  <2>1. /\ streams' = [id \in Ids |-> <<>>]
        /\ global' = <<>>
        /\ next_sequence' = 1
    BY <1>2 DEF Clear
  <2>2. Len(global') = 0 /\ \A id \in Ids : Len(streams'[id]) = 0
    BY <2>1
  <2>3. StoreTypeOK'
    BY <2>1 DEF StoreTypeOK
  <2> QED
    BY <2>1, <2>2, <2>3 DEF StoreInv, StreamsIndexTheLog, LogIsIndexed, NumberedInOrder
<1>3. CASE UNCHANGED storeVars
  BY <1>3 DEF storeVars, StoreInv, StoreTypeOK, StreamsIndexTheLog, LogIsIndexed, NumberedInOrder
<1> QED
  BY <1>1, <1>2, <1>3 DEF StoreNext

(* The index and the log agree after every operation of the store, clear   *)
(* included: see IndexMatchesLog.                                          *)
THEOREM StoreIsConsistent == StoreSpec => []IndexMatchesLog
<1>1. StoreInv => IndexMatchesLog
  BY DEF StoreInv, IndexMatchesLog
<1> QED
  BY <1>1, StoreInitInv, StoreNextInv, PTL DEF StoreSpec

(* Only clear forgets: append never moves or rewrites an envelope of the   *)
(* log (see LogIsAppendOnly).                                              *)
THEOREM LogGrows == StoreSpec => LogIsAppendOnly
<1>1. ASSUME StoreInv, [StoreNext]_storeVars
      PROVE  [\/ Clear
              \/ /\ Len(global) <= Len(global')
                 /\ \A i \in 1..Len(global) : global'[i] = global[i]]_storeVars
  <2>1. ASSUME NEW id \in Ids, NEW expected \in ExpectedRevisions, NEW payloads \in Batches,
               AppendEvents(id, expected, payloads)
        PROVE  /\ Len(global) <= Len(global')
               /\ \A i \in 1..Len(global) : global'[i] = global[i]
    <3>1. payloads \in Seq(Payloads) /\ StoreTypeOK
      BY <1>1, BatchIsSeq DEF StoreInv
    <3>2. Len(global) \in Nat /\ Len(payloads) \in Nat
      BY <3>1, LenProperties DEF StoreTypeOK
    <3>3. /\ Len(global') = Len(global) + Len(payloads)
          /\ \A i \in 1..Len(global) : global'[i] = global[i]
      BY <2>1, <3>1, AppendAdds
    <3> QED
      BY <3>2, <3>3
  <2> QED
    BY <1>1, <2>1 DEF StoreNext
<1> QED
  BY <1>1, StoreInitInv, StoreNextInv, PTL DEF StoreSpec, LogIsAppendOnly

(* A page of a log numbered in order holds the sequences right after the   *)
(* checkpoint, and is short only at the end of the log.                    *)
LEMMA PageIsExact ==
    ASSUME StoreInv
    PROVE  PagesFollowCheckpoints
<1> SUFFICES ASSUME NEW checkpoint \in 0..Len(global), NEW limit \in 1..2
             PROVE  LET page == LoadGlobalAfterLimited(checkpoint, limit)
                    IN  /\ \A k \in 1..Len(page) : page[k].sequence = checkpoint + k
                        /\ Len(page) < limit => checkpoint + Len(page) = next_sequence - 1
  BY DEF PagesFollowCheckpoints
<1> DEFINE L == Len(global)
           end == IF checkpoint + limit < L THEN checkpoint + limit ELSE L
           page == SubSeq(global, checkpoint + 1, end)
<1>1. L \in Nat /\ global \in Seq(Envelope) /\ next_sequence = L + 1
  BY LenProperties DEF StoreInv, StoreTypeOK, NumberedInOrder
<1>2. FirstIndexAfter(checkpoint) = checkpoint
  <2>1. {i \in 1..L : global[i].sequence <= checkpoint} = 1..checkpoint
    <3>1. \A i \in 1..L : global[i].sequence = i
      BY DEF StoreInv, NumberedInOrder
    <3> QED
      BY <1>1, <3>1
  <2>2. Cardinality(1..checkpoint) = IF 1 > checkpoint THEN 0 ELSE checkpoint - 1 + 1
    <3>1. 1 \in Int /\ checkpoint \in Int
      BY <1>1
    <3> QED
      BY <3>1, FS_Interval, Zenon
  <2>3. Cardinality(1..checkpoint) = checkpoint
    BY <1>1, <2>2
  <2> QED
    BY <2>1, <2>3 DEF FirstIndexAfter
<1>3. LoadGlobalAfterLimited(checkpoint, limit) = page
  BY <1>2 DEF LoadGlobalAfterLimited
<1>4. end \in checkpoint..L /\ end <= checkpoint + limit
      /\ (end < checkpoint + limit => end = L)
  BY <1>1
<1> HIDE DEF end
<1>5. Len(page) = end - checkpoint /\ \A k \in 1..Len(page) : page[k] = global[checkpoint + k]
  <2>1. checkpoint + 1 \in 1..(L + 1) /\ end \in checkpoint..L
    BY <1>1, <1>4
  <2>2. /\ Len(page) = IF checkpoint + 1 <= end THEN end - (checkpoint + 1) + 1 ELSE 0
        /\ \A k \in 1..(end - (checkpoint + 1) + 1) : page[k] = global[checkpoint + 1 + k - 1]
    BY <1>1, <2>1, SubSeqProperties
  <2>3. Len(page) = end - checkpoint /\ end - (checkpoint + 1) + 1 = end - checkpoint
    BY <1>1, <1>4, <2>2
  <2>4. \A k \in 1..(end - checkpoint) : checkpoint + 1 + k - 1 = checkpoint + k
    BY <1>1, <1>4
  <2> QED
    BY <2>2, <2>3, <2>4
<1> HIDE DEF page
<1>6. ASSUME NEW k \in 1..Len(page)
      PROVE  page[k].sequence = checkpoint + k
  <2>1. checkpoint + k \in 1..L
    BY <1>1, <1>4, <1>5
  <2> QED
    BY <1>5, <2>1 DEF StoreInv, NumberedInOrder
<1>7. Len(page) < limit => checkpoint + Len(page) = next_sequence - 1
  BY <1>1, <1>4, <1>5
<1> QED
  BY <1>3, <1>6, <1>7

(* Paging through the log from any checkpoint misses and repeats nothing,  *)
(* over any history of batches and clears: see PagesFollowCheckpoints.     *)
THEOREM PagesAreExact == StoreSpec => []PagesFollowCheckpoints
BY PageIsExact, StoreInitInv, StoreNextInv, PTL DEF StoreSpec
===============================================================================
