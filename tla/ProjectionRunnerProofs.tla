------------------------- MODULE ProjectionRunnerProofs -------------------------
(***************************************************************************)
(* What the projection runners promise, for every kind of runner, any      *)
(* number of replicas, feeds and events, every batch size and any schedule *)
(* of failures, crashes and rebuilds.                                      *)
(***************************************************************************)
EXTENDS ProjectionRunner, EventStoreProofs, FiniteSetTheorems, TLAPS

RunRecord ==
    [pc : {"idle", "checkpoint", "load", "apply", "save", "finish", "ok"},
     scope : Scopes \cup {"none"}, from : Nat, batch : Seq(Nat), size : Nat, last : Nat,
     failed : BOOLEAN, position : Nat, end : Nat]

Entries == Scopes \X Nat

(* The positions, which are the sequences, of each scope's events. *)
Feed == [scope \in Scopes |-> {i \in 1..Len(global) : ScopeOf[global[i].id] = scope}]

-------------------------------------------------------------------------------
(* The invariant, on feeds F, checkpoints C, a read model m, a buffer b    *)
(* and a run o.                                                            *)
Has(m, scope, s) == \E i \in 1..Len(m) : m[i] = <<scope, s>>

(* Every entry of b comes behind the earlier events of its feed, which are *)
(* in m or before it in b.                                                 *)
Ordered(F, m, b) ==
    \A i \in 1..Len(b), scope \in Scopes, s \in Nat :
       b[i] = <<scope, s>> =>
          /\ s \in F[scope]
          /\ \A f \in F[scope] : f < s => Has(m, scope, f) \/ \E h \in 1..(i - 1) : b[h] = <<scope, f>>

(* The events up to each checkpoint are in the read model. *)
Reached(F, C, m) ==
    \A scope \in Scopes :
       /\ C[scope] \in F[scope] \cup {0}
       /\ \A f \in F[scope] : f <= C[scope] => Has(m, scope, f)

(* A projection that owns its checkpoint: nothing is beyond it or there    *)
(* twice.                                                                  *)
OnceOnly(C, m) ==
    /\ \A i \in 1..Len(m), scope \in Scopes, s \in Nat : m[i] = <<scope, s>> => s <= C[scope]
    /\ \A i, j \in 1..Len(m) : m[i] = m[j] => i = j

(* A page is a part of the feed S that begins right after a position. *)
PageAfter(S, position, page) ==
    /\ \A k \in 1..Len(page) :
          /\ page[k] \in S /\ page[k] > position
          /\ \A f \in S : position < f /\ f < page[k] => \E h \in 1..(k - 1) : page[h] = f
    /\ \A h, k \in 1..Len(page) : h < k => page[h] < page[k]

(* How far a run has applied its feed. *)
Applied(o) == IF o.last = 0 THEN o.from ELSE o.last

(* A batch in progress. *)
Applying(F, kind, C, m, b, o) ==
    /\ PageAfter(F[o.scope], Applied(o), o.batch)
    /\ kind = "in_memory" => o.from = C[o.scope]
    /\ kind = "owned" => Applied(o) = C[o.scope]
    /\ kind # "owned" =>
          \A f \in F[o.scope] : f <= Applied(o) => Has(m, o.scope, f) \/ Has(b, o.scope, f)

(* A batch that has not failed is short only at the end of the feed, and   *)
(* moves the position unless it is empty.                                  *)
Advancing(limit, o) ==
    /\ o.last # 0 => o.last > o.from
    /\ o.failed = FALSE /\ o.size < limit =>
          o.end <= Applied(o) \/ \E k \in 1..Len(o.batch) : o.batch[k] = o.end
    /\ o.failed = FALSE /\ o.size > 0 => o.last # 0 \/ o.batch # <<>>

Running(F, kind, limit, C, m, b, o) ==
    /\ o.scope \in Scopes
    /\ {o.from, o.last, o.position, o.end} \subseteq F[o.scope] \cup {0}
    /\ o.from <= C[o.scope] /\ o.position <= C[o.scope]
    /\ o.pc \in {"load", "apply", "save", "finish"} => o.position <= o.from
    /\ o.pc = "load" /\ kind # "persisted" => o.from = C[o.scope]
    /\ o.pc = "apply" => Applying(F, kind, C, m, b, o)
    /\ o.pc \in {"apply", "save", "finish"} => Advancing(limit, o)
    /\ o.pc \in {"save", "finish"} => o.batch = <<>>
    /\ o.pc = "save" =>
          /\ kind = "persisted" /\ o.last # 0
          /\ \A f \in F[o.scope] : f <= o.last => Has(m, o.scope, f)
    /\ o.pc = "finish" => o.last <= C[o.scope]
    /\ o.pc = "ok" => o.end <= C[o.scope]

RunOK(F, s, C, m, b, o) ==
    /\ Ordered(F, m, b)
    /\ o.pc # "idle" => Running(F, s.kind, s.batch_size, C, m, b, o)

ProjectionInv ==
    /\ StoreInv
    /\ setup \in Setups
    /\ checkpoints \in [Scopes -> Nat]
    /\ readModel \in Seq(Entries)
    /\ buffer \in [Runners -> Seq(Entries)]
    /\ run \in [Runners -> RunRecord]
    /\ Reached(Feed, checkpoints, readModel)
    /\ Ordered(Feed, <<>>, readModel)
    /\ setup.kind = "owned" => OnceOnly(checkpoints, readModel)
    /\ \A r \in Runners : RunOK(Feed, setup, checkpoints, readModel, buffer[r], run[r])
    /\ \A r \in Runners \ setup.runners : run[r].pc = "idle" /\ buffer[r] = <<>>

-------------------------------------------------------------------------------
(* The place of k among the members of K. *)
Rank(K, k) == Cardinality({m \in K : m <= k})

(* The members of a finite set of numbers are ranked 1, 2, ... without a   *)
(* gap.                                                                    *)
LEMMA Ranks ==
    ASSUME NEW K \in SUBSET Nat, IsFiniteSet(K)
    PROVE  /\ \A k \in K : Rank(K, k) \in 1..Cardinality(K)
           /\ \A h, k \in K : h < k => Rank(K, h) < Rank(K, k)
           /\ \A j \in 1..Cardinality(K) : \E k \in K : Rank(K, k) = j
<1> DEFINE Below(k) == {m \in K : m <= k}
           n == Cardinality(K)
<1>1. n \in Nat
  BY FS_CardinalityType
<1>2. \A k \in K : IsFiniteSet(Below(k)) /\ Cardinality(Below(k)) \in Nat /\ Cardinality(Below(k)) <= n
  <2> SUFFICES ASSUME NEW k \in K
               PROVE  IsFiniteSet(Below(k)) /\ Cardinality(Below(k)) \in Nat /\ Cardinality(Below(k)) <= n
    OBVIOUS
  <2>1. Below(k) \in SUBSET K
    OBVIOUS
  <2> HIDE DEF Below
  <2> QED
    BY <2>1, FS_Subset, FS_CardinalityType
<1>3. ASSUME NEW h \in K, NEW k \in K, h < k
      PROVE  Cardinality(Below(h)) < Cardinality(Below(k))
  <2>1. Below(h) \in SUBSET Below(k) /\ k \in Below(k) /\ k \notin Below(h)
    <3>1. h \in Nat /\ k \in Nat /\ \A m \in K : m \in Nat
      OBVIOUS
    <3>2. \A m \in K : m <= h => m <= k
      BY <1>3, <3>1
    <3>3. ~(k <= h) /\ k <= k
      BY <1>3, <3>1
    <3> QED
      BY <3>2, <3>3
  <2>2. Below(h) # Below(k)
    BY <2>1
  <2> HIDE DEF Below
  <2>3. /\ Cardinality(Below(h)) <= Cardinality(Below(k))
        /\ Cardinality(Below(k)) = Cardinality(Below(h)) => Below(k) = Below(h)
    BY <1>2, <2>1, FS_Subset
  <2> QED
    BY <1>2, <2>2, <2>3
<1>4. ASSUME NEW k \in K
      PROVE  Cardinality(Below(k)) \in 1..n
  <2>1. k \in Below(k)
    OBVIOUS
  <2> HIDE DEF Below
  <2>2. Cardinality(Below(k)) # 0
    BY <1>2, <2>1, FS_EmptySet
  <2> QED
    BY <1>1, <1>2, <2>2
<1>5. \A k \in K : Rank(K, k) = Cardinality(Below(k))
  BY DEF Rank
<1> HIDE DEF Below
<1>6. \A j \in 1..n : \E k \in K : Rank(K, k) = j
  <2> DEFINE rank == [k \in K |-> Cardinality(Below(k))]
  <2>1. rank \in [K -> 1..n]
    BY <1>4
  <2>2. ASSUME NEW h \in K, NEW k \in K, rank[h] = rank[k]
        PROVE  h = k
    <3>1. Cardinality(Below(h)) = Cardinality(Below(k))
      BY <2>2
    <3>2. ~(h < k) /\ ~(k < h)
      BY <1>2, <1>3, <3>1
    <3> QED
      BY <3>2
  <2>3. rank \in Injection(K, 1..n)
    BY <2>1, <2>2 DEF Injection, IsInjective
  <2>4. IsFiniteSet(1..n) /\ Cardinality(1..n) = n
    BY <1>1, FS_Interval
  <2>5. rank \in Surjection(K, 1..n)
    BY <2>3, <2>4, FS_Injection
  <2>6. \A j \in 1..n : \E k \in K : rank[k] = j
    BY <2>5 DEF Surjection
  <2> QED
    BY <1>5, <2>6
<1> QED
  BY <1>3, <1>4, <1>5, <1>6

(* LIMIT: the earliest positions leave no gap, and fewer than the limit    *)
(* are all there are.                                                      *)
LEMMA EarliestPositions ==
    ASSUME NEW K \in SUBSET Nat, IsFiniteSet(K), NEW limit \in Nat
    PROVE  /\ Earliest(K, limit) \in SUBSET K /\ IsFiniteSet(Earliest(K, limit))
           /\ \A k \in Earliest(K, limit), f \in K : f < k => f \in Earliest(K, limit)
           /\ Cardinality(Earliest(K, limit)) < limit => Earliest(K, limit) = K
<1> DEFINE P == Earliest(K, limit)
<1>1. P = {k \in K : Rank(K, k) <= limit}
  BY DEF Earliest, Rank
<1>2. P \in SUBSET K /\ \A k \in K : k \in P <=> Rank(K, k) <= limit
  BY <1>1
<1>3. \A k \in K : Rank(K, k) \in 1..Cardinality(K)
  BY Ranks
<1>4. Cardinality(K) \in Nat
  BY FS_CardinalityType
<1> HIDE DEF P
<1>5. IsFiniteSet(P) /\ Cardinality(P) \in Nat
  BY <1>2, FS_Subset, FS_CardinalityType
<1>6. ASSUME NEW k \in P, NEW f \in K, f < k
      PROVE  f \in P
  <2>1. Rank(K, f) < Rank(K, k) /\ Rank(K, k) <= limit
    BY <1>2, <1>6, Ranks
  <2> QED
    BY <1>2, <1>3, <1>4, <2>1
<1>7. ASSUME Cardinality(P) < limit
      PROVE  P = K
  <2> SUFFICES ASSUME NEW k \in K, k \notin P PROVE FALSE
    BY <1>2
  <2>1. Rank(K, k) > limit /\ Cardinality(K) >= Rank(K, k)
    BY <1>2, <1>3, <1>4
  <2>2. Cardinality(P) + 1 \in 1..Cardinality(K)
    BY <1>3, <1>4, <1>5, <1>7, <2>1
  <2>3. PICK x \in K : Rank(K, x) = Cardinality(P) + 1
    BY <2>2, Ranks
  <2>4. x \in P
    BY <1>2, <1>5, <1>7, <2>3
  <2>5. {m \in K : m <= x} = {m \in P : m <= x}
    <3>1. ASSUME NEW m \in K, m <= x
          PROVE  m \in P
      <4>1. m \in Nat /\ x \in Nat
        OBVIOUS
      <4>2. m = x \/ m < x
        BY <3>1, <4>1
      <4> QED
        BY <1>6, <2>4, <4>2
    <3> QED
      BY <1>2, <3>1
  <2>6. Rank(P, x) = Cardinality(P) + 1
    BY <2>3, <2>5 DEF Rank
  <2>7. Rank(P, x) \in 1..Cardinality(P)
    BY <1>2, <1>5, <2>4, Ranks
  <2> QED
    BY <1>5, <2>6, <2>7
<1> QED
  BY <1>2, <1>5, <1>6, <1>7 DEF P

(* The feeds are sets of positions. *)
LEMMA FeedPositions ==
    ASSUME StoreInv
    PROVE  /\ Feed \in [Scopes -> SUBSET (Nat \ {0})]
           /\ \A scope \in Scopes : Feed[scope] \in SUBSET (1..Len(global))
           /\ Len(global) \in Nat
<1>1. Len(global) \in Nat
  BY LenProperties DEF StoreInv, StoreTypeOK
<1> QED
  BY <1>1 DEF Feed

(* A page of a feed follows the checkpoint without a gap, and a page that  *)
(* is not full is the end of the feed.                                     *)
LEMMA PageOfFeed ==
    ASSUME StoreInv, NEW scope \in Scopes, NEW checkpoint \in Nat, NEW limit \in Nat,
           NEW page, page = LoadGlobalAfter(scope, checkpoint, limit)
    PROVE  /\ page \in Seq(Nat) /\ Len(page) \in Nat
           /\ PageAfter(Feed[scope], checkpoint, page)
           /\ Len(page) < limit =>
                 \A f \in Feed[scope] : f > checkpoint => \E k \in 1..Len(page) : page[k] = f
<1> DEFINE K == {i \in Feed[scope] : i > checkpoint}
           P == Earliest(K, limit)
           n == Cardinality(P)
           At(j) == CHOOSE k \in P : Rank(P, k) = j
<1>1. Feed[scope] \in SUBSET (1..Len(global)) /\ Len(global) \in Nat
  BY FeedPositions
<1>2. \A i \in 1..Len(global) : global[i].sequence = i
  BY DEF StoreInv, NumberedInOrder
<1>3. FeedAfter(scope, checkpoint) = K
  BY <1>2 DEF FeedAfter, Feed
<1>4. K \in SUBSET Nat /\ K \in SUBSET (1..Len(global)) /\ IsFiniteSet(K)
  <2>1. K \in SUBSET (1..Len(global)) /\ K \in SUBSET Nat
    BY <1>1
  <2>2. IsFiniteSet(1..Len(global))
    BY <1>1, FS_Interval
  <2> HIDE DEF K
  <2> QED
    BY <2>1, <2>2, FS_Subset
<1>5. /\ P \in SUBSET K /\ IsFiniteSet(P)
      /\ \A k \in P, f \in K : f < k => f \in P
      /\ n < limit => P = K
  <2> HIDE DEF K
  <2> QED
    BY <1>4, EarliestPositions
<1>6. SelectAt(global, P) = [j \in 1..n |-> global[At(j)]]
  BY DEF SelectAt, Rank
<1>7. n \in Nat
  <2> HIDE DEF P
  <2> QED
    BY <1>5, FS_CardinalityType
<1>8. /\ \A k \in P : Rank(P, k) \in 1..n
      /\ \A h, k \in P : h < k => Rank(P, h) < Rank(P, k)
      /\ \A j \in 1..n : \E k \in P : Rank(P, k) = j
  <2>1. P \in SUBSET Nat
    BY <1>4, <1>5
  <2> HIDE DEF P
  <2> QED
    BY <1>5, <2>1, Ranks
<1>9. \A j \in 1..n : At(j) \in P /\ Rank(P, At(j)) = j
  <2> HIDE DEF P
  <2> QED
    BY <1>8
<1>10. page = [j \in 1..n |-> At(j)]
  <2>1. page = [j \in 1..n |-> global[At(j)].sequence]
    <3>1. LoadGlobalAfter(scope, checkpoint, limit) =
             [k \in DOMAIN SelectAt(global, P) |-> SelectAt(global, P)[k].sequence]
      BY <1>3 DEF LoadGlobalAfter
    <3> HIDE DEF P, n, At
    <3> QED
      BY <1>6, <3>1
  <2>2. \A j \in 1..n : global[At(j)].sequence = At(j)
    <3> HIDE DEF P, n, At
    <3> QED
      BY <1>2, <1>4, <1>5, <1>9
  <2> HIDE DEF P, n, At
  <2> QED
    BY <2>1, <2>2
<1> HIDE DEF P, n, At
<1>11. P \in SUBSET Nat
  BY <1>4, <1>5
<1>12. page \in [1..n -> Nat]
  BY <1>9, <1>10, <1>11
<1>13. page \in Seq(Nat) /\ Len(page) = n
  BY <1>7, <1>12, FunctionIsSeq
<1>14. \A j \in 1..n : page[j] \in P /\ Rank(P, page[j]) = j
  BY <1>9, <1>10
<1>15. \A f \in P : \E k \in 1..n : page[k] = f /\ k = Rank(P, f)
  <2> SUFFICES ASSUME NEW f \in P PROVE page[Rank(P, f)] = f
    BY <1>8
  <2> DEFINE g == page[Rank(P, f)]
  <2>1. g \in P /\ Rank(P, g) = Rank(P, f)
    BY <1>8, <1>14
  <2>2. ~(g < f) /\ ~(f < g)
    BY <1>7, <1>8, <2>1
  <2> HIDE DEF g
  <2>3. g \in Nat /\ f \in Nat
    BY <1>11, <2>1
  <2>4. g = f
    BY <2>2, <2>3
  <2> QED
    BY <2>4 DEF g
<1>16. ASSUME NEW h \in 1..n, NEW k \in 1..n, h < k
       PROVE  page[h] < page[k]
  <2>1. /\ page[h] \in P /\ page[k] \in P /\ Rank(P, page[h]) = h /\ Rank(P, page[k]) = k
        /\ page[h] \in Nat /\ page[k] \in Nat
    BY <1>11, <1>14
  <2>2. page[k] < page[h] => k < h
    BY <1>8, <2>1
  <2>3. page[k] # page[h]
    BY <1>7, <1>16, <2>1
  <2> QED
    BY <1>7, <1>16, <2>1, <2>2, <2>3
<1>17. ASSUME NEW k \in 1..n
       PROVE  /\ page[k] \in Feed[scope] /\ page[k] > checkpoint
              /\ \A f \in Feed[scope] : checkpoint < f /\ f < page[k] =>
                    \E h \in 1..(k - 1) : page[h] = f
  <2>1. page[k] \in P /\ Rank(P, page[k]) = k
    BY <1>14
  <2>2. page[k] \in Feed[scope] /\ page[k] > checkpoint
    BY <1>5, <2>1
  <2>3. ASSUME NEW f \in Feed[scope], checkpoint < f, f < page[k]
        PROVE  \E h \in 1..(k - 1) : page[h] = f
    <3>1. f \in K
      BY <1>1, <2>3
    <3>2. f \in P
      BY <1>5, <2>1, <2>3, <3>1
    <3>3. PICK h \in 1..n : page[h] = f /\ h = Rank(P, f)
      BY <1>15, <3>2
    <3>4. h < k
      BY <1>8, <2>1, <2>3, <3>2, <3>3
    <3> QED
      BY <1>7, <3>3, <3>4
  <2> QED
    BY <2>2, <2>3
<1>18. PageAfter(Feed[scope], checkpoint, page)
  BY <1>13, <1>16, <1>17 DEF PageAfter
<1>19. n < limit => \A f \in Feed[scope] : f > checkpoint => \E k \in 1..n : page[k] = f
  BY <1>5, <1>15
<1> QED
  BY <1>7, <1>13, <1>18, <1>19
-------------------------------------------------------------------------------
(* Appending to a read model or a buffer. *)
LEMMA HasConcat ==
    ASSUME NEW m \in Seq(Entries), NEW b \in Seq(Entries), NEW scope, NEW f
    PROVE  Has(m \o b, scope, f) <=> Has(m, scope, f) \/ Has(b, scope, f)
<1>1. Len(m) \in Nat /\ Len(b) \in Nat
  BY LenProperties
<1>2. /\ Len(m \o b) = Len(m) + Len(b)
      /\ \A i \in 1..Len(m) : (m \o b)[i] = m[i]
      /\ \A k \in 1..Len(b) : (m \o b)[Len(m) + k] = b[k]
  BY ConcatAt
<1>3. ASSUME Has(m \o b, scope, f)
      PROVE  Has(m, scope, f) \/ Has(b, scope, f)
  <2>1. PICK i \in 1..Len(m \o b) : (m \o b)[i] = <<scope, f>>
    BY <1>3 DEF Has
  <2>2. i \in 1..Len(m) \/ (i - Len(m) \in 1..Len(b) /\ Len(m) + (i - Len(m)) = i)
    BY <1>1, <1>2, <2>1
  <2> QED
    BY <1>2, <2>1, <2>2 DEF Has
<1>4. Has(m, scope, f) => Has(m \o b, scope, f)
  <2> SUFFICES ASSUME NEW i \in 1..Len(m), m[i] = <<scope, f>>
               PROVE  Has(m \o b, scope, f)
    BY DEF Has
  <2>1. i \in 1..Len(m \o b) /\ (m \o b)[i] = <<scope, f>>
    BY <1>1, <1>2
  <2> QED
    BY <2>1 DEF Has
<1>5. Has(b, scope, f) => Has(m \o b, scope, f)
  <2> SUFFICES ASSUME NEW i \in 1..Len(b), b[i] = <<scope, f>>
               PROVE  Has(m \o b, scope, f)
    BY DEF Has
  <2>1. Len(m) + i \in 1..Len(m \o b) /\ (m \o b)[Len(m) + i] = <<scope, f>>
    BY <1>1, <1>2
  <2> QED
    BY <2>1 DEF Has
<1> QED
  BY <1>3, <1>4, <1>5

LEMMA OrderedEmpty ==
    ASSUME NEW F, NEW m
    PROVE  Ordered(F, m, <<>>)
<1>1. Len(<<>>) = 0 /\ 1..0 = {}
  OBVIOUS
<1> QED
  BY <1>1 DEF Ordered

(* More of the feed in the read model leaves a buffer in order. *)
LEMMA OrderedGrows ==
    ASSUME NEW F, NEW m, NEW n, NEW b, Ordered(F, m, b),
           \A scope \in Scopes : \A f \in F[scope] : Has(m, scope, f) => Has(n, scope, f)
    PROVE  Ordered(F, n, b)
<1> SUFFICES ASSUME NEW i \in 1..Len(b), NEW scope \in Scopes, NEW s \in Nat, b[i] = <<scope, s>>
             PROVE  /\ s \in F[scope]
                    /\ \A f \in F[scope] :
                          f < s => Has(n, scope, f) \/ \E h \in 1..(i - 1) : b[h] = <<scope, f>>
  BY Zenon DEF Ordered
<1>1. /\ s \in F[scope]
      /\ \A f \in F[scope] : f < s => Has(m, scope, f) \/ \E h \in 1..(i - 1) : b[h] = <<scope, f>>
  BY Zenon DEF Ordered
<1> QED
  BY <1>1, Zenon

LEMMA OrderedConcat ==
    ASSUME NEW F, NEW m \in Seq(Entries), NEW b \in Seq(Entries),
           Ordered(F, <<>>, m), Ordered(F, m, b)
    PROVE  Ordered(F, <<>>, m \o b)
<1>1. Len(m) \in Nat /\ Len(b) \in Nat
  BY LenProperties
<1>2. /\ Len(m \o b) = Len(m) + Len(b)
      /\ \A i \in 1..Len(m) : (m \o b)[i] = m[i]
      /\ \A k \in 1..Len(b) : (m \o b)[Len(m) + k] = b[k]
  BY ConcatAt
<1>3. \A scope, f : ~Has(<<>>, scope, f)
  BY DEF Has
<1> SUFFICES ASSUME NEW i \in 1..Len(m \o b), NEW scope \in Scopes, NEW s \in Nat,
                    (m \o b)[i] = <<scope, s>>
             PROVE  /\ s \in F[scope]
                    /\ \A f \in F[scope] :
                          f < s => Has(<<>>, scope, f) \/ \E h \in 1..(i - 1) : (m \o b)[h] = <<scope, f>>
  BY Zenon DEF Ordered
<1>4. CASE i \in 1..Len(m)
  <2>1. m[i] = <<scope, s>>
    BY <1>2, <1>4
  <2>2. s \in F[scope] /\ \A f \in F[scope] : f < s => \E h \in 1..(i - 1) : m[h] = <<scope, f>>
    BY <1>3, <1>4, <2>1 DEF Ordered
  <2>3. \A h \in 1..(i - 1) : h \in 1..Len(m)
    BY <1>1, <1>4
  <2> QED
    BY <1>2, <2>2, <2>3
<1>5. CASE i \notin 1..Len(m)
  <2>1. PICK k \in 1..Len(b) : i = Len(m) + k
    <3>1. i - Len(m) \in 1..Len(b) /\ i = Len(m) + (i - Len(m))
      BY <1>1, <1>2, <1>5
    <3> QED
      BY <3>1
  <2>2. b[k] = <<scope, s>>
    BY <1>2, <2>1
  <2>3. /\ s \in F[scope]
        /\ \A f \in F[scope] : f < s => Has(m, scope, f) \/ \E h \in 1..(k - 1) : b[h] = <<scope, f>>
    BY <2>2 DEF Ordered
  <2>4. ASSUME NEW f \in F[scope], Has(m, scope, f)
        PROVE  \E h \in 1..(i - 1) : (m \o b)[h] = <<scope, f>>
    <3>1. PICK h \in 1..Len(m) : m[h] = <<scope, f>>
      BY <2>4 DEF Has
    <3>2. h \in 1..(i - 1)
      BY <1>1, <2>1
    <3> QED
      BY <1>2, <3>1, <3>2
  <2>5. ASSUME NEW f \in F[scope], NEW h \in 1..(k - 1), b[h] = <<scope, f>>
        PROVE  \E g \in 1..(i - 1) : (m \o b)[g] = <<scope, f>>
    <3>1. h \in 1..Len(b) /\ Len(m) + h \in 1..(i - 1)
      BY <1>1, <2>1
    <3> QED
      BY <1>2, <2>5, <3>1
  <2> QED
    BY <2>3, <2>4, <2>5
<1> QED
  BY <1>4, <1>5

(* The next event of a feed may be added. *)
LEMMA OrderedAppend ==
    ASSUME NEW F, NEW m, NEW b \in Seq(Entries), Ordered(F, m, b),
           NEW scope \in Scopes, NEW s \in Nat, s \in F[scope],
           \A f \in F[scope] : f < s => Has(m, scope, f) \/ Has(b, scope, f)
    PROVE  /\ Append(b, <<scope, s>>) \in Seq(Entries)
           /\ Ordered(F, m, Append(b, <<scope, s>>))
<1> DEFINE e == <<scope, s>>
           a == Append(b, e)
<1>1. e \in Entries
  BY DEF Entries
<1>2. Len(b) \in Nat /\ a \in Seq(Entries) /\ Len(a) = Len(b) + 1 /\ a[Len(b) + 1] = e
  BY <1>1, LenProperties, AppendProperties
<1>3. \A i \in 1..Len(b) : a[i] = b[i]
  BY <1>1, AppendProperties
<1> HIDE DEF a
<1>4. ASSUME NEW i \in 1..Len(a), NEW sc \in Scopes, NEW t \in Nat, a[i] = <<sc, t>>
      PROVE  /\ t \in F[sc]
             /\ \A f \in F[sc] : f < t => Has(m, sc, f) \/ \E h \in 1..(i - 1) : a[h] = <<sc, f>>
  <2>1. CASE i \in 1..Len(b)
    <3>1. b[i] = <<sc, t>>
      BY <1>3, <1>4, <2>1
    <3>2. /\ t \in F[sc]
          /\ \A f \in F[sc] : f < t => Has(m, sc, f) \/ \E h \in 1..(i - 1) : b[h] = <<sc, f>>
      BY <2>1, <3>1 DEF Ordered
    <3>3. \A h \in 1..(i - 1) : h \in 1..Len(b)
      BY <1>2, <2>1
    <3> QED
      BY <1>3, <3>2, <3>3
  <2>2. CASE i \notin 1..Len(b)
    <3>1. i = Len(b) + 1
      BY <1>2, <2>2
    <3>2. sc = scope /\ t = s
      BY <1>2, <1>4, <3>1
    <3>3. ASSUME NEW f, Has(b, scope, f)
          PROVE  \E h \in 1..(i - 1) : a[h] = <<scope, f>>
      <4>1. PICK h \in 1..Len(b) : b[h] = <<scope, f>>
        BY <3>3 DEF Has
      <4> QED
        BY <1>2, <1>3, <3>1, <4>1
    <3> QED
      BY <3>2, <3>3
  <2> QED
    BY <2>1, <2>2
<1>5. Ordered(F, m, a)
  BY <1>4 DEF Ordered
<1> QED
  BY <1>2, <1>5 DEF a

LEMMA HasAppend ==
    ASSUME NEW b \in Seq(Entries), NEW scope \in Scopes, NEW s \in Nat
    PROVE  /\ Has(Append(b, <<scope, s>>), scope, s)
           /\ \A sc, f : Has(b, sc, f) => Has(Append(b, <<scope, s>>), sc, f)
<1> DEFINE e == <<scope, s>>
           a == Append(b, e)
<1>1. e \in Entries
  BY DEF Entries
<1>2. Len(b) \in Nat /\ Len(a) = Len(b) + 1 /\ a[Len(b) + 1] = e
  BY <1>1, LenProperties, AppendProperties
<1>3. \A i \in 1..Len(b) : a[i] = b[i]
  BY <1>1, AppendProperties
<1> HIDE DEF a
<1>4. 1..Len(b) \subseteq 1..Len(a) /\ Len(b) + 1 \in 1..Len(a)
  BY <1>2
<1>5. \A sc, f : Has(b, sc, f) => Has(a, sc, f)
  BY <1>3, <1>4 DEF Has
<1>6. Has(a, scope, s)
  BY <1>2, <1>4 DEF Has
<1> QED
  BY <1>5, <1>6 DEF a

(* Taking the head of a page moves its position there. *)
LEMMA PageTail ==
    ASSUME NEW S \in SUBSET Nat, NEW position \in Nat, NEW page \in Seq(Nat), page # <<>>,
           PageAfter(S, position, page)
    PROVE  /\ Head(page) \in S /\ Head(page) > position
           /\ \A f \in S : f < Head(page) => f <= position
           /\ Tail(page) \in Seq(Nat)
           /\ PageAfter(S, Head(page), Tail(page))
           /\ \A k \in 1..Len(page) :
                 page[k] = Head(page) \/ \E h \in 1..Len(Tail(page)) : Tail(page)[h] = page[k]
<1> DEFINE head == Head(page)
           tail == Tail(page)
<1>1. /\ Len(page) \in Nat /\ Len(page) # 0 /\ head = page[1]
      /\ tail \in Seq(Nat) /\ Len(tail) = Len(page) - 1
      /\ \A k \in 1..Len(tail) : tail[k] = page[k + 1]
  BY LenProperties, EmptySeq, HeadTailProperties
<1> HIDE DEF head, tail
<1>2. /\ 1 \in 1..Len(page)
      /\ \A k \in 1..Len(tail) : k + 1 \in 1..Len(page)
      /\ \A k \in 1..Len(page) : k = 1 \/ (k - 1 \in 1..Len(tail) /\ k = (k - 1) + 1)
  BY <1>1
<1>3. \A k \in 1..Len(page) :
         /\ page[k] \in S /\ page[k] > position
         /\ \A f \in S : position < f /\ f < page[k] => \E h \in 1..(k - 1) : page[h] = f
  BY DEF PageAfter
<1>4. \A h, k \in 1..Len(page) : h < k => page[h] < page[k]
  BY DEF PageAfter
<1>5. head \in S /\ head > position
  BY <1>1, <1>2, <1>3
<1>6. ASSUME NEW f \in S, f < head
      PROVE  f <= position
  <2>1. f \in Nat /\ head \in Nat
    BY <1>5
  <2>2. ~(position < f)
    BY <1>1, <1>2, <1>3, <1>6
  <2> QED
    BY <2>1, <2>2
<1>7. ASSUME NEW k \in 1..Len(tail)
      PROVE  /\ tail[k] \in S /\ tail[k] > head
             /\ \A f \in S : head < f /\ f < tail[k] => \E h \in 1..(k - 1) : tail[h] = f
  <2>1. tail[k] = page[k + 1] /\ k + 1 \in 1..Len(page) /\ 1 < k + 1
    BY <1>1, <1>2
  <2>2. tail[k] \in S /\ tail[k] > head
    BY <1>1, <1>2, <1>3, <1>4, <2>1
  <2>3. ASSUME NEW f \in S, head < f, f < tail[k]
        PROVE  \E h \in 1..(k - 1) : tail[h] = f
    <3>1. f \in Nat /\ head \in Nat /\ position < f
      BY <1>5, <2>3
    <3>2. PICK h \in 1..k : page[h] = f
      <4>1. \E h \in 1..((k + 1) - 1) : page[h] = f
        BY <1>3, <2>1, <2>3, <3>1
      <4> QED
        BY <4>1
    <3>3. h # 1
      BY <1>1, <2>3, <3>1, <3>2
    <3>4. h - 1 \in 1..(k - 1) /\ h - 1 \in 1..Len(tail) /\ (h - 1) + 1 = h
      BY <1>1, <3>2, <3>3
    <3> QED
      BY <1>1, <3>2, <3>4
  <2> QED
    BY <2>2, <2>3
<1>8. ASSUME NEW h \in 1..Len(tail), NEW k \in 1..Len(tail), h < k
      PROVE  tail[h] < tail[k]
  <2>1. h + 1 < k + 1 /\ h + 1 \in 1..Len(page) /\ k + 1 \in 1..Len(page)
    BY <1>2, <1>8
  <2> QED
    BY <1>1, <1>4, <2>1
<1>9. PageAfter(S, head, tail)
  BY <1>7, <1>8 DEF PageAfter
<1>10. \A k \in 1..Len(page) : page[k] = head \/ \E h \in 1..Len(tail) : tail[h] = page[k]
  BY <1>1, <1>2
<1> QED
  BY <1>1, <1>5, <1>6, <1>9, <1>10 DEF head, tail

-------------------------------------------------------------------------------
(* The facts about one run, and about the state it reads. *)
LEMMA Basics ==
    ASSUME ProjectionInv
    PROVE  /\ setup \in Setups /\ setup.kind \in {"persisted", "in_memory", "owned"}
           /\ setup.runners \subseteq Runners
           /\ setup.kind # "persisted" => \E r \in Runners : setup.runners = {r}
           /\ setup.batch_size \in Nat \ {0}
           /\ Feed \in [Scopes -> SUBSET (Nat \ {0})]
           /\ checkpoints \in [Scopes -> Nat]
           /\ readModel \in Seq(Entries)
           /\ buffer \in [Runners -> Seq(Entries)]
           /\ run \in [Runners -> RunRecord]
           /\ Reached(Feed, checkpoints, readModel)
           /\ Ordered(Feed, <<>>, readModel)
<1>1. setup \in Setups /\ StoreInv
  BY DEF ProjectionInv
<1>2. /\ setup.kind \in {"persisted", "in_memory", "owned"}
      /\ setup.runners \subseteq Runners
      /\ setup.kind # "persisted" => \E r \in Runners : setup.runners = {r}
      /\ setup.batch_size \in Nat \ {0}
  BY <1>1, ProjectionAssumption DEF ProjectionAssumption
<1>3. Feed \in [Scopes -> SUBSET (Nat \ {0})]
  BY <1>1, FeedPositions
<1> QED
  BY <1>1, <1>2, <1>3 DEF ProjectionInv

LEMMA OneRun ==
    ASSUME ProjectionInv, NEW r \in Runners, run[r].pc # "idle"
    PROVE  /\ r \in setup.runners /\ run[r] \in RunRecord
           /\ Running(Feed, setup.kind, setup.batch_size, checkpoints, readModel, buffer[r], run[r])
           /\ Ordered(Feed, readModel, buffer[r])
           /\ buffer[r] \in Seq(Entries)
           /\ run[r].scope \in Scopes /\ checkpoints[run[r].scope] \in Nat
           /\ Feed[run[r].scope] \in SUBSET Nat
<1>1. /\ r \in setup.runners /\ run[r] \in RunRecord /\ buffer[r] \in Seq(Entries)
      /\ RunOK(Feed, setup, checkpoints, readModel, buffer[r], run[r])
  BY DEF ProjectionInv
<1>2. /\ Running(Feed, setup.kind, setup.batch_size, checkpoints, readModel, buffer[r], run[r])
      /\ Ordered(Feed, readModel, buffer[r])
  BY <1>1 DEF RunOK
<1>3. run[r].scope \in Scopes
  BY <1>2 DEF Running
<1>4. checkpoints \in [Scopes -> Nat] /\ Feed \in [Scopes -> SUBSET (Nat \ {0})]
  BY Basics
<1> QED
  BY <1>1, <1>2, <1>3, <1>4

(* What a replica knows stays true while others deliver and save. *)
LEMMA RunStays ==
    ASSUME NEW F \in [Scopes -> SUBSET (Nat \ {0})], NEW s, s.kind = "persisted",
           NEW C \in [Scopes -> Nat], NEW D \in [Scopes -> Nat],
           \A scope \in Scopes : C[scope] <= D[scope],
           NEW m, NEW n,
           \A scope \in Scopes : \A f \in F[scope] : Has(m, scope, f) => Has(n, scope, f),
           NEW b, NEW o \in RunRecord, RunOK(F, s, C, m, b, o)
    PROVE  RunOK(F, s, D, n, b, o)
<1>1. Ordered(F, n, b)
  BY OrderedGrows DEF RunOK
<1>2. ASSUME o.pc # "idle"
      PROVE  Running(F, s.kind, s.batch_size, D, n, b, o)
  <2>1. Running(F, s.kind, s.batch_size, C, m, b, o)
    BY <1>2 DEF RunOK
  <2>2. /\ o.scope \in Scopes /\ C[o.scope] \in Nat /\ D[o.scope] \in Nat
        /\ C[o.scope] <= D[o.scope] /\ F[o.scope] \in SUBSET Nat
        /\ o.from \in Nat /\ o.last \in Nat /\ o.position \in Nat /\ o.end \in Nat
    BY <2>1 DEF Running, RunRecord
  <2>3. o.pc = "apply" => Applying(F, s.kind, D, n, b, o)
    BY <2>1, <2>2 DEF Running, Applying
  <2>4. /\ o.from <= D[o.scope] /\ o.position <= D[o.scope]
        /\ o.pc = "finish" => o.last <= D[o.scope]
        /\ o.pc = "ok" => o.end <= D[o.scope]
    BY <2>1, <2>2 DEF Running
  <2> QED
    BY <2>1, <2>2, <2>3, <2>4 DEF Running
<1> QED
  BY <1>1, <1>2 DEF RunOK

(* A step of one runner, which may deliver, save and end or go on. *)
LEMMA RunnerStep ==
    ASSUME ProjectionInv, NEW r \in Runners, r \in setup.runners, UNCHANGED <<storeVars, setup>>,
           NEW c \in RunRecord, run' = [run EXCEPT ![r] = c],
           NEW b \in Seq(Entries), buffer' = [buffer EXCEPT ![r] = b],
           NEW D \in [Scopes -> Nat], checkpoints' = D,
           NEW n \in Seq(Entries), readModel' = n,
           Reached(Feed, D, n), Ordered(Feed, <<>>, n),
           setup.kind = "owned" => OnceOnly(D, n),
           RunOK(Feed, setup, D, n, b, c),
           setup.kind = "persisted" =>
              /\ \A scope \in Scopes : checkpoints[scope] <= D[scope]
              /\ \A scope \in Scopes : \A f \in Feed[scope] :
                    Has(readModel, scope, f) => Has(n, scope, f)
    PROVE  ProjectionInv'
<1>1. Feed' = Feed /\ setup' = setup /\ StoreInv'
  <2>1. UNCHANGED <<streams, global, next_sequence>>
    BY DEF storeVars
  <2>2. StoreInv'
    <3>1. StoreInv /\ [StoreNext]_storeVars
      BY <2>1 DEF ProjectionInv, storeVars
    <3> QED
      BY <3>1, StoreNextInv
  <2> QED
    BY <2>1, <2>2 DEF Feed
<1>2. run' \in [Runners -> RunRecord] /\ buffer' \in [Runners -> Seq(Entries)]
  BY Basics
<1>3. ASSUME NEW p \in Runners
      PROVE  RunOK(Feed, setup, D, n, buffer'[p], run'[p])
  <2>1. CASE p = r
    BY <2>1, Basics
  <2>2. CASE p # r
    <3>1. run'[p] = run[p] /\ buffer'[p] = buffer[p] /\ run[p] \in RunRecord
      BY <2>2, Basics
    <3>2. RunOK(Feed, setup, checkpoints, readModel, buffer[p], run[p])
      BY DEF ProjectionInv
    <3>3. CASE setup.kind = "persisted"
      <4>1. RunOK(Feed, setup, D, n, buffer[p], run[p])
        BY <3>1, <3>2, <3>3, Basics, RunStays
      <4> QED
        BY <3>1, <4>1
    <3>4. CASE setup.kind # "persisted"
      <4>1. p \notin setup.runners
        BY <2>2, <3>4, Basics
      <4>2. run[p].pc = "idle" /\ buffer[p] = <<>>
        BY <4>1 DEF ProjectionInv
      <4> QED
        BY <3>1, <4>2, OrderedEmpty DEF RunOK
    <3> QED
      BY <3>3, <3>4
  <2> QED
    BY <2>1, <2>2
<1>4. ASSUME NEW p \in Runners \ setup.runners
      PROVE  run'[p].pc = "idle" /\ buffer'[p] = <<>>
  <2>1. p # r
    OBVIOUS
  <2>2. run'[p] = run[p] /\ buffer'[p] = buffer[p]
    BY <2>1, Basics
  <2> QED
    BY <2>2 DEF ProjectionInv
<1>5. setup' \in Setups
  BY <1>1, Basics
<1> QED
  BY <1>1, <1>2, <1>3, <1>4, <1>5 DEF ProjectionInv

(* A step that only changes the run of one runner. *)
LEMMA QuietStep ==
    ASSUME ProjectionInv, NEW r \in Runners, r \in setup.runners,
           UNCHANGED <<storeVars, setup, checkpoints, readModel, buffer>>,
           NEW c \in RunRecord, run' = [run EXCEPT ![r] = c],
           c.pc # "idle" =>
              Running(Feed, setup.kind, setup.batch_size, checkpoints, readModel, buffer[r], c)
    PROVE  ProjectionInv'
<1>1. buffer[r] \in Seq(Entries) /\ buffer' = [buffer EXCEPT ![r] = buffer[r]]
  BY Basics
<1>2. RunOK(Feed, setup, checkpoints, readModel, buffer[r], run[r])
  BY DEF ProjectionInv
<1>3. RunOK(Feed, setup, checkpoints, readModel, buffer[r], c)
  BY <1>2 DEF RunOK
<1>4. setup.kind = "owned" => OnceOnly(checkpoints, readModel)
  BY DEF ProjectionInv
<1>5. \A scope \in Scopes : checkpoints[scope] <= checkpoints[scope]
  BY Basics
<1>6. UNCHANGED <<storeVars, setup>> /\ checkpoints' = checkpoints /\ readModel' = readModel
  OBVIOUS
<1>7. /\ checkpoints \in [Scopes -> Nat] /\ readModel \in Seq(Entries)
      /\ Reached(Feed, checkpoints, readModel) /\ Ordered(Feed, <<>>, readModel)
  BY Basics
<1>8. PICK D \in [Scopes -> Nat] : D = checkpoints
  BY <1>7
<1>9. PICK n \in Seq(Entries) : n = readModel
  BY <1>7
<1>10. PICK b \in Seq(Entries) : b = buffer[r]
  BY <1>1
<1> QED
  BY <1>1, <1>3, <1>4, <1>5, <1>6, <1>7, <1>8, <1>9, <1>10, RunnerStep

LEMMA IdleIsRun == Idle \in RunRecord /\ Idle.pc = "idle"
<1>1. <<>> \in Seq(Nat)
  OBVIOUS
<1> QED
  BY <1>1 DEF Idle, RunRecord

(* run returns. *)
LEMMA Returns ==
    ASSUME ProjectionInv, NEW r \in Runners, r \in setup.runners, run' = [run EXCEPT ![r] = Idle],
           UNCHANGED <<storeVars, setup, checkpoints, readModel, buffer>>
    PROVE  ProjectionInv'
BY IdleIsRun, QuietStep

-------------------------------------------------------------------------------
(* run notes where its feed ends. *)
LEMMA EndOfFeedOK ==
    ASSUME StoreInv, NEW scope \in Scopes
    PROVE  EndOfFeed(scope) \in Feed[scope] \cup {0}
<1>1. \A i \in 1..Len(global) : global[i].sequence = i
  BY DEF StoreInv, NumberedInOrder
<1>2. Feed[scope] \in SUBSET (1..Len(global)) /\ Len(global) \in Nat
  BY FeedPositions
<1>3. FeedAfter(scope, 0) = Feed[scope]
  <2>1. \A i \in 1..Len(global) : i > 0
    BY <1>2
  <2> QED
    BY <1>1, <2>1 DEF FeedAfter, Feed
<1>4. CASE Feed[scope] = {}
  BY <1>3, <1>4 DEF EndOfFeed
<1>5. CASE Feed[scope] # {}
  <2> DEFINE K == Feed[scope]
             top == CHOOSE i \in K : \A j \in K : j <= i
  <2>1. K \in SUBSET Nat /\ IsFiniteSet(K)
    <3>1. IsFiniteSet(1..Len(global))
      BY <1>2, FS_Interval
    <3> QED
      BY <1>2, <3>1, FS_Subset
  <2>2. \E i \in K : \A j \in K : j <= i
    <3> HIDE DEF K
    <3>1. K # {} /\ Cardinality(K) \in Nat /\ Cardinality(K) # 0
      BY <1>5, <2>1, FS_EmptySet, FS_CardinalityType DEF K
    <3>2. Cardinality(K) \in 1..Cardinality(K)
      BY <3>1
    <3>3. PICK i \in K : Rank(K, i) = Cardinality(K)
      BY <2>1, <3>2, Ranks
    <3>4. \A j \in K : ~(i < j)
      <4>1. \A j \in K : Rank(K, j) <= Cardinality(K) /\ Rank(K, j) \in Nat
        BY <2>1, <3>1, Ranks
      <4>2. \A j \in K : i < j => Rank(K, i) < Rank(K, j)
        BY <2>1, Ranks
      <4> QED
        BY <3>1, <3>3, <4>1, <4>2
    <3> QED
      BY <2>1, <3>4
  <2>3. top \in K
    <3> HIDE DEF K
    <3> QED
      BY <2>2
  <2> QED
    BY <1>3, <1>5, <2>3 DEF EndOfFeed
<1> QED
  BY <1>4, <1>5

LEMMA RunInv ==
    ASSUME ProjectionInv, NEW r \in Runners, NEW scope \in Scopes, Run(r, scope)
    PROVE  ProjectionInv'
<1>1. PICK e \in Feed[scope] \cup {0} : e = EndOfFeed(scope)
  BY EndOfFeedOK DEF ProjectionInv
<1>2. e \in Nat /\ checkpoints[scope] \in Nat
  BY <1>1, Basics
<1> DEFINE c == [Idle EXCEPT !.pc = "checkpoint", !.scope = scope, !.end = e]
<1>3. /\ c \in RunRecord /\ c.pc = "checkpoint" /\ c.scope = scope /\ c.end = e
      /\ c.from = 0 /\ c.last = 0 /\ c.position = 0
  <2>1. <<>> \in Seq(Nat)
    OBVIOUS
  <2> QED
    BY <1>2, <2>1 DEF Idle, RunRecord
<1>4. /\ r \in setup.runners /\ run' = [run EXCEPT ![r] = c]
      /\ UNCHANGED <<storeVars, setup, checkpoints, readModel, buffer>>
  BY <1>1 DEF Run
<1> HIDE DEF c
<1>5. Running(Feed, setup.kind, setup.batch_size, checkpoints, readModel, buffer[r], c)
  BY <1>1, <1>2, <1>3 DEF Running
<1> QED
  BY <1>3, <1>4, <1>5, QuietStep

LEMMA LoadCheckpointInv ==
    ASSUME ProjectionInv, NEW r \in Runners, LoadCheckpoint(r)
    PROVE  ProjectionInv'
<1>1. /\ run[r].pc = "checkpoint"
      /\ UNCHANGED <<storeVars, setup, checkpoints, readModel, buffer>>
  BY DEF LoadCheckpoint
<1>2. PICK o \in RunRecord : o = run[r]
  BY Basics
<1>3. /\ r \in setup.runners /\ o.scope \in Scopes /\ checkpoints[o.scope] \in Nat
      /\ Running(Feed, setup.kind, setup.batch_size, checkpoints, readModel, buffer[r], o)
  BY <1>1, <1>2, OneRun
<1>4. CASE ReturnError(r)
  BY <1>1, <1>3, <1>4, Returns DEF ReturnError
<1>5. CASE ~ReturnError(r)
  <2>1. PICK n \in Nat : n = checkpoints[o.scope]
    BY <1>3
  <2> DEFINE c == [o EXCEPT !.from = n, !.pc = "load"]
  <2>2. /\ c \in RunRecord /\ c.pc = "load" /\ c.from = n /\ c.scope = o.scope
        /\ c.last = o.last /\ c.position = o.position /\ c.end = o.end
    BY DEF RunRecord
  <2>3. run' = [run EXCEPT ![r] = c]
    BY <1>2, <1>5, <2>1 DEF LoadCheckpoint, CheckpointKey
  <2> HIDE DEF c
  <2>4. n \in Feed[o.scope] \cup {0}
    BY <1>3, <2>1, Basics DEF Reached
  <2>5. Running(Feed, setup.kind, setup.batch_size, checkpoints, readModel, buffer[r], c)
    BY <1>1, <1>2, <1>3, <2>1, <2>2, <2>4 DEF Running
  <2> QED
    BY <1>1, <1>3, <2>2, <2>3, <2>5, QuietStep
<1> QED
  BY <1>4, <1>5

LEMMA LoadBatchInv ==
    ASSUME ProjectionInv, NEW r \in Runners, LoadBatch(r)
    PROVE  ProjectionInv'
<1>1. /\ run[r].pc = "load"
      /\ UNCHANGED <<storeVars, setup, checkpoints, readModel, buffer>>
  BY DEF LoadBatch
<1>2. PICK o \in RunRecord : o = run[r]
  BY Basics
<1>3. /\ r \in setup.runners /\ o.scope \in Scopes /\ checkpoints[o.scope] \in Nat
      /\ Running(Feed, setup.kind, setup.batch_size, checkpoints, readModel, buffer[r], o)
      /\ Feed[o.scope] \in SUBSET Nat
  BY <1>1, <1>2, OneRun
<1>4. CASE ReturnError(r)
  BY <1>1, <1>3, <1>4, Returns DEF ReturnError
<1>5. CASE ~ReturnError(r)
  <2>1. o.from \in Nat /\ o.end \in Nat /\ setup.batch_size \in Nat /\ setup.batch_size # 0
    BY Basics DEF RunRecord
  <2>2. PICK page : page = LoadGlobalAfter(o.scope, o.from, setup.batch_size)
    OBVIOUS
  <2>3. /\ page \in Seq(Nat) /\ Len(page) \in Nat
        /\ PageAfter(Feed[o.scope], o.from, page)
        /\ Len(page) < setup.batch_size =>
              \A f \in Feed[o.scope] : f > o.from => \E k \in 1..Len(page) : page[k] = f
    <3>1. StoreInv
      BY DEF ProjectionInv
    <3> QED
      <4>1. PICK limit \in Nat : limit = setup.batch_size
        BY <2>1
      <4>2. PICK from \in Nat : from = o.from
        BY <2>1
      <4>3. page = LoadGlobalAfter(o.scope, from, limit)
        BY <2>2, <4>1, <4>2
      <4>4. /\ page \in Seq(Nat) /\ Len(page) \in Nat
            /\ PageAfter(Feed[o.scope], from, page)
            /\ Len(page) < limit =>
                  \A f \in Feed[o.scope] : f > from => \E k \in 1..Len(page) : page[k] = f
        BY <1>3, <3>1, <4>3, PageOfFeed
      <4> QED
        BY <4>1, <4>2, <4>4
  <2> DEFINE c == [o EXCEPT !.batch = page, !.size = Len(page), !.last = 0,
                            !.failed = FALSE, !.pc = "apply"]
  <2>4. c \in RunRecord
    BY <2>3 DEF RunRecord
  <2>5. /\ c.pc = "apply" /\ c.from = o.from /\ c.scope = o.scope
        /\ c.last = 0 /\ c.position = o.position /\ c.end = o.end
        /\ c.batch = page /\ c.size = Len(page)
    BY DEF RunRecord
  <2>6. run' = [run EXCEPT ![r] = c]
    <3>1. run' = [run EXCEPT ![r].batch = page, ![r].size = Len(page),
                             ![r].last = 0, ![r].failed = FALSE, ![r].pc = "apply"]
      BY <1>2, <1>5, <2>2, Zenon DEF LoadBatch
    <3> QED
      BY <1>2, <3>1
  <2> HIDE DEF c
  <2>7. Applied(c) = o.from
    BY <2>5 DEF Applied
  <2>8. o.from <= checkpoints[o.scope] /\ (setup.kind # "persisted" => o.from = checkpoints[o.scope])
    BY <1>1, <1>2, <1>3 DEF Running
  <2>9. Applying(Feed, setup.kind, checkpoints, readModel, buffer[r], c)
    <3>1. ASSUME NEW f \in Feed[o.scope], f <= o.from
          PROVE  Has(readModel, o.scope, f)
      <4>1. f <= checkpoints[o.scope]
        BY <1>3, <2>1, <2>8, <3>1
      <4> QED
        BY <1>3, <4>1, Basics DEF Reached
    <3> QED
      BY <2>3, <2>5, <2>7, <2>8, <3>1 DEF Applying
  <2>10. Advancing(setup.batch_size, c)
    <3>1. ASSUME Len(page) < setup.batch_size
          PROVE  o.end <= o.from \/ \E k \in 1..Len(page) : page[k] = o.end
      <4>1. o.end \in Feed[o.scope] \cup {0}
        BY <1>3 DEF Running
      <4>2. CASE o.end > o.from
        <5>1. o.end \in Feed[o.scope]
          BY <2>1, <4>1, <4>2
        <5> QED
          BY <2>3, <3>1, <4>2, <5>1, Zenon
      <4>3. CASE ~(o.end > o.from)
        BY <2>1, <4>3
      <4> QED
        BY <4>2, <4>3
    <3>2. Len(page) > 0 => page # <<>>
      BY <2>3
    <3> QED
      BY <2>5, <2>7, <3>1, <3>2 DEF Advancing
  <2>11. Running(Feed, setup.kind, setup.batch_size, checkpoints, readModel, buffer[r], c)
    BY <1>1, <1>2, <1>3, <2>5, <2>9, <2>10 DEF Running
  <2> QED
    BY <1>1, <1>3, <2>4, <2>6, <2>11, QuietStep
<1> QED
  BY <1>4, <1>5

-------------------------------------------------------------------------------
(* What taking the head h of its batch does to a run o in progress. *)
HeadTaken(o, h, c) ==
    /\ h \in Nat \ {0} /\ h \in Feed[o.scope] /\ h > Applied(o) /\ Applied(o) \in Nat
    /\ \A f \in Feed[o.scope] : f < h => f <= Applied(o)
    /\ c \in RunRecord /\ c.pc = "apply" /\ c.scope = o.scope /\ c.last = h
    /\ c.from = o.from /\ c.position = o.position /\ c.end = o.end
    /\ Applied(c) = h /\ h > o.from
    /\ PageAfter(Feed[o.scope], h, c.batch)
    /\ Advancing(setup.batch_size, c)

LEMMA TakeHead ==
    ASSUME ProjectionInv, NEW r \in Runners, run[r].pc = "apply", run[r].batch # <<>>
    PROVE  HeadTaken(run[r], Head(run[r].batch),
                     [run[r] EXCEPT !.last = Head(run[r].batch), !.batch = Tail(run[r].batch)])
<1>1. PICK o \in RunRecord : o = run[r]
  BY Basics
<1>2. /\ o.scope \in Scopes /\ Feed[o.scope] \in SUBSET Nat
      /\ Running(Feed, setup.kind, setup.batch_size, checkpoints, readModel, buffer[r], o)
  BY <1>1, OneRun
<1>3. /\ PageAfter(Feed[o.scope], Applied(o), o.batch)
      /\ Advancing(setup.batch_size, o)
  BY <1>1, <1>2 DEF Running, Applying
<1>4. /\ o.batch \in Seq(Nat) /\ o.from \in Nat /\ o.last \in Nat /\ o.end \in Nat
      /\ o.size \in Nat /\ Applied(o) \in Nat /\ Applied(o) >= o.from
  <2>1. o.batch \in Seq(Nat) /\ o.from \in Nat /\ o.last \in Nat /\ o.end \in Nat /\ o.size \in Nat
    BY DEF RunRecord
  <2> QED
    BY <1>3, <2>1 DEF Applied, Advancing
<1>5. PICK h : h = Head(o.batch)
  OBVIOUS
<1>6. PICK t : t = Tail(o.batch)
  OBVIOUS
<1>7. /\ h \in Feed[o.scope] /\ h > Applied(o)
      /\ \A f \in Feed[o.scope] : f < h => f <= Applied(o)
      /\ t \in Seq(Nat)
      /\ PageAfter(Feed[o.scope], h, t)
      /\ \A k \in 1..Len(o.batch) : o.batch[k] = h \/ \E j \in 1..Len(t) : t[j] = o.batch[k]
  <2>1. PICK q \in Seq(Nat) : q = o.batch
    BY <1>4
  <2>2. PICK S \in SUBSET Nat : S = Feed[o.scope]
    BY <1>2
  <2>3. PICK p \in Nat : p = Applied(o)
    BY <1>4
  <2>4. q # <<>> /\ PageAfter(S, p, q)
    BY <1>1, <1>3, <2>1, <2>2, <2>3
  <2>5. /\ Head(q) \in S /\ Head(q) > p
        /\ \A f \in S : f < Head(q) => f <= p
        /\ Tail(q) \in Seq(Nat)
        /\ PageAfter(S, Head(q), Tail(q))
        /\ \A k \in 1..Len(q) : q[k] = Head(q) \/ \E j \in 1..Len(Tail(q)) : Tail(q)[j] = q[k]
    BY <2>4, PageTail
  <2> QED
    BY <1>5, <1>6, <2>1, <2>2, <2>3, <2>5, Zenon
<1>8. h \in Nat /\ h # 0 /\ h > o.from
  BY <1>2, <1>4, <1>7
<1> DEFINE c == [o EXCEPT !.last = h, !.batch = t]
<1>9. c \in RunRecord
  BY <1>7, <1>8 DEF RunRecord
<1>10. /\ c.pc = "apply" /\ c.scope = o.scope /\ c.last = h /\ c.batch = t
       /\ c.from = o.from /\ c.position = o.position /\ c.end = o.end
       /\ c.size = o.size /\ c.failed = o.failed
  BY <1>1 DEF RunRecord
<1> HIDE DEF c
<1>11. Applied(c) = h
  BY <1>8, <1>10 DEF Applied
<1>12. Advancing(setup.batch_size, c)
  <2>1. ASSUME o.failed = FALSE, o.size < setup.batch_size
        PROVE  o.end <= h \/ \E k \in 1..Len(t) : t[k] = o.end
    <3>1. o.end <= Applied(o) \/ \E k \in 1..Len(o.batch) : o.batch[k] = o.end
      BY <1>3, <2>1 DEF Advancing
    <3>2. o.end <= Applied(o) => o.end <= h
      BY <1>4, <1>7, <1>8
    <3>3. (\E k \in 1..Len(o.batch) : o.batch[k] = o.end) =>
             o.end <= h \/ \E k \in 1..Len(t) : t[k] = o.end
      BY <1>7, <1>8
    <3> QED
      BY <3>1, <3>2, <3>3
  <2> QED
    BY <1>8, <1>10, <1>11, <2>1 DEF Advancing
<1>13. HeadTaken(o, h, c)
  BY <1>4, <1>7, <1>8, <1>9, <1>10, <1>11, <1>12 DEF HeadTaken
<1> QED
  BY <1>1, <1>5, <1>6, <1>13 DEF c

LEMMA ApplyEventInv ==
    ASSUME ProjectionInv, NEW r \in Runners, ApplyEvent(r)
    PROVE  ProjectionInv'
<1>1. /\ run[r].pc = "apply" /\ run[r].batch # <<>> /\ setup.kind # "owned"
      /\ UNCHANGED <<storeVars, setup, checkpoints, readModel>>
  BY DEF ApplyEvent
<1>2. PICK o \in RunRecord : o = run[r]
  BY Basics
<1>3. /\ r \in setup.runners /\ o.scope \in Scopes /\ checkpoints[o.scope] \in Nat
      /\ Running(Feed, setup.kind, setup.batch_size, checkpoints, readModel, buffer[r], o)
      /\ Feed[o.scope] \in SUBSET Nat /\ Ordered(Feed, readModel, buffer[r])
  BY <1>1, <1>2, OneRun
<1>4. Applying(Feed, setup.kind, checkpoints, readModel, buffer[r], o)
  BY <1>1, <1>2, <1>3 DEF Running
<1>5. CASE UNCHANGED buffer /\ run' = [run EXCEPT ![r].failed = TRUE, ![r].batch = <<>>]
  <2> DEFINE c == [o EXCEPT !.failed = TRUE, !.batch = <<>>]
  <2>1. <<>> \in Seq(Nat)
    OBVIOUS
  <2>2. /\ c \in RunRecord /\ c.pc = o.pc /\ c.from = o.from /\ c.scope = o.scope
        /\ c.last = o.last /\ c.position = o.position /\ c.end = o.end
        /\ c.batch = <<>> /\ c.failed = TRUE
    BY <2>1 DEF RunRecord
  <2>3. run' = [run EXCEPT ![r] = c]
    BY <1>2, <1>5
  <2> HIDE DEF c
  <2>4. Applied(c) = Applied(o)
    BY <2>2 DEF Applied
  <2>5. PageAfter(Feed[o.scope], Applied(o), <<>>)
    BY DEF PageAfter
  <2>6. Applying(Feed, setup.kind, checkpoints, readModel, buffer[r], c)
    BY <1>4, <2>2, <2>4, <2>5 DEF Applying
  <2>7. Advancing(setup.batch_size, o)
    BY <1>1, <1>2, <1>3 DEF Running
  <2>8. Advancing(setup.batch_size, c)
    BY <2>2, <2>7 DEF Advancing
  <2>9. Running(Feed, setup.kind, setup.batch_size, checkpoints, readModel, buffer[r], c)
    BY <1>1, <1>2, <1>3, <2>2, <2>6, <2>8 DEF Running
  <2> QED
    BY <1>1, <1>3, <1>5, <2>2, <2>3, <2>9, QuietStep
<1>6. CASE /\ buffer' = [buffer EXCEPT ![r] = Append(@, <<run[r].scope, Head(run[r].batch)>>)]
           /\ run' = [run EXCEPT ![r].last = Head(run[r].batch), ![r].batch = Tail(@)]
  <2>1. PICK h : h = Head(o.batch)
    OBVIOUS
  <2>2. PICK c : c = [o EXCEPT !.last = h, !.batch = Tail(o.batch)]
    OBVIOUS
  <2>3. /\ h \in Nat \ {0} /\ h \in Feed[o.scope] /\ h > Applied(o) /\ Applied(o) \in Nat
        /\ \A f \in Feed[o.scope] : f < h => f <= Applied(o)
        /\ c \in RunRecord /\ c.pc = "apply" /\ c.scope = o.scope /\ c.last = h
        /\ c.from = o.from /\ c.position = o.position /\ c.end = o.end
        /\ Applied(c) = h
        /\ PageAfter(Feed[o.scope], h, c.batch)
        /\ Advancing(setup.batch_size, c)
    <3>1. HeadTaken(o, h, c)
      BY <1>1, <1>2, <2>1, <2>2, TakeHead
    <3> QED
      BY <3>1 DEF HeadTaken
  <2>4. run' = [run EXCEPT ![r] = c]
    BY <1>2, <1>6, <2>1, <2>2
  <2>5. PICK a \in Seq(Entries) : a = buffer[r]
    BY Basics
  <2> DEFINE b == Append(a, <<o.scope, h>>)
  <2>6. buffer' = [buffer EXCEPT ![r] = b]
    BY <1>2, <1>6, <2>1, <2>5, Basics
  <2>7. \A f \in Feed[o.scope] : f <= Applied(o) => Has(readModel, o.scope, f) \/ Has(a, o.scope, f)
    BY <1>1, <1>4, <2>5 DEF Applying
  <2>8. b \in Seq(Entries) /\ Ordered(Feed, readModel, b)
    BY <1>3, <2>3, <2>5, <2>7, OrderedAppend
  <2>9. /\ Has(b, o.scope, h)
        /\ \A sc, f : Has(a, sc, f) => Has(b, sc, f)
    BY <1>3, <2>3, HasAppend
  <2> HIDE DEF b
  <2>10. ASSUME NEW f \in Feed[o.scope], f <= h
         PROVE  Has(readModel, o.scope, f) \/ Has(b, o.scope, f)
    <3>1. f = h \/ f < h
      BY <1>3, <2>3, <2>10
    <3> QED
      BY <2>3, <2>7, <2>9, <3>1
  <2>11. Applying(Feed, setup.kind, checkpoints, readModel, b, c)
    BY <1>1, <1>4, <2>3, <2>10 DEF Applying
  <2>12. Running(Feed, setup.kind, setup.batch_size, checkpoints, readModel, b, c)
    BY <1>1, <1>2, <1>3, <2>3, <2>11 DEF Running
  <2>13. RunOK(Feed, setup, checkpoints, readModel, b, c)
    BY <2>8, <2>12 DEF RunOK
  <2>14. PICK D \in [Scopes -> Nat] : D = checkpoints
    BY Basics
  <2>15. PICK n \in Seq(Entries) : n = readModel
    BY Basics
  <2>16. Reached(Feed, D, n) /\ Ordered(Feed, <<>>, n) /\ RunOK(Feed, setup, D, n, b, c)
    BY <2>13, <2>14, <2>15, Basics
  <2>17. /\ \A scope \in Scopes : checkpoints[scope] <= D[scope]
         /\ checkpoints' = D /\ readModel' = n /\ UNCHANGED <<storeVars, setup>>
    BY <1>1, <2>14, <2>15
  <2> QED
    BY <1>1, <1>3, <2>3, <2>4, <2>6, <2>8, <2>15, <2>16, <2>17, RunnerStep
<1> QED
  BY <1>5, <1>6 DEF ApplyEvent

(* A save that takes the checkpoint of a scope to a position that is       *)
(* delivered.                                                              *)
LEMMA ReachedFurther ==
    ASSUME NEW F \in [Scopes -> SUBSET (Nat \ {0})], NEW C \in [Scopes -> Nat],
           NEW m, NEW n, Reached(F, C, m),
           \A scope \in Scopes : \A f \in F[scope] : Has(m, scope, f) => Has(n, scope, f),
           NEW sc \in Scopes, NEW x \in F[sc],
           \A f \in F[sc] : f <= x => Has(n, sc, f)
    PROVE  Reached(F, [C EXCEPT ![sc] = x], n)
<1> DEFINE D == [C EXCEPT ![sc] = x]
<1>1. D[sc] = x /\ \A scope \in Scopes : scope # sc => D[scope] = C[scope]
  OBVIOUS
<1> HIDE DEF D
<1>2. Reached(F, D, n)
  BY <1>1 DEF Reached
<1> QED
  BY <1>2 DEF D

LEMMA FlushInv ==
    ASSUME ProjectionInv, NEW r \in Runners, Flush(r)
    PROVE  ProjectionInv'
<1>1. /\ run[r].pc = "apply" /\ run[r].batch = <<>> /\ setup.kind = "persisted"
      /\ UNCHANGED <<storeVars, setup, checkpoints>>
  BY DEF Flush
<1>2. PICK o \in RunRecord : o = run[r]
  BY Basics
<1>3. /\ r \in setup.runners /\ o.scope \in Scopes /\ checkpoints[o.scope] \in Nat
      /\ Running(Feed, setup.kind, setup.batch_size, checkpoints, readModel, buffer[r], o)
      /\ Feed[o.scope] \in SUBSET Nat /\ Ordered(Feed, readModel, buffer[r])
  BY <1>1, <1>2, OneRun
<1>4. /\ Applying(Feed, setup.kind, checkpoints, readModel, buffer[r], o)
      /\ Advancing(setup.batch_size, o)
  BY <1>1, <1>2, <1>3 DEF Running
<1>5. CASE UNCHANGED <<readModel, buffer>> /\ ReturnError(r)
  BY <1>1, <1>3, <1>5, Returns DEF ReturnError
<1>6. CASE o.last = 0
  <2> DEFINE c == [o EXCEPT !.pc = "finish"]
  <2>1. /\ c \in RunRecord /\ c.pc = "finish" /\ c.from = o.from /\ c.scope = o.scope
        /\ c.last = o.last /\ c.position = o.position /\ c.end = o.end
        /\ c.batch = o.batch /\ c.failed = o.failed /\ c.size = o.size
    BY DEF RunRecord
  <2>2. run' = [run EXCEPT ![r] = c] /\ UNCHANGED <<readModel, buffer>>
    BY <1>2, <1>6 DEF Flush
  <2> HIDE DEF c
  <2>3. Advancing(setup.batch_size, c)
    BY <1>4, <2>1 DEF Advancing, Applied
  <2>4. Running(Feed, setup.kind, setup.batch_size, checkpoints, readModel, buffer[r], c)
    BY <1>1, <1>2, <1>3, <1>6, <2>1, <2>3 DEF Running
  <2> QED
    BY <1>1, <1>3, <2>1, <2>2, <2>4, QuietStep
<1>7. CASE /\ o.last # 0
           /\ readModel' = readModel \o buffer[r]
           /\ buffer' = [buffer EXCEPT ![r] = <<>>]
           /\ run' = [run EXCEPT ![r].pc = "save"]
  <2> DEFINE c == [o EXCEPT !.pc = "save"]
  <2>1. /\ c \in RunRecord /\ c.pc = "save" /\ c.from = o.from /\ c.scope = o.scope
        /\ c.last = o.last /\ c.position = o.position /\ c.end = o.end
        /\ c.batch = o.batch /\ c.failed = o.failed /\ c.size = o.size
    BY DEF RunRecord
  <2>2. run' = [run EXCEPT ![r] = c]
    BY <1>2, <1>7
  <2> HIDE DEF c
  <2>3. Advancing(setup.batch_size, c)
    BY <1>4, <2>1 DEF Advancing, Applied
  <2>4. PICK a \in Seq(Entries) : a = buffer[r]
    BY Basics
  <2>5. PICK m \in Seq(Entries) : m = readModel
    BY Basics
  <2> DEFINE n == m \o a
  <2>6. n \in Seq(Entries) /\ readModel' = n
    BY <1>7, <2>4, <2>5, ConcatAt
  <2>7. Ordered(Feed, <<>>, n)
    BY <1>3, <2>4, <2>5, Basics, OrderedConcat
  <2>8. \A sc, f : Has(m, sc, f) \/ Has(a, sc, f) => Has(n, sc, f)
    BY HasConcat
  <2> HIDE DEF n
  <2>9. \A f \in Feed[o.scope] : f <= o.last => Has(n, o.scope, f)
    BY <1>1, <1>4, <1>7, <2>4, <2>5, <2>8 DEF Applying, Applied
  <2>10. Running(Feed, setup.kind, setup.batch_size, checkpoints, n, <<>>, c)
    BY <1>1, <1>2, <1>3, <1>7, <2>1, <2>3, <2>9 DEF Running
  <2>11. PICK D \in [Scopes -> Nat] : D = checkpoints
    BY Basics
  <2>12. Reached(Feed, D, n)
    BY <2>5, <2>8, <2>11, Basics DEF Reached
  <2>13. RunOK(Feed, setup, D, n, <<>>, c)
    BY <2>10, <2>11, OrderedEmpty DEF RunOK
  <2>14. /\ \A scope \in Scopes : checkpoints[scope] <= D[scope]
         /\ \A scope \in Scopes : \A f \in Feed[scope] :
               Has(readModel, scope, f) => Has(n, scope, f)
         /\ checkpoints' = D /\ UNCHANGED <<storeVars, setup>>
         /\ <<>> \in Seq(Entries) /\ setup.kind # "owned"
    BY <1>1, <2>5, <2>8, <2>11
  <2> QED
    BY <1>3, <1>7, <2>1, <2>2, <2>6, <2>7, <2>12, <2>13, <2>14, RunnerStep
<1> QED
  BY <1>2, <1>5, <1>6, <1>7 DEF Flush

LEMMA SaveCheckpointInv ==
    ASSUME ProjectionInv, NEW r \in Runners, SaveCheckpoint(r)
    PROVE  /\ ProjectionInv'
           /\ \A scope \in Scopes : checkpoints'[scope] >= checkpoints[scope]
<1>1. run[r].pc = "save" /\ UNCHANGED <<storeVars, setup, readModel, buffer>>
  BY DEF SaveCheckpoint
<1>2. PICK o \in RunRecord : o = run[r]
  BY Basics
<1>3. /\ r \in setup.runners /\ o.scope \in Scopes /\ checkpoints[o.scope] \in Nat
      /\ Running(Feed, setup.kind, setup.batch_size, checkpoints, readModel, buffer[r], o)
      /\ Feed[o.scope] \in SUBSET Nat /\ Ordered(Feed, readModel, buffer[r])
      /\ buffer[r] \in Seq(Entries)
  BY <1>1, <1>2, OneRun
<1>4. CASE UNCHANGED checkpoints /\ ReturnError(r)
  <2>1. ProjectionInv'
    BY <1>1, <1>3, <1>4, Returns DEF ReturnError
  <2> QED
    BY <1>4, <2>1, Basics
<1>5. CASE /\ checkpoints' = Saved(CheckpointKey(run[r].scope), run[r].last)
           /\ run' = [run EXCEPT ![r].pc = "finish"]
  <2>1. /\ setup.kind = "persisted" /\ o.last \in Feed[o.scope] /\ o.last \in Nat
        /\ \A f \in Feed[o.scope] : f <= o.last => Has(readModel, o.scope, f)
    BY <1>1, <1>2, <1>3 DEF Running
  <2> DEFINE x == IF o.last > checkpoints[o.scope] THEN o.last ELSE checkpoints[o.scope]
             D == [checkpoints EXCEPT ![o.scope] = x]
             c == [o EXCEPT !.pc = "finish"]
  <2>2. checkpoints' = D /\ run' = [run EXCEPT ![r] = c]
    BY <1>2, <1>5 DEF Saved, CheckpointKey
  <2>3. /\ c \in RunRecord /\ c.pc = "finish" /\ c.from = o.from /\ c.scope = o.scope
        /\ c.last = o.last /\ c.position = o.position /\ c.end = o.end
        /\ c.batch = o.batch /\ c.failed = o.failed /\ c.size = o.size
    BY DEF RunRecord
  <2>4. x \in Nat /\ x >= o.last /\ x >= checkpoints[o.scope]
    BY <1>3, <2>1
  <2>5. /\ D \in [Scopes -> Nat] /\ D[o.scope] = x
        /\ \A scope \in Scopes : checkpoints[scope] <= D[scope]
    <3> HIDE DEF x
    <3>1. D \in [Scopes -> Nat] /\ D[o.scope] = x
      BY <1>3, <2>4, Basics
    <3>2. \A scope \in Scopes : scope # o.scope => D[scope] = checkpoints[scope]
      BY Basics
    <3> QED
      BY <1>3, <2>4, <3>1, <3>2, Basics
  <2>6. Reached(Feed, D, readModel)
    <3>1. CASE o.last > checkpoints[o.scope]
      <4>1. D = [checkpoints EXCEPT ![o.scope] = o.last]
        BY <3>1
      <4> HIDE DEF D
      <4> QED
        BY <1>3, <2>1, <4>1, Basics, ReachedFurther
    <3>2. CASE ~(o.last > checkpoints[o.scope])
      <4>1. D = checkpoints
        BY <1>3, <3>2, Basics
      <4> QED
        BY <4>1, Basics
    <3> QED
      BY <3>1, <3>2
  <2> HIDE DEF D, c, x
  <2>7. o.from \in Nat /\ o.last \in Nat /\ o.position \in Nat
    BY DEF RunRecord
  <2>8. Advancing(setup.batch_size, c)
    BY <1>1, <1>2, <1>3, <2>3 DEF Running, Advancing, Applied
  <2>9. Running(Feed, setup.kind, setup.batch_size, D, readModel, buffer[r], c)
    <3>1. o.from <= D[o.scope] /\ o.position <= D[o.scope] /\ o.last <= D[o.scope]
      BY <1>3, <2>4, <2>5, <2>7 DEF Running
    <3> QED
      BY <1>1, <1>2, <1>3, <2>3, <2>8, <3>1 DEF Running
  <2>10. RunOK(Feed, setup, D, readModel, buffer[r], c)
    BY <1>3, <2>9 DEF RunOK
  <2>11. PICK n \in Seq(Entries) : n = readModel
    BY Basics
  <2>12. PICK b \in Seq(Entries) : b = buffer[r]
    BY Basics
  <2>13. /\ Reached(Feed, D, n) /\ Ordered(Feed, <<>>, n) /\ RunOK(Feed, setup, D, n, b, c)
         /\ readModel' = n /\ buffer' = [buffer EXCEPT ![r] = b]
         /\ UNCHANGED <<storeVars, setup>> /\ setup.kind # "owned"
    BY <1>1, <2>1, <2>6, <2>10, <2>11, <2>12, Basics
  <2>14. ProjectionInv'
    BY <1>3, <2>2, <2>3, <2>5, <2>11, <2>13, RunnerStep
  <2> QED
    BY <2>2, <2>5, <2>14, Basics
<1> QED
  BY <1>4, <1>5 DEF SaveCheckpoint

LEMMA FlushInMemoryInv ==
    ASSUME ProjectionInv, NEW r \in Runners, FlushInMemory(r)
    PROVE  /\ ProjectionInv'
           /\ \A scope \in Scopes : checkpoints'[scope] >= checkpoints[scope]
<1>1. /\ run[r].pc = "apply" /\ run[r].batch = <<>> /\ setup.kind = "in_memory"
      /\ UNCHANGED <<storeVars, setup>>
  BY DEF FlushInMemory
<1>2. PICK o \in RunRecord : o = run[r]
  BY Basics
<1>3. /\ r \in setup.runners /\ o.scope \in Scopes /\ checkpoints[o.scope] \in Nat
      /\ Running(Feed, setup.kind, setup.batch_size, checkpoints, readModel, buffer[r], o)
      /\ Feed[o.scope] \in SUBSET Nat /\ Ordered(Feed, readModel, buffer[r])
  BY <1>1, <1>2, OneRun
<1>4. /\ Applying(Feed, setup.kind, checkpoints, readModel, buffer[r], o)
      /\ Advancing(setup.batch_size, o)
  BY <1>1, <1>2, <1>3 DEF Running
<1>5. CASE UNCHANGED <<checkpoints, readModel, buffer>> /\ ReturnError(r)
  <2>1. ProjectionInv'
    BY <1>1, <1>3, <1>5, Returns DEF ReturnError
  <2> QED
    BY <1>5, <2>1, Basics
<1>6. CASE /\ readModel' = readModel \o buffer[r]
           /\ buffer' = [buffer EXCEPT ![r] = <<>>]
           /\ checkpoints' = IF run[r].last = 0 THEN checkpoints
                             ELSE [checkpoints EXCEPT ![CheckpointKey(run[r].scope)] = run[r].last]
           /\ run' = [run EXCEPT ![r].pc = "finish"]
  <2> DEFINE c == [o EXCEPT !.pc = "finish"]
  <2>1. /\ c \in RunRecord /\ c.pc = "finish" /\ c.from = o.from /\ c.scope = o.scope
        /\ c.last = o.last /\ c.position = o.position /\ c.end = o.end
        /\ c.batch = o.batch /\ c.failed = o.failed /\ c.size = o.size
    BY DEF RunRecord
  <2>2. run' = [run EXCEPT ![r] = c]
    BY <1>2, <1>6
  <2> HIDE DEF c
  <2>3. Advancing(setup.batch_size, c)
    BY <1>4, <2>1 DEF Advancing, Applied
  <2>4. PICK a \in Seq(Entries) : a = buffer[r]
    BY Basics
  <2>5. PICK m \in Seq(Entries) : m = readModel
    BY Basics
  <2> DEFINE n == m \o a
  <2>6. n \in Seq(Entries) /\ readModel' = n
    BY <1>6, <2>4, <2>5, ConcatAt
  <2>7. Ordered(Feed, <<>>, n)
    BY <1>3, <2>4, <2>5, Basics, OrderedConcat
  <2>8. \A sc, f : Has(m, sc, f) \/ Has(a, sc, f) => Has(n, sc, f)
    BY HasConcat
  <2> HIDE DEF n
  <2>9. o.last \in Nat /\ o.from \in Nat /\ o.position \in Nat /\ o.from = checkpoints[o.scope]
    BY <1>1, <1>4 DEF RunRecord, Applying
  <2>10. o.last \in Feed[o.scope] \cup {0} /\ o.position <= o.from
    BY <1>1, <1>2, <1>3 DEF Running
  <2>11. /\ checkpoints' \in [Scopes -> Nat]
         /\ Reached(Feed, checkpoints', n)
         /\ \A scope \in Scopes : checkpoints'[scope] >= checkpoints[scope]
         /\ checkpoints'[o.scope] >= o.last
    <3>1. CASE o.last = 0
      <4>1. checkpoints' = checkpoints
        BY <1>2, <1>6, <3>1
      <4>2. Reached(Feed, checkpoints, n)
        BY <2>5, <2>8, Basics DEF Reached
      <4> QED
        BY <1>3, <3>1, <4>1, <4>2, Basics
    <3>2. CASE o.last # 0
      <4> DEFINE D == [checkpoints EXCEPT ![o.scope] = o.last]
      <4>1. checkpoints' = D
        BY <1>2, <1>6, <3>2 DEF CheckpointKey
      <4>2. \A f \in Feed[o.scope] : f <= o.last => Has(n, o.scope, f)
        BY <1>1, <1>4, <2>4, <2>5, <2>8, <3>2 DEF Applying, Applied
      <4>3. Reached(Feed, D, n)
        BY <1>3, <2>5, <2>8, <2>10, <3>2, <4>2, Basics, ReachedFurther
      <4>4. o.last > o.from
        BY <1>4, <3>2 DEF Advancing
      <4>5. D \in [Scopes -> Nat] /\ D[o.scope] = o.last
        BY <1>3, <2>9, Basics
      <4>6. \A scope \in Scopes : scope # o.scope => D[scope] = checkpoints[scope]
        BY Basics
      <4> HIDE DEF D
      <4>7. \A scope \in Scopes : D[scope] >= checkpoints[scope]
        <5>1. checkpoints \in [Scopes -> Nat]
          BY Basics
        <5>2. D[o.scope] >= checkpoints[o.scope]
          BY <2>9, <4>4, <4>5
        <5> QED
          BY <4>6, <5>1, <5>2
      <4>8. D[o.scope] >= o.last
        BY <2>9, <4>5
      <4> QED
        BY <4>1, <4>3, <4>5, <4>7, <4>8, Zenon
    <3> QED
      BY <3>1, <3>2
  <2>12. PICK D \in [Scopes -> Nat] : D = checkpoints'
    BY <2>11
  <2>13. Reached(Feed, D, n) /\ D[o.scope] >= checkpoints[o.scope] /\ D[o.scope] >= o.last
    BY <1>3, <2>11, <2>12
  <2>14. D[o.scope] \in Nat
    BY <1>3
  <2>15. o.from <= D[o.scope] /\ o.position <= D[o.scope] /\ o.last <= D[o.scope]
    BY <1>3, <2>9, <2>10, <2>13, <2>14
  <2>16. Running(Feed, setup.kind, setup.batch_size, D, n, <<>>, c)
    BY <1>1, <1>2, <1>3, <2>1, <2>3, <2>15 DEF Running
  <2>17. RunOK(Feed, setup, D, n, <<>>, c)
    BY <2>16, OrderedEmpty DEF RunOK
  <2>18. <<>> \in Seq(Entries) /\ setup.kind # "owned" /\ setup.kind # "persisted"
    BY <1>1
  <2>19. ProjectionInv'
    BY <1>1, <1>3, <1>6, <2>1, <2>2, <2>6, <2>7, <2>12, <2>13, <2>17, <2>18, RunnerStep
  <2> QED
    BY <2>11, <2>19
<1> QED
  BY <1>5, <1>6 DEF FlushInMemory

(* A new entry beyond the checkpoint is there once. *)
LEMMA OnceAppend ==
    ASSUME NEW C \in [Scopes -> Nat], NEW m \in Seq(Entries), OnceOnly(C, m),
           NEW scope \in Scopes, NEW h \in Nat, h > C[scope]
    PROVE  OnceOnly([C EXCEPT ![scope] = h], Append(m, <<scope, h>>))
<1> DEFINE D == [C EXCEPT ![scope] = h]
           e == <<scope, h>>
           a == Append(m, e)
<1>1. e \in Entries
  BY DEF Entries
<1>2. Len(m) \in Nat /\ a \in Seq(Entries) /\ Len(a) = Len(m) + 1 /\ a[Len(m) + 1] = e
  BY <1>1, LenProperties, AppendProperties
<1>3. \A i \in 1..Len(m) : a[i] = m[i]
  BY <1>1, AppendProperties
<1>4. D[scope] = h /\ \A sc \in Scopes : sc # scope => D[sc] = C[sc]
  OBVIOUS
<1> HIDE DEF a, D
<1>5. \A i \in 1..Len(a) : i \in 1..Len(m) \/ i = Len(m) + 1
  BY <1>2
<1>6. \A i \in 1..Len(m), sc \in Scopes, s \in Nat : m[i] = <<sc, s>> => s <= C[sc]
  BY DEF OnceOnly
<1>7. \A i \in 1..Len(m) : m[i] # e
  BY <1>6
<1>8. ASSUME NEW i \in 1..Len(a), NEW sc \in Scopes, NEW s \in Nat, a[i] = <<sc, s>>
      PROVE  s <= D[sc]
  <2>1. CASE i \in 1..Len(m)
    <3>1. s <= C[sc]
      BY <1>3, <1>6, <1>8, <2>1
    <3>2. CASE sc = scope
      BY <1>4, <3>1, <3>2
    <3>3. CASE sc # scope
      BY <1>4, <3>1, <3>3
    <3> QED
      BY <3>2, <3>3
  <2>2. CASE i = Len(m) + 1
    <3>1. sc = scope /\ s = h
      BY <1>2, <1>8, <2>2
    <3> QED
      BY <1>4, <3>1
  <2> QED
    BY <1>5, <2>1, <2>2
<1>9. ASSUME NEW i \in 1..Len(a), NEW j \in 1..Len(a), a[i] = a[j]
      PROVE  i = j
  <2>1. CASE i \in 1..Len(m) /\ j \in 1..Len(m)
    BY <1>3, <1>9, <2>1 DEF OnceOnly
  <2>2. CASE i \in 1..Len(m) /\ j = Len(m) + 1
    BY <1>2, <1>3, <1>7, <1>9, <2>2
  <2>3. CASE j \in 1..Len(m) /\ i = Len(m) + 1
    BY <1>2, <1>3, <1>7, <1>9, <2>3
  <2> QED
    BY <1>5, <2>1, <2>2, <2>3
<1>10. OnceOnly(D, a)
  BY <1>8, <1>9 DEF OnceOnly
<1> QED
  BY <1>10 DEF D, a

LEMMA ApplyAndCheckpointInv ==
    ASSUME ProjectionInv, NEW r \in Runners, ApplyAndCheckpoint(r)
    PROVE  /\ ProjectionInv'
           /\ \A scope \in Scopes : checkpoints'[scope] >= checkpoints[scope]
<1>1. run[r].pc = "apply" /\ setup.kind = "owned" /\ UNCHANGED <<storeVars, setup, buffer>>
  BY DEF ApplyAndCheckpoint
<1>2. PICK o \in RunRecord : o = run[r]
  BY Basics
<1>3. /\ r \in setup.runners /\ o.scope \in Scopes /\ checkpoints[o.scope] \in Nat
      /\ Running(Feed, setup.kind, setup.batch_size, checkpoints, readModel, buffer[r], o)
      /\ Feed[o.scope] \in SUBSET Nat /\ Ordered(Feed, readModel, buffer[r])
  BY <1>1, <1>2, OneRun
<1>4. /\ Applying(Feed, setup.kind, checkpoints, readModel, buffer[r], o)
      /\ Advancing(setup.batch_size, o) /\ o.position <= o.from
  BY <1>1, <1>2, <1>3 DEF Running
<1>5. o.from \in Nat /\ o.last \in Nat /\ o.position \in Nat /\ Applied(o) = checkpoints[o.scope]
  BY <1>1, <1>4 DEF RunRecord, Applying
<1>6. CASE UNCHANGED <<checkpoints, readModel>> /\ ReturnError(r)
  <2>1. ProjectionInv'
    BY <1>1, <1>3, <1>6, Returns DEF ReturnError
  <2> QED
    BY <1>6, <2>1, Basics
<1>7. CASE run[r].batch = <<>>
  <2> DEFINE c == [o EXCEPT !.pc = "finish"]
  <2>1. /\ c \in RunRecord /\ c.pc = "finish" /\ c.from = o.from /\ c.scope = o.scope
        /\ c.last = o.last /\ c.position = o.position /\ c.end = o.end
        /\ c.batch = o.batch /\ c.failed = o.failed /\ c.size = o.size
    BY DEF RunRecord
  <2>2. run' = [run EXCEPT ![r] = c] /\ UNCHANGED <<checkpoints, readModel>>
    BY <1>2, <1>7 DEF ApplyAndCheckpoint
  <2> HIDE DEF c
  <2>3. Advancing(setup.batch_size, c)
    BY <1>4, <2>1 DEF Advancing, Applied
  <2>4. o.last <= checkpoints[o.scope]
    BY <1>3, <1>5 DEF Applied
  <2>5. Running(Feed, setup.kind, setup.batch_size, checkpoints, readModel, buffer[r], c)
    BY <1>1, <1>2, <1>3, <1>7, <2>1, <2>3, <2>4 DEF Running
  <2>6. ProjectionInv'
    BY <1>1, <1>3, <2>1, <2>2, <2>5, QuietStep
  <2> QED
    BY <2>2, <2>6, Basics
<1>8. CASE /\ run[r].batch # <<>>
           /\ readModel' = Append(readModel, <<run[r].scope, Head(run[r].batch)>>)
           /\ checkpoints' = [checkpoints EXCEPT ![CheckpointKey(run[r].scope)] = Head(run[r].batch)]
           /\ run' = [run EXCEPT ![r].last = Head(run[r].batch), ![r].batch = Tail(@)]
  <2>1. PICK h : h = Head(o.batch)
    OBVIOUS
  <2>2. PICK c : c = [o EXCEPT !.last = h, !.batch = Tail(o.batch)]
    OBVIOUS
  <2>3. HeadTaken(o, h, c)
    BY <1>1, <1>2, <1>8, <2>1, <2>2, TakeHead
  <2>4. /\ h \in Nat \ {0} /\ h \in Feed[o.scope] /\ h > checkpoints[o.scope]
        /\ \A f \in Feed[o.scope] : f < h => f <= checkpoints[o.scope]
        /\ c \in RunRecord /\ c.pc = "apply" /\ c.scope = o.scope /\ c.last = h
        /\ c.from = o.from /\ c.position = o.position /\ c.end = o.end
        /\ Applied(c) = h /\ h > o.from
        /\ PageAfter(Feed[o.scope], h, c.batch)
        /\ Advancing(setup.batch_size, c)
    BY <1>5, <2>3 DEF HeadTaken
  <2>5. run' = [run EXCEPT ![r] = c]
    BY <1>2, <1>8, <2>1, <2>2
  <2>6. PICK m \in Seq(Entries) : m = readModel
    BY Basics
  <2>7. PICK C \in [Scopes -> Nat] : C = checkpoints
    BY Basics
  <2> DEFINE n == Append(m, <<o.scope, h>>)
             D == [C EXCEPT ![o.scope] = h]
  <2>8. readModel' = n /\ checkpoints' = D
    BY <1>2, <1>8, <2>1, <2>6, <2>7 DEF CheckpointKey
  <2>9. D \in [Scopes -> Nat] /\ D[o.scope] = h /\ \A scope \in Scopes : D[scope] >= C[scope]
    <3>1. D[o.scope] = h /\ \A scope \in Scopes : scope # o.scope => D[scope] = C[scope]
      BY <1>3
    <3>2. D \in [Scopes -> Nat]
      BY <2>4
    <3> HIDE DEF D
    <3>3. D[o.scope] >= C[o.scope]
      BY <1>3, <2>4, <2>7, <3>1
    <3> QED
      BY <3>1, <3>2, <3>3
  <2>10. \A f \in Feed[o.scope] : f < h => Has(m, o.scope, f)
    BY <1>3, <2>4, <2>6, Basics DEF Reached
  <2>11. n \in Seq(Entries) /\ Ordered(Feed, <<>>, n)
    BY <1>3, <2>4, <2>6, <2>10, Basics, OrderedAppend
  <2>12. Has(n, o.scope, h) /\ \A sc, f : Has(m, sc, f) => Has(n, sc, f)
    BY <1>3, <2>4, HasAppend
  <2>13. OnceOnly(D, n)
    <3>1. OnceOnly(C, m) /\ h > C[o.scope]
      BY <1>1, <2>4, <2>6, <2>7 DEF ProjectionInv
    <3> QED
      BY <1>3, <2>4, <3>1, OnceAppend
  <2> HIDE DEF n
  <2>14. Reached(Feed, D, n)
    <3>1. \A f \in Feed[o.scope] : f <= h => Has(n, o.scope, f)
      <4>1. \A f \in Feed[o.scope] : f <= h => f = h \/ f < h
        BY <1>3, <2>4
      <4> QED
        BY <2>10, <2>12, <4>1
    <3> QED
      BY <1>3, <2>4, <2>6, <2>7, <2>12, <3>1, Basics, ReachedFurther
  <2> HIDE DEF D
  <2>15. PICK b \in Seq(Entries) : b = buffer[r]
    BY Basics
  <2>16. Applying(Feed, setup.kind, D, n, b, c)
    BY <1>1, <2>4, <2>9 DEF Applying
  <2>17. o.from <= D[o.scope] /\ o.position <= D[o.scope]
    BY <1>4, <1>5, <2>4, <2>9
  <2>18. Running(Feed, setup.kind, setup.batch_size, D, n, b, c)
    BY <1>1, <1>2, <1>3, <2>4, <2>16, <2>17 DEF Running
  <2>19. Ordered(Feed, n, b)
    BY <1>3, <2>6, <2>12, <2>15, OrderedGrows
  <2>20. /\ RunOK(Feed, setup, D, n, b, c) /\ buffer' = [buffer EXCEPT ![r] = b]
         /\ UNCHANGED <<storeVars, setup>> /\ setup.kind # "persisted"
    BY <1>1, <2>15, <2>18, <2>19, Basics DEF RunOK
  <2>21. ProjectionInv'
    BY <1>3, <2>4, <2>5, <2>8, <2>9, <2>11, <2>13, <2>14, <2>20, RunnerStep
  <2> QED
    BY <2>7, <2>8, <2>9, <2>21
<1> QED
  BY <1>6, <1>7, <1>8 DEF ApplyAndCheckpoint

LEMMA FinishBatchInv ==
    ASSUME ProjectionInv, NEW r \in Runners, FinishBatch(r)
    PROVE  ProjectionInv'
<1>1. /\ run[r].pc = "finish"
      /\ UNCHANGED <<storeVars, setup, checkpoints, readModel, buffer>>
  BY DEF FinishBatch
<1>2. PICK o \in RunRecord : o = run[r]
  BY Basics
<1>3. /\ r \in setup.runners /\ o.scope \in Scopes /\ checkpoints[o.scope] \in Nat
      /\ Running(Feed, setup.kind, setup.batch_size, checkpoints, readModel, buffer[r], o)
  BY <1>1, <1>2, OneRun
<1>4. /\ o.from \in Nat /\ o.last \in Nat /\ o.position \in Nat /\ o.end \in Nat /\ o.size \in Nat
      /\ o.failed \in BOOLEAN /\ setup.batch_size \in Nat /\ setup.batch_size # 0
  BY Basics DEF RunRecord
<1>5. CASE ReturnError(r)
  BY <1>1, <1>3, <1>5, Returns DEF ReturnError
<1>6. CASE run' = [run EXCEPT ![r].position = run[r].last, ![r].pc = "checkpoint"]
  <2>1. PICK l \in Nat : l = o.last
    BY <1>4
  <2> DEFINE c == [o EXCEPT !.position = l, !.pc = "checkpoint"]
  <2>2. /\ c \in RunRecord /\ c.pc = "checkpoint" /\ c.from = o.from /\ c.scope = o.scope
        /\ c.last = o.last /\ c.position = l /\ c.end = o.end
    BY DEF RunRecord
  <2>3. run' = [run EXCEPT ![r] = c]
    BY <1>2, <1>6, <2>1
  <2> HIDE DEF c
  <2>4. Running(Feed, setup.kind, setup.batch_size, checkpoints, readModel, buffer[r], c)
    BY <1>1, <1>2, <1>3, <2>1, <2>2 DEF Running
  <2> QED
    BY <1>1, <1>3, <2>2, <2>3, <2>4, QuietStep
<1>7. CASE /\ run' = [run EXCEPT ![r].pc = "ok"]
           /\ o.failed = FALSE
           /\ CaughtUp(r) \/ ~(o.last > o.position)
  <2> DEFINE c == [o EXCEPT !.pc = "ok"]
  <2>1. /\ c \in RunRecord /\ c.pc = "ok" /\ c.from = o.from /\ c.scope = o.scope
        /\ c.last = o.last /\ c.position = o.position /\ c.end = o.end
    BY DEF RunRecord
  <2>2. run' = [run EXCEPT ![r] = c]
    BY <1>2, <1>7
  <2> HIDE DEF c
  <2>3. /\ o.position <= o.from /\ o.from <= checkpoints[o.scope] /\ o.last <= checkpoints[o.scope]
        /\ o.batch = <<>> /\ Advancing(setup.batch_size, o)
    BY <1>1, <1>2, <1>3 DEF Running
  <2>4. o.size < setup.batch_size
    <3>1. CASE CaughtUp(r)
      BY <1>2, <3>1 DEF CaughtUp
    <3>2. CASE ~(o.last > o.position)
      <4>1. ~(o.last # 0)
        BY <1>4, <2>3, <3>2 DEF Advancing
      <4>2. ~(o.size > 0)
        BY <1>7, <2>3, <4>1 DEF Advancing
      <4> QED
        BY <1>4, <4>2
    <3> QED
      BY <1>7, <3>1, <3>2
  <2>5. o.end <= Applied(o)
    <3>1. o.end <= Applied(o) \/ \E k \in 1..Len(o.batch) : o.batch[k] = o.end
      BY <1>7, <2>3, <2>4 DEF Advancing
    <3>2. 1..Len(o.batch) = {}
      BY <2>3
    <3> QED
      BY <3>1, <3>2
  <2>6. o.end <= checkpoints[o.scope]
    <3>1. Applied(o) \in Nat /\ Applied(o) <= checkpoints[o.scope]
      BY <1>4, <2>3 DEF Applied
    <3> QED
      BY <1>3, <1>4, <2>5, <3>1
  <2>7. Running(Feed, setup.kind, setup.batch_size, checkpoints, readModel, buffer[r], c)
    BY <1>1, <1>2, <1>3, <2>1, <2>6 DEF Running
  <2> QED
    BY <1>1, <1>3, <2>1, <2>2, <2>7, QuietStep
<1>8. \/ ReturnError(r)
      \/ run' = [run EXCEPT ![r].position = run[r].last, ![r].pc = "checkpoint"]
      \/ /\ run' = [run EXCEPT ![r].pc = "ok"]
         /\ o.failed = FALSE
         /\ CaughtUp(r) \/ ~(o.last > o.position)
  <2>1. CASE o.failed = TRUE
    <3>1. run[r].failed
      BY <1>2, <2>1
    <3> QED
      BY <3>1, Zenon DEF FinishBatch
  <2>2. CASE o.failed = FALSE
    <3>1. ~run[r].failed
      BY <1>2, <2>2
    <3>2. CASE ~CaughtUp(r) /\ run[r].last > run[r].position
      BY <3>1, <3>2, Zenon DEF FinishBatch
    <3>3. CASE ~(~CaughtUp(r) /\ run[r].last > run[r].position)
      <4>1. run' = [run EXCEPT ![r].pc = "ok"]
        BY <3>1, <3>3 DEF FinishBatch
      <4> QED
        BY <1>2, <2>2, <3>3, <4>1
    <3> QED
      BY <3>2, <3>3
  <2> QED
    BY <1>4, <2>1, <2>2
<1> QED
  BY <1>5, <1>6, <1>7, <1>8

LEMMA ReturnOkInv ==
    ASSUME ProjectionInv, NEW r \in Runners, ReturnOk(r)
    PROVE  ProjectionInv'
<1>1. r \in setup.runners
  BY OneRun DEF ReturnOk
<1> QED
  BY <1>1, Returns DEF ReturnOk

-------------------------------------------------------------------------------
(* Feeds that grow at their end: what was behind a position stays so. *)
Grown(F, G) ==
    \A scope \in Scopes :
       /\ F[scope] \subseteq G[scope]
       /\ \A x \in G[scope] : x \in F[scope] \/ \A f \in F[scope] \cup {0} : f < x

LEMMA OrderedStays ==
    ASSUME NEW F \in [Scopes -> SUBSET (Nat \ {0})], NEW G \in [Scopes -> SUBSET (Nat \ {0})],
           Grown(F, G), NEW m, NEW b, Ordered(F, m, b)
    PROVE  Ordered(G, m, b)
<1> SUFFICES ASSUME NEW i \in 1..Len(b), NEW scope \in Scopes, NEW s \in Nat, b[i] = <<scope, s>>
             PROVE  /\ s \in G[scope]
                    /\ \A f \in G[scope] :
                          f < s => Has(m, scope, f) \/ \E h \in 1..(i - 1) : b[h] = <<scope, f>>
  BY DEF Ordered
<1>1. /\ s \in F[scope]
      /\ \A f \in F[scope] : f < s => Has(m, scope, f) \/ \E h \in 1..(i - 1) : b[h] = <<scope, f>>
  BY DEF Ordered
<1>2. s \in G[scope] /\ \A f \in G[scope] : f < s => f \in F[scope]
  <2>1. \A f \in G[scope] : f \in F[scope] \/ s < f
    BY <1>1 DEF Grown
  <2> QED
    BY <1>1, <2>1 DEF Grown
<1> QED
  BY <1>1, <1>2

LEMMA RunningStays ==
    ASSUME NEW F \in [Scopes -> SUBSET (Nat \ {0})], NEW G \in [Scopes -> SUBSET (Nat \ {0})],
           Grown(F, G), NEW kind, NEW limit, NEW C, NEW m, NEW b, NEW o \in RunRecord,
           Running(F, kind, limit, C, m, b, o)
    PROVE  Running(G, kind, limit, C, m, b, o)
<1>1. /\ o.scope \in Scopes
      /\ {o.from, o.last, o.position, o.end} \subseteq F[o.scope] \cup {0}
  BY DEF Running
<1>2. F[o.scope] \subseteq G[o.scope] /\ G[o.scope] \in SUBSET Nat /\ F[o.scope] \in SUBSET Nat
  BY <1>1 DEF Grown
<1>3. \A x \in F[o.scope] \cup {0} : \A f \in G[o.scope] : f <= x => f \in F[o.scope]
  <2>1. \A x \in F[o.scope] \cup {0} : \A f \in G[o.scope] : f \in F[o.scope] \/ x < f
    BY <1>1 DEF Grown
  <2> QED
    BY <1>2, <2>1
<1>4. Applied(o) \in F[o.scope] \cup {0}
  BY <1>1 DEF Applied
<1>5. ASSUME o.pc = "apply"
      PROVE  Applying(G, kind, C, m, b, o)
  <2>1. Applying(F, kind, C, m, b, o)
    BY <1>5 DEF Running
  <2>2. PageAfter(G[o.scope], Applied(o), o.batch)
    <3>1. PageAfter(F[o.scope], Applied(o), o.batch)
      BY <2>1 DEF Applying
    <3>2. ASSUME NEW k \in 1..Len(o.batch)
          PROVE  /\ o.batch[k] \in G[o.scope] /\ o.batch[k] > Applied(o)
                 /\ \A f \in G[o.scope] : Applied(o) < f /\ f < o.batch[k] =>
                       \E h \in 1..(k - 1) : o.batch[h] = f
      <4>1. /\ o.batch[k] \in F[o.scope] /\ o.batch[k] > Applied(o)
            /\ \A f \in F[o.scope] : Applied(o) < f /\ f < o.batch[k] =>
                  \E h \in 1..(k - 1) : o.batch[h] = f
        BY <3>1 DEF PageAfter
      <4>2. \A f \in G[o.scope] : f < o.batch[k] => f \in F[o.scope]
        <5>1. PICK x \in F[o.scope] : x = o.batch[k]
          BY <4>1
        <5>2. \A f \in G[o.scope] : f < x => f <= x
          BY <1>2
        <5>3. \A f \in G[o.scope] : f < x => f \in F[o.scope]
          BY <1>3, <5>2
        <5> QED
          BY <5>1, <5>3
      <4> QED
        BY <1>2, <4>1, <4>2
    <3> QED
      BY <3>1, <3>2 DEF PageAfter
  <2> QED
    BY <1>3, <1>4, <2>1, <2>2 DEF Applying
<1>6. ASSUME o.pc = "save"
      PROVE  \A f \in G[o.scope] : f <= o.last => Has(m, o.scope, f)
  <2>1. \A f \in F[o.scope] : f <= o.last => Has(m, o.scope, f)
    BY <1>6 DEF Running
  <2> QED
    BY <1>1, <1>3, <2>1
<1>7. {o.from, o.last, o.position, o.end} \subseteq G[o.scope] \cup {0}
  BY <1>1, <1>2
<1> QED
  BY <1>1, <1>5, <1>6, <1>7 DEF Running

LEMMA AppendOneInv ==
    ASSUME ProjectionInv, AppendOne
    PROVE  ProjectionInv'
<1>1. PICK id \in Ids, payload \in Payloads : AppendEvents(id, AnyRevision, <<payload>>)
  BY DEF AppendOne
<1>2. UNCHANGED <<setup, checkpoints, readModel, buffer, run>>
  BY DEF AppendOne, runnerVars
<1>3. StoreInv /\ StoreTypeOK /\ <<payload>> \in Seq(Payloads) /\ Len(<<payload>>) = 1
  BY DEF ProjectionInv, StoreInv
<1>4. StoreInv'
  BY <1>1, <1>3, AppendKeepsStoreInv
<1>5. /\ Len(global') = Len(global) + 1
      /\ \A i \in 1..Len(global) : global'[i] = global[i]
  BY <1>1, <1>3, AppendAdds
<1>6. Len(global) \in Nat /\ Feed \in [Scopes -> SUBSET (Nat \ {0})]
  BY <1>3, FeedPositions
<1>7. Feed' \in [Scopes -> SUBSET (Nat \ {0})]
  <2>1. 1..Len(global') \subseteq Nat \ {0}
    BY <1>5, <1>6
  <2> QED
    BY <2>1 DEF Feed
<1>8. Grown(Feed, Feed')
  <2> SUFFICES ASSUME NEW scope \in Scopes
               PROVE  /\ Feed[scope] \subseteq Feed'[scope]
                      /\ \A x \in Feed'[scope] :
                            x \in Feed[scope] \/ \A f \in Feed[scope] \cup {0} : f < x
    BY DEF Grown
  <2>1. /\ Feed[scope] = {i \in 1..Len(global) : ScopeOf[global[i].id] = scope}
        /\ Feed'[scope] = {i \in 1..Len(global') : ScopeOf[global'[i].id] = scope}
    BY DEF Feed
  <2>2. \A i \in 1..Len(global') : i \in 1..Len(global) \/ i = Len(global) + 1
    BY <1>5, <1>6
  <2>3. \A i \in 1..Len(global) : i \in 1..Len(global') /\ i < Len(global) + 1
    BY <1>5, <1>6
  <2>4. \A f \in Feed[scope] \cup {0} : f < Len(global) + 1
    BY <1>6, <2>1, <2>3
  <2>5. Feed[scope] \subseteq Feed'[scope]
    BY <1>5, <2>1, <2>3
  <2>6. \A x \in Feed'[scope] : x \in Feed[scope] \/ x = Len(global) + 1
    BY <1>5, <2>1, <2>2
  <2> QED
    BY <2>4, <2>5, <2>6
<1>9. PICK G \in [Scopes -> SUBSET (Nat \ {0})] : G = Feed'
  BY <1>7
<1>10. Grown(Feed, G)
  BY <1>8, <1>9
<1>11. Reached(G, checkpoints, readModel)
  <2> SUFFICES ASSUME NEW scope \in Scopes
               PROVE  /\ checkpoints[scope] \in G[scope] \cup {0}
                      /\ \A f \in G[scope] : f <= checkpoints[scope] => Has(readModel, scope, f)
    BY DEF Reached
  <2>1. /\ checkpoints[scope] \in Feed[scope] \cup {0} /\ checkpoints[scope] \in Nat
        /\ \A f \in Feed[scope] : f <= checkpoints[scope] => Has(readModel, scope, f)
    BY Basics DEF Reached
  <2>2. Feed[scope] \subseteq G[scope] /\ G[scope] \in SUBSET Nat
    BY <1>10 DEF Grown
  <2>3. \A f \in G[scope] : f \in Feed[scope] \/ checkpoints[scope] < f
    BY <1>10, <2>1 DEF Grown
  <2> QED
    BY <2>1, <2>2, <2>3
<1>12. Ordered(G, <<>>, readModel)
  BY <1>6, <1>10, Basics, OrderedStays
<1>13. ASSUME NEW r \in Runners
       PROVE  RunOK(G, setup, checkpoints, readModel, buffer[r], run[r])
  <2>1. RunOK(Feed, setup, checkpoints, readModel, buffer[r], run[r]) /\ run[r] \in RunRecord
    BY DEF ProjectionInv
  <2>2. Ordered(G, readModel, buffer[r])
    BY <1>6, <1>10, <2>1, OrderedStays DEF RunOK
  <2>3. run[r].pc # "idle" =>
           Running(G, setup.kind, setup.batch_size, checkpoints, readModel, buffer[r], run[r])
    BY <1>6, <1>10, <2>1, RunningStays DEF RunOK
  <2> QED
    BY <2>2, <2>3 DEF RunOK
<1> QED
  BY <1>2, <1>4, <1>9, <1>11, <1>12, <1>13 DEF ProjectionInv

-------------------------------------------------------------------------------
(* Empty checkpoints and an empty read model agree. *)
LEMMA EmptyReadModel ==
    ASSUME NEW F \in [Scopes -> SUBSET (Nat \ {0})]
    PROVE  /\ [k \in CheckpointKeys |-> 0] \in [Scopes -> Nat]
           /\ Reached(F, [k \in CheckpointKeys |-> 0], <<>>)
           /\ Ordered(F, <<>>, <<>>)
           /\ OnceOnly([k \in CheckpointKeys |-> 0], <<>>)
           /\ <<>> \in Seq(Entries)
<1>1. CheckpointKeys = Scopes
  BY DEF CheckpointKeys, CheckpointKey
<1>2. [k \in CheckpointKeys |-> 0] \in [Scopes -> Nat]
  BY <1>1
<1>3. Reached(F, [k \in CheckpointKeys |-> 0], <<>>)
  <2>1. \A scope \in Scopes : \A f \in F[scope] : ~(f <= 0)
    OBVIOUS
  <2> QED
    BY <1>1, <2>1 DEF Reached
<1>4. OnceOnly([k \in CheckpointKeys |-> 0], <<>>)
  BY DEF OnceOnly
<1> QED
  BY <1>2, <1>3, <1>4, OrderedEmpty

LEMMA CrashInv ==
    ASSUME ProjectionInv, NEW r \in Runners, Crash(r)
    PROVE  ProjectionInv'
<1>1. /\ r \in setup.runners /\ UNCHANGED <<storeVars, setup>>
      /\ run' = [run EXCEPT ![r] = Idle] /\ buffer' = [buffer EXCEPT ![r] = <<>>]
  BY DEF Crash
<1>2. <<>> \in Seq(Entries) /\ Idle \in RunRecord /\ Idle.pc = "idle"
  BY IdleIsRun
<1>3. \A C, m : RunOK(Feed, setup, C, m, <<>>, Idle)
  BY <1>2, OrderedEmpty DEF RunOK
<1>4. CASE setup.kind = "in_memory"
  <2>1. readModel' = <<>> /\ checkpoints' = [k \in CheckpointKeys |-> 0]
    BY <1>4 DEF Crash
  <2>2. PICK D : D = [k \in CheckpointKeys |-> 0]
    OBVIOUS
  <2>3. D \in [Scopes -> Nat] /\ Reached(Feed, D, <<>>) /\ Ordered(Feed, <<>>, <<>>)
    BY <2>2, Basics, EmptyReadModel
  <2>4. checkpoints' = D /\ setup.kind # "owned" /\ setup.kind # "persisted"
    BY <1>4, <2>1, <2>2
  <2>5. RunOK(Feed, setup, D, <<>>, <<>>, Idle)
    BY <1>3
  <2> QED
    BY <1>1, <1>2, <2>1, <2>3, <2>4, <2>5, RunnerStep
<1>5. CASE setup.kind # "in_memory"
  <2>1. readModel' = readModel /\ checkpoints' = checkpoints
    BY <1>5 DEF Crash
  <2>2. PICK D \in [Scopes -> Nat] : D = checkpoints
    BY Basics
  <2>3. PICK n \in Seq(Entries) : n = readModel
    BY Basics
  <2>4. /\ Reached(Feed, D, n) /\ Ordered(Feed, <<>>, n)
        /\ setup.kind = "owned" => OnceOnly(D, n)
        /\ checkpoints' = D /\ readModel' = n
        /\ \A scope \in Scopes : checkpoints[scope] <= D[scope]
    BY <2>1, <2>2, <2>3, Basics DEF ProjectionInv
  <2>5. RunOK(Feed, setup, D, n, <<>>, Idle)
    BY <1>3
  <2> QED
    BY <1>1, <1>2, <2>3, <2>4, <2>5, RunnerStep
<1> QED
  BY <1>4, <1>5

LEMMA RebuildInv == ASSUME ProjectionInv, Rebuild PROVE ProjectionInv'
<1>1. /\ UNCHANGED <<storeVars, setup, run>> /\ \A r \in Runners : run[r].pc = "idle"
      /\ readModel' = <<>> /\ buffer' = [r \in Runners |-> <<>>]
      /\ checkpoints' = [k \in CheckpointKeys |-> 0]
  BY DEF Rebuild
<1>2. Feed' = Feed /\ StoreInv'
  <2>1. UNCHANGED <<streams, global, next_sequence>> /\ StoreInv /\ [StoreNext]_storeVars
    BY <1>1 DEF storeVars, ProjectionInv
  <2> QED
    BY <2>1, StoreNextInv DEF Feed
<1>3. PICK D : D = [k \in CheckpointKeys |-> 0]
  OBVIOUS
<1>4. /\ D \in [Scopes -> Nat] /\ Reached(Feed, D, <<>>) /\ Ordered(Feed, <<>>, <<>>)
      /\ OnceOnly(D, <<>>) /\ <<>> \in Seq(Entries)
  BY <1>3, Basics, EmptyReadModel
<1>5. \A r \in Runners : RunOK(Feed, setup, D, <<>>, <<>>, run[r])
  BY <1>1, OrderedEmpty DEF RunOK
<1>6. /\ buffer' \in [Runners -> Seq(Entries)] /\ run' \in [Runners -> RunRecord]
      /\ setup' = setup /\ setup \in Setups /\ checkpoints' = D
      /\ \A r \in Runners : buffer'[r] = <<>> /\ run'[r] = run[r]
  BY <1>1, <1>3, <1>4, Basics
<1> QED
  BY <1>1, <1>2, <1>4, <1>5, <1>6 DEF ProjectionInv

-------------------------------------------------------------------------------
LEMMA ProjectionInit == Init => ProjectionInv
<1> SUFFICES ASSUME Init PROVE ProjectionInv
  OBVIOUS
<1>1. StoreInv /\ setup \in Setups
  BY StoreInitInv DEF Init
<1>2. Feed \in [Scopes -> SUBSET (Nat \ {0})]
  BY <1>1, FeedPositions
<1>3. /\ checkpoints = [k \in CheckpointKeys |-> 0] /\ readModel = <<>>
      /\ \A r \in Runners : buffer[r] = <<>> /\ run[r] = Idle
      /\ buffer = [r \in Runners |-> <<>>] /\ run = [r \in Runners |-> Idle]
  BY DEF Init
<1>4. /\ checkpoints \in [Scopes -> Nat] /\ Reached(Feed, checkpoints, readModel)
      /\ Ordered(Feed, <<>>, readModel) /\ OnceOnly(checkpoints, readModel)
      /\ readModel \in Seq(Entries)
  BY <1>2, <1>3, EmptyReadModel
<1>5. buffer \in [Runners -> Seq(Entries)] /\ run \in [Runners -> RunRecord]
  BY <1>3, IdleIsRun
<1>6. \A r \in Runners : RunOK(Feed, setup, checkpoints, readModel, buffer[r], run[r])
  BY <1>3, IdleIsRun, OrderedEmpty DEF RunOK
<1>7. \A r \in Runners \ setup.runners : run[r].pc = "idle" /\ buffer[r] = <<>>
  BY <1>3, IdleIsRun
<1> QED
  BY <1>1, <1>4, <1>5, <1>6, <1>7 DEF ProjectionInv

LEMMA ProjectionNext == ProjectionInv /\ [Next]_vars => ProjectionInv'
<1> SUFFICES ASSUME ProjectionInv, [Next]_vars PROVE ProjectionInv'
  OBVIOUS
<1>1. ASSUME NEW r \in Runners, Step(r) PROVE ProjectionInv'
  BY <1>1, LoadCheckpointInv, LoadBatchInv, ApplyEventInv, FlushInv, SaveCheckpointInv,
     FlushInMemoryInv, ApplyAndCheckpointInv, FinishBatchInv, ReturnOkInv, Zenon DEF Step
<1>2. ASSUME NEW r \in Runners, Crash(r) PROVE ProjectionInv'
  BY <1>2, CrashInv
<1>3. ASSUME NEW r \in Runners, NEW scope \in Scopes, Run(r, scope) PROVE ProjectionInv'
  BY <1>3, RunInv
<1>4. CASE AppendOne
  BY <1>4, AppendOneInv
<1>5. CASE Rebuild
  BY <1>5, RebuildInv
<1>6. CASE UNCHANGED vars
  <2>1. UNCHANGED <<streams, global, next_sequence, setup, checkpoints, readModel, buffer, run>>
    BY <1>6 DEF vars, storeVars, runnerVars
  <2>2. StoreInv' /\ Feed' = Feed
    <3>1. StoreInv /\ [StoreNext]_storeVars
      BY <2>1 DEF ProjectionInv, storeVars
    <3> QED
      BY <2>1, <3>1, StoreNextInv DEF Feed
  <2> QED
    BY <2>1, <2>2 DEF ProjectionInv
<1> QED
  BY <1>1, <1>2, <1>3, <1>4, <1>5, <1>6, Zenon DEF Next

LEMMA ProjectionAlways == Spec => []ProjectionInv
BY ProjectionInit, ProjectionNext, PTL DEF Spec

-------------------------------------------------------------------------------
(* The log and the read model as the invariant sees them. *)
LEMMA FeedOfLog ==
    ASSUME ProjectionInv, NEW i \in 1..Len(global)
    PROVE  global[i].sequence = i /\ \A scope \in Scopes : ScopeOf[global[i].id] = scope => i \in Feed[scope]
BY DEF ProjectionInv, StoreInv, NumberedInOrder, Feed

LEMMA ReadModelEntry ==
    ASSUME ProjectionInv
    PROVE  /\ DOMAIN readModel = 1..Len(readModel)
           /\ \A i \in 1..Len(readModel) :
                 \E scope \in Scopes, s \in Nat : readModel[i] = <<scope, s>>
<1>1. readModel \in Seq(Entries)
  BY DEF ProjectionInv
<1>2. DOMAIN readModel = 1..Len(readModel) /\ \A i \in 1..Len(readModel) : readModel[i] \in Entries
  BY <1>1, LenProperties, ElementOfSeq
<1> QED
  BY <1>2 DEF Entries

(* No event is skipped: see NothingIsSkipped.  The checkpoint is moved     *)
(* only to a position up to which the feed is in the read model, and no    *)
(* later append, crash or replica takes an event out or puts one behind.   *)
THEOREM ProjectionsSkipNothing == Spec => []NothingIsSkipped
<1>1. ProjectionInv => NothingIsSkipped
  <2> SUFFICES ASSUME ProjectionInv, NEW scope \in Scopes, NEW i \in 1..Len(global),
                      ScopeOf[global[i].id] = scope,
                      global[i].sequence <= checkpoints[CheckpointKey(scope)]
               PROVE  Delivered(scope, global[i].sequence)
    BY DEF NothingIsSkipped
  <2>1. global[i].sequence = i /\ i \in Feed[scope]
    BY FeedOfLog
  <2>2. i <= checkpoints[scope]
    BY <2>1 DEF CheckpointKey
  <2>3. Has(readModel, scope, i)
    BY <2>1, <2>2, Basics DEF Reached
  <2>4. DOMAIN readModel = 1..Len(readModel)
    BY ReadModelEntry
  <2> QED
    BY <2>1, <2>3, <2>4 DEF Has, Delivered
<1> QED
  BY <1>1, ProjectionAlways, PTL

(* Events reach the read model in commit order: see DeliveredInOrder.      *)
THEOREM ProjectionsDeliverInOrder == Spec => []DeliveredInOrder
<1>1. ProjectionInv => DeliveredInOrder
  <2> SUFFICES ASSUME ProjectionInv, NEW i \in DOMAIN readModel, NEW j \in 1..Len(global),
                      ScopeOf[global[j].id] = readModel[i][1],
                      global[j].sequence < readModel[i][2]
               PROVE  \E h \in 1..(i - 1) : readModel[h] = <<readModel[i][1], global[j].sequence>>
    BY DEF DeliveredInOrder
  <2>1. i \in 1..Len(readModel)
    BY ReadModelEntry
  <2>2. PICK scope \in Scopes, s \in Nat : readModel[i] = <<scope, s>>
    BY <2>1, ReadModelEntry
  <2>3. readModel[i][1] = scope /\ readModel[i][2] = s
    BY <2>2
  <2>4. global[j].sequence = j /\ j \in Feed[scope] /\ j < s
    BY <2>3, FeedOfLog
  <2>5. ~Has(<<>>, scope, j)
    BY DEF Has
  <2>6. \E h \in 1..(i - 1) : readModel[h] = <<scope, j>>
    <3>1. Ordered(Feed, <<>>, readModel)
      BY Basics
    <3>2. Has(<<>>, scope, j) \/ \E h \in 1..(i - 1) : readModel[h] = <<scope, j>>
      BY <2>1, <2>2, <2>4, <3>1 DEF Ordered
    <3> QED
      BY <2>5, <3>2
  <2> QED
    BY <2>3, <2>4, <2>6
<1> QED
  BY <1>1, ProjectionAlways, PTL

(* A projection that owns its checkpoint sees each event once: see         *)
(* OwnedIsExactlyOnce.                                                     *)
THEOREM OwnedProjectionsApplyOnce == Spec => []OwnedIsExactlyOnce
<1>1. ProjectionInv => OwnedIsExactlyOnce
  BY ReadModelEntry DEF ProjectionInv, OnceOnly, OwnedIsExactlyOnce
<1> QED
  BY <1>1, ProjectionAlways, PTL

(* run returns Ok only when it has caught up: see RunCatchesUp.  A short   *)
(* batch is the end of the feed, and a full one that was applied always    *)
(* moves the position, so the loop never stops early.                      *)
THEOREM RunsCatchUp == Spec => []RunCatchesUp
<1>1. ProjectionInv => RunCatchesUp
  <2> SUFFICES ASSUME ProjectionInv, NEW r \in Runners, run[r].pc = "ok"
               PROVE  run[r].end <= checkpoints[CheckpointKey(run[r].scope)]
    BY DEF RunCatchesUp
  <2>1. Running(Feed, setup.kind, setup.batch_size, checkpoints, readModel, buffer[r], run[r])
    BY OneRun
  <2> QED
    BY <2>1 DEF Running, CheckpointKey
<1> QED
  BY <1>1, ProjectionAlways, PTL

(* Checkpoints only advance or are reset: see CheckpointsOnlyAdvance.      *)
THEOREM CheckpointsAdvance == Spec => CheckpointsOnlyAdvance
<1> DEFINE Forward == \A k \in CheckpointKeys : checkpoints'[k] >= checkpoints[k] \/ checkpoints'[k] = 0
<1>1. ProjectionInv /\ [Next]_vars => [Forward]_vars
  <2> SUFFICES ASSUME ProjectionInv, Next PROVE Forward
    OBVIOUS
  <2>1. CheckpointKeys = Scopes
    BY DEF CheckpointKeys, CheckpointKey
  <2>2. ASSUME UNCHANGED checkpoints PROVE Forward
    BY <2>1, <2>2, Basics
  <2>3. ASSUME checkpoints' = [k \in CheckpointKeys |-> 0] PROVE Forward
    BY <2>3
  <2>4. ASSUME \A scope \in Scopes : checkpoints'[scope] >= checkpoints[scope] PROVE Forward
    BY <2>1, <2>4
  <2> HIDE DEF Forward
  <2>5. ASSUME NEW r \in Runners, Step(r) PROVE Forward
    <3>1. CASE SaveCheckpoint(r) \/ FlushInMemory(r) \/ ApplyAndCheckpoint(r)
      BY <2>4, <3>1, SaveCheckpointInv, FlushInMemoryInv, ApplyAndCheckpointInv
    <3>2. CASE LoadCheckpoint(r) \/ LoadBatch(r) \/ ApplyEvent(r) \/ Flush(r)
               \/ FinishBatch(r) \/ ReturnOk(r)
      BY <2>2, <3>2 DEF LoadCheckpoint, LoadBatch, ApplyEvent, Flush, FinishBatch, ReturnOk
    <3> QED
      BY <2>5, <3>1, <3>2, Zenon DEF Step
  <2>6. ASSUME NEW r \in Runners, Crash(r) PROVE Forward
    BY <2>2, <2>3, <2>6 DEF Crash
  <2>7. ASSUME NEW r \in Runners, NEW scope \in Scopes, Run(r, scope) PROVE Forward
    BY <2>2, <2>7 DEF Run
  <2>8. CASE AppendOne
    BY <2>2, <2>8 DEF AppendOne, runnerVars
  <2>9. CASE Rebuild
    BY <2>3, <2>9 DEF Rebuild
  <2> QED
    BY <2>5, <2>6, <2>7, <2>8, <2>9, Zenon DEF Next
<1>2. Spec => [][Forward]_vars
  <2> HIDE DEF Forward
  <2> QED
    BY <1>1, ProjectionAlways, PTL DEF Spec
<1> QED
  BY <1>2 DEF CheckpointsOnlyAdvance
===============================================================================
