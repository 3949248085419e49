--------------------------- MODULE InProcessProofs ----------------------------
(***************************************************************************)
(* The two components whose state is guarded by a mutex of one process.    *)
(* The connection pool: its counters are exact and its capacity is never   *)
(* lost, for every finite set of threads and every size.  The JSON file    *)
(* store: what can be read is numbered without a gap, nothing acknowledged *)
(* leaves the file and the feed skips nothing, for every set of legacy     *)
(* files, batch size and number of interrupted writes.                     *)
(***************************************************************************)
EXTENDS ConnectionPool, JsonFileEventStore, FiniteSetTheorems, SequenceTheorems, TLAPS

(***************************************************************************)
(* The connection pool.                                                    *)
(***************************************************************************)
PCs == {"idle", "acquire", "waiting", "woken", "connecting", "using"}

(* How many threads are in one of the places W, by the program counters p. *)
Count(p, W) == Cardinality({t \in Threads : p[t] \in W})

Busy == {"using", "connecting"}
Queued == {"waiting", "woken"}

PoolTypeOK ==
    /\ max_size \in Nat \ {0}
    /\ idle \in Nat
    /\ leased \in Nat
    /\ handoffs \in Nat
    /\ waiters \in Nat
    /\ pc \in [Threads -> PCs]

(* Handed-over connections cannot fill the pool unless a thread is on its  *)
(* way to take one.                                                        *)
HandoffIsClaimed == handoffs = max_size => \E t \in Threads : pc[t] = "woken"

PoolInv == PoolTypeOK /\ CountsAreExact /\ HandoffIsClaimed

-------------------------------------------------------------------------------
(* The threads are finitely many, so their counts are natural numbers.     *)
LEMMA CountIsNatural ==
    ASSUME NEW p, NEW W
    PROVE  IsFiniteSet({t \in Threads : p[t] \in W}) /\ Count(p, W) \in Nat
<1>1. {t \in Threads : p[t] \in W} \subseteq Threads
  OBVIOUS
<1> QED
  BY <1>1, PoolAssumption, FS_Subset, FS_CardinalityType DEF Count

(* Only thread t has moved from p to q. *)
Moved(p, q, t) == \A s \in Threads \ {t} : q[s] = p[s]

(* A thread that goes from outside W to inside it adds one to the count... *)
LEMMA EnterCount ==
    ASSUME NEW p, NEW q, NEW t \in Threads, NEW W, Moved(p, q, t), p[t] \notin W, q[t] \in W
    PROVE  Count(q, W) = Count(p, W) + 1
<1> DEFINE S == {s \in Threads : p[s] \in W}
<1>1. {s \in Threads : q[s] \in W} = S \cup {t}
  BY DEF Moved
<1>2. t \notin S
  OBVIOUS
<1>3. IsFiniteSet(S)
  BY CountIsNatural
<1> HIDE DEF S
<1>4. Cardinality(S \cup {t}) = Cardinality(S) + 1
  BY <1>2, <1>3, FS_AddElement
<1> QED
  BY <1>1, <1>4 DEF Count, S

(* ...one that leaves it takes one off... *)
LEMMA LeaveCount ==
    ASSUME NEW p, NEW q, NEW t \in Threads, NEW W, Moved(p, q, t), p[t] \in W, q[t] \notin W
    PROVE  Count(q, W) = Count(p, W) - 1
<1> DEFINE S == {s \in Threads : p[s] \in W}
<1>1. {s \in Threads : q[s] \in W} = S \ {t}
  BY DEF Moved
<1>2. t \in S
  OBVIOUS
<1>3. IsFiniteSet(S)
  BY CountIsNatural
<1> HIDE DEF S
<1>4. Cardinality(S \ {t}) = Cardinality(S) - 1
  BY <1>2, <1>3, FS_RemoveElement
<1> QED
  BY <1>1, <1>4 DEF Count, S

(* ...and one that stays on its side changes nothing. *)
LEMMA StayCount ==
    ASSUME NEW p, NEW q, NEW t \in Threads, NEW W, Moved(p, q, t), p[t] \in W <=> q[t] \in W
    PROVE  Count(q, W) = Count(p, W)
<1>1. {s \in Threads : q[s] \in W} = {s \in Threads : p[s] \in W}
  BY DEF Moved
<1> QED
  BY <1>1 DEF Count

(* notify_one when a connection or a slot is given up: one thread fewer is *)
(* busy, the queue keeps its length, and somebody in it is awake.          *)
LEMMA NotifyOneCounts ==
    ASSUME pc \in [Threads -> PCs], NEW t \in Threads, pc[t] \in Busy,
           NEW next \in {"idle", "acquire"}, NotifyOne(t, next)
    PROVE  /\ pc' \in [Threads -> PCs]
           /\ Count(pc', Busy) = Count(pc, Busy) - 1
           /\ Count(pc', Queued) = Count(pc, Queued)
           /\ (\E s \in Threads : pc[s] \in Queued) => \E s \in Threads : pc'[s] = "woken"
<1> DEFINE moved == [pc EXCEPT ![t] = next]
<1>1. /\ moved \in [Threads -> PCs]
      /\ Count(moved, Busy) = Count(pc, Busy) - 1
      /\ Count(moved, Queued) = Count(pc, Queued)
  <2>1. next \in PCs /\ next \notin Busy /\ next \notin Queued /\ pc[t] \notin Queued
    BY DEF PCs, Busy, Queued
  <2>2. moved \in [Threads -> PCs] /\ Moved(pc, moved, t) /\ moved[t] = next
    BY <2>1 DEF Moved
  <2> HIDE DEF moved
  <2>3. Count(moved, Busy) = Count(pc, Busy) - 1
    BY <2>1, <2>2, LeaveCount
  <2>4. Count(moved, Queued) = Count(pc, Queued)
    BY <2>1, <2>2, StayCount
  <2> QED
    BY <2>2, <2>3, <2>4
<1>2. \A s \in Threads : s # t => moved[s] = pc[s]
  OBVIOUS
<1>3. moved[t] = next
  OBVIOUS
<1>4. CASE In({"waiting"}) = {}
  <2>1. pc' = moved
    BY <1>4 DEF NotifyOne
  <2>2. \A s \in Threads : pc[s] \in Queued => s # t /\ pc[s] = "woken"
    BY <1>4 DEF Queued, Busy, In
  <2> QED
    BY <1>1, <1>2, <2>1, <2>2
<1>5. CASE In({"waiting"}) # {}
  <2>1. PICK w \in Threads : pc[w] = "waiting" /\ pc' = [moved EXCEPT ![w] = "woken"]
    BY <1>5 DEF NotifyOne, In
  <2>2. w # t /\ moved[w] = "waiting"
    BY <1>2, <2>1 DEF Busy
  <2> HIDE DEF moved
  <2>3. pc' \in [Threads -> PCs] /\ Moved(moved, pc', w) /\ pc'[w] = "woken"
    BY <1>1, <2>1 DEF PCs, Moved
  <2>4. Count(pc', Busy) = Count(moved, Busy)
    <3>1. moved[w] \notin Busy /\ pc'[w] \notin Busy
      BY <2>2, <2>3 DEF Busy
    <3> QED
      BY <2>3, <3>1, StayCount
  <2>5. Count(pc', Queued) = Count(moved, Queued)
    <3>1. moved[w] \in Queued /\ pc'[w] \in Queued
      BY <2>2, <2>3 DEF Queued
    <3> QED
      BY <2>3, <3>1, StayCount
  <2> QED
    BY <1>1, <2>3, <2>4, <2>5
<1> QED
  BY <1>4, <1>5

-------------------------------------------------------------------------------
(* The pool's counters, in terms of the counts of threads. *)
LEMMA ExactCounts ==
    CountsAreExact <=> /\ leased = Count(pc, Busy) + handoffs
                       /\ waiters = Count(pc, Queued)
                       /\ idle + leased <= max_size
  BY DEF CountsAreExact, In, Count, Busy, Queued

LEMMA PoolInitInv == PoolInit => PoolInv
<1> SUFFICES ASSUME PoolInit PROVE PoolInv
  OBVIOUS
<1>1. PoolTypeOK
  BY PoolAssumption DEF PoolInit, PoolTypeOK, PCs
<1>2. Count(pc, Busy) = 0 /\ Count(pc, Queued) = 0
  <2>1. {t \in Threads : pc[t] \in Busy} = {} /\ {t \in Threads : pc[t] \in Queued} = {}
    BY DEF PoolInit, Busy, Queued
  <2> QED
    BY <2>1, FS_EmptySet DEF Count
<1>3. CountsAreExact
  BY <1>2, ExactCounts, PoolAssumption DEF PoolInit
<1>4. HandoffIsClaimed
  BY PoolAssumption DEF PoolInit, HandoffIsClaimed
<1> QED
  BY <1>1, <1>3, <1>4 DEF PoolInv

(* A thread moves between places that hold no connection and no place in   *)
(* the queue, or within one of them.                                       *)
LEMMA QuietMove ==
    ASSUME PoolInv, UNCHANGED <<shared, idle, leased, handoffs, waiters>>,
           NEW t \in Threads, NEW x \in PCs, pc' = [pc EXCEPT ![t] = x],
           pc[t] \in Busy <=> x \in Busy, pc[t] \in Queued <=> x \in Queued,
           pc[t] # "woken"
    PROVE  PoolInv'
<1>1. pc' \in [Threads -> PCs] /\ pc'[t] = x /\ Moved(pc, pc', t)
  BY DEF PoolInv, PoolTypeOK, Moved
<1>2. Count(pc', Busy) = Count(pc, Busy) /\ Count(pc', Queued) = Count(pc, Queued)
  <2>1. {s \in Threads : pc'[s] \in Busy} = {s \in Threads : pc[s] \in Busy}
    BY <1>1 DEF Moved
  <2>2. {s \in Threads : pc'[s] \in Queued} = {s \in Threads : pc[s] \in Queued}
    BY <1>1 DEF Moved
  <2> QED
    BY <2>1, <2>2 DEF Count
<1>3. PoolTypeOK'
  BY <1>1 DEF PoolInv, PoolTypeOK, shared
<1>4. CountsAreExact'
  <2>1. /\ leased' = Count(pc', Busy) + handoffs'
        /\ waiters' = Count(pc', Queued)
        /\ idle' + leased' <= max_size'
    BY <1>2, ExactCounts DEF PoolInv, shared
  <2> QED
    BY <2>1 DEF CountsAreExact, In, Count, Busy, Queued
<1>5. HandoffIsClaimed'
  BY <1>1 DEF PoolInv, HandoffIsClaimed, Moved, shared
<1> QED
  BY <1>3, <1>4, <1>5 DEF PoolInv

(* The loop of acquire, for a thread that is not asleep: it enters it, or  *)
(* comes back to it with nothing handed over.                              *)
LEMMA TryAcquireStep ==
    ASSUME PoolInv, NEW t \in Threads, NEW n \in Nat, TryAcquire(t, n),
           pc[t] \notin Busy,
           \/ pc[t] = "acquire" /\ n = waiters
           \/ pc[t] = "woken" /\ n = waiters - 1 /\ handoffs = 0
    PROVE  PoolInv'
<1>1. PICK x \in {"using", "connecting", "idle", "waiting"} : pc' = [pc EXCEPT ![t] = x]
  BY DEF TryAcquire
<1>2. /\ x \in PCs
      /\ x \in Busy <=> x \in {"using", "connecting"}
      /\ x \in Queued <=> x = "waiting"
      /\ pc[t] \in Queued <=> pc[t] = "woken"
  BY DEF PCs, Busy, Queued
<1>3. pc' \in [Threads -> PCs] /\ pc'[t] = x /\ Moved(pc, pc', t)
  BY <1>1, <1>2 DEF PoolInv, PoolTypeOK, Moved
<1>4. Count(pc, Busy) \in Nat /\ Count(pc, Queued) \in Nat
  BY CountIsNatural
<1>5. Count(pc', Busy) = Count(pc, Busy) + IF x \in {"using", "connecting"} THEN 1 ELSE 0
  <2>1. CASE x \in {"using", "connecting"}
    BY <1>2, <1>3, <1>4, <2>1, EnterCount
  <2>2. CASE x \notin {"using", "connecting"}
    BY <1>2, <1>3, <1>4, <2>2, StayCount
  <2> QED
    BY <2>1, <2>2
<1>6. Count(pc', Queued) = n + IF x = "waiting" THEN 1 ELSE 0
  <2>1. waiters = Count(pc, Queued)
    BY ExactCounts DEF PoolInv
  <2>2. CASE pc[t] = "acquire"
    <3>1. CASE x = "waiting"
      BY <1>2, <1>3, <1>4, <2>1, <2>2, <3>1, EnterCount
    <3>2. CASE x # "waiting"
      BY <1>2, <1>3, <1>4, <2>1, <2>2, <3>2, StayCount
    <3> QED
      BY <3>1, <3>2
  <2>3. CASE pc[t] = "woken"
    <3>1. CASE x = "waiting"
      BY <1>2, <1>3, <1>4, <2>1, <2>3, <3>1, StayCount
    <3>2. CASE x # "waiting"
      BY <1>2, <1>3, <1>4, <2>1, <2>3, <3>2, LeaveCount
    <3> QED
      BY <3>1, <3>2
  <2> QED
    BY <2>2, <2>3
<1>7. /\ leased' \in Nat /\ idle' \in Nat /\ waiters' \in Nat
      /\ leased' = leased + IF x \in {"using", "connecting"} THEN 1 ELSE 0
      /\ waiters' = n + IF x = "waiting" THEN 1 ELSE 0
      /\ idle' + leased' <= max_size
      /\ max_size' = max_size /\ handoffs' = handoffs
  <2>1. \A y : pc' = [pc EXCEPT ![t] = y] => y = x
    BY <1>3 DEF PoolInv, PoolTypeOK
  <2>2. /\ idle \in Nat /\ leased \in Nat /\ max_size \in Nat /\ idle + leased <= max_size
    BY ExactCounts DEF PoolInv, PoolTypeOK
  <2>3. max_size' = max_size /\ handoffs' = handoffs
    BY DEF TryAcquire, shared
  <2>4. CASE \E discarded \in 0..(idle - 1) :
                /\ idle' = idle - discarded - 1
                /\ leased' = leased + 1
                /\ pc' = [pc EXCEPT ![t] = "using"]
                /\ waiters' = n
    <3>1. x = "using"
      BY <2>1, <2>4
    <3> QED
      BY <2>2, <2>3, <2>4, <3>1
  <2>5. CASE /\ idle' = 0
             /\ HasCapacity
             /\ IF factory
                THEN leased' = leased + 1 /\ pc' = [pc EXCEPT ![t] = "connecting"]
                ELSE UNCHANGED leased /\ pc' = [pc EXCEPT ![t] = "idle"]
             /\ waiters' = n
    <3>1. CASE leased' = leased + 1 /\ pc' = [pc EXCEPT ![t] = "connecting"]
      <4>1. x = "connecting"
        BY <2>1, <3>1
      <4> QED
        BY <2>2, <2>3, <2>5, <3>1, <4>1 DEF HasCapacity
    <3>2. CASE leased' = leased /\ pc' = [pc EXCEPT ![t] = "idle"]
      <4>1. x = "idle"
        BY <2>1, <3>2
      <4> QED
        BY <2>2, <2>3, <2>5, <3>2, <4>1 DEF HasCapacity
    <3> QED
      BY <2>5, <3>1, <3>2
  <2>6. CASE /\ idle' = 0
             /\ ~HasCapacity
             /\ IF TimesOut(t)
                THEN pc' = [pc EXCEPT ![t] = "idle"] /\ waiters' = n
                ELSE pc' = [pc EXCEPT ![t] = "waiting"] /\ waiters' = n + 1
             /\ UNCHANGED leased
    <3>1. CASE pc' = [pc EXCEPT ![t] = "idle"] /\ waiters' = n
      <4>1. x = "idle"
        BY <2>1, <3>1
      <4> QED
        BY <2>2, <2>3, <2>6, <3>1, <4>1
    <3>2. CASE pc' = [pc EXCEPT ![t] = "waiting"] /\ waiters' = n + 1
      <4>1. x = "waiting"
        BY <2>1, <3>2
      <4> QED
        BY <2>2, <2>3, <2>6, <3>2, <4>1
    <3> QED
      BY <2>6, <3>1, <3>2
  <2> QED
    BY <2>4, <2>5, <2>6 DEF TryAcquire
<1>8. PoolTypeOK'
  BY <1>3, <1>7 DEF PoolInv, PoolTypeOK
<1>9. CountsAreExact'
  <2>1. /\ leased' = Count(pc', Busy) + handoffs'
        /\ waiters' = Count(pc', Queued)
        /\ idle' + leased' <= max_size'
    BY <1>4, <1>5, <1>6, <1>7, ExactCounts DEF PoolInv, PoolTypeOK
  <2> QED
    BY <2>1 DEF CountsAreExact, In, Count, Busy, Queued
<1>10. HandoffIsClaimed'
  BY <1>3, <1>7 DEF PoolInv, PoolTypeOK, HandoffIsClaimed, Moved
<1> QED
  BY <1>8, <1>9, <1>10 DEF PoolInv

-------------------------------------------------------------------------------
LEMMA WakeStep ==
    ASSUME PoolInv, NEW t \in Threads, Wake(t)
    PROVE  PoolInv'
<1>0. pc[t] = "woken" /\ pc[t] \in Queued /\ pc[t] \notin Busy
  BY DEF Wake, Queued, Busy
<1>1. /\ waiters = Count(pc, Queued) /\ leased = Count(pc, Busy) + handoffs
      /\ idle + leased <= max_size
  BY ExactCounts DEF PoolInv
<1>2. waiters - 1 \in Nat
  <2>1. {s \in Threads : pc[s] \in Queued} # {}
    BY <1>0
  <2>2. Count(pc, Queued) # 0
    BY <2>1, CountIsNatural, FS_EmptySet DEF Count
  <2>3. Count(pc, Queued) \in Nat
    BY CountIsNatural
  <2> QED
    BY <1>1, <2>2, <2>3
<1>3. CASE handoffs = 0
  <2>1. TryAcquire(t, waiters - 1)
    BY <1>3 DEF Wake
  <2>2. PICK n \in Nat : n = waiters - 1
    BY <1>2
  <2>3. TryAcquire(t, n)
    BY <2>1, <2>2
  <2> QED
    BY <1>0, <1>3, <2>2, <2>3, TryAcquireStep
<1>4. CASE handoffs > 0
  <2>1. /\ handoffs' = handoffs - 1
        /\ waiters' = waiters - 1
        /\ pc' = [pc EXCEPT ![t] = "using"]
        /\ idle' = idle /\ leased' = leased /\ max_size' = max_size
    BY <1>4 DEF Wake, shared
  <2>2. "using" \in PCs /\ "using" \in Busy /\ "using" \notin Queued
    BY DEF PCs, Busy, Queued
  <2>3. pc' \in [Threads -> PCs] /\ pc'[t] = "using" /\ Moved(pc, pc', t)
    BY <2>1, <2>2 DEF PoolInv, PoolTypeOK, Moved
  <2>4. Count(pc', Busy) = Count(pc, Busy) + 1
    BY <1>0, <2>2, <2>3, EnterCount
  <2>5. Count(pc', Queued) = Count(pc, Queued) - 1
    BY <1>0, <2>2, <2>3, LeaveCount
  <2>6. Count(pc, Busy) \in Nat /\ Count(pc, Queued) \in Nat
    BY CountIsNatural
  <2>7. PoolTypeOK'
    BY <1>2, <1>4, <2>1, <2>3 DEF PoolInv, PoolTypeOK
  <2>8. CountsAreExact'
    <3>1. /\ leased' = Count(pc', Busy) + handoffs'
          /\ waiters' = Count(pc', Queued)
          /\ idle' + leased' <= max_size'
      BY <1>1, <2>1, <2>4, <2>5, <2>6 DEF PoolInv, PoolTypeOK
    <3> QED
      BY <3>1 DEF CountsAreExact, In, Count, Busy, Queued
  <2>9. HandoffIsClaimed'
    <3>1. handoffs' # max_size'
      BY <1>1, <2>1, <2>6 DEF PoolInv, PoolTypeOK
    <3> QED
      BY <3>1 DEF HandoffIsClaimed
  <2> QED
    BY <2>7, <2>8, <2>9 DEF PoolInv
<1> QED
  BY <1>3, <1>4 DEF PoolInv, PoolTypeOK

(* A busy thread gives its connection or its slot up: the slot is free,    *)
(* the connection idle, or handed to the queue.                            *)
LEMMA GiveUpStep ==
    ASSUME PoolInv, NEW t \in Threads, pc[t] \in Busy,
           NEW next \in {"idle", "acquire"}, NotifyOne(t, next),
           \/ leased' = leased - 1 /\ idle' \in {idle, idle + 1} /\ handoffs' = handoffs
           \/ waiters > 0 /\ handoffs' = handoffs + 1 /\ leased' = leased /\ idle' = idle,
           waiters' = waiters, max_size' = max_size
    PROVE  PoolInv'
<1>1. /\ waiters = Count(pc, Queued) /\ leased = Count(pc, Busy) + handoffs
      /\ idle + leased <= max_size
  BY ExactCounts DEF PoolInv
<1>2. /\ pc' \in [Threads -> PCs]
      /\ Count(pc', Busy) = Count(pc, Busy) - 1
      /\ Count(pc', Queued) = Count(pc, Queued)
      /\ (\E s \in Threads : pc[s] \in Queued) => \E s \in Threads : pc'[s] = "woken"
  BY NotifyOneCounts DEF PoolInv, PoolTypeOK
<1>3. Count(pc, Busy) \in Nat /\ Count(pc', Busy) \in Nat /\ Count(pc, Queued) \in Nat
  BY CountIsNatural
<1>4. PoolTypeOK'
  BY <1>1, <1>2, <1>3 DEF PoolInv, PoolTypeOK
<1>5. CountsAreExact'
  <2>1. /\ leased' = Count(pc', Busy) + handoffs'
        /\ waiters' = Count(pc', Queued)
        /\ idle' + leased' <= max_size'
    BY <1>1, <1>2, <1>3 DEF PoolInv, PoolTypeOK
  <2> QED
    BY <2>1 DEF CountsAreExact, In, Count, Busy, Queued
<1>6. HandoffIsClaimed'
  <2>1. CASE waiters > 0
    <3>1. {s \in Threads : pc[s] \in Queued} # {}
      BY <1>1, <2>1, FS_EmptySet DEF Count
    <3> QED
      BY <1>2, <3>1 DEF HandoffIsClaimed
  <2>2. CASE handoffs' = handoffs
    <3>1. handoffs' # max_size'
      BY <1>1, <1>2, <1>3, <2>2 DEF PoolInv, PoolTypeOK
    <3> QED
      BY <3>1 DEF HandoffIsClaimed
  <2> QED
    BY <2>1, <2>2
<1> QED
  BY <1>4, <1>5, <1>6 DEF PoolInv

-------------------------------------------------------------------------------
(* The invariant is inductive: every critical section of the pool keeps    *)
(* it.                                                                     *)
LEMMA PoolNextInv == PoolInv /\ [PoolNext]_poolVars => PoolInv'
<1> SUFFICES ASSUME PoolInv, [PoolNext]_poolVars
             PROVE  PoolInv'
  OBVIOUS
<1>1. CASE UNCHANGED poolVars
  BY <1>1 DEF poolVars, PoolInv, PoolTypeOK, CountsAreExact, HandoffIsClaimed, In
<1>2. CASE PoolNext
  <2>1. PICK t \in Threads : Start(t) \/ Step(t) \/ DeadlinePasses(t) \/ WaitReturns(t)
    BY <1>2 DEF PoolNext
  <2>2. CASE Start(t)
    <3>1. "acquire" \in PCs /\ "acquire" \notin Busy /\ "acquire" \notin Queued
          /\ pc[t] \notin Busy /\ pc[t] \notin Queued /\ pc[t] # "woken"
      BY <2>2 DEF Start, PCs, Busy, Queued
    <3> QED
      BY <2>2, <3>1, QuietMove DEF Start
  <2>3. CASE Acquire(t)
    <3>1. pc[t] = "acquire" /\ pc[t] \notin Busy
      BY <2>3 DEF Acquire, Busy
    <3>2. PICK n \in Nat : n = waiters
      BY DEF PoolInv, PoolTypeOK
    <3>3. TryAcquire(t, n)
      BY <2>3, <3>2 DEF Acquire
    <3> QED
      BY <3>1, <3>2, <3>3, TryAcquireStep
  <2>4. CASE Wake(t)
    BY <2>4, WakeStep
  <2>5. CASE ConnectSucceeds(t)
    <3>1. "using" \in PCs /\ "using" \in Busy /\ "using" \notin Queued
          /\ pc[t] \in Busy /\ pc[t] \notin Queued /\ pc[t] # "woken"
      BY <2>5 DEF ConnectSucceeds, PCs, Busy, Queued
    <3> QED
      BY <2>5, <3>1, QuietMove DEF ConnectSucceeds
  <2>6. CASE ConnectFails(t)
    BY <2>6, GiveUpStep DEF ConnectFails, Busy, shared
  <2>7. CASE GiveBack(t)
    BY <2>7, GiveUpStep DEF GiveBack, Busy, shared
  <2>8. CASE TransportError(t)
    BY <2>8, GiveUpStep DEF TransportError, Busy, shared
  <2>9. CASE DeadlinePasses(t)
    BY <2>9 DEF DeadlinePasses, shared, PoolInv, PoolTypeOK, CountsAreExact, HandoffIsClaimed, In
  <2>10. CASE WaitReturns(t)
    <3>1. "woken" \in PCs /\ "woken" \notin Busy /\ "woken" \in Queued
          /\ pc[t] \notin Busy /\ pc[t] \in Queued /\ pc[t] # "woken"
      BY <2>10 DEF WaitReturns, PCs, Busy, Queued
    <3> QED
      BY <2>10, <3>1, QuietMove DEF WaitReturns
  <2> QED
    BY <2>1, <2>2, <2>3, <2>4, <2>5, <2>6, <2>7, <2>8, <2>9, <2>10 DEF Step
<1> QED
  BY <1>1, <1>2

LEMMA PoolInvariant == PoolSpec => []PoolInv
  BY PoolInitInv, PoolNextInv, PTL DEF PoolSpec

(* leased and waiters are exact and the pool never exceeds max_size, for   *)
(* any number of threads, on every path of acquire, give_back, the connect *)
(* that fails and the wait that times out.                                 *)
THEOREM CountersStayExact == PoolSpec => []CountsAreExact
<1>1. PoolInv => CountsAreExact
  BY DEF PoolInv
<1> QED
  BY <1>1, PoolInvariant, PTL

(* Handed-over connections never swallow the whole pool: when no thread    *)
(* holds, opens or is about to take a connection, one can be acquired.     *)
THEOREM CapacityIsNeverLost == PoolSpec => []CapacityRemains
<1>1. PoolInv => CapacityRemains
  <2> SUFFICES ASSUME PoolInv, In({"using", "connecting", "woken"}) = {}
               PROVE  handoffs < max_size
    BY DEF CapacityRemains
  <2>1. ~\E t \in Threads : pc[t] = "woken"
    BY DEF In
  <2>2. handoffs # max_size
    BY <2>1 DEF PoolInv, HandoffIsClaimed
  <2>3. handoffs <= leased /\ idle + leased <= max_size
    <3>1. Count(pc, Busy) \in Nat
      BY CountIsNatural
    <3> QED
      BY <3>1, ExactCounts DEF PoolInv, PoolTypeOK
  <2> QED
    BY <2>2, <2>3 DEF PoolInv, PoolTypeOK
<1> QED
  BY <1>1, PoolInvariant, PTL

-------------------------------------------------------------------------------
(***************************************************************************)
(* The JSON file store.                                                    *)
(***************************************************************************)
Pieces == [event : Envelopes, whole : BOOLEAN]

(* The places of the lines of L that can be read, and the event in one. *)
Places(L) == {i \in 1..Len(L) : Parses(L[i])}
EventAt(L, i) == L[i][1].event

(* parse_json_lines accepts L; it tolerates nothing in L. *)
Good(L) == \A i \in 1..(Len(L) - 1) : Parses(L[i])
Clean(L) == \A i \in 1..Len(L) : Parses(L[i])

(* The events of the lines of L that can be read. *)
Visible(L) == {EventAt(L, i) : i \in Places(L)}

(* The lines of L are not empty, and a missing newline leaves one behind. *)
LinesOK(L, c) ==
    /\ L \in Seq(Seq(Pieces))
    /\ \A i \in 1..Len(L) : L[i] # <<>>
    /\ c = FALSE => L # <<>>

(* Among the events that can be read, positions and revisions are given    *)
(* out once, and no revision is missing before another.                    *)
UniquePositions(L) ==
    \A i, j \in Places(L) : EventAt(L, i).sequence = EventAt(L, j).sequence => i = j
UniqueRevisions(L) ==
    \A i, j \in Places(L) :
       /\ EventAt(L, i).id = EventAt(L, j).id
       /\ EventAt(L, i).revision = EventAt(L, j).revision
       => i = j
HasRevision(L, id, r) ==
    \E j \in Places(L) : EventAt(L, j).id = id /\ EventAt(L, j).revision = r
NoRevisionMissing(L) ==
    \A i \in Places(L) : \A r \in 1..EventAt(L, i).revision : HasRevision(L, EventAt(L, i).id, r)
Numbered(L) == UniquePositions(L) /\ UniqueRevisions(L) /\ NoRevisionMissing(L)

(* The event of a last line without newline, which the next append makes   *)
(* unreadable, is the last of its stream.                                  *)
LooseEnd(L, c) ==
    c = FALSE => \A i \in Places(L) :
       /\ Len(L) \in Places(L)
       /\ EventAt(L, i).id = EventAt(L, Len(L)).id
       => EventAt(L, i).revision <= EventAt(L, Len(L)).revision

(* The first bytes of an event are alone on a line only at the end of the  *)
(* file.                                                                   *)
TornLast(L, c) ==
    \A i \in 1..Len(L) : Len(L[i]) = 1 /\ ~Parses(L[i]) => i = Len(L) /\ c = FALSE

(* A piece is somewhere in the file. *)
Holds(L, p) == \E i \in 1..Len(L) : \E j \in 1..Len(L[i]) : L[i][j] = p

Kept(L, A) == \A e \in A : Holds(L, Whole(e))

(* What is at or before the checkpoint of its type has been delivered.     *)
Delivered(L, C, D) ==
    \A i \in Places(L) :
       EventAt(L, i).sequence <= C[TypeOf[EventAt(L, i).id]] => EventAt(L, i) \in D[TypeOf[EventAt(L, i).id]]

(* No checkpoint is beyond the last event, unless an append behind an      *)
(* unfinished line has hidden that one.                                    *)
Reached(L, C) ==
    Clean(L) => \A t \in Types : C[t] = 0 \/ \E i \in Places(L) : C[t] <= EventAt(L, i).sequence

(* The parts of the invariant that speak of the file.                      *)
FileOK(L, c, A, C, D) ==
    /\ LinesOK(L, c)
    /\ Good(L) => Numbered(L) /\ LooseEnd(L, c) /\ Delivered(L, C, D)
    /\ TornLast(L, c)
    /\ Kept(L, A)
    /\ Reached(L, C)

FileInv ==
    /\ form # "lines" => ended = TRUE
    /\ ended \in BOOLEAN
    /\ next_event \in Nat
    /\ checkpoints \in [Types -> Nat]
    /\ DOMAIN delivered = Types
    /\ FileOK(lines, ended, acknowledged, checkpoints, delivered)

-------------------------------------------------------------------------------
(* A finite set of numbers that is not empty has a highest one: the places *)
(* of its members among each other are all the numbers up to its size, and *)
(* the member whose place is the size has nothing above it.                *)
LEMMA MaxIs ==
    ASSUME NEW K \in SUBSET Nat, IsFiniteSet(K), K # {}
    PROVE  Max(K) \in K /\ \A k \in K : k <= Max(K)
<1> DEFINE Below(k) == {m \in K : m <= k}
           n == Cardinality(K)
           rank == [k \in K |-> Cardinality(Below(k))]
<1>1. n \in Nat
  BY FS_CardinalityType
<1>2. ASSUME NEW k \in K
      PROVE  /\ Below(k) \in SUBSET K /\ k \in Below(k)
             /\ IsFiniteSet(Below(k)) /\ Cardinality(Below(k)) \in 1..n
             /\ Cardinality(Below(k)) = n => Below(k) = K
  <2>1. Below(k) \in SUBSET K /\ k \in Below(k)
    OBVIOUS
  <2> HIDE DEF Below
  <2>2. /\ IsFiniteSet(Below(k)) /\ Cardinality(Below(k)) <= n
        /\ Cardinality(K) = Cardinality(Below(k)) => Below(k) = K
    BY <2>1, FS_Subset
  <2>3. Cardinality(Below(k)) \in Nat /\ Cardinality(Below(k)) # 0
    BY <2>1, <2>2, FS_CardinalityType, FS_EmptySet
  <2> QED
    BY <1>1, <2>1, <2>2, <2>3
<1>3. ASSUME NEW h \in K, NEW k \in K, h < k
      PROVE  Cardinality(Below(h)) # Cardinality(Below(k))
  <2>1. Below(h) \in SUBSET Below(k) /\ k \notin Below(h) /\ k \in Below(k)
    <3>1. h \in Nat /\ k \in Nat /\ \A m \in K : m \in Nat
      OBVIOUS
    <3>2. (\A m \in K : m <= h => m <= k) /\ ~(k <= h) /\ k <= k
      BY <1>3, <3>1
    <3> QED
      BY <3>2
  <2> HIDE DEF Below
  <2> QED
    BY <1>2, <2>1, FS_Subset
<1> HIDE DEF Below
<1>4. rank \in Injection(K, 1..n)
  <2>1. rank \in [K -> 1..n]
    BY <1>2
  <2>2. ASSUME NEW h \in K, NEW k \in K, rank[h] = rank[k]
        PROVE  h = k
    <3>1. ~(h < k) /\ ~(k < h)
      BY <1>3, <2>2
    <3> QED
      BY <3>1
  <2> QED
    BY <2>1, <2>2 DEF Injection, IsInjective
<1>5. IsFiniteSet(1..n) /\ Cardinality(1..n) = n
  BY <1>1, FS_Interval
<1>6. rank \in Surjection(K, 1..n)
  BY <1>4, <1>5, FS_Injection
<1>7. n \in 1..n
  BY <1>1, FS_EmptySet
<1>8. PICK top \in K : rank[top] = n
  BY <1>6, <1>7 DEF Surjection
<1>9. Below(top) = K
  BY <1>2, <1>8
<1>10. \A k \in K : k <= top
  BY <1>9 DEF Below
<1> QED
  BY <1>10 DEF Max

LEMMA HighestIs ==
    ASSUME NEW K \in SUBSET Nat, IsFiniteSet(K)
    PROVE  /\ Highest(K) \in Nat
           /\ Highest(K) = 0 \/ Highest(K) \in K
           /\ \A k \in K : k <= Highest(K)
<1>1. IsFiniteSet(K \cup {0})
  BY FS_AddElement
<1>2. K \cup {0} \in SUBSET Nat /\ K \cup {0} # {}
  OBVIOUS
<1>3. Max(K \cup {0}) \in K \cup {0} /\ \A k \in K \cup {0} : k <= Max(K \cup {0})
  BY <1>1, <1>2, MaxIs
<1>4. PICK top : top = Max(K \cup {0})
  OBVIOUS
<1>5. top \in K \cup {0} /\ \A k \in K : k <= top
  BY <1>3, <1>4
<1>6. Highest(K) = top
  BY <1>4 DEF Highest
<1> QED
  BY <1>2, <1>5, <1>6

(* save_checkpoint keeps the higher of two. *)
LEMMA MaxOfTwo ==
    ASSUME NEW a \in Nat, NEW b \in Nat
    PROVE  Max({a, b}) = IF a <= b THEN b ELSE a
<1> DEFINE top == IF a <= b THEN b ELSE a
<1>1. top \in {a, b} /\ \A k \in {a, b} : k <= top
  OBVIOUS
<1>2. \A m \in {a, b} : (\A k \in {a, b} : m >= k) => m = top
  OBVIOUS
<1>3. Max({a, b}) = top
  BY <1>1, <1>2 DEF Max
<1> QED
  BY <1>3

(* The values of a function on a finite set are finitely many. *)
LEMMA FiniteValues ==
    ASSUME NEW S, IsFiniteSet(S), NEW f, DOMAIN f = S, f = [x \in S |-> f[x]]
    PROVE  IsFiniteSet({f[x] : x \in S})
<1>1. f \in Surjection(S, {f[x] : x \in S})
  BY DEF Surjection
<1> QED
  BY <1>1, FS_Surjection

-------------------------------------------------------------------------------
(* The lines of the file, L, once B has been written at its end: as lines  *)
(* of their own...                                                         *)
Follows(L, B, M) ==
    /\ Len(M) = Len(L) + Len(B)
    /\ \A i \in 1..Len(L) : M[i] = L[i]
    /\ \A j \in 1..Len(B) : M[Len(L) + j] = B[j]

(* ...or the first one behind the last line, which had no newline.         *)
Continues(L, B, M) ==
    /\ Len(L) > 0 /\ Len(B) > 0
    /\ Len(M) = Len(L) + Len(B) - 1
    /\ \A i \in 1..(Len(L) - 1) : M[i] = L[i]
    /\ M[Len(L)] = L[Len(L)] \o B[1]
    /\ \A j \in 2..Len(B) : M[Len(L) + j - 1] = B[j]

Joined(L, c, B) ==
    IF c = TRUE \/ B = <<>> THEN L \o B ELSE [L EXCEPT ![Len(L)] = @ \o B[1]] \o Tail(B)

LEMMA JoinedFollows ==
    ASSUME NEW T, NEW L \in Seq(T), NEW B \in Seq(T)
    PROVE  L \o B \in Seq(T) /\ Follows(L, B, L \o B)
<1>1. /\ L \o B \in Seq(T) /\ Len(L \o B) = Len(L) + Len(B)
      /\ \A i \in 1..(Len(L) + Len(B)) :
            (L \o B)[i] = IF i <= Len(L) THEN L[i] ELSE B[i - Len(L)]
  BY ConcatProperties
<1>2. PICK M : M = L \o B
  OBVIOUS
<1>3. PICK a, b \in Nat : a = Len(L) /\ b = Len(B)
  BY LenProperties
<1>4. Len(M) = a + b /\ \A i \in 1..(a + b) : M[i] = IF i <= a THEN L[i] ELSE B[i - a]
  BY <1>1, <1>2, <1>3
<1>5. \A i \in 1..a : M[i] = L[i]
  BY <1>4
<1>6. \A j \in 1..b : M[a + j] = B[j]
  <2> SUFFICES ASSUME NEW j \in 1..b PROVE M[a + j] = B[j]
    OBVIOUS
  <2>1. a + j \in 1..(a + b) /\ ~(a + j <= a) /\ (a + j) - a = j
    BY <1>3
  <2> QED
    BY <1>4, <2>1
<1>7. Follows(L, B, M)
  BY <1>3, <1>4, <1>5, <1>6 DEF Follows
<1> QED
  BY <1>1, <1>2, <1>7

LEMMA JoinedContinues ==
    ASSUME NEW P, NEW L \in Seq(Seq(P)), NEW B \in Seq(Seq(P)), L # <<>>, B # <<>>,
           NEW M, M = [L EXCEPT ![Len(L)] = @ \o B[1]] \o Tail(B)
    PROVE  M \in Seq(Seq(P)) /\ Continues(L, B, M)
<1>1. PICK a, b \in Nat : a = Len(L) /\ b = Len(B) /\ a > 0 /\ b > 0
  BY LenProperties, EmptySeq
<1>2. L[a] \in Seq(P) /\ B[1] \in Seq(P)
  BY <1>1, ElementOfSeq
<1>3. PICK line : line = L[a] \o B[1]
  OBVIOUS
<1>4. line \in Seq(P)
  BY <1>2, <1>3, ConcatProperties
<1>5. PICK K : K = [L EXCEPT ![a] = line]
  OBVIOUS
<1>6. K \in Seq(Seq(P)) /\ Len(K) = a /\ \A i \in 1..a : K[i] = IF i = a THEN line ELSE L[i]
  BY <1>1, <1>4, <1>5, ExceptSeq
<1>7. PICK R : R = Tail(B)
  OBVIOUS
<1>8. R \in Seq(Seq(P)) /\ Len(R) = b - 1 /\ \A j \in 1..(b - 1) : R[j] = B[j + 1]
  BY <1>1, <1>7, HeadTailProperties
<1>9. M = K \o R
  BY <1>1, <1>3, <1>5, <1>7
<1>10. M \in Seq(Seq(P)) /\ Follows(K, R, M)
  BY <1>6, <1>8, <1>9, JoinedFollows
<1>11. Len(M) = a + (b - 1) /\ M[a] = line /\ \A i \in 1..(a - 1) : M[i] = L[i]
  <2>1. Len(M) = Len(K) + Len(R) /\ \A i \in 1..a : M[i] = K[i]
    BY <1>6, <1>10 DEF Follows
  <2>2. a \in 1..a /\ \A i \in 1..(a - 1) : i \in 1..a /\ i # a
    BY <1>1
  <2> QED
    BY <1>6, <1>8, <2>1, <2>2
<1>12. \A j \in 2..b : M[a + j - 1] = B[j]
  <2> SUFFICES ASSUME NEW j \in 2..b PROVE M[a + j - 1] = B[j]
    OBVIOUS
  <2>1. PICK h \in Nat : h = j - 1
    BY <1>1
  <2>2. h \in 1..(b - 1) /\ a + j - 1 = a + h /\ h + 1 = j
    BY <1>1, <2>1
  <2>3. M[a + h] = R[h] /\ R[h] = B[h + 1]
    BY <1>6, <1>8, <1>10, <2>2 DEF Follows
  <2> QED
    BY <2>2, <2>3
<1>13. Continues(L, B, M)
  BY <1>1, <1>3, <1>11, <1>12 DEF Continues
<1> QED
  BY <1>10, <1>13

-------------------------------------------------------------------------------
(* What an append writes, or as much of it as reached the file: one event  *)
(* per line, numbered onwards from `cur` and `top`, all but the last whole. *)
Fresh(B, id, cur, top) ==
    /\ B \in Seq(Seq(Pieces))
    /\ \A j \in 1..Len(B) :
          /\ Len(B[j]) = 1
          /\ EventAt(B, j).id = id
          /\ EventAt(B, j).revision = cur + j
          /\ EventAt(B, j).sequence = top + j
    /\ Good(B)

(* The scan at the start of append: `cur` is the last revision of id among *)
(* the events of L, `top` is at least every position.                      *)
Scanned(L, id, cur, top) ==
    /\ cur \in Nat /\ top \in Nat
    /\ \A i \in Places(L) : EventAt(L, i).sequence <= top
    /\ \A i \in Places(L) : EventAt(L, i).id = id => EventAt(L, i).revision <= cur
    /\ cur = 0 \/ HasRevision(L, id, cur)

(* The write of B moves the file from L to M, with a newline at the end or *)
(* without, as d says.                                                     *)
Appended(L, c, B, M, d) ==
    /\ M \in Seq(Seq(Pieces))
    /\ B = <<>> => M = L /\ d = c
    /\ B # <<>> /\ c = TRUE => Follows(L, B, M)
    /\ B # <<>> /\ c = FALSE => Continues(L, B, M)
    /\ B # <<>> /\ ~Parses(B[Len(B)]) => d = FALSE

(* Every readable line is an envelope. *)
LEMMA PlacesTyped ==
    ASSUME NEW L \in Seq(Seq(Pieces)), NEW i \in Places(L)
    PROVE  /\ i \in 1..Len(L) /\ Parses(L[i])
           /\ EventAt(L, i) \in Envelopes
           /\ EventAt(L, i).sequence \in Nat \ {0}
           /\ EventAt(L, i).revision \in Nat \ {0}
           /\ EventAt(L, i).id \in Ids
<1>1. i \in 1..Len(L) /\ Len(L[i]) = 1
  BY DEF Places, Parses
<1>2. L[i] \in Seq(Pieces)
  BY <1>1, ElementOfSeq
<1>3. 1 \in 1..Len(L[i])
  BY <1>1
<1>4. L[i][1] \in Pieces
  BY <1>2, <1>3, ElementOfSeq
<1>5. EventAt(L, i) \in Envelopes
  BY <1>4 DEF EventAt, Pieces
<1>6. Parses(L[i])
  BY DEF Places
<1> QED
  BY <1>1, <1>5, <1>6 DEF Envelopes

(* A line to which an append has been added holds both, and parses no more. *)
LEMMA ContinuedLine ==
    ASSUME NEW x \in Seq(Pieces), NEW y \in Seq(Pieces), x # <<>>, y # <<>>
    PROVE  /\ x \o y \in Seq(Pieces) /\ Len(x \o y) >= 2 /\ ~Parses(x \o y)
           /\ \A j \in 1..Len(x) : j \in 1..Len(x \o y) /\ (x \o y)[j] = x[j]
           /\ \A j \in 1..Len(y) : Len(x) + j \in 1..Len(x \o y) /\ (x \o y)[Len(x) + j] = y[j]
<1>1. PICK a, b \in Nat : a = Len(x) /\ b = Len(y) /\ a > 0 /\ b > 0
  BY LenProperties, EmptySeq
<1>2. PICK z : z = x \o y
  OBVIOUS
<1>3. z \in Seq(Pieces) /\ Follows(x, y, z)
  BY <1>2, JoinedFollows
<1>4. Len(z) = a + b /\ (\A i \in 1..a : z[i] = x[i]) /\ (\A j \in 1..b : z[a + j] = y[j])
  BY <1>1, <1>3 DEF Follows
<1>5. Len(z) >= 2 /\ Len(z) # 1
  BY <1>1, <1>4
<1>6. ~Parses(z)
  BY <1>5 DEF Parses
<1>7. (\A j \in 1..a : j \in 1..Len(z)) /\ (\A j \in 1..b : a + j \in 1..Len(z))
  BY <1>1, <1>4
<1> QED
  BY <1>1, <1>2, <1>3, <1>4, <1>5, <1>6, <1>7

-------------------------------------------------------------------------------
(* A write that starts a line of its own adds the lines it finished to     *)
(* those that can be read.                                                 *)
LEMMA FollowsPlaces ==
    ASSUME NEW L \in Seq(Seq(Pieces)), NEW B \in Seq(Seq(Pieces)), NEW M, Follows(L, B, M)
    PROVE  /\ \A i \in Places(L) : i \in Places(M) /\ EventAt(M, i) = EventAt(L, i)
           /\ \A j \in Places(B) : Len(L) + j \in Places(M) /\ EventAt(M, Len(L) + j) = EventAt(B, j)
           /\ \A i \in Places(M) : i \in Places(L) \/ \E j \in Places(B) : i = Len(L) + j
<1>1. PICK a, b \in Nat : a = Len(L) /\ b = Len(B)
  BY LenProperties
<1>2. Len(M) = a + b /\ (\A i \in 1..a : M[i] = L[i]) /\ (\A j \in 1..b : M[a + j] = B[j])
  BY <1>1 DEF Follows
<1>3. ASSUME NEW i \in Places(L)
      PROVE  i \in Places(M) /\ EventAt(M, i) = EventAt(L, i)
  <2>1. i \in 1..a /\ Parses(L[i])
    BY <1>1 DEF Places
  <2>2. i \in 1..Len(M) /\ M[i] = L[i]
    BY <1>2, <2>1
  <2> QED
    BY <2>1, <2>2 DEF Places, EventAt
<1>4. ASSUME NEW j \in Places(B)
      PROVE  a + j \in Places(M) /\ EventAt(M, a + j) = EventAt(B, j)
  <2>1. j \in 1..b /\ Parses(B[j])
    BY <1>1 DEF Places
  <2>2. a + j \in 1..Len(M) /\ M[a + j] = B[j]
    BY <1>2, <2>1
  <2> QED
    BY <2>1, <2>2 DEF Places, EventAt
<1>5. ASSUME NEW i \in Places(M), i \notin Places(L)
      PROVE  \E j \in Places(B) : i = a + j
  <2>1. i \in 1..(a + b) /\ Parses(M[i])
    BY <1>2 DEF Places
  <2>2. ~(i \in 1..a)
    <3>1. SUFFICES ASSUME i \in 1..a PROVE FALSE
      OBVIOUS
    <3>2. M[i] = L[i]
      BY <1>2, <3>1
    <3> QED
      BY <1>1, <1>5, <2>1, <3>1, <3>2 DEF Places
  <2>3. PICK j \in 1..b : i = a + j
    <3>1. i - a \in 1..b /\ i = a + (i - a)
      BY <2>1, <2>2
    <3> QED
      BY <3>1
  <2>4. Parses(B[j])
    BY <1>2, <2>1, <2>3
  <2>5. j \in Places(B)
    BY <1>1, <2>4 DEF Places
  <2> QED
    BY <2>3, <2>5
<1> QED
  BY <1>1, <1>3, <1>4, <1>5

(* The numbers of a fresh event, and where it is. *)
LEMMA FreshEvent ==
    ASSUME NEW B, NEW id, NEW cur \in Nat, NEW top \in Nat, Fresh(B, id, cur, top), NEW j \in Places(B)
    PROVE  /\ j \in Nat /\ j > 0
           /\ EventAt(B, j).id = id
           /\ EventAt(B, j).revision = cur + j
           /\ EventAt(B, j).sequence = top + j
           /\ \A h \in 1..j : h \in Places(B)
<1>1. B \in Seq(Seq(Pieces)) /\ Good(B)
  BY DEF Fresh
<1>2. PICK b \in Nat : b = Len(B)
  BY <1>1, LenProperties
<1>3. j \in 1..b
  BY <1>2 DEF Places
<1>4. \A h \in 1..j : h \in 1..b /\ (h = j \/ h \in 1..(b - 1))
  BY <1>3
<1>5. \A h \in 1..(b - 1) : Parses(B[h])
  BY <1>1, <1>2 DEF Good
<1>6. Parses(B[j])
  BY DEF Places
<1>7. \A h \in 1..j : h \in Places(B)
  BY <1>2, <1>4, <1>5, <1>6 DEF Places
<1> QED
  BY <1>2, <1>3, <1>7 DEF Fresh

(* Hypotheses of the lemmas about a write that starts a line of its own. *)
Grows(L, B, M, id, cur, top) ==
    /\ L \in Seq(Seq(Pieces))
    /\ Fresh(B, id, cur, top)
    /\ Scanned(L, id, cur, top)
    /\ Follows(L, B, M)

(* An event of M is an old one, within the scan... *)
LEMMA GrowsOld ==
    ASSUME NEW L, NEW B, NEW M, NEW id, NEW cur, NEW top, Grows(L, B, M, id, cur, top), NEW i \in Places(L)
    PROVE  /\ i \in Places(M) /\ EventAt(M, i) = EventAt(L, i)
           /\ EventAt(L, i).sequence \in Nat /\ EventAt(L, i).sequence <= top
           /\ EventAt(L, i).revision \in Nat
           /\ EventAt(L, i).id = id => EventAt(L, i).revision <= cur
<1>1. /\ L \in Seq(Seq(Pieces)) /\ B \in Seq(Seq(Pieces))
      /\ Scanned(L, id, cur, top) /\ Follows(L, B, M)
  BY DEF Grows, Fresh
<1>2. i \in Places(M) /\ EventAt(M, i) = EventAt(L, i)
  BY <1>1, FollowsPlaces
<1>3. EventAt(L, i).sequence \in Nat /\ EventAt(L, i).revision \in Nat
  BY <1>1, PlacesTyped
<1>4. /\ EventAt(L, i).sequence <= top
      /\ EventAt(L, i).id = id => EventAt(L, i).revision <= cur
  BY <1>1 DEF Scanned
<1> QED
  BY <1>2, <1>3, <1>4

(* ...or a new one, beyond it. *)
LEMMA GrowsNew ==
    ASSUME NEW L, NEW B, NEW M, NEW id, NEW cur, NEW top, Grows(L, B, M, id, cur, top), NEW j \in Places(B)
    PROVE  /\ cur \in Nat /\ top \in Nat
           /\ j \in Nat /\ j > 0
           /\ Len(L) + j \in Places(M)
           /\ EventAt(M, Len(L) + j).id = id
           /\ EventAt(M, Len(L) + j).revision = cur + j
           /\ EventAt(M, Len(L) + j).sequence = top + j
           /\ \A h \in 1..j : h \in Places(B)
<1>1. /\ L \in Seq(Seq(Pieces)) /\ B \in Seq(Seq(Pieces)) /\ cur \in Nat /\ top \in Nat
      /\ Fresh(B, id, cur, top) /\ Follows(L, B, M)
  BY DEF Grows, Fresh, Scanned
<1>2. Len(L) + j \in Places(M) /\ EventAt(M, Len(L) + j) = EventAt(B, j)
  BY <1>1, FollowsPlaces
<1>3. /\ j \in Nat /\ j > 0
      /\ EventAt(B, j).id = id
      /\ EventAt(B, j).revision = cur + j
      /\ EventAt(B, j).sequence = top + j
      /\ \A h \in 1..j : h \in Places(B)
  BY <1>1, FreshEvent
<1> QED
  BY <1>1, <1>2, <1>3

LEMMA GrowsPlace ==
    ASSUME NEW L, NEW B, NEW M, NEW id, NEW cur, NEW top, Grows(L, B, M, id, cur, top), NEW i \in Places(M)
    PROVE  i \in Places(L) \/ \E j \in Places(B) : i = Len(L) + j
<1>1. L \in Seq(Seq(Pieces)) /\ B \in Seq(Seq(Pieces)) /\ Follows(L, B, M)
  BY DEF Grows, Fresh
<1> QED
  BY <1>1, FollowsPlaces

LEMMA GrowsPositions ==
    ASSUME NEW L, NEW B, NEW M, NEW id, NEW cur, NEW top, Grows(L, B, M, id, cur, top), UniquePositions(L)
    PROVE  UniquePositions(M)
<1> SUFFICES ASSUME NEW i \in Places(M), NEW k \in Places(M),
                    EventAt(M, i).sequence = EventAt(M, k).sequence
             PROVE  i = k
  BY DEF UniquePositions
<1>1. CASE i \in Places(L) /\ k \in Places(L)
  BY <1>1, GrowsOld DEF UniquePositions
<1>2. ASSUME NEW x \in Places(L), NEW j \in Places(B)
      PROVE  EventAt(M, x).sequence # EventAt(M, Len(L) + j).sequence
  <2>1. EventAt(M, x) = EventAt(L, x)
    BY GrowsOld
  <2>2. PICK s \in Nat : s = EventAt(L, x).sequence /\ s <= top
    BY GrowsOld
  <2>3. j \in Nat /\ j > 0 /\ top \in Nat /\ EventAt(M, Len(L) + j).sequence = top + j
    BY GrowsNew
  <2> QED
    BY <2>1, <2>2, <2>3
<1>3. ASSUME NEW h \in Places(B), NEW j \in Places(B),
             EventAt(M, Len(L) + h).sequence = EventAt(M, Len(L) + j).sequence
      PROVE  h = j
  <2>1. h \in Nat /\ j \in Nat /\ top \in Nat /\ top + h = top + j
    BY <1>3, GrowsNew
  <2> QED
    BY <2>1
<1> QED
  BY <1>1, <1>2, <1>3, GrowsPlace

LEMMA GrowsRevisions ==
    ASSUME NEW L, NEW B, NEW M, NEW id, NEW cur, NEW top, Grows(L, B, M, id, cur, top), UniqueRevisions(L)
    PROVE  UniqueRevisions(M)
<1> SUFFICES ASSUME NEW i \in Places(M), NEW k \in Places(M),
                    EventAt(M, i).id = EventAt(M, k).id,
                    EventAt(M, i).revision = EventAt(M, k).revision
             PROVE  i = k
  BY DEF UniqueRevisions
<1>1. CASE i \in Places(L) /\ k \in Places(L)
  BY <1>1, GrowsOld DEF UniqueRevisions
<1>2. ASSUME NEW x \in Places(L), NEW j \in Places(B), EventAt(M, x).id = id
      PROVE  EventAt(M, x).revision # EventAt(M, Len(L) + j).revision
  <2>1. EventAt(M, x) = EventAt(L, x)
    BY GrowsOld
  <2>2. PICK s \in Nat : s = EventAt(L, x).revision /\ s <= cur
    BY <1>2, <2>1, GrowsOld
  <2>3. j \in Nat /\ j > 0 /\ cur \in Nat /\ EventAt(M, Len(L) + j).revision = cur + j
    BY GrowsNew
  <2> QED
    BY <2>1, <2>2, <2>3
<1>3. ASSUME NEW h \in Places(B), NEW j \in Places(B),
             EventAt(M, Len(L) + h).revision = EventAt(M, Len(L) + j).revision
      PROVE  h = j
  <2>1. h \in Nat /\ j \in Nat /\ cur \in Nat /\ cur + h = cur + j
    BY <1>3, GrowsNew
  <2> QED
    BY <2>1
<1>4. \A j \in Places(B) : EventAt(M, Len(L) + j).id = id
  BY GrowsNew
<1> QED
  BY <1>1, <1>2, <1>3, <1>4, GrowsPlace

LEMMA GrowsHasRevision ==
    ASSUME NEW L, NEW B, NEW M, NEW id, NEW cur, NEW top, Grows(L, B, M, id, cur, top), NoRevisionMissing(L),
           NEW j \in Places(B), NEW r \in 1..(cur + j)
    PROVE  HasRevision(M, id, r)
<1>1. PICK h, n \in Nat : h = j /\ n = cur
  BY GrowsNew
<1>2. CASE r <= n
  <2>1. r \in Nat /\ r \in 1..n /\ n # 0
    BY <1>1, <1>2
  <2>2. PICK i \in Places(L) : EventAt(L, i).id = id /\ EventAt(L, i).revision = n
    BY <1>1, <2>1 DEF Grows, Scanned, HasRevision
  <2>3. HasRevision(L, EventAt(L, i).id, r)
    BY <2>1, <2>2 DEF NoRevisionMissing
  <2>4. PICK k \in Places(L) : EventAt(L, k).id = id /\ EventAt(L, k).revision = r
    BY <2>2, <2>3 DEF HasRevision
  <2>5. k \in Places(M) /\ EventAt(M, k) = EventAt(L, k)
    BY GrowsOld
  <2> QED
    BY <2>4, <2>5 DEF HasRevision
<1>3. CASE ~(r <= n)
  <2>1. PICK g \in 1..h : r = n + g
    <3>1. r - n \in 1..h /\ r = n + (r - n)
      BY <1>1, <1>3
    <3> QED
      BY <3>1
  <2>2. g \in Places(B)
    BY <1>1, <2>1, GrowsNew
  <2>3. Len(L) + g \in Places(M) /\ EventAt(M, Len(L) + g).id = id /\ EventAt(M, Len(L) + g).revision = cur + g
    BY <2>2, GrowsNew
  <2> QED
    BY <1>1, <2>1, <2>3 DEF HasRevision
<1> QED
  BY <1>2, <1>3

LEMMA GrowsDensely ==
    ASSUME NEW L, NEW B, NEW M, NEW id, NEW cur, NEW top, Grows(L, B, M, id, cur, top), NoRevisionMissing(L)
    PROVE  NoRevisionMissing(M)
<1> SUFFICES ASSUME NEW i \in Places(M), NEW r \in 1..EventAt(M, i).revision
             PROVE  HasRevision(M, EventAt(M, i).id, r)
  BY DEF NoRevisionMissing
<1>1. CASE i \in Places(L)
  <2>1. EventAt(M, i) = EventAt(L, i)
    BY <1>1, GrowsOld
  <2>2. HasRevision(L, EventAt(L, i).id, r)
    BY <1>1, <2>1 DEF NoRevisionMissing
  <2>3. PICK k \in Places(L) : EventAt(L, k).id = EventAt(L, i).id /\ EventAt(L, k).revision = r
    BY <2>2 DEF HasRevision
  <2>4. k \in Places(M) /\ EventAt(M, k) = EventAt(L, k)
    BY GrowsOld
  <2> QED
    BY <2>1, <2>3, <2>4 DEF HasRevision
<1>2. ASSUME NEW j \in Places(B), i = Len(L) + j
      PROVE  HasRevision(M, EventAt(M, i).id, r)
  <2>1. EventAt(M, i).id = id /\ EventAt(M, i).revision = cur + j
    BY <1>2, GrowsNew
  <2>2. r \in 1..(cur + j)
    BY <2>1
  <2> QED
    BY <2>1, <2>2, GrowsHasRevision
<1> QED
  BY <1>1, <1>2, GrowsPlace

(* The last event written is the last of its stream. *)
LEMMA GrowsLooseEnd ==
    ASSUME NEW L, NEW B, NEW M, NEW id, NEW cur, NEW top, Grows(L, B, M, id, cur, top), B # <<>>, NEW d
    PROVE  LooseEnd(M, d)
<1>1. PICK a, b \in Nat : a = Len(L) /\ b = Len(B) /\ b > 0 /\ Len(M) = a + b
  BY LenProperties, EmptySeq DEF Grows, Fresh, Follows
<1> SUFFICES ASSUME NEW i \in Places(M), Len(M) \in Places(M), EventAt(M, i).id = EventAt(M, Len(M)).id
             PROVE  EventAt(M, i).revision <= EventAt(M, Len(M)).revision
  BY DEF LooseEnd
<1>2. b \in Places(B)
  <2>1. Len(M) \notin Places(L)
    <3>1. ~(a + b \in 1..a)
      BY <1>1
    <3> QED
      BY <1>1, <3>1 DEF Places
  <2>2. PICK j \in Places(B) : Len(M) = a + j
    BY <1>1, <2>1, GrowsPlace
  <2>3. j \in Nat
    BY GrowsNew
  <2>4. j = b
    BY <1>1, <2>2, <2>3
  <2> QED
    BY <2>4
<1>3. cur \in Nat /\ EventAt(M, Len(M)).id = id /\ EventAt(M, Len(M)).revision = cur + b
  <2>1. /\ cur \in Nat
        /\ EventAt(M, Len(L) + b).id = id /\ EventAt(M, Len(L) + b).revision = cur + b
    BY <1>2, GrowsNew
  <2> QED
    BY <1>1, <2>1
<1>4. CASE i \in Places(L)
  <2>1. EventAt(M, i) = EventAt(L, i)
    BY <1>4, GrowsOld
  <2>2. EventAt(L, i).id = id
    BY <1>3, <2>1
  <2>3. PICK s \in Nat : s = EventAt(L, i).revision /\ s <= cur
    BY <1>4, <2>2, GrowsOld
  <2>4. s <= cur + b
    BY <1>1, <1>3, <2>3
  <2> QED
    BY <1>3, <2>1, <2>3, <2>4
<1>5. ASSUME NEW j \in Places(B), i = Len(L) + j
      PROVE  EventAt(M, i).revision <= EventAt(M, Len(M)).revision
  <2>1. EventAt(M, i).revision = cur + j
    BY <1>5, GrowsNew
  <2>2. j \in 1..b
    BY <1>1 DEF Places
  <2>3. cur + j <= cur + b
    BY <1>1, <1>3, <2>2
  <2> QED
    BY <1>3, <2>1, <2>3
<1> QED
  BY <1>4, <1>5, GrowsPlace

(* No checkpoint is beyond the scan, so a new event is beyond all of them. *)
LEMMA GrowsDelivered ==
    ASSUME NEW L, NEW B, NEW M, NEW id, NEW cur, NEW top, Grows(L, B, M, id, cur, top),
           NEW C, NEW D, Clean(L), Delivered(L, C, D), Reached(L, C), C \in [Types -> Nat], id \in Ids
    PROVE  Delivered(M, C, D)
<1> SUFFICES ASSUME NEW i \in Places(M), EventAt(M, i).sequence <= C[TypeOf[EventAt(M, i).id]]
             PROVE  EventAt(M, i) \in D[TypeOf[EventAt(M, i).id]]
  BY DEF Delivered
<1>1. CASE i \in Places(L)
  <2>1. EventAt(M, i) = EventAt(L, i)
    BY <1>1, GrowsOld
  <2> QED
    BY <1>1, <2>1 DEF Delivered
<1>2. ASSUME NEW j \in Places(B), i = Len(L) + j
      PROVE  FALSE
  <2>1. j \in Nat /\ j > 0 /\ top \in Nat /\ EventAt(M, i).id = id /\ EventAt(M, i).sequence = top + j
    BY <1>2, GrowsNew
  <2>2. PICK t \in Types : t = TypeOf[id]
    BY JsonFileAssumption
  <2>3. PICK n \in Nat : n = C[t]
    OBVIOUS
  <2>4. top + j <= n
    BY <2>1, <2>2, <2>3
  <2>5. n = 0 \/ \E k \in Places(L) : n <= EventAt(L, k).sequence
    BY <2>3 DEF Reached
  <2>6. n <= top
    <3>1. CASE n = 0
      BY <2>1, <3>1
    <3>2. ASSUME NEW k \in Places(L), n <= EventAt(L, k).sequence
          PROVE  n <= top
      <4>1. PICK s \in Nat : s = EventAt(L, k).sequence /\ s <= top
        BY GrowsOld
      <4> QED
        BY <2>1, <3>2, <4>1
    <3> QED
      BY <2>5, <3>1, <3>2
  <2> QED
    BY <2>1, <2>4, <2>6
<1> QED
  BY <1>1, <1>2, GrowsPlace

-------------------------------------------------------------------------------
(* A write behind a line without newline hides that line, and leaves a     *)
(* file that can be read only if it wrote one line.                        *)
Hides(L, B, M) ==
    /\ L \in Seq(Seq(Pieces)) /\ B \in Seq(Seq(Pieces))
    /\ L # <<>> /\ L[Len(L)] # <<>> /\ B # <<>> /\ B[1] # <<>>
    /\ Continues(L, B, M)

LEMMA HiddenLine ==
    ASSUME NEW L, NEW B, NEW M, Hides(L, B, M)
    PROVE  /\ Len(L) \in Nat /\ Len(L) > 0 /\ Len(B) \in Nat /\ Len(B) > 0
           /\ L[Len(L)] \in Seq(Pieces) /\ B[1] \in Seq(Pieces)
           /\ Len(M[Len(L)]) >= 2 /\ ~Parses(M[Len(L)])
<1>1. PICK a, b \in Nat : a = Len(L) /\ b = Len(B) /\ a > 0 /\ b > 0
  BY LenProperties, EmptySeq DEF Hides
<1>2. L[a] \in Seq(Pieces) /\ B[1] \in Seq(Pieces) /\ L[a] # <<>> /\ B[1] # <<>>
  BY <1>1, ElementOfSeq DEF Hides
<1>3. M[a] = L[a] \o B[1]
  BY <1>1 DEF Hides, Continues
<1>4. Len(L[a] \o B[1]) >= 2 /\ ~Parses(L[a] \o B[1])
  BY <1>2, ContinuedLine
<1> QED
  BY <1>1, <1>2, <1>3, <1>4

LEMMA HidesPlaces ==
    ASSUME NEW L, NEW B, NEW M, Hides(L, B, M), Good(M)
    PROVE  /\ Good(L) /\ Len(M) = Len(L) /\ Len(L) \notin Places(M)
           /\ \A i \in Places(M) : i \in Places(L) /\ EventAt(M, i) = EventAt(L, i)
           /\ \A i \in Places(L) : i # Len(L) => i \in Places(M)
<1>1. PICK a, b \in Nat : a = Len(L) /\ b = Len(B) /\ a > 0 /\ b > 0
  BY HiddenLine
<1>2. Len(M) = a + b - 1 /\ \A i \in 1..(a - 1) : M[i] = L[i]
  BY <1>1 DEF Hides, Continues
<1>3. ~Parses(M[a])
  BY <1>1, HiddenLine
<1>4. ~(a \in 1..(Len(M) - 1))
  BY <1>3 DEF Good
<1>5. Len(M) = a
  BY <1>1, <1>2, <1>4
<1>6. \A i \in 1..(a - 1) : Parses(L[i])
  BY <1>2, <1>5 DEF Good
<1>7. Good(L)
  BY <1>1, <1>6 DEF Good
<1>8. a \notin Places(M)
  BY <1>3 DEF Places
<1>9. ASSUME NEW i \in Places(M)
      PROVE  i \in Places(L) /\ EventAt(M, i) = EventAt(L, i)
  <2>1. i \in 1..a /\ i # a /\ Parses(M[i])
    BY <1>5, <1>8 DEF Places
  <2>2. i \in 1..(a - 1)
    BY <1>1, <2>1
  <2>3. M[i] = L[i]
    BY <1>2, <2>2
  <2> QED
    BY <1>1, <2>1, <2>3 DEF Places, EventAt
<1>10. ASSUME NEW i \in Places(L), i # a
       PROVE  i \in Places(M)
  <2>1. i \in 1..a /\ Parses(L[i])
    BY <1>1 DEF Places
  <2>2. i \in 1..(a - 1)
    BY <1>1, <1>10, <2>1
  <2> QED
    BY <1>2, <1>5, <2>1, <2>2 DEF Places
<1> QED
  BY <1>1, <1>5, <1>7, <1>8, <1>9, <1>10

(* The event that is hidden was the last of its stream: none is missing    *)
(* before another.                                                         *)
LEMMA HidesNumbered ==
    ASSUME NEW L, NEW B, NEW M, Hides(L, B, M), Good(M), Numbered(L), LooseEnd(L, FALSE)
    PROVE  Numbered(M)
<1>1. UniquePositions(M)
  BY HidesPlaces DEF Numbered, UniquePositions
<1>2. UniqueRevisions(M)
  BY HidesPlaces DEF Numbered, UniqueRevisions
<1>3. ASSUME NEW i \in Places(M), NEW r \in 1..EventAt(M, i).revision
      PROVE  HasRevision(M, EventAt(M, i).id, r)
  <2>1. i \in Places(L) /\ EventAt(M, i) = EventAt(L, i) /\ i # Len(L)
    BY HidesPlaces
  <2>2. HasRevision(L, EventAt(L, i).id, r)
    BY <2>1 DEF Numbered, NoRevisionMissing
  <2>3. PICK j \in Places(L) : EventAt(L, j).id = EventAt(L, i).id /\ EventAt(L, j).revision = r
    BY <2>2 DEF HasRevision
  <2>4. CASE j # Len(L)
    <3>1. j \in Places(M)
      BY <2>4, HidesPlaces
    <3>2. EventAt(M, j) = EventAt(L, j)
      BY <3>1, HidesPlaces
    <3> QED
      BY <2>1, <2>3, <3>1, <3>2 DEF HasRevision
  <2>5. CASE j = Len(L)
    <3>1. L \in Seq(Seq(Pieces))
      BY DEF Hides
    <3>2. PICK m, n \in Nat : m = EventAt(L, i).revision /\ n = EventAt(L, j).revision
      BY <2>1, <3>1, PlacesTyped
    <3>3. m <= n
      BY <2>1, <2>3, <2>5, <3>2 DEF LooseEnd
    <3>4. n = r /\ r <= m
      BY <2>1, <2>3, <3>2
    <3>5. m = n
      BY <3>2, <3>3, <3>4
    <3>6. i = j
      BY <2>1, <2>3, <3>2, <3>5 DEF Numbered, UniqueRevisions
    <3> QED
      BY <2>1, <2>5, <3>6
  <2> QED
    BY <2>4, <2>5
<1>4. NoRevisionMissing(M)
  BY <1>3 DEF NoRevisionMissing
<1> QED
  BY <1>1, <1>2, <1>4 DEF Numbered

-------------------------------------------------------------------------------
(* What a write does to the file, whether or not it starts a line.         *)
Writes(L, c, B, M, d) ==
    /\ LinesOK(L, c) /\ c \in BOOLEAN
    /\ Appended(L, c, B, M, d)
    /\ B # <<>>
    /\ B \in Seq(Seq(Pieces))
    /\ Good(B)
    /\ \A j \in 1..Len(B) : Len(B[j]) = 1

LEMMA WritesCases ==
    ASSUME NEW L, NEW c, NEW B, NEW M, NEW d, Writes(L, c, B, M, d)
    PROVE  /\ L \in Seq(Seq(Pieces)) /\ M \in Seq(Seq(Pieces))
           /\ Len(L) \in Nat /\ Len(B) \in Nat /\ Len(B) > 0
           /\ \A j \in 1..Len(B) : B[j] # <<>>
           /\ \/ c = TRUE /\ Follows(L, B, M)
              \/ c = FALSE /\ Hides(L, B, M)
<1>1. /\ L \in Seq(Seq(Pieces)) /\ B \in Seq(Seq(Pieces)) /\ M \in Seq(Seq(Pieces))
      /\ c = TRUE \/ c = FALSE
  BY DEF Writes, LinesOK, Appended
<1>2. PICK a, b \in Nat : a = Len(L) /\ b = Len(B) /\ b > 0
  BY <1>1, LenProperties, EmptySeq DEF Writes
<1>3. \A j \in 1..b : B[j] # <<>>
  <2> SUFFICES ASSUME NEW j \in 1..b PROVE B[j] # <<>>
    OBVIOUS
  <2>1. Len(B[j]) = 1
    BY <1>2 DEF Writes
  <2>2. ASSUME B[j] = <<>>
        PROVE  Len(B[j]) = 0
    BY <2>2, EmptySeq
  <2> QED
    BY <2>1, <2>2
<1>4. CASE c = TRUE
  BY <1>1, <1>2, <1>3, <1>4 DEF Writes, Appended
<1>5. CASE c = FALSE
  <2>1. L # <<>> /\ Continues(L, B, M) /\ B # <<>>
    BY <1>5 DEF Writes, LinesOK, Appended
  <2>2. a > 0
    BY <1>1, <1>2, <2>1, EmptySeq
  <2>3. L[a] # <<>>
    BY <1>2, <2>2 DEF Writes, LinesOK
  <2>4. B[1] # <<>>
    BY <1>2, <1>3
  <2>5. Hides(L, B, M)
    BY <1>1, <1>2, <2>1, <2>3, <2>4 DEF Hides
  <2> QED
    BY <1>1, <1>2, <1>3, <1>5, <2>5
<1> QED
  BY <1>1, <1>4, <1>5

(* Nothing written before is lost, and what was written is there. *)
LEMMA WritesKeep ==
    ASSUME NEW L, NEW c, NEW B, NEW M, NEW d, Writes(L, c, B, M, d)
    PROVE  /\ \A p : Holds(L, p) => Holds(M, p)
           /\ \A j \in 1..Len(B) : Holds(M, B[j][1])
<1>1. PICK a, b \in Nat : a = Len(L) /\ b = Len(B)
  BY WritesCases
<1>2. CASE Follows(L, B, M)
  <2>1. Len(M) = a + b /\ (\A i \in 1..a : M[i] = L[i]) /\ (\A j \in 1..b : M[a + j] = B[j])
    BY <1>1, <1>2 DEF Follows
  <2>2. ASSUME NEW p, Holds(L, p)
        PROVE  Holds(M, p)
    <3>1. PICK i \in 1..a : \E k \in 1..Len(L[i]) : L[i][k] = p
      BY <1>1, <2>2 DEF Holds
    <3>2. M[i] = L[i] /\ i \in 1..Len(M)
      BY <2>1
    <3> QED
      BY <3>1, <3>2 DEF Holds
  <2>3. ASSUME NEW j \in 1..b
        PROVE  Holds(M, B[j][1])
    <3>1. M[a + j] = B[j] /\ a + j \in 1..Len(M)
      BY <2>1
    <3>2. Len(B[j]) = 1
      BY <1>1 DEF Writes
    <3>3. 1 \in 1..Len(M[a + j])
      BY <3>1, <3>2
    <3> QED
      BY <3>1, <3>3 DEF Holds
  <2> QED
    BY <1>1, <2>2, <2>3
<1>3. CASE Hides(L, B, M)
  <2>1. /\ a > 0 /\ b > 0
        /\ Len(M) = a + b - 1
        /\ \A i \in 1..(a - 1) : M[i] = L[i]
        /\ M[a] = L[a] \o B[1]
        /\ \A j \in 2..b : M[a + j - 1] = B[j]
    BY <1>1, <1>3 DEF Hides, Continues
  <2>2. L[a] \in Seq(Pieces) /\ B[1] \in Seq(Pieces) /\ L[a] # <<>> /\ B[1] # <<>>
    BY <1>1, <1>3, HiddenLine DEF Hides
  <2>3. a \in 1..Len(M)
    BY <2>1
  <2>4. ASSUME NEW p, Holds(L, p)
        PROVE  Holds(M, p)
    <3>1. PICK i \in 1..a : \E k \in 1..Len(L[i]) : L[i][k] = p
      BY <1>1, <2>4 DEF Holds
    <3>2. PICK k \in 1..Len(L[i]) : L[i][k] = p
      BY <3>1
    <3>3. CASE i = a
      <4>1. k \in 1..Len(L[a] \o B[1]) /\ (L[a] \o B[1])[k] = L[a][k]
        BY <2>2, <3>3, ContinuedLine
      <4>2. k \in 1..Len(M[a]) /\ M[a][k] = p
        BY <2>1, <3>2, <3>3, <4>1
      <4> QED
        BY <2>3, <4>2 DEF Holds
    <3>4. CASE i # a
      <4>1. i \in 1..(a - 1)
        BY <3>4
      <4>2. M[i] = L[i] /\ i \in 1..Len(M)
        BY <2>1, <4>1
      <4> QED
        BY <3>2, <4>2 DEF Holds
    <3> QED
      BY <3>3, <3>4
  <2>5. ASSUME NEW j \in 1..b
        PROVE  Holds(M, B[j][1])
    <3>1. Len(B[j]) = 1
      BY <1>1 DEF Writes
    <3>2. CASE j = 1
      <4>1. 1 \in 1..Len(B[1])
        BY <3>1, <3>2
      <4>2. PICK n \in Nat : n = Len(L[a])
        BY <2>2, LenProperties
      <4>3. n + 1 \in 1..Len(L[a] \o B[1]) /\ (L[a] \o B[1])[n + 1] = B[1][1]
        BY <2>2, <4>1, <4>2, ContinuedLine
      <4>4. n + 1 \in 1..Len(M[a]) /\ M[a][n + 1] = B[1][1]
        BY <2>1, <4>3
      <4> QED
        BY <2>3, <3>2, <4>4 DEF Holds
    <3>3. CASE j # 1
      <4>1. j \in 2..b
        BY <3>3
      <4>2. PICK q \in Nat : q = a + j - 1
        BY <4>1
      <4>3. q \in 1..Len(M) /\ M[q] = B[j]
        BY <2>1, <4>1, <4>2
      <4>4. Len(M[q]) = 1 /\ 1 \in 1..1
        BY <3>1, <4>3
      <4> QED
        BY <4>3, <4>4 DEF Holds
    <3> QED
      BY <3>2, <3>3
  <2> QED
    BY <1>1, <2>4, <2>5
<1> QED
  BY <1>2, <1>3, WritesCases

(* A line of the file was there before, is a new one, or was continued. *)
Origin(L, c, B, M, i) ==
    \/ i \in 1..Len(L) /\ M[i] = L[i] /\ (i # Len(L) \/ c = TRUE)
    \/ \E j \in 1..Len(B) : M[i] = B[j] /\ (j = Len(B) => i = Len(M))
    \/ Len(M[i]) >= 2

LEMMA WritesLine ==
    ASSUME NEW L, NEW c, NEW B, NEW M, NEW d, Writes(L, c, B, M, d), NEW i \in 1..Len(M)
    PROVE  Origin(L, c, B, M, i)
<1>1. PICK a, b \in Nat : a = Len(L) /\ b = Len(B) /\ b > 0
  BY WritesCases
<1>2. CASE c = TRUE /\ Follows(L, B, M)
  <2>1. Len(M) = a + b /\ (\A k \in 1..a : M[k] = L[k]) /\ (\A j \in 1..b : M[a + j] = B[j])
    BY <1>1, <1>2 DEF Follows
  <2>2. CASE i <= a
    <3>1. i \in 1..a
      BY <2>2
    <3> QED
      BY <1>1, <1>2, <2>1, <3>1 DEF Origin
  <2>3. CASE ~(i <= a)
    <3>1. PICK j \in 1..b : i = a + j
      <4>1. i - a \in 1..b /\ i = a + (i - a)
        BY <2>1, <2>3
      <4> QED
        BY <4>1
    <3>2. M[i] = B[j] /\ (j = b => i = Len(M))
      BY <2>1, <3>1
    <3> QED
      BY <1>1, <3>2 DEF Origin
  <2> QED
    BY <2>2, <2>3
<1>3. CASE Hides(L, B, M)
  <2>1. /\ a > 0 /\ b > 0
        /\ Len(M) = a + b - 1
        /\ \A k \in 1..(a - 1) : M[k] = L[k]
        /\ \A j \in 2..b : M[a + j - 1] = B[j]
    BY <1>1, <1>3 DEF Hides, Continues
  <2>2. Len(M[a]) >= 2
    BY <1>1, <1>3, HiddenLine
  <2>3. CASE i < a
    <3>1. i \in 1..(a - 1) /\ i \in 1..a /\ i # a
      BY <1>1, <2>3
    <3> QED
      BY <1>1, <2>1, <3>1 DEF Origin
  <2>4. CASE i = a
    BY <2>2, <2>4 DEF Origin
  <2>5. CASE i > a
    <3>1. PICK j \in 2..b : i = a + j - 1
      <4>1. i - a + 1 \in 2..b /\ i = a + (i - a + 1) - 1
        BY <1>1, <2>1, <2>5
      <4> QED
        BY <4>1
    <3>2. j \in 1..b
      BY <1>1, <3>1
    <3>3. M[i] = B[j]
      BY <2>1, <3>1
    <3>4. j = b => i = Len(M)
      BY <2>1, <3>1
    <3> QED
      BY <1>1, <3>2, <3>3, <3>4 DEF Origin
  <2>6. i \in Nat
    BY <1>1, <2>1
  <2> QED
    BY <1>1, <2>3, <2>4, <2>5, <2>6
<1> QED
  BY <1>2, <1>3, WritesCases

LEMMA WritesLines ==
    ASSUME NEW L, NEW c, NEW B, NEW M, NEW d, Writes(L, c, B, M, d)
    PROVE  LinesOK(M, d)
<1>1. M \in Seq(Seq(Pieces))
  BY WritesCases
<1>2. ASSUME NEW i \in 1..Len(M)
      PROVE  M[i] # <<>>
  <2>1. CASE i \in 1..Len(L) /\ M[i] = L[i]
    BY <2>1 DEF Writes, LinesOK
  <2>2. CASE \E j \in 1..Len(B) : M[i] = B[j]
    BY <2>2, WritesCases
  <2>3. CASE Len(M[i]) >= 2
    <3>1. ASSUME M[i] = <<>>
          PROVE  Len(M[i]) = 0
      BY <3>1, EmptySeq
    <3> QED
      BY <2>3, <3>1
  <2>4. Origin(L, c, B, M, i)
    BY WritesLine
  <2> QED
    BY <2>1, <2>2, <2>3, <2>4 DEF Origin
<1>3. M # <<>>
  <2>1. PICK a, b \in Nat : a = Len(L) /\ b = Len(B) /\ b > 0
    BY WritesCases
  <2>2. Len(M) = a + b \/ (a > 0 /\ Len(M) = a + b - 1)
    <3>1. CASE Follows(L, B, M)
      BY <2>1, <3>1 DEF Follows
    <3>2. CASE Hides(L, B, M)
      BY <2>1, <3>2 DEF Hides, Continues
    <3> QED
      BY <3>1, <3>2, WritesCases
  <2>3. Len(M) # 0
    BY <2>1, <2>2
  <2>4. ASSUME M = <<>>
        PROVE  Len(M) = 0
    BY <2>4, EmptySeq
  <2> QED
    BY <2>3, <2>4
<1> QED
  BY <1>1, <1>2, <1>3 DEF LinesOK

LEMMA WritesTorn ==
    ASSUME NEW L, NEW c, NEW B, NEW M, NEW d, Writes(L, c, B, M, d), TornLast(L, c)
    PROVE  TornLast(M, d)
<1> SUFFICES ASSUME NEW i \in 1..Len(M), Len(M[i]) = 1, ~Parses(M[i])
             PROVE  i = Len(M) /\ d = FALSE
  BY DEF TornLast
<1>1. CASE i \in 1..Len(L) /\ M[i] = L[i] /\ (i # Len(L) \/ c = TRUE)
  BY <1>1 DEF TornLast
<1>2. ASSUME NEW j \in 1..Len(B), M[i] = B[j], j = Len(B) => i = Len(M)
      PROVE  i = Len(M) /\ d = FALSE
  <2>1. PICK b \in Nat : b = Len(B) /\ b > 0
    BY WritesCases
  <2>2. ~(j \in 1..(b - 1))
    BY <1>2, <2>1 DEF Writes, Good
  <2>3. j = b
    BY <2>1, <2>2
  <2>4. d = FALSE
    BY <1>2, <2>1, <2>3 DEF Writes, Appended
  <2> QED
    BY <1>2, <2>1, <2>3, <2>4
<1>3. CASE Len(M[i]) >= 2
  BY <1>3
<1>4. Origin(L, c, B, M, i)
  BY WritesLine
<1> QED
  BY <1>1, <1>2, <1>3, <1>4 DEF Origin

-------------------------------------------------------------------------------
(* A file that can be read after a write on a line of its own had nothing  *)
(* unreadable before it.                                                   *)
LEMMA FollowsClean ==
    ASSUME NEW L \in Seq(Seq(Pieces)), NEW B \in Seq(Seq(Pieces)), B # <<>>, NEW M, Follows(L, B, M), Good(M)
    PROVE  Clean(L)
<1>1. PICK a, b \in Nat : a = Len(L) /\ b = Len(B) /\ b > 0
  BY LenProperties, EmptySeq
<1>2. Len(M) = a + b /\ \A i \in 1..a : M[i] = L[i]
  BY <1>1 DEF Follows
<1>3. \A i \in 1..a : i \in 1..(Len(M) - 1)
  BY <1>1, <1>2
<1>4. \A i \in 1..a : Parses(L[i])
  BY <1>2, <1>3 DEF Good
<1> QED
  BY <1>1, <1>4 DEF Clean

LEMMA CleanIsGood ==
    ASSUME NEW L \in Seq(Seq(Pieces)), Clean(L)
    PROVE  Good(L)
<1>1. PICK a \in Nat : a = Len(L)
  BY LenProperties
<1>2. \A i \in 1..(a - 1) : i \in 1..a
  BY <1>1
<1> QED
  BY <1>1, <1>2 DEF Clean, Good

(* A write after a scan of the file. *)
ScannedWrite(L, c, B, M, d, id) ==
    \E cur, top \in Nat :
       /\ Fresh(B, id, cur, top)
       /\ Scanned(L, id, cur, top)
       /\ Writes(L, c, B, M, d)

LEMMA WriteReadable ==
    ASSUME NEW L, NEW c, NEW B, NEW M, NEW d, NEW id \in Ids, NEW C, NEW D,
           ScannedWrite(L, c, B, M, d, id),
           C \in [Types -> Nat], Reached(L, C),
           Good(L) => Numbered(L) /\ LooseEnd(L, c) /\ Delivered(L, C, D), Good(M)
    PROVE  Numbered(M) /\ LooseEnd(M, d) /\ Delivered(M, C, D)
<1>1. PICK cur, top \in Nat :
         Fresh(B, id, cur, top) /\ Scanned(L, id, cur, top) /\ Writes(L, c, B, M, d)
  BY DEF ScannedWrite
<1>2. L \in Seq(Seq(Pieces)) /\ B \in Seq(Seq(Pieces)) /\ M \in Seq(Seq(Pieces)) /\ B # <<>>
  BY <1>1, WritesCases DEF Writes
<1>3. CASE Follows(L, B, M)
  <2>1. Clean(L) /\ Good(L)
    BY <1>2, <1>3, FollowsClean, CleanIsGood
  <2>2. Numbered(L) /\ Delivered(L, C, D)
    BY <2>1
  <2>3. Grows(L, B, M, id, cur, top)
    BY <1>1, <1>2, <1>3 DEF Grows
  <2>4. UniquePositions(M) /\ UniqueRevisions(M)
    BY <2>2, <2>3, GrowsPositions, GrowsRevisions DEF Numbered
  <2>5. NoRevisionMissing(M)
    BY <2>2, <2>3, GrowsDensely DEF Numbered
  <2>6. LooseEnd(M, d)
    BY <1>2, <2>3, GrowsLooseEnd
  <2>7. Delivered(M, C, D)
    BY <2>1, <2>2, <2>3, GrowsDelivered
  <2> QED
    BY <2>4, <2>5, <2>6, <2>7 DEF Numbered
<1>4. CASE c = FALSE /\ Hides(L, B, M)
  <2>1. Good(L)
    BY <1>4, HidesPlaces
  <2>2. Numbered(L) /\ LooseEnd(L, FALSE) /\ Delivered(L, C, D)
    BY <1>4, <2>1
  <2>3. Numbered(M)
    BY <1>4, <2>2, HidesNumbered
  <2>4. LooseEnd(M, d)
    BY <1>4, HidesPlaces DEF LooseEnd
  <2>5. Delivered(M, C, D)
    BY <1>4, <2>2, HidesPlaces DEF Delivered
  <2> QED
    BY <2>3, <2>4, <2>5
<1> QED
  BY <1>1, <1>3, <1>4, WritesCases

(* A write leaves no checkpoint beyond the last event, or a line that does *)
(* not parse.                                                              *)
LEMMA WriteReached ==
    ASSUME NEW L, NEW c, NEW B, NEW M, NEW d, NEW C, Writes(L, c, B, M, d), Reached(L, C)
    PROVE  Reached(M, C)
<1> SUFFICES ASSUME Clean(M), NEW t \in Types
             PROVE  C[t] = 0 \/ \E i \in Places(M) : C[t] <= EventAt(M, i).sequence
  BY DEF Reached
<1>1. L \in Seq(Seq(Pieces)) /\ B \in Seq(Seq(Pieces)) /\ M \in Seq(Seq(Pieces)) /\ B # <<>>
  BY WritesCases DEF Writes
<1>2. CASE Follows(L, B, M)
  <2>1. Clean(L)
    BY <1>1, <1>2, FollowsClean, CleanIsGood
  <2>2. C[t] = 0 \/ \E i \in Places(L) : C[t] <= EventAt(L, i).sequence
    BY <2>1 DEF Reached
  <2>3. \A i \in Places(L) : i \in Places(M) /\ EventAt(M, i) = EventAt(L, i)
    BY <1>1, <1>2, FollowsPlaces
  <2> QED
    BY <2>2, <2>3
<1>3. CASE Hides(L, B, M)
  <2>1. PICK a, b \in Nat : a = Len(L) /\ b = Len(B) /\ a > 0 /\ b > 0
    BY <1>3, HiddenLine
  <2>2. Len(M) = a + b - 1
    BY <1>3, <2>1 DEF Hides, Continues
  <2>3. a \in 1..Len(M)
    BY <2>1, <2>2
  <2>4. ~Parses(M[a])
    BY <1>3, <2>1, HiddenLine
  <2> QED
    BY <2>3, <2>4 DEF Clean
<1> QED
  BY <1>2, <1>3, WritesCases

LEMMA WriteStep ==
    ASSUME NEW L, NEW c, NEW B, NEW M, NEW d, NEW id \in Ids, NEW A, NEW C, NEW D,
           ScannedWrite(L, c, B, M, d, id), C \in [Types -> Nat], FileOK(L, c, A, C, D)
    PROVE  /\ FileOK(M, d, A, C, D)
           /\ \A j \in 1..Len(B) : Holds(M, B[j][1])
<1>1. Writes(L, c, B, M, d)
  BY DEF ScannedWrite
<1>2. LinesOK(M, d)
  BY <1>1, WritesLines
<1>3. TornLast(M, d)
  BY <1>1, WritesTorn DEF FileOK
<1>4. Kept(M, A)
  BY <1>1, WritesKeep DEF FileOK, Kept
<1>5. Reached(M, C)
  BY <1>1, WriteReached DEF FileOK
<1>6. /\ Reached(L, C)
      /\ Good(L) => Numbered(L) /\ LooseEnd(L, c) /\ Delivered(L, C, D)
  BY DEF FileOK
<1>7. Good(M) => Numbered(M) /\ LooseEnd(M, d) /\ Delivered(M, C, D)
  BY <1>6, WriteReadable
<1>8. FileOK(M, d, A, C, D)
  BY <1>2, <1>3, <1>4, <1>5, <1>7 DEF FileOK
<1> QED
  BY <1>1, <1>8, WritesKeep

-------------------------------------------------------------------------------
(* A function on 1..n is a sequence of length n. *)
LEMMA FunctionIsSequence ==
    ASSUME NEW T, NEW n \in Nat, NEW f \in [1..n -> T]
    PROVE  f \in Seq(T) /\ Len(f) = n /\ DOMAIN f = 1..n
<1>1. f \in Seq(T)
  BY SeqDef
<1>2. DOMAIN f = 1..n /\ DOMAIN f = 1..Len(f) /\ Len(f) \in Nat
  BY <1>1, LenProperties
<1> QED
  BY <1>1, <1>2

(* How many lines parse_json_lines returns of L. *)
Returned(L) == IF L = <<>> \/ Parses(L[Len(L)]) THEN Len(L) ELSE Len(L) - 1

LEMMA ReturnedPlaces ==
    ASSUME NEW L \in Seq(Seq(Pieces)), Good(L)
    PROVE  Returned(L) \in Nat /\ Places(L) = 1..Returned(L)
<1>1. PICK a \in Nat : a = Len(L) /\ (L # <<>> => a > 0)
  BY LenProperties, EmptySeq
<1>2. \A i \in 1..(a - 1) : Parses(L[i])
  BY <1>1 DEF Good
<1>3. CASE L = <<>>
  <2>1. a = 0
    BY <1>1, <1>3, EmptySeq
  <2> QED
    BY <1>1, <1>3, <2>1 DEF Returned, Places
<1>4. CASE L # <<>> /\ Parses(L[a])
  <2>1. \A i \in 1..a : Parses(L[i])
    <3>1. \A i \in 1..a : i = a \/ i \in 1..(a - 1)
      BY <1>1
    <3> QED
      BY <1>2, <1>4, <3>1
  <2>2. Returned(L) = a
    BY <1>1, <1>4 DEF Returned
  <2> QED
    BY <1>1, <2>1, <2>2 DEF Places
<1>5. CASE L # <<>> /\ ~Parses(L[a])
  <2>1. Returned(L) = a - 1 /\ a - 1 \in Nat
    BY <1>1, <1>5 DEF Returned
  <2>2. ASSUME NEW i
        PROVE  i \in Places(L) <=> i \in 1..(a - 1)
    <3>1. i \in 1..(a - 1) => i \in 1..a
      BY <1>1
    <3>2. i \in 1..a /\ i # a => i \in 1..(a - 1)
      BY <1>1
    <3> QED
      BY <1>1, <1>2, <1>5, <3>1, <3>2 DEF Places
  <2> QED
    BY <2>1, <2>2
<1> QED
  BY <1>1, <1>3, <1>4, <1>5

(* What the readers of the model see, in terms of the lines. *)
LEMMA StoredIs ==
    ASSUME lines \in Seq(Seq(Pieces)), Good(lines)
    PROVE  /\ Stored = Visible(lines)
           /\ Len(Values) = Returned(lines)
           /\ DOMAIN Values = Places(lines)
           /\ \A i \in Places(lines) : Values[i] = EventAt(lines, i)
<1>1. PICK n \in Nat : n = Returned(lines) /\ Places(lines) = 1..n
  BY ReturnedPlaces
<1>2. Values = [i \in 1..n |-> EventAt(lines, i)]
  BY <1>1 DEF Values, Returned, EventAt
<1>3. \A i \in 1..n : EventAt(lines, i) \in Envelopes
  BY <1>1, PlacesTyped
<1>4. Values \in [1..n -> Envelopes]
  BY <1>2, <1>3
<1>5. Len(Values) = n /\ DOMAIN Values = 1..n
  BY <1>4, FunctionIsSequence
<1>6. \A i \in 1..n : Values[i] = EventAt(lines, i)
  BY <1>2
<1>7. Stored = Visible(lines)
  BY <1>1, <1>5, <1>6 DEF Stored, Visible
<1> QED
  BY <1>1, <1>5, <1>6, <1>7

(* The events that can be read are finitely many envelopes. *)
LEMMA VisibleFinite ==
    ASSUME NEW L \in Seq(Seq(Pieces))
    PROVE  IsFiniteSet(Places(L)) /\ IsFiniteSet(Visible(L)) /\ Visible(L) \subseteq Envelopes
<1>1. PICK a \in Nat : a = Len(L)
  BY LenProperties
<1>2. IsFiniteSet(1..a)
  BY <1>1, FS_Interval
<1>3. Places(L) \in SUBSET (1..a)
  BY <1>1 DEF Places
<1>4. IsFiniteSet(Places(L))
  BY <1>2, <1>3, FS_Subset
<1>5. PICK f : f = [i \in Places(L) |-> EventAt(L, i)]
  OBVIOUS
<1>6. IsFiniteSet({f[i] : i \in Places(L)})
  BY <1>4, <1>5, FiniteValues
<1>7. {f[i] : i \in Places(L)} = Visible(L)
  BY <1>5 DEF Visible
<1>8. Visible(L) \subseteq Envelopes
  BY PlacesTyped DEF Visible
<1> QED
  BY <1>4, <1>6, <1>7, <1>8

(* ...and so are the revisions and the positions of some of them. *)
LEMMA NumbersFinite ==
    ASSUME NEW S \in SUBSET Envelopes, IsFiniteSet(S)
    PROVE  /\ IsFiniteSet({e.revision : e \in S}) /\ {e.revision : e \in S} \in SUBSET Nat
           /\ IsFiniteSet({e.sequence : e \in S}) /\ {e.sequence : e \in S} \in SUBSET Nat
<1>1. PICK f : f = [e \in S |-> e.revision]
  OBVIOUS
<1>2. IsFiniteSet({f[e] : e \in S}) /\ {f[e] : e \in S} = {e.revision : e \in S}
  BY <1>1, FiniteValues
<1>3. PICK g : g = [e \in S |-> e.sequence]
  OBVIOUS
<1>4. IsFiniteSet({g[e] : e \in S}) /\ {g[e] : e \in S} = {e.sequence : e \in S}
  BY <1>3, FiniteValues
<1>5. \A e \in S : e.revision \in Nat /\ e.sequence \in Nat
  BY DEF Envelopes
<1> QED
  BY <1>2, <1>4, <1>5

-------------------------------------------------------------------------------
(* The scan of append finds the last revision and the highest position. *)
LEMMA ScanIs ==
    ASSUME lines \in Seq(Seq(Pieces)), Good(lines), NEW id \in Ids
    PROVE  /\ CurrentRevision(id) \in Nat /\ MaxSequence(id) \in Nat
           /\ Scanned(lines, id, CurrentRevision(id), MaxSequence(id))
<1>1. PICK S : S = Visible(lines)
  OBVIOUS
<1>2. IsFiniteSet(S) /\ S \in SUBSET Envelopes /\ Stored = S
  BY <1>1, VisibleFinite, StoredIs
<1>3. PICK T : T = {e \in S : e.id = id}
  OBVIOUS
<1>4. IsFiniteSet(T) /\ T \in SUBSET S /\ T \in SUBSET Envelopes
  BY <1>2, <1>3, FS_Subset
<1>5. PICK R : R = {e.revision : e \in T}
  OBVIOUS
<1>6. PICK Q : Q = {e.sequence : e \in S}
  OBVIOUS
<1>7. IsFiniteSet(R) /\ R \in SUBSET Nat /\ IsFiniteSet(Q) /\ Q \in SUBSET Nat
  BY <1>2, <1>4, <1>5, <1>6, NumbersFinite
<1>8. CurrentRevision(id) = Highest(R) /\ MaxSequence(id) = Highest(Q)
  BY <1>2, <1>3, <1>5, <1>6 DEF CurrentRevision, MaxSequence, Stream
<1>9. PICK cur, top \in Nat : cur = Highest(R) /\ top = Highest(Q)
  BY <1>7, HighestIs
<1>10. (cur = 0 \/ cur \in R) /\ (\A k \in R : k <= cur) /\ (\A k \in Q : k <= top)
  BY <1>7, <1>9, HighestIs
<1>11. \A i \in Places(lines) : EventAt(lines, i) \in S
  BY <1>1 DEF Visible
<1>12. \A i \in Places(lines) : EventAt(lines, i).sequence <= top
  BY <1>6, <1>10, <1>11
<1>13. \A i \in Places(lines) : EventAt(lines, i).id = id => EventAt(lines, i).revision <= cur
  BY <1>3, <1>5, <1>10, <1>11
<1>14. cur \in R => HasRevision(lines, id, cur)
  <2> SUFFICES ASSUME cur \in R PROVE HasRevision(lines, id, cur)
    OBVIOUS
  <2>1. PICK e \in S : e.id = id /\ e.revision = cur
    BY <1>3, <1>5
  <2>2. PICK i \in Places(lines) : EventAt(lines, i) = e
    BY <1>1, <2>1 DEF Visible
  <2> QED
    BY <2>1, <2>2 DEF HasRevision
<1>15. Scanned(lines, id, cur, top)
  BY <1>9, <1>10, <1>12, <1>13, <1>14 DEF Scanned
<1> QED
  BY <1>8, <1>9, <1>15

(* The envelopes of n events of id, numbered onwards from cur and top. *)
NewBatch(N, id, cur, top, n) ==
    /\ n \in Nat /\ DOMAIN N = 1..n /\ Len(N) = n
    /\ \A k \in 1..n :
          /\ N[k] \in Envelopes
          /\ N[k].id = id
          /\ N[k].revision = cur + k
          /\ N[k].sequence = top + k

LEMMA NewTyped ==
    ASSUME NEW first \in Nat, NEW id \in Ids, NEW cur \in Nat, NEW top \in Nat, NEW n \in Nat,
           NEW N, N = [k \in 1..n |-> [event |-> first + k - 1, id |-> id, revision |-> cur + k,
                                       sequence |-> top + k]]
    PROVE  NewBatch(N, id, cur, top, n)
<1>1. ASSUME NEW k \in 1..n
      PROVE  /\ N[k] \in Envelopes
             /\ N[k].id = id
             /\ N[k].revision = cur + k
             /\ N[k].sequence = top + k
  <2>1. PICK x, r, q \in Nat : x = first + k - 1 /\ r = cur + k /\ q = top + k /\ r # 0 /\ q # 0
    <3>1. first + k - 1 \in Nat /\ cur + k \in Nat /\ top + k \in Nat /\ cur + k # 0 /\ top + k # 0
      OBVIOUS
    <3> QED
      BY <3>1
  <2>2. N[k] = [event |-> x, id |-> id, revision |-> r, sequence |-> q]
    BY <2>1
  <2> QED
    BY <2>1, <2>2 DEF Envelopes
<1>2. N \in [1..n -> Envelopes]
  BY <1>1
<1>3. DOMAIN N = 1..n /\ Len(N) = n
  BY <1>2, FunctionIsSequence
<1> QED
  BY <1>1, <1>3 DEF NewBatch

(* A line of one piece. *)
LEMMA OnePiece ==
    ASSUME NEW e \in Envelopes
    PROVE  /\ Line(e) \in Seq(Pieces) /\ Len(Line(e)) = 1 /\ Line(e)[1] = Whole(e)
           /\ Line(e)[1].event = e /\ Parses(Line(e))
           /\ <<Torn(e)>> \in Seq(Pieces) /\ Len(<<Torn(e)>>) = 1 /\ <<Torn(e)>>[1].event = e
           /\ ~Parses(<<Torn(e)>>)
<1>1. Whole(e) \in Pieces /\ Whole(e).event = e /\ Whole(e).whole = TRUE
  BY DEF Whole, Pieces
<1>2. Torn(e) \in Pieces /\ Torn(e).event = e /\ Torn(e).whole = FALSE
  BY DEF Torn, Pieces
<1>3. PICK w, t : w = Whole(e) /\ t = Torn(e)
  OBVIOUS
<1>4. <<w>> \in Seq(Pieces) /\ Len(<<w>>) = 1 /\ <<w>>[1] = w
  BY <1>1, <1>3
<1>5. <<t>> \in Seq(Pieces) /\ Len(<<t>>) = 1 /\ <<t>>[1] = t
  BY <1>2, <1>3
<1>6. Line(e) = <<w>>
  BY <1>3 DEF Line
<1>7. Parses(<<w>>)
  BY <1>1, <1>3, <1>4 DEF Parses
<1>8. ~Parses(<<t>>)
  BY <1>2, <1>3, <1>5 DEF Parses
<1> QED
  BY <1>1, <1>2, <1>3, <1>4, <1>5, <1>6, <1>7, <1>8

(* The first m of the new events, each a line of its own; the last one may *)
(* be cut short.                                                           *)
Batch(B, N, m) ==
    /\ B \in Seq(Seq(Pieces))
    /\ Len(B) = m
    /\ \A j \in 1..(m - 1) : B[j] = Line(N[j])
    /\ m > 0 => B[m] \in {Line(N[m]), <<Torn(N[m])>>}

LEMMA BatchIsFresh ==
    ASSUME NEW N, NEW id, NEW cur \in Nat, NEW top \in Nat, NEW n \in Nat, NewBatch(N, id, cur, top, n),
           NEW m \in 0..n, NEW B, Batch(B, N, m)
    PROVE  Fresh(B, id, cur, top)
<1>1. \A j \in 1..m : N[j] \in Envelopes /\ N[j].id = id /\ N[j].revision = cur + j /\ N[j].sequence = top + j
  <2>1. \A j \in 1..m : j \in 1..n
    OBVIOUS
  <2> QED
    BY <2>1 DEF NewBatch
<1>2. ASSUME NEW j \in 1..m
      PROVE  Len(B[j]) = 1 /\ EventAt(B, j) = N[j]
  <2>1. B[j] = Line(N[j]) \/ B[j] = <<Torn(N[j])>>
    <3>1. CASE j = m
      BY <3>1 DEF Batch
    <3>2. CASE j # m
      <4>1. j \in 1..(m - 1)
        BY <3>2
      <4> QED
        BY <4>1 DEF Batch
    <3> QED
      BY <3>1, <3>2
  <2>2. /\ Len(Line(N[j])) = 1 /\ Line(N[j])[1].event = N[j]
        /\ Len(<<Torn(N[j])>>) = 1 /\ <<Torn(N[j])>>[1].event = N[j]
    BY <1>1, OnePiece
  <2>3. CASE B[j] = Line(N[j])
    BY <2>2, <2>3 DEF EventAt
  <2>4. CASE B[j] = <<Torn(N[j])>>
    BY <2>2, <2>4 DEF EventAt
  <2> QED
    BY <2>1, <2>3, <2>4
<1>3. Good(B)
  <2> SUFFICES ASSUME NEW j \in 1..(m - 1) PROVE Parses(B[j])
    BY DEF Good, Batch
  <2>1. j \in 1..m /\ B[j] = Line(N[j])
    BY DEF Batch
  <2> QED
    BY <1>1, <2>1, OnePiece
<1>4. B \in Seq(Seq(Pieces)) /\ Len(B) = m
  BY DEF Batch
<1> QED
  BY <1>1, <1>2, <1>3, <1>4 DEF Fresh

(* All of the lines, as append writes them. *)
LEMMA AllLines ==
    ASSUME NEW N, NEW id, NEW cur \in Nat, NEW top \in Nat, NEW n \in Nat, NewBatch(N, id, cur, top, n)
    PROVE  /\ LinesOf(N) \in Seq(Seq(Pieces)) /\ Len(LinesOf(N)) = n
           /\ \A k \in 1..n : LinesOf(N)[k] = Line(N[k]) /\ LinesOf(N)[k] \in Seq(Pieces)
<1>1. DOMAIN N = 1..n /\ \A k \in 1..n : N[k] \in Envelopes
  BY DEF NewBatch
<1>2. \A k \in 1..n : Line(N[k]) \in Seq(Pieces)
  BY <1>1, OnePiece
<1>3. LinesOf(N) = [k \in 1..n |-> Line(N[k])]
  BY <1>1 DEF LinesOf
<1>4. LinesOf(N) \in [1..n -> Seq(Pieces)] /\ \A k \in 1..n : LinesOf(N)[k] = Line(N[k])
  BY <1>2, <1>3
<1>5. LinesOf(N) \in Seq(Seq(Pieces)) /\ Len(LinesOf(N)) = n
  BY <1>4, FunctionIsSequence
<1> QED
  BY <1>2, <1>4, <1>5

(* The first m of them. *)
LEMMA SomeLines ==
    ASSUME NEW N, NEW id, NEW cur \in Nat, NEW top \in Nat, NEW n \in Nat, NewBatch(N, id, cur, top, n)
    PROVE  \A m \in 0..n : /\ SubSeq(LinesOf(N), 1, m) \in Seq(Seq(Pieces))
                           /\ Len(SubSeq(LinesOf(N), 1, m)) = m
                           /\ \A k \in 1..m : SubSeq(LinesOf(N), 1, m)[k] = Line(N[k])
<1> TAKE m \in 0..n
<1>1. PICK W : W = LinesOf(N)
  OBVIOUS
<1>2. \A k \in 1..n : W[k] = Line(N[k]) /\ W[k] \in Seq(Pieces)
  BY <1>1, AllLines, ZenonT(60)
<1>3. \A k \in 1..m : k \in 1..n
  OBVIOUS
<1>4. \A k \in 1..m : W[k] \in Seq(Pieces)
  BY <1>2, <1>3
<1>5. /\ SubSeq(W, 1, m) \in Seq(Seq(Pieces))
      /\ Len(SubSeq(W, 1, m)) = IF 1 <= m THEN m - 1 + 1 ELSE 0
      /\ \A i \in 1..(m - 1 + 1) : SubSeq(W, 1, m)[i] = W[1 + i - 1]
  BY <1>4, SubSeqProperties
<1>6. PICK B : B = SubSeq(W, 1, m)
  OBVIOUS
<1>7. Len(B) = m
  BY <1>5, <1>6
<1>8. ASSUME NEW k \in 1..m
      PROVE  B[k] = Line(N[k])
  <2>1. k \in 1..(m - 1 + 1) /\ 1 + k - 1 = k
    OBVIOUS
  <2>2. B[k] = W[k]
    BY <1>5, <1>6, <2>1
  <2> QED
    BY <1>2, <1>3, <2>2
<1> QED
  BY <1>1, <1>5, <1>6, <1>7, <1>8

(* What is left of an interrupted write: the first lines... *)
LEMMA PrefixBatch ==
    ASSUME NEW N, NEW id, NEW cur \in Nat, NEW top \in Nat, NEW n \in Nat, NewBatch(N, id, cur, top, n),
           NEW m \in 0..n, NEW B, B = SubSeq(LinesOf(N), 1, m)
    PROVE  Batch(B, N, m) /\ Clean(B)
<1>0. \A q \in 0..n : /\ SubSeq(LinesOf(N), 1, q) \in Seq(Seq(Pieces))
                      /\ Len(SubSeq(LinesOf(N), 1, q)) = q
                      /\ \A k \in 1..q : SubSeq(LinesOf(N), 1, q)[k] = Line(N[k])
  BY SomeLines, ZenonT(60)
<1>1. B \in Seq(Seq(Pieces)) /\ Len(B) = m /\ \A k \in 1..m : B[k] = Line(N[k])
  BY <1>0
<1>2. \A k \in 1..m : Parses(B[k])
  <2> SUFFICES ASSUME NEW k \in 1..m PROVE Parses(B[k])
    OBVIOUS
  <2>1. k \in 1..n
    OBVIOUS
  <2>2. N[k] \in Envelopes
    BY <2>1 DEF NewBatch
  <2> QED
    BY <1>1, <2>2, OnePiece
<1>3. \A k \in 1..(m - 1) : k \in 1..m
  OBVIOUS
<1>4. m > 0 => m \in 1..m
  OBVIOUS
<1>5. Batch(B, N, m)
  BY <1>1, <1>3, <1>4 DEF Batch
<1> QED
  BY <1>1, <1>2, <1>5 DEF Clean

(* ...or these and a line without its newline, or its first bytes. *)
LEMMA CutBatch ==
    ASSUME NEW N, NEW id, NEW cur \in Nat, NEW top \in Nat, NEW n \in Nat, NewBatch(N, id, cur, top, n),
           NEW m \in 1..n
    PROVE  \A p \in {Whole(N[m]), Torn(N[m])} :
              Batch(SubSeq(LinesOf(N), 1, m - 1) \o <<<<p>>>>, N, m)
<1>1. PICK h \in 0..n : h = m - 1 /\ h + 1 = m
  <2>1. m - 1 \in 0..n /\ (m - 1) + 1 = m
    OBVIOUS
  <2> QED
    BY <2>1
<1>2. PICK K : K = SubSeq(LinesOf(N), 1, h)
  OBVIOUS
<1>3. K \in Seq(Seq(Pieces)) /\ Len(K) = h /\ \A k \in 1..h : K[k] = Line(N[k])
  <2>1. \A q \in 0..n : /\ SubSeq(LinesOf(N), 1, q) \in Seq(Seq(Pieces))
                        /\ Len(SubSeq(LinesOf(N), 1, q)) = q
                        /\ \A k \in 1..q : SubSeq(LinesOf(N), 1, q)[k] = Line(N[k])
    BY SomeLines, ZenonT(60)
  <2> QED
    BY <1>2, <2>1
<1> TAKE p \in {Whole(N[m]), Torn(N[m])}
<1> DEFINE B == SubSeq(LinesOf(N), 1, m - 1) \o <<<<p>>>>
<1>4. N[m] \in Envelopes
  BY DEF NewBatch
<1>5. <<p>> \in {Line(N[m]), <<Torn(N[m])>>} /\ <<p>> \in Seq(Pieces)
  <2>1. CASE p = Whole(N[m])
    <3>1. <<p>> = Line(N[m])
      BY <2>1 DEF Line
    <3> QED
      BY <1>4, <3>1, OnePiece
  <2>2. CASE p = Torn(N[m])
    BY <1>4, <2>2, OnePiece
  <2> QED
    BY <2>1, <2>2
<1>6. PICK x : x = <<p>>
  OBVIOUS
<1>7. <<x>> \in Seq(Seq(Pieces)) /\ Len(<<x>>) = 1 /\ <<x>>[1] = x
  BY <1>5, <1>6
<1>8. B = K \o <<x>>
  <2>1. SubSeq(LinesOf(N), 1, m - 1) = K
    BY <1>1, <1>2
  <2> QED
    BY <1>6, <2>1
<1> HIDE DEF B
<1>9. PICK y : y = <<x>>
  OBVIOUS
<1>10. y \in Seq(Seq(Pieces)) /\ Len(y) = 1 /\ y[1] = x /\ B = K \o y
  BY <1>7, <1>8, <1>9
<1>11. B \in Seq(Seq(Pieces)) /\ Follows(K, y, B)
  BY <1>3, <1>10, JoinedFollows
<1>12. Len(B) = h + 1 /\ (\A i \in 1..h : B[i] = K[i]) /\ (\A j \in 1..1 : B[h + j] = y[j])
  BY <1>3, <1>10, <1>11 DEF Follows
<1>13. Len(B) = m /\ B[m] = x
  BY <1>1, <1>10, <1>12
<1>14. \A j \in 1..(m - 1) : B[j] = Line(N[j])
  BY <1>1, <1>3, <1>12
<1> QED
  BY <1>5, <1>6, <1>11, <1>13, <1>14 DEF Batch, B

(* Written in terms of the file before and after. *)
LEMMA JoinedAppended ==
    ASSUME NEW L, NEW c \in BOOLEAN, LinesOK(L, c), NEW B \in Seq(Seq(Pieces)), NEW M, M = Joined(L, c, B),
           NEW d, B = <<>> => d = c, B # <<>> /\ ~Parses(B[Len(B)]) => d = FALSE
    PROVE  Appended(L, c, B, M, d)
<1>1. L \in Seq(Seq(Pieces)) /\ (c = FALSE => L # <<>>)
  BY DEF LinesOK
<1>2. CASE B = <<>>
  <2>1. M = L \o B
    BY <1>2 DEF Joined
  <2>2. M = L
    BY <1>1, <1>2, <2>1, ConcatEmptySeq
  <2> QED
    BY <1>1, <1>2, <2>2 DEF Appended
<1>3. CASE B # <<>> /\ c = TRUE
  <2>1. M = L \o B
    BY <1>3 DEF Joined
  <2>2. M \in Seq(Seq(Pieces)) /\ Follows(L, B, M)
    BY <1>1, <2>1, JoinedFollows
  <2> QED
    BY <1>3, <2>2 DEF Appended
<1>4. CASE B # <<>> /\ c = FALSE
  <2>1. M = [L EXCEPT ![Len(L)] = @ \o B[1]] \o Tail(B)
    BY <1>4 DEF Joined
  <2>2. M \in Seq(Seq(Pieces)) /\ Continues(L, B, M)
    BY <1>1, <1>4, <2>1, JoinedContinues
  <2> QED
    BY <1>4, <2>2 DEF Appended
<1> QED
  BY <1>2, <1>3, <1>4

(* A write of a batch after a scan keeps what the file promises. *)
LEMMA BatchStep ==
    ASSUME NEW L, NEW c \in BOOLEAN, NEW A, NEW C, NEW D, FileOK(L, c, A, C, D), C \in [Types -> Nat],
           NEW id \in Ids, NEW cur \in Nat, NEW top \in Nat, Scanned(L, id, cur, top),
           NEW N, NEW n \in Nat, NewBatch(N, id, cur, top, n), NEW m \in 0..n, NEW B, Batch(B, N, m),
           NEW M, M = Joined(L, c, B),
           NEW d, B = <<>> => d = c, B # <<>> /\ ~Parses(B[Len(B)]) => d = FALSE
    PROVE  FileOK(M, d, A, C, D) /\ \A j \in 1..m : Holds(M, B[j][1])
<1>1. B \in Seq(Seq(Pieces)) /\ Len(B) = m
  BY DEF Batch
<1>2. LinesOK(L, c)
  BY DEF FileOK
<1>3. Appended(L, c, B, M, d)
  BY <1>1, <1>2, JoinedAppended
<1>4. CASE B = <<>>
  <2>1. M = L /\ d = c
    BY <1>3, <1>4 DEF Appended
  <2>2. m = 0
    BY <1>1, <1>4, EmptySeq
  <2> QED
    BY <2>1, <2>2
<1>5. CASE B # <<>>
  <2>1. Fresh(B, id, cur, top)
    BY BatchIsFresh
  <2>2. Writes(L, c, B, M, d)
    BY <1>1, <1>2, <1>3, <1>5, <2>1 DEF Writes, Fresh
  <2>3. ScannedWrite(L, c, B, M, d, id)
    BY <2>1, <2>2 DEF ScannedWrite
  <2> QED
    BY <1>1, <2>3, WriteStep
<1> QED
  BY <1>4, <1>5

-------------------------------------------------------------------------------
(* A legacy file is what appends wrote: clean, and numbered without a gap. *)
LEMMA LegacyFile ==
    ASSUME NEW legacy, IsHistory(legacy), NEW L, L = [i \in DOMAIN legacy |-> Line(legacy[i])]
    PROVE  /\ LinesOK(L, TRUE) /\ Clean(L) /\ Numbered(L) /\ Len(legacy) \in Nat
           /\ \A i \in DOMAIN legacy : Holds(L, Whole(legacy[i]))
           /\ \A i \in Places(L) : EventAt(L, i).sequence \in Nat \ {0}
<1>1. legacy \in Seq(Envelopes)
  BY DEF IsHistory
<1>2. PICK n \in Nat : n = Len(legacy) /\ DOMAIN legacy = 1..n
  BY <1>1, LenProperties
<1>3. \A i \in 1..n : legacy[i] \in Envelopes
  BY <1>1, <1>2, ElementOfSeq
<1>4. \A i \in 1..n : L[i] = Line(legacy[i])
  BY <1>2
<1>5. \A i \in 1..n : /\ L[i] \in Seq(Pieces) /\ Len(L[i]) = 1 /\ Parses(L[i])
                      /\ L[i][1] = Whole(legacy[i]) /\ EventAt(L, i) = legacy[i]
  <2> SUFFICES ASSUME NEW i \in 1..n
               PROVE  /\ L[i] \in Seq(Pieces) /\ Len(L[i]) = 1 /\ Parses(L[i])
                      /\ L[i][1] = Whole(legacy[i]) /\ EventAt(L, i) = legacy[i]
    OBVIOUS
  <2>1. PICK e \in Envelopes : e = legacy[i]
    BY <1>3
  <2>2. L[i] = Line(e)
    BY <1>4, <2>1
  <2>3. /\ Line(e) \in Seq(Pieces) /\ Len(Line(e)) = 1 /\ Line(e)[1] = Whole(e)
        /\ Line(e)[1].event = e /\ Parses(Line(e))
    BY OnePiece
  <2> QED
    BY <2>1, <2>2, <2>3 DEF EventAt
<1>6. L \in [1..n -> Seq(Pieces)]
  BY <1>2, <1>5
<1>7. L \in Seq(Seq(Pieces)) /\ Len(L) = n
  BY <1>6, FunctionIsSequence
<1>8. Places(L) = 1..n
  BY <1>5, <1>7 DEF Places
<1>9. \A i \in 1..n : L[i] # <<>>
  <2> SUFFICES ASSUME NEW i \in 1..n PROVE L[i] # <<>>
    OBVIOUS
  <2>1. ASSUME L[i] = <<>>
        PROVE  Len(L[i]) = 0
    BY <2>1, EmptySeq
  <2>2. Len(L[i]) = 1
    BY <1>5
  <2> QED
    BY <2>1, <2>2
<1>10. LinesOK(L, TRUE)
  BY <1>7, <1>9 DEF LinesOK
<1>11. Clean(L)
  BY <1>5, <1>7 DEF Clean
<1>12. \A i \in 1..n : Holds(L, Whole(legacy[i]))
  <2> SUFFICES ASSUME NEW i \in 1..n PROVE Holds(L, Whole(legacy[i]))
    OBVIOUS
  <2>1. 1 \in 1..Len(L[i]) /\ L[i][1] = Whole(legacy[i])
    BY <1>5
  <2>2. i \in 1..Len(L)
    BY <1>7
  <2> QED
    BY <2>1, <2>2, Zenon DEF Holds
<1>13. \A i, j \in 1..n :
          \/ legacy[i].sequence = legacy[j].sequence
          \/ legacy[i].id = legacy[j].id /\ legacy[i].revision = legacy[j].revision
          => i = j
  BY <1>2 DEF IsHistory
<1>14. UniquePositions(L)
  BY <1>5, <1>8, <1>13 DEF UniquePositions
<1>15. UniqueRevisions(L)
  BY <1>5, <1>8, <1>13 DEF UniqueRevisions
<1>16. ASSUME NEW i \in 1..n, NEW r \in 1..legacy[i].revision
       PROVE  HasRevision(L, legacy[i].id, r)
  <2>1. PICK j \in 1..n : legacy[j].id = legacy[i].id /\ legacy[j].revision = r
    BY <1>2 DEF IsHistory
  <2> QED
    BY <1>5, <1>8, <2>1 DEF HasRevision
<1>17. NoRevisionMissing(L)
  BY <1>5, <1>8, <1>16 DEF NoRevisionMissing
<1>18. \A i \in Places(L) : EventAt(L, i).sequence \in Nat \ {0}
  BY <1>7, PlacesTyped
<1> QED
  BY <1>2, <1>10, <1>11, <1>12, <1>14, <1>15, <1>17, <1>18 DEF Numbered

LEMMA FileInit == Init => FileInv
<1> SUFFICES ASSUME Init PROVE FileInv
  OBVIOUS
<1>1. PICK legacy \in LegacyFiles :
         /\ form = IF legacy = <<>> THEN "missing" ELSE "array"
         /\ lines = [i \in DOMAIN legacy |-> Line(legacy[i])]
         /\ ended = TRUE
         /\ next_event = Len(legacy) + 1
         /\ faults = 0
         /\ acknowledged = {legacy[i] : i \in DOMAIN legacy}
         /\ checkpoints = [t \in Types |-> 0]
         /\ delivered = [t \in Types |-> {}]
  BY DEF Init
<1>2. IsHistory(legacy)
  BY JsonFileAssumption
<1>3. /\ LinesOK(lines, TRUE) /\ Clean(lines) /\ Numbered(lines) /\ Len(legacy) \in Nat
      /\ \A i \in DOMAIN legacy : Holds(lines, Whole(legacy[i]))
      /\ \A i \in Places(lines) : EventAt(lines, i).sequence \in Nat \ {0}
  BY <1>1, <1>2, LegacyFile
<1>4. checkpoints \in [Types -> Nat] /\ \A t \in Types : checkpoints[t] = 0
  BY <1>1
<1>5. Delivered(lines, checkpoints, delivered)
  <2> SUFFICES ASSUME NEW i \in Places(lines),
                      EventAt(lines, i).sequence <= checkpoints[TypeOf[EventAt(lines, i).id]]
               PROVE  FALSE
    BY DEF Delivered
  <2>1. EventAt(lines, i).id \in Ids
    BY <1>3, PlacesTyped DEF LinesOK
  <2>2. TypeOf[EventAt(lines, i).id] \in Types
    BY <2>1, JsonFileAssumption
  <2>3. checkpoints[TypeOf[EventAt(lines, i).id]] = 0
    BY <1>4, <2>2
  <2>4. PICK s \in Nat \ {0} : s = EventAt(lines, i).sequence
    BY <1>3
  <2>5. s <= 0
    BY <2>3, <2>4
  <2> QED
    BY <2>5
<1>6. LooseEnd(lines, ended)
  BY <1>1 DEF LooseEnd
<1>7. TornLast(lines, ended)
  BY <1>3 DEF TornLast, Clean
<1>8. Kept(lines, acknowledged)
  BY <1>1, <1>3 DEF Kept
<1>9. Reached(lines, checkpoints)
  BY <1>4 DEF Reached
<1>10. FileOK(lines, ended, acknowledged, checkpoints, delivered)
  BY <1>1, <1>3, <1>5, <1>6, <1>7, <1>8, <1>9 DEF FileOK
<1>11. next_event \in Nat
  BY <1>1, <1>3
<1> QED
  BY <1>1, <1>4, <1>10, <1>11 DEF FileInv

-------------------------------------------------------------------------------
(* The new events of an append are numbered onwards from what it scanned. *)
LEMMA AppendScan ==
    ASSUME FileInv, Readable, NEW id \in Ids, NEW n \in Nat
    PROVE  \E cur, top \in Nat :
              Scanned(lines, id, cur, top) /\ NewBatch(NewEvents(id, n), id, cur, top, n)
<1>1. lines \in Seq(Seq(Pieces)) /\ Good(lines) /\ next_event \in Nat
  BY DEF FileInv, FileOK, LinesOK, Readable, Good
<1>2. PICK cur, top \in Nat : cur = CurrentRevision(id) /\ top = MaxSequence(id)
  BY <1>1, ScanIs
<1>3. Scanned(lines, id, cur, top)
  BY <1>1, <1>2, ScanIs
<1>4. PICK first \in Nat : first = next_event
  BY <1>1
<1>5. PICK N : N = NewEvents(id, n)
  OBVIOUS
<1>6. N = [k \in 1..n |-> [event |-> first + k - 1, id |-> id, revision |-> cur + k,
                           sequence |-> top + k]]
  BY <1>2, <1>4, <1>5 DEF NewEvents
<1>7. NewBatch(N, id, cur, top, n)
  BY <1>6, NewTyped
<1> QED
  BY <1>3, <1>5, <1>7

LEMMA WrittenJoined ==
    ASSUME ended \in BOOLEAN, NEW B
    PROVE  Written(B) = Joined(lines, ended, B)
<1>1. CASE ended = TRUE
  BY <1>1 DEF Written, Joined
<1>2. CASE ended = FALSE
  BY <1>2 DEF Written, Joined
<1> QED
  BY <1>1, <1>2

(* A file ends in a newline only if what was written to it does. *)
Ends(c, B, d) ==
    /\ B = <<>> => d = c
    /\ B # <<>> /\ ~Parses(B[Len(B)]) => d = FALSE

(* The file after a write, with what append acknowledges if it returns Ok. *)
LEMMA FileAfterWrite ==
    ASSUME FileInv, Readable, NEW id \in Ids, NEW n \in Nat, NEW m \in 0..n, NEW B,
           Batch(B, NewEvents(id, n), m),
           NEW M, M = Written(B), NEW d, Ends(ended, B, d)
    PROVE  /\ FileOK(M, d, acknowledged, checkpoints, delivered)
           /\ \A j \in 1..m : Holds(M, B[j][1])
<1>1. PICK cur, top \in Nat :
         Scanned(lines, id, cur, top) /\ NewBatch(NewEvents(id, n), id, cur, top, n)
  BY AppendScan
<1>2. PICK N : N = NewEvents(id, n)
  OBVIOUS
<1>3. PICK L, A, C, D : L = lines /\ A = acknowledged /\ C = checkpoints /\ D = delivered
  OBVIOUS
<1>4. PICK c \in BOOLEAN : c = ended
  BY DEF FileInv
<1>5. FileOK(L, c, A, C, D) /\ C \in [Types -> Nat]
  BY <1>3, <1>4 DEF FileInv
<1>6. M = Joined(L, c, B)
  BY <1>3, <1>4, WrittenJoined
<1>7. Scanned(L, id, cur, top) /\ NewBatch(N, id, cur, top, n) /\ Batch(B, N, m)
  BY <1>1, <1>2, <1>3
<1>8. (B = <<>> => d = c) /\ (B # <<>> /\ ~Parses(B[Len(B)]) => d = FALSE)
  BY <1>4 DEF Ends
<1>9. FileOK(M, d, A, C, D) /\ \A j \in 1..m : Holds(M, B[j][1])
  BY <1>5, <1>6, <1>7, <1>8, BatchStep, ZenonT(60)
<1> QED
  BY <1>3, <1>9

(* append writes all of the lines; so may a write whose fsync fails. *)
LEMMA WholeWrite ==
    ASSUME FileInv, Readable, NEW id \in Ids, NEW n \in Nat, n > 0,
           NEW M, M = Written(LinesOf(NewEvents(id, n)))
    PROVE  /\ FileOK(M, TRUE, acknowledged, checkpoints, delivered)
           /\ \A k \in 1..n : Holds(M, Whole(NewEvents(id, n)[k]))
<1>1. PICK N : N = NewEvents(id, n)
  OBVIOUS
<1>2. PICK cur, top \in Nat : Scanned(lines, id, cur, top) /\ NewBatch(N, id, cur, top, n)
  BY <1>1, AppendScan
<1>3. PICK B : B = LinesOf(N)
  OBVIOUS
<1>4. B \in Seq(Seq(Pieces)) /\ Len(B) = n /\ \A k \in 1..n : B[k] = Line(N[k])
  BY <1>2, <1>3, AllLines, ZenonT(60)
<1>5. \A k \in 1..n : Parses(B[k]) /\ B[k][1] = Whole(N[k])
  <2> SUFFICES ASSUME NEW k \in 1..n PROVE Parses(B[k]) /\ B[k][1] = Whole(N[k])
    OBVIOUS
  <2>1. PICK e \in Envelopes : e = N[k]
    BY <1>2 DEF NewBatch
  <2>2. Parses(Line(e)) /\ Line(e)[1] = Whole(e)
    BY OnePiece
  <2> QED
    BY <1>4, <2>1, <2>2
<1>6. Batch(B, N, n)
  <2>1. \A j \in 1..(n - 1) : j \in 1..n
    OBVIOUS
  <2>2. n \in 1..n
    OBVIOUS
  <2> QED
    BY <1>4, <2>1, <2>2 DEF Batch
<1>7. B # <<>> /\ Parses(B[Len(B)])
  <2>1. n \in 1..n
    OBVIOUS
  <2>2. ASSUME B = <<>>
        PROVE  n = 0
    BY <1>4, <2>2, EmptySeq
  <2> QED
    BY <1>4, <1>5, <2>1, <2>2
<1>8. n \in 0..n /\ M = Written(B) /\ Batch(B, NewEvents(id, n), n)
  BY <1>1, <1>3, <1>6
<1>9. PICK d : d = TRUE
  OBVIOUS
<1>10. Ends(ended, B, d)
  BY <1>7 DEF Ends
<1>11. FileOK(M, d, acknowledged, checkpoints, delivered) /\ \A j \in 1..n : Holds(M, B[j][1])
  BY <1>8, <1>10, FileAfterWrite
<1> QED
  BY <1>1, <1>5, <1>9, <1>11

LEMMA KeepsNew ==
    ASSUME NEW M, NEW d, NEW A, NEW C, NEW D, FileOK(M, d, A, C, D), NEW S, Kept(M, S)
    PROVE  FileOK(M, d, A \cup S, C, D)
BY DEF FileOK, Kept

LEMMA AppendEventsStep ==
    ASSUME FileInv, NEW id \in Ids, NEW expected, NEW n \in Nat, AppendEvents(id, expected, n)
    PROVE  FileInv'
<1>1. /\ Readable /\ n > 0 /\ form' = "lines" /\ ended' = TRUE
      /\ lines' = Written(LinesOf(NewEvents(id, n)))
      /\ next_event' = next_event + n
      /\ acknowledged' = acknowledged \cup {NewEvents(id, n)[k] : k \in 1..n}
      /\ checkpoints' = checkpoints /\ delivered' = delivered
  BY DEF AppendEvents, CanAppend, projection
<1>2. PICK M : M = lines'
  OBVIOUS
<1>3. PICK S : S = {NewEvents(id, n)[k] : k \in 1..n}
  OBVIOUS
<1>4. /\ FileOK(M, TRUE, acknowledged, checkpoints, delivered)
      /\ \A k \in 1..n : Holds(M, Whole(NewEvents(id, n)[k]))
  BY <1>1, <1>2, WholeWrite
<1>5. Kept(M, S)
  BY <1>3, <1>4 DEF Kept
<1>6. FileOK(M, TRUE, acknowledged \cup S, checkpoints, delivered)
  BY <1>4, <1>5, KeepsNew
<1>7. FileOK(lines', ended', acknowledged', checkpoints', delivered')
  BY <1>1, <1>2, <1>3, <1>6
<1>8. next_event' \in Nat
  BY <1>1 DEF FileInv
<1> QED
  BY <1>1, <1>7, <1>8 DEF FileInv

(* An interrupted write leaves some first part of its lines. *)
LEMMA InterruptedFile ==
    ASSUME FileInv, Readable, NEW id \in Ids, NEW n \in Nat, n > 0,
           RewriteInterrupted(id, n) \/ AppendInterrupted(id, n)
    PROVE  /\ FileOK(lines', ended', acknowledged, checkpoints, delivered)
           /\ ended' \in BOOLEAN
           /\ form' # "lines" => ended' = TRUE
<1>1. PICK N : N = NewEvents(id, n)
  OBVIOUS
<1>2. PICK cur, top \in Nat : Scanned(lines, id, cur, top) /\ NewBatch(N, id, cur, top, n)
  BY <1>1, AppendScan
<1>3. CASE UNCHANGED file
  BY <1>3 DEF file, FileInv
<1>4. CASE form' = "lines" /\ lines' = Written(LinesOf(NewEvents(id, n))) /\ ended' = TRUE
  <2>1. PICK M : M = lines'
    OBVIOUS
  <2>2. FileOK(M, TRUE, acknowledged, checkpoints, delivered)
    BY <1>4, <2>1, WholeWrite
  <2> QED
    BY <1>4, <2>1, <2>2
<1>5. ASSUME NEW B \in Prefixes(N), form' = "lines", lines' = Written(B), ended' = (ended \/ B # <<>>)
      PROVE  FileOK(lines', ended', acknowledged, checkpoints, delivered) /\ ended' \in BOOLEAN
  <2>1. Len(N) = n
    BY <1>2 DEF NewBatch
  <2>2. PICK m \in 0..n : B = SubSeq(LinesOf(N), 1, m)
    BY <2>1 DEF Prefixes
  <2>3. Batch(B, N, m) /\ Clean(B)
    BY <1>2, <2>2, PrefixBatch
  <2>4. PICK d \in BOOLEAN : d = ended'
    BY <1>5
  <2>5. B = <<>> => d = ended
    BY <1>5, <2>4 DEF FileInv
  <2>6. B # <<>> => Parses(B[Len(B)])
    <3> SUFFICES ASSUME B # <<>> PROVE Parses(B[Len(B)])
      OBVIOUS
    <3>1. Len(B) \in Nat /\ Len(B) > 0
      BY <2>3, EmptySeq DEF Batch
    <3>2. Len(B) \in 1..Len(B)
      BY <3>1
    <3> QED
      BY <2>3, <3>2 DEF Clean
  <2>7. Ends(ended, B, d)
    BY <2>5, <2>6 DEF Ends
  <2>8. PICK M : M = lines'
    OBVIOUS
  <2>9. M = Written(B) /\ Batch(B, NewEvents(id, n), m)
    BY <1>1, <1>5, <2>3, <2>8
  <2>10. FileOK(M, d, acknowledged, checkpoints, delivered)
    BY <2>7, <2>9, FileAfterWrite
  <2> QED
    BY <2>4, <2>8, <2>10
<1>6. ASSUME NEW B \in CutLines(N), form' = "lines", lines' = Written(B), ended' = FALSE
      PROVE  FileOK(lines', ended', acknowledged, checkpoints, delivered) /\ ended' \in BOOLEAN
  <2>1. DOMAIN N = 1..n
    BY <1>2 DEF NewBatch
  <2>2. PICK m \in 1..n : \E p \in {Whole(N[m]), Torn(N[m])} :
                             B = SubSeq(LinesOf(N), 1, m - 1) \o <<<<p>>>>
    BY <2>1 DEF CutLines
  <2>3. Batch(B, N, m)
    BY <1>2, <2>2, CutBatch
  <2>4. B # <<>>
    <3>1. Len(B) = m /\ m # 0
      BY <2>3 DEF Batch
    <3>2. ASSUME B = <<>>
          PROVE  Len(B) = 0
      BY <3>2, EmptySeq
    <3> QED
      BY <3>1, <3>2
  <2>5. PICK d : d = FALSE
    OBVIOUS
  <2>6. Ends(ended, B, d)
    BY <2>4, <2>5 DEF Ends
  <2>7. PICK M : M = lines'
    OBVIOUS
  <2>8. m \in 0..n /\ M = Written(B) /\ Batch(B, NewEvents(id, n), m)
    BY <1>1, <1>6, <2>3, <2>7
  <2>9. FileOK(M, d, acknowledged, checkpoints, delivered)
    BY <2>6, <2>8, FileAfterWrite
  <2> QED
    BY <1>6, <2>5, <2>7, <2>9
<1>7. CASE RewriteInterrupted(id, n)
  BY <1>3, <1>4, <1>7 DEF RewriteInterrupted
<1>8. CASE AppendInterrupted(id, n)
  <2>1. form' = "lines"
    BY <1>8 DEF AppendInterrupted
  <2>2. \/ \E B \in Prefixes(N) : lines' = Written(B) /\ ended' = (ended \/ B # <<>>)
        \/ \E B \in CutLines(N) : lines' = Written(B) /\ ended' = FALSE
    BY <1>1, <1>8 DEF AppendInterrupted
  <2> QED
    BY <1>5, <1>6, <2>1, <2>2
<1> QED
  BY <1>7, <1>8

LEMMA FailedAppendStep ==
    ASSUME FileInv, NEW id \in Ids, NEW expected, NEW n \in Nat, FailedAppend(id, expected, n)
    PROVE  FileInv'
<1>1. /\ Readable /\ n > 0
      /\ RewriteInterrupted(id, n) \/ AppendInterrupted(id, n)
      /\ next_event' = next_event + n
      /\ acknowledged' = acknowledged /\ checkpoints' = checkpoints /\ delivered' = delivered
  BY DEF FailedAppend, CanAppend, projection
<1>2. /\ FileOK(lines', ended', acknowledged, checkpoints, delivered)
      /\ ended' \in BOOLEAN
      /\ form' # "lines" => ended' = TRUE
  BY <1>1, InterruptedFile
<1>3. FileOK(lines', ended', acknowledged', checkpoints', delivered')
  BY <1>1, <1>2
<1>4. next_event' \in Nat
  BY <1>1 DEF FileInv
<1> QED
  BY <1>1, <1>2, <1>3, <1>4 DEF FileInv

-------------------------------------------------------------------------------
(* P is the page a poll reads of the events S after c. *)
IsPage(P, S, type, c, limit) ==
    LET after == {e \in S : TypeOf[e.id] = type /\ e.sequence > c}
    IN  P = {e \in after : Cardinality({d \in after : d.sequence <= e.sequence}) <= limit}

(* P skips no event of its type after c. *)
Closed(P, S, type, c) ==
    /\ P \in SUBSET S
    /\ \A e \in S, p \in P :
          TypeOf[e.id] = type /\ e.sequence > c /\ e.sequence <= p.sequence => e \in P

LEMMA PageIsClosed ==
    ASSUME NEW S \in SUBSET Envelopes, IsFiniteSet(S), NEW type, NEW c \in Nat, NEW limit \in Nat,
           NEW P, IsPage(P, S, type, c, limit)
    PROVE  Closed(P, S, type, c)
<1>0. PICK after : /\ after = {e \in S : TypeOf[e.id] = type /\ e.sequence > c}
                   /\ P = {e \in after : Cardinality({d \in after : d.sequence <= e.sequence}) <= limit}
  BY DEF IsPage
<1>1. after \in SUBSET S /\ IsFiniteSet(after)
  <2>1. after \in SUBSET S
    BY <1>0
  <2> QED
    BY <2>1, FS_Subset
<1> DEFINE Upto(e) == {d \in after : d.sequence <= e.sequence}
<1>2. P \in SUBSET after
  BY <1>0
<1>3. ASSUME NEW e \in S, NEW p \in P, TypeOf[e.id] = type, e.sequence > c, e.sequence <= p.sequence
      PROVE  e \in P
  <2>1. e \in after
    BY <1>0, <1>3
  <2>2. Upto(e) \in SUBSET Upto(p)
    <3> SUFFICES ASSUME NEW d \in after, d.sequence <= e.sequence
                 PROVE  d.sequence <= p.sequence
      OBVIOUS
    <3>1. d \in Envelopes /\ e \in Envelopes /\ p \in Envelopes
      BY <1>1, <1>2
    <3>2. PICK x, y, z \in Nat : x = d.sequence /\ y = e.sequence /\ z = p.sequence
      BY <3>1 DEF Envelopes
    <3>3. x <= y /\ y <= z
      BY <1>3, <3>2
    <3>4. x <= z
      BY <3>2, <3>3
    <3> QED
      BY <3>2, <3>4
  <2>3. IsFiniteSet(Upto(p)) /\ IsFiniteSet(Upto(e))
    <3>1. Upto(p) \in SUBSET after /\ Upto(e) \in SUBSET after
      OBVIOUS
    <3> HIDE DEF Upto
    <3> QED
      BY <1>1, <3>1, FS_Subset
  <2>4. Cardinality(Upto(p)) <= limit
    BY <1>0
  <2>5. Cardinality(Upto(e)) <= limit
    <3> HIDE DEF Upto
    <3>1. Cardinality(Upto(e)) <= Cardinality(Upto(p))
      BY <2>2, <2>3, FS_Subset
    <3>2. Cardinality(Upto(e)) \in Nat /\ Cardinality(Upto(p)) \in Nat
      BY <2>3, FS_CardinalityType
    <3> QED
      BY <2>4, <3>1, <3>2
  <2> QED
    BY <1>0, <2>1, <2>5
<1> QED
  BY <1>1, <1>2, <1>3 DEF Closed

(* Only the checkpoint and the read model of one type change. *)
OnlyType(C, D, C2, D2, type) ==
    \A t \in Types : t # type => C2[t] = C[t] /\ D2[t] = D[t]

(* A batch of the projection: its events are delivered, and the checkpoint *)
(* stays or moves to one of them.                                          *)
LEMMA PollFile ==
    ASSUME NEW L, NEW c, NEW A, NEW C, NEW D, FileOK(L, c, A, C, D), C \in [Types -> Nat],
           NEW type \in Types, NEW P, Closed(P, Visible(L), type, C[type]),
           NEW C2, NEW D2, OnlyType(C, D, C2, D2, type),
           D2[type] = D[type] \cup P,
           C2[type] = C[type] \/ \E p \in P : C2[type] = p.sequence
    PROVE  FileOK(L, c, A, C2, D2)
<1>1. L \in Seq(Seq(Pieces))
  BY DEF FileOK, LinesOK
<1>2. ASSUME Delivered(L, C, D)
      PROVE  Delivered(L, C2, D2)
  <2> SUFFICES ASSUME NEW i \in Places(L),
                      EventAt(L, i).sequence <= C2[TypeOf[EventAt(L, i).id]]
               PROVE  EventAt(L, i) \in D2[TypeOf[EventAt(L, i).id]]
    BY DEF Delivered
  <2>1. PICK e \in Envelopes : e = EventAt(L, i)
    BY <1>1, PlacesTyped
  <2>2. PICK t \in Types : t = TypeOf[e.id]
    BY <2>1, JsonFileAssumption DEF Envelopes
  <2>3. e \in Visible(L)
    BY <2>1 DEF Visible
  <2>4. e.sequence <= C[t] => e \in D[t]
    BY <1>2, <2>1, <2>2 DEF Delivered
  <2>5. e.sequence <= C2[t]
    BY <2>1, <2>2
  <2>6. CASE t # type
    <3>1. C2[t] = C[t] /\ D2[t] = D[t]
      BY <2>6 DEF OnlyType
    <3> QED
      BY <2>1, <2>2, <2>4, <2>5, <3>1
  <2>7. CASE t = type /\ e.sequence <= C[t]
    BY <2>1, <2>2, <2>4, <2>7
  <2>8. CASE t = type /\ ~(e.sequence <= C[t])
    <3>1. PICK s, n \in Nat : s = e.sequence /\ n = C[t]
      BY <2>1 DEF Envelopes
    <3>2. s > n
      BY <2>8, <3>1
    <3>3. C2[type] # C[type]
      BY <2>5, <2>8
    <3>4. PICK p \in P : C2[type] = p.sequence
      BY <3>3
    <3>5. e \in P
      BY <2>2, <2>3, <2>5, <2>8, <3>1, <3>2, <3>4 DEF Closed
    <3> QED
      BY <2>1, <2>2, <2>8, <3>5
  <2> QED
    BY <2>6, <2>7, <2>8
<1>3. Reached(L, C2)
  <2> SUFFICES ASSUME Clean(L), NEW t \in Types
               PROVE  C2[t] = 0 \/ \E i \in Places(L) : C2[t] <= EventAt(L, i).sequence
    BY DEF Reached
  <2>1. C[t] = 0 \/ \E i \in Places(L) : C[t] <= EventAt(L, i).sequence
    BY DEF FileOK, Reached
  <2>2. CASE C2[t] = C[t]
    BY <2>1, <2>2
  <2>3. CASE C2[t] # C[t]
    <3>1. t = type
      BY <2>3 DEF OnlyType
    <3>2. PICK p \in P : C2[t] = p.sequence
      BY <2>3, <3>1
    <3>3. PICK i \in Places(L) : EventAt(L, i) = p
      BY <3>2 DEF Visible, Closed
    <3>4. EventAt(L, i).sequence \in Nat
      BY <1>1, PlacesTyped
    <3>5. C2[t] <= EventAt(L, i).sequence
      BY <3>2, <3>3, <3>4
    <3> QED
      BY <3>5
  <2> QED
    BY <2>2, <2>3
<1> QED
  BY <1>2, <1>3 DEF FileOK

(* A reset delivers everything again. *)
LEMMA ResetFile ==
    ASSUME NEW L, NEW c, NEW A, NEW C, NEW D, FileOK(L, c, A, C, D),
           NEW type \in Types, NEW C2, NEW D2, OnlyType(C, D, C2, D2, type), C2[type] = 0
    PROVE  FileOK(L, c, A, C2, D2)
<1>1. L \in Seq(Seq(Pieces))
  BY DEF FileOK, LinesOK
<1>2. ASSUME Delivered(L, C, D)
      PROVE  Delivered(L, C2, D2)
  <2> SUFFICES ASSUME NEW i \in Places(L),
                      EventAt(L, i).sequence <= C2[TypeOf[EventAt(L, i).id]]
               PROVE  EventAt(L, i) \in D2[TypeOf[EventAt(L, i).id]]
    BY DEF Delivered
  <2>1. PICK e \in Envelopes : e = EventAt(L, i)
    BY <1>1, PlacesTyped
  <2>2. PICK t \in Types : t = TypeOf[e.id]
    BY <2>1, JsonFileAssumption DEF Envelopes
  <2>3. PICK s \in Nat \ {0} : s = e.sequence
    BY <2>1 DEF Envelopes
  <2>4. t # type
    <3>1. SUFFICES ASSUME t = type PROVE FALSE
      OBVIOUS
    <3>2. s <= 0
      BY <2>1, <2>2, <2>3, <3>1
    <3> QED
      BY <3>2
  <2>5. C2[t] = C[t] /\ D2[t] = D[t]
    BY <2>4 DEF OnlyType
  <2> QED
    BY <1>2, <2>1, <2>2, <2>5 DEF Delivered
<1>3. Reached(L, C2)
  BY DEF FileOK, Reached, OnlyType
<1> QED
  BY <1>2, <1>3 DEF FileOK

LEMMA PollStep ==
    ASSUME FileInv, NEW type \in Types, NEW limit \in Nat, Poll(type, limit)
    PROVE  FileInv'
<1>1. PICK P : P = GlobalRange(type, checkpoints[type], limit)
  OBVIOUS
<1>2. /\ Readable /\ P # {}
      /\ delivered' = [delivered EXCEPT ![type] = @ \cup P]
      /\ checkpoints' = Saved(type, Max({e.sequence : e \in P})) \/ UNCHANGED checkpoints
      /\ UNCHANGED <<file, next_event, acknowledged>>
  BY <1>1 DEF Poll
<1>3. lines \in Seq(Seq(Pieces)) /\ Good(lines) /\ checkpoints \in [Types -> Nat] /\ DOMAIN delivered = Types
  BY <1>2 DEF FileInv, FileOK, LinesOK, Readable, Good
<1>4. PICK S : S = Visible(lines)
  OBVIOUS
<1>5. S \in SUBSET Envelopes /\ IsFiniteSet(S) /\ Stored = S
  BY <1>3, <1>4, VisibleFinite, StoredIs
<1>6. PICK n \in Nat : n = checkpoints[type]
  BY <1>3
<1>7. IsPage(P, S, type, n, limit)
  BY <1>1, <1>5, <1>6 DEF GlobalRange, IsPage
<1>8. Closed(P, S, type, n)
  BY <1>5, <1>7, PageIsClosed
<1>9. P \in SUBSET S
  BY <1>8 DEF Closed
<1>10. PICK m \in Nat : m = Max({e.sequence : e \in P}) /\ \E p \in P : m = p.sequence
  <2>1. P \in SUBSET Envelopes /\ IsFiniteSet(P)
    BY <1>5, <1>9, FS_Subset
  <2>2. PICK Q : Q = {e.sequence : e \in P}
    OBVIOUS
  <2>3. IsFiniteSet(Q) /\ Q \in SUBSET Nat
    BY <2>1, <2>2, NumbersFinite
  <2>4. Q # {}
    BY <1>2, <2>2
  <2>5. Max(Q) \in Q
    BY <2>3, <2>4, MaxIs
  <2> QED
    BY <2>2, <2>3, <2>5
<1>11. PICK C, D, C2, D2 :
          C = checkpoints /\ D = delivered /\ C2 = checkpoints' /\ D2 = delivered'
  OBVIOUS
<1>12. /\ C2 \in [Types -> Nat] /\ (\A t \in Types : t # type => C2[t] = C[t])
       /\ C2[type] = C[type] \/ \E p \in P : C2[type] = p.sequence
  <2>1. CASE UNCHANGED checkpoints
    BY <1>3, <1>11, <2>1
  <2>2. CASE checkpoints' = Saved(type, Max({e.sequence : e \in P}))
    <3>1. PICK k \in Nat : k = Max({n, m}) /\ (k = n \/ k = m)
      <4>1. Max({n, m}) = IF n <= m THEN m ELSE n
        BY MaxOfTwo
      <4> QED
        BY <4>1
    <3>2. C2 = [C EXCEPT ![type] = k]
      BY <1>6, <1>10, <1>11, <2>2, <3>1 DEF Saved
    <3>3. C \in [Types -> Nat] /\ C[type] = n
      BY <1>3, <1>6, <1>11
    <3>4. C2 \in [Types -> Nat] /\ C2[type] = k /\ \A t \in Types : t # type => C2[t] = C[t]
      BY <3>2, <3>3
    <3> QED
      BY <1>10, <3>1, <3>3, <3>4
  <2> QED
    BY <1>2, <2>1, <2>2
<1>13. /\ DOMAIN D2 = Types /\ D2[type] = D[type] \cup P
       /\ \A t \in Types : t # type => D2[t] = D[t]
  <2>1. DOMAIN D = Types /\ D2 = [D EXCEPT ![type] = @ \cup P]
    BY <1>2, <1>3, <1>11
  <2> QED
    BY <2>1
<1>14. OnlyType(C, D, C2, D2, type)
  BY <1>12, <1>13 DEF OnlyType
<1>15. PICK L, c, A : L = lines /\ c = ended /\ A = acknowledged
  OBVIOUS
<1>16. FileOK(L, c, A, C, D) /\ C \in [Types -> Nat]
  BY <1>11, <1>15 DEF FileInv
<1>17. Closed(P, Visible(L), type, C[type])
  BY <1>4, <1>6, <1>8, <1>11, <1>15
<1>18. FileOK(L, c, A, C2, D2)
  BY <1>12, <1>13, <1>14, <1>16, <1>17, PollFile
<1>19. /\ form' = form /\ lines' = lines /\ ended' = ended
       /\ next_event' = next_event /\ acknowledged' = acknowledged
  BY <1>2 DEF file
<1>20. FileOK(lines', ended', acknowledged', checkpoints', delivered')
  BY <1>11, <1>15, <1>18, <1>19
<1>21. checkpoints' \in [Types -> Nat] /\ DOMAIN delivered' = Types
  BY <1>11, <1>12, <1>13
<1> QED
  BY <1>19, <1>20, <1>21 DEF FileInv

LEMMA ResetStep ==
    ASSUME FileInv, NEW type \in Types, Reset(type)
    PROVE  FileInv'
<1>1. /\ checkpoints' = [checkpoints EXCEPT ![type] = 0]
      /\ delivered' = [delivered EXCEPT ![type] = {}]
      /\ form' = form /\ lines' = lines /\ ended' = ended
      /\ next_event' = next_event /\ acknowledged' = acknowledged
  BY DEF Reset, file
<1>2. checkpoints \in [Types -> Nat] /\ DOMAIN delivered = Types
  BY DEF FileInv
<1>3. PICK C, D, C2, D2 :
         C = checkpoints /\ D = delivered /\ C2 = checkpoints' /\ D2 = delivered'
  OBVIOUS
<1>4. C2 \in [Types -> Nat] /\ C2[type] = 0 /\ DOMAIN D2 = Types
  BY <1>1, <1>2, <1>3
<1>5. OnlyType(C, D, C2, D2, type)
  <2>1. C \in [Types -> Nat] /\ DOMAIN D = Types
    BY <1>2, <1>3
  <2>2. C2 = [C EXCEPT ![type] = 0] /\ D2 = [D EXCEPT ![type] = {}]
    BY <1>1, <1>3
  <2>3. \A t \in Types : t # type => C2[t] = C[t]
    BY <2>1, <2>2
  <2>4. \A t \in Types : t # type => D2[t] = D[t]
    BY <2>1, <2>2
  <2> QED
    BY <2>3, <2>4 DEF OnlyType
<1>6. PICK L, c, A : L = lines /\ c = ended /\ A = acknowledged
  OBVIOUS
<1>7. FileOK(L, c, A, C, D)
  BY <1>3, <1>6 DEF FileInv
<1>8. FileOK(L, c, A, C2, D2)
  BY <1>4, <1>5, <1>7, ResetFile
<1>9. FileOK(lines', ended', acknowledged', checkpoints', delivered')
  BY <1>1, <1>3, <1>6, <1>8
<1> QED
  BY <1>1, <1>3, <1>4, <1>9 DEF FileInv

LEMMA FileNext == FileInv /\ [Next]_vars => FileInv'
<1> SUFFICES ASSUME FileInv, [Next]_vars PROVE FileInv'
  OBVIOUS
<1>1. ASSUME NEW id \in Ids, NEW expected \in ExpectedRevisions, NEW n \in 1..MaxBatch,
             AppendEvents(id, expected, n)
      PROVE  FileInv'
  <2>1. n \in Nat
    BY JsonFileAssumption
  <2> QED
    BY <1>1, <2>1, AppendEventsStep
<1>2. ASSUME NEW id \in Ids, NEW expected \in ExpectedRevisions, NEW n \in 1..MaxBatch,
             FailedAppend(id, expected, n)
      PROVE  FileInv'
  <2>1. n \in Nat
    BY JsonFileAssumption
  <2> QED
    BY <1>2, <2>1, FailedAppendStep
<1>3. ASSUME NEW type \in Types, NEW limit \in 1..MaxBatch, Poll(type, limit)
      PROVE  FileInv'
  <2>1. limit \in Nat
    BY JsonFileAssumption
  <2> QED
    BY <1>3, <2>1, PollStep
<1>4. ASSUME NEW type \in Types, Reset(type)
      PROVE  FileInv'
  BY <1>4, ResetStep
<1>5. CASE UNCHANGED vars
  BY <1>5 DEF vars, file, projection, FileInv
<1> QED
  BY <1>1, <1>2, <1>3, <1>4, <1>5 DEF Next

LEMMA FileInvariant == Spec => []FileInv
BY FileInit, FileNext, PTL DEF Spec

-------------------------------------------------------------------------------
(* No byte of an acknowledged event leaves the file: append only adds to   *)
(* it, and the rewrite of a legacy file carries all of it over before the  *)
(* rename (write_atomic).                                                  *)
THEOREM AcknowledgedBytesStay == Spec => []AcknowledgedBytesRemain
<1>1. ASSUME FileInv
      PROVE  AcknowledgedBytesRemain
  <2> SUFFICES ASSUME NEW e \in acknowledged
               PROVE  \E i \in DOMAIN lines : \E j \in DOMAIN lines[i] : lines[i][j] = Whole(e)
    BY DEF AcknowledgedBytesRemain
  <2>1. lines \in Seq(Seq(Pieces)) /\ Holds(lines, Whole(e))
    BY <1>1 DEF FileInv, FileOK, LinesOK, Kept
  <2>2. PICK i \in 1..Len(lines) : \E j \in 1..Len(lines[i]) : lines[i][j] = Whole(e)
    BY <2>1 DEF Holds
  <2>3. lines[i] \in Seq(Pieces)
    BY <2>1, ElementOfSeq
  <2>4. DOMAIN lines = 1..Len(lines) /\ DOMAIN lines[i] = 1..Len(lines[i])
    BY <2>1, <2>3, LenProperties
  <2> QED
    BY <2>2, <2>4
<1> QED
  BY <1>1, FileInvariant, PTL

(* While no append has started behind an unfinished line, every            *)
(* acknowledged event can be loaded: parse_json_lines tolerates the one    *)
(* line that an interruption may have left torn.                           *)
THEOREM InterruptionIsTolerated == Spec => []OneInterruptionIsHarmless
<1>1. ASSUME FileInv
      PROVE  OneInterruptionIsHarmless
  <2> SUFFICES ASSUME \A i \in DOMAIN lines : Len(lines[i]) = 1
               PROVE  Readable /\ acknowledged \subseteq Stored
    BY DEF OneInterruptionIsHarmless
  <2>1. lines \in Seq(Seq(Pieces)) /\ TornLast(lines, ended) /\ Kept(lines, acknowledged)
    BY <1>1 DEF FileInv, FileOK, LinesOK
  <2>2. PICK n \in Nat : n = Len(lines) /\ DOMAIN lines = 1..n
    BY <2>1, LenProperties
  <2>3. Good(lines)
    <3> SUFFICES ASSUME NEW i \in 1..(n - 1) PROVE Parses(lines[i])
      BY <2>2 DEF Good
    <3>1. i \in 1..n /\ i # n
      OBVIOUS
    <3>2. Len(lines[i]) = 1
      BY <2>2, <3>1
    <3> QED
      BY <2>1, <2>2, <3>1, <3>2 DEF TornLast
  <2>4. ASSUME NEW e \in acknowledged
        PROVE  e \in Visible(lines)
    <3>1. PICK i \in 1..n : \E j \in 1..Len(lines[i]) : lines[i][j] = Whole(e)
      BY <2>1, <2>2 DEF Kept, Holds
    <3>2. Len(lines[i]) = 1
      BY <2>2
    <3>3. lines[i][1] = Whole(e)
      <4>1. \A j \in 1..Len(lines[i]) : j = 1
        BY <3>2
      <4> QED
        BY <3>1, <4>1
    <3>4. lines[i][1].whole = TRUE /\ lines[i][1].event = e
      BY <3>3 DEF Whole
    <3>5. i \in Places(lines)
      BY <2>2, <3>2, <3>4 DEF Places, Parses
    <3> QED
      BY <3>4, <3>5 DEF Visible, EventAt
  <2>5. Stored = Visible(lines)
    BY <2>1, <2>3, StoredIs
  <2>6. Readable
    BY <2>3 DEF Good, Readable
  <2> QED
    BY <2>4, <2>5, <2>6
<1> QED
  BY <1>1, FileInvariant, PTL

(* Every event at or before the checkpoint of its type was delivered:      *)
(* append numbers an event beyond all the file holds, load_global_range    *)
(* skips none, and save_checkpoint never goes beyond what was read.        *)
THEOREM FileFeedHasNoGaps == Spec => []NothingBehindTheCheckpoint
<1>1. ASSUME FileInv
      PROVE  NothingBehindTheCheckpoint
  <2> SUFFICES ASSUME Readable, NEW type \in Types, NEW e \in Stored,
                      TypeOf[e.id] = type, e.sequence <= checkpoints[type]
               PROVE  e \in delivered[type]
    BY DEF NothingBehindTheCheckpoint
  <2>1. lines \in Seq(Seq(Pieces)) /\ Good(lines)
    BY <1>1 DEF FileInv, FileOK, LinesOK, Readable, Good
  <2>2. Delivered(lines, checkpoints, delivered)
    BY <1>1, <2>1 DEF FileInv, FileOK
  <2>3. Stored = Visible(lines)
    BY <2>1, StoredIs
  <2>4. PICK i \in Places(lines) : EventAt(lines, i) = e
    BY <2>3 DEF Visible
  <2> QED
    BY <2>2, <2>4 DEF Delivered
<1> QED
  BY <1>1, FileInvariant, PTL

-------------------------------------------------------------------------------
(* The revisions of a stream that is numbered without a gap count it. *)
LEMMA DenseStream ==
    ASSUME NEW S \in SUBSET Envelopes, IsFiniteSet(S),
           \A d, e \in S : d.revision = e.revision => d = e,
           \A e \in S : \A r \in 1..e.revision : \E d \in S : d.revision = r
    PROVE  {e.revision : e \in S} = 1..Cardinality(S)
<1>1. PICK R : R = {e.revision : e \in S}
  OBVIOUS
<1>2. IsFiniteSet(R) /\ R \in SUBSET Nat
  BY <1>1, NumbersFinite
<1>3. PICK m \in Nat : m = Highest(R)
  BY <1>2, HighestIs
<1>4. (m = 0 \/ m \in R) /\ \A k \in R : k <= m
  BY <1>2, <1>3, HighestIs
<1>5. \A e \in S : e.revision \in Nat \ {0}
  BY DEF Envelopes
<1>6. ASSUME NEW r \in 1..m
      PROVE  r \in R
  <2>1. m \in R
    BY <1>4
  <2>2. PICK e \in S : e.revision = m
    BY <1>1, <2>1
  <2>3. r \in 1..e.revision
    BY <2>2
  <2>4. PICK d \in S : d.revision = r
    BY <2>3
  <2> QED
    BY <1>1, <2>4
<1>7. ASSUME NEW r \in R
      PROVE  r \in 1..m
  <2>1. r \in Nat \ {0} /\ r <= m
    BY <1>1, <1>4, <1>5
  <2> QED
    BY <2>1
<1>8. R = 1..m
  BY <1>6, <1>7
<1>9. PICK f : f = [e \in S |-> e.revision]
  OBVIOUS
<1>10. f \in Bijection(S, R)
  <2>1. f \in [S -> R] /\ \A e \in S : f[e] = e.revision
    BY <1>1, <1>9
  <2>2. \A r \in R : \E e \in S : f[e] = r
    BY <1>1, <2>1
  <2>3. \A d, e \in S : f[d] = f[e] => d = e
    BY <2>1
  <2> QED
    BY <2>1, <2>2, <2>3 DEF Bijection, Injection, Surjection, IsInjective
<1>11. Cardinality(R) = Cardinality(S)
  BY <1>10, FS_Bijection DEF ExistsBijection
<1>12. Cardinality(R) = m
  <2>1. Cardinality(1..m) = m
    BY FS_Interval
  <2> QED
    BY <1>8, <2>1
<1> QED
  BY <1>1, <1>8, <1>11, <1>12

(* Whatever was interrupted before, the streams that can be read are dense *)
(* and no position is given twice: append numbers its events from a scan   *)
(* of all that can be read, and one that starts behind an unfinished line  *)
(* hides at most the last event of a stream.                               *)
THEOREM FileStreamsAreDense == Spec => []ReadableStreamsAreDense
<1>1. ASSUME FileInv
      PROVE  ReadableStreamsAreDense
  <2> SUFFICES ASSUME Readable
               PROVE  /\ \A id \in Ids : {e.revision : e \in Stream(id)} = 1..Cardinality(Stream(id))
                      /\ \A d, e \in Stored : d.sequence = e.sequence => d = e
                      /\ Cardinality(Stored) = Len(Values)
    BY DEF ReadableStreamsAreDense
  <2>1. lines \in Seq(Seq(Pieces)) /\ Good(lines)
    BY <1>1 DEF FileInv, FileOK, LinesOK, Readable, Good
  <2>2. UniquePositions(lines) /\ UniqueRevisions(lines) /\ NoRevisionMissing(lines)
    BY <1>1, <2>1 DEF FileInv, FileOK, Numbered
  <2>3. PICK L, S : L = lines /\ S = Visible(lines)
    OBVIOUS
  <2>4. Stored = S /\ Len(Values) = Returned(L)
    BY <2>1, <2>3, StoredIs
  <2>5. IsFiniteSet(S) /\ S \in SUBSET Envelopes
    BY <2>1, <2>3, VisibleFinite
  <2>6. \A i \in Places(L) : EventAt(L, i) \in S
    BY <2>3 DEF Visible
  <2>7. \A e \in S : \E i \in Places(L) : EventAt(L, i) = e
    BY <2>3 DEF Visible
  <2>8. \A d, e \in S : d.sequence = e.sequence => d = e
    BY <2>2, <2>3, <2>7 DEF UniquePositions
  <2>9. ASSUME NEW id \in Ids
        PROVE  {e.revision : e \in Stream(id)} = 1..Cardinality(Stream(id))
    <3>1. PICK T : T = {e \in S : e.id = id}
      OBVIOUS
    <3>2. Stream(id) = T
      BY <2>4, <3>1 DEF Stream
    <3>3. T \in SUBSET S /\ IsFiniteSet(T) /\ T \in SUBSET Envelopes
      <4>1. T \in SUBSET S
        BY <3>1
      <4> QED
        BY <2>5, <4>1, FS_Subset
    <3>4. \A d, e \in T : d.revision = e.revision => d = e
      BY <2>2, <2>3, <2>7, <3>1 DEF UniqueRevisions
    <3>5. ASSUME NEW e \in T, NEW r \in 1..e.revision
          PROVE  \E d \in T : d.revision = r
      <4>1. PICK i \in Places(L) : EventAt(L, i) = e
        BY <2>7, <3>3
      <4>2. HasRevision(L, id, r)
        BY <2>2, <2>3, <3>1, <4>1 DEF NoRevisionMissing
      <4>3. PICK j \in Places(L) : EventAt(L, j).id = id /\ EventAt(L, j).revision = r
        BY <4>2 DEF HasRevision
      <4>4. EventAt(L, j) \in T
        BY <2>6, <3>1, <4>3
      <4> QED
        BY <4>3, <4>4
    <3>6. {e.revision : e \in T} = 1..Cardinality(T)
      BY <3>3, <3>4, <3>5, DenseStream
    <3> QED
      BY <3>2, <3>6
  <2>10. Cardinality(S) = Returned(L)
    <3>1. PICK n \in Nat : n = Returned(L) /\ Places(L) = 1..n
      BY <2>1, <2>3, ReturnedPlaces
    <3>2. PICK f : f = [i \in 1..n |-> EventAt(L, i)]
      OBVIOUS
    <3>3. f \in [1..n -> S] /\ \A i \in 1..n : f[i] = EventAt(L, i)
      BY <2>6, <3>1, <3>2
    <3>4. \A e \in S : \E i \in 1..n : f[i] = e
      BY <2>7, <3>1, <3>3
    <3>5. \A i, j \in 1..n : f[i] = f[j] => i = j
      BY <2>2, <2>3, <3>1, <3>3 DEF UniquePositions
    <3>6. f \in Bijection(1..n, S)
      BY <3>3, <3>4, <3>5 DEF Bijection, Injection, Surjection, IsInjective
    <3>7. IsFiniteSet(1..n) /\ Cardinality(1..n) = n
      BY FS_Interval
    <3>8. Cardinality(S) = Cardinality(1..n)
      BY <3>6, <3>7, FS_Bijection DEF ExistsBijection
    <3> QED
      BY <3>1, <3>7, <3>8
  <2> QED
    BY <2>4, <2>8, <2>9, <2>10
<1> QED
  BY <1>1, FileInvariant, PTL
===============================================================================
