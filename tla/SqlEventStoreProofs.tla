-------------------------- MODULE SqlEventStoreProofs --------------------------
(***************************************************************************)
(* The SQL stores under concurrent transactions, for every dialect, any    *)
(* number of writers, aggregates and keys, any decision function, any      *)
(* schedule of lost connections and crashes, and any number of retries.    *)
(***************************************************************************)
EXTENDS SqlEventStore, FiniteSetTheorems, SequenceTheorems, TLAPS

Row == [event : Nat, id : Ids, encoding : {"current", "legacy"}, revision : Nat,
        sequence : Nat, key : Keys \cup {NoKey}]

Expected == [kind : {"any", "exact"}, revision : Nat]

Call == [pc : {"idle", "lookup", "load", "begin", "reserve", "revision", "insert", "commit", "done"},
         path : {"none", "execute", "append_any", "idempotent"},
         key : Keys \cup {NoKey}, id : Ids \cup {"none"}, event : Nat, expected : Expected,
         seen : Nat, actual : Nat, inserted : SUBSET Row, attempt : Nat, polls : Nat,
         answer : {"none", "ok", "domain_error", "concurrency_error", "store_error", "timeout"},
         value : SUBSET Row]

Open == {"reserve", "revision", "insert", "commit"}
Holding == {"revision", "insert", "commit"}

-------------------------------------------------------------------------------
(* The invariant, on a given deployment s, events table E, idempotency     *)
(* table I, next sequence ns, next event ne and call c (or calls c and d). *)
Rows(E, id) == {row \in E : row.id = id}
RowsAs(E, id, encoding) == {row \in Rows(E, id) : row.encoding = encoding}
Size(E, id) == Cardinality(Rows(E, id))
Revisions(rows) == {row.revision : row \in rows}

(* The first revision of a stream under the current encoding. *)
First(s, id) == IF id \in s.legacy THEN 2 ELSE 1

StreamOK(s, E, id) ==
    /\ Size(E, id) >= First(s, id) - 1
    /\ Revisions(Rows(E, id)) = 1..Size(E, id)
    /\ Revisions(RowsAs(E, id, "current")) = First(s, id)..Size(E, id)
    /\ Revisions(RowsAs(E, id, "legacy")) = 1..(First(s, id) - 1)

UniqueRows(E) == \A r, t \in E : (r.event = t.event \/ r.sequence = t.sequence) => r = t

SequencesOK(s, E, ns) ==
    IF s.dialect = "sqlite" THEN {row.sequence : row \in E} = 1..Cardinality(E)
    ELSE \A row \in E : row.sequence < ns

KeyOK(E, I, k) ==
    /\ I[k] = {row \in E : row.key = k}
    /\ \A r, t \in I[k] : r = t

DbOK(s, E, I, ns, ne) ==
    /\ E \in SUBSET Row /\ IsFiniteSet(E)
    /\ \A id \in Ids : StreamOK(s, E, id)
    /\ UniqueRows(E)
    /\ \A row \in E : row.event < ne
    /\ SequencesOK(s, E, ns)
    /\ \A k \in Keys : KeyOK(E, I, k)

(* A row that is inserted and not yet committed continues its stream. *)
InsertedOK(s, E, ns, c) ==
    \E row \in c.inserted :
       /\ c.inserted = {row}
       /\ row.event = c.event /\ row.id = c.id /\ row.key = c.key
       /\ row.encoding = "current"
       /\ row.revision = Size(E, c.id) + 1
       /\ \A r \in E : r.event # c.event
       /\ IF s.dialect = "sqlite" THEN row.sequence = Cardinality(E) + 1
          ELSE row.sequence < ns /\ \A r \in E : r.sequence # row.sequence

AnswerOK(E, I, c) ==
    c.answer = "ok" =>
       /\ c.value # {} /\ c.value \subseteq E
       /\ c.path = "idempotent" => c.value = I[c.key]

CallOK(s, E, I, ns, ne, c) ==
    /\ c.pc # "idle" => c.id \in Ids /\ c.event < ne /\ c.seen <= Size(E, c.id)
    /\ c.path = "idempotent" => c.key \in Keys
    /\ c.path # "idempotent" => c.key = NoKey
    /\ c.pc \in {"lookup", "reserve"} => c.path = "idempotent"
    /\ c.path = "idempotent" /\ c.pc \in Holding => I[c.key] = {}
    /\ c.path = "idempotent" /\ c.pc \in {"begin"} \cup Open =>
          c.expected.kind = "exact" /\ c.expected.revision >= First(s, c.id) - 1
    /\ c.pc \in {"insert", "commit"} =>
          c.actual >= First(s, c.id) - 1 /\ c.actual <= Size(E, c.id)
    /\ c.pc # "commit" => c.inserted = {}
    /\ c.pc = "commit" => InsertedOK(s, E, ns, c)
    /\ c.pc # "done" => c.answer = "none"
    /\ AnswerOK(E, I, c)

PairOK(s, c, d) ==
    /\ c.pc # "idle" /\ d.pc # "idle" => c.event # d.event
    /\ c.path = "idempotent" /\ c.pc \in Holding /\ d.path = "idempotent" /\ d.pc \in Holding =>
          c.key # d.key
    /\ c.pc = "commit" /\ d.pc = "commit" =>
          /\ c.id # d.id
          /\ \A r \in c.inserted, t \in d.inserted : r.sequence # t.sequence
    /\ s.dialect = "sqlite" => ~(c.pc \in Open /\ d.pc \in Open)

FeedOK(s, E, last, seen) ==
    s.dialect = "sqlite" =>
       /\ last \in Nat /\ last <= Cardinality(E)
       /\ \A row \in E : row.sequence <= last => row.sequence \in seen

SqlInv ==
    /\ setup \in Setups
    /\ idempotency \in [Keys -> SUBSET Row]
    /\ next_sequence \in Nat /\ next_event \in Nat
    /\ call \in [Writers -> Call]
    /\ DbOK(setup, events, idempotency, next_sequence, next_event)
    /\ \A w \in Writers : CallOK(setup, events, idempotency, next_sequence, next_event, call[w])
    /\ \A v, w \in Writers : v # w => PairOK(setup, call[v], call[w])
    /\ FeedOK(setup, events, checkpoint, delivered)

-------------------------------------------------------------------------------
(* The highest of 0 and an interval. *)
LEMMA MaxInterval ==
    ASSUME NEW m \in Nat, NEW n \in Nat
    PROVE  Max({0} \cup m..n) = IF m <= n THEN n ELSE 0
<1> DEFINE S == {0} \cup m..n
           top == IF m <= n THEN n ELSE 0
<1>1. top \in S /\ \A y \in S : top >= y
  OBVIOUS
<1>2. \A x \in S : (\A y \in S : x >= y) => x = top
  <2>1. ASSUME NEW x \in S, \A y \in S : x >= y
        PROVE  x = top
    <3>1. x \in Int /\ top \in Int /\ x >= top /\ top >= x
      BY <1>1, <2>1
    <3> HIDE DEF top
    <3> QED
      BY <3>1
  <2> QED
    BY <2>1
<1> HIDE DEF S, top
<1>3. Max(S) = top
  BY <1>1, <1>2 DEF Max
<1> QED
  BY <1>3 DEF S, top

(* What the SELECTs of MAX(revision) return on a table in order. *)
LEMMA MaxRevisions ==
    ASSUME SqlInv, NEW id \in Ids
    PROVE  /\ Size(events, id) \in Nat
           /\ First(setup, id) \in {1, 2}
           /\ Size(events, id) >= First(setup, id) - 1
           /\ MaxRevision(Stream(id)) = Size(events, id)
           /\ MaxRevision(Stored(id, "current")) \in 0..Size(events, id)
           /\ MaxRevision(Load(id)) \in Nat
           /\ MaxRevision(Load(id)) >= First(setup, id) - 1
           /\ MaxRevision(Load(id)) <= Size(events, id)
<1> DEFINE n == Size(events, id)
           f == First(setup, id)
<1>1. StreamOK(setup, events, id) /\ IsFiniteSet(events)
  BY DEF SqlInv, DbOK
<1>2. n \in Nat
  <2>1. Rows(events, id) \subseteq events
    BY DEF Rows
  <2> QED
    BY <1>1, <2>1, FS_Subset, FS_CardinalityType DEF Size
<1>3. f \in {1, 2}
  BY DEF First
<1>4. Stream(id) = Rows(events, id) /\ \A e : Stored(id, e) = RowsAs(events, id, e)
  BY DEF Stream, Stored, Rows, RowsAs
<1>5. n >= f - 1
  BY <1>1 DEF StreamOK
<1> HIDE DEF n, f
<1>6. /\ MaxRevision(Stream(id)) = Max({0} \cup 1..n)
      /\ MaxRevision(Stored(id, "current")) = Max({0} \cup f..n)
      /\ MaxRevision(Stored(id, "legacy")) = Max({0} \cup 1..(f - 1))
  BY <1>1, <1>4 DEF MaxRevision, Revisions, StreamOK, n, f
<1>7. /\ MaxRevision(Stream(id)) = n
      /\ MaxRevision(Stored(id, "current")) = IF f <= n THEN n ELSE 0
      /\ MaxRevision(Stored(id, "legacy")) = f - 1
  <2>1. f - 1 \in Nat /\ f \in Nat /\ 1 \in Nat
    BY <1>3
  <2>2. Max({0} \cup 1..n) = IF 1 <= n THEN n ELSE 0
    BY <1>2, <2>1, MaxInterval
  <2>3. Max({0} \cup f..n) = IF f <= n THEN n ELSE 0
    BY <1>2, <2>1, MaxInterval
  <2>4. Max({0} \cup 1..(f - 1)) = IF 1 <= f - 1 THEN f - 1 ELSE 0
    BY <2>1, MaxInterval
  <2> QED
    BY <1>2, <1>3, <1>6, <2>2, <2>3, <2>4
<1>8. /\ MaxRevision(Load(id)) \in Nat
      /\ MaxRevision(Load(id)) >= f - 1 /\ MaxRevision(Load(id)) <= n
  <2>1. CASE Stored(id, "current") # {}
    <3>1. f <= n
      <4>1. PICK row \in RowsAs(events, id, "current") : TRUE
        BY <1>4, <2>1
      <4>2. row.revision \in f..n
        BY <1>1, <4>1 DEF StreamOK, Revisions, f, n
      <4> QED
        BY <1>2, <1>3, <4>2
    <3> QED
      BY <1>2, <1>3, <1>7, <2>1, <3>1 DEF Load
  <2>2. CASE Stored(id, "current") = {}
    BY <1>2, <1>3, <1>5, <1>7, <2>2 DEF Load
  <2> QED
    BY <2>1, <2>2
<1>9. MaxRevision(Stored(id, "current")) \in 0..n
  BY <1>2, <1>3, <1>7
<1> QED
  BY <1>2, <1>3, <1>5, <1>7, <1>8, <1>9 DEF n, f

-------------------------------------------------------------------------------
LEMMA PairSymmetric ==
    ASSUME NEW s, NEW c, NEW d, PairOK(s, c, d)
    PROVE  PairOK(s, d, c)
BY DEF PairOK

(* A call that holds no more than before gets in nobody's way. *)
LEMMA PairNarrows ==
    ASSUME NEW s, NEW o, NEW c, NEW d, PairOK(s, o, d),
           o.pc # "idle", c.event = o.event, c.id = o.id, c.key = o.key, c.path = o.path,
           c.pc \in Open => o.pc \in Open,
           c.pc \in Holding => o.pc \in Holding,
           c.pc = "commit" => o.pc = "commit" /\ c.inserted = o.inserted
    PROVE  PairOK(s, c, d)
BY DEF PairOK

LEMMA PairIdle ==
    ASSUME NEW s, NEW c, NEW d, c.pc = "idle"
    PROVE  PairOK(s, c, d)
BY DEF PairOK, Open, Holding

(* More sequences and events handed out: nothing that held is lost. *)
LEMMA CountersAdvance ==
    ASSUME NEW s, NEW E \in SUBSET Row, NEW I, NEW c \in Call,
           NEW ns \in Nat, NEW ne \in Nat, NEW ns2 \in Nat, NEW ne2 \in Nat,
           ns <= ns2, ne <= ne2
    PROVE  /\ CallOK(s, E, I, ns, ne, c) => CallOK(s, E, I, ns2, ne2, c)
           /\ DbOK(s, E, I, ns, ne) => DbOK(s, E, I, ns2, ne2)
<1>1. c.event \in Nat /\ c.inserted \in SUBSET Row
  BY DEF Call
<1>2. \A row \in Row : row.event \in Nat /\ row.sequence \in Nat
  BY DEF Row
<1>3. InsertedOK(s, E, ns, c) => InsertedOK(s, E, ns2, c)
  BY <1>1, <1>2 DEF InsertedOK
<1>4. CallOK(s, E, I, ns, ne, c) => CallOK(s, E, I, ns2, ne2, c)
  BY <1>1, <1>3 DEF CallOK
<1>5. SequencesOK(s, E, ns) => SequencesOK(s, E, ns2)
  BY <1>2 DEF SequencesOK
<1>6. (\A row \in E : row.event < ne) => \A row \in E : row.event < ne2
  BY <1>2
<1>7. DbOK(s, E, I, ns, ne) => DbOK(s, E, I, ns2, ne2)
  BY <1>5, <1>6 DEF DbOK
<1> QED
  BY <1>4, <1>7

(* A step of one call that does not touch the tables. *)
LEMMA CallStep ==
    ASSUME SqlInv, NEW w \in Writers, NEW c \in Call,
           call' = [call EXCEPT ![w] = c],
           UNCHANGED <<setup, events, idempotency, checkpoint, delivered>>,
           next_sequence' \in Nat, next_sequence <= next_sequence',
           next_event' \in Nat, next_event <= next_event',
           CallOK(setup, events, idempotency, next_sequence', next_event', c),
           \A v \in Writers \ {w} : PairOK(setup, c, call[v])
    PROVE  SqlInv'
<1>0. /\ call \in [Writers -> Call] /\ next_sequence \in Nat /\ next_event \in Nat
      /\ setup \in Setups /\ idempotency \in [Keys -> SUBSET Row]
      /\ events \in SUBSET Row
      /\ FeedOK(setup, events, checkpoint, delivered)
      /\ DbOK(setup, events, idempotency, next_sequence, next_event)
      /\ \A v \in Writers : CallOK(setup, events, idempotency, next_sequence, next_event, call[v])
      /\ \A u, v \in Writers : u # v => PairOK(setup, call[u], call[v])
  BY DEF SqlInv, DbOK
<1>1. /\ call' \in [Writers -> Call] /\ call'[w] = c
      /\ \A v \in Writers \ {w} : call'[v] = call[v]
  BY <1>0
<1>2. DbOK(setup, events, idempotency, next_sequence', next_event')
  BY <1>0, CountersAdvance
<1>3. \A v \in Writers : CallOK(setup, events, idempotency, next_sequence', next_event', call'[v])
  <2>1. ASSUME NEW v \in Writers \ {w}
        PROVE  CallOK(setup, events, idempotency, next_sequence', next_event', call[v])
    <3>1. call[v] \in Call
      BY <1>0
    <3> QED
      BY <1>0, <3>1, CountersAdvance
  <2> QED
    BY <1>1, <2>1
<1>4. ASSUME NEW u \in Writers, NEW v \in Writers, u # v
      PROVE  PairOK(setup, call'[u], call'[v])
  <2>1. CASE u = w
    BY <1>1, <1>4, <2>1
  <2>2. CASE v = w
    <3>1. PairOK(setup, c, call[u])
      BY <1>4, <2>2
    <3> QED
      BY <1>1, <1>4, <2>2, <3>1, PairSymmetric
  <2>3. CASE u # w /\ v # w
    BY <1>0, <1>1, <1>4, <2>3
  <2> QED
    BY <2>1, <2>2, <2>3
<1> QED
  BY <1>0, <1>1, <1>2, <1>3, <1>4 DEF SqlInv

(* What a step that does not commit leaves alone. *)
Reads ==
    /\ UNCHANGED <<setup, events, idempotency, checkpoint, delivered>>
    /\ next_event' = next_event
    /\ next_sequence' \in Nat /\ next_sequence <= next_sequence'

(* A step of a call that gives up some of what it holds, or nothing. *)
LEMMA NarrowStep ==
    ASSUME SqlInv, NEW w \in Writers, NEW c \in Call, NEW o \in Call,
           call[w] = o, call' = [call EXCEPT ![w] = c], Reads,
           o.pc # "idle", c.event = o.event, c.id = o.id, c.key = o.key, c.path = o.path,
           c.pc \in Open => o.pc \in Open,
           c.pc \in Holding => o.pc \in Holding,
           c.pc # "commit",
           CallOK(setup, events, idempotency, next_sequence, next_event, c)
    PROVE  SqlInv'
<1>1. next_sequence \in Nat /\ next_event \in Nat /\ next_event' \in Nat /\ next_event <= next_event'
  BY DEF SqlInv, Reads
<1>2. CallOK(setup, events, idempotency, next_sequence', next_event', c)
  <2>1. events \in SUBSET Row /\ next_sequence' \in Nat /\ next_sequence <= next_sequence'
    BY DEF SqlInv, DbOK, Reads
  <2> QED
    BY <1>1, <2>1, CountersAdvance
<1>3. \A v \in Writers \ {w} : PairOK(setup, c, call[v])
  <2>1. \A v \in Writers \ {w} : PairOK(setup, o, call[v])
    BY DEF SqlInv
  <2> QED
    BY <2>1, PairNarrows
<1>4. /\ UNCHANGED <<setup, events, idempotency, checkpoint, delivered>>
      /\ next_sequence' \in Nat /\ next_sequence <= next_sequence'
  BY DEF Reads
<1> QED
  BY <1>1, <1>2, <1>3, <1>4, CallStep

(* The facts about one call, and about the tables it reads. *)
LEMMA OneCall ==
    ASSUME SqlInv, NEW w \in Writers
    PROVE  /\ call[w] \in Call
           /\ CallOK(setup, events, idempotency, next_sequence, next_event, call[w])
           /\ next_sequence \in Nat /\ next_event \in Nat
           /\ events \in SUBSET Row /\ IsFiniteSet(events)
           /\ idempotency \in [Keys -> SUBSET Row]
           /\ \A k \in Keys : KeyOK(events, idempotency, k)
BY DEF SqlInv, DbOK

LEMMA AnswerStep ==
    ASSUME SqlInv, NEW w \in Writers, call[w].pc # "idle", Reads,
           NEW a \in {"ok", "domain_error", "concurrency_error", "store_error", "timeout"},
           NEW v \in SUBSET Row, Answer(w, a, v),
           a = "ok" => /\ v # {} /\ v \subseteq events
                       /\ call[w].path = "idempotent" => v = idempotency[call[w].key]
    PROVE  SqlInv'
<1>1. call[w] \in Call /\ CallOK(setup, events, idempotency, next_sequence, next_event, call[w])
  BY OneCall
<1>2. PICK o \in Call : o = call[w]
  BY <1>1
<1> DEFINE c == [o EXCEPT !.pc = "done", !.inserted = {}, !.answer = a, !.value = v]
<1>3. /\ c \in Call
      /\ c.pc = "done" /\ c.inserted = {} /\ c.answer = a /\ c.value = v
      /\ c.event = o.event /\ c.id = o.id /\ c.key = o.key /\ c.path = o.path
      /\ c.seen = o.seen
  <2>1. c \in Call
    BY DEF Call
  <2>2. c.pc = "done" /\ c.inserted = {} /\ c.answer = a /\ c.value = v
    BY DEF Call
  <2>3. c.event = o.event /\ c.id = o.id /\ c.key = o.key /\ c.path = o.path /\ c.seen = o.seen
    BY DEF Call
  <2> QED
    BY <2>1, <2>2, <2>3
<1>4. call' = [call EXCEPT ![w] = c]
  BY <1>2 DEF Answer
<1> HIDE DEF c
<1>5. CallOK(setup, events, idempotency, next_sequence, next_event, o)
  BY <1>1, <1>2
<1>6. CallOK(setup, events, idempotency, next_sequence, next_event, c)
  <2>1. AnswerOK(events, idempotency, c)
    BY <1>2, <1>3 DEF AnswerOK
  <2> QED
    BY <1>2, <1>3, <1>5, <2>1 DEF CallOK, Holding, Open
<1>7. c.pc \notin Open /\ c.pc \notin Holding /\ c.pc # "commit"
  BY <1>3 DEF Open, Holding
<1> QED
  BY <1>2, <1>3, <1>4, <1>6, <1>7, NarrowStep

(* The closure of a write runs once more. *)
LEMMA AgainStep ==
    ASSUME SqlInv, NEW w \in Writers, call[w].pc \in {"begin"} \cup Open, Reads,
           NEW c \in Call, call' = [call EXCEPT ![w] = c],
           c.pc = "begin", c.inserted = {},
           c.event = call[w].event, c.id = call[w].id, c.key = call[w].key,
           c.path = call[w].path, c.seen = call[w].seen, c.expected = call[w].expected,
           c.answer = call[w].answer
    PROVE  SqlInv'
<1>1. call[w] \in Call /\ CallOK(setup, events, idempotency, next_sequence, next_event, call[w])
  BY OneCall
<1>2. PICK o \in Call : o = call[w]
  BY <1>1
<1>3. /\ CallOK(setup, events, idempotency, next_sequence, next_event, o)
      /\ o.pc \in {"begin"} \cup Open /\ o.pc # "idle" /\ o.pc # "done"
      /\ c.event = o.event /\ c.id = o.id /\ c.key = o.key /\ c.path = o.path
      /\ c.seen = o.seen /\ c.expected = o.expected /\ c.answer = o.answer
  BY <1>1, <1>2 DEF Open
<1>4. CallOK(setup, events, idempotency, next_sequence, next_event, c)
  <2>1. o.answer = "none"
    BY <1>3 DEF CallOK
  <2>2. AnswerOK(events, idempotency, c)
    BY <1>3, <2>1 DEF AnswerOK
  <2> QED
    BY <1>3, <2>1, <2>2 DEF CallOK, Holding, Open
<1>5. c.pc \notin Open /\ c.pc \notin Holding /\ c.pc # "commit"
  BY DEF Open, Holding
<1> QED
  BY <1>2, <1>3, <1>4, <1>5, NarrowStep

(* A conflict: the SQLite append tries again, everything else reports it. *)
LEMMA ConflictStep ==
    ASSUME SqlInv, NEW w \in Writers, call[w].pc \in {"begin", "revision", "insert"}, Reads,
           Conflict(w)
    PROVE  SqlInv'
<1>1. call[w] \in Call /\ CallOK(setup, events, idempotency, next_sequence, next_event, call[w])
  BY OneCall
<1>2. CASE Answer(w, "concurrency_error", {})
  <2>1. call[w].pc # "idle"
    OBVIOUS
  <2> QED
    BY <1>2, <2>1, AnswerStep
<1>3. CASE call' = [call EXCEPT ![w].attempt = @ + 1, ![w].pc = "begin"]
  <2>1. PICK o \in Call : o = call[w]
    BY <1>1
  <2>a. PICK n \in Nat : n = o.attempt + 1
    BY DEF Call
  <2> DEFINE c == [o EXCEPT !.attempt = n, !.pc = "begin"]
  <2>2. /\ c \in Call /\ c.pc = "begin" /\ c.inserted = o.inserted
        /\ c.event = o.event /\ c.id = o.id /\ c.key = o.key /\ c.path = o.path
        /\ c.seen = o.seen /\ c.expected = o.expected /\ c.answer = o.answer
    BY DEF Call
  <2>3. call' = [call EXCEPT ![w] = c]
    BY <1>3, <2>1, <2>a
  <2> HIDE DEF c
  <2>4. o.inserted = {} /\ o.pc \in {"begin"} \cup Open
    BY <1>1, <2>1 DEF CallOK, Open
  <2> QED
    BY <2>1, <2>2, <2>3, <2>4, AgainStep
<1> QED
  BY <1>2, <1>3 DEF Conflict

-------------------------------------------------------------------------------
(* One lemma per action. *)

(* A call that has just been made, for event e. *)
Fresh(e, c) ==
    /\ c.pc \in {"lookup", "load", "begin"} /\ c.id \in Ids /\ c.event = e
    /\ c.inserted = {} /\ c.answer = "none" /\ c.seen = 0
    /\ c.path = "idempotent" => c.key \in Keys /\ c.pc = "lookup"
    /\ c.path # "idempotent" => c.key = NoKey /\ c.pc # "lookup"

LEMMA InvokeInv == ASSUME SqlInv, NEW w \in Writers, Invoke(w) PROVE SqlInv'
<1>1. SqlAssumption /\ setup \in Setups /\ setup.ids \subseteq Ids
  BY SqlAssumption DEF SqlInv, SqlAssumption
<1>2. next_event \in Nat /\ next_sequence \in Nat /\ next_event' = next_event + 1
  BY DEF SqlInv, Invoke
<1>3. PICK e \in Nat : e = next_event
  BY <1>2
<1>4. Idle \in Call /\ Idle.answer = "none" /\ Idle.inserted = {} /\ Idle.seen = 0 /\ Idle.key = NoKey
  BY DEF Idle, Call, AnyRevision, Expected
<1>5. \E c \in Call : Fresh(e, c) /\ call' = [call EXCEPT ![w] = c]
  <2>1. ASSUME NEW k \in Keys, NEW polls \in 0..MaxPolls,
               call' = [call EXCEPT ![w] =
                   [Idle EXCEPT !.pc = "lookup", !.path = "idempotent", !.key = k,
                                !.id = Target[k], !.event = next_event, !.polls = polls]]
        PROVE  \E c \in Call : Fresh(e, c) /\ call' = [call EXCEPT ![w] = c]
    <3>1. Target[k] \in Ids /\ polls \in Nat
      BY <1>1 DEF SqlAssumption
    <3> DEFINE c == [Idle EXCEPT !.pc = "lookup", !.path = "idempotent", !.key = k,
                                 !.id = Target[k], !.event = e, !.polls = polls]
    <3>2. /\ c \in Call /\ c.pc = "lookup" /\ c.id = Target[k] /\ c.event = e /\ c.key = k
          /\ c.inserted = {} /\ c.answer = "none" /\ c.seen = 0 /\ c.path = "idempotent"
      BY <1>4, <3>1 DEF Call
    <3>3. call' = [call EXCEPT ![w] = c]
      BY <1>3, <2>1
    <3> HIDE DEF c
    <3> QED
      BY <3>1, <3>2, <3>3 DEF Fresh
  <2>2. ASSUME NEW id \in setup.ids, NEW pc \in {"load", "begin"}, NEW path \in {"execute", "append_any"},
               call' = [call EXCEPT ![w] =
                   [Idle EXCEPT !.pc = pc, !.path = path, !.id = id, !.event = next_event]]
        PROVE  \E c \in Call : Fresh(e, c) /\ call' = [call EXCEPT ![w] = c]
    <3>1. id \in Ids
      BY <1>1
    <3> DEFINE c == [Idle EXCEPT !.pc = pc, !.path = path, !.id = id, !.event = e]
    <3>2. /\ c \in Call /\ c.pc = pc /\ c.id = id /\ c.event = e /\ c.key = NoKey
          /\ c.inserted = {} /\ c.answer = "none" /\ c.seen = 0 /\ c.path = path
      BY <1>4, <3>1 DEF Call
    <3>3. call' = [call EXCEPT ![w] = c]
      BY <1>3, <2>2
    <3> HIDE DEF c
    <3> QED
      BY <3>1, <3>2, <3>3 DEF Fresh
  <2> QED
    BY <2>1, <2>2 DEF Invoke
<1>6. PICK c \in Call : Fresh(e, c) /\ call' = [call EXCEPT ![w] = c]
  BY <1>5
<1>7. CallOK(setup, events, idempotency, next_sequence', next_event', c)
  <2>1. Size(events, c.id) \in Nat
    BY <1>6, MaxRevisions DEF Fresh
  <2>2. next_sequence' = next_sequence
    BY DEF Invoke
  <2> QED
    BY <1>2, <1>3, <1>6, <2>1, <2>2 DEF Fresh, CallOK, AnswerOK, Holding, Open
<1>8. ASSUME NEW v \in Writers \ {w}
      PROVE  PairOK(setup, c, call[v])
  <2>1. call[v] \in Call /\ CallOK(setup, events, idempotency, next_sequence, next_event, call[v])
    BY OneCall
  <2>2. call[v].pc # "idle" => call[v].event # e
    <3>1. call[v].event \in Nat
      BY <2>1 DEF Call
    <3> QED
      BY <1>2, <1>3, <2>1, <3>1 DEF CallOK
  <2> QED
    BY <1>6, <2>2 DEF Fresh, PairOK, Holding, Open
<1>9. /\ UNCHANGED <<setup, events, idempotency, checkpoint, delivered>>
      /\ next_sequence' \in Nat /\ next_sequence <= next_sequence'
      /\ next_event' \in Nat /\ next_event <= next_event'
  <2>1. UNCHANGED <<setup, database, next_sequence, faults, reader>>
    BY Zenon DEF Invoke
  <2> QED
    BY <1>2, <2>1 DEF database, reader
<1>10. call' = [call EXCEPT ![w] = c] /\ \A v \in Writers \ {w} : PairOK(setup, c, call[v])
  BY <1>6, <1>8
<1> QED
  BY <1>7, <1>9, <1>10, CallStep

LEMMA KeyOfCall ==
    ASSUME SqlInv, NEW w \in Writers, call[w].path = "idempotent"
    PROVE  /\ call[w].key \in Keys
           /\ idempotency[call[w].key] \in SUBSET Row
           /\ idempotency[call[w].key] \subseteq events
<1>1. call[w].key \in Keys
  BY OneCall DEF CallOK
<1>2. KeyOK(events, idempotency, call[w].key) /\ idempotency \in [Keys -> SUBSET Row]
  BY <1>1, OneCall
<1> QED
  BY <1>1, <1>2 DEF KeyOK

(* The recorded result of a completed key is a correct answer. *)
LEMMA CompletedAnswer ==
    ASSUME SqlInv, NEW w \in Writers, call[w].path = "idempotent", call[w].pc # "idle", Reads,
           idempotency[call[w].key] # {}, Answer(w, "ok", idempotency[call[w].key])
    PROVE  SqlInv'
<1>1. PICK v \in SUBSET Row : v = idempotency[call[w].key]
  BY KeyOfCall
<1>2. Answer(w, "ok", v) /\ v # {} /\ v \subseteq events
  BY <1>1, KeyOfCall
<1> QED
  BY <1>1, <1>2, AnswerStep

LEMMA LoadIdempotentInv == ASSUME SqlInv, NEW w \in Writers, LoadIdempotent(w) PROVE SqlInv'
<1>1. call[w] \in Call /\ CallOK(setup, events, idempotency, next_sequence, next_event, call[w])
  BY OneCall
<1>2. call[w].pc = "lookup" /\ call[w].path = "idempotent" /\ Reads
  BY <1>1, OneCall DEF LoadIdempotent, Reads, database, reader, CallOK
<1>3. CASE idempotency[call[w].key] # {}
  <2>1. Answer(w, "ok", idempotency[call[w].key]) /\ call[w].pc # "idle"
    BY <1>2, <1>3 DEF LoadIdempotent
  <2> QED
    BY <1>2, <1>3, <2>1, CompletedAnswer
<1>4. CASE idempotency[call[w].key] = {}
  <2>1. PICK o \in Call : o = call[w]
    BY <1>1
  <2> DEFINE c == [o EXCEPT !.pc = "load"]
  <2>2. /\ c \in Call /\ c.pc = "load" /\ c.inserted = o.inserted
        /\ c.event = o.event /\ c.id = o.id /\ c.key = o.key /\ c.path = o.path
        /\ c.seen = o.seen /\ c.answer = o.answer
    BY DEF Call
  <2>3. call' = [call EXCEPT ![w] = c]
    BY <1>4, <2>1 DEF LoadIdempotent, Goto
  <2> HIDE DEF c
  <2>4. CallOK(setup, events, idempotency, next_sequence, next_event, c)
    BY <1>1, <1>2, <2>1, <2>2 DEF CallOK, AnswerOK, Holding, Open
  <2>5. c.pc \notin Open /\ c.pc \notin Holding /\ c.pc # "commit" /\ o.pc # "idle"
    BY <1>2, <2>1, <2>2 DEF Open, Holding
  <2> QED
    BY <1>2, <2>1, <2>2, <2>3, <2>4, <2>5, NarrowStep
<1> QED
  BY <1>3, <1>4

LEMMA LoadAndHandleInv == ASSUME SqlInv, NEW w \in Writers, LoadAndHandle(w) PROVE SqlInv'
<1>1. call[w] \in Call /\ CallOK(setup, events, idempotency, next_sequence, next_event, call[w])
  BY OneCall
<1>2. call[w].pc = "load" /\ Reads
  BY OneCall DEF LoadAndHandle, Reads, database, reader
<1>3. CASE Answer(w, "domain_error", {})
  BY <1>2, <1>3, AnswerStep
<1>4. CASE call' = [call EXCEPT ![w].expected = Exact(MaxRevision(Load(call[w].id))), ![w].pc = "begin"]
  <2>1. PICK o \in Call : o = call[w]
    BY <1>1
  <2>2. o.id \in Ids
    BY <1>1, <1>2, <2>1 DEF CallOK
  <2>3. PICK r \in Nat : r = MaxRevision(Load(o.id))
    BY <2>2, MaxRevisions
  <2>4. r >= First(setup, o.id) - 1
    BY <2>2, <2>3, MaxRevisions
  <2>5. PICK x \in Expected : x = Exact(r) /\ x.kind = "exact" /\ x.revision = r
    <3>1. Exact(r) \in Expected /\ Exact(r).kind = "exact" /\ Exact(r).revision = r
      BY DEF Exact, Expected
    <3> QED
      BY <3>1
  <2> DEFINE c == [o EXCEPT !.expected = x, !.pc = "begin"]
  <2>6. /\ c \in Call /\ c.pc = "begin" /\ c.inserted = o.inserted /\ c.expected = x
        /\ c.event = o.event /\ c.id = o.id /\ c.key = o.key /\ c.path = o.path
        /\ c.seen = o.seen /\ c.answer = o.answer
    BY DEF Call
  <2>7. call' = [call EXCEPT ![w] = c]
    BY <1>4, <2>1, <2>3, <2>5
  <2> HIDE DEF c
  <2>8. CallOK(setup, events, idempotency, next_sequence, next_event, c)
    BY <1>1, <1>2, <2>1, <2>4, <2>5, <2>6 DEF CallOK, AnswerOK, Holding, Open
  <2>9. c.pc \notin Open /\ c.pc \notin Holding /\ c.pc # "commit" /\ o.pc # "idle"
    BY <1>2, <2>1, <2>6 DEF Open, Holding
  <2> QED
    BY <1>2, <2>1, <2>6, <2>7, <2>8, <2>9, NarrowStep
<1> QED
  BY <1>3, <1>4 DEF LoadAndHandle

(* BEGIN: in SQLite nobody else is in a transaction. *)
LEMMA BeginPairs ==
    ASSUME SqlInv, NEW w \in Writers, MayBegin(w), call[w].pc = "begin",
           NEW c \in Call, c.pc \in {"reserve", "revision"}, c.path # "idempotent" \/ c.pc = "reserve",
           c.event = call[w].event
    PROVE  \A v \in Writers \ {w} : PairOK(setup, c, call[v])
<1> SUFFICES ASSUME NEW v \in Writers \ {w} PROVE PairOK(setup, c, call[v])
  OBVIOUS
<1>1. PairOK(setup, call[w], call[v])
  BY DEF SqlInv
<1>2. setup.dialect = "sqlite" => call[v].pc \notin Open
  BY DEF MayBegin, Dialect, InTransaction, Open
<1> QED
  BY <1>1, <1>2 DEF PairOK, Holding, Open

LEMMA BeginInv == ASSUME SqlInv, NEW w \in Writers, Begin(w) PROVE SqlInv'
<1>1. call[w] \in Call /\ CallOK(setup, events, idempotency, next_sequence, next_event, call[w])
  BY OneCall
<1>2. call[w].pc = "begin" /\ Reads /\ MayBegin(w)
  BY OneCall DEF Begin, Reads, database, reader
<1>3. /\ UNCHANGED <<setup, events, idempotency, checkpoint, delivered>>
      /\ next_sequence' \in Nat /\ next_sequence <= next_sequence'
      /\ next_event' \in Nat /\ next_event <= next_event'
      /\ next_sequence' = next_sequence /\ next_event' = next_event
  BY OneCall DEF Begin, database, reader
<1>4. PICK o \in Call : o = call[w]
  BY <1>1
<1>5. CASE o.path # "idempotent"
  <2> DEFINE c == [o EXCEPT !.pc = "revision"]
  <2>1. /\ c \in Call /\ c.pc = "revision" /\ c.inserted = o.inserted
        /\ c.event = o.event /\ c.id = o.id /\ c.key = o.key /\ c.path = o.path
        /\ c.seen = o.seen /\ c.answer = o.answer
    BY DEF Call
  <2>2. call' = [call EXCEPT ![w] = c]
    BY <1>4, <1>5 DEF Begin, Goto
  <2> HIDE DEF c
  <2>3. CallOK(setup, events, idempotency, next_sequence, next_event, c)
    BY <1>1, <1>2, <1>4, <1>5, <2>1 DEF CallOK, AnswerOK, Holding, Open
  <2>4. \A v \in Writers \ {w} : PairOK(setup, c, call[v])
    BY <1>2, <1>4, <1>5, <2>1, BeginPairs
  <2> QED
    BY <1>3, <2>1, <2>2, <2>3, <2>4, CallStep
<1>6. CASE o.path = "idempotent" /\ idempotency[o.key] # {}
  <2>1. Answer(w, "ok", idempotency[call[w].key]) /\ call[w].pc # "idle"
    BY <1>2, <1>4, <1>6 DEF Begin
  <2> QED
    BY <1>2, <1>4, <1>6, <2>1, CompletedAnswer
<1>7. CASE o.path = "idempotent" /\ idempotency[o.key] = {}
  <2>1. o.id \in Ids
    BY <1>1, <1>2, <1>4 DEF CallOK
  <2>2. PICK n \in 0..Size(events, o.id) :
           n = IF Dialect = "mysql" THEN CurrentRevision("idempotent", call[w].id) ELSE 0
    BY <1>4, <2>1, MaxRevisions DEF CurrentRevision
  <2>3. n \in Nat /\ n <= Size(events, o.id)
    BY <2>1, <2>2, MaxRevisions
  <2> DEFINE c == [o EXCEPT !.pc = "reserve", !.seen = n]
  <2>4. /\ c \in Call /\ c.pc = "reserve" /\ c.inserted = o.inserted /\ c.seen = n
        /\ c.event = o.event /\ c.id = o.id /\ c.key = o.key /\ c.path = o.path
        /\ c.answer = o.answer /\ c.expected = o.expected
    BY <2>3 DEF Call
  <2>5. call' = [call EXCEPT ![w] = c]
    BY <1>4, <1>7, <2>2 DEF Begin
  <2> HIDE DEF c
  <2>6. CallOK(setup, events, idempotency, next_sequence, next_event, c)
    BY <1>1, <1>2, <1>4, <1>7, <2>3, <2>4 DEF CallOK, AnswerOK, Holding, Open
  <2>7. \A v \in Writers \ {w} : PairOK(setup, c, call[v])
    BY <1>2, <1>4, <2>4, BeginPairs
  <2> QED
    BY <1>3, <2>4, <2>5, <2>6, <2>7, CallStep
<1> QED
  BY <1>5, <1>6, <1>7

(* INSERT of the key: nobody else holds it. *)
LEMMA ReserveInv == ASSUME SqlInv, NEW w \in Writers, Reserve(w) PROVE SqlInv'
<1>1. call[w] \in Call /\ CallOK(setup, events, idempotency, next_sequence, next_event, call[w])
  BY OneCall
<1>2. call[w].pc = "reserve" /\ call[w].path = "idempotent" /\ Reads
  BY <1>1, OneCall DEF Reserve, Reads, database, reader, CallOK
<1>3. PICK o \in Call : o = call[w]
  BY <1>1
<1>4. CASE idempotency[o.key] = {}
  <2> DEFINE c == [o EXCEPT !.pc = "revision"]
  <2>1. /\ c \in Call /\ c.pc = "revision" /\ c.inserted = o.inserted
        /\ c.event = o.event /\ c.id = o.id /\ c.key = o.key /\ c.path = o.path
        /\ c.seen = o.seen /\ c.answer = o.answer /\ c.expected = o.expected
    BY DEF Call
  <2>2. call' = [call EXCEPT ![w] = c]
    BY <1>3, <1>4 DEF Reserve, Goto
  <2> HIDE DEF c
  <2>3. CallOK(setup, events, idempotency, next_sequence, next_event, c)
    BY <1>1, <1>2, <1>3, <1>4, <2>1 DEF CallOK, AnswerOK, Holding, Open
  <2>4. ASSUME NEW v \in Writers \ {w}
        PROVE  PairOK(setup, c, call[v])
    <3>1. PairOK(setup, o, call[v])
      BY <1>3 DEF SqlInv
    <3>2. ~HoldsKey(v, call[w].key)
      BY DEF Reserve
    <3>3. call[v].path = "idempotent" /\ call[v].pc \in Holding => c.key # call[v].key
      BY <1>3, <2>1, <3>2 DEF HoldsKey, Holding
    <3> QED
      BY <1>2, <1>3, <2>1, <3>1, <3>3 DEF PairOK, Open, Holding
  <2>5. \A v \in Writers \ {w} : PairOK(setup, c, call[v])
    BY <2>4
  <2>6. /\ UNCHANGED <<setup, events, idempotency, checkpoint, delivered>>
        /\ next_sequence' \in Nat /\ next_sequence <= next_sequence'
        /\ next_event' \in Nat /\ next_event <= next_event'
        /\ next_sequence' = next_sequence /\ next_event' = next_event
    BY OneCall DEF Reserve, database, reader
  <2> QED
    BY <2>1, <2>2, <2>3, <2>5, <2>6, CallStep
<1>5. CASE idempotency[o.key] # {} /\ o.polls > 0
  <2>a. PICK n \in Nat : n = o.polls - 1
    <3>1. o.polls \in Nat
      BY DEF Call
    <3> QED
      BY <1>5, <3>1
  <2> DEFINE c == [o EXCEPT !.polls = n, !.pc = "begin"]
  <2>1. /\ c \in Call /\ c.pc = "begin" /\ c.inserted = o.inserted
        /\ c.event = o.event /\ c.id = o.id /\ c.key = o.key /\ c.path = o.path
        /\ c.seen = o.seen /\ c.answer = o.answer /\ c.expected = o.expected
    BY DEF Call
  <2>2. call' = [call EXCEPT ![w] = c]
    BY <1>3, <1>5, <2>a DEF Reserve
  <2> HIDE DEF c
  <2>3. o.inserted = {} /\ o.pc \in {"begin"} \cup Open
    BY <1>1, <1>2, <1>3 DEF CallOK, Open
  <2> QED
    BY <1>2, <1>3, <2>1, <2>2, <2>3, AgainStep
<1>6. CASE idempotency[o.key] # {} /\ ~(o.polls > 0)
  <2>1. Answer(w, "timeout", {})
    BY <1>3, <1>6 DEF Reserve
  <2> QED
    BY <1>2, <2>1, AnswerStep
<1> QED
  BY <1>4, <1>5, <1>6

LEMMA ReadRevisionInv == ASSUME SqlInv, NEW w \in Writers, ReadRevision(w) PROVE SqlInv'
<1>1. call[w] \in Call /\ CallOK(setup, events, idempotency, next_sequence, next_event, call[w])
  BY OneCall
<1>2. call[w].pc = "revision" /\ Reads
  BY OneCall DEF ReadRevision, Reads, database, reader
<1>3. PICK o \in Call : o = call[w]
  BY <1>1
<1>4. CASE ~CheckExpectedRevision(call[w].expected, VisibleRevision(w))
  <2>1. Conflict(w)
    BY <1>4 DEF ReadRevision
  <2> QED
    BY <1>2, <2>1, ConflictStep
<1>5. CASE CheckExpectedRevision(call[w].expected, VisibleRevision(w))
  <2>1. o.id \in Ids /\ o.seen \in Nat /\ o.seen <= Size(events, o.id)
    BY <1>1, <1>2, <1>3 DEF CallOK, Call
  <2>2. /\ Size(events, o.id) \in Nat /\ First(setup, o.id) \in {1, 2}
        /\ Size(events, o.id) >= First(setup, o.id) - 1
    BY <2>1, MaxRevisions
  <2>3. VisibleRevision(w) \in 0..Size(events, o.id)
    <3>1. CurrentRevision(o.path, o.id) \in 0..Size(events, o.id)
      <4>1. CASE o.path = "idempotent"
        BY <2>1, <4>1, MaxRevisions DEF CurrentRevision
      <4>2. CASE o.path # "idempotent"
        BY <2>1, <2>2, <4>2, MaxRevisions DEF CurrentRevision
      <4> QED
        BY <4>1, <4>2
    <3>2. o.seen \in 0..Size(events, o.id)
      BY <2>1, <2>2
    <3> QED
      BY <1>3, <3>1, <3>2 DEF VisibleRevision
  <2>4. PICK n \in 0..Size(events, o.id) : n = VisibleRevision(w)
    BY <2>3
  <2>5. n \in Nat /\ n <= Size(events, o.id)
    BY <2>2, <2>4
  <2>6. n >= First(setup, o.id) - 1
    <3>1. CASE o.path = "idempotent"
      <4>1. o.expected.kind = "exact" /\ o.expected.revision >= First(setup, o.id) - 1
        BY <1>1, <1>2, <1>3, <3>1 DEF CallOK, Open
      <4>2. o.expected.revision = n
        BY <1>3, <1>5, <2>4, <4>1 DEF CheckExpectedRevision
      <4> QED
        BY <4>1, <4>2
    <3>2. CASE o.path # "idempotent"
      <4>1. n = MaxRevision(Stream(o.id))
        BY <1>3, <2>4, <3>2 DEF VisibleRevision, CurrentRevision
      <4> QED
        BY <2>1, <2>2, <4>1, MaxRevisions
    <3> QED
      BY <3>1, <3>2
  <2> DEFINE c == [o EXCEPT !.actual = n, !.pc = "insert"]
  <2>7. /\ c \in Call /\ c.pc = "insert" /\ c.inserted = o.inserted /\ c.actual = n
        /\ c.event = o.event /\ c.id = o.id /\ c.key = o.key /\ c.path = o.path
        /\ c.seen = o.seen /\ c.answer = o.answer /\ c.expected = o.expected
    BY <2>5 DEF Call
  <2>8. call' = [call EXCEPT ![w] = c]
    BY <1>3, <1>5, <2>4 DEF ReadRevision
  <2> HIDE DEF c
  <2>9. CallOK(setup, events, idempotency, next_sequence, next_event, c)
    BY <1>1, <1>2, <1>3, <2>5, <2>6, <2>7 DEF CallOK, AnswerOK, Holding, Open
  <2>10. o.pc \in Open /\ o.pc \in Holding /\ c.pc # "commit" /\ o.pc # "idle"
    BY <1>2, <1>3, <2>7 DEF Open, Holding
  <2> QED
    BY <1>2, <1>3, <2>7, <2>8, <2>9, <2>10, NarrowStep
<1> QED
  BY <1>4, <1>5

(* The sequence an INSERT draws is larger than any sequence given before;  *)
(* in SQLite it is the next of a dense run.                                *)
LEMMA Drawn ==
    ASSUME SqlInv, NEW w \in Writers, call[w].pc = "insert"
    PROVE  /\ DrawnSequence \in Nat
           /\ NextSequence \in Nat /\ next_sequence <= NextSequence
           /\ setup.dialect = "sqlite" => DrawnSequence = Cardinality(events) + 1
           /\ setup.dialect # "sqlite" =>
                 /\ DrawnSequence < NextSequence
                 /\ \A row \in events : row.sequence # DrawnSequence
                 /\ \A v \in Writers : \A row \in call[v].inserted : row.sequence # DrawnSequence
<1>1. /\ next_sequence \in Nat /\ events \in SUBSET Row /\ IsFiniteSet(events)
      /\ Cardinality(events) \in Nat /\ SequencesOK(setup, events, next_sequence)
  BY FS_CardinalityType DEF SqlInv, DbOK
<1>2. \A row \in Row : row.sequence \in Nat
  BY DEF Row
<1>3. CASE setup.dialect = "sqlite"
  <2>1. ASSUME NEW v \in Writers
        PROVE  call[v].inserted = {}
    <3>1. call[v].pc # "commit"
      <4>1. CASE v = w
        BY <4>1
      <4>2. CASE v # w
        <5>1. PairOK(setup, call[w], call[v])
          BY <4>2 DEF SqlInv
        <5> QED
          BY <1>3, <5>1 DEF PairOK, Open
      <4> QED
        BY <4>1, <4>2
    <3> QED
      BY <3>1, OneCall DEF CallOK
  <2>2. events \cup UNION {call[v].inserted : v \in Writers} = events
    BY <2>1
  <2>3. {row.sequence : row \in events \cup UNION {call[v].inserted : v \in Writers}} = 1..Cardinality(events)
    BY <1>1, <1>3, <2>2 DEF SequencesOK
  <2>4. Max({0} \cup 1..Cardinality(events)) = Cardinality(events)
    <3>1. Max({0} \cup 1..Cardinality(events)) = IF 1 <= Cardinality(events) THEN Cardinality(events) ELSE 0
      BY <1>1, MaxInterval
    <3> QED
      BY <1>1, <3>1
  <2>5. DrawnSequence = 1 + Cardinality(events)
    BY <1>3, <2>3, <2>4 DEF DrawnSequence, Dialect
  <2> QED
    BY <1>1, <1>3, <2>5 DEF NextSequence, Dialect
<1>4. CASE setup.dialect # "sqlite"
  <2>1. DrawnSequence = next_sequence /\ NextSequence = next_sequence + 1
    BY <1>4 DEF DrawnSequence, NextSequence, Dialect
  <2>2. \A row \in events : row.sequence # next_sequence
    BY <1>1, <1>2, <1>4 DEF SequencesOK
  <2>3. ASSUME NEW v \in Writers, NEW row \in call[v].inserted
        PROVE  row.sequence # next_sequence
    <3>1. call[v] \in Call /\ CallOK(setup, events, idempotency, next_sequence, next_event, call[v])
      BY OneCall
    <3>2. InsertedOK(setup, events, next_sequence, call[v]) /\ row \in Row
      BY <2>3, <3>1 DEF CallOK, Call
    <3>3. row.sequence < next_sequence
      BY <1>4, <2>3, <3>2 DEF InsertedOK
    <3> QED
      BY <1>1, <1>2, <3>2, <3>3
  <2> QED
    BY <1>1, <1>4, <2>1, <2>2, <2>3
<1> QED
  BY <1>3, <1>4

LEMMA InsertEventsInv == ASSUME SqlInv, NEW w \in Writers, InsertEvents(w) PROVE SqlInv'
<1>1. call[w] \in Call /\ CallOK(setup, events, idempotency, next_sequence, next_event, call[w])
  BY OneCall
<1>2. call[w].pc = "insert" /\ next_sequence' = NextSequence /\ next_event' = next_event
      /\ UNCHANGED <<setup, events, idempotency, checkpoint, delivered>>
  BY DEF InsertEvents, database, reader
<1>3. next_sequence' \in Nat /\ next_sequence <= next_sequence' /\ Reads
  BY <1>2, Drawn DEF Reads
<1>4. CASE EventTaken(w)
  <2>1. Answer(w, "store_error", {})
    BY <1>4 DEF InsertEvents
  <2> QED
    BY <1>2, <1>3, <2>1, AnswerStep
<1>5. CASE ~EventTaken(w) /\ StreamTaken(w)
  <2>1. Conflict(w)
    BY <1>5 DEF InsertEvents
  <2> QED
    BY <1>2, <1>3, <2>1, ConflictStep
<1>6. CASE ~EventTaken(w) /\ ~StreamTaken(w)
  <2>1. PICK o \in Call : o = call[w]
    BY <1>1
  <2>2. /\ o.id \in Ids /\ o.actual \in Nat /\ o.event \in Nat /\ o.key \in Keys \cup {NoKey}
        /\ o.actual >= First(setup, o.id) - 1 /\ o.actual <= Size(events, o.id)
    BY <1>1, <1>2, <2>1 DEF CallOK, Call
  <2>3. o.actual = Size(events, o.id)
    <3>1. o.actual + 1 \notin First(setup, o.id)..Size(events, o.id)
      <4>1. StreamOK(setup, events, o.id)
        BY <2>2 DEF SqlInv, DbOK
      <4>2. o.actual + 1 \notin Revisions(RowsAs(events, o.id, "current"))
        BY <1>6, <2>1 DEF StreamTaken, Stored, Stream, Revisions, RowsAs, Rows
      <4> QED
        BY <4>1, <4>2 DEF StreamOK
    <3>2. Size(events, o.id) \in Nat /\ First(setup, o.id) \in {1, 2}
      BY <2>2, MaxRevisions
    <3> QED
      BY <2>2, <3>1, <3>2
  <2>4. PICK row \in Row :
           /\ row = NewRow(w)
           /\ row.event = o.event /\ row.id = o.id /\ row.encoding = "current" /\ row.key = o.key
           /\ row.revision = Size(events, o.id) + 1 /\ row.sequence = DrawnSequence
    <3>1. NewRow(w) = [event |-> o.event, id |-> o.id, encoding |-> "current",
                       revision |-> o.actual + 1, sequence |-> DrawnSequence, key |-> o.key]
      BY <2>1 DEF NewRow
    <3>2. DrawnSequence \in Nat
      BY <1>2, Drawn
    <3>3. NewRow(w) \in Row
      BY <2>2, <3>1, <3>2 DEF Row
    <3> QED
      BY <2>3, <3>1, <3>3
  <2> DEFINE c == [o EXCEPT !.inserted = {row}, !.pc = "commit"]
  <2>5. /\ c \in Call /\ c.pc = "commit" /\ c.inserted = {row} /\ c.actual = o.actual
        /\ c.event = o.event /\ c.id = o.id /\ c.key = o.key /\ c.path = o.path
        /\ c.seen = o.seen /\ c.answer = o.answer /\ c.expected = o.expected
    BY DEF Call
  <2>6. call' = [call EXCEPT ![w] = c]
    BY <1>6, <2>1, <2>4 DEF InsertEvents
  <2> HIDE DEF c
  <2>7. InsertedOK(setup, events, next_sequence', c)
    <3>1. \A r \in events : r.event # c.event
      BY <1>6, <2>1, <2>5 DEF EventTaken
    <3>2. IF setup.dialect = "sqlite" THEN row.sequence = Cardinality(events) + 1
          ELSE row.sequence < next_sequence' /\ \A r \in events : r.sequence # row.sequence
      BY <1>2, <2>4, Drawn
    <3> QED
      BY <2>4, <2>5, <3>1, <3>2 DEF InsertedOK
  <2>8. CallOK(setup, events, idempotency, next_sequence', next_event', c)
    BY <1>1, <1>2, <2>1, <2>5, <2>7 DEF CallOK, AnswerOK, Holding, Open
  <2>9. ASSUME NEW v \in Writers \ {w}
        PROVE  PairOK(setup, c, call[v])
    <3>1. PairOK(setup, o, call[v])
      BY <2>1 DEF SqlInv
    <3>2. ASSUME call[v].pc = "commit"
          PROVE  /\ c.id # call[v].id
                 /\ \A r \in c.inserted, t \in call[v].inserted : r.sequence # t.sequence
      <4>1. InsertedOK(setup, events, next_sequence, call[v])
        BY <3>2, OneCall DEF CallOK
      <4>2. ~HoldsRow(v, o.id, o.actual + 1)
        BY <2>1 DEF InsertEvents
      <4>3. c.id # call[v].id
        BY <2>3, <2>5, <4>1, <4>2 DEF InsertedOK, HoldsRow
      <4>4. setup.dialect # "sqlite"
        BY <1>2, <2>1, <3>1, <3>2 DEF PairOK, Open
      <4>5. \A t \in call[v].inserted : t.sequence # DrawnSequence
        BY <1>2, <4>4, Drawn
      <4> QED
        BY <2>4, <2>5, <4>3, <4>5
    <3> QED
      BY <1>2, <2>1, <2>5, <3>1, <3>2 DEF PairOK, Open, Holding
  <2>10. \A v \in Writers \ {w} : PairOK(setup, c, call[v])
    BY <2>9
  <2>11. next_event' \in Nat /\ next_event <= next_event'
    BY <1>2, OneCall
  <2> QED
    BY <1>2, <1>3, <2>5, <2>6, <2>8, <2>10, <2>11, CallStep
<1> QED
  BY <1>4, <1>5, <1>6

-------------------------------------------------------------------------------
(* A row more in a stream that it continues. *)
LEMMA StreamGrows ==
    ASSUME NEW s, NEW E \in SUBSET Row, IsFiniteSet(E), NEW row \in Row, row \notin E,
           \A id \in Ids : StreamOK(s, E, id),
           row.encoding = "current", row.revision = Size(E, row.id) + 1
    PROVE  /\ \A id \in Ids : StreamOK(s, E \cup {row}, id)
           /\ \A id \in Ids \ {row.id} : Size(E \cup {row}, id) = Size(E, id)
           /\ Size(E \cup {row}, row.id) = Size(E, row.id) + 1
           /\ \A id \in Ids : Size(E, id) \in Nat
<1> DEFINE F == E \cup {row}
<1>1. row.id \in Ids
  BY DEF Row
<1>2. \A id : IsFiniteSet(Rows(E, id)) /\ Size(E, id) \in Nat
  BY FS_Subset, FS_CardinalityType DEF Rows, Size
<1>3. \A id \in Ids \ {row.id} :
         /\ Rows(F, id) = Rows(E, id)
         /\ \A e : RowsAs(F, id, e) = RowsAs(E, id, e)
  BY DEF Rows, RowsAs
<1>4. /\ Rows(F, row.id) = Rows(E, row.id) \cup {row}
      /\ RowsAs(F, row.id, "current") = RowsAs(E, row.id, "current") \cup {row}
      /\ RowsAs(F, row.id, "legacy") = RowsAs(E, row.id, "legacy")
      /\ row \notin Rows(E, row.id)
  BY DEF Rows, RowsAs
<1>5. Size(F, row.id) = Size(E, row.id) + 1
  BY <1>2, <1>4, FS_AddElement DEF Size
<1>6. \A id \in Ids \ {row.id} : Size(F, id) = Size(E, id) /\ StreamOK(s, F, id)
  BY <1>3 DEF Size, StreamOK
<1>7. StreamOK(s, F, row.id)
  <2> DEFINE n == Size(E, row.id)
             f == First(s, row.id)
  <2>1. n \in Nat /\ f \in {1, 2} /\ n >= f - 1
    BY <1>1, <1>2 DEF First, StreamOK
  <2>2. Revisions(Rows(F, row.id)) = Revisions(Rows(E, row.id)) \cup {row.revision}
    BY <1>4 DEF Revisions
  <2>3. Revisions(RowsAs(F, row.id, "current")) = Revisions(RowsAs(E, row.id, "current")) \cup {row.revision}
    BY <1>4 DEF Revisions
  <2>4. /\ Revisions(Rows(E, row.id)) = 1..n
        /\ Revisions(RowsAs(E, row.id, "current")) = f..n
        /\ Revisions(RowsAs(E, row.id, "legacy")) = 1..(f - 1)
    BY <1>1 DEF StreamOK
  <2>5. row.revision = n + 1
    OBVIOUS
  <2> HIDE DEF n, f
  <2>6. 1..n \cup {n + 1} = 1..(n + 1) /\ f..n \cup {n + 1} = f..(n + 1)
    BY <2>1
  <2>7. n + 1 >= f - 1
    BY <2>1
  <2> QED
    BY <1>4, <1>5, <2>2, <2>3, <2>4, <2>5, <2>6, <2>7 DEF StreamOK, n, f
<1> QED
  BY <1>2, <1>5, <1>6, <1>7

(* What COMMIT does to the tables: o commits, with its row. *)
CommittedKeys(I, o, row) ==
    IF o.path # "idempotent" THEN I ELSE [I EXCEPT ![o.key] = {row}]

LEMMA CommitKeys ==
    ASSUME NEW E, NEW I \in [Keys -> SUBSET Row], NEW o \in Call, NEW row \in Row,
           \A k \in Keys : KeyOK(E, I, k), row.key = o.key,
           o.path = "idempotent" => o.key \in Keys /\ I[o.key] = {},
           o.path # "idempotent" => o.key = NoKey
    PROVE  /\ CommittedKeys(I, o, row) \in [Keys -> SUBSET Row]
           /\ \A k \in Keys : KeyOK(E \cup {row}, CommittedKeys(I, o, row), k)
           /\ \A k \in Keys : I[k] # {} => CommittedKeys(I, o, row)[k] = I[k]
           /\ o.path = "idempotent" => CommittedKeys(I, o, row)[o.key] = {row}
           /\ \A k \in Keys : o.path # "idempotent" \/ k # o.key => CommittedKeys(I, o, row)[k] = I[k]
<1> DEFINE J == CommittedKeys(I, o, row)
<1>1. /\ J \in [Keys -> SUBSET Row]
      /\ o.path = "idempotent" => J[o.key] = {row}
      /\ \A k \in Keys : o.path # "idempotent" \/ k # o.key => J[k] = I[k]
  BY DEF CommittedKeys
<1> HIDE DEF J
<1>2. \A k \in Keys : I[k] # {} => J[k] = I[k]
  BY <1>1
<1>3. ASSUME NEW k \in Keys
      PROVE  KeyOK(E \cup {row}, J, k)
  <2>1. KeyOK(E, I, k)
    OBVIOUS
  <2>2. CASE o.path = "idempotent" /\ k = o.key
    BY <1>1, <2>1, <2>2 DEF KeyOK
  <2>3. CASE ~(o.path = "idempotent" /\ k = o.key)
    <3>1. row.key # k
      BY <2>3, SqlAssumption DEF SqlAssumption
    <3> QED
      BY <1>1, <2>1, <2>3, <3>1 DEF KeyOK
  <2> QED
    BY <2>2, <2>3
<1> QED
  BY <1>1, <1>2, <1>3 DEF J

LEMMA CommitDb ==
    ASSUME NEW s, NEW E, NEW I \in [Keys -> SUBSET Row], NEW ns \in Nat, NEW ne \in Nat,
           NEW o \in Call, o.pc = "commit",
           DbOK(s, E, I, ns, ne), CallOK(s, E, I, ns, ne, o),
           NEW row, o.inserted = {row}
    PROVE  /\ row \in Row /\ row \notin E
           /\ DbOK(s, E \cup {row}, CommittedKeys(I, o, row), ns, ne)
           /\ Cardinality(E) \in Nat /\ Cardinality(E \cup {row}) = Cardinality(E) + 1
<1>1. row \in Row
  BY DEF Call
<1>2. InsertedOK(s, E, ns, o) /\ o.event < ne
  BY DEF CallOK
<1>3. /\ row.event = o.event /\ row.id = o.id /\ row.key = o.key
      /\ row.encoding = "current" /\ row.revision = Size(E, row.id) + 1
      /\ \A r \in E : r.event # row.event
      /\ IF s.dialect = "sqlite" THEN row.sequence = Cardinality(E) + 1
         ELSE row.sequence < ns /\ \A r \in E : r.sequence # row.sequence
  BY <1>2 DEF InsertedOK
<1>4. row \notin E
  BY <1>3
<1>5. E \in SUBSET Row /\ IsFiniteSet(E) /\ UniqueRows(E) /\ SequencesOK(s, E, ns)
      /\ (\A r \in E : r.event < ne) /\ (\A k \in Keys : KeyOK(E, I, k))
      /\ \A id \in Ids : StreamOK(s, E, id)
  BY DEF DbOK
<1>6. /\ Cardinality(E) \in Nat /\ IsFiniteSet(E \cup {row})
      /\ Cardinality(E \cup {row}) = Cardinality(E) + 1
  BY <1>4, <1>5, FS_AddElement, FS_CardinalityType
<1>7. \A id \in Ids : StreamOK(s, E \cup {row}, id)
  BY <1>1, <1>3, <1>4, <1>5, StreamGrows
<1>8. SequencesOK(s, E \cup {row}, ns) /\ \A r \in E : r.sequence # row.sequence
  <2>1. CASE s.dialect = "sqlite"
    <3> DEFINE n == Cardinality(E)
    <3>1. {r.sequence : r \in E} = 1..n /\ row.sequence = n + 1
      BY <1>3, <1>5, <2>1 DEF SequencesOK
    <3>2. {r.sequence : r \in E \cup {row}} = 1..n \cup {n + 1}
      BY <3>1
    <3>3. n \in Nat
      BY <1>6
    <3> HIDE DEF n
    <3>4. 1..n \cup {n + 1} = 1..(n + 1) /\ n + 1 \notin 1..n
      BY <3>3
    <3>5. \A r \in E : r.sequence \in 1..n
      BY <3>1
    <3> QED
      BY <1>6, <2>1, <3>1, <3>2, <3>4, <3>5 DEF SequencesOK, n
  <2>2. CASE s.dialect # "sqlite"
    BY <1>3, <1>5, <2>2 DEF SequencesOK
  <2> QED
    BY <2>1, <2>2
<1>9. UniqueRows(E \cup {row})
  BY <1>3, <1>5, <1>8 DEF UniqueRows
<1>10. \A k \in Keys : KeyOK(E \cup {row}, CommittedKeys(I, o, row), k)
  <2>1. /\ o.path = "idempotent" => o.key \in Keys /\ I[o.key] = {}
        /\ o.path # "idempotent" => o.key = NoKey
    BY DEF CallOK, Holding
  <2> QED
    BY <1>1, <1>3, <1>5, <2>1, CommitKeys
<1>11. \A r \in E \cup {row} : r.event < ne
  BY <1>2, <1>3, <1>5
<1>12. E \cup {row} \in SUBSET Row
  BY <1>1, <1>5
<1> QED
  BY <1>1, <1>4, <1>6, <1>7, <1>8, <1>9, <1>10, <1>11, <1>12 DEF DbOK

(* The commit of o does not disturb what another call d relies on. *)
LEMMA CommitOthers ==
    ASSUME NEW s, NEW E, NEW I \in [Keys -> SUBSET Row], NEW ns \in Nat, NEW ne \in Nat,
           NEW o \in Call, o.pc = "commit",
           DbOK(s, E, I, ns, ne), CallOK(s, E, I, ns, ne, o),
           NEW row, o.inserted = {row},
           NEW d \in Call, CallOK(s, E, I, ns, ne, d), PairOK(s, o, d)
    PROVE  CallOK(s, E \cup {row}, CommittedKeys(I, o, row), ns, ne, d)
<1> DEFINE F == E \cup {row}
           J == CommittedKeys(I, o, row)
<1>1. row \in Row
  BY DEF Call
<1>2. /\ row.event = o.event /\ row.id = o.id /\ row.key = o.key
      /\ row.encoding = "current" /\ row.revision = Size(E, row.id) + 1
      /\ row \notin E
  BY DEF CallOK, InsertedOK
<1>3. /\ E \in SUBSET Row /\ IsFiniteSet(E) /\ (\A k \in Keys : KeyOK(E, I, k))
      /\ \A id \in Ids : StreamOK(s, E, id)
  BY DEF DbOK
<1>4. /\ \A id \in Ids : StreamOK(s, F, id)
      /\ \A id \in Ids \ {row.id} : Size(F, id) = Size(E, id)
      /\ Size(F, row.id) = Size(E, row.id) + 1
      /\ \A id \in Ids : Size(E, id) \in Nat
  BY <1>1, <1>2, <1>3, StreamGrows
<1>5. /\ \A k \in Keys : I[k] # {} => J[k] = I[k]
      /\ \A k \in Keys : o.path # "idempotent" \/ k # o.key => J[k] = I[k]
  <2>1. /\ o.path = "idempotent" => o.key \in Keys /\ I[o.key] = {}
        /\ o.path # "idempotent" => o.key = NoKey
    BY DEF CallOK, Holding
  <2> QED
    BY <1>1, <2>1 DEF CommittedKeys
<1> HIDE DEF F, J
<1>6. d.seen \in Nat /\ d.actual \in Nat /\ d.value \in SUBSET Row /\ d.key \in Keys \cup {NoKey}
  BY DEF Call
<1>7. d.pc # "idle" => d.id \in Ids /\ d.seen <= Size(F, d.id)
  <2>1. ASSUME d.pc # "idle" PROVE d.id \in Ids /\ d.seen <= Size(F, d.id)
    <3>1. d.id \in Ids /\ d.seen <= Size(E, d.id)
      BY <2>1 DEF CallOK
    <3> QED
      BY <1>4, <1>6, <3>1
  <2> QED
    BY <2>1
<1>8. d.pc \in {"insert", "commit"} => d.actual >= First(s, d.id) - 1 /\ d.actual <= Size(F, d.id)
  <2>1. ASSUME d.pc \in {"insert", "commit"} PROVE d.actual <= Size(F, d.id)
    <3>1. d.id \in Ids /\ d.actual <= Size(E, d.id)
      BY <2>1 DEF CallOK
    <3> QED
      BY <1>4, <1>6, <3>1
  <2> QED
    BY <2>1 DEF CallOK
<1>9. d.path = "idempotent" /\ d.pc \in Holding => J[d.key] = {}
  <2>1. ASSUME d.path = "idempotent", d.pc \in Holding PROVE J[d.key] = {}
    <3>1. d.key \in Keys /\ I[d.key] = {}
      BY <2>1 DEF CallOK
    <3>2. o.path # "idempotent" \/ d.key # o.key
      BY <2>1 DEF PairOK, Holding
    <3> QED
      BY <1>5, <3>1, <3>2
  <2> QED
    BY <2>1
<1>10. ASSUME d.pc = "commit" PROVE InsertedOK(s, F, ns, d)
  <2>1. InsertedOK(s, E, ns, d) /\ d.id \in Ids
    BY <1>10 DEF CallOK
  <2>2. PICK t : d.inserted = {t}
    BY <2>1 DEF InsertedOK
  <2>3. /\ d.id # o.id /\ row.sequence # t.sequence /\ o.event # d.event
        /\ s.dialect # "sqlite"
    BY <1>10, <2>2 DEF PairOK, Open
  <2>4. Size(F, d.id) = Size(E, d.id)
    BY <1>2, <1>4, <2>1, <2>3
  <2>5. (\A r \in F : r.event # d.event) /\ (\A r \in F : r.sequence # t.sequence)
    BY <1>2, <2>1, <2>2, <2>3 DEF InsertedOK, F
  <2> QED
    BY <2>1, <2>2, <2>3, <2>4, <2>5 DEF InsertedOK
<1>11. AnswerOK(F, J, d)
  <2> SUFFICES ASSUME d.answer = "ok"
               PROVE  /\ d.value # {} /\ d.value \subseteq F
                      /\ d.path = "idempotent" => d.value = J[d.key]
    BY DEF AnswerOK
  <2>1. /\ d.value # {} /\ d.value \subseteq E
        /\ d.path = "idempotent" => d.key \in Keys /\ d.value = I[d.key]
    BY DEF CallOK, AnswerOK
  <2> QED
    BY <1>5, <2>1 DEF F
<1>12. CallOK(s, F, J, ns, ne, d)
  BY <1>7, <1>8, <1>9, <1>10, <1>11 DEF CallOK
<1> QED
  BY <1>12 DEF F, J

(* After COMMIT the caller is done or, its reply lost, begins again. *)
LEMMA CommitStep ==
    ASSUME SqlInv, NEW w \in Writers, CommitRows(w),
           UNCHANGED <<setup, next_sequence, next_event, checkpoint, delivered>>,
           NEW c \in Call, call' = [call EXCEPT ![w] = c],
           c.pc \in {"begin", "done"}, c.inserted = {},
           c.event = call[w].event, c.id = call[w].id, c.key = call[w].key,
           c.path = call[w].path, c.seen = call[w].seen, c.expected = call[w].expected,
           c.pc = "begin" => c.answer = "none",
           c.answer = "ok" => c.value = call[w].inserted
    PROVE  SqlInv'
<1>1. /\ call[w] \in Call /\ call[w].pc = "commit"
      /\ CallOK(setup, events, idempotency, next_sequence, next_event, call[w])
      /\ DbOK(setup, events, idempotency, next_sequence, next_event)
      /\ next_sequence \in Nat /\ next_event \in Nat
      /\ idempotency \in [Keys -> SUBSET Row]
  BY OneCall DEF CommitRows, SqlInv
<1>2. PICK o \in Call : o = call[w]
  BY <1>1
<1>3. /\ CallOK(setup, events, idempotency, next_sequence, next_event, o)
      /\ o.pc = "commit"
      /\ c.event = o.event /\ c.id = o.id /\ c.key = o.key /\ c.path = o.path
      /\ c.seen = o.seen /\ c.expected = o.expected
      /\ c.answer = "ok" => c.value = o.inserted
  BY <1>1, <1>2
<1>4. PICK row : o.inserted = {row}
  BY <1>3 DEF CallOK, InsertedOK
<1>5. /\ row \in Row /\ row.id = o.id /\ row.key = o.key /\ row.encoding = "current"
      /\ row.revision = Size(events, row.id) + 1 /\ row \notin events
      /\ o.id \in Ids /\ o.seen <= Size(events, o.id) /\ o.event < next_event
      /\ setup.dialect = "sqlite" => row.sequence = Cardinality(events) + 1
  BY <1>3, <1>4 DEF CallOK, InsertedOK, Call
<1> DEFINE E == events \cup {row}
           J == CommittedKeys(idempotency, o, row)
<1>6. events' = E /\ idempotency' = J
  BY <1>2, <1>4 DEF CommitRows, CommittedKeys
<1>7. DbOK(setup, E, J, next_sequence, next_event)
  BY <1>1, <1>3, <1>4, CommitDb
<1>8. ASSUME NEW v \in Writers \ {w}
      PROVE  CallOK(setup, E, J, next_sequence, next_event, call[v])
  <2>1. /\ call[v] \in Call
        /\ CallOK(setup, events, idempotency, next_sequence, next_event, call[v])
    BY OneCall
  <2>2. PairOK(setup, o, call[v])
    BY <1>2 DEF SqlInv
  <2> QED
    BY <1>1, <1>3, <1>4, <2>1, <2>2, CommitOthers
<1>9. /\ o.path = "idempotent" => o.key \in Keys /\ J[o.key] = {row}
      /\ o.path # "idempotent" => o.key = NoKey
      /\ J \in [Keys -> SUBSET Row]
  BY <1>1, <1>3, <1>5 DEF CallOK, CommittedKeys
<1>10. o.seen <= Size(E, o.id)
  <2>1. /\ events \in SUBSET Row /\ IsFiniteSet(events)
        /\ \A id \in Ids : StreamOK(setup, events, id)
    BY <1>1 DEF DbOK
  <2>2. \A id \in Ids : StreamOK(setup, E, id)
    BY <1>7 DEF DbOK
  <2>3. Size(E, row.id) = Size(events, row.id) + 1 /\ Size(events, row.id) \in Nat
    <3>1. /\ \A id \in Ids : StreamOK(setup, E, id)
          /\ Size(E, row.id) = Size(events, row.id) + 1
          /\ \A id \in Ids : Size(events, id) \in Nat
      BY <1>5, <2>1, StreamGrows
    <3> QED
      BY <1>5, <3>1
  <2>4. o.seen \in Nat
    BY DEF Call
  <2> QED
    BY <1>5, <2>3, <2>4
<1>11. FeedOK(setup, E, checkpoint, delivered)
  <2>1. FeedOK(setup, events, checkpoint, delivered)
    BY DEF SqlInv
  <2>2. Cardinality(events) \in Nat /\ Cardinality(E) = Cardinality(events) + 1
    <3>1. IsFiniteSet(events)
      BY <1>1 DEF DbOK
    <3> QED
      BY <1>5, <3>1, FS_AddElement, FS_CardinalityType
  <2> QED
    BY <1>5, <2>1, <2>2 DEF FeedOK
<1>12. row \in E
  OBVIOUS
<1> HIDE DEF E, J
<1>13. CallOK(setup, E, J, next_sequence, next_event, c)
  <2>1. AnswerOK(E, J, c)
    BY <1>3, <1>4, <1>9, <1>12 DEF AnswerOK
  <2>2. c.path = "idempotent" => c.expected.kind = "exact" /\ c.expected.revision >= First(setup, c.id) - 1
    BY <1>3 DEF CallOK, Open
  <2> QED
    BY <1>3, <1>5, <1>9, <1>10, <2>1, <2>2 DEF CallOK, Holding, Open
<1>14. \A v \in Writers \ {w} : PairOK(setup, c, call[v])
  <2>1. \A v \in Writers \ {w} : PairOK(setup, o, call[v])
    BY <1>2 DEF SqlInv
  <2>2. c.pc \notin Open /\ c.pc \notin Holding /\ c.pc # "commit" /\ o.pc # "idle"
    BY <1>3 DEF Open, Holding
  <2> QED
    BY <1>3, <2>1, <2>2, PairNarrows
<1>15. /\ call' \in [Writers -> Call] /\ call'[w] = c
       /\ \A v \in Writers \ {w} : call'[v] = call[v]
  BY DEF SqlInv
<1>16. \A v \in Writers : CallOK(setup, E, J, next_sequence, next_event, call'[v])
  BY <1>8, <1>13, <1>15
<1>17. ASSUME NEW u \in Writers, NEW v \in Writers, u # v
       PROVE  PairOK(setup, call'[u], call'[v])
  <2>1. CASE u = w
    BY <1>14, <1>15, <1>17, <2>1
  <2>2. CASE v = w
    <3>1. PairOK(setup, c, call[u])
      BY <1>14, <1>17, <2>2
    <3> QED
      BY <1>15, <1>17, <2>2, <3>1, PairSymmetric
  <2>3. CASE u # w /\ v # w
    <3>1. PairOK(setup, call[u], call[v])
      BY <1>17 DEF SqlInv
    <3> QED
      BY <1>15, <2>3, <3>1
  <2> QED
    BY <2>1, <2>2, <2>3
<1>18. setup \in Setups
  BY DEF SqlInv
<1> QED
  BY <1>1, <1>6, <1>7, <1>9, <1>11, <1>15, <1>16, <1>17, <1>18 DEF SqlInv

(* The two ways a COMMIT is followed, as records. *)
LEMMA CommitInv == ASSUME SqlInv, NEW w \in Writers, Commit(w) PROVE SqlInv'
<1>1. /\ CommitRows(w) /\ Answer(w, "ok", call[w].inserted)
      /\ UNCHANGED <<setup, next_sequence, next_event, checkpoint, delivered>>
  BY DEF Commit, reader
<1>2. PICK o \in Call : o = call[w]
  BY OneCall
<1>3. o.inserted \in SUBSET Row
  BY DEF Call
<1> DEFINE c == [o EXCEPT !.pc = "done", !.inserted = {}, !.answer = "ok", !.value = o.inserted]
<1>4. /\ c \in Call
      /\ c.pc = "done" /\ c.inserted = {} /\ c.answer = "ok" /\ c.value = o.inserted
      /\ c.event = o.event /\ c.id = o.id /\ c.key = o.key /\ c.path = o.path
      /\ c.seen = o.seen /\ c.expected = o.expected
  BY <1>3 DEF Call
<1>5. call' = [call EXCEPT ![w] = c]
  BY <1>1, <1>2 DEF Answer
<1> HIDE DEF c
<1> QED
  BY <1>1, <1>2, <1>4, <1>5, CommitStep

LEMMA RetryOrFailCall ==
    ASSUME SqlInv, NEW w \in Writers, call[w].pc \in {"begin"} \cup Open, RetryOrFail(w)
    PROVE  \E c \in Call :
              /\ call' = [call EXCEPT ![w] = c]
              /\ c.pc \in {"begin", "done"} /\ c.inserted = {}
              /\ c.event = call[w].event /\ c.id = call[w].id /\ c.key = call[w].key
              /\ c.path = call[w].path /\ c.seen = call[w].seen /\ c.expected = call[w].expected
              /\ c.pc = "begin" => c.answer = "none"
              /\ c.answer # "ok"
              /\ c.pc = "done" => Answer(w, "store_error", {})
<1>1. PICK o \in Call : o = call[w]
  BY OneCall
<1>2. o.answer = "none"
  BY <1>1, OneCall DEF CallOK, Open
<1>3. CASE Answer(w, "store_error", {})
  <2> DEFINE c == [o EXCEPT !.pc = "done", !.inserted = {}, !.answer = "store_error", !.value = {}]
  <2>1. /\ c \in Call
        /\ c.pc = "done" /\ c.inserted = {} /\ c.answer = "store_error"
        /\ c.event = o.event /\ c.id = o.id /\ c.key = o.key /\ c.path = o.path
        /\ c.seen = o.seen /\ c.expected = o.expected
    BY DEF Call
  <2>2. call' = [call EXCEPT ![w] = c]
    BY <1>1, <1>3 DEF Answer
  <2> HIDE DEF c
  <2> QED
    BY <1>1, <1>3, <2>1, <2>2
<1>4. CASE call' = [call EXCEPT ![w].pc = "begin", ![w].attempt = 2, ![w].inserted = {}]
  <2> DEFINE c == [o EXCEPT !.pc = "begin", !.attempt = 2, !.inserted = {}]
  <2>1. /\ c \in Call
        /\ c.pc = "begin" /\ c.inserted = {} /\ c.answer = o.answer
        /\ c.event = o.event /\ c.id = o.id /\ c.key = o.key /\ c.path = o.path
        /\ c.seen = o.seen /\ c.expected = o.expected
    BY DEF Call
  <2>2. call' = [call EXCEPT ![w] = c]
    BY <1>1, <1>4
  <2> HIDE DEF c
  <2> QED
    BY <1>1, <1>2, <2>1, <2>2
<1> QED
  BY <1>3, <1>4 DEF RetryOrFail

LEMMA LoseCommitReplyInv == ASSUME SqlInv, NEW w \in Writers, LoseCommitReply(w) PROVE SqlInv'
<1>1. /\ CommitRows(w) /\ RetryOrFail(w) /\ call[w].pc \in {"begin"} \cup Open
      /\ UNCHANGED <<setup, next_sequence, next_event, checkpoint, delivered>>
  BY DEF LoseCommitReply, CommitRows, RetryOrFail, reader, Open
<1>2. PICK c \in Call :
         /\ call' = [call EXCEPT ![w] = c]
         /\ c.pc \in {"begin", "done"} /\ c.inserted = {}
         /\ c.event = call[w].event /\ c.id = call[w].id /\ c.key = call[w].key
         /\ c.path = call[w].path /\ c.seen = call[w].seen /\ c.expected = call[w].expected
         /\ c.pc = "begin" => c.answer = "none"
         /\ c.answer # "ok"
  BY <1>1, RetryOrFailCall
<1> QED
  BY <1>1, <1>2, CommitStep

LEMMA LoseConnectionInv == ASSUME SqlInv, NEW w \in Writers, LoseConnection(w) PROVE SqlInv'
<1>1. RetryOrFail(w) /\ call[w].pc \in {"begin"} \cup Open /\ call[w].pc # "idle" /\ Reads
  BY OneCall DEF LoseConnection, RetryOrFail, reader, database, Open, Reads
<1>2. PICK c \in Call :
         /\ call' = [call EXCEPT ![w] = c]
         /\ c.pc \in {"begin", "done"} /\ c.inserted = {}
         /\ c.event = call[w].event /\ c.id = call[w].id /\ c.key = call[w].key
         /\ c.path = call[w].path /\ c.seen = call[w].seen /\ c.expected = call[w].expected
         /\ c.pc = "begin" => c.answer = "none"
         /\ c.answer # "ok"
         /\ c.pc = "done" => Answer(w, "store_error", {})
  BY <1>1, RetryOrFailCall
<1>3. CASE c.pc = "done"
  BY <1>1, <1>2, <1>3, AnswerStep
<1>4. CASE c.pc = "begin"
  <2>1. c.answer = call[w].answer
    BY <1>1, <1>2, <1>4, OneCall DEF CallOK, Open
  <2> QED
    BY <1>1, <1>2, <1>4, <2>1, AgainStep
<1> QED
  BY <1>2, <1>3, <1>4

LEMMA BusyTimeoutInv == ASSUME SqlInv, NEW w \in Writers, BusyTimeout(w) PROVE SqlInv'
<1>1. Conflict(w) /\ call[w].pc \in {"begin", "revision", "insert"} /\ Reads
  BY OneCall DEF BusyTimeout, reader, database, Reads
<1> QED
  BY <1>1, ConflictStep

LEMMA FailuresInv == ASSUME SqlInv, NEW w \in Writers, WaitFails(w) \/ ReadFails(w) PROVE SqlInv'
<1>1. Answer(w, "store_error", {}) /\ call[w].pc # "idle" /\ Reads
  BY OneCall DEF WaitFails, ReadFails, reader, database, Reads
<1> QED
  BY <1>1, AnswerStep

LEMMA ReturnInv == ASSUME SqlInv, NEW w \in Writers, Return(w) \/ Crash(w) PROVE SqlInv'
<1>1. PICK c \in Call : c = Idle
  BY DEF Idle, Call, AnyRevision, Expected
<1>2. call' = [call EXCEPT ![w] = c]
  BY <1>1 DEF Return, Crash
<1>3. /\ c.pc = "idle" /\ c.path = "none" /\ c.key = NoKey /\ c.inserted = {} /\ c.answer = "none"
  BY <1>1 DEF Idle
<1>4. /\ UNCHANGED <<setup, events, idempotency, checkpoint, delivered>>
      /\ next_sequence' \in Nat /\ next_sequence <= next_sequence'
      /\ next_event' \in Nat /\ next_event <= next_event'
  BY OneCall DEF Return, Crash, database, reader
<1>5. CallOK(setup, events, idempotency, next_sequence', next_event', c)
  BY <1>3 DEF CallOK, AnswerOK, Holding, Open
<1>6. \A v \in Writers \ {w} : PairOK(setup, c, call[v])
  BY <1>3, PairIdle
<1> QED
  BY <1>2, <1>4, <1>5, <1>6, CallStep

(* A poll moves the checkpoint to the end of a feed that has no holes. *)
LEMMA PollInv == ASSUME SqlInv, Poll PROVE SqlInv'
<1> DEFINE new == {row.sequence : row \in {r \in events : r.sequence > checkpoint}}
<1>1. /\ new # {} /\ delivered' = delivered \cup new
      /\ checkpoint' = CHOOSE s \in new : \A t \in new : t <= s
      /\ UNCHANGED <<setup, events, idempotency, next_sequence, next_event, call>>
  BY DEF Poll, database
<1>2. /\ FeedOK(setup, events, checkpoint, delivered) /\ events \in SUBSET Row
      /\ IsFiniteSet(events) /\ SequencesOK(setup, events, next_sequence)
  BY DEF SqlInv, DbOK
<1>3. FeedOK(setup, events, checkpoint', delivered')
  <2> SUFFICES ASSUME setup.dialect = "sqlite"
               PROVE  /\ checkpoint' \in Nat /\ checkpoint' <= Cardinality(events)
                      /\ \A row \in events : row.sequence <= checkpoint' => row.sequence \in delivered'
    BY DEF FeedOK
  <2>1. /\ checkpoint \in Nat /\ checkpoint <= Cardinality(events)
        /\ \A row \in events : row.sequence <= checkpoint => row.sequence \in delivered
        /\ Cardinality(events) \in Nat
    BY <1>2, FS_CardinalityType DEF FeedOK
  <2> DEFINE n == Cardinality(events)
  <2>2. {row.sequence : row \in events} = 1..n
    BY <1>2 DEF SequencesOK
  <2>3. \A t \in new : t \in 1..n /\ t > checkpoint
    BY <2>2
  <2>4. n \in new
    <3>1. PICK t \in new : TRUE
      BY <1>1
    <3>2. n \in 1..n /\ n > checkpoint
      BY <2>1, <2>3, <3>1
    <3>3. PICK row \in events : row.sequence = n
      BY <2>2, <3>2
    <3> QED
      BY <3>2, <3>3
  <2> HIDE DEF new, n
  <2>5. \A t \in new : t <= n
    BY <2>1, <2>3 DEF n
  <2>6. checkpoint' \in new /\ \A t \in new : t <= checkpoint'
    BY <1>1, <2>4, <2>5
  <2>7. checkpoint' = n
    <3>1. checkpoint' \in Nat /\ n \in Nat /\ n <= checkpoint' /\ checkpoint' <= n
      BY <2>1, <2>3, <2>4, <2>5, <2>6 DEF n
    <3> QED
      BY <3>1
  <2>8. ASSUME NEW row \in events
        PROVE  row.sequence \in delivered'
    <3>1. row.sequence \in 1..n
      BY <2>2
    <3>2. row.sequence <= checkpoint => row.sequence \in delivered
      BY <2>1
    <3>3. row.sequence > checkpoint => row.sequence \in new
      BY DEF new
    <3> QED
      BY <1>1, <2>1, <3>1, <3>2, <3>3 DEF n
  <2> QED
    BY <2>1, <2>7, <2>8 DEF n
<1> QED
  BY <1>1, <1>3 DEF SqlInv

-------------------------------------------------------------------------------
LEMMA SqlInit == Init => SqlInv
<1> SUFFICES ASSUME Init PROVE SqlInv
  OBVIOUS
<1>1. /\ setup \in Setups /\ setup.legacy \subseteq Ids
      /\ IsFiniteSet(setup.legacy) /\ Cardinality(setup.legacy) <= 1
  BY SqlAssumption DEF Init, SqlAssumption
<1>2. /\ events = {LegacyRow(id) : id \in setup.legacy}
      /\ idempotency = [k \in Keys |-> {}]
      /\ next_sequence = 1 + Cardinality(setup.legacy)
      /\ next_event = 1 /\ checkpoint = 0 /\ delivered = {}
      /\ call = [w \in Writers |-> Idle]
  BY DEF Init
<1>3. \A id \in Ids :
         /\ LegacyRow(id) \in Row /\ LegacyRow(id).id = id /\ LegacyRow(id).event = 0
         /\ LegacyRow(id).revision = 1 /\ LegacyRow(id).sequence = 1
         /\ LegacyRow(id).encoding = "legacy" /\ LegacyRow(id).key = NoKey
  BY DEF LegacyRow, Row
<1>4. /\ Idle \in Call /\ Idle.pc = "idle" /\ Idle.path = "none" /\ Idle.key = NoKey
      /\ Idle.inserted = {} /\ Idle.answer = "none"
  BY DEF Idle, Call, AnyRevision, Expected
<1>5. \/ setup.legacy = {} /\ events = {} /\ next_sequence = 1
      \/ \E id \in Ids : setup.legacy = {id} /\ events = {LegacyRow(id)} /\ next_sequence = 2
  <2>1. CASE setup.legacy = {}
    BY <1>2, <2>1, FS_EmptySet
  <2>2. CASE setup.legacy # {}
    <3>1. PICK id \in Ids : id \in setup.legacy
      BY <1>1, <2>2
    <3>2. setup.legacy = {id} /\ Cardinality(setup.legacy) = 1
      <4>1. Cardinality({id}) = 1 /\ IsFiniteSet({id}) /\ {id} \subseteq setup.legacy
        BY <3>1, FS_Singleton
      <4>2. Cardinality(setup.legacy) \in Nat /\ Cardinality({id}) <= Cardinality(setup.legacy)
        BY <1>1, <4>1, FS_Subset, FS_CardinalityType
      <4>3. Cardinality(setup.legacy) = Cardinality({id})
        BY <1>1, <4>1, <4>2
      <4> QED
        BY <1>1, <4>1, <4>3, FS_Subset
    <3> QED
      BY <1>2, <3>2
  <2> QED
    BY <2>1, <2>2
<1>6. /\ events \in SUBSET Row /\ IsFiniteSet(events) /\ next_sequence \in Nat
      /\ \A row \in events : row.event = 0 /\ row.sequence = 1 /\ row.key = NoKey
      /\ \A r, t \in events : r = t
      /\ SequencesOK(setup, events, next_sequence)
  <2>1. CASE events = {} /\ next_sequence = 1
    <3>1. Cardinality(events) = 0 /\ IsFiniteSet(events)
      BY <2>1, FS_EmptySet
    <3> QED
      BY <2>1, <3>1 DEF SequencesOK
  <2>2. ASSUME NEW id \in Ids, events = {LegacyRow(id)}, next_sequence = 2
        PROVE  <1>6
    <3>1. Cardinality({LegacyRow(id)}) = 1 /\ IsFiniteSet({LegacyRow(id)})
      BY FS_Singleton
    <3>2. {row.sequence : row \in events} = {1} /\ {1} = 1..1
      BY <1>3, <2>2
    <3>3. SequencesOK(setup, events, next_sequence)
      BY <1>3, <2>2, <3>1, <3>2 DEF SequencesOK
    <3> QED
      BY <1>3, <2>2, <3>1, <3>3
  <2> QED
    BY <1>5, <2>1, <2>2
<1>7. ASSUME NEW id \in Ids
      PROVE  StreamOK(setup, events, id)
  <2>1. CASE id \in setup.legacy
    <3>1. Rows(events, id) = {LegacyRow(id)}
      BY <1>2, <1>1, <1>3, <2>1 DEF Rows
    <3>2. RowsAs(events, id, "legacy") = {LegacyRow(id)} /\ RowsAs(events, id, "current") = {}
      BY <1>3, <3>1 DEF RowsAs
    <3>3. Size(events, id) = 1 /\ First(setup, id) = 2
      BY <2>1, <3>1, FS_Singleton DEF Size, First
    <3>4. /\ Revisions(Rows(events, id)) = {1}
          /\ Revisions(RowsAs(events, id, "legacy")) = {1}
          /\ Revisions(RowsAs(events, id, "current")) = {}
      BY <1>3, <3>1, <3>2 DEF Revisions
    <3>5. {1} = 1..1 /\ {} = 2..1 /\ 2 - 1 = 1
      OBVIOUS
    <3> QED
      BY <3>3, <3>4, <3>5 DEF StreamOK
  <2>2. CASE id \notin setup.legacy
    <3>1. Rows(events, id) = {}
      BY <1>1, <1>2, <1>3, <2>2 DEF Rows
    <3>2. \A e : RowsAs(events, id, e) = {}
      BY <3>1 DEF RowsAs
    <3>3. Size(events, id) = 0 /\ First(setup, id) = 1
      BY <2>2, <3>1, FS_EmptySet DEF Size, First
    <3>4. /\ Revisions(Rows(events, id)) = {}
          /\ Revisions(RowsAs(events, id, "legacy")) = {}
          /\ Revisions(RowsAs(events, id, "current")) = {}
      BY <3>1, <3>2 DEF Revisions
    <3>5. {} = 1..0 /\ 1 - 1 = 0
      OBVIOUS
    <3> QED
      BY <3>3, <3>4, <3>5 DEF StreamOK
  <2> QED
    BY <2>1, <2>2
<1>8. \A k \in Keys : KeyOK(events, idempotency, k)
  <2>1. \A k \in Keys : k # NoKey
    BY SqlAssumption DEF SqlAssumption
  <2> QED
    BY <1>2, <1>6, <2>1 DEF KeyOK
<1>9. DbOK(setup, events, idempotency, next_sequence, next_event)
  <2>1. UniqueRows(events)
    BY <1>6 DEF UniqueRows
  <2>2. \A row \in events : row.event < next_event
    BY <1>2, <1>6
  <2> QED
    BY <1>6, <1>7, <1>8, <2>1, <2>2 DEF DbOK
<1>10. \A w \in Writers : CallOK(setup, events, idempotency, next_sequence, next_event, call[w])
  BY <1>2, <1>4 DEF CallOK, AnswerOK, Holding, Open
<1>11. \A v, w \in Writers : v # w => PairOK(setup, call[v], call[w])
  <2>1. \A v \in Writers : call[v].pc = "idle"
    BY <1>2, <1>4
  <2> QED
    BY <2>1, PairIdle
<1>12. FeedOK(setup, events, checkpoint, delivered)
  <2>1. Cardinality(events) \in Nat
    BY <1>6, FS_CardinalityType
  <2> QED
    BY <1>2, <1>6, <2>1 DEF FeedOK
<1>13. idempotency \in [Keys -> SUBSET Row] /\ call \in [Writers -> Call]
  BY <1>2, <1>4
<1> QED
  BY <1>1, <1>2, <1>6, <1>9, <1>10, <1>11, <1>12, <1>13 DEF SqlInv

LEMMA SqlNext == SqlInv /\ [Next]_vars => SqlInv'
<1> SUFFICES ASSUME SqlInv, [Next]_vars PROVE SqlInv'
  OBVIOUS
<1>1. ASSUME NEW w \in Writers, Step(w) PROVE SqlInv'
  BY <1>1, LoadIdempotentInv, LoadAndHandleInv, BeginInv, ReserveInv, ReadRevisionInv,
     InsertEventsInv, CommitInv, ReturnInv, Zenon DEF Step
<1>2. ASSUME NEW w \in Writers,
             \/ Invoke(w) \/ BusyTimeout(w) \/ LoseConnection(w) \/ WaitFails(w)
             \/ ReadFails(w) \/ LoseCommitReply(w) \/ Crash(w)
      PROVE  SqlInv'
  BY <1>2, InvokeInv, BusyTimeoutInv, LoseConnectionInv, FailuresInv, LoseCommitReplyInv,
     ReturnInv, Zenon
<1>3. CASE Poll
  BY <1>3, PollInv
<1>4. CASE UNCHANGED vars
  BY <1>4 DEF vars, SqlInv
<1> QED
  BY <1>1, <1>2, <1>3, <1>4, Zenon DEF Next

LEMMA SqlAlways == Spec => []SqlInv
BY SqlInit, SqlNext, PTL DEF Spec

(* A call that waits for its key's reservation does not answer with a      *)
(* concurrency error: it goes on, polls again, times out or fails.         *)
LEMMA WaitingForKey ==
    ASSUME SqlInv, Next, NEW w \in Writers, call[w].pc = "reserve"
    PROVE  call'[w].answer # "concurrency_error"
<1>1. call \in [Writers -> Call] /\ call[w] \in Call /\ call[w].answer = "none"
  BY DEF SqlInv, CallOK
<1>2. ASSUME call'[w] = call[w]
      PROVE  call'[w].answer # "concurrency_error"
  BY <1>1, <1>2
<1>3. ASSUME NEW a, NEW value, a # "concurrency_error", Answer(w, a, value)
      PROVE  call'[w].answer # "concurrency_error"
  BY <1>1, <1>3 DEF Answer, Call
<1>4. ASSUME NEW v \in Writers, v # w,
             \/ Invoke(v) \/ Step(v) \/ BusyTimeout(v) \/ LoseConnection(v) \/ WaitFails(v)
             \/ ReadFails(v) \/ LoseCommitReply(v) \/ Crash(v)
      PROVE  call'[w] = call[w]
  <2>1. (\E pc : Goto(v, pc)) \/ (\E a, value : Answer(v, a, value)) => call'[w] = call[w]
    BY <1>1, <1>4 DEF Goto, Answer
  <2>2. Conflict(v) => call'[w] = call[w]
    BY <1>1, <1>4, <2>1 DEF Conflict
  <2>3. Invoke(v) => call'[w] = call[w]
    BY <1>1, <1>4 DEF Invoke
  <2>4. RetryOrFail(v) => call'[w] = call[w]
    BY <1>1, <1>4, <2>1 DEF RetryOrFail
  <2>5. Return(v) \/ Crash(v) => call'[w] = call[w]
    BY <1>1, <1>4 DEF Return, Crash
  <2>6. LoadIdempotent(v) \/ LoadAndHandle(v) => call'[w] = call[w]
    BY <1>1, <1>4, <2>1 DEF LoadIdempotent, LoadAndHandle
  <2>7. Begin(v) \/ Reserve(v) => call'[w] = call[w]
    BY <1>1, <1>4, <2>1 DEF Begin, Reserve
  <2>8. ReadRevision(v) \/ InsertEvents(v) => call'[w] = call[w]
    BY <1>1, <1>4, <2>1, <2>2 DEF ReadRevision, InsertEvents
  <2>9. Commit(v) \/ LoseCommitReply(v) \/ LoseConnection(v) \/ BusyTimeout(v) =>
           call'[w] = call[w]
    BY <2>1, <2>2, <2>4 DEF Commit, LoseCommitReply, LoseConnection, BusyTimeout
  <2>10. WaitFails(v) \/ ReadFails(v) => call'[w] = call[w]
    BY <2>1 DEF WaitFails, ReadFails
  <2> QED
    BY <1>4, <2>3, <2>5, <2>6, <2>7, <2>8, <2>9, <2>10, Zenon DEF Step
<1>5. ASSUME \/ Invoke(w) \/ Step(w) \/ BusyTimeout(w) \/ LoseConnection(w) \/ WaitFails(w)
             \/ ReadFails(w) \/ LoseCommitReply(w) \/ Crash(w)
      PROVE  Reserve(w) \/ RetryOrFail(w) \/ WaitFails(w) \/ Crash(w)
  BY <1>5 DEF Step, Invoke, LoadIdempotent, LoadAndHandle, Begin, ReadRevision, InsertEvents,
              Commit, CommitRows, Return, BusyTimeout, LoseConnection, ReadFails, LoseCommitReply
<1>6. CASE Reserve(w)
  <2>1. \/ Goto(w, "revision")
        \/ call' = [call EXCEPT ![w].polls = @ - 1, ![w].pc = "begin"]
        \/ Answer(w, "timeout", {})
    BY <1>6 DEF Reserve
  <2>2. Goto(w, "revision") => call'[w].answer = call[w].answer
    BY <1>1 DEF Goto, Call
  <2>3. call' = [call EXCEPT ![w].polls = @ - 1, ![w].pc = "begin"] =>
           call'[w].answer = call[w].answer
    BY <1>1 DEF Call
  <2> QED
    BY <1>1, <1>3, <2>1, <2>2, <2>3
<1>7. CASE RetryOrFail(w)
  <2>1. \/ call' = [call EXCEPT ![w].pc = "begin", ![w].attempt = 2, ![w].inserted = {}]
        \/ Answer(w, "store_error", {})
    BY <1>7 DEF RetryOrFail
  <2>2. call' = [call EXCEPT ![w].pc = "begin", ![w].attempt = 2, ![w].inserted = {}] =>
           call'[w].answer = call[w].answer
    BY <1>1 DEF Call
  <2> QED
    BY <1>1, <1>3, <2>1, <2>2
<1>8. CASE WaitFails(w)
  BY <1>3, <1>8 DEF WaitFails
<1>9. CASE Crash(w)
  <2>1. call'[w] = Idle
    BY <1>1, <1>9 DEF Crash
  <2> QED
    BY <2>1 DEF Idle
<1>10. CASE Poll
  BY <1>2, <1>10 DEF Poll
<1> QED
  BY <1>2, <1>4, <1>5, <1>6, <1>7, <1>8, <1>9, <1>10, Zenon DEF Next

-------------------------------------------------------------------------------
(* Streams stay dense and linear although every transaction reads MAX      *)
(* before any of them commits: see StreamsAreLinear.  The unique keys do   *)
(* it, and for a stream with legacy rows the expected revision.            *)
THEOREM SqlStreamsAreLinear == Spec => []StreamsAreLinear
<1>1. SqlInv => StreamsAreLinear
  BY DEF SqlInv, DbOK, StreamOK, UniqueRows, Revisions, Rows, Size, Stream, StreamsAreLinear
<1> QED
  BY <1>1, SqlAlways, PTL

(* A key and its events are committed together and once, whichever         *)
(* connection is lost when: see KeysCommitOnce.                            *)
THEOREM SqlKeysCommitOnce == Spec => []KeysCommitOnce
<1>1. SqlInv => KeysCommitOnce
  <2> SUFFICES ASSUME SqlInv, NEW k \in Keys
               PROVE  /\ idempotency[k] = {row \in events : row.key = k}
                      /\ Cardinality(idempotency[k]) <= 1
    BY DEF KeysCommitOnce
  <2>1. KeyOK(events, idempotency, k)
    BY DEF SqlInv, DbOK
  <2>2. CASE idempotency[k] = {}
    BY <2>1, <2>2, FS_EmptySet DEF KeyOK
  <2>3. CASE idempotency[k] # {}
    <3>1. PICK row : idempotency[k] = {row}
      BY <2>1, <2>3 DEF KeyOK
    <3>2. Cardinality({row}) = 1
      BY FS_Singleton
    <3> QED
      BY <2>1, <3>1, <3>2 DEF KeyOK
  <2> QED
    BY <2>2, <2>3
<1> QED
  BY <1>1, SqlAlways, PTL

(* Ok is answered with committed events only, under a key with the ones    *)
(* the key was completed with: see OkIsCommitted.                          *)
THEOREM SqlOkIsCommitted == Spec => []OkIsCommitted
<1>1. SqlInv => OkIsCommitted
  BY DEF SqlInv, CallOK, AnswerOK, OkIsCommitted
<1> QED
  BY <1>1, SqlAlways, PTL

(* In SQLite no event becomes visible behind a projection's checkpoint,    *)
(* whatever was rolled back: see SqliteFeedHasNoLateEvents.                *)
THEOREM SqliteFeedIsInOrder == Spec => []SqliteFeedHasNoLateEvents
<1>1. SqlInv => SqliteFeedHasNoLateEvents
  BY DEF SqlInv, FeedOK, SqliteFeedHasNoLateEvents, FeedHasNoLateEvents, Dialect
<1> QED
  BY <1>1, SqlAlways, PTL

(* An idempotent transaction that ends in a concurrency error leaves its   *)
(* key free: see ConflictLeavesKeyFree.  Past the reservation the key is   *)
(* free because no other transaction can hold it; before it no conflict    *)
(* is answered.                                                            *)
THEOREM SqlConflictsLeaveKeysFree == Spec => ConflictLeavesKeyFree
<1> DEFINE Free == \A w \in Writers :
                      /\ call[w].path = "idempotent"
                      /\ InTransaction(w)
                      /\ call'[w].answer = "concurrency_error"
                      => idempotency[call[w].key] = {}
<1>1. SqlInv /\ [Next]_vars => [Free]_vars
  <2> SUFFICES ASSUME SqlInv, Next, NEW w \in Writers, call[w].path = "idempotent",
                      InTransaction(w), call'[w].answer = "concurrency_error"
               PROVE  idempotency[call[w].key] = {}
    OBVIOUS
  <2>1. call[w].pc \in Holding
    BY WaitingForKey DEF InTransaction, Holding
  <2> QED
    BY <2>1 DEF SqlInv, CallOK
<1>2. Spec => [][Free]_vars
  <2> HIDE DEF Free
  <2> QED
    BY <1>1, SqlAlways, PTL DEF Spec
<1> QED
  BY <1>2 DEF ConflictLeavesKeyFree

-------------------------------------------------------------------------------
(***************************************************************************)
(* The refinement of AtomicRequests.                                       *)
(***************************************************************************)
EntrySet == [event : Nat, key : Keys \cup {NoKey}, old : BOOLEAN]

(* A stream as its rows in the order of their revisions.                   *)
RowOf(E, id, r) == CHOOSE row \in Rows(E, id) : row.revision = r
LogOf(E) == [id \in Ids |-> [r \in 1..Size(E, id) |-> EntryOf(RowOf(E, id, r))]]

Taken(E, c) == \E row \in E : row.event = c.event

StatusOf(E, c) ==
    IF c.pc = "done" THEN "answered" ELSE IF Taken(E, c) THEN "applied" ELSE "pending"

RequestOf(E, c) ==
    IF c.pc = "idle" THEN Atomic!NoRequest
    ELSE Atomic!Request(StatusOf(E, c), c.path, c.key, c.id, c.event, c.answer,
                        {row.event : row \in c.value})

(* What load returns of a stream. *)
LoadOf(E, id) ==
    IF RowsAs(E, id, "current") # {} THEN RowsAs(E, id, "current") ELSE RowsAs(E, id, "legacy")

EventIds(rows) == {row.event : row \in rows}

Agrees(E, id, key) == Accepts({row.key : row \in LoadOf(E, id)}, key)

Going == {"lookup", "load", "begin"} \cup Open

(* A command was accepted on the events up to the revision it expects.     *)
Decided(E, c) ==
    /\ c.pc \in {"begin"} \cup Open /\ c.path # "append_any" =>
          /\ c.expected.kind = "exact" /\ c.expected.revision <= Size(E, c.id)
          /\ c.expected.revision = Size(E, c.id) => Agrees(E, c.id, c.key)
    /\ c.pc \in {"insert", "commit"} /\ c.path # "append_any" => c.actual = c.expected.revision
    /\ c.pc = "commit" => \A row \in c.inserted : row.revision = c.actual + 1
    /\ c.pc \in {"lookup", "load"} => c.path # "append_any" /\ ~Taken(E, c)
    /\ c.pc # "done" => c.value = {}

AllDecided == \A w \in Writers : Decided(events, call[w])

-------------------------------------------------------------------------------
(* The facts about the events table that follow. *)
LEMMA Table ==
    ASSUME SqlInv
    PROVE  /\ events \in SUBSET Row /\ IsFiniteSet(events)
           /\ \A id \in Ids : StreamOK(setup, events, id)
           /\ UniqueRows(events)
           /\ \A row \in events : row.event < next_event
           /\ call \in [Writers -> Call] /\ next_event \in Nat
BY DEF SqlInv, DbOK

LEMMA MappedState ==
    /\ AbstractLog = LogOf(events)
    /\ AbstractRequest = [w \in Writers |-> RequestOf(events, call[w])]
<1>2. AbstractLog = LogOf(events)
  <2>1. \A id, r : RowAt(id, r) = RowOf(events, id, r)
    BY DEF RowAt, RowOf, Stream, Rows
  <2>2. \A id : Cardinality(Stream(id)) = Size(events, id)
    BY DEF Size, Stream, Rows
  <2> QED
    BY <2>1, <2>2 DEF AbstractLog, LogOf
<1>3. \A w \in Writers : Status(w) = StatusOf(events, call[w])
  BY DEF Status, StatusOf, EventTaken, Taken
<1>4. AbstractRequest = [w \in Writers |-> RequestOf(events, call[w])]
  BY <1>3 DEF AbstractRequest, RequestOf, Atomic!NoRequest, Atomic!Request
<1> QED
  BY <1>2, <1>4

(* A stream has one row at each revision. *)
LEMMA RowsByRevision ==
    ASSUME NEW s, NEW E \in SUBSET Row, IsFiniteSet(E), NEW id \in Ids, StreamOK(s, E, id)
    PROVE  /\ Size(E, id) \in Nat
           /\ \A row \in Rows(E, id) : row.revision \in 1..Size(E, id) /\ RowOf(E, id, row.revision) = row
           /\ \A r \in 1..Size(E, id) : RowOf(E, id, r) \in Rows(E, id) /\ RowOf(E, id, r).revision = r
<1>1. PICK S : S = Rows(E, id)
  OBVIOUS
<1>2. IsFiniteSet(S) /\ S \in SUBSET Row /\ S \subseteq E
  <2>1. S \subseteq E
    BY <1>1 DEF Rows
  <2> QED
    BY <2>1, FS_Subset
<1>3. PICK n \in Nat : n = Cardinality(S)
  BY <1>2, FS_CardinalityType
<1>4. Size(E, id) = n
  BY <1>1, <1>3 DEF Size
<1>5. {row.revision : row \in S} = 1..n
  BY <1>1, <1>4 DEF StreamOK, Revisions
<1>6. PICK f : f = [row \in S |-> row.revision]
  OBVIOUS
<1>7. f \in Surjection(S, 1..n)
  <2>1. f \in [S -> 1..n]
    BY <1>5, <1>6
  <2>2. \A r \in 1..n : \E row \in S : f[row] = r
    BY <1>5, <1>6
  <2> QED
    BY <2>1, <2>2 DEF Surjection
<1>8. Cardinality(1..n) = n
  BY FS_Interval
<1>9. f \in Injection(S, 1..n)
  BY <1>2, <1>3, <1>7, <1>8, FS_Surjection
<1>10. \A r, t \in S : r.revision = t.revision => r = t
  BY <1>6, <1>9 DEF Injection, IsInjective
<1>11. ASSUME NEW r \in 1..n
       PROVE  RowOf(E, id, r) \in S /\ RowOf(E, id, r).revision = r
  <2>1. \E row \in S : row.revision = r
    BY <1>5
  <2> QED
    BY <1>1, <2>1 DEF RowOf
<1>12. \A row \in S : row.revision \in 1..n
  BY <1>5
<1>13. \A row \in S : RowOf(E, id, row.revision) = row
  BY <1>10, <1>11, <1>12
<1> QED
  BY <1>1, <1>4, <1>11, <1>12, <1>13

(* The log of a stream is a sequence, and its entries are its rows'. *)
LEMMA LogOfStream ==
    ASSUME NEW s, NEW E \in SUBSET Row, IsFiniteSet(E), NEW id \in Ids, StreamOK(s, E, id)
    PROVE  /\ LogOf(E)[id] \in Seq(EntrySet) /\ Len(LogOf(E)[id]) = Size(E, id)
           /\ {LogOf(E)[id][n] : n \in 1..Len(LogOf(E)[id])} = {EntryOf(row) : row \in Rows(E, id)}
<1>1. PICK n \in Nat : n = Size(E, id)
  BY RowsByRevision
<1>2. LogOf(E)[id] = [r \in 1..n |-> EntryOf(RowOf(E, id, r))]
  BY <1>1 DEF LogOf
<1>3. \A r \in 1..n : RowOf(E, id, r) \in Rows(E, id)
  BY <1>1, RowsByRevision
<1>4. \A row \in Rows(E, id) : EntryOf(row) \in EntrySet
  BY DEF Rows, Row, EntryOf, EntrySet
<1>5. \A r \in 1..n : EntryOf(RowOf(E, id, r)) \in EntrySet
  BY <1>3, <1>4
<1>6. LogOf(E)[id] \in Seq(EntrySet) /\ Len(LogOf(E)[id]) = n
  BY <1>2, <1>5
<1>7. \A row \in Rows(E, id) : row.revision \in 1..n /\ RowOf(E, id, row.revision) = row
  BY <1>1, RowsByRevision
<1>8. {LogOf(E)[id][r] : r \in 1..n} = {EntryOf(row) : row \in Rows(E, id)}
  <2>1. \A r \in 1..n : LogOf(E)[id][r] \in {EntryOf(row) : row \in Rows(E, id)}
    BY <1>2, <1>3
  <2>2. \A row \in Rows(E, id) : \E r \in 1..n : LogOf(E)[id][r] = EntryOf(row)
    <3> SUFFICES ASSUME NEW row \in Rows(E, id)
                 PROVE  \E r \in 1..n : LogOf(E)[id][r] = EntryOf(row)
      OBVIOUS
    <3>1. row.revision \in 1..n /\ RowOf(E, id, row.revision) = row
      BY <1>7
    <3>2. LogOf(E)[id][row.revision] = EntryOf(row)
      BY <1>2, <3>1
    <3> QED
      BY <3>1, <3>2
  <2> QED
    BY <2>1, <2>2
<1> QED
  BY <1>1, <1>6, <1>8

LEMMA EntriesAre ==
    ASSUME SqlInv, NEW id \in Ids
    PROVE  Atomic!Entries(id) = {EntryOf(row) : row \in Rows(events, id)}
<1>1. AbstractLog = LogOf(events)
  BY MappedState
<1>2. events \in SUBSET Row /\ IsFiniteSet(events) /\ StreamOK(setup, events, id)
  BY Table
<1>3. {LogOf(events)[id][n] : n \in 1..Len(LogOf(events)[id])} = {EntryOf(row) : row \in Rows(events, id)}
  BY <1>2, LogOfStream
<1> QED
  BY <1>1, <1>3 DEF Atomic!Entries

(* What the key's record holds is what the key has led to. *)
LEMMA ResultIs ==
    ASSUME SqlInv, NEW k \in Keys
    PROVE  Atomic!Result(k) = {row.event : row \in idempotency[k]}
<1>1. \A id \in Ids : Atomic!Entries(id) = {EntryOf(row) : row \in Rows(events, id)}
  BY EntriesAre
<1>2. PICK S : S = UNION {Atomic!Entries(id) : id \in Ids}
  OBVIOUS
<1>3. S = {EntryOf(row) : row \in events}
  <2>1. \A e \in S : \E row \in events : e = EntryOf(row)
    BY <1>1, <1>2 DEF Rows
  <2>2. ASSUME NEW row \in events
        PROVE  EntryOf(row) \in S
    <3>1. row.id \in Ids
      BY Table DEF Row
    <3>2. EntryOf(row) \in Atomic!Entries(row.id)
      BY <1>1, <3>1 DEF Rows
    <3> QED
      BY <1>2, <3>1, <3>2
  <2> QED
    BY <2>1, <2>2
<1>4. idempotency[k] = {row \in events : row.key = k}
  BY OneCall DEF SqlInv, DbOK, KeyOK
<1>5. Atomic!Result(k) = {e.event : e \in {d \in S : d.key = k}}
  BY <1>2 DEF Atomic!Result
<1>6. \A row \in events : EntryOf(row).event = row.event /\ EntryOf(row).key = row.key
  BY DEF EntryOf
<1> QED
  BY <1>3, <1>4, <1>5, <1>6

(* A command is decided on what is visible of its stream. *)
LEMMA AcceptedIs ==
    ASSUME SqlInv, NEW r, r.id \in Ids
    PROVE  Atomic!Accepted(r) = Agrees(events, r.id, r.key)
<1>1. PICK id \in Ids : id = r.id
  OBVIOUS
<1>2. PICK S : S = Rows(events, id)
  OBVIOUS
<1>3. Atomic!Entries(id) = {EntryOf(row) : row \in S}
  BY <1>2, EntriesAre
<1>4. \A row \in S : /\ EntryOf(row).key = row.key
                     /\ EntryOf(row).old <=> row.encoding = "legacy"
                     /\ EntryOf(row).old \in BOOLEAN
                     /\ row.encoding \in {"current", "legacy"}
  BY <1>2, Table DEF EntryOf, Rows, Row
<1>5. PICK T : T = {row \in S : row.encoding = "current"}
  OBVIOUS
<1>6. {e \in Atomic!Entries(id) : ~e.old} = {EntryOf(row) : row \in T}
  BY <1>3, <1>4, <1>5
<1>7. (\E e \in Atomic!Entries(id) : ~e.old) <=> T # {}
  BY <1>3, <1>4, <1>5
<1>8. LoadOf(events, id) = IF T # {} THEN T ELSE S
  <2>1. RowsAs(events, id, "current") = T
    BY <1>2, <1>5 DEF RowsAs
  <2>2. T = {} => RowsAs(events, id, "legacy") = S
    BY <1>2, <1>4, <1>5 DEF RowsAs
  <2> QED
    BY <2>1, <2>2 DEF LoadOf
<1>9. Atomic!Visible(id) = {EntryOf(row) : row \in LoadOf(events, id)}
  BY <1>3, <1>6, <1>7, <1>8 DEF Atomic!Visible
<1>10. LoadOf(events, id) \subseteq S
  BY <1>5, <1>8
<1>11. PICK V : V = LoadOf(events, id)
  OBVIOUS
<1>12. PICK W : W = Atomic!Visible(id)
  OBVIOUS
<1>13. W = {EntryOf(row) : row \in V} /\ V \subseteq S
  BY <1>9, <1>10, <1>11, <1>12
<1>14. {e.key : e \in W} = {row.key : row \in V}
  BY <1>4, <1>13
<1> QED
  BY <1>1, <1>11, <1>12, <1>14 DEF Atomic!Accepted, Agrees

-------------------------------------------------------------------------------
LEMMA MappedNext ==
    /\ AbstractLog' = LogOf(events')
    /\ AbstractRequest' = [w \in Writers |-> RequestOf(events', call'[w])]
<1>1. AbstractLog' = LogOf(events')
  <2>1. \A id, r : RowAt(id, r)' = RowOf(events', id, r)
    BY DEF RowAt, RowOf, Stream, Rows
  <2>2. \A id : Cardinality(Stream(id))' = Size(events', id)
    BY DEF Size, Stream, Rows
  <2> QED
    BY <2>1, <2>2 DEF AbstractLog, LogOf
<1>2. \A w \in Writers : Status(w)' = StatusOf(events', call'[w])
  BY DEF Status, StatusOf, EventTaken, Taken
<1>3. AbstractRequest' = [w \in Writers |-> RequestOf(events', call'[w])]
  BY <1>2 DEF AbstractRequest, RequestOf, Atomic!NoRequest, Atomic!Request
<1> QED
  BY <1>1, <1>3

(* A step of one call that does not touch the table moves one request. *)
LEMMA OneMoves ==
    ASSUME SqlInv, NEW w \in Writers, NEW c, call' = [call EXCEPT ![w] = c], events' = events
    PROVE  /\ AbstractLog' = AbstractLog
           /\ AbstractRequest' = [AbstractRequest EXCEPT ![w] = RequestOf(events, c)]
           /\ AbstractRequest[w] = RequestOf(events, call[w])
           /\ AllDecided /\ Decided(events, c) => AllDecided'
<1>1. /\ AbstractLog = LogOf(events) /\ AbstractLog' = LogOf(events')
      /\ AbstractRequest = [v \in Writers |-> RequestOf(events, call[v])]
      /\ AbstractRequest' = [v \in Writers |-> RequestOf(events', call'[v])]
  BY MappedState, MappedNext
<1>2. call'[w] = c /\ \A v \in Writers \ {w} : call'[v] = call[v]
  BY Table
<1>3. AbstractRequest' = [AbstractRequest EXCEPT ![w] = RequestOf(events, c)]
  BY <1>1, <1>2
<1>4. AllDecided /\ Decided(events, c) => AllDecided'
  <2> SUFFICES ASSUME AllDecided, Decided(events, c), NEW v \in Writers
               PROVE  Decided(events', call'[v])
    BY DEF AllDecided
  <2> QED
    BY <1>2 DEF AllDecided
<1> QED
  BY <1>1, <1>3, <1>4

(* A call between its invocation and its answer. *)
LEMMA GoingRequest ==
    ASSUME NEW E, NEW c, c.pc \in Going
    PROVE  /\ RequestOf(E, c) = Atomic!Request(IF Taken(E, c) THEN "applied" ELSE "pending", c.path, c.key,
                                               c.id, c.event, c.answer, {row.event : row \in c.value})
           /\ c.pc # "idle" /\ c.pc # "done"
BY DEF RequestOf, StatusOf, Going, Open

(* The call goes on: nothing happens to the request. *)
LEMMA Onward ==
    ASSUME SqlInv, AllDecided, NEW w \in Writers, NEW c, call' = [call EXCEPT ![w] = c],
           UNCHANGED <<events, next_event>>, call[w].pc \in Going, c.pc \in Going,
           c.path = call[w].path, c.key = call[w].key, c.id = call[w].id, c.event = call[w].event,
           c.answer = call[w].answer, c.value = call[w].value, Decided(events, c)
    PROVE  AllDecided' /\ UNCHANGED Atomic!requestVars
<1>1. RequestOf(events, c) = RequestOf(events, call[w])
  <2>1. PICK o : o = call[w]
    OBVIOUS
  <2>2. Taken(events, c) <=> Taken(events, o)
    BY <2>1 DEF Taken
  <2>3. StatusOf(events, c) = StatusOf(events, o) /\ c.pc # "idle" /\ o.pc # "idle"
    BY <2>1, <2>2 DEF StatusOf, Going, Open
  <2> QED
    BY <2>1, <2>3 DEF RequestOf
<1>2. /\ AbstractLog' = AbstractLog /\ AllDecided'
      /\ AbstractRequest' = [AbstractRequest EXCEPT ![w] = RequestOf(events, c)]
      /\ AbstractRequest[w] = RequestOf(events, call[w])
  BY OneMoves
<1>3. AbstractRequest' = AbstractRequest
  <2>1. AbstractRequest = [v \in Writers |-> RequestOf(events, call[v])]
    BY MappedState
  <2> QED
    BY <1>1, <1>2, <2>1
<1> QED
  BY <1>2, <1>3 DEF Atomic!requestVars

(* The call is answered, and so is the request. *)
LEMMA Ended ==
    ASSUME SqlInv, AllDecided, NEW w \in Writers, call[w].pc \in Going, NEW a, NEW v, Answer(w, a, v),
           UNCHANGED <<events, next_event>>
    PROVE  /\ AllDecided' /\ AbstractLog' = AbstractLog
           /\ AbstractRequest' = [AbstractRequest EXCEPT ![w] = Atomic!Answered(AbstractRequest[w], a, EventIds(v))]
           /\ AbstractRequest[w].status \in {"pending", "applied"}
           /\ ~Taken(events, call[w]) => AbstractRequest[w].status = "pending"
           /\ AbstractRequest[w].path = call[w].path /\ AbstractRequest[w].key = call[w].key
           /\ AbstractRequest[w].id = call[w].id
<1>1. PICK o \in Call : o = call[w]
  BY Table
<1> DEFINE c == [o EXCEPT !.pc = "done", !.inserted = {}, !.answer = a, !.value = v]
<1>2. /\ c.pc = "done" /\ c.answer = a /\ c.value = v
      /\ c.event = o.event /\ c.id = o.id /\ c.key = o.key /\ c.path = o.path
  BY DEF Call
<1>3. call' = [call EXCEPT ![w] = c]
  BY <1>1 DEF Answer
<1> HIDE DEF c
<1>4. Decided(events, c)
  BY <1>2 DEF Decided, Open
<1>5. /\ AbstractLog' = AbstractLog /\ AllDecided'
      /\ AbstractRequest' = [AbstractRequest EXCEPT ![w] = RequestOf(events, c)]
      /\ AbstractRequest[w] = RequestOf(events, o)
  BY <1>1, <1>3, <1>4, OneMoves
<1>6. RequestOf(events, c) =
        Atomic!Request("answered", o.path, o.key, o.id, o.event, a, EventIds(v))
  BY <1>2 DEF RequestOf, StatusOf, EventIds
<1>7. RequestOf(events, o) =
        Atomic!Request(IF Taken(events, o) THEN "applied" ELSE "pending", o.path, o.key, o.id,
                       o.event, o.answer, {row.event : row \in o.value})
  BY <1>1, GoingRequest
<1>8. /\ AbstractRequest[w].status = IF Taken(events, o) THEN "applied" ELSE "pending"
      /\ AbstractRequest[w].path = o.path /\ AbstractRequest[w].key = o.key
      /\ AbstractRequest[w].id = o.id /\ AbstractRequest[w].event = o.event
  BY <1>5, <1>7 DEF Atomic!Request
<1>9. RequestOf(events, c) = Atomic!Answered(AbstractRequest[w], a, EventIds(v))
  BY <1>6, <1>8 DEF Atomic!Answered
<1> QED
  BY <1>1, <1>5, <1>8, <1>9

(* ... without events. *)
LEMMA EndedEmpty ==
    ASSUME SqlInv, AllDecided, NEW w \in Writers, call[w].pc \in Going, NEW a, Answer(w, a, {}),
           UNCHANGED <<events, next_event>>
    PROVE  /\ AllDecided' /\ AbstractLog' = AbstractLog
           /\ AbstractRequest' = [AbstractRequest EXCEPT ![w] = Atomic!Answered(AbstractRequest[w], a, {})]
           /\ AbstractRequest[w].status \in {"pending", "applied"}
           /\ ~Taken(events, call[w]) => AbstractRequest[w].status = "pending"
           /\ AbstractRequest[w].path = call[w].path /\ AbstractRequest[w].key = call[w].key
           /\ AbstractRequest[w].id = call[w].id
<1>1. /\ AllDecided' /\ AbstractLog' = AbstractLog
      /\ AbstractRequest' = [AbstractRequest EXCEPT ![w] = Atomic!Answered(AbstractRequest[w], a, EventIds({}))]
      /\ AbstractRequest[w].status \in {"pending", "applied"}
      /\ ~Taken(events, call[w]) => AbstractRequest[w].status = "pending"
      /\ AbstractRequest[w].path = call[w].path /\ AbstractRequest[w].key = call[w].key
      /\ AbstractRequest[w].id = call[w].id
  BY Ended
<1>2. EventIds({}) = {}
  BY DEF EventIds
<1> QED
  BY <1>1, <1>2

LEMMA Failed ==
    ASSUME SqlInv, AllDecided, NEW w \in Writers, call[w].pc \in Going,
           NEW a, a \in {"concurrency_error", "store_error", "timeout"}, Answer(w, a, {}),
           a = "timeout" => call[w].path = "idempotent" /\ idempotency[call[w].key] # {},
           UNCHANGED <<events, next_event>>
    PROVE  AllDecided' /\ Atomic!Fail(w)
<1>2. /\ AllDecided' /\ AbstractLog' = AbstractLog
      /\ AbstractRequest' = [AbstractRequest EXCEPT ![w] = Atomic!Answered(AbstractRequest[w], a, {})]
      /\ AbstractRequest[w].status \in {"pending", "applied"}
      /\ AbstractRequest[w].key = call[w].key
  BY EndedEmpty
<1>3. a = "timeout" => Atomic!Result(AbstractRequest[w].key) # {}
  <2>1. call[w].path = "idempotent" => call[w].key \in Keys
    BY OneCall DEF CallOK
  <2> QED
    BY <1>2, <2>1, ResultIs
<1> QED
  BY <1>2, <1>3 DEF Atomic!Fail

LEMMA Replayed ==
    ASSUME SqlInv, AllDecided, NEW w \in Writers, call[w].pc \in Going, call[w].path = "idempotent",
           idempotency[call[w].key] # {}, Answer(w, "ok", idempotency[call[w].key]),
           UNCHANGED <<events, next_event>>
    PROVE  AllDecided' /\ Atomic!Replay(w)
<1>1. PICK V : V = idempotency[call[w].key]
  OBVIOUS
<1>2. call[w].key \in Keys
  BY OneCall DEF CallOK
<1>3. Atomic!Result(call[w].key) = EventIds(V) /\ EventIds(V) # {}
  BY <1>1, <1>2, ResultIs DEF EventIds
<1>4. Answer(w, "ok", V)
  BY <1>1
<1>5. /\ AllDecided' /\ AbstractLog' = AbstractLog
      /\ AbstractRequest' = [AbstractRequest EXCEPT ![w] = Atomic!Answered(AbstractRequest[w], "ok", EventIds(V))]
      /\ AbstractRequest[w].status \in {"pending", "applied"}
      /\ AbstractRequest[w].path = call[w].path /\ AbstractRequest[w].key = call[w].key
  BY <1>4, Ended
<1> QED
  BY <1>3, <1>5 DEF Atomic!Replay

-------------------------------------------------------------------------------
Extended(E, row) == [LogOf(E) EXCEPT ![row.id] = Append(@, EntryOf(row))]

(* A row that continues its stream extends its log. *)
LEMMA LogGrows ==
    ASSUME NEW s, NEW E \in SUBSET Row, IsFiniteSet(E), NEW row \in Row, row \notin E,
           \A id \in Ids : StreamOK(s, E, id),
           row.encoding = "current", row.revision = Size(E, row.id) + 1
    PROVE  LogOf(E \cup {row}) = Extended(E, row)
<1> DEFINE F == E \cup {row}
<1>1. /\ \A id \in Ids : StreamOK(s, F, id)
      /\ \A id \in Ids \ {row.id} : Size(F, id) = Size(E, id)
      /\ Size(F, row.id) = Size(E, row.id) + 1
      /\ \A id \in Ids : Size(E, id) \in Nat
  BY StreamGrows
<1>2. row.id \in Ids /\ F \in SUBSET Row /\ IsFiniteSet(F)
  BY FS_AddElement DEF Row
<1>3. ASSUME NEW id \in Ids, id # row.id
      PROVE  LogOf(F)[id] = LogOf(E)[id]
  <2>1. Rows(F, id) = Rows(E, id)
    BY <1>3 DEF Rows
  <2>2. \A r : RowOf(F, id, r) = RowOf(E, id, r)
    BY <2>1 DEF RowOf
  <2>3. Size(F, id) = Size(E, id)
    BY <1>1, <1>3
  <2> QED
    BY <2>2, <2>3 DEF LogOf
<1>4. PICK n \in Nat : n = Size(E, row.id)
  BY <1>1, <1>2
<1>5. Rows(F, row.id) = Rows(E, row.id) \cup {row}
  BY DEF Rows
<1>6. /\ \A r \in 1..n : RowOf(E, row.id, r) \in Rows(E, row.id) /\ RowOf(E, row.id, r).revision = r
      /\ \A t \in Rows(F, row.id) : RowOf(F, row.id, t.revision) = t
  <2>1. /\ \A r \in 1..Size(E, row.id) :
              RowOf(E, row.id, r) \in Rows(E, row.id) /\ RowOf(E, row.id, r).revision = r
    BY <1>2, RowsByRevision
  <2>2. \A t \in Rows(F, row.id) : RowOf(F, row.id, t.revision) = t
    <3>1. StreamOK(s, F, row.id)
      BY <1>1, <1>2
    <3> HIDE DEF F
    <3> QED
      BY <1>2, <3>1, RowsByRevision
  <2> QED
    BY <1>4, <2>1, <2>2
<1>7. \A r \in 1..n : RowOf(F, row.id, r) = RowOf(E, row.id, r)
  BY <1>5, <1>6
<1>8. RowOf(F, row.id, n + 1) = row
  BY <1>4, <1>5, <1>6
<1> HIDE DEF F
<1>9. LogOf(F)[row.id] = Append(LogOf(E)[row.id], EntryOf(row))
  <2>1. LogOf(F)[row.id] = [r \in 1..(n + 1) |-> EntryOf(RowOf(F, row.id, r))]
    BY <1>1, <1>2, <1>4 DEF LogOf
  <2>2. LogOf(E)[row.id] = [r \in 1..n |-> EntryOf(RowOf(E, row.id, r))]
    BY <1>2, <1>4 DEF LogOf
  <2>3. LogOf(E)[row.id] \in Seq(EntrySet) /\ Len(LogOf(E)[row.id]) = n
    BY <1>2, <1>4, LogOfStream
  <2>4. EntryOf(row) \in EntrySet
    BY DEF Row, EntryOf, EntrySet
  <2>5. PICK q \in Seq(EntrySet) : q = LogOf(E)[row.id]
    BY <2>3
  <2>6. PICK e \in EntrySet : e = EntryOf(row)
    BY <2>4
  <2>7. /\ Append(q, e) \in Seq(EntrySet) /\ Len(Append(q, e)) = n + 1
        /\ \A r \in 1..n : Append(q, e)[r] = q[r]
        /\ Append(q, e)[n + 1] = e
    BY <2>3, <2>5, AppendProperties
  <2>8. PICK p : p = LogOf(F)[row.id]
    OBVIOUS
  <2>9. \A r \in 1..n : p[r] = q[r]
    BY <1>7, <2>1, <2>2, <2>5, <2>8
  <2>10. p[n + 1] = e
    BY <1>8, <2>1, <2>6, <2>8
  <2>11. p \in Seq(EntrySet) /\ Len(p) = n + 1
    <3>1. StreamOK(s, F, row.id)
      BY <1>1, <1>2
    <3>2. LogOf(F)[row.id] \in Seq(EntrySet) /\ Len(LogOf(F)[row.id]) = Size(F, row.id)
      BY <1>2, <3>1, LogOfStream
    <3> QED
      BY <1>1, <1>4, <2>8, <3>2
  <2>12. PICK t : t = Append(q, e)
    OBVIOUS
  <2>13. t \in Seq(EntrySet) /\ Len(t) = Len(p) /\ \A r \in 1..Len(p) : p[r] = t[r]
    BY <2>7, <2>9, <2>10, <2>11, <2>12
  <2>14. p = t
    BY <2>11, <2>13, SeqEqual
  <2> QED
    BY <2>5, <2>6, <2>8, <2>12, <2>14
<1>10. LogOf(F) = Extended(E, row)
  BY <1>2, <1>3, <1>9 DEF LogOf, Extended
<1> QED
  BY <1>10 DEF F

(* What a COMMIT does to the decisions of the others. *)
LEMMA StaysDecided ==
    ASSUME NEW s, NEW E \in SUBSET Row, IsFiniteSet(E), NEW row \in Row, row \notin E,
           \A id \in Ids : StreamOK(s, E, id),
           row.encoding = "current", row.revision = Size(E, row.id) + 1,
           NEW d \in Call, Decided(E, d), d.pc # "idle" => d.id \in Ids /\ d.event # row.event
    PROVE  Decided(E \cup {row}, d)
<1> DEFINE F == E \cup {row}
<1>1. /\ \A id \in Ids \ {row.id} : Size(F, id) = Size(E, id)
      /\ Size(F, row.id) = Size(E, row.id) + 1
      /\ \A id \in Ids : Size(E, id) \in Nat
  BY StreamGrows
<1>2. d.pc # "idle" /\ d.id # row.id => \A k : Agrees(F, d.id, k) = Agrees(E, d.id, k)
  <2> SUFFICES ASSUME d.id # row.id
               PROVE  LoadOf(F, d.id) = LoadOf(E, d.id)
    BY DEF Agrees
  <2>1. Rows(F, d.id) = Rows(E, d.id)
    BY DEF Rows
  <2> QED
    BY <2>1 DEF LoadOf, RowsAs
<1>3. d.pc # "idle" => (Taken(F, d) <=> Taken(E, d))
  BY DEF Taken
<1> HIDE DEF F
<1>4. ASSUME d.pc \in {"begin"} \cup Open, d.path # "append_any"
      PROVE  /\ d.expected.kind = "exact" /\ d.expected.revision <= Size(F, d.id)
             /\ d.expected.revision = Size(F, d.id) => Agrees(F, d.id, d.key)
  <2>1. d.id \in Ids /\ d.pc # "idle" /\ d.expected.revision \in Nat /\ row.id \in Ids
    BY <1>4 DEF Open, Call, Expected, Row
  <2>2. /\ d.expected.kind = "exact" /\ d.expected.revision <= Size(E, d.id)
        /\ d.expected.revision = Size(E, d.id) => Agrees(E, d.id, d.key)
    BY <1>4 DEF Decided
  <2>3. CASE d.id = row.id
    BY <1>1, <2>1, <2>2, <2>3
  <2>4. CASE d.id # row.id
    BY <1>1, <1>2, <2>1, <2>2, <2>4
  <2> QED
    BY <2>3, <2>4
<1>5. Decided(F, d)
  BY <1>3, <1>4 DEF Decided
<1> QED
  BY <1>5 DEF F

(* COMMIT: the facts about the call that commits and its row. *)
LEMMA Committing ==
    ASSUME SqlInv, AllDecided, NEW w \in Writers, CommitRows(w)
    PROVE  \E row \in Row :
              /\ call[w].inserted = {row} /\ events' = events \cup {row} /\ row \notin events
              /\ row.event = call[w].event /\ row.id = call[w].id /\ row.key = call[w].key
              /\ row.encoding = "current" /\ row.revision = Size(events, row.id) + 1
              /\ call[w] \in Call /\ call[w].pc = "commit" /\ ~Taken(events, call[w])
              /\ call[w].answer = "none" /\ call[w].value = {}
              /\ call[w].path # "append_any" => Agrees(events, call[w].id, call[w].key)
              /\ call[w].path = "idempotent" =>
                    call[w].key \in Keys /\ idempotency[call[w].key] = {}
<1>1. PICK o \in Call : o = call[w]
  BY OneCall
<1>2. /\ CallOK(setup, events, idempotency, next_sequence, next_event, o) /\ o.pc = "commit"
      /\ Decided(events, o)
  BY <1>1, OneCall DEF CommitRows, AllDecided
<1>3. PICK row \in o.inserted :
         /\ o.inserted = {row}
         /\ row.event = o.event /\ row.id = o.id /\ row.key = o.key
         /\ row.encoding = "current"
         /\ row.revision = Size(events, o.id) + 1
         /\ \A r \in events : r.event # o.event
  BY <1>2 DEF CallOK, InsertedOK
<1>4. row \in Row /\ row \notin events
  BY <1>3 DEF Call
<1>5. events' = events \cup {row}
  BY <1>1, <1>3 DEF CommitRows
<1>6. o.path # "append_any" => Agrees(events, o.id, o.key)
  <2> SUFFICES ASSUME o.path # "append_any"
               PROVE  Agrees(events, o.id, o.key)
    OBVIOUS
  <2>1. /\ o.expected.revision = Size(events, o.id) => Agrees(events, o.id, o.key)
        /\ o.actual = o.expected.revision
        /\ row.revision = o.actual + 1
    BY <1>2, <1>3 DEF Decided, Open
  <2>2. o.id \in Ids
    BY <1>2 DEF CallOK
  <2>3. Size(events, o.id) \in Nat /\ o.expected.revision \in Nat /\ o.actual \in Nat
    BY <2>2, MaxRevisions DEF Call, Expected
  <2> QED
    BY <1>3, <2>1, <2>3
<1>7. o.answer = "none" /\ o.value = {} /\ ~Taken(events, o)
  BY <1>2, <1>3 DEF CallOK, Decided, Taken
<1>8. o.path = "idempotent" => o.key \in Keys /\ idempotency[o.key] = {}
  BY <1>2 DEF CallOK, Holding
<1> QED
  BY <1>1, <1>2, <1>3, <1>4, <1>5, <1>6, <1>7, <1>8

(* The instant in which a request takes effect. *)
LEMMA Applied ==
    ASSUME SqlInv, AllDecided, NEW w \in Writers, CommitRows(w), next_event' = next_event,
           NEW c \in Call, call' = [call EXCEPT ![w] = c],
           c.path = call[w].path, c.key = call[w].key, c.id = call[w].id, c.event = call[w].event,
           c.expected = call[w].expected,
           \/ c.pc = "begin" /\ c.answer = "none" /\ c.value = {}
           \/ c.pc = "done" /\ c.answer = "ok" /\ c.value = call[w].inserted
           \/ c.pc = "done" /\ c.answer = "store_error" /\ c.value = {}
    PROVE  AllDecided' /\ Atomic!Apply(w)
<1>1. PICK o \in Call : o = call[w]
  BY OneCall
<1>2. PICK row \in Row :
              /\ o.inserted = {row} /\ events' = events \cup {row} /\ row \notin events
              /\ row.event = o.event /\ row.id = o.id /\ row.key = o.key
              /\ row.encoding = "current" /\ row.revision = Size(events, row.id) + 1
              /\ o.pc = "commit" /\ ~Taken(events, o)
              /\ o.answer = "none" /\ o.value = {}
              /\ o.path # "append_any" => Agrees(events, o.id, o.key)
              /\ o.path = "idempotent" => o.key \in Keys /\ idempotency[o.key] = {}
  BY <1>1, Committing
<1>3. /\ events \in SUBSET Row /\ IsFiniteSet(events)
      /\ \A id \in Ids : StreamOK(setup, events, id)
      /\ call \in [Writers -> Call] /\ o.id \in Ids
  BY <1>2, Table DEF Row
<1>4. /\ call'[w] = c /\ \A v \in Writers \ {w} : call'[v] = call[v]
      /\ c.path = o.path /\ c.key = o.key /\ c.id = o.id /\ c.event = o.event
      /\ c.expected = o.expected /\ Decided(events, o)
  BY <1>1, <1>3 DEF AllDecided
<1>5. \A v \in Writers \ {w} : call[v].pc # "idle" => call[v].id \in Ids /\ call[v].event # row.event
  <2>1. \A v \in Writers \ {w} : PairOK(setup, o, call[v])
    BY <1>1 DEF SqlInv
  <2>2. \A v \in Writers : call[v].pc # "idle" => call[v].id \in Ids
    BY OneCall DEF CallOK
  <2> QED
    BY <1>2, <2>1, <2>2 DEF PairOK
<1>6. AllDecided'
  <2>1. ASSUME NEW v \in Writers \ {w}
        PROVE  Decided(events \cup {row}, call[v])
    <3>1. call[v] \in Call /\ Decided(events, call[v])
      BY <1>3 DEF AllDecided
    <3> QED
      BY <1>2, <1>3, <1>5, <3>1, StaysDecided
  <2>2. Decided(events \cup {row}, c)
    <3>1. /\ Size(events \cup {row}, row.id) = Size(events, row.id) + 1
          /\ Size(events, row.id) \in Nat
      <4>0. /\ row \notin events /\ row.encoding = "current"
            /\ row.revision = Size(events, row.id) + 1
        BY <1>2
      <4>1. /\ Size(events \cup {row}, row.id) = Size(events, row.id) + 1
            /\ \A id \in Ids : Size(events, id) \in Nat
        BY <1>3, <4>0, StreamGrows
      <4> QED
        BY <1>2, <1>3, <4>1
    <3>2. o.path # "append_any" =>
             o.expected.kind = "exact" /\ o.expected.revision <= Size(events, o.id)
      BY <1>2, <1>4 DEF Decided, Open
    <3>3. o.expected.revision \in Nat
      BY DEF Call, Expected
    <3>4. PICK m : m = Size(events \cup {row}, row.id)
      OBVIOUS
    <3>5. c.path # "append_any" =>
             c.expected.kind = "exact" /\ c.expected.revision <= m /\ c.expected.revision # m
      BY <1>2, <1>4, <3>1, <3>2, <3>3, <3>4
    <3> QED
      BY <1>2, <1>4, <3>4, <3>5 DEF Decided, Open
  <2>3. \A v \in Writers : Decided(events', call'[v])
    BY <1>2, <1>4, <2>1, <2>2
  <2> QED
    BY <2>3 DEF AllDecided
<1>7. /\ AbstractLog = LogOf(events) /\ AbstractLog' = LogOf(events')
      /\ AbstractRequest = [v \in Writers |-> RequestOf(events, call[v])]
      /\ AbstractRequest' = [v \in Writers |-> RequestOf(events', call'[v])]
  BY MappedState, MappedNext
<1>8. AbstractRequest' = [AbstractRequest EXCEPT ![w] = RequestOf(events', c)]
  <2>1. ASSUME NEW v \in Writers \ {w}
        PROVE  RequestOf(events', call'[v]) = RequestOf(events, call[v])
    <3>1. call[v].pc # "idle" => (Taken(events', call[v]) <=> Taken(events, call[v]))
      BY <1>2, <1>5 DEF Taken
    <3>2. call[v].pc # "idle" => StatusOf(events', call[v]) = StatusOf(events, call[v])
      BY <3>1 DEF StatusOf
    <3> QED
      BY <1>4, <3>2 DEF RequestOf
  <2> QED
    BY <1>4, <1>7, <2>1
<1>9. AbstractRequest[w] = Atomic!Request("pending", o.path, o.key, o.id, o.event, "none", {})
  <2>1. {r.event : r \in o.value} = {}
    BY <1>2
  <2>2. StatusOf(events, o) = "pending" /\ o.pc # "idle"
    BY <1>2 DEF StatusOf
  <2> QED
    BY <1>1, <1>2, <1>7, <2>1, <2>2 DEF RequestOf
<1>10. PICK r : r = AbstractRequest[w]
  OBVIOUS
<1>11. /\ r.status = "pending" /\ r.path = o.path /\ r.key = o.key /\ r.id = o.id
       /\ r.event = o.event
  BY <1>9, <1>10 DEF Atomic!Request
<1>12. RequestOf(events', c) \in
          {Atomic!Request("applied", r.path, r.key, r.id, r.event, "none", {}),
           Atomic!Answered(r, "ok", {r.event}),
           Atomic!Answered(r, "store_error", {})}
  <2>1. CASE c.pc = "begin" /\ c.answer = "none" /\ c.value = {}
    <3>1. Taken(events', c)
      BY <1>2, <1>4 DEF Taken
    <3>2. {t.event : t \in c.value} = {}
      BY <2>1
    <3>3. RequestOf(events', c) = Atomic!Request("applied", c.path, c.key, c.id, c.event, "none", {})
      BY <2>1, <3>1, <3>2 DEF RequestOf, StatusOf
    <3> QED
      BY <1>4, <1>11, <3>3
  <2>2. CASE c.pc = "done" /\ c.answer = "ok" /\ c.value = call[w].inserted
    <3>1. {t.event : t \in c.value} = {o.event}
      BY <1>1, <1>2, <2>2
    <3>2. RequestOf(events', c) = Atomic!Request("answered", c.path, c.key, c.id, c.event, "ok", {o.event})
      BY <2>2, <3>1 DEF RequestOf, StatusOf
    <3> QED
      BY <1>4, <1>11, <3>2 DEF Atomic!Answered
  <2>3. CASE c.pc = "done" /\ c.answer = "store_error" /\ c.value = {}
    <3>1. {t.event : t \in c.value} = {}
      BY <2>3
    <3>2. RequestOf(events', c) = Atomic!Request("answered", c.path, c.key, c.id, c.event, "store_error", {})
      BY <2>3, <3>1 DEF RequestOf, StatusOf
    <3> QED
      BY <1>4, <1>11, <3>2 DEF Atomic!Answered
  <2> QED
    BY <2>1, <2>2, <2>3
<1>13. AbstractLog' = [AbstractLog EXCEPT ![r.id] = Append(@, Atomic!Entry(r.event, r.key, FALSE))]
  <2>1. EntryOf(row) = Atomic!Entry(r.event, r.key, FALSE)
    BY <1>2, <1>11 DEF EntryOf, Atomic!Entry
  <2>2. PICK e : e = EntryOf(row)
    OBVIOUS
  <2>3. LogOf(events \cup {row}) = Extended(events, row)
    <3>1. /\ row.encoding = "current" /\ row.revision = Size(events, row.id) + 1
          /\ row \notin events
      BY <1>2
    <3> QED
      BY <1>3, <3>1, LogGrows
  <2>4. AbstractLog' = [AbstractLog EXCEPT ![row.id] = Append(@, e)]
    BY <1>2, <1>7, <2>2, <2>3 DEF Extended
  <2>5. r.id = row.id
    BY <1>2, <1>11
  <2> QED
    BY <2>1, <2>2, <2>4, <2>5, Zenon
<1>14. r.path # "append_any" => Atomic!Accepted(r)
  BY <1>2, <1>3, <1>11, AcceptedIs
<1>15. r.path = "idempotent" => Atomic!Result(r.key) = {}
  BY <1>2, <1>11, ResultIs
<1> QED
  BY <1>6, <1>8, <1>10, <1>11, <1>12, <1>13, <1>14, <1>15 DEF Atomic!Apply

-------------------------------------------------------------------------------
(* One lemma per action. *)
LEMMA InvokeAtomic ==
    ASSUME SqlInv, AllDecided, NEW w \in Writers, Invoke(w)
    PROVE  AllDecided' /\ Atomic!Invoke(w)
<1>1. call[w].pc = "idle" /\ events' = events /\ next_event' = next_event + 1
  BY DEF Invoke, database
<1>2. \A path, key, id, pc :
         pc \in {"lookup", "load", "begin"} /\ path \in {"idempotent", "execute", "append_any"} =>
         \A c : /\ c.pc = pc /\ c.path = path /\ c.key = key /\ c.id = id /\ c.event = next_event
                /\ c.answer = "none" /\ c.value = {} /\ (pc = "begin" <=> path = "append_any")
                => /\ Decided(events, c)
                   /\ RequestOf(events, c) = Atomic!Request("pending", path, key, id, next_event, "none", {})
  <2> SUFFICES ASSUME NEW c, c.pc \in {"lookup", "load", "begin"}, c.event = next_event,
                      c.answer = "none", c.value = {}, c.pc = "begin" <=> c.path = "append_any"
               PROVE  /\ Decided(events, c)
                      /\ RequestOf(events, c) =
                           Atomic!Request("pending", c.path, c.key, c.id, next_event, "none", {})
    OBVIOUS
  <2>1. ~Taken(events, c)
    <3>1. \A row \in events : row.event < next_event /\ row.event \in Nat
      BY Table DEF Row
    <3> QED
      BY <3>1 DEF Taken
  <2>2. {row.event : row \in c.value} = {}
    OBVIOUS
  <2> QED
    BY <2>1, <2>2 DEF Decided, Open, RequestOf, StatusOf
<1>3. AbstractRequest[w] = Atomic!NoRequest
  BY <1>1, MappedState DEF RequestOf
<1>4. ASSUME NEW c, call' = [call EXCEPT ![w] = c], Decided(events, c)
      PROVE  /\ AllDecided' /\ AbstractLog' = AbstractLog
             /\ AbstractRequest' = [AbstractRequest EXCEPT ![w] = RequestOf(events, c)]
  BY <1>1, <1>4, OneMoves
<1>5. CASE \E k \in Keys, polls \in 0..MaxPolls :
             call' = [call EXCEPT ![w] =
                   [Idle EXCEPT !.pc = "lookup", !.path = "idempotent", !.key = k,
                                !.id = Target[k], !.event = next_event, !.polls = polls]]
  <2>1. PICK k \in Keys, polls \in 0..MaxPolls :
             call' = [call EXCEPT ![w] =
                   [Idle EXCEPT !.pc = "lookup", !.path = "idempotent", !.key = k,
                                !.id = Target[k], !.event = next_event, !.polls = polls]]
    BY <1>5
  <2>2. PICK c : c = [Idle EXCEPT !.pc = "lookup", !.path = "idempotent", !.key = k,
                                  !.id = Target[k], !.event = next_event, !.polls = polls]
    OBVIOUS
  <2>3. /\ c.pc = "lookup" /\ c.path = "idempotent" /\ c.key = k /\ c.id = Target[k]
        /\ c.event = next_event /\ c.answer = "none" /\ c.value = {}
    BY <2>2 DEF Idle
  <2>4. /\ Decided(events, c)
        /\ RequestOf(events, c) = Atomic!Request("pending", "idempotent", k, Target[k], next_event, "none", {})
    BY <1>2, <2>3
  <2>5. /\ AllDecided' /\ AbstractLog' = AbstractLog
        /\ AbstractRequest' = [AbstractRequest EXCEPT ![w] = RequestOf(events, c)]
    BY <1>4, <2>1, <2>2, <2>4
  <2> QED
    BY <1>1, <1>3, <2>4, <2>5 DEF Atomic!Invoke
<1>6. CASE \E id \in setup.ids :
             call' = [call EXCEPT ![w] =
                   [Idle EXCEPT !.pc = "load", !.path = "execute", !.id = id, !.event = next_event]]
  <2>1. PICK id \in setup.ids :
             call' = [call EXCEPT ![w] =
                   [Idle EXCEPT !.pc = "load", !.path = "execute", !.id = id, !.event = next_event]]
    BY <1>6
  <2>2. PICK c : c = [Idle EXCEPT !.pc = "load", !.path = "execute", !.id = id, !.event = next_event]
    OBVIOUS
  <2>3. /\ c.pc = "load" /\ c.path = "execute" /\ c.key = NoKey /\ c.id = id
        /\ c.event = next_event /\ c.answer = "none" /\ c.value = {}
    BY <2>2 DEF Idle
  <2>4. /\ Decided(events, c)
        /\ RequestOf(events, c) = Atomic!Request("pending", "execute", NoKey, id, next_event, "none", {})
    BY <1>2, <2>3
  <2>5. /\ AllDecided' /\ AbstractLog' = AbstractLog
        /\ AbstractRequest' = [AbstractRequest EXCEPT ![w] = RequestOf(events, c)]
    BY <1>4, <2>1, <2>2, <2>4
  <2>6. id \in Ids
    BY SqlAssumption DEF SqlInv, SqlAssumption
  <2> QED
    BY <1>1, <1>3, <2>4, <2>5, <2>6 DEF Atomic!Invoke
<1>7. CASE \E id \in setup.ids :
             call' = [call EXCEPT ![w] =
                   [Idle EXCEPT !.pc = "begin", !.path = "append_any", !.id = id,
                                !.event = next_event]]
  <2>1. PICK id \in setup.ids :
             call' = [call EXCEPT ![w] =
                   [Idle EXCEPT !.pc = "begin", !.path = "append_any", !.id = id,
                                !.event = next_event]]
    BY <1>7
  <2>2. PICK c : c = [Idle EXCEPT !.pc = "begin", !.path = "append_any", !.id = id, !.event = next_event]
    OBVIOUS
  <2>3. /\ c.pc = "begin" /\ c.path = "append_any" /\ c.key = NoKey /\ c.id = id
        /\ c.event = next_event /\ c.answer = "none" /\ c.value = {}
    BY <2>2 DEF Idle
  <2>4. /\ Decided(events, c)
        /\ RequestOf(events, c) = Atomic!Request("pending", "append_any", NoKey, id, next_event, "none", {})
    BY <1>2, <2>3
  <2>5. /\ AllDecided' /\ AbstractLog' = AbstractLog
        /\ AbstractRequest' = [AbstractRequest EXCEPT ![w] = RequestOf(events, c)]
    BY <1>4, <2>1, <2>2, <2>4
  <2>6. id \in Ids
    BY SqlAssumption DEF SqlInv, SqlAssumption
  <2> QED
    BY <1>1, <1>3, <2>4, <2>5, <2>6 DEF Atomic!Invoke
<1> QED
  BY <1>5, <1>6, <1>7, Zenon DEF Invoke

LEMMA FinishAtomic ==
    ASSUME SqlInv, AllDecided, NEW w \in Writers, Return(w) \/ Crash(w)
    PROVE  AllDecided' /\ Atomic!Finish(w)
<1>1. /\ call[w].pc # "idle" /\ call' = [call EXCEPT ![w] = Idle]
      /\ events' = events /\ next_event' = next_event
  BY DEF Return, Crash, database
<1>2. Decided(events, Idle) /\ RequestOf(events, Idle) = Atomic!NoRequest
  BY DEF Decided, Idle, Open, RequestOf
<1>3. /\ AllDecided' /\ AbstractLog' = AbstractLog
      /\ AbstractRequest' = [AbstractRequest EXCEPT ![w] = Atomic!NoRequest]
      /\ AbstractRequest[w] = RequestOf(events, call[w])
  BY <1>1, <1>2, OneMoves
<1>4. RequestOf(events, call[w]).status # "idle"
  BY <1>1 DEF RequestOf, StatusOf, Atomic!Request
<1>5. Atomic!NoRequest.status = "idle"
  BY DEF Atomic!NoRequest, Atomic!Request
<1> QED
  BY <1>1, <1>3, <1>4, <1>5 DEF Atomic!Finish

(* The same call at another point, before it is at its insert. *)
LEMMA GoesOn ==
    ASSUME SqlInv, AllDecided, NEW w \in Writers, NEW c, call' = [call EXCEPT ![w] = c],
           UNCHANGED <<events, next_event>>, call[w].pc \in Going,
           c.pc \in Going, c.pc \notin {"insert", "commit"},
           c.pc \in {"begin"} \cup Open => call[w].pc \in {"begin"} \cup Open,
           c.pc \in {"lookup", "load"} => call[w].pc \in {"lookup", "load"},
           c.path = call[w].path, c.key = call[w].key, c.id = call[w].id, c.event = call[w].event,
           c.answer = call[w].answer, c.value = call[w].value, c.expected = call[w].expected
    PROVE  AllDecided' /\ UNCHANGED Atomic!requestVars
<1>1. PICK o : o = call[w]
  OBVIOUS
<1>2. Decided(events, o)
  BY <1>1 DEF AllDecided
<1>3. Taken(events, c) <=> Taken(events, o)
  BY <1>1 DEF Taken
<1>4. Decided(events, c)
  BY <1>1, <1>2, <1>3 DEF Decided, Going, Open
<1> QED
  BY <1>4, Onward

LEMMA GotoAtomic ==
    ASSUME SqlInv, AllDecided, NEW w \in Writers, NEW pc, Goto(w, pc),
           UNCHANGED <<events, next_event>>, call[w].pc \in Going,
           pc \in Going, pc \notin {"insert", "commit"},
           pc \in {"begin"} \cup Open => call[w].pc \in {"begin"} \cup Open,
           pc \in {"lookup", "load"} => call[w].pc \in {"lookup", "load"}
    PROVE  AllDecided' /\ UNCHANGED Atomic!requestVars
<1>1. PICK o \in Call : o = call[w]
  BY OneCall
<1>2. PICK c : c = [o EXCEPT !.pc = pc]
  OBVIOUS
<1>3. /\ c.pc = pc /\ c.path = o.path /\ c.key = o.key /\ c.id = o.id /\ c.event = o.event
      /\ c.answer = o.answer /\ c.value = o.value /\ c.expected = o.expected
  BY <1>2 DEF Call
<1>4. call' = [call EXCEPT ![w] = c]
  BY <1>1, <1>2 DEF Goto
<1> QED
  BY <1>1, <1>3, <1>4, GoesOn

LEMMA ConflictAtomic ==
    ASSUME SqlInv, AllDecided, NEW w \in Writers, call[w].pc \in {"begin", "revision", "insert"},
           UNCHANGED <<events, next_event>>, Conflict(w)
    PROVE  AllDecided' /\ (Atomic!Fail(w) \/ UNCHANGED Atomic!requestVars)
<1>1. call[w].pc \in Going /\ call[w].pc \in {"begin"} \cup Open
  BY DEF Going, Open
<1>2. CASE Answer(w, "concurrency_error", {})
  <2>1. AllDecided' /\ Atomic!Fail(w)
    BY <1>1, <1>2, Failed
  <2> QED
    BY <2>1
<1>3. CASE call' = [call EXCEPT ![w].attempt = @ + 1, ![w].pc = "begin"]
  <2>1. PICK o \in Call : o = call[w]
    BY OneCall
  <2>2. PICK c : c = [o EXCEPT !.attempt = @ + 1, !.pc = "begin"]
    OBVIOUS
  <2>3. /\ c.pc = "begin" /\ c.path = o.path /\ c.key = o.key /\ c.id = o.id /\ c.event = o.event
        /\ c.answer = o.answer /\ c.value = o.value /\ c.expected = o.expected
    BY <2>2 DEF Call
  <2>4. call' = [call EXCEPT ![w] = c]
    BY <1>3, <2>1, <2>2
  <2>5. c.pc \in Going
    BY <2>3 DEF Going
  <2> QED
    BY <1>1, <2>1, <2>3, <2>4, <2>5, GoesOn
<1> QED
  BY <1>2, <1>3 DEF Conflict

(* A completed key is answered with its record. *)
LEMMA LoadIdempotentAtomic ==
    ASSUME SqlInv, AllDecided, NEW w \in Writers, LoadIdempotent(w)
    PROVE  AllDecided' /\ (Atomic!Replay(w) \/ UNCHANGED Atomic!requestVars)
<1>1. /\ call[w].pc = "lookup" /\ UNCHANGED <<events, next_event>>
      /\ call[w].pc \in Going /\ call[w].path = "idempotent"
  BY OneCall DEF LoadIdempotent, database, Going, CallOK
<1>2. CASE idempotency[call[w].key] # {}
  BY <1>1, <1>2, Replayed DEF LoadIdempotent
<1>3. CASE idempotency[call[w].key] = {}
  <2>1. Goto(w, "load")
    BY <1>3 DEF LoadIdempotent
  <2>2. "load" \in Going /\ "load" \notin {"begin"} \cup Open
    BY DEF Going, Open
  <2> QED
    BY <1>1, <2>1, <2>2, GotoAtomic
<1> QED
  BY <1>2, <1>3

LEMMA LoadIs ==
    ASSUME SqlInv, NEW id \in Ids
    PROVE  Load(id) = LoadOf(events, id)
BY DEF Load, LoadOf, Stored, Stream, RowsAs, Rows

(* A refusal is decided on what is there; an acceptance may be overtaken. *)
LEMMA LoadAndHandleAtomic ==
    ASSUME SqlInv, AllDecided, NEW w \in Writers, LoadAndHandle(w)
    PROVE  AllDecided' /\ (Atomic!Refuse(w) \/ UNCHANGED Atomic!requestVars)
<1>1. PICK o \in Call : o = call[w]
  BY OneCall
<1>2. /\ o.pc = "load" /\ UNCHANGED <<events, next_event>> /\ o.pc \in Going
      /\ call[w].pc \in Going
  BY <1>1 DEF LoadAndHandle, database, Going
<1>3. /\ CallOK(setup, events, idempotency, next_sequence, next_event, o)
      /\ Decided(events, o)
  BY <1>1, OneCall DEF AllDecided
<1>4. o.id \in Ids /\ ~Taken(events, o) /\ o.value = {} /\ o.answer = "none"
  BY <1>2, <1>3 DEF CallOK, Decided
<1>5. Agrees(events, o.id, o.key) <=> Accepts({row.key : row \in Load(o.id)}, o.key)
  BY <1>4, LoadIs DEF Agrees
<1>6. CASE ~Agrees(events, o.id, o.key)
  <2>1. Answer(w, "domain_error", {})
    BY <1>1, <1>5, <1>6 DEF LoadAndHandle
  <2>2. /\ AllDecided' /\ AbstractLog' = AbstractLog
        /\ AbstractRequest' = [AbstractRequest EXCEPT ![w] =
             Atomic!Answered(AbstractRequest[w], "domain_error", {})]
        /\ ~Taken(events, call[w]) => AbstractRequest[w].status = "pending"
        /\ AbstractRequest[w].path = call[w].path /\ AbstractRequest[w].key = call[w].key
        /\ AbstractRequest[w].id = call[w].id
    BY <1>2, <2>1, EndedEmpty
  <2>3. PICK r : r = AbstractRequest[w]
    OBVIOUS
  <2>4. r.status = "pending" /\ r.path = o.path /\ r.id \in Ids /\ r.id = o.id /\ r.key = o.key
    BY <1>1, <1>4, <2>2, <2>3
  <2>5. ~Atomic!Accepted(r)
    BY <1>6, <2>4, AcceptedIs
  <2>6. r.path # "append_any"
    BY <1>2, <1>3, <2>4 DEF Decided
  <2> QED
    BY <1>2, <2>2, <2>3, <2>4, <2>5, <2>6 DEF Atomic!Refuse
<1>7. CASE Agrees(events, o.id, o.key)
  <2>1. PICK c : c = [o EXCEPT !.expected = Exact(MaxRevision(Load(o.id))), !.pc = "begin"]
    OBVIOUS
  <2>2. /\ c.pc = "begin" /\ c.path = o.path /\ c.key = o.key /\ c.id = o.id /\ c.event = o.event
        /\ c.answer = o.answer /\ c.value = o.value
        /\ c.expected = Exact(MaxRevision(Load(o.id)))
    BY <2>1 DEF Call
  <2>3. call' = [call EXCEPT ![w] = c]
    BY <1>1, <1>5, <1>7, <2>1 DEF LoadAndHandle
  <2>4. Decided(events, c)
    <3>1. MaxRevision(Load(o.id)) <= Size(events, o.id)
      BY <1>4, MaxRevisions
    <3> QED
      BY <1>4, <1>7, <2>2, <3>1 DEF Decided, Exact
  <2>5. c.pc \in Going
    BY <2>2 DEF Going
  <2> QED
    BY <1>1, <1>2, <2>2, <2>3, <2>4, <2>5, Onward
<1> QED
  BY <1>6, <1>7

LEMMA BeginAtomic ==
    ASSUME SqlInv, AllDecided, NEW w \in Writers, Begin(w)
    PROVE  AllDecided' /\ (Atomic!Replay(w) \/ UNCHANGED Atomic!requestVars)
<1>1. PICK o \in Call : o = call[w]
  BY OneCall
<1>2. /\ call[w].pc = "begin" /\ o.pc = "begin" /\ UNCHANGED <<events, next_event>>
      /\ call[w].pc \in Going /\ call[w].pc \in {"begin"} \cup Open
  BY <1>1 DEF Begin, database, Going
<1>3. CASE o.path # "idempotent"
  <2>1. Goto(w, "revision")
    BY <1>1, <1>3 DEF Begin
  <2>2. "revision" \in Going /\ "revision" \notin {"insert", "commit"} /\ "revision" \notin {"lookup", "load"}
    BY DEF Going, Open
  <2> QED
    BY <1>2, <2>1, <2>2, GotoAtomic
<1>4. CASE o.path = "idempotent" /\ idempotency[o.key] # {}
  <2>1. Answer(w, "ok", idempotency[call[w].key])
    BY <1>1, <1>4 DEF Begin
  <2> QED
    BY <1>1, <1>2, <1>4, <2>1, Replayed
<1>5. CASE o.path = "idempotent" /\ idempotency[o.key] = {}
  <2>1. PICK n : call' = [call EXCEPT ![w].pc = "reserve", ![w].seen = n]
    BY <1>1, <1>5 DEF Begin
  <2>2. PICK c : c = [o EXCEPT !.pc = "reserve", !.seen = n]
    OBVIOUS
  <2>3. /\ c.pc = "reserve" /\ c.path = o.path /\ c.key = o.key /\ c.id = o.id /\ c.event = o.event
        /\ c.answer = o.answer /\ c.value = o.value /\ c.expected = o.expected
    BY <2>2 DEF Call
  <2>4. call' = [call EXCEPT ![w] = c]
    BY <1>1, <2>1, <2>2
  <2>5. c.pc \in Going
    BY <2>3 DEF Going, Open
  <2> QED
    BY <1>1, <1>2, <2>3, <2>4, <2>5, GoesOn
<1> QED
  BY <1>3, <1>4, <1>5

(* A wait that times out found its key completed. *)
LEMMA ReserveAtomic ==
    ASSUME SqlInv, AllDecided, NEW w \in Writers, Reserve(w)
    PROVE  AllDecided' /\ (Atomic!Fail(w) \/ UNCHANGED Atomic!requestVars)
<1>1. PICK o \in Call : o = call[w]
  BY OneCall
<1>2. /\ call[w].pc = "reserve" /\ UNCHANGED <<events, next_event>>
      /\ call[w].pc \in Going /\ call[w].pc \in {"begin"} \cup Open
      /\ call[w].path = "idempotent"
  BY OneCall DEF Reserve, database, Going, Open, CallOK
<1>3. CASE idempotency[call[w].key] = {}
  <2>1. Goto(w, "revision")
    BY <1>3 DEF Reserve
  <2>2. "revision" \in Going /\ "revision" \notin {"insert", "commit"} /\ "revision" \notin {"lookup", "load"}
    BY DEF Going, Open
  <2> QED
    BY <1>2, <2>1, <2>2, GotoAtomic
<1>4. CASE idempotency[call[w].key] # {} /\ call' = [call EXCEPT ![w].polls = @ - 1, ![w].pc = "begin"]
  <2>1. PICK n : n = o.polls - 1
    OBVIOUS
  <2>2. PICK c : c = [o EXCEPT !.polls = n, !.pc = "begin"]
    OBVIOUS
  <2>3. /\ c.pc = "begin" /\ c.path = o.path /\ c.key = o.key /\ c.id = o.id /\ c.event = o.event
        /\ c.answer = o.answer /\ c.value = o.value /\ c.expected = o.expected
    BY <2>2 DEF Call
  <2>4. call' = [call EXCEPT ![w] = c]
    BY <1>1, <1>4, <2>1, <2>2
  <2>5. c.pc \in Going
    BY <2>3 DEF Going, Open
  <2> QED
    BY <1>1, <1>2, <2>3, <2>4, <2>5, GoesOn
<1>5. CASE idempotency[call[w].key] # {} /\ Answer(w, "timeout", {})
  <2>1. AllDecided' /\ Atomic!Fail(w)
    BY <1>2, <1>5, Failed
  <2> QED
    BY <2>1
<1> QED
  BY <1>3, <1>4, <1>5 DEF Reserve

(* The revision is the one the command was decided on, or it is a conflict. *)
LEMMA ReadRevisionAtomic ==
    ASSUME SqlInv, AllDecided, NEW w \in Writers, ReadRevision(w)
    PROVE  AllDecided' /\ (Atomic!Fail(w) \/ UNCHANGED Atomic!requestVars)
<1>1. PICK o \in Call : o = call[w]
  BY OneCall
<1>2. /\ call[w].pc = "revision" /\ UNCHANGED <<events, next_event>>
      /\ call[w].pc \in Going /\ o.pc \in {"begin"} \cup Open
  BY <1>1 DEF ReadRevision, database, Going, Open
<1>3. CASE Conflict(w)
  BY <1>2, <1>3, ConflictAtomic
<1>4. CASE ~Conflict(w)
  <2>1. PICK n : n = VisibleRevision(w)
    OBVIOUS
  <2>2. /\ o.expected.kind = "any" \/ o.expected.revision = n
        /\ call' = [call EXCEPT ![w].actual = n, ![w].pc = "insert"]
    BY <1>1, <1>4, <2>1 DEF ReadRevision, CheckExpectedRevision
  <2>3. PICK c : c = [o EXCEPT !.actual = n, !.pc = "insert"]
    OBVIOUS
  <2>4. /\ c.pc = "insert" /\ c.path = o.path /\ c.key = o.key /\ c.id = o.id /\ c.event = o.event
        /\ c.answer = o.answer /\ c.value = o.value /\ c.expected = o.expected /\ c.actual = n
    BY <2>3 DEF Call
  <2>5. call' = [call EXCEPT ![w] = c]
    BY <1>1, <2>2, <2>3
  <2>6. Decided(events, o) /\ o.pc # "done"
    BY <1>1, <1>2 DEF AllDecided
  <2>7. o.path # "append_any" => o.expected.kind = "exact"
    BY <1>2, <2>6 DEF Decided
  <2>8. Decided(events, c)
    BY <1>2, <2>2, <2>4, <2>6, <2>7 DEF Decided, Open
  <2>9. c.pc \in Going
    BY <2>4 DEF Going, Open
  <2> QED
    BY <1>1, <1>2, <2>4, <2>5, <2>8, <2>9, Onward
<1> QED
  BY <1>3, <1>4

LEMMA InsertEventsAtomic ==
    ASSUME SqlInv, AllDecided, NEW w \in Writers, InsertEvents(w)
    PROVE  AllDecided' /\ (Atomic!Fail(w) \/ UNCHANGED Atomic!requestVars)
<1>1. PICK o \in Call : o = call[w]
  BY OneCall
<1>2. /\ call[w].pc = "insert" /\ UNCHANGED <<events, next_event>>
      /\ call[w].pc \in Going /\ o.pc \in {"begin"} \cup Open
  BY <1>1 DEF InsertEvents, database, Going, Open
<1>3. CASE Conflict(w)
  BY <1>2, <1>3, ConflictAtomic
<1>4. CASE Answer(w, "store_error", {})
  <2>1. AllDecided' /\ Atomic!Fail(w)
    BY <1>2, <1>4, Failed
  <2> QED
    BY <2>1
<1>5. CASE call' = [call EXCEPT ![w].inserted = {NewRow(w)}, ![w].pc = "commit"]
  <2>1. PICK row : row = NewRow(w)
    OBVIOUS
  <2>2. PICK c : c = [o EXCEPT !.inserted = {row}, !.pc = "commit"]
    OBVIOUS
  <2>3. /\ c.pc = "commit" /\ c.path = o.path /\ c.key = o.key /\ c.id = o.id /\ c.event = o.event
        /\ c.answer = o.answer /\ c.value = o.value /\ c.expected = o.expected
        /\ c.actual = o.actual /\ c.inserted = {row}
    BY <2>2 DEF Call
  <2>4. call' = [call EXCEPT ![w] = c]
    BY <1>1, <1>5, <2>1, <2>2
  <2>5. row.revision = o.actual + 1
    BY <1>1, <2>1 DEF NewRow
  <2>6. Decided(events, o) /\ o.pc = "insert"
    BY <1>1, <1>2 DEF AllDecided
  <2>7. Decided(events, c)
    BY <2>3, <2>5, <2>6 DEF Decided, Open
  <2>8. c.pc \in Going
    BY <2>3 DEF Going, Open
  <2> QED
    BY <1>1, <1>2, <2>3, <2>4, <2>7, <2>8, Onward
<1> QED
  BY <1>3, <1>4, <1>5 DEF InsertEvents

(* COMMIT is the instant. *)
LEMMA CommitAtomic ==
    ASSUME SqlInv, AllDecided, NEW w \in Writers, Commit(w)
    PROVE  AllDecided' /\ Atomic!Apply(w)
<1>1. CommitRows(w) /\ Answer(w, "ok", call[w].inserted) /\ next_event' = next_event
  BY DEF Commit
<1>2. PICK o \in Call : o = call[w]
  BY OneCall
<1>3. o.inserted \in SUBSET Row
  BY DEF Call
<1>4. PICK c : c = [o EXCEPT !.pc = "done", !.inserted = {}, !.answer = "ok", !.value = o.inserted]
  OBVIOUS
<1>5. /\ c \in Call /\ c.pc = "done" /\ c.answer = "ok" /\ c.value = o.inserted
      /\ c.path = o.path /\ c.key = o.key /\ c.id = o.id /\ c.event = o.event
      /\ c.expected = o.expected
  BY <1>3, <1>4 DEF Call
<1>6. call' = [call EXCEPT ![w] = c]
  BY <1>1, <1>2, <1>4 DEF Answer
<1> QED
  BY <1>1, <1>2, <1>5, <1>6, Applied

(* ... also when its reply is lost: the request runs once more or fails, *)
(* and has taken effect.                                                  *)
LEMMA LoseCommitReplyAtomic ==
    ASSUME SqlInv, AllDecided, NEW w \in Writers, LoseCommitReply(w)
    PROVE  AllDecided' /\ Atomic!Apply(w)
<1>1. CommitRows(w) /\ RetryOrFail(w) /\ next_event' = next_event
  BY DEF LoseCommitReply, RetryOrFail
<1>2. PICK o \in Call : o = call[w]
  BY OneCall
<1>3. o.answer = "none" /\ o.value = {}
  BY <1>1, <1>2, Committing
<1>4. CASE Answer(w, "store_error", {})
  <2>1. PICK c : c = [o EXCEPT !.pc = "done", !.inserted = {}, !.answer = "store_error", !.value = {}]
    OBVIOUS
  <2>2. /\ c \in Call /\ c.pc = "done" /\ c.answer = "store_error" /\ c.value = {}
        /\ c.path = o.path /\ c.key = o.key /\ c.id = o.id /\ c.event = o.event
        /\ c.expected = o.expected
    BY <2>1 DEF Call
  <2>3. call' = [call EXCEPT ![w] = c]
    BY <1>2, <1>4, <2>1 DEF Answer
  <2> QED
    BY <1>1, <1>2, <2>2, <2>3, Applied
<1>5. CASE call' = [call EXCEPT ![w].pc = "begin", ![w].attempt = 2, ![w].inserted = {}]
  <2>1. PICK c : c = [o EXCEPT !.pc = "begin", !.attempt = 2, !.inserted = {}]
    OBVIOUS
  <2>2. /\ c \in Call /\ c.pc = "begin" /\ c.answer = "none" /\ c.value = {}
        /\ c.path = o.path /\ c.key = o.key /\ c.id = o.id /\ c.event = o.event
        /\ c.expected = o.expected
    BY <1>3, <2>1 DEF Call
  <2>3. call' = [call EXCEPT ![w] = c]
    BY <1>2, <1>5, <2>1
  <2> QED
    BY <1>1, <1>2, <2>2, <2>3, Applied
<1> QED
  BY <1>1, <1>4, <1>5 DEF RetryOrFail

LEMMA LoseConnectionAtomic ==
    ASSUME SqlInv, AllDecided, NEW w \in Writers, LoseConnection(w)
    PROVE  AllDecided' /\ (Atomic!Fail(w) \/ UNCHANGED Atomic!requestVars)
<1>1. /\ RetryOrFail(w) /\ UNCHANGED <<events, next_event>>
      /\ call[w].pc \in Going /\ call[w].pc \in {"begin"} \cup Open
  BY DEF LoseConnection, RetryOrFail, database, Going, Open
<1>2. CASE Answer(w, "store_error", {})
  <2>1. AllDecided' /\ Atomic!Fail(w)
    BY <1>1, <1>2, Failed
  <2> QED
    BY <2>1
<1>3. CASE call' = [call EXCEPT ![w].pc = "begin", ![w].attempt = 2, ![w].inserted = {}]
  <2>1. PICK o \in Call : o = call[w]
    BY OneCall
  <2>2. PICK c : c = [o EXCEPT !.pc = "begin", !.attempt = 2, !.inserted = {}]
    OBVIOUS
  <2>3. /\ c.pc = "begin" /\ c.path = o.path /\ c.key = o.key /\ c.id = o.id /\ c.event = o.event
        /\ c.answer = o.answer /\ c.value = o.value /\ c.expected = o.expected
    BY <2>2 DEF Call
  <2>4. call' = [call EXCEPT ![w] = c]
    BY <1>3, <2>1, <2>2
  <2>5. c.pc \in Going
    BY <2>3 DEF Going
  <2> QED
    BY <1>1, <2>1, <2>3, <2>4, <2>5, GoesOn
<1> QED
  BY <1>1, <1>2, <1>3 DEF RetryOrFail

LEMMA FaultsAtomic ==
    ASSUME SqlInv, AllDecided, NEW w \in Writers, BusyTimeout(w) \/ WaitFails(w) \/ ReadFails(w)
    PROVE  AllDecided' /\ (Atomic!Fail(w) \/ UNCHANGED Atomic!requestVars)
<1>1. CASE BusyTimeout(w)
  <2>1. /\ Conflict(w) /\ call[w].pc \in {"begin", "revision", "insert"}
        /\ UNCHANGED <<events, next_event>>
    BY <1>1 DEF BusyTimeout, database
  <2> QED
    BY <2>1, ConflictAtomic
<1>2. CASE WaitFails(w) \/ ReadFails(w)
  <2>1. /\ Answer(w, "store_error", {}) /\ call[w].pc \in Going
        /\ UNCHANGED <<events, next_event>>
    BY <1>2 DEF WaitFails, ReadFails, database, Going, Open
  <2>2. AllDecided' /\ Atomic!Fail(w)
    BY <2>1, Failed
  <2> QED
    BY <2>2
<1> QED
  BY <1>1, <1>2

(* Nothing that a request could notice. *)
LEMMA QuietAtomic ==
    ASSUME AllDecided, UNCHANGED <<events, call, next_event>>
    PROVE  AllDecided' /\ UNCHANGED Atomic!requestVars
<1>1. AbstractLog' = AbstractLog /\ AbstractRequest' = AbstractRequest
  BY MappedState, MappedNext
<1>2. AllDecided'
  BY DEF AllDecided
<1> QED
  BY <1>1, <1>2 DEF Atomic!requestVars

LEMMA StepIsAtomic ==
    ASSUME SqlInv, AllDecided, [Next]_vars
    PROVE  AllDecided' /\ [Atomic!Next]_Atomic!requestVars
<1>1. ASSUME NEW w \in Writers, Step(w)
      PROVE  AllDecided' /\ [Atomic!Next]_Atomic!requestVars
  <2>1. AllDecided' /\ (\/ Atomic!Apply(w) \/ Atomic!Refuse(w) \/ Atomic!Replay(w)
                        \/ Atomic!Fail(w) \/ Atomic!Finish(w) \/ UNCHANGED Atomic!requestVars)
    BY <1>1, LoadIdempotentAtomic, LoadAndHandleAtomic, BeginAtomic, ReserveAtomic,
       ReadRevisionAtomic, InsertEventsAtomic, CommitAtomic, FinishAtomic, Zenon DEF Step
  <2> QED
    BY <2>1, Zenon DEF Atomic!Next
<1>2. ASSUME NEW w \in Writers,
             \/ Invoke(w) \/ BusyTimeout(w) \/ LoseConnection(w) \/ WaitFails(w)
             \/ ReadFails(w) \/ LoseCommitReply(w) \/ Crash(w)
      PROVE  AllDecided' /\ [Atomic!Next]_Atomic!requestVars
  <2>1. AllDecided' /\ (\/ Atomic!Invoke(w) \/ Atomic!Apply(w) \/ Atomic!Fail(w)
                        \/ Atomic!Finish(w) \/ UNCHANGED Atomic!requestVars)
    BY <1>2, InvokeAtomic, FaultsAtomic, LoseConnectionAtomic, LoseCommitReplyAtomic,
       FinishAtomic, Zenon
  <2> QED
    BY <2>1, Zenon DEF Atomic!Next
<1>3. CASE Poll \/ UNCHANGED vars
  <2>1. UNCHANGED <<events, call, next_event>>
    BY <1>3 DEF Poll, vars, database
  <2> QED
    BY <2>1, QuietAtomic
<1> QED
  BY <1>1, <1>2, <1>3, Zenon DEF Next

LEMMA InitIsAtomic == Init => AllDecided /\ Atomic!Init
<1> SUFFICES ASSUME Init PROVE AllDecided /\ Atomic!Init
  OBVIOUS
<1>1. SqlInv
  BY SqlInit
<1>2. \A w \in Writers : call[w] = Idle
  BY DEF Init
<1>3. AllDecided
  BY <1>2 DEF AllDecided, Decided, Idle, Open
<1>4. AbstractRequest = [w \in Writers |-> Atomic!NoRequest]
  BY <1>2, MappedState DEF RequestOf, Idle
<1>5. ASSUME NEW id \in Ids
      PROVE  LogOf(events)[id] \in {<<>>, <<Atomic!OldEntry>>}
  <2>1. events \in SUBSET Row /\ IsFiniteSet(events) /\ StreamOK(setup, events, id)
    BY <1>1, Table
  <2>2. /\ LogOf(events)[id] \in Seq(EntrySet) /\ Len(LogOf(events)[id]) = Size(events, id)
        /\ {LogOf(events)[id][n] : n \in 1..Len(LogOf(events)[id])} =
             {EntryOf(row) : row \in Rows(events, id)}
    BY <2>1, LogOfStream
  <2>3. Rows(events, id) = {} \/ Rows(events, id) = {LegacyRow(id)}
    BY DEF Init, Rows, LegacyRow
  <2>4. PICK q : q = LogOf(events)[id]
    OBVIOUS
  <2>5. CASE Rows(events, id) = {}
    <3>1. Len(q) = 0
      BY <2>2, <2>4, <2>5, FS_EmptySet DEF Size
    <3> QED
      BY <2>2, <2>4, <3>1, EmptySeq
  <2>6. CASE Rows(events, id) = {LegacyRow(id)}
    <3>1. Len(q) = 1
      BY <2>2, <2>4, <2>6, FS_Singleton DEF Size
    <3>2. EntryOf(LegacyRow(id)) = Atomic!OldEntry
      BY DEF EntryOf, LegacyRow, Atomic!OldEntry, Atomic!Entry
    <3>3. q[1] = Atomic!OldEntry
      BY <2>2, <2>4, <2>6, <3>1, <3>2
    <3> QED
      BY <2>2, <2>4, <3>1, <3>3
  <2> QED
    BY <2>3, <2>5, <2>6
<1>6. AbstractLog \in [Ids -> {<<>>, <<Atomic!OldEntry>>}]
  BY <1>5, MappedState DEF LogOf
<1>7. next_event = 1
  BY DEF Init
<1> QED
  BY <1>3, <1>4, <1>6, <1>7 DEF Atomic!Init

-------------------------------------------------------------------------------
(* The SQL stores keep the promise of AtomicRequests: every request takes  *)
(* effect in one COMMIT, at most once, accepted by the stream it finds,    *)
(* whichever transactions are lost, repeated or told to wait in between:   *)
(* see ImplementsAtomicRequests.                                           *)
THEOREM SqlIsAtomic == Spec => ImplementsAtomicRequests
<1>1. Init => AllDecided /\ Atomic!Init
  BY InitIsAtomic
<1>2. SqlInv /\ AllDecided /\ [Next]_vars => AllDecided' /\ [Atomic!Next]_Atomic!requestVars
  BY StepIsAtomic
<1> QED
  BY <1>1, <1>2, SqlAlways, PTL DEF Spec, Atomic!Spec, ImplementsAtomicRequests
===============================================================================
