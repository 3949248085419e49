------------------------- MODULE RedisEventStoreProofs -------------------------
(***************************************************************************)
(* The Redis store over its shared client, for any number of callers,      *)
(* aggregates, appends and connections, every page and chunk size, and any *)
(* schedule of lost connections, timeouts, forgotten scripts and evictions.*)
(***************************************************************************)
EXTENDS RedisEventStore, FiniteSetTheorems, SequenceTheorems, TLAPS

IndexKeys == StreamKeys \cup {Global}
EventRecord == [append : Nat, count : Nat, key : IndexKeys, revision : Nat, sequence : Nat]
Kinds == {"none", "append", "page", "hashes", "load_checkpoint", "save_checkpoint"}
Expected == [kind : {"any", "no_stream", "exact"}, revision : Nat]
CommandRecord ==
    [kind : Kinds, script : BOOLEAN, eval : BOOLEAN, key : IndexKeys, after : Nat, limit : Nat,
     sequences : Seq(Nat), append : Nat, expected : Expected, feed : Feeds \cup {"none"}]
Outcomes == {"ok", "noscript", "concurrency_error", "inconsistent_state"}
CallRecord ==
    [pc : {"idle", "take", "write", "read", "apply", "done"},
     operation : {"none", "append", "load", "poll"}, command : CommandRecord,
     connection : Connections \cup {0}, reused : BOOLEAN, id : Ids \cup {"none"}, lookup : {1, 2},
     feed : Feeds \cup {"none"}, limit : Nat, sequences : Seq(Nat), events : Seq(EventRecord),
     asOf : Nat,
     answer : {"none", "ok", "store_error", "decode_error", "concurrency_error",
               "inconsistent_state"}]

InFlight(o) == o.pc \in {"take", "write", "read"}
Holds(o) == o.pc \in {"write", "read"}

-------------------------------------------------------------------------------
(* The network.  Every connection is free, in the cache, held by one       *)
(* caller, or given up with one command on it.                             *)

(* A reply has the shape its command asks for. *)
ReplyShape(m, r) ==
    /\ r.outcome \in Outcomes
    /\ r.outcome # "noscript" =>
          /\ m.kind = "append" => r.value \in Seq(EventRecord)
          /\ m.kind # "append" => r.outcome = "ok"
          /\ m.kind = "page" => r.value \in Seq(Nat \X Nat)
          /\ m.kind = "hashes" => r.value \in Seq(EventRecord) /\ Len(r.value) = Len(m.sequences)
          /\ m.kind = "load_checkpoint" => r.value \in Seq(Nat) /\ Len(r.value) = 1

(* A connection held by a call: its requests q, replies p and status s. *)
HeldOK(o, q, p, s) ==
    /\ s \in {"open", "closed"}
    /\ o.pc = "write" => q = <<>> /\ p = <<>>
    /\ o.pc = "read" => \/ q = <<>> /\ p = <<>>
                        \/ q = <<o.command>> /\ p = <<>> /\ s = "open"
                        \/ q = <<>> /\ p = <<Head(p)>> /\ ReplyShape(o.command, Head(p))

(* The commands an operation consists of. *)
KindsOf(operation) ==
    CASE operation = "append" -> {"append"}
      [] operation = "load" -> {"page", "hashes"}
      [] operation = "poll" -> {"load_checkpoint", "page", "hashes", "save_checkpoint"}
      [] operation = "none" -> {"none"}

CallShape(o) ==
    /\ o \in CallRecord
    /\ o.pc = "idle" <=> o.operation = "none"
    /\ o.command.kind \in KindsOf(o.operation)
    /\ o.pc = "apply" => o.operation = "poll" /\ o.events # <<>>
    /\ o.operation = "poll" => o.feed \in Feeds /\ o.limit > 0
    /\ o.operation = "load" => o.id \in Ids

CommandShape(m) ==
    /\ m \in CommandRecord
    /\ m.kind = "append" => m.key \in Ids \X {"current"} /\ m.append > 0 /\ m.limit > 0 /\ m.script
    /\ m.kind = "page" => m.limit > 0
    /\ m.kind \in {"load_checkpoint", "save_checkpoint"} => m.feed \in Feeds

NetInv ==
    /\ requests \in [Connections -> Seq(CommandRecord)]
    /\ DOMAIN replies = Connections
    /\ status \in [Connections -> {"free", "open", "closed", "dropped"}]
    /\ cached \in Connections \cup {0}
    /\ call \in [Callers -> CallRecord]
    /\ \A w \in Callers : CallShape(call[w]) /\ CommandShape(call[w].command)
    /\ cached # 0 => status[cached] \in {"open", "closed"} /\ requests[cached] = <<>>
                        /\ replies[cached] = <<>>
    /\ \A w \in Callers : Holds(call[w]) =>
          LET c == call[w].connection
          IN  c \in Connections /\ c # cached /\ HeldOK(call[w], requests[c], replies[c], status[c])
    /\ \A v, w \in Callers :
          Holds(call[v]) /\ Holds(call[w]) /\ call[v].connection = call[w].connection => v = w
    /\ \A c \in Connections :
          /\ status[c] = "dropped" =>
                requests[c] = <<Head(requests[c])>> /\ CommandShape(Head(requests[c]))
          /\ requests[c] # <<>> =>
                \/ status[c] = "dropped"
                \/ \E w \in Callers : Holds(call[w]) /\ call[w].connection = c

-------------------------------------------------------------------------------
(* The keyspace. *)
EventsOf(S, key) == {e \in S : e.key = key}
Pairs(S, key) == {<<e.revision, e.sequence>> : e \in EventsOf(S, key)}
Sequences(n) == {<<s, s>> : s \in 1..n}

(* A stream, of which the counter or the index may have been evicted. *)
StreamOK(S, key, counter, ix, lost) ==
    \E n \in Nat :
       /\ {e.revision : e \in EventsOf(S, key)} = 1..n
       /\ counter \in {0, n} /\ ix \in {{}, Pairs(S, key)}
       /\ n > 0 => counter # 0 \/ ix # {}
       /\ lost = 0 => counter = n /\ ix = Pairs(S, key)

StoredOK(S, n) ==
    /\ S \in SUBSET EventRecord
    /\ \A e \in S : e.sequence \in 1..n /\ e.key \in StreamKeys
    /\ \A s \in 1..n : \E e \in S : e.sequence = s
    /\ \A d, e \in S : d.sequence = e.sequence => d = e
    /\ \A d, e \in S : d.key = e.key /\ d.revision = e.revision => d = e
    /\ \A e \in S : e.key[2] = "legacy" => e.sequence = 1

HashesOK(S, n, h, lost) ==
    /\ DOMAIN h \in SUBSET (1..n)
    /\ \A s \in DOMAIN h : h[s] \in S /\ h[s].sequence = s
    /\ lost = 0 => DOMAIN h = 1..n

DbInv ==
    /\ seq \in Nat /\ evictions \in Nat
    /\ DOMAIN revision = StreamKeys /\ DOMAIN index = IndexKeys
    /\ StoredOK(stored, seq)
    /\ \A key \in StreamKeys : StreamOK(stored, key, revision[key], index[key], evictions)
    /\ index[Global] = Sequences(seq)
    /\ HashesOK(stored, seq, hashes, evictions)
    /\ checkpoints \in [Feeds -> Nat]
    /\ delivered \in [Feeds -> SUBSET Nat]

-------------------------------------------------------------------------------
(* The appends.  W is what an append of n events has written.              *)
Written(S, append) == {e \in S : e.append = append}

AnswerOK(W, n, outcome, value) ==
    /\ outcome = "ok" => {value[k] : k \in DOMAIN value} = W /\ Cardinality(W) = n
    /\ outcome \in {"noscript", "concurrency_error", "inconsistent_state"} => W = {}

(* An append whose command may still run has written nothing. *)
AppendOK(S, o, q, p) ==
    o.operation = "append" =>
       LET W == Written(S, o.command.append)
       IN  /\ o.pc \in {"take", "write"} \/ (o.pc = "read" /\ q # <<>>) => W = {}
           /\ o.pc = "read" /\ p # <<>> =>
                 AnswerOK(W, o.command.limit, Head(p).outcome, Head(p).value)
           /\ o.pc = "done" => AnswerOK(W, o.command.limit, o.answer, o.events)

(* The caller of a command that was given up has an error. *)
GivenUp(o, m) ==
    m.kind = "append" /\ o.operation = "append" /\ o.command.append = m.append =>
       o.pc = "done" /\ o.answer = "store_error"

AppendInv ==
    /\ appends \in Nat
    /\ \A d \in stored : d.append <= appends /\ Cardinality(Written(stored, d.append)) = d.count
    /\ \A w \in Callers :
          /\ call[w].operation = "append" => call[w].command.append <= appends
          /\ AppendOK(stored, call[w], requests[call[w].connection], replies[call[w].connection])
    /\ \A v, w \in Callers :
          /\ call[v].operation = "append" /\ call[w].operation = "append"
          /\ call[v].command.append = call[w].command.append
          => v = w
    /\ \A c \in Connections : status[c] = "dropped" =>
          LET m == Head(requests[c])
          IN  /\ m.kind = "append" => m.append <= appends /\ Written(stored, m.append) = {}
              /\ \A w \in Callers : GivenUp(call[w], m)
              /\ \A d \in Connections :
                    /\ status[d] = "dropped" /\ m.kind = "append"
                    /\ Head(requests[d]).kind = "append" /\ Head(requests[d]).append = m.append
                    => d = c

-------------------------------------------------------------------------------
(* The loads. *)
KeyOf(o) == LookupKeys(o.id)[o.lookup]

(* seqs are the sequences of the revisions after n, evs the first events. *)
SequencesAt(S, key, seqs, n) ==
    \A k \in 1..Len(seqs) :
       \E e \in S : e.key = key /\ e.revision = n + k /\ e.sequence = seqs[k]
EventsAt(S, key, evs) ==
    \A k \in 1..Len(evs) : evs[k] \in S /\ evs[k].key = key /\ evs[k].revision = k

(* The revisions up to n are all there was, unless the index I was evicted. *)
Covers(S, I, key, upto, n) ==
    I[key] = {} \/ \A e \in S : e.key = key /\ e.sequence <= upto => e.revision <= n

(* The legacy encoding is read when the current one had nothing to show. *)
TriedCurrent(S, I, o) == o.lookup = 2 => Covers(S, I, <<o.id, "current">>, o.asOf, 0)

Chunk(seqs) == SubSeq(seqs, 1, Min({ChunkSize, Len(seqs)}))

PageAsked(S, o) ==
    /\ o.events = <<>> /\ o.command.key = KeyOf(o) /\ o.command.limit = PageSize
    /\ o.command.after = Len(o.sequences)
    /\ SequencesAt(S, KeyOf(o), o.sequences, 0)
HashesAsked(S, I, o) ==
    /\ o.command.sequences = Chunk(o.sequences) /\ o.sequences # <<>>
    /\ EventsAt(S, KeyOf(o), o.events)
    /\ SequencesAt(S, KeyOf(o), o.sequences, Len(o.events))
    /\ Covers(S, I, KeyOf(o), o.asOf, Len(o.events) + Len(o.sequences))
Members(page) == [k \in DOMAIN page |-> page[k][2]]
PageFound(S, I, o, page) ==
    /\ page \in Seq(Nat \X Nat)
    /\ \A k \in 1..Len(page) : page[k][1] = o.command.after + k
    /\ SequencesAt(S, KeyOf(o), Members(page), o.command.after)
    /\ Len(page) # PageSize => Covers(S, I, KeyOf(o), o.asOf, o.command.after + Len(page))
HashesFound(S, seqs, evs) ==
    \A k \in 1..Len(evs) : evs[k].sequence # 0 => evs[k] \in S /\ evs[k].sequence = seqs[k]
LoadDone(S, I, o) ==
    /\ EventsAt(S, KeyOf(o), o.events)
    /\ Covers(S, I, KeyOf(o), o.asOf, Len(o.events))
    /\ o.lookup = 1 => o.events # <<>>

LoadOK(S, I, o, p) ==
    o.operation = "load" =>
       /\ InFlight(o) \/ o.answer = "ok" => TriedCurrent(S, I, o)
       /\ InFlight(o) /\ o.command.kind = "page" => PageAsked(S, o)
       /\ InFlight(o) /\ o.command.kind = "hashes" => HashesAsked(S, I, o)
       /\ o.pc = "read" /\ p # <<>> /\ Head(p).outcome = "ok" =>
             /\ o.command.kind = "page" => PageFound(S, I, o, Head(p).value)
             /\ o.command.kind = "hashes" => HashesFound(S, o.command.sequences, Head(p).value)
       /\ o.answer = "ok" => o.pc = "done" /\ LoadDone(S, I, o)

LoadInv ==
    \A w \in Callers :
       /\ call[w].operation = "load" => call[w].asOf <= seq
       /\ LoadOK(stored, index, call[w], replies[call[w].connection])

-------------------------------------------------------------------------------
(* The feeds.  D is what the projection of the feed has applied.           *)
Upto(D, n) == 1..n \subseteq D

Consecutive(seqs, base) == \A k \in 1..Len(seqs) : seqs[k] = base + k
ConsecutiveEvents(evs, base) == \A k \in 1..Len(evs) : evs[k].sequence = base + k

FeedPage(D, o) ==
    /\ o.events = <<>> /\ o.command.key = Global
    /\ \E base \in Nat : /\ Upto(D, base) /\ Consecutive(o.sequences, base)
                         /\ o.command.after = base + Len(o.sequences)
FeedHashes(D, o) ==
    /\ o.command.sequences = Chunk(o.sequences) /\ o.sequences # <<>>
    /\ \E base \in Nat : /\ Upto(D, base) /\ ConsecutiveEvents(o.events, base)
                         /\ Consecutive(o.sequences, base + Len(o.events))
FeedReady(D, o) == \E base \in Nat : Upto(D, base) /\ ConsecutiveEvents(o.events, base)
FeedReply(D, o, value) ==
    /\ o.command.kind = "load_checkpoint" => Upto(D, value[1])
    /\ o.command.kind = "page" =>
          \A k \in 1..Len(value) : value[k][1] = o.command.after + k /\ value[k][2] = o.command.after + k
    /\ o.command.kind = "hashes" =>
          \A k \in 1..Len(value) : value[k].sequence \in {0, o.command.sequences[k]}

PollOK(D, o, p) ==
    o.operation = "poll" =>
       /\ InFlight(o) /\ o.command.kind = "load_checkpoint" =>
             o.command.feed = o.feed /\ o.sequences = <<>> /\ o.events = <<>>
       /\ InFlight(o) /\ o.command.kind = "page" => FeedPage(D, o)
       /\ InFlight(o) /\ o.command.kind = "hashes" => FeedHashes(D, o)
       /\ o.pc = "apply" => FeedReady(D, o)
       /\ InFlight(o) /\ o.command.kind = "save_checkpoint" =>
             o.command.feed = o.feed /\ Upto(D, o.command.after)
       /\ o.pc = "read" /\ p # <<>> /\ Head(p).outcome = "ok" => FeedReply(D, o, Head(p).value)

PollInv ==
    /\ \A feed \in Feeds : Upto(delivered[feed], checkpoints[feed])
    /\ \A w \in Callers :
          call[w].operation = "poll" =>
             PollOK(delivered[call[w].feed], call[w], replies[call[w].connection])
    /\ \A c \in Connections : status[c] = "dropped" =>
          LET m == Head(requests[c])
          IN  m.kind = "save_checkpoint" => Upto(delivered[m.feed], m.after)

-------------------------------------------------------------------------------
(* Numbers, sequences and sets. *)
LEMMA MinPair ==
    ASSUME NEW a \in Int, NEW b \in Int
    PROVE  Min({a, b}) = IF a <= b THEN a ELSE b
<1> DEFINE least == IF a <= b THEN a ELSE b
<1>1. least \in {a, b} /\ \A y \in {a, b} : least <= y
  OBVIOUS
<1>2. \A x \in {a, b} : (\A y \in {a, b} : x <= y) => x = least
  OBVIOUS
<1> HIDE DEF least
<1>3. Min({a, b}) = least
  BY <1>1, <1>2 DEF Min
<1> QED
  BY <1>3 DEF least

LEMMA MaxPair ==
    ASSUME NEW a \in Int, NEW b \in Int
    PROVE  Max({a, b}) = IF a <= b THEN b ELSE a
<1> DEFINE most == IF a <= b THEN b ELSE a
<1>1. most \in {a, b} /\ \A y \in {a, b} : most >= y
  OBVIOUS
<1>2. \A x \in {a, b} : (\A y \in {a, b} : x >= y) => x = most
  OBVIOUS
<1> HIDE DEF most
<1>3. Max({a, b}) = most
  BY <1>1, <1>2 DEF Max
<1> QED
  BY <1>3 DEF most

LEMMA FunctionIsSeq ==
    ASSUME NEW T, NEW n \in Nat, NEW f \in [1..n -> T]
    PROVE  f \in Seq(T) /\ Len(f) = n
  OBVIOUS

(* A set whose members are numbered 1..n has n members. *)
LEMMA Numbered ==
    ASSUME NEW S, NEW n \in Nat, NEW number \in [S -> Nat],
           {number[x] : x \in S} = 1..n, \A x, y \in S : number[x] = number[y] => x = y
    PROVE  IsFiniteSet(S) /\ Cardinality(S) = n
<1>1. number \in [S -> 1..n]
  <2>1. \A x \in S : number[x] \in 1..n
    OBVIOUS
  <2> QED
    BY <2>1
<1>2. \A k \in 1..n : \E x \in S : number[x] = k
  <2> SUFFICES ASSUME NEW k \in 1..n PROVE \E x \in S : number[x] = k
    OBVIOUS
  <2>1. k \in {number[x] : x \in S}
    OBVIOUS
  <2> QED
    BY <2>1
<1>3. number \in Injection(S, 1..n)
  BY <1>1 DEF Injection, IsInjective
<1>4. number \in Surjection(S, 1..n)
  BY <1>1, <1>2 DEF Surjection
<1>5. IsFiniteSet(1..n) /\ Cardinality(1..n) = n
  BY FS_Interval
<1> QED
  BY <1>3, <1>4, <1>5, FS_Injection

(* Every index is a numbered sorted set. *)
Sorted(ix, n) ==
    /\ n \in Nat /\ ix \in SUBSET (Nat \X Nat) /\ {p[1] : p \in ix} = 1..n
    /\ \A p, q \in ix : p[1] = q[1] => p = q
    /\ IsFiniteSet(ix) /\ Cardinality(ix) = n

PageOf(page, S, n, after, limit) ==
    /\ page \in Seq(Nat \X Nat) /\ Len(page) <= limit
    /\ \A k \in 1..Len(page) : page[k] \in S /\ page[k][1] = after + k
    /\ Len(page) # limit => after + Len(page) >= n

(* ZRANGEBYSCORE of a set with the scores 1..n: the pairs right after the  *)
(* cursor, in order, and fewer than the limit only at the end.             *)
LEMMA PageIs ==
    ASSUME NEW S, NEW n, Sorted(S, n), NEW after \in Nat, NEW limit \in Nat, NEW page, page = Page(S, after, limit)
    PROVE  PageOf(page, S, n, after, limit)
<1>0. /\ n \in Nat /\ S \in SUBSET (Nat \X Nat) /\ {p[1] : p \in S} = 1..n
      /\ \A p, q \in S : p[1] = q[1] => p = q
  BY DEF Sorted
<1> USE <1>0
<1> DEFINE above == {p \in S : p[1] > after}
           rank(p) == Cardinality({r \in above : r[1] <= p[1]})
           size == IF n > after THEN n - after ELSE 0
           length == IF limit <= size THEN limit ELSE size
<1>1. \A p \in S : p[1] \in 1..n
  OBVIOUS
<1>2. \A k \in 1..n : \E p \in S : p[1] = k
  <2> SUFFICES ASSUME NEW k \in 1..n PROVE \E p \in S : p[1] = k
    OBVIOUS
  <2>1. k \in {p[1] : p \in S}
    OBVIOUS
  <2> QED
    BY <2>1
<1>3. ASSUME NEW m \in Nat, m <= size
      PROVE  Cardinality({r \in above : r[1] <= after + m}) = m
  <2> DEFINE T == {r \in above : r[1] <= after + m}
             number == [r \in T |-> r[1] - after]
  <2>1. number \in [T -> Nat]
    BY <1>1
  <2>2. {number[x] : x \in T} = 1..m
    <3>1. \A x \in T : number[x] \in 1..m
      BY <1>1
    <3>2. ASSUME NEW k \in 1..m
          PROVE  \E x \in T : number[x] = k
      <4>1. after + k \in 1..n
        BY <1>3
      <4>2. PICK p \in S : p[1] = after + k
        BY <1>2, <4>1
      <4>3. p \in T
        BY <4>2, <1>3
      <4> QED
        BY <4>2, <4>3
    <3> HIDE DEF T, number
    <3> QED
      BY <3>1, <3>2
  <2>3. \A x, y \in T : number[x] = number[y] => x = y
    <3> SUFFICES ASSUME NEW x \in T, NEW y \in T, number[x] = number[y] PROVE x = y
      OBVIOUS
    <3>1. x[1] = y[1]
      BY <1>1
    <3> QED
      BY <3>1
  <2> HIDE <1>0 DEF T, number
  <2>4. Cardinality(T) = m
    <3>1. PICK f \in [T -> Nat] : {f[x] : x \in T} = 1..m /\ \A x, y \in T : f[x] = f[y] => x = y
      BY <2>1, <2>2, <2>3
    <3> QED
      BY <3>1, <1>3, Numbered
  <2> QED
    BY <2>4 DEF T
<1>4. \A p \in above : rank(p) = p[1] - after
  <2> SUFFICES ASSUME NEW p \in above PROVE rank(p) = p[1] - after
    OBVIOUS
  <2>1. p[1] - after \in Nat /\ p[1] - after <= size /\ after + (p[1] - after) = p[1]
    BY <1>1
  <2> QED
    BY <1>3, <2>1
<1>5. Cardinality(above) = size
  <2>1. above = {r \in above : r[1] <= after + size}
    BY <1>1
  <2>2. size \in Nat
    OBVIOUS
  <2> HIDE DEF above, size
  <2> QED
    BY <1>3, <2>1, <2>2
<1>6. page = [k \in 1..length |-> CHOOSE p \in above : rank(p) = k]
  <2>1. Min({limit, Cardinality(above)}) = length
    BY <1>5, MinPair
  <2> QED
    BY <2>1 DEF Page
<1>7. ASSUME NEW k \in 1..length
      PROVE  page[k] \in above /\ page[k][1] = after + k
  <2>1. after + k \in 1..n
    OBVIOUS
  <2>2. PICK p \in S : p[1] = after + k
    BY <1>2, <2>1
  <2>3. p \in above
    BY <2>2
  <2>4. rank(p) = k
    BY <1>4, <2>2, <2>3
  <2> HIDE DEF rank, above
  <2>5. page[k] \in above /\ rank(page[k]) = k
    BY <1>6, <2>3, <2>4
  <2>6. page[k][1] - after = k
    BY <1>4, <2>5
  <2>7. page[k][1] \in Nat
    BY <1>1, <2>5 DEF above
  <2> QED
    BY <2>5, <2>6, <2>7
<1>8. page \in [1..length -> Nat \X Nat] /\ length \in Nat
  <2>1. \A k \in 1..length : page[k] \in Nat \X Nat
    BY <1>7
  <2>2. length \in Nat
    OBVIOUS
  <2> DEFINE At(k) == CHOOSE p \in above : rank(p) = k
  <2>3. page = [k \in 1..length |-> At(k)]
    BY <1>6
  <2> HIDE DEF above, rank, length, At
  <2> QED
    BY <2>1, <2>2, <2>3
<1> HIDE DEF above, rank, length
<1>9. page \in Seq(Nat \X Nat) /\ Len(page) = length
  BY <1>8, FunctionIsSeq
<1>10. \A k \in 1..Len(page) : page[k] \in S /\ page[k][1] = after + k
  BY <1>7, <1>9 DEF above
<1> QED
  BY <1>9, <1>10 DEF length, PageOf

-------------------------------------------------------------------------------
(* What the client does to the record of a call. *)
LEMMA SendIs ==
    ASSUME NEW o \in CallRecord, NEW m \in CommandRecord, NEW x, x = Send(o, m)
    PROVE  /\ x \in CallRecord /\ x.pc = "take" /\ x.command = m /\ x.operation = o.operation
           /\ x.id = o.id /\ x.lookup = o.lookup /\ x.feed = o.feed /\ x.limit = o.limit
           /\ x.sequences = o.sequences /\ x.events = o.events /\ x.asOf = o.asOf
           /\ x.answer = o.answer
  BY DEF Send, CallRecord

Answers == {"none", "ok", "store_error", "decode_error", "concurrency_error",
            "inconsistent_state"}

LEMMA AnswerIs ==
    ASSUME NEW o \in CallRecord, NEW a \in Answers, NEW x, x = Answer(o, a)
    PROVE  /\ x \in CallRecord /\ x.pc = "done" /\ x.answer = a /\ x.operation = o.operation
           /\ x.command = o.command /\ x.id = o.id /\ x.lookup = o.lookup /\ x.feed = o.feed
           /\ x.limit = o.limit /\ x.sequences = o.sequences /\ x.events = o.events
           /\ x.asOf = o.asOf
  BY DEF Answer, CallRecord, Answers

(* A call that has read some sequences or events. *)
HavingRead(o, seqs, evs) == [o EXCEPT !.events = evs, !.sequences = seqs]

LEMMA ReadIs ==
    ASSUME NEW o \in CallRecord, NEW seqs \in Seq(Nat), NEW evs \in Seq(EventRecord),
           NEW x, x = HavingRead(o, seqs, evs)
    PROVE  /\ x \in CallRecord /\ x.sequences = seqs /\ x.events = evs
           /\ x.pc = o.pc /\ x.operation = o.operation /\ x.command = o.command
           /\ x.id = o.id /\ x.lookup = o.lookup /\ x.feed = o.feed /\ x.limit = o.limit
           /\ x.asOf = o.asOf /\ x.answer = o.answer
  BY DEF CallRecord, HavingRead

LEMMA ReadSequencesIs ==
    ASSUME NEW o \in CallRecord, NEW seqs \in Seq(Nat)
    PROVE  [o EXCEPT !.sequences = seqs] = HavingRead(o, seqs, o.events)
  BY DEF CallRecord, HavingRead

LEMMA LookupIs ==
    ASSUME NEW o \in CallRecord, NEW x, x = [o EXCEPT !.lookup = 2]
    PROVE  /\ x \in CallRecord /\ x.lookup = 2
           /\ x.pc = o.pc /\ x.operation = o.operation /\ x.command = o.command
           /\ x.id = o.id /\ x.feed = o.feed /\ x.limit = o.limit
           /\ x.sequences = o.sequences /\ x.events = o.events /\ x.asOf = o.asOf
           /\ x.answer = o.answer
  BY DEF CallRecord

LEMMA ApplyIs ==
    ASSUME NEW o \in CallRecord, NEW x, x = [o EXCEPT !.pc = "apply"]
    PROVE  /\ x \in CallRecord /\ x.pc = "apply" /\ x.lookup = o.lookup
           /\ x.operation = o.operation /\ x.command = o.command
           /\ x.id = o.id /\ x.feed = o.feed /\ x.limit = o.limit
           /\ x.sequences = o.sequences /\ x.events = o.events /\ x.asOf = o.asOf
           /\ x.answer = o.answer
  BY DEF CallRecord

LEMMA KeysAre ==
    /\ Global \in IndexKeys /\ Global \notin StreamKeys
    /\ \A id \in Ids : /\ LookupKeys(id)[1] = <<id, "current">>
                       /\ LookupKeys(id)[2] = <<id, "legacy">>
                       /\ <<id, "current">> \in StreamKeys /\ <<id, "legacy">> \in StreamKeys
                       /\ <<id, "current">> \in IndexKeys /\ <<id, "legacy">> \in IndexKeys
  BY DEF Global, IndexKeys, StreamKeys, LookupKeys

LEMMA CommandIs ==
    \A k \in Kinds, b \in BOOLEAN :
       Command(k, b) \in CommandRecord /\ Command(k, b).kind = k /\ Command(k, b).script = b
<1>1. Global \in IndexKeys /\ AnyRevision \in Expected /\ <<>> \in Seq(Nat)
  BY KeysAre DEF AnyRevision, Expected
<1> QED
  BY <1>1 DEF Command, CommandRecord

(* The commands of a load and of a poll. *)
LEMMA CommandsAre ==
    /\ \A key \in IndexKeys, after \in Nat, limit \in Nat :
          LET m == PageCommand(key, after, limit)
          IN  /\ m \in CommandRecord /\ m.kind = "page" /\ m.key = key /\ m.after = after
              /\ m.limit = limit
    /\ \A seqs \in Seq(Nat) :
          LET m == HashesCommand(seqs)
          IN  m \in CommandRecord /\ m.kind = "hashes" /\ m.sequences = seqs
    /\ \A feed \in Feeds :
          LET m == LoadCheckpoint(feed)
          IN  m \in CommandRecord /\ m.kind = "load_checkpoint" /\ m.feed = feed
    /\ \A feed \in Feeds, s \in Nat :
          LET m == SaveCheckpoint(feed, s)
          IN  m \in CommandRecord /\ m.kind = "save_checkpoint" /\ m.feed = feed /\ m.after = s
<1>2. /\ Command("page", FALSE) \in CommandRecord /\ Command("page", FALSE).kind = "page"
      /\ Command("hashes", TRUE) \in CommandRecord /\ Command("hashes", TRUE).kind = "hashes"
      /\ Command("load_checkpoint", FALSE) \in CommandRecord
      /\ Command("load_checkpoint", FALSE).kind = "load_checkpoint"
      /\ Command("save_checkpoint", TRUE) \in CommandRecord
      /\ Command("save_checkpoint", TRUE).kind = "save_checkpoint"
  BY CommandIs DEF Kinds
<1>3. \A key \in IndexKeys, after \in Nat, limit \in Nat :
          LET m == PageCommand(key, after, limit)
          IN  /\ m \in CommandRecord /\ m.kind = "page" /\ m.key = key /\ m.after = after
              /\ m.limit = limit
  <2> SUFFICES ASSUME NEW key \in IndexKeys, NEW after \in Nat, NEW limit \in Nat, NEW m,
                      m = PageCommand(key, after, limit)
               PROVE  /\ m \in CommandRecord /\ m.kind = "page" /\ m.key = key /\ m.after = after
                      /\ m.limit = limit
    OBVIOUS
  <2>1. PICK d : d = Command("page", FALSE)
    OBVIOUS
  <2> QED
    BY <1>2, <2>1 DEF PageCommand, CommandRecord
<1>4. \A seqs \in Seq(Nat) :
          LET m == HashesCommand(seqs)
          IN  m \in CommandRecord /\ m.kind = "hashes" /\ m.sequences = seqs
  BY <1>2 DEF HashesCommand, CommandRecord
<1>5. \A feed \in Feeds :
          LET m == LoadCheckpoint(feed)
          IN  m \in CommandRecord /\ m.kind = "load_checkpoint" /\ m.feed = feed
  BY <1>2 DEF LoadCheckpoint, CommandRecord
<1>6. \A feed \in Feeds, s \in Nat :
          LET m == SaveCheckpoint(feed, s)
          IN  m \in CommandRecord /\ m.kind = "save_checkpoint" /\ m.feed = feed /\ m.after = s
  BY <1>2 DEF SaveCheckpoint, CommandRecord
<1> QED
  BY <1>3, <1>4, <1>5, <1>6

AppendsTo(m, a, id, n) ==
    /\ m \in CommandRecord /\ m.kind = "append" /\ m.append = a
    /\ m.key = <<id, "current">> /\ m.limit = n /\ m.script = TRUE

LEMMA AppendCommandIs ==
    ASSUME NEW a \in Nat, NEW id \in Ids, NEW e \in Expected, NEW n \in Nat,
           NEW m, m = AppendCommand(a, id, e, n)
    PROVE  AppendsTo(m, a, id, n)
<1>0. <<id, "current">> \in IndexKeys
  BY KeysAre
<1>1. PICK b \in CommandRecord : /\ b = Command("append", TRUE)
                                 /\ b.kind = "append" /\ b.script = TRUE
  BY CommandIs DEF Kinds
<1> QED
  BY <1>0, <1>1 DEF AppendCommand, CommandRecord, AppendsTo

(* A call with a new command, or with an answer, is a well-formed one. *)
Ready(o) == /\ o \in CallRecord /\ o.operation # "none"
            /\ o.operation = "poll" => o.feed \in Feeds /\ o.limit > 0
            /\ o.operation = "load" => o.id \in Ids

Formed(o) == CallShape(o) /\ CommandShape(o.command)

LEMMA SendShape ==
    ASSUME NEW o, Ready(o), NEW m, CommandShape(m), m.kind \in KindsOf(o.operation)
    PROVE  /\ Formed(Send(o, m)) /\ Send(o, m).pc = "take"
           /\ Send(o, m).operation = o.operation /\ Send(o, m).asOf = o.asOf
<1> DEFINE x == Send(o, m)
<1>1. /\ x \in CallRecord /\ x.pc = "take" /\ x.command = m /\ x.operation = o.operation
      /\ x.id = o.id /\ x.feed = o.feed /\ x.limit = o.limit /\ x.asOf = o.asOf
  BY SendIs DEF Ready, CommandShape
<1> HIDE DEF x
<1>2. Formed(x)
  BY <1>1 DEF Formed, CallShape, Ready
<1> QED
  BY <1>1, <1>2 DEF x

LEMMA AnswerShape ==
    ASSUME NEW o, Ready(o), CommandShape(o.command), o.command.kind \in KindsOf(o.operation),
           NEW a \in Answers
    PROVE  /\ Formed(Answer(o, a)) /\ Answer(o, a).pc = "done"
           /\ Answer(o, a).operation = o.operation /\ Answer(o, a).asOf = o.asOf
<1> DEFINE x == Answer(o, a)
<1>1. /\ x \in CallRecord /\ x.pc = "done" /\ x.command = o.command /\ x.operation = o.operation
      /\ x.id = o.id /\ x.feed = o.feed /\ x.limit = o.limit /\ x.asOf = o.asOf
  BY AnswerIs DEF Ready
<1> HIDE DEF x
<1>2. Formed(x)
  BY <1>1 DEF Formed, CallShape, Ready
<1> QED
  BY <1>1, <1>2 DEF x

-------------------------------------------------------------------------------
(* What an operation does with a reply. *)
SameCall(x, o) ==
    /\ x \in CallRecord /\ x.operation = o.operation /\ x.id = o.id /\ x.feed = o.feed
    /\ x.limit = o.limit /\ x.asOf = o.asOf /\ (x.answer = o.answer \/ x.pc = "done")

LEMMA ChunkIs ==
    ASSUME NEW seqs \in Seq(Nat)
    PROVE  /\ Chunk(seqs) \in Seq(Nat) /\ Len(Chunk(seqs)) <= Len(seqs)
           /\ seqs # <<>> => Len(Chunk(seqs)) > 0
           /\ \A k \in 1..Len(Chunk(seqs)) : Chunk(seqs)[k] = seqs[k]
<1> DEFINE n == IF ChunkSize <= Len(seqs) THEN ChunkSize ELSE Len(seqs)
<1>0. ChunkSize \in Nat \ {0} /\ Len(seqs) \in Nat
  BY RedisAssumption
<1>1. Min({ChunkSize, Len(seqs)}) = n
  BY <1>0, MinPair
<1>2. n \in 0..Len(seqs) /\ (seqs # <<>> => n > 0)
  BY <1>0
<1> HIDE DEF n
<1>3. Chunk(seqs) = SubSeq(seqs, 1, n)
  BY <1>1 DEF Chunk
<1>4. /\ SubSeq(seqs, 1, n) \in Seq(Nat) /\ Len(SubSeq(seqs, 1, n)) = n
      /\ \A k \in 1..n : SubSeq(seqs, 1, n)[k] = seqs[k]
  BY <1>0, <1>2
<1> QED
  BY <1>0, <1>2, <1>3, <1>4

LEMMA FetchIs ==
    ASSUME NEW o \in CallRecord, NEW x, x = FetchHashes(o)
    PROVE  /\ SameCall(x, o) /\ x.pc = "take" /\ x.lookup = o.lookup
           /\ x.sequences = o.sequences /\ x.events = o.events
           /\ x.command \in CommandRecord /\ x.command.kind = "hashes"
           /\ x.command.sequences = Chunk(o.sequences)
<1>1. Chunk(o.sequences) \in Seq(Nat)
  BY ChunkIs DEF CallRecord
<1>2. PICK m \in CommandRecord : /\ m = HashesCommand(Chunk(o.sequences))
                                 /\ m.kind = "hashes" /\ m.sequences = Chunk(o.sequences)
  BY <1>1, CommandsAre
<1>3. x = Send(o, m)
  BY <1>2 DEF FetchHashes, Chunk
<1> QED
  BY <1>2, <1>3, SendIs DEF SameCall

(* The three ends of a load or of a page of a poll. *)
TriesLegacy(o) == o.operation = "load" /\ o.events = <<>> /\ o.lookup = 1
HasPage(o) == o.operation = "poll" /\ o.events # <<>>

LEMMA LoadedIs ==
    ASSUME NEW o \in CallRecord, o.operation = "load" => o.id \in Ids, NEW x, x = Loaded(o)
    PROVE  /\ SameCall(x, o) /\ x.sequences = o.sequences /\ x.events = o.events
           /\ \/ /\ TriesLegacy(o) /\ x.pc = "take" /\ x.lookup = 2
                 /\ x.command \in CommandRecord /\ x.command.kind = "page"
                 /\ x.command.key = <<o.id, "legacy">>
                 /\ x.command.after = 0 /\ x.command.limit = PageSize
              \/ /\ HasPage(o) /\ x.pc = "apply" /\ x.command = o.command /\ x.lookup = o.lookup
              \/ /\ ~TriesLegacy(o) /\ ~HasPage(o)
                 /\ x.pc = "done" /\ x.answer = "ok" /\ x.command = o.command
                 /\ x.lookup = o.lookup
<1>1. CASE TriesLegacy(o)
  <2>1. PICK p \in CallRecord : /\ p = [o EXCEPT !.lookup = 2] /\ p.lookup = 2
                                /\ p.operation = o.operation /\ p.id = o.id /\ p.feed = o.feed
                                /\ p.limit = o.limit /\ p.sequences = o.sequences
                                /\ p.events = o.events /\ p.asOf = o.asOf
                                /\ p.answer = o.answer
    BY LookupIs
  <2>2. LookupKeys(o.id)[2] = <<o.id, "legacy">> /\ <<o.id, "legacy">> \in IndexKeys
    BY <1>1, KeysAre DEF TriesLegacy
  <2>3. PICK m \in CommandRecord : /\ m = PageCommand(<<o.id, "legacy">>, 0, PageSize)
                                   /\ m.kind = "page" /\ m.key = <<o.id, "legacy">>
                                   /\ m.after = 0 /\ m.limit = PageSize
    <3>1. PageSize \in Nat /\ 0 \in Nat
      BY RedisAssumption
    <3> QED
      BY <2>2, <3>1, CommandsAre
  <2>4. x = Send(p, m)
    BY <1>1, <2>1, <2>2, <2>3 DEF Loaded, TriesLegacy
  <2>5. /\ x \in CallRecord /\ x.pc = "take" /\ x.command = m /\ x.operation = p.operation
        /\ x.id = p.id /\ x.lookup = p.lookup /\ x.feed = p.feed /\ x.limit = p.limit
        /\ x.sequences = p.sequences /\ x.events = p.events /\ x.asOf = p.asOf
        /\ x.answer = p.answer
    BY <2>4, SendIs
  <2>6. SameCall(x, o)
    BY <2>1, <2>5 DEF SameCall
  <2> QED
    BY <1>1, <2>1, <2>3, <2>5, <2>6
<1>2. CASE HasPage(o)
  <2>1. x = [o EXCEPT !.pc = "apply"]
    BY <1>2 DEF Loaded, HasPage
  <2> QED
    BY <1>2, <2>1, ApplyIs DEF SameCall
<1>3. CASE ~TriesLegacy(o) /\ ~HasPage(o)
  <2>1. x = Answer(o, "ok") /\ "ok" \in Answers
    BY <1>3 DEF Loaded, TriesLegacy, HasPage, Answers
  <2> QED
    BY <1>3, <2>1, AnswerIs DEF SameCall
<1> QED
  BY <1>1, <1>2, <1>3

(* A page: another one, the hashes of what was read, or nothing to read. *)
WantsMore(o, page) ==
    Len(page) = o.command.limit /\ NextPageSize(o, o.sequences \o Members(page)) > 0

LEMMA MembersAre ==
    ASSUME NEW page \in Seq(Nat \X Nat)
    PROVE  /\ Members(page) \in Seq(Nat) /\ Len(Members(page)) = Len(page)
           /\ \A k \in 1..Len(page) : Members(page)[k] = page[k][2]
  BY DEF Members

LEMMA NextPageSizeIs ==
    ASSUME NEW o \in CallRecord, NEW seqs \in Seq(Nat)
    PROVE  /\ NextPageSize(o, seqs) \in Int
           /\ o.operation = "load" => NextPageSize(o, seqs) = PageSize /\ PageSize > 0
<1>1. PageSize \in Nat /\ PageSize > 0 /\ o.limit \in Nat /\ Len(seqs) \in Nat
  BY RedisAssumption DEF CallRecord
<1>2. o.limit - Len(seqs) \in Int /\ PageSize \in Int
  BY <1>1
<1>3. Min({PageSize, o.limit - Len(seqs)}) \in Int
  BY <1>2, MinPair
<1> QED
  BY <1>1, <1>3 DEF NextPageSize

LEMMA FirstPageSize ==
    ASSUME NEW o \in CallRecord, o.operation # "load", o.limit > 0
    PROVE  NextPageSize(o, <<>>) \in Nat /\ NextPageSize(o, <<>>) > 0
<1>1. /\ PageSize \in Int /\ PageSize > 0 /\ o.limit \in Int
      /\ Len(<<>>) = 0 /\ o.limit - Len(<<>>) = o.limit
  BY RedisAssumption DEF CallRecord
<1>2. NextPageSize(o, <<>>) = Min({PageSize, o.limit})
  BY <1>1 DEF NextPageSize
<1>3. Min({PageSize, o.limit}) = IF PageSize <= o.limit THEN PageSize ELSE o.limit
  BY <1>1, MinPair
<1> QED
  BY <1>1, <1>2, <1>3

PageNext(o, page, read, x) ==
    /\ SameCall(read, o) /\ read.lookup = o.lookup /\ read.events = o.events
    /\ read.command = o.command /\ read.answer = o.answer
    /\ read.sequences = o.sequences \o Members(page)
    /\ \/ /\ WantsMore(o, page)
          /\ SameCall(x, o) /\ x.pc = "take" /\ x.lookup = o.lookup
          /\ x.sequences = read.sequences /\ x.events = o.events
          /\ x.command \in CommandRecord /\ x.command.kind = "page"
          /\ x.command.key = o.command.key
          /\ Len(page) > 0 /\ x.command.after = page[Len(page)][1]
          /\ x.command.limit = NextPageSize(o, read.sequences) /\ x.command.limit > 0
       \/ ~WantsMore(o, page) /\ read.sequences = <<>> /\ x = Loaded(read)
       \/ ~WantsMore(o, page) /\ read.sequences # <<>> /\ x = FetchHashes(read)

LEMMA AfterPageIs ==
    ASSUME NEW o \in CallRecord, o.operation = "load" => o.id \in Ids,
           NEW page \in Seq(Nat \X Nat), o.command.limit > 0, NEW x, x = AfterPage(o, page)
    PROVE  \E read \in CallRecord : PageNext(o, page, read, x)
<1> DEFINE seqs == o.sequences \o Members(page)
<1>1. seqs \in Seq(Nat) /\ o.sequences \in Seq(Nat) /\ o.events \in Seq(EventRecord)
  <2>1. o.sequences \in Seq(Nat) /\ o.events \in Seq(EventRecord)
    BY DEF CallRecord
  <2>2. Members(page) \in Seq(Nat)
    BY MembersAre
  <2> HIDE DEF seqs
  <2>3. seqs \in Seq(Nat)
    BY <2>1, <2>2, ConcatProperties DEF seqs
  <2> QED
    BY <2>1, <2>3
<1> HIDE DEF seqs
<1>2. PICK read : read = [o EXCEPT !.sequences = seqs]
  OBVIOUS
<1>2a. /\ read \in CallRecord
       /\ read.sequences = seqs /\ read.events = o.events
       /\ read.pc = o.pc /\ read.operation = o.operation /\ read.command = o.command
       /\ read.id = o.id /\ read.lookup = o.lookup /\ read.feed = o.feed /\ read.limit = o.limit
       /\ read.asOf = o.asOf /\ read.answer = o.answer
  <2>1. read = HavingRead(o, seqs, o.events)
    BY <1>1, <1>2, ReadSequencesIs
  <2> QED
    BY <1>1, <2>1, ReadIs, SMTT(30)
<1>3. SameCall(read, o)
  BY <1>2a DEF SameCall
<1>4. NextPageSize(read, seqs) = NextPageSize(o, seqs) /\ NextPageSize(o, seqs) \in Int
  <2>1. NextPageSize(read, seqs) = NextPageSize(o, seqs)
    BY <1>2a DEF NextPageSize
  <2> QED
    BY <1>1, <2>1, NextPageSizeIs
<1>5. WantsMore(o, page) <=> Len(page) = o.command.limit /\ NextPageSize(read, seqs) > 0
  BY <1>4 DEF WantsMore, seqs
<1>6. CASE WantsMore(o, page)
  <2>1. Len(page) > 0 /\ page[Len(page)][1] \in Nat /\ NextPageSize(o, seqs) \in Nat
    BY <1>4, <1>5, <1>6
  <2>2. o.command.key \in IndexKeys
    BY DEF CallRecord, CommandRecord
  <2>3. PICK m \in CommandRecord :
           /\ m = PageCommand(o.command.key, page[Len(page)][1], NextPageSize(o, seqs))
           /\ m.kind = "page" /\ m.key = o.command.key /\ m.after = page[Len(page)][1]
           /\ m.limit = NextPageSize(o, seqs)
    BY <2>1, <2>2, CommandsAre
  <2>4. x = Send(read, m)
    BY <1>2, <1>4, <1>5, <1>6, <2>3 DEF AfterPage, CursorAfter, seqs, Members
  <2>5. /\ x \in CallRecord /\ x.pc = "take" /\ x.command = m /\ x.operation = read.operation
        /\ x.id = read.id /\ x.lookup = read.lookup /\ x.feed = read.feed /\ x.limit = read.limit
        /\ x.sequences = read.sequences /\ x.events = read.events /\ x.asOf = read.asOf
        /\ x.answer = read.answer
    BY <1>2a, <2>4, SendIs
  <2>6. SameCall(x, o)
    BY <1>2a, <2>5 DEF SameCall
  <2> QED
    BY <1>2a, <1>3, <1>5, <1>4, <1>6, <2>1, <2>3, <2>5, <2>6 DEF seqs, PageNext
<1>7. CASE ~WantsMore(o, page) /\ seqs = <<>>
  <2>1. x = Loaded(read)
    BY <1>2, <1>5, <1>7 DEF AfterPage, seqs, Members
  <2> QED
    BY <1>2a, <1>3, <1>7, <2>1 DEF seqs, PageNext
<1>8. CASE ~WantsMore(o, page) /\ seqs # <<>>
  <2>1. x = FetchHashes(read)
    BY <1>2, <1>5, <1>8 DEF AfterPage, seqs, Members
  <2> QED
    BY <1>2a, <1>3, <1>8, <2>1 DEF seqs, PageNext
<1> QED
  BY <1>6, <1>7, <1>8

(* The hashes of a chunk: an error, the next chunk, or the end. *)
Missing(evs) == \E k \in DOMAIN evs : evs[k].sequence = 0

HashesNext(o, evs, read, x) ==
    /\ SameCall(read, o) /\ read.lookup = o.lookup /\ read.command = o.command
    /\ read.events = o.events \o evs /\ read.answer = o.answer
    /\ Len(evs) <= Len(o.sequences) =>
          /\ Len(read.sequences) = Len(o.sequences) - Len(evs)
          /\ \A k \in 1..Len(read.sequences) :
                read.sequences[k] = o.sequences[Len(evs) + k]
    /\ \/ Missing(evs) /\ x = Answer(o, "store_error")
       \/ ~Missing(evs) /\ read.sequences # <<>> /\ x = FetchHashes(read)
       \/ ~Missing(evs) /\ read.sequences = <<>> /\ x = Loaded(read)

LEMMA AfterHashesIs ==
    ASSUME NEW o \in CallRecord, NEW evs \in Seq(EventRecord), NEW x, x = AfterHashes(o, evs)
    PROVE  \E read \in CallRecord : HashesNext(o, evs, read, x)
<1> DEFINE rest == SubSeq(o.sequences, Len(evs) + 1, Len(o.sequences))
           all == o.events \o evs
<1>0. o.sequences \in Seq(Nat) /\ o.events \in Seq(EventRecord) /\ Len(evs) \in Nat
  BY DEF CallRecord
<1>1. /\ rest \in Seq(Nat)
      /\ Len(evs) <= Len(o.sequences) =>
            /\ Len(rest) = Len(o.sequences) - Len(evs)
            /\ \A k \in 1..Len(rest) : rest[k] = o.sequences[Len(evs) + k]
  BY <1>0
<1>2. all \in Seq(EventRecord)
  BY <1>0, ConcatProperties
<1> HIDE DEF all, rest
<1>2a. PICK read : read = HavingRead(o, rest, all)
  OBVIOUS
<1>3. /\ read \in CallRecord
      /\ read.sequences = rest /\ read.events = all
      /\ read.pc = o.pc /\ read.operation = o.operation /\ read.command = o.command
      /\ read.id = o.id /\ read.lookup = o.lookup /\ read.feed = o.feed /\ read.limit = o.limit
      /\ read.asOf = o.asOf /\ read.answer = o.answer
  BY <1>1, <1>2, <1>2a, ReadIs
<1>4. SameCall(read, o)
  BY <1>3 DEF SameCall
<1>5. read = [o EXCEPT !.events = @ \o evs, !.sequences = rest]
  BY <1>2a DEF all, HavingRead
<1>6. CASE Missing(evs)
  <2>1. x = Answer(o, "store_error")
    BY <1>6 DEF AfterHashes, Missing
  <2> QED
    BY <1>1, <1>3, <1>4, <1>6, <2>1 DEF all, HashesNext
<1>7. CASE ~Missing(evs)
  <2>1. \A k \in DOMAIN evs : evs[k].sequence # 0
    BY <1>7 DEF Missing
  <2>2. rest # <<>> => x = FetchHashes(read)
    BY <2>1, <1>5 DEF AfterHashes, rest
  <2>3. rest = <<>> => x = Loaded(read)
    BY <2>1, <1>5 DEF AfterHashes, rest
  <2> QED
    BY <1>1, <1>3, <1>4, <1>7, <2>2, <2>3 DEF all, HashesNext
<1> QED
  BY <1>6, <1>7

(* An operation goes on with a command of its own, or it has its answer. *)
GoesOn(x, o) ==
    /\ Formed(x) /\ x.pc \in {"take", "apply", "done"}
    /\ x.operation = o.operation /\ x.asOf = o.asOf

LEMMA SameShape ==
    ASSUME NEW o, Ready(o), NEW x, SameCall(x, o), CommandShape(x.command),
           x.command.kind \in KindsOf(o.operation), x.pc \in {"take", "apply", "done"},
           x.pc = "apply" => o.operation = "poll" /\ x.events # <<>>
    PROVE  GoesOn(x, o)
  BY DEF GoesOn, Formed, CallShape, SameCall, Ready

LEMMA KindsAre ==
    /\ KindsOf("append") = {"append"} /\ KindsOf("load") = {"page", "hashes"}
    /\ KindsOf("poll") = {"load_checkpoint", "page", "hashes", "save_checkpoint"}
    /\ KindsOf("none") = {"none"}
  BY DEF KindsOf

LEMMA FetchGoesOn ==
    ASSUME NEW o, Ready(o), o.operation \in {"load", "poll"}
    PROVE  GoesOn(FetchHashes(o), o)
<1>1. PICK x : x = FetchHashes(o)
  OBVIOUS
<1>2. /\ SameCall(x, o) /\ x.pc = "take" /\ x.command \in CommandRecord
      /\ x.command.kind = "hashes"
  BY <1>1, FetchIs DEF Ready
<1>3. CommandShape(x.command) /\ x.command.kind \in KindsOf(o.operation)
  BY <1>2, KindsAre DEF CommandShape
<1> QED
  BY <1>1, <1>2, <1>3, SameShape

LEMMA LoadedGoesOn ==
    ASSUME NEW o, Ready(o), o.operation \in {"load", "poll"}, CommandShape(o.command),
           o.command.kind \in KindsOf(o.operation)
    PROVE  GoesOn(Loaded(o), o)
<1>1. PICK x : x = Loaded(o)
  OBVIOUS
<1>2. o \in CallRecord /\ (o.operation = "load" => o.id \in Ids)
  BY DEF Ready
<1>3. /\ SameCall(x, o) /\ x.events = o.events
      /\ \/ /\ TriesLegacy(o) /\ x.pc = "take"
            /\ x.command \in CommandRecord /\ x.command.kind = "page"
            /\ x.command.limit = PageSize
         \/ HasPage(o) /\ x.pc = "apply" /\ x.command = o.command
         \/ x.pc = "done" /\ x.command = o.command
  BY <1>1, <1>2, LoadedIs
<1>4. CommandShape(x.command) /\ x.command.kind \in KindsOf(o.operation)
  BY <1>3, KindsAre, RedisAssumption DEF CommandShape, TriesLegacy
<1>5. x.pc = "apply" => o.operation = "poll" /\ x.events # <<>>
  BY <1>3 DEF HasPage
<1> QED
  BY <1>1, <1>3, <1>4, <1>5, SameShape

LEMMA ContinueGoesOn ==
    ASSUME NEW o, Formed(o), o.pc = "read", NEW r, ReplyShape(o.command, r),
           r.outcome # "noscript"
    PROVE  GoesOn(Continue(o, r), o)
<1> DEFINE m == o.command
<1>1. Ready(o) /\ CommandShape(m) /\ m.kind \in KindsOf(o.operation) /\ o \in CallRecord
  BY DEF Formed, CallShape, Ready
<1>2. o.operation \in {"append", "load", "poll"}
  BY <1>1 DEF Ready, CallRecord
<1>3. CASE m.kind = "append"
  <2>1. o.operation = "append" /\ r.value \in Seq(EventRecord)
    BY <1>1, <1>2, <1>3, KindsAre DEF ReplyShape
  <2>2. PICK y : y = [o EXCEPT !.events = r.value]
    OBVIOUS
  <2>3. /\ y \in CallRecord /\ y.operation = o.operation /\ y.command = m
        /\ y.id = o.id /\ y.feed = o.feed /\ y.limit = o.limit /\ y.asOf = o.asOf
    BY <1>1, <2>1, <2>2 DEF CallRecord
  <2>4. r.outcome \in Answers
    BY DEF ReplyShape, Outcomes, Answers
  <2>5. Continue(o, r) = Answer(y, r.outcome)
    BY <1>3, <2>2 DEF Continue
  <2>6. Ready(y)
    BY <2>1, <2>3 DEF Ready
  <2> QED
    BY <1>1, <2>3, <2>4, <2>5, <2>6, AnswerShape DEF GoesOn
<1>4. CASE m.kind = "page"
  <2>1. o.operation \in {"load", "poll"} /\ r.value \in Seq(Nat \X Nat)
    BY <1>1, <1>2, <1>4, KindsAre DEF ReplyShape
  <2>2. PICK x : x = AfterPage(o, r.value)
    OBVIOUS
  <2>3. m.limit > 0 /\ (o.operation = "load" => o.id \in Ids)
    BY <1>1, <1>4 DEF CommandShape, Ready
  <2>4. PICK read \in CallRecord :
           /\ SameCall(read, o) /\ read.command = m
           /\ \/ /\ SameCall(x, o) /\ x.pc = "take"
                 /\ x.command \in CommandRecord /\ x.command.kind = "page"
                 /\ x.command.limit > 0
              \/ x = Loaded(read)
              \/ x = FetchHashes(read)
    BY <1>1, <2>1, <2>2, <2>3, AfterPageIs DEF PageNext
  <2>5. Ready(read) /\ read.operation = o.operation /\ read.asOf = o.asOf
    BY <1>1, <2>4 DEF Ready, SameCall
  <2>6. CASE /\ SameCall(x, o) /\ x.pc = "take"
             /\ x.command \in CommandRecord /\ x.command.kind = "page"
             /\ x.command.limit > 0
    <3>1. CommandShape(x.command) /\ x.command.kind \in KindsOf(o.operation)
      BY <2>1, <2>6, KindsAre DEF CommandShape
    <3> QED
      BY <1>1, <1>4, <2>2, <2>6, <3>1, SameShape DEF Continue
  <2>7. CASE x = Loaded(read)
    <3>1. GoesOn(Loaded(read), read)
      BY <1>1, <2>1, <2>4, <2>5, LoadedGoesOn
    <3> QED
      BY <1>4, <2>2, <2>5, <2>7, <3>1 DEF Continue, GoesOn
  <2>8. CASE x = FetchHashes(read)
    <3>1. GoesOn(FetchHashes(read), read)
      BY <2>1, <2>5, FetchGoesOn
    <3> QED
      BY <1>4, <2>2, <2>5, <2>8, <3>1 DEF Continue, GoesOn
  <2> QED
    BY <2>4, <2>6, <2>7, <2>8
<1>5. CASE m.kind = "hashes"
  <2>1. o.operation \in {"load", "poll"} /\ r.value \in Seq(EventRecord)
    BY <1>1, <1>2, <1>5, KindsAre DEF ReplyShape
  <2>2. PICK x : x = AfterHashes(o, r.value)
    OBVIOUS
  <2>3. PICK read \in CallRecord :
           /\ SameCall(read, o) /\ read.command = m
           /\ x = Answer(o, "store_error") \/ x = FetchHashes(read) \/ x = Loaded(read)
    BY <1>1, <2>1, <2>2, AfterHashesIs DEF HashesNext
  <2>4. Ready(read) /\ read.operation = o.operation /\ read.asOf = o.asOf
    BY <1>1, <2>3 DEF Ready, SameCall
  <2>5. CASE x = Answer(o, "store_error")
    BY <1>1, <1>5, <2>2, <2>5, AnswerShape DEF Continue, GoesOn, Answers
  <2>6. CASE x = Loaded(read)
    <3>1. GoesOn(Loaded(read), read)
      BY <1>1, <2>1, <2>3, <2>4, LoadedGoesOn
    <3> QED
      BY <1>5, <2>2, <2>4, <2>6, <3>1 DEF Continue, GoesOn
  <2>7. CASE x = FetchHashes(read)
    <3>1. GoesOn(FetchHashes(read), read)
      BY <2>1, <2>4, FetchGoesOn
    <3> QED
      BY <1>5, <2>2, <2>4, <2>7, <3>1 DEF Continue, GoesOn
  <2> QED
    BY <2>3, <2>5, <2>6, <2>7
<1>6. CASE m.kind = "load_checkpoint"
  <2>1. o.operation = "poll" /\ r.value[1] \in Nat
    BY <1>1, <1>2, <1>6, KindsAre DEF ReplyShape
  <2>2. PICK n \in Nat : n = NextPageSize(o, <<>>) /\ n > 0
    BY <1>1, <2>1, FirstPageSize DEF Ready
  <2>3. PICK c \in CommandRecord : /\ c = PageCommand(Global, r.value[1], n)
                                   /\ c.kind = "page" /\ c.limit = n
    BY <2>1, KeysAre, CommandsAre
  <2>4. CommandShape(c) /\ c.kind \in KindsOf(o.operation)
    BY <2>1, <2>2, <2>3, KindsAre DEF CommandShape
  <2>5. Continue(o, r) = Send(o, c)
    BY <1>6, <2>2, <2>3 DEF Continue
  <2> QED
    BY <1>1, <2>4, <2>5, SendShape DEF GoesOn
<1>7. CASE m.kind = "save_checkpoint"
  BY <1>1, <1>7, AnswerShape DEF Continue, GoesOn, Answers
<1> QED
  BY <1>1, <1>2, <1>3, <1>4, <1>5, <1>6, <1>7, KindsAre

-------------------------------------------------------------------------------
(* The network.  A step of caller w leaves the connections of the others   *)
(* alone.                                                                  *)
LEMMA NoConnectionZero ==
    0 \notin Connections
  BY DEF Connections

HeldByOther(w, c) == \E v \in Callers \ {w} : Holds(call[v]) /\ call[v].connection = c

TypedAfter ==
    /\ requests' \in [Connections -> Seq(CommandRecord)] /\ DOMAIN replies' = Connections
    /\ status' \in [Connections -> {"free", "open", "closed", "dropped"}]
    /\ cached' \in Connections \cup {0}

CacheAfter(w) ==
    cached' # 0 =>
       /\ status'[cached'] \in {"open", "closed"} /\ requests'[cached'] = <<>>
       /\ replies'[cached'] = <<>>
       /\ cached' = cached \/ (Holds(call[w]) /\ cached' = call[w].connection)

HeldAfter(w, o) ==
    Holds(o) =>
       /\ o.connection \in Connections /\ o.connection # cached'
       /\ HeldOK(o, requests'[o.connection], replies'[o.connection], status'[o.connection])
       /\ \/ status[o.connection] = "free"
          \/ o.connection = cached
          \/ Holds(call[w]) /\ o.connection = call[w].connection

OthersAfter(w) ==
    \A c \in Connections : HeldByOther(w, c) =>
       requests'[c] = requests[c] /\ replies'[c] = replies[c] /\ status'[c] = status[c]

RequestsAfter(w, o) ==
    \A c \in Connections :
       /\ status'[c] = "dropped" =>
             requests'[c] = <<Head(requests'[c])>> /\ CommandShape(Head(requests'[c]))
       /\ requests'[c] # <<>> =>
             status'[c] = "dropped" \/ (Holds(o) /\ o.connection = c) \/ HeldByOther(w, c)

(* The connection a caller gives up carries its command, and then the      *)
(* caller has an error.                                                    *)
DropsOwn(c, o, x) ==
    /\ o.pc = "read" /\ c = o.connection /\ requests[c] = <<o.command>>
    /\ requests'[c] = requests[c] /\ CommandShape(o.command)
    /\ o.command.kind \in KindsOf(o.operation)
    /\ x.operation = o.operation /\ x.command = o.command /\ x.pc = "done"
    /\ x.answer = "store_error"

DroppedAfter(o, x) ==
    \A c \in Connections : status'[c] = "dropped" =>
       \/ status[c] = "dropped" /\ requests'[c] = requests[c]
       \/ DropsOwn(c, o, x)

StepsTo(w, o, x) ==
    /\ call' = [call EXCEPT ![w] = x] /\ Formed(x) /\ OthersAfter(w) /\ DroppedAfter(o, x)

SameData(x, o) ==
    /\ SameCall(x, o) /\ x.lookup = o.lookup /\ x.sequences = o.sequences
    /\ x.events = o.events /\ x.answer = o.answer /\ x.command = o.command

(* What a step of a caller does to its call. *)
Kept(o, x) ==
    /\ SameData(x, o) /\ o.pc \in {"take", "write"} /\ x.pc \in {"write", "read"}
    /\ x.pc = "read" => replies'[x.connection] = <<>>
GaveUp(o, x) ==
    /\ Holds(o) /\ SameCall(x, o) /\ x.command = o.command /\ x.pc = "done"
    /\ x.answer = "store_error"
Got(o, x, r) ==
    /\ o.pc = "read" /\ replies[o.connection] = <<r>> /\ ReplyShape(o.command, r)
    /\ x = IF r.outcome = "noscript" THEN Send(o, [o.command EXCEPT !.eval = TRUE]) ELSE Continue(o, r)
    /\ GoesOn(x, o)

LEMMA CallerStep ==
    ASSUME NetInv, NEW w \in Callers, NEW o, Formed(o), call' = [call EXCEPT ![w] = o],
           TypedAfter, CacheAfter(w), HeldAfter(w, o), OthersAfter(w), RequestsAfter(w, o)
    PROVE  NetInv'
<1> USE DEF TypedAfter, CacheAfter, HeldAfter, OthersAfter, RequestsAfter
<1>1. DOMAIN call = Callers /\ call'[w] = o /\ \A v \in Callers \ {w} : call'[v] = call[v]
  BY DEF NetInv
<1>2. \A v \in Callers : CallShape(call[v]) /\ CommandShape(call[v].command)
  BY DEF NetInv
<1>3. \A v \in Callers : CallShape(call'[v]) /\ CommandShape(call'[v].command)
  BY <1>1, <1>2 DEF Formed
<1>4. call' \in [Callers -> CallRecord]
  <2>1. o \in CallRecord
    BY DEF Formed, CallShape
  <2>2. call \in [Callers -> CallRecord]
    BY DEF NetInv
  <2> QED
    BY <2>1, <2>2
<1>5. \A v \in Callers \ {w} : Holds(call[v]) =>
         /\ call[v].connection \in Connections /\ call[v].connection # cached
         /\ HeldOK(call[v], requests[call[v].connection], replies[call[v].connection],
                   status[call[v].connection])
         /\ HeldByOther(w, call[v].connection)
         /\ status[call[v].connection] # "free"
         /\ Holds(call[w]) => call[v].connection # call[w].connection
  BY DEF NetInv, HeldByOther, HeldOK
<1>6. \A v \in Callers : Holds(call'[v]) =>
         /\ call'[v].connection \in Connections /\ call'[v].connection # cached'
         /\ HeldOK(call'[v], requests'[call'[v].connection], replies'[call'[v].connection],
                   status'[call'[v].connection])
  <2> SUFFICES ASSUME NEW v \in Callers, Holds(call'[v])
               PROVE  /\ call'[v].connection \in Connections /\ call'[v].connection # cached'
                      /\ HeldOK(call'[v], requests'[call'[v].connection],
                                replies'[call'[v].connection], status'[call'[v].connection])
    OBVIOUS
  <2>1. CASE v = w
    BY <1>1, <2>1
  <2>2. CASE v # w
    <3>1. call'[v] = call[v] /\ Holds(call[v])
      BY <1>1, <2>2
    <3>2. PICK c \in Connections : c = call[v].connection
      BY <1>5, <2>2, <3>1
    <3>3. c # cached /\ HeldOK(call[v], requests[c], replies[c], status[c]) /\ HeldByOther(w, c)
          /\ (Holds(call[w]) => c # call[w].connection)
      BY <1>5, <2>2, <3>1, <3>2
    <3>4. requests'[c] = requests[c] /\ replies'[c] = replies[c] /\ status'[c] = status[c]
      BY <3>3
    <3>5. c # cached'
      BY <3>3, NoConnectionZero
    <3> QED
      BY <3>1, <3>2, <3>3, <3>4, <3>5
  <2> QED
    BY <2>1, <2>2
<1>7. \A u, v \in Callers :
         Holds(call'[u]) /\ Holds(call'[v]) /\ call'[u].connection = call'[v].connection => u = v
  <2>1. \A u, v \in Callers \ {w} :
           Holds(call[u]) /\ Holds(call[v]) /\ call[u].connection = call[v].connection => u = v
    BY DEF NetInv
  <2>2. \A v \in Callers \ {w} : Holds(call[v]) /\ Holds(o) => call[v].connection # o.connection
    BY <1>5
  <2> QED
    BY <1>1, <2>1, <2>2
<1>8. \A c \in Connections : requests'[c] # <<>> =>
         \/ status'[c] = "dropped"
         \/ \E v \in Callers : Holds(call'[v]) /\ call'[v].connection = c
  BY <1>1 DEF HeldByOther
<1> QED
  BY <1>3, <1>4, <1>6, <1>7, <1>8 DEF NetInv

Dropped(c) == Drop({c})

LEMMA DropIs ==
    ASSUME NetInv, NEW c0 \in Connections \cup {0}, NEW d, d = Dropped(c0)
    PROVE  /\ d \in [Connections -> {"free", "open", "closed", "dropped"}]
           /\ \A c \in Connections \ {c0} : d[c] = status[c]
           /\ c0 \in Connections => d[c0] = IF requests[c0] = <<>> THEN "free" ELSE "dropped"
  BY DEF Drop, NetInv, Dropped

LEMMA FreshIs ==
    ASSUME NetInv, CanConnect, NEW f, f = Fresh
    PROVE  /\ f \in Connections /\ status[f] = "free" /\ requests[f] = <<>> /\ f # cached
           /\ \A v \in Callers : Holds(call[v]) => call[v].connection # f
<1>1. f \in Connections /\ status[f] = "free"
  BY DEF CanConnect, Fresh
<1>2. f # cached
  BY <1>1, NoConnectionZero DEF NetInv
<1>3. \A v \in Callers : Holds(call[v]) => call[v].connection # f
  BY <1>1 DEF NetInv, HeldOK
<1>4. requests[f] = <<>>
  BY <1>1, <1>3 DEF NetInv
<1> QED
  BY <1>1, <1>2, <1>3, <1>4

(* Who has the connections, for a caller that has none and for one that    *)
(* has one.                                                                *)
LEMMA OthersHold ==
    ASSUME NetInv, NEW w \in Callers
    PROVE  /\ \A c \in Connections : requests[c] # <<>> =>
                 \/ status[c] = "dropped" \/ HeldByOther(w, c)
                 \/ Holds(call[w]) /\ call[w].connection = c
           /\ \A c \in Connections : HeldByOther(w, c) =>
                 /\ c # cached /\ status[c] \in {"open", "closed"}
                 /\ Holds(call[w]) => c # call[w].connection
           /\ \A c \in Connections : status[c] = "dropped" =>
                 requests[c] = <<Head(requests[c])>> /\ CommandShape(Head(requests[c]))
  BY DEF NetInv, HeldByOther, HeldOK

LEMMA HolderIs ==
    ASSUME NetInv, NEW w \in Callers, NEW o, o = call[w]
    PROVE  /\ Formed(o)
           /\ Holds(o) => /\ o.connection \in Connections /\ o.connection # cached
                          /\ HeldOK(o, requests[o.connection], replies[o.connection],
                                    status[o.connection])
  BY DEF NetInv, Formed

LEMMA TypesHold ==
    ASSUME NetInv
    PROVE  /\ requests \in [Connections -> Seq(CommandRecord)]
           /\ DOMAIN replies = Connections
           /\ status \in [Connections -> {"free", "open", "closed", "dropped"}]
           /\ cached \in Connections \cup {0}
           /\ call \in [Callers -> CallRecord]
           /\ cached # 0 => status[cached] \in {"open", "closed"} /\ requests[cached] = <<>>
                               /\ replies[cached] = <<>>
  BY DEF NetInv

(* A connection, for a command that is to be written. *)
Reuses(o, c) == [o EXCEPT !.connection = c, !.reused = TRUE, !.pc = "write"]
Opens(o, c) == [o EXCEPT !.connection = c, !.reused = FALSE, !.pc = "write"]
ToWrite(o) == Formed(o) /\ o.pc \in {"take", "write"}

LEMMA TakenIs ==
    ASSUME NEW o, ToWrite(o), NEW c \in Connections, NEW x, x = Reuses(o, c) \/ x = Opens(o, c)
    PROVE  Formed(x) /\ x.pc = "write" /\ x.connection = c /\ SameData(x, o)
<1>1. o \in CallRecord /\ o.pc \in {"take", "write"}
  BY DEF Formed, CallShape, ToWrite
<1>2. /\ x \in CallRecord /\ x.pc = "write" /\ x.connection = c
      /\ x.operation = o.operation /\ x.command = o.command /\ x.id = o.id /\ x.feed = o.feed
      /\ x.limit = o.limit /\ x.asOf = o.asOf
      /\ x.lookup = o.lookup /\ x.sequences = o.sequences /\ x.events = o.events
      /\ x.answer = o.answer
  <2>1. CASE x = Reuses(o, c)
    BY <1>1, <2>1 DEF CallRecord, Reuses
  <2>2. CASE x = Opens(o, c)
    BY <1>1, <2>2 DEF CallRecord, Opens
  <2> QED
    BY <2>1, <2>2
<1>3. Formed(x)
  BY <1>1, <1>2 DEF Formed, CallShape, ToWrite
<1>4. SameData(x, o)
  BY <1>2 DEF SameData, SameCall
<1> QED
  BY <1>2, <1>3, <1>4

(* A new connection for caller w, in place of d. *)
Replaces(o, d) ==
    \/ o.pc = "take" /\ d = cached /\ cached' = 0
    \/ o.pc = "write" /\ d = o.connection /\ cached' = cached

LEMMA Connects ==
    ASSUME NetInv, NEW w \in Callers, CanConnect, NEW o, o = call[w], ToWrite(o),
           NEW f, f = Fresh, NEW d \in Connections \cup {0},
           Replaces(o, d),
           call' = [call EXCEPT ![w] = Opens(o, f)],
           replies' = [replies EXCEPT ![f] = <<>>],
           status' = [Dropped(d) EXCEPT ![f] = "open"],
           requests' = requests
    PROVE  NetInv' /\ \E x : StepsTo(w, o, x) /\ Kept(o, x)
<1>1. /\ f \in Connections /\ status[f] = "free" /\ requests[f] = <<>> /\ f # cached
      /\ \A v \in Callers : Holds(call[v]) => call[v].connection # f
  BY FreshIs
<1>2. PICK x : x = Opens(o, f)
  OBVIOUS
<1>3. /\ Formed(x) /\ x.pc = "write" /\ x.connection = f
  BY <1>1, <1>2, TakenIs
<1>4. PICK e : e = Dropped(d)
  OBVIOUS
<1>5. /\ e \in [Connections -> {"free", "open", "closed", "dropped"}]
      /\ \A c \in Connections \ {d} : e[c] = status[c]
      /\ d \in Connections => e[d] = IF requests[d] = <<>> THEN "free" ELSE "dropped"
  BY <1>4, DropIs
<1>6. Holds(o) <=> o.pc = "write"
  BY DEF Holds, Replaces
<1>7. d \in Connections => requests[d] = <<>> /\ d # f
  <2>1. o.pc = "write" => requests[o.connection] = <<>> /\ o.connection # f
    BY <1>1, <1>6, HolderIs DEF HeldOK
  <2>2. cached # 0 => requests[cached] = <<>>
    BY TypesHold
  <2> QED
    BY <1>1, <2>1, <2>2, NoConnectionZero DEF Replaces
<1>8. /\ status' \in [Connections -> {"free", "open", "closed", "dropped"}]
      /\ status'[f] = "open" /\ \A c \in Connections \ {d, f} : status'[c] = status[c]
      /\ d \in Connections => status'[d] = "free"
  BY <1>1, <1>4, <1>5, <1>7
<1>9. DOMAIN replies' = Connections /\ replies'[f] = <<>>
      /\ \A c \in Connections \ {f} : replies'[c] = replies[c]
  BY <1>1, TypesHold
<1>10. ASSUME NEW c \in Connections, HeldByOther(w, c)
       PROVE  c # d /\ c # f
  BY <1>1, <1>6, <1>10, OthersHold DEF HeldByOther, Replaces
<1>11. cached' # 0 => cached' = cached /\ cached # d /\ cached # f
  BY <1>1, <1>6, HolderIs DEF Replaces
<1>12. ASSUME cached' # 0
       PROVE  /\ status'[cached'] \in {"open", "closed"} /\ requests'[cached'] = <<>>
              /\ replies'[cached'] = <<>> /\ cached' = cached
  <2>1. cached' = cached /\ cached \in Connections \ {d, f}
    BY <1>11, <1>12, TypesHold
  <2>2. /\ status[cached] \in {"open", "closed"} /\ requests[cached] = <<>>
        /\ replies[cached] = <<>>
    BY <2>1, <1>12, TypesHold
  <2> QED
    BY <1>8, <1>9, <2>1, <2>2
<1>13. HeldOK(x, requests'[x.connection], replies'[x.connection], status'[x.connection])
  BY <1>1, <1>3, <1>8, <1>9 DEF HeldOK
<1>14. \A c \in Connections :
          /\ status'[c] = "dropped" =>
                requests'[c] = <<Head(requests'[c])>> /\ CommandShape(Head(requests'[c]))
          /\ requests'[c] # <<>> => status'[c] = "dropped" \/ HeldByOther(w, c)
  <2> SUFFICES ASSUME NEW c \in Connections
               PROVE  /\ status'[c] = "dropped" =>
                            /\ requests'[c] = <<Head(requests'[c])>>
                            /\ CommandShape(Head(requests'[c]))
                      /\ requests'[c] # <<>> => status'[c] = "dropped" \/ HeldByOther(w, c)
    OBVIOUS
  <2>1. CASE c \in {d, f}
    BY <1>1, <1>7, <1>8, <2>1
  <2>2. CASE c \notin {d, f}
    <3>1. status'[c] = status[c]
      BY <1>8, <2>2
    <3>2. requests[c] # <<>> => status[c] = "dropped" \/ HeldByOther(w, c)
      BY <1>6, <2>2, OthersHold DEF Replaces
    <3>3. status[c] = "dropped" => requests[c] = <<Head(requests[c])>> /\ CommandShape(Head(requests[c]))
      BY OthersHold
    <3> QED
      BY <3>1, <3>2, <3>3
  <2> QED
    BY <2>1, <2>2
<1>15. \A c \in Connections : HeldByOther(w, c) =>
          requests'[c] = requests[c] /\ replies'[c] = replies[c] /\ status'[c] = status[c]
  BY <1>8, <1>9, <1>10
<1>16. cached' \in Connections \cup {0} /\ requests' \in [Connections -> Seq(CommandRecord)]
  BY TypesHold DEF Replaces
<1>17. f # cached'
  BY <1>1, NoConnectionZero DEF Replaces
<1>18. TypedAfter /\ CacheAfter(w)
  BY <1>8, <1>9, <1>12, <1>16 DEF TypedAfter, CacheAfter
<1>19. HeldAfter(w, x) /\ RequestsAfter(w, x)
  BY <1>1, <1>3, <1>13, <1>14, <1>17 DEF HeldAfter, RequestsAfter
<1>20. OthersAfter(w)
  BY <1>15 DEF OthersAfter
<1>21. NetInv'
  BY <1>2, <1>3, <1>18, <1>19, <1>20, CallerStep
<1>22. DroppedAfter(o, x)
  BY <1>1, <1>8 DEF DroppedAfter
<1>23. Kept(o, x)
  BY <1>1, <1>2, <1>3, TakenIs DEF Kept, ToWrite
<1> QED
  BY <1>2, <1>3, <1>20, <1>21, <1>22, <1>23 DEF StepsTo

(* A caller that has no connection and takes none. *)
LEMMA LocalStep ==
    ASSUME NetInv, NEW w \in Callers, ~Holds(call[w]), NEW o, Formed(o), ~Holds(o),
           call' = [call EXCEPT ![w] = o], UNCHANGED network
    PROVE  NetInv' /\ StepsTo(w, call[w], o)
<1>1. TypedAfter /\ CacheAfter(w)
  BY TypesHold DEF TypedAfter, CacheAfter, network
<1>2. HeldAfter(w, o) /\ OthersAfter(w)
  BY DEF HeldAfter, OthersAfter, network
<1>3. RequestsAfter(w, o)
  BY OthersHold DEF RequestsAfter, network
<1>4. DroppedAfter(call[w], o)
  BY DEF DroppedAfter, network
<1>5. NetInv'
  BY <1>1, <1>2, <1>3, CallerStep
<1> QED
  BY <1>2, <1>4, <1>5 DEF StepsTo

(* A caller that gives up its connection. *)
LEMMA GivesUp ==
    ASSUME NetInv, NEW w \in Callers, NEW o, o = call[w], Holds(o),
           replies[o.connection] = <<>>,
           call' = [call EXCEPT ![w] = Answer(o, "store_error")],
           status' = Dropped(o.connection), UNCHANGED <<requests, replies, cached>>
    PROVE  NetInv' /\ \E x : StepsTo(w, o, x) /\ GaveUp(o, x)
<1>1. PICK x : x = Answer(o, "store_error")
  OBVIOUS
<1>2. /\ Formed(o) /\ o.connection \in Connections /\ o.connection # cached
      /\ HeldOK(o, requests[o.connection], replies[o.connection], status[o.connection])
  BY HolderIs
<1>3. Formed(x) /\ x.pc = "done"
  <2>1. /\ Ready(o) /\ CommandShape(o.command) /\ o.command.kind \in KindsOf(o.operation)
        /\ "store_error" \in Answers
    BY <1>2 DEF Formed, CallShape, Ready, Holds, Answers
  <2> QED
    BY <1>1, <2>1, AnswerShape
<1>4. PICK c \in Connections : c = o.connection
  BY <1>2
<1>5. PICK e : e = Dropped(c)
  OBVIOUS
<1>6. /\ e \in [Connections -> {"free", "open", "closed", "dropped"}]
      /\ \A b \in Connections \ {c} : e[b] = status[b]
      /\ e[c] = IF requests[c] = <<>> THEN "free" ELSE "dropped"
  BY <1>5, DropIs
<1>7. status' = e
  BY <1>4, <1>5
<1>8. TypedAfter
  BY <1>6, <1>7, TypesHold DEF TypedAfter
<1>9. CacheAfter(w)
  BY <1>2, <1>4, <1>6, <1>7, TypesHold DEF CacheAfter
<1>10. HeldAfter(w, x)
  BY <1>3 DEF HeldAfter, Holds
<1>11. OthersAfter(w)
  BY <1>4, <1>6, <1>7, OthersHold DEF OthersAfter
<1>12. requests[c] # <<>> => requests[c] = <<o.command>> /\ CommandShape(o.command)
  BY <1>2, <1>4 DEF HeldOK, Formed, Holds
<1>13. RequestsAfter(w, x)
  <2> SUFFICES ASSUME NEW b \in Connections
               PROVE  /\ e[b] = "dropped" =>
                            requests[b] = <<Head(requests[b])>> /\ CommandShape(Head(requests[b]))
                      /\ requests[b] # <<>> => e[b] = "dropped" \/ HeldByOther(w, b)
    BY <1>7 DEF RequestsAfter
  <2>1. CASE b = c
    BY <1>6, <1>12, <2>1
  <2>2. CASE b # c
    BY <1>4, <1>6, <2>2, OthersHold
  <2> QED
    BY <2>1, <2>2
<1>14. NetInv'
  BY <1>1, <1>3, <1>8, <1>9, <1>10, <1>11, <1>13, CallerStep
<1>15. /\ SameCall(x, o) /\ x.command = o.command /\ x.answer = "store_error"
  BY <1>1, <1>2, AnswerIs DEF Formed, CallShape, Answers, SameCall
<1>16. DroppedAfter(o, x)
  <2>1. requests[c] # <<>> => DropsOwn(c, o, x)
    BY <1>2, <1>3, <1>4, <1>12, <1>15 DEF DropsOwn, HeldOK, Formed, CallShape, Holds, SameCall
  <2> QED
    BY <1>6, <1>7, <2>1 DEF DroppedAfter
<1> QED
  BY <1>1, <1>3, <1>11, <1>14, <1>15, <1>16 DEF StepsTo, GaveUp

LEMMA TakeConnectionNet ==
    ASSUME NetInv, NEW w \in Callers, TakeConnection(w), NEW o, o = call[w]
    PROVE  NetInv' /\ \E x : StepsTo(w, o, x) /\ Kept(o, x)
<1>1. o = call[w]
  OBVIOUS
<1>2. Formed(o) /\ ToWrite(o) /\ o.pc = "take" /\ ~Holds(o)
  BY <1>1, HolderIs DEF TakeConnection, ToWrite, Holds
<1>3. DOMAIN call = Callers /\ o \in CallRecord /\ requests' = requests /\ cached' = 0
  BY <1>1, TypesHold DEF TakeConnection
<1>4. CASE /\ cached # 0 /\ replies[cached] = <<>>
           /\ call' = [call EXCEPT ![w].connection = cached, ![w].reused = TRUE, ![w].pc = "write"]
           /\ UNCHANGED <<replies, status>>
  <2>1. PICK c \in Connections : c = cached
    BY <1>4, TypesHold
  <2>2. PICK x : x = Reuses(o, c)
    OBVIOUS
  <2>3. Formed(x) /\ x.pc = "write" /\ x.connection = c
    BY <1>2, <2>2, TakenIs
  <2>4. call' = [call EXCEPT ![w] = x]
    BY <1>1, <1>3, <1>4, <2>1, <2>2 DEF Reuses
  <2>5. TypedAfter /\ CacheAfter(w) /\ OthersAfter(w)
    BY <1>3, <1>4, TypesHold DEF TypedAfter, CacheAfter, OthersAfter
  <2>6. HeldAfter(w, x)
    BY <1>3, <1>4, <2>1, <2>3, TypesHold, NoConnectionZero DEF HeldAfter, HeldOK
  <2>7. RequestsAfter(w, x)
    BY <1>1, <1>2, <1>3, <1>4, OthersHold DEF RequestsAfter
  <2>8. NetInv'
    BY <2>3, <2>4, <2>5, <2>6, <2>7, CallerStep
  <2>9. DroppedAfter(o, x)
    BY <1>3, <1>4 DEF DroppedAfter
  <2>10. Kept(o, x)
    BY <1>2, <2>2, <2>3, TakenIs DEF Kept
  <2> QED
    BY <2>3, <2>4, <2>5, <2>8, <2>9, <2>10 DEF StepsTo
<1>5. CASE /\ CanConnect
           /\ call' = [call EXCEPT ![w].connection = Fresh, ![w].reused = FALSE, ![w].pc = "write"]
           /\ replies' = [replies EXCEPT ![Fresh] = <<>>]
           /\ status' = [Drop({cached}) EXCEPT ![Fresh] = "open"]
  <2>1. PICK f : f = Fresh
    OBVIOUS
  <2>2. PICK d \in Connections \cup {0} : d = cached
    BY TypesHold
  <2>3. call' = [call EXCEPT ![w] = Opens(o, f)]
    BY <1>1, <1>3, <1>5, <2>1 DEF Opens
  <2>4. status' = [Dropped(d) EXCEPT ![f] = "open"]
    BY <1>5, <2>1, <2>2 DEF Dropped
  <2>5. replies' = [replies EXCEPT ![f] = <<>>]
    BY <1>5, <2>1
  <2>6. Replaces(o, d)
    BY <1>2, <1>3, <2>2 DEF Replaces
  <2> QED
    BY <1>1, <1>2, <1>3, <1>5, <2>1, <2>3, <2>4, <2>5, <2>6, Connects
<1> QED
  BY <1>4, <1>5 DEF TakeConnection

LEMMA WriteNet ==
    ASSUME NetInv, NEW w \in Callers, Write(w), NEW o, o = call[w]
    PROVE  NetInv' /\ \E x : StepsTo(w, o, x) /\ Kept(o, x)
<1>1. o = call[w]
  OBVIOUS
<1>2. o.pc = "write" /\ Holds(o)
  BY <1>1 DEF Write, Holds
<1>3. /\ Formed(o) /\ o.connection \in Connections /\ o.connection # cached
      /\ HeldOK(o, requests[o.connection], replies[o.connection], status[o.connection])
  BY <1>1, <1>2, HolderIs
<1>4. PICK c \in Connections : c = o.connection
  BY <1>3
<1>5. /\ c # cached /\ requests[c] = <<>> /\ replies[c] = <<>> /\ status[c] \in {"open", "closed"}
  BY <1>2, <1>3, <1>4 DEF HeldOK
<1>6. PICK x : x = [o EXCEPT !.pc = "read"]
  OBVIOUS
<1>7. o \in CallRecord /\ o.command \in CommandRecord
  BY <1>3 DEF Formed, CallShape, CommandShape
<1>8. /\ x \in CallRecord /\ x.pc = "read" /\ x.connection = c /\ x.operation = o.operation
      /\ x.command = o.command /\ x.id = o.id /\ x.feed = o.feed /\ x.limit = o.limit
  BY <1>4, <1>6, <1>7, SMTT(30) DEF CallRecord
<1>9. Formed(x)
  BY <1>2, <1>3, <1>8 DEF Formed, CallShape
<1>10. call' = [call EXCEPT ![w] = x]
  BY <1>1, <1>6, TypesHold DEF Write
<1>11. /\ requests' \in [Connections -> Seq(CommandRecord)]
       /\ requests'[c] = IF status[c] = "open" THEN <<o.command>> ELSE <<>>
       /\ \A b \in Connections \ {c} : requests'[b] = requests[b]
  <2>1. requests \in [Connections -> Seq(CommandRecord)]
    BY TypesHold
  <2>2. requests' = IF status[c] # "open" THEN requests
                    ELSE [requests EXCEPT ![c] = Append(@, o.command)]
    BY <1>1, <1>4 DEF Write
  <2>3. Append(<<>>, o.command) = <<o.command>> /\ <<o.command>> \in Seq(CommandRecord)
    BY <1>7
  <2> QED
    BY <1>5, <2>1, <2>2, <2>3
<1>12. UNCHANGED <<replies, status, cached>>
  BY DEF Write
<1>13. TypedAfter /\ CacheAfter(w)
  BY <1>5, <1>11, <1>12, TypesHold DEF TypedAfter, CacheAfter
<1>14. HeldAfter(w, x)
  BY <1>1, <1>2, <1>4, <1>5, <1>8, <1>11, <1>12 DEF HeldAfter, HeldOK
<1>15. OthersAfter(w)
  BY <1>1, <1>2, <1>4, <1>11, <1>12, OthersHold DEF OthersAfter
<1>16. RequestsAfter(w, x)
  <2>1. Holds(x)
    BY <1>8 DEF Holds
  <2> QED
    BY <1>1, <1>4, <1>5, <1>8, <1>11, <1>12, <2>1, OthersHold DEF RequestsAfter
<1>17. NetInv'
  BY <1>9, <1>10, <1>13, <1>14, <1>15, <1>16, CallerStep
<1>18. DroppedAfter(o, x)
  BY <1>5, <1>11, <1>12 DEF DroppedAfter
<1>19. Kept(o, x)
  <2>1. SameData(x, o)
    BY <1>6, <1>7, <1>8 DEF SameData, SameCall, CallRecord
  <2> QED
    BY <1>2, <1>5, <1>8, <1>12, <2>1 DEF Kept
<1> QED
  BY <1>9, <1>10, <1>15, <1>17, <1>18, <1>19 DEF StepsTo

LEMMA WriteFailsNet ==
    ASSUME NetInv, NEW w \in Callers, WriteFails(w), NEW o, o = call[w]
    PROVE  NetInv' /\ \E x : StepsTo(w, o, x) /\ (Kept(o, x) \/ GaveUp(o, x))
<1>1. o = call[w]
  OBVIOUS
<1>2. o.pc = "write" /\ Holds(o)
  BY <1>1 DEF WriteFails, Holds
<1>3. /\ Formed(o) /\ o.connection \in Connections
      /\ HeldOK(o, requests[o.connection], replies[o.connection], status[o.connection])
  BY <1>1, <1>2, HolderIs
<1>4. UNCHANGED <<requests, cached>> /\ DOMAIN call = Callers /\ o \in CallRecord
  BY <1>3, TypesHold DEF WriteFails, Formed, CallShape
<1>5. CASE o.reused
  <2>1. PICK f : f = Fresh
    OBVIOUS
  <2>2. PICK d \in Connections \cup {0} : d = o.connection
    BY <1>3
  <2>3. call' = [call EXCEPT ![w] = Opens(o, f)]
    <3>1. call' = [call EXCEPT ![w].connection = f, ![w].reused = FALSE]
      BY <1>1, <1>5, <2>1 DEF WriteFails
    <3>2. [o EXCEPT !.connection = f, !.reused = FALSE] = Opens(o, f)
      BY <1>2, <1>4 DEF Opens, CallRecord
    <3> QED
      BY <1>1, <1>4, <3>1, <3>2
  <2>4. status' = [Dropped(d) EXCEPT ![f] = "open"]
    BY <1>1, <1>5, <2>1, <2>2 DEF Dropped, WriteFails
  <2>5. replies' = [replies EXCEPT ![f] = <<>>] /\ CanConnect
    BY <1>1, <1>5, <2>1 DEF WriteFails
  <2>6. Replaces(o, d) /\ ToWrite(o)
    BY <1>2, <1>3, <1>4, <2>2 DEF Replaces, ToWrite
  <2> QED
    BY <1>1, <1>4, <2>1, <2>3, <2>4, <2>5, <2>6, Connects
<1>6. CASE ~o.reused
  <2>1. call' = [call EXCEPT ![w] = Answer(o, "store_error")]
    BY <1>1, <1>4, <1>6 DEF WriteFails
  <2>2. status' = Dropped(o.connection) /\ UNCHANGED replies
    BY <1>1, <1>6 DEF WriteFails, Dropped
  <2>3. replies[o.connection] = <<>>
    BY <1>2, <1>3 DEF HeldOK
  <2> QED
    BY <1>1, <1>2, <1>4, <2>1, <2>2, <2>3, GivesUp
<1> QED
  BY <1>5, <1>6

LEMMA ReadFailsNet ==
    ASSUME NetInv, NEW w \in Callers, ReadFails(w), NEW o, o = call[w]
    PROVE  NetInv' /\ \E x : StepsTo(w, o, x) /\ GaveUp(o, x)
<1>1. o = call[w]
  OBVIOUS
<1>2. Holds(o) /\ replies[o.connection] = <<>> /\ UNCHANGED <<requests, replies, cached>>
  BY <1>1 DEF ReadFails, Holds
<1>3. call' = [call EXCEPT ![w] = Answer(o, "store_error")]
  BY <1>1, TypesHold DEF ReadFails
<1>4. status' = Dropped(o.connection)
  BY <1>1 DEF ReadFails, Dropped
<1> QED
  BY <1>1, <1>2, <1>3, <1>4, GivesUp

LEMMA IdleIs ==
    Formed(Idle) /\ Idle \in CallRecord /\ Idle.pc = "idle" /\ Idle.sequences = <<>>
    /\ Idle.events = <<>> /\ Idle.lookup = 1 /\ Idle.answer = "none"
<1>1. /\ Command("none", FALSE) \in CommandRecord /\ Command("none", FALSE).kind = "none"
      /\ <<>> \in Seq(EventRecord) /\ <<>> \in Seq(Nat)
  <2>1. Command("none", FALSE) \in CommandRecord /\ Command("none", FALSE).kind = "none"
    BY CommandIs DEF Kinds
  <2>2. <<>> \in Seq(EventRecord) /\ <<>> \in Seq(Nat)
    OBVIOUS
  <2> QED
    BY <2>1, <2>2
<1>2. /\ Idle \in CallRecord /\ Idle.pc = "idle" /\ Idle.operation = "none"
      /\ Idle.command = Command("none", FALSE) /\ Idle.sequences = <<>>
      /\ Idle.events = <<>> /\ Idle.lookup = 1 /\ Idle.answer = "none"
  <2>1. PICK m \in CommandRecord : m = Command("none", FALSE)
    BY <1>1
  <2>2. Idle = [pc |-> "idle", operation |-> "none", command |-> m,
                connection |-> 0, reused |-> FALSE, id |-> "none", lookup |-> 1, feed |-> "none",
                limit |-> 0, sequences |-> <<>>, events |-> <<>>, asOf |-> 0,
                answer |-> "none"]
    BY <2>1 DEF Idle
  <2>3. Idle \in CallRecord
    BY <1>1, <2>2 DEF CallRecord
  <2>4. /\ Idle.pc = "idle" /\ Idle.operation = "none" /\ Idle.command = m
        /\ Idle.sequences = <<>> /\ Idle.events = <<>> /\ Idle.lookup = 1 /\ Idle.answer = "none"
    BY <2>2
  <2> QED
    BY <2>1, <2>3, <2>4
<1>3. Formed(Idle)
  BY <1>1, <1>2, KindsAre DEF Formed, CallShape, CommandShape
<1> QED
  BY <1>2, <1>3

LEMMA ReturnNet ==
    ASSUME NetInv, NEW w \in Callers, Return(w)
    PROVE  NetInv' /\ StepsTo(w, call[w], Idle)
<1>1. /\ ~Holds(call[w]) /\ call' = [call EXCEPT ![w] = Idle] /\ UNCHANGED network
  BY DEF Return, Holds
<1>4. Formed(Idle) /\ ~Holds(Idle)
  BY IdleIs DEF Holds
<1>5. PICK x : x = Idle
  OBVIOUS
<1> QED
  BY <1>1, <1>4, <1>5, LocalStep

LEMMA ApplyNet ==
    ASSUME NetInv, NEW w \in Callers, Apply(w), NEW o, o = call[w]
    PROVE  /\ NetInv' /\ Formed(o) /\ o.pc = "apply"
           /\ \E x : /\ StepsTo(w, o, x)
                     /\ \/ /\ LastSequence(o) \in Nat
                           /\ x = Send(o, SaveCheckpoint(o.feed, LastSequence(o)))
                           /\ delivered' = [delivered EXCEPT ![o.feed] =
                                              @ \cup {o.events[k].sequence : k \in DOMAIN o.events}]
                        \/ x = Answer(o, "decode_error") /\ delivered' = delivered
<1>1. o = call[w]
  OBVIOUS
<1>2. Formed(o) /\ o.pc = "apply" /\ ~Holds(o) /\ UNCHANGED network /\ DOMAIN call = Callers
  BY <1>1, HolderIs, TypesHold DEF Apply, Holds
<1>3. /\ Ready(o) /\ CommandShape(o.command) /\ o.command.kind \in KindsOf(o.operation)
      /\ o.operation = "poll" /\ o.events \in Seq(EventRecord) /\ o.events # <<>>
  BY <1>2 DEF Formed, CallShape, Ready, CallRecord
<1>4. CASE /\ delivered' = [delivered EXCEPT ![o.feed] =
                               @ \cup {o.events[k].sequence : k \in DOMAIN o.events}]
           /\ call' = [call EXCEPT ![w] = Send(o, SaveCheckpoint(o.feed, LastSequence(o)))]
  <2>1. LastSequence(o) \in Nat
    <3>1. Len(o.events) \in 1..Len(o.events)
      BY <1>3
    <3>2. o.events[Len(o.events)] \in EventRecord
      BY <1>3, <3>1
    <3> QED
      BY <3>2 DEF LastSequence, EventRecord
  <2>2. PICK m \in CommandRecord : /\ m = SaveCheckpoint(o.feed, LastSequence(o))
                                   /\ m.kind = "save_checkpoint" /\ m.feed = o.feed
    BY <1>3, <2>1, CommandsAre DEF Ready
  <2>3. CommandShape(m) /\ m.kind \in KindsOf(o.operation)
    BY <1>3, <2>2, KindsAre DEF CommandShape, Ready
  <2>4. PICK x : x = Send(o, m)
    OBVIOUS
  <2>5. Formed(x) /\ x.pc = "take"
    BY <1>3, <2>3, <2>4, SendShape
  <2>6. call' = [call EXCEPT ![w] = x] /\ ~Holds(x)
    BY <1>4, <2>2, <2>4, <2>5 DEF Holds
  <2>7. NetInv' /\ StepsTo(w, o, x)
    BY <1>1, <1>2, <2>5, <2>6, LocalStep
  <2> QED
    BY <1>2, <1>4, <2>1, <2>2, <2>4, <2>7
<1>5. CASE call' = [call EXCEPT ![w] = Answer(o, "decode_error")] /\ delivered' = delivered
  <2>1. PICK x : x = Answer(o, "decode_error")
    OBVIOUS
  <2>2. Formed(x) /\ x.pc = "done"
    BY <1>3, <2>1, AnswerShape DEF Answers
  <2>3. call' = [call EXCEPT ![w] = x] /\ ~Holds(x)
    BY <1>5, <2>1, <2>2 DEF Holds
  <2>4. NetInv' /\ StepsTo(w, o, x)
    BY <1>1, <1>2, <2>2, <2>3, LocalStep
  <2> QED
    BY <1>2, <1>5, <2>1, <2>4
<1> QED
  BY <1>1, <1>2, <1>4, <1>5 DEF Apply

LEMMA ReadNet ==
    ASSUME NetInv, NEW w \in Callers, Read(w), NEW o, o = call[w]
    PROVE  NetInv' /\ \E x, r : StepsTo(w, o, x) /\ Got(o, x, r)
<1>1. o = call[w]
  OBVIOUS
<1>2. o.pc = "read" /\ Holds(o) /\ replies[o.connection] # <<>> /\ requests' = requests
  BY <1>1 DEF Read, Holds
<1>3. /\ Formed(o) /\ o.connection \in Connections /\ o.connection # cached
      /\ HeldOK(o, requests[o.connection], replies[o.connection], status[o.connection])
  BY <1>1, <1>2, HolderIs
<1>4. PICK c \in Connections : c = o.connection
  BY <1>3
<1>5. PICK r : r = Head(replies[c])
  OBVIOUS
<1>6. /\ c # cached /\ requests[c] = <<>> /\ replies[c] = <<r>>
      /\ status[c] \in {"open", "closed"} /\ ReplyShape(o.command, r)
  BY <1>2, <1>3, <1>4, <1>5 DEF HeldOK
<1>7. Tail(replies[c]) = <<>>
  BY <1>6
<1>8. PICK x : x = IF r.outcome = "noscript" THEN Send(o, [o.command EXCEPT !.eval = TRUE])
                                             ELSE Continue(o, r)
  OBVIOUS
<1>9. GoesOn(x, o)
  <2>1. CASE r.outcome = "noscript"
    <3>1. PICK m : m = [o.command EXCEPT !.eval = TRUE]
      OBVIOUS
    <3>2. CommandShape(m) /\ m.kind = o.command.kind
      BY <1>3, <3>1 DEF Formed, CommandShape, CommandRecord
    <3>3. Ready(o) /\ m.kind \in KindsOf(o.operation)
      BY <1>2, <1>3, <3>2 DEF Formed, CallShape, Ready
    <3> QED
      BY <1>8, <2>1, <3>1, <3>2, <3>3, SendShape DEF GoesOn
  <2>2. CASE r.outcome # "noscript"
    BY <1>2, <1>3, <1>6, <1>8, <2>2, ContinueGoesOn
  <2> QED
    BY <2>1, <2>2
<1>10. call' = [call EXCEPT ![w] = x] /\ Formed(x) /\ ~Holds(x)
  <2>1. call' = [call EXCEPT ![w] = x]
    BY <1>1, <1>4, <1>5, <1>8, TypesHold DEF Read
  <2> QED
    BY <1>9, <2>1 DEF GoesOn, Holds
<1>11. /\ replies'[c] = <<>> /\ \A b \in Connections \ {c} : replies'[b] = replies[b]
       /\ DOMAIN replies' = Connections
  BY <1>1, <1>4, <1>7, TypesHold DEF Read
<1>12. PICK d \in Connections \cup {0} :
          /\ status' = Dropped(d)
          /\ \/ d = c /\ cached' = cached
             \/ d = cached /\ cached' = c
  <2>1. CASE r.outcome = "noscript"
    BY <1>1, <1>4, <1>5, <2>1 DEF Read, Dropped
  <2>2. CASE r.outcome # "noscript"
    BY <1>1, <1>4, <1>5, <1>7, <2>2, TypesHold DEF Read, Dropped
  <2> QED
    BY <2>1, <2>2
<1>13. PICK e : e = Dropped(d)
  OBVIOUS
<1>14. /\ e \in [Connections -> {"free", "open", "closed", "dropped"}]
       /\ \A b \in Connections \ {d} : e[b] = status[b]
       /\ d \in Connections => e[d] = IF requests[d] = <<>> THEN "free" ELSE "dropped"
  BY <1>13, DropIs
<1>15. d \in Connections => requests[d] = <<>>
  BY <1>6, <1>12, TypesHold, NoConnectionZero
<1>16. TypedAfter
  BY <1>2, <1>11, <1>12, <1>13, <1>14, TypesHold DEF TypedAfter
<1>17. CacheAfter(w)
  <2>1. CASE d = c /\ cached' = cached
    BY <1>1, <1>2, <1>4, <1>6, <1>11, <1>12, <1>13, <1>14, <2>1, TypesHold DEF CacheAfter
  <2>2. CASE d = cached /\ cached' = c
    BY <1>1, <1>2, <1>4, <1>6, <1>11, <1>12, <1>13, <1>14, <2>2 DEF CacheAfter
  <2> QED
    BY <1>12, <2>1, <2>2
<1>18. HeldAfter(w, x)
  BY <1>10 DEF HeldAfter
<1>19. OthersAfter(w)
  <2> SUFFICES ASSUME NEW b \in Connections, HeldByOther(w, b)
               PROVE  replies'[b] = replies[b] /\ status'[b] = status[b]
    BY <1>2 DEF OthersAfter
  <2>1. b # c /\ b # cached
    BY <1>1, <1>2, <1>4, OthersHold
  <2> QED
    BY <1>11, <1>12, <1>13, <1>14, <2>1
<1>20. RequestsAfter(w, x)
  <2> SUFFICES ASSUME NEW b \in Connections
               PROVE  /\ e[b] = "dropped" =>
                            requests[b] = <<Head(requests[b])>> /\ CommandShape(Head(requests[b]))
                      /\ requests[b] # <<>> => e[b] = "dropped" \/ HeldByOther(w, b)
    BY <1>2, <1>12, <1>13 DEF RequestsAfter
  <2>1. CASE b = d
    BY <1>14, <1>15, <2>1
  <2>2. CASE b # d
    BY <1>1, <1>4, <1>6, <1>14, <2>2, OthersHold
  <2> QED
    BY <2>1, <2>2
<1>21. NetInv'
  BY <1>10, <1>16, <1>17, <1>18, <1>19, <1>20, CallerStep
<1>22. DroppedAfter(o, x)
  BY <1>2, <1>12, <1>13, <1>14, <1>15 DEF DroppedAfter
<1>23. Got(o, x, r)
  BY <1>2, <1>4, <1>6, <1>8, <1>9 DEF Got
<1> QED
  BY <1>10, <1>19, <1>21, <1>22, <1>23 DEF StepsTo

-------------------------------------------------------------------------------
(* The keyspace.  Numbers(S, key, n): the stream has the revisions 1..n. *)
Numbers(S, key, n) == n \in Nat /\ {e.revision : e \in EventsOf(S, key)} = 1..n

LEMMA StreamIs ==
    ASSUME NEW S, NEW N, StoredOK(S, N), NEW key, NEW n, Numbers(S, key, n)
    PROVE  /\ Pairs(S, key) \in SUBSET (Nat \X Nat)
           /\ {p[1] : p \in Pairs(S, key)} = 1..n
           /\ \A p, q \in Pairs(S, key) : p[1] = q[1] => p = q
           /\ IsFiniteSet(Pairs(S, key)) /\ Cardinality(Pairs(S, key)) = n
           /\ IsFiniteSet(EventsOf(S, key)) /\ Cardinality(EventsOf(S, key)) = n
<1> DEFINE E == EventsOf(S, key)
           P == Pairs(S, key)
<1>1. /\ \A e \in E : e \in EventRecord /\ e \in S /\ e.key = key
      /\ \A d, e \in E : d.revision = e.revision => d = e
      /\ n \in Nat /\ {e.revision : e \in E} = 1..n
  BY DEF StoredOK, EventsOf, Numbers
<1>2. \A e \in E : e.revision \in Nat /\ e.sequence \in Nat
  BY <1>1 DEF EventRecord
<1>3. P = {<<e.revision, e.sequence>> : e \in E}
  BY DEF Pairs
<1> HIDE DEF E, P
<1>4. P \in SUBSET (Nat \X Nat)
  BY <1>2, <1>3
<1>5. {p[1] : p \in P} = 1..n
  <2>1. ASSUME NEW p \in P PROVE p[1] \in 1..n
    <3>1. PICK e \in E : p = <<e.revision, e.sequence>>
      BY <1>3
    <3>2. e.revision \in {d.revision : d \in E}
      OBVIOUS
    <3> QED
      BY <1>1, <3>1, <3>2
  <2>2. ASSUME NEW k \in 1..n PROVE \E p \in P : p[1] = k
    <3>1. k \in {e.revision : e \in E}
      BY <1>1
    <3>2. PICK e \in E : k = e.revision
      BY <3>1
    <3>3. <<e.revision, e.sequence>> \in P
      BY <1>3
    <3> QED
      BY <3>2, <3>3
  <2> QED
    BY <2>1, <2>2
<1>6. \A p, q \in P : p[1] = q[1] => p = q
  <2> SUFFICES ASSUME NEW p \in P, NEW q \in P, p[1] = q[1] PROVE p = q
    OBVIOUS
  <2>1. PICK d \in E : p = <<d.revision, d.sequence>>
    BY <1>3
  <2>2. PICK e \in E : q = <<e.revision, e.sequence>>
    BY <1>3
  <2>3. d = e
    BY <1>1, <2>1, <2>2
  <2> QED
    BY <2>1, <2>2, <2>3
<1>7. IsFiniteSet(P) /\ Cardinality(P) = n
  <2>1. PICK f : f = [p \in P |-> p[1]]
    OBVIOUS
  <2>2. f \in [P -> Nat] /\ \A p \in P : f[p] = p[1]
    BY <1>4, <2>1
  <2>3. {f[p] : p \in P} = 1..n
    BY <1>5, <2>2
  <2>4. \A p, q \in P : f[p] = f[q] => p = q
    BY <1>6, <2>2
  <2> QED
    BY <1>1, <2>2, <2>3, <2>4, Numbered
<1>8. IsFiniteSet(E) /\ Cardinality(E) = n
  <2>1. PICK f : f = [e \in E |-> e.revision]
    OBVIOUS
  <2>2. f \in [E -> Nat] /\ \A e \in E : f[e] = e.revision
    BY <1>2, <2>1
  <2>3. {f[e] : e \in E} = 1..n
    BY <1>1, <2>2
  <2>4. \A d, e \in E : f[d] = f[e] => d = e
    BY <1>1, <2>2
  <2> QED
    BY <1>1, <2>2, <2>3, <2>4, Numbered
<1> QED
  BY <1>4, <1>5, <1>6, <1>7, <1>8 DEF E, P

LEMMA EmptyIsSorted ==
    Sorted({}, 0)
<1>1. IsFiniteSet({}) /\ Cardinality({}) = 0
  BY FS_EmptySet
<1>2. {p[1] : p \in {}} = 1..0
  OBVIOUS
<1> QED
  BY <1>1, <1>2 DEF Sorted

LEMMA SequencesAreSorted ==
    ASSUME NEW n \in Nat
    PROVE  Sorted(Sequences(n), n)
<1> DEFINE P == Sequences(n)
<1>1. \A p \in P : \E s \in 1..n : p = <<s, s>>
  BY DEF Sequences
<1>2. \A s \in 1..n : <<s, s>> \in P
  BY DEF Sequences
<1> HIDE DEF P
<1>3. P \in SUBSET (Nat \X Nat) /\ \A p \in P : p[1] \in 1..n /\ p = <<p[1], p[1]>>
  BY <1>1
<1>4. {p[1] : p \in P} = 1..n
  <2>1. \A s \in 1..n : \E p \in P : p[1] = s
    BY <1>2
  <2> QED
    BY <1>3, <2>1
<1>5. \A p, q \in P : p[1] = q[1] => p = q
  BY <1>3
<1>6. IsFiniteSet(P) /\ Cardinality(P) = n
  <2>1. PICK f : f = [p \in P |-> p[1]]
    OBVIOUS
  <2>2. f \in [P -> Nat] /\ \A p \in P : f[p] = p[1]
    BY <1>3, <2>1
  <2>3. {f[p] : p \in P} = 1..n
    BY <1>4, <2>2
  <2>4. \A p, q \in P : f[p] = f[q] => p = q
    BY <1>5, <2>2
  <2> QED
    BY <2>2, <2>3, <2>4, Numbered
<1> QED
  BY <1>3, <1>4, <1>5, <1>6 DEF Sorted, P

LEMMA IndexIsSorted ==
    ASSUME DbInv, NEW key \in IndexKeys
    PROVE  \E n \in Nat : Sorted(index[key], n)
<1>1. CASE key = Global
  <2>1. index[key] = Sequences(seq) /\ seq \in Nat
    BY <1>1 DEF DbInv
  <2> QED
    BY <2>1, SequencesAreSorted
<1>2. CASE key \in StreamKeys
  <2>1. StoredOK(stored, seq) /\ StreamOK(stored, key, revision[key], index[key], evictions)
    BY <1>2 DEF DbInv
  <2>2. PICK n \in Nat : Numbers(stored, key, n) /\ index[key] \in {{}, Pairs(stored, key)}
    BY <2>1 DEF StreamOK, Numbers
  <2>3. Sorted(Pairs(stored, key), n)
    BY <2>1, <2>2, StreamIs DEF Sorted
  <2> QED
    BY <2>2, <2>3, EmptyIsSorted
<1> QED
  BY <1>1, <1>2 DEF IndexKeys

(* What an append of L events writes after revision n and sequence q. *)
Batch(a, L, key, n, q) == {Event(a, L, key, n + k, q + k) : k \in 1..L}
NewPairs(n, q, L) == {<<n + k, q + k>> : k \in 1..L}

BatchOf(B, a, L, key, n, q) ==
    /\ \A e \in B : /\ e \in EventRecord /\ e.append = a /\ e.count = L /\ e.key = key
                    /\ \E k \in 1..L : e.revision = n + k /\ e.sequence = q + k
    /\ \A k \in 1..L : \E e \in B : e.revision = n + k /\ e.sequence = q + k
    /\ \A d, e \in B : d.revision = e.revision \/ d.sequence = e.sequence => d = e

LEMMA BatchIs ==
    ASSUME NEW a \in Nat, NEW L \in Nat, NEW key \in IndexKeys, NEW n \in Nat, NEW q \in Nat,
           NEW B, B = Batch(a, L, key, n, q)
    PROVE  BatchOf(B, a, L, key, n, q)
<1>1. \A k \in 1..L : /\ Event(a, L, key, n + k, q + k) \in EventRecord
                      /\ Event(a, L, key, n + k, q + k).append = a
                      /\ Event(a, L, key, n + k, q + k).count = L
                      /\ Event(a, L, key, n + k, q + k).key = key
                      /\ Event(a, L, key, n + k, q + k).revision = n + k
                      /\ Event(a, L, key, n + k, q + k).sequence = q + k
  <2>1. ASSUME NEW k \in 1..L, NEW e, e = Event(a, L, key, n + k, q + k)
        PROVE  /\ e \in EventRecord /\ e.append = a /\ e.count = L /\ e.key = key
               /\ e.revision = n + k /\ e.sequence = q + k
    <3>1. PICK r \in Nat, t \in Nat : r = n + k /\ t = q + k
      OBVIOUS
    <3>2. e = Event(a, L, key, r, t)
      BY <2>1, <3>1
    <3>3. /\ e \in EventRecord /\ e.append = a /\ e.count = L /\ e.key = key
          /\ e.revision = r /\ e.sequence = t
      BY <3>2 DEF Event, EventRecord
    <3> QED
      BY <3>1, <3>3
  <2> QED
    BY <2>1
<1>2. \A e \in B : \E k \in 1..L : e = Event(a, L, key, n + k, q + k)
  BY DEF Batch
<1>3. \A k \in 1..L : Event(a, L, key, n + k, q + k) \in B
  BY DEF Batch
<1>4. \A e \in B : /\ e \in EventRecord /\ e.append = a /\ e.count = L /\ e.key = key
                   /\ \E k \in 1..L : e.revision = n + k /\ e.sequence = q + k
  BY <1>1, <1>2
<1>5. \A k \in 1..L : \E e \in B : e.revision = n + k /\ e.sequence = q + k
  BY <1>1, <1>3
<1>6. \A d, e \in B : d.revision = e.revision \/ d.sequence = e.sequence => d = e
  <2> SUFFICES ASSUME NEW d \in B, NEW e \in B,
                      d.revision = e.revision \/ d.sequence = e.sequence
               PROVE  d = e
    OBVIOUS
  <2>1. PICK j \in 1..L : d = Event(a, L, key, n + j, q + j)
    BY <1>2
  <2>2. PICK k \in 1..L : e = Event(a, L, key, n + k, q + k)
    BY <1>2
  <2>3. j = k
    BY <1>1, <2>1, <2>2
  <2> QED
    BY <2>1, <2>2, <2>3
<1> QED
  BY <1>4, <1>5, <1>6 DEF BatchOf

LEMMA BatchSize ==
    ASSUME NEW a \in Nat, NEW L \in Nat, NEW key \in IndexKeys, NEW n \in Nat, NEW q \in Nat,
           NEW B, B = Batch(a, L, key, n, q)
    PROVE  IsFiniteSet(B) /\ Cardinality(B) = L
<1>1. /\ \A e \in B : e \in EventRecord /\ \E k \in 1..L : e.revision = n + k
      /\ \A k \in 1..L : \E e \in B : e.revision = n + k
      /\ \A d, e \in B : d.revision = e.revision => d = e
  <2>1. BatchOf(B, a, L, key, n, q)
    BY BatchIs
  <2> QED
    BY <2>1 DEF BatchOf
<1>2. PICK f : f = [e \in B |-> e.revision - n]
  OBVIOUS
<1>3. f \in [B -> Nat] /\ \A e \in B : f[e] = e.revision - n
  <2>1. \A e \in B : e.revision - n \in Nat
    BY <1>1
  <2> QED
    BY <1>2, <2>1
<1>4. {f[e] : e \in B} = 1..L
  <2>1. \A e \in B : f[e] \in 1..L
    BY <1>1, <1>3
  <2>2. \A k \in 1..L : \E e \in B : f[e] = k
    BY <1>1, <1>3
  <2> QED
    BY <2>1, <2>2
<1>5. \A d, e \in B : f[d] = f[e] => d = e
  <2> SUFFICES ASSUME NEW d \in B, NEW e \in B, f[d] = f[e] PROVE d = e
    OBVIOUS
  <2>1. d.revision \in Nat /\ e.revision \in Nat
    BY <1>1 DEF EventRecord
  <2>2. d.revision = e.revision
    BY <1>3, <2>1
  <2> QED
    BY <1>1, <2>2
<1> QED
  BY <1>3, <1>4, <1>5, Numbered

Longer(T, S, key, n, q, L) ==
    /\ StoredOK(T, q + L) /\ Numbers(T, key, n + L)
    /\ Pairs(T, key) = Pairs(S, key) \cup NewPairs(n, q, L)
    /\ \A other \in StreamKeys \ {key} : EventsOf(T, other) = EventsOf(S, other)

LEMMA AppendStored ==
    ASSUME NEW S, NEW q \in Nat, StoredOK(S, q), NEW key \in Ids \X {"current"},
           NEW n, Numbers(S, key, n), NEW a \in Nat, NEW L \in Nat,
           NEW B, B = Batch(a, L, key, n, q), NEW T, T = S \cup B
    PROVE  Longer(T, S, key, n, q, L)
<1>0. key \in StreamKeys /\ key \in IndexKeys /\ key[2] = "current" /\ n \in Nat
  BY DEF StreamKeys, IndexKeys, Numbers
<1>1. /\ \A e \in B : /\ e \in EventRecord /\ e.key = key
                      /\ \E k \in 1..L : e.revision = n + k /\ e.sequence = q + k
      /\ \A k \in 1..L : \E e \in B : e.revision = n + k /\ e.sequence = q + k
      /\ \A d, e \in B : d.revision = e.revision \/ d.sequence = e.sequence => d = e
  <2>1. BatchOf(B, a, L, key, n, q)
    BY <1>0, BatchIs
  <2> QED
    BY <2>1 DEF BatchOf
<1>2. /\ \A e \in S : /\ e \in EventRecord /\ e.sequence \in 1..q /\ e.key \in StreamKeys
                      /\ e.key[2] = "legacy" => e.sequence = 1
      /\ \A s \in 1..q : \E e \in S : e.sequence = s
      /\ \A d, e \in S : d.sequence = e.sequence => d = e
      /\ \A d, e \in S : d.key = e.key /\ d.revision = e.revision => d = e
  BY DEF StoredOK
<1>3. /\ \A e \in S : e.key = key => e.revision \in 1..n
      /\ \A r \in 1..n : \E e \in S : e.key = key /\ e.revision = r
  <2>1. {e.revision : e \in EventsOf(S, key)} = 1..n
    BY DEF Numbers
  <2>2. ASSUME NEW e \in S, e.key = key PROVE e.revision \in 1..n
    <3>1. e \in EventsOf(S, key)
      BY <2>2 DEF EventsOf
    <3> QED
      BY <2>1, <3>1
  <2>3. ASSUME NEW r \in 1..n PROVE \E e \in S : e.key = key /\ e.revision = r
    <3>1. r \in {e.revision : e \in EventsOf(S, key)}
      BY <2>1
    <3>2. PICK e \in EventsOf(S, key) : r = e.revision
      BY <3>1
    <3> QED
      BY <3>2 DEF EventsOf
  <2> QED
    BY <2>2, <2>3
<1>4. \A e \in B : e.sequence \in (q + 1)..(q + L) /\ e.revision \in (n + 1)..(n + L)
  BY <1>0, <1>1
<1>5. StoredOK(T, q + L)
  <2>1. \A e \in T : e \in EventRecord /\ e.sequence \in 1..(q + L) /\ e.key \in StreamKeys
                     /\ (e.key[2] = "legacy" => e.sequence = 1)
    BY <1>0, <1>1, <1>2, <1>4
  <2>2. ASSUME NEW s \in 1..(q + L) PROVE \E e \in T : e.sequence = s
    <3>1. CASE s \in 1..q
      BY <1>2, <3>1
    <3>2. CASE s \notin 1..q
      <4>1. s - q \in 1..L /\ q + (s - q) = s
        BY <3>2
      <4>2. PICK e \in B : e.sequence = q + (s - q)
        BY <1>1, <4>1
      <4> QED
        BY <4>1, <4>2
    <3> QED
      BY <3>1, <3>2
  <2>3. \A d, e \in T : d.sequence = e.sequence => d = e
    <3>1. \A d \in S, e \in B : d.sequence # e.sequence
      BY <1>2, <1>4
    <3> QED
      BY <1>1, <1>2, <3>1
  <2>4. \A d, e \in T : d.key = e.key /\ d.revision = e.revision => d = e
    <3>1. \A d \in S, e \in B : ~(d.key = e.key /\ d.revision = e.revision)
      BY <1>0, <1>1, <1>3, <1>4
    <3> QED
      BY <1>1, <1>2, <3>1
  <2> QED
    BY <2>1, <2>2, <2>3, <2>4 DEF StoredOK
<1>6. EventsOf(T, key) = EventsOf(S, key) \cup B
  BY <1>1 DEF EventsOf
<1>7. Numbers(T, key, n + L)
  <2>1. ASSUME NEW e \in EventsOf(T, key) PROVE e.revision \in 1..(n + L)
    BY <1>0, <1>3, <1>4, <1>6 DEF EventsOf
  <2>2. ASSUME NEW r \in 1..(n + L) PROVE \E e \in EventsOf(T, key) : e.revision = r
    <3>1. CASE r \in 1..n
      BY <1>3, <1>6, <3>1 DEF EventsOf
    <3>2. CASE r \notin 1..n
      <4>1. r - n \in 1..L /\ n + (r - n) = r
        BY <1>0, <3>2
      <4>2. PICK e \in B : e.revision = n + (r - n)
        BY <1>1, <4>1
      <4> QED
        BY <1>6, <4>1, <4>2
    <3> QED
      BY <3>1, <3>2
  <2>3. PICK m \in Nat : m = n + L
    BY <1>0
  <2>4. PICK E : E = EventsOf(T, key)
    OBVIOUS
  <2>5. /\ \A e \in E : e.revision \in 1..m
        /\ \A r \in 1..m : \E e \in E : e.revision = r
    BY <2>1, <2>2, <2>3, <2>4
  <2>6. {e.revision : e \in E} = 1..m
    BY <2>5
  <2>7. Numbers(T, key, m)
    BY <2>4, <2>6 DEF Numbers
  <2> QED
    BY <2>3, <2>7
<1>8. Pairs(T, key) = Pairs(S, key) \cup NewPairs(n, q, L)
  <2>1. ASSUME NEW p PROVE p \in NewPairs(n, q, L) <=> \E e \in B : p = <<e.revision, e.sequence>>
    BY <1>1 DEF NewPairs
  <2>2. ASSUME NEW p
        PROVE  p \in Pairs(T, key) <=> \E e \in EventsOf(T, key) : p = <<e.revision, e.sequence>>
    BY DEF Pairs
  <2>3. ASSUME NEW p
        PROVE  p \in Pairs(S, key) <=> \E e \in EventsOf(S, key) : p = <<e.revision, e.sequence>>
    BY DEF Pairs
  <2>4. ASSUME NEW p
        PROVE  p \in Pairs(T, key) <=> p \in Pairs(S, key) \cup NewPairs(n, q, L)
    <3>1. (\E e \in EventsOf(T, key) : p = <<e.revision, e.sequence>>) <=>
             \/ \E e \in EventsOf(S, key) : p = <<e.revision, e.sequence>>
             \/ \E e \in B : p = <<e.revision, e.sequence>>
      BY <1>6
    <3> QED
      BY <2>1, <2>2, <2>3, <3>1
  <2> QED
    BY <2>4
<1>9. \A other \in StreamKeys \ {key} : EventsOf(T, other) = EventsOf(S, other)
  BY <1>1 DEF EventsOf
<1> QED
  BY <1>5, <1>7, <1>8, <1>9 DEF Longer

(* The check of APPEND_LUA: the counter and the index agree only on a      *)
(* stream that has lost neither.                                           *)
LEMMA ConsistentStream ==
    ASSUME DbInv, NEW m, CommandShape(m), m.kind = "append", AppendOutcome(m) = "ok"
    PROVE  \E n \in Nat : /\ Numbers(stored, m.key, n) /\ revision[m.key] = n
                          /\ index[m.key] = Pairs(stored, m.key)
<1>1. PICK key \in StreamKeys : key = m.key
  BY DEF CommandShape, StreamKeys
<1>2. StoredOK(stored, seq) /\ StreamOK(stored, key, revision[key], index[key], evictions)
  BY DEF DbInv
<1>3. PICK n \in Nat : /\ Numbers(stored, key, n) /\ revision[key] \in {0, n}
                       /\ index[key] \in {{}, Pairs(stored, key)}
                       /\ n > 0 => revision[key] # 0 \/ index[key] # {}
  BY <1>2 DEF StreamOK, Numbers
<1>4. Cardinality(Pairs(stored, key)) = n /\ IsFiniteSet(Pairs(stored, key))
  BY <1>2, <1>3, StreamIs
<1>5. Cardinality({}) = 0 /\ (n = 0 => Pairs(stored, key) = {})
  BY <1>4, FS_EmptySet
<1>6. Cardinality(index[key]) = revision[key]
  BY <1>1 DEF AppendOutcome
<1>7. revision[key] = n /\ index[key] = Pairs(stored, key)
  BY <1>3, <1>4, <1>5, <1>6
<1> QED
  BY <1>1, <1>3, <1>7

Listed(f) == {f[k] : k \in DOMAIN f}
NewOf(new, L, n, q) ==
    /\ new \in Seq(EventRecord) /\ DOMAIN new = 1..L
    /\ \A k \in 1..L : new[k].revision = n + k /\ new[k].sequence = q + k

LEMMA NewEventsAre ==
    ASSUME NEW m, CommandShape(m), m.kind = "append", NEW n \in Nat, revision[m.key] = n,
           seq \in Nat, NEW new, new = NewEvents(m)
    PROVE  NewOf(new, m.limit, n, seq) /\ Listed(new) = Batch(m.append, m.limit, m.key, n, seq)
<1>1. /\ m.append \in Nat /\ m.limit \in Nat /\ m.key \in IndexKeys
  BY DEF CommandShape, CommandRecord
<1>2. PICK a \in Nat, L \in Nat, key \in IndexKeys, q \in Nat :
         a = m.append /\ L = m.limit /\ key = m.key /\ q = seq
  BY <1>1
<1>3. new = [k \in 1..L |-> Event(a, L, key, n + k, q + k)]
  BY <1>2 DEF NewEvents
<1>4. \A k \in 1..L : /\ new[k] \in EventRecord /\ new[k].revision = n + k
                      /\ new[k].sequence = q + k
  BY <1>3 DEF Event, EventRecord
<1>5. DOMAIN new = 1..L
  BY <1>3
<1>6. new \in Seq(EventRecord)
  <2>1. new \in [1..L -> EventRecord]
    BY <1>3, <1>4
  <2> QED
    BY <2>1
<1>7. Listed(new) = Batch(a, L, key, n, q)
  BY <1>3, <1>5 DEF Batch, Listed
<1>8. NewOf(new, L, n, q)
  BY <1>4, <1>5, <1>6 DEF NewOf
<1> QED
  BY <1>2, <1>7, <1>8

LEMMA AppendDb ==
    ASSUME DbInv, NEW m, CommandShape(m), m.kind = "append", AppendOutcome(m) = "ok",
           AppendScript(m), UNCHANGED <<checkpoints, evictions, delivered>>
    PROVE  /\ DbInv'
           /\ \E n \in Nat : /\ NewEvents(m) \in Seq(EventRecord)
                             /\ Numbers(stored, m.key, n)
                             /\ Listed(NewEvents(m)) = Batch(m.append, m.limit, m.key, n, seq)
                             /\ stored' = stored \cup Batch(m.append, m.limit, m.key, n, seq)
<1>1. PICK n \in Nat : /\ Numbers(stored, m.key, n) /\ revision[m.key] = n
                       /\ index[m.key] = Pairs(stored, m.key)
  BY ConsistentStream
<1>2. PICK a \in Nat, L \in Nat, key \in Ids \X {"current"}, q \in Nat :
         a = m.append /\ L = m.limit /\ key = m.key /\ q = seq /\ L > 0
  BY DEF CommandShape, CommandRecord, DbInv
<1>3. PICK new : new = NewEvents(m)
  OBVIOUS
<1>4. PICK B : B = Batch(a, L, key, n, q)
  OBVIOUS
<1>5. /\ new \in Seq(EventRecord) /\ DOMAIN new = 1..L
      /\ \A k \in 1..L : new[k].revision = n + k /\ new[k].sequence = q + k
      /\ Listed(new) = B
  <2>1. revision[m.key] = n /\ seq \in Nat
    BY <1>1, <1>2
  <2>2. NewOf(new, m.limit, n, seq) /\ Listed(new) = Batch(m.append, m.limit, m.key, n, seq)
    BY <1>3, <2>1, NewEventsAre
  <2> QED
    BY <1>2, <1>4, <2>2 DEF NewOf
<1>6. PICK S, T : S = stored /\ T = S \cup B
  OBVIOUS
<1>7. stored' = T /\ seq' = q + L
  BY <1>2, <1>3, <1>5, <1>6 DEF AppendScript, Listed
<1>8. StoredOK(S, q)
  BY <1>2, <1>6 DEF DbInv
<1>9. /\ StoredOK(T, q + L) /\ Numbers(T, key, n + L)
      /\ Pairs(T, key) = Pairs(S, key) \cup NewPairs(n, q, L)
      /\ \A other \in StreamKeys \ {key} : EventsOf(T, other) = EventsOf(S, other)
  <2>1. Numbers(S, key, n)
    BY <1>1, <1>2, <1>6
  <2>2. Longer(T, S, key, n, q, L)
    BY <1>4, <1>6, <1>8, <2>1, AppendStored
  <2> QED
    BY <2>2 DEF Longer
<1>10. key \in StreamKeys /\ key \in IndexKeys /\ key # Global /\ Global \in IndexKeys
       /\ Global \notin StreamKeys
  BY KeysAre DEF StreamKeys, IndexKeys
<1>11. /\ revision' = [revision EXCEPT ![key] = n + L]
       /\ DOMAIN revision = StreamKeys /\ DOMAIN index = IndexKeys
  BY <1>1, <1>2 DEF AppendScript, DbInv
<1>12. /\ {<<new[k].revision, new[k].sequence>> : k \in DOMAIN new} = NewPairs(n, q, L)
       /\ {<<new[k].sequence, new[k].sequence>> : k \in DOMAIN new} = NewPairs(q, q, L)
  <2>1. ASSUME NEW p
        PROVE  /\ p \in {<<new[k].revision, new[k].sequence>> : k \in DOMAIN new} <=>
                     p \in NewPairs(n, q, L)
               /\ p \in {<<new[k].sequence, new[k].sequence>> : k \in DOMAIN new} <=>
                     p \in NewPairs(q, q, L)
    BY <1>5 DEF NewPairs
  <2> QED
    BY <2>1
<1>13. index' = [index EXCEPT ![key] = @ \cup NewPairs(n, q, L), ![Global] = @ \cup NewPairs(q, q, L)]
  <2>1. index' = [index EXCEPT
           ![key] = @ \cup {<<new[k].revision, new[k].sequence>> : k \in DOMAIN new},
           ![Global] = @ \cup {<<new[k].sequence, new[k].sequence>> : k \in DOMAIN new}]
    BY <1>2, <1>3 DEF AppendScript
  <2> QED
    BY <1>12, <2>1
<1>14. /\ DOMAIN index' = IndexKeys /\ index'[key] = Pairs(T, key)
       /\ index'[Global] = Sequences(q) \cup NewPairs(q, q, L)
       /\ \A other \in StreamKeys \ {key} : index'[other] = index[other]
  <2>1. index[key] = Pairs(S, key) /\ index[Global] = Sequences(q)
    BY <1>1, <1>2, <1>6 DEF DbInv
  <2> QED
    BY <1>9, <1>10, <1>11, <1>13, <2>1 DEF IndexKeys
<1>15. Sequences(q) \cup NewPairs(q, q, L) = Sequences(q + L)
  <2>1. ASSUME NEW p
        PROVE  p \in Sequences(q) \cup NewPairs(q, q, L) <=> p \in Sequences(q + L)
    <3>1. p \in Sequences(q) <=> \E s \in 1..q : p = <<s, s>>
      BY DEF Sequences
    <3>2. p \in Sequences(q + L) <=> \E s \in 1..(q + L) : p = <<s, s>>
      BY DEF Sequences
    <3>3. p \in NewPairs(q, q, L) <=> \E k \in 1..L : p = <<q + k, q + k>>
      BY DEF NewPairs
    <3>4. ASSUME NEW s \in 1..(q + L), s \notin 1..q
          PROVE  s - q \in 1..L /\ q + (s - q) = s
      BY <3>4
    <3>5. \A k \in 1..L : q + k \in 1..(q + L)
      OBVIOUS
    <3>6. \A s \in 1..q : s \in 1..(q + L)
      OBVIOUS
    <3>7. p \in Sequences(q + L) => p \in Sequences(q) \/ p \in NewPairs(q, q, L)
      BY <3>1, <3>2, <3>3, <3>4
    <3>8. p \in Sequences(q) \/ p \in NewPairs(q, q, L) => p \in Sequences(q + L)
      BY <3>1, <3>2, <3>3, <3>5, <3>6
    <3> QED
      BY <3>7, <3>8
  <2> QED
    BY <2>1
<1>16. StreamOK(T, key, n + L, Pairs(T, key), evictions)
  <2>1. PICK l \in Nat : l = n + L /\ l > 0
    BY <1>2
  <2>2. Numbers(T, key, l)
    BY <1>9, <2>1
  <2>3. StreamOK(T, key, l, Pairs(T, key), evictions)
    BY <2>1, <2>2 DEF StreamOK, Numbers
  <2> QED
    BY <2>1, <2>3
<1>17. \A other \in StreamKeys \ {key} :
          StreamOK(T, other, revision'[other], index'[other], evictions)
  <2> SUFFICES ASSUME NEW other \in StreamKeys \ {key}
               PROVE  StreamOK(T, other, revision'[other], index'[other], evictions)
    OBVIOUS
  <2>1. revision'[other] = revision[other] /\ index'[other] = index[other]
    BY <1>11, <1>14
  <2>2. EventsOf(T, other) = EventsOf(S, other) /\ Pairs(T, other) = Pairs(S, other)
    BY <1>9 DEF Pairs
  <2>3. StreamOK(S, other, revision[other], index[other], evictions)
    BY <1>6 DEF DbInv
  <2> QED
    BY <2>1, <2>2, <2>3 DEF StreamOK
<1>18. \A k \in StreamKeys : StreamOK(T, k, revision'[k], index'[k], evictions)
  BY <1>10, <1>11, <1>14, <1>16, <1>17
<1>19. HashesOK(T, q + L, hashes', evictions)
  <2>1. HashesOK(S, q, hashes, evictions)
    BY <1>2, <1>6 DEF DbInv
  <2>2. hashes' = [s \in DOMAIN hashes \cup (q + 1)..(q + L) |->
                      IF s \in (q + 1)..(q + L) THEN new[s - q] ELSE hashes[s]]
    BY <1>2, <1>3 DEF AppendScript
  <2>3. DOMAIN hashes' = DOMAIN hashes \cup (q + 1)..(q + L)
    BY <2>2
  <2>4. ASSUME NEW s \in (q + 1)..(q + L) PROVE hashes'[s] \in T /\ hashes'[s].sequence = s
    <3>1. s - q \in 1..L /\ q + (s - q) = s
      OBVIOUS
    <3>2. hashes'[s] = new[s - q]
      BY <2>2
    <3>3. new[s - q] \in B /\ new[s - q].sequence = q + (s - q)
      BY <1>5, <3>1 DEF Listed
    <3> QED
      BY <1>6, <3>1, <3>2, <3>3
  <2>5. ASSUME NEW s \in DOMAIN hashes PROVE hashes'[s] \in T /\ hashes'[s].sequence = s
    <3>1. hashes[s] \in S /\ hashes[s].sequence = s /\ s \in 1..q
      BY <2>1 DEF HashesOK
    <3>2. hashes'[s] = hashes[s]
      BY <2>2, <3>1
    <3> QED
      BY <1>6, <3>1, <3>2
  <2>6. DOMAIN hashes' \in SUBSET (1..(q + L)) /\ (evictions = 0 => DOMAIN hashes' = 1..(q + L))
    BY <2>1, <2>3 DEF HashesOK
  <2> QED
    BY <2>3, <2>4, <2>5, <2>6 DEF HashesOK
<1>20. DOMAIN revision' = StreamKeys /\ q + L \in Nat
  BY <1>11
<1>21. DbInv'
  BY <1>7, <1>9, <1>14, <1>15, <1>18, <1>19, <1>20 DEF DbInv
<1> QED
  BY <1>1, <1>2, <1>3, <1>4, <1>5, <1>6, <1>7, <1>21

(* What a command changes. *)
LEMMA EffectDb ==
    ASSUME DbInv, NEW m, CommandShape(m), Effect(m), UNCHANGED <<evictions, delivered>>
    PROVE  DbInv'
<1>1. CASE Known(m) /\ m.kind = "append" /\ AppendOutcome(m) = "ok"
  <2>1. AppendScript(m) /\ UNCHANGED checkpoints
    BY <1>1 DEF Effect
  <2> QED
    BY <1>1, <2>1, AppendDb
<1>2. CASE Known(m) /\ m.kind = "save_checkpoint"
  <2>1. UNCHANGED <<revision, index, hashes, seq, stored>> /\ SaveScript(m)
    BY <1>2 DEF Effect
  <2>2. checkpoints \in [Feeds -> Nat] /\ m.feed \in Feeds /\ m.after \in Nat
    BY <1>2 DEF DbInv, CommandShape, CommandRecord
  <2>3. PICK old \in Nat : old = checkpoints[m.feed]
    BY <2>2
  <2>4. Max({old, m.after}) \in Nat
    BY <2>2, MaxPair
  <2>5. checkpoints' \in [Feeds -> Nat]
    BY <2>1, <2>2, <2>3, <2>4 DEF SaveScript
  <2> QED
    BY <2>1, <2>5 DEF DbInv
<1>3. CASE /\ ~(Known(m) /\ m.kind = "append" /\ AppendOutcome(m) = "ok")
           /\ ~(Known(m) /\ m.kind = "save_checkpoint")
  <2>1. UNCHANGED <<revision, index, hashes, seq, stored, checkpoints>>
    BY <1>3 DEF Effect
  <2> QED
    BY <2>1 DEF DbInv
<1> QED
  BY <1>1, <1>2, <1>3

LEMMA EvictDb ==
    ASSUME DbInv, Evict
    PROVE  DbInv' /\ evictions' > 0
<1>1. /\ evictions' = evictions + 1 /\ evictions \in Nat
      /\ UNCHANGED <<seq, checkpoints, stored, delivered>>
  BY DEF Evict, DbInv
<1>2. PICK l \in Nat : l = evictions' /\ l > 0
  BY <1>1
<1>3. \A key \in StreamKeys : StreamOK(stored, key, revision[key], index[key], l)
  <2>1. \A key \in StreamKeys : StreamOK(stored, key, revision[key], index[key], evictions)
    BY DEF DbInv
  <2> QED
    BY <1>2, <2>1 DEF StreamOK
<1>4. DOMAIN revision = StreamKeys /\ DOMAIN index = IndexKeys /\ index[Global] = Sequences(seq)
      /\ HashesOK(stored, seq, hashes, l) /\ Global \notin StreamKeys /\ StreamKeys \subseteq IndexKeys
  BY <1>2, KeysAre DEF DbInv, HashesOK, IndexKeys
<1>5. CASE \E key \in StreamKeys : /\ index[key] # {}
                                   /\ revision' = [revision EXCEPT ![key] = 0]
                                   /\ UNCHANGED <<index, hashes>>
  <2>1. PICK key \in StreamKeys : /\ index[key] # {}
                                  /\ revision' = [revision EXCEPT ![key] = 0]
                                  /\ UNCHANGED <<index, hashes>>
    BY <1>5
  <2>2. StreamOK(stored, key, 0, index[key], l)
    BY <1>2, <1>3, <2>1 DEF StreamOK
  <2>3. \A k \in StreamKeys : StreamOK(stored, k, revision'[k], index'[k], l)
    BY <1>3, <1>4, <2>1, <2>2
  <2> QED
    BY <1>1, <1>2, <1>4, <2>1, <2>3 DEF DbInv
<1>6. CASE \E key \in StreamKeys : /\ revision[key] # 0
                                   /\ index' = [index EXCEPT ![key] = {}]
                                   /\ UNCHANGED <<revision, hashes>>
  <2>1. PICK key \in StreamKeys : /\ revision[key] # 0
                                  /\ index' = [index EXCEPT ![key] = {}]
                                  /\ UNCHANGED <<revision, hashes>>
    BY <1>6
  <2>2. StreamOK(stored, key, revision[key], {}, l)
    BY <1>2, <1>3, <2>1 DEF StreamOK
  <2>3. \A k \in StreamKeys : StreamOK(stored, k, revision'[k], index'[k], l)
    BY <1>3, <1>4, <2>1, <2>2
  <2>4. DOMAIN index' = IndexKeys /\ index'[Global] = index[Global]
    BY <1>4, <2>1
  <2> QED
    BY <1>1, <1>2, <1>4, <2>1, <2>3, <2>4 DEF DbInv
<1>7. CASE \E s \in DOMAIN hashes : /\ hashes' = [t \in DOMAIN hashes \ {s} |-> hashes[t]]
                                    /\ UNCHANGED <<revision, index>>
  <2>1. PICK s \in DOMAIN hashes : /\ hashes' = [t \in DOMAIN hashes \ {s} |-> hashes[t]]
                                   /\ UNCHANGED <<revision, index>>
    BY <1>7
  <2>2. HashesOK(stored, seq, hashes', l)
    BY <1>2, <1>4, <2>1 DEF HashesOK
  <2> QED
    BY <1>1, <1>2, <1>3, <1>4, <2>1, <2>2 DEF DbInv
<1>8. \/ \E key \in StreamKeys : /\ index[key] # {}
                                 /\ revision' = [revision EXCEPT ![key] = 0]
                                 /\ UNCHANGED <<index, hashes>>
      \/ \E key \in StreamKeys : /\ revision[key] # 0
                                 /\ index' = [index EXCEPT ![key] = {}]
                                 /\ UNCHANGED <<revision, hashes>>
      \/ \E s \in DOMAIN hashes : /\ hashes' = [t \in DOMAIN hashes \ {s} |-> hashes[t]]
                                  /\ UNCHANGED <<revision, index>>
  BY DEF Evict
<1> QED
  BY <1>2, <1>5, <1>6, <1>7, <1>8

LEMMA ApplyDb ==
    ASSUME DbInv, NetInv, NEW w \in Callers, Apply(w)
    PROVE  DbInv'
<1>1. PICK o : o = call[w]
  OBVIOUS
<1>2. Formed(o) /\ o.pc = "apply"
  BY <1>1, HolderIs DEF Apply
<1>3. o.feed \in Feeds /\ o.events \in Seq(EventRecord)
  BY <1>2 DEF Formed, CallShape, CallRecord
<1>4. PICK D : D = {o.events[k].sequence : k \in DOMAIN o.events}
  OBVIOUS
<1>5. D \in SUBSET Nat
  <2>1. \A k \in DOMAIN o.events : o.events[k] \in EventRecord
    BY <1>3
  <2> QED
    BY <1>4, <2>1 DEF EventRecord
<1>6. delivered' = [delivered EXCEPT ![o.feed] = @ \cup D] \/ delivered' = delivered
  BY <1>1, <1>4 DEF Apply
<1>7. delivered \in [Feeds -> SUBSET Nat]
  BY DEF DbInv
<1>8. delivered' \in [Feeds -> SUBSET Nat]
  BY <1>3, <1>5, <1>6, <1>7
<1>9. UNCHANGED <<revision, index, hashes, seq, stored, checkpoints, evictions>>
  BY DEF Apply, keyspace
<1> QED
  BY <1>8, <1>9 DEF DbInv

(* What the server answers. *)
LEMMA ReplyIs ==
    ASSUME DbInv, NEW m, CommandShape(m), NEW r, r = ReplyTo(m)
    PROVE  ReplyShape(m, r)
<1>0. \A outcome, value : Reply(outcome, value).outcome = outcome
                          /\ Reply(outcome, value).value = value
  BY DEF Reply
<1>1. CASE ~Known(m)
  BY <1>0, <1>1 DEF ReplyTo, ReplyShape, Outcomes
<1>2. CASE Known(m) /\ m.kind = "append"
  <2>1. r.outcome = AppendOutcome(m)
        /\ r.value = IF AppendOutcome(m) = "ok" THEN NewEvents(m) ELSE <<>>
    BY <1>0, <1>2 DEF ReplyTo
  <2>2. AppendOutcome(m) \in {"ok", "concurrency_error", "inconsistent_state"}
    BY DEF AppendOutcome
  <2>3. AppendOutcome(m) = "ok" => NewEvents(m) \in Seq(EventRecord)
    <3> SUFFICES ASSUME AppendOutcome(m) = "ok" PROVE NewEvents(m) \in Seq(EventRecord)
      OBVIOUS
    <3>1. PICK n \in Nat : revision[m.key] = n
      BY <1>2, ConsistentStream
    <3>2. PICK new : new = NewEvents(m)
      OBVIOUS
    <3>3. seq \in Nat
      BY DEF DbInv
    <3>4. NewOf(new, m.limit, n, seq)
      BY <1>2, <3>1, <3>2, <3>3, NewEventsAre
    <3> QED
      BY <3>2, <3>4 DEF NewOf
  <2>4. r.value \in Seq(EventRecord)
    BY <2>1, <2>3
  <2> QED
    BY <1>2, <2>1, <2>2, <2>4 DEF ReplyShape, Outcomes
<1>3. CASE Known(m) /\ m.kind = "page"
  <2>1. r.outcome = "ok" /\ r.value = Page(index[m.key], m.after, m.limit)
    BY <1>0, <1>3 DEF ReplyTo
  <2>2. m.key \in IndexKeys /\ m.after \in Nat /\ m.limit \in Nat
    BY DEF CommandShape, CommandRecord
  <2>3. PICK n \in Nat : Sorted(index[m.key], n)
    BY <2>2, IndexIsSorted
  <2>3a. PICK ix, page, after, limit : after \in Nat /\ limit \in Nat /\
            ix = index[m.key] /\ after = m.after /\ limit = m.limit /\ page = r.value
    BY <2>2
  <2>4. r.value \in Seq(Nat \X Nat)
    <3>1. Sorted(ix, n) /\ page = Page(ix, after, limit)
      BY <2>1, <2>3, <2>3a
    <3>2. page \in Seq(Nat \X Nat)
      <4>1. PageOf(page, ix, n, after, limit)
        BY <2>3a, <3>1, PageIs
      <4> QED
        BY <4>1 DEF PageOf
    <3> QED
      BY <2>3a, <3>2
  <2> QED
    BY <1>3, <2>1, <2>4 DEF ReplyShape, Outcomes
<1>4. CASE Known(m) /\ m.kind = "hashes"
  <2>1. r.outcome = "ok" /\ r.value = [k \in DOMAIN m.sequences |->
                                          IF m.sequences[k] \in DOMAIN hashes
                                          THEN hashes[m.sequences[k]]
                                          ELSE Event(0, 0, Global, 0, 0)]
    BY <1>0, <1>4 DEF ReplyTo
  <2>2. m.sequences \in Seq(Nat)
    BY DEF CommandShape, CommandRecord
  <2>3. \A s \in DOMAIN hashes : hashes[s] \in EventRecord
    BY DEF DbInv, HashesOK, StoredOK
  <2>4. Event(0, 0, Global, 0, 0) \in EventRecord
    BY KeysAre DEF Event, EventRecord
  <2>5. PICK n \in Nat : n = Len(m.sequences) /\ DOMAIN m.sequences = 1..n
    BY <2>2
  <2> DEFINE At(k) == IF m.sequences[k] \in DOMAIN hashes THEN hashes[m.sequences[k]]
                      ELSE Event(0, 0, Global, 0, 0)
  <2>6. \A k \in 1..n : At(k) \in EventRecord
    BY <2>3, <2>4
  <2>7. PICK v : v = r.value /\ v = [k \in 1..n |-> At(k)]
    BY <2>1, <2>5
  <2> HIDE DEF At
  <2>8. v \in [1..n -> EventRecord]
    BY <2>6, <2>7
  <2>9. r.value \in Seq(EventRecord) /\ Len(r.value) = n
    BY <2>7, <2>8, FunctionIsSeq
  <2> QED
    BY <1>4, <2>1, <2>5, <2>9 DEF ReplyShape, Outcomes
<1>5. CASE Known(m) /\ m.kind = "load_checkpoint"
  <2>1. r.outcome = "ok" /\ r.value = <<checkpoints[m.feed]>>
    BY <1>0, <1>5 DEF ReplyTo
  <2>2. checkpoints[m.feed] \in Nat
    BY <1>5 DEF CommandShape, DbInv
  <2>3. r.value \in Seq(Nat) /\ Len(r.value) = 1
    BY <2>1, <2>2
  <2> QED
    BY <1>5, <2>1, <2>3 DEF ReplyShape, Outcomes
<1>6. CASE Known(m) /\ m.kind \notin {"append", "page", "hashes", "load_checkpoint"}
  <2>1. r.outcome = "ok"
    BY <1>0, <1>6 DEF ReplyTo
  <2> QED
    BY <1>6, <2>1 DEF ReplyShape, Outcomes
<1> QED
  BY <1>1, <1>2, <1>3, <1>4, <1>5, <1>6

(* The steps of the server and the network. *)
LEMMA ExecutedCommand ==
    ASSUME NetInv, NEW c \in Connections, requests[c] # <<>>, NEW m, m = Head(requests[c])
    PROVE  /\ CommandShape(m) /\ requests[c] = <<m>>
           /\ \/ status[c] = "dropped"
              \/ /\ status[c] = "open" /\ replies[c] = <<>>
                 /\ \E w \in Callers : call[w].pc = "read" /\ Holds(call[w]) /\ call[w].connection = c
                                       /\ call[w].command = m
<1>1. CASE status[c] = "dropped"
  BY <1>1 DEF NetInv
<1>2. CASE status[c] # "dropped"
  <2>1. PICK w \in Callers : Holds(call[w]) /\ call[w].connection = c
    BY <1>2 DEF NetInv
  <2>2. PICK o : o = call[w]
    OBVIOUS
  <2>3. Formed(o) /\ HeldOK(o, requests[c], replies[c], status[c])
    BY <2>1, <2>2, HolderIs
  <2>4. /\ o.pc = "read" /\ requests[c] = <<o.command>> /\ replies[c] = <<>>
        /\ status[c] = "open" /\ CommandShape(o.command)
    BY <2>1, <2>2, <2>3 DEF HeldOK, Formed, Holds
  <2> QED
    BY <2>1, <2>2, <2>4
<1> QED
  BY <1>1, <1>2

(* One connection changes, and is still as its holder expects it. *)
LEMMA ServerStep ==
    ASSUME NetInv, NEW c \in Connections, UNCHANGED <<call, cached>>,
           requests' = [requests EXCEPT ![c] = <<>>],
           DOMAIN replies' = Connections, \A b \in Connections \ {c} : replies'[b] = replies[b],
           status' \in [Connections -> {"free", "open", "closed", "dropped"}],
           \A b \in Connections \ {c} : status'[b] = status[b], status'[c] # "dropped",
           cached = c => status'[c] \in {"open", "closed"} /\ replies'[c] = <<>>,
           \A w \in Callers : Holds(call[w]) /\ call[w].connection = c =>
              HeldOK(call[w], <<>>, replies'[c], status'[c])
    PROVE  NetInv'
<1>1. /\ requests' \in [Connections -> Seq(CommandRecord)] /\ requests'[c] = <<>>
      /\ \A b \in Connections \ {c} : requests'[b] = requests[b]
  <2>1. requests \in [Connections -> Seq(CommandRecord)] /\ <<>> \in Seq(CommandRecord)
    BY TypesHold
  <2> QED
    BY <2>1
<1>2. cached # 0 => /\ status'[cached] \in {"open", "closed"} /\ requests'[cached] = <<>>
                    /\ replies'[cached] = <<>>
  BY <1>1, TypesHold
<1>3. ASSUME NEW w \in Callers, Holds(call[w])
      PROVE  LET b == call[w].connection
             IN  b \in Connections /\ b # cached /\ HeldOK(call[w], requests'[b], replies'[b], status'[b])
  <2>1. PICK o : o = call[w]
    OBVIOUS
  <2>2. /\ o.connection \in Connections /\ o.connection # cached
        /\ HeldOK(o, requests[o.connection], replies[o.connection], status[o.connection])
    BY <1>3, <2>1, HolderIs
  <2>3. CASE o.connection = c
    BY <1>1, <1>3, <2>1, <2>2, <2>3
  <2>4. CASE o.connection # c
    BY <1>1, <2>1, <2>2, <2>4
  <2> QED
    BY <2>3, <2>4
<1>4. \A b \in Connections :
         /\ status'[b] = "dropped" =>
               requests'[b] = <<Head(requests'[b])>> /\ CommandShape(Head(requests'[b]))
         /\ requests'[b] # <<>> =>
               \/ status'[b] = "dropped"
               \/ \E w \in Callers : Holds(call[w]) /\ call[w].connection = b
  <2> SUFFICES ASSUME NEW b \in Connections
               PROVE  /\ status'[b] = "dropped" =>
                            requests'[b] = <<Head(requests'[b])>> /\ CommandShape(Head(requests'[b]))
                      /\ requests'[b] # <<>> =>
                            \/ status'[b] = "dropped"
                            \/ \E w \in Callers : Holds(call[w]) /\ call[w].connection = b
    OBVIOUS
  <2>1. CASE b = c
    BY <1>1, <2>1
  <2>2. CASE b # c
    <3>1. requests'[b] = requests[b] /\ status'[b] = status[b]
      BY <1>1, <2>2
    <3>2. /\ status[b] = "dropped" =>
                requests[b] = <<Head(requests[b])>> /\ CommandShape(Head(requests[b]))
          /\ requests[b] # <<>> =>
                \/ status[b] = "dropped"
                \/ \E w \in Callers : Holds(call[w]) /\ call[w].connection = b
      BY DEF NetInv
    <3> QED
      BY <3>1, <3>2
  <2> QED
    BY <2>1, <2>2
<1>5. /\ call' = call /\ cached' = cached /\ cached \in Connections \cup {0}
      /\ call \in [Callers -> CallRecord]
      /\ \A w \in Callers : CallShape(call[w]) /\ CommandShape(call[w].command)
      /\ \A v, w \in Callers :
            Holds(call[v]) /\ Holds(call[w]) /\ call[v].connection = call[w].connection => v = w
  BY DEF NetInv
<1> QED
  BY <1>1, <1>2, <1>3, <1>4, <1>5 DEF NetInv

LEMMA ExecuteNet ==
    ASSUME NetInv, DbInv, NEW c \in Connections, Execute(c)
    PROVE  NetInv'
<1>1. PICK m : m = Head(requests[c])
  OBVIOUS
<1>2. /\ CommandShape(m) /\ requests[c] = <<m>>
      /\ \/ status[c] = "dropped"
         \/ /\ status[c] = "open" /\ replies[c] = <<>>
            /\ \E w \in Callers : call[w].pc = "read" /\ Holds(call[w]) /\ call[w].connection = c
                                  /\ call[w].command = m
  BY <1>1, ExecutedCommand DEF Execute
<1>3. requests' = [requests EXCEPT ![c] = <<>>] /\ UNCHANGED <<call, cached>>
  BY <1>2, TypesHold DEF Execute
<1>4. CASE status[c] = "dropped"
  <2>1. replies' = replies /\ status' = [status EXCEPT ![c] = "free"]
    BY <1>4 DEF Execute
  <2>2. /\ DOMAIN replies' = Connections /\ \A b \in Connections \ {c} : replies'[b] = replies[b]
        /\ status' \in [Connections -> {"free", "open", "closed", "dropped"}]
        /\ \A b \in Connections \ {c} : status'[b] = status[b]
        /\ status'[c] = "free"
    BY <2>1, TypesHold
  <2>3. cached # c /\ \A w \in Callers : ~(Holds(call[w]) /\ call[w].connection = c)
    BY <1>4, NoConnectionZero DEF NetInv, HeldOK
  <2> QED
    BY <1>3, <2>2, <2>3, ServerStep
<1>5. CASE status[c] = "open"
  <2>1. PICK w \in Callers : call[w].pc = "read" /\ Holds(call[w]) /\ call[w].connection = c
                             /\ call[w].command = m
    BY <1>2, <1>5
  <2>2. replies[c] = <<>>
    BY <1>2, <1>5
  <2>3. PICK r : r = ReplyTo(m)
    OBVIOUS
  <2>4. ReplyShape(m, r)
    BY <1>2, <2>3, ReplyIs
  <2>5. replies' = [replies EXCEPT ![c] = Append(@, r)] /\ status' = status
    BY <1>1, <1>5, <2>3 DEF Execute
  <2>6. /\ DOMAIN replies' = Connections /\ replies'[c] = <<r>>
        /\ \A b \in Connections \ {c} : replies'[b] = replies[b]
    BY <2>2, <2>5, TypesHold
  <2>7. cached # c
    BY <2>1, HolderIs
  <2>8. ASSUME NEW v \in Callers, Holds(call[v]), call[v].connection = c
        PROVE  HeldOK(call[v], <<>>, replies'[c], status'[c])
    <3>1. v = w
      BY <2>1, <2>8 DEF NetInv
    <3>2. Head(<<r>>) = r
      OBVIOUS
    <3> QED
      BY <1>5, <2>1, <2>4, <2>5, <2>6, <3>1, <3>2 DEF HeldOK
  <2>9. /\ status' \in [Connections -> {"free", "open", "closed", "dropped"}]
        /\ \A b \in Connections \ {c} : status'[b] = status[b]
        /\ status'[c] # "dropped"
    BY <1>5, <2>5, TypesHold
  <2> QED
    BY <1>3, <2>6, <2>7, <2>8, <2>9, ServerStep
<1> QED
  BY <1>2, <1>4, <1>5

LEMMA LoseRequestNet ==
    ASSUME NetInv, NEW c \in Connections, LoseRequest(c)
    PROVE  NetInv'
<1>1. /\ requests' = [requests EXCEPT ![c] = <<>>] /\ UNCHANGED <<call, cached, replies>>
      /\ status[c] = "dropped" /\ status' = [status EXCEPT ![c] = "free"]
  BY DEF LoseRequest
<1>2. /\ DOMAIN replies' = Connections /\ \A b \in Connections \ {c} : replies'[b] = replies[b]
      /\ status' \in [Connections -> {"free", "open", "closed", "dropped"}]
      /\ \A b \in Connections \ {c} : status'[b] = status[b]
      /\ status'[c] = "free"
  BY <1>1, TypesHold
<1>3. cached # c /\ \A w \in Callers : ~(Holds(call[w]) /\ call[w].connection = c)
  BY <1>1, NoConnectionZero DEF NetInv, HeldOK
<1> QED
  BY <1>1, <1>2, <1>3, ServerStep

LEMMA CloseConnectionNet ==
    ASSUME NetInv, NEW c \in Connections, CloseConnection(c)
    PROVE  NetInv'
<1>1. /\ requests' = [requests EXCEPT ![c] = <<>>] /\ UNCHANGED <<call, cached, replies>>
      /\ status' = [status EXCEPT ![c] = "closed"]
  BY DEF CloseConnection
<1>2. /\ DOMAIN replies' = Connections /\ \A b \in Connections \ {c} : replies'[b] = replies[b]
      /\ status' \in [Connections -> {"free", "open", "closed", "dropped"}]
      /\ \A b \in Connections \ {c} : status'[b] = status[b]
      /\ status'[c] = "closed"
  BY <1>1, TypesHold
<1>3. cached = c => replies'[c] = <<>>
  BY <1>1, TypesHold, NoConnectionZero
<1>4. ASSUME NEW w \in Callers, Holds(call[w]), call[w].connection = c
      PROVE  HeldOK(call[w], <<>>, replies'[c], status'[c])
  <2>1. HeldOK(call[w], requests[c], replies[c], status[c])
    BY <1>4, HolderIs
  <2> QED
    BY <1>1, <1>2, <2>1 DEF HeldOK
<1> QED
  BY <1>1, <1>2, <1>3, <1>4, ServerStep

(* A new operation. *)
NewAppend(x) == /\ x.operation = "append" /\ x.command.kind = "append"
                /\ x.command.append = appends + 1 /\ appends' = appends + 1
NewLoad(x) == /\ x.operation = "load" /\ x.id \in Ids /\ x.lookup = 1
              /\ x.sequences = <<>> /\ x.events = <<>> /\ x.answer = "none"
              /\ x.asOf = seq
              /\ x.command.kind = "page" /\ x.command.key = <<x.id, "current">>
              /\ x.command.after = 0 /\ x.command.limit = PageSize /\ appends' = appends
NewPoll(x) == /\ x.operation = "poll" /\ x.sequences = <<>> /\ x.events = <<>>
              /\ x.command.kind = "load_checkpoint" /\ x.command.feed = x.feed
              /\ appends' = appends

LEMMA InvokeIs ==
    ASSUME NetInv, DbInv, setup \in Setups, appends \in Nat, NEW w \in Callers, Invoke(w)
    PROVE  \E x : /\ call' = [call EXCEPT ![w] = x] /\ Formed(x) /\ x.pc = "take"
                  /\ NewAppend(x) \/ NewLoad(x) \/ NewPoll(x)
<1>0. DOMAIN call = Callers /\ setup.ids \subseteq Ids /\ setup.feeds \subseteq Feeds
  BY TypesHold, RedisAssumption DEF Feeds
<1>00. PICK i : i = Idle /\ i \in CallRecord /\ i.sequences = <<>> /\ i.events = <<>>
               /\ i.lookup = 1 /\ i.answer = "none"
  BY IdleIs
<1>1. CASE /\ setup.work[w] = "append"
           /\ appends < setup.appends
           /\ appends' = appends + 1
           /\ \E id \in setup.ids, n \in 1..MaxBatch,
                 expected \in {AnyRevision, NoStream} \cup {Exact(r) : r \in 1..MaxAppends} :
                 call' = [call EXCEPT ![w] =
                    Send([Idle EXCEPT !.operation = "append", !.id = id],
                         AppendCommand(appends', id, expected, n))]
  <2>1. PICK id \in setup.ids, n \in 1..MaxBatch,
             expected \in {AnyRevision, NoStream} \cup {Exact(r) : r \in 1..MaxAppends} :
                 call' = [call EXCEPT ![w] =
                    Send([Idle EXCEPT !.operation = "append", !.id = id],
                         AppendCommand(appends', id, expected, n))]
    BY <1>1
  <2>2. PICK a \in Nat : a = appends' /\ a = appends + 1 /\ a > 0
    BY <1>1
  <2>3. id \in Ids /\ n \in Nat /\ n > 0 /\ expected \in Expected
    BY <1>0, RedisAssumption DEF Expected, AnyRevision, NoStream, Exact
  <2>4. PICK m : m = AppendCommand(a, id, expected, n)
    OBVIOUS
  <2>5. /\ m \in CommandRecord /\ m.kind = "append" /\ m.append = a
        /\ m.key = <<id, "current">> /\ m.limit = n /\ m.script = TRUE
    <3>1. AppendsTo(m, a, id, n)
      BY <2>3, <2>4, AppendCommandIs
    <3> QED
      BY <3>1 DEF AppendsTo
  <2>6. PICK y : y = [i EXCEPT !.operation = "append", !.id = id]
    OBVIOUS
  <2>7. y \in CallRecord /\ y.operation = "append"
    <3>1. PICK z : z = [i EXCEPT !.operation = "append"]
      OBVIOUS
    <3>2. z \in CallRecord /\ z.operation = "append"
      BY <1>00, <3>1 DEF CallRecord
    <3>3. y = [z EXCEPT !.id = id]
      BY <1>00, <2>6, <3>1 DEF CallRecord
    <3> QED
      BY <2>3, <3>2, <3>3 DEF CallRecord
  <2>8. CommandShape(m) /\ m.kind \in KindsOf(y.operation) /\ Ready(y)
    BY <2>2, <2>3, <2>5, <2>7, KindsAre DEF CommandShape, Ready
  <2>9. PICK x : x = Send(y, m)
    OBVIOUS
  <2>10. Formed(x) /\ x.pc = "take"
    BY <2>8, <2>9, SendShape
  <2>11. x.operation = "append" /\ x.command = m
    BY <2>5, <2>7, <2>9, SendIs
  <2>12. call' = [call EXCEPT ![w] = x]
    BY <1>00, <2>1, <2>2, <2>4, <2>6, <2>9
  <2>13. NewAppend(x)
    BY <2>2, <2>5, <2>11 DEF NewAppend
  <2> QED
    BY <2>10, <2>12, <2>13
<1>2. CASE /\ setup.work[w] = "load"
           /\ \E id \in setup.ids :
                 call' = [call EXCEPT ![w] =
                    Send([Idle EXCEPT !.operation = "load", !.id = id, !.asOf = seq],
                         PageCommand(LookupKeys(id)[1], 0, PageSize))]
           /\ UNCHANGED appends
  <2>1. PICK id \in setup.ids :
                 call' = [call EXCEPT ![w] =
                    Send([Idle EXCEPT !.operation = "load", !.id = id, !.asOf = seq],
                         PageCommand(LookupKeys(id)[1], 0, PageSize))]
    BY <1>2
  <2>2. id \in Ids /\ PageSize \in Nat /\ PageSize > 0 /\ 0 \in Nat
    BY <1>0, RedisAssumption
  <2>3. PICK l \in Nat : l = seq
    BY DEF DbInv
  <2>4. PICK m \in CommandRecord : /\ m = PageCommand(<<id, "current">>, 0, PageSize)
                                   /\ m.kind = "page" /\ m.key = <<id, "current">>
                                   /\ m.after = 0 /\ m.limit = PageSize
    <3>1. PICK key \in IndexKeys : key = <<id, "current">>
      BY <2>2, KeysAre
    <3>2. PICK m \in CommandRecord : /\ m = PageCommand(key, 0, PageSize)
                                     /\ m.kind = "page" /\ m.key = key
                                     /\ m.after = 0 /\ m.limit = PageSize
      BY <2>2, CommandsAre
    <3> QED
      BY <3>1, <3>2
  <2>5. PICK y : y = [i EXCEPT !.operation = "load", !.id = id, !.asOf = l]
    OBVIOUS
  <2>6. /\ y \in CallRecord /\ y.operation = "load" /\ y.id = id /\ y.asOf = l
        /\ y.sequences = <<>> /\ y.events = <<>> /\ y.lookup = 1 /\ y.answer = "none"
    BY <1>00, <2>2, <2>5 DEF CallRecord
  <2>7. CommandShape(m) /\ m.kind \in KindsOf(y.operation) /\ Ready(y)
    BY <2>2, <2>4, <2>6, KindsAre DEF CommandShape, Ready
  <2>8. PICK x : x = Send(y, m)
    OBVIOUS
  <2>9. Formed(x) /\ x.pc = "take"
    BY <2>7, <2>8, SendShape
  <2>10. /\ x.operation = "load" /\ x.command = m /\ x.id = id /\ x.asOf = l
         /\ x.sequences = <<>> /\ x.events = <<>> /\ x.lookup = 1 /\ x.answer = "none"
    BY <2>6, <2>8, SendIs
  <2>11. call' = [call EXCEPT ![w] = x]
    <3>1. LookupKeys(id)[1] = <<id, "current">>
      BY <2>2, KeysAre
    <3> QED
      BY <1>00, <2>1, <2>3, <2>4, <2>5, <2>8, <3>1
  <2>12. NewLoad(x)
    BY <1>2, <2>2, <2>3, <2>4, <2>10 DEF NewLoad
  <2> QED
    BY <2>9, <2>11, <2>12
<1>3. CASE /\ setup.work[w] = "poll"
           /\ \E feed \in setup.feeds, limit \in 1..2 :
                 call' = [call EXCEPT ![w] =
                    Send([Idle EXCEPT !.operation = "poll", !.feed = feed, !.limit = limit],
                         LoadCheckpoint(feed))]
           /\ UNCHANGED appends
  <2>1. PICK feed \in setup.feeds, limit \in 1..2 :
                 call' = [call EXCEPT ![w] =
                    Send([Idle EXCEPT !.operation = "poll", !.feed = feed, !.limit = limit],
                         LoadCheckpoint(feed))]
    BY <1>3
  <2>2. feed \in Feeds /\ limit \in Nat /\ limit > 0
    BY <1>0
  <2>4. PICK m \in CommandRecord : /\ m = LoadCheckpoint(feed)
                                   /\ m.kind = "load_checkpoint" /\ m.feed = feed
    BY <2>2, CommandsAre
  <2>5. PICK y : y = [i EXCEPT !.operation = "poll", !.feed = feed, !.limit = limit]
    OBVIOUS
  <2>6. /\ y \in CallRecord /\ y.operation = "poll" /\ y.feed = feed /\ y.limit = limit
        /\ y.sequences = <<>> /\ y.events = <<>>
    BY <1>00, <2>2, <2>5 DEF CallRecord
  <2>7. CommandShape(m) /\ m.kind \in KindsOf(y.operation) /\ Ready(y)
    BY <2>2, <2>4, <2>6, KindsAre DEF CommandShape, Ready
  <2>8. PICK x : x = Send(y, m)
    OBVIOUS
  <2>9. Formed(x) /\ x.pc = "take"
    BY <2>7, <2>8, SendShape
  <2>10. /\ x.operation = "poll" /\ x.command = m /\ x.feed = feed
         /\ x.sequences = <<>> /\ x.events = <<>>
    BY <2>6, <2>8, SendIs
  <2>11. call' = [call EXCEPT ![w] = x]
    BY <1>00, <2>1, <2>4, <2>5, <2>8
  <2>12. NewPoll(x)
    BY <1>3, <2>4, <2>10 DEF NewPoll
  <2> QED
    BY <2>9, <2>11, <2>12
<1> QED
  BY <1>1, <1>2, <1>3 DEF Invoke

LEMMA InvokeNet ==
    ASSUME NetInv, DbInv, setup \in Setups, appends \in Nat, NEW w \in Callers, Invoke(w)
    PROVE  NetInv' /\ \E x : /\ StepsTo(w, call[w], x) /\ x.pc = "take"
                             /\ NewAppend(x) \/ NewLoad(x) \/ NewPoll(x)
<1>1. PICK x : /\ call' = [call EXCEPT ![w] = x] /\ Formed(x) /\ x.pc = "take"
               /\ NewAppend(x) \/ NewLoad(x) \/ NewPoll(x)
  BY InvokeIs
<1>2. ~Holds(call[w]) /\ ~Holds(x) /\ UNCHANGED network
  BY <1>1 DEF Invoke, Holds
<1> QED
  BY <1>1, <1>2, LocalStep

-------------------------------------------------------------------------------
(* The appends.  A step of caller w that writes nothing to the keyspace:   *)
(* its append is the one it had, or a new one; the connection it gives up  *)
(* carries its command, and then it has an error.                          *)
SameAppend(x, o) ==
    /\ o.operation = "append" /\ o.pc # "done" /\ x.command.append = o.command.append

LEMMA AppendTypes ==
    ASSUME NetInv, DbInv, AppendInv
    PROVE  /\ appends \in Nat /\ \A d \in stored : d.append \in Nat /\ d.append <= appends
           /\ \A v \in Callers : /\ call[v].command.append \in Nat
                                 /\ call[v].operation = "append" => call[v].command.append <= appends
           /\ \A c \in Connections : status[c] = "dropped" => Head(requests[c]).append \in Nat
<1>1. \A d \in stored : d.append \in Nat
  BY DEF DbInv, StoredOK, EventRecord
<1>2. \A v \in Callers : call[v].command.append \in Nat
  BY DEF NetInv, CommandShape, CommandRecord
<1>3. \A c \in Connections : status[c] = "dropped" => Head(requests[c]).append \in Nat
  BY DEF NetInv, CommandShape, CommandRecord
<1> QED
  BY <1>1, <1>2, <1>3 DEF AppendInv

(* What AppendInv says of a connection that was given up. *)
OrphanOK(S, n, m) == m.kind = "append" => m.append <= n /\ Written(S, m.append) = {}

LEMMA OrphansAre ==
    ASSUME AppendInv, NEW c \in Connections, status[c] = "dropped", NEW m, m = Head(requests[c])
    PROVE  /\ OrphanOK(stored, appends, m) /\ \A w \in Callers : GivenUp(call[w], m)
           /\ \A d \in Connections :
                 /\ status[d] = "dropped" /\ m.kind = "append"
                 /\ Head(requests[d]).kind = "append" /\ Head(requests[d]).append = m.append
                 => d = c
  BY DEF AppendInv, OrphanOK

LEMMA AppendCaller ==
    ASSUME NetInv, DbInv, AppendInv, NEW w \in Callers, NEW o, o = call[w], NEW x,
           StepsTo(w, o, x), stored' = stored,
           \/ appends' = appends /\ (x.operation = "append" => SameAppend(x, o))
           \/ NewAppend(x),
           AppendOK(stored, x, requests'[x.connection], replies'[x.connection])
    PROVE  AppendInv'
<1>0. call' = [call EXCEPT ![w] = x] /\ OthersAfter(w) /\ DroppedAfter(o, x)
  BY DEF StepsTo
<1>1. /\ DOMAIN call = Callers /\ call'[w] = x /\ \A v \in Callers \ {w} : call'[v] = call[v]
  BY <1>0, TypesHold
<1>2. /\ appends \in Nat /\ \A d \in stored : d.append \in Nat /\ d.append <= appends
      /\ \A v \in Callers : /\ call[v].command.append \in Nat
                            /\ call[v].operation = "append" => call[v].command.append <= appends
      /\ \A c \in Connections : status[c] = "dropped" => Head(requests[c]).append \in Nat
  BY AppendTypes
<1>3. appends' \in Nat /\ appends <= appends'
  BY <1>2 DEF NewAppend
<1>4. x.operation = "append" =>
         /\ x.command.append <= appends'
         /\ \A v \in Callers \ {w} :
               call[v].operation = "append" => call[v].command.append # x.command.append
  <2>1. CASE NewAppend(x)
    BY <1>2, <2>1 DEF NewAppend
  <2>2. CASE appends' = appends /\ (x.operation = "append" => SameAppend(x, o))
    BY <1>2, <2>2 DEF SameAppend, AppendInv
  <2> QED
    BY <2>1, <2>2
<1>5. \A v \in Callers :
         AppendOK(stored, call'[v], requests'[call'[v].connection], replies'[call'[v].connection])
  <2> SUFFICES ASSUME NEW v \in Callers, v # w
               PROVE  AppendOK(stored, call[v], requests'[call[v].connection],
                               replies'[call[v].connection])
    BY <1>1
  <2>1. AppendOK(stored, call[v], requests[call[v].connection], replies[call[v].connection])
    BY DEF AppendInv
  <2>2. CASE call[v].pc = "read"
    <3>1. Holds(call[v]) /\ call[v].connection \in Connections
      BY <2>2, HolderIs DEF Holds
    <3>2. HeldByOther(w, call[v].connection)
      BY <3>1 DEF HeldByOther
    <3> QED
      BY <1>0, <2>1, <3>1, <3>2 DEF OthersAfter
  <2>3. CASE call[v].pc # "read"
    BY <2>1, <2>3 DEF AppendOK
  <2> QED
    BY <2>2, <2>3
<1>6. \A u, v \in Callers :
         /\ call'[u].operation = "append" /\ call'[v].operation = "append"
         /\ call'[u].command.append = call'[v].command.append
         => u = v
  <2>1. \A u, v \in Callers :
           /\ call[u].operation = "append" /\ call[v].operation = "append"
           /\ call[u].command.append = call[v].command.append
           => u = v
    BY DEF AppendInv
  <2> QED
    BY <1>1, <1>4, <2>1
<1>7. ASSUME NEW c \in Connections, status'[c] = "dropped", NEW m, m = Head(requests'[c])
      PROVE  /\ OrphanOK(stored, appends', m) /\ \A v \in Callers : GivenUp(call'[v], m)
             /\ \A d \in Connections :
                   /\ status'[d] = "dropped" /\ m.kind = "append"
                   /\ Head(requests'[d]).kind = "append" /\ Head(requests'[d]).append = m.append
                   => d = c
  <2>1. ASSUME NEW d \in Connections, status[d] = "dropped", NEW k, k = Head(requests[d])
        PROVE  /\ OrphanOK(stored, appends', k) /\ GivenUp(x, k)
               /\ o.pc = "read" /\ o.operation = "append" /\ k.kind = "append" =>
                     k.append # o.command.append
    <3>1. /\ OrphanOK(stored, appends, k) /\ GivenUp(o, k) /\ k.append \in Nat
      BY <1>2, <2>1, OrphansAre
    <3>2. OrphanOK(stored, appends', k)
      BY <1>2, <1>3, <3>1 DEF OrphanOK
    <3>3. GivenUp(x, k)
      BY <1>2, <3>1 DEF GivenUp, OrphanOK, NewAppend, SameAppend
    <3> QED
      BY <3>1, <3>2, <3>3 DEF GivenUp
  <2>2. ASSUME NEW d \in Connections, DropsOwn(d, o, x), NEW k, k = Head(requests'[d])
        PROVE  /\ k = o.command /\ OrphanOK(stored, appends', k)
               /\ \A v \in Callers : GivenUp(call'[v], k)
               /\ k.kind = "append" => o.operation = "append"
    <3>1. k = o.command /\ o.pc = "read" /\ requests[d] # <<>> /\ d = o.connection
      BY <2>2 DEF DropsOwn
    <3>2. k.kind = "append" => o.operation = "append"
      <4>1. o.operation \in {"none", "append", "load", "poll"}
        BY HolderIs DEF Formed, CallShape, CallRecord
      <4> QED
        BY <2>2, <3>1, <4>1, KindsAre DEF DropsOwn
    <3>3. AppendOK(stored, o, requests[d], replies[d])
      BY <3>1 DEF AppendInv
    <3>4. OrphanOK(stored, appends', k)
      BY <1>2, <1>3, <3>1, <3>2, <3>3 DEF OrphanOK, AppendOK
    <3>5. GivenUp(x, k)
      BY <2>2, <3>1 DEF GivenUp, DropsOwn
    <3>6. ASSUME NEW v \in Callers, v # w
          PROVE  GivenUp(call[v], k)
      BY <3>1, <3>2, <3>6 DEF GivenUp, AppendInv
    <3> QED
      BY <1>1, <3>1, <3>2, <3>4, <3>5, <3>6
  <2>3. \A d \in Connections : status'[d] = "dropped" =>
           \/ status[d] = "dropped" /\ requests'[d] = requests[d]
           \/ DropsOwn(d, o, x)
    BY <1>0 DEF DroppedAfter
  <2>4. CASE status[c] = "dropped" /\ requests'[c] = requests[c]
    <3>1. m = Head(requests[c])
      BY <1>7, <2>4
    <3>2. OrphanOK(stored, appends', m) /\ GivenUp(x, m)
      BY <2>1, <2>4, <3>1
    <3>3. \A v \in Callers : GivenUp(call[v], m)
      BY <2>4, <3>1, OrphansAre
    <3>4. ASSUME NEW d \in Connections, status'[d] = "dropped", m.kind = "append",
                 Head(requests'[d]).kind = "append", Head(requests'[d]).append = m.append
          PROVE  d = c
      <4>1. CASE status[d] = "dropped" /\ requests'[d] = requests[d]
        BY <2>4, <3>1, <3>4, <4>1, OrphansAre
      <4>2. CASE DropsOwn(d, o, x)
        <5>1. Head(requests'[d]) = o.command /\ o.operation = "append" /\ o.pc = "read"
          BY <2>2, <3>4, <4>2 DEF DropsOwn
        <5>2. m.append # o.command.append
          BY <2>1, <2>4, <3>1, <3>4, <5>1
        <5> QED
          BY <3>4, <5>1, <5>2
      <4> QED
        BY <2>3, <3>4, <4>1, <4>2
    <3> QED
      BY <1>1, <3>2, <3>3, <3>4
  <2>5. CASE DropsOwn(c, o, x)
    <3>1. /\ m = o.command /\ OrphanOK(stored, appends', m)
          /\ \A v \in Callers : GivenUp(call'[v], m)
          /\ m.kind = "append" => o.operation = "append"
      BY <1>7, <2>2, <2>5
    <3>2. ASSUME NEW d \in Connections, status'[d] = "dropped", m.kind = "append",
                 Head(requests'[d]).kind = "append", Head(requests'[d]).append = m.append
          PROVE  d = c
      <4>1. CASE status[d] = "dropped" /\ requests'[d] = requests[d]
        BY <2>1, <2>5, <3>1, <3>2, <4>1 DEF DropsOwn
      <4>2. CASE DropsOwn(d, o, x)
        BY <2>5, <4>2 DEF DropsOwn
      <4> QED
        BY <2>3, <3>2, <4>1, <4>2
    <3> QED
      BY <3>1, <3>2
  <2> QED
    BY <1>7, <2>3, <2>4, <2>5
<1>8. \A d \in stored : d.append <= appends' /\ Cardinality(Written(stored, d.append)) = d.count
  <2>1. \A d \in stored : Cardinality(Written(stored, d.append)) = d.count
    BY DEF AppendInv
  <2> QED
    BY <1>2, <1>3, <2>1
<1>9. \A v \in Callers : call'[v].operation = "append" => call'[v].command.append <= appends'
  BY <1>1, <1>2, <1>3, <1>4
<1> QED
  BY <1>3, <1>5, <1>6, <1>7, <1>8, <1>9 DEF AppendInv, OrphanOK

LEMMA AppendMoves ==
    ASSUME NetInv, DbInv, AppendInv, NEW w \in Callers, NEW o, o = call[w], NEW x,
           StepsTo(w, o, x), stored' = stored,
           \/ /\ appends' = appends
              /\ Kept(o, x) \/ GaveUp(o, x) \/ (\E r : Got(o, x, r)) \/ x.operation # "append"
           \/ NewAppend(x) /\ x.pc = "take"
    PROVE  AppendInv'
<1>1. PICK q, p : q = requests[o.connection] /\ p = replies[o.connection]
  OBVIOUS
<1>2. AppendOK(stored, o, q, p) /\ Formed(o)
  BY <1>1, HolderIs DEF AppendInv
<1>3. CASE Kept(o, x) /\ appends' = appends
  <2>1. x.operation = "append" => SameAppend(x, o)
    BY <1>3 DEF Kept, SameData, SameCall, SameAppend
  <2>2. AppendOK(stored, x, requests'[x.connection], replies'[x.connection])
    BY <1>2, <1>3 DEF Kept, SameData, SameCall, AppendOK
  <2> QED
    BY <1>3, <2>1, <2>2, AppendCaller
<1>4. CASE GaveUp(o, x) /\ appends' = appends
  <2>1. x.operation = "append" => SameAppend(x, o)
    BY <1>4 DEF GaveUp, SameCall, SameAppend, Holds
  <2>2. AppendOK(stored, x, requests'[x.connection], replies'[x.connection])
    BY <1>4 DEF GaveUp, AppendOK, AnswerOK
  <2> QED
    BY <1>4, <2>1, <2>2, AppendCaller
<1>5. CASE (\E r : Got(o, x, r)) /\ appends' = appends
  <2>1. PICK r : Got(o, x, r)
    BY <1>5
  <2>2. CASE x.operation # "append"
    <3>1. AppendOK(stored, x, requests'[x.connection], replies'[x.connection])
      BY <2>2 DEF AppendOK
    <3> QED
      BY <1>5, <2>2, <3>1, AppendCaller
  <2>3. CASE x.operation = "append"
    <3>1. /\ o.operation = "append" /\ o.pc = "read" /\ p = <<r>> /\ p # <<>> /\ Head(p) = r
          /\ o.command.kind = "append"
      <4>1. o.pc = "read" /\ p = <<r>> /\ x.operation = o.operation
        BY <1>1, <2>1 DEF Got, GoesOn
      <4>2. p # <<>> /\ Head(p) = r
        BY <4>1
      <4>3. o.operation = "append" /\ o.command.kind \in KindsOf(o.operation)
        BY <1>2, <2>3, <4>1 DEF Formed, CallShape
      <4> QED
        BY <4>1, <4>2, <4>3, KindsAre
    <3>2. AnswerOK(Written(stored, o.command.append), o.command.limit, r.outcome, r.value)
      BY <1>2, <3>1 DEF AppendOK
    <3>3. o \in CallRecord /\ o.command \in CommandRecord
      BY <1>2 DEF Formed, CallShape, CommandShape
    <3>4. CASE r.outcome = "noscript"
      <4>1. PICK m : m = [o.command EXCEPT !.eval = TRUE]
        OBVIOUS
      <4>2. m \in CommandRecord /\ m.append = o.command.append
        BY <3>3, <4>1 DEF CommandRecord
      <4>3. x = Send(o, m)
        BY <2>1, <3>4, <4>1 DEF Got
      <4>4. x.pc = "take" /\ x.command = m
        BY <3>3, <4>2, <4>3, SendIs
      <4>5. SameAppend(x, o)
        BY <3>1, <4>2, <4>4 DEF SameAppend
      <4>6. AppendOK(stored, x, requests'[x.connection], replies'[x.connection])
        BY <3>2, <3>4, <4>2, <4>4 DEF AppendOK, AnswerOK
      <4> QED
        BY <1>5, <4>5, <4>6, AppendCaller
    <3>5. CASE r.outcome # "noscript"
      <4>1. r.value \in Seq(EventRecord) /\ r.outcome \in Answers
        BY <2>1, <3>1, <3>5 DEF Got, ReplyShape, Outcomes, Answers
      <4>2. PICK y : y = [o EXCEPT !.events = r.value]
        OBVIOUS
      <4>3. y \in CallRecord /\ y.command = o.command /\ y.events = r.value
        BY <3>3, <4>1, <4>2 DEF CallRecord
      <4>4. x = Answer(y, r.outcome)
        BY <2>1, <3>1, <3>5, <4>2 DEF Got, Continue
      <4>5. /\ x.pc = "done" /\ x.command = o.command /\ x.events = r.value
            /\ x.answer = r.outcome
        BY <4>1, <4>3, <4>4, AnswerIs
      <4>6. SameAppend(x, o)
        BY <3>1, <4>5 DEF SameAppend
      <4>7. AppendOK(stored, x, requests'[x.connection], replies'[x.connection])
        BY <3>2, <4>5 DEF AppendOK
      <4> QED
        BY <1>5, <4>6, <4>7, AppendCaller
    <3> QED
      BY <3>4, <3>5
  <2> QED
    BY <2>2, <2>3
<1>6. CASE x.operation # "append" /\ appends' = appends
  <2>1. AppendOK(stored, x, requests'[x.connection], replies'[x.connection])
    BY <1>6 DEF AppendOK
  <2> QED
    BY <1>6, <2>1, AppendCaller
<1>7. CASE NewAppend(x) /\ x.pc = "take"
  <2>1. Written(stored, x.command.append) = {}
    BY <1>7, AppendTypes DEF Written, NewAppend
  <2>2. AppendOK(stored, x, requests'[x.connection], replies'[x.connection])
    BY <1>7, <2>1 DEF AppendOK
  <2> QED
    BY <1>7, <2>2, AppendCaller
<1> QED
  BY <1>3, <1>4, <1>5, <1>6, <1>7

(* A step of the server that writes nothing to the keyspace, or the events *)
(* of one append. *)
LEMMA AppendServer ==
    ASSUME AppendInv, UNCHANGED <<call, appends>>,
           \A d \in stored' : /\ d.append <= appends
                              /\ Cardinality(Written(stored', d.append)) = d.count,
           \A v \in Callers :
              AppendOK(stored', call[v], requests'[call[v].connection], replies'[call[v].connection]),
           \A c \in Connections : status'[c] = "dropped" =>
              /\ status[c] = "dropped" /\ requests'[c] = requests[c]
              /\ OrphanOK(stored', appends, Head(requests[c]))
    PROVE  AppendInv'
<1>1. ASSUME NEW c \in Connections, status'[c] = "dropped", NEW m, m = Head(requests'[c])
      PROVE  /\ OrphanOK(stored', appends, m) /\ \A v \in Callers : GivenUp(call[v], m)
             /\ \A d \in Connections :
                   /\ status'[d] = "dropped" /\ m.kind = "append"
                   /\ Head(requests'[d]).kind = "append" /\ Head(requests'[d]).append = m.append
                   => d = c
  <2>1. status[c] = "dropped" /\ m = Head(requests[c]) /\ OrphanOK(stored', appends, m)
    BY <1>1
  <2>2. /\ \A v \in Callers : GivenUp(call[v], m)
        /\ \A d \in Connections :
              /\ status[d] = "dropped" /\ m.kind = "append"
              /\ Head(requests[d]).kind = "append" /\ Head(requests[d]).append = m.append
              => d = c
    BY <2>1, OrphansAre
  <2> QED
    BY <2>1, <2>2
<1>2. /\ appends \in Nat
      /\ \A v \in Callers : call[v].operation = "append" => call[v].command.append <= appends
      /\ \A u, v \in Callers :
            /\ call[u].operation = "append" /\ call[v].operation = "append"
            /\ call[u].command.append = call[v].command.append
            => u = v
  BY DEF AppendInv
<1> QED
  BY <1>1, <1>2 DEF AppendInv, OrphanOK

(* The replies other callers wait for are left alone. *)
LEMMA ExecuteOthers ==
    ASSUME NetInv, NEW c \in Connections, Execute(c), NEW v \in Callers, call[v].pc = "read",
           call[v].connection # c
    PROVE  /\ requests'[call[v].connection] = requests[call[v].connection]
           /\ replies'[call[v].connection] = replies[call[v].connection]
<1>1. call[v].connection \in Connections
  BY HolderIs DEF Holds
<1> QED
  BY <1>1, TypesHold DEF Execute

LEMMA ExecuteAppend ==
    ASSUME NetInv, DbInv, AppendInv, NEW c \in Connections, Execute(c)
    PROVE  AppendInv'
<1>1. PICK m : m = Head(requests[c])
  OBVIOUS
<1>2. /\ CommandShape(m) /\ requests[c] = <<m>> /\ Effect(m)
      /\ \/ status[c] = "dropped"
         \/ /\ status[c] = "open" /\ replies[c] = <<>>
            /\ \E w \in Callers : call[w].pc = "read" /\ Holds(call[w]) /\ call[w].connection = c
                                  /\ call[w].command = m
  BY <1>1, ExecutedCommand DEF Execute
<1>3. /\ UNCHANGED <<call, appends, evictions, delivered>>
      /\ requests'[c] = <<>> /\ \A b \in Connections \ {c} : requests'[b] = requests[b]
      /\ \A b \in Connections \ {c} : status'[b] = status[b]
      /\ status[c] = "dropped" => status'[c] = "free"
      /\ status[c] # "dropped" => status'[c] = status[c]
      /\ status[c] = "open" => replies'[c] = Append(replies[c], ReplyTo(m))
  BY <1>1, <1>2, TypesHold DEF Execute
<1>4. /\ appends \in Nat /\ \A d \in stored : d.append \in Nat /\ d.append <= appends
      /\ \A v \in Callers : call[v].operation = "append" => call[v].command.append <= appends
  BY AppendTypes
<1>5. ASSUME NEW v \in Callers, call[v].connection = c, call[v].pc = "read"
      PROVE  /\ status[c] = "open" /\ call[v].command = m /\ replies'[c] = <<ReplyTo(m)>>
             /\ call[v].operation = "append" =>
                   m.kind = "append" /\ Written(stored, m.append) = {}
  <2>1. Holds(call[v]) /\ Formed(call[v])
    BY <1>5, HolderIs DEF Holds
  <2>2. status[c] # "dropped"
    BY <1>5, <2>1, HolderIs DEF HeldOK
  <2>3. PICK w \in Callers : Holds(call[w]) /\ call[w].connection = c /\ call[w].command = m
    BY <1>2, <2>2
  <2>4. v = w
    BY <1>5, <2>1, <2>3 DEF NetInv
  <2>5. replies'[c] = <<ReplyTo(m)>> /\ status[c] = "open"
    BY <1>2, <1>3, <2>2
  <2>6. call[v].operation = "append" => m.kind = "append"
    BY <2>1, <2>3, <2>4, KindsAre DEF Formed, CallShape
  <2>7. AppendOK(stored, call[v], requests[c], replies[c])
    BY <1>5 DEF AppendInv
  <2>8. call[v].operation = "append" => Written(stored, m.append) = {}
    BY <1>2, <1>5, <2>3, <2>4, <2>7 DEF AppendOK
  <2> QED
    BY <2>3, <2>4, <2>5, <2>6, <2>8
<1>6. \A b \in Connections : status'[b] = "dropped" =>
         /\ b # c /\ status[b] = "dropped" /\ requests'[b] = requests[b]
         /\ OrphanOK(stored, appends, Head(requests[b]))
  <2> SUFFICES ASSUME NEW b \in Connections, status'[b] = "dropped"
               PROVE  /\ b # c /\ status[b] = "dropped" /\ requests'[b] = requests[b]
                      /\ OrphanOK(stored, appends, Head(requests[b]))
    OBVIOUS
  <2>1. b # c /\ status[b] = "dropped" /\ requests'[b] = requests[b]
    BY <1>2, <1>3
  <2> QED
    BY <2>1, OrphansAre
<1>7. CASE Known(m) /\ m.kind = "append" /\ AppendOutcome(m) = "ok"
  <2>1. AppendScript(m) /\ UNCHANGED checkpoints
    BY <1>2, <1>7 DEF Effect
  <2>2. PICK n \in Nat :
           /\ Listed(NewEvents(m)) = Batch(m.append, m.limit, m.key, n, seq)
           /\ stored' = stored \cup Batch(m.append, m.limit, m.key, n, seq)
    BY <1>2, <1>3, <1>7, <2>1, AppendDb
  <2>3. PICK a \in Nat, L \in Nat, key \in IndexKeys, q \in Nat :
           a = m.append /\ L = m.limit /\ key = m.key /\ q = seq
    BY <1>2 DEF CommandShape, CommandRecord, DbInv
  <2>4. PICK B : B = Batch(a, L, key, n, q)
    OBVIOUS
  <2>5. BatchOf(B, a, L, key, n, q) /\ IsFiniteSet(B) /\ Cardinality(B) = L
    BY <2>4, BatchIs, BatchSize
  <2>6. \A e \in B : e.append = a /\ e.count = L
    BY <2>5 DEF BatchOf
  <2>7. PICK S, T : S = stored /\ T = S \cup B
    OBVIOUS
  <2>8. stored' = T /\ Listed(NewEvents(m)) = B
    BY <2>2, <2>3, <2>4, <2>7
  <2>9. Written(S, a) = {} /\ a <= appends
    <3>1. CASE status[c] = "dropped"
      BY <1>1, <1>7, <2>3, <2>7, <3>1, OrphansAre DEF OrphanOK
    <3>2. CASE status[c] # "dropped"
      <4>1. PICK w \in Callers : call[w].pc = "read" /\ Holds(call[w]) /\ call[w].connection = c
                                  /\ call[w].command = m
        BY <1>2, <3>2
      <4>2. call[w].operation = "append"
        <5>1. /\ call[w].command.kind \in KindsOf(call[w].operation)
              /\ call[w].operation \in {"none", "append", "load", "poll"}
          BY HolderIs DEF Formed, CallShape, CallRecord
        <5> QED
          BY <1>7, <4>1, <5>1, KindsAre
      <4> QED
        BY <1>4, <1>5, <2>3, <2>7, <4>1, <4>2
    <3> QED
      BY <3>1, <3>2
  <2>10. Written(T, a) = B /\ \A b : b # a => Written(T, b) = Written(S, b)
    <3>1. Written(T, a) = Written(S, a) \cup B
      BY <2>6, <2>7 DEF Written
    <3>2. ASSUME NEW b, b # a PROVE Written(T, b) = Written(S, b)
      BY <2>6, <2>7, <3>2 DEF Written
    <3> QED
      BY <2>9, <3>1, <3>2
  <2>11. \A d \in T : d.append <= appends /\ Cardinality(Written(T, d.append)) = d.count
    <3> SUFFICES ASSUME NEW d \in T
                 PROVE  d.append <= appends /\ Cardinality(Written(T, d.append)) = d.count
      OBVIOUS
    <3>1. CASE d \in B
      BY <2>5, <2>6, <2>9, <2>10, <3>1
    <3>2. CASE d \in S
      <4>1. d.append # a
        BY <2>9, <3>2 DEF Written
      <4> QED
        BY <1>4, <2>7, <2>10, <3>2, <4>1 DEF AppendInv
    <3> QED
      BY <2>7, <3>1, <3>2
  <2>12. ASSUME NEW v \in Callers
         PROVE  AppendOK(T, call[v], requests'[call[v].connection], replies'[call[v].connection])
    <3>1. CASE call[v].operation # "append"
      BY <3>1 DEF AppendOK
    <3>2. CASE call[v].operation = "append" /\ call[v].pc = "read" /\ call[v].connection = c
      <4>1. call[v].command = m /\ replies'[c] = <<ReplyTo(m)>>
        BY <1>5, <3>2
      <4>2. ReplyTo(m).outcome = "ok" /\ ReplyTo(m).value = NewEvents(m)
        BY <1>7 DEF ReplyTo, Reply
      <4>3. Head(replies'[c]) = ReplyTo(m)
        BY <4>1
      <4>4. AnswerOK(B, L, ReplyTo(m).outcome, ReplyTo(m).value)
        BY <2>5, <2>8, <4>2 DEF AnswerOK, Listed
      <4> QED
        BY <1>3, <2>3, <2>10, <3>2, <4>1, <4>3, <4>4 DEF AppendOK
    <3>3. CASE /\ call[v].operation = "append" /\ ~(call[v].pc = "read" /\ call[v].connection = c)
               /\ call[v].command.append = a
      <4>1. call[v].pc = "done" /\ call[v].answer = "store_error"
        <5>1. CASE status[c] = "dropped"
          <6>1. GivenUp(call[v], m)
            BY <1>1, <5>1, OrphansAre
          <6> QED
            BY <1>7, <2>3, <3>3, <6>1 DEF GivenUp
        <5>2. CASE status[c] # "dropped"
          <6>1. PICK w \in Callers : /\ call[w].pc = "read" /\ Holds(call[w])
                                     /\ call[w].connection = c /\ call[w].command = m
            BY <1>2, <5>2
          <6>2. call[w].operation = "append"
            <7>1. /\ call[w].command.kind \in KindsOf(call[w].operation)
                  /\ call[w].operation \in {"none", "append", "load", "poll"}
              BY HolderIs DEF Formed, CallShape, CallRecord
            <7> QED
              BY <1>7, <6>1, <7>1, KindsAre
          <6>3. v = w
            BY <2>3, <3>3, <6>1, <6>2 DEF AppendInv
          <6> QED
            BY <3>3, <6>1, <6>3
        <5> QED
          BY <5>1, <5>2
      <4> QED
        BY <4>1 DEF AppendOK, AnswerOK
    <3>4. CASE /\ call[v].operation = "append" /\ ~(call[v].pc = "read" /\ call[v].connection = c)
               /\ call[v].command.append # a
      <4>1. AppendOK(S, call[v], requests[call[v].connection], replies[call[v].connection])
        BY <2>7 DEF AppendInv
      <4>2. Written(T, call[v].command.append) = Written(S, call[v].command.append)
        BY <2>10, <3>4
      <4>3. call[v].pc = "read" =>
               /\ requests'[call[v].connection] = requests[call[v].connection]
               /\ replies'[call[v].connection] = replies[call[v].connection]
        BY <3>4, ExecuteOthers
      <4> QED
        BY <4>1, <4>2, <4>3 DEF AppendOK
    <3> QED
      BY <3>1, <3>2, <3>3, <3>4
  <2>13. ASSUME NEW b \in Connections, status'[b] = "dropped"
         PROVE  OrphanOK(T, appends, Head(requests[b]))
    <3>1. PICK k : k = Head(requests[b])
      OBVIOUS
    <3>2. b # c /\ status[b] = "dropped" /\ OrphanOK(S, appends, k)
      BY <1>6, <2>7, <2>13, <3>1
    <3>3. k.kind = "append" => k.append # a
      <4>1. CASE status[c] = "dropped"
        BY <1>1, <1>7, <2>3, <3>1, <3>2, <4>1, OrphansAre
      <4>2. CASE status[c] # "dropped"
        <5>1. PICK w \in Callers : /\ call[w].pc = "read" /\ Holds(call[w])
                                   /\ call[w].connection = c /\ call[w].command = m
          BY <1>2, <4>2
        <5>2. call[w].operation = "append"
          <6>1. /\ call[w].command.kind \in KindsOf(call[w].operation)
                /\ call[w].operation \in {"none", "append", "load", "poll"}
            BY HolderIs DEF Formed, CallShape, CallRecord
          <6> QED
            BY <1>7, <5>1, <6>1, KindsAre
        <5>3. GivenUp(call[w], k)
          BY <3>1, <3>2, OrphansAre
        <5> QED
          BY <2>3, <5>1, <5>2, <5>3 DEF GivenUp
      <4> QED
        BY <4>1, <4>2
    <3> QED
      BY <2>10, <3>1, <3>2, <3>3 DEF OrphanOK
  <2>14. \A b \in Connections : status'[b] = "dropped" =>
            /\ status[b] = "dropped" /\ requests'[b] = requests[b]
            /\ OrphanOK(T, appends, Head(requests[b]))
    BY <1>6, <2>13
  <2> QED
    BY <1>3, <2>8, <2>11, <2>12, <2>14, AppendServer
<1>8. CASE ~(Known(m) /\ m.kind = "append" /\ AppendOutcome(m) = "ok")
  <2>1. stored' = stored
    BY <1>2, <1>8 DEF Effect
  <2>2. ASSUME NEW v \in Callers
        PROVE  AppendOK(stored, call[v], requests'[call[v].connection], replies'[call[v].connection])
    <3>1. CASE call[v].operation # "append"
      BY <3>1 DEF AppendOK
    <3>2. CASE call[v].operation = "append" /\ call[v].pc = "read" /\ call[v].connection = c
      <4>1. /\ call[v].command = m /\ replies'[c] = <<ReplyTo(m)>> /\ m.kind = "append"
            /\ Written(stored, m.append) = {}
        BY <1>5, <3>2
      <4>2. ReplyTo(m).outcome # "ok"
        BY <1>8, <4>1 DEF ReplyTo, Reply
      <4>3. Head(replies'[c]) = ReplyTo(m)
        BY <4>1
      <4> QED
        BY <1>3, <3>2, <4>1, <4>2, <4>3 DEF AppendOK, AnswerOK
    <3>3. CASE call[v].operation = "append" /\ ~(call[v].pc = "read" /\ call[v].connection = c)
      <4>1. AppendOK(stored, call[v], requests[call[v].connection], replies[call[v].connection])
        BY DEF AppendInv
      <4>2. call[v].pc = "read" =>
               /\ requests'[call[v].connection] = requests[call[v].connection]
               /\ replies'[call[v].connection] = replies[call[v].connection]
        BY <3>3, ExecuteOthers
      <4> QED
        BY <4>1, <4>2 DEF AppendOK
    <3> QED
      BY <3>1, <3>2, <3>3
  <2>3. \A d \in stored : d.append <= appends /\ Cardinality(Written(stored, d.append)) = d.count
    BY DEF AppendInv
  <2> QED
    BY <1>3, <1>6, <2>1, <2>2, <2>3, AppendServer
<1> QED
  BY <1>7, <1>8

(* A request that is lost changes no answer. *)
LEMMA LostAppend ==
    ASSUME NetInv, AppendInv, NEW c \in Connections, UNCHANGED <<call, appends, stored, replies>>,
           requests' = [requests EXCEPT ![c] = <<>>], status'[c] # "dropped",
           \A b \in Connections \ {c} : status'[b] = status[b]
    PROVE  AppendInv'
<1>1. \A d \in stored : d.append <= appends /\ Cardinality(Written(stored, d.append)) = d.count
  BY DEF AppendInv
<1>2. ASSUME NEW v \in Callers
      PROVE  AppendOK(stored, call[v], requests'[call[v].connection], replies'[call[v].connection])
  <2>1. AppendOK(stored, call[v], requests[call[v].connection], replies[call[v].connection])
    BY DEF AppendInv
  <2>2. call[v].pc = "read" => requests'[call[v].connection] = requests[call[v].connection]
                               \/ requests'[call[v].connection] = <<>>
    <3>1. call[v].pc = "read" => call[v].connection \in Connections
      BY HolderIs DEF Holds
    <3> QED
      BY <3>1, TypesHold
  <2> QED
    BY <2>1, <2>2 DEF AppendOK
<1>3. \A b \in Connections : status'[b] = "dropped" =>
         /\ status[b] = "dropped" /\ requests'[b] = requests[b]
         /\ OrphanOK(stored, appends, Head(requests[b]))
  <2> SUFFICES ASSUME NEW b \in Connections, status'[b] = "dropped"
               PROVE  /\ status[b] = "dropped" /\ requests'[b] = requests[b]
                      /\ OrphanOK(stored, appends, Head(requests[b]))
    OBVIOUS
  <2>1. status[b] = "dropped" /\ requests'[b] = requests[b]
    BY TypesHold
  <2> QED
    BY <2>1, OrphansAre
<1> QED
  BY <1>1, <1>2, <1>3, AppendServer

LEMMA UnchangedAppend ==
    ASSUME AppendInv, UNCHANGED <<call, appends, stored, requests, replies, status>>
    PROVE  AppendInv'
<1>1. \A d \in stored : d.append <= appends /\ Cardinality(Written(stored, d.append)) = d.count
  BY DEF AppendInv
<1>2. \A v \in Callers :
         AppendOK(stored, call[v], requests'[call[v].connection], replies'[call[v].connection])
  BY DEF AppendInv
<1>3. \A b \in Connections : status'[b] = "dropped" =>
         /\ status[b] = "dropped" /\ requests'[b] = requests[b]
         /\ OrphanOK(stored, appends, Head(requests[b]))
  BY OrphansAre
<1> QED
  BY <1>1, <1>2, <1>3, AppendServer

LEMMA UnchangedNet ==
    ASSUME NetInv, UNCHANGED <<call, network>>
    PROVE  NetInv'
  BY DEF NetInv, network, HeldOK, Holds

LEMMA UnchangedDb ==
    ASSUME DbInv, UNCHANGED <<revision, index, hashes, seq, checkpoints, stored>>,
           UNCHANGED <<evictions, delivered>>
    PROVE  DbInv'
  BY DEF DbInv

-------------------------------------------------------------------------------
(* The initial states. *)
LEMMA InitNet ==
    ASSUME Init
    PROVE  NetInv
<1>1. \A w \in Callers : call[w] = Idle
  BY DEF Init
<1>2. \A w \in Callers : Formed(call[w]) /\ ~Holds(call[w])
  BY <1>1, IdleIs DEF Holds
<1>3. call \in [Callers -> CallRecord]
  BY IdleIs DEF Init
<1>4. \A c \in Connections : status[c] = "free" /\ requests[c] = <<>>
  BY DEF Init
<1>5. /\ requests \in [Connections -> Seq(CommandRecord)] /\ DOMAIN replies = Connections
      /\ status \in [Connections -> {"free", "open", "closed", "dropped"}] /\ cached = 0
  BY DEF Init
<1> QED
  BY <1>2, <1>3, <1>4, <1>5 DEF NetInv, Formed

LEMMA OneLegacyId ==
    LegacyIds = {} \/ \E id \in Ids : LegacyIds = {id}
<1> SUFFICES ASSUME LegacyIds # {}
             PROVE  \E id \in Ids : LegacyIds = {id}
  OBVIOUS
<1>1. PICK id \in Ids : id \in LegacyIds
  BY RedisAssumption
<1>2. IsFiniteSet({id}) /\ Cardinality({id}) = 1
  BY FS_Singleton
<1>3. Cardinality(LegacyIds) \in Nat /\ Cardinality(LegacyIds) <= 1
  BY RedisAssumption, FS_CardinalityType
<1>4. {id} \subseteq LegacyIds /\ Cardinality({id}) <= Cardinality(LegacyIds)
  BY <1>1, RedisAssumption, FS_Subset
<1>5. {id} = LegacyIds
  BY <1>2, <1>3, <1>4, RedisAssumption, FS_Subset
<1> QED
  BY <1>5

(* The keyspace at the start: empty, or one event of one legacy stream.    *)
Empty == /\ seq = 0 /\ stored = {} /\ DOMAIN hashes = {}
         /\ \A key \in StreamKeys : revision[key] = 0 /\ index[key] = {}
         /\ index[Global] = {}
OneEvent(key, e) ==
    /\ seq = 1 /\ stored = {e} /\ hashes = [s \in 1..1 |-> e]
    /\ key \in Ids \X {"legacy"} /\ e = Event(0, 1, key, 1, 1)
    /\ revision[key] = 1 /\ index[key] = {<<1, 1>>} /\ index[Global] = {<<1, 1>>}
    /\ \A other \in StreamKeys \ {key} : revision[other] = 0 /\ index[other] = {}

LEMMA InitIs ==
    ASSUME Init
    PROVE  /\ DOMAIN revision = StreamKeys /\ DOMAIN index = IndexKeys
           /\ checkpoints \in [Feeds -> Nat] /\ delivered \in [Feeds -> SUBSET Nat]
           /\ evictions = 0
           /\ Empty \/ \E key, e : OneEvent(key, e)
<1>1. /\ DOMAIN revision = StreamKeys /\ DOMAIN index = IndexKeys
      /\ checkpoints \in [Feeds -> Nat] /\ delivered \in [Feeds -> SUBSET Nat] /\ evictions = 0
  BY DEF Init, IndexKeys
<1>2. CASE LegacyIds = {}
  <2>1. Cardinality(LegacyIds) = 0 /\ LegacyKeys = {}
    BY <1>2, FS_EmptySet DEF LegacyKeys
  <2>2. seq = 0 /\ stored = {}
    BY <2>1 DEF Init
  <2>3. DOMAIN hashes = 1..Cardinality(LegacyIds)
    BY DEF Init
  <2>4. DOMAIN hashes = {}
    BY <2>1, <2>3
  <2>5. \A key \in StreamKeys : revision[key] = 0 /\ index[key] = {}
    BY <1>2, <2>1 DEF Init
  <2>6. index[Global] = {}
    BY <1>2 DEF Init
  <2> QED
    BY <1>1, <2>2, <2>4, <2>5, <2>6 DEF Empty
<1>3. CASE LegacyIds # {}
  <2>1. PICK id \in Ids : LegacyIds = {id}
    BY <1>3, OneLegacyId
  <2>2. PICK key : key = <<id, "legacy">>
    OBVIOUS
  <2>3. key \in Ids \X {"legacy"} /\ key \in StreamKeys /\ LegacyKeys = {key}
    BY <2>1, <2>2 DEF LegacyKeys, StreamKeys
  <2> DEFINE chosen == CHOOSE k \in LegacyKeys : TRUE
  <2>4. chosen = key
    BY <2>3
  <2>5. Cardinality(LegacyIds) = 1
    BY <2>1, FS_Singleton
  <2>6. PICK e : e = Event(0, 1, key, 1, 1)
    OBVIOUS
  <2>7. seq = 1
    BY <2>5 DEF Init
  <2>8. hashes = [s \in 1..1 |-> e]
    <3>1. hashes = [s \in 1..Cardinality(LegacyIds) |-> Event(0, 1, chosen, 1, 1)]
      BY Zenon DEF Init
    <3> HIDE DEF chosen
    <3> QED
      BY <2>4, <2>5, <2>6, <3>1
  <2>9. stored = {e}
    BY <2>3, <2>6 DEF Init
  <2>10. /\ revision[key] = 1
         /\ \A other \in StreamKeys \ {key} : revision[other] = 0
    BY <2>3 DEF Init
  <2>11. index[key] = {<<1, 1>>} /\ index[Global] = {<<1, 1>>}
    BY <1>3, <2>3 DEF Init
  <2>12. \A other \in StreamKeys \ {key} : index[other] = {}
    BY <2>3, KeysAre DEF Init
  <2>13. OneEvent(key, e)
    BY <2>3, <2>6, <2>7, <2>8, <2>9, <2>10, <2>11, <2>12 DEF OneEvent
  <2> QED
    BY <1>1, <2>13
<1> QED
  BY <1>2, <1>3

LEMMA InitDb ==
    ASSUME Init
    PROVE  DbInv
<1>1. /\ DOMAIN revision = StreamKeys /\ DOMAIN index = IndexKeys
      /\ checkpoints \in [Feeds -> Nat] /\ delivered \in [Feeds -> SUBSET Nat] /\ evictions = 0
  BY InitIs
<1>2. CASE Empty
  <2>1. \A key \in StreamKeys : StreamOK(stored, key, revision[key], index[key], evictions)
    <3> SUFFICES ASSUME NEW key \in StreamKeys
                 PROVE  StreamOK({}, key, 0, {}, evictions)
      BY <1>2 DEF Empty
    <3>1. {e.revision : e \in EventsOf({}, key)} = 1..0 /\ Pairs({}, key) = {}
      BY DEF EventsOf, Pairs
    <3> QED
      BY <3>1 DEF StreamOK
  <2>2. StoredOK(stored, seq)
    BY <1>2 DEF Empty, StoredOK
  <2>3. Sequences(0) = {}
    BY DEF Sequences
  <2>4. HashesOK(stored, seq, hashes, evictions)
    BY <1>2 DEF Empty, HashesOK
  <2> QED
    BY <1>1, <1>2, <2>1, <2>2, <2>3, <2>4 DEF DbInv, Empty
<1>3. ASSUME NEW key, NEW e, OneEvent(key, e)
      PROVE  DbInv
  <2>1. /\ e \in EventRecord /\ e.key = key /\ e.revision = 1 /\ e.sequence = 1
        /\ key \in StreamKeys /\ key[2] = "legacy"
    BY <1>3 DEF OneEvent, Event, EventRecord, IndexKeys, StreamKeys
  <2>2. StreamOK({e}, key, 1, {<<1, 1>>}, evictions)
    <3>1. EventsOf({e}, key) = {e}
      BY <2>1 DEF EventsOf
    <3>2. {d.revision : d \in EventsOf({e}, key)} = 1..1
      BY <2>1, <3>1
    <3>3. Pairs({e}, key) = {<<1, 1>>}
      BY <2>1, <3>1 DEF Pairs
    <3> QED
      BY <3>2, <3>3 DEF StreamOK
  <2>3. ASSUME NEW other \in StreamKeys \ {key}
        PROVE  StreamOK({e}, other, 0, {}, evictions)
    <3>1. EventsOf({e}, other) = {}
      BY <2>1 DEF EventsOf
    <3>2. {d.revision : d \in EventsOf({e}, other)} = 1..0
      BY <3>1
    <3>3. Pairs({e}, other) = {}
      BY <3>1 DEF Pairs
    <3>4. PICK S : S = {e}
      OBVIOUS
    <3>5. \E n \in Nat : /\ {d.revision : d \in EventsOf(S, other)} = 1..n
                         /\ 0 \in {0, n} /\ {} \in {{}, Pairs(S, other)}
                         /\ n > 0 => 0 # 0 \/ {} # {}
                         /\ evictions = 0 => 0 = n /\ {} = Pairs(S, other)
      <4> WITNESS 0 \in Nat
      <4> QED
        BY <3>2, <3>3, <3>4, SMTT(30)
    <3> QED
      BY <3>4, <3>5 DEF StreamOK
  <2>4. \A k \in StreamKeys : StreamOK(stored, k, revision[k], index[k], evictions)
    BY <1>3, <2>2, <2>3 DEF OneEvent
  <2>5. StoredOK(stored, seq)
    <3>1. 1..1 = {1}
      OBVIOUS
    <3> QED
      BY <1>3, <2>1, <3>1 DEF OneEvent, StoredOK
  <2>6. Sequences(1) = {<<1, 1>>}
    BY DEF Sequences
  <2>7. HashesOK(stored, seq, hashes, evictions)
    BY <1>3, <2>1 DEF OneEvent, HashesOK
  <2> QED
    BY <1>1, <1>3, <2>4, <2>5, <2>6, <2>7 DEF DbInv, OneEvent
<1> QED
  BY <1>2, <1>3, InitIs

LEMMA InitAppend ==
    ASSUME Init
    PROVE  AppendInv
<1>1. \A w \in Callers : call[w].operation = "none"
  BY IdleIs DEF Init, Idle
<1>2. appends = 0 /\ \A c \in Connections : status[c] = "free"
  BY DEF Init
<1>3. \A d \in stored : d.append <= 0 /\ Cardinality(Written(stored, d.append)) = d.count
  <2>1. CASE Empty
    BY <2>1 DEF Empty
  <2>2. ASSUME NEW key, NEW e, OneEvent(key, e)
        PROVE  \A d \in stored : d.append <= 0 /\ Cardinality(Written(stored, d.append)) = d.count
    <3>1. e.append = 0 /\ e.count = 1 /\ stored = {e}
      BY <2>2 DEF OneEvent, Event
    <3>2. Written({e}, 0) = {e}
      BY <3>1 DEF Written
    <3> QED
      BY <3>1, <3>2, FS_Singleton
  <2> QED
    BY <2>1, <2>2, InitIs
<1> QED
  BY <1>1, <1>2, <1>3 DEF AppendInv, AppendOK

-------------------------------------------------------------------------------
(* What a step of a caller does to its call. *)
Applies(o, x) ==
    /\ o.pc = "apply"
    /\ \/ /\ LastSequence(o) \in Nat /\ x = Send(o, SaveCheckpoint(o.feed, LastSequence(o)))
          /\ delivered' = [delivered EXCEPT ![o.feed] =
                             @ \cup {o.events[k].sequence : k \in DOMAIN o.events}]
       \/ x = Answer(o, "decode_error") /\ delivered' = delivered

Begins(x) == x.pc = "take" /\ (NewAppend(x) \/ NewLoad(x) \/ NewPoll(x))

Moves(o, x) ==
    \/ /\ appends' = appends /\ delivered' = delivered
       /\ Kept(o, x) \/ GaveUp(o, x) \/ (\E r : Got(o, x, r)) \/ x = Idle
    \/ appends' = appends /\ Applies(o, x)
    \/ delivered' = delivered /\ Begins(x)

LEMMA CallerMoves ==
    ASSUME NetInv, DbInv, setup \in Setups, appends \in Nat, NEW w \in Callers,
           Invoke(w) \/ Step(w), NEW o, o = call[w]
    PROVE  /\ NetInv' /\ UNCHANGED <<setup, keyspace, evictions>>
           /\ \E x : StepsTo(w, o, x) /\ Moves(o, x)
<1>1. CASE Invoke(w)
  <2>1. UNCHANGED <<setup, keyspace, evictions>> /\ delivered' = delivered
    BY <1>1 DEF Invoke
  <2>2. NetInv' /\ \E x : StepsTo(w, o, x) /\ Begins(x)
    BY <1>1, InvokeNet DEF Begins
  <2> QED
    BY <2>1, <2>2 DEF Moves
<1>2. CASE TakeConnection(w)
  <2>1. UNCHANGED <<setup, keyspace, evictions>> /\ delivered' = delivered /\ appends' = appends
    BY <1>2 DEF TakeConnection
  <2>2. NetInv' /\ \E x : StepsTo(w, o, x) /\ Kept(o, x)
    BY <1>2, TakeConnectionNet
  <2> QED
    BY <2>1, <2>2 DEF Moves
<1>3. CASE Write(w)
  <2>1. UNCHANGED <<setup, keyspace, evictions>> /\ delivered' = delivered /\ appends' = appends
    BY <1>3 DEF Write
  <2>2. NetInv' /\ \E x : StepsTo(w, o, x) /\ Kept(o, x)
    BY <1>3, WriteNet
  <2> QED
    BY <2>1, <2>2 DEF Moves
<1>4. CASE WriteFails(w)
  <2>1. UNCHANGED <<setup, keyspace, evictions>> /\ delivered' = delivered /\ appends' = appends
    BY <1>4 DEF WriteFails
  <2>2. NetInv' /\ \E x : StepsTo(w, o, x) /\ (Kept(o, x) \/ GaveUp(o, x))
    BY <1>4, WriteFailsNet
  <2> QED
    BY <2>1, <2>2 DEF Moves
<1>5. CASE Read(w)
  <2>1. UNCHANGED <<setup, keyspace, evictions>> /\ delivered' = delivered /\ appends' = appends
    BY <1>5 DEF Read
  <2>2. NetInv' /\ \E x, r : StepsTo(w, o, x) /\ Got(o, x, r)
    BY <1>5, ReadNet
  <2> QED
    BY <2>1, <2>2 DEF Moves
<1>6. CASE ReadFails(w)
  <2>1. UNCHANGED <<setup, keyspace, evictions>> /\ delivered' = delivered /\ appends' = appends
    BY <1>6 DEF ReadFails
  <2>2. NetInv' /\ \E x : StepsTo(w, o, x) /\ GaveUp(o, x)
    BY <1>6, ReadFailsNet
  <2> QED
    BY <2>1, <2>2 DEF Moves
<1>7. CASE Apply(w)
  <2>1. UNCHANGED <<setup, keyspace, evictions>> /\ appends' = appends
    BY <1>7 DEF Apply
  <2>2. NetInv' /\ \E x : StepsTo(w, o, x) /\ Applies(o, x)
    BY <1>7, ApplyNet DEF Applies
  <2> QED
    BY <2>1, <2>2 DEF Moves
<1>8. CASE Return(w)
  <2>1. UNCHANGED <<setup, keyspace, evictions>> /\ delivered' = delivered /\ appends' = appends
    BY <1>8 DEF Return
  <2>2. NetInv' /\ StepsTo(w, o, Idle)
    BY <1>8, ReturnNet
  <2> QED
    BY <2>1, <2>2 DEF Moves
<1> QED
  BY <1>1, <1>2, <1>3, <1>4, <1>5, <1>6, <1>7, <1>8 DEF Step

LEMMA CallerDb ==
    ASSUME NetInv, DbInv, NEW w \in Callers, Invoke(w) \/ Step(w)
    PROVE  DbInv'
<1>1. CASE Apply(w)
  BY <1>1, ApplyDb
<1>2. CASE ~Apply(w)
  <2>1. UNCHANGED <<keyspace, evictions, delivered>>
    BY <1>2 DEF Invoke, Step, TakeConnection, Write, WriteFails, Read, ReadFails, Return
  <2> QED
    BY <2>1, UnchangedDb DEF keyspace
<1> QED
  BY <1>1, <1>2

LEMMA CallerAppend ==
    ASSUME NetInv, DbInv, AppendInv, setup \in Setups, NEW w \in Callers, Invoke(w) \/ Step(w)
    PROVE  AppendInv'
<1>1. appends \in Nat
  BY DEF AppendInv
<1>2. PICK o : o = call[w]
  OBVIOUS
<1>3. stored' = stored
  BY <1>1, <1>2, CallerMoves DEF keyspace
<1>4. PICK x : StepsTo(w, o, x) /\ Moves(o, x)
  BY <1>1, <1>2, CallerMoves
<1>5. Formed(o)
  BY <1>2, HolderIs
<1>6. CASE Applies(o, x) /\ appends' = appends
  <2>1. o \in CallRecord /\ o.operation = "poll" /\ o.feed \in Feeds
    BY <1>5, <1>6 DEF Applies, Formed, CallShape
  <2>2. x.operation = "poll"
    <3>1. CASE x = Answer(o, "decode_error")
      BY <2>1, <3>1, AnswerIs DEF Answers
    <3>2. CASE LastSequence(o) \in Nat /\ x = Send(o, SaveCheckpoint(o.feed, LastSequence(o)))
      <4>1. PICK m : m = SaveCheckpoint(o.feed, LastSequence(o))
        OBVIOUS
      <4>2. m \in CommandRecord
        BY <2>1, <3>2, <4>1, CommandsAre
      <4> QED
        BY <2>1, <3>2, <4>1, <4>2, SendIs
    <3> QED
      BY <1>6, <3>1, <3>2 DEF Applies
  <2> QED
    BY <1>2, <1>3, <1>4, <1>6, <2>2, AppendMoves
<1>7. CASE x = Idle /\ appends' = appends
  <2>1. x.operation # "append"
    BY <1>7 DEF Idle
  <2> QED
    BY <1>2, <1>3, <1>4, <1>7, <2>1, AppendMoves
<1>8. CASE appends' = appends /\ (Kept(o, x) \/ GaveUp(o, x) \/ (\E r : Got(o, x, r)))
  BY <1>2, <1>3, <1>4, <1>8, AppendMoves
<1>9. CASE Begins(x)
  <2>1. CASE NewAppend(x)
    BY <1>2, <1>3, <1>4, <1>9, <2>1, AppendMoves DEF Begins
  <2>2. CASE NewLoad(x) \/ NewPoll(x)
    <3>1. x.operation # "append" /\ appends' = appends
      BY <2>2 DEF NewLoad, NewPoll
    <3> QED
      BY <1>2, <1>3, <1>4, <3>1, AppendMoves
  <2> QED
    BY <1>9, <2>1, <2>2 DEF Begins
<1> QED
  BY <1>4, <1>6, <1>7, <1>8, <1>9 DEF Moves

-------------------------------------------------------------------------------
RedisInv == NetInv /\ DbInv /\ AppendInv /\ setup \in Setups

LEMMA CallerStepInv ==
    ASSUME RedisInv, NEW w \in Callers, Invoke(w) \/ Step(w)
    PROVE  RedisInv'
<1>1. appends \in Nat
  BY DEF RedisInv, AppendInv
<1>2. NetInv' /\ setup' = setup
  BY <1>1, CallerMoves DEF RedisInv
<1>3. DbInv'
  BY CallerDb DEF RedisInv
<1>4. AppendInv'
  BY CallerAppend DEF RedisInv
<1> QED
  BY <1>2, <1>3, <1>4 DEF RedisInv

LEMMA ServerStepInv ==
    ASSUME RedisInv, NEW c \in Connections, Execute(c) \/ LoseRequest(c) \/ CloseConnection(c)
    PROVE  RedisInv'
<1> USE DEF RedisInv
<1>1. CASE Execute(c)
  <2>1. PICK m : m = Head(requests[c])
    OBVIOUS
  <2>2. CommandShape(m) /\ Effect(m) /\ UNCHANGED <<evictions, delivered, setup>>
    BY <1>1, <2>1, ExecutedCommand DEF Execute
  <2>3. DbInv'
    BY <2>2, EffectDb
  <2> QED
    BY <1>1, <2>2, <2>3, ExecuteNet, ExecuteAppend
<1>2. CASE LoseRequest(c)
  <2>1. UNCHANGED <<keyspace, evictions, delivered, setup, call, appends, replies>>
    BY <1>2 DEF LoseRequest
  <2>2. DbInv' /\ stored' = stored
    BY <2>1, UnchangedDb DEF keyspace
  <2>3. /\ requests' = [requests EXCEPT ![c] = <<>>] /\ status'[c] # "dropped"
        /\ \A b \in Connections \ {c} : status'[b] = status[b]
    BY <1>2, TypesHold DEF LoseRequest
  <2>4. AppendInv'
    BY <2>1, <2>2, <2>3, LostAppend
  <2> QED
    BY <1>2, <2>1, <2>2, <2>4, LoseRequestNet
<1>3. CASE CloseConnection(c)
  <2>1. UNCHANGED <<keyspace, evictions, delivered, setup, call, appends, replies>>
    BY <1>3 DEF CloseConnection
  <2>2. DbInv' /\ stored' = stored
    BY <2>1, UnchangedDb DEF keyspace
  <2>3. /\ requests' = [requests EXCEPT ![c] = <<>>] /\ status'[c] # "dropped"
        /\ \A b \in Connections \ {c} : status'[b] = status[b]
    BY <1>3, TypesHold DEF CloseConnection
  <2>4. AppendInv'
    BY <2>1, <2>2, <2>3, LostAppend
  <2> QED
    BY <1>3, <2>1, <2>2, <2>4, CloseConnectionNet
<1> QED
  BY <1>1, <1>2, <1>3

(* Keys and scripts the server forgets, and stuttering. *)
LEMMA QuietStepInv ==
    ASSUME RedisInv, FlushScripts \/ Evict \/ UNCHANGED vars
    PROVE  RedisInv'
<1> USE DEF RedisInv
<1>1. UNCHANGED <<setup, stored, network, call, appends>>
  BY DEF FlushScripts, Evict, vars, keyspace
<1>2. NetInv' /\ AppendInv'
  BY <1>1, UnchangedNet, UnchangedAppend DEF network
<1>3. DbInv'
  <2>1. CASE Evict
    BY <2>1, EvictDb
  <2>2. CASE ~Evict
    <3>1. /\ UNCHANGED <<revision, index, hashes, seq, checkpoints, stored>>
          /\ UNCHANGED <<evictions, delivered>>
      BY <2>2 DEF FlushScripts, vars, keyspace
    <3> QED
      BY <3>1, UnchangedDb
  <2> QED
    BY <2>1, <2>2
<1> QED
  BY <1>1, <1>2, <1>3

(* The inductive invariant of the network, the keyspace and the appends.   *)
THEOREM RedisInvariant == Spec => []RedisInv
<1>1. Init => RedisInv
  BY InitNet, InitDb, InitAppend DEF RedisInv, Init
<1>2. RedisInv /\ [Next]_vars => RedisInv'
  BY CallerStepInv, ServerStepInv, QuietStepInv DEF Next
<1> QED
  BY <1>1, <1>2, PTL DEF Spec

(* Whatever is sent again, late or lost (execute_command and the NOSCRIPT  *)
(* fallback of src/src/redis.rs) and whichever key the server evicts, the  *)
(* append script writes each revision and each sequence once, and all of   *)
(* an append or nothing.                                                   *)
THEOREM AppendsHappenOnce == Spec => []AppendsTakeEffectOnce
<1>1. RedisInv => AppendsTakeEffectOnce
  BY DEF RedisInv, DbInv, StoredOK, AppendInv, Written, AppendsTakeEffectOnce
<1> QED
  BY <1>1, RedisInvariant, PTL

(* A reply never reaches another command than its own: an append that is   *)
(* told Ok gets its own events, and one that is told a conflict has        *)
(* written nothing.                                                        *)
THEOREM RepliesAreOwn == Spec => []AnswersAreOwn
<1>1. RedisInv => AnswersAreOwn
  BY DEF RedisInv, AppendInv, AppendOK, AnswerOK, Written, AnswersAreOwn
<1> QED
  BY <1>1, RedisInvariant, PTL

-------------------------------------------------------------------------------
(* The loads.  What is stored only grows, new events have new sequences,   *)
(* and the index of a stream it was evicted from stays empty.              *)
Extends(T, J, S, I, q) ==
    /\ S \in SUBSET T
    /\ \A e \in T \ S : e.sequence > q
    /\ \A key \in StreamKeys : I[key] = {} /\ (\E e \in S : e.key = key) => J[key] = {}

LEMMA EffectExtends ==
    ASSUME DbInv, NEW m, CommandShape(m), Effect(m), UNCHANGED <<evictions, delivered>>
    PROVE  Extends(stored', index', stored, index, seq) /\ seq' >= seq
<1>1. CASE Known(m) /\ m.kind = "append" /\ AppendOutcome(m) = "ok"
  <2>1. AppendScript(m) /\ UNCHANGED checkpoints
    BY <1>1 DEF Effect
  <2>2. PICK n \in Nat : stored' = stored \cup Batch(m.append, m.limit, m.key, n, seq)
    BY <1>1, <2>1, AppendDb
  <2>3. PICK a \in Nat, L \in Nat, key \in IndexKeys, q \in Nat :
           a = m.append /\ L = m.limit /\ key = m.key /\ q = seq
    BY DEF CommandShape, CommandRecord, DbInv
  <2>4. PICK B : B = Batch(a, L, key, n, q)
    OBVIOUS
  <2>5. \A e \in B : e.sequence > q
    BY <2>4, BatchIs DEF BatchOf
  <2>6. stored' = stored \cup B /\ seq' = q + L
    BY <2>1, <2>2, <2>3, <2>4 DEF AppendScript
  <2>7. index[key] = Pairs(stored, key)
    BY <1>1, <2>3, ConsistentStream
  <2>8. ASSUME NEW k \in StreamKeys, index[k] = {}, NEW e \in stored, e.key = k
        PROVE  index'[k] = {}
    <3>1. e \in EventsOf(stored, k)
      BY <2>8 DEF EventsOf
    <3>2. <<e.revision, e.sequence>> \in Pairs(stored, k)
      BY <3>1 DEF Pairs
    <3>3. k # m.key /\ k # Global
      BY <2>3, <2>7, <2>8, <3>2, KeysAre
    <3>4. PICK new : new = NewEvents(m)
      OBVIOUS
    <3>5. index' = [index EXCEPT
             ![m.key] = @ \cup {<<new[j].revision, new[j].sequence>> : j \in DOMAIN new},
             ![Global] = @ \cup {<<new[j].sequence, new[j].sequence>> : j \in DOMAIN new}]
      BY <2>1, <3>4 DEF AppendScript
    <3>6. DOMAIN index = IndexKeys /\ k \in IndexKeys
      BY KeysAre DEF DbInv, IndexKeys
    <3>7. index'[k] = index[k]
      BY <3>3, <3>5, <3>6
    <3> QED
      BY <2>8, <3>7
  <2> QED
    BY <2>3, <2>5, <2>6, <2>8 DEF Extends
<1>2. CASE ~(Known(m) /\ m.kind = "append" /\ AppendOutcome(m) = "ok")
  <2>1. UNCHANGED <<stored, index, seq>> /\ seq \in Nat
    BY <1>2 DEF Effect, DbInv
  <2> QED
    BY <2>1 DEF Extends
<1> QED
  BY <1>1, <1>2

LEMMA EvictExtends ==
    ASSUME DbInv, Evict
    PROVE  Extends(stored', index', stored, index, seq) /\ seq' = seq
<1>1. UNCHANGED <<stored, seq>>
  BY DEF Evict
<1>2. DOMAIN index = IndexKeys /\ StreamKeys \in SUBSET IndexKeys
  BY KeysAre DEF DbInv, IndexKeys
<1>3. index' = index \/ \E k \in StreamKeys : index' = [index EXCEPT ![k] = {}]
  BY DEF Evict
<1>4. \A key \in StreamKeys : index'[key] \in {index[key], {}}
  BY <1>2, <1>3
<1> QED
  BY <1>1, <1>4 DEF Extends

LEMMA KeyIs ==
    ASSUME NEW o, Formed(o), o.operation = "load"
    PROVE  /\ KeyOf(o) \in StreamKeys /\ o.id \in Ids /\ o.lookup \in {1, 2}
           /\ o.lookup = 1 => KeyOf(o) = <<o.id, "current">>
           /\ o.lookup = 2 => KeyOf(o) = <<o.id, "legacy">>
           /\ o.asOf \in Nat /\ o.sequences \in Seq(Nat) /\ o.events \in Seq(EventRecord)
<1>1. /\ o.id \in Ids /\ o.lookup \in {1, 2} /\ o.asOf \in Nat
      /\ o.sequences \in Seq(Nat) /\ o.events \in Seq(EventRecord)
  BY DEF Formed, CallShape, CallRecord
<1> QED
  BY <1>1, KeysAre DEF KeyOf

(* What is covered stays covered by what comes later. *)
LEMMA CoversGrows ==
    ASSUME NEW S, NEW I, NEW T, NEW J, NEW q \in Nat, Extends(T, J, S, I, q),
           \A e \in T : e.sequence \in Nat,
           NEW key \in StreamKeys, NEW u \in Nat, u <= q, NEW n, Covers(S, I, key, u, n)
    PROVE  Covers(T, J, key, u, n)
<1>1. \A e \in T : e.sequence <= u => e \in S
  BY DEF Extends
<1>2. CASE I[key] = {} /\ \E e \in S : e.key = key
  BY <1>2 DEF Extends, Covers
<1>3. CASE I[key] = {} /\ ~\E e \in S : e.key = key
  BY <1>1, <1>3 DEF Covers
<1>4. CASE I[key] # {}
  BY <1>1, <1>4 DEF Covers
<1> QED
  BY <1>2, <1>3, <1>4

LEMMA LoadGrows ==
    ASSUME NEW S, NEW I, NEW T, NEW J, NEW q \in Nat, Extends(T, J, S, I, q),
           \A e \in T : e.sequence \in Nat,
           NEW o, Formed(o), o.operation = "load" => o.asOf <= q, NEW p, LoadOK(S, I, o, p)
    PROVE  LoadOK(T, J, o, p)
<1> SUFFICES ASSUME o.operation = "load"
             PROVE  LoadOK(T, J, o, p)
  BY DEF LoadOK
<1>1. S \in SUBSET T
  BY DEF Extends
<1>2. \A key, seqs, n : SequencesAt(S, key, seqs, n) => SequencesAt(T, key, seqs, n)
  BY <1>1 DEF SequencesAt
<1>3. \A key, evs : EventsAt(S, key, evs) => EventsAt(T, key, evs)
  BY <1>1 DEF EventsAt
<1>4. o.asOf \in Nat /\ KeyOf(o) \in StreamKeys /\ <<o.id, "current">> \in StreamKeys
  BY KeyIs, KeysAre
<1>5. \A key \in StreamKeys : \A n : Covers(S, I, key, o.asOf, n) => Covers(T, J, key, o.asOf, n)
  BY <1>4, CoversGrows
<1>6. TriedCurrent(S, I, o) => TriedCurrent(T, J, o)
  BY <1>4, <1>5 DEF TriedCurrent
<1>7. PageAsked(S, o) => PageAsked(T, o)
  BY <1>2 DEF PageAsked
<1>8. HashesAsked(S, I, o) => HashesAsked(T, J, o)
  BY <1>2, <1>3, <1>4, <1>5 DEF HashesAsked
<1>9. \A page : PageFound(S, I, o, page) => PageFound(T, J, o, page)
  BY <1>2, <1>4, <1>5 DEF PageFound
<1>10. \A seqs, evs : HashesFound(S, seqs, evs) => HashesFound(T, seqs, evs)
  BY <1>1 DEF HashesFound
<1>11. LoadDone(S, I, o) => LoadDone(T, J, o)
  BY <1>3, <1>4, <1>5 DEF LoadDone
<1> QED
  BY <1>6, <1>7, <1>8, <1>9, <1>10, <1>11 DEF LoadOK

(* A call that waits for nothing is judged without its connection. *)
Judged(S, I, x) == \A p : LoadOK(S, I, x, p)

LEMMA JudgedIs ==
    ASSUME NEW S, NEW I, NEW x, x.pc # "read",
           x.operation = "load" =>
              /\ InFlight(x) \/ x.answer = "ok" => TriedCurrent(S, I, x)
              /\ InFlight(x) /\ x.command.kind = "page" => PageAsked(S, x)
              /\ InFlight(x) /\ x.command.kind = "hashes" => HashesAsked(S, I, x)
              /\ x.answer = "ok" => x.pc = "done" /\ LoadDone(S, I, x)
    PROVE  Judged(S, I, x)
  BY DEF Judged, LoadOK

(* The sequences of a page follow the ones before it. *)
LEMMA SequencesJoin ==
    ASSUME NEW S, NEW key, NEW s \in Seq(Nat), NEW t \in Seq(Nat), NEW n \in Nat,
           SequencesAt(S, key, s, n), SequencesAt(S, key, t, n + Len(s))
    PROVE  SequencesAt(S, key, s \o t, n)
<1> SUFFICES ASSUME NEW k \in 1..Len(s \o t)
             PROVE  \E e \in S : e.key = key /\ e.revision = n + k /\ e.sequence = (s \o t)[k]
  BY DEF SequencesAt
<1>1. Len(s \o t) = Len(s) + Len(t) /\ Len(s) \in Nat /\ Len(t) \in Nat
  OBVIOUS
<1>2. CASE k <= Len(s)
  <2>1. (s \o t)[k] = s[k] /\ k \in 1..Len(s)
    BY <1>1, <1>2
  <2> QED
    BY <2>1 DEF SequencesAt
<1>3. CASE k > Len(s)
  <2>0. k - Len(s) \in 1..Len(t) /\ k = Len(s) + (k - Len(s))
    BY <1>1, <1>3
  <2>1. PICK j \in 1..Len(t) : j = k - Len(s) /\ k = Len(s) + j
    BY <2>0
  <2>2. (s \o t)[k] = t[j]
    BY <1>1, <1>3, <2>1
  <2>3. PICK e \in S : e.key = key /\ e.revision = (n + Len(s)) + j /\ e.sequence = t[j]
    BY DEF SequencesAt
  <2>4. (n + Len(s)) + j = n + k
    BY <1>1, <2>1
  <2> QED
    BY <2>2, <2>3, <2>4
<1> QED
  BY <1>1, <1>2, <1>3

LEMMA EventsJoin ==
    ASSUME NEW S, NEW key, NEW s \in Seq(EventRecord), NEW t \in Seq(EventRecord),
           EventsAt(S, key, s),
           \A j \in 1..Len(t) : t[j] \in S /\ t[j].key = key /\ t[j].revision = Len(s) + j
    PROVE  EventsAt(S, key, s \o t)
<1> SUFFICES ASSUME NEW k \in 1..Len(s \o t)
             PROVE  (s \o t)[k] \in S /\ (s \o t)[k].key = key /\ (s \o t)[k].revision = k
  BY DEF EventsAt
<1>1. Len(s \o t) = Len(s) + Len(t) /\ Len(s) \in Nat /\ Len(t) \in Nat
  OBVIOUS
<1>2. CASE k <= Len(s)
  <2>1. (s \o t)[k] = s[k] /\ k \in 1..Len(s)
    BY <1>1, <1>2
  <2> QED
    BY <2>1 DEF EventsAt
<1>3. CASE k > Len(s)
  <2>0. k - Len(s) \in 1..Len(t) /\ k = Len(s) + (k - Len(s))
    BY <1>1, <1>3
  <2>1. PICK j \in 1..Len(t) : j = k - Len(s) /\ k = Len(s) + j
    BY <2>0
  <2>2. (s \o t)[k] = t[j]
    BY <1>1, <1>3, <2>1
  <2> QED
    BY <2>1, <2>2
<1> QED
  BY <1>1, <1>2, <1>3

SameLoad(x, o) ==
    /\ x.operation = o.operation /\ x.id = o.id /\ x.asOf = o.asOf /\ x.lookup = o.lookup
LEMMA SameLoadIs ==
    ASSUME NEW x, NEW o, SameLoad(x, o), NEW S, NEW I
    PROVE  KeyOf(x) = KeyOf(o) /\ TriedCurrent(S, I, x) = TriedCurrent(S, I, o)
  BY DEF SameLoad, KeyOf, TriedCurrent

(* What load does after a page. *)
LEMMA LoadAfterPage ==
    ASSUME NEW S, NEW I, NEW o, Formed(o), o.operation = "load", o.command.kind = "page",
           TriedCurrent(S, I, o), PageAsked(S, o), o.answer # "ok",
           NEW page, PageFound(S, I, o, page), NEW x, x = AfterPage(o, page)
    PROVE  Judged(S, I, x)
<1>1. /\ o \in CallRecord /\ o.command.limit = PageSize /\ PageSize > 0 /\ PageSize \in Nat
      /\ page \in Seq(Nat \X Nat)
  BY RedisAssumption DEF Formed, CallShape, PageAsked, PageFound
<1>2. /\ KeyOf(o) \in StreamKeys /\ o.id \in Ids /\ o.lookup \in {1, 2}
      /\ o.asOf \in Nat /\ o.sequences \in Seq(Nat) /\ o.events = <<>>
  BY KeyIs DEF PageAsked
<1>3a. PICK read \in CallRecord : PageNext(o, page, read, x)
  BY <1>1, <1>2, AfterPageIs
<1>3. /\ SameCall(read, o) /\ read.lookup = o.lookup /\ read.events = o.events
      /\ read.command = o.command /\ read.answer = o.answer
      /\ read.sequences = o.sequences \o Members(page)
      /\ \/ /\ WantsMore(o, page)
            /\ SameCall(x, o) /\ x.pc = "take" /\ x.lookup = o.lookup
            /\ x.sequences = read.sequences /\ x.events = o.events
            /\ x.command \in CommandRecord /\ x.command.kind = "page"
            /\ x.command.key = o.command.key
            /\ Len(page) > 0 /\ x.command.after = page[Len(page)][1]
            /\ x.command.limit = NextPageSize(o, read.sequences) /\ x.command.limit > 0
         \/ ~WantsMore(o, page) /\ read.sequences = <<>> /\ x = Loaded(read)
         \/ ~WantsMore(o, page) /\ read.sequences # <<>> /\ x = FetchHashes(read)
  BY <1>3a DEF PageNext
<1>4. Members(page) \in Seq(Nat) /\ Len(Members(page)) = Len(page) /\ Len(page) \in Nat
  BY <1>1, MembersAre
<1>5. o.command.after = Len(o.sequences) /\ Len(o.sequences) \in Nat
  BY <1>2 DEF PageAsked
<1>6. /\ read.sequences \in Seq(Nat) /\ Len(read.sequences) = Len(o.sequences) + Len(page)
      /\ SequencesAt(S, KeyOf(o), read.sequences, 0)
  <2>1. SequencesAt(S, KeyOf(o), o.sequences, 0)
    BY DEF PageAsked
  <2>2. SequencesAt(S, KeyOf(o), Members(page), 0 + Len(o.sequences))
    <3>1. 0 + Len(o.sequences) = o.command.after
      BY <1>5
    <3> QED
      BY <3>1 DEF PageFound
  <2>3. PICK s \in Seq(Nat), t \in Seq(Nat) : s = o.sequences /\ t = Members(page)
    BY <1>2, <1>4
  <2>3a. PICK key : key = KeyOf(o)
    OBVIOUS
  <2>4. SequencesAt(S, key, s \o t, 0)
    BY <2>1, <2>2, <2>3, <2>3a, SequencesJoin
  <2> QED
    <3>1. read.sequences = s \o t /\ Len(s \o t) = Len(s) + Len(t) /\ s \o t \in Seq(Nat)
      BY <1>3, <2>3
    <3> QED
      BY <1>4, <2>3, <2>3a, <2>4, <3>1
<1>7. NextPageSize(o, read.sequences) = PageSize
  BY <1>1, <1>6, NextPageSizeIs
<1>8. WantsMore(o, page) <=> Len(page) = PageSize
  BY <1>1, <1>3, <1>7 DEF WantsMore
<1>9. CASE WantsMore(o, page)
  <2>1. /\ SameCall(x, o) /\ x.pc = "take" /\ x.lookup = o.lookup
        /\ x.sequences = read.sequences /\ x.events = o.events
        /\ x.command.kind = "page" /\ x.command.key = o.command.key
        /\ Len(page) > 0 /\ x.command.after = page[Len(page)][1] /\ x.command.limit = PageSize
    BY <1>3, <1>7, <1>9
  <2>2. SameLoad(x, o) /\ x.answer # "ok"
    BY <2>1 DEF SameLoad, SameCall
  <2>3. page[Len(page)][1] = o.command.after + Len(page)
    BY <1>4, <2>1 DEF PageFound
  <2>4. KeyOf(x) = KeyOf(o) /\ TriedCurrent(S, I, x)
    BY <2>2, SameLoadIs
  <2>5. PageAsked(S, x)
    BY <1>2, <1>5, <1>6, <2>1, <2>3, <2>4 DEF PageAsked
  <2> QED
    BY <2>1, <2>2, <2>4, <2>5, JudgedIs
<1>10. ASSUME ~WantsMore(o, page)
       PROVE  Covers(S, I, KeyOf(o), o.asOf, Len(read.sequences))
  BY <1>5, <1>6, <1>8, <1>10 DEF PageFound
<1>11. CASE ~WantsMore(o, page) /\ read.sequences = <<>>
  <2>1. x = Loaded(read) /\ Len(read.sequences) = 0 /\ read.operation = "load" /\ read.id = o.id
    BY <1>3, <1>11 DEF SameCall
  <2>2. /\ SameCall(x, read) /\ x.sequences = read.sequences /\ x.events = read.events
        /\ \/ /\ TriesLegacy(read) /\ x.pc = "take" /\ x.lookup = 2
              /\ x.command \in CommandRecord /\ x.command.kind = "page"
              /\ x.command.key = <<read.id, "legacy">>
              /\ x.command.after = 0 /\ x.command.limit = PageSize
           \/ /\ HasPage(read) /\ x.pc = "apply" /\ x.command = read.command /\ x.lookup = read.lookup
           \/ /\ ~TriesLegacy(read) /\ ~HasPage(read)
              /\ x.pc = "done" /\ x.answer = "ok" /\ x.command = read.command
              /\ x.lookup = read.lookup
    BY <1>2, <2>1, LoadedIs
  <2>3. /\ x.operation = "load" /\ x.id = o.id /\ x.asOf = o.asOf /\ x.events = <<>>
        /\ x.sequences = <<>> /\ ~HasPage(read)
    BY <1>2, <1>3, <1>11, <2>1, <2>2 DEF SameCall, HasPage
  <2>4. CASE TriesLegacy(read)
    <3>1. o.lookup = 1 /\ x.pc = "take" /\ x.lookup = 2 /\ x.answer # "ok"
      <4>1. x.pc = "take" /\ x.lookup = 2 /\ read.lookup = 1
        BY <2>2, <2>3, <2>4 DEF TriesLegacy
      <4>2. x.answer = read.answer
        BY <2>2, <4>1 DEF SameCall
      <4> QED
        BY <1>3, <4>1, <4>2
    <3>2. KeyOf(x) = <<x.id, "legacy">>
      BY <1>2, <2>3, <3>1, KeysAre DEF KeyOf
    <3>3. KeyOf(o) = <<o.id, "current">>
      BY <3>1, KeyIs
    <3>4. TriedCurrent(S, I, x)
      BY <1>10, <1>11, <2>1, <2>3, <3>3 DEF TriedCurrent
    <3>5. SequencesAt(S, KeyOf(x), <<>>, 0)
      BY DEF SequencesAt
    <3>6. PageAsked(S, x)
      BY <2>1, <2>2, <2>3, <2>4, <3>2, <3>5 DEF PageAsked
    <3> QED
      BY <2>2, <2>4, <3>1, <3>4, <3>6, JudgedIs
  <2>5. CASE ~TriesLegacy(read)
    <3>1. x.pc = "done" /\ x.answer = "ok" /\ x.lookup = o.lookup /\ o.lookup # 1
      BY <1>2, <1>3, <2>1, <2>2, <2>3, <2>5 DEF TriesLegacy
    <3>2. SameLoad(x, o)
      BY <2>3, <3>1 DEF SameLoad
    <3>3. KeyOf(x) = KeyOf(o) /\ TriedCurrent(S, I, x)
      BY <3>2, SameLoadIs
    <3>4. Len(x.events) = 0 /\ EventsAt(S, KeyOf(x), x.events)
      BY <2>3 DEF EventsAt
    <3>5. LoadDone(S, I, x)
      BY <1>10, <1>11, <2>1, <2>3, <3>1, <3>3, <3>4 DEF LoadDone
    <3> QED
      BY <3>1, <3>3, <3>5, JudgedIs DEF InFlight
  <2> QED
    BY <2>4, <2>5
<1>12. CASE ~WantsMore(o, page) /\ read.sequences # <<>>
  <2>1. x = FetchHashes(read)
    BY <1>3, <1>12
  <2>2. /\ SameCall(x, read) /\ x.pc = "take" /\ x.lookup = read.lookup
        /\ x.sequences = read.sequences /\ x.events = read.events
        /\ x.command \in CommandRecord /\ x.command.kind = "hashes"
        /\ x.command.sequences = Chunk(read.sequences)
    BY <2>1, FetchIs
  <2>3. SameLoad(x, o) /\ x.answer # "ok" /\ x.events = <<>>
    BY <1>2, <1>3, <2>2 DEF SameLoad, SameCall
  <2>4. KeyOf(x) = KeyOf(o) /\ TriedCurrent(S, I, x)
    BY <2>3, SameLoadIs
  <2>5. Covers(S, I, KeyOf(x), x.asOf, 0 + Len(read.sequences))
    <3>1. 0 + Len(read.sequences) = Len(read.sequences)
      BY <1>6
    <3> QED
      BY <1>10, <1>12, <2>3, <2>4, <3>1 DEF SameLoad
  <2>6. HashesAsked(S, I, x)
    <3>1. EventsAt(S, KeyOf(x), <<>>) /\ Len(x.events) = 0
      BY <2>3 DEF EventsAt
    <3> QED
      BY <1>6, <1>12, <2>2, <2>3, <2>4, <2>5, <3>1 DEF HashesAsked
  <2> QED
    BY <2>2, <2>3, <2>4, <2>6, JudgedIs
<1> QED
  BY <1>9, <1>11, <1>12

(* What load does with the hashes of a chunk. *)
LEMMA LoadAfterHashes ==
    ASSUME NEW S, NEW I, NEW N, StoredOK(S, N), NEW o, Formed(o), o.operation = "load",
           TriedCurrent(S, I, o), HashesAsked(S, I, o), o.answer # "ok", NEW evs \in Seq(EventRecord),
           Len(evs) = Len(o.command.sequences), HashesFound(S, o.command.sequences, evs),
           NEW x, x = AfterHashes(o, evs)
    PROVE  Judged(S, I, x)
<1>1. o \in CallRecord
  BY DEF Formed, CallShape
<1>2. /\ o.id \in Ids /\ o.asOf \in Nat /\ o.sequences \in Seq(Nat)
      /\ o.events \in Seq(EventRecord)
  BY KeyIs
<1>3. PICK read \in CallRecord : HashesNext(o, evs, read, x)
  BY <1>1, AfterHashesIs
<1>m. CASE Missing(evs)
  <2>1. x = Answer(o, "store_error")
    BY <1>3, <1>m DEF HashesNext
  <2>2. x.pc = "done" /\ x.answer # "ok"
    BY <1>1, <2>1, AnswerIs DEF Answers
  <2> QED
    BY <2>2, JudgedIs DEF InFlight
<1>9. SUFFICES ASSUME ~Missing(evs)
               PROVE  Judged(S, I, x)
  BY <1>m
<1>4. o.command.sequences = Chunk(o.sequences) /\ o.sequences # <<>>
  BY DEF HashesAsked
<1>5. /\ Len(evs) \in Nat /\ Len(evs) > 0 /\ Len(evs) <= Len(o.sequences)
      /\ \A k \in 1..Len(evs) : evs[k] \in S /\ evs[k].sequence = o.sequences[k]
  <2>1. PICK seqs \in Seq(Nat) : seqs = o.sequences
    BY <1>2
  <2>2. /\ Len(Chunk(seqs)) <= Len(seqs) /\ Len(Chunk(seqs)) > 0
        /\ \A k \in 1..Len(Chunk(seqs)) : Chunk(seqs)[k] = seqs[k]
    BY <1>4, <2>1, ChunkIs
  <2> QED
    BY <1>4, <1>9, <2>1, <2>2 DEF HashesFound, Missing
<1>6. PICK n, l, h \in Nat : n = Len(o.events) /\ l = Len(o.sequences) /\ h = Len(evs)
  BY <1>2, <1>5
<1>6a. h > 0 /\ h <= l /\ Covers(S, I, KeyOf(o), o.asOf, n + l)
  BY <1>5, <1>6 DEF HashesAsked
<1>7. \A k \in 1..h : evs[k] \in S /\ evs[k].key = KeyOf(o) /\ evs[k].revision = n + k
  <2> SUFFICES ASSUME NEW k \in 1..h
               PROVE  evs[k] \in S /\ evs[k].key = KeyOf(o) /\ evs[k].revision = n + k
    OBVIOUS
  <2>1. k \in 1..Len(o.sequences) /\ evs[k] \in S /\ evs[k].sequence = o.sequences[k]
    BY <1>5, <1>6
  <2>2. PICK e \in S : e.key = KeyOf(o) /\ e.revision = n + k /\ e.sequence = o.sequences[k]
    BY <1>6, <2>1 DEF HashesAsked, SequencesAt
  <2>3. e = evs[k]
    BY <2>1, <2>2 DEF StoredOK
  <2> QED
    BY <2>1, <2>2, <2>3
<1>10. /\ SameCall(read, o) /\ read.lookup = o.lookup /\ read.events = o.events \o evs
       /\ read.answer = o.answer /\ Len(read.sequences) = l - h /\ read.sequences \in Seq(Nat)
       /\ \A k \in 1..Len(read.sequences) : read.sequences[k] = o.sequences[h + k]
  BY <1>3, <1>5, <1>6 DEF HashesNext, CallRecord
<1>11. /\ EventsAt(S, KeyOf(o), read.events) /\ read.events # <<>>
       /\ Len(read.events) = n + h
  <2>1. PICK s \in Seq(EventRecord) : s = o.events
    BY <1>2
  <2>2. PICK key : key = KeyOf(o)
    OBVIOUS
  <2>3. EventsAt(S, key, s)
    BY <2>1, <2>2 DEF HashesAsked
  <2>4. EventsAt(S, key, s \o evs)
    BY <1>6, <1>7, <2>1, <2>2, <2>3, EventsJoin
  <2>5. Len(s \o evs) = n + h
    <3>1. Len(s \o evs) = Len(s) + Len(evs)
      BY ConcatProperties
    <3> QED
      BY <1>6, <2>1, <3>1
  <2>6. s \o evs # <<>>
    BY <1>5, <1>6, <2>5
  <2> QED
    BY <1>10, <2>1, <2>2, <2>4, <2>5, <2>6
<1>12. SequencesAt(S, KeyOf(o), read.sequences, n + h)
  <2> SUFFICES ASSUME NEW k \in 1..Len(read.sequences)
               PROVE  \E e \in S : /\ e.key = KeyOf(o) /\ e.revision = (n + h) + k
                                   /\ e.sequence = read.sequences[k]
    BY DEF SequencesAt
  <2>1. h + k \in 1..l /\ n + (h + k) = (n + h) + k
    BY <1>6a, <1>10
  <2>2. PICK j \in 1..Len(o.sequences) : j = h + k
    BY <1>6, <2>1
  <2>3. PICK e \in S : e.key = KeyOf(o) /\ e.revision = n + j /\ e.sequence = o.sequences[j]
    BY <1>6 DEF HashesAsked, SequencesAt
  <2> QED
    BY <1>10, <2>1, <2>2, <2>3
<1>13. Covers(S, I, KeyOf(o), o.asOf, (n + h) + Len(read.sequences))
  <2>1. (n + h) + Len(read.sequences) = n + l
    BY <1>6a, <1>10
  <2> QED
    BY <1>6a, <2>1
<1>14. CASE read.sequences # <<>>
  <2>1. x = FetchHashes(read)
    BY <1>3, <1>9, <1>14 DEF HashesNext
  <2>2. /\ SameCall(x, read) /\ x.pc = "take" /\ x.lookup = read.lookup
        /\ x.sequences = read.sequences /\ x.events = read.events
        /\ x.command \in CommandRecord /\ x.command.kind = "hashes"
        /\ x.command.sequences = Chunk(read.sequences)
    BY <2>1, FetchIs
  <2>3. SameLoad(x, o) /\ x.answer # "ok"
    BY <1>10, <2>2 DEF SameLoad, SameCall
  <2>4. KeyOf(x) = KeyOf(o) /\ x.asOf = o.asOf /\ TriedCurrent(S, I, x)
    BY <2>3, SameLoadIs DEF SameLoad
  <2>5. HashesAsked(S, I, x)
    BY <1>11, <1>12, <1>13, <1>14, <2>2, <2>4 DEF HashesAsked
  <2> QED
    BY <2>2, <2>3, <2>4, <2>5, JudgedIs
<1>15. CASE read.sequences = <<>>
  <2>1. x = Loaded(read) /\ read.operation = "load" /\ read.id \in Ids
    BY <1>2, <1>3, <1>9, <1>10, <1>15 DEF HashesNext, SameCall
  <2>2. ~TriesLegacy(read) /\ ~HasPage(read)
    BY <1>11, <2>1 DEF TriesLegacy, HasPage
  <2>3. /\ SameCall(x, read) /\ x.events = read.events /\ x.pc = "done" /\ x.answer = "ok"
        /\ x.lookup = read.lookup
    BY <2>1, <2>2, LoadedIs
  <2>4. SameLoad(x, o)
    BY <1>10, <2>3 DEF SameLoad, SameCall
  <2>5. KeyOf(x) = KeyOf(o) /\ x.asOf = o.asOf /\ TriedCurrent(S, I, x)
    BY <2>4, SameLoadIs DEF SameLoad
  <2>6. Len(read.sequences) = 0
    BY <1>15
  <2>7. LoadDone(S, I, x)
    <3>1. (n + h) + Len(read.sequences) = n + h
      BY <2>6
    <3> QED
      BY <1>11, <1>13, <2>3, <2>5, <3>1 DEF LoadDone
  <2> QED
    BY <2>3, <2>5, <2>7, JudgedIs DEF InFlight
<1> QED
  BY <1>14, <1>15

(* The same question as before. *)
SameQuestion(m, k) ==
    /\ m.kind = k.kind /\ m.key = k.key /\ m.limit = k.limit /\ m.after = k.after
    /\ m.sequences = k.sequences /\ m.feed = k.feed
SameLists(x, o) == x.sequences = o.sequences /\ x.events = o.events /\ x.answer = o.answer

LEMMA EvalIs ==
    ASSUME NEW k \in CommandRecord, NEW m, m = [k EXCEPT !.eval = TRUE]
    PROVE  m \in CommandRecord /\ SameQuestion(m, k)
  BY DEF CommandRecord, SameQuestion

LEMMA SameAsked ==
    ASSUME NEW S, NEW I, NEW x, NEW o, SameLoad(x, o), SameQuestion(x.command, o.command),
           SameLists(x, o)
    PROVE  /\ TriedCurrent(S, I, o) => TriedCurrent(S, I, x)
           /\ PageAsked(S, o) => PageAsked(S, x)
           /\ HashesAsked(S, I, o) => HashesAsked(S, I, x)
<1>1. KeyOf(x) = KeyOf(o) /\ TriedCurrent(S, I, x) = TriedCurrent(S, I, o)
  BY SameLoadIs
<1>2. PageAsked(S, o) => PageAsked(S, x)
  BY <1>1 DEF SameQuestion, SameLists, PageAsked
<1>3. HashesAsked(S, I, o) => HashesAsked(S, I, x)
  BY <1>1 DEF SameLoad, SameQuestion, SameLists, HashesAsked
<1> QED
  BY <1>1, <1>2, <1>3

(* A command that is sent, or sent again, for a call that has no answer.   *)
LEMMA AskedAgain ==
    ASSUME NEW S, NEW I, NEW o, NEW p, LoadOK(S, I, o, p), InFlight(o), NEW x, SameLoad(x, o),
           SameQuestion(x.command, o.command), SameLists(x, o), NEW q, x.pc = "read" => q = <<>>
    PROVE  LoadOK(S, I, x, q)
<1> SUFFICES ASSUME x.operation = "load" PROVE LoadOK(S, I, x, q)
  BY DEF LoadOK
<1>1. /\ TriedCurrent(S, I, o)
      /\ o.command.kind = "page" => PageAsked(S, o)
      /\ o.command.kind = "hashes" => HashesAsked(S, I, o)
      /\ o.answer # "ok"
  BY DEF LoadOK, SameLoad, InFlight
<1>2. /\ TriedCurrent(S, I, x)
      /\ PageAsked(S, o) => PageAsked(S, x)
      /\ HashesAsked(S, I, o) => HashesAsked(S, I, x)
  BY <1>1, SameAsked
<1> QED
  BY <1>1, <1>2 DEF LoadOK, SameQuestion, SameLists

LEMMA LoadGot ==
    ASSUME NEW S, NEW I, NEW N, StoredOK(S, N),
           NEW o, Formed(o), NEW r, LoadOK(S, I, o, <<r>>), NEW x, Got(o, x, r)
    PROVE  Judged(S, I, x)
<1>1. /\ o \in CallRecord /\ o.command \in CommandRecord /\ InFlight(o) /\ o.pc = "read"
      /\ x.pc # "read" /\ x.operation = o.operation
  BY DEF Formed, CallShape, CommandShape, Got, InFlight, GoesOn
<1>2. CASE o.operation # "load"
  BY <1>1, <1>2, JudgedIs
<1>3. CASE o.operation = "load" /\ r.outcome = "noscript"
  <2>1. PICK m : m = [o.command EXCEPT !.eval = TRUE]
    OBVIOUS
  <2>2. m \in CommandRecord /\ SameQuestion(m, o.command)
    BY <1>1, <2>1, EvalIs
  <2>3. x = Send(o, m)
    BY <1>3, <2>1 DEF Got
  <2>4. SameLoad(x, o) /\ SameLists(x, o) /\ x.command = m
    BY <1>1, <2>2, <2>3, SendIs DEF SameLoad, SameLists
  <2>5. ASSUME NEW q PROVE LoadOK(S, I, x, q)
    BY <1>1, <2>2, <2>4, AskedAgain
  <2> QED
    BY <2>5 DEF Judged
<1>4. CASE o.operation = "load" /\ r.outcome # "noscript"
  <2>1. /\ o.command.kind \in {"page", "hashes"} /\ x = Continue(o, r)
        /\ ReplyShape(o.command, r)
    BY <1>4, KindsAre DEF Got, Formed, CallShape
  <2>2. r.outcome = "ok" /\ Head(<<r>>) = r /\ <<r>> # <<>>
    BY <1>4, <2>1 DEF ReplyShape
  <2>3. o.answer # "ok" /\ TriedCurrent(S, I, o)
    BY <1>1, <1>4 DEF LoadOK
  <2>4. CASE o.command.kind = "page"
    <3>1. x = AfterPage(o, r.value)
      BY <2>1, <2>4 DEF Continue
    <3>2. PageAsked(S, o) /\ PageFound(S, I, o, r.value)
      BY <1>1, <1>4, <2>2, <2>4 DEF LoadOK
    <3> QED
      BY <1>4, <2>3, <2>4, <3>1, <3>2, LoadAfterPage
  <2>5. CASE o.command.kind = "hashes"
    <3>1. x = AfterHashes(o, r.value)
      BY <2>1, <2>5 DEF Continue
    <3>2. HashesAsked(S, I, o) /\ HashesFound(S, o.command.sequences, r.value)
      BY <1>1, <1>4, <2>2, <2>5 DEF LoadOK
    <3>3. PICK evs \in Seq(EventRecord) : evs = r.value /\ Len(evs) = Len(o.command.sequences)
      BY <1>4, <2>1, <2>5 DEF ReplyShape
    <3> QED
      BY <1>4, <2>3, <2>5, <3>1, <3>2, <3>3, LoadAfterHashes
  <2> QED
    BY <2>1, <2>4, <2>5
<1> QED
  BY <1>2, <1>3, <1>4

(* A load begins with nothing to show. *)
LEMMA LoadBegins ==
    ASSUME NEW S, NEW I, NEW x, Formed(x), x.pc = "take", NewLoad(x)
    PROVE  Judged(S, I, x)
<1>1. x.id \in Ids /\ KeyOf(x) = <<x.id, "current">> /\ x.operation = "load" /\ x.answer # "ok"
  BY KeyIs DEF NewLoad
<1>2. PageAsked(S, x)
  <2>1. SequencesAt(S, KeyOf(x), <<>>, 0)
    BY DEF SequencesAt
  <2> QED
    BY <1>1, <2>1 DEF PageAsked, NewLoad
<1>3. TriedCurrent(S, I, x)
  BY DEF TriedCurrent, NewLoad
<1> QED
  BY <1>1, <1>2, <1>3, JudgedIs DEF NewLoad

LEMMA LoadMoves ==
    ASSUME NetInv, DbInv, LoadInv, NEW w \in Callers, NEW o, o = call[w], NEW x,
           StepsTo(w, o, x), Moves(o, x), NEW q, q = replies'[x.connection]
    PROVE  LoadOK(stored, index, x, q) /\ (x.operation = "load" => x.asOf <= seq)
<1>1. /\ Formed(o) /\ Formed(x)
      /\ LoadOK(stored, index, o, replies[o.connection])
      /\ (o.operation = "load" => o.asOf <= seq) /\ seq \in Nat
  BY HolderIs DEF LoadInv, StepsTo, DbInv
<1>2. CASE Kept(o, x)
  <2>1. /\ SameLoad(x, o) /\ SameQuestion(x.command, o.command) /\ SameLists(x, o)
        /\ InFlight(o) /\ (x.pc = "read" => q = <<>>)
    BY <1>2 DEF Kept, SameData, SameCall, SameLoad, SameQuestion, SameLists, InFlight
  <2>2. LoadOK(stored, index, x, q)
    BY <1>1, <2>1, AskedAgain
  <2> QED
    BY <1>1, <2>1, <2>2 DEF SameLoad
<1>3. CASE GaveUp(o, x)
  BY <1>1, <1>3 DEF GaveUp, LoadOK, InFlight, SameCall
<1>4. ASSUME NEW r, Got(o, x, r)
      PROVE  LoadOK(stored, index, x, q) /\ (x.operation = "load" => x.asOf <= seq)
  <2>1. LoadOK(stored, index, o, <<r>>)
    BY <1>1, <1>4 DEF Got
  <2>2. PICK S, I, N : S = stored /\ I = index /\ N = seq
    OBVIOUS
  <2>3. StoredOK(S, N)
    BY <2>2 DEF DbInv
  <2>4. Judged(S, I, x)
    BY <1>1, <1>4, <2>1, <2>2, <2>3, LoadGot
  <2>5. x.operation = o.operation /\ x.asOf = o.asOf
    BY <1>4 DEF Got, GoesOn
  <2> QED
    BY <1>1, <2>2, <2>4, <2>5 DEF Judged
<1>5. CASE x = Idle
  BY <1>5, IdleIs DEF LoadOK, Idle
<1>6. CASE Applies(o, x)
  <2>1. o \in CallRecord /\ o.operation = "poll" /\ o.feed \in Feeds
    BY <1>1, <1>6 DEF Applies, Formed, CallShape
  <2>2. x.operation = "poll"
    <3>1. CASE x = Answer(o, "decode_error")
      BY <2>1, <3>1, AnswerIs DEF Answers
    <3>2. CASE LastSequence(o) \in Nat /\ x = Send(o, SaveCheckpoint(o.feed, LastSequence(o)))
      <4>1. PICK m : m = SaveCheckpoint(o.feed, LastSequence(o))
        OBVIOUS
      <4>2. m \in CommandRecord
        BY <2>1, <3>2, <4>1, CommandsAre
      <4> QED
        BY <2>1, <3>2, <4>1, <4>2, SendIs
    <3> QED
      BY <1>6, <3>1, <3>2 DEF Applies
  <2> QED
    BY <2>2 DEF LoadOK
<1>7. CASE Begins(x)
  <2>1. CASE NewLoad(x)
    <3>1. PICK S, I : S = stored /\ I = index
      OBVIOUS
    <3>2. Judged(S, I, x)
      BY <1>1, <1>7, <2>1, LoadBegins DEF Begins
    <3> QED
      BY <1>1, <2>1, <3>1, <3>2 DEF Judged, NewLoad
  <2>2. CASE NewAppend(x) \/ NewPoll(x)
    BY <2>2 DEF NewAppend, NewPoll, LoadOK
  <2> QED
    BY <1>7, <2>1, <2>2 DEF Begins
<1> QED
  BY <1>2, <1>3, <1>4, <1>5, <1>6, <1>7 DEF Moves

LEMMA CallerLoad ==
    ASSUME NetInv, DbInv, LoadInv, setup \in Setups, appends \in Nat, NEW w \in Callers,
           Invoke(w) \/ Step(w)
    PROVE  LoadInv'
<1>1. PICK o : o = call[w]
  OBVIOUS
<1>2. UNCHANGED <<stored, index, seq>>
  BY <1>1, CallerMoves DEF keyspace
<1>3. PICK x : StepsTo(w, o, x) /\ Moves(o, x)
  BY <1>1, CallerMoves
<1> SUFFICES ASSUME NEW v \in Callers
             PROVE  /\ LoadOK(stored, index, call'[v], replies'[call'[v].connection])
                    /\ call'[v].operation = "load" => call'[v].asOf <= seq
  BY <1>2 DEF LoadInv
<1>4. call' = [call EXCEPT ![w] = x] /\ call \in [Callers -> CallRecord]
  BY <1>3, TypesHold DEF StepsTo
<1>5. CASE v = w
  <2>1. call'[v] = x
    BY <1>4, <1>5
  <2>2. PICK q : q = replies'[x.connection]
    OBVIOUS
  <2>3. LoadOK(stored, index, x, q) /\ (x.operation = "load" => x.asOf <= seq)
    BY <1>1, <1>3, <2>2, LoadMoves
  <2> QED
    BY <2>1, <2>2, <2>3
<1>6. CASE v # w
  <2>1. /\ call'[v] = call[v] /\ LoadOK(stored, index, call[v], replies[call[v].connection])
        /\ call[v].operation = "load" => call[v].asOf <= seq
    BY <1>4, <1>6 DEF LoadInv
  <2>2. call[v].pc = "read" => replies'[call[v].connection] = replies[call[v].connection]
    <3> SUFFICES ASSUME call[v].pc = "read"
                 PROVE  replies'[call[v].connection] = replies[call[v].connection]
      OBVIOUS
    <3>1. Holds(call[v]) /\ call[v].connection \in Connections
      BY HolderIs DEF Holds
    <3>2. HeldByOther(w, call[v].connection)
      BY <1>6, <3>1 DEF HeldByOther
    <3> QED
      BY <1>3, <3>1, <3>2 DEF StepsTo, OthersAfter
  <2> QED
    BY <2>1, <2>2 DEF LoadOK
<1> QED
  BY <1>5, <1>6

(* A page that ends before it is full covers what there is. *)
LEMMA StreamPage ==
    ASSUME DbInv, NEW o, Formed(o), o.operation = "load", PageAsked(stored, o),
           NEW page, page = Page(index[o.command.key], o.command.after, o.command.limit)
    PROVE  PageFound(stored, index, o, page)
<1>1. PICK key \in StreamKeys : key = KeyOf(o) /\ o.command.key = key
  BY KeyIs DEF PageAsked
<1>2. StoredOK(stored, seq) /\ StreamOK(stored, key, revision[key], index[key], evictions)
  BY DEF DbInv
<1>3. PICK m \in Nat : Numbers(stored, key, m) /\ index[key] \in {{}, Pairs(stored, key)}
  BY <1>2 DEF StreamOK, Numbers
<1>4. PICK ix : ix = index[key]
  OBVIOUS
<1>5. PICK n \in Nat : /\ Sorted(ix, n) /\ ix \in SUBSET Pairs(stored, key)
                       /\ ix = {} \/ n = m
  <2>1. CASE ix = {}
    BY <2>1, EmptyIsSorted
  <2>2. CASE ix = Pairs(stored, key)
    BY <1>2, <1>3, <2>2, StreamIs DEF Sorted
  <2> QED
    BY <1>3, <1>4, <2>1, <2>2
<1>6. PICK after \in Nat, limit \in Nat : after = o.command.after /\ limit = PageSize
  BY RedisAssumption DEF Formed, CommandShape, CommandRecord
<1>7. PageOf(page, ix, n, after, limit)
  <2>1. page = Page(ix, after, limit)
    BY <1>1, <1>4, <1>6 DEF PageAsked
  <2> QED
    BY <1>5, <2>1, PageIs
<1>8. /\ page \in Seq(Nat \X Nat) /\ Len(page) \in Nat
      /\ \A k \in 1..Len(page) : page[k] \in ix /\ page[k][1] = after + k
      /\ Len(page) # limit => after + Len(page) >= n
  BY <1>7 DEF PageOf
<1>9. \A k \in 1..Len(page) :
         \E e \in stored : e.key = key /\ e.revision = after + k /\ e.sequence = page[k][2]
  <2> SUFFICES ASSUME NEW k \in 1..Len(page)
               PROVE  \E e \in stored : e.key = key /\ e.revision = after + k /\ e.sequence = page[k][2]
    OBVIOUS
  <2>1. page[k] \in Pairs(stored, key)
    BY <1>5, <1>8
  <2>2. PICK e \in EventsOf(stored, key) : page[k] = <<e.revision, e.sequence>>
    BY <2>1 DEF Pairs
  <2>3. e.revision = after + k /\ e.sequence = page[k][2]
    BY <1>8, <2>2
  <2> QED
    BY <2>3 DEF EventsOf
<1>10. SequencesAt(stored, key, Members(page), after)
  <2>1. Len(Members(page)) = Len(page) /\ \A k \in 1..Len(page) : Members(page)[k] = page[k][2]
    BY <1>8, MembersAre
  <2>2. PICK t : t = Members(page)
    OBVIOUS
  <2>3. ASSUME NEW k \in 1..Len(t)
        PROVE  \E e \in stored : e.key = key /\ e.revision = after + k /\ e.sequence = t[k]
    <3>1. k \in 1..Len(page) /\ t[k] = page[k][2]
      BY <2>1, <2>2
    <3> QED
      BY <1>9, <3>1
  <2>4. SequencesAt(stored, key, t, after)
    BY <2>3 DEF SequencesAt
  <2> QED
    BY <2>2, <2>4
<1>11. ASSUME Len(page) # PageSize
       PROVE  Covers(stored, index, key, o.asOf, after + Len(page))
  <2>1. CASE ix = {}
    BY <1>4, <2>1 DEF Covers
  <2>2. CASE n = m
    <3>1. after + Len(page) >= m
      BY <1>6, <1>8, <1>11, <2>2
    <3>2. ASSUME NEW e \in stored, e.key = key
          PROVE  e.revision <= after + Len(page)
      <4>1. e.revision \in {d.revision : d \in EventsOf(stored, key)}
        BY <3>2 DEF EventsOf
      <4>2. e.revision \in 1..m
        BY <1>3, <4>1 DEF Numbers
      <4> QED
        BY <1>6, <1>8, <3>1, <4>2
    <3> QED
      BY <3>2 DEF Covers
  <2> QED
    BY <1>5, <2>1, <2>2
<1> QED
  BY <1>1, <1>6, <1>8, <1>10, <1>11 DEF PageFound

(* The hashes of sequences that are in an index, those evicted empty. *)
LEMMA StreamHashes ==
    ASSUME DbInv, NEW o, Formed(o), o.operation = "load", HashesAsked(stored, index, o),
           NEW evs, evs = [k \in DOMAIN o.command.sequences |->
                             IF o.command.sequences[k] \in DOMAIN hashes
                             THEN hashes[o.command.sequences[k]]
                             ELSE Event(0, 0, Global, 0, 0)]
    PROVE  HashesFound(stored, o.command.sequences, evs)
<1>1. PICK seqs \in Seq(Nat) : seqs = o.sequences
  BY KeyIs
<1>2. PICK chunk \in Seq(Nat) : chunk = o.command.sequences
  BY <1>1, ChunkIs DEF HashesAsked
<1>3. DOMAIN evs = 1..Len(chunk) /\ Len(evs) = Len(chunk)
  BY <1>2
<1>4. \A s \in DOMAIN hashes : hashes[s] \in stored /\ hashes[s].sequence = s
  BY DEF DbInv, HashesOK
<1>5. ASSUME NEW k \in 1..Len(evs), evs[k].sequence # 0
      PROVE  evs[k] \in stored /\ evs[k].sequence = chunk[k]
  <2>1. evs[k] = IF chunk[k] \in DOMAIN hashes THEN hashes[chunk[k]] ELSE Event(0, 0, Global, 0, 0)
    BY <1>2, <1>3
  <2>2. Event(0, 0, Global, 0, 0).sequence = 0
    BY DEF Event
  <2>3. chunk[k] \in DOMAIN hashes
    BY <1>5, <2>1, <2>2
  <2> QED
    BY <1>4, <2>1, <2>3
<1> QED
  BY <1>2, <1>5 DEF HashesFound

(* The reply to a load. *)
LEMMA LoadReply ==
    ASSUME DbInv, NEW o, Formed(o), o.pc = "read", LoadOK(stored, index, o, <<>>),
           NEW r, r = ReplyTo(o.command)
    PROVE  LoadOK(stored, index, o, <<r>>)
<1> SUFFICES ASSUME o.operation = "load" PROVE LoadOK(stored, index, o, <<r>>)
  BY DEF LoadOK
<1>1. o.command.kind \in {"page", "hashes"} /\ InFlight(o)
  BY KindsAre DEF Formed, CallShape, InFlight
<1>2. CASE r.outcome # "ok"
  <2>1. Head(<<r>>).outcome # "ok"
    BY <1>2
  <2> QED
    BY <2>1 DEF LoadOK
<1>3. CASE r.outcome = "ok"
  <2>1. Known(o.command)
    BY <1>3 DEF ReplyTo, Reply
  <2>2. CASE o.command.kind = "page"
    <3>1. r.value = Page(index[o.command.key], o.command.after, o.command.limit)
      BY <2>1, <2>2 DEF ReplyTo, Reply
    <3>2. PageAsked(stored, o)
      BY <1>1, <2>2 DEF LoadOK
    <3>3. PageFound(stored, index, o, r.value)
      BY <3>1, <3>2, StreamPage
    <3>4. Head(<<r>>) = r
      OBVIOUS
    <3> QED
      BY <2>2, <3>3, <3>4 DEF LoadOK
  <2>3. CASE o.command.kind = "hashes"
    <3>1. r.value = [k \in DOMAIN o.command.sequences |->
                             IF o.command.sequences[k] \in DOMAIN hashes
                             THEN hashes[o.command.sequences[k]]
                             ELSE Event(0, 0, Global, 0, 0)]
      BY <2>1, <2>3 DEF ReplyTo, Reply
    <3>2. HashesAsked(stored, index, o)
      BY <1>1, <2>3 DEF LoadOK
    <3>3. HashesFound(stored, o.command.sequences, r.value)
      BY <3>1, <3>2, StreamHashes
    <3>4. Head(<<r>>) = r
      OBVIOUS
    <3> QED
      BY <2>3, <3>3, <3>4 DEF LoadOK
  <2> QED
    BY <1>1, <2>2, <2>3
<1> QED
  BY <1>2, <1>3

(* The caller whose command runs gets the reply to it. *)
LEMMA ExecuteReader ==
    ASSUME NetInv, NEW c \in Connections, Execute(c), NEW m, m = Head(requests[c]),
           NEW v \in Callers, call[v].connection = c, call[v].pc = "read"
    PROVE  call[v].command = m /\ replies[c] = <<>> /\ replies'[c] = <<ReplyTo(m)>>
<1>1. Holds(call[v])
  BY DEF Holds
<1>2. status[c] # "dropped"
  BY <1>1, HolderIs DEF HeldOK
<1>3. requests[c] # <<>>
  BY DEF Execute
<1>4. PICK w \in Callers : /\ status[c] = "open" /\ replies[c] = <<>> /\ Holds(call[w])
                           /\ call[w].connection = c /\ call[w].command = m
  BY <1>2, <1>3, ExecutedCommand
<1>5. v = w
  BY <1>1, <1>4 DEF NetInv
<1>6. replies'[c] = Append(replies[c], ReplyTo(m))
  BY <1>4, TypesHold DEF Execute
<1> QED
  BY <1>4, <1>5, <1>6

LEMMA ExecuteLoad ==
    ASSUME NetInv, DbInv, DbInv', LoadInv, NEW c \in Connections, Execute(c)
    PROVE  LoadInv'
<1>1. PICK m : m = Head(requests[c])
  OBVIOUS
<1>2. CommandShape(m) /\ Effect(m) /\ UNCHANGED <<evictions, delivered, call>>
  BY <1>1, ExecutedCommand DEF Execute
<1>0. PICK q \in Nat : q = seq
  BY DEF DbInv
<1>3. PICK S, T, I, J : S = stored /\ T = stored' /\ I = index /\ J = index'
  OBVIOUS
<1>4. Extends(T, J, S, I, q) /\ seq' >= q /\ seq' \in Nat /\ \A e \in T : e.sequence \in Nat
  <2>1. Extends(T, J, S, I, q) /\ seq' >= q
    BY <1>0, <1>2, <1>3, EffectExtends
  <2>2. seq' \in Nat /\ StoredOK(T, seq')
    BY <1>0, <1>3 DEF DbInv
  <2> QED
    BY <2>1, <2>2 DEF StoredOK
<1> SUFFICES ASSUME NEW v \in Callers
             PROVE  /\ LoadOK(T, J, call[v], replies'[call[v].connection])
                    /\ call[v].operation = "load" => call[v].asOf <= seq'
  BY <1>2, <1>3 DEF LoadInv
<1>5. PICK o : o = call[v]
  OBVIOUS
<1>6. /\ Formed(o) /\ LoadOK(S, I, o, replies[o.connection])
      /\ o.operation = "load" => o.asOf <= q /\ o.asOf \in Nat
  BY <1>0, <1>3, <1>5, HolderIs, KeyIs DEF LoadInv
<1>7. PICK p : p = replies'[o.connection]
  OBVIOUS
<1>8. LoadOK(S, I, o, p)
  <2>1. CASE o.pc = "read" /\ o.connection = c
    <3>1. o.command = m /\ replies[c] = <<>> /\ p = <<ReplyTo(m)>>
      BY <1>1, <1>5, <1>7, <2>1, ExecuteReader
    <3>2. PICK r : r = ReplyTo(o.command)
      OBVIOUS
    <3>3. LoadOK(stored, index, o, <<r>>)
      BY <1>3, <1>6, <2>1, <3>1, <3>2, LoadReply
    <3> QED
      BY <1>3, <3>1, <3>2, <3>3
  <2>2. CASE o.pc = "read" /\ o.connection # c
    BY <1>5, <1>6, <1>7, <2>2, ExecuteOthers
  <2>3. CASE o.pc # "read"
    BY <1>6, <2>3 DEF LoadOK
  <2> QED
    BY <2>1, <2>2, <2>3
<1>9. LoadOK(T, J, o, p)
  BY <1>4, <1>6, <1>8, LoadGrows
<1> QED
  BY <1>4, <1>5, <1>6, <1>7, <1>9

LEMMA EvictLoad ==
    ASSUME NetInv, DbInv, LoadInv, Evict
    PROVE  LoadInv'
<1>1. UNCHANGED <<call, replies>>
  BY DEF Evict, network
<1>0. PICK q \in Nat : q = seq
  BY DEF DbInv
<1>2. PICK S, I, J : S = stored /\ I = index /\ J = index'
  OBVIOUS
<1>3. stored' = S /\ seq' = q
  BY <1>0, <1>2 DEF Evict
<1>4. Extends(S, J, S, I, q) /\ \A e \in S : e.sequence \in Nat
  BY <1>0, <1>2, <1>3, EvictExtends DEF DbInv, StoredOK
<1> SUFFICES ASSUME NEW v \in Callers
             PROVE  /\ LoadOK(S, J, call[v], replies[call[v].connection])
                    /\ call[v].operation = "load" => call[v].asOf <= q
  BY <1>1, <1>2, <1>3 DEF LoadInv
<1>5. PICK o, p : o = call[v] /\ p = replies[o.connection]
  OBVIOUS
<1>6. Formed(o) /\ LoadOK(S, I, o, p) /\ (o.operation = "load" => o.asOf <= q)
  BY <1>0, <1>2, <1>5, HolderIs DEF LoadInv
<1>7. LoadOK(S, J, o, p)
  BY <1>4, <1>6, LoadGrows
<1> QED
  BY <1>5, <1>6, <1>7

LEMMA UnchangedLoad ==
    ASSUME LoadInv, UNCHANGED <<call, stored, index, seq, replies>>
    PROVE  LoadInv'
  BY DEF LoadInv

LEMMA InitLoad ==
    ASSUME Init
    PROVE  LoadInv
<1>1. \A w \in Callers : call[w].operation = "none"
  BY DEF Init, Idle
<1> QED
  BY <1>1 DEF LoadInv, LoadOK

LEMMA StepLoad ==
    ASSUME RedisInv, RedisInv', LoadInv, [Next]_vars
    PROVE  LoadInv'
<1>1. NetInv /\ DbInv /\ DbInv' /\ setup \in Setups /\ appends \in Nat
  BY DEF RedisInv, AppendInv
<1>2. ASSUME NEW w \in Callers, Invoke(w) \/ Step(w)
      PROVE  LoadInv'
  BY <1>1, <1>2, CallerLoad
<1>3. ASSUME NEW c \in Connections, Execute(c)
      PROVE  LoadInv'
  BY <1>1, <1>3, ExecuteLoad
<1>4. ASSUME NEW c \in Connections, LoseRequest(c) \/ CloseConnection(c)
      PROVE  LoadInv'
  <2>1. UNCHANGED <<call, stored, index, seq, replies>>
    BY <1>4 DEF LoseRequest, CloseConnection, keyspace
  <2> QED
    BY <2>1, UnchangedLoad
<1>5. CASE FlushScripts \/ UNCHANGED vars
  <2>1. UNCHANGED <<call, stored, index, seq, replies>>
    BY <1>5 DEF FlushScripts, vars, keyspace, network
  <2> QED
    BY <2>1, UnchangedLoad
<1>6. CASE Evict
  BY <1>1, <1>6, EvictLoad
<1> QED
  BY <1>2, <1>3, <1>4, <1>5, <1>6 DEF Next

(* A load that has its answer shows every event that is not hidden. *)
LEMMA NothingMissed ==
    ASSUME DbInv, NEW o, Formed(o), o.operation = "load", TriedCurrent(stored, index, o),
           LoadDone(stored, index, o), NEW e \in stored, e.key[1] = o.id, e.sequence <= o.asOf,
           ~HiddenByAppend(e), ~HiddenByEviction(e)
    PROVE  \E k \in DOMAIN o.events : o.events[k] = e
<1>1. /\ StoredOK(stored, seq) /\ e.key \in StreamKeys
      /\ StreamOK(stored, e.key, revision[e.key], index[e.key], evictions)
  BY DEF DbInv, StoredOK
<1>2. PICK n \in Nat : {d.revision : d \in EventsOf(stored, e.key)} = 1..n
  BY <1>1 DEF StreamOK
<1>3. e.revision \in 1..n
  <2>1. e.revision \in {d.revision : d \in EventsOf(stored, e.key)}
    BY DEF EventsOf
  <2> QED
    BY <1>2, <2>1
<1>4. o.events \in Seq(EventRecord) /\ o.lookup \in {1, 2} /\ o.id \in Ids
  BY KeyIs
<1>5. e.key = <<o.id, "current">> \/ e.key = <<o.id, "legacy">>
  BY <1>1 DEF StreamKeys
<1>6. e.key = KeyOf(o)
  <2>1. CASE o.lookup = 1 /\ e.key = <<o.id, "legacy">>
    <3>1. PICK d : d = o.events[1]
      OBVIOUS
    <3>2. 1 \in 1..Len(o.events)
      BY <1>4, <2>1 DEF LoadDone
    <3>3. d \in stored /\ d.key = <<o.id, "current">>
      BY <2>1, <3>1, <3>2, KeyIs DEF LoadDone, EventsAt
    <3> QED
      BY <2>1, <3>3 DEF HiddenByAppend
  <2>2. CASE o.lookup = 2 /\ e.key = <<o.id, "current">>
    BY <1>3, <2>2 DEF TriedCurrent, Covers, HiddenByEviction
  <2> QED
    BY <1>4, <1>5, <2>1, <2>2, KeyIs
<1>7. e.revision <= Len(o.events)
  BY <1>6 DEF LoadDone, Covers, HiddenByEviction
<1>8. PICK k \in 1..Len(o.events) : k = e.revision
  BY <1>3, <1>4, <1>7
<1>9. o.events[k] \in stored /\ o.events[k].key = e.key /\ o.events[k].revision = e.revision
  BY <1>6, <1>8 DEF LoadDone, EventsAt
<1>10. o.events[k] = e
  BY <1>1, <1>9 DEF StoredOK
<1> QED
  BY <1>4, <1>8, <1>10

(* load (load_indexed_sequences and load_sequence_hashes) reads a stream   *)
(* in pages and chunks of any size while appends commit and keys are       *)
(* evicted in between: what it returns is one encoding of the id from its  *)
(* first revision without a gap, and it misses no event that was stored    *)
(* when it was called but a legacy one that an append under the current    *)
(* encoding hides and those of a stream whose index was evicted.           *)
THEOREM LoadsReadWholeStreams == Spec => []LoadsAreWhole
<1>1. Init => LoadInv
  BY InitLoad
<1>2. RedisInv /\ RedisInv' /\ LoadInv /\ [Next]_vars => LoadInv'
  BY StepLoad
<1>3. RedisInv /\ LoadInv => LoadsAreWhole
  <2> SUFFICES ASSUME RedisInv, LoadInv, NEW w \in Callers, NEW o, o = call[w],
                      o.operation = "load", o.answer = "ok"
               PROVE  /\ \A k \in DOMAIN o.events : o.events[k].revision = k
                      /\ \A j, k \in DOMAIN o.events : o.events[j].key = o.events[k].key
                      /\ \A e \in stored :
                            e.key[1] = o.id /\ e.sequence <= o.asOf =>
                               \/ \E k \in DOMAIN o.events : o.events[k] = e
                               \/ HiddenByAppend(e)
                               \/ HiddenByEviction(e)
    BY DEF LoadsAreWhole
  <2>1. Formed(o) /\ DbInv
    BY HolderIs DEF RedisInv
  <2>2. LoadDone(stored, index, o) /\ TriedCurrent(stored, index, o)
    BY DEF LoadInv, LoadOK
  <2>3. o.events \in Seq(EventRecord)
    BY <2>1, KeyIs
  <2>4. DOMAIN o.events = 1..Len(o.events)
    BY <2>3
  <2>5. /\ \A k \in DOMAIN o.events : o.events[k].revision = k
        /\ \A j, k \in DOMAIN o.events : o.events[j].key = o.events[k].key
    BY <2>2, <2>4 DEF LoadDone, EventsAt
  <2> QED
    BY <2>1, <2>2, <2>5, NothingMissed
<1> QED
  BY <1>1, <1>2, <1>3, RedisInvariant, PTL DEF Spec

-------------------------------------------------------------------------------
(* The feeds.  What a projection has applied only grows. *)
LEMMA PollGrows ==
    ASSUME NEW D, NEW E, D \in SUBSET E, NEW o, NEW p, PollOK(D, o, p)
    PROVE  PollOK(E, o, p)
<1>1. \A n : Upto(D, n) => Upto(E, n)
  BY DEF Upto
<1>2. FeedPage(D, o) => FeedPage(E, o)
  BY <1>1 DEF FeedPage
<1>3. FeedHashes(D, o) => FeedHashes(E, o)
  BY <1>1 DEF FeedHashes
<1>4. FeedReady(D, o) => FeedReady(E, o)
  BY <1>1 DEF FeedReady
<1>5. \A value : FeedReply(D, o, value) => FeedReply(E, o, value)
  BY <1>1 DEF FeedReply
<1> QED
  BY <1>1, <1>2, <1>3, <1>4, <1>5 DEF PollOK

PollJudged(D, x) == \A p : PollOK(D, x, p)

LEMMA PollJudgedIs ==
    ASSUME NEW D, NEW x, x.pc # "read",
           x.operation = "poll" =>
              /\ InFlight(x) /\ x.command.kind = "load_checkpoint" =>
                    x.command.feed = x.feed /\ x.sequences = <<>> /\ x.events = <<>>
              /\ InFlight(x) /\ x.command.kind = "page" => FeedPage(D, x)
              /\ InFlight(x) /\ x.command.kind = "hashes" => FeedHashes(D, x)
              /\ x.pc = "apply" => FeedReady(D, x)
              /\ InFlight(x) /\ x.command.kind = "save_checkpoint" =>
                    x.command.feed = x.feed /\ Upto(D, x.command.after)
    PROVE  PollJudged(D, x)
  BY DEF PollJudged, PollOK

LEMMA PollAskedAgain ==
    ASSUME NEW D, NEW o, NEW p, PollOK(D, o, p), InFlight(o), NEW x, x.operation = o.operation,
           x.feed = o.feed, InFlight(x), SameQuestion(x.command, o.command), SameLists(x, o),
           NEW q, x.pc = "read" => q = <<>>
    PROVE  PollOK(D, x, q)
<1> SUFFICES ASSUME x.operation = "poll" PROVE PollOK(D, x, q)
  BY DEF PollOK
<1>1. /\ o.command.kind = "load_checkpoint" =>
            o.command.feed = o.feed /\ o.sequences = <<>> /\ o.events = <<>>
      /\ o.command.kind = "page" => FeedPage(D, o)
      /\ o.command.kind = "hashes" => FeedHashes(D, o)
      /\ o.command.kind = "save_checkpoint" => o.command.feed = o.feed /\ Upto(D, o.command.after)
  BY DEF PollOK
<1>2. FeedPage(D, o) => FeedPage(D, x)
  BY DEF FeedPage, SameQuestion, SameLists
<1>3. FeedHashes(D, o) => FeedHashes(D, x)
  BY DEF FeedHashes, SameQuestion, SameLists
<1> QED
  BY <1>1, <1>2, <1>3 DEF PollOK, SameQuestion, SameLists, InFlight

LEMMA ConsecutiveJoin ==
    ASSUME NEW s \in Seq(Nat), NEW t \in Seq(Nat), NEW base \in Nat,
           Consecutive(s, base), \A j \in 1..Len(t) : t[j] = base + Len(s) + j
    PROVE  Consecutive(s \o t, base)
<1> SUFFICES ASSUME NEW k \in 1..Len(s \o t) PROVE (s \o t)[k] = base + k
  BY DEF Consecutive
<1>1. Len(s \o t) = Len(s) + Len(t) /\ Len(s) \in Nat /\ Len(t) \in Nat
  OBVIOUS
<1>2. CASE k <= Len(s)
  <2>1. (s \o t)[k] = s[k] /\ k \in 1..Len(s)
    BY <1>1, <1>2
  <2> QED
    BY <2>1 DEF Consecutive
<1>3. CASE k > Len(s)
  <2>0. k - Len(s) \in 1..Len(t) /\ k = Len(s) + (k - Len(s))
    BY <1>1, <1>3
  <2>1. PICK j \in 1..Len(t) : j = k - Len(s) /\ k = Len(s) + j
    BY <2>0
  <2>2. (s \o t)[k] = t[j]
    BY <1>1, <1>3, <2>1
  <2> QED
    BY <1>1, <2>1, <2>2
<1> QED
  BY <1>1, <1>2, <1>3

LEMMA ConsecutiveEventsJoin ==
    ASSUME NEW s \in Seq(EventRecord), NEW t \in Seq(EventRecord), NEW base \in Nat,
           ConsecutiveEvents(s, base), \A j \in 1..Len(t) : t[j].sequence = base + Len(s) + j
    PROVE  ConsecutiveEvents(s \o t, base)
<1> SUFFICES ASSUME NEW k \in 1..Len(s \o t) PROVE (s \o t)[k].sequence = base + k
  BY DEF ConsecutiveEvents
<1>1. Len(s \o t) = Len(s) + Len(t) /\ Len(s) \in Nat /\ Len(t) \in Nat
  OBVIOUS
<1>2. CASE k <= Len(s)
  <2>1. (s \o t)[k] = s[k] /\ k \in 1..Len(s)
    BY <1>1, <1>2
  <2> QED
    BY <2>1 DEF ConsecutiveEvents
<1>3. CASE k > Len(s)
  <2>0. k - Len(s) \in 1..Len(t) /\ k = Len(s) + (k - Len(s))
    BY <1>1, <1>3
  <2>1. PICK j \in 1..Len(t) : j = k - Len(s) /\ k = Len(s) + j
    BY <2>0
  <2>2. (s \o t)[k] = t[j]
    BY <1>1, <1>3, <2>1
  <2> QED
    BY <1>1, <2>1, <2>2
<1> QED
  BY <1>1, <1>2, <1>3

(* What a poll does after a page. *)
LEMMA PollAfterPage ==
    ASSUME NEW D, NEW o, Formed(o), o.operation = "poll", o.command.kind = "page",
           FeedPage(D, o), NEW page \in Seq(Nat \X Nat), FeedReply(D, o, page),
           NEW x, x = AfterPage(o, page)
    PROVE  PollJudged(D, x)
<1>1. /\ o \in CallRecord /\ o.command.limit > 0 /\ o.sequences \in Seq(Nat) /\ o.events = <<>>
      /\ o.command.key = Global
  BY DEF Formed, CallShape, CallRecord, CommandShape, FeedPage
<1>2. PICK read \in CallRecord : PageNext(o, page, read, x)
  BY <1>1, AfterPageIs
<1>3. PICK base \in Nat : /\ Upto(D, base) /\ Consecutive(o.sequences, base)
                          /\ o.command.after = base + Len(o.sequences)
  BY DEF FeedPage
<1>4. \A k \in 1..Len(page) : page[k][1] = o.command.after + k /\ page[k][2] = o.command.after + k
  BY DEF FeedReply
<1>5. PICK s, t \in Seq(Nat) : /\ s = o.sequences /\ t = Members(page) /\ Len(t) = Len(page)
                               /\ \A k \in 1..Len(page) : t[k] = page[k][2]
  BY <1>1, MembersAre
<1>6. PICK a, b \in Nat : a = Len(s) /\ b = Len(t)
  OBVIOUS
<1>7. /\ read.sequences = s \o t /\ Consecutive(s \o t, base) /\ Len(s \o t) = a + b
      /\ s \o t \in Seq(Nat)
  <2>1. \A j \in 1..Len(t) : t[j] = base + Len(s) + j
    BY <1>3, <1>4, <1>5
  <2>2. Consecutive(s \o t, base)
    BY <1>3, <1>5, <2>1, ConsecutiveJoin
  <2>3. read.sequences = s \o t
    BY <1>2, <1>5 DEF PageNext
  <2>4. Len(s \o t) = Len(s) + Len(t) /\ s \o t \in Seq(Nat)
    BY ConcatProperties
  <2> QED
    BY <1>6, <2>2, <2>3, <2>4
<1>8. CASE WantsMore(o, page)
  <2>1. /\ SameCall(x, o) /\ x.pc = "take" /\ x.sequences = s \o t /\ x.events = <<>>
        /\ x.command.kind = "page" /\ x.command.key = Global
        /\ Len(page) > 0 /\ x.command.after = page[Len(page)][1]
    BY <1>1, <1>2, <1>7, <1>8 DEF PageNext
  <2>2. Len(page) \in 1..Len(page)
    BY <2>1
  <2>3. x.command.after = base + (a + b)
    <3>1. x.command.after = o.command.after + Len(page)
      BY <1>4, <2>1, <2>2
    <3>2. o.command.after = base + a /\ Len(page) = b
      BY <1>3, <1>5, <1>6
    <3> QED
      BY <3>1, <3>2
  <2>4. FeedPage(D, x)
    BY <1>3, <1>7, <2>1, <2>3 DEF FeedPage
  <2> QED
    BY <2>1, <2>4, PollJudgedIs
<1>9. CASE ~WantsMore(o, page) /\ read.sequences = <<>>
  <2>1. x = Loaded(read) /\ read.operation = "poll" /\ read.events = <<>>
    BY <1>1, <1>2, <1>9 DEF PageNext, SameCall
  <2>2. ~TriesLegacy(read) /\ ~HasPage(read)
    BY <2>1 DEF TriesLegacy, HasPage
  <2>3. x.pc = "done"
    BY <2>1, <2>2, LoadedIs
  <2> QED
    BY <2>3, PollJudgedIs DEF InFlight
<1>10. CASE ~WantsMore(o, page) /\ read.sequences # <<>>
  <2>1. x = FetchHashes(read) /\ read.events = <<>>
    BY <1>1, <1>2, <1>10 DEF PageNext
  <2>2. /\ x.pc = "take" /\ x.sequences = read.sequences /\ x.events = <<>>
        /\ x.command.kind = "hashes" /\ x.command.sequences = Chunk(read.sequences)
    BY <2>1, FetchIs
  <2>3. ConsecutiveEvents(<<>>, base) /\ base + Len(<<>>) = base
    BY DEF ConsecutiveEvents
  <2>4. FeedHashes(D, x)
    BY <1>3, <1>7, <1>10, <2>2, <2>3 DEF FeedHashes
  <2> QED
    BY <2>2, <2>4, PollJudgedIs
<1> QED
  BY <1>8, <1>9, <1>10

(* What a poll does with the hashes of a chunk. *)
LEMMA PollAfterHashes ==
    ASSUME NEW D, NEW o, Formed(o), o.operation = "poll", o.command.kind = "hashes",
           FeedHashes(D, o), NEW evs \in Seq(EventRecord), FeedReply(D, o, evs),
           Len(evs) = Len(o.command.sequences), NEW x, x = AfterHashes(o, evs)
    PROVE  PollJudged(D, x)
<1>1. /\ o \in CallRecord /\ o.sequences \in Seq(Nat) /\ o.events \in Seq(EventRecord)
  BY DEF Formed, CallShape, CallRecord
<1>2. PICK read \in CallRecord : HashesNext(o, evs, read, x)
  BY <1>1, AfterHashesIs
<1>3. PICK base \in Nat : /\ Upto(D, base) /\ ConsecutiveEvents(o.events, base)
                          /\ Consecutive(o.sequences, base + Len(o.events))
  BY DEF FeedHashes
<1>4. PICK n, l, h \in Nat : n = Len(o.events) /\ l = Len(o.sequences) /\ h = Len(evs)
  BY <1>1
<1>5. h <= l /\ \A k \in 1..h : o.command.sequences[k] = o.sequences[k]
  <2>1. PICK seqs \in Seq(Nat) : seqs = o.sequences
    BY <1>1
  <2>2. /\ Len(Chunk(seqs)) <= Len(seqs)
        /\ \A k \in 1..Len(Chunk(seqs)) : Chunk(seqs)[k] = seqs[k]
    BY <2>1, ChunkIs
  <2> QED
    BY <1>4, <2>1, <2>2 DEF FeedHashes
<1>6. CASE Missing(evs)
  <2>1. x = Answer(o, "store_error")
    BY <1>2, <1>6 DEF HashesNext
  <2>2. x.pc = "done"
    BY <1>1, <2>1, AnswerIs DEF Answers
  <2> QED
    BY <2>2, PollJudgedIs DEF InFlight
<1>7. CASE ~Missing(evs)
  <2>1. \A j \in 1..h : evs[j].sequence = base + n + j
    <3> SUFFICES ASSUME NEW j \in 1..h PROVE evs[j].sequence = base + n + j
      OBVIOUS
    <3>1. evs[j].sequence # 0
      BY <1>4, <1>7 DEF Missing
    <3>2. evs[j].sequence = o.sequences[j]
      BY <1>4, <1>5, <3>1 DEF FeedReply
    <3>3. j \in 1..Len(o.sequences)
      BY <1>4, <1>5
    <3> QED
      BY <1>3, <1>4, <3>2, <3>3 DEF Consecutive
  <2>2. PICK s \in Seq(EventRecord) : s = o.events
    BY <1>1
  <2>3. ConsecutiveEvents(s \o evs, base) /\ read.events = s \o evs /\ Len(s \o evs) = n + h
    <3>1. \A j \in 1..Len(evs) : evs[j].sequence = base + Len(s) + j
      BY <1>4, <2>1, <2>2
    <3>2. ConsecutiveEvents(s \o evs, base)
      BY <1>3, <2>2, <3>1, ConsecutiveEventsJoin
    <3>3. Len(s \o evs) = Len(s) + Len(evs)
      BY ConcatProperties
    <3>4. read.events = s \o evs
      BY <1>2, <2>2 DEF HashesNext
    <3> QED
      BY <1>4, <2>2, <3>2, <3>3, <3>4
  <2>4. /\ Len(read.sequences) = l - h
        /\ \A k \in 1..Len(read.sequences) : read.sequences[k] = o.sequences[h + k]
    BY <1>2, <1>4, <1>5 DEF HashesNext
  <2>5. Consecutive(read.sequences, base + (n + h))
    <3> SUFFICES ASSUME NEW k \in 1..Len(read.sequences)
                 PROVE  read.sequences[k] = base + (n + h) + k
      BY DEF Consecutive
    <3>0. k \in 1..(l - h)
      BY <2>4
    <3>1. h + k \in 1..Len(o.sequences) /\ k \in Nat
      <4>1. k \in Nat /\ h + k \in 1..l
        BY <1>4, <1>5, <3>0
      <4> QED
        BY <1>4, <4>1
    <3>2. o.sequences[h + k] = (base + Len(o.events)) + (h + k)
      BY <1>3, <3>1 DEF Consecutive
    <3>3. (base + n) + (h + k) = base + (n + h) + k
      BY <3>1
    <3>4. read.sequences[k] = (base + n) + (h + k)
      BY <1>4, <2>4, <3>2
    <3> QED
      BY <3>3, <3>4
  <2>6. CASE read.sequences # <<>>
    <3>1. x = FetchHashes(read)
      BY <1>2, <1>7, <2>6 DEF HashesNext
    <3>2. /\ x.pc = "take" /\ x.sequences = read.sequences /\ x.events = s \o evs
          /\ x.command.kind = "hashes" /\ x.command.sequences = Chunk(read.sequences)
      BY <2>3, <3>1, FetchIs
    <3>3. FeedHashes(D, x)
      BY <1>3, <2>3, <2>5, <2>6, <3>2 DEF FeedHashes
    <3> QED
      BY <3>2, <3>3, PollJudgedIs
  <2>7. CASE read.sequences = <<>>
    <3>1. x = Loaded(read) /\ read.operation = "poll"
      BY <1>2, <1>7, <2>7 DEF HashesNext, SameCall
    <3>2. ~TriesLegacy(read)
      BY <3>1 DEF TriesLegacy
    <3>3. x.events = s \o evs /\ x.pc \in {"apply", "done"}
      BY <2>3, <3>1, <3>2, LoadedIs
    <3>4. FeedReady(D, x)
      BY <1>3, <2>3, <3>3 DEF FeedReady
    <3> QED
      BY <3>3, <3>4, PollJudgedIs DEF InFlight
  <2> QED
    BY <2>6, <2>7
<1> QED
  BY <1>6, <1>7

LEMMA PollGot ==
    ASSUME NEW D, NEW o, Formed(o), NEW r, PollOK(D, o, <<r>>), NEW x, Got(o, x, r)
    PROVE  PollJudged(D, x)
<1>1. /\ o \in CallRecord /\ o.command \in CommandRecord /\ InFlight(o) /\ o.pc = "read"
      /\ x.pc # "read" /\ x.operation = o.operation
  BY DEF Formed, CallShape, CommandShape, Got, InFlight, GoesOn
<1>2. CASE o.operation # "poll"
  BY <1>1, <1>2, PollJudgedIs
<1>3. CASE o.operation = "poll" /\ r.outcome = "noscript"
  <2>1. PICK m : m = [o.command EXCEPT !.eval = TRUE]
    OBVIOUS
  <2>2. m \in CommandRecord /\ SameQuestion(m, o.command)
    BY <1>1, <2>1, EvalIs
  <2>3. x = Send(o, m)
    BY <1>3, <2>1 DEF Got
  <2>4. x.feed = o.feed /\ SameLists(x, o) /\ x.command = m /\ InFlight(x)
    BY <1>1, <2>2, <2>3, SendIs DEF SameLists, InFlight
  <2>5. ASSUME NEW q PROVE PollOK(D, x, q)
    BY <1>1, <2>2, <2>4, PollAskedAgain
  <2> QED
    BY <2>5 DEF PollJudged
<1>4. CASE o.operation = "poll" /\ r.outcome # "noscript"
  <2>1. /\ o.command.kind \in {"load_checkpoint", "page", "hashes", "save_checkpoint"}
        /\ x = Continue(o, r) /\ ReplyShape(o.command, r) /\ o.feed \in Feeds /\ o.limit > 0
    BY <1>4, KindsAre DEF Got, Formed, CallShape
  <2>2. r.outcome = "ok" /\ Head(<<r>>) = r /\ <<r>> # <<>>
    BY <1>4, <2>1 DEF ReplyShape
  <2>3. FeedReply(D, o, r.value)
    BY <1>1, <1>4, <2>2 DEF PollOK
  <2>4. CASE o.command.kind = "load_checkpoint"
    <3>1. PICK base \in Nat : base = r.value[1] /\ Upto(D, base)
      <4>1. r.value \in Seq(Nat) /\ Len(r.value) = 1
        BY <1>4, <2>1, <2>4 DEF ReplyShape
      <4>2. r.value[1] \in Nat
        BY <4>1
      <4> QED
        BY <2>3, <2>4, <4>2 DEF FeedReply
    <3>2. PICK size \in Nat : size = NextPageSize(o, <<>>)
      BY <1>1, <1>4, <2>1, FirstPageSize
    <3>3. PICK m \in CommandRecord : /\ m = PageCommand(Global, base, size) /\ m.kind = "page"
                                     /\ m.key = Global /\ m.after = base
      BY KeysAre, CommandsAre
    <3>4. x = Send(o, m)
      BY <2>1, <2>4, <3>1, <3>2, <3>3 DEF Continue
    <3>5. /\ x.pc = "take" /\ x.command = m /\ x.sequences = <<>> /\ x.events = <<>>
      <4>1. o.sequences = <<>> /\ o.events = <<>>
        BY <1>1, <1>4, <2>4 DEF PollOK
      <4> QED
        BY <1>1, <3>4, <4>1, SendIs
    <3>6. Consecutive(<<>>, base) /\ base = base + Len(<<>>)
      BY DEF Consecutive
    <3>7. FeedPage(D, x)
      BY <3>1, <3>3, <3>5, <3>6 DEF FeedPage
    <3> QED
      BY <3>3, <3>5, <3>7, PollJudgedIs
  <2>5. CASE o.command.kind = "page"
    <3>1. x = AfterPage(o, r.value)
      BY <2>1, <2>5 DEF Continue
    <3>2. FeedPage(D, o)
      BY <1>1, <1>4, <2>5 DEF PollOK
    <3>3. PICK page \in Seq(Nat \X Nat) : page = r.value
      BY <1>4, <2>1, <2>5 DEF ReplyShape
    <3> QED
      BY <1>4, <2>3, <2>5, <3>1, <3>2, <3>3, PollAfterPage
  <2>6. CASE o.command.kind = "hashes"
    <3>1. x = AfterHashes(o, r.value)
      BY <2>1, <2>6 DEF Continue
    <3>2. FeedHashes(D, o)
      BY <1>1, <1>4, <2>6 DEF PollOK
    <3>3. PICK evs \in Seq(EventRecord) : evs = r.value /\ Len(evs) = Len(o.command.sequences)
      BY <1>4, <2>1, <2>6 DEF ReplyShape
    <3> QED
      BY <1>4, <2>3, <2>6, <3>1, <3>2, <3>3, PollAfterHashes
  <2>7. CASE o.command.kind = "save_checkpoint"
    <3>1. x = Answer(o, "ok")
      BY <2>1, <2>7 DEF Continue
    <3>2. x.pc = "done"
      BY <1>1, <3>1, AnswerIs DEF Answers
    <3> QED
      BY <3>2, PollJudgedIs DEF InFlight
  <2> QED
    BY <2>1, <2>4, <2>5, <2>6, <2>7
<1> QED
  BY <1>2, <1>3, <1>4

(* The projection applies its page before it saves the checkpoint. *)
Applied(D, evs) == D \cup {evs[k].sequence : k \in DOMAIN evs}

LEMMA AppliedUpto ==
    ASSUME NEW D, NEW evs \in Seq(EventRecord), NEW base \in Nat, Upto(D, base),
           ConsecutiveEvents(evs, base)
    PROVE  Upto(Applied(D, evs), base + Len(evs))
<1> SUFFICES ASSUME NEW n \in 1..(base + Len(evs)) PROVE n \in Applied(D, evs)
  BY DEF Upto
<1>1. Len(evs) \in Nat /\ DOMAIN evs = 1..Len(evs)
  OBVIOUS
<1>2. CASE n <= base
  <2>1. n \in 1..base
    BY <1>2
  <2> QED
    BY <2>1 DEF Upto, Applied
<1>3. CASE n > base
  <2>1. n - base \in 1..Len(evs) /\ n = base + (n - base)
    BY <1>1, <1>3
  <2>2. PICK k \in 1..Len(evs) : k = n - base /\ n = base + k
    BY <2>1
  <2>3. evs[k].sequence = n
    BY <2>2 DEF ConsecutiveEvents
  <2> QED
    BY <1>1, <2>3 DEF Applied
<1> QED
  BY <1>1, <1>2, <1>3

AppliesTo(o, x, D, E) ==
    \/ /\ LastSequence(o) \in Nat /\ x = Send(o, SaveCheckpoint(o.feed, LastSequence(o)))
       /\ E = Applied(D, o.events)
    \/ x = Answer(o, "decode_error") /\ E = D

LEMMA PollApplies ==
    ASSUME NEW D, NEW o, Formed(o), o.pc = "apply", NEW p, PollOK(D, o, p), NEW x, NEW E,
           AppliesTo(o, x, D, E)
    PROVE  PollJudged(E, x) /\ D \in SUBSET E /\ x.feed = o.feed
<1>1. /\ o \in CallRecord /\ o.operation = "poll" /\ o.events # <<>> /\ o.feed \in Feeds
      /\ o.events \in Seq(EventRecord) /\ FeedReady(D, o)
  BY DEF Formed, CallShape, CallRecord, PollOK
<1>2. CASE x = Answer(o, "decode_error") /\ E = D
  <2>1. x.pc = "done" /\ x.feed = o.feed
    BY <1>1, <1>2, AnswerIs DEF Answers
  <2>2. PollJudged(E, x)
    BY <2>1, PollJudgedIs DEF InFlight
  <2> QED
    BY <1>2, <2>1, <2>2
<1>3. CASE /\ LastSequence(o) \in Nat /\ x = Send(o, SaveCheckpoint(o.feed, LastSequence(o)))
           /\ E = Applied(D, o.events)
  <2>1. PICK base \in Nat : Upto(D, base) /\ ConsecutiveEvents(o.events, base)
    BY <1>1 DEF FeedReady
  <2>2. PICK evs \in Seq(EventRecord) : evs = o.events /\ Len(evs) \in 1..Len(evs)
    BY <1>1
  <2>3. LastSequence(o) = base + Len(evs)
    BY <2>1, <2>2 DEF LastSequence, ConsecutiveEvents
  <2>4. Upto(E, base + Len(evs))
    BY <1>3, <2>1, <2>2, AppliedUpto
  <2>5. PICK m \in CommandRecord :
           /\ m = SaveCheckpoint(o.feed, LastSequence(o)) /\ m.kind = "save_checkpoint"
           /\ m.feed = o.feed /\ m.after = LastSequence(o)
    BY <1>1, <1>3, CommandsAre
  <2>6. x.pc = "take" /\ x.command = m /\ x.feed = o.feed
    BY <1>1, <1>3, <2>5, SendIs
  <2>7. PollJudged(E, x)
    BY <2>3, <2>4, <2>5, <2>6, PollJudgedIs
  <2> QED
    BY <1>3, <2>6, <2>7 DEF Applied
<1> QED
  BY <1>2, <1>3 DEF AppliesTo

(* A poll stays with its feed. *)
LEMMA GotFeed ==
    ASSUME NEW o, Formed(o), o.operation = "poll", NEW r, NEW x, Got(o, x, r)
    PROVE  x.feed = o.feed
<1>1. o \in CallRecord /\ \A m : Send(o, m).feed = o.feed
  BY DEF Formed, CallShape, Send, CallRecord
<1>2. CASE r.outcome = "noscript"
  BY <1>1, <1>2 DEF Got
<1>3. CASE r.outcome # "noscript"
  <2>1. /\ o.command.kind \in {"load_checkpoint", "page", "hashes", "save_checkpoint"}
        /\ x = Continue(o, r) /\ ReplyShape(o.command, r) /\ CommandShape(o.command)
    BY <1>3, KindsAre DEF Got, Formed, CallShape
  <2>2. CASE o.command.kind = "load_checkpoint"
    <3>1. x = Send(o, PageCommand(Global, r.value[1], NextPageSize(o, <<>>)))
      BY <2>1, <2>2 DEF Continue
    <3> QED
      BY <1>1, <3>1
  <2>3. CASE o.command.kind = "page"
    <3>1. x = AfterPage(o, r.value) /\ o.command.limit > 0
      BY <2>1, <2>3 DEF Continue, CommandShape
    <3>2. PICK page \in Seq(Nat \X Nat) : page = r.value
      BY <1>3, <2>1, <2>3 DEF ReplyShape
    <3>3. PICK read \in CallRecord : PageNext(o, page, read, x)
      BY <1>1, <3>1, <3>2, AfterPageIs
    <3>4. read.feed = o.feed /\ read.operation = "poll"
      BY <3>3 DEF PageNext, SameCall
    <3>5. SameCall(x, o) \/ x = Loaded(read) \/ x = FetchHashes(read)
      BY <3>3 DEF PageNext
    <3> QED
      BY <3>4, <3>5, LoadedIs, FetchIs DEF SameCall
  <2>4. CASE o.command.kind = "hashes"
    <3>1. x = AfterHashes(o, r.value)
      BY <2>1, <2>4 DEF Continue
    <3>2. PICK evs \in Seq(EventRecord) : evs = r.value
      BY <1>3, <2>1, <2>4 DEF ReplyShape
    <3>3. PICK read \in CallRecord : HashesNext(o, evs, read, x)
      BY <1>1, <3>1, <3>2, AfterHashesIs
    <3>4. read.feed = o.feed /\ read.operation = "poll"
      BY <3>3 DEF HashesNext, SameCall
    <3>5. x = Answer(o, "store_error") \/ x = Loaded(read) \/ x = FetchHashes(read)
      BY <3>3 DEF HashesNext
    <3>6. x = Answer(o, "store_error") => x.feed = o.feed
      BY <1>1, AnswerIs DEF Answers
    <3> QED
      BY <3>4, <3>5, <3>6, LoadedIs, FetchIs DEF SameCall
  <2>5. CASE o.command.kind = "save_checkpoint"
    <3>1. x = Answer(o, "ok")
      BY <2>1, <2>5 DEF Continue
    <3> QED
      BY <1>1, <3>1, AnswerIs DEF Answers
  <2> QED
    BY <2>1, <2>2, <2>3, <2>4, <2>5
<1> QED
  BY <1>2, <1>3

FeedsGrow == \A feed \in Feeds : delivered[feed] \in SUBSET delivered'[feed]

LEMMA PollMoves ==
    ASSUME NetInv, DbInv, PollInv, NEW w \in Callers, NEW o, o = call[w], NEW x,
           StepsTo(w, o, x), Moves(o, x), NEW q, q = replies'[x.connection]
    PROVE  /\ FeedsGrow
           /\ x.operation = "poll" => PollOK(delivered'[x.feed], x, q)
<1>1. Formed(o) /\ Formed(x) /\ delivered \in [Feeds -> SUBSET Nat]
  BY HolderIs DEF StepsTo, DbInv
<1>2. CASE ~Applies(o, x)
  <2>1. delivered' = delivered
    BY <1>2 DEF Moves
  <2>2. FeedsGrow
    BY <2>1 DEF FeedsGrow
  <2> SUFFICES ASSUME x.operation = "poll"
               PROVE  PollOK(delivered[x.feed], x, q)
    BY <2>1, <2>2
  <2>3. CASE Kept(o, x)
    <3>1. /\ x.operation = o.operation /\ x.feed = o.feed /\ InFlight(x)
          /\ SameQuestion(x.command, o.command) /\ SameLists(x, o)
          /\ InFlight(o) /\ (x.pc = "read" => q = <<>>)
      BY <2>3 DEF Kept, SameData, SameCall, SameQuestion, SameLists, InFlight
    <3>2. PICK D, p : D = delivered[o.feed] /\ p = replies[o.connection]
      OBVIOUS
    <3>3. PollOK(D, o, p)
      BY <3>1, <3>2 DEF PollInv
    <3>4. PollOK(D, x, q)
      BY <3>1, <3>3, PollAskedAgain
    <3> QED
      BY <3>1, <3>2, <3>4
  <2>4. CASE GaveUp(o, x)
    BY <2>4 DEF GaveUp, PollOK, InFlight
  <2>5. ASSUME NEW r, Got(o, x, r)
        PROVE  PollOK(delivered[x.feed], x, q)
    <3>1. o.operation = "poll" /\ replies[o.connection] = <<r>>
      BY <2>5 DEF Got, GoesOn
    <3>2. PICK D : D = delivered[o.feed]
      OBVIOUS
    <3>3. PollOK(D, o, <<r>>)
      BY <3>1, <3>2 DEF PollInv
    <3>4. PollJudged(D, x) /\ x.feed = o.feed
      BY <1>1, <2>5, <3>1, <3>3, PollGot, GotFeed
    <3> QED
      BY <3>2, <3>4 DEF PollJudged
  <2>6. CASE x = Idle
    BY <2>6 DEF Idle
  <2>7. CASE Begins(x)
    <3>1. /\ x.pc = "take" /\ x.sequences = <<>> /\ x.events = <<>>
          /\ x.command.kind = "load_checkpoint" /\ x.command.feed = x.feed
      BY <2>7 DEF Begins, NewAppend, NewLoad, NewPoll
    <3> QED
      BY <3>1 DEF PollOK
  <2> QED
    BY <1>2, <2>3, <2>4, <2>5, <2>6, <2>7 DEF Moves
<1>3. CASE Applies(o, x)
  <2>1. o.pc = "apply" /\ o.operation = "poll" /\ o.feed \in Feeds
    BY <1>1, <1>3 DEF Applies, Formed, CallShape
  <2>2. PICK D, E, p : D = delivered[o.feed] /\ E = delivered'[o.feed] /\ p = replies[o.connection]
    OBVIOUS
  <2>3. PollOK(D, o, p)
    BY <2>1, <2>2 DEF PollInv
  <2>4. /\ AppliesTo(o, x, D, E)
        /\ \A feed \in Feeds \ {o.feed} : delivered'[feed] = delivered[feed]
    BY <1>1, <1>3, <2>1, <2>2 DEF Applies, AppliesTo, Applied
  <2>5. PollJudged(E, x) /\ D \in SUBSET E /\ x.feed = o.feed
    BY <1>1, <2>1, <2>3, <2>4, PollApplies
  <2>6. FeedsGrow
    BY <2>2, <2>4, <2>5 DEF FeedsGrow
  <2> QED
    BY <2>2, <2>5, <2>6 DEF PollJudged
<1> QED
  BY <1>2, <1>3

LEMMA CallerPoll ==
    ASSUME NetInv, DbInv, PollInv, setup \in Setups, appends \in Nat, NEW w \in Callers,
           Invoke(w) \/ Step(w)
    PROVE  PollInv'
<1>1. PICK o : o = call[w]
  OBVIOUS
<1>2. checkpoints' = checkpoints
  BY <1>1, CallerMoves DEF keyspace
<1>3. PICK x : StepsTo(w, o, x) /\ Moves(o, x)
  BY <1>1, CallerMoves
<1>4. PICK q : q = replies'[x.connection]
  OBVIOUS
<1>5. FeedsGrow /\ (x.operation = "poll" => PollOK(delivered'[x.feed], x, q))
  BY <1>1, <1>3, <1>4, PollMoves
<1>6. call' = [call EXCEPT ![w] = x] /\ call \in [Callers -> CallRecord] /\ OthersAfter(w)
      /\ DroppedAfter(o, x)
  BY <1>3, TypesHold DEF StepsTo
<1>7. \A feed \in Feeds : Upto(delivered'[feed], checkpoints'[feed])
  BY <1>2, <1>5 DEF PollInv, FeedsGrow, Upto
<1>8. ASSUME NEW v \in Callers, call'[v].operation = "poll"
      PROVE  PollOK(delivered'[call'[v].feed], call'[v], replies'[call'[v].connection])
  <2>1. CASE v = w
    BY <1>4, <1>5, <1>6, <1>8, <2>1
  <2>2. CASE v # w
    <3>1. call'[v] = call[v] /\ call[v].operation = "poll"
      BY <1>6, <1>8, <2>2
    <3>2. PICK D, E, u, p : /\ u = call[v] /\ D = delivered[u.feed] /\ E = delivered'[u.feed]
                            /\ p = replies[u.connection]
      OBVIOUS
    <3>3. PollOK(D, u, p) /\ u.feed \in Feeds
      BY <3>1, <3>2, HolderIs DEF PollInv, Formed, CallShape
    <3>4. PollOK(E, u, p)
      <4>1. D \in SUBSET E
        BY <1>5, <3>2, <3>3 DEF FeedsGrow
      <4> QED
        BY <3>3, <4>1, PollGrows
    <3>5. u.pc = "read" => replies'[u.connection] = p
      <4> SUFFICES ASSUME u.pc = "read" PROVE replies'[u.connection] = p
        OBVIOUS
      <4>1. Holds(call[v]) /\ call[v].connection \in Connections
        BY <3>2, HolderIs DEF Holds
      <4>2. HeldByOther(w, call[v].connection)
        BY <2>2, <4>1 DEF HeldByOther
      <4> QED
        BY <1>6, <3>2, <4>1, <4>2 DEF OthersAfter
    <3> QED
      BY <3>1, <3>2, <3>4, <3>5 DEF PollOK
  <2> QED
    BY <2>1, <2>2
<1>9. ASSUME NEW c \in Connections, status'[c] = "dropped", NEW m, m = Head(requests'[c]),
             m.kind = "save_checkpoint"
      PROVE  Upto(delivered'[m.feed], m.after)
  <2>1. m.feed \in Feeds /\ Upto(delivered[m.feed], m.after)
    <3>1. CASE status[c] = "dropped" /\ requests'[c] = requests[c]
      <4>1. CommandShape(m)
        BY <1>9, <3>1 DEF NetInv
      <4> QED
        BY <1>9, <3>1, <4>1 DEF PollInv, CommandShape
    <3>2. CASE DropsOwn(c, o, x)
      <4>1. /\ m = o.command /\ CommandShape(m) /\ o.pc = "read"
            /\ o.command.kind \in KindsOf(o.operation)
        BY <1>9, <3>2 DEF DropsOwn
      <4>2. o.operation = "poll"
        <5>1. o.operation \in {"none", "append", "load", "poll"}
          BY <1>1, HolderIs DEF Formed, CallShape, CallRecord
        <5> QED
          BY <1>9, <4>1, <5>1, KindsAre
      <4>3. PollOK(delivered[o.feed], o, replies[o.connection])
        BY <1>1, <4>2 DEF PollInv
      <4> QED
        BY <1>9, <4>1, <4>2, <4>3 DEF PollOK, InFlight, CommandShape
    <3> QED
      BY <1>6, <1>9, <3>1, <3>2 DEF DroppedAfter
  <2> QED
    BY <1>5, <2>1 DEF FeedsGrow, Upto
<1> QED
  BY <1>7, <1>8, <1>9 DEF PollInv

(* The page of the global index. *)
PairsAfter(page, after) == \A k \in 1..Len(page) : page[k][1] = after + k /\ page[k][2] = after + k

LEMMA GlobalPage ==
    ASSUME DbInv, NEW after \in Nat, NEW limit \in Nat, NEW page,
           page = Page(index[Global], after, limit)
    PROVE  PairsAfter(page, after)
<1>1. PICK n, ix : n \in Nat /\ n = seq /\ ix = Sequences(n) /\ index[Global] = ix
  BY DEF DbInv
<1>2. Sorted(ix, n)
  BY <1>1, SequencesAreSorted
<1>3. PageOf(page, ix, n, after, limit)
  BY <1>1, <1>2, PageIs
<1>4. \A p \in ix : p[2] = p[1]
  BY <1>1 DEF Sequences
<1> QED
  BY <1>3, <1>4 DEF PageOf, PairsAfter

(* The reply to a poll. *)
LEMMA PollReply ==
    ASSUME DbInv, NEW D, NEW o, Formed(o), o.pc = "read", PollOK(D, o, <<>>), o.operation = "poll",
           Upto(D, checkpoints[o.feed]), NEW r, r = ReplyTo(o.command)
    PROVE  PollOK(D, o, <<r>>)
<1>1. /\ o.command.kind \in {"load_checkpoint", "page", "hashes", "save_checkpoint"} /\ InFlight(o)
      /\ o.command \in CommandRecord
  BY KindsAre DEF Formed, CallShape, CommandShape, InFlight
<1>2. CASE r.outcome # "ok"
  <2>1. Head(<<r>>).outcome # "ok"
    BY <1>2
  <2> QED
    BY <2>1 DEF PollOK
<1>3. CASE r.outcome = "ok"
  <2>1. Known(o.command)
    BY <1>3 DEF ReplyTo, Reply
  <2>2. ASSUME o.command.kind = "load_checkpoint"
        PROVE  Upto(D, r.value[1])
    <3>1. o.command.feed = o.feed
      BY <1>1, <2>2 DEF PollOK
    <3>2. r.value = <<checkpoints[o.command.feed]>>
      BY <2>1, <2>2 DEF ReplyTo, Reply
    <3> QED
      BY <3>1, <3>2
  <2>3. ASSUME o.command.kind = "page", NEW k \in 1..Len(r.value)
        PROVE  r.value[k][1] = o.command.after + k /\ r.value[k][2] = o.command.after + k
    <3>1. o.command.key = Global
      BY <1>1, <2>3 DEF PollOK, FeedPage
    <3>2. r.value = Page(index[Global], o.command.after, o.command.limit)
      BY <2>1, <2>3, <3>1 DEF ReplyTo, Reply
    <3>3. PICK after, limit \in Nat : after = o.command.after /\ limit = o.command.limit
      BY <1>1 DEF CommandRecord
    <3>4. PICK page : page = r.value
      OBVIOUS
    <3>5. page = Page(index[Global], after, limit)
      BY <3>2, <3>3, <3>4
    <3>6. PairsAfter(page, after)
      BY <3>5, GlobalPage
    <3>7. k \in 1..Len(page)
      BY <2>3, <3>4
    <3>8. page[k][1] = after + k /\ page[k][2] = after + k
      BY <3>6, <3>7 DEF PairsAfter
    <3> QED
      BY <3>3, <3>4, <3>8
  <2>4. ASSUME o.command.kind = "hashes", NEW k \in 1..Len(r.value)
        PROVE  r.value[k].sequence \in {0, o.command.sequences[k]}
    <3>1. PICK seqs \in Seq(Nat) : seqs = o.command.sequences
      BY <1>1 DEF CommandRecord
    <3>2. r.value = [j \in DOMAIN seqs |-> IF seqs[j] \in DOMAIN hashes THEN hashes[seqs[j]]
                                           ELSE Event(0, 0, Global, 0, 0)]
      BY <2>1, <2>4, <3>1 DEF ReplyTo, Reply
    <3>3. Len(r.value) = Len(seqs) /\ k \in DOMAIN seqs
      BY <2>4, <3>1, <3>2
    <3>4. r.value[k] = IF seqs[k] \in DOMAIN hashes THEN hashes[seqs[k]]
                       ELSE Event(0, 0, Global, 0, 0)
      BY <3>2, <3>3
    <3>5. \A s \in DOMAIN hashes : hashes[s].sequence = s
      BY DEF DbInv, HashesOK
    <3>6. Event(0, 0, Global, 0, 0).sequence = 0
      BY DEF Event
    <3> QED
      BY <3>1, <3>4, <3>5, <3>6
  <2>5. FeedReply(D, o, r.value)
    BY <2>2, <2>3, <2>4 DEF FeedReply
  <2>6. Head(<<r>>) = r
    OBVIOUS
  <2> QED
    BY <2>5, <2>6 DEF PollOK
<1> QED
  BY <1>2, <1>3

(* The checkpoint that a command saves was applied. *)
LEMMA SavedIsApplied ==
    ASSUME NetInv, PollInv, NEW c \in Connections, requests[c] # <<>>, NEW m, m = Head(requests[c]),
           m.kind = "save_checkpoint"
    PROVE  m.feed \in Feeds /\ Upto(delivered[m.feed], m.after)
<1>1. CommandShape(m) /\ m.feed \in Feeds
  BY ExecutedCommand DEF CommandShape
<1>2. CASE status[c] = "dropped"
  BY <1>1, <1>2 DEF PollInv
<1>3. CASE status[c] # "dropped"
  <2>1. PICK w \in Callers : call[w].pc = "read" /\ call[w].command = m
    BY <1>3, ExecutedCommand
  <2>2. PICK o : o = call[w]
    OBVIOUS
  <2>3. /\ o.command.kind \in KindsOf(o.operation)
        /\ o.operation \in {"none", "append", "load", "poll"}
    BY <2>2, HolderIs DEF Formed, CallShape, CallRecord
  <2>4. o.operation = "poll" /\ InFlight(o)
    BY <2>1, <2>2, <2>3, KindsAre DEF InFlight
  <2>5. PollOK(delivered[o.feed], o, replies[o.connection])
    BY <2>2, <2>4 DEF PollInv
  <2> QED
    BY <1>1, <2>1, <2>2, <2>4, <2>5 DEF PollOK
<1> QED
  BY <1>2, <1>3

LEMMA ExecuteCheckpoints ==
    ASSUME NetInv, DbInv, PollInv, NEW c \in Connections, Execute(c)
    PROVE  \A feed \in Feeds : Upto(delivered[feed], checkpoints'[feed])
<1>1. PICK m : m = Head(requests[c])
  OBVIOUS
<1>2. Effect(m) /\ requests[c] # <<>> /\ checkpoints \in [Feeds -> Nat]
  BY <1>1 DEF Execute, DbInv
<1>3. \A feed \in Feeds : Upto(delivered[feed], checkpoints[feed])
  BY DEF PollInv
<1>4. CASE checkpoints' = checkpoints
  BY <1>3, <1>4
<1>5. CASE SaveScript(m) /\ m.kind = "save_checkpoint"
  <2>1. m.feed \in Feeds /\ Upto(delivered[m.feed], m.after) /\ m.after \in Nat
    BY <1>1, <1>2, <1>5, SavedIsApplied, ExecutedCommand DEF CommandShape, CommandRecord
  <2>2. PICK f \in Feeds, a \in Nat, b \in Nat : f = m.feed /\ a = checkpoints[f] /\ b = m.after
    BY <1>2, <2>1
  <2>3. Max({a, b}) \in {a, b}
    BY <2>2, MaxPair
  <2>4. /\ checkpoints'[f] = Max({a, b})
        /\ \A feed \in Feeds : feed # f => checkpoints'[feed] = checkpoints[feed]
    BY <1>2, <1>5, <2>2 DEF SaveScript
  <2> QED
    BY <1>3, <2>1, <2>2, <2>3, <2>4
<1> QED
  BY <1>2, <1>4, <1>5 DEF Effect

LEMMA ExecutePoll ==
    ASSUME NetInv, DbInv, PollInv, NEW c \in Connections, Execute(c)
    PROVE  PollInv'
<1>1. PICK m : m = Head(requests[c])
  OBVIOUS
<1>2. /\ UNCHANGED <<call, delivered>> /\ requests[c] # <<>>
      /\ \A b \in Connections \ {c} : requests'[b] = requests[b] /\ status'[b] = status[b]
      /\ status[c] = "dropped" => status'[c] = "free"
      /\ status[c] # "dropped" => status'[c] = status[c]
  BY TypesHold DEF Execute
<1>3. \A feed \in Feeds : Upto(delivered'[feed], checkpoints'[feed])
  BY <1>2, ExecuteCheckpoints
<1>4. ASSUME NEW v \in Callers, call[v].operation = "poll"
      PROVE  PollOK(delivered[call[v].feed], call[v], replies'[call[v].connection])
  <2>1. PICK o : o = call[v]
    OBVIOUS
  <2>2. PICK D : D = delivered[o.feed]
    OBVIOUS
  <2>3. Formed(o) /\ o.feed \in Feeds /\ o.operation = "poll"
    BY <1>4, <2>1, HolderIs DEF Formed, CallShape
  <2>4. PollOK(D, o, replies[o.connection]) /\ Upto(D, checkpoints[o.feed])
    BY <2>1, <2>2, <2>3 DEF PollInv
  <2>5. PICK p : p = replies'[o.connection]
    OBVIOUS
  <2>6. PollOK(D, o, p)
    <3>1. CASE o.pc = "read" /\ o.connection = c
      <4>1. o.command = m /\ replies[c] = <<>> /\ p = <<ReplyTo(m)>>
        BY <1>1, <2>1, <2>5, <3>1, ExecuteReader
      <4>2. PICK r : r = ReplyTo(o.command)
        OBVIOUS
      <4>3. PollOK(D, o, <<r>>)
        BY <2>3, <2>4, <3>1, <4>1, <4>2, PollReply
      <4> QED
        BY <4>1, <4>2, <4>3
    <3>2. CASE o.pc = "read" /\ o.connection # c
      BY <2>1, <2>4, <2>5, <3>2, ExecuteOthers
    <3>3. CASE o.pc # "read"
      BY <2>4, <3>3 DEF PollOK
    <3> QED
      BY <3>1, <3>2, <3>3
  <2> QED
    BY <2>1, <2>2, <2>5, <2>6
<1>5. ASSUME NEW b \in Connections, status'[b] = "dropped", NEW q, q = Head(requests'[b]),
             q.kind = "save_checkpoint"
      PROVE  Upto(delivered[q.feed], q.after)
  <2>1. b # c
    BY <1>2, <1>5
  <2>2. status[b] = "dropped" /\ requests'[b] = requests[b]
    BY <1>2, <1>5, <2>1
  <2> QED
    BY <1>5, <2>2 DEF PollInv
<1> QED
  BY <1>2, <1>3, <1>4, <1>5 DEF PollInv

(* What the server or the network does besides running a command. *)
LEMMA QuietPoll ==
    ASSUME PollInv, UNCHANGED <<call, checkpoints, delivered, replies>>,
           \A b \in Connections : status'[b] = "dropped" =>
              status[b] = "dropped" /\ requests'[b] = requests[b]
    PROVE  PollInv'
<1>1. ASSUME NEW b \in Connections, status'[b] = "dropped", NEW q, q = Head(requests'[b]),
             q.kind = "save_checkpoint"
      PROVE  Upto(delivered[q.feed], q.after)
  <2>1. status[b] = "dropped" /\ requests'[b] = requests[b]
    BY <1>1
  <2> QED
    BY <1>1, <2>1 DEF PollInv
<1>2. \A feed \in Feeds : Upto(delivered'[feed], checkpoints'[feed])
  BY DEF PollInv
<1>3. \A v \in Callers : call'[v].operation = "poll" =>
         PollOK(delivered'[call'[v].feed], call'[v], replies'[call'[v].connection])
  BY DEF PollInv
<1> QED
  BY <1>1, <1>2, <1>3 DEF PollInv

LEMMA InitPoll ==
    ASSUME Init
    PROVE  PollInv
<1>1. \A w \in Callers : call[w].operation = "none"
  BY DEF Init, Idle
<1>2. \A c \in Connections : status[c] = "free"
  BY DEF Init
<1>3. \A feed \in Feeds : checkpoints[feed] = 0
  BY DEF Init
<1> QED
  BY <1>1, <1>2, <1>3 DEF PollInv, Upto

LEMMA StepPoll ==
    ASSUME RedisInv, PollInv, [Next]_vars
    PROVE  PollInv'
<1>1. NetInv /\ DbInv /\ setup \in Setups /\ appends \in Nat
  BY DEF RedisInv, AppendInv
<1>2. ASSUME NEW w \in Callers, Invoke(w) \/ Step(w)
      PROVE  PollInv'
  BY <1>1, <1>2, CallerPoll
<1>3. ASSUME NEW c \in Connections, Execute(c)
      PROVE  PollInv'
  BY <1>1, <1>3, ExecutePoll
<1>4. ASSUME NEW c \in Connections, LoseRequest(c) \/ CloseConnection(c)
      PROVE  PollInv'
  <2>1. /\ UNCHANGED <<call, checkpoints, delivered, replies>>
        /\ \A b \in Connections : status'[b] = "dropped" =>
              status[b] = "dropped" /\ requests'[b] = requests[b]
    BY <1>1, <1>4, TypesHold DEF LoseRequest, CloseConnection, keyspace
  <2> QED
    BY <2>1, QuietPoll
<1>5. CASE FlushScripts \/ Evict \/ UNCHANGED vars
  <2>1. UNCHANGED <<call, checkpoints, delivered, replies>> /\ UNCHANGED <<status, requests>>
    BY <1>5 DEF FlushScripts, Evict, vars, keyspace, network
  <2>2. \A b \in Connections : status'[b] = "dropped" =>
           status[b] = "dropped" /\ requests'[b] = requests[b]
    BY <2>1
  <2> QED
    BY <2>1, <2>2, QuietPoll
<1> QED
  BY <1>2, <1>3, <1>4, <1>5 DEF Next

(* The feed (load_global_after) and the checkpoint store: CHECKPOINT_SAVE  *)
(* may run after its caller has timed out, be sent again, or follow the    *)
(* checkpoint of another poller of the same feed, and still no event of    *)
(* the store is at or behind a checkpoint and not applied.                 *)
THEOREM FeedsHaveNoGaps == Spec => []FeedHasNoGaps
<1>1. Init => PollInv
  BY InitPoll
<1>2. RedisInv /\ PollInv /\ [Next]_vars => PollInv'
  BY StepPoll
<1>3. RedisInv /\ PollInv => FeedHasNoGaps
  <2> SUFFICES ASSUME RedisInv, PollInv, NEW feed \in Feeds, NEW e \in stored,
                      e.sequence <= checkpoints[feed]
               PROVE  e.sequence \in delivered[feed]
    BY DEF FeedHasNoGaps
  <2>1. e.sequence \in 1..seq /\ seq \in Nat /\ checkpoints[feed] \in Nat
    BY DEF RedisInv, DbInv, StoredOK
  <2>2. Upto(delivered[feed], checkpoints[feed])
    BY DEF PollInv
  <2> QED
    BY <2>1, <2>2 DEF Upto
<1> QED
  BY <1>1, <1>2, <1>3, RedisInvariant, PTL DEF Spec
===============================================================================
