--------------------------- MODULE RedisEventStore ---------------------------
(***************************************************************************)
(* The Redis event store and checkpoint store (src/src/redis.rs) over the  *)
(* raw client of the same file.  The server is external: it runs a command *)
(* or a Lua script in one step, in order per connection, forgets cached    *)
(* scripts, closes idle connections and, wrongly configured, evicts keys.  *)
(*                                                                         *)
(* An operation of the store is one or more commands.  The client sends a  *)
(* command on its cached connection or on a new one; a connection belongs  *)
(* to one caller or to the cache.  A command that was written may run      *)
(* although its caller has given up on the reply.                          *)
(*                                                                         *)
(* An index is a sorted set of pairs <<score, member>>; the members are    *)
(* sequences, the scores of a stream's index its revisions.                *)
(***************************************************************************)
EXTENDS Integers, Sequences, FiniteSets, FiniteSetsExt

CONSTANTS
    Ids,            \* aggregates
    Types,          \* aggregate types that share the prefix
    TypeOf,         \* aggregate -> its type
    LegacyIds,      \* aggregates with an event under the legacy encoding of the id
    Callers,        \* tasks that share the client
    Setups,         \* deployments: the work of each caller, the aggregates and feeds it
                    \* touches and the bounds on its appends, faults and evictions
    PageSize,       \* SEQUENCE_PAGE_SIZE
    ChunkSize,      \* HASH_FETCH_CHUNK_SIZE
    MaxAppends,     \* bound on the number of appends
    MaxBatch,       \* bound on the events of one append
    MaxFaults,      \* bound on lost connections and timeouts
    Evictable       \* subset of {"revision", "index", "hash"}

ASSUME RedisAssumption ==
    /\ TypeOf \in [Ids -> Types]
    /\ LegacyIds \subseteq Ids /\ IsFiniteSet(LegacyIds) /\ Cardinality(LegacyIds) <= 1
    /\ IsFiniteSet(Callers)
    /\ Evictable \subseteq {"revision", "index", "hash"}
    /\ PageSize \in Nat \ {0}
    /\ ChunkSize \in Nat \ {0}
    /\ MaxAppends \in Nat
    /\ MaxBatch \in Nat
    /\ MaxFaults \in Nat
    /\ \A s \in Setups :
          /\ s.work \in [Callers -> {"none", "append", "load", "poll"}]
          /\ s.ids \subseteq Ids
          /\ s.feeds \subseteq Types \cup {"raw"}
          /\ s.appends \in 0..MaxAppends
          /\ s.faults \in 0..MaxFaults
          /\ s.evictions \in Nat

(* One per caller, one in the cache, and those a caller gave up on. *)
Connections == 1..(Cardinality(Callers) + MaxFaults + 1)

VARIABLES
    setup,          \* the deployment
    revision,       \* stream key -> counter, 0 for no key
    index,          \* index key -> sorted set
    hashes,         \* sequence -> event hash, for the hashes that exist
    seq,            \* the sequence counter
    scripts,        \* scripts the server has cached
    checkpoints,    \* feed -> saved checkpoint, 0 for none
    stored,         \* history: every event an append script wrote
    requests,       \* connection -> commands on their way to the server
    replies,        \* connection -> replies on their way back
    status,         \* connection -> "free", "open", "closed" or "dropped"
    cached,         \* cached_connection, 0 for none
    call,           \* caller -> its operation
    appends,        \* appends invoked so far
    faults,         \* lost connections and timeouts so far
    evictions,      \* evicted keys so far
    delivered       \* feed -> sequences its projection has applied

keyspace == <<revision, index, hashes, seq, scripts, checkpoints, stored>>
network == <<requests, replies, status, cached>>
vars == <<setup, keyspace, network, call, appends, faults, evictions, delivered>>

-------------------------------------------------------------------------------
(* aggregate_id_lookup_keys: the encodings of an id, the current one first. *)
LookupKeys(id) == <<<<id, "current">>, <<id, "legacy">>>>
StreamKeys == Ids \X {"current", "legacy"}
Global == <<"global", "index">>
Feeds == Types \cup {"raw"}

AnyRevision == [kind |-> "any", revision |-> 0]
NoStream == [kind |-> "no_stream", revision |-> 0]
Exact(r) == [kind |-> "exact", revision |-> r]

(* A hash, and the append it was written by with its number of events. *)
Event(append, count, key, rev, sequence) ==
    [append |-> append, count |-> count, key |-> key, revision |-> rev, sequence |-> sequence]

(* ZRANGEBYSCORE, exclusive of `after`, the first `limit` pairs by score. *)
Page(sorted_set, after, limit) ==
    LET above == {pair \in sorted_set : pair[1] > after}
        rank(pair) == Cardinality({p \in above : p[1] <= pair[1]})
    IN  [k \in 1..Min({limit, Cardinality(above)}) |-> CHOOSE pair \in above : rank(pair) = k]

(* A command; `script` says that it is a Lua script sent as EVALSHA, and   *)
(* `eval` that it is sent again as EVAL.                                   *)
Command(kind, script) == [kind |-> kind, script |-> script, eval |-> FALSE, key |-> Global,
                          after |-> 0, limit |-> 0, sequences |-> <<>>, append |-> 0,
                          expected |-> AnyRevision, feed |-> "none"]

AppendCommand(append, id, expected, count) ==
    [Command("append", TRUE) EXCEPT !.append = append, !.key = <<id, "current">>,
                                    !.expected = expected, !.limit = count]
PageCommand(key, after, limit) ==
    [Command("page", FALSE) EXCEPT !.key = key, !.after = after, !.limit = limit]
HashesCommand(sequences) == [Command("hashes", TRUE) EXCEPT !.sequences = sequences]
LoadCheckpoint(feed) == [Command("load_checkpoint", FALSE) EXCEPT !.feed = feed]
SaveCheckpoint(feed, sequence) ==
    [Command("save_checkpoint", TRUE) EXCEPT !.feed = feed, !.after = sequence]

Idle == [pc |-> "idle", operation |-> "none", command |-> Command("none", FALSE),
         connection |-> 0, reused |-> FALSE, id |-> "none", lookup |-> 1, feed |-> "none",
         limit |-> 0, sequences |-> <<>>, events |-> <<>>, asOf |-> 0, answer |-> "none"]

-------------------------------------------------------------------------------
LegacyKeys == LegacyIds \X {"legacy"}

Init ==
    /\ setup \in Setups
    /\ revision = [key \in StreamKeys |-> IF key \in LegacyKeys THEN 1 ELSE 0]
    /\ index = [key \in StreamKeys \cup {Global} |->
                   IF LegacyIds # {} /\ key \in LegacyKeys \cup {Global} THEN {<<1, 1>>} ELSE {}]
    /\ hashes = [s \in 1..Cardinality(LegacyIds) |-> Event(0, 1, CHOOSE key \in LegacyKeys : TRUE, 1, 1)]
    /\ seq = Cardinality(LegacyIds)
    /\ stored = {Event(0, 1, key, 1, 1) : key \in LegacyKeys}
    /\ scripts = {}
    /\ checkpoints = [feed \in Feeds |-> 0]
    /\ requests = [c \in Connections |-> <<>>]
    /\ replies = [c \in Connections |-> <<>>]
    /\ status = [c \in Connections |-> "free"]
    /\ cached = 0
    /\ call = [w \in Callers |-> Idle]
    /\ appends = 0
    /\ faults = 0
    /\ evictions = 0
    /\ delivered = [feed \in Feeds |-> {}]

-------------------------------------------------------------------------------
(* The server. *)

ExpectationFails(command) ==
    \/ command.expected.kind = "no_stream" /\ revision[command.key] # 0
    \/ command.expected.kind = "exact" /\ revision[command.key] # command.expected.revision

(* APPEND_LUA up to its first write. *)
AppendOutcome(command) ==
    CASE Cardinality(index[command.key]) # revision[command.key] -> "inconsistent_state"
      [] Cardinality(index[command.key]) = revision[command.key] /\ ExpectationFails(command) ->
            "concurrency_error"
      [] OTHER -> "ok"

NewEvents(command) ==
    [k \in 1..command.limit |->
        Event(command.append, command.limit, command.key, revision[command.key] + k, seq + k)]

(* APPEND_LUA: hashes, both indices and both counters. *)
AppendScript(command) ==
    LET new == NewEvents(command)
        last == seq + command.limit
    IN  /\ hashes' = [s \in DOMAIN hashes \cup (seq + 1)..last |->
                         IF s \in (seq + 1)..last THEN new[s - seq] ELSE hashes[s]]
        /\ index' = [index EXCEPT
              ![command.key] = @ \cup {<<new[k].revision, new[k].sequence>> : k \in DOMAIN new},
              ![Global] = @ \cup {<<new[k].sequence, new[k].sequence>> : k \in DOMAIN new}]
        /\ revision' = [revision EXCEPT ![command.key] = @ + command.limit]
        /\ seq' = last
        /\ stored' = stored \cup {new[k] : k \in DOMAIN new}

(* CHECKPOINT_SAVE_LUA only moves a checkpoint forward. *)
SaveScript(command) ==
    checkpoints' = [checkpoints EXCEPT ![command.feed] = Max({@, command.after})]

Reply(outcome, value) == [outcome |-> outcome, value |-> value]

Known(command) == command.eval \/ ~command.script \/ command.kind \in scripts

(* What the server answers, and what the command changes. *)
ReplyTo(command) ==
    CASE ~Known(command) -> Reply("noscript", <<>>)
      [] Known(command) /\ command.kind = "append" ->
            Reply(AppendOutcome(command),
                  IF AppendOutcome(command) = "ok" THEN NewEvents(command) ELSE <<>>)
      [] Known(command) /\ command.kind = "page" ->
            Reply("ok", Page(index[command.key], command.after, command.limit))
      [] Known(command) /\ command.kind = "hashes" ->
            Reply("ok", [k \in DOMAIN command.sequences |->
                            IF command.sequences[k] \in DOMAIN hashes
                            THEN hashes[command.sequences[k]]
                            ELSE Event(0, 0, Global, 0, 0)])
      [] Known(command) /\ command.kind = "load_checkpoint" ->
            Reply("ok", <<checkpoints[command.feed]>>)
      [] OTHER -> Reply("ok", <<>>)

Effect(command) ==
    /\ IF Known(command) /\ command.kind = "append" /\ AppendOutcome(command) = "ok"
       THEN AppendScript(command)
       ELSE UNCHANGED <<revision, index, hashes, seq, stored>>
    /\ IF Known(command) /\ command.kind = "save_checkpoint"
       THEN SaveScript(command)
       ELSE UNCHANGED checkpoints
    /\ scripts' = IF command.eval THEN scripts \cup {command.kind} ELSE scripts

(* The next command of a connection runs, whether or not its caller still  *)
(* listens.                                                                *)
Execute(c) ==
    /\ requests[c] # <<>>
    /\ Effect(Head(requests[c]))
    /\ requests' = [requests EXCEPT ![c] = Tail(@)]
    /\ replies' = IF status[c] = "open"
                  THEN [replies EXCEPT ![c] = Append(@, ReplyTo(Head(requests[c])))]
                  ELSE replies
    /\ status' = IF status[c] = "dropped" THEN [status EXCEPT ![c] = "free"] ELSE status
    /\ UNCHANGED <<setup, cached, call, appends, faults, evictions, delivered>>

(* What was in flight on a dropped connection is lost. *)
LoseRequest(c) ==
    /\ status[c] = "dropped"
    /\ requests' = [requests EXCEPT ![c] = <<>>]
    /\ status' = [status EXCEPT ![c] = "free"]
    /\ UNCHANGED <<setup, keyspace, replies, cached, call, appends, faults, evictions, delivered>>

Faulty == faults < setup.faults /\ faults' = faults + 1

(* The server closes a connection, idle or with a command it has not run. *)
CloseConnection(c) ==
    /\ Faulty
    /\ status[c] = "open"
    /\ status' = [status EXCEPT ![c] = "closed"]
    /\ requests' = [requests EXCEPT ![c] = <<>>]
    /\ UNCHANGED <<setup, keyspace, replies, cached, call, appends, evictions, delivered>>

(* SCRIPT FLUSH, or a restart that keeps the data. *)
FlushScripts ==
    /\ Faulty
    /\ scripts # {}
    /\ scripts' = {}
    /\ UNCHANGED <<setup, revision, index, hashes, seq, checkpoints, stored, network, call, appends,
                   evictions, delivered>>

(* maxmemory evicts one key of the store; a stream does not lose both its  *)
(* counter and its index, which no script could tell from a new one.       *)
Evict ==
    /\ evictions < setup.evictions
    /\ evictions' = evictions + 1
    /\ \/ \E key \in StreamKeys :
             /\ "revision" \in Evictable
             /\ index[key] # {}
             /\ revision' = [revision EXCEPT ![key] = 0]
             /\ UNCHANGED <<index, hashes>>
       \/ \E key \in StreamKeys :
             /\ "index" \in Evictable
             /\ revision[key] # 0
             /\ index' = [index EXCEPT ![key] = {}]
             /\ UNCHANGED <<revision, hashes>>
       \/ \E s \in DOMAIN hashes :
             /\ "hash" \in Evictable
             /\ hashes' = [t \in DOMAIN hashes \ {s} |-> hashes[t]]
             /\ UNCHANGED <<revision, index>>
    /\ UNCHANGED <<setup, seq, scripts, checkpoints, stored, network, call, appends, faults, delivered>>

-------------------------------------------------------------------------------
(* The client. *)

Send(operation, command) == [operation EXCEPT !.command = command, !.pc = "take"]
Answer(operation, answer) == [operation EXCEPT !.answer = answer, !.pc = "done"]

(* Connections given up: what was written on them may still run. *)
Drop(dropped) ==
    [c \in Connections |->
        IF c \notin dropped THEN status[c]
        ELSE IF requests[c] = <<>> THEN "free" ELSE "dropped"]

(* The numbers of connections suffice: only a fault drops one with a       *)
(* command on it.                                                          *)
CanConnect == \E c \in Connections : status[c] = "free"
Fresh == CHOOSE c \in Connections : status[c] = "free"

(* cached_connection_is_reusable: nothing to read and no end of stream. *)
Healthy == cached # 0 /\ status[cached] = "open" /\ replies[cached] = <<>>

(* take_cached_connection, else open_reader.  The probe does not see a     *)
(* close that is still on its way, and some runtimes cannot probe.         *)
TakeConnection(w) ==
    /\ call[w].pc = "take"
    /\ \/ /\ cached # 0
          /\ replies[cached] = <<>>
          /\ call' = [call EXCEPT ![w].connection = cached, ![w].reused = TRUE, ![w].pc = "write"]
          /\ UNCHANGED <<replies, status>>
       \/ /\ ~Healthy
          /\ CanConnect
          /\ call' = [call EXCEPT ![w].connection = Fresh, ![w].reused = FALSE, ![w].pc = "write"]
          /\ replies' = [replies EXCEPT ![Fresh] = <<>>]
          /\ status' = [Drop({cached}) EXCEPT ![Fresh] = "open"]
    /\ cached' = 0
    /\ UNCHANGED <<setup, keyspace, requests, appends, faults, evictions, delivered>>

(* The command is written; towards a closed peer it is lost. *)
Write(w) ==
    /\ call[w].pc = "write"
    /\ call' = [call EXCEPT ![w].pc = "read"]
    /\ requests' = IF status[call[w].connection] # "open" THEN requests
                   ELSE [requests EXCEPT ![call[w].connection] = Append(@, call[w].command)]
    /\ UNCHANGED <<setup, keyspace, replies, status, cached, appends, faults, evictions, delivered>>

ConnectionFails(c) ==
    \/ status[c] = "closed" /\ UNCHANGED faults
    \/ status[c] = "open" /\ Faulty

(* A write that fails left an incomplete command, which never runs: on a   *)
(* reused connection the command is tried again on a new one.              *)
WriteFails(w) ==
    LET c == call[w].connection
    IN  /\ call[w].pc = "write"
        /\ ConnectionFails(c)
        /\ IF call[w].reused
           THEN /\ CanConnect
                /\ call' = [call EXCEPT ![w].connection = Fresh, ![w].reused = FALSE]
                /\ replies' = [replies EXCEPT ![Fresh] = <<>>]
                /\ status' = [Drop({c}) EXCEPT ![Fresh] = "open"]
           ELSE /\ call' = [call EXCEPT ![w] = Answer(@, "store_error")]
                /\ status' = Drop({c})
                /\ UNCHANGED replies
        /\ UNCHANGED <<setup, keyspace, requests, cached, appends, evictions, delivered>>

(* Mutant: any failure on a reused connection is tried again. *)
MutReadFails(w) ==
    LET c == call[w].connection
    IN  /\ call[w].pc = "read"
        /\ replies[c] = <<>>
        /\ ConnectionFails(c)
        /\ status' = Drop({c})
        /\ call' = [call EXCEPT ![w] = IF call[w].reused THEN Send(@, call[w].command)
                                       ELSE Answer(@, "store_error")]
        /\ UNCHANGED <<setup, keyspace, requests, replies, cached, appends, evictions, delivered>>

(* Mutant: a connection is cached also after a timeout. *)
MutKeepConnection(w) ==
    LET c == call[w].connection
    IN  /\ call[w].pc = "read"
        /\ replies[c] = <<>>
        /\ ConnectionFails(c)
        /\ status' = IF cached = 0 THEN status ELSE Drop({cached})
        /\ cached' = c
        /\ call' = [call EXCEPT ![w] = Answer(@, "store_error")]
        /\ UNCHANGED <<setup, keyspace, requests, replies, appends, evictions, delivered>>

(* The reply does not come: the connection is dropped and the caller gets  *)
(* an error, because the command may have run.                             *)
ReadFails(w) ==
    LET c == call[w].connection
    IN  /\ call[w].pc = "read"
        /\ replies[c] = <<>>
        /\ ConnectionFails(c)
        /\ status' = Drop({c})
        /\ call' = [call EXCEPT ![w] = Answer(@, "store_error")]
        /\ UNCHANGED <<setup, keyspace, requests, replies, cached, appends, evictions, delivered>>

-------------------------------------------------------------------------------
(* The store: what an operation does with a reply. *)

(* load_sequence_hashes, the next chunk. *)
FetchHashes(operation) ==
    Send(operation, HashesCommand(SubSeq(operation.sequences, 1,
                                         Min({ChunkSize, Len(operation.sequences)}))))

(* Another encoding of the id is tried only when this one had no events. *)
Loaded(operation) ==
    CASE operation.operation = "load" /\ operation.events = <<>> /\ operation.lookup = 1 ->
            Send([operation EXCEPT !.lookup = 2], PageCommand(LookupKeys(operation.id)[2], 0, PageSize))
      [] operation.operation = "poll" /\ operation.events # <<>> ->
            [operation EXCEPT !.pc = "apply"]
      [] OTHER -> Answer(operation, "ok")

NextPageSize(operation, sequences) ==
    IF operation.operation = "load" THEN PageSize
    ELSE Min({PageSize, operation.limit - Len(sequences)})

(* Mutant: the cursor is the last member instead of its score. *)
MutCursorAfter(page) == page[Len(page)][2]

CursorAfter(page) == page[Len(page)][1]

(* load_indexed_sequences: a full page is followed by another one. *)
AfterPage(operation, page) ==
    LET sequences == operation.sequences \o [k \in DOMAIN page |-> page[k][2]]
        read == [operation EXCEPT !.sequences = sequences]
        full == Len(page) = operation.command.limit
    IN  CASE full /\ NextPageSize(read, sequences) > 0 ->
                Send(read, PageCommand(operation.command.key, CursorAfter(page),
                                       NextPageSize(read, sequences)))
          [] ~(full /\ NextPageSize(read, sequences) > 0) /\ sequences = <<>> -> Loaded(read)
          [] OTHER -> FetchHashes(read)

(* unpack_flat_hash_batch: an indexed event without a hash is an error. *)
AfterHashes(operation, events) ==
    LET rest == SubSeq(operation.sequences, Len(events) + 1, Len(operation.sequences))
        read == [operation EXCEPT !.events = @ \o events, !.sequences = rest]
    IN  CASE \E k \in DOMAIN events : events[k].sequence = 0 -> Answer(operation, "store_error")
          [] (\A k \in DOMAIN events : events[k].sequence # 0) /\ rest # <<>> -> FetchHashes(read)
          [] OTHER -> Loaded(read)

Continue(operation, reply) ==
    CASE operation.command.kind = "append" ->
            Answer([operation EXCEPT !.events = reply.value], reply.outcome)
      [] operation.command.kind = "page" -> AfterPage(operation, reply.value)
      [] operation.command.kind = "hashes" -> AfterHashes(operation, reply.value)
      [] operation.command.kind = "load_checkpoint" ->
            Send(operation, PageCommand(Global, reply.value[1], NextPageSize(operation, <<>>)))
      [] operation.command.kind = "save_checkpoint" -> Answer(operation, "ok")

(* A reply: NOSCRIPT is an error reply, whose connection is not cached and *)
(* whose script is sent as EVAL; after any other reply the connection      *)
(* replaces the cached one, unless bytes are left on it.                   *)
Read(w) ==
    LET c == call[w].connection
        reply == Head(replies[c])
    IN  /\ call[w].pc = "read"
        /\ replies[c] # <<>>
        /\ replies' = [replies EXCEPT ![c] = Tail(@)]
        /\ IF reply.outcome = "noscript" \/ Tail(replies[c]) # <<>>
           THEN status' = Drop({c}) /\ UNCHANGED cached
           ELSE status' = Drop({cached}) /\ cached' = c
        /\ call' = [call EXCEPT ![w] =
                       IF reply.outcome = "noscript"
                       THEN Send(@, [call[w].command EXCEPT !.eval = TRUE])
                       ELSE Continue(@, reply)]
        /\ UNCHANGED <<setup, keyspace, requests, appends, faults, evictions, delivered>>

(* hash_to_envelope of every event of the page: the typed feed does not    *)
(* skip the other types of the prefix.  It does not compare the type       *)
(* either: an event of another one is an error only if its id or payload   *)
(* does not deserialize.                                                   *)
OwnType(operation) ==
    \/ operation.feed = "raw"
    \/ \A k \in DOMAIN operation.events : TypeOf[operation.events[k].key[1]] = operation.feed

(* Mutant: the checkpoint is the newest sequence instead of the last one read. *)
MutLastSequence(operation) == seq

LastSequence(operation) == operation.events[Len(operation.events)].sequence

(* The projection applies a page and saves its checkpoint. *)
Apply(w) ==
    /\ call[w].pc = "apply"
    /\ \/ /\ delivered' = [delivered EXCEPT ![call[w].feed] =
                                @ \cup {call[w].events[k].sequence : k \in DOMAIN call[w].events}]
          /\ call' = [call EXCEPT ![w] = Send(@, SaveCheckpoint(@.feed, LastSequence(@)))]
       \/ /\ ~OwnType(call[w])
          /\ call' = [call EXCEPT ![w] = Answer(@, "decode_error")]
          /\ UNCHANGED delivered
    /\ UNCHANGED <<setup, keyspace, network, appends, faults, evictions>>

-------------------------------------------------------------------------------
(* `asOf` is history: the newest sequence when a load is called. *)
Invoke(w) ==
    /\ call[w].pc = "idle"
    /\ \/ /\ setup.work[w] = "append"
          /\ appends < setup.appends
          /\ appends' = appends + 1
          /\ \E id \in setup.ids, n \in 1..MaxBatch,
                expected \in {AnyRevision, NoStream} \cup {Exact(r) : r \in 1..MaxAppends} :
                call' = [call EXCEPT ![w] =
                   Send([Idle EXCEPT !.operation = "append", !.id = id],
                        AppendCommand(appends', id, expected, n))]
       \/ /\ setup.work[w] = "load"
          /\ \E id \in setup.ids :
                call' = [call EXCEPT ![w] =
                   Send([Idle EXCEPT !.operation = "load", !.id = id, !.asOf = seq],
                        PageCommand(LookupKeys(id)[1], 0, PageSize))]
          /\ UNCHANGED appends
       \/ /\ setup.work[w] = "poll"
          /\ \E feed \in setup.feeds, limit \in 1..2 :
                call' = [call EXCEPT ![w] =
                   Send([Idle EXCEPT !.operation = "poll", !.feed = feed, !.limit = limit],
                        LoadCheckpoint(feed))]
          /\ UNCHANGED appends
    /\ UNCHANGED <<setup, keyspace, network, faults, evictions, delivered>>

Return(w) ==
    /\ call[w].pc = "done"
    /\ call' = [call EXCEPT ![w] = Idle]
    /\ UNCHANGED <<setup, keyspace, network, appends, faults, evictions, delivered>>

Step(w) ==
    \/ TakeConnection(w)
    \/ Write(w)
    \/ WriteFails(w)
    \/ Read(w)
    \/ ReadFails(w)
    \/ Apply(w)
    \/ Return(w)

Next ==
    \/ \E w \in Callers : Invoke(w) \/ Step(w)
    \/ \E c \in Connections : Execute(c) \/ LoseRequest(c) \/ CloseConnection(c)
    \/ FlushScripts
    \/ Evict

Spec == Init /\ [][Next]_vars

-------------------------------------------------------------------------------
(* Appends take effect at most once and streams stay linear, although      *)
(* commands are sent again after a failed write and after NOSCRIPT, run    *)
(* after their caller has given up, and find a stream whose counter or     *)
(* index was evicted: no revision is ever written twice under a key, and   *)
(* an append writes its events together or not at all.  A stream is what   *)
(* is under one key: append counts under the current encoding of the id    *)
(* only, so an aggregate that has a legacy event gets its revision 1 a     *)
(* second time (aggregate_id_lookup_keys and append, keys[0]).             *)
AppendsTakeEffectOnce ==
    /\ \A d, e \in stored : d.key = e.key /\ d.revision = e.revision => d = e
    /\ \A d, e \in stored : d.sequence = e.sequence => d = e
    /\ \A d \in stored : Cardinality({e \in stored : e.append = d.append}) = d.count

(* A caller is told the fate of its own append: Ok comes with events that  *)
(* were written for it, and a concurrency error means that none were.  A   *)
(* reply to an earlier command on the same connection never reaches it.    *)
AnswersAreOwn ==
    \A w \in Callers :
       call[w].operation = "append" /\ call[w].pc = "done" =>
          LET written == {e \in stored : e.append = call[w].command.append}
          IN  /\ call[w].answer = "ok" =>
                    /\ {call[w].events[k] : k \in DOMAIN call[w].events} = written
                    /\ Cardinality(written) = call[w].command.limit
              /\ call[w].answer \in {"concurrency_error", "inconsistent_state"} => written = {}

(* The two ways in which a stored event escapes load.  It takes the first  *)
(* encoding of the id that has events, and append writes under the current *)
(* one only: from the first append on, a legacy event is hidden.  And a    *)
(* stream whose index was evicted looks empty, or ends early, to load.     *)
HiddenByAppend(e) ==
    e.key[2] = "legacy" /\ \E d \in stored : d.key = <<e.key[1], "current">>
HiddenByEviction(e) == index[e.key] = {}

(* "Loads all events for one aggregate stream", as far as the code keeps   *)
(* it: a load of several round trips returns events of one key, from the   *)
(* first revision on and without a gap, and of the events stored under     *)
(* either encoding when it was called it misses none but those hidden by   *)
(* an append or an eviction, however many appends and evictions happen     *)
(* between its pages.  A load that finds an event hash evicted fails.      *)
LoadsAreWhole ==
    \A w \in Callers :
       call[w].operation = "load" /\ call[w].answer = "ok" =>
          /\ \A k \in DOMAIN call[w].events : call[w].events[k].revision = k
          /\ \A j, k \in DOMAIN call[w].events : call[w].events[j].key = call[w].events[k].key
          /\ \A e \in stored :
                e.key[1] = call[w].id /\ e.sequence <= call[w].asOf =>
                   \/ \E k \in DOMAIN call[w].events : call[w].events[k] = e
                   \/ HiddenByAppend(e)
                   \/ HiddenByEviction(e)

(* Sequences become visible in their order, so no event appears behind a   *)
(* checkpoint: what is at or before it was delivered to its projection.    *)
FeedHasNoGaps ==
    \A feed \in Feeds : \A e \in stored :
       e.sequence <= checkpoints[feed] => e.sequence \in delivered[feed]
===============================================================================
