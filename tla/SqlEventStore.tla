---------------------------- MODULE SqlEventStore ----------------------------
(***************************************************************************)
(* The SQL event stores (src/src/postgres.rs, src/src/mysql.rs and         *)
(* src/src/sqlite.rs over src/src/sql_common.rs) under concurrent          *)
(* transactions: append, the crash-atomic append_idempotent, the command   *)
(* paths that use them (execute and execute_idempotent_atomic of           *)
(* src/src/repository.rs), the single retry of ConnectionPool::write, the  *)
(* attempts of the SQLite append, and a projection that polls the feed.    *)
(*                                                                         *)
(* The databases are external and modelled by what the code relies on.     *)
(* Each statement is one step; a transaction's rows are invisible until it *)
(* commits and gone when it does not.  PostgreSQL (READ COMMITTED) and     *)
(* MySQL (REPEATABLE READ: what a transaction selects is as old as its     *)
(* first SELECT) let transactions overlap: an INSERT whose unique key is   *)
(* taken by an open transaction waits for that transaction to end, one     *)
(* whose key is committed fails, and sequences are drawn at INSERT and     *)
(* never taken back; MySQL may end a wait with an error.  SQLite has one   *)
(* writer, from BEGIN IMMEDIATE to COMMIT: the others wait, or give up     *)
(* after busy_timeout.                                                     *)
(*                                                                         *)
(* The id of a row is stored as plain text ("current") or, by old          *)
(* releases, as quoted JSON ("legacy").  A call appends one event.  A key  *)
(* names a request for Target[key]; a call without idempotency has NoKey.  *)
(***************************************************************************)
EXTENDS Integers, Sequences, FiniteSets, FiniteSetsExt

CONSTANTS
    Ids,            \* aggregates
    Keys,           \* idempotency keys
    Writers,        \* threads that execute commands, each with its connection
    Target,         \* key -> aggregate its command addresses
    Accepts(_, _),  \* (keys executed on the aggregate, key) -> does handle accept
    Setups,         \* deployments: the dialect, the ids in use and those with a
                    \* legacy event, the command paths, whether a projection runs,
                    \* and the bounds on calls and faults
    MaxPolls,       \* polls of a pending key before the wait times out
    MaxAttempts     \* MAX_APPEND_ATTEMPTS of the SQLite append

NoKey == "none"

ASSUME SqlAssumption ==
    /\ NoKey \notin Keys
    /\ Target \in [Keys -> Ids]
    /\ \A s \in Setups :
          /\ s.dialect \in {"postgres", "mysql", "sqlite"}
          /\ s.ids \subseteq Ids
          /\ s.legacy \subseteq s.ids /\ IsFiniteSet(s.legacy) /\ Cardinality(s.legacy) <= 1
          /\ s.paths \subseteq {"execute", "append_any", "idempotent"}
          /\ s.projection \in BOOLEAN
          /\ s.calls \in Nat
          /\ s.faults \in Nat
    /\ MaxPolls \in Nat
    /\ MaxAttempts \in Nat \ {0, 1}

VARIABLES
    setup,          \* the deployment
    events,         \* committed rows of the events table
    idempotency,    \* committed rows of the idempotency table: key -> rows, {} for none
    next_sequence,  \* BIGSERIAL or AUTO_INCREMENT
    next_event,     \* event ids handed out
    call,           \* writer -> its call
    faults,         \* lost connections so far
    checkpoint,     \* projection: last sequence it saw
    delivered       \* projection: sequences it applied

database == <<events, idempotency>>
reader == <<checkpoint, delivered>>
vars == <<setup, events, idempotency, next_sequence, next_event, call, faults, checkpoint, delivered>>

-------------------------------------------------------------------------------
AnyRevision == [kind |-> "any", revision |-> 0]
Exact(r) == [kind |-> "exact", revision |-> r]

Dialect == setup.dialect

Stream(id) == {row \in events : row.id = id}

(* aggregate_id_lookup_keys: the encodings of an id, the current one first. *)
Stored(id, encoding) == {row \in Stream(id) : row.encoding = encoding}

(* SELECT COALESCE(MAX(revision), 0). *)
MaxRevision(rows) == Max({0} \cup {row.revision : row \in rows})

(* load stops at the first encoding that has rows. *)
Load(id) ==
    IF Stored(id, "current") # {} THEN Stored(id, "current") ELSE Stored(id, "legacy")

(* append takes the highest revision under any encoding, append_idempotent *)
(* the one under the current encoding.                                     *)
CurrentRevision(path, id) ==
    MaxRevision(IF path = "idempotent" THEN Stored(id, "current") ELSE Stream(id))

CheckExpectedRevision(expected, actual) ==
    expected.kind = "any" \/ expected.revision = actual

Idle == [pc |-> "idle", path |-> "none", key |-> NoKey, id |-> "none", event |-> 0,
         expected |-> AnyRevision, seen |-> 0, actual |-> 0, inserted |-> {}, attempt |-> 1,
         polls |-> 0, answer |-> "none", value |-> {}]

(* A transaction past its reservation holds the key until it ends. *)
HoldsKey(w, k) ==
    call[w].key = k /\ call[w].path = "idempotent" /\ call[w].pc \in {"revision", "insert", "commit"}

(* An open transaction that has inserted the row holds its unique keys. *)
HoldsRow(w, id, revision) ==
    \E row \in call[w].inserted : row.id = id /\ row.revision = revision

InTransaction(w) == call[w].pc \in {"reserve", "revision", "insert", "commit"}

(* Mutant: BEGIN instead of BEGIN IMMEDIATE. *)
MutMayBegin(w) == TRUE

(* BEGIN IMMEDIATE takes the write lock of the database. *)
MayBegin(w) ==
    Dialect = "sqlite" => \A other \in Writers \ {w} : ~InTransaction(other)

-------------------------------------------------------------------------------
LegacyRow(id) == [event |-> 0, id |-> id, encoding |-> "legacy", revision |-> 1,
                  sequence |-> 1, key |-> NoKey]

Init ==
    /\ setup \in Setups
    /\ events = {LegacyRow(id) : id \in setup.legacy}
    /\ idempotency = [k \in Keys |-> {}]
    /\ next_sequence = 1 + Cardinality(setup.legacy)
    /\ next_event = 1
    /\ call = [w \in Writers |-> Idle]
    /\ faults = 0
    /\ checkpoint = 0
    /\ delivered = {}

Faulty == faults < setup.faults /\ faults' = faults + 1

Goto(w, pc) == call' = [call EXCEPT ![w].pc = pc]

(* The call ends; an open transaction is rolled back by its drop. *)
Answer(w, answer, value) ==
    call' = [call EXCEPT ![w].pc = "done", ![w].inserted = {},
                         ![w].answer = answer, ![w].value = value]

(* append prepares its event with an id of its own (EventId::new), which   *)
(* the attempts of the pool keep.  The wait budget may be spent when the   *)
(* first pending answer comes.                                             *)
Invoke(w) ==
    /\ call[w].pc = "idle"
    /\ next_event <= setup.calls
    /\ next_event' = next_event + 1
    /\ \/ \E k \in Keys, polls \in 0..MaxPolls :
             /\ "idempotent" \in setup.paths
             /\ call' = [call EXCEPT ![w] =
                   [Idle EXCEPT !.pc = "lookup", !.path = "idempotent", !.key = k,
                                !.id = Target[k], !.event = next_event, !.polls = polls]]
       \/ \E id \in setup.ids :
             /\ "execute" \in setup.paths
             /\ call' = [call EXCEPT ![w] =
                   [Idle EXCEPT !.pc = "load", !.path = "execute", !.id = id, !.event = next_event]]
       \/ \E id \in setup.ids :
             /\ "append_any" \in setup.paths
             /\ call' = [call EXCEPT ![w] =
                   [Idle EXCEPT !.pc = "begin", !.path = "append_any", !.id = id,
                                !.event = next_event]]
    /\ UNCHANGED <<setup, database, next_sequence, faults, reader>>

(* load_idempotent, before the command is evaluated. *)
LoadIdempotent(w) ==
    /\ call[w].pc = "lookup"
    /\ IF idempotency[call[w].key] # {}
       THEN Answer(w, "ok", idempotency[call[w].key])
       ELSE Goto(w, "load")
    /\ UNCHANGED <<setup, database, next_sequence, next_event, faults, reader>>

(* load, handle, and the revision the append will expect. *)
LoadAndHandle(w) ==
    /\ call[w].pc = "load"
    /\ IF Accepts({row.key : row \in Load(call[w].id)}, call[w].key)
       THEN call' = [call EXCEPT ![w].expected = Exact(MaxRevision(Load(call[w].id))),
                                 ![w].pc = "begin"]
       ELSE Answer(w, "domain_error", {})
    /\ UNCHANGED <<setup, database, next_sequence, next_event, faults, reader>>

-------------------------------------------------------------------------------
(* BEGIN; append_idempotent first selects its key, and in MySQL whatever   *)
(* it selects later is as old.                                             *)
Begin(w) ==
    /\ call[w].pc = "begin"
    /\ MayBegin(w)
    /\ IF call[w].path # "idempotent" THEN Goto(w, "revision")
       ELSE IF idempotency[call[w].key] # {}
            THEN Answer(w, "ok", idempotency[call[w].key])
            ELSE call' = [call EXCEPT ![w].pc = "reserve",
                    ![w].seen = IF Dialect = "mysql" THEN CurrentRevision("idempotent", call[w].id)
                                ELSE 0]
    /\ UNCHANGED <<setup, database, next_sequence, next_event, faults, reader>>

(* Mutant: append runs again from the revision it finds then. *)
MutConflict(w) ==
    IF Dialect = "sqlite" /\ call[w].path # "idempotent" /\ call[w].attempt < MaxAttempts
    THEN call' = [call EXCEPT ![w].attempt = @ + 1, ![w].pc = "begin", ![w].expected = AnyRevision]
    ELSE Answer(w, "concurrency_error", {})

(* append of SQLite runs again after any retryable error, with the revision *)
(* it was given; append_idempotent and the other stores report it.          *)
Conflict(w) ==
    IF Dialect = "sqlite" /\ call[w].path # "idempotent" /\ call[w].attempt < MaxAttempts
    THEN call' = [call EXCEPT ![w].attempt = @ + 1, ![w].pc = "begin"]
    ELSE Answer(w, "concurrency_error", {})

(* SQLite: the write lock is not free within busy_timeout. *)
BusyTimeout(w) ==
    /\ call[w].pc = "begin"
    /\ ~MayBegin(w)
    /\ Faulty
    /\ Conflict(w)
    /\ UNCHANGED <<setup, database, next_sequence, next_event, reader>>

(* Mutant: the key is inserted ON CONFLICT DO NOTHING, result unchecked. *)
MutReserve(w) ==
    /\ call[w].pc = "reserve"
    /\ \A other \in Writers \ {w} : ~HoldsKey(other, call[w].key)
    /\ Goto(w, "revision")
    /\ UNCHANGED <<setup, database, next_sequence, next_event, faults, reader>>

(* INSERT ... 'pending': waits for another transaction that inserted the   *)
(* key; a unique violation is reported as Pending, and the repository      *)
(* polls append_idempotent again with the same expected revision.          *)
Reserve(w) ==
    /\ call[w].pc = "reserve"
    /\ \A other \in Writers \ {w} : ~HoldsKey(other, call[w].key)
    /\ IF idempotency[call[w].key] = {} THEN Goto(w, "revision")
       ELSE IF call[w].polls > 0
            THEN call' = [call EXCEPT ![w].polls = @ - 1, ![w].pc = "begin"]
            ELSE Answer(w, "timeout", {})
    /\ UNCHANGED <<setup, database, next_sequence, next_event, faults, reader>>

VisibleRevision(w) ==
    IF Dialect = "mysql" /\ call[w].path = "idempotent" THEN call[w].seen
    ELSE CurrentRevision(call[w].path, call[w].id)

(* SELECT MAX(revision) and check_expected_revision. *)
ReadRevision(w) ==
    /\ call[w].pc = "revision"
    /\ IF CheckExpectedRevision(call[w].expected, VisibleRevision(w))
       THEN call' = [call EXCEPT ![w].actual = VisibleRevision(w), ![w].pc = "insert"]
       ELSE Conflict(w)
    /\ UNCHANGED <<setup, database, next_sequence, next_event, faults, reader>>

(* SQLite continues from the last row that is there, so the number of a    *)
(* transaction that did not commit is given again.                         *)
DrawnSequence ==
    IF Dialect # "sqlite" THEN next_sequence
    ELSE 1 + Max({0} \cup {row.sequence : row \in events \cup UNION {call[w].inserted : w \in Writers}})

NextSequence == IF Dialect = "sqlite" THEN next_sequence ELSE next_sequence + 1

NewRow(w) ==
    [event |-> call[w].event, id |-> call[w].id, encoding |-> "current",
     revision |-> call[w].actual + 1, sequence |-> DrawnSequence, key |-> call[w].key]

StreamTaken(w) ==
    \E row \in Stored(call[w].id, "current") : row.revision = call[w].actual + 1
EventTaken(w) == \E row \in events : row.event = call[w].event

(* Mutant: no unique constraint on (aggregate, revision). *)
MutInsertEvents(w) ==
    /\ call[w].pc = "insert"
    /\ call' = [call EXCEPT ![w].inserted = {NewRow(w)}, ![w].pc = "commit"]
    /\ next_sequence' = NextSequence
    /\ UNCHANGED <<setup, database, next_event, faults, reader>>

(* Mutant: an insert also waits on rows that are committed. *)
MutBlockedInsert(w) ==
    /\ call[w].pc = "insert"
    /\ ~StreamTaken(w)
    /\ \A other \in Writers \ {w} : ~HoldsRow(other, call[w].id, call[w].actual + 1)
    /\ call' = [call EXCEPT ![w].inserted = {NewRow(w)}, ![w].pc = "commit"]
    /\ next_sequence' = NextSequence
    /\ UNCHANGED <<setup, database, next_event, faults, reader>>

(* INSERT of the event: waits for an open transaction with the same stream *)
(* revision.  A violation of the stream's key is a concurrency error, one  *)
(* of the event id a backend error that is not retried.                    *)
InsertEvents(w) ==
    /\ call[w].pc = "insert"
    /\ \A other \in Writers \ {w} : ~HoldsRow(other, call[w].id, call[w].actual + 1)
    /\ CASE EventTaken(w) -> Answer(w, "store_error", {})
         [] StreamTaken(w) /\ ~EventTaken(w) -> Conflict(w)
         [] OTHER -> call' = [call EXCEPT ![w].inserted = {NewRow(w)}, ![w].pc = "commit"]
    /\ next_sequence' = NextSequence
    /\ UNCHANGED <<setup, database, next_event, faults, reader>>

(* Mutant: the completed result is written after the commit. *)
MutCommitRows(w) ==
    /\ call[w].pc = "commit"
    /\ events' = events \cup call[w].inserted
    /\ UNCHANGED idempotency

(* COMMIT makes the events and the completed key visible together. *)
CommitRows(w) ==
    /\ call[w].pc = "commit"
    /\ events' = events \cup call[w].inserted
    /\ idempotency' = IF call[w].path # "idempotent" THEN idempotency
                      ELSE [idempotency EXCEPT ![call[w].key] = call[w].inserted]

Commit(w) ==
    /\ CommitRows(w)
    /\ Answer(w, "ok", call[w].inserted)
    /\ UNCHANGED <<setup, next_sequence, next_event, faults, reader>>

-------------------------------------------------------------------------------
(* A transport error inside ConnectionPool::write: the transaction is gone *)
(* and the whole closure runs once more on a fresh connection, if there    *)
(* is one.  SQLite has no pool.                                            *)
RetryOrFail(w) ==
    /\ Faulty
    /\ \/ /\ Dialect # "sqlite" /\ call[w].attempt = 1
          /\ call' = [call EXCEPT ![w].pc = "begin", ![w].attempt = 2, ![w].inserted = {}]
       \/ Answer(w, "store_error", {})
    /\ UNCHANGED <<setup, next_sequence, next_event, reader>>

LoseConnection(w) ==
    /\ call[w].pc \in {"begin", "reserve", "revision", "insert", "commit"}
    /\ RetryOrFail(w)
    /\ UNCHANGED database

(* MySQL ends a wait for another transaction: deadlock or lock wait timeout, *)
(* statement-level codes that the pool does not retry.                       *)
WaitFails(w) ==
    /\ Dialect = "mysql"
    /\ \/ call[w].pc = "reserve" /\ \E other \in Writers \ {w} : HoldsKey(other, call[w].key)
       \/ /\ call[w].pc = "insert"
          /\ \E other \in Writers \ {w} : HoldsRow(other, call[w].id, call[w].actual + 1)
    /\ Faulty
    /\ Answer(w, "store_error", {})
    /\ UNCHANGED <<setup, database, next_sequence, next_event, reader>>

(* ConnectionPool::read fails on a fresh connection too. *)
ReadFails(w) ==
    /\ call[w].pc \in {"lookup", "load"}
    /\ Faulty
    /\ Answer(w, "store_error", {})
    /\ UNCHANGED <<setup, database, next_sequence, next_event, reader>>

(* The commit happened and its acknowledgement did not arrive. *)
LoseCommitReply(w) == Dialect # "sqlite" /\ CommitRows(w) /\ RetryOrFail(w)

Return(w) ==
    /\ call[w].pc = "done"
    /\ call' = [call EXCEPT ![w] = Idle]
    /\ UNCHANGED <<setup, database, next_sequence, next_event, faults, reader>>

(* The process stops; the database rolls its transaction back. *)
Crash(w) ==
    /\ call[w].pc \notin {"idle", "done"}
    /\ Faulty
    /\ call' = [call EXCEPT ![w] = Idle]
    /\ UNCHANGED <<setup, database, next_sequence, next_event, reader>>

(* A projection pass over the feed: everything visible after the           *)
(* checkpoint, in sequence order, and the checkpoint moves to the last.    *)
Poll ==
    LET new == {row.sequence : row \in {r \in events : r.sequence > checkpoint}}
    IN  /\ setup.projection
        /\ new # {}
        /\ delivered' = delivered \cup new
        /\ checkpoint' = CHOOSE s \in new : \A t \in new : t <= s
        /\ UNCHANGED <<setup, database, next_sequence, next_event, call, faults>>

-------------------------------------------------------------------------------
Step(w) ==
    \/ LoadIdempotent(w)
    \/ LoadAndHandle(w)
    \/ Begin(w)
    \/ Reserve(w)
    \/ ReadRevision(w)
    \/ InsertEvents(w)
    \/ Commit(w)
    \/ Return(w)

Next ==
    \/ \E w \in Writers :
          \/ Invoke(w)
          \/ Step(w)
          \/ BusyTimeout(w)
          \/ LoseConnection(w)
          \/ WaitFails(w)
          \/ ReadFails(w)
          \/ LoseCommitReply(w)
          \/ Crash(w)
    \/ Poll

Spec == Init /\ [][Next]_vars

(* Connections make progress; the database wakes a waiting INSERT. *)
FairSpec == Spec /\ \A w \in Writers : WF_vars(Step(w))

-------------------------------------------------------------------------------
(* Streams stay dense and linear under concurrent transactions that all    *)
(* read MAX(revision) before any of them commits: each aggregate has one   *)
(* event per revision 1..n, and no event is stored twice.                  *)
StreamsAreLinear ==
    /\ \A id \in Ids : {row.revision : row \in Stream(id)} = 1..Cardinality(Stream(id))
    /\ \A r, s \in events : (r.event = s.event \/ r.sequence = s.sequence) => r = s

(* A key and its events are committed together and once, whatever          *)
(* connection is lost when: the record holds exactly the key's events.     *)
KeysCommitOnce ==
    \A k \in Keys :
       /\ idempotency[k] = {row \in events : row.key = k}
       /\ Cardinality(idempotency[k]) <= 1

(* A call that returns Ok returns events that are committed, and under a   *)
(* key the ones the key was completed with.                                *)
OkIsCommitted ==
    \A w \in Writers :
       call[w].answer = "ok" =>
          /\ call[w].value # {} /\ call[w].value \subseteq events
          /\ call[w].path = "idempotent" => call[w].value = idempotency[call[w].key]

(* The refinement: a stream is its rows in the order of their revisions,   *)
(* and a request has been applied when its event is among them.            *)
RowAt(id, revision) == CHOOSE row \in Stream(id) : row.revision = revision

EntryOf(row) == [event |-> row.event, key |-> row.key, old |-> row.encoding = "legacy"]

AbstractLog ==
    [id \in Ids |-> [revision \in 1..Cardinality(Stream(id)) |-> EntryOf(RowAt(id, revision))]]

Status(w) ==
    CASE call[w].pc = "done" -> "answered"
      [] call[w].pc # "done" /\ EventTaken(w) -> "applied"
      [] OTHER -> "pending"

AbstractRequest ==
    [w \in Writers |->
       IF call[w].pc = "idle"
       THEN [status |-> "idle", path |-> "none", key |-> NoKey, id |-> "none", event |-> 0,
             answer |-> "none", value |-> {}]
       ELSE [status |-> Status(w), path |-> call[w].path, key |-> call[w].key,
             id |-> call[w].id, event |-> call[w].event, answer |-> call[w].answer,
             value |-> {row.event : row \in call[w].value}]]

Atomic == INSTANCE AtomicRequests WITH log <- AbstractLog, request <- AbstractRequest

(* Whatever transaction is lost, repeated, refused or told to wait, and    *)
(* whatever snapshot it read: a command that is answered took effect in    *)
(* one instant, accepted by the events the stream had in that instant,     *)
(* once; a key takes effect once and Ok returns the events it led to; a    *)
(* refusal was decided on what was there.                                  *)
ImplementsAtomicRequests == Atomic!Spec

(* An idempotent call that loses its race fails cleanly: when it reports a *)
(* concurrency error its key is still free for a retry.  The exception is  *)
(* SQLite's busy_timeout, reported the same way before the key is read.    *)
ConflictLeavesKeyFree ==
    [][\A w \in Writers :
          /\ call[w].path = "idempotent"
          /\ InTransaction(w)
          /\ call'[w].answer = "concurrency_error"
          => idempotency[call[w].key] = {}]_vars

(* Every call returns: transactions that wait for each other's keys and    *)
(* rows never wait in a circle.                                            *)
EveryCallReturns == \A w \in Writers : call[w].pc # "idle" ~> call[w].pc = "idle"

(* "Events must be processed in the exact order they were committed": the  *)
(* projection has seen every committed event up to its checkpoint.         *)
FeedHasNoLateEvents ==
    \A row \in events : row.sequence <= checkpoint => row.sequence \in delivered

(* SQLite keeps that order: from BEGIN IMMEDIATE to COMMIT no other        *)
(* transaction draws a sequence, so none becomes visible behind a          *)
(* checkpoint, whatever attempts were rolled back in between.              *)
SqliteFeedHasNoLateEvents == Dialect = "sqlite" => FeedHasNoLateEvents

(* load "loads all events for one aggregate stream", whichever encoding of *)
(* the id its rows have.                                                   *)
LoadsAllEvents == \A id \in Ids : Load(id) = Stream(id)
===============================================================================
