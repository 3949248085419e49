# TLA+ verification of ddd-cqrs-es

`ddd-cqrs-es` is a Rust library for event-sourced, CQRS-style applications:
aggregates decide commands, an event store keeps their events, a repository
ties the two together, projections build read models from the global feed, and
process managers turn events into commands. This directory models the parts
where several actors or failures meet, checks the models with TLC, and proves
their safety properties for instances of every size with TLAPS. Paths below are
relative to the repository root; the library itself is under `src/`.

## 1. Inventory

| component | state it keeps | operations | what is hard |
|---|---|---|---|
| In-memory event store (`memory.rs`, contract in `event_store.rs`) | `streams` (indices per aggregate), `global` (envelopes), `next_sequence` | `append` under an expected revision, `load`, `load_after_revision`, `load_global_after_limited`, `clear` | three structures kept in step; page boundaries |
| Repository (`repository.rs`, `repository_support.rs`, `aggregate.rs`) | none of its own; locals of each call | `execute`, `execute_returning_state`, `execute_with_snapshot`, `load`, `load_with_snapshot`, `save`, `save_new_events` | other callers between load and append |
| Snapshot store (`snapshot.rs`) | latest snapshot per aggregate | `load_snapshot`, `save_snapshot`, `clear` | late offers of old states; snapshot and tail read at different moments |
| Portable idempotency (`idempotency.rs`, `execute_idempotent`) | one record per key: pending with a lease, or complete with the events | `load`, `reserve_with_lease`, `heartbeat`, `save`, `remove`, `expire_stale_pending`, `expire_completed_before`, `clear` | two stores without a transaction; crashes; leases running out; retried release and save |
| Atomic idempotency (`AtomicIdempotentEventStore`, `execute_idempotent_atomic`) | idempotency table beside the events table | `load_idempotent`, `append_idempotent` | races between twins; lost commit replies |
| SQL stores (`postgres.rs`, `mysql.rs`, `sqlite.rs` over `sql_common.rs`, `schema.rs`) | events, idempotency, checkpoint and snapshot tables | `append`, `append_idempotent`, loads, feed | READ COMMITTED, REPEATABLE READ and single-writer interleavings; sequences drawn before they are visible; two encodings of an id |
| Redis store and client (`redis.rs`) | per stream a counter and an index, one hash per event, a global index and counter, checkpoints; the client's cached connection | scripts for append, hash batches and checkpoints; paged `load` and feeds; reconnects | commands that run after their caller left; repeated commands; forgotten scripts; evicted keys; loads of many round trips |
| JSON file store (`adapters/json_file.rs`) | one file of events, one of checkpoints | `append`, migration of a legacy array, `load`, feed, checkpoint operations | writes that stop half way |
| Connection pool (`pool.rs`) | idle connections, leased count, handoff queue, waiters | `acquire`, `give_back`, connect slots, `read`, `write` | condition variable, deadlines, handoffs, retries |
| Projection runners (`projection.rs`, `raw_feed.rs`) | checkpoint per (projection, scope), read model | `run`, `run_batch`, `run_raw_batch` for five runner types | crash between apply, flush and save; replicas; batch boundaries |
| Process manager runner (`process_manager.rs`, `command.rs`) | dispatch index per (manager, event) | `run`, `run_envelope_with_checkpoint`, `run_envelope_strict` | partial batches, redelivery, lost replies |
| HTTP and WASI adapters (`adapters/append_atomic.rs`, `adapters/spin.rs`) | none | one guarded INSERT; forwarding to the host | - |
| Async API, upcasters, migrations, test kit, errors, metadata | - | twins of the blocking API; pure conversions | dropped futures |
| `ddd` CLI, example applications | files; applications | scaffolding; demos | - |

Interactions: the repository calls the event, snapshot and idempotency stores;
SQL stores go through the pool; projections poll `load_global_after_limited`
and a checkpoint store; process managers receive envelopes and dispatch through
a command bus. All of these are calls between which other threads, tasks or
processes may act.

What makes each part correct: the store's streams and log agree and never lose
or renumber an event; a command behaves as if executed in one instant; a key
executes once and keeps its answer; a stream has one event per revision; an
acknowledged event stays readable; a reply reaches the call it belongs to; the
pool's counts are exact and nobody waits for a connection that is free; a
checkpoint is never ahead of the read model; every command of a saga is
executed, in order. On Redis a stream is one encoding of an aggregate's id: an
aggregate whose first events were stored under the legacy encoding gets
revision 1 a second time, under the current one (section 3). `PROJECT.json` lists the hazards behind these, each at its
line, with the properties that cover it.

## 2. Modules

| module | models | extends |
|---|---|---|
| `EventStore` | `InMemoryEventStore`; the expected-revision check | - |
| `EventStoreProofs` | theorems about `EventStore` | `EventStore` |
| `AtomicCommands` | abstract specification: commands take effect in one instant | - |
| `Repository` | command execution over `EventStore` and the snapshot store | `EventStore`; instantiates `AtomicCommands` |
| `RepositoryProofs` | theorems about `Repository` | `Repository`, `EventStoreProofs` |
| `IdempotentRepository` | `execute_idempotent` with the leased idempotency store | `EventStore` |
| `IdempotentRepositoryProofs` | theorems about `IdempotentRepository` | `IdempotentRepository`, `EventStoreProofs` |
| `ProjectionRunner` | the runners over the store's feed | `EventStore` |
| `ProjectionRunnerProofs` | theorems about `ProjectionRunner` | `ProjectionRunner`, `EventStoreProofs` |
| `ProcessManager` | the checkpointed process-manager runner | - |
| `ProcessManagerProofs` | theorems about `ProcessManager` | `ProcessManager` |
| `ConnectionPool` | the bounded pool and the retries of `read`/`write` | - |
| `AtomicRequests` | abstract specification: a request takes effect in one instant, at most once | - |
| `SqlEventStore` | the PostgreSQL, MySQL and SQLite stores over transactions | instantiates `AtomicRequests` |
| `SqlEventStoreProofs` | theorems about `SqlEventStore` | `SqlEventStore` |
| `RedisEventStore` | the Redis store, its scripts and the raw client | - |
| `RedisEventStoreProofs` | theorems about `RedisEventStore` | `RedisEventStore` |
| `JsonFileEventStore` | the file store and its checkpoint file | - |
| `InProcessProofs` | theorems about the two components behind a mutex of one process | `ConnectionPool`, `JsonFileEventStore` |
| `MC*` | instances for TLC | their component |

Conventions. One action is one store call, one SQL statement, one Redis command
or one critical section: what the code does without letting go of its lock is
one step, and anything may happen between two steps. Definitions named `Mut*`
are wrong variants of the definition that follows them; they take no part in
any specification and serve to show that the properties notice such a mistake.
Bounds (`Max*`) are constants and appear as guards. Where one module stands for
several deployments (dialects, runner kinds, numbers of runners, fault models),
a variable `setup` chosen in `Init` says which one a behavior is about, and the
set `Setups` of the instance lists them with their bounds.

**EventStore.** The write lock is held for the whole of `append`, so
`AppendEvents` is the revision check, the numbering of the batch, the push onto
`global` and the extension of the stream's index in one step. Envelopes keep id,
revision, sequence and payload; event ids, type names, metadata and timestamps
are carried by the code and never inspected. An absent hash-map entry is an
empty stream.

**Repository.** A caller goes through `load` (or `load_snapshot`, `load_tail`)
and `append`; `handle` is a pure function of the loaded state and is taken with
the append. The state of an aggregate is the sequence of payloads applied to
it: two such states are equal exactly if every `Aggregate::apply` must treat
them alike. `SaveSnapshot` is an application that offers an aggregate it holds,
at any time. `Finish` covers the return, any failing store call, a dropped
future and a stopped process: in all of them the locals are gone and the
stores stay as they are.

**IdempotentRepository.** The steps of `execute_idempotent_with_wait_config`:
lookup, reserve, load, append, save or release. A key names a request, whose
event carries the key as payload, so the log shows what ran how often. The
clock appears as `LeaseExpires` and as a number of polls. The faults of a
behavior (`faults`) are one of the instance's sets: store failures, a lost
append reply, idempotency-store failures, lost replies of the idempotency store,
crashes, lease expiry, purging of old records, clearing the whole store. The
stores of the backends differ in one point: SQLite's and Redis's have leases,
PostgreSQL's and MySQL's do not, which are the behaviors without lease expiry.
`incidents` is history: per key it counts what may have the key executed once
more, which is a reservation that expired and was taken over or swept, an append
or a removal whose reply was lost, a purged result, a cleared store.

**ProjectionRunner.** `setup.kind` selects the persisted, in-memory or
projection-owned runner. A projection is the most demanding one the trait
allows: `apply` buffers, `flush` writes. The read model records what was
written to it, in order. Failures return an error from `run`, whose caller may
call it again; a crash loses the buffer (and the in-memory read model).
`Rebuild` is an operator who empties the read model and resets the checkpoints
while no runner is active. The in-memory runner has one checkpoint and is used
for one feed. A persisted projection may be deployed with two runners, which the
documentation warns about; the others have one.

**ProcessManager.** The manager emits the same commands for the same envelope.
The bus deduplicates on the key or ignores it (the trait's default), the
dispatch checkpoint keeps the index or is the unit one, and one or more runners
are deployed: all combinations are initial states. A dispatch succeeds, is refused, or takes effect and
reports an error. A failed load of the index counts as index 0
(`unwrap_or(0)`).

**ConnectionPool.** Connections are counted, not named. A thread leaves the
condition variable in two steps (woken, then holding the mutex), because the
code between them is where other threads enter. A popped idle connection may
turn out stale. Spurious wakeups are allowed.

**SqlEventStore.** The databases are external: one step per statement, rows
visible at commit, an INSERT on a key held by an open transaction waits. What
differs is the dialect. PostgreSQL is READ COMMITTED; MySQL's selects are as old
as the transaction's first one and its waits may end in an error; both draw
sequences at INSERT and give none back. SQLite has one writer from BEGIN
IMMEDIATE to COMMIT, reports a busy database as a concurrency error, repeats
its `append` and continues sequences from the last row. A lost connection rolls
back; a lost commit reply does not. `ConnectionPool::write` repeats the closure
once, with the same event ids. Rows carry the encoding of their id: `load` stops
at the first encoding that has rows, `append` takes the highest revision of
both, `append_idempotent` looks at the current one.

`AtomicRequests` is what all of this promises a command: one step in which it is
accepted by the events its stream has in that moment and added to them, at most once;
a replay returns what its key led to; an error may also be the answer of a request that
took effect. It has no transactions, revisions, attempts or records of keys. The
refinement maps a stream to its rows in the order of their revisions, and a call to a
request that is applied once its event is among the rows. A refusal may find that its
key has been executed in between: the store looks the key up before it evaluates the
command (`src/repository.rs:466`), so the abstract `Refuse` does not exclude it. In the
instance the request with the key closes the aggregate, so every path races with a
decision that it invalidates; a retry that forgets the expected revision keeps every
stream linear, and only the refinement notices it.

**RedisEventStore.** The server runs one command or script at a time, in order
per connection, whether or not the client still listens. An operation of the
store is a small program over replies (`Continue`): pages of an index, then
chunks of hashes, or the checkpoint, a page, its hashes, and the save. The
client takes the cached connection or opens one, repeats a command only if it
could not be written on a reused connection, drops a connection whose reply did
not come, and sends a forgotten script as EVAL. Connections are numbered and a
dropped one may still deliver its command. Evictions remove a stream's counter,
its index or a hash: the script's comparison of counter and index refuses the
first two. `asOf` is history: the newest sequence when a load is called. Loss of the sequence counter or of the global index is not detected by
the code and not modelled (`Evictable`), nor is loss of a stream's counter and
index together: `Evict` takes one only while the other is there.

**JsonFileEventStore.** Every operation holds the lock of its path, so an
operation is one step unless its write is interrupted. A line is a sequence of
pieces, whole envelopes or first bytes of one, because an append that starts
behind an unfinished line continues it. `LegacyFiles` are the arrays that older
releases left behind; `IsHistory` says what their appends put there: sequences
and revisions given once, and no revision before the ones below it.

## 3. Runs

Passing runs (every one is exhaustive for its instance):

| run | instance | what it shows |
|---|---|---|
| `repository` | 1 account, 2 callers, 4 commands (accepted, refusable, two events, no event), log of 3 | refinement of `AtomicCommands`; loads and snapshots are faithful; index and log agree; conflicts are genuine |
| `idempotent` | 2 requests on 1 account, 2 callers, log of 3, 3 attempts, 1 poll, six fault sets (below), fairness | one executor and one execution per key, no more executions than incidents explain, no key left pending by an error path, Ok means committed, results are kept, every call returns |
| `projection` | one runner of each kind on 2 interleaved feeds (log of 3, batches of 2, 2 faults); 2 persisted replicas on 1 feed (log of 2, batches of 1, 1 fault); fairness | nothing skipped, owned is exactly once, `run` catches up, deliveries are in order, pages are exact, checkpoints only advance, every event is projected |
| `process_manager` | one or two runners, one event with 2 commands, 2 refusals, 1 fault, 1 redelivery, fairness | skipped commands are executed, execution is in order, repetitions are accounted for, every command is executed |
| `pool` | 3 threads, pool of 2 or a single connection, fairness | exact counts within capacity, capacity never lost to the handoff queue, `acquire` always returns |
| `sql` | 2 writers, 3 calls, 1 key, 0 or 1 polls, 1 fault, each dialect, with and without legacy rows; SQLite also with 2 streams and a projection; fairness | refinement of `AtomicRequests`; streams are linear, a key commits once with its events, a conflict leaves the key free, SQLite's feed has no late events, no circular waits |
| `redis` | 2 callers on one client, up to 2 appends of up to 2 events, pages and chunks of 1, up to 2 connection faults, 1 eviction, a legacy stream, a typed and a raw projection | appends take effect once, answers reach their own caller, loads miss nothing but what an append or an eviction hides, the feed has no gaps |
| `json_file` | 2 aggregates of 2 types, 5 events, batches of up to 2, 2 interruptions, three initial files | streams are dense, acknowledged bytes remain, one interruption is harmless, nothing appears behind a checkpoint |

The guarantees of portable idempotency depend on what can go wrong, so
`IdempotentRepository` chooses its faults in `Init` and the properties name the
ones they exclude. The six sets of the instance are: store failures alone;
store failures, idempotency-store failures and crashes; lost append replies
with leases that run out; crashes and purges; crashes, leases that run out,
purges and clears; lost replies of the idempotency store. Clearing the store is
a fault of its own, apart from purging: `InMemoryIdempotencyStore::clear` drops
the reservations of running callers too, which `expire_completed_before` does
not, so the guarantees that survive a purge do not survive a clear. The
conditions are not idle. `SingleExecutor` fails as soon as a lease can run out
under a slow caller (`execute_idempotent` never renews it), although
`src/repository.rs:319` says "It prevents concurrent duplicate execution".
`KeyExecutesOnce` fails when an append takes effect and reports an error,
because every append error releases the key. `PendingIsOwned` fails after a
crash: such a key waits for its lease to end, or for ever in a store without
leases. What holds under all the faults is `ExtraRunsHaveIncidents`: a key is
executed once and at most once more per incident. An expired lease lets in one
other caller and not several, two callers that both find a reservation expired
do not both get it, and a lost reply is not paid for twice. The count of
incidents stops where the bounded log could not show more executions anyway.

Why the bounds are enough to be interesting: two callers are enough for every
race between a load and an append, and two transactions for every wait on a
row or key; a log of three holds a snapshot, a tail and a conflicting append;
three attempts are the code's own constant; batches of one and two against
three events produce full, partial and empty batches; two faults allow a
failure during the recovery from another; two refusals let a resumed batch be
refused again, which is when a wrong index repeats a command more often than
the faults explain. Three threads on a pool of two give a waiter while both
connections return. Three calls of two writers let a retry meet a commit that
its first attempt made and a rival that came in between; SQLite's 32 attempts
are two, since every further one is like the second. Pages and chunks of one
make every load of two events span four round trips, with appends between any
two. Two interruptions of the file store are a torn line and one more failure
behind it, five events leave appends before, between and after them.
`CHECK_DEADLOCK FALSE` is used where the bounded log or number of calls ends
the run.

Runs in which TLC finds a documented statement violated:

| run | statement | what happens |
|---|---|---|
| `idempotent_unfenced` | `src/repository.rs:313` "Executes a command once ... and returns the previous committed events" | a release that took effect is repeated because its reply was lost, and removes the result the next caller has recorded meanwhile |
| `sql_late_event` | `docs/production/persisted-views.md:48` "Events must be processed in the exact order they were committed" | a transaction with a lower sequence commits after the checkpoint has passed it (PostgreSQL, MySQL) |
| `sql_legacy_stream` | `src/event_store.rs:98` "Loads all events for one aggregate stream" | the first append to a stream stored under the legacy id hides its earlier events from `load` |
| `json_torn_line` | `src/adapters/json_file.rs:233` "committed events survive a crash" | an append after an interrupted one continues the torn line: its first event cannot be read, and after one more append no read of the file succeeds |

Related behaviors of the models that no property excludes:

- When the reply to a commit is lost, `ConnectionPool::write` repeats the append
  and the caller gets an error for events that are in the log
  (`LoseCommitReply`; the repeated event id or revision is refused).
- The removal of another caller's result also happens without a lost reply, when
  a slow caller's lease was taken over and its command is then refused: the
  violation needs leases there and none in the run.
- `execute_idempotent_atomic` looks its key up before it loads. If the twin
  commits in between, the command is evaluated against the new state and may be
  refused, although `src/event_store.rs:205` speaks of replaying a completed
  command even then.
- On a stream with legacy rows only, `append_idempotent` expects the revision
  that `load` saw and compares it with the revision under the current encoding:
  it reports a conflict every time.
- Two connections returned to the pool before its one waiter runs are both
  queued as handoffs (`src/pool.rs:173`); the one that is left over is not
  offered to later acquirers, who wait until a connection is returned or their
  deadline. `CapacityRemains` says that it is not lost.
- The typed Redis feed does not filter by type, although `src/event_store.rs:134`
  says that backends do. On an event of another type under the same prefix it
  fails and its checkpoint stays (`OwnType`), unless that event's id and payload
  happen to deserialize as its own: then it is delivered.
- Redis hides legacy events from `load` as the SQL stores do, and renumbers.
  `append` counts under the current encoding of the id only
  (`src/redis.rs:411` and `624`), so on an aggregate with legacy events every
  `Exact` revision is refused, while `Any` and `NoStream` start again at revision
  1; from then on `load` stops at the current encoding (`src/redis.rs:585`) and
  no longer returns the legacy events. `LoadsAreWhole` therefore excepts them by
  name (`HiddenByAppend`), and without that exception TLC finds the loss in the
  deployment of a legacy stream's reader beside a writer: it is the second half
  of what `sql_legacy_stream` reports.
- On Redis a stream whose index was evicted looks empty to `load`, or shorter when
  the eviction happens between two pages (`HiddenByEviction`). A missing hash is
  an error. Neither is a promise of the code, which documents the store as
  needing a server that does not evict.

### Fairness

`IdempotentRepository`, `ProjectionRunner`, `ProcessManager` and
`SqlEventStore` assume weak fairness of each actor's own step: a thread
with a call to make is scheduled, and a database wakes a waiting INSERT when
the holder ends. Faults, crashes and time have no fairness, except in
`ConnectionPool`, where the clock and `wait_timeout` do make progress: that is
what a deadline is. Projections and process managers also assume that the
application calls `run`, or the subscription delivers, again and again for
every feed or event (strong fairness, because the runner is busy in between):
the library has no scheduler of its own and its documentation asks for this.
Faults are bounded in number, so "eventually" means once they have stopped.
`RedisEventStore` and `JsonFileEventStore` state safety only: the Redis client
may be configured without a timeout (`with_read_timeout`), so the code does not
guarantee that a call returns, and a file operation has no one to wait for but
its lock.

## 4. Proofs

The proofs hold for every value of the constants their modules' assumptions
allow: every set of aggregates, payloads, callers and commands, every `Handle`
that returns a verdict and a batch (`HandleAssumption`), every set of events and
commands and every finite set of process-manager runners
(`ProcessManagerAssumption`), every finite set of threads and every pool size
(`PoolAssumption`), and every bound. `SqlAssumption` says that the marker for "no
key" is no key, and that at most one stream has a legacy event, which bounds the
initial tables and not the writers; `Accepts`, which stands for `handle`, is any
operator. `ProjectionAssumption` says what
the types of the runners say: batches are positive, and an in-memory or owned
projection has one runner. `IdempotentAssumption` lets a request's event carry
its key as payload, so that the log shows whose event it is.

`EventStoreProofs`:

- `StoreIsConsistent`: `StoreSpec => []IndexMatchesLog`;
- `PagesAreExact`: `StoreSpec => []PagesFollowCheckpoints`;
- `LogGrows`: `StoreSpec => LogIsAppendOnly`.

`RepositoryProofs`:

- `RepositoryIsAtomic`: `Spec => ImplementsAtomicCommands`, the refinement;
- `LoadsAreFaithful`, `SnapshotsHoldReplays`, `IndexStaysInStep`: the invariants
  of the `repository` run; `TypeCorrect`;
- `NoSpuriousConflict`: its action property;
- `IndInvHolds`: the inductive invariant they rest on.

`ProcessManagerProofs`:

- `NothingUndoneIsSkipped`: `Spec => []SkippedAreExecuted`;
- `BatchOrderIsKept`: `Spec => []ExecutedInOrder`;
- `ResumptionRepeatsNothing`: `Spec => []ResumeDoesNotRepeat`.

`InProcessProofs`, for the pool:

- `CountersStayExact`: `PoolSpec => []CountsAreExact`;
- `CapacityIsNeverLost`: `PoolSpec => []CapacityRemains`;

and for the JSON file store:

- `FileStreamsAreDense`: `Spec => []ReadableStreamsAreDense`;
- `AcknowledgedBytesStay`: `Spec => []AcknowledgedBytesRemain`;
- `InterruptionIsTolerated`: `Spec => []OneInterruptionIsHarmless`;
- `FileFeedHasNoGaps`: `Spec => []NothingBehindTheCheckpoint`.

`IdempotentRepositoryProofs`, under every set of faults the property allows:

- `KeysHaveOneExecutor`: `Spec => []SingleExecutor`;
- `KeysExecuteOnce`: `Spec => []KeyExecutesOnce`;
- `AnswersAreCommitted`: `Spec => []OkMeansCommitted`;
- `PendingKeysAreOwned`: `Spec => []PendingIsOwned`;
- `ResultsStay`: `Spec => CompletedIsKept`.

`SqlEventStoreProofs`, for the three dialects:

- `SqlStreamsAreLinear`: `Spec => []StreamsAreLinear`;
- `SqlKeysCommitOnce`: `Spec => []KeysCommitOnce`;
- `SqlIsAtomic`: `Spec => ImplementsAtomicRequests`, the refinement;
- `SqlOkIsCommitted`: `Spec => []OkIsCommitted`, which the refinement implies in
  substance and no run checks on its own;
- `SqliteFeedIsInOrder`: `Spec => []SqliteFeedHasNoLateEvents`;
- `SqlConflictsLeaveKeysFree`: `Spec => ConflictLeavesKeyFree`.

`ProjectionRunnerProofs`, for the three kinds of runner:

- `ProjectionsSkipNothing`: `Spec => []NothingIsSkipped`;
- `ProjectionsDeliverInOrder`: `Spec => []DeliveredInOrder`;
- `OwnedProjectionsApplyOnce`: `Spec => []OwnedIsExactlyOnce`;
- `RunsCatchUp`: `Spec => []RunCatchesUp`;
- `CheckpointsAdvance`: `Spec => CheckpointsOnlyAdvance`.

`RedisEventStoreProofs`, for every page and chunk size:

- `AppendsHappenOnce`: `Spec => []AppendsTakeEffectOnce`;
- `RepliesAreOwn`: `Spec => []AnswersAreOwn`;
- `LoadsReadWholeStreams`: `Spec => []LoadsAreWhole`;
- `FeedsHaveNoGaps`: `Spec => []FeedHasNoGaps`;
- `RedisInvariant`: the inductive invariant they rest on.

The argument for the store. An append adds to the end of the log exactly the
positions it adds to its stream's index, so a position is in an index if and
only if the envelope there belongs to the stream (`IndexMatchesLog`). The
binary search of a page relies on the k-th envelope having sequence k: `append`
numbers without a gap, and `clear`, which empties the log, sets `next_sequence`
back to 1. So the first index after a checkpoint is the checkpoint itself and a
page is an interval.

The argument for the repository. `LoadedIsFaithful` is not inductive: that a
replayed tail fits a
snapshot depends on what the store looks like. `IndInv` adds that every index
of a stream lies in the log at its position or later (`IndexInBounds`, so a
stream is no longer than the log and `HandleAssumption` applies to its state),
that the k-th envelope of a stream has revision k (`RevisionIsPosition`, so the
revision an aggregate carries is the number of events it has seen), and that a
caller's command, outcome and position agree (`CallersAreConsistent`). Lemmas
about sequences show that an append moves nothing (`AppendAdds`), so every
prefix, and with it everything faithful to it, stays (`AppendKeepsPrefixes`);
that replaying a stream, or a tail onto a snapshot, gives its current state
(`ReplayIsCurrent`, `TailIsCurrent`); and that the committed envelopes applied
to the current state give the next one (`CommitApplies`). The refinement
follows: at a commit the check `Exact(revision)` and faithfulness together say
that the loaded state is the aggregate's current state (`CommitRefines`); a
rejection takes effect at the load it is decided on (`LoadRefines`).

The argument for the process manager. The two properties need each other: a
command keeps the order because the run's position skips only executed
commands, and the position may advance because the command before it was
executed. `ManagerInv` adds what holds between the two calls: a runner about to
save has executed the command at its index (`SavedAreExecuted`). A second
runner that clears the saved index, or overwrites it with a lower one, only
ever gives up a claim; that is why no step needs to know about the other
runners (`RunnerStep`). On a bus that drops a key it has seen, the command was
already in the record (`EffectIsRecorded`). `ResumeDoesNotRepeat` counts, and
its invariant is a ledger (`RepetitionsArePaid`): the executions of a command
are at most the faults plus the completions of its event, and one more while
the command is `Covered`, that is below the saved index and below the position
of a run under way. A failed load moves the position back to 0, uncovers the
commands and is itself the fault that pays for them; saving covers the command
just dispatched; clearing uncovers the batch and grants it one execution more;
a refusal changes neither side.

The argument for the pool. A thread changes the two counts only when it enters
or leaves the busy places or the queue (`EnterCount`, `LeaveCount`,
`StayCount`), and `notify_one` moves a second thread within the queue
(`NotifyOneCounts`). `CapacityRemains` is not inductive, since it says nothing
while somebody holds a connection; `HandoffIsClaimed` does: when handed-over
connections fill the pool, somebody is awake to take one. `give_back` hands
over only while the count of waiters is positive, and then `notify_one` leaves
somebody awake; because that count is exact, the two facts go together.

The argument for portable idempotency. `ResultsInv` follows a result from the
append through the caller's locals and the record to the answer: it stays what
the log holds, since the log only grows. For a single executor it is not enough
that a key is pending: `ExclusiveInv` says that whoever executes owns the
reservation, which expiry, a repeated removal and `clear` break; these are the
faults that `LosesItsKey` names. (An earlier form of the property let `clear`
count as a purge. The proof of this step failed on it, with a clear between a
reservation and a second caller's, a schedule the run did not contain since it
purged only where leases ran out.) `OnceInv` adds that a key with an event in
the log is never free again and that nobody is about to execute or release it;
`OwnerInv` is the converse, from the record to the caller.

The argument for the SQL stores. `SqlInv` is one invariant for the tables, for
each open call and for each pair of calls, with the state as parameters. The
tables (`DbOK`): each stream is dense, the legacy encoding holding revision 1 and
the current one what follows, which is why `append_idempotent`, which looks at one
encoding, cannot leave a gap; event ids and sequences are unique; a key's record
is its rows. A call at COMMIT holds one row that continues its stream and whose
sequence no committed row has (`InsertedOK`); two such calls are on different
streams, two that hold a reservation have different keys, and SQLite has one
open transaction (`PairOK`). The unique keys of the tables are what keeps
`PairOK`: an INSERT on the revision or key of an open transaction waits, on a
committed one it fails. What a transaction read is old but bounded
(`seen`, `actual` at most the stream's size), so a stale MAX(revision) meets the
unique key and never skips a revision. A rolled-back call leaves the tables and
forgets its row, so every failure path is one lemma.

The refinement adds `AllDecided`: a call that was accepted carries the revision up to
which it was, never beyond the end of its stream, and if that revision still is the end,
the stream still accepts it (`Decided`). A COMMIT leaves this alone in every other call:
on other streams nothing changed, and on its own stream every expected revision is now
below the end (`StaysDecided`). At a COMMIT, `InsertedOK` says that the row continues the
stream and `Decided` that its revision follows the expected one, so the two meet and the
request is accepted by the stream as it is: that is the instant (`Applied`). The row is
appended to the abstract log (`LogGrows`), since the rows of a dense stream are in
one-to-one correspondence with 1 to n (`RowsByRevision`). Every other step changes no
table: it is a stutter (`Onward`), an error (`Failed`), a replay of the key's record
(`Replayed`, with `ResultIs`) or a refusal. A retry after a lost commit reply finds its
key completed or its event id taken, and `Taken` is what makes a second instant
impossible.

The argument for projections. The lemmas `Ranks`, `EarliestPositions` and
`PageOfFeed` show that a page cut by LIMIT out of an interleaved log is a gapless
part of its feed that starts right after the position, and that a page shorter
than the limit is the end of the feed. `Applying` then says that the events up to
the one applied last are in the read model or in the runner's buffer, and
`Running` that a checkpoint is about to be saved only when they are in the read
model (`Reached`). Replicas need no pairwise invariant: a slower one saves a lower
checkpoint, which the store ignores, and its deliveries repeat a prefix
(`Ordered`). `RunCatchesUp` depends on the loop's exit: a short page of a batch
that did not fail (`Advancing`).

The argument for Redis. `NetInv` gives every connection one place: free, in the
cache and silent, held by one caller with at most one command or one reply on it,
or given up with one command on it. So a reply on a held connection answers the
command of its holder, and the command on a dropped one is all that can still run
unobserved. `DbInv` relates the keyspace to the events ever written: revisions of
a stream are 1 to n, the counter is n or evicted, the index is all pairs or
evicted, not both, and the global index is every sequence. The script's comparison
of counter and index therefore lets an append through only on an intact stream.
`AppendInv` is the once: an append whose command may still run, with its caller
before the reply or on a dropped connection whose caller has an error, has written
nothing, and no second copy of that command exists. `StepsTo` states what a step
of one caller leaves alone, so each of its actions is proved without looking at
the others.

For reading, `PageIs` shows what a page of a sorted set holds whose scores are 1 to
n, and `LoadInv` follows a load: the sequences collected so far belong to the first
revisions of the stream, the events to the revisions before them, and a page that
is not full has nothing behind it that was stored at the call (`Covers`), unless the
stream's index is gone; an index that was evicted stays empty, since no append is
let through any more (`EffectExtends`), so nothing that was covered is uncovered
later. The legacy encoding is read only after the current one had nothing to show
(`TriedCurrent`), which leaves the two exceptions of the property
(`NothingMissed`). `PollInv` does the same for
the feed and adds the order that makes a save harmless whenever it runs: everything
up to the checkpoint in a save command, also in one on a dropped connection, was
already applied.

The assumptions on the constants say that callers and legacy ids are finite sets,
that at most one aggregate has a legacy stream (of one event, `Init`), and that the
deployments respect their bounds, whatever these are for appends, faults and
evictions.

The argument for the JSON file. An append writes its lines behind whatever the file
ends in: as lines of their own (`Follows`), or, if the last line has no newline, with
the first of them stuck to it (`Continues`). `FileInv` says what may be anywhere in the
file as long as it is readable (`Good`: only the last line may fail to parse): the
events that can be read have each position and each revision once and no revision
without those below it (`Numbered`), and each at or behind its type's checkpoint was
delivered (`Delivered`). That is not inductive, for an event that could be read
disappears when an append continues its line. Three parts say why no harm follows.
`LooseEnd`: the event of a last line without newline is the last of its stream, so
hiding it leaves no gap in the revisions. `TornLast`: the first bytes of an event are
alone on a line only at the end of the file. `Reached`: no checkpoint is beyond the
last event of a file in which every line parses. So an append behind such a file draws
sequences above every checkpoint. Behind a torn line there may be a checkpoint above
the highest sequence the scan sees; but then the append continues that line, and what
it adds either cannot be read or makes the whole file unreadable, and a file that
cannot be read stays so (`BatchStep`). What an interruption leaves is a prefix of the
lines, perhaps with a part of the next one (`PrefixBatch`, `CutBatch`), so
`FailedAppend` and `AppendEvents` are cases of one lemma, `FileAfterWrite`. `Kept`
speaks of pieces, not of lines: acknowledged bytes stay where they are
(`AcknowledgedBytesStay`), and while no line has two pieces they are an event that a
load returns (`InterruptionIsTolerated`). The only assumption on the initial file is
`IsHistory`. `FileStreamsAreDense` needs that a set with each revision once and none
missing is an interval (`DenseStream`), and with it the lemma that a finite set of
numbers has a highest one (`MaxIs`), which is what `append`'s scan returns.

The inductive invariants of `IdempotentRepository`, `SqlEventStore`,
`ProjectionRunner`, `RedisEventStore` and `JsonFileEventStore`, and the ledger of
`ProcessManager`, were also checked by TLC on the runs' instances before they were
proved. Every safety invariant and action property of a passing run is a theorem, and
so are the two refinements, with one exception: `ExtraRunsHaveIncidents` is only
model-checked.

Also only model-checked: the liveness properties (`EveryCallReturns` of two modules,
`EveryEventIsProjected`, `EveryCommandIsExecuted`, `EveryAcquireReturns`), since
fairness and ENABLED are outside the prover's reach, and the absence of deadlock in
the runs that check it. What the runs that expect a violation show are
counterexamples, which need no proof.

## 5. Not modelled

- The async twins have no module of their own: AsyncRepository, the async
  projection runners and AsyncProcessManagerRunner take the same steps with the
  same helpers, so the modules of their blocking forms stand for them, and a
  future dropped at an await is the caller or runner that stops there.
- The stand-alone snapshot, checkpoint and idempotency tables of the SQL stores
  and their Redis forms: conditional upserts with the semantics of
  `SaveSnapshot`, `Saved` and the entries of `IdempotentRepository`.
- Redis: publish and subscribe (delivery without any guarantee), the Spin
  client (the host's connection), reply parsing.
- `append_atomic.rs` builds one INSERT ... SELECT whose guard and numbering the
  remote database evaluates in one step; there is no interleaving left to
  explore. Read for this project, its SQLite guard accepts `Exact(n)` on an
  empty stream. `spin.rs` forwards to the host.
- Migration bookkeeping (`schema.rs`): sequential DDL under an advisory lock in
  PostgreSQL and MySQL; `run_sqlite` takes no lock, see the hazards.
- `upcast.rs`: a loop over strictly increasing versions, a pure function of a
  payload.
- JSON, metadata and id conversion beyond the two encodings of an id; text
  collation of MySQL.
- A process manager whose own state makes it answer a redelivered envelope with
  other commands; the trait's documentation asks it not to.
- The `ddd` CLI, its templates and the example applications: sequential
  scaffolding and applications of the library. They are most of the
  repository's lines and hold none of its concurrency.

## 6. Plan

1. Model: a refinement of `RedisEventStore`, as `AtomicCommands` and `AtomicRequests`
   are refined by the repository and by the SQL stores. Loads of the Redis store span
   several round trips, so it implements only a store whose loads may return a state
   from any moment of the call.
2. Model: the migration bookkeeping of `schema.rs` with two processes starting
   together.
