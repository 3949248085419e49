------------------------- MODULE IdempotentRepository -------------------------
(***************************************************************************)
(* Command execution under an idempotency key with two separate stores:    *)
(* Repository::execute_idempotent (src/src/repository.rs), its release and *)
(* save helpers (src/src/repository_support.rs) and the idempotency store  *)
(* with its leases (src/src/idempotency.rs).  Every store call is one step *)
(* of its caller; between two calls anything else may happen.  The stores  *)
(* of PostgreSQL and MySQL keep no leases: theirs are the behaviors in     *)
(* which no lease expires.                                                 *)
(*                                                                         *)
(* A key names one request: its command addresses the aggregate Target[k], *)
(* is accepted by the states Accepts(state, k) holds for, and commits one  *)
(* event whose payload is the key, so that the log shows which request was *)
(* executed and how often.  Wall-clock time appears only as what it can    *)
(* do: a lease expires, a wait budget of MaxPolls polls runs out.          *)
(***************************************************************************)
EXTENDS EventStore

CONSTANTS
    Callers,
    Keys,           \* idempotency keys; the payloads of the log
    Target,         \* key -> aggregate its command addresses
    Accepts(_, _),  \* (state, key) -> does Aggregate::handle accept
    MaxPolls,       \* polls of a pending key before the wait times out
    MaxAttempts,    \* SAVE_MAX_ATTEMPTS and RELEASE_MAX_ATTEMPTS
    FaultSets       \* which faults occur together

FaultKinds == {"store_failure", "append_reply_lost", "idempotency_failure",
               "idempotency_reply_lost", "crash", "lease_expiry", "purge", "clear"}

ASSUME IdempotentAssumption ==
    /\ Keys = Payloads
    /\ Target \in [Keys -> Ids]
    /\ MaxPolls \in Nat
    /\ MaxAttempts \in Nat \ {0}
    /\ FaultSets \subseteq SUBSET FaultKinds

VARIABLES
    faults,     \* what may go wrong in this behavior
    entries,    \* key -> idempotency record
    incidents,  \* history: key -> incidents that may have it executed once more
    pc,         \* caller -> its next store call
    key,        \* caller -> key it executes under
    polls,      \* caller -> polls left of its wait budget
    loaded,     \* caller -> the aggregate it decided on
    committed,  \* caller -> envelopes it will answer with
    attempts,   \* caller -> failed attempts of the current save or release
    answer      \* caller -> result of the call

callVars == <<faults, pc, key, polls, loaded, committed, attempts, answer>>
vars == <<storeVars, entries, incidents, callVars>>

-------------------------------------------------------------------------------
(* Idempotency records. *)
Absent == [state |-> "absent"]
Pending(owner) == [state |-> "pending", owner |-> owner, expired |-> FALSE]
Complete(value) == [state |-> "complete", value |-> value]

IsLeased(k) == entries[k].state = "pending" /\ ~entries[k].expired
IsExpiredPending(k) == entries[k].state = "pending" /\ entries[k].expired

NoKey == "none"
Nothing == [state |-> <<>>, revision |-> 0]

(* Between its reservation and its answer a caller executes its key. *)
Executing(c) == pc[c] \in {"load", "append", "save", "release"}

(* What opens the keys to one more execution: an expired reservation is    *)
(* taken over or swept, an append or a remove takes effect and its reply   *)
(* is lost, a result is purged or the store cleared.  The log shows at     *)
(* most MaxEvents executions, so no more than that less one are counted.   *)
Incident(keys) ==
    incidents' = [k \in Keys |-> IF k \in keys /\ incidents[k] < MaxEvents - 1
                                 THEN incidents[k] + 1 ELSE incidents[k]]

Takeover(k) == Incident({k} \cap {j \in Keys : IsExpiredPending(j)})

StateOf(id) == [k \in 1..ActualRevision(id) |-> Load(id)[k].payload]

-------------------------------------------------------------------------------
Init ==
    /\ StoreInit
    /\ faults \in FaultSets
    /\ entries = [k \in Keys |-> Absent]
    /\ incidents = [k \in Keys |-> 0]
    /\ pc = [c \in Callers |-> "idle"]
    /\ key = [c \in Callers |-> NoKey]
    /\ polls = [c \in Callers |-> 0]
    /\ loaded = [c \in Callers |-> Nothing]
    /\ committed = [c \in Callers |-> <<>>]
    /\ attempts = [c \in Callers |-> 0]
    /\ answer = [c \in Callers |-> "none"]

(* Every caller that is under way may still append one event: a new call   *)
(* is made only while the bounded log has room for it as well.             *)
Invoke(c) ==
    /\ pc[c] = "idle"
    /\ Len(global) + Cardinality({d \in Callers : pc[d] # "idle"}) < MaxEvents
    /\ \E k \in Keys : key' = [key EXCEPT ![c] = k]
    /\ polls' = [polls EXCEPT ![c] = MaxPolls]
    /\ pc' = [pc EXCEPT ![c] = "lookup"]
    /\ UNCHANGED <<storeVars, faults, incidents, entries, loaded, committed, attempts, answer>>

Answer(c, result) ==
    /\ answer' = [answer EXCEPT ![c] = result]
    /\ pc' = [pc EXCEPT ![c] = "done"]

(* Mutant: each poll starts with a full wait budget. *)
MutWait(c) ==
    /\ polls' = [polls EXCEPT ![c] = MaxPolls]
    /\ pc' = [pc EXCEPT ![c] = "lookup"]
    /\ UNCHANGED answer

(* pending_wait_delay: sleep and poll again, or give up. *)
Wait(c) ==
    \/ /\ polls[c] > 0
       /\ polls' = [polls EXCEPT ![c] = @ - 1]
       /\ pc' = [pc EXCEPT ![c] = "lookup"]
       /\ UNCHANGED answer
    \/ /\ polls[c] = 0
       /\ Answer(c, "timeout")
       /\ UNCHANGED polls

(* idempotency_store.load at the head of the loop. *)
Lookup(c) ==
    LET entry == entries[key[c]]
    IN  /\ pc[c] = "lookup"
        /\ \/ /\ entry.state = "complete"
              /\ committed' = [committed EXCEPT ![c] = entry.value]
              /\ Answer(c, "ok")
              /\ UNCHANGED polls
           \/ /\ IsLeased(key[c])
              /\ Wait(c)
              /\ UNCHANGED committed
           \/ /\ entry = Absent \/ IsExpiredPending(key[c])
              /\ pc' = [pc EXCEPT ![c] = "reserve"]
              /\ UNCHANGED <<polls, committed, answer>>
        /\ UNCHANGED <<storeVars, faults, incidents, entries, key, loaded, attempts>>

(* Mutant: the record is inserted without looking at what is there. *)
MutReserve(c) ==
    /\ pc[c] = "reserve"
    /\ entries' = [entries EXCEPT ![key[c]] = Pending(c)]
    /\ Takeover(key[c])
    /\ pc' = [pc EXCEPT ![c] = "load"]
    /\ UNCHANGED <<storeVars, faults, key, polls, loaded, committed, attempts, answer>>

(* reserve_with_lease: an absent key is taken, an expired reservation is   *)
(* taken over; otherwise someone else was faster and the caller waits.     *)
Reserve(c) ==
    /\ pc[c] = "reserve"
    /\ IF entries[key[c]] = Absent \/ IsExpiredPending(key[c])
       THEN /\ entries' = [entries EXCEPT ![key[c]] = Pending(c)]
            /\ Takeover(key[c])
            /\ pc' = [pc EXCEPT ![c] = "load"]
            /\ UNCHANGED <<polls, answer>>
       ELSE Wait(c) /\ UNCHANGED <<entries, incidents>>
    /\ UNCHANGED <<storeVars, faults, key, loaded, committed, attempts>>

(* load and reserve propagate an error of the idempotency store at once. *)
IdempotencyCallFails(c) ==
    /\ "idempotency_failure" \in faults
    /\ pc[c] \in {"lookup", "reserve"}
    /\ Answer(c, "idempotency_error")
    /\ UNCHANGED <<storeVars, faults, incidents, entries, key, polls, loaded, committed, attempts>>

-------------------------------------------------------------------------------
(* The command itself: load, handle and append under Exact(revision). *)
LoadAggregate(c) ==
    /\ pc[c] = "load"
    /\ loaded' = [loaded EXCEPT ![c] =
                     [state |-> StateOf(Target[key[c]]),
                      revision |-> ActualRevision(Target[key[c]])]]
    /\ pc' = [pc EXCEPT ![c] = "append"]
    /\ UNCHANGED <<storeVars, faults, incidents, entries, key, polls, committed, attempts, answer>>

(* Mutant: the whole stream is answered instead of the new events. *)
MutAppendCommand(c) ==
    /\ pc[c] = "append"
    /\ Accepts(loaded[c].state, key[c])
    /\ AppendEvents(Target[key[c]], Exact(loaded[c].revision), <<key[c]>>)
    /\ committed' = [committed EXCEPT ![c] =
                        Load(Target[key[c]]) \o NewEnvelopes(Target[key[c]], <<key[c]>>)]
    /\ pc' = [pc EXCEPT ![c] = "save"]
    /\ UNCHANGED <<faults, incidents, entries, key, polls, loaded, attempts, answer>>

AppendCommand(c) ==
    /\ pc[c] = "append"
    /\ Accepts(loaded[c].state, key[c])
    /\ AppendEvents(Target[key[c]], Exact(loaded[c].revision), <<key[c]>>)
    /\ committed' = [committed EXCEPT ![c] = NewEnvelopes(Target[key[c]], <<key[c]>>)]
    /\ pc' = [pc EXCEPT ![c] = "save"]
    /\ UNCHANGED <<faults, incidents, entries, key, polls, loaded, attempts, answer>>

(* Mutant: the early return on a domain error skips the release. *)
MutFail(c, error) ==
    /\ answer' = [answer EXCEPT ![c] = error]
    /\ pc' = [pc EXCEPT ![c] = IF error = "domain_error" THEN "done" ELSE "release"]
    /\ UNCHANGED <<storeVars, faults, incidents, entries, key, polls, loaded, committed, attempts>>

(* The command ends in an error, kept while the key is being released. *)
Fail(c, error) ==
    /\ answer' = [answer EXCEPT ![c] = error]
    /\ pc' = [pc EXCEPT ![c] = "release"]
    /\ UNCHANGED <<storeVars, faults, incidents, entries, key, polls, loaded, committed, attempts>>

CommandFails(c) ==
    \/ /\ pc[c] = "append"
       /\ ~Accepts(loaded[c].state, key[c])
       /\ Fail(c, "domain_error")
    \/ /\ pc[c] = "append"
       /\ Accepts(loaded[c].state, key[c])
       /\ ~Satisfies(Exact(loaded[c].revision), ActualRevision(Target[key[c]]))
       /\ Fail(c, "concurrency_error")
    \/ /\ "store_failure" \in faults
       /\ pc[c] \in {"load", "append"}
       /\ Fail(c, "store_error")

(* The append of a networked store takes effect and its reply is lost: the *)
(* caller gets an error like any other and releases the key.               *)
AppendReplyLost(c) ==
    /\ "append_reply_lost" \in faults
    /\ pc[c] = "append"
    /\ Accepts(loaded[c].state, key[c])
    /\ AppendEvents(Target[key[c]], Exact(loaded[c].revision), <<key[c]>>)
    /\ answer' = [answer EXCEPT ![c] = "store_error"]
    /\ pc' = [pc EXCEPT ![c] = "release"]
    /\ Incident({key[c]})
    /\ UNCHANGED <<faults, entries, key, polls, loaded, committed, attempts>>

-------------------------------------------------------------------------------
(* A failed attempt of save or remove is repeated; the last one ends the   *)
(* call with `error`.                                                      *)
RetryOrGiveUp(c, error) ==
    \/ /\ attempts[c] + 1 < MaxAttempts
       /\ attempts' = [attempts EXCEPT ![c] = @ + 1]
       /\ UNCHANGED <<pc, answer>>
    \/ /\ attempts[c] + 1 = MaxAttempts
       /\ Answer(c, error)
       /\ UNCHANGED attempts

(* Mutant: a result that cannot be saved releases its key. *)
MutSaveResult(c) ==
    /\ pc[c] = "save"
    /\ \/ /\ entries' = [entries EXCEPT ![key[c]] = Complete(committed[c])]
          /\ Answer(c, "ok")
          /\ UNCHANGED attempts
       \/ /\ "idempotency_failure" \in faults
          /\ pc' = [pc EXCEPT ![c] = "release"]
          /\ answer' = [answer EXCEPT ![c] = "idempotency_error"]
          /\ UNCHANGED <<entries, attempts>>
    /\ UNCHANGED <<storeVars, faults, incidents, key, polls, loaded, committed>>

(* save_idempotency_result_with_retry: the last failure is returned and    *)
(* the key stays pending although the events are committed.                *)
SaveResult(c) ==
    /\ pc[c] = "save"
    /\ \/ /\ entries' = [entries EXCEPT ![key[c]] = Complete(committed[c])]
          /\ Answer(c, "ok")
          /\ UNCHANGED attempts
       \/ /\ "idempotency_failure" \in faults
          /\ RetryOrGiveUp(c, "idempotency_error")
          /\ UNCHANGED entries
    /\ UNCHANGED <<storeVars, faults, incidents, key, polls, loaded, committed>>

(* release_idempotency_key_with_result: remove takes the entry whatever it *)
(* is and whoever owns it.  The last failure hides the command's error.    *)
Release(c) ==
    /\ pc[c] = "release"
    /\ \/ /\ entries' = [entries EXCEPT ![key[c]] = Absent]
          /\ pc' = [pc EXCEPT ![c] = "done"]
          /\ UNCHANGED <<attempts, answer>>
       \/ /\ "idempotency_failure" \in faults
          /\ RetryOrGiveUp(c, "release_failed")
          /\ UNCHANGED entries
    /\ UNCHANGED <<storeVars, faults, incidents, key, polls, loaded, committed>>

(* A call of a networked idempotency store takes effect and its reply is   *)
(* lost.  A reservation is then an error, or is sent again by the pool and *)
(* refused as if it were another caller's; save and remove are repeated.   *)
IdempotencyReplyLost(c) ==
    /\ "idempotency_reply_lost" \in faults
    /\ \/ /\ pc[c] = "reserve"
          /\ entries[key[c]] = Absent \/ IsExpiredPending(key[c])
          /\ entries' = [entries EXCEPT ![key[c]] = Pending(c)]
          /\ \/ Wait(c)
             \/ Answer(c, "idempotency_error") /\ UNCHANGED polls
          /\ Takeover(key[c])
          /\ UNCHANGED attempts
       \/ /\ pc[c] = "save"
          /\ entries' = [entries EXCEPT ![key[c]] = Complete(committed[c])]
          /\ RetryOrGiveUp(c, "idempotency_error")
          /\ UNCHANGED <<incidents, polls>>
       \/ /\ pc[c] = "release"
          /\ entries' = [entries EXCEPT ![key[c]] = Absent]
          /\ RetryOrGiveUp(c, "release_failed")
          /\ Incident({key[c]})
          /\ UNCHANGED polls
    /\ UNCHANGED <<storeVars, faults, key, loaded, committed>>

Reset(c) ==
    /\ pc' = [pc EXCEPT ![c] = "idle"]
    /\ key' = [key EXCEPT ![c] = NoKey]
    /\ polls' = [polls EXCEPT ![c] = 0]
    /\ loaded' = [loaded EXCEPT ![c] = Nothing]
    /\ committed' = [committed EXCEPT ![c] = <<>>]
    /\ attempts' = [attempts EXCEPT ![c] = 0]
    /\ answer' = [answer EXCEPT ![c] = "none"]
    /\ UNCHANGED <<storeVars, faults, incidents, entries>>

Return(c) == pc[c] = "done" /\ Reset(c)

(* The process stops between two store calls, or its future is dropped. *)
Crash(c) == "crash" \in faults /\ pc[c] \notin {"idle", "done"} /\ Reset(c)

-------------------------------------------------------------------------------
(* Time and the maintenance operations of the idempotency store. *)
LeaseExpires(k) ==
    /\ "lease_expiry" \in faults
    /\ IsLeased(k)
    /\ entries' = [entries EXCEPT ![k].expired = TRUE]
    /\ UNCHANGED <<storeVars, incidents, callVars>>

(* heartbeat with the owner token of the record: an expired lease that     *)
(* nobody took over is renewed too.  execute_idempotent never calls it.    *)
Heartbeat(k, owner) ==
    /\ IsExpiredPending(k)
    /\ entries[k].owner = owner
    /\ entries' = [entries EXCEPT ![k].expired = FALSE]
    /\ UNCHANGED <<storeVars, incidents, callVars>>

(* Mutant: whether a reservation has expired is not looked at. *)
MutExpireStalePending ==
    /\ \E k \in Keys : IsExpiredPending(k)
    /\ entries' = [k \in Keys |-> IF entries[k].state = "pending" THEN Absent ELSE entries[k]]
    /\ Incident({k \in Keys : IsExpiredPending(k)})
    /\ UNCHANGED <<storeVars, callVars>>

ExpireStalePending ==
    /\ \E k \in Keys : IsExpiredPending(k)
    /\ entries' = [k \in Keys |-> IF IsExpiredPending(k) THEN Absent ELSE entries[k]]
    /\ Incident({k \in Keys : IsExpiredPending(k)})
    /\ UNCHANGED <<storeVars, callVars>>

(* expire_completed_before: the ages of completed entries are not kept, so *)
(* any of them may be the ones older than the cutoff.                      *)
ExpireCompletedBefore ==
    /\ "purge" \in faults
    /\ \E old \in SUBSET {k \in Keys : entries[k].state = "complete"} :
          /\ old # {}
          /\ entries' = [k \in Keys |-> IF k \in old THEN Absent ELSE entries[k]]
          /\ Incident(old)
    /\ UNCHANGED <<storeVars, callVars>>

(* InMemoryIdempotencyStore::clear drops pending reservations too. *)
ClearEntries ==
    /\ "clear" \in faults
    /\ entries' = [k \in Keys |-> Absent]
    /\ Incident({k \in Keys : entries[k] # Absent})
    /\ UNCHANGED <<storeVars, callVars>>

-------------------------------------------------------------------------------
Step(c) ==
    \/ Lookup(c)
    \/ Reserve(c)
    \/ IdempotencyCallFails(c)
    \/ LoadAggregate(c)
    \/ AppendCommand(c)
    \/ CommandFails(c)
    \/ AppendReplyLost(c)
    \/ SaveResult(c)
    \/ Release(c)
    \/ IdempotencyReplyLost(c)
    \/ Return(c)

Next ==
    \/ \E c \in Callers : Invoke(c) \/ Step(c) \/ Crash(c)
    \/ \E k \in Keys : LeaseExpires(k)
    \/ \E k \in Keys, owner \in Callers : Heartbeat(k, owner)
    \/ ExpireStalePending
    \/ ExpireCompletedBefore
    \/ ClearEntries

Spec == Init /\ [][Next]_vars

(* A thread that has a store call to make is eventually scheduled. *)
FairSpec == Spec /\ \A c \in Callers : WF_vars(Step(c))

-------------------------------------------------------------------------------
Executions(k) == {i \in 1..Len(global) : global[i].payload = k}

PCs == {"idle", "lookup", "reserve", "load", "append", "save", "release", "done"}
Answers == {"none", "ok", "domain_error", "concurrency_error", "store_error",
            "timeout", "idempotency_error", "release_failed"}

(* What leaves a key to a second caller while the first still acts on it:  *)
(* its lease expires, its remove took effect and is repeated, or the store *)
(* is cleared.                                                             *)
LosesItsKey == faults \cap {"lease_expiry", "idempotency_reply_lost", "clear"} # {}

(* "It prevents concurrent duplicate execution": while leases outlast the  *)
(* commands that hold them, no reply is lost and nobody clears the store,  *)
(* no two callers are between reserve and their answer for the same key.   *)
SingleExecutor ==
    ~LosesItsKey =>
       \A c, d \in Callers : Executing(c) /\ Executing(d) /\ key[c] = key[d] => c = d

(* A command runs once per key however often it is sent and whatever fails *)
(* between its steps: a crash after append leaves the key pending, it does *)
(* not let a retry append again.  Only an expired lease, a purged result,  *)
(* a cleared store or a call that fails after it took effect permit a      *)
(* second run.                                                             *)
KeyExecutesOnce ==
    ~LosesItsKey /\ faults \cap {"purge", "append_reply_lost"} = {} =>
       \A k \in Keys : Cardinality(Executions(k)) <= 1

(* When a caller does lose its key, nothing worse follows: each execution  *)
(* beyond the first has an incident of its own.  An expired lease lets one *)
(* other caller in, and the late append, save or release of the first      *)
(* owner, which act on whatever entry they find, let in nobody else, even  *)
(* over crashes, maintenance calls and further callers of the key.         *)
ExtraRunsHaveIncidents ==
    \A k \in Keys : Cardinality(Executions(k)) <= 1 + incidents[k]

(* Only the purging operations drop a recorded result. *)
KeepsResults ==
    \A k \in Keys :
       entries[k].state = "complete" =>
          entries'[k] = entries[k] \/ ExpireCompletedBefore \/ ClearEntries

(* "returns the previous committed events when the same key is retried":   *)
(* once a result is recorded, retries keep getting it.                     *)
ResultsAreKept == [][KeepsResults]_vars

(* They do while no caller loses its key, whatever else fails. *)
CompletedIsKept == [][LosesItsKey \/ KeepsResults]_vars

(* A caller told "ok" was given its own request's events as they are in    *)
(* the log, and so is every result kept for later retries.                 *)
IsCommitOf(value, k) ==
    /\ Len(value) = 1
    /\ value[1].payload = k
    /\ value[1].sequence \in 1..Len(global)
    /\ global[value[1].sequence] = value[1]

OkMeansCommitted ==
    /\ \A c \in Callers : answer[c] = "ok" => IsCommitOf(committed[c], key[c])
    /\ \A k \in Keys : entries[k].state = "complete" => IsCommitOf(entries[k].value, k)

(* Without crashes and idempotency-store failures no key is left behind:   *)
(* a pending key always has a caller executing it.                         *)
PendingIsOwned ==
    faults \cap {"crash", "idempotency_failure", "idempotency_reply_lost"} = {} => \A k \in Keys :
       entries[k].state = "pending" => \E c \in Callers : Executing(c) /\ key[c] = k

(* Every call ends, if only by the pending-key timeout: nobody waits for a *)
(* key whose owner is gone, or for each other, forever.                    *)
EveryCallReturns == \A c \in Callers : pc[c] # "idle" ~> pc[c] = "idle"
===============================================================================
