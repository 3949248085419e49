--------------------------- MODULE ProjectionRunner ---------------------------
(***************************************************************************)
(* Projection runners (src/src/projection.rs): they read the global feed   *)
(* of one aggregate type in batches, apply the events to a read model and  *)
(* remember how far they got in a checkpoint.                              *)
(*   "persisted" keeps the checkpoint in a CheckpointStore, apart from the *)
(*               read model: apply, then flush, then save the checkpoint;  *)
(*   "in_memory" keeps it in the runner, beside an in-memory read model;   *)
(*   "owned"     lets the projection commit each event together with its   *)
(*               checkpoint (CheckpointedProjectionRunner and              *)
(*               TransactionalCheckpointedProjectionRunner).               *)
(*                                                                         *)
(* A projection is the hardest one the trait allows: apply buffers, flush  *)
(* writes.  The read model is the sequence of what was written to it.  The *)
(* feed of a scope is the part of the global log with that aggregate type, *)
(* so its sequences have gaps; several scopes feed one projection.         *)
(***************************************************************************)
EXTENDS EventStore

CONSTANTS
    Runners,        \* processes that may run the projection
    Scopes,         \* aggregate types
    ScopeOf,        \* aggregate id -> its aggregate type
    Setups          \* deployments: the kind of runner, the processes that run it, the
                    \* aggregate types it follows, ProjectionBatchConfig::batch_size
                    \* and the bounds on events and on failures and crashes

(* A persisted projection may be run by several processes at once, which   *)
(* the documentation warns about; the other kinds own their state.         *)
ASSUME ProjectionAssumption ==
    /\ ScopeOf \in [Ids -> Scopes]
    /\ \A s \in Setups :
          /\ s.kind \in {"persisted", "in_memory", "owned"}
          /\ s.runners \subseteq Runners /\ s.runners # {}
          /\ s.kind # "persisted" => \E r \in Runners : s.runners = {r}
          /\ s.scopes \subseteq Scopes /\ s.scopes # {}
          /\ s.batch_size \in Nat \ {0}
          /\ s.events \in 0..MaxEvents
          /\ s.faults \in Nat

VARIABLES
    setup,          \* the deployment
    checkpoints,    \* checkpoint key -> last processed sequence, 0 for none
    readModel,      \* what reached the read model: <<scope, sequence>> pairs
    buffer,         \* runner -> applied and not yet flushed
    run,            \* runner -> its call of run
    faults          \* failures so far

runnerVars == <<setup, checkpoints, readModel, buffer, run, faults>>
vars == <<storeVars, runnerVars>>

-------------------------------------------------------------------------------
(* Mutant: checkpoints keyed by the projection's name alone. *)
MutCheckpointKey(scope) == "projection"

(* aggregate_scoped_checkpoint_key: the projection's name and the scope. *)
CheckpointKey(scope) == scope

CheckpointKeys == {CheckpointKey(scope) : scope \in Scopes}

(* The feeds a runner is used for: an in-memory runner has one checkpoint  *)
(* and so follows one feed.                                                *)
Feeds == IF setup.kind = "in_memory" THEN {CHOOSE scope \in setup.scopes : TRUE} ELSE setup.scopes

(* Positions of the scope's events after a checkpoint: WHERE               *)
(* aggregate_type = $1 AND sequence > $2 ORDER BY sequence.                *)
FeedAfter(scope, checkpoint) ==
    {i \in 1..Len(global) : ScopeOf[global[i].id] = scope /\ global[i].sequence > checkpoint}

Earliest(positions, limit) ==
    {i \in positions : Cardinality({j \in positions : j <= i}) <= limit}

LoadGlobalAfter(scope, checkpoint, limit) ==
    LET page == SelectAt(global, Earliest(FeedAfter(scope, checkpoint), limit))
    IN  [k \in DOMAIN page |-> page[k].sequence]

Idle == [pc |-> "idle", scope |-> "none", from |-> 0, batch |-> <<>>, size |-> 0,
         last |-> 0, failed |-> FALSE, position |-> 0, end |-> 0]

EndOfFeed(scope) ==
    IF FeedAfter(scope, 0) = {} THEN 0
    ELSE CHOOSE i \in FeedAfter(scope, 0) : \A j \in FeedAfter(scope, 0) : j <= i

-------------------------------------------------------------------------------
Init ==
    /\ StoreInit
    /\ setup \in Setups
    /\ checkpoints = [k \in CheckpointKeys |-> 0]
    /\ readModel = <<>>
    /\ buffer = [r \in Runners |-> <<>>]
    /\ run = [r \in Runners |-> Idle]
    /\ faults = 0

(* Commands keep appending while projections run. *)
AppendOne ==
    /\ Len(global) < setup.events
    /\ \E id \in {i \in Ids : ScopeOf[i] \in setup.scopes}, payload \in Payloads :
          AppendEvents(id, AnyRevision, <<payload>>)
    /\ UNCHANGED runnerVars

(* A failure of a step: it costs one of setup.faults. *)
Faulty == faults < setup.faults /\ faults' = faults + 1

(* run returns: Ok leaves through "ok", an error goes back to the caller,  *)
(* who may call run again.                                                 *)
ReturnError(r) == run' = [run EXCEPT ![r] = Idle]

(* run starts with no position; `end` records where the feed ended then    *)
(* (used only to state what run promises).                                 *)
Run(r, scope) ==
    /\ r \in setup.runners
    /\ run[r].pc = "idle"
    /\ scope \in Feeds
    /\ run' = [run EXCEPT ![r] = [Idle EXCEPT !.pc = "checkpoint", !.scope = scope,
                                              !.end = EndOfFeed(scope)]]
    /\ UNCHANGED <<storeVars, setup, checkpoints, readModel, buffer, faults>>

LoadCheckpoint(r) ==
    /\ run[r].pc = "checkpoint"
    /\ \/ /\ run' = [run EXCEPT ![r].from = checkpoints[CheckpointKey(run[r].scope)],
                                ![r].pc = "load"]
          /\ UNCHANGED faults
       \/ Faulty /\ ReturnError(r)
    /\ UNCHANGED <<storeVars, setup, checkpoints, readModel, buffer>>

LoadBatch(r) ==
    /\ run[r].pc = "load"
    /\ \/ LET batch == LoadGlobalAfter(run[r].scope, run[r].from, setup.batch_size)
          IN  /\ run' = [run EXCEPT ![r].batch = batch, ![r].size = Len(batch),
                                    ![r].last = 0, ![r].failed = FALSE, ![r].pc = "apply"]
              /\ UNCHANGED faults
       \/ Faulty /\ ReturnError(r)
    /\ UNCHANGED <<storeVars, setup, checkpoints, readModel, buffer>>

(* Mutant: the sequence counts as applied before apply has succeeded. *)
MutApplyEvent(r) ==
    /\ setup.kind # "owned"
    /\ run[r].pc = "apply"
    /\ run[r].batch # <<>>
    /\ \/ /\ buffer' = [buffer EXCEPT ![r] = Append(@, <<run[r].scope, Head(run[r].batch)>>)]
          /\ run' = [run EXCEPT ![r].last = Head(run[r].batch), ![r].batch = Tail(@)]
          /\ UNCHANGED faults
       \/ /\ Faulty
          /\ run' = [run EXCEPT ![r].last = Head(run[r].batch),
                                ![r].failed = TRUE, ![r].batch = <<>>]
          /\ UNCHANGED buffer
    /\ UNCHANGED <<storeVars, setup, checkpoints, readModel>>

(* apply_projection_events: one event, or the failure that ends the batch. *)
ApplyEvent(r) ==
    /\ setup.kind # "owned"
    /\ run[r].pc = "apply"
    /\ run[r].batch # <<>>
    /\ \/ /\ buffer' = [buffer EXCEPT ![r] = Append(@, <<run[r].scope, Head(run[r].batch)>>)]
          /\ run' = [run EXCEPT ![r].last = Head(run[r].batch), ![r].batch = Tail(@)]
          /\ UNCHANGED faults
       \/ /\ Faulty
          /\ run' = [run EXCEPT ![r].failed = TRUE, ![r].batch = <<>>]
          /\ UNCHANGED buffer
    /\ UNCHANGED <<storeVars, setup, checkpoints, readModel>>

-------------------------------------------------------------------------------
(* Mutant: a stale save overwrites a newer checkpoint. *)
MutSaved(key, sequence) == [checkpoints EXCEPT ![key] = sequence]

(* save_checkpoint is monotonic: GREATEST(sequence, excluded.sequence). *)
Saved(key, sequence) ==
    [checkpoints EXCEPT ![key] = IF sequence > @ THEN sequence ELSE @]

(* Mutant: the checkpoint is saved before the read model is flushed. *)
MutFlush(r) ==
    /\ setup.kind = "persisted"
    /\ run[r].pc = "apply"
    /\ run[r].batch = <<>>
    /\ IF run[r].last = 0
       THEN /\ run' = [run EXCEPT ![r].pc = "finish"]
            /\ UNCHANGED <<readModel, buffer, faults, checkpoints>>
       ELSE \/ /\ readModel' = readModel \o buffer[r]
               /\ buffer' = [buffer EXCEPT ![r] = <<>>]
               /\ run' = [run EXCEPT ![r].pc = "save"]
               /\ UNCHANGED <<faults, checkpoints>>
            \/ /\ Faulty
               /\ checkpoints' = Saved(CheckpointKey(run[r].scope), run[r].last)
               /\ ReturnError(r)
               /\ UNCHANGED <<readModel, buffer>>
    /\ UNCHANGED <<storeVars, setup>>

(* persist_projection_checkpoint: flush, and only then save; nothing at    *)
(* all when no event was applied.                                          *)
Flush(r) ==
    /\ setup.kind = "persisted"
    /\ run[r].pc = "apply"
    /\ run[r].batch = <<>>
    /\ IF run[r].last = 0
       THEN /\ run' = [run EXCEPT ![r].pc = "finish"]
            /\ UNCHANGED <<readModel, buffer, faults>>
       ELSE \/ /\ readModel' = readModel \o buffer[r]
               /\ buffer' = [buffer EXCEPT ![r] = <<>>]
               /\ run' = [run EXCEPT ![r].pc = "save"]
               /\ UNCHANGED faults
            \/ Faulty /\ ReturnError(r) /\ UNCHANGED <<readModel, buffer>>
    /\ UNCHANGED <<storeVars, setup, checkpoints>>

SaveCheckpoint(r) ==
    /\ run[r].pc = "save"
    /\ \/ /\ checkpoints' = Saved(CheckpointKey(run[r].scope), run[r].last)
          /\ run' = [run EXCEPT ![r].pc = "finish"]
          /\ UNCHANGED faults
       \/ Faulty /\ ReturnError(r) /\ UNCHANGED checkpoints
    /\ UNCHANGED <<storeVars, setup, readModel, buffer>>

(* finish_in_memory_projection_batch: always flushes, then moves its own   *)
(* checkpoint.                                                             *)
FlushInMemory(r) ==
    /\ setup.kind = "in_memory"
    /\ run[r].pc = "apply"
    /\ run[r].batch = <<>>
    /\ \/ /\ readModel' = readModel \o buffer[r]
          /\ buffer' = [buffer EXCEPT ![r] = <<>>]
          /\ checkpoints' = IF run[r].last = 0 THEN checkpoints
                            ELSE [checkpoints EXCEPT ![CheckpointKey(run[r].scope)] = run[r].last]
          /\ run' = [run EXCEPT ![r].pc = "finish"]
          /\ UNCHANGED faults
       \/ Faulty /\ ReturnError(r) /\ UNCHANGED <<checkpoints, readModel, buffer>>
    /\ UNCHANGED <<storeVars, setup>>

(* Mutant: the projection writes the event, the checkpoint waits for the   *)
(* end of the batch.                                                       *)
MutApplyAndCheckpoint(r) ==
    /\ setup.kind = "owned"
    /\ run[r].pc = "apply"
    /\ IF run[r].batch = <<>>
       THEN /\ run' = [run EXCEPT ![r].pc = "finish"]
            /\ checkpoints' = IF run[r].last = 0 THEN checkpoints
                              ELSE Saved(CheckpointKey(run[r].scope), run[r].last)
            /\ UNCHANGED <<readModel, faults>>
       ELSE \/ /\ readModel' = Append(readModel, <<run[r].scope, Head(run[r].batch)>>)
               /\ run' = [run EXCEPT ![r].last = Head(run[r].batch), ![r].batch = Tail(@)]
               /\ UNCHANGED <<faults, checkpoints>>
            \/ Faulty /\ ReturnError(r) /\ UNCHANGED <<checkpoints, readModel>>
    /\ UNCHANGED <<storeVars, setup, buffer>>

(* apply_batch_and_checkpoint: one transaction per event, and the first    *)
(* failure ends the run.                                                   *)
ApplyAndCheckpoint(r) ==
    /\ setup.kind = "owned"
    /\ run[r].pc = "apply"
    /\ IF run[r].batch = <<>>
       THEN /\ run' = [run EXCEPT ![r].pc = "finish"]
            /\ UNCHANGED <<checkpoints, readModel, faults>>
       ELSE \/ /\ readModel' = Append(readModel, <<run[r].scope, Head(run[r].batch)>>)
               /\ checkpoints' = [checkpoints EXCEPT ![CheckpointKey(run[r].scope)] =
                                     Head(run[r].batch)]
               /\ run' = [run EXCEPT ![r].last = Head(run[r].batch), ![r].batch = Tail(@)]
               /\ UNCHANGED faults
            \/ Faulty /\ ReturnError(r) /\ UNCHANGED <<checkpoints, readModel>>
    /\ UNCHANGED <<storeVars, setup, buffer>>

-------------------------------------------------------------------------------
(* Mutant: a batch that is exactly full counts as caught up. *)
MutCaughtUp(r) == run[r].size <= setup.batch_size

CaughtUp(r) == run[r].size < setup.batch_size

(* batch_advanced and run_projection_catch_up: a full batch that moved the *)
(* position is followed by another one.                                    *)
FinishBatch(r) ==
    /\ run[r].pc = "finish"
    /\ CASE run[r].failed -> ReturnError(r)
         [] ~run[r].failed /\ ~CaughtUp(r) /\ run[r].last > run[r].position ->
               run' = [run EXCEPT ![r].position = run[r].last, ![r].pc = "checkpoint"]
         [] OTHER -> run' = [run EXCEPT ![r].pc = "ok"]
    /\ UNCHANGED <<storeVars, setup, checkpoints, readModel, buffer, faults>>

ReturnOk(r) ==
    /\ run[r].pc = "ok"
    /\ run' = [run EXCEPT ![r] = Idle]
    /\ UNCHANGED <<storeVars, setup, checkpoints, readModel, buffer, faults>>

(* The process stops: buffers are gone, and an in-memory read model goes   *)
(* with its runner's checkpoint.                                           *)
Crash(r) ==
    /\ r \in setup.runners
    /\ Faulty
    /\ run' = [run EXCEPT ![r] = Idle]
    /\ buffer' = [buffer EXCEPT ![r] = <<>>]
    /\ IF setup.kind = "in_memory"
       THEN /\ readModel' = <<>>
            /\ checkpoints' = [k \in CheckpointKeys |-> 0]
       ELSE UNCHANGED <<readModel, checkpoints>>
    /\ UNCHANGED <<storeVars, setup>>

(* An operator rebuilds the projection while no runner is active: the read *)
(* model is emptied and reset_checkpoint clears the checkpoints.           *)
Rebuild ==
    /\ Faulty
    /\ \A r \in Runners : run[r].pc = "idle"
    /\ readModel' = <<>>
    /\ buffer' = [r \in Runners |-> <<>>]
    /\ checkpoints' = [k \in CheckpointKeys |-> 0]
    /\ UNCHANGED <<storeVars, setup, run>>

-------------------------------------------------------------------------------
Step(r) ==
    \/ LoadCheckpoint(r)
    \/ LoadBatch(r)
    \/ ApplyEvent(r)
    \/ Flush(r)
    \/ SaveCheckpoint(r)
    \/ FlushInMemory(r)
    \/ ApplyAndCheckpoint(r)
    \/ FinishBatch(r)
    \/ ReturnOk(r)

Next ==
    \/ AppendOne
    \/ \E r \in Runners, scope \in Scopes : Run(r, scope)
    \/ \E r \in Runners : Step(r) \/ Crash(r)
    \/ Rebuild

Spec == Init /\ [][Next]_vars

(* A runner that is running makes progress, and the application calls run  *)
(* again and again for every feed of the projection.                       *)
FairSpec ==
    /\ Spec
    /\ \A r \in Runners : WF_vars(Step(r))
    /\ \A r \in Runners, scope \in Scopes : SF_vars(Run(r, scope))

-------------------------------------------------------------------------------
Delivered(scope, sequence) == \E i \in DOMAIN readModel : readModel[i] = <<scope, sequence>>

(* The checkpoint is never ahead of the read model: every event of a feed  *)
(* up to its checkpoint is in the read model, whatever failed or crashed   *)
(* between apply, flush and save, and whoever else runs.  An event that is *)
(* not would never be read again.                                          *)
NothingIsSkipped ==
    \A scope \in Scopes, i \in 1..Len(global) :
       ScopeOf[global[i].id] = scope /\ global[i].sequence <= checkpoints[CheckpointKey(scope)]
          => Delivered(scope, global[i].sequence)

(* "Events must be processed in the exact order they were committed": an   *)
(* event reaches the read model only behind all earlier ones of its feed,  *)
(* also when a part of the feed is delivered again.                        *)
DeliveredInOrder ==
    \A i \in DOMAIN readModel, j \in 1..Len(global) :
       /\ ScopeOf[global[j].id] = readModel[i][1]
       /\ global[j].sequence < readModel[i][2]
       => \E h \in 1..(i - 1) : readModel[h] = <<readModel[i][1], global[j].sequence>>

(* A projection that commits the event with its checkpoint sees each event *)
(* once, crashes included.                                                 *)
OwnedIsExactlyOnce ==
    setup.kind = "owned" =>
       \A i, j \in DOMAIN readModel : readModel[i] = readModel[j] => i = j

(* run returns Ok only after the feed as it was when run was called has    *)
(* been applied and checkpointed.                                          *)
RunCatchesUp ==
    \A r \in Runners :
       run[r].pc = "ok" => run[r].end <= checkpoints[CheckpointKey(run[r].scope)]

(* A checkpoint only goes back when it is reset or its process is gone:    *)
(* a slow second runner does not rewind it.                                *)
CheckpointsOnlyAdvance ==
    [][\A k \in CheckpointKeys : checkpoints'[k] >= checkpoints[k] \/ checkpoints'[k] = 0]_vars

(* Every committed event reaches the read model, however the failures      *)
(* fall, once they have stopped.                                           *)
EveryEventIsProjected ==
    \A n \in 1..MaxEvents :
       Len(global) >= n /\ ScopeOf[global[n].id] \in Feeds
          ~> Len(global) >= n /\ Delivered(ScopeOf[global[n].id], n)
===============================================================================
