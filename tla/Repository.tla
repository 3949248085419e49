------------------------------ MODULE Repository ------------------------------
(***************************************************************************)
(* Command execution over an event store and a snapshot store:             *)
(* Repository::execute, execute_returning_state and execute_with_snapshot  *)
(* (src/src/repository.rs), run by several callers at once.  Each store    *)
(* call is one step; between two of them any other caller may run.         *)
(*                                                                         *)
(* An aggregate's state is the sequence of payloads applied to it.         *)
(* InMemoryEventStore::clear is an operation of EventStore's own           *)
(* specification and is not called while commands execute.                 *)
(***************************************************************************)
EXTENDS EventStore

CONSTANTS
    Callers,
    Commands,
    Handle(_, _)    \* Aggregate::handle: (state, command) -> [ok, events]

ASSUME HandleAssumption ==
    \A state \in UNION {[1..n -> Payloads] : n \in 0..MaxEvents}, command \in Commands :
       /\ Handle(state, command).ok \in BOOLEAN
       /\ Handle(state, command).events \in Batches

VARIABLES
    snapshots,  \* id -> latest snapshot, or NoSnapshot
    pc,         \* caller -> its next store call
    call,       \* caller -> the command it executes
    loaded,     \* caller -> its LoadedAggregate
    outcome     \* caller -> what its command came to

repoVars == <<snapshots, pc, call, loaded, outcome>>
vars == <<storeVars, repoVars>>

-------------------------------------------------------------------------------
LoadedAggregate == [state : Seq(Payloads), revision : Nat]

NewAggregate == [state |-> <<>>, revision |-> 0]

(* Folds envelopes into an aggregate: each one is applied to the state and *)
(* its stored revision becomes the aggregate's.  This loop is the body of  *)
(* replay, of the tail replay after a snapshot and of                      *)
(* apply_committed_events.                                                 *)
ApplyEnvelopes(aggregate, envelopes) ==
    [state |-> aggregate.state \o [k \in 1..Len(envelopes) |-> envelopes[k].payload],
     revision |-> IF envelopes = <<>> THEN aggregate.revision
                  ELSE envelopes[Len(envelopes)].revision]

Replay(envelopes) == ApplyEnvelopes(NewAggregate, envelopes)

NoSnapshot == [state |-> <<>>, revision |-> -1]

NoCall == [id |-> "none", command |-> "none", via |-> "none"]

-------------------------------------------------------------------------------
Init ==
    /\ StoreInit
    /\ snapshots = [id \in Ids |-> NoSnapshot]
    /\ pc = [c \in Callers |-> "idle"]
    /\ call = [c \in Callers |-> NoCall]
    /\ loaded = [c \in Callers |-> NewAggregate]
    /\ outcome = [c \in Callers |-> "none"]

(* execute and execute_returning_state load the stream; the snapshot path  *)
(* starts at the snapshot store.                                           *)
Invoke(c) ==
    /\ pc[c] = "idle"
    /\ \E id \in Ids, command \in Commands, via \in {"stream", "snapshot"} :
          /\ call' = [call EXCEPT ![c] = [id |-> id, command |-> command, via |-> via]]
          /\ pc' = [pc EXCEPT ![c] = IF via = "stream" THEN "load" ELSE "load_snapshot"]
    /\ UNCHANGED <<storeVars, snapshots, loaded, outcome>>

(* store.load and replay. *)
LoadStream(c) ==
    /\ pc[c] = "load"
    /\ loaded' = [loaded EXCEPT ![c] = Replay(Load(call[c].id))]
    /\ pc' = [pc EXCEPT ![c] = "append"]
    /\ UNCHANGED <<storeVars, snapshots, call, outcome>>

(* load_snapshot: without a snapshot the whole stream is loaded. *)
LoadSnapshot(c) ==
    /\ pc[c] = "load_snapshot"
    /\ \/ /\ snapshots[call[c].id] = NoSnapshot
          /\ pc' = [pc EXCEPT ![c] = "load"]
          /\ UNCHANGED loaded
       \/ /\ snapshots[call[c].id] # NoSnapshot
          /\ loaded' = [loaded EXCEPT ![c] = snapshots[call[c].id]]
          /\ pc' = [pc EXCEPT ![c] = "load_tail"]
    /\ UNCHANGED <<storeVars, snapshots, call, outcome>>

(* Mutant: the tail starts at the snapshot's revision, not after it. *)
MutLoadTail(c) ==
    /\ pc[c] = "load_tail"
    /\ loaded' = [loaded EXCEPT ![c] =
                     ApplyEnvelopes(@, LoadAfterRevision(call[c].id, @.revision - 1))]
    /\ pc' = [pc EXCEPT ![c] = "append"]
    /\ UNCHANGED <<storeVars, snapshots, call, outcome>>

(* load_after_revision and the replay of the tail onto the snapshot. *)
LoadTail(c) ==
    /\ pc[c] = "load_tail"
    /\ loaded' = [loaded EXCEPT ![c] =
                     ApplyEnvelopes(@, LoadAfterRevision(call[c].id, @.revision))]
    /\ pc' = [pc EXCEPT ![c] = "append"]
    /\ UNCHANGED <<storeVars, snapshots, call, outcome>>

-------------------------------------------------------------------------------
(* The decision is a pure function of the loaded state, so it belongs to   *)
(* the step of the append that follows it.                                 *)
Decision(c) == Handle(loaded[c].state, call[c].command)

(* handle returns an error: nothing is appended. *)
RejectCommand(c) ==
    /\ pc[c] = "append"
    /\ ~Decision(c).ok
    /\ pc' = [pc EXCEPT ![c] = "done"]
    /\ outcome' = [outcome EXCEPT ![c] = "domain_error"]
    /\ UNCHANGED <<storeVars, snapshots, call, loaded>>

(* Mutant: the append does not check the revision. *)
MutCommitCommand(c) ==
    /\ pc[c] = "append"
    /\ Decision(c).ok
    /\ Len(global) + Len(Decision(c).events) <= MaxEvents
    /\ AppendEvents(call[c].id, AnyRevision, Decision(c).events)
    /\ loaded' = [loaded EXCEPT ![c] =
                     IF call[c].via = "stream"
                     THEN ApplyEnvelopes(@, NewEnvelopes(call[c].id, Decision(c).events))
                     ELSE @]
    /\ pc' = [pc EXCEPT ![c] = "done"]
    /\ outcome' = [outcome EXCEPT ![c] = "committed"]
    /\ UNCHANGED <<snapshots, call>>

(* append under Exact(loaded.revision) succeeds.  execute_returning_state  *)
(* applies the committed envelopes to the loaded aggregate and returns it; *)
(* execute and execute_with_snapshot return the envelopes only.            *)
CommitCommand(c) ==
    /\ pc[c] = "append"
    /\ Decision(c).ok
    /\ Len(global) + Len(Decision(c).events) <= MaxEvents
    /\ AppendEvents(call[c].id, Exact(loaded[c].revision), Decision(c).events)
    /\ loaded' = [loaded EXCEPT ![c] =
                     IF call[c].via = "stream"
                     THEN ApplyEnvelopes(@, NewEnvelopes(call[c].id, Decision(c).events))
                     ELSE @]
    /\ pc' = [pc EXCEPT ![c] = "done"]
    /\ outcome' = [outcome EXCEPT ![c] = "committed"]
    /\ UNCHANGED <<snapshots, call>>

(* Mutant: the append expects a new stream. *)
MutConflictCommand(c) ==
    /\ pc[c] = "append"
    /\ Decision(c).ok
    /\ ~Satisfies(NoStream, ActualRevision(call[c].id))
    /\ pc' = [pc EXCEPT ![c] = "done"]
    /\ outcome' = [outcome EXCEPT ![c] = "concurrency_error"]
    /\ UNCHANGED <<storeVars, snapshots, call, loaded>>

(* append reports WrongExpectedRevision: RepositoryError::Concurrency. *)
ConflictCommand(c) ==
    /\ pc[c] = "append"
    /\ Decision(c).ok
    /\ ~Satisfies(Exact(loaded[c].revision), ActualRevision(call[c].id))
    /\ pc' = [pc EXCEPT ![c] = "done"]
    /\ outcome' = [outcome EXCEPT ![c] = "concurrency_error"]
    /\ UNCHANGED <<storeVars, snapshots, call, loaded>>

-------------------------------------------------------------------------------
(* Mutant: the snapshot is labelled with the revision the store is at. *)
MutLabelSnapshot(c) ==
    /\ \/ pc[c] = "append"
       \/ outcome[c] = "committed" /\ call[c].via = "stream"
    /\ loaded[c].revision >= snapshots[call[c].id].revision
    /\ snapshots' = [snapshots EXCEPT ![call[c].id] =
                        [state |-> loaded[c].state, revision |-> ActualRevision(call[c].id)]]
    /\ UNCHANGED <<storeVars, pc, call, loaded, outcome>>

(* The application offers the aggregate it holds, loaded or brought up to  *)
(* date by execute_returning_state, to the snapshot store; an offer older  *)
(* than the stored revision is refused.                                    *)
SaveSnapshot(c) ==
    /\ \/ pc[c] = "append"
       \/ outcome[c] = "committed" /\ call[c].via = "stream"
    /\ loaded[c].revision >= snapshots[call[c].id].revision
    /\ snapshots' = [snapshots EXCEPT ![call[c].id] = loaded[c]]
    /\ UNCHANGED <<storeVars, pc, call, loaded, outcome>>

(* InMemorySnapshotStore::clear: snapshots are only accelerators. *)
ClearSnapshots ==
    /\ snapshots' = [id \in Ids |-> NoSnapshot]
    /\ UNCHANGED <<storeVars, pc, call, loaded, outcome>>

(* The command returns, or its caller goes away at any point: a store call *)
(* fails, the future is dropped at an await, or the process stops.         *)
Finish(c) ==
    /\ pc[c] # "idle"
    /\ pc' = [pc EXCEPT ![c] = "idle"]
    /\ call' = [call EXCEPT ![c] = NoCall]
    /\ loaded' = [loaded EXCEPT ![c] = NewAggregate]
    /\ outcome' = [outcome EXCEPT ![c] = "none"]
    /\ UNCHANGED <<storeVars, snapshots>>

Next ==
    \/ \E c \in Callers :
          \/ Invoke(c)
          \/ LoadStream(c)
          \/ LoadSnapshot(c)
          \/ LoadTail(c)
          \/ RejectCommand(c)
          \/ CommitCommand(c)
          \/ ConflictCommand(c)
          \/ SaveSnapshot(c)
          \/ Finish(c)
    \/ ClearSnapshots

Spec == Init /\ [][Next]_vars

-------------------------------------------------------------------------------
PCs == {"idle", "load", "load_snapshot", "load_tail", "append", "done"}
Outcomes == {"none", "domain_error", "committed", "concurrency_error"}
Calls == [id : Ids, command : Commands, via : {"stream", "snapshot"}]

TypeOK ==
    /\ StoreTypeOK
    /\ snapshots \in [Ids -> LoadedAggregate \cup {NoSnapshot}]
    /\ pc \in [Callers -> PCs]
    /\ call \in [Callers -> Calls \cup {NoCall}]
    /\ loaded \in [Callers -> LoadedAggregate]
    /\ outcome \in [Callers -> Outcomes]

(* The first r events committed to an aggregate, and all of them. *)
Prefix(id, r) == [k \in 1..r |-> global[streams[id][k]].payload]
Committed(id) == Prefix(id, Len(streams[id]))

(* An aggregate is faithful to a stream when its state is what replaying   *)
(* the first `revision` events of the stream gives.                        *)
Faithful(aggregate, id) ==
    /\ aggregate.revision \in 0..Len(streams[id])
    /\ aggregate.state = Prefix(id, aggregate.revision)

(* Whatever a caller holds, from a full replay, from a snapshot and a tail *)
(* read at another moment, or from apply_committed_events, is the state of *)
(* its stream at the revision it will pass to append.                      *)
LoadedIsFaithful ==
    \A c \in Callers :
       pc[c] \in {"load_tail", "append"} \/ outcome[c] = "committed"
          => Faithful(loaded[c], call[c].id)

(* A snapshot never holds a state its stream did not go through. *)
SnapshotsAreFaithful ==
    \A id \in Ids : snapshots[id] # NoSnapshot => Faithful(snapshots[id], id)

(* Commands that race are serialized: the repository implements            *)
(* AtomicCommands, in which each command is decided against the aggregate  *)
(* as it is at the instant its events are committed, a rejection is        *)
(* decided against a state that was current during the call, and a         *)
(* conflicting or abandoned command has no effect.  A rejection takes      *)
(* effect at the load it is decided on.                                    *)
CallStatus(c) ==
    CASE outcome[c] = "committed" -> "committed"
      [] outcome[c] = "concurrency_error" -> "conflict"
      [] outcome[c] = "domain_error" -> "rejected"
      [] pc[c] = "append" /\ ~Decision(c).ok -> "rejected"
      [] OTHER -> "pending"

AbstractLog == [id \in Ids |-> Committed(id)]

AbstractCall ==
    [c \in Callers |->
        IF pc[c] = "idle" THEN [status |-> "idle"]
        ELSE [status |-> CallStatus(c), id |-> call[c].id, command |-> call[c].command]]

Atomic == INSTANCE AtomicCommands WITH log <- AbstractLog, call <- AbstractCall

ImplementsAtomicCommands == Atomic!Spec

(* A concurrency error is never spurious: it is reported only when the     *)
(* stream has grown since the caller loaded it.                            *)
ConflictsAreGenuine ==
    [][\A c \in Callers :
          outcome[c] = "none" /\ outcome'[c] = "concurrency_error"
             => Len(streams[call[c].id]) > loaded[c].revision]_vars
===============================================================================
