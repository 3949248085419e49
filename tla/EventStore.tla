------------------------------ MODULE EventStore ------------------------------
(***************************************************************************)
(* The event store: per-aggregate streams with optimistic concurrency, and *)
(* the global log they are cut from.  State and operations are those of    *)
(* InMemoryEventStore (src/src/memory.rs); every operation runs under one  *)
(* lock, so each is one atomic step.                                       *)
(*                                                                         *)
(* An envelope keeps what the store computes or compares: the stream, the  *)
(* revision, the global sequence and the payload.  Event ids, type names,  *)
(* versions, metadata and timestamps are carried and never inspected.      *)
(* An id without an entry in the hash map is an id with an empty stream    *)
(* (every reader of the map uses unwrap_or_default).                       *)
(***************************************************************************)
EXTENDS Integers, Sequences, FiniteSets

CONSTANTS
    Ids,        \* aggregate identifiers
    Payloads,   \* domain events
    MaxEvents,  \* bound on the length of the global log
    MaxBatch    \* bound on the number of events of one append

ASSUME StoreAssumption ==
    /\ Ids # {}
    /\ MaxEvents \in Nat
    /\ MaxBatch \in Nat

VARIABLES
    streams,        \* id -> positions of its envelopes in global
    global,         \* all envelopes, in append order
    next_sequence   \* sequence the next envelope is given

storeVars == <<streams, global, next_sequence>>

-------------------------------------------------------------------------------
(* The three revision preconditions of an append. *)
AnyRevision == [kind |-> "any", revision |-> 0]
NoStream == [kind |-> "no_stream", revision |-> 0]
Exact(r) == [kind |-> "exact", revision |-> r]

Satisfies(expected, actual) ==
    \/ expected.kind = "any"
    \/ expected.kind = "no_stream" /\ actual = 0
    \/ expected.kind = "exact" /\ expected.revision = actual

ActualRevision(id) == Len(streams[id])

Envelope == [id : Ids, revision : Nat, sequence : Nat, payload : Payloads]

-------------------------------------------------------------------------------
(* Reads. *)

(* The members of s at the positions in K, in order: Iterator::filter. *)
SelectAt(s, K) ==
    [j \in 1..Cardinality(K) |->
        s[CHOOSE k \in K : Cardinality({m \in K : m <= k}) = j]]

Load(id) == [k \in 1..Len(streams[id]) |-> global[streams[id][k]]]

LoadAfterRevision(id, revision) ==
    LET stream == Load(id)
    IN  SelectAt(stream, {k \in 1..Len(stream) : stream[k].revision > revision})

(* Mutant: an envelope at the checkpoint itself is read again. *)
MutFirstIndexAfter(checkpoint) ==
    Cardinality({i \in 1..Len(global) : global[i].sequence < checkpoint})

(* partition_point: how many envelopes are at or before the checkpoint     *)
(* (0 stands for no checkpoint: sequences start at 1).                     *)
FirstIndexAfter(checkpoint) ==
    Cardinality({i \in 1..Len(global) : global[i].sequence <= checkpoint})

LoadGlobalAfterLimited(checkpoint, limit) ==
    LET start == FirstIndexAfter(checkpoint)
        end == IF start + limit < Len(global) THEN start + limit ELSE Len(global)
    IN  SubSeq(global, start + 1, end)

-------------------------------------------------------------------------------
(* Mutant: positions taken from the length before each push. *)
MutNewIndices(payloads) == [k \in 1..Len(payloads) |-> Len(global) + k - 1]

(* append: the write lock is held from the revision check to the index     *)
(* update, and sequences and revisions are assigned under it.              *)
NewEnvelopes(id, payloads) ==
    [k \in 1..Len(payloads) |->
        [id |-> id,
         revision |-> ActualRevision(id) + k,
         sequence |-> next_sequence + (k - 1),
         payload |-> payloads[k]]]

NewIndices(payloads) == [k \in 1..Len(payloads) |-> Len(global) + k]

AppendEvents(id, expected, payloads) ==
    /\ Satisfies(expected, ActualRevision(id))
    /\ global' = global \o NewEnvelopes(id, payloads)
    /\ streams' = [streams EXCEPT ![id] = @ \o NewIndices(payloads)]
    /\ next_sequence' = next_sequence + Len(payloads)

(* clear: drops every stream and restarts the sequence. *)
Clear ==
    /\ streams' = [id \in Ids |-> <<>>]
    /\ global' = <<>>
    /\ next_sequence' = 1

-------------------------------------------------------------------------------
StoreInit ==
    /\ streams = [id \in Ids |-> <<>>]
    /\ global = <<>>
    /\ next_sequence = 1

Batches == UNION {[1..n -> Payloads] : n \in 0..MaxBatch}

ExpectedRevisions == {AnyRevision, NoStream} \cup {Exact(r) : r \in 0..MaxEvents}

StoreNext ==
    \/ \E id \in Ids, expected \in ExpectedRevisions, payloads \in Batches :
          /\ Len(global) + Len(payloads) <= MaxEvents
          /\ AppendEvents(id, expected, payloads)
    \/ Clear

StoreSpec == StoreInit /\ [][StoreNext]_storeVars

-------------------------------------------------------------------------------
StoreTypeOK ==
    /\ streams \in [Ids -> Seq(Nat)]
    /\ global \in Seq(Envelope)
    /\ next_sequence \in Nat

StreamsIndexTheLog ==
    \A id \in Ids :
       /\ \A k \in 1..Len(streams[id]) :
             /\ streams[id][k] \in 1..Len(global)
             /\ global[streams[id][k]].id = id
             /\ global[streams[id][k]].revision = k
       /\ \A j, k \in 1..Len(streams[id]) : j < k => streams[id][j] < streams[id][k]

LogIsIndexed ==
    \A i \in 1..Len(global) :
       \E k \in 1..Len(streams[global[i].id]) : streams[global[i].id][k] = i

(* Each stream lists exactly the log positions of its id, in log order,    *)
(* the k-th of them carries revision k, and no envelope is outside the     *)
(* index of its stream: the index vectors and the envelope vector, two     *)
(* structures append keeps in step, never disagree.                        *)
IndexMatchesLog == StreamsIndexTheLog /\ LogIsIndexed

(* Only clear forgets: any other step leaves the log a prefix of the new   *)
(* log, so a committed envelope keeps its position, revision and sequence. *)
LogIsAppendOnly ==
    [][\/ Clear
       \/ /\ Len(global) <= Len(global')
          /\ \A i \in 1..Len(global) : global'[i] = global[i]]_storeVars

(* Reading the global log in pages returns each envelope once, in order,   *)
(* and a short page is the end: the page after any checkpoint is the run   *)
(* of sequences that follows it.  It needs a log numbered without gaps,    *)
(* which the binary search of first_index_after and every checkpoint rely  *)
(* on, over any history of batches and clears.                             *)
PagesFollowCheckpoints ==
    \A checkpoint \in 0..Len(global), limit \in 1..2 :
       LET page == LoadGlobalAfterLimited(checkpoint, limit)
       IN  /\ \A k \in 1..Len(page) : page[k].sequence = checkpoint + k
           /\ Len(page) < limit => checkpoint + Len(page) = next_sequence - 1

===============================================================================
