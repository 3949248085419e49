-------------------------- MODULE JsonFileEventStore --------------------------
(***************************************************************************)
(* The JSON file event store and checkpoint store                          *)
(* (src/src/adapters/json_file.rs): a file of one envelope per line, older *)
(* files being one JSON array, written under a process-wide lock per path. *)
(* Every operation is therefore one step, except that a write may stop     *)
(* half way: an I/O error, or a crash before the fsync returns.            *)
(*                                                                         *)
(* The file is a sequence of lines and a line a sequence of pieces, each a *)
(* whole envelope or the first bytes of one.  What parses is a line that   *)
(* is one whole piece; a second piece comes from an append that starts     *)
(* where the file does not end in a newline.  Payloads are ASCII: a cut    *)
(* inside a character would make read_to_string refuse the whole file.     *)
(***************************************************************************)
EXTENDS Integers, Sequences, FiniteSets, FiniteSetsExt

CONSTANTS
    Ids,            \* aggregates
    Types,          \* aggregate types
    TypeOf,         \* aggregate -> its type
    LegacyFiles,    \* contents of the files older releases left behind
    MaxEvents,      \* bound on the events ever written
    MaxBatch,       \* bound on the events of one append
    MaxFaults       \* bound on interrupted writes

Envelopes ==
    [event : Nat, id : Ids, revision : Nat \ {0}, sequence : Nat \ {0}]

(* What appends leave in a file: a position and a revision are given out   *)
(* once, and a revision follows the ones before it.                        *)
IsHistory(events) ==
    /\ events \in Seq(Envelopes)
    /\ \A i, j \in 1..Len(events) :
          \/ events[i].sequence = events[j].sequence
          \/ events[i].id = events[j].id /\ events[i].revision = events[j].revision
          => i = j
    /\ \A i \in 1..Len(events) : \A r \in 1..events[i].revision :
          \E j \in 1..Len(events) : events[j].id = events[i].id /\ events[j].revision = r

ASSUME JsonFileAssumption ==
    /\ TypeOf \in [Ids -> Types]
    /\ \A legacy \in LegacyFiles : IsHistory(legacy)
    /\ MaxEvents \in Nat
    /\ MaxBatch \in Nat
    /\ MaxFaults \in Nat

VARIABLES
    form,           \* "missing", "array" (legacy) or "lines"
    lines,          \* the file, line by line
    ended,          \* does the file end in a newline (or is it empty)
    next_event,     \* event ids handed out
    faults,         \* interrupted writes so far
    acknowledged,   \* events some append returned Ok for
    checkpoints,    \* the checkpoint file: type -> last sequence, 0 for none
    delivered       \* events the projection of each type has applied

file == <<form, lines, ended>>
projection == <<checkpoints, delivered>>
vars == <<file, next_event, faults, acknowledged, projection>>

-------------------------------------------------------------------------------
Whole(event) == [event |-> event, whole |-> TRUE]
Torn(event) == [event |-> event, whole |-> FALSE]
Line(event) == <<Whole(event)>>

Parses(line) == Len(line) = 1 /\ line[1].whole

(* Mutant: no line may fail to parse. *)
MutReadable == \A i \in 1..Len(lines) : Parses(lines[i])

(* parse_json_lines: one line that does not parse is tolerated, at the end *)
(* of the file; anywhere else it is an error of every read and append.     *)
Readable == \A i \in 1..(Len(lines) - 1) : Parses(lines[i])

Values ==
    LET count == IF lines = <<>> \/ Parses(lines[Len(lines)]) THEN Len(lines)
                 ELSE Len(lines) - 1
    IN  [i \in 1..count |-> lines[i][1].event]

Stored == {Values[i] : i \in DOMAIN Values}
Stream(id) == {event \in Stored : event.id = id}

Highest(S) == Max(S \cup {0})

(* The scan at the start of append. *)
CurrentRevision(id) == Highest({event.revision : event \in Stream(id)})

(* Mutant: only the events of the aggregate's type are counted. *)
MutMaxSequence(id) ==
    Highest({event.sequence : event \in {e \in Stored : TypeOf[e.id] = TypeOf[id]}})

MaxSequence(id) == Highest({event.sequence : event \in Stored})

AnyRevision == [kind |-> "any", revision |-> 0]
NoStream == [kind |-> "no_stream", revision |-> 0]
Exact(r) == [kind |-> "exact", revision |-> r]
ExpectedRevisions == {AnyRevision, NoStream} \cup {Exact(r) : r \in 0..MaxEvents}

Satisfies(expected, actual) ==
    \/ expected.kind = "any"
    \/ expected.kind = "no_stream" /\ actual = 0
    \/ expected.kind = "exact" /\ expected.revision = actual

(* The envelopes an append of n events to id builds. *)
NewEvents(id, n) ==
    [k \in 1..n |-> [event |-> next_event + k - 1, id |-> id,
                     revision |-> CurrentRevision(id) + k,
                     sequence |-> MaxSequence(id) + k]]

-------------------------------------------------------------------------------
Init ==
    \E legacy \in LegacyFiles :
       /\ form = IF legacy = <<>> THEN "missing" ELSE "array"
       /\ lines = [i \in DOMAIN legacy |-> Line(legacy[i])]
       /\ ended = TRUE
       /\ next_event = Len(legacy) + 1
       /\ faults = 0
       /\ acknowledged = {legacy[i] : i \in DOMAIN legacy}
       /\ checkpoints = [t \in Types |-> 0]
       /\ delivered = [t \in Types |-> {}]

(* The lines of the file once the pieces of `batch` have been written at   *)
(* its end: the first one continues a line without newline.                *)
Written(batch) ==
    IF ended \/ batch = <<>> THEN lines \o batch
    ELSE [lines EXCEPT ![Len(lines)] = @ \o batch[1]] \o Tail(batch)

LinesOf(events) == [k \in DOMAIN events |-> Line(events[k])]

(* What is left of the write of `events` when it stops: some whole lines,  *)
(* and possibly the next envelope without its newline or its first bytes.  *)
Prefixes(events) ==
    {SubSeq(LinesOf(events), 1, k) : k \in 0..Len(events)}
CutLines(events) ==
    UNION {{SubSeq(LinesOf(events), 1, k - 1) \o <<<<piece>>>> :
               piece \in {Whole(events[k]), Torn(events[k])}} : k \in DOMAIN events}

CanAppend(id, expected, n) ==
    /\ next_event + n <= MaxEvents + 1
    /\ Readable
    /\ Satisfies(expected, CurrentRevision(id))

(* append returns Ok.  An empty batch is answered without a write.  A      *)
(* missing or legacy file is written anew under another name, with what it *)
(* held and the new lines, and renamed; any other file is appended to.     *)
AppendEvents(id, expected, n) ==
    /\ CanAppend(id, expected, n)
    /\ n > 0
    /\ form' = "lines"
    /\ lines' = Written(LinesOf(NewEvents(id, n)))
    /\ ended' = TRUE
    /\ next_event' = next_event + n
    /\ acknowledged' = acknowledged \cup {NewEvents(id, n)[k] : k \in 1..n}
    /\ UNCHANGED <<faults, projection>>

(* Mutant: the legacy events are not carried over. *)
MutRewriteInterrupted(id, n) ==
    /\ form # "lines"
    /\ \/ UNCHANGED file
       \/ form' = "lines" /\ lines' = LinesOf(NewEvents(id, n)) /\ ended' = TRUE

(* write_atomic stops before or after its rename. *)
RewriteInterrupted(id, n) ==
    /\ form # "lines"
    /\ \/ UNCHANGED file
       \/ form' = "lines" /\ lines' = Written(LinesOf(NewEvents(id, n))) /\ ended' = TRUE

(* write_all or sync_all stops: any prefix may be in the file. *)
AppendInterrupted(id, n) ==
    /\ form = "lines"
    /\ UNCHANGED form
    /\ \/ /\ \E batch \in Prefixes(NewEvents(id, n)) :
                /\ lines' = Written(batch)
                /\ ended' = (ended \/ batch # <<>>)
       \/ /\ \E batch \in CutLines(NewEvents(id, n)) : lines' = Written(batch)
          /\ ended' = FALSE

(* The caller gets an error, or the process is gone. *)
FailedAppend(id, expected, n) ==
    /\ faults < MaxFaults
    /\ faults' = faults + 1
    /\ CanAppend(id, expected, n)
    /\ n > 0
    /\ RewriteInterrupted(id, n) \/ AppendInterrupted(id, n)
    /\ next_event' = next_event + n
    /\ UNCHANGED <<acknowledged, projection>>

(* Mutant: the page is cut in file order and sorted afterwards. *)
MutGlobalRange(type, checkpoint, limit) ==
    LET after == {i \in DOMAIN Values : /\ TypeOf[Values[i].id] = type
                                        /\ Values[i].sequence > checkpoint}
    IN  {Values[i] : i \in {k \in after : Cardinality({j \in after : j <= k}) <= limit}}

(* load_global_range: the type's events after the checkpoint, by sequence, *)
(* at most `limit` of them.                                                *)
GlobalRange(type, checkpoint, limit) ==
    LET after == {e \in Stored : TypeOf[e.id] = type /\ e.sequence > checkpoint}
    IN  {e \in after : Cardinality({d \in after : d.sequence <= e.sequence}) <= limit}

(* save_checkpoint keeps the higher one; its file is replaced by rename. *)
Saved(type, sequence) == [checkpoints EXCEPT ![type] = Max({@, sequence})]

(* One batch of a projection: read, apply, save; a crash between the last  *)
(* two delivers the batch again.                                           *)
Poll(type, limit) ==
    /\ Readable
    /\ LET page == GlobalRange(type, checkpoints[type], limit)
       IN  /\ page # {}
           /\ delivered' = [delivered EXCEPT ![type] = @ \cup page]
           /\ \/ checkpoints' = Saved(type, Max({e.sequence : e \in page})) /\ UNCHANGED faults
              \/ /\ faults < MaxFaults
                 /\ faults' = faults + 1
                 /\ UNCHANGED checkpoints
    /\ UNCHANGED <<file, next_event, acknowledged>>

(* reset_checkpoint, for a rebuild of the read model. *)
Reset(type) ==
    /\ checkpoints' = [checkpoints EXCEPT ![type] = 0]
    /\ delivered' = [delivered EXCEPT ![type] = {}]
    /\ UNCHANGED <<file, next_event, faults, acknowledged>>

Next ==
    \/ \E id \in Ids, expected \in ExpectedRevisions, n \in 1..MaxBatch :
          \/ AppendEvents(id, expected, n)
          \/ FailedAppend(id, expected, n)
    \/ \E type \in Types :
          \/ \E limit \in 1..MaxBatch : Poll(type, limit)
          \/ Reset(type)

Spec == Init /\ [][Next]_vars

-------------------------------------------------------------------------------
(* Streams read from the file are dense and sequences are unique, whatever *)
(* was interrupted before: no revision or sequence is given out twice      *)
(* among the events a reader sees, over any legacy file.                   *)
ReadableStreamsAreDense ==
    Readable =>
       /\ \A id \in Ids : {e.revision : e \in Stream(id)} = 1..Cardinality(Stream(id))
       /\ \A d, e \in Stored : d.sequence = e.sequence => d = e
       /\ Cardinality(Stored) = Len(Values)

(* An event that an append returned Ok for is still in the file, whole:    *)
(* neither the migration of a legacy file nor a write that is interrupted  *)
(* later removes its bytes, even where it can no longer be read.           *)
AcknowledgedBytesRemain ==
    \A e \in acknowledged :
       \E i \in DOMAIN lines : \E j \in DOMAIN lines[i] : lines[i][j] = Whole(e)

(* As long as no append started behind an unfinished line, one crash or    *)
(* I/O error is harmless: the file can be read and every acknowledged      *)
(* event is found.                                                         *)
OneInterruptionIsHarmless ==
    (\A i \in DOMAIN lines : Len(lines[i]) = 1) => Readable /\ acknowledged \subseteq Stored

(* No event appears behind the checkpoint of its type's projection: every  *)
(* event that can be read at or before it has been delivered.  Sequences   *)
(* are drawn from all types together and each type keeps its own           *)
(* checkpoint, saved apart from the events.                                *)
NothingBehindTheCheckpoint ==
    Readable =>
       \A type \in Types : \A e \in Stored :
          TypeOf[e.id] = type /\ e.sequence <= checkpoints[type] => e \in delivered[type]

(* "Appends add lines and fsync before acknowledging, so committed events  *)
(* survive a crash": every acknowledged event can be loaded.               *)
CommittedEventsSurvive == Readable /\ acknowledged \subseteq Stored
===============================================================================
