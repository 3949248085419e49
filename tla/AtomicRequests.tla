---------------------------- MODULE AtomicRequests ----------------------------
(***************************************************************************)
(* What the SQL stores promise the commands that are executed on them: a   *)
(* request takes effect in one instant, against the events its stream has  *)
(* in that instant, and at most once, however often its transaction is     *)
(* run.  There are no transactions, revisions, retries or idempotency      *)
(* records here.                                                           *)
(*                                                                         *)
(* A request appends one event.  Under a key it is one of several attempts *)
(* at the same request, of which one takes effect; a plain append ("any    *)
(* revision") is not decided on the stream.                                *)
(***************************************************************************)
EXTENDS Integers, Sequences

CONSTANTS
    Ids,            \* aggregates
    Keys,           \* idempotency keys
    NoKey,          \* a request without one
    Writers,        \* threads that make requests
    Target,         \* key -> aggregate its request addresses
    Accepts(_, _)   \* (keys seen on the aggregate, key) -> is the request accepted

VARIABLES
    log,            \* id -> entries of its stream
    next_event,     \* event ids handed out
    request         \* writer -> its request and how far it is

requestVars == <<log, next_event, request>>

(* An old entry was written by a release that encoded ids differently. *)
Entry(event, key, old) == [event |-> event, key |-> key, old |-> old]
OldEntry == Entry(0, NoKey, TRUE)

Request(status, path, key, id, event, answer, value) ==
    [status |-> status, path |-> path, key |-> key, id |-> id, event |-> event,
     answer |-> answer, value |-> value]

NoRequest == Request("idle", "none", NoKey, "none", 0, "none", {})

Answered(r, answer, value) ==
    Request("answered", r.path, r.key, r.id, r.event, answer, value)

Entries(id) == {log[id][n] : n \in 1..Len(log[id])}

(* A load sees the old entries of a stream only while it has no others. *)
Visible(id) ==
    IF \E e \in Entries(id) : ~e.old THEN {e \in Entries(id) : ~e.old} ELSE Entries(id)

Accepted(r) == Accepts({e.key : e \in Visible(r.id)}, r.key)

(* The events a key has led to. *)
Result(key) == {e.event : e \in {d \in UNION {Entries(id) : id \in Ids} : d.key = key}}

Init ==
    /\ log \in [Ids -> {<<>>, <<OldEntry>>}]
    /\ next_event = 1
    /\ request = [w \in Writers |-> NoRequest]

Invoke(w) ==
    /\ request[w] = NoRequest
    /\ next_event' = next_event + 1
    /\ \/ \E k \in Keys :
             request' = [request EXCEPT ![w] =
                Request("pending", "idempotent", k, Target[k], next_event, "none", {})]
       \/ \E path \in {"execute", "append_any"}, id \in Ids :
             request' = [request EXCEPT ![w] =
                Request("pending", path, NoKey, id, next_event, "none", {})]
    /\ UNCHANGED log

(* The request takes effect.  Its caller learns it, or an error, or nothing *)
(* yet.                                                                     *)
Apply(w) ==
    LET r == request[w]
    IN  /\ r.status = "pending"
        /\ r.path # "append_any" => Accepted(r)
        /\ r.path = "idempotent" => Result(r.key) = {}
        /\ log' = [log EXCEPT ![r.id] = Append(@, Entry(r.event, r.key, FALSE))]
        /\ \E after \in {Request("applied", r.path, r.key, r.id, r.event, "none", {}),
                         Answered(r, "ok", {r.event}),
                         Answered(r, "store_error", {})} :
              request' = [request EXCEPT ![w] = after]
        /\ UNCHANGED next_event

(* The request is refused by the stream it finds. *)
Refuse(w) ==
    /\ request[w].status = "pending"
    /\ request[w].path # "append_any"
    /\ ~Accepted(request[w])
    /\ request' = [request EXCEPT ![w] = Answered(@, "domain_error", {})]
    /\ UNCHANGED <<log, next_event>>

(* Its key has led to events before: they are the answer. *)
Replay(w) ==
    /\ request[w].status \in {"pending", "applied"}
    /\ request[w].path = "idempotent"
    /\ Result(request[w].key) # {}
    /\ request' = [request EXCEPT ![w] = Answered(@, "ok", Result(@.key))]
    /\ UNCHANGED <<log, next_event>>

(* An error, also one whose request has taken effect. *)
Fail(w) ==
    /\ request[w].status \in {"pending", "applied"}
    /\ \E answer \in {"concurrency_error", "store_error", "timeout"} :
          /\ answer = "timeout" => Result(request[w].key) # {}
          /\ request' = [request EXCEPT ![w] = Answered(@, answer, {})]
    /\ UNCHANGED <<log, next_event>>

(* The caller has its answer, or goes away without one. *)
Finish(w) ==
    /\ request[w] # NoRequest
    /\ request' = [request EXCEPT ![w] = NoRequest]
    /\ UNCHANGED <<log, next_event>>

Next ==
    \E w \in Writers :
       Invoke(w) \/ Apply(w) \/ Refuse(w) \/ Replay(w) \/ Fail(w) \/ Finish(w)

Spec == Init /\ [][Next]_requestVars
===============================================================================
