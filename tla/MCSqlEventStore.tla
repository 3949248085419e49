--------------------------- MODULE MCSqlEventStore ---------------------------
(* An aggregate that a request with a key closes: it accepts nothing after *)
(* one, as "close account" does.                                           *)
EXTENDS SqlEventStore

CONSTANTS a, b

OneTarget == [k \in Keys |-> a]

AcceptsUntilClosed(executed, key) == executed \cap Keys = {}

Deployment(dialect, ids, legacy, paths, projection, maxCalls, maxFaults) ==
    [dialect |-> dialect, ids |-> ids, legacy |-> legacy, paths |-> paths,
     projection |-> projection, calls |-> maxCalls, faults |-> maxFaults]

Dialects == {"postgres", "mysql", "sqlite"}
AllPaths == {"execute", "append_any", "idempotent"}

(* Every dialect with one fault; every dialect on a stream with legacy     *)
(* rows; and SQLite with one fault, two streams and a projection.          *)
Deployments ==
    {Deployment(dialect, {a}, {}, AllPaths, FALSE, 3, 1) : dialect \in Dialects}
      \cup {Deployment(dialect, {a}, {a}, AllPaths, FALSE, 3, 0) : dialect \in Dialects}
      \cup {Deployment("sqlite", {a, b}, {}, {"execute"}, TRUE, 3, 1)}

(* Overlapping transactions on two streams, and a projection. *)
TwoStreams == {Deployment("postgres", {a, b}, {}, {"execute"}, TRUE, 2, 0)}

(* A stream written by an old release. *)
LegacyStream == {Deployment("postgres", {a}, {a}, {"execute"}, FALSE, 2, 0)}
===============================================================================
