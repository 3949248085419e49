-------------------------- MODULE MCProjectionRunner --------------------------
(* Two aggregate types with one aggregate each, interleaved in the log.    *)
EXTENDS ProjectionRunner

CONSTANTS r1, r2

IdIsScope == [id \in Ids |-> id]

Deployment(kind, runners, scopes, batchSize, maxEvents, maxFaults) ==
    [kind |-> kind, runners |-> runners, scopes |-> scopes,
     batch_size |-> batchSize, events |-> maxEvents, faults |-> maxFaults]

(* One runner of each kind on both feeds, and two replicas on one feed. *)
Deployments ==
    {Deployment(kind, {r1}, Scopes, 2, 3, 2) : kind \in {"persisted", "in_memory", "owned"}}
      \cup {Deployment("persisted", {r1, r2}, {"order"}, 1, 2, 1)}
===============================================================================
