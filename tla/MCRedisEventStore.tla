-------------------------- MODULE MCRedisEventStore --------------------------
(* Two callers share a client; an order and a payment share the prefix,    *)
(* and the order has an event from before ids were stored as plain text.   *)
EXTENDS RedisEventStore

CONSTANTS w1, w2

IdIsType == [id \in Ids |-> id]

Deployment(first, second, ids, feeds, maxAppends, maxFaults, maxEvictions) ==
    [work |-> [w \in Callers |-> IF w = w1 THEN first ELSE second], ids |-> ids,
     feeds |-> feeds, appends |-> maxAppends, faults |-> maxFaults, evictions |-> maxEvictions]

(* Two writers of one stream with lost connections; a writer and a reader, *)
(* each beside an eviction; a reader of the legacy stream beside a writer; *)
(* and a projection beside a writer: of the raw feed, and of a typed feed  *)
(* with a lost connection.                                                 *)
Deployments ==
    {Deployment("append", "append", {"order"}, {}, 2, 2, 0),
     Deployment("append", "none", {"payment"}, {}, 2, 1, 1),
     Deployment("append", "load", {"order"}, {}, 2, 0, 0),
     Deployment("append", "load", {"order", "payment"}, {}, 1, 0, 1),
     Deployment("append", "poll", {"payment"}, {"raw"}, 2, 0, 0),
     Deployment("append", "poll", {"payment"}, {"order"}, 1, 1, 0)}
===============================================================================
