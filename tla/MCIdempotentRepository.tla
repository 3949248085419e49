------------------------ MODULE MCIdempotentRepository ------------------------
(* Two requests for one account: "withdraw" is accepted once a deposit has *)
(* been made, so that it fails, is released and is retried.                *)
EXTENDS IdempotentRepository

OneTarget == [k \in Keys |-> CHOOSE id \in Ids : TRUE]

AccountAccepts(state, k) ==
    k = "withdraw" => \E i \in DOMAIN state : state[i] = "deposit"
===============================================================================
