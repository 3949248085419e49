----------------------------- MODULE MCRepository -----------------------------
(* An account that refuses to go below zero: "withdraw" is refused on an   *)
(* empty account, "transfer" commits two events at once and "inspect"      *)
(* none.  A decision taken on a stale state is then visible in the log.    *)
EXTENDS Repository

Balance(state) ==
    Cardinality({k \in DOMAIN state : state[k] = "deposited"})
       - Cardinality({k \in DOMAIN state : state[k] = "withdrawn"})

AccountHandle(state, command) ==
    CASE command = "deposit" -> [ok |-> TRUE, events |-> <<"deposited">>]
      [] command = "withdraw" ->
            IF Balance(state) > 0 THEN [ok |-> TRUE, events |-> <<"withdrawn">>]
            ELSE [ok |-> FALSE, events |-> <<>>]
      [] command = "transfer" -> [ok |-> TRUE, events |-> <<"deposited", "withdrawn">>]
      [] command = "inspect" -> [ok |-> TRUE, events |-> <<>>]
===============================================================================
