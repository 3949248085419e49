------------------------- MODULE MCJsonFileEventStore -------------------------
(* An order and a payment share the file.  A legacy file holds two events  *)
(* of the order, in either order; another store starts with no file.       *)
EXTENDS JsonFileEventStore

IdIsType == [id \in Ids |-> id]

Legacy(n) == [event |-> n, id |-> "order", revision |-> n, sequence |-> n]

LegacyArrays == {<<>>, <<Legacy(1), Legacy(2)>>, <<Legacy(2), Legacy(1)>>}
===============================================================================
