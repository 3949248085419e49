--------------------------- MODULE MCProcessManager ---------------------------
(* A batch of two commands. *)
EXTENDS ProcessManager

MCNumCommands == [e \in Events |-> 2]
===============================================================================
