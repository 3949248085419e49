--------------------------- MODULE MCConnectionPool ---------------------------
(* Threads share two connections, or the single one of a pool that never   *)
(* reconnects; with three of them one waits while two return.              *)
EXTENDS ConnectionPool

===============================================================================
