--------------------------- MODULE MCDatabasePool ---------------------------
(* DatabasePool for TLC: more threads than connections, so that some wait.  *)
(* No symmetry: the queue orders the connections and PoolSpec is temporal.  *)
EXTENDS DatabasePool

=============================================================================
