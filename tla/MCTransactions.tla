--------------------------- MODULE MCTransactions ---------------------------
(* Transactions for TLC.  Bounds: three threads over two connections, so    *)
(* that one waits, and a connection left open is borrowed by any of them.   *)
EXTENDS Transactions, TLC

Symmetry == Permutations(Threads) \cup Permutations(Connections)

=============================================================================
