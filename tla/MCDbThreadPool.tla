--------------------------- MODULE MCDbThreadPool ---------------------------
(* Instances of DbThreadPool: the threads and the requests are given by    *)
(* the configurations.                                                     *)
EXTENDS DbThreadPool, TLC

Symmetry == Permutations(Threads) \cup Permutations(Requests)
=============================================================================
