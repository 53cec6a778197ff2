----------------------------- MODULE MCRunChain -----------------------------
(* Instances of RunChain: the clients and the events are given by the      *)
(* configurations.                                                         *)
EXTENDS RunChain, TLC

Symmetry == Permutations(Clients) \cup Permutations(Events)
=============================================================================
