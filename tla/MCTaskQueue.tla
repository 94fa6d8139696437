----------------------------- MODULE MCTaskQueue -----------------------------
(* TLC instances of TaskQueue: two agent names, of which any subset may get *)
(* a handler before the start.                                              *)
EXTENDS TaskQueue, TLC

Symmetry == Permutations(Agents)
=============================================================================
