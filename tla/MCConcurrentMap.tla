-------------------------- MODULE MCConcurrentMap --------------------------
(***************************************************************************)
(* Keys that meet in one gap, and one shortcut layer.                      *)
(***************************************************************************)
EXTENDS ConcurrentMap, TLC

Interchangeable == Permutations(Threads) \cup Permutations(Nodes)
=============================================================================
