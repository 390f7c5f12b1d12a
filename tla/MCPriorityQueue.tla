-------------------------- MODULE MCPriorityQueue --------------------------
(***************************************************************************)
(* One layer of shortcuts, and nodes that come back from the pool.         *)
(***************************************************************************)
EXTENDS PriorityQueue, TLC

Interchangeable == Permutations(Threads) \cup Permutations(Nodes)
=============================================================================
