-------------------------- MODULE MCConcurrentQueue --------------------------
(***************************************************************************)
(* The smallest rings, so that producers come round them and link larger   *)
(* ones after a few pushes.                                                *)
(***************************************************************************)
EXTENDS ConcurrentQueue

Interchangeable == Permutations(Consumers) \cup Permutations(Producers)
=============================================================================
