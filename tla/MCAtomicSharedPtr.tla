------------------------- MODULE MCAtomicSharedPtr -------------------------
(***************************************************************************)
(* A boundary as small as the number of threads allows, so that words run  *)
(* short of references after one or two loads.                             *)
(***************************************************************************)
EXTENDS AtomicSharedPtr, TLC

Interchangeable == Permutations(Threads) \cup Permutations(Objects)
=============================================================================
