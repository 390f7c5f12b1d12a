---------------------------- MODULE MCGuardPool ----------------------------
(***************************************************************************)
(* Blocks of two and four items, so that the first is outdated soon.       *)
(***************************************************************************)
EXTENDS GuardPool

Interchangeable == Permutations(Threads)
=============================================================================
