------------------------ MODULE MCThreadLocalMember ------------------------
(***************************************************************************)
(* Objects that get the index of another, and arrays that grow twice.      *)
(***************************************************************************)
EXTENDS ThreadLocalMember, TLC

Interchangeable == Permutations(Threads) \cup Permutations(Objects)
=============================================================================
