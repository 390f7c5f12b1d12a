--------------------------- MODULE MCUnorderedMap ---------------------------
(***************************************************************************)
(* Hashes that meet in the same buckets of every array.                    *)
(***************************************************************************)
EXTENDS UnorderedMap, TLC

Interchangeable == Permutations(Threads)

\* Arrays that nobody holds any more make no difference.
Held(a) == a = m_items \/ \E t \in Threads : tl[t] = a \/ growing[t].from = a
HeldArrays == <<[a \in DOMAIN arrays |-> IF Held(a) THEN arrays[a] ELSE <<>>],
                m_size, tl, pc, hash, probe, expected, growing, results>>
=============================================================================
