------------------------- MODULE MCJobDependencies -------------------------
(***************************************************************************)
(* A small graph: the second job may come to depend on the first, and the  *)
(* third on both.  Init picks the arguments of every call, so chains,      *)
(* forks, joins and doubled dependencies are all explored.                 *)
(***************************************************************************)
EXTENDS JobDependencies, TLC

CONSTANTS first, second, third

MCJobs == {first, second, third}
MCMayDepend == {<<second, first>>, <<third, first>>, <<third, second>>}

Interchangeable == Permutations(Links) \cup Permutations(Workers)
=============================================================================
