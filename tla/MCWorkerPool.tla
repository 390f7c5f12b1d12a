---------------------------- MODULE MCWorkerPool ----------------------------
(***************************************************************************)
(* waiter works on the queue of leaf while it waits for leaf, and other    *)
(* depends on leaf.  In the second program other is in the queue of leaf   *)
(* and waits for waiter.                                                   *)
(***************************************************************************)
EXTENDS WorkerPool

CONSTANTS q1, q2, waiter, leaf, other

MCAssignments == (0 :> {q1, q2}) @@ (1 :> {q2})
MCJobs == {waiter, leaf, other}
MCTarget == (waiter :> q1) @@ (leaf :> q2) @@ (other :> q1)
MCDependencies == (waiter :> {}) @@ (leaf :> {}) @@ (other :> {leaf})
MCAwaits == (waiter :> leaf) @@ (leaf :> None) @@ (other :> None)
MCConsumeFrom == (waiter :> q2) @@ (leaf :> None) @@ (other :> None)

NestedTarget == (waiter :> q1) @@ (leaf :> q2) @@ (other :> q2)
NestedDependencies == [j \in MCJobs |-> {}]
NestedAwaits == (waiter :> leaf) @@ (leaf :> None) @@ (other :> waiter)
=============================================================================
