---------------------------- MODULE SharedObjects ----------------------------
(***************************************************************************)
(* What atomic_shared_ptr and shared_ptr promise their users: a cell that  *)
(* many threads read and replace, objects that live as long as the cell or *)
(* some shared_ptr refers to them, and that are then destroyed.  There are *)
(* no reference counts here, local or shared.                              *)
(***************************************************************************)
CONSTANTS Threads, Objects, Null

VARIABLES
  cell,   \* the object the atomic_shared_ptr refers to, or Null
  held,   \* held[t]: the objects that shared_ptrs of thread t refer to
  alive   \* the objects that are constructed and not yet destroyed

sharedVars == <<cell, held, alive>>

NonNull(o) == {o} \ {Null}

SharedInit ==
  /\ cell = Null
  /\ held = [t \in Threads |-> {}]
  /\ alive = {}

Create(t, o) ==
  /\ o \notin alive
  /\ alive' = alive \cup {o}
  /\ held' = [held EXCEPT ![t] = @ \cup {o}]
  /\ UNCHANGED cell

\* A thread passes a copy of one of its shared_ptrs to another thread.
Give(t, u, o) ==
  /\ o \in held[t]
  /\ held' = [held EXCEPT ![u] = @ \cup {o}]
  /\ UNCHANGED <<cell, alive>>

Release(t, o) ==
  /\ held' = [held EXCEPT ![t] = @ \ {o}]
  /\ UNCHANGED <<cell, alive>>

Read(t) ==
  /\ held' = [held EXCEPT ![t] = @ \cup NonNull(cell)]
  /\ UNCHANGED <<cell, alive>>

\* store, exchange and a compare_exchange that succeeds: the thread gives up
\* the shared_ptr it installs and may get the one that was installed.
Replace(t, o) ==
  /\ o \in held[t] \cup {Null}
  /\ cell' = o
  /\ \E rest \in {held[t], held[t] \ {o}} :
       \E previous \in {{}, NonNull(cell)} :
         held' = [held EXCEPT ![t] = rest \cup previous]
  /\ UNCHANGED alive

Referenced(o) == o = cell \/ \E t \in Threads : o \in held[t]

Destroy(o) ==
  /\ o \in alive
  /\ ~ Referenced(o)
  /\ alive' = alive \ {o}
  /\ UNCHANGED <<cell, held>>

SharedNext ==
  \/ \E t \in Threads :
       \/ Read(t)
       \/ Replace(t, Null)
       \/ \E o \in Objects :
            \/ Create(t, o)
            \/ Release(t, o)
            \/ Replace(t, o)
            \/ \E u \in Threads : Give(t, u, o)
  \/ \E o \in Objects : Destroy(o)

SharedSpec == SharedInit /\ [][SharedNext]_sharedVars
=============================================================================
