------------------------------ MODULE JobOrder ------------------------------
(***************************************************************************)
(* What gdul's job system promises the program that builds a graph of jobs *)
(* with job::depends_on and job::enable: a job is handed to a worker at    *)
(* most once, and never before it has been enabled and every job it        *)
(* depends on has finished its work unit.  Nothing here says how: no       *)
(* counter, no list of dependants, no queue.                               *)
(***************************************************************************)
EXTENDS FiniteSets

CONSTANTS Jobs

VARIABLES
  stage,     \* stage[j]: how far job j is
  requires,  \* requires[j]: the jobs that j was made to depend on
  enabled    \* the jobs enable() has been called for

orderVars == <<stage, requires, enabled>>

Stages == {"held", "scheduled", "running", "finished"}

OrderTypeOK ==
  /\ stage \in [Jobs -> Stages]
  /\ requires \in [Jobs -> SUBSET Jobs]
  /\ enabled \in SUBSET Jobs

Satisfied(j) == \A p \in requires[j] : stage[p] = "finished"

OrderInit ==
  /\ stage = [j \in Jobs |-> "held"]
  /\ requires = [j \in Jobs |-> {}]
  /\ enabled = {}

\* A dependency is accepted only while the job is still held back.
Require(j, p) ==
  /\ stage[j] = "held"
  /\ requires' = [requires EXCEPT ![j] = @ \cup {p}]
  /\ UNCHANGED <<stage, enabled>>

\* Enabling a job may schedule it at once, if nothing holds it back.
Enable(j) ==
  /\ j \notin enabled
  /\ stage[j] = "held"
  /\ enabled' = enabled \cup {j}
  /\ \/ stage' = stage
     \/ Satisfied(j) /\ stage' = [stage EXCEPT ![j] = "scheduled"]
  /\ UNCHANGED requires

\* The caller may instead run the job itself, if nothing holds it back.
EnableAndRun(j) ==
  /\ j \notin enabled
  /\ stage[j] = "held"
  /\ Satisfied(j)
  /\ enabled' = enabled \cup {j}
  /\ stage' = [stage EXCEPT ![j] = "running"]
  /\ UNCHANGED requires

Schedule(j) ==
  /\ j \in enabled
  /\ stage[j] = "held"
  /\ Satisfied(j)
  /\ stage' = [stage EXCEPT ![j] = "scheduled"]
  /\ UNCHANGED <<requires, enabled>>

Run(j) ==
  /\ stage[j] = "scheduled"
  /\ stage' = [stage EXCEPT ![j] = "running"]
  /\ UNCHANGED <<requires, enabled>>

Finish(j) ==
  /\ stage[j] = "running"
  /\ stage' = [stage EXCEPT ![j] = "finished"]
  /\ UNCHANGED <<requires, enabled>>

OrderNext ==
  \E j \in Jobs :
     \/ \E p \in Jobs : Require(j, p)
     \/ Enable(j)
     \/ EnableAndRun(j)
     \/ Schedule(j)
     \/ Run(j)
     \/ Finish(j)

OrderSpec == OrderInit /\ [][OrderNext]_orderVars
=============================================================================
