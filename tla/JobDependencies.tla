--------------------------- MODULE JobDependencies ---------------------------
(***************************************************************************)
(* The dependency protocol of gdul's job system (job.cpp, job_impl.cpp,    *)
(* job_queue.cpp and the consuming part of worker_impl.cpp).               *)
(*                                                                         *)
(* Every job has one counter, m_dependencies.  It starts at                *)
(* Job_Enable_Dependencies, grows by one for each dependency and shrinks   *)
(* by one for each dependency that goes away; enable() takes the initial   *)
(* amount off.  Whoever brings it to zero submits the job to its queue.    *)
(* A job also heads a lock-free list of the jobs that wait for it, which   *)
(* the thread that finishes it takes as a whole and releases one by one.   *)
(*                                                                         *)
(* A link is one call of job::depends_on, made by a thread of its own, so  *)
(* that any number of threads may be building the graph, enabling jobs and *)
(* running them at the same time.  Each action is one atomic access to     *)
(* shared memory together with the thread-local work that follows it; a    *)
(* compare-exchange loop over a single counter is one action, because a    *)
(* failed round changes nothing and starts over from the value it read.    *)
(***************************************************************************)
EXTENDS Integers, Sequences, FiniteSets

CONSTANTS
  Jobs,                \* the jobs of the program
  Links,               \* the calls of depends_on the program makes
  Workers,             \* the worker threads
  MayDepend,           \* pairs <<child, parent>> that the program may link
  EnableDependencies,  \* Job_Enable_Dependencies
  Versions,            \* number of versions of an atomic_shared_ptr (MaxVersion + 1)
  None                 \* a null pointer: no link, no job

\* The amount that enable() takes off must exceed any number of dependencies,
\* and no head may be updated so often that its version comes round again.
ASSUME DependencyAssumption ==
  /\ IsFiniteSet(Links)
  /\ MayDepend \subseteq Jobs \X Jobs
  /\ EnableDependencies \in Nat /\ EnableDependencies > Cardinality(Links)
  /\ Versions \in Nat /\ Versions > Cardinality(Links) + 1
  /\ None \notin Links /\ None \notin Jobs

VARIABLES
  \* the fields of job_impl
  m_dependencies,   \* [Jobs -> Nat]
  m_headDependee,   \* the waiting links, oldest first, and the version of the head
  m_finished,       \* [Jobs -> BOOLEAN]
  \* threads inside job::depends_on
  edge,             \* edge[l] = <<child, parent>>, the arguments of call l
  link,             \* how far call l is; once attached, how far its node is
  seen,             \* the head that call l read last
  \* threads inside job::enable and job_impl::operator()
  enabler,          \* how far the call that enabled j is
  phase,            \* how far the thread that executes j is
  detaching,        \* the links that the executor of j still has to release
  \* queues and workers
  queue,            \* queue[j]: how often j is in its target queue
  worker            \* worker[w]: the job that worker w consumes, or None

callVars == <<edge, link, seen>>
runVars == <<phase, detaching, worker>>
vars == <<m_dependencies, m_headDependee, m_finished, edge, link, seen,
          enabler, phase, detaching, queue, worker>>

Child(l) == edge[l][1]
Parent(l) == edge[l][2]

(***************************************************************************)
(* The stages of a call of depends_on:                                     *)
(*   idle       not made                                                   *)
(*   ignored    the child was scheduled already, nothing was linked        *)
(*   attach     the child's counter is raised, the head is to be read      *)
(*   check      the head is read, m_finished is to be read                 *)
(*   exchange   m_finished was false, the head is to be exchanged          *)
(*   late       m_finished was true, the counter is to be lowered again    *)
(*   attached   the node is in the list of the parent                      *)
(*   resubmit   the caller brought the counter to zero and has to submit   *)
(*   release    the executor of the parent brought the counter to zero     *)
(*              and has to submit                                          *)
(*   undone     a late link whose call is over                             *)
(*   released   an attached link whose node is gone                        *)
(***************************************************************************)
LinkStages == {"idle", "ignored", "attach", "check", "exchange", "late",
               "attached", "resubmit", "release", "undone", "released"}

\* The links that are counted in the child's m_dependencies.
Counted == {"attach", "check", "exchange", "late", "attached"}

Phases == {"waiting", "running", "flagged", "detaching", "done"}

Heads == [list : Seq(Links), version : 0 .. Versions - 1]

EmptyHead == [list |-> <<>>, version |-> 0]

\* The node a head points at, and the comparison that compare_exchange makes:
\* the pointer and the version, not what is reachable from the pointer.
FirstDependee(head) ==
  IF head.list = <<>> THEN None ELSE head.list[Len(head.list)]

\* Mutant: a compare-exchange that looks at the pointer alone.
SameWord_IgnoresVersion(a, b) == FirstDependee(a) = FirstDependee(b)

SameWord(a, b) ==
  /\ FirstDependee(a) = FirstDependee(b)
  /\ a.version = b.version

\* Every exchange of an atomic_shared_ptr installs the next version.
NextVersion(v) == (v + 1) % Versions

-----------------------------------------------------------------------------

Init ==
  /\ m_dependencies = [j \in Jobs |-> EnableDependencies]
  /\ m_headDependee = [j \in Jobs |-> EmptyHead]
  /\ m_finished = [j \in Jobs |-> FALSE]
  /\ edge \in [Links -> MayDepend]
  /\ link = [l \in Links |-> "idle"]
  /\ seen = [l \in Links |-> EmptyHead]
  /\ enabler = [j \in Jobs |-> "no"]
  /\ phase = [j \in Jobs |-> "waiting"]
  /\ detaching = [j \in Jobs |-> <<>>]
  /\ queue = [j \in Jobs |-> 0]
  /\ worker = [w \in Workers |-> None]

\* Mutant: the counter is raised without looking for zero first.
DependsOn_Unconditional(l) ==
  /\ link[l] = "idle"
  /\ link' = [link EXCEPT ![l] = "attach"]
  /\ m_dependencies' = [m_dependencies EXCEPT ![Child(l)] = @ + 1]
  /\ UNCHANGED <<m_headDependee, m_finished, edge, seen, enabler, queue>>
  /\ UNCHANGED runVars

\* job::depends_on, up to try_add_dependencies(1): a child whose counter is
\* zero is scheduled already and the call does nothing.
DependsOn(l) ==
  /\ link[l] = "idle"
  /\ IF m_dependencies[Child(l)] = 0
     THEN /\ link' = [link EXCEPT ![l] = "ignored"]
          /\ UNCHANGED m_dependencies
     ELSE /\ link' = [link EXCEPT ![l] = "attach"]
          /\ m_dependencies' = [m_dependencies EXCEPT ![Child(l)] = @ + 1]
  /\ UNCHANGED <<m_headDependee, m_finished, edge, seen, enabler, queue>>
  /\ UNCHANGED runVars

\* try_attach_child: read the head of the parent, version included.
LoadHead(l) ==
  /\ link[l] = "attach"
  /\ seen' = [seen EXCEPT ![l] = m_headDependee[Parent(l)]]
  /\ link' = [link EXCEPT ![l] = "check"]
  /\ UNCHANGED <<m_dependencies, m_headDependee, m_finished, edge, enabler, queue>>
  /\ UNCHANGED runVars

\* try_attach_child: only then read m_finished.
CheckFinished(l) ==
  /\ link[l] = "check"
  /\ link' = [link EXCEPT ![l] =
                IF m_finished[Parent(l)] THEN "late" ELSE "exchange"]
  /\ UNCHANGED <<m_dependencies, m_headDependee, m_finished, edge, seen, enabler, queue>>
  /\ UNCHANGED runVars

\* try_attach_child: put the new node, whose m_next is the head that was
\* read, in place of that head; start over if the head has changed.
ExchangeHead(l) ==
  LET p == Parent(l) IN
  /\ link[l] = "exchange"
  /\ IF SameWord(m_headDependee[p], seen[l])
     THEN /\ m_headDependee' =
               [m_headDependee EXCEPT ![p] =
                  [list |-> Append(seen[l].list, l),
                   version |-> NextVersion(seen[l].version)]]
          /\ link' = [link EXCEPT ![l] = "attached"]
     ELSE /\ link' = [link EXCEPT ![l] = "attach"]
          /\ UNCHANGED m_headDependee
  /\ UNCHANGED <<m_dependencies, m_finished, edge, seen, enabler, queue>>
  /\ UNCHANGED runVars

\* Mutant: a failed attach leaves the dependency in place.
RemoveLate_KeepsCount(l) ==
  /\ link[l] = "late"
  /\ link' = [link EXCEPT ![l] = IF m_dependencies[Child(l)] - 1 = 0 THEN "resubmit" ELSE "undone"]
  /\ UNCHANGED <<m_dependencies, m_headDependee, m_finished, edge, seen, enabler, queue>>
  /\ UNCHANGED runVars

\* Mutant: a failed attach takes the dependency back but never submits.
RemoveLate_NoSubmit(l) ==
  /\ link[l] = "late"
  /\ m_dependencies' = [m_dependencies EXCEPT ![Child(l)] = @ - 1]
  /\ link' = [link EXCEPT ![l] = "undone"]
  /\ UNCHANGED <<m_headDependee, m_finished, edge, seen, enabler, queue>>
  /\ UNCHANGED runVars

\* depends_on after a failed attach: the parent has finished, so the
\* dependency is taken back, and the caller submits the child if it was the
\* last one.
RemoveLate(l) ==
  LET c == Child(l) IN
  /\ link[l] = "late"
  /\ m_dependencies' = [m_dependencies EXCEPT ![c] = @ - 1]
  /\ link' = [link EXCEPT ![l] = IF m_dependencies[c] - 1 = 0 THEN "resubmit" ELSE "undone"]
  /\ UNCHANGED <<m_headDependee, m_finished, edge, seen, enabler, queue>>
  /\ UNCHANGED runVars

\* submit_job by the caller of depends_on.
Resubmit(l) ==
  /\ link[l] = "resubmit"
  /\ queue' = [queue EXCEPT ![Child(l)] = @ + 1]
  /\ link' = [link EXCEPT ![l] = "undone"]
  /\ UNCHANGED <<m_dependencies, m_headDependee, m_finished, edge, seen, enabler>>
  /\ UNCHANGED runVars

\* Mutant: enable submits the job whether or not dependencies are left.
Enable_AlwaysSubmits(j) ==
  /\ m_dependencies[j] >= EnableDependencies
  /\ m_dependencies' = [m_dependencies EXCEPT ![j] = @ - EnableDependencies]
  /\ enabler' = [enabler EXCEPT ![j] = "submit"]
  /\ UNCHANGED <<m_headDependee, m_finished, queue>>
  /\ UNCHANGED callVars
  /\ UNCHANGED runVars

\* job::enable, up to the exchange of the counter.  A job that is enabled
\* already keeps its counter: such a call changes nothing.
Enable(j) ==
  /\ m_dependencies[j] >= EnableDependencies
  /\ m_dependencies' = [m_dependencies EXCEPT ![j] = @ - EnableDependencies]
  /\ enabler' = [enabler EXCEPT ![j] =
                   IF m_dependencies[j] - EnableDependencies = 0 THEN "submit" ELSE "over"]
  /\ UNCHANGED <<m_headDependee, m_finished, queue>>
  /\ UNCHANGED callVars
  /\ UNCHANGED runVars

\* submit_job by the caller of enable.
SubmitEnabled(j) ==
  /\ enabler[j] = "submit"
  /\ queue' = [queue EXCEPT ![j] = @ + 1]
  /\ enabler' = [enabler EXCEPT ![j] = "over"]
  /\ UNCHANGED <<m_dependencies, m_headDependee, m_finished>>
  /\ UNCHANGED callVars
  /\ UNCHANGED runVars

\* Mutant: the caller runs the job although dependencies are left.
EnableLocally_NotReady(j) ==
  /\ m_dependencies[j] >= EnableDependencies
  /\ m_dependencies' = [m_dependencies EXCEPT ![j] = 0]
  /\ enabler' = [enabler EXCEPT ![j] = "over"]
  /\ phase' = [phase EXCEPT ![j] = "running"]
  /\ UNCHANGED <<m_headDependee, m_finished, detaching, queue, worker>>
  /\ UNCHANGED callVars

\* job::enable_locally_if_ready: with no dependency left the caller enables
\* the job and executes it itself.
EnableLocally(j) ==
  /\ m_dependencies[j] = EnableDependencies
  /\ m_dependencies' = [m_dependencies EXCEPT ![j] = 0]
  /\ enabler' = [enabler EXCEPT ![j] = "over"]
  /\ phase' = [phase EXCEPT ![j] = "running"]
  /\ UNCHANGED <<m_headDependee, m_finished, detaching, queue, worker>>
  /\ UNCHANGED callVars

\* worker_impl::work: an idle worker fetches a job and consumes it.
ConsumeJob(w, j) ==
  /\ worker[w] = None
  /\ queue[j] > 0
  /\ queue' = [queue EXCEPT ![j] = @ - 1]
  /\ worker' = [worker EXCEPT ![w] = j]
  /\ phase' = [phase EXCEPT ![j] = "running"]
  /\ UNCHANGED <<m_dependencies, m_headDependee, m_finished, enabler, detaching>>
  /\ UNCHANGED callVars

\* operator(): the work unit returns and m_finished is set.
SetFinished(j) ==
  /\ phase[j] = "running"
  /\ m_finished' = [m_finished EXCEPT ![j] = TRUE]
  /\ phase' = [phase EXCEPT ![j] = "flagged"]
  /\ UNCHANGED <<m_dependencies, m_headDependee, enabler, detaching, queue, worker>>
  /\ UNCHANGED callVars

\* Mutant: the dependants are detached before m_finished is set.
DetachChildren_BeforeFlag(j) ==
  /\ phase[j] = "running"
  /\ detaching' = [detaching EXCEPT ![j] = m_headDependee[j].list]
  /\ m_headDependee' =
       [m_headDependee EXCEPT ![j] =
          [list |-> <<>>, version |-> NextVersion(m_headDependee[j].version)]]
  /\ phase' = [phase EXCEPT ![j] = "detaching"]
  /\ UNCHANGED <<m_dependencies, m_finished, enabler, queue, worker>>
  /\ UNCHANGED callVars

\* detach_children: exchange the head for null and keep what was there.
DetachChildren(j) ==
  /\ phase[j] = "flagged"
  /\ detaching' = [detaching EXCEPT ![j] = m_headDependee[j].list]
  /\ m_headDependee' =
       [m_headDependee EXCEPT ![j] =
          [list |-> <<>>, version |-> NextVersion(m_headDependee[j].version)]]
  /\ phase' = [phase EXCEPT ![j] = "detaching"]
  /\ UNCHANGED <<m_dependencies, m_finished, enabler, queue, worker>>
  /\ UNCHANGED callVars

\* The executor of p is between remove_dependencies and submit_job.
Releasing(p) == \E l \in Links : Parent(l) = p /\ link[l] = "release"

\* detach_next recurses to the end of the list first, so the oldest link goes
\* first: its child loses a dependency.
RemoveDependency(p) ==
  LET l == Head(detaching[p])
      c == Child(l)
  IN
  /\ phase[p] = "detaching"
  /\ ~ Releasing(p)
  /\ detaching[p] # <<>>
  /\ detaching' = [detaching EXCEPT ![p] = Tail(@)]
  /\ m_dependencies' = [m_dependencies EXCEPT ![c] = @ - 1]
  /\ link' = [link EXCEPT ![l] = IF m_dependencies[c] - 1 = 0 THEN "release" ELSE "released"]
  /\ UNCHANGED <<m_headDependee, m_finished, edge, seen, enabler, phase, queue, worker>>

\* submit_job by the executor of the parent.
SubmitReleased(l) ==
  /\ link[l] = "release"
  /\ queue' = [queue EXCEPT ![Child(l)] = @ + 1]
  /\ link' = [link EXCEPT ![l] = "released"]
  /\ UNCHANGED <<m_dependencies, m_headDependee, m_finished, edge, seen, enabler>>
  /\ UNCHANGED runVars

\* operator() returns; a worker that consumed the job is idle again.
Return(j) ==
  /\ phase[j] = "detaching"
  /\ detaching[j] = <<>>
  /\ ~ Releasing(j)
  /\ phase' = [phase EXCEPT ![j] = "done"]
  /\ worker' = [w \in Workers |-> IF worker[w] = j THEN None ELSE worker[w]]
  /\ UNCHANGED <<m_dependencies, m_headDependee, m_finished, enabler, detaching, queue>>
  /\ UNCHANGED callVars

-----------------------------------------------------------------------------

\* A thread inside depends_on goes on with its call.
Call(l) ==
  \/ LoadHead(l)
  \/ CheckFinished(l)
  \/ ExchangeHead(l)
  \/ RemoveLate(l)
  \/ Resubmit(l)

\* The thread that executes j goes on.
Execute(j) ==
  \/ SetFinished(j)
  \/ DetachChildren(j)
  \/ RemoveDependency(j)
  \/ \E l \in Links : Parent(l) = j /\ SubmitReleased(l)
  \/ Return(j)

Next ==
  \/ \E l \in Links : DependsOn(l) \/ Call(l)
  \/ \E j \in Jobs :
       \/ Enable(j)
       \/ SubmitEnabled(j)
       \/ EnableLocally(j)
       \/ Execute(j)
       \/ \E w \in Workers : ConsumeJob(w, j)

\* Threads that have begun something go on with it, work units return, and a
\* worker keeps polling.  Nothing forces the program to link or enable jobs.
Fairness ==
  /\ \A l \in Links : WF_vars(Call(l))
  /\ \A j \in Jobs : WF_vars(SubmitEnabled(j)) /\ WF_vars(Execute(j))
  /\ \A w \in Workers : WF_vars(\E j \in Jobs : ConsumeJob(w, j))

SafeSpec == Init /\ [][Next]_vars
Spec == SafeSpec /\ Fairness

-----------------------------------------------------------------------------

\* The variables hold what the code can put there; counters never wrap below
\* zero and versions stay inside their field.
TypeOK ==
  /\ m_dependencies \in [Jobs -> Nat]
  /\ m_headDependee \in [Jobs -> Heads]
  /\ m_finished \in [Jobs -> BOOLEAN]
  /\ edge \in [Links -> MayDepend]
  /\ link \in [Links -> LinkStages]
  /\ seen \in [Links -> Heads]
  /\ enabler \in [Jobs -> {"no", "submit", "over"}]
  /\ phase \in [Jobs -> Phases]
  /\ detaching \in [Jobs -> Seq(Links)]
  /\ queue \in [Jobs -> Nat]
  /\ worker \in [Workers -> Jobs \cup {None}]

Outstanding(j) == {l \in Links : Child(l) = j /\ link[l] \in Counted}

\* m_dependencies is exact at every step of every thread: one for each link
\* that was counted and not yet taken back, plus the amount that enable()
\* takes off.  A missed or a doubled decrement in depends_on or detach_next
\* would show here long before a job fails to run.
DependencyCount ==
  \A j \in Jobs :
    m_dependencies[j] =
      Cardinality(Outstanding(j)) + (IF enabler[j] = "no" THEN EnableDependencies ELSE 0)

\* The links whose thread brought j to zero and has not submitted it yet.
Submitters(j) == {l \in Links : Child(l) = j /\ link[l] \in {"resubmit", "release"}}

Handed(j) ==
  Cardinality(Submitters(j)) + queue[j]
    + (IF enabler[j] = "submit" THEN 1 ELSE 0)
    + (IF phase[j] = "waiting" THEN 0 ELSE 1)

\* From the moment the counter of a job is zero there is exactly one thread,
\* queue entry or executor that has the job, and before that there is none:
\* the three places that submit (enable, depends_on, detach_next) and the one
\* that runs it inline never do so twice, and never all leave it to another.
\* With it the assertion of operator() that the job has not finished holds.
HandedOnce ==
  \A j \in Jobs : Handed(j) = IF m_dependencies[j] = 0 THEN 1 ELSE 0

\* A job does not begin before every job it was made to depend on has
\* finished, also when the parent finishes while depends_on is attaching.
RunsAfterDependencies ==
  \A l \in Links :
    (link[l] \notin {"idle", "ignored"} /\ phase[Child(l)] # "waiting")
      => m_finished[Parent(l)]

\* When operator() of a job has returned, nothing waits in its list: a node
\* attached around the exchange in detach_children is either taken by it or
\* refused, so no dependant is forgotten.
NoForgottenDependant ==
  \A l \in Links : phase[Parent(l)] = "done" => link[l] # "attached"

\* A job that was once given to a queue is never held back again: a late
\* depends_on leaves a counter of zero alone.
ScheduledForGood ==
  [][\A j \in Jobs : m_dependencies[j] = 0 => m_dependencies'[j] = 0]_vars

\* The abstract promise.
StageOf(j) ==
  CASE phase[j] = "running" -> "running"
    [] m_finished[j] -> "finished"
    [] m_dependencies[j] = 0 /\ phase[j] = "waiting" -> "scheduled"
    [] OTHER -> "held"

RequiredOf(j) ==
  {Parent(l) : l \in {k \in Links : Child(k) = j /\ link[k] \notin {"idle", "ignored"}}}

Order == INSTANCE JobOrder WITH
  stage <- [j \in Jobs |-> StageOf(j)],
  requires <- [j \in Jobs |-> RequiredOf(j)],
  enabled <- {j \in Jobs : enabler[j] # "no"}

\* Every step of the protocol is a step of JobOrder or changes nothing there:
\* linking, enabling, scheduling, running and finishing happen in the order
\* the program asked for.
KeepsOrder == Order!OrderSpec

\* If a job and all it can come to depend on are enabled, all of them are
\* executed to the end: no counter is left above zero and no submit is lost.
GraphCompletes ==
  \A G \in SUBSET Jobs :
    (\A e \in MayDepend : e[1] \in G => e[2] \in G)
      => ((\A j \in G : enabler[j] # "no") ~> (\A j \in G : phase[j] = "done"))
=============================================================================
