----------------------------- MODULE WorkerPool -----------------------------
(***************************************************************************)
(* The workers of a job handler: how they are made, given queues, enabled  *)
(* and retired, how they fetch jobs, and how a job or a thread of the      *)
(* program waits for another job, either idle or working meanwhile.        *)
(*                                                                         *)
(* Of the jobs there is here what JobOrder promises: a job is in its queue *)
(* once it is enabled and what it depends on has finished.  A queue is a   *)
(* set, of which fetch_job takes any member.                               *)
(***************************************************************************)
EXTENDS Integers, SequencesExt, FiniteSets

CONSTANTS
  MaxWorkers,
  MaxWorkerTargets,
  QueueIndices,      \* values of m_queueIndex (2^8)
  Users,             \* threads of the program that call the job handler
  MaxThreads,        \* bound: how many workers are made
  Queues,
  assignments,       \* assignments[s]: the queues that the worker at s may get
  Jobs,
  target,            \* target[j]: the queue of j
  dependencies,      \* dependencies[j]: the jobs j depends on
  awaits,            \* awaits[j]: the job that j waits for as it runs, or None
  consumeFrom,       \* consumeFrom[j]: the queue it works on meanwhile, or None
  Patient,           \* whether no worker is made in the place of a running thread,
                     \* and each worker is enabled before the shutdown
  None

ASSUME PoolAssumption ==
  /\ {MaxWorkers, MaxWorkerTargets, QueueIndices, MaxThreads} \subseteq Nat \ {0}
  /\ None \notin Queues
  /\ assignments \in [0 .. MaxWorkers - 1 -> SUBSET Queues]
  /\ target \in [Jobs -> Queues]
  /\ dependencies \in [Jobs -> SUBSET Jobs]
  /\ awaits \in [Jobs -> Jobs \cup {None}]
  /\ consumeFrom \in [Jobs -> Queues \cup {None}]
  /\ Patient \in BOOLEAN

Slots == 0 .. MaxWorkers - 1
Threads == 1 .. MaxThreads

VARIABLES
  m_workers,
  m_workerIndices,
  launched,    \* how many threads were ever launched
  slot,        \* slot[t]: the worker that thread t works for
  pc,          \* where a thread is in launch_worker
  queueCount,  \* what fetch_job read of m_queueCount
  left,        \* how many queues fetch_job will still look at
  stack,       \* stack[p]: the jobs and waits that a thread or a user is in
  call,        \* call[u]: what u is doing with the job handler
  queue,       \* queue[q]: the jobs in q
  enabled,     \* the jobs that were enabled
  finished     \* the jobs with m_finished

workerVars == <<m_workers, m_workerIndices, launched, slot>>
threadVars == <<pc, queueCount, left>>
jobVars == <<queue, enabled, finished>>
vars == <<workerVars, threadVars, stack, call, jobVars>>

\* A worker_impl that nobody has been moved to.
NoWorker ==
  [thread |-> None, isEnabled |-> FALSE, isActive |-> FALSE,
   targets |-> [i \in 0 .. MaxWorkerTargets - 1 |-> None],
   queuePushSync |-> 0, queueCount |-> 0, queueIndex |-> 0]

NoCall == [op |-> "none", slot |-> None, queue |-> None, ix |-> 0]

Init ==
  /\ m_workers = [s \in Slots |-> NoWorker]
  /\ m_workerIndices = 0
  /\ launched = 0
  /\ slot = [t \in Threads |-> None]
  /\ pc = [t \in Threads |-> "none"]
  /\ queueCount = [t \in Threads |-> 0]
  /\ left = [t \in Threads |-> 0]
  /\ stack = [p \in Threads \cup Users |-> << >>]
  /\ call = [u \in Users |-> NoCall]
  /\ queue = [q \in Queues |-> {}]
  /\ enabled = {}
  /\ finished = {}

-----------------------------------------------------------------------------
\* Jobs.

\* Enabled jobs whose dependencies have finished go to their queues.
Submit(js) == queue' = [q \in Queues |-> queue[q] \cup {j \in js : target[j] = q}]

Ready(j, done) == dependencies[j] \subseteq done

\* What a job, or a user, waits for, and where it takes jobs from until then.
Frame(j) == [job |-> j, awaits |-> awaits[j], from |-> consumeFrom[j]]

\* consume_job: the job is run on top of whatever the thread is in.
Consume(p, q) ==
  \E j \in queue[q] :
    /\ queue' = [queue EXCEPT ![q] = @ \ {j}]
    /\ stack' = [stack EXCEPT ![p] = Append(@, Frame(j))]

Waiting(p) == Last(stack[p]).awaits \notin finished \cup {None}

\* Mutant: the jobs that depended on it are not looked at.
Return_Alone(p) ==
  /\ stack[p] # << >> /\ ~Waiting(p)
  /\ stack' = [stack EXCEPT ![p] = Front(@)]
  /\ finished' = finished \cup ({Last(stack[p]).job} \ {None})
  /\ UNCHANGED <<workerVars, threadVars, call, enabled, queue>>

\* The work unit, or the waiting call of a user, comes to its end.  A job is
\* finished then, and its dependants are submitted.
Return(p) ==
  /\ stack[p] # << >> /\ ~Waiting(p)
  /\ stack' = [stack EXCEPT ![p] = Front(@)]
  /\ LET done == finished \cup ({Last(stack[p]).job} \ {None}) IN
       /\ finished' = done
       /\ Submit({j \in enabled : Ready(j, done) /\ ~Ready(j, finished)})
  /\ UNCHANGED <<workerVars, threadVars, call, enabled>>

\* work_until_finished takes one job more.  What it waits for may be below it on
\* the same stack.
WorkUntilFinished(p) ==
  /\ stack[p] # << >> /\ Waiting(p)
  /\ Last(stack[p]).from # None
  /\ Consume(p, Last(stack[p]).from)
  /\ UNCHANGED <<workerVars, threadVars, call, enabled, finished>>

-----------------------------------------------------------------------------
\* The thread of a worker: launch_worker.
Worker(t) == m_workers[slot[t]]

SeeEnabled(t) ==
  /\ pc[t] = "launched"
  /\ Worker(t).isEnabled
  /\ pc' = [pc EXCEPT ![t] = "work"]
  /\ UNCHANGED <<workerVars, queueCount, left, stack, call, jobVars>>

\* No queue has a job.  Idling changes nothing.
Unsuccessful(t) == pc[t] = "scan" /\ left[t] = 0

Fetch(t) ==
  /\ pc' = [pc EXCEPT ![t] = "scan"]
  /\ queueCount' = [queueCount EXCEPT ![t] = Worker(t).queueCount]
  /\ left' = [left EXCEPT ![t] = Worker(t).queueCount]

BackToWork(t) ==
  /\ pc' = [pc EXCEPT ![t] = "work"]
  /\ queueCount' = [queueCount EXCEPT ![t] = 0]
  /\ left' = [left EXCEPT ![t] = 0]

End(t) ==
  /\ pc' = [pc EXCEPT ![t] = "end"]
  /\ queueCount' = [queueCount EXCEPT ![t] = 0]
  /\ left' = [left EXCEPT ![t] = 0]

\* Mutant: the worker looks whether it was enabled, which it stays for good.
Work_Enabled(t) ==
  /\ pc[t] = "work" \/ Unsuccessful(t)
  /\ stack[t] = << >>
  /\ IF Worker(t).isEnabled THEN Fetch(t) ELSE End(t)
  /\ UNCHANGED <<workerVars, stack, call, jobVars>>

\* work: as long as the worker is not retired, it looks through the queues it has
\* now.  Both reads are one step: who retires a worker does not assign queues to
\* it at the same time, and only then their order shows.
Work(t) ==
  /\ pc[t] = "work" \/ Unsuccessful(t)
  /\ stack[t] = << >>
  /\ IF Worker(t).isActive THEN Fetch(t) ELSE End(t)
  /\ UNCHANGED <<workerVars, stack, call, jobVars>>

\* Which queue fetch_job looks at next.
TargetAhead(t) == Worker(t).targets[Worker(t).queueIndex % queueCount[t]]

\* Mutant: each fetch begins at the queue where the last one began.
Scan_Again(t) ==
  /\ pc[t] = "scan" /\ left[t] > 0 /\ TargetAhead(t) # None
  /\ IF queue[TargetAhead(t)] = {}
       THEN /\ left' = [left EXCEPT ![t] = @ - 1]
            /\ UNCHANGED <<pc, queueCount, stack, queue>>
       ELSE /\ Consume(t, TargetAhead(t))
            /\ BackToWork(t)
  /\ UNCHANGED <<workerVars, call, enabled, finished>>

\* The queue is asked for a job.  m_queueIndex wraps around, and then a queue may
\* be passed over.
Scan(t) ==
  /\ pc[t] = "scan" /\ left[t] > 0 /\ TargetAhead(t) # None
  /\ m_workers' = [m_workers EXCEPT ![slot[t]].queueIndex = (@ + 1) % QueueIndices]
  /\ IF queue[TargetAhead(t)] = {}
       THEN /\ left' = [left EXCEPT ![t] = @ - 1]
            /\ UNCHANGED <<pc, queueCount, stack, queue>>
       ELSE /\ Consume(t, TargetAhead(t))
            /\ BackToWork(t)
  /\ UNCHANGED <<m_workerIndices, launched, slot, call, enabled, finished>>

-----------------------------------------------------------------------------
\* Users.
Free(u) == call[u] = NoCall /\ stack[u] = << >>

\* make_worker claims an index and launches the thread, which waits for m_isEnabled
\* of a worker that is not in its place yet.
MakeWorker(u) ==
  /\ Free(u)
  /\ launched < MaxThreads /\ m_workerIndices < MaxWorkers
  /\ Patient => \A t \in Threads : slot[t] = m_workerIndices => pc[t] = "end"
  /\ m_workerIndices' = m_workerIndices + 1
  /\ launched' = launched + 1
  /\ slot' = [slot EXCEPT ![launched + 1] = m_workerIndices]
  /\ pc' = [pc EXCEPT ![launched + 1] = "launched"]
  /\ call' = [call EXCEPT ![u] = [NoCall EXCEPT !.op = "move", !.slot = m_workerIndices,
                                                !.ix = launched + 1]]
  /\ UNCHANGED <<m_workers, queueCount, left, stack, jobVars>>

\* The worker is moved to its place, where it is active from now on.  The thread
\* that was there, if any, is joined.
MoveWorker(u) ==
  LET s == call[u].slot IN
  /\ call[u].op = "move"
  /\ m_workers' = [m_workers EXCEPT ![s] = [NoWorker EXCEPT !.thread = call[u].ix,
                                                            !.isActive = TRUE]]
  /\ call' = [call EXCEPT ![u] = IF m_workers[s].thread = None THEN NoCall
                                 ELSE [@ EXCEPT !.op = "join", !.ix = m_workers[s].thread]]
  /\ UNCHANGED <<m_workerIndices, launched, slot, threadVars, stack, jobVars>>

JoinReplaced(u) ==
  /\ call[u].op = "join" /\ pc[call[u].ix] = "end"
  /\ call' = [call EXCEPT ![u] = NoCall]
  /\ UNCHANGED <<workerVars, threadVars, stack, jobVars>>

\* Workers whose handles make_worker has returned.
Made ==
  {s \in Slots : /\ m_workers[s].thread # None
                 /\ \A u \in Users : call[u].op \in {"move", "join"} => call[u].slot # s}

\* add_assignment claims a place among the targets,
AddAssignment(u, s, q) ==
  /\ Free(u) /\ s < m_workerIndices
  /\ m_workers[s].queuePushSync < MaxWorkerTargets
  /\ \A i \in 0 .. MaxWorkerTargets - 1 : m_workers[s].targets[i] # q
  /\ m_workers' = [m_workers EXCEPT ![s].queuePushSync = @ + 1]
  /\ call' = [call EXCEPT ![u] = [op |-> "store", slot |-> s, queue |-> q,
                                  ix |-> m_workers[s].queuePushSync]]
  /\ UNCHANGED <<m_workerIndices, launched, slot, threadVars, stack, jobVars>>

\* Mutant: raises m_queueCount first.
StoreTarget_Late(u) ==
  /\ call[u].op = "store"
  /\ m_workers' = [m_workers EXCEPT ![call[u].slot].queueCount = @ + 1]
  /\ call' = [call EXCEPT ![u].op = "count"]
  /\ UNCHANGED <<m_workerIndices, launched, slot, threadVars, stack, jobVars>>

\* stores the queue there,
StoreTarget(u) ==
  /\ call[u].op = "store"
  /\ m_workers' = [m_workers EXCEPT ![call[u].slot].targets[call[u].ix] = call[u].queue]
  /\ call' = [call EXCEPT ![u].op = "count"]
  /\ UNCHANGED <<m_workerIndices, launched, slot, threadVars, stack, jobVars>>

\* and raises m_queueCount, which the worker looks at.
CountTarget(u) ==
  /\ call[u].op = "count"
  /\ m_workers' = [m_workers EXCEPT ![call[u].slot].queueCount = @ + 1]
  /\ call' = [call EXCEPT ![u] = NoCall]
  /\ UNCHANGED <<m_workerIndices, launched, slot, threadVars, stack, jobVars>>

EnableWorker(u, s) ==
  /\ Free(u) /\ s < m_workerIndices /\ ~m_workers[s].isEnabled
  /\ m_workers' = [m_workers EXCEPT ![s].isEnabled = TRUE]
  /\ UNCHANGED <<m_workerIndices, launched, slot, threadVars, stack, call, jobVars>>

\* disable retires a single worker.
DisableWorker(u, s) ==
  /\ Free(u) /\ s < m_workerIndices /\ m_workers[s].isActive
  /\ m_workers' = [m_workers EXCEPT ![s].isActive = FALSE]
  /\ UNCHANGED <<m_workerIndices, launched, slot, threadVars, stack, call, jobVars>>

EnableJob(u, j) ==
  /\ Free(u) /\ j \notin enabled
  /\ enabled' = enabled \cup {j}
  /\ Submit({k \in {j} : Ready(k, finished)})
  /\ UNCHANGED <<workerVars, threadVars, stack, call, finished>>

\* wait_until_finished, or work_until_finished on a queue.
WaitFor(u, j) ==
  /\ Free(u) /\ j \in enabled \ finished
  /\ \E q \in {target[j], None} :
       stack' = [stack EXCEPT ![u] = <<[job |-> None, awaits |-> j, from |-> q]>>]
  /\ UNCHANGED <<workerVars, threadVars, call, jobVars>>

\* The program shuts down when its jobs have finished, and nobody else is at it.
Shutdown(u) ==
  /\ \A v \in Users : Free(v)
  /\ m_workerIndices > 0
  /\ enabled \subseteq finished
  /\ Patient => \A s \in 0 .. m_workerIndices - 1 : m_workers[s].isEnabled
  /\ m_workerIndices' = 0
  /\ m_workers' = [s \in Slots |-> IF s < m_workerIndices
                                     THEN [m_workers[s] EXCEPT !.isActive = FALSE]
                                     ELSE m_workers[s]]
  /\ UNCHANGED <<launched, slot, threadVars, stack, call, jobVars>>

\* The destructor of the job handler disables and joins every worker.
Destroy(u) ==
  /\ \A v \in Users : Free(v)
  /\ launched > 0 /\ m_workerIndices = 0 /\ enabled \subseteq finished
  /\ m_workers' = [s \in Slots |-> [m_workers[s] EXCEPT !.isActive = FALSE]]
  /\ call' = [v \in Users |-> [NoCall EXCEPT !.op = IF u = v THEN "destroy" ELSE "gone"]]
  /\ UNCHANGED <<m_workerIndices, launched, slot, threadVars, stack, jobVars>>

Destroyed(u) ==
  /\ call[u].op = "destroy"
  /\ \A s \in Slots : m_workers[s].thread # None => pc[m_workers[s].thread] = "end"
  /\ call' = [call EXCEPT ![u].op = "gone"]
  /\ UNCHANGED <<workerVars, threadVars, stack, jobVars>>

-----------------------------------------------------------------------------
launch_worker(t) ==
  \/ SeeEnabled(t) \/ Work(t) \/ Scan(t) \/ Return(t) \/ WorkUntilFinished(t)

Continue(u) ==
  \/ MoveWorker(u) \/ JoinReplaced(u) \/ StoreTarget(u) \/ CountTarget(u)
  \/ Return(u) \/ WorkUntilFinished(u) \/ Destroyed(u)

Begin(u) ==
  \/ MakeWorker(u) \/ Shutdown(u) \/ Destroy(u)
  \/ \E s \in Made : EnableWorker(u, s) \/ DisableWorker(u, s)
  \/ \E s \in Made : \E q \in assignments[s] : AddAssignment(u, s, q)
  \/ \E j \in Jobs : EnableJob(u, j) \/ WaitFor(u, j)

Next ==
  \/ \E t \in Threads : launch_worker(t)
  \/ \E u \in Users : Continue(u) \/ Begin(u)

\* A thread goes on as long as it can.  A user ends what it has begun.
Spec ==
  /\ Init /\ [][Next]_vars
  /\ \A t \in Threads : WF_vars(launch_worker(t))
  /\ \A u \in Users : WF_vars(Continue(u))

-----------------------------------------------------------------------------
\* add_assignment: a worker asks only queues that were stored.  Otherwise
\* fetch_job follows a null pointer.
FetchesStored == \A t \in Threads : pc[t] = "scan" /\ left[t] > 0 => TargetAhead(t) # None

\* A queue with a worker that is enabled and has not been retired.
Served(q) ==
  \E s \in Slots : LET w == m_workers[s] IN
    w.isEnabled /\ w.isActive /\ \E i \in 0 .. w.queueCount - 1 : w.targets[i] = q

\* Whether each thread is the first one in its place.
NoneReplaced == \A t, u \in 1 .. launched : slot[t] = slot[u] => t = u

\* With a worker for each queue all jobs finish, those that wait for others and
\* those that others wait for, whatever else the waiting threads take on.  A
\* thread in the place of another may see that one's flags, and end at once.
JobsFinish ==
  <>[](enabled = Jobs /\ NoneReplaced /\ \A q \in Queues : Served(q)) => <>(finished = Jobs)

\* The destructor returns: each thread sees that it is retired, and none is left
\* behind in a wait or in the place of another.
DestructorReturns ==
  \A u \in Users : call[u].op \in {"destroy", "join"} ~> call[u].op \notin {"destroy", "join"}

\* With a worker for each queue all jobs finish, also when its place is not new.
ReplacedWorkersWork ==
  <>[](enabled = Jobs /\ \A q \in Queues : Served(q)) => <>(finished = Jobs)
=============================================================================
