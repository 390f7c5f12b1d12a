-------------------------- MODULE WorkerPoolProofs --------------------------
(***************************************************************************)
(* A worker only asks queues that were stored among its targets, for any   *)
(* number of workers, queues, threads and jobs, as long as one thread of   *)
(* the program makes workers and assigns queues, and makes none in the     *)
(* place of a thread that still runs.                                      *)
(*                                                                         *)
(* The places below m_queueCount are written, and nobody takes a queue     *)
(* from a worker again: it only loses its targets when another is moved to *)
(* its place, and then the threads that look there found it retired.       *)
(***************************************************************************)
EXTENDS WorkerPool, TLAPS

\* What the program sees to.
OneCaller == \A u, v \in Users : u = v

Targets == [0 .. MaxWorkerTargets - 1 -> Queues \cup {None}]
WorkerImpl ==
  [thread : Nat \cup {None}, isEnabled : BOOLEAN, isActive : BOOLEAN, targets : Targets,
   queuePushSync : Nat, queueCount : Nat, queueIndex : Nat]
Ops == {"none", "move", "join", "store", "count", "destroy", "gone"}
Calls == [op : Ops, slot : Slots \cup {None}, queue : Queues \cup {None}, ix : Nat]

Typed ==
  /\ m_workers \in [Slots -> WorkerImpl]
  /\ m_workerIndices \in 0 .. MaxWorkers
  /\ launched \in 0 .. MaxThreads
  /\ slot \in [Threads -> Slots \cup {None}]
  /\ pc \in [Threads -> {"none", "launched", "work", "scan", "end"}]
  /\ queueCount \in [Threads -> Nat]
  /\ left \in [Threads -> Nat]
  /\ call \in [Users -> Calls]

Assigning(u, s) == call[u].op \in {"store", "count"} /\ call[u].slot = s

\* The targets of a worker that are counted are stored.
TargetsStored(s) ==
  /\ m_workers[s].queuePushSync <= MaxWorkerTargets
  /\ m_workers[s].queueCount <= m_workers[s].queuePushSync
  /\ \A i \in 0 .. m_workers[s].queueCount - 1 : m_workers[s].targets[i] # None
  /\ (\A u \in Users : ~Assigning(u, s)) => m_workers[s].queueCount = m_workers[s].queuePushSync
  /\ s >= m_workerIndices => ~m_workers[s].isActive

\* A place is claimed, written and counted by the same caller.
CallUnderWay(u) ==
  /\ call[u].op \in {"store", "count"} =>
       /\ call[u].slot \in Slots
       /\ call[u].queue # None
       /\ call[u].ix = m_workers[call[u].slot].queueCount
       /\ call[u].ix + 1 = m_workers[call[u].slot].queuePushSync
  /\ call[u].op = "count" => m_workers[call[u].slot].targets[call[u].ix] # None
  /\ call[u].op = "move" =>
       /\ call[u].slot \in Slots
       /\ call[u].slot < m_workerIndices
       /\ ~m_workers[call[u].slot].isActive
       /\ \A t \in Threads : slot[t] = call[u].slot => pc[t] # "scan"

\* A thread does not look further than it read m_queueCount.
ThreadAtWork(t) ==
  /\ pc[t] # "none" => slot[t] \in Slots
  /\ pc[t] = "scan" => /\ left[t] <= queueCount[t]
                       /\ queueCount[t] <= m_workers[slot[t]].queueCount

Inv ==
  /\ Typed
  /\ \A s \in Slots : TargetsStored(s)
  /\ \A u \in Users : CallUnderWay(u)
  /\ \A t \in Threads : ThreadAtWork(t)

-----------------------------------------------------------------------------
LEMMA InvInit == Init => Inv
<1> SUFFICES ASSUME Init
             PROVE  Inv
  OBVIOUS
<1>1. NoWorker \in WorkerImpl /\ NoCall \in Calls
  BY DEF NoWorker, NoCall, WorkerImpl, Calls, Targets, Ops
<1>2. Typed
  BY <1>1, PoolAssumption DEF Init, Typed
<1>3. \A s \in Slots : TargetsStored(s)
  BY PoolAssumption DEF Init, TargetsStored, NoWorker
<1>4. \A u \in Users : CallUnderWay(u)
  BY DEF Init, CallUnderWay, NoCall
<1>5. \A t \in Threads : ThreadAtWork(t)
  BY DEF Init, ThreadAtWork
<1> QED BY <1>2, <1>3, <1>4, <1>5 DEF Inv

\* Neither jobs nor stacks matter.
LEMMA JobSteps ==
  ASSUME Inv, UNCHANGED <<workerVars, threadVars, call>>
  PROVE  Inv'
BY DEF Inv, workerVars, threadVars, Typed, TargetsStored, CallUnderWay, ThreadAtWork, Assigning

-----------------------------------------------------------------------------
(***************************************************************************)
(* Threads.                                                                *)
(***************************************************************************)
\* A thread leaves what others rely on.
LEMMA ThreadSteps ==
  ASSUME Inv, NEW t \in Threads, NEW where \in {"work", "scan", "end"},
         NEW n \in Nat, NEW l \in Nat,
         pc[t] # "none",
         pc' = [pc EXCEPT ![t] = where],
         queueCount' = [queueCount EXCEPT ![t] = n],
         left' = [left EXCEPT ![t] = l],
         UNCHANGED <<workerVars, call>>,
         where = "scan" => /\ l <= n /\ n <= m_workers[slot[t]].queueCount
                           /\ m_workers[slot[t]].isActive \/ pc[t] = "scan"
  PROVE  Inv'
<1>1. Typed' /\ pc'[t] = where /\ queueCount'[t] = n /\ left'[t] = l
  BY DEF Inv, Typed, workerVars
<1>2. \A s \in Slots : TargetsStored(s)'
  BY DEF Inv, TargetsStored, Assigning, workerVars
<1>3. ASSUME NEW u \in Threads
      PROVE  ThreadAtWork(u)'
  BY <1>1 DEF Inv, Typed, ThreadAtWork, workerVars
<1>4. ASSUME NEW u \in Users
      PROVE  CallUnderWay(u)'
  <2>1. CallUnderWay(u)
    BY DEF Inv
  <2>2. ASSUME call[u].op = "move", NEW v \in Threads, slot[v] = call[u].slot
        PROVE  pc'[v] # "scan"
    BY <2>1, <2>2 DEF Inv, Typed, CallUnderWay
  <2> QED BY <2>1, <2>2 DEF CallUnderWay, workerVars
<1> QED BY <1>1, <1>2, <1>3, <1>4 DEF Inv

LEMMA SeeEnabledStep ==
  ASSUME Inv, NEW t \in Threads, SeeEnabled(t)
  PROVE  Inv'
<1>1. PICK n \in Nat, l \in Nat : n = queueCount[t] /\ l = left[t]
  BY DEF Inv, Typed
<1>2. queueCount' = [queueCount EXCEPT ![t] = n] /\ left' = [left EXCEPT ![t] = l]
  BY <1>1 DEF SeeEnabled, Inv, Typed
<1>3. pc[t] # "none" /\ pc' = [pc EXCEPT ![t] = "work"] /\ UNCHANGED <<workerVars, call>>
  BY DEF SeeEnabled
<1> QED BY <1>2, <1>3, ThreadSteps

LEMMA WorkStep ==
  ASSUME Inv, NEW t \in Threads, Work(t)
  PROVE  Inv'
<1>1. pc[t] # "none" /\ UNCHANGED <<workerVars, call>>
  BY DEF Work, Unsuccessful
<1>2. slot[t] \in Slots
  BY <1>1 DEF Inv, ThreadAtWork
<1>3. CASE Worker(t).isActive
  <2>1. PICK n \in Nat : n = m_workers[slot[t]].queueCount
    BY <1>2 DEF Inv, Typed, WorkerImpl
  <2>2. pc' = [pc EXCEPT ![t] = "scan"]
        /\ queueCount' = [queueCount EXCEPT ![t] = n] /\ left' = [left EXCEPT ![t] = n]
    BY <1>3, <2>1 DEF Work, Fetch, Worker
  <2>3. n <= n /\ n <= m_workers[slot[t]].queueCount /\ m_workers[slot[t]].isActive
    BY <1>3, <2>1 DEF Worker
  <2> QED BY <1>1, <2>2, <2>3, ThreadSteps
<1>4. CASE ~Worker(t).isActive
  <2>1. pc' = [pc EXCEPT ![t] = "end"]
        /\ queueCount' = [queueCount EXCEPT ![t] = 0] /\ left' = [left EXCEPT ![t] = 0]
    BY <1>4 DEF Work, End
  <2> QED BY <1>1, <2>1, ThreadSteps
<1> QED BY <1>3, <1>4

LEMMA ScanStep ==
  ASSUME Inv, NEW t \in Threads, Scan(t)
  PROVE  Inv'
<1>1. pc[t] = "scan" /\ left[t] > 0 /\ left[t] \in Nat /\ queueCount[t] \in Nat
  BY DEF Scan, Inv, Typed
<1>2. PICK s \in Slots : s = slot[t]
  BY <1>1 DEF Inv, ThreadAtWork
<1>3. left[t] <= queueCount[t] /\ queueCount[t] <= m_workers[s].queueCount
  BY <1>1, <1>2 DEF Inv, ThreadAtWork
<1>4. m_workers[s] \in WorkerImpl /\ m_workers \in [Slots -> WorkerImpl]
  BY DEF Inv, Typed
<1>5. PICK i \in Nat : i = (m_workers[s].queueIndex + 1) % QueueIndices
  BY <1>4, PoolAssumption DEF WorkerImpl
<1>6. m_workers' = [m_workers EXCEPT ![s].queueIndex = i]
  BY <1>2, <1>5 DEF Scan
<1>7. /\ m_workers' \in [Slots -> WorkerImpl]
      /\ \A r \in Slots : /\ m_workers'[r].targets = m_workers[r].targets
                          /\ m_workers'[r].queuePushSync = m_workers[r].queuePushSync
                          /\ m_workers'[r].queueCount = m_workers[r].queueCount
                          /\ m_workers'[r].isActive = m_workers[r].isActive
  BY <1>4, <1>6 DEF WorkerImpl
<1>8. UNCHANGED <<m_workerIndices, launched, slot, call>>
  BY DEF Scan
<1>9. PICK where \in {"work", "scan"}, n \in Nat, l \in Nat :
        /\ pc' = [pc EXCEPT ![t] = where]
        /\ queueCount' = [queueCount EXCEPT ![t] = n]
        /\ left' = [left EXCEPT ![t] = l]
        /\ where = "scan" => l <= n /\ n = queueCount[t]
  <2>1. CASE queue[TargetAhead(t)] = {}
    <3>1. left[t] - 1 \in Nat /\ left[t] - 1 <= queueCount[t]
      BY <1>1, <1>3
    <3>2. pc' = [pc EXCEPT ![t] = "scan"] /\ queueCount' = [queueCount EXCEPT ![t] = queueCount[t]]
          /\ left' = [left EXCEPT ![t] = left[t] - 1]
      BY <1>1, <2>1 DEF Scan, Inv, Typed
    <3> QED BY <1>1, <3>1, <3>2
  <2>2. CASE queue[TargetAhead(t)] # {}
    BY <2>2 DEF Scan, BackToWork
  <2> QED BY <2>1, <2>2
<1>10. Typed'
  BY <1>7, <1>8, <1>9 DEF Inv, Typed
<1>11. \A r \in Slots : TargetsStored(r)'
  BY <1>7, <1>8 DEF Inv, TargetsStored, Assigning
<1>12. ASSUME NEW u \in Users
       PROVE  CallUnderWay(u)'
  <2>1. CallUnderWay(u)
    BY DEF Inv
  <2>2. \A v \in Threads : pc'[v] = "scan" => pc[v] = "scan"
    BY <1>1, <1>9 DEF Inv, Typed
  <2> QED BY <1>7, <1>8, <2>1, <2>2 DEF CallUnderWay
<1>13. ASSUME NEW v \in Threads
       PROVE  ThreadAtWork(v)'
  <2>1. ThreadAtWork(v)
    BY DEF Inv
  <2>2. CASE v = t
    BY <1>2, <1>3, <1>7, <1>8, <1>9, <2>2 DEF ThreadAtWork, Inv, Typed
  <2>3. CASE v # t
    <3>1. pc'[v] = pc[v] /\ left'[v] = left[v] /\ queueCount'[v] = queueCount[v]
      BY <1>9, <2>3 DEF Inv, Typed
    <3>2. pc[v] = "scan" => m_workers'[slot[v]].queueCount = m_workers[slot[v]].queueCount
      BY <1>7, <2>1 DEF ThreadAtWork
    <3> QED BY <1>8, <2>1, <3>1, <3>2 DEF ThreadAtWork
  <2> QED BY <2>2, <2>3
<1> QED BY <1>10, <1>11, <1>12, <1>13 DEF Inv

-----------------------------------------------------------------------------
(***************************************************************************)
(* Calls.                                                                  *)
(***************************************************************************)
\* The caller is between two calls, or its call touches no worker any more.
LEMMA CallEnds ==
  ASSUME OneCaller, Inv, NEW u \in Users, NEW c \in Calls,
         c.op \notin {"store", "count", "move"},
         call[u].op \notin {"store", "count"},
         call' = [call EXCEPT ![u] = c],
         UNCHANGED <<workerVars, threadVars>>
  PROVE  Inv'
<1>1. Typed' /\ call'[u] = c
  BY DEF Inv, Typed, workerVars, threadVars
<1>2. \A v \in Users : v = u
  BY DEF OneCaller
<1>3. \A v \in Users : CallUnderWay(v)'
  BY <1>1, <1>2 DEF CallUnderWay
<1>4. \A s \in Slots : TargetsStored(s)'
  BY <1>2 DEF Inv, TargetsStored, Assigning, workerVars
<1>5. \A t \in Threads : ThreadAtWork(t)'
  BY DEF Inv, ThreadAtWork, workerVars, threadVars
<1> QED BY <1>1, <1>3, <1>4, <1>5 DEF Inv

\* Only threads that have ended look at the place that the new worker gets.
LEMMA MakeWorkerStep ==
  ASSUME OneCaller, Patient, Inv, NEW u \in Users, MakeWorker(u)
  PROVE  Inv'
<1>1. /\ m_workers \in [Slots -> WorkerImpl]
      /\ m_workerIndices \in Slots /\ m_workerIndices \in Nat /\ m_workerIndices < MaxWorkers
      /\ launched + 1 \in Threads
  BY PoolAssumption DEF Inv, Typed, MakeWorker, Slots, Threads
<1>2. PICK s \in Slots, t \in Threads : s = m_workerIndices /\ t = launched + 1
  BY <1>1
<1>3. PICK c \in Calls : c = [NoCall EXCEPT !.op = "move", !.slot = s, !.ix = t]
  <2>1. t \in Nat /\ NoCall \in Calls /\ "move" \in Ops
    BY PoolAssumption DEF Threads, NoCall, Calls, Ops
  <2>2. PICK c : c = [NoCall EXCEPT !.op = "move", !.slot = s, !.ix = t]
    OBVIOUS
  <2>3. c \in Calls
    BY <2>1, <2>2 DEF Calls
  <2> QED BY <2>2, <2>3
<1>4. /\ m_workerIndices' = s + 1 /\ launched' = t
      /\ slot' = [slot EXCEPT ![t] = s] /\ pc' = [pc EXCEPT ![t] = "launched"]
      /\ call' = [call EXCEPT ![u] = c]
      /\ UNCHANGED <<m_workers, queueCount, left>>
      /\ \A v \in Threads : slot[v] = s => pc[v] = "end"
  BY <1>2, <1>3 DEF MakeWorker
<1>5. call[u].op = "none" /\ call'[u] = c /\ c.op = "move" /\ c.slot = s
  BY <1>3, <1>4 DEF MakeWorker, Free, NoCall, Inv, Typed
<1>6. Typed'
  <2>1. s + 1 \in 0 .. MaxWorkers /\ t \in 0 .. MaxThreads
    BY <1>1, <1>2, PoolAssumption DEF Threads
  <2> QED BY <1>4, <2>1 DEF Inv, Typed
<1>7. ~m_workers[s].isActive
  BY <1>1, <1>2 DEF Inv, TargetsStored
<1>8. \A v \in Users : v = u
  BY DEF OneCaller
<1>9. ASSUME NEW r \in Slots
      PROVE  TargetsStored(r)'
  <2>1. r \in Int /\ s \in Int
    BY DEF Slots
  <2>2. TargetsStored(r) /\ (r >= s + 1 => r >= m_workerIndices)
    BY <1>2, <2>1 DEF Inv
  <2> QED BY <1>4, <1>5, <1>8, <2>2 DEF TargetsStored, Assigning
<1>10. \A v \in Threads : slot'[v] = s => pc'[v] # "scan"
  BY <1>4 DEF Inv, Typed
<1>11. CallUnderWay(u)'
  <2>1. s < s + 1
    BY DEF Slots
  <2> QED BY <1>4, <1>5, <1>7, <1>10, <2>1 DEF CallUnderWay
<1>12. ASSUME NEW v \in Threads
       PROVE  ThreadAtWork(v)'
  BY <1>4 DEF Inv, Typed, ThreadAtWork
<1> QED BY <1>6, <1>8, <1>9, <1>11, <1>12 DEF Inv

\* The new worker has no targets, and no thread has looked at those of the old one.
LEMMA MoveWorkerStep ==
  ASSUME OneCaller, Inv, NEW u \in Users, MoveWorker(u)
  PROVE  Inv'
<1>1. /\ call[u].op = "move" /\ call[u].slot \in Slots /\ call[u].slot < m_workerIndices
      /\ \A t \in Threads : slot[t] = call[u].slot => pc[t] # "scan"
      /\ call[u] \in Calls /\ m_workers \in [Slots -> WorkerImpl]
  BY DEF MoveWorker, Inv, CallUnderWay, Typed
<1>2. PICK s \in Slots : s = call[u].slot
  BY <1>1
<1>3. PICK w : w = [NoWorker EXCEPT !.thread = call[u].ix, !.isActive = TRUE]
  OBVIOUS
<1>4. w \in WorkerImpl /\ w.queueCount = 0 /\ w.queuePushSync = 0
  BY <1>1, <1>3 DEF NoWorker, WorkerImpl, Calls, Targets
<1>5. m_workers' = [m_workers EXCEPT ![s] = w]
  BY <1>2, <1>3 DEF MoveWorker
<1>6. PICK c \in Calls : call' = [call EXCEPT ![u] = c] /\ c.op \in {"none", "join"}
  <2>1. CASE m_workers[s].thread = None
    <3>1. NoCall \in Calls /\ NoCall.op = "none"
      BY DEF NoCall, Calls, Ops
    <3>2. call' = [call EXCEPT ![u] = NoCall]
      BY <1>2, <2>1 DEF MoveWorker
    <3> QED BY <3>1, <3>2
  <2>2. CASE m_workers[s].thread # None
    <3>1. m_workers[s].thread \in Nat
      BY <1>1, <2>2 DEF WorkerImpl
    <3>2. PICK c : c = [call[u] EXCEPT !.op = "join", !.ix = m_workers[s].thread]
      OBVIOUS
    <3>3. c \in Calls /\ c.op = "join"
      BY <1>1, <3>1, <3>2 DEF Calls, Ops
    <3>4. call' = [call EXCEPT ![u] = c]
      BY <1>2, <2>2, <3>2 DEF MoveWorker
    <3> QED BY <3>3, <3>4
  <2> QED BY <2>1, <2>2
<1>7. UNCHANGED <<m_workerIndices, launched, slot>> /\ UNCHANGED threadVars
  BY DEF MoveWorker
<1>8. Typed' /\ call'[u] = c
  BY <1>1, <1>4, <1>5, <1>6, <1>7 DEF Inv, Typed, threadVars
<1>9. \A v \in Users : v = u
  BY DEF OneCaller
<1>10. \A v \in Users : CallUnderWay(v)'
  BY <1>6, <1>8, <1>9 DEF CallUnderWay
<1>11. ASSUME NEW r \in Slots
       PROVE  TargetsStored(r)'
  <2>1. CASE r = s
    <3>1. m_workers'[r] = w /\ ~(r >= m_workerIndices)
      BY <1>1, <1>2, <1>5, <2>1 DEF Inv, Typed, Slots
    <3>2. w.queuePushSync <= MaxWorkerTargets
      BY <1>4, PoolAssumption
    <3>3. \A i : i \notin 0 .. w.queueCount - 1
      BY <1>4
    <3> QED BY <1>4, <1>7, <3>1, <3>2, <3>3 DEF TargetsStored
  <2>2. CASE r # s
    <3>1. m_workers'[r] = m_workers[r]
      BY <1>1, <1>5, <2>2
    <3>2. ~Assigning(u, r)
      BY <1>1 DEF Assigning
    <3> QED BY <1>7, <1>9, <3>1, <3>2 DEF Inv, TargetsStored, Assigning
  <2> QED BY <2>1, <2>2
<1>12. ASSUME NEW t \in Threads
       PROVE  ThreadAtWork(t)'
  <2>1. pc'[t] = "scan" => slot[t] \in Slots /\ slot[t] # s /\ m_workers'[slot[t]] = m_workers[slot[t]]
    BY <1>1, <1>2, <1>5, <1>7 DEF Inv, ThreadAtWork, threadVars
  <2> QED BY <1>7, <2>1 DEF Inv, ThreadAtWork, threadVars
<1> QED BY <1>8, <1>10, <1>11, <1>12 DEF Inv

-----------------------------------------------------------------------------
(***************************************************************************)
(* A queue is assigned.                                                    *)
(***************************************************************************)
\* Other workers are not touched, nor is the number of the workers.
LEMMA OtherTargets ==
  ASSUME OneCaller, Inv, NEW u \in Users, NEW s \in Slots, NEW w \in WorkerImpl,
         NEW c \in Calls,
         m_workers' = [m_workers EXCEPT ![s] = w],
         call' = [call EXCEPT ![u] = c],
         UNCHANGED <<m_workerIndices, launched, slot>>, UNCHANGED threadVars,
         w.isActive = m_workers[s].isActive,
         m_workers[s].queueCount <= w.queueCount,
         call[u].op \in {"store", "count"} => call[u].slot = s,
         TargetsStored(s)', CallUnderWay(u)'
  PROVE  Inv'
<1>1. Typed' /\ m_workers \in [Slots -> WorkerImpl] /\ WorkerImpl # {}
  BY DEF Inv, Typed, threadVars
<1>2. \A v \in Users : v = u
  BY DEF OneCaller
<1>3. ASSUME NEW r \in Slots, r # s
      PROVE  TargetsStored(r)'
  <2>1. m_workers'[r] = m_workers[r] /\ ~Assigning(u, r)
    BY <1>1, <1>3 DEF Assigning
  <2>2. m_workers[r].queueCount = m_workers[r].queuePushSync
    BY <1>2, <2>1 DEF Inv, TargetsStored
  <2> QED BY <2>1, <2>2 DEF Inv, TargetsStored
<1>4. ASSUME NEW t \in Threads
      PROVE  ThreadAtWork(t)'
  <2>1. pc[t] = "scan" => /\ slot[t] \in Slots
                          /\ m_workers[slot[t]].queueCount <= m_workers'[slot[t]].queueCount
    <3>1. pc[t] = "scan" => slot[t] \in Slots
      BY DEF Inv, ThreadAtWork
    <3>2. \A r \in Slots : m_workers[r].queueCount <= m_workers'[r].queueCount
      BY <1>1 DEF WorkerImpl
    <3> QED BY <3>1, <3>2
  <2>2. \A r \in Slots : m_workers[r].queueCount \in Nat /\ m_workers'[r].queueCount \in Nat
    BY <1>1 DEF WorkerImpl, Typed
  <2>3. queueCount[t] \in Nat
    BY DEF Inv, Typed
  <2> QED BY <2>1, <2>2, <2>3 DEF Inv, ThreadAtWork, threadVars
<1> QED BY <1>1, <1>2, <1>3, <1>4 DEF Inv

LEMMA AddAssignmentStep ==
  ASSUME OneCaller, Inv, NEW u \in Users, NEW s \in Slots, NEW q \in Queues, AddAssignment(u, s, q)
  PROVE  Inv'
<1>1. m_workers \in [Slots -> WorkerImpl] /\ m_workers[s] \in WorkerImpl /\ call[u].op = "none"
      /\ m_workers[s].queuePushSync < MaxWorkerTargets
  BY DEF Inv, Typed, AddAssignment, Free, NoCall
<1>2. \A v \in Users : v = u
  BY DEF OneCaller
<1>3. m_workers[s].queueCount = m_workers[s].queuePushSync /\ TargetsStored(s)
  BY <1>1, <1>2 DEF Inv, TargetsStored, Assigning
<1>4. PICK n \in Nat : n = m_workers[s].queuePushSync
  BY <1>1 DEF WorkerImpl
<1>5. PICK w : w = [m_workers[s] EXCEPT !.queuePushSync = @ + 1]
  OBVIOUS
<1>6. /\ w \in WorkerImpl /\ w.queuePushSync = n + 1 /\ w.queueCount = n
      /\ w.targets = m_workers[s].targets /\ w.isActive = m_workers[s].isActive
  BY <1>1, <1>3, <1>4, <1>5 DEF WorkerImpl
<1>7. PICK c \in Calls : c = [op |-> "store", slot |-> s, queue |-> q, ix |-> n]
  BY DEF Calls, Ops
<1>8. /\ m_workers' = [m_workers EXCEPT ![s] = w] /\ call' = [call EXCEPT ![u] = c]
      /\ UNCHANGED <<m_workerIndices, launched, slot>> /\ UNCHANGED threadVars
  BY <1>4, <1>5, <1>7 DEF AddAssignment
<1>9. m_workers'[s] = w /\ call'[u] = c
  BY <1>1, <1>8 DEF Inv, Typed
<1>10. Assigning(u, s)'
  BY <1>7, <1>9 DEF Assigning
<1>11. TargetsStored(s)'
  <2>1. w.queuePushSync <= MaxWorkerTargets /\ w.queueCount <= w.queuePushSync
    BY <1>1, <1>4, <1>6, PoolAssumption
  <2>2. m_workers[s].queueCount = n
    BY <1>3, <1>4
  <2> QED BY <1>3, <1>6, <1>8, <1>9, <1>10, <2>1, <2>2 DEF TargetsStored
<1>12. CallUnderWay(u)'
  BY <1>6, <1>7, <1>9, PoolAssumption DEF CallUnderWay
<1>13. m_workers[s].queueCount <= w.queueCount
  BY <1>1, <1>3, <1>4, <1>6
<1> QED BY <1>1, <1>6, <1>8, <1>11, <1>12, <1>13, OtherTargets

LEMMA StoreTargetStep ==
  ASSUME OneCaller, Inv, NEW u \in Users, StoreTarget(u)
  PROVE  Inv'
<1>1. /\ call[u].op = "store" /\ call[u].slot \in Slots /\ call[u] \in Calls
      /\ m_workers \in [Slots -> WorkerImpl] /\ call[u].queue # None
      /\ call[u].ix = m_workers[call[u].slot].queueCount
      /\ call[u].ix + 1 = m_workers[call[u].slot].queuePushSync
  BY DEF StoreTarget, Inv, Typed, CallUnderWay
<1>2. PICK s \in Slots, n \in Nat, q \in Queues :
        s = call[u].slot /\ n = call[u].ix /\ q = call[u].queue
  BY <1>1 DEF Calls
<1>3. m_workers[s] \in WorkerImpl /\ TargetsStored(s) /\ m_workers[s].targets \in Targets
  BY <1>1 DEF Inv, WorkerImpl
<1>4. n \in 0 .. MaxWorkerTargets - 1
  BY <1>1, <1>2, <1>3, PoolAssumption DEF TargetsStored, WorkerImpl
<1>5. PICK a : a = [m_workers[s].targets EXCEPT ![n] = q]
  OBVIOUS
<1>6. a \in Targets /\ a[n] = q /\ \A i \in 0 .. n - 1 : a[i] = m_workers[s].targets[i]
  <2>1. a \in Targets /\ a[n] = q
    BY <1>2, <1>3, <1>4, <1>5 DEF Targets
  <2>2. \A i \in 0 .. n - 1 : i # n /\ i \in 0 .. MaxWorkerTargets - 1
    BY <1>4, PoolAssumption
  <2> QED
    BY <1>3, <1>5, <2>1, <2>2 DEF Targets
<1>7. PICK w : w = [m_workers[s] EXCEPT !.targets = a]
  OBVIOUS
<1>8. /\ w \in WorkerImpl /\ w.queuePushSync = n + 1 /\ w.queueCount = n
      /\ w.targets = a /\ w.isActive = m_workers[s].isActive
  BY <1>1, <1>2, <1>3, <1>6, <1>7 DEF WorkerImpl
<1>9. PICK c \in Calls : c = [call[u] EXCEPT !.op = "count"]
  BY <1>1 DEF Calls, Ops
<1>10. c.op = "count" /\ c.slot = s /\ c.queue = q /\ c.ix = n
  BY <1>1, <1>2, <1>9 DEF Calls
<1>11. /\ m_workers' = [m_workers EXCEPT ![s] = w] /\ call' = [call EXCEPT ![u] = c]
       /\ UNCHANGED <<m_workerIndices, launched, slot>> /\ UNCHANGED threadVars
  BY <1>2, <1>5, <1>7, <1>9 DEF StoreTarget
<1>12. m_workers'[s] = w /\ call'[u] = c
  BY <1>1, <1>11 DEF Inv, Typed
<1>13. Assigning(u, s)'
  BY <1>10, <1>12 DEF Assigning
<1>14. TargetsStored(s)'
  <2>1. m_workers[s].queueCount = n /\ m_workers[s].queuePushSync = n + 1
    BY <1>1, <1>2
  <2>2. w.queuePushSync <= MaxWorkerTargets /\ w.queueCount <= w.queuePushSync
    BY <1>3, <1>8, <2>1 DEF TargetsStored
  <2>3. \A i \in 0 .. w.queueCount - 1 : w.targets[i] # None
    BY <1>3, <1>6, <1>8, <2>1 DEF TargetsStored
  <2> QED BY <1>3, <1>8, <1>11, <1>12, <1>13, <2>2, <2>3 DEF TargetsStored
<1>15. CallUnderWay(u)'
  BY <1>6, <1>8, <1>10, <1>12, PoolAssumption DEF CallUnderWay
<1>16. m_workers[s].queueCount <= w.queueCount
  BY <1>1, <1>2, <1>8
<1> QED BY <1>2, <1>8, <1>11, <1>14, <1>15, <1>16, OtherTargets

LEMMA CountTargetStep ==
  ASSUME OneCaller, Inv, NEW u \in Users, CountTarget(u)
  PROVE  Inv'
<1>1. /\ call[u].op = "count" /\ call[u].slot \in Slots /\ call[u] \in Calls
      /\ m_workers \in [Slots -> WorkerImpl]
      /\ call[u].ix = m_workers[call[u].slot].queueCount
      /\ call[u].ix + 1 = m_workers[call[u].slot].queuePushSync
      /\ m_workers[call[u].slot].targets[call[u].ix] # None
  BY DEF CountTarget, Inv, Typed, CallUnderWay
<1>2. PICK s \in Slots, n \in Nat : s = call[u].slot /\ n = call[u].ix
  BY <1>1 DEF Calls
<1>3. m_workers[s] \in WorkerImpl /\ TargetsStored(s)
  BY <1>1 DEF Inv
<1>4. PICK w : w = [m_workers[s] EXCEPT !.queueCount = @ + 1]
  OBVIOUS
<1>5. /\ w \in WorkerImpl /\ w.queuePushSync = n + 1 /\ w.queueCount = n + 1
      /\ w.targets = m_workers[s].targets /\ w.isActive = m_workers[s].isActive
  BY <1>1, <1>2, <1>3, <1>4 DEF WorkerImpl
<1>6. PICK c \in Calls : c = NoCall
  BY DEF NoCall, Calls, Ops
<1>7. /\ m_workers' = [m_workers EXCEPT ![s] = w] /\ call' = [call EXCEPT ![u] = c]
      /\ UNCHANGED <<m_workerIndices, launched, slot>> /\ UNCHANGED threadVars
  BY <1>2, <1>4, <1>6 DEF CountTarget
<1>8. m_workers'[s] = w /\ call'[u] = c /\ c.op = "none"
  BY <1>1, <1>6, <1>7 DEF Inv, Typed, NoCall
<1>9. TargetsStored(s)'
  <2>1. m_workers[s].queueCount = n /\ m_workers[s].queuePushSync = n + 1
    BY <1>1, <1>2
  <2>2. w.queuePushSync <= MaxWorkerTargets /\ w.queueCount <= w.queuePushSync
    BY <1>3, <1>5, <2>1 DEF TargetsStored
  <2>3. \A i \in 0 .. n - 1 : w.targets[i] # None
    BY <1>3, <1>5, <2>1 DEF TargetsStored
  <2>4. \A i \in 0 .. w.queueCount - 1 : i \in 0 .. n - 1 \/ i = n
    BY <1>5
  <2>5. \A i \in 0 .. w.queueCount - 1 : w.targets[i] # None
    BY <1>1, <1>2, <1>5, <2>3, <2>4
  <2> QED BY <1>3, <1>5, <1>7, <1>8, <2>2, <2>5 DEF TargetsStored
<1>10. CallUnderWay(u)'
  BY <1>8 DEF CallUnderWay
<1>11. m_workers[s].queueCount <= w.queueCount
  BY <1>1, <1>2, <1>5
<1> QED BY <1>2, <1>5, <1>7, <1>9, <1>10, <1>11, OtherTargets

-----------------------------------------------------------------------------
(***************************************************************************)
(* Workers are enabled and retired.                                        *)
(***************************************************************************)
\* None of these touches targets, and a caller is free or ends.
LEMMA FlagSteps ==
  ASSUME OneCaller, Inv, NEW u \in Users, NEW c \in Calls,
         c.op \notin {"store", "count", "move"},
         call[u].op \notin {"store", "count"},
         call' = [call EXCEPT ![u] = c],
         m_workers' \in [Slots -> WorkerImpl],
         \A s \in Slots : /\ m_workers'[s].targets = m_workers[s].targets
                          /\ m_workers'[s].queuePushSync = m_workers[s].queuePushSync
                          /\ m_workers'[s].queueCount = m_workers[s].queueCount
                          /\ m_workers'[s].isActive => m_workers[s].isActive,
         m_workerIndices' \in 0 .. MaxWorkers,
         \A s \in Slots : s >= m_workerIndices' => s >= m_workerIndices \/ ~m_workers'[s].isActive,
         UNCHANGED <<launched, slot>>, UNCHANGED threadVars
  PROVE  Inv'
<1>1. Typed' /\ call'[u] = c
  BY DEF Inv, Typed, threadVars
<1>2. \A v \in Users : v = u
  BY DEF OneCaller
<1>3. \A v \in Users : CallUnderWay(v)'
  BY <1>1, <1>2 DEF CallUnderWay
<1>4. \A s \in Slots : ~Assigning(u, s)
  BY DEF Assigning
<1>5. ASSUME NEW s \in Slots
      PROVE  TargetsStored(s)'
  BY <1>2, <1>4 DEF Inv, TargetsStored
<1>6. ASSUME NEW t \in Threads
      PROVE  ThreadAtWork(t)'
  BY DEF Inv, ThreadAtWork, threadVars
<1> QED BY <1>1, <1>3, <1>5, <1>6 DEF Inv

LEMMA NoCallIsACall == NoCall \in Calls /\ NoCall.op = "none"
BY DEF NoCall, Calls, Ops

LEMMA EnableSteps ==
  ASSUME OneCaller, Inv, NEW u \in Users, NEW s \in Slots, EnableWorker(u, s) \/ DisableWorker(u, s)
  PROVE  Inv'
<1>1. m_workers \in [Slots -> WorkerImpl] /\ call \in [Users -> Calls] /\ m_workerIndices \in 0 .. MaxWorkers
  BY DEF Inv, Typed
<1>2. /\ call[u] = NoCall /\ call' = call
      /\ UNCHANGED <<m_workerIndices, launched, slot>> /\ UNCHANGED threadVars
  BY DEF EnableWorker, DisableWorker, Free
<1>3. call' = [call EXCEPT ![u] = NoCall]
  BY <1>1, <1>2
<1>4. /\ m_workers' \in [Slots -> WorkerImpl]
      /\ \A r \in Slots : /\ m_workers'[r].targets = m_workers[r].targets
                          /\ m_workers'[r].queuePushSync = m_workers[r].queuePushSync
                          /\ m_workers'[r].queueCount = m_workers[r].queueCount
                          /\ m_workers'[r].isActive => m_workers[r].isActive
  <2>1. CASE EnableWorker(u, s)
    BY <1>1, <2>1 DEF EnableWorker, WorkerImpl
  <2>2. CASE DisableWorker(u, s)
    BY <1>1, <2>2 DEF DisableWorker, WorkerImpl
  <2> QED BY <2>1, <2>2
<1>5. m_workerIndices' \in 0 .. MaxWorkers
  BY <1>1, <1>2
<1>6. \A r \in Slots : r >= m_workerIndices' => r >= m_workerIndices \/ ~m_workers'[r].isActive
  BY <1>2
<1> QED BY <1>2, <1>3, <1>4, <1>5, <1>6, NoCallIsACall, FlagSteps

LEMMA ShutdownStep ==
  ASSUME OneCaller, Inv, NEW u \in Users, Shutdown(u)
  PROVE  Inv'
<1>1. m_workers \in [Slots -> WorkerImpl] /\ call \in [Users -> Calls] /\ m_workerIndices \in 0 .. MaxWorkers
  BY DEF Inv, Typed
<1>2. /\ call[u] = NoCall /\ call' = call /\ m_workerIndices' = 0
      /\ UNCHANGED <<launched, slot>> /\ UNCHANGED threadVars
  BY DEF Shutdown, Free
<1>3. call' = [call EXCEPT ![u] = NoCall]
  BY <1>1, <1>2
<1>4. /\ m_workers' \in [Slots -> WorkerImpl]
      /\ \A r \in Slots : /\ m_workers'[r].targets = m_workers[r].targets
                          /\ m_workers'[r].queuePushSync = m_workers[r].queuePushSync
                          /\ m_workers'[r].queueCount = m_workers[r].queueCount
                          /\ m_workers'[r].isActive => m_workers[r].isActive
  BY <1>1 DEF Shutdown, WorkerImpl
<1>5. m_workerIndices' \in 0 .. MaxWorkers
  BY <1>2, PoolAssumption
<1>6. \A r \in Slots : r >= m_workerIndices' => r >= m_workerIndices \/ ~m_workers'[r].isActive
  BY <1>1 DEF Slots, Shutdown, WorkerImpl
<1> QED BY <1>2, <1>3, <1>4, <1>5, <1>6, NoCallIsACall, FlagSteps

LEMMA DestroyStep ==
  ASSUME OneCaller, Inv, NEW u \in Users, Destroy(u)
  PROVE  Inv'
<1>1. m_workers \in [Slots -> WorkerImpl] /\ call \in [Users -> Calls] /\ m_workerIndices \in 0 .. MaxWorkers
  BY DEF Inv, Typed
<1>2. PICK c \in Calls : c = [NoCall EXCEPT !.op = "destroy"] /\ c.op = "destroy"
  <2>1. PICK c : c = [NoCall EXCEPT !.op = "destroy"]
    OBVIOUS
  <2>2. c \in Calls /\ c.op = "destroy"
    BY <2>1, NoCallIsACall DEF Calls, Ops
  <2> QED BY <2>1, <2>2
<1>3. /\ call[u] = NoCall
      /\ UNCHANGED <<m_workerIndices, launched, slot>> /\ UNCHANGED threadVars
  BY DEF Destroy, Free
<1>4. call' = [call EXCEPT ![u] = c]
  BY <1>1, <1>2 DEF Destroy, OneCaller
<1>5. /\ m_workers' \in [Slots -> WorkerImpl]
      /\ \A r \in Slots : /\ m_workers'[r].targets = m_workers[r].targets
                          /\ m_workers'[r].queuePushSync = m_workers[r].queuePushSync
                          /\ m_workers'[r].queueCount = m_workers[r].queueCount
                          /\ m_workers'[r].isActive => m_workers[r].isActive
  BY <1>1 DEF Destroy, WorkerImpl
<1>6. m_workerIndices' \in 0 .. MaxWorkers
  BY <1>1, <1>3
<1>7. \A r \in Slots : r >= m_workerIndices' => r >= m_workerIndices \/ ~m_workers'[r].isActive
  BY <1>3
<1> QED BY <1>2, <1>3, <1>4, <1>5, <1>6, <1>7, NoCallIsACall, FlagSteps

LEMMA JoinedSteps ==
  ASSUME OneCaller, Inv, NEW u \in Users, JoinReplaced(u) \/ Destroyed(u)
  PROVE  Inv'
<1>1. call[u] \in Calls /\ call[u].op \in {"join", "destroy"}
      /\ UNCHANGED workerVars /\ UNCHANGED threadVars
  BY DEF JoinReplaced, Destroyed, Inv, Typed
<1>2. CASE JoinReplaced(u)
  BY <1>1, <1>2, NoCallIsACall, CallEnds DEF JoinReplaced
<1>3. CASE Destroyed(u)
  <2>1. PICK c : c = [call[u] EXCEPT !.op = "gone"]
    OBVIOUS
  <2>3. c \in Calls /\ c.op = "gone"
    BY <1>1, <2>1 DEF Calls, Ops
  <2>2. call' = [call EXCEPT ![u] = c]
    BY <1>3, <2>1 DEF Destroyed
  <2> QED BY <1>1, <2>2, <2>3, CallEnds
<1> QED BY <1>2, <1>3

-----------------------------------------------------------------------------
(***************************************************************************)
(* The invariant.                                                          *)
(***************************************************************************)
LEMMA InvStep == OneCaller /\ Patient /\ Inv /\ [Next]_vars => Inv'
<1> SUFFICES ASSUME OneCaller, Patient, Inv, [Next]_vars
             PROVE  Inv'
  OBVIOUS
<1>1. ASSUME NEW p, Return(p) \/ WorkUntilFinished(p)
      PROVE  Inv'
  BY <1>1, JobSteps DEF Return, WorkUntilFinished
<1>2. ASSUME NEW t \in Threads, launch_worker(t)
      PROVE  Inv'
  BY <1>1, <1>2, SeeEnabledStep, WorkStep, ScanStep DEF launch_worker
<1>3. ASSUME NEW u \in Users, Continue(u)
      PROVE  Inv'
  BY <1>1, <1>3, MoveWorkerStep, StoreTargetStep, CountTargetStep, JoinedSteps DEF Continue
<1>4. ASSUME NEW u \in Users, Begin(u)
      PROVE  Inv'
  <2>1. \A s \in Made : s \in Slots
    BY DEF Made
  <2>2. CASE MakeWorker(u) \/ Shutdown(u) \/ Destroy(u)
    BY <2>2, MakeWorkerStep, ShutdownStep, DestroyStep
  <2>3. ASSUME NEW s \in Made, EnableWorker(u, s) \/ DisableWorker(u, s)
        PROVE  Inv'
    BY <2>1, <2>3, EnableSteps
  <2>4. ASSUME NEW s \in Made, NEW q \in assignments[s], AddAssignment(u, s, q)
        PROVE  Inv'
    <3>1. s \in Slots /\ q \in Queues
      BY <2>1, PoolAssumption DEF Slots
    <3> QED BY <2>4, <3>1, AddAssignmentStep
  <2>5. ASSUME NEW j \in Jobs, EnableJob(u, j) \/ WaitFor(u, j)
        PROVE  Inv'
    BY <2>5, JobSteps DEF EnableJob, WaitFor
  <2> QED BY <1>4, <2>2, <2>3, <2>4, <2>5 DEF Begin
<1>5. CASE UNCHANGED vars
  BY <1>5, JobSteps DEF vars
<1> QED BY <1>2, <1>3, <1>4, <1>5 DEF Next

\* add_assignment and fetch_job: a worker asks only queues that were stored, however
\* its calls and the fetches of the threads meet, through any number of shutdowns
\* and new beginnings, if one thread of the program makes workers and assigns
\* queues to them, and makes none in the place of a thread that still runs.
THEOREM StoredQueuesAreFetched ==
  ASSUME OneCaller, Patient
  PROVE  Spec => []FetchesStored
<1>1. Inv => FetchesStored
  <2> SUFFICES ASSUME Inv, NEW t \in Threads, pc[t] = "scan", left[t] > 0
               PROVE  TargetAhead(t) # None
    BY DEF FetchesStored
  <2>1. PICK s \in Slots : s = slot[t]
    BY DEF Inv, ThreadAtWork
  <2>2. /\ left[t] \in Nat /\ queueCount[t] \in Nat /\ m_workers[s] \in WorkerImpl
        /\ left[t] <= queueCount[t] /\ queueCount[t] <= m_workers[s].queueCount
    BY <2>1 DEF Inv, Typed, ThreadAtWork
  <2>3. PICK i, n \in Nat : i = m_workers[s].queueIndex /\ n = queueCount[t] /\ n > 0
    BY <2>2 DEF WorkerImpl
  <2>4. i \in Nat /\ i % n \in 0 .. n - 1
    BY <2>2, <2>3 DEF WorkerImpl
  <2>5. i % n \in 0 .. m_workers[s].queueCount - 1
    BY <2>2, <2>3, <2>4 DEF WorkerImpl
  <2>6. m_workers[s].targets[i % n] # None
    BY <2>5 DEF Inv, TargetsStored
  <2> QED BY <2>1, <2>3, <2>6 DEF TargetAhead, Worker
<1>2. Init => Inv
  BY InvInit
<1>3. Inv /\ [Next]_vars => Inv'
  BY InvStep
<1>4. Init /\ [][Next]_vars => []FetchesStored
  BY <1>1, <1>2, <1>3, PTL
<1> QED BY <1>4, PTL DEF Spec

=============================================================================
