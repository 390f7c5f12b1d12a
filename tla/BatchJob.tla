------------------------------ MODULE BatchJob ------------------------------
(***************************************************************************)
(* batch_job_impl.h: a root job splits a container into batches, a process *)
(* job calls the program's processor for the items of a batch, pack jobs   *)
(* move what the batches kept together, and an end job finishes the        *)
(* output.  The batch job refers to itself until the end job is done.      *)
(*                                                                         *)
(* The jobs are those of the job graph, of which nothing is used here but  *)
(* the promise in JobOrder.  Items are named by their places in the input, *)
(* places count from zero, and arithmetic on floats is exact, as it is for *)
(* less than 2^24 items.                                                   *)
(***************************************************************************)
EXTENDS Integers, FiniteSets, Sequences

CONSTANTS
  BatchJobMaxSlices,
  InputSizes,        \* bound: the sizes of the input
  AssignedWorkers,   \* bound: the workers assigned to the target queue
  Kinds,             \* the variants of make_batch_job that are used
  OldSize,           \* bound: the size of a separate output container before
  OldItem            \* what such a container holds

AllKinds == {"update", "input", "inputOutput"}

ASSUME BatchAssumption ==
  /\ BatchJobMaxSlices \in Nat \ {0}
  /\ InputSizes \subseteq Nat
  /\ AssignedWorkers \subseteq Nat
  /\ Kinds \subseteq AllKinds
  /\ OldSize \in Nat

VARIABLES
  kind, inputSize, assigned,
  passes,       \* passes[k]: whether the processor returns true for item k
  stage, requires, enabled,  \* of JobOrder
  owner,        \* how far the program is with its batch_job
  locally,      \* m_enableFunc is enable_locally_if_ready
  selfRef,      \* m_selfRef holds a reference
  released,     \* finalize has exchanged m_selfRef
  batch, call,  \* the batch that make_jobs makes the jobs of, and its next call
  output,       \* m_output; the input is the same container unless "inputOutput"
  place,        \* place[i]: the item that batch i goes on with
  outputSize,   \* outputSize[i]: batchOutputSize of batch i
  batchTracker,
  processed     \* processed[k]: how often the processor was called for item k

inputVars == <<kind, inputSize, assigned, passes>>
jobVars == <<stage, requires, enabled>>
ownerVars == <<owner, locally>>
refVars == <<selfRef, released>>
workVars == <<place, outputSize, processed>>
makeVars == <<batch, call>>
vars == <<inputVars, jobVars, ownerVars, refVars, makeVars, output, batchTracker, workVars>>

-----------------------------------------------------------------------------
\* How the input is split.

CeilDiv(a, b) == (a + b - 1) \div b

\* Two batches for each worker that takes jobs from the target.
to_batch_size(size, workers) ==
  LET offset == 2 * (IF workers = 0 THEN 1 ELSE workers)
  IN  IF size \div offset = 0 THEN 1 ELSE size \div offset

\* Mutant: rounds the adjusted size down.
clamp_batch_size_Floor(size, desired) ==
  LET count == CeilDiv(size, desired)
  IN  IF count > BatchJobMaxSlices THEN (desired * count) \div BatchJobMaxSlices ELSE desired

\* Larger batches, if there would be too many of them.
clamp_batch_size(size, desired) ==
  LET count == CeilDiv(size, desired)
  IN  IF count > BatchJobMaxSlices THEN CeilDiv(desired * count, BatchJobMaxSlices) ELSE desired

BatchSize(size, workers) == clamp_batch_size(size, to_batch_size(size, workers))
BatchCount(size, workers) == CeilDiv(size, BatchSize(size, workers))

batchSize == BatchSize(inputSize, assigned)
batchCount == BatchCount(inputSize, assigned)
Batches == 0 .. batchCount - 1
last == batchCount - 1

to_batch_begin(i) == i * batchSize
to_batch_end(i) ==
  IF inputSize < i * batchSize + batchSize THEN inputSize ELSE i * batchSize + batchSize

-----------------------------------------------------------------------------
\* The jobs.

Root == <<"root", 0>>
Process(i) == <<"process", i>>
Pack(i) == <<"pack", i>>
\* Without batches m_end is a copy of m_root.
End == IF batchCount = 0 THEN Root ELSE <<"end", 0>>
\* A job of the program, for depends_on.
Dependency == <<"dependency", 0>>

Jobs == {Root, <<"end", 0>>, Dependency}
          \cup {<<name, i>> : name \in {"process", "pack"}, i \in 0 .. BatchJobMaxSlices - 1}

Order == INSTANCE JobOrder

Enabling(j) == [call |-> "enable", job |-> j]
Requiring(j, p) == [call |-> "depends_on", job |-> j, on |-> p]

\* The job that packs batch i, where the first batch needs no packing.
PackOf(i) == IF i = 0 THEN Process(0) ELSE Pack(i)

\* Mutant: the pack jobs wait for the process jobs only.
MakeBatch_NoChain(i) ==
  IF i \in 1 .. last - 1
    THEN <<Enabling(Process(i)), Requiring(Pack(i), Process(i)), Enabling(Pack(i))>>
    ELSE <<Enabling(Process(i))>>

MakeBatch(i) ==
  IF i \in 1 .. last - 1
    THEN <<Enabling(Process(i)), Requiring(Pack(i), PackOf(i - 1)),
           Requiring(Pack(i), Process(i)), Enabling(Pack(i))>>
    ELSE <<Enabling(Process(i))>>

MakeUpdate(i) == <<Enabling(Process(i)), Requiring(End, Process(i))>>

\* Mutants: the end job does not wait for the last batch, or is not enabled.
MakeEnd_NotForLast ==
  IF batchCount > 1 THEN <<Requiring(End, PackOf(last - 1)), Enabling(End)>>
                    ELSE <<Enabling(End)>>
MakeEnd_NotEnabled ==
  IF batchCount > 1 THEN <<Requiring(End, PackOf(last - 1)), Requiring(End, Process(last))>>
                    ELSE <<Requiring(End, Process(last))>>
\* The end job packs the last batch itself.
MakeEnd ==
  IF batchCount > 1
    THEN <<Requiring(End, PackOf(last - 1)), Requiring(End, Process(last)), Enabling(End)>>
    ELSE <<Requiring(End, Process(last)), Enabling(End)>>

\* make_jobs: a loop over the batches, and what follows it.
Calls(i) ==
  IF i < batchCount
    THEN IF kind = "update" THEN MakeUpdate(i) ELSE MakeBatch(i)
    ELSE IF kind = "update" THEN <<Enabling(End)>> ELSE MakeEnd

AllMade == batchCount = 0 \/ batch > batchCount

-----------------------------------------------------------------------------

resize(container, size) ==
  [k \in 0 .. size - 1 |-> IF k \in DOMAIN container THEN container[k] ELSE OldItem]

Init ==
  /\ kind \in Kinds
  /\ inputSize \in InputSizes
  /\ assigned \in AssignedWorkers
  /\ passes \in [0 .. inputSize - 1 -> IF kind = "update" THEN {TRUE} ELSE BOOLEAN]
  /\ Order!OrderInit
  /\ owner = "made"
  /\ locally = FALSE
  /\ selfRef = FALSE
  /\ released = FALSE
  /\ batch = 0
  /\ call = 1
  /\ output = IF kind = "inputOutput"
                THEN [k \in 0 .. OldSize - 1 |-> OldItem]
                ELSE [k \in 0 .. inputSize - 1 |-> k]
  /\ place = [i \in Batches |-> to_batch_begin(i)]
  /\ outputSize = [i \in Batches |-> 0]
  /\ batchTracker = [i \in 0 .. BatchJobMaxSlices - 1 |-> 0]
  /\ processed = [k \in 0 .. inputSize - 1 |-> 0]

-----------------------------------------------------------------------------
\* The program.

\* batch_job::depends_on, before the program has enabled the batch job.
DependsOn ==
  /\ owner = "made"
  /\ Dependency \notin requires[Root]
  /\ Order!Require(Root, Dependency)
  /\ UNCHANGED <<inputVars, ownerVars, refVars, makeVars, output, batchTracker, workVars>>

\* While nothing depends on it, the other job does not matter.
EnableDependency ==
  /\ Dependency \in requires[Root]
  /\ Order!Enable(Dependency)
  /\ UNCHANGED <<inputVars, ownerVars, refVars, makeVars, output, batchTracker, workVars>>

\* enable() begins with the root job, which workers may take at once.
EnableRoot ==
  /\ owner = "made"
  /\ Order!Enable(Root)
  /\ owner' = "enabling"
  /\ UNCHANGED <<inputVars, locally, refVars, makeVars, output, batchTracker, workVars>>

\* Mutant: the reference is never stored.
StoreSelfRef_Not ==
  /\ owner = "enabling"
  /\ owner' = "enabled"
  /\ UNCHANGED <<inputVars, jobVars, locally, refVars, makeVars, output, batchTracker, workVars>>

\* enable() stores the reference if m_selfRef is null, and returns.
StoreSelfRef ==
  /\ owner = "enabling"
  /\ selfRef' = TRUE
  /\ owner' = "enabled"
  /\ UNCHANGED <<inputVars, jobVars, locally, released, makeVars, output, batchTracker, workVars>>

\* enable_locally_if_ready: the calling thread runs the root job, and all that
\* the root job enables.
EnableLocally ==
  /\ owner = "made"
  /\ Order!EnableAndRun(Root)
  /\ output' = IF batchCount = 0 THEN output ELSE resize(output, inputSize)
  /\ locally' = TRUE
  /\ owner' = "running"
  /\ UNCHANGED <<inputVars, refVars, makeVars, batchTracker, workVars>>

LocalReturns ==
  /\ owner = "running" /\ stage[Root] = "finished"
  /\ owner' = "enabled"
  /\ UNCHANGED <<inputVars, jobVars, locally, refVars, makeVars, output, batchTracker, workVars>>

\* "This object may be discarded once enable has been invoked".
Discard ==
  /\ owner = "enabled"
  /\ owner' = "discarded"
  /\ UNCHANGED <<inputVars, jobVars, locally, refVars, makeVars, output, batchTracker, workVars>>

-----------------------------------------------------------------------------
\* The workers.

ScheduleJob(j) ==
  /\ Order!Schedule(j)
  /\ UNCHANGED <<inputVars, ownerVars, refVars, makeVars, output, batchTracker, workVars>>

\* initialize, unless there are no batches and the root job does nothing.
RunRoot ==
  /\ Order!Run(Root)
  /\ output' = IF batchCount = 0 THEN output ELSE resize(output, inputSize)
  /\ UNCHANGED <<inputVars, ownerVars, refVars, makeVars, batchTracker, workVars>>

RunJob(j) ==
  /\ j # Root
  /\ Order!Run(j)
  /\ UNCHANGED <<inputVars, ownerVars, refVars, makeVars, output, batchTracker, workVars>>

\* Whether make_jobs goes on: a job that it runs itself returns first.
Making ==
  /\ stage[Root] = "running" /\ ~AllMade
  /\ locally => \A j \in Jobs \ {Root, Dependency} : stage[j] # "running"
Called ==
  IF call < Len(Calls(batch)) THEN call' = call + 1 /\ UNCHANGED batch
                              ELSE batch' = batch + 1 /\ call' = 1

MakeDependency ==
  /\ Making
  /\ LET next == Calls(batch)[call] IN
     /\ next.call = "depends_on"
     /\ Order!Require(next.job, next.on)
  /\ Called
  /\ UNCHANGED <<inputVars, ownerVars, refVars, output, batchTracker, workVars>>

MakeEnabled ==
  /\ Making
  /\ LET next == Calls(batch)[call] IN
     /\ next.call = "enable"
     /\ IF ~locally
          THEN Order!Enable(next.job)
          ELSE IF Order!Satisfied(next.job)
            THEN Order!EnableAndRun(next.job)
            ELSE UNCHANGED jobVars
  /\ Called
  /\ UNCHANGED <<inputVars, ownerVars, refVars, output, batchTracker, workVars>>

FinishRoot ==
  /\ Order!Finish(Root)
  /\ AllMade
  /\ locally => \A j \in Jobs \ {Root, Dependency} : stage[j] # "running"
  /\ UNCHANGED <<inputVars, ownerVars, refVars, makeVars, output, batchTracker, workVars>>

FinishDependency ==
  /\ Order!Finish(Dependency)
  /\ UNCHANGED <<inputVars, ownerVars, refVars, makeVars, output, batchTracker, workVars>>

\* work_process, one item: the processor writes to the next place of the batch
\* in the output, or an item that passes is copied there.
ProcessItem(i) ==
  /\ stage[Process(i)] = "running"
  /\ place[i] < to_batch_end(i)
  /\ LET k == place[i]
         target == to_batch_begin(i) + outputSize[i]
     IN  /\ processed' = [processed EXCEPT ![k] = @ + 1]
         /\ output' = IF kind = "inputOutput" THEN [output EXCEPT ![target] = k]
                      ELSE IF kind = "input" /\ passes[k] THEN [output EXCEPT ![target] = output[k]]
                      ELSE output
         /\ outputSize' = [outputSize EXCEPT ![i] = IF kind # "update" /\ passes[k] THEN @ + 1 ELSE @]
         /\ place' = [place EXCEPT ![i] = @ + 1]
  /\ UNCHANGED <<inputVars, jobVars, ownerVars, refVars, makeVars, batchTracker>>

FinishProcess(i) ==
  /\ place[i] = to_batch_end(i)
  /\ batchTracker' = IF kind = "update" THEN batchTracker
                                        ELSE [batchTracker EXCEPT ![i] = outputSize[i]]
  /\ Order!Finish(Process(i))
  /\ UNCHANGED <<inputVars, ownerVars, refVars, makeVars, output, workVars>>

\* work_pack moves the items of batch i to the end of those before.
Packed(i) ==
  LET end == batchTracker[i - 1]
  IN  [k \in DOMAIN output |->
         IF k \in end .. end + batchTracker[i] - 1
           THEN output[to_batch_begin(i) + k - end] ELSE output[k]]
TrackPacked(i) == [batchTracker EXCEPT ![i] = batchTracker[i - 1] + @]

FinishPack(i) ==
  /\ Order!Finish(Pack(i))
  /\ output' = Packed(i)
  /\ batchTracker' = TrackPacked(i)
  /\ UNCHANGED <<inputVars, ownerVars, refVars, makeVars, workVars>>

get_output_size(tracker) == tracker[batchCount - 1]

\* finalize: the last batch is packed, the output gets its size, and the
\* reference is exchanged and dropped.
Finalize ==
  /\ batchCount > 0
  /\ stage[End] = "running" /\ ~released
  /\ LET packs == kind # "update" /\ batchCount > 1
         tracker == IF packs THEN TrackPacked(last) ELSE batchTracker
     IN  /\ batchTracker' = tracker
         /\ output' = IF kind = "update" THEN output
                      ELSE resize(IF packs THEN Packed(last) ELSE output, get_output_size(tracker))
  /\ selfRef' = FALSE
  /\ released' = TRUE
  /\ UNCHANGED <<inputVars, jobVars, ownerVars, makeVars, workVars>>

FinishEnd ==
  /\ batchCount > 0
  /\ released
  /\ Order!Finish(End)
  /\ UNCHANGED <<inputVars, ownerVars, refVars, makeVars, output, batchTracker, workVars>>

-----------------------------------------------------------------------------

Program ==
  \/ DependsOn
  \/ EnableDependency
  \/ EnableRoot
  \/ StoreSelfRef
  \/ EnableLocally
  \/ LocalReturns
  \/ Discard

Work ==
  \/ \E j \in Jobs : ScheduleJob(j) \/ RunJob(j)
  \/ RunRoot
  \/ MakeDependency
  \/ MakeEnabled
  \/ FinishRoot
  \/ FinishDependency
  \/ \E i \in Batches : ProcessItem(i) \/ FinishProcess(i) \/ FinishPack(i)
  \/ Finalize
  \/ FinishEnd

Next == Program \/ Work

SafeSpec == Init /\ [][Next]_vars

\* A program that has begun to enable its batch job does the rest, and enables
\* what the batch job depends on; workers take and run every scheduled job.
Spec ==
  /\ SafeSpec
  /\ WF_vars(EnableDependency)
  /\ WF_vars(StoreSelfRef)
  /\ WF_vars(LocalReturns)
  /\ WF_vars(Work)

-----------------------------------------------------------------------------
\* Properties.

\* Type invariant.
TypeOK ==
  /\ Order!OrderTypeOK
  /\ owner \in {"made", "enabling", "running", "enabled", "discarded"}
  /\ {locally, selfRef, released} \subseteq BOOLEAN
  /\ batch \in 0 .. batchCount + 1 /\ call \in 1 .. Len(Calls(batch))
  /\ \A k \in DOMAIN output : output[k] \in (0 .. inputSize - 1) \cup {OldItem}
  /\ \A i \in Batches : place[i] \in to_batch_begin(i) .. to_batch_end(i)
  /\ \A i \in Batches : outputSize[i] \in 0 .. place[i]
  /\ \A i \in DOMAIN batchTracker : batchTracker[i] \in 0 .. inputSize

\* m_batchTracker is an array of BatchJobMaxSlices entries, and there are never
\* more batches, whatever the size of the input and the number of workers.
SlicesFit == batchCount <= BatchJobMaxSlices

\* The job objects hold a plain pointer to the batch job.  It is alive while
\* one of its jobs may still follow that pointer.
Alive == owner # "discarded" \/ selfRef
MayUse(j) ==
  /\ j \in enabled \ {Dependency} /\ stage[j] # "finished"
  /\ ~(j = End /\ released)
  /\ ~(j = Root /\ stage[j] = "running" /\ AllMade)
OutlivesItsJobs == (batchCount > 0 /\ \E j \in Jobs : MayUse(j)) => Alive

\* The places of the output that the work of a running job reads or writes.
Places(i, size) == to_batch_begin(i) .. to_batch_begin(i) + size - 1
PackPlaces(i) ==
  Places(i, batchTracker[i])
    \cup (batchTracker[i - 1] .. batchTracker[i - 1] + batchTracker[i] - 1)
PlacesOf(j) ==
  CASE j[1] = "process" -> to_batch_begin(j[2]) .. to_batch_end(j[2]) - 1
    [] j[1] = "pack" -> PackPlaces(j[2])
    [] j[1] = "end" -> DOMAIN output
    [] OTHER -> {}
\* The entries of m_batchTracker that it reads or writes.
EntriesOf(j) ==
  CASE j[1] = "process" -> {j[2]}
    [] j[1] = "pack" -> {j[2] - 1, j[2]}
    [] j[1] = "end" -> DOMAIN batchTracker
    [] OTHER -> {}

\* The containers and the tracker are not synchronised: jobs that run at the
\* same time never touch the same item or the same entry.
DisjointAccess ==
  \A j \in Jobs, q \in Jobs :
    (j # q /\ stage[j] = "running" /\ stage[q] = "running" /\ ~released) =>
      /\ PlacesOf(j) \cap PlacesOf(q) = {}
      /\ EntriesOf(j) \cap EntriesOf(q) = {}

\* "Processor called for each element" and "outputs the (potentially reduced) set
\* of input items": whoever finds the batch job finished finds that each item was
\* processed once, and the items that pass in the output, in their order and
\* nothing else, and get_output_size says how many they are.
FinalOutput ==
  stage[End] = "finished" =>
    /\ \A k \in DOMAIN processed : processed[k] = 1
    /\ (kind # "update" /\ inputSize > 0) =>
         /\ DOMAIN output = 0 .. get_output_size(batchTracker) - 1
         /\ {output[a] : a \in DOMAIN output} = {k \in 0 .. inputSize - 1 : passes[k]}
         /\ \A a, b \in DOMAIN output : a < b => output[a] < output[b]

\* The same of an input without items, of which there is nothing to output.
EmptyOutput ==
  (stage[End] = "finished" /\ kind # "update" /\ inputSize = 0) =>
    /\ output = << >>
    /\ batchCount > 0 /\ get_output_size(batchTracker) = 0

\* A batch job that the program enabled becomes finished.
Finishes == (owner # "made") ~> (stage[End] = "finished")

\* "This object may be discarded once enable has been invoked": nothing else is
\* needed of the program to be rid of a batch job that is finished.
NothingLeaks == (stage[End] = "finished" /\ owner = "discarded") => ~Alive
=============================================================================
