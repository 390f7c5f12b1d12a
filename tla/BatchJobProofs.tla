--------------------------- MODULE BatchJobProofs ---------------------------
(***************************************************************************)
(* Proofs about BatchJob for every number of slices, items and workers.    *)
(***************************************************************************)
EXTENDS BatchJob, TLAPS

\* Products grow with their factors.
LEMMA ProductGrows ==
  ASSUME NEW m \in Nat, NEW n \in Nat, NEW b \in Nat, m <= n
  PROVE  m * b <= n * b
<1>1. n = m + (n - m) /\ n - m \in Nat
  OBVIOUS
<1>2. n * b = m * b + (n - m) * b
  BY <1>1
<1>3. (n - m) * b \in Nat /\ m * b \in Nat
  BY <1>1
<1>. QED
  BY <1>2, <1>3

\* Rounding up gives the least number of parts that is enough ...
LEMMA CeilDivBounds ==
  ASSUME NEW a \in Nat, NEW b \in Nat \ {0}
  PROVE  /\ CeilDiv(a, b) \in Nat
         /\ a <= CeilDiv(a, b) * b
         /\ CeilDiv(a, b) * b < a + b
  BY DEF CeilDiv

\* ... so that it is at most any number that is enough.
LEMMA CeilDivLeast ==
  ASSUME NEW a \in Nat, NEW b \in Nat \ {0}, NEW n \in Nat, a <= n * b
  PROVE  CeilDiv(a, b) <= n
<1>. DEFINE q == CeilDiv(a, b)
<1>1. q \in Nat /\ q * b < a + b
  BY CeilDivBounds
<1>2. SUFFICES ASSUME n + 1 <= q PROVE FALSE
  BY <1>1
<1>3. (n + 1) * b <= q * b
  BY <1>1, <1>2, ProductGrows
<1>4. (n + 1) * b = n * b + b /\ n * b \in Nat
  OBVIOUS
<1>. QED
  BY <1>1, <1>3, <1>4

\* A batch has at least one item.
LEMMA BatchSizeType ==
  ASSUME NEW size \in Nat, NEW workers \in Nat
  PROVE  /\ to_batch_size(size, workers) \in Nat \ {0}
         /\ BatchSize(size, workers) \in Nat \ {0}
<1>. DEFINE desired == to_batch_size(size, workers)
            count == CeilDiv(size, desired)
<1>1. desired \in Nat \ {0}
  <2>. DEFINE offset == 2 * (IF workers = 0 THEN 1 ELSE workers)
  <2>1. offset \in Nat \ {0}
    OBVIOUS
  <2>2. size \div offset \in Nat
    BY <2>1
  <2>. QED
    BY <2>2 DEF to_batch_size
<1>2. count \in Nat
  BY <1>1, CeilDivBounds
<1>3. CASE count > BatchJobMaxSlices
  <2>. DEFINE adjusted == CeilDiv(desired * count, BatchJobMaxSlices)
  <2>1. desired * count \in Nat /\ desired * count > 0
    BY <1>1, <1>2, <1>3, BatchAssumption
  <2>2. adjusted \in Nat /\ desired * count <= adjusted * BatchJobMaxSlices
    BY <2>1, CeilDivBounds, BatchAssumption
  <2>3. adjusted # 0
    BY <2>1, <2>2, BatchAssumption
  <2>4. BatchSize(size, workers) = adjusted
    BY <1>3 DEF BatchSize, clamp_batch_size
  <2>. QED
    BY <1>1, <2>2, <2>3, <2>4
<1>4. CASE ~(count > BatchJobMaxSlices)
  <2>1. BatchSize(size, workers) = desired
    BY <1>4 DEF BatchSize, clamp_batch_size
  <2>. QED
    BY <1>1, <2>1
<1>. QED
  BY <1>3, <1>4

\* Whatever the input and the workers are, m_batchTracker has an entry for
\* each batch.
THEOREM BatchesFit ==
  ASSUME NEW size \in Nat, NEW workers \in Nat
  PROVE  BatchCount(size, workers) <= BatchJobMaxSlices
<1>. DEFINE desired == to_batch_size(size, workers)
            count == CeilDiv(size, desired)
            clamped == BatchSize(size, workers)
<1>1. desired \in Nat \ {0} /\ clamped \in Nat \ {0}
  BY BatchSizeType
<1>2. count \in Nat /\ size <= count * desired
  BY <1>1, CeilDivBounds
<1>3. CASE count > BatchJobMaxSlices
  <2>1. clamped = CeilDiv(desired * count, BatchJobMaxSlices)
    BY <1>3 DEF BatchSize, clamp_batch_size
  <2>2. desired * count \in Nat /\ desired * count = count * desired
    BY <1>1, <1>2
  <2>3. desired * count <= clamped * BatchJobMaxSlices
    BY <2>1, <2>2, CeilDivBounds, BatchAssumption
  <2>4. clamped * BatchJobMaxSlices = BatchJobMaxSlices * clamped
    BY <1>1, BatchAssumption
  <2>5. size <= BatchJobMaxSlices * clamped
    <3>. HIDE DEF desired, count, clamped
    <3>. DEFINE x == desired * count
                y == BatchJobMaxSlices * clamped
    <3>1. size <= x /\ x <= y
      BY <1>2, <2>2, <2>3, <2>4
    <3>2. x \in Int /\ y \in Int
      BY <1>1, <2>2, BatchAssumption
    <3>. HIDE DEF x, y
    <3>3. size <= y
      BY <3>1, <3>2
    <3>. QED
      BY <3>3 DEF y
  <2>. QED
    BY <1>1, <2>5, CeilDivLeast, BatchAssumption DEF BatchCount
<1>4. CASE ~(count > BatchJobMaxSlices)
  <2>1. clamped = desired
    BY <1>4 DEF BatchSize, clamp_batch_size
  <2>. QED
    BY <1>2, <1>4, <2>1, BatchAssumption DEF BatchCount
<1>. QED
  BY <1>3, <1>4

\* The number of batches is that of the container and the workers that the
\* batch job was made for.
THEOREM SlicesAlwaysFit == SafeSpec => []SlicesFit
<1>. DEFINE Inv == inputSize \in Nat /\ assigned \in Nat
<1>1. Init => Inv
  BY BatchAssumption DEF Init
<1>2. Inv /\ [Next]_vars => Inv'
  BY DEF Next, Program, Work, vars, inputVars, DependsOn, EnableDependency, EnableRoot,
     StoreSelfRef, EnableLocally, LocalReturns, Discard, ScheduleJob, RunJob, RunRoot,
     MakeDependency, MakeEnabled, FinishRoot, FinishDependency, ProcessItem, FinishProcess,
     FinishPack, Finalize, FinishEnd
<1>3. Inv => SlicesFit
  BY BatchesFit DEF SlicesFit, batchCount
<1>. QED
  BY <1>1, <1>2, <1>3, PTL DEF SafeSpec

-----------------------------------------------------------------------------
\* The jobs of a batch job are made in an order, and each waits for those that
\* were made before it.

\* Whether make_jobs has passed call n of batch i.
Made(i, n) == batch > i \/ (batch = i /\ call > n)

InputTyped ==
  /\ kind \in AllKinds /\ inputSize \in Nat /\ assigned \in Nat
  /\ batch \in Nat /\ call \in 1 .. Len(Calls(batch))

\* A job that is handed over was enabled, and what it depends on has finished.
Ordered ==
  /\ Order!OrderTypeOK
  /\ \A j \in Jobs : stage[j] # "held" => j \in enabled /\ Order!Satisfied(j)

\* Only what make_jobs has passed is enabled.
EnabledIsMade ==
  \A j \in enabled :
    \/ j = Root
    \/ j = Dependency
    \/ \E i \in Batches : j = Process(i) /\ Made(i, 1)
    \/ kind # "update" /\ \E i \in 1 .. last - 1 : j = Pack(i) /\ batch > i
    \/ batchCount > 0 /\ j = End /\ AllMade

NotBegun == stage[Root] \notin {"running", "finished"} => batch = 0 /\ call = 1

\* What was passed is required.
PacksRequire ==
  kind # "update" => \A i \in 1 .. last - 1 :
    /\ Made(i, 2) => PackOf(i - 1) \in requires[Pack(i)]
    /\ Made(i, 3) => Process(i) \in requires[Pack(i)]

EndRequires ==
  /\ kind = "update" => \A i \in Batches : batch > i => Process(i) \in requires[End]
  /\ (kind # "update" /\ batchCount > 1) =>
       /\ Made(batchCount, 1) => PackOf(last - 1) \in requires[End]
       /\ Made(batchCount, 2) => Process(last) \in requires[End]
  /\ (kind # "update" /\ batchCount = 1) =>
       (Made(batchCount, 1) => Process(last) \in requires[End])

MadeInOrder == InputTyped /\ EnabledIsMade /\ NotBegun /\ PacksRequire /\ EndRequires

\* The jobs before a pack job, and before the end job, have finished.
DoneUpTo(i) ==
  /\ \A k \in 0 .. i : stage[Process(k)] = "finished"
  /\ kind # "update" => \A k \in 1 .. i - 1 : stage[Pack(k)] = "finished"

Chained ==
  /\ \A i \in 1 .. last - 1 : stage[Pack(i)] # "held" => DoneUpTo(i)
  /\ (batchCount > 0 /\ stage[End] # "held") => DoneUpTo(last)

JobsHold == MadeInOrder /\ Ordered /\ Chained

LEMMA Sizes ==
  ASSUME inputSize \in Nat, assigned \in Nat
  PROVE  /\ batchSize \in Nat \ {0}
         /\ batchCount \in Nat /\ batchCount <= BatchJobMaxSlices
         /\ last = batchCount - 1
<1>1. batchSize \in Nat \ {0}
  BY BatchSizeType DEF batchSize
<1>2. batchCount \in Nat
  BY <1>1, CeilDivBounds DEF batchCount, BatchCount, batchSize
<1>. QED
  BY <1>1, <1>2, BatchesFit DEF batchCount, last

\* No two of the jobs are the same.
LEMMA JobNames ==
  /\ Root # Dependency
  /\ \A i : Process(i) # Root /\ Process(i) # Dependency /\ Process(i) # <<"end", 0>>
  /\ \A i : Pack(i) # Root /\ Pack(i) # Dependency /\ Pack(i) # <<"end", 0>>
  /\ \A i, k : Process(i) # Pack(k)
  /\ \A i, k : (Process(i) = Process(k) => i = k) /\ (Pack(i) = Pack(k) => i = k)
  /\ <<"end", 0>> # Root /\ <<"end", 0>> # Dependency
BY DEF Root, Dependency, Process, Pack

LEMMA EndName ==
  /\ batchCount > 0 => End = <<"end", 0>>
  /\ batchCount = 0 => End = Root
BY DEF End

LEMMA JobsAre ==
  ASSUME inputSize \in Nat, assigned \in Nat
  PROVE  /\ Root \in Jobs /\ Dependency \in Jobs /\ End \in Jobs
         /\ \A i \in Batches : Process(i) \in Jobs /\ Pack(i) \in Jobs
<1>1. \A i \in Batches : i \in 0 .. BatchJobMaxSlices - 1
  BY Sizes, BatchAssumption DEF Batches
<1>2. \A i \in 0 .. BatchJobMaxSlices - 1 : <<"process", i>> \in Jobs /\ <<"pack", i>> \in Jobs
  BY DEF Jobs
<1>3. Root \in Jobs /\ Dependency \in Jobs /\ <<"end", 0>> \in Jobs
  BY DEF Jobs
<1>. QED
  BY <1>1, <1>2, <1>3 DEF Process, Pack, End

\* The calls of make_jobs, one by one.
LEMMA UpdateCalls ==
  ASSUME kind = "update", NEW i
  PROVE  /\ i < batchCount => Calls(i) = <<Enabling(Process(i)), Requiring(End, Process(i))>>
         /\ ~(i < batchCount) => Calls(i) = <<Enabling(End)>>
BY DEF Calls, MakeUpdate

LEMMA BatchCalls ==
  ASSUME kind # "update", NEW i, i < batchCount
  PROVE  Calls(i) = IF i \in 1 .. last - 1
                      THEN <<Enabling(Process(i)), Requiring(Pack(i), PackOf(i - 1)),
                             Requiring(Pack(i), Process(i)), Enabling(Pack(i))>>
                      ELSE <<Enabling(Process(i))>>
BY DEF Calls, MakeBatch

LEMMA EndCalls ==
  ASSUME kind # "update", NEW i, ~(i < batchCount)
  PROVE  Calls(i) = IF batchCount > 1
                      THEN <<Requiring(End, PackOf(last - 1)), Requiring(End, Process(last)), Enabling(End)>>
                      ELSE <<Requiring(End, Process(last)), Enabling(End)>>
BY DEF Calls, MakeEnd

\* What one step does to the jobs: one job goes on, or none.
Advances ==
  \/ stage' = stage
  \/ \E j \in Jobs :
       /\ stage[j] # "finished" /\ stage'[j] # "held"
       /\ stage[j] = "running" => stage'[j] = "finished"
       /\ \A q \in Jobs \ {j} : stage'[q] = stage[q]

OrderStep ==
  \/ UNCHANGED jobVars
  \/ \E j \in Jobs : Order!Enable(j) \/ Order!EnableAndRun(j) \/ Order!Schedule(j)
  \/ \E j \in Jobs : Order!Run(j) \/ Order!Finish(j)
  \/ \E j \in Jobs, p \in Jobs : Order!Require(j, p)

LEMMA OrderKeeps ==
  ASSUME Ordered, OrderStep
  PROVE  /\ Ordered' /\ Advances
         /\ \A j \in Jobs : requires[j] \subseteq requires'[j]
         /\ enabled \subseteq enabled'
<1>0. /\ stage \in [Jobs -> Order!Stages]
      /\ requires \in [Jobs -> SUBSET Jobs]
      /\ enabled \in SUBSET Jobs
      /\ \A j \in Jobs : stage[j] # "held" => j \in enabled
      /\ \A j \in Jobs : stage[j] # "held" => \A p \in requires[j] : stage[p] = "finished"
  BY DEF Ordered, Order!OrderTypeOK, Order!Satisfied
<1>. USE DEF Order!Stages
<1>1. CASE UNCHANGED jobVars
  BY <1>0, <1>1 DEF jobVars, Ordered, Order!OrderTypeOK, Order!Satisfied, Advances
<1>2. ASSUME NEW j \in Jobs, Order!Enable(j)
      PROVE  /\ Ordered' /\ Advances
             /\ \A q \in Jobs : requires[q] \subseteq requires'[q]
             /\ enabled \subseteq enabled'
  <2>1. CASE stage' = stage
    BY <1>0, <1>2, <2>1 DEF Order!Enable, Ordered, Order!OrderTypeOK, Order!Satisfied, Advances
  <2>2. CASE Order!Satisfied(j) /\ stage' = [stage EXCEPT ![j] = "scheduled"]
    BY <1>0, <1>2, <2>2 DEF Order!Enable, Ordered, Order!OrderTypeOK, Order!Satisfied, Advances
  <2>. QED
    BY <1>2, <2>1, <2>2 DEF Order!Enable
<1>3. ASSUME NEW j \in Jobs, Order!EnableAndRun(j)
      PROVE  /\ Ordered' /\ Advances
             /\ \A q \in Jobs : requires[q] \subseteq requires'[q]
             /\ enabled \subseteq enabled'
  BY <1>0, <1>3 DEF Order!EnableAndRun, Ordered, Order!OrderTypeOK, Order!Satisfied, Advances
<1>4. ASSUME NEW j \in Jobs, Order!Schedule(j)
      PROVE  /\ Ordered' /\ Advances
             /\ \A q \in Jobs : requires[q] \subseteq requires'[q]
             /\ enabled \subseteq enabled'
  BY <1>0, <1>4 DEF Order!Schedule, Ordered, Order!OrderTypeOK, Order!Satisfied, Advances
<1>5. ASSUME NEW j \in Jobs, Order!Run(j)
      PROVE  /\ Ordered' /\ Advances
             /\ \A q \in Jobs : requires[q] \subseteq requires'[q]
             /\ enabled \subseteq enabled'
  BY <1>0, <1>5 DEF Order!Run, Ordered, Order!OrderTypeOK, Order!Satisfied, Advances
<1>6. ASSUME NEW j \in Jobs, Order!Finish(j)
      PROVE  /\ Ordered' /\ Advances
             /\ \A q \in Jobs : requires[q] \subseteq requires'[q]
             /\ enabled \subseteq enabled'
  BY <1>0, <1>6 DEF Order!Finish, Ordered, Order!OrderTypeOK, Order!Satisfied, Advances
<1>7. ASSUME NEW j \in Jobs, NEW p \in Jobs, Order!Require(j, p)
      PROVE  /\ Ordered' /\ Advances
             /\ \A q \in Jobs : requires[q] \subseteq requires'[q]
             /\ enabled \subseteq enabled'
  BY <1>0, <1>7 DEF Order!Require, Ordered, Order!OrderTypeOK, Order!Satisfied, Advances
<1>. QED
  BY <1>1, <1>2, <1>3, <1>4, <1>5, <1>6, <1>7 DEF OrderStep

\* Before a pack job is scheduled, the one before it and its process job have
\* finished, and with them all that are before those.
LEMMA ChainKeeps ==
  ASSUME InputTyped, InputTyped', Ordered, Ordered', Chained, Advances,
         UNCHANGED <<kind, inputSize, assigned>>,
         EnabledIsMade', PacksRequire', EndRequires'
  PROVE  Chained'
<1>0. /\ batchCount \in Nat /\ last = batchCount - 1 /\ batchCount' = batchCount /\ last' = last
      /\ Batches' = Batches /\ Batches = 0 .. last /\ End' = End
  BY Sizes DEF InputTyped, batchCount, last, Batches, End
<1>1. /\ \A j \in Jobs : stage[j] = "finished" => stage'[j] = "finished"
      /\ \A j, q \in Jobs : (j # q /\ stage[j] = "held" /\ stage'[j] # "held") => stage'[q] = stage[q]
  BY DEF Advances
<1>2. /\ \A i \in Batches : Process(i) \in Jobs /\ Pack(i) \in Jobs
      /\ End \in Jobs
  BY JobsAre DEF InputTyped
<1>3. \A j \in Jobs : stage'[j] # "held" =>
        j \in enabled' /\ \A p \in requires'[j] : stage'[p] = "finished"
  BY DEF Ordered, Order!Satisfied
<1>4. ASSUME NEW i \in Nat, i <= last, DoneUpTo(i)
      PROVE  DoneUpTo(i)'
  <2>1. \A k \in 0 .. i : k \in Batches
    BY <1>0, <1>4
  <2>. QED
    BY <1>0, <1>1, <1>2, <1>4, <2>1 DEF DoneUpTo
<1>5. ASSUME kind # "update", NEW i \in Nat, i <= last,
             NEW j \in Jobs, stage[j] = "held", stage'[j] # "held", j # Pack(i - 1),
             stage'[Process(i)] = "finished",
             i > 0 => stage'[PackOf(i - 1)] = "finished"
      PROVE  DoneUpTo(i)'
  <2>1. CASE i = 0
    BY <1>5, <2>1 DEF DoneUpTo
  <2>2. CASE i = 1
    BY <1>5, <2>2 DEF DoneUpTo, PackOf
  <2>3. CASE i > 1
    <3>1. PackOf(i - 1) = Pack(i - 1) /\ i - 1 \in 1 .. last - 1 /\ i - 1 \in Batches
      BY <1>0, <1>5, <2>3 DEF PackOf
    <3>2. stage[Pack(i - 1)] # "held"
      BY <1>1, <1>2, <1>5, <2>3, <3>1
    <3>3. DoneUpTo(i - 1)
      BY <3>1, <3>2 DEF Chained
    <3>4. DoneUpTo(i - 1)'
      BY <1>0, <1>4, <3>1, <3>3
    <3>. QED
      BY <1>0, <1>5, <2>3, <3>1, <3>4 DEF DoneUpTo
  <2>. QED
    BY <1>5, <2>1, <2>2, <2>3
<1>6. ASSUME NEW i \in 1 .. last - 1, stage'[Pack(i)] # "held"
      PROVE  DoneUpTo(i)'
  <2>0. i \in Nat /\ i <= last /\ i \in Batches /\ Pack(i) \in Jobs /\ batchCount > 0
    BY <1>0, <1>2
  <2>1. CASE stage[Pack(i)] # "held"
    BY <1>4, <2>0, <2>1 DEF Chained
  <2>2. CASE stage[Pack(i)] = "held"
    <3>1. Pack(i) \in enabled' /\ \A p \in requires'[Pack(i)] : stage'[p] = "finished"
      BY <1>3, <1>6, <2>0
    <3>2. kind # "update" /\ batch' > i
      <4>1. Pack(i) # End
        BY <1>0, <2>0, JobNames, EndName
      <4>. QED
        BY <1>0, <3>1, <4>1, JobNames DEF EnabledIsMade
    <3>3. PackOf(i - 1) \in requires'[Pack(i)] /\ Process(i) \in requires'[Pack(i)]
      BY <1>0, <3>2 DEF PacksRequire, Made, PackOf
    <3>4. Pack(i) # Pack(i - 1)
      BY <2>0, JobNames
    <3>. QED
      BY <1>5, <1>6, <2>0, <2>2, <3>1, <3>2, <3>3, <3>4
  <2>. QED
    BY <2>1, <2>2
<1>7. ASSUME NEW n \in Nat, n = last, batchCount > 0, stage'[End] # "held"
      PROVE  DoneUpTo(n)'
  <2>0. last \in Nat /\ last \in Batches
    BY <1>0, <1>7
  <2>1. CASE stage[End] # "held"
    BY <1>4, <1>7, <2>0, <2>1 DEF Chained
  <2>2. CASE stage[End] = "held"
    <3>1. End \in enabled' /\ \A p \in requires'[End] : stage'[p] = "finished"
      BY <1>2, <1>3, <1>7
    <3>2. batch' > batchCount
      <4>1. End # Root /\ End # Dependency /\ \A i : End # Process(i) /\ End # Pack(i)
        BY <1>7, JobNames, EndName
      <4>. QED
        BY <1>0, <1>7, <3>1, <4>1 DEF EnabledIsMade, AllMade
    <3>3. CASE kind = "update"
      <4>1. \A i \in 0 .. last : Process(i) \in requires'[End]
        BY <1>0, <3>2, <3>3 DEF EndRequires, InputTyped
      <4>. QED
        BY <1>0, <1>7, <3>1, <3>3, <4>1 DEF DoneUpTo
    <3>4. CASE kind # "update"
      <4>1. Process(last) \in requires'[End] /\ (last > 0 => PackOf(last - 1) \in requires'[End])
        BY <1>0, <1>7, <3>2, <3>4 DEF EndRequires, Made, PackOf
      <4>2. End # Pack(last - 1)
        BY <1>7, JobNames, EndName
      <4>. QED
        BY <1>2, <1>5, <1>7, <2>0, <2>2, <3>1, <3>4, <4>1, <4>2
    <3>. QED
      BY <3>3, <3>4
  <2>. QED
    BY <2>1, <2>2
<1>8. (batchCount > 0 /\ stage'[End] # "held") => DoneUpTo(last)'
  <2>. SUFFICES ASSUME batchCount > 0, stage'[End] # "held"
                PROVE  DoneUpTo(last)'
    OBVIOUS
  <2>1. PICK n \in Nat : n = last
    BY <1>0
  <2>2. DoneUpTo(n)'
    BY <1>7, <2>1
  <2>. QED
    BY <1>0, <2>1, <2>2 DEF DoneUpTo
<1>. QED
  BY <1>0, <1>6, <1>8 DEF Chained

\* Steps outside of make_jobs.
LEMMA MadeStays ==
  ASSUME MadeInOrder, Ordered, Advances,
         UNCHANGED <<kind, inputSize, assigned, batch, call>>,
         enabled' \subseteq enabled \cup {Root, Dependency},
         \A j \in Jobs : requires[j] \subseteq requires'[j]
  PROVE  MadeInOrder'
<1>0. /\ batchCount \in Nat /\ last = batchCount - 1 /\ batchCount' = batchCount /\ last' = last
      /\ Batches' = Batches /\ Batches = 0 .. last /\ End' = End
      /\ \A i : Calls(i)' = Calls(i)
      /\ InputTyped
  BY Sizes DEF MadeInOrder, InputTyped, batchCount, last, Batches, End, Calls, MakeUpdate, MakeBatch,
               MakeEnd, PackOf
<1>1. End \in Jobs /\ Root \in Jobs /\ \A i \in 1 .. last - 1 : Pack(i) \in Jobs
  BY <1>0, JobsAre DEF InputTyped
<1>2. InputTyped'
  BY <1>0 DEF InputTyped
<1>3. EnabledIsMade'
  BY <1>0 DEF MadeInOrder, EnabledIsMade, Made, AllMade
<1>4. NotBegun'
  BY <1>1 DEF MadeInOrder, NotBegun, Advances
<1>5. PacksRequire'
  BY <1>0, <1>1 DEF MadeInOrder, PacksRequire, Made
<1>6. EndRequires'
  BY <1>0, <1>1 DEF MadeInOrder, EndRequires, Made
<1>. QED
  BY <1>2, <1>3, <1>4, <1>5, <1>6 DEF MadeInOrder

\* What make_jobs calls next.
NextCallIs(next) ==
  \/ /\ batch < batchCount /\ call = 1 /\ next = Enabling(Process(batch))
     /\ Len(Calls(batch)) = IF kind = "update" THEN 2 ELSE IF batch \in 1 .. last - 1 THEN 4 ELSE 1
  \/ /\ kind = "update" /\ batch < batchCount /\ call = 2 /\ Len(Calls(batch)) = 2
     /\ next = Requiring(End, Process(batch))
  \/ /\ kind # "update" /\ batch \in 1 .. last - 1 /\ Len(Calls(batch)) = 4
     /\ \/ call = 2 /\ next = Requiring(Pack(batch), PackOf(batch - 1))
        \/ call = 3 /\ next = Requiring(Pack(batch), Process(batch))
        \/ call = 4 /\ next = Enabling(Pack(batch))
  \/ kind = "update" /\ batch = batchCount /\ call = 1 /\ Len(Calls(batch)) = 1 /\ next = Enabling(End)
  \/ /\ kind # "update" /\ batch = batchCount /\ batchCount > 1 /\ Len(Calls(batch)) = 3
     /\ \/ call = 1 /\ next = Requiring(End, PackOf(last - 1))
        \/ call = 2 /\ next = Requiring(End, Process(last))
        \/ call = 3 /\ next = Enabling(End)
  \/ /\ kind # "update" /\ batch = batchCount /\ batchCount = 1 /\ Len(Calls(batch)) = 2
     /\ \/ call = 1 /\ next = Requiring(End, Process(last))
        \/ call = 2 /\ next = Enabling(End)

LEMMA NextCall ==
  ASSUME InputTyped, ~AllMade
  PROVE  NextCallIs(Calls(batch)[call])
<1>0. batchCount \in Nat \ {0} /\ last = batchCount - 1 /\ batch \in Nat /\ batch <= batchCount
      /\ call \in 1 .. Len(Calls(batch))
  BY Sizes DEF InputTyped, AllMade
<1>1. CASE kind = "update" /\ batch < batchCount
  <2>1. Calls(batch) = <<Enabling(Process(batch)), Requiring(End, Process(batch))>>
    BY <1>1, UpdateCalls
  <2>. QED
    BY <1>0, <1>1, <2>1 DEF NextCallIs
<1>2. CASE kind = "update" /\ batch = batchCount
  <2>1. Calls(batch) = <<Enabling(End)>>
    BY <1>0, <1>2, UpdateCalls
  <2>. QED
    BY <1>0, <1>2, <2>1 DEF NextCallIs
<1>3. CASE kind # "update" /\ batch < batchCount
  <2>1. CASE batch \in 1 .. last - 1
    <3>1. Calls(batch) = <<Enabling(Process(batch)), Requiring(Pack(batch), PackOf(batch - 1)),
                           Requiring(Pack(batch), Process(batch)), Enabling(Pack(batch))>>
      BY <1>3, <2>1, BatchCalls
    <3>2. /\ Len(Calls(batch)) = 4
          /\ Calls(batch)[1] = Enabling(Process(batch))
          /\ Calls(batch)[2] = Requiring(Pack(batch), PackOf(batch - 1))
          /\ Calls(batch)[3] = Requiring(Pack(batch), Process(batch))
          /\ Calls(batch)[4] = Enabling(Pack(batch))
      BY <3>1
    <3>3. call \in {1, 2, 3, 4}
      BY <1>0, <3>2
    <3>4. CASE call = 1
      BY <1>3, <2>1, <3>2, <3>4 DEF NextCallIs
    <3>5. CASE call \in {2, 3, 4}
      BY <1>3, <2>1, <3>2, <3>5 DEF NextCallIs
    <3>. QED
      BY <3>3, <3>4, <3>5
  <2>2. CASE batch \notin 1 .. last - 1
    <3>1. Calls(batch) = <<Enabling(Process(batch))>>
      BY <1>3, <2>2, BatchCalls
    <3>. QED
      BY <1>0, <1>3, <2>2, <3>1 DEF NextCallIs
  <2>. QED
    BY <2>1, <2>2
<1>4. CASE kind # "update" /\ batch = batchCount
  <2>1. CASE batchCount > 1
    <3>1. Calls(batch) = <<Requiring(End, PackOf(last - 1)), Requiring(End, Process(last)), Enabling(End)>>
      BY <1>0, <1>4, <2>1, EndCalls
    <3>. QED
      BY <1>0, <1>4, <2>1, <3>1 DEF NextCallIs
  <2>2. CASE batchCount = 1
    <3>1. Calls(batch) = <<Requiring(End, Process(last)), Enabling(End)>>
      BY <1>0, <1>4, <2>2, EndCalls
    <3>2. /\ Len(Calls(batch)) = 2
          /\ Calls(batch)[1] = Requiring(End, Process(last))
          /\ Calls(batch)[2] = Enabling(End)
      BY <3>1
    <3>3. call \in {1, 2}
      BY <1>0, <3>2
    <3>. QED
      BY <1>4, <2>2, <3>2, <3>3 DEF NextCallIs
  <2>3. batchCount > 1 \/ batchCount = 1
    BY <1>0
  <2>. QED
    BY <2>1, <2>2, <2>3
<1>. QED
  BY <1>0, <1>1, <1>2, <1>3, <1>4

\* There is a call wherever make_jobs goes next.
LEMMA CallsNotEmpty ==
  ASSUME inputSize \in Nat, assigned \in Nat, NEW i \in Nat
  PROVE  Len(Calls(i)) \in Nat \ {0}
<1>0. batchCount \in Nat
  BY Sizes
<1>1. CASE kind = "update"
  BY <1>0, <1>1, UpdateCalls
<1>2. CASE kind # "update" /\ i < batchCount
  <2>1. CASE i \in 1 .. last - 1
    BY <1>2, <2>1, BatchCalls
  <2>2. CASE i \notin 1 .. last - 1
    BY <1>2, <2>2, BatchCalls
  <2>. QED
    BY <2>1, <2>2
<1>3. CASE kind # "update" /\ ~(i < batchCount)
  BY <1>0, <1>3, EndCalls
<1>. QED
  BY <1>1, <1>2, <1>3

\* A step of make_jobs: it enables a job or makes one depend on another, and goes on.
CallStep(next) ==
  /\ \/ /\ next.call = "depends_on"
        /\ requires' = [requires EXCEPT ![next.job] = @ \cup {next.on}]
        /\ enabled' = enabled
     \/ /\ next.call = "enable"
        /\ requires' = requires
        /\ enabled' \subseteq enabled \cup {next.job}
  /\ Called

LEMMA CallMakes ==
  ASSUME MadeInOrder, Ordered, Advances, ~AllMade, stage[Root] = "running",
         UNCHANGED <<kind, inputSize, assigned>>,
         CallStep(Calls(batch)[call]),
         \A j \in Jobs : requires[j] \subseteq requires'[j]
  PROVE  MadeInOrder'
<1>0. /\ batchCount \in Nat \ {0} /\ last = batchCount - 1 /\ batchCount' = batchCount /\ last' = last
      /\ Batches' = Batches /\ Batches = 0 .. last /\ End' = End
      /\ batch \in Nat /\ batch <= batchCount /\ call \in 1 .. Len(Calls(batch))
      /\ InputTyped /\ inputSize \in Nat /\ assigned \in Nat /\ requires \in [Jobs -> SUBSET Jobs]
  BY Sizes DEF MadeInOrder, InputTyped, batchCount, last, Batches, End, AllMade, Ordered, Order!OrderTypeOK
<1>1. \A i : Calls(i)' = Calls(i)
  BY DEF batchCount, last, End, Calls, MakeUpdate, MakeBatch, MakeEnd, PackOf
<1>2. End \in Jobs /\ Root \in Jobs /\ \A i \in 1 .. last - 1 : Pack(i) \in Jobs
  BY <1>0, JobsAre DEF InputTyped
<1>3. PICK next, n, len : next = Calls(batch)[call] /\ n = batch /\ len = Len(Calls(n))
  OBVIOUS
<1>4. NextCallIs(next) /\ CallStep(next)
  BY <1>0, <1>3, NextCall
<1>5. /\ n \in Nat /\ n <= batchCount /\ len \in Nat /\ call \in 1 .. len
      /\ \/ call < len /\ call' = call + 1 /\ batch' = n
         \/ call = len /\ batch' = n + 1 /\ call' = 1
  <2>1. n \in Nat /\ n <= batchCount /\ call \in 1 .. len
    BY <1>0, <1>3
  <2>2. len \in Nat
    BY <1>0, <1>3, <2>1, CallsNotEmpty
  <2>3. IF call < len THEN call' = call + 1 /\ batch' = n ELSE batch' = n + 1 /\ call' = 1
    BY <1>3, <1>4 DEF CallStep, Called
  <2>. QED
    BY <2>1, <2>2, <2>3
<1>6. InputTyped'
  <2>1. PICK m \in Nat : m = batch'
    BY <1>5
  <2>2. Len(Calls(m))' = Len(Calls(m)) /\ Len(Calls(m)) \in Nat \ {0} /\ m \in {n, n + 1}
    BY <1>0, <1>1, <1>5, <2>1, CallsNotEmpty
  <2>3. call' \in 1 .. Len(Calls(m))
    BY <1>3, <1>5, <2>1, <2>2
  <2>. QED
    BY <1>0, <1>1, <2>1, <2>2, <2>3 DEF InputTyped
\* Which calls are passed.
<1>7. \A i \in Nat, c \in 1 .. 3 :
        /\ Made(i, c) => Made(i, c)'
        /\ batch > i => batch' > i
        /\ (Made(i, c)' /\ ~Made(i, c)) => i = n /\ (call = c \/ call = len)
        /\ (batch' > i /\ ~(batch > i)) => i = n /\ call = len
        /\ (i = n /\ call = c) => Made(i, c)'
        /\ call = len => batch' > n
  <2>. SUFFICES ASSUME NEW i \in Nat, NEW c \in 1 .. 3
                PROVE  /\ Made(i, c) => Made(i, c)'
                       /\ batch > i => batch' > i
                       /\ (Made(i, c)' /\ ~Made(i, c)) => i = n /\ (call = c \/ call = len)
                       /\ (batch' > i /\ ~(batch > i)) => i = n /\ call = len
                       /\ (i = n /\ call = c) => Made(i, c)'
                       /\ call = len => batch' > n
    OBVIOUS
  <2>1. /\ Made(i, c) <=> n > i \/ (n = i /\ call > c)
        /\ Made(i, c)' <=> batch' > i \/ (batch' = i /\ call' > c)
    BY <1>3 DEF Made
  <2>2. CASE call < len /\ call' = call + 1 /\ batch' = n
    BY <1>3, <1>5, <2>1, <2>2
  <2>3. CASE call = len /\ batch' = n + 1 /\ call' = 1
    BY <1>3, <1>5, <2>1, <2>3
  <2>. QED
    BY <1>5, <2>2, <2>3
<1>8. EnabledIsMade'
  <2>. SUFFICES ASSUME NEW j \in enabled'
                PROVE  \/ j = Root
                       \/ j = Dependency
                       \/ \E i \in Batches : j = Process(i) /\ Made(i, 1)'
                       \/ kind # "update" /\ \E i \in 1 .. last - 1 : j = Pack(i) /\ batch' > i
                       \/ j = End /\ batch' > batchCount
    BY <1>0 DEF EnabledIsMade, AllMade
  <2>1. CASE j \in enabled
    <3>1. \A i \in Nat : (Made(i, 1) => Made(i, 1)') /\ (batch > i => batch' > i)
      BY <1>7
    <3>2. /\ \A i \in Batches : i \in Nat
          /\ \A i \in 1 .. last - 1 : i \in Nat
      BY <1>0
    <3>. QED
      BY <2>1, <3>1, <3>2 DEF MadeInOrder, EnabledIsMade
  <2>2. CASE j \notin enabled
    <3>1. next.call = "enable" /\ j = next.job
      BY <1>4, <2>2 DEF CallStep
    <3>2. \A q, p : Requiring(q, p).call # "enable" /\ Enabling(q).job = q
      BY DEF Requiring, Enabling
    <3>3. \/ j = Process(n) /\ n < batchCount /\ call = 1
          \/ kind # "update" /\ n \in 1 .. last - 1 /\ j = Pack(n) /\ call = len
          \/ n = batchCount /\ j = End /\ call = len
      BY <1>3, <1>4, <3>1, <3>2 DEF NextCallIs
    <3>4. CASE j = Process(n) /\ n < batchCount /\ call = 1
      <4>1. n \in Batches /\ Made(n, 1)'
        BY <1>0, <1>5, <1>7, <3>4
      <4>. QED
        BY <3>4, <4>1
    <3>5. CASE call = len
      <4>1. batch' > n
        BY <1>5, <1>7, <3>5
      <4>2. batch' = n + 1
        BY <1>5, <3>5, <4>1
      <4>. QED
        BY <1>0, <1>5, <3>3, <3>4, <4>1, <4>2
    <3>. QED
      BY <3>3, <3>4, <3>5
  <2>. QED
    BY <2>1, <2>2
<1>9. NotBegun'
  BY <1>2 DEF NotBegun, Advances
\* What the call requires, if it is one of those.
<1>10. /\ next = Requiring(Pack(n), PackOf(n - 1)) /\ n \in 1 .. last - 1 =>
            PackOf(n - 1) \in requires'[Pack(n)]
       /\ next = Requiring(Pack(n), Process(n)) /\ n \in 1 .. last - 1 =>
            Process(n) \in requires'[Pack(n)]
       /\ \A p : next = Requiring(End, p) => p \in requires'[End]
  <2>1. \A q \in Jobs : \A p : next = Requiring(q, p) => p \in requires'[q]
    <3>. SUFFICES ASSUME NEW q \in Jobs, NEW p, next = Requiring(q, p)
                  PROVE  p \in requires'[q]
      OBVIOUS
    <3>1. next.call = "depends_on" /\ next.job = q /\ next.on = p
      BY DEF Requiring
    <3>. QED
      BY <1>0, <1>4, <3>1 DEF CallStep
  <2>. QED
    BY <1>2, <2>1
<1>11. PacksRequire'
  <2>. SUFFICES ASSUME kind # "update", NEW i \in 1 .. last - 1
                PROVE  /\ Made(i, 2)' => PackOf(i - 1) \in requires'[Pack(i)]
                       /\ Made(i, 3)' => Process(i) \in requires'[Pack(i)]
    BY <1>0 DEF PacksRequire, PackOf
  <2>1. i \in Nat /\ i < batchCount
    BY <1>0
  <2>2. ASSUME Made(i, 2)'
        PROVE  PackOf(i - 1) \in requires'[Pack(i)]
    <3>1. CASE Made(i, 2)
      BY <1>2, <3>1 DEF MadeInOrder, PacksRequire
    <3>2. CASE ~Made(i, 2)
      <4>1. i = n /\ ~(call > 2) /\ (call = 2 \/ call = len)
        BY <1>3, <1>7, <2>1, <2>2, <3>2 DEF Made
      <4>2. batch = n /\ batch \in 1 .. last - 1 /\ batch # batchCount /\ Len(Calls(batch)) = len
        BY <1>3, <2>1, <4>1
      <4>3. call = 2
        BY <1>4, <4>1, <4>2 DEF NextCallIs
      <4>4. next = Requiring(Pack(n), PackOf(n - 1))
        BY <1>4, <4>2, <4>3 DEF NextCallIs
      <4>. QED
        BY <1>10, <4>1, <4>4
    <3>. QED
      BY <3>1, <3>2
  <2>3. ASSUME Made(i, 3)'
        PROVE  Process(i) \in requires'[Pack(i)]
    <3>1. CASE Made(i, 3)
      BY <1>2, <3>1 DEF MadeInOrder, PacksRequire
    <3>2. CASE ~Made(i, 3)
      <4>1. i = n /\ ~(call > 3) /\ (call = 3 \/ call = len)
        BY <1>3, <1>7, <2>1, <2>3, <3>2 DEF Made
      <4>2. batch = n /\ batch \in 1 .. last - 1 /\ batch # batchCount /\ Len(Calls(batch)) = len
        BY <1>3, <2>1, <4>1
      <4>3. call = 3
        BY <1>4, <4>1, <4>2 DEF NextCallIs
      <4>4. next = Requiring(Pack(n), Process(n))
        BY <1>4, <4>2, <4>3 DEF NextCallIs
      <4>. QED
        BY <1>10, <4>1, <4>4
    <3>. QED
      BY <3>1, <3>2
  <2>. QED
    BY <2>2, <2>3
<1>12. EndRequires'
  <2>1. ASSUME kind = "update", NEW i \in Batches, batch' > i
        PROVE  Process(i) \in requires'[End]
    <3>0. i \in Nat /\ i < batchCount
      BY <1>0
    <3>1. CASE batch > i
      BY <1>2, <2>1, <3>1 DEF MadeInOrder, EndRequires
    <3>2. CASE ~(batch > i)
      <4>1. i = n /\ call = len
        BY <1>7, <2>1, <3>0, <3>2
      <4>2. batch = n /\ batch < batchCount /\ batch # batchCount /\ call = Len(Calls(batch))
        BY <1>3, <3>0, <4>1
      <4>3. next = Requiring(End, Process(n))
        BY <1>4, <2>1, <4>2 DEF NextCallIs
      <4>. QED
        BY <1>10, <4>1, <4>3
    <3>. QED
      BY <3>1, <3>2
  <2>2. ASSUME kind # "update", batchCount > 1, NEW m \in Nat, m = batchCount, Made(m, 1)'
        PROVE  PackOf(last - 1) \in requires'[End]
    <3>1. CASE Made(m, 1)
      BY <1>2, <2>2, <3>1 DEF MadeInOrder, EndRequires
    <3>2. CASE ~Made(m, 1)
      <4>1. m = n /\ ~(call > 1) /\ (call = 1 \/ call = len)
        BY <1>3, <1>7, <2>2, <3>2 DEF Made
      <4>. QED
        BY <1>3, <1>4, <1>10, <2>2, <4>1 DEF NextCallIs
    <3>. QED
      BY <3>1, <3>2
  <2>3. ASSUME kind # "update", batchCount > 1, NEW m \in Nat, m = batchCount, Made(m, 2)'
        PROVE  Process(last) \in requires'[End]
    <3>1. CASE Made(m, 2)
      BY <1>2, <2>3, <3>1 DEF MadeInOrder, EndRequires
    <3>2. CASE ~Made(m, 2)
      <4>1. m = n /\ ~(call > 2) /\ (call = 2 \/ call = len)
        BY <1>3, <1>7, <2>3, <3>2 DEF Made
      <4>2. batch = batchCount /\ ~(batch < batchCount) /\ batch \notin 1 .. last - 1 /\ Len(Calls(batch)) = len
        BY <1>0, <1>3, <1>5, <2>3, <4>1
      <4>3. call = 2
        BY <1>4, <2>3, <4>1, <4>2 DEF NextCallIs
      <4>4. next = Requiring(End, Process(last))
        BY <1>4, <2>3, <4>2, <4>3 DEF NextCallIs
      <4>. QED
        BY <1>10, <4>4
    <3>. QED
      BY <3>1, <3>2
  <2>4. ASSUME kind # "update", batchCount = 1, NEW m \in Nat, m = batchCount, Made(m, 1)'
        PROVE  Process(last) \in requires'[End]
    <3>1. CASE Made(m, 1)
      BY <1>2, <2>4, <3>1 DEF MadeInOrder, EndRequires
    <3>2. CASE ~Made(m, 1)
      <4>1. m = n /\ ~(call > 1) /\ (call = 1 \/ call = len)
        BY <1>3, <1>7, <2>4, <3>2 DEF Made
      <4>2. next = Requiring(End, Process(last))
        <5>1. batch = batchCount /\ call = 1 /\ batch \notin 1 .. last - 1
          BY <1>0, <1>3, <1>5, <2>4, <4>1
        <5>. QED
          BY <1>4, <2>4, <5>1 DEF NextCallIs
      <4>. QED
        BY <1>10, <4>2
    <3>. QED
      BY <3>1, <3>2
  <2>5. PICK m \in Nat : m = batchCount
    BY <1>0
  <2>. QED
    BY <1>0, <2>1, <2>2, <2>3, <2>4, <2>5 DEF EndRequires, Made, PackOf
<1>. QED
  BY <1>6, <1>8, <1>9, <1>11, <1>12 DEF MadeInOrder

LEMMA InitJobs == Init => JobsHold
<1>. SUFFICES ASSUME Init
              PROVE  JobsHold
  OBVIOUS
<1>0. /\ kind \in AllKinds /\ inputSize \in Nat /\ assigned \in Nat
      /\ batch = 0 /\ call = 1
      /\ stage = [j \in Jobs |-> "held"] /\ requires = [j \in Jobs |-> {}] /\ enabled = {}
  BY BatchAssumption DEF Init, Order!OrderInit
<1>1. batchCount \in Nat /\ last = batchCount - 1
  BY <1>0, Sizes
<1>2. InputTyped
  <2>1. Len(Calls(0)) \in Nat \ {0}
    BY <1>0, CallsNotEmpty
  <2>. QED
    BY <1>0, <2>1 DEF InputTyped
<1>3. EnabledIsMade /\ NotBegun
  BY <1>0 DEF EnabledIsMade, NotBegun
<1>4. PacksRequire /\ EndRequires
  BY <1>0, <1>1 DEF PacksRequire, EndRequires, Made, Batches
<1>5. Ordered
  BY <1>0 DEF Ordered, Order!OrderTypeOK, Order!Stages
<1>6. Chained
  <2>1. End \in Jobs /\ \A i \in 1 .. last - 1 : Pack(i) \in Jobs
    BY <1>0, <1>1, JobsAre DEF Batches
  <2>. QED
    BY <1>0, <1>1, <2>1 DEF Chained
<1>. QED
  BY <1>2, <1>3, <1>4, <1>5, <1>6 DEF JobsHold, MadeInOrder

\* Every step of a batch job is a step of the job system at most, and only
\* make_jobs enables other jobs than the first.
OtherStep ==
  /\ UNCHANGED <<batch, call>>
  /\ enabled' \subseteq enabled \cup {Root, Dependency}

MakeStep ==
  /\ ~AllMade /\ stage[Root] = "running"
  /\ CallStep(Calls(batch)[call])

LEMMA MakeSteps ==
  ASSUME InputTyped, MakeDependency \/ MakeEnabled
  PROVE  OrderStep /\ MakeStep
<1>0. /\ batchCount \in Nat /\ last = batchCount - 1 /\ Batches = 0 .. last /\ batch \in Nat
      /\ ~AllMade /\ stage[Root] = "running" /\ Called
  BY Sizes DEF InputTyped, Batches, MakeDependency, MakeEnabled, Making
<1>1. /\ End \in Jobs
      /\ \A i \in Batches : Process(i) \in Jobs /\ Pack(i) \in Jobs
  BY JobsAre DEF InputTyped
<1>2. PICK next : next = Calls(batch)[call]
  OBVIOUS
<1>3. NextCallIs(next)
  BY <1>0, <1>2, NextCall
<1>4. batchCount > 0 /\ batch <= batchCount
  BY <1>0 DEF AllMade
<1>5. batchCount > 1 => PackOf(last - 1) \in Jobs
  BY <1>0, <1>1, <1>4 DEF PackOf
<1>6. batch \in 1 .. last - 1 => {PackOf(batch - 1), Pack(batch), Process(batch)} \subseteq Jobs
  BY <1>0, <1>1 DEF PackOf
<1>7. last \in Batches /\ (batch < batchCount => batch \in Batches)
  BY <1>0, <1>4
<1>8. next.call = "depends_on" => next.job \in Jobs /\ next.on \in Jobs
  <2>1. \/ \E q \in Jobs, p \in Jobs : next = Requiring(q, p)
        \/ \E q : next = Enabling(q)
    BY <1>1, <1>3, <1>5, <1>6, <1>7 DEF NextCallIs
  <2>. QED
    BY <2>1 DEF Enabling, Requiring
<1>9. next.call = "enable" => next.job \in Jobs
  <2>1. \/ \E q, p : next = Requiring(q, p)
        \/ \E q \in Jobs : next = Enabling(q)
    BY <1>1, <1>3, <1>6, <1>7 DEF NextCallIs
  <2>. QED
    BY <2>1 DEF Enabling, Requiring
<1>10. CASE MakeDependency
  <2>1. next.call = "depends_on" /\ Order!Require(next.job, next.on)
    BY <1>2, <1>10 DEF MakeDependency
  <2>. QED
    BY <1>0, <1>2, <1>8, <2>1 DEF OrderStep, MakeStep, CallStep, Order!Require
<1>11. CASE MakeEnabled
  <2>1. /\ next.call = "enable"
        /\ Order!Enable(next.job) \/ Order!EnableAndRun(next.job) \/ UNCHANGED jobVars
    BY <1>2, <1>11 DEF MakeEnabled
  <2>2. enabled' \subseteq enabled \cup {next.job} /\ requires' = requires
    BY <2>1 DEF Order!Enable, Order!EnableAndRun, jobVars
  <2>. QED
    BY <1>0, <1>2, <1>9, <2>1, <2>2 DEF OrderStep, MakeStep, CallStep
<1>. QED
  BY <1>10, <1>11

LEMMA NextSteps ==
  ASSUME InputTyped, [Next]_vars
  PROVE  UNCHANGED inputVars /\ OrderStep /\ (OtherStep \/ MakeStep)
<1>1. /\ Root \in Jobs /\ Dependency \in Jobs /\ End \in Jobs
      /\ \A i \in Batches : Process(i) \in Jobs /\ Pack(i) \in Jobs
  BY JobsAre DEF InputTyped
<1>2. CASE UNCHANGED vars
  BY <1>2 DEF vars, jobVars, makeVars, OrderStep, OtherStep
<1>3. CASE Program
  <2>1. CASE DependsOn
    BY <1>1, <2>1 DEF DependsOn, OrderStep, OtherStep, Order!Require, makeVars
  <2>2. CASE EnableDependency
    BY <1>1, <2>2 DEF EnableDependency, OrderStep, OtherStep, Order!Enable, makeVars
  <2>3. CASE EnableRoot
    BY <1>1, <2>3 DEF EnableRoot, OrderStep, OtherStep, Order!Enable, makeVars
  <2>4. CASE EnableLocally
    BY <1>1, <2>4 DEF EnableLocally, OrderStep, OtherStep, Order!EnableAndRun, makeVars
  <2>5. CASE StoreSelfRef \/ LocalReturns \/ Discard
    BY <2>5 DEF StoreSelfRef, LocalReturns, Discard, OrderStep, OtherStep, jobVars, makeVars
  <2>. QED
    BY <1>3, <2>1, <2>2, <2>3, <2>4, <2>5 DEF Program
<1>4. ASSUME NEW j \in Jobs, ScheduleJob(j) \/ RunJob(j)
      PROVE  UNCHANGED inputVars /\ OrderStep /\ OtherStep
  <2>1. Order!Schedule(j) \/ Order!Run(j)
    BY <1>4 DEF ScheduleJob, RunJob
  <2>2. UNCHANGED <<inputVars, batch, call>>
    BY <1>4 DEF ScheduleJob, RunJob, makeVars
  <2>. QED
    BY <2>1, <2>2 DEF OrderStep, OtherStep, Order!Schedule, Order!Run
<1>5. ASSUME NEW j \in Jobs, Order!Finish(j), UNCHANGED <<inputVars, batch, call>>
      PROVE  UNCHANGED inputVars /\ OrderStep /\ OtherStep
  BY <1>5 DEF OrderStep, OtherStep, Order!Finish
<1>6. CASE RunRoot
  BY <1>1, <1>6 DEF RunRoot, OrderStep, OtherStep, Order!Run, makeVars
<1>7. CASE MakeDependency \/ MakeEnabled
  <2>1. UNCHANGED inputVars
    BY <1>7 DEF MakeDependency, MakeEnabled
  <2>. QED
    BY <1>7, <2>1, MakeSteps
<1>8. CASE FinishRoot
  BY <1>1, <1>5, <1>8 DEF FinishRoot, makeVars
<1>9. CASE FinishDependency
  BY <1>1, <1>5, <1>9 DEF FinishDependency, makeVars
<1>10. ASSUME NEW i \in Batches, ProcessItem(i) \/ FinishProcess(i) \/ FinishPack(i)
       PROVE  UNCHANGED inputVars /\ OrderStep /\ OtherStep
  <2>1. CASE ProcessItem(i)
    BY <2>1 DEF ProcessItem, OrderStep, OtherStep, jobVars, makeVars
  <2>2. CASE FinishProcess(i)
    BY <1>1, <1>5, <2>2 DEF FinishProcess, makeVars
  <2>3. CASE FinishPack(i)
    BY <1>1, <1>5, <2>3 DEF FinishPack, makeVars
  <2>. QED
    BY <1>10, <2>1, <2>2, <2>3
<1>11. CASE Finalize
  BY <1>11 DEF Finalize, OrderStep, OtherStep, jobVars, makeVars
<1>12. CASE FinishEnd
  BY <1>1, <1>5, <1>12 DEF FinishEnd, makeVars
<1>. QED
  BY <1>2, <1>3, <1>4, <1>6, <1>7, <1>8, <1>9, <1>10, <1>11, <1>12 DEF Next, Work

LEMMA StepJobs == JobsHold /\ [Next]_vars => JobsHold'
<1>. SUFFICES ASSUME JobsHold, [Next]_vars
              PROVE  JobsHold'
  OBVIOUS
<1>1. InputTyped /\ Ordered /\ Chained /\ MadeInOrder
  BY DEF JobsHold, MadeInOrder
<1>2. UNCHANGED inputVars /\ OrderStep /\ (OtherStep \/ MakeStep)
  BY <1>1, NextSteps
<1>3. UNCHANGED <<kind, inputSize, assigned>>
  BY <1>2 DEF inputVars
<1>4. /\ Ordered' /\ Advances
      /\ \A j \in Jobs : requires[j] \subseteq requires'[j]
  BY <1>1, <1>2, OrderKeeps
<1>5. MadeInOrder'
  <2>1. CASE OtherStep
    BY <1>1, <1>3, <1>4, <2>1, MadeStays DEF OtherStep
  <2>2. CASE MakeStep
    BY <1>1, <1>3, <1>4, <2>2, CallMakes DEF MakeStep
  <2>. QED
    BY <1>2, <2>1, <2>2
<1>6. Chained'
  BY <1>1, <1>3, <1>4, <1>5, ChainKeeps DEF MadeInOrder
<1>. QED
  BY <1>4, <1>5, <1>6 DEF JobsHold

-----------------------------------------------------------------------------
\* What keeps the batch job alive once the program may discard it: the
\* reference to itself, until finalize, or that all is done when
\* enable_locally_if_ready returns.
LocalJobsRun ==
  locally =>
    /\ \A j \in enabled \ {Dependency} : stage[j] \in {"running", "finished"}
    /\ stage[Root] = "finished" => \A j \in enabled \ {Dependency} : stage[j] = "finished"

SelfKept ==
  /\ locally \in BOOLEAN /\ selfRef \in BOOLEAN /\ released \in BOOLEAN
  /\ owner \in {"made", "enabling"} => ~locally
  /\ owner = "running" => locally
  /\ owner \in {"enabled", "discarded"} =>
       IF locally THEN stage[Root] = "finished" ELSE selfRef \/ released
  /\ released => batchCount > 0 /\ stage[End] \in {"running", "finished"}
  /\ stage[Root] = "finished" => AllMade

LEMMA InitKept == Init => SelfKept /\ LocalJobsRun
BY Sizes, BatchAssumption, JobsAre DEF Init, SelfKept, LocalJobsRun, Order!OrderInit

LEMMA StepKept ==
  ASSUME JobsHold, SelfKept, [Next]_vars
  PROVE  SelfKept'
<1>0. /\ Root \in Jobs /\ End \in Jobs /\ batchCount' = batchCount /\ End' = End
      /\ batchCount \in Nat /\ InputTyped /\ stage \in [Jobs -> Order!Stages]
  <2>1. InputTyped
    BY DEF JobsHold, MadeInOrder
  <2>2. UNCHANGED inputVars
    BY <2>1, NextSteps
  <2>. QED
    BY <2>1, <2>2, JobsAre, Sizes
       DEF InputTyped, inputVars, batchCount, End, JobsHold, Ordered, Order!OrderTypeOK
<1>1. Advances /\ (OtherStep \/ MakeStep)
  BY <1>0, NextSteps, OrderKeeps DEF JobsHold
\* What all steps keep.
<1>2. /\ stage[Root] = "finished" => stage'[Root] = "finished"
      /\ stage[End] \in {"running", "finished"} => stage'[End] \in {"running", "finished"}
      /\ AllMade => AllMade'
  <2>1. AllMade => AllMade'
    BY <1>0, <1>1 DEF AllMade, OtherStep, MakeStep
  <2>. QED
    BY <1>0, <1>1, <2>1 DEF Advances
<1>3. UNCHANGED <<owner, locally, selfRef, released>> /\ stage[Root] = stage'[Root] => SelfKept'
  BY <1>0, <1>2 DEF SelfKept
<1>4. CASE UNCHANGED vars
  BY <1>3, <1>4 DEF vars, ownerVars, refVars, jobVars
<1>5. CASE Program
  <2>1. CASE DependsOn \/ EnableDependency
    <3>1. UNCHANGED <<owner, locally, selfRef, released>>
      BY <2>1 DEF DependsOn, EnableDependency, ownerVars, refVars
    <3>2. stage'[Root] = stage[Root]
      <4>1. CASE DependsOn
        BY <4>1 DEF DependsOn, Order!Require
      <4>2. CASE EnableDependency
        BY <4>2, <1>0, JobNames DEF EnableDependency, Order!Enable
      <4>. QED
        BY <2>1, <4>1, <4>2
    <3>. QED
      BY <1>3, <3>1, <3>2
  <2>2. CASE EnableRoot
    <3>1. stage'[Root] \in {"held", "scheduled"} /\ owner' = "enabling"
          /\ UNCHANGED <<locally, selfRef, released>> /\ owner = "made"
      BY <1>0, <2>2 DEF EnableRoot, Order!Enable, refVars
    <3>. QED
      BY <1>0, <1>2, <3>1 DEF SelfKept
  <2>3. CASE StoreSelfRef
    <3>1. owner = "enabling" /\ owner' = "enabled" /\ selfRef' = TRUE
          /\ UNCHANGED <<locally, released, stage>>
      BY <2>3 DEF StoreSelfRef, jobVars
    <3>. QED
      BY <1>0, <1>2, <3>1 DEF SelfKept
  <2>4. CASE EnableLocally
    <3>1. stage'[Root] = "running" /\ owner' = "running" /\ locally' = TRUE
          /\ UNCHANGED <<selfRef, released>>
      BY <1>0, <2>4 DEF EnableLocally, Order!EnableAndRun, refVars
    <3>. QED
      BY <1>0, <1>2, <3>1 DEF SelfKept
  <2>5. CASE LocalReturns
    <3>1. owner = "running" /\ stage[Root] = "finished" /\ owner' = "enabled"
          /\ UNCHANGED <<locally, selfRef, released, stage>>
      BY <2>5 DEF LocalReturns, refVars, jobVars
    <3>. QED
      BY <1>0, <1>2, <3>1 DEF SelfKept
  <2>6. CASE Discard
    <3>1. owner = "enabled" /\ owner' = "discarded"
          /\ UNCHANGED <<locally, selfRef, released, stage>>
      BY <2>6 DEF Discard, refVars, jobVars
    <3>. QED
      BY <1>0, <1>2, <3>1 DEF SelfKept
  <2>. QED
    BY <1>5, <2>1, <2>2, <2>3, <2>4, <2>5, <2>6 DEF Program
<1>6. ASSUME UNCHANGED <<owner, locally, selfRef, released>>,
             stage[Root] # "finished" /\ stage'[Root] = "finished" => AllMade
      PROVE  SelfKept'
  BY <1>0, <1>2, <1>6 DEF SelfKept
<1>7. ASSUME NEW j \in Jobs, Order!Schedule(j) \/ Order!Run(j) \/ (Order!Finish(j) /\ j # Root)
      PROVE  stage[Root] # "finished" => stage'[Root] # "finished"
  BY <1>0, <1>7 DEF Order!Schedule, Order!Run, Order!Finish
<1>8. ASSUME NEW j \in Jobs, ScheduleJob(j) \/ RunJob(j)
      PROVE  SelfKept'
  BY <1>6, <1>7, <1>8 DEF ScheduleJob, RunJob, ownerVars, refVars
<1>9. CASE RunRoot
  BY <1>0, <1>6, <1>7, <1>9 DEF RunRoot, ownerVars, refVars
<1>10. CASE MakeDependency \/ MakeEnabled
  <2>1. stage[Root] = "running" /\ stage'[Root] # "finished"
    <3>1. CASE MakeDependency
      BY <3>1 DEF MakeDependency, Making, Order!Require
    <3>2. CASE MakeEnabled
      BY <3>2, <1>0 DEF MakeEnabled, Making, Order!Enable, Order!EnableAndRun, jobVars
    <3>. QED
      BY <1>10, <3>1, <3>2
  <2>2. UNCHANGED <<owner, locally, selfRef, released>>
    BY <1>10 DEF MakeDependency, MakeEnabled, ownerVars, refVars
  <2>. QED
    BY <1>6, <2>1, <2>2
<1>11. CASE FinishRoot
  BY <1>6, <1>11 DEF FinishRoot, ownerVars, refVars
<1>12. ASSUME NEW i \in Batches, ProcessItem(i) \/ FinishProcess(i) \/ FinishPack(i)
       PROVE  SelfKept'
  <2>1. Process(i) \in Jobs /\ Pack(i) \in Jobs /\ Process(i) # Root /\ Pack(i) # Root
    BY <1>0, JobsAre, JobNames DEF InputTyped
  <2>2. UNCHANGED <<owner, locally, selfRef, released>>
    BY <1>12 DEF ProcessItem, FinishProcess, FinishPack, ownerVars, refVars
  <2>3. CASE ProcessItem(i)
    BY <1>3, <2>2, <2>3 DEF ProcessItem, jobVars
  <2>4. CASE FinishProcess(i) \/ FinishPack(i)
    BY <1>6, <1>7, <2>1, <2>2, <2>4 DEF FinishProcess, FinishPack
  <2>. QED
    BY <1>12, <2>3, <2>4
<1>13. CASE FinishDependency
  <2>1. Dependency \in Jobs /\ Dependency # Root
    BY <1>0, JobsAre, JobNames DEF InputTyped
  <2>. QED
    BY <1>6, <1>7, <1>13, <2>1 DEF FinishDependency, ownerVars, refVars
<1>14. CASE Finalize
  <2>1. UNCHANGED <<owner, locally, stage>> /\ selfRef' = FALSE /\ released' = TRUE
        /\ batchCount > 0 /\ stage[End] = "running"
    BY <1>14 DEF Finalize, ownerVars, jobVars
  <2>. QED
    BY <1>0, <1>2, <2>1 DEF SelfKept
<1>15. CASE FinishEnd
  <2>1. End # Root
    BY <1>0, <1>15, JobNames, EndName DEF FinishEnd
  <2>. QED
    BY <1>0, <1>6, <1>7, <1>15, <2>1 DEF FinishEnd, ownerVars, refVars
<1>. QED
  BY <1>4, <1>5, <1>8, <1>9, <1>10, <1>11, <1>12, <1>13, <1>14, <1>15 DEF Next, Work

LEMMA StepLocal ==
  ASSUME JobsHold, SelfKept, LocalJobsRun, [Next]_vars
  PROVE  LocalJobsRun'
<1>0. /\ Root \in Jobs /\ End \in Jobs /\ Dependency \in Jobs
      /\ batchCount \in Nat /\ InputTyped
      /\ stage \in [Jobs -> Order!Stages] /\ enabled \subseteq Jobs
      /\ \A i \in Batches : Process(i) \in Jobs /\ Pack(i) \in Jobs
  BY JobsAre, Sizes DEF InputTyped, JobsHold, MadeInOrder, Ordered, Order!OrderTypeOK
<1>1. Advances /\ \A j \in Jobs : requires[j] \subseteq requires'[j]
  BY <1>0, NextSteps, OrderKeeps DEF JobsHold
\* A job that goes on was running; no job is enabled.
<1>2. ASSUME locally' = locally, enabled' \subseteq enabled \cup {Dependency},
             stage'[Root] = "finished" => stage[Root] = "finished"
      PROVE  LocalJobsRun'
  <2>. SUFFICES ASSUME locally
                PROVE  /\ \A j \in enabled \ {Dependency} : stage'[j] \in {"running", "finished"}
                       /\ stage'[Root] = "finished" =>
                            \A j \in enabled \ {Dependency} : stage'[j] = "finished"
    BY <1>2 DEF LocalJobsRun
  <2>1. \A j \in Jobs : stage[j] \in {"running", "finished"} => stage'[j] \in {"running", "finished"}
    BY <1>1 DEF Advances
  <2>2. \A j \in Jobs : stage[j] = "finished" => stage'[j] = "finished"
    BY <1>1 DEF Advances
  <2>. QED
    BY <1>0, <1>2, <2>1, <2>2 DEF LocalJobsRun
<1>3. CASE UNCHANGED vars
  BY <1>2, <1>3 DEF vars, ownerVars, jobVars
<1>4. CASE Program
  <2>1. CASE DependsOn
    BY <1>2, <2>1 DEF DependsOn, Order!Require, ownerVars
  <2>2. CASE EnableDependency
    <3>1. enabled' = enabled \cup {Dependency} /\ locally' = locally /\ stage'[Root] = stage[Root]
      BY <1>0, <2>2, JobNames DEF EnableDependency, Order!Enable, ownerVars
    <3>. QED
      BY <1>2, <3>1
  <2>3. CASE EnableRoot
    BY <2>3 DEF EnableRoot, SelfKept, LocalJobsRun
  <2>4. CASE EnableLocally
    <3>1. stage[Root] = "held" /\ stage' = [stage EXCEPT ![Root] = "running"]
          /\ enabled' = enabled \cup {Root}
      BY <2>4 DEF EnableLocally, Order!EnableAndRun
    <3>2. enabled \subseteq {Root, Dependency}
      <4>1. batch = 0 /\ call = 1
        BY <3>1 DEF JobsHold, MadeInOrder, NotBegun
      <4>2. ~(batchCount > 0 /\ AllMade) /\ \A i \in Batches : ~Made(i, 1)
        BY <1>0, <4>1, Sizes DEF AllMade, Made, Batches, InputTyped
      <4>3. \A i \in 1 .. last - 1 : ~(batch > i)
        BY <1>0, <4>1, Sizes DEF InputTyped
      <4>. QED
        BY <4>2, <4>3 DEF JobsHold, MadeInOrder, EnabledIsMade
    <3>3. stage'[Root] = "running"
      BY <1>0, <3>1
    <3>. QED
      BY <3>1, <3>2, <3>3 DEF LocalJobsRun
  <2>5. CASE StoreSelfRef \/ LocalReturns \/ Discard
    BY <1>2, <2>5 DEF StoreSelfRef, LocalReturns, Discard, jobVars
  <2>. QED
    BY <1>4, <2>1, <2>2, <2>3, <2>4, <2>5 DEF Program
<1>5. ASSUME NEW j \in Jobs, Order!Schedule(j) \/ Order!Run(j) \/ (Order!Finish(j) /\ j # Root),
             locally' = locally
      PROVE  LocalJobsRun'
  <2>1. enabled' = enabled /\ stage'[Root] = "finished" => stage[Root] = "finished"
    BY <1>0, <1>5 DEF Order!Schedule, Order!Run, Order!Finish
  <2>2. enabled' = enabled
    BY <1>5 DEF Order!Schedule, Order!Run, Order!Finish
  <2>. QED
    BY <1>2, <1>5, <2>1, <2>2
<1>6. ASSUME NEW j \in Jobs, ScheduleJob(j) \/ RunJob(j)
      PROVE  LocalJobsRun'
  BY <1>5, <1>6 DEF ScheduleJob, RunJob, ownerVars
<1>7. CASE RunRoot
  BY <1>0, <1>5, <1>7 DEF RunRoot, ownerVars
<1>8. CASE MakeDependency
  BY <1>2, <1>8 DEF MakeDependency, Order!Require, ownerVars
<1>9. CASE MakeEnabled
  <2>1. PICK next : next = Calls(batch)[call]
    OBVIOUS
  <2>2. stage[Root] = "running" /\ locally' = locally
    BY <1>9 DEF MakeEnabled, Making, ownerVars
  <2>3. CASE ~locally
    BY <2>2, <2>3 DEF LocalJobsRun
  <2>4. CASE locally /\ Order!EnableAndRun(next.job)
    <3>1. enabled' = enabled \cup {next.job} /\ stage' = [stage EXCEPT ![next.job] = "running"]
          /\ stage[next.job] = "held"
      BY <2>4 DEF Order!EnableAndRun
    <3>2. \A j \in enabled' \ {Dependency} : stage'[j] \in {"running", "finished"}
      <4>. SUFFICES ASSUME NEW j \in enabled', j # Dependency
                    PROVE  stage'[j] \in {"running", "finished"}
        OBVIOUS
      <4>1. next.job \in Jobs
        <5>1. OrderStep /\ MakeStep
          BY <1>0, <1>9, MakeSteps
        <5>2. enabled' \subseteq Jobs
          BY <1>0, <5>1, OrderKeeps DEF JobsHold, Ordered, Order!OrderTypeOK
        <5>. QED
          BY <3>1, <5>2
      <4>. QED
        BY <1>0, <2>4, <3>1, <4>1 DEF LocalJobsRun
    <3>3. stage'[Root] # "finished"
      BY <1>0, <2>2, <3>1
    <3>. QED
      BY <3>2, <3>3 DEF LocalJobsRun
  <2>5. CASE UNCHANGED jobVars
    BY <1>2, <2>2, <2>5 DEF jobVars
  <2>6. locally => Order!EnableAndRun(next.job) \/ UNCHANGED jobVars
    BY <1>9, <2>1 DEF MakeEnabled
  <2>. QED
    BY <2>3, <2>4, <2>5, <2>6
<1>10. CASE FinishRoot
  <2>1. /\ locally' = locally /\ enabled' = enabled
        /\ stage[Root] = "running" /\ stage' = [stage EXCEPT ![Root] = "finished"]
        /\ locally => \A j \in Jobs \ {Root, Dependency} : stage[j] # "running"
    BY <1>10 DEF FinishRoot, Order!Finish, ownerVars
  <2>. QED
    BY <1>0, <2>1 DEF LocalJobsRun
<1>11. CASE FinishDependency
  BY <1>0, <1>5, <1>11, JobNames DEF FinishDependency, ownerVars
<1>12. ASSUME NEW i \in Batches, ProcessItem(i) \/ FinishProcess(i) \/ FinishPack(i)
       PROVE  LocalJobsRun'
  <2>1. Process(i) \in Jobs /\ Pack(i) \in Jobs /\ Process(i) # Root /\ Pack(i) # Root
    BY <1>0, JobNames
  <2>2. CASE ProcessItem(i)
    BY <1>2, <2>2 DEF ProcessItem, jobVars, ownerVars
  <2>3. CASE FinishProcess(i) \/ FinishPack(i)
    BY <1>5, <2>1, <2>3 DEF FinishProcess, FinishPack, ownerVars
  <2>. QED
    BY <1>12, <2>2, <2>3
<1>13. CASE Finalize
  BY <1>2, <1>13 DEF Finalize, jobVars, ownerVars
<1>14. CASE FinishEnd
  <2>1. End # Root
    BY <1>0, <1>14, JobNames, EndName DEF FinishEnd
  <2>. QED
    BY <1>0, <1>5, <1>14, <2>1 DEF FinishEnd, ownerVars
<1>. QED
  BY <1>3, <1>4, <1>6, <1>7, <1>8, <1>9, <1>10, <1>11, <1>12, <1>13, <1>14 DEF Next, Work

\* Once the end job runs, every other job of the batch job has finished, or is
\* the root job with nothing left to make.
LEMMA EndIsLast ==
  ASSUME JobsHold, batchCount > 0, stage[End] # "held",
         NEW j \in enabled \ {Dependency, End}
  PROVE  stage[j] = "finished" \/ (j = Root /\ AllMade /\ stage[Root] = "running")
<1>0. /\ InputTyped /\ batchCount \in Nat /\ last = batchCount - 1 /\ Batches = 0 .. last
      /\ End \in Jobs /\ Root \in Jobs
      /\ stage \in [Jobs -> Order!Stages]
  BY Sizes, JobsAre DEF InputTyped, JobsHold, MadeInOrder, Ordered, Order!OrderTypeOK, Batches
<1>1. DoneUpTo(last)
  BY DEF JobsHold, Chained
<1>2. End # Root /\ End # Dependency /\ (\A i : End # Process(i) /\ End # Pack(i)) /\ End \in enabled
  BY <1>0, JobNames, EndName DEF JobsHold, Ordered
<1>3. AllMade
  BY <1>2 DEF JobsHold, MadeInOrder, EnabledIsMade
<1>4. stage[Root] \in {"running", "finished"}
  <2>1. batch # 0
    BY <1>0, <1>3 DEF AllMade
  <2>. QED
    BY <2>1 DEF JobsHold, MadeInOrder, NotBegun
<1>. QED
  BY <1>0, <1>1, <1>2, <1>3, <1>4 DEF JobsHold, MadeInOrder, EnabledIsMade, DoneUpTo

LEMMA Outlives == JobsHold /\ SelfKept /\ LocalJobsRun => OutlivesItsJobs
<1>. SUFFICES ASSUME JobsHold, SelfKept, LocalJobsRun, batchCount > 0,
                     NEW j \in Jobs, MayUse(j), ~Alive
              PROVE  FALSE
  BY DEF OutlivesItsJobs
<1>1. owner = "discarded" /\ ~selfRef
  BY DEF Alive, SelfKept
<1>2. j \in enabled \ {Dependency} /\ stage[j] # "finished"
  BY DEF MayUse
<1>3. CASE locally
  BY <1>1, <1>2, <1>3 DEF SelfKept, LocalJobsRun
<1>4. CASE ~locally
  <2>1. released /\ stage[End] # "held"
    BY <1>1, <1>4 DEF SelfKept
  <2>2. j # End
    BY <2>1 DEF MayUse
  <2>. QED
    BY <1>2, <2>1, <2>2, EndIsLast DEF MayUse
<1>. QED
  BY <1>3, <1>4

\* batch_job.h: "this object may be discarded once enable has been invoked".  As
\* long as a job of it can still follow its pointer, the batch job is alive,
\* whatever the number of batches and however the jobs are scheduled.
THEOREM OwnerMayDiscard == SafeSpec => []OutlivesItsJobs
<1>. DEFINE Inv == JobsHold /\ SelfKept /\ LocalJobsRun
<1>1. Init => Inv
  BY InitJobs, InitKept
<1>2. Inv /\ [Next]_vars => Inv'
  BY StepJobs, StepKept, StepLocal
<1>3. Inv => OutlivesItsJobs
  BY Outlives
<1>. QED
  BY <1>1, <1>2, <1>3, PTL DEF SafeSpec

-----------------------------------------------------------------------------
\* The places of a batch are its own, and what was kept of the batches up to it
\* fits in the places up to its end.

LEMMA PlacesGrow ==
  ASSUME inputSize \in Nat, assigned \in Nat, NEW i \in Nat
  PROVE  /\ batchSize \in Nat \ {0}
         /\ to_batch_begin(i) \in Nat
         /\ to_batch_end(i) \in Nat
         /\ to_batch_end(i) <= to_batch_begin(i) + batchSize
         /\ i > 0 => to_batch_begin(i - 1) + batchSize = to_batch_begin(i)
         /\ \A k \in Nat : i < k => to_batch_begin(i) + batchSize <= to_batch_begin(k)
<1>1. batchSize \in Nat \ {0}
  BY Sizes
<1>2. to_batch_begin(i) \in Nat
  BY <1>1 DEF to_batch_begin
<1>3. ASSUME NEW n \in Nat PROVE to_batch_begin(n + 1) = to_batch_begin(n) + batchSize
  BY <1>1 DEF to_batch_begin
<1>4. i > 0 => to_batch_begin(i - 1) + batchSize = to_batch_begin(i)
  <2>1. i > 0 => i - 1 \in Nat /\ (i - 1) + 1 = i
    OBVIOUS
  <2>. QED
    BY <1>3, <2>1
<1>5. ASSUME NEW k \in Nat, i < k
      PROVE  to_batch_begin(i) + batchSize <= to_batch_begin(k)
  <2>1. (i + 1) * batchSize <= k * batchSize
    BY <1>1, <1>5, ProductGrows
  <2>. QED
    BY <1>3, <2>1 DEF to_batch_begin
<1>6. to_batch_end(i) \in Nat /\ to_batch_end(i) <= to_batch_begin(i) + batchSize
  BY <1>1, <1>2 DEF to_batch_end, to_batch_begin
<1>. QED
  BY <1>1, <1>2, <1>4, <1>5, <1>6

TrackerTyped ==
  /\ place \in [Batches -> Nat]
  /\ outputSize \in [Batches -> Nat]
  /\ batchTracker \in [0 .. BatchJobMaxSlices - 1 -> Nat]

\* A batch keeps no more items than it has processed.
KeptFits ==
  \A i \in Batches :
    /\ to_batch_begin(i) + outputSize[i] <= place[i]
    /\ place[i] <= to_batch_begin(i) + batchSize

\* An entry of the tracker counts the items of its batch, and once the batch is
\* packed those of the batches before as well.
TrackerFits ==
  ~released =>
    \A i \in Batches :
      /\ batchTracker[i] <= to_batch_begin(i) + batchSize
      /\ stage[Pack(i)] # "finished" => batchTracker[i] <= batchSize

Tracked == TrackerTyped /\ KeptFits /\ TrackerFits

LEMMA InitTracked == Init => Tracked
<1>. SUFFICES ASSUME Init PROVE Tracked
  OBVIOUS
<1>1. inputSize \in Nat /\ assigned \in Nat
  BY BatchAssumption DEF Init
<1>2. batchSize \in Nat \ {0} /\ batchCount \in Nat /\ batchCount <= BatchJobMaxSlices
  BY <1>1, Sizes
<1>3. \A i \in Batches : i \in Nat /\ i \in 0 .. BatchJobMaxSlices - 1
  BY <1>2, BatchAssumption DEF Batches
<1>4. \A i \in Batches : to_batch_begin(i) \in Nat
  BY <1>1, <1>3, PlacesGrow
<1>5. TrackerTyped
  BY <1>3, <1>4 DEF Init, TrackerTyped
<1>6. KeptFits
  BY <1>2, <1>4 DEF Init, KeptFits
<1>7. TrackerFits
  BY <1>2, <1>3, <1>4 DEF Init, TrackerFits
<1>. QED
  BY <1>5, <1>6, <1>7 DEF Tracked

\* A job that runs is one that make_jobs made.
LEMMA PackRuns ==
  ASSUME JobsHold, NEW i \in Nat, stage[Pack(i)] = "running", Pack(i) \in Jobs
  PROVE  /\ kind # "update"
         /\ i \in 1 .. last - 1 /\ i \in Batches /\ i - 1 \in Batches
         /\ DoneUpTo(i)
<1>1. /\ batchCount \in Nat /\ last = batchCount - 1 /\ Batches = 0 .. last
  BY Sizes DEF InputTyped, JobsHold, MadeInOrder, Batches
<1>2. Pack(i) \in enabled
  BY DEF JobsHold, Ordered
<1>3. batchCount > 0 => Pack(i) # End
  BY JobNames, EndName
<1>4. kind # "update" /\ i \in 1 .. last - 1
  BY <1>1, <1>2, <1>3, JobNames DEF JobsHold, MadeInOrder, EnabledIsMade
<1>. QED
  BY <1>1, <1>4 DEF JobsHold, Chained

LEMMA StepTracked == JobsHold /\ Tracked /\ [Next]_vars => Tracked'
<1>. SUFFICES ASSUME JobsHold, Tracked, [Next]_vars
              PROVE  Tracked'
  OBVIOUS
<1>0. /\ InputTyped /\ inputSize \in Nat /\ assigned \in Nat
      /\ Batches = 0 .. last /\ last = batchCount - 1 /\ batchCount \in Nat
      /\ batchCount <= BatchJobMaxSlices
  BY Sizes DEF InputTyped, JobsHold, MadeInOrder, Batches
<1>1. \A i \in Batches : i \in Nat /\ i \in 0 .. BatchJobMaxSlices - 1 /\ Pack(i) \in Jobs /\ Process(i) \in Jobs
  BY <1>0, JobsAre, BatchAssumption
<1>2. UNCHANGED inputVars /\ Advances
  BY <1>0, NextSteps, OrderKeeps DEF JobsHold
<1>3. /\ batchSize' = batchSize /\ Batches' = Batches
      /\ \A i : to_batch_begin(i)' = to_batch_begin(i)
  BY <1>2 DEF inputVars, batchSize, batchCount, Batches, to_batch_begin
<1>4. /\ batchSize \in Nat
      /\ \A i \in Batches : to_batch_begin(i) \in Nat /\ to_batch_end(i) \in Nat
      /\ \A i \in Batches : to_batch_end(i) <= to_batch_begin(i) + batchSize
      /\ \A i \in Batches : i > 0 => to_batch_begin(i - 1) + batchSize = to_batch_begin(i)
  BY <1>0, <1>1, PlacesGrow, Sizes
<1>5. \A i \in Batches : stage'[Pack(i)] # "finished" => stage[Pack(i)] # "finished"
  BY <1>1, <1>2 DEF Advances
<1>6. /\ place \in [Batches -> Nat] /\ outputSize \in [Batches -> Nat]
      /\ batchTracker \in [0 .. BatchJobMaxSlices - 1 -> Nat]
      /\ KeptFits /\ TrackerFits
  BY DEF Tracked, TrackerTyped
\* Most steps leave the items and the tracker alone.
<1>7. ASSUME UNCHANGED <<workVars, batchTracker, released>>
      PROVE  Tracked'
  <2>1. TrackerTyped' /\ KeptFits'
    BY <1>3, <1>6, <1>7 DEF workVars, TrackerTyped, KeptFits
  <2>2. TrackerFits'
    BY <1>3, <1>5, <1>6, <1>7 DEF TrackerFits
  <2>. QED
    BY <2>1, <2>2 DEF Tracked
<1>8. ASSUME NEW i \in Batches, ProcessItem(i)
      PROVE  Tracked'
  <2>1. /\ place[i] < to_batch_end(i) /\ place' = [place EXCEPT ![i] = @ + 1]
        /\ \/ outputSize' = [outputSize EXCEPT ![i] = @ + 1]
           \/ outputSize' = outputSize
        /\ UNCHANGED <<batchTracker, released>>
    BY <1>6, <1>8 DEF ProcessItem, refVars
  <2>2. TrackerTyped'
    BY <1>3, <1>6, <2>1 DEF TrackerTyped
  <2>3. ASSUME NEW k \in Batches
        PROVE  /\ to_batch_begin(k) + outputSize'[k] <= place'[k]
               /\ place'[k] <= to_batch_begin(k) + batchSize
    <3>1. /\ to_batch_begin(k) + outputSize[k] <= place[k]
          /\ place[k] <= to_batch_begin(k) + batchSize
          /\ to_batch_begin(k) \in Nat /\ outputSize[k] \in Nat /\ place[k] \in Nat
      BY <1>4, <1>6 DEF KeptFits
    <3>2. CASE k = i
      <4>1. place'[k] = place[k] + 1 /\ outputSize'[k] \in {outputSize[k], outputSize[k] + 1}
        BY <1>6, <2>1, <3>2
      <4>2. place[k] < to_batch_end(k) /\ to_batch_end(k) <= to_batch_begin(k) + batchSize
            /\ to_batch_end(k) \in Nat
        BY <1>4, <2>1, <3>2
      <4>. QED
        BY <1>4, <3>1, <4>1, <4>2
    <3>3. CASE k # i
      BY <1>6, <2>1, <3>1, <3>3
    <3>. QED
      BY <3>2, <3>3
  <2>4. KeptFits'
    BY <1>3, <2>3 DEF KeptFits
  <2>5. TrackerFits'
    BY <1>3, <1>5, <1>6, <2>1 DEF TrackerFits
  <2>. QED
    BY <2>2, <2>4, <2>5 DEF Tracked
<1>9. ASSUME NEW i \in Batches, FinishProcess(i)
      PROVE  Tracked'
  <2>1. /\ UNCHANGED <<place, outputSize, released>>
        /\ \/ batchTracker' = batchTracker
           \/ batchTracker' = [batchTracker EXCEPT ![i] = outputSize[i]]
    BY <1>9 DEF FinishProcess, refVars, workVars
  <2>2. i \in 0 .. BatchJobMaxSlices - 1 /\ outputSize[i] \in Nat
    BY <1>1, <1>6
  <2>3. TrackerTyped' /\ KeptFits'
    BY <1>3, <1>6, <2>1, <2>2 DEF TrackerTyped, KeptFits
  <2>4. outputSize[i] <= batchSize
    <3>1. to_batch_begin(i) + outputSize[i] <= place[i] /\ place[i] <= to_batch_begin(i) + batchSize
      BY <1>6 DEF KeptFits
    <3>. QED
      BY <1>4, <1>6, <3>1
  <2>5. ASSUME ~released, NEW k \in Batches
        PROVE  /\ batchTracker'[k] <= to_batch_begin(k) + batchSize
               /\ stage[Pack(k)] # "finished" => batchTracker'[k] <= batchSize
    <3>1. /\ batchTracker[k] <= to_batch_begin(k) + batchSize
          /\ stage[Pack(k)] # "finished" => batchTracker[k] <= batchSize
      BY <1>6, <2>5 DEF TrackerFits
    <3>2. batchTracker'[k] = batchTracker[k] \/ (k = i /\ batchTracker'[k] = outputSize[k])
      BY <1>1, <1>6, <2>1
    <3>3. k = i => outputSize[k] <= to_batch_begin(k) + batchSize
      BY <1>4, <2>2, <2>4
    <3>. QED
      BY <2>4, <3>1, <3>2, <3>3
  <2>6. TrackerFits'
    BY <1>3, <1>5, <2>1, <2>5 DEF TrackerFits
  <2>. QED
    BY <2>3, <2>6 DEF Tracked
<1>10. ASSUME NEW i \in Batches, FinishPack(i)
       PROVE  Tracked'
  <2>1. /\ UNCHANGED <<place, outputSize, released>>
        /\ batchTracker' = [batchTracker EXCEPT ![i] = batchTracker[i - 1] + @]
        /\ stage[Pack(i)] = "running" /\ stage' = [stage EXCEPT ![Pack(i)] = "finished"]
    BY <1>10 DEF FinishPack, TrackPacked, Order!Finish, refVars, workVars
  <2>2. i - 1 \in Batches /\ i > 0
    BY <1>1, <2>1, PackRuns
  <2>3. /\ i \in 0 .. BatchJobMaxSlices - 1 /\ i - 1 \in 0 .. BatchJobMaxSlices - 1
        /\ batchTracker[i] \in Nat /\ batchTracker[i - 1] \in Nat
    BY <1>1, <1>6, <2>2
  <2>4. TrackerTyped' /\ KeptFits'
    BY <1>3, <1>6, <2>1, <2>3 DEF TrackerTyped, KeptFits
  <2>5. ASSUME ~released
        PROVE  batchTracker[i - 1] + batchTracker[i] <= to_batch_begin(i) + batchSize
    <3>1. batchTracker[i] <= batchSize /\ batchTracker[i - 1] <= to_batch_begin(i - 1) + batchSize
      BY <1>6, <2>1, <2>2, <2>5 DEF TrackerFits
    <3>2. to_batch_begin(i - 1) + batchSize = to_batch_begin(i)
      BY <1>4, <2>2
    <3>. QED
      BY <1>4, <2>2, <2>3, <3>1, <3>2
  <2>6. stage'[Pack(i)] = "finished"
    <3>1. stage \in [Jobs -> Order!Stages] /\ Pack(i) \in Jobs
      BY <1>1 DEF JobsHold, Ordered, Order!OrderTypeOK
    <3>. QED
      BY <2>1, <3>1
  <2>7. TrackerFits'
    BY <1>1, <1>3, <1>5, <1>6, <2>1, <2>3, <2>5, <2>6 DEF TrackerFits
  <2>. QED
    BY <2>4, <2>7 DEF Tracked
<1>11. CASE Finalize
  <2>1. /\ UNCHANGED <<place, outputSize>> /\ released' = TRUE
        /\ batchCount > 0
        /\ \/ batchTracker' = batchTracker
           \/ batchCount > 1 /\ batchTracker' = [batchTracker EXCEPT ![last] = batchTracker[last - 1] + @]
    BY <1>11 DEF Finalize, TrackPacked, workVars
  <2>2. batchCount > 1 => batchTracker[last] \in Nat /\ batchTracker[last - 1] \in Nat
    <3>1. batchCount > 1 => last \in Batches /\ last - 1 \in Batches
      BY <1>0
    <3>2. \A i \in Batches : batchTracker[i] \in Nat
      BY <1>1, <1>6
    <3>. QED
      BY <3>1, <3>2
  <2>3. TrackerTyped' /\ KeptFits'
    BY <1>3, <1>6, <2>1, <2>2 DEF TrackerTyped, KeptFits
  <2>. QED
    BY <2>1, <2>3 DEF Tracked, TrackerFits
<1>12. CASE UNCHANGED vars
  BY <1>7, <1>12 DEF vars, workVars, refVars
<1>13. CASE Program
  <2>1. UNCHANGED <<workVars, batchTracker, released>>
    BY <1>13 DEF Program, DependsOn, EnableDependency, EnableRoot, StoreSelfRef, EnableLocally,
       LocalReturns, Discard, refVars
  <2>. QED
    BY <1>7, <2>1
<1>14. ASSUME \/ \E j \in Jobs : ScheduleJob(j) \/ RunJob(j)
              \/ RunRoot \/ MakeDependency \/ MakeEnabled \/ FinishRoot
              \/ FinishDependency \/ FinishEnd
       PROVE  Tracked'
  <2>1. UNCHANGED <<workVars, batchTracker, released>>
    BY <1>14 DEF ScheduleJob, RunJob, RunRoot, MakeDependency, MakeEnabled, FinishRoot,
       FinishDependency, FinishEnd, refVars
  <2>. QED
    BY <1>7, <2>1
<1>. QED
  BY <1>8, <1>9, <1>10, <1>11, <1>12, <1>13, <1>14 DEF Next, Work

LEMMA PlacesAre ==
  /\ \A i : PlacesOf(Process(i)) = to_batch_begin(i) .. to_batch_end(i) - 1
  /\ \A i : PlacesOf(Pack(i)) = PackPlaces(i)
  /\ PlacesOf(Root) = {} /\ PlacesOf(Dependency) = {}
  /\ \A i : EntriesOf(Process(i)) = {i}
  /\ \A i : EntriesOf(Pack(i)) = {i - 1, i}
  /\ EntriesOf(Root) = {} /\ EntriesOf(Dependency) = {}
<1>1. ASSUME NEW i
      PROVE  /\ PlacesOf(Process(i)) = to_batch_begin(i) .. to_batch_end(i) - 1
             /\ EntriesOf(Process(i)) = {i}
  <2>1. Process(i)[1] = "process" /\ Process(i)[2] = i
    BY DEF Process
  <2>. QED
    BY <2>1 DEF PlacesOf, EntriesOf
<1>2. ASSUME NEW i
      PROVE  /\ PlacesOf(Pack(i)) = PackPlaces(i)
             /\ EntriesOf(Pack(i)) = {i - 1, i}
  <2>1. Pack(i)[1] = "pack" /\ Pack(i)[2] = i
    BY DEF Pack
  <2>. QED
    BY <2>1 DEF PlacesOf, EntriesOf
<1>3. PlacesOf(Root) = {} /\ EntriesOf(Root) = {}
  <2>1. Root[1] = "root"
    BY DEF Root
  <2>. QED
    BY <2>1 DEF PlacesOf, EntriesOf
<1>4. PlacesOf(Dependency) = {} /\ EntriesOf(Dependency) = {}
  <2>1. Dependency[1] = "dependency"
    BY DEF Dependency
  <2>. QED
    BY <2>1 DEF PlacesOf, EntriesOf
<1>. QED
  BY <1>1, <1>2, <1>3, <1>4

\* Which job a running job can be.
LEMMA RunningIs ==
  ASSUME JobsHold, NEW j \in Jobs, stage[j] = "running"
  PROVE  \/ j \in {Root, Dependency}
         \/ \E i \in Batches : j \in {Process(i), Pack(i)}
         \/ batchCount > 0 /\ j = End
<1>1. j \in enabled
  BY DEF JobsHold, Ordered
<1>2. \A i \in 1 .. last - 1 : i \in Batches
  BY Sizes DEF JobsHold, MadeInOrder, InputTyped, Batches
<1>. QED
  BY <1>1, <1>2 DEF JobsHold, MadeInOrder, EnabledIsMade

\* A pack job works up to the end of its batch.
LEMMA PackPlacesEnd ==
  ASSUME JobsHold, Tracked, ~released, NEW i \in Batches, stage[Pack(i)] = "running",
         NEW x \in PackPlaces(i)
  PROVE  x \in Int /\ x < to_batch_begin(i) + batchSize
<1>0. /\ inputSize \in Nat /\ assigned \in Nat
      /\ Batches = 0 .. last /\ last = batchCount - 1 /\ batchCount \in Nat
      /\ batchCount <= BatchJobMaxSlices
  BY Sizes DEF InputTyped, JobsHold, MadeInOrder, Batches
<1>1. i \in Nat /\ Pack(i) \in Jobs
  BY <1>0, JobsAre
<1>2. i - 1 \in Batches /\ i > 0
  BY <1>1, PackRuns
<1>3. /\ batchTracker[i] \in Nat /\ batchTracker[i] <= batchSize
      /\ batchTracker[i - 1] \in Nat /\ batchTracker[i - 1] <= to_batch_begin(i - 1) + batchSize
  <2>1. i \in 0 .. BatchJobMaxSlices - 1 /\ i - 1 \in 0 .. BatchJobMaxSlices - 1
    BY <1>0, <1>2, BatchAssumption
  <2>. QED
    BY <1>2, <2>1 DEF Tracked, TrackerTyped, TrackerFits
<1>4. /\ batchSize \in Nat /\ to_batch_begin(i) \in Nat
      /\ to_batch_begin(i - 1) + batchSize = to_batch_begin(i)
  BY <1>0, <1>1, <1>2, PlacesGrow
<1>5. \/ x \in to_batch_begin(i) .. to_batch_begin(i) + batchTracker[i] - 1
      \/ x \in batchTracker[i - 1] .. batchTracker[i - 1] + batchTracker[i] - 1
  BY DEF PackPlaces, Places
<1>. QED
  BY <1>3, <1>4, <1>5

LEMMA Disjoint == JobsHold /\ Tracked => DisjointAccess
<1>. SUFFICES ASSUME JobsHold, Tracked, ~released
              PROVE  \A j \in Jobs, q \in Jobs :
                       (j # q /\ stage[j] = "running" /\ stage[q] = "running") =>
                         /\ PlacesOf(j) \cap PlacesOf(q) = {}
                         /\ EntriesOf(j) \cap EntriesOf(q) = {}
  BY DEF DisjointAccess
<1>. DEFINE Apart(j, q) ==
       /\ PlacesOf(j) \cap PlacesOf(q) = {}
       /\ EntriesOf(j) \cap EntriesOf(q) = {}
<1>0. /\ inputSize \in Nat /\ assigned \in Nat
      /\ Batches = 0 .. last /\ last = batchCount - 1 /\ batchCount \in Nat
  BY Sizes DEF InputTyped, JobsHold, MadeInOrder, Batches
<1>1. \A i \in Batches : i \in Nat /\ i \in Int /\ Pack(i) \in Jobs /\ Process(i) \in Jobs
  BY <1>0, JobsAre
<1>2. ASSUME NEW i \in Batches, NEW k \in Batches, i < k
      PROVE  Apart(Process(i), Process(k))
  <2>1. /\ to_batch_begin(i) \in Nat /\ to_batch_begin(k) \in Nat /\ batchSize \in Nat
        /\ to_batch_end(i) \in Nat /\ to_batch_end(k) \in Nat
        /\ to_batch_end(i) <= to_batch_begin(i) + batchSize
        /\ to_batch_begin(i) + batchSize <= to_batch_begin(k)
    BY <1>0, <1>1, <1>2, PlacesGrow
  <2>2. \A x : ~(x \in to_batch_begin(i) .. to_batch_end(i) - 1 /\ x \in to_batch_begin(k) .. to_batch_end(k) - 1)
    BY <2>1
  <2>3. PlacesOf(Process(i)) \cap PlacesOf(Process(k)) = {}
    BY <2>2, PlacesAre
  <2>4. EntriesOf(Process(i)) \cap EntriesOf(Process(k)) = {}
    BY <1>1, <1>2, PlacesAre
  <2>. QED
    BY <2>3, <2>4
\* While batch i is packed, the batches up to it are processed.
<1>3. ASSUME NEW i \in Batches, NEW k \in Batches,
             stage[Pack(i)] = "running", stage[Process(k)] = "running"
      PROVE  Apart(Pack(i), Process(k))
  <2>1. DoneUpTo(i)
    BY <1>1, <1>3, PackRuns
  <2>2. i < k
    BY <1>1, <1>3, <2>1 DEF DoneUpTo
  <2>3. /\ to_batch_begin(i) \in Nat /\ to_batch_begin(k) \in Nat /\ batchSize \in Nat
        /\ to_batch_end(k) \in Nat
        /\ to_batch_begin(i) + batchSize <= to_batch_begin(k)
    BY <1>0, <1>1, <2>2, PlacesGrow
  <2>4. \A x \in PackPlaces(i) : x \in Int /\ x < to_batch_begin(i) + batchSize
    BY <1>3, PackPlacesEnd
  <2>5. \A x \in PackPlaces(i) : x \notin to_batch_begin(k) .. to_batch_end(k) - 1
    BY <2>3, <2>4
  <2>6. PlacesOf(Pack(i)) \cap PlacesOf(Process(k)) = {}
    BY <2>5, PlacesAre
  <2>7. EntriesOf(Pack(i)) \cap EntriesOf(Process(k)) = {}
    BY <1>1, <2>2, PlacesAre
  <2>. QED
    BY <2>6, <2>7
<1>4. ASSUME NEW i \in Batches, NEW k \in Batches, i < k,
             stage[Pack(i)] = "running", stage[Pack(k)] = "running"
      PROVE  FALSE
  <2>1. DoneUpTo(k) /\ kind # "update" /\ i \in 1 .. last - 1
    BY <1>1, <1>4, PackRuns
  <2>. QED
    BY <1>1, <1>4, <2>1 DEF DoneUpTo
\* The end job runs alone.
<1>5. ASSUME batchCount > 0, stage[End] = "running",
             NEW q \in Jobs, q # End, stage[q] = "running"
      PROVE  q \in {Root, Dependency}
  <2>1. q \in enabled
    BY <1>5 DEF JobsHold, Ordered
  <2>2. CASE q = Dependency
    BY <2>2
  <2>3. CASE q # Dependency
    BY <1>5, <2>1, <2>3, EndIsLast
  <2>. QED
    BY <2>2, <2>3
<1>6. ASSUME NEW j, NEW q, Apart(j, q) PROVE Apart(q, j)
  BY <1>6
<1>7. ASSUME NEW j \in {Root, Dependency}, NEW q PROVE Apart(j, q)
  BY <1>7, PlacesAre
<1>8. SUFFICES ASSUME NEW j \in Jobs, NEW q \in Jobs, j # q,
                      stage[j] = "running", stage[q] = "running"
               PROVE  Apart(j, q)
  OBVIOUS
<1>. HIDE DEF Apart
<1>9. CASE j \in {Root, Dependency} \/ q \in {Root, Dependency}
  BY <1>6, <1>7, <1>9
<1>10. CASE batchCount > 0 /\ (j = End \/ q = End)
  BY <1>5, <1>6, <1>7, <1>8, <1>10
<1>11. ASSUME NEW i \in Batches, NEW k \in Batches,
              j \in {Process(i), Pack(i)}, q \in {Process(k), Pack(k)}
       PROVE  Apart(j, q)
  <2>1. i < k \/ k < i \/ i = k
    BY <1>1
  <2>2. CASE j = Process(i) /\ q = Process(k)
    BY <1>2, <1>6, <1>8, <2>1, <2>2
  <2>3. CASE j = Pack(i) /\ q = Process(k)
    BY <1>3, <1>8, <2>3
  <2>4. CASE j = Process(i) /\ q = Pack(k)
    BY <1>3, <1>6, <1>8, <2>4
  <2>5. CASE j = Pack(i) /\ q = Pack(k)
    BY <1>4, <1>8, <2>1, <2>5
  <2>. QED
    BY <1>11, <2>2, <2>3, <2>4, <2>5
<1>. QED
  BY <1>8, <1>9, <1>10, <1>11, RunningIs

\* The containers and m_batchTracker have no lock.  Jobs of one batch job that
\* run at the same time touch different items and different entries, whatever
\* the sizes, the number of workers and what the processor keeps.
THEOREM JobsTouchTheirOwn == SafeSpec => []DisjointAccess
<1>. DEFINE Inv == JobsHold /\ Tracked
<1>1. Init => Inv
  BY InitJobs, InitTracked
<1>2. Inv /\ [Next]_vars => Inv'
  BY StepJobs, StepTracked
<1>3. Inv => DisjointAccess
  BY Disjoint
<1>. QED
  BY <1>1, <1>2, <1>3, PTL DEF SafeSpec

-----------------------------------------------------------------------------
\* What the output holds: n places of it, from place "from" on, hold the items
\* of lo .. hi - 1 that pass, in their order and nothing else.
Holds(keep, out, from, n, lo, hi) ==
  /\ \A a \in from .. from + n - 1 : out[a] \in lo .. hi - 1 /\ keep[out[a]]
  /\ \A k \in lo .. hi - 1 : keep[k] => \E a \in from .. from + n - 1 : out[a] = k
  /\ \A a, b \in from .. from + n - 1 : a < b => out[a] < out[b]

\* A container in which those places are the same holds the same.
LEMMA HoldsStill ==
  ASSUME NEW keep, NEW out, NEW new, NEW from \in Nat, NEW n \in Nat, NEW lo, NEW hi,
         Holds(keep, out, from, n, lo, hi),
         \A a \in from .. from + n - 1 : new[a] = out[a]
  PROVE  Holds(keep, new, from, n, lo, hi)
BY DEF Holds

\* One more item, which is written to the next place if it passes.
LEMMA HoldsNext ==
  ASSUME NEW keep, NEW out, NEW new, NEW from \in Nat, NEW n \in Nat, NEW lo \in Nat,
         NEW k \in Nat, NEW m \in Nat, lo <= k,
         Holds(keep, out, from, n, lo, k),
         \A a \in from .. from + n - 1 : new[a] = out[a],
         keep[k] => m = n + 1 /\ new[from + n] = k,
         ~keep[k] => m = n
  PROVE  Holds(keep, new, from, m, lo, k + 1)
<1>1. Holds(keep, new, from, n, lo, k)
  BY HoldsStill
<1>2. \A x \in lo .. k : x = k \/ x \in lo .. k - 1
  OBVIOUS
<1>3. CASE ~keep[k]
  BY <1>1, <1>2, <1>3 DEF Holds
<1>4. CASE keep[k]
  <2>1. m = n + 1 /\ new[from + n] = k
    BY <1>4
  <2>2. \A a \in from .. from + m - 1 : a = from + n \/ a \in from .. from + n - 1
    BY <2>1
  <2>3. from + n \in from .. from + m - 1 /\ \A a \in from .. from + n - 1 : a \in from .. from + m - 1
    BY <2>1
  <2>4. \A a \in from .. from + m - 1 : new[a] \in lo .. k /\ keep[new[a]]
    BY <1>1, <1>4, <2>1, <2>2 DEF Holds
  <2>5. \A x \in lo .. k : keep[x] => \E a \in from .. from + m - 1 : new[a] = x
    BY <1>1, <1>2, <2>1, <2>3 DEF Holds
  <2>6. \A a, b \in from .. from + m - 1 : a < b => new[a] < new[b]
    <3>. SUFFICES ASSUME NEW a \in from .. from + m - 1, NEW b \in from .. from + m - 1, a < b
                  PROVE  new[a] < new[b]
      OBVIOUS
    <3>1. a \in from .. from + n - 1
      BY <2>1
    <3>2. CASE b = from + n
      BY <1>1, <2>1, <3>1, <3>2 DEF Holds
    <3>3. CASE b \in from .. from + n - 1
      BY <1>1, <3>1, <3>3 DEF Holds
    <3>. QED
      BY <2>2, <3>2, <3>3
  <2>. QED
    BY <2>4, <2>5, <2>6 DEF Holds
<1>. QED
  BY <1>3, <1>4

\* What two parts of the container hold, after the second has been moved to the
\* end of the first.
LEMMA HoldsJoined ==
  ASSUME NEW keep, NEW out, NEW new, NEW s \in Nat, NEW m \in Nat, NEW n \in Nat,
         NEW mid \in Nat, NEW hi \in Nat, mid <= hi,
         Holds(keep, out, 0, m, 0, mid), Holds(keep, out, s, n, mid, hi),
         \A a \in 0 .. m - 1 : new[a] = out[a],
         \A a \in m .. m + n - 1 : new[a] = out[s + a - m]
  PROVE  Holds(keep, new, 0, m + n, 0, hi)
<1>1. \A a \in 0 .. m + n - 1 : a \in 0 .. m - 1 \/ a \in m .. m + n - 1
  OBVIOUS
<1>2. ASSUME NEW a \in 0 .. m - 1
      PROVE  new[a] = out[a] /\ new[a] \in 0 .. mid - 1 /\ keep[new[a]]
  <2>1. a \in 0 .. 0 + m - 1
    OBVIOUS
  <2>. QED
    BY <2>1 DEF Holds
<1>3. ASSUME NEW a \in m .. m + n - 1
      PROVE  /\ s + a - m \in s .. s + n - 1 /\ new[a] = out[s + a - m]
             /\ new[a] \in mid .. hi - 1 /\ keep[new[a]]
  <2>1. s + a - m \in s .. s + n - 1
    OBVIOUS
  <2>. QED
    BY <2>1 DEF Holds
<1>4. \A a \in 0 .. m + n - 1 : new[a] \in 0 .. hi - 1 /\ keep[new[a]]
  BY <1>1, <1>2, <1>3
<1>5. ASSUME NEW k \in 0 .. hi - 1, keep[k]
      PROVE  \E a \in 0 .. m + n - 1 : new[a] = k
  <2>1. CASE k < mid
    <3>1. PICK a \in 0 .. 0 + m - 1 : out[a] = k
      BY <1>5, <2>1 DEF Holds
    <3>2. a \in 0 .. m - 1 /\ a \in 0 .. m + n - 1
      OBVIOUS
    <3>. QED
      BY <3>1, <3>2
  <2>2. CASE ~(k < mid)
    <3>1. k \in mid .. hi - 1
      BY <2>2
    <3>2. PICK b \in s .. s + n - 1 : out[b] = k
      BY <1>5, <3>1 DEF Holds
    <3>3. PICK a \in m .. m + n - 1 : b = s + a - m
      <4>1. b - s + m \in m .. m + n - 1 /\ b = s + (b - s + m) - m
        OBVIOUS
      <4>. QED
        BY <4>1
    <3>4. a \in 0 .. m + n - 1
      OBVIOUS
    <3>. QED
      BY <3>2, <3>3, <3>4
  <2>. QED
    BY <2>1, <2>2
<1>6. ASSUME NEW a \in 0 .. m + n - 1, NEW b \in 0 .. m + n - 1, a < b
      PROVE  new[a] < new[b]
  <2>1. CASE b \in 0 .. m - 1
    <3>1. a \in 0 .. 0 + m - 1 /\ b \in 0 .. 0 + m - 1 /\ a \in 0 .. m - 1
      BY <1>6, <2>1
    <3>2. out[a] < out[b]
      BY <1>6, <3>1 DEF Holds
    <3>. QED
      BY <1>2, <2>1, <3>1, <3>2
  <2>2. CASE a \in 0 .. m - 1 /\ b \in m .. m + n - 1
    BY <1>2, <1>3, <2>2
  <2>3. CASE a \in m .. m + n - 1 /\ b \in m .. m + n - 1
    <3>1. s + a - m < s + b - m
      BY <1>6
    <3>2. out[s + a - m] < out[s + b - m]
      BY <1>3, <2>3, <3>1 DEF Holds
    <3>. QED
      BY <1>3, <2>3, <3>2
  <2>. QED
    BY <1>1, <1>6, <2>1, <2>2, <2>3
<1>7. 0 + (m + n) - 1 = m + n - 1
  OBVIOUS
<1>. QED
  BY <1>4, <1>5, <1>6, <1>7 DEF Holds

-----------------------------------------------------------------------------
\* The batches are the whole input.

LEMMA BatchesMeet ==
  ASSUME inputSize \in Nat, assigned \in Nat
  PROVE  /\ to_batch_begin(0) = 0
         /\ batchCount > 0 => to_batch_end(last) = inputSize
         /\ batchCount = 0 => inputSize = 0
         /\ \A i \in Batches : to_batch_begin(i) < to_batch_end(i) /\ to_batch_end(i) <= inputSize
         /\ \A i \in Batches : i > 0 => to_batch_end(i - 1) = to_batch_begin(i)
<1>1. /\ batchSize \in Nat \ {0} /\ batchCount \in Nat /\ last = batchCount - 1
      /\ Batches = 0 .. last
  BY Sizes DEF Batches
<1>2. inputSize <= batchCount * batchSize /\ batchCount * batchSize < inputSize + batchSize
  BY <1>1, CeilDivBounds DEF batchCount, BatchCount, batchSize
<1>3. to_batch_begin(0) = 0
  BY <1>1 DEF to_batch_begin
<1>4. batchCount > 0 => /\ to_batch_begin(last) + batchSize = batchCount * batchSize
                        /\ to_batch_begin(last) \in Nat
  <2>1. batchCount > 0 => last \in Nat /\ batchCount = last + 1
    BY <1>1
  <2>2. batchCount > 0 => (last + 1) * batchSize = last * batchSize + batchSize
    BY <1>1, <2>1
  <2>. QED
    BY <1>1, <2>1, <2>2, PlacesGrow DEF to_batch_begin
<1>5. batchCount > 0 => to_batch_end(last) = inputSize /\ to_batch_begin(last) < inputSize
  <2>1. batchCount > 0 => inputSize <= to_batch_begin(last) + batchSize /\ to_batch_begin(last) < inputSize
    BY <1>1, <1>2, <1>4
  <2>. QED
    BY <1>1, <2>1 DEF to_batch_end, to_batch_begin
<1>6. batchCount = 0 => inputSize = 0
  BY <1>1, <1>2
<1>7. ASSUME NEW i \in Batches
      PROVE  /\ to_batch_begin(i) < to_batch_end(i) /\ to_batch_end(i) <= inputSize
             /\ i > 0 => to_batch_end(i - 1) = to_batch_begin(i)
  <2>1. i \in Nat /\ last \in Nat /\ batchCount > 0
    BY <1>1
  <2>2. to_batch_begin(i) \in Nat /\ to_batch_begin(i) <= to_batch_begin(last)
    BY <1>1, <2>1, ProductGrows, PlacesGrow DEF to_batch_begin
  <2>3. to_batch_begin(i) < inputSize
    BY <1>4, <1>5, <2>1, <2>2
  <2>4. to_batch_begin(i) < to_batch_end(i) /\ to_batch_end(i) <= inputSize
    BY <1>1, <2>2, <2>3 DEF to_batch_end, to_batch_begin
  <2>5. ASSUME i > 0
        PROVE  to_batch_end(i - 1) = to_batch_begin(i)
    <3>1. to_batch_begin(i - 1) + batchSize = to_batch_begin(i)
      BY <2>1, <2>5, PlacesGrow
    <3>. QED
      BY <2>2, <2>3, <3>1 DEF to_batch_end, to_batch_begin
  <2>. QED
    BY <2>4, <2>5
<1>. QED
  BY <1>3, <1>5, <1>6, <1>7

LEMMA BatchOf ==
  ASSUME inputSize \in Nat, assigned \in Nat, NEW k \in 0 .. inputSize - 1
  PROVE  \E i \in Batches : k \in to_batch_begin(i) .. to_batch_end(i) - 1
<1>. DEFINE q == CeilDiv(k + 1, batchSize)
<1>1. /\ batchSize \in Nat \ {0} /\ batchCount \in Nat /\ last = batchCount - 1
      /\ Batches = 0 .. last /\ k \in Nat
  BY Sizes DEF Batches
<1>2. q \in Nat /\ k + 1 <= q * batchSize /\ q * batchSize < k + 1 + batchSize
  BY <1>1, CeilDivBounds
<1>3. inputSize <= batchCount * batchSize
  BY <1>1, CeilDivBounds DEF batchCount, BatchCount, batchSize
<1>4. q <= batchCount
  <2>1. batchCount * batchSize \in Nat
    BY <1>1
  <2>2. k + 1 <= batchCount * batchSize
    BY <1>1, <1>3, <2>1
  <2>. QED
    BY <1>1, <2>2, CeilDivLeast
<1>. HIDE DEF q
<1>5. q # 0
  BY <1>1, <1>2
<1>6. PICK i \in Nat : q = i + 1
  BY <1>2, <1>5
<1>7. i \in Batches
  BY <1>1, <1>4, <1>6
<1>8. q * batchSize = to_batch_begin(i) + batchSize /\ to_batch_begin(i) \in Nat
  <2>1. (i + 1) * batchSize = i * batchSize + batchSize /\ i * batchSize \in Nat
    BY <1>1
  <2>. QED
    BY <1>6, <2>1 DEF to_batch_begin
<1>9. to_batch_begin(i) <= k /\ k < to_batch_begin(i) + batchSize
  BY <1>1, <1>2, <1>8
<1>10. k < to_batch_end(i) /\ to_batch_end(i) \in Nat
  BY <1>1, <1>8, <1>9 DEF to_batch_end, to_batch_begin
<1>. QED
  BY <1>7, <1>8, <1>9, <1>10

\* Two batches have no place in common.
LEMMA BatchesApart ==
  ASSUME inputSize \in Nat, assigned \in Nat, NEW i \in Batches, NEW j \in Batches, i # j
  PROVE  \/ i < j /\ to_batch_end(i) <= to_batch_begin(j)
         \/ j < i /\ to_batch_end(j) <= to_batch_begin(i)
<1>1. i \in Nat /\ j \in Nat
  BY Sizes DEF Batches
<1>2. CASE i < j
  BY <1>1, <1>2, PlacesGrow
<1>3. CASE j < i
  BY <1>1, <1>3, PlacesGrow
<1>. QED
  BY <1>1, <1>2, <1>3

-----------------------------------------------------------------------------
\* What the jobs do to the items.

Begun == stage[Root] \in {"running", "finished"}

\* A step that concerns no item, except that the root job makes the output as
\* large as the input.
Quiet ==
  /\ UNCHANGED <<workVars, batchTracker, released>>
  /\ output' = output \/ (~Begun /\ output' = IF batchCount = 0 THEN output ELSE resize(output, inputSize))
  /\ Begun' => Begun \/ output' = IF batchCount = 0 THEN output ELSE resize(output, inputSize)
  /\ \A i \in Batches : /\ stage'[Process(i)] = "finished" => stage[Process(i)] = "finished"
                        /\ stage'[Pack(i)] = "finished" => stage[Pack(i)] = "finished"
  /\ (batchCount > 0 /\ stage'[End] = "finished") => stage[End] = "finished" \/ released

ItemStep ==
  \/ \E i \in Batches : ProcessItem(i) \/ FinishProcess(i) \/ FinishPack(i)
  \/ Finalize

LEMMA ItemSteps ==
  ASSUME JobsHold, [Next]_vars
  PROVE  Quiet \/ ItemStep
<1>0. /\ InputTyped /\ Root \in Jobs /\ Dependency \in Jobs /\ End \in Jobs
      /\ \A i \in Batches : Process(i) \in Jobs /\ Pack(i) \in Jobs
      /\ stage \in [Jobs -> Order!Stages]
  BY JobsAre DEF JobsHold, MadeInOrder, InputTyped, Ordered, Order!OrderTypeOK
<1>. DEFINE Work0 == UNCHANGED <<workVars, batchTracker, released>>
            Same == \A j \in Jobs : stage'[j] = "finished" => stage[j] = "finished"
\* No job finishes, and the root job does not start.
<1>1. ASSUME Work0, output' = output, Same, Begun' => Begun
      PROVE  Quiet
  BY <1>0, <1>1 DEF Quiet
<1>2. ASSUME NEW j \in Jobs, Order!Enable(j) \/ Order!Schedule(j)
      PROVE  Same /\ (Begun' => Begun)
  BY <1>0, <1>2 DEF Order!Enable, Order!Schedule, Begun, Order!Stages
<1>3. ASSUME NEW j \in Jobs, Order!EnableAndRun(j) \/ Order!Run(j)
      PROVE  Same
  BY <1>0, <1>3 DEF Order!EnableAndRun, Order!Run, Order!Stages
<1>4. CASE UNCHANGED vars
  BY <1>1, <1>4 DEF vars, jobVars, workVars, refVars, Begun
<1>5. CASE DependsOn
  BY <1>1, <1>5 DEF DependsOn, Order!Require, refVars, Begun
<1>6. CASE EnableDependency
  BY <1>0, <1>1, <1>2, <1>6 DEF EnableDependency, refVars
<1>7. CASE EnableRoot
  BY <1>0, <1>1, <1>2, <1>7 DEF EnableRoot, refVars
<1>8. CASE StoreSelfRef \/ LocalReturns \/ Discard
  BY <1>1, <1>8 DEF StoreSelfRef, LocalReturns, Discard, jobVars, refVars, Begun
<1>9. ASSUME Order!EnableAndRun(Root) \/ Order!Run(Root), Work0,
             output' = IF batchCount = 0 THEN output ELSE resize(output, inputSize)
      PROVE  Quiet
  <2>1. ~Begun
    BY <1>9 DEF Begun, Order!EnableAndRun, Order!Run
  <2>. QED
    BY <1>0, <1>3, <1>9, <2>1 DEF Quiet
<1>10. CASE EnableLocally
  BY <1>9, <1>10 DEF EnableLocally, refVars
<1>11. CASE RunRoot
  BY <1>9, <1>11 DEF RunRoot, refVars
<1>12. ASSUME NEW j \in Jobs, ScheduleJob(j)
       PROVE  Quiet
  BY <1>1, <1>2, <1>12 DEF ScheduleJob, refVars
<1>13. ASSUME NEW j \in Jobs, RunJob(j)
       PROVE  Quiet
  <2>1. Begun' => Begun
    BY <1>0, <1>13 DEF RunJob, Order!Run, Begun
  <2>. QED
    BY <1>1, <1>3, <1>13, <2>1 DEF RunJob, refVars
<1>14. CASE MakeDependency
  BY <1>1, <1>14 DEF MakeDependency, Order!Require, refVars, Begun
<1>15. CASE MakeEnabled
  <2>1. PICK next : next = Calls(batch)[call]
    OBVIOUS
  <2>2. /\ Begun /\ output' = output /\ Work0
        /\ Order!Enable(next.job) \/ Order!EnableAndRun(next.job) \/ UNCHANGED jobVars
    BY <1>15, <2>1 DEF MakeEnabled, Making, Begun, refVars
  <2>3. CASE UNCHANGED jobVars
    BY <1>1, <2>2, <2>3 DEF jobVars
  <2>4. CASE Order!Enable(next.job) \/ Order!EnableAndRun(next.job)
    <3>1. next.job \in Jobs
      <4>1. OrderStep
        BY <1>0, <1>15, MakeSteps
      <4>2. enabled' \subseteq Jobs
        BY <1>0, <4>1, OrderKeeps DEF JobsHold, Ordered, Order!OrderTypeOK
      <4>. QED
        BY <2>4, <4>2 DEF Order!Enable, Order!EnableAndRun
    <3>2. Same
      BY <1>2, <1>3, <2>4, <3>1
    <3>. QED
      BY <1>1, <2>2, <3>2
  <2>. QED
    BY <2>2, <2>3, <2>4
\* The root job, the end job and jobs of the program finish.
<1>16. CASE FinishRoot
  <2>1. /\ Work0 /\ output' = output
        /\ stage[Root] = "running" /\ stage' = [stage EXCEPT ![Root] = "finished"]
    BY <1>16 DEF FinishRoot, Order!Finish, refVars
  <2>2. batchCount > 0 => End # Root
    BY JobNames, EndName
  <2>. QED
    BY <1>0, <2>1, <2>2, JobNames DEF Quiet, Begun
<1>17. CASE FinishDependency
  <2>1. /\ Work0 /\ output' = output /\ stage' = [stage EXCEPT ![Dependency] = "finished"]
    BY <1>17 DEF FinishDependency, Order!Finish, refVars
  <2>2. batchCount > 0 => End # Dependency
    BY JobNames, EndName
  <2>. QED
    BY <1>0, <2>1, <2>2, JobNames DEF Quiet, Begun
<1>18. CASE FinishEnd
  <2>1. /\ Work0 /\ output' = output /\ stage' = [stage EXCEPT ![End] = "finished"]
        /\ batchCount > 0 /\ released
    BY <1>18 DEF FinishEnd, Order!Finish, refVars
  <2>2. End # Root /\ \A i : End # Process(i) /\ End # Pack(i)
    BY <2>1, JobNames, EndName
  <2>. QED
    BY <1>0, <2>1, <2>2 DEF Quiet, Begun
<1>. QED
  BY <1>4, <1>5, <1>6, <1>7, <1>8, <1>10, <1>11, <1>12, <1>13, <1>14, <1>15, <1>16, <1>17, <1>18
     DEF Next, Program, Work, ItemStep

-----------------------------------------------------------------------------
\* The inductive invariant of the output.

\* Every item up to the place of its batch was processed once, no other was, and
\* a process job starts at the beginning of its batch and stops at the end.
Counted ==
  /\ processed \in [0 .. inputSize - 1 -> Nat]
  /\ \A i \in Batches :
       /\ to_batch_begin(i) <= place[i] /\ place[i] <= to_batch_end(i)
       /\ stage[Process(i)] = "held" => place[i] = to_batch_begin(i)
       /\ stage[Process(i)] = "finished" => place[i] = to_batch_end(i)
       /\ \A k \in to_batch_begin(i) .. to_batch_end(i) - 1 :
            processed[k] = IF k < place[i] THEN 1 ELSE 0

\* The end job runs finalize before it finishes.
EndReleases == (batchCount > 0 /\ stage[End] = "finished") => released

\* Until then the output has the size of the input; a separate container gets
\* that size before a batch is processed.
Sized ==
  (batchCount > 0 /\ ~released /\ (kind = "input" \/ Begun)) => DOMAIN output = 0 .. inputSize - 1

\* Where the output is the input, the items that a batch has yet to process are
\* still in their places.
Unread ==
  (kind = "input" /\ ~released) =>
    \A i \in Batches : \A k \in place[i] .. to_batch_end(i) - 1 : output[k] = k

\* The job that packs batch i has finished; the last batch is packed by the end job.
IsPacked(i) == stage[PackOf(i)] = "finished"

\* A batch that is not packed holds in its first places what was kept of it.
BatchesHold ==
  (kind # "update" /\ ~released) =>
    \A i \in Batches : ~IsPacked(i) =>
      /\ Holds(passes, output, to_batch_begin(i), outputSize[i], to_batch_begin(i), place[i])
      /\ stage[Process(i)] = "finished" => batchTracker[i] = outputSize[i]

\* After the latest batch that is packed, the output begins with what was kept of
\* all batches up to it, and its entry in the tracker counts that.
PackedHold ==
  (kind # "update" /\ ~released) =>
    \A i \in Batches : (IsPacked(i) /\ (i < last => ~IsPacked(i + 1))) =>
      /\ batchTracker[i] <= to_batch_end(i)
      /\ Holds(passes, output, 0, batchTracker[i], 0, to_batch_end(i))

\* After finalize the output holds what was kept of the whole input.
AllHold ==
  (kind # "update" /\ released) =>
    /\ batchTracker[last] \in Nat
    /\ DOMAIN output = 0 .. batchTracker[last] - 1
    /\ Holds(passes, output, 0, batchTracker[last], 0, inputSize)

OutputHolds ==
  Counted /\ EndReleases /\ Sized /\ Unread /\ BatchesHold /\ PackedHold /\ AllHold

LEMMA InitOutput == Init => OutputHolds
<1>. SUFFICES ASSUME Init PROVE OutputHolds
  OBVIOUS
<1>0. /\ inputSize \in Nat /\ assigned \in Nat /\ released = FALSE /\ kind \in AllKinds
      /\ stage = [j \in Jobs |-> "held"]
      /\ place = [i \in Batches |-> to_batch_begin(i)]
      /\ outputSize = [i \in Batches |-> 0]
      /\ processed = [k \in 0 .. inputSize - 1 |-> 0]
      /\ kind = "input" => output = [k \in 0 .. inputSize - 1 |-> k]
  BY BatchAssumption DEF Init, Order!OrderInit
<1>1. /\ batchCount \in Nat /\ last = batchCount - 1 /\ Batches = 0 .. last
  BY <1>0, Sizes DEF Batches
<1>2. \A i \in Batches : /\ i \in Nat /\ to_batch_begin(i) \in Nat /\ to_batch_end(i) \in Nat
                         /\ to_batch_begin(i) < to_batch_end(i) /\ to_batch_end(i) <= inputSize
  <2>1. \A i \in Batches : i \in Nat
    BY <1>1
  <2>. QED
    BY <1>0, <2>1, PlacesGrow, BatchesMeet
<1>3. /\ \A i \in Batches : Process(i) \in Jobs /\ Pack(i) \in Jobs /\ PackOf(i) \in Jobs
      /\ Root \in Jobs /\ End \in Jobs
  BY <1>0, JobsAre DEF PackOf
<1>4. Counted
  <2>1. ASSUME NEW i \in Batches
        PROVE  /\ to_batch_begin(i) <= place[i] /\ place[i] <= to_batch_end(i)
               /\ stage[Process(i)] # "finished" /\ place[i] = to_batch_begin(i)
               /\ \A k \in to_batch_begin(i) .. to_batch_end(i) - 1 :
                    processed[k] = IF k < place[i] THEN 1 ELSE 0
    BY <1>0, <1>2, <1>3
  <2>. QED
    BY <1>0, <2>1 DEF Counted
<1>5. EndReleases
  BY <1>0, <1>3 DEF EndReleases
<1>6. Sized
  BY <1>0, <1>3 DEF Sized, Begun
<1>7. Unread
  BY <1>0, <1>2 DEF Unread
<1>8. BatchesHold
  <2>1. ASSUME NEW i \in Batches
        PROVE  Holds(passes, output, to_batch_begin(i), outputSize[i], to_batch_begin(i), place[i])
    BY <1>0, <1>2, <2>1 DEF Holds
  <2>. QED
    BY <1>0, <1>3, <2>1 DEF BatchesHold
<1>9. PackedHold /\ AllHold
  BY <1>0, <1>3 DEF PackedHold, AllHold, IsPacked
<1>. QED
  BY <1>4, <1>5, <1>6, <1>7, <1>8, <1>9 DEF OutputHolds

-----------------------------------------------------------------------------
\* What holds while a job works on the items.

\* The jobs of the batches follow the root job.
LEMMA WorkHasBegun ==
  ASSUME JobsHold, NEW i \in Batches, stage[Process(i)] # "held" \/ stage[Pack(i)] # "held"
  PROVE  Begun
<1>1. /\ Process(i) \in Jobs /\ Pack(i) \in Jobs /\ batchCount \in Nat /\ last = batchCount - 1
      /\ Batches = 0 .. last
  BY Sizes, JobsAre DEF JobsHold, MadeInOrder, InputTyped, Batches
<1>2. batchCount > 0 /\ End # Process(i) /\ End # Pack(i)
  BY <1>1, JobNames, EndName
<1>3. \E j \in {Process(i), Pack(i)} : j \in enabled
  BY <1>1 DEF JobsHold, Ordered
<1>4. batch # 0 \/ call # 1
  <2>1. PICK j \in {Process(i), Pack(i)} : j \in enabled
    BY <1>3
  <2>2. \/ \E k \in Batches : Made(k, 1)
        \/ \E k \in 1 .. last - 1 : batch > k
    BY <1>2, <2>1, JobNames DEF JobsHold, MadeInOrder, EnabledIsMade
  <2>3. batch \in Nat /\ call \in Nat
    BY DEF JobsHold, MadeInOrder, InputTyped
  <2>. QED
    BY <1>1, <2>2, <2>3 DEF Made
<1>. QED
  BY <1>4 DEF JobsHold, MadeInOrder, NotBegun, Begun

\* They are done before the end job works.
LEMMA WorkIsBeforeEnd ==
  ASSUME JobsHold, SelfKept, NEW i \in Batches, NEW j \in {Process(i), Pack(i)},
         stage[j] = "running"
  PROVE  ~released
<1>1. j \in Jobs /\ batchCount > 0
  BY Sizes, JobsAre DEF JobsHold, MadeInOrder, InputTyped, Batches
<1>2. j # End /\ j # Root /\ j # Dependency
  BY <1>1, JobNames, EndName
<1>3. j \in enabled
  BY <1>1 DEF JobsHold, Ordered
<1>. QED
  BY <1>1, <1>2, <1>3, EndIsLast DEF SelfKept

\* A batch is packed after the batches up to it are processed.
LEMMA PackedAreDone ==
  ASSUME JobsHold, kind # "update", NEW i \in Batches, IsPacked(i)
  PROVE  DoneUpTo(i)
<1>1. /\ Process(i) \in Jobs /\ Pack(i) \in Jobs /\ batchCount \in Nat /\ last = batchCount - 1
      /\ Batches = 0 .. last
  BY Sizes, JobsAre DEF JobsHold, MadeInOrder, InputTyped, Batches
<1>2. CASE i = 0
  BY <1>2 DEF DoneUpTo, IsPacked, PackOf
<1>3. CASE i # 0
  <2>1. stage[Pack(i)] = "finished"
    BY <1>3 DEF IsPacked, PackOf
  <2>2. Pack(i) \in enabled
    BY <1>1, <2>1 DEF JobsHold, Ordered
  <2>3. batchCount > 0 /\ End # Pack(i)
    BY <1>1, JobNames, EndName
  <2>4. i \in 1 .. last - 1
    BY <1>1, <2>2, <2>3, JobNames DEF JobsHold, MadeInOrder, EnabledIsMade
  <2>. QED
    BY <2>1, <2>4 DEF JobsHold, Chained
<1>. QED
  BY <1>2, <1>3

\* No job packs the last of several batches.
LEMMA LastIsNotPacked ==
  ASSUME JobsHold, batchCount > 1
  PROVE  ~IsPacked(last)
<1>1. /\ last \in Batches /\ Pack(last) \in Jobs /\ batchCount \in Nat /\ last = batchCount - 1 /\ last # 0
  BY Sizes, JobsAre DEF JobsHold, MadeInOrder, InputTyped, Batches
<1>2. End # Pack(last)
  BY <1>1, JobNames, EndName
<1>3. Pack(last) \notin enabled
  BY <1>1, <1>2, JobNames DEF JobsHold, MadeInOrder, EnabledIsMade
<1>. QED
  BY <1>1, <1>3 DEF JobsHold, Ordered, IsPacked, PackOf

\* Moving what was kept of batch i behind what was kept before it.
LEMMA Packing ==
  ASSUME JobsHold, Tracked, OutputHolds, kind # "update", ~released, Begun,
         NEW i \in Batches, i > 0, stage[Process(i)] = "finished",
         IsPacked(i - 1), ~IsPacked(i)
  PROVE  /\ batchTracker[i - 1] \in Nat /\ batchTracker[i] \in Nat
         /\ batchTracker[i - 1] + batchTracker[i] <= to_batch_end(i)
         /\ DOMAIN output = 0 .. inputSize - 1 /\ DOMAIN Packed(i) = DOMAIN output
         /\ \A k \in DOMAIN output : to_batch_end(i) <= k => Packed(i)[k] = output[k]
         /\ Holds(passes, Packed(i), 0, batchTracker[i - 1] + batchTracker[i], 0, to_batch_end(i))
<1>0. /\ inputSize \in Nat /\ assigned \in Nat
      /\ batchCount \in Nat /\ batchCount <= BatchJobMaxSlices /\ last = batchCount - 1
      /\ Batches = 0 .. last
  BY Sizes DEF JobsHold, MadeInOrder, InputTyped, Batches
<1>1. /\ i \in Nat /\ i - 1 \in Batches /\ i - 1 < last
      /\ i \in 0 .. BatchJobMaxSlices - 1 /\ i - 1 \in 0 .. BatchJobMaxSlices - 1
  BY <1>0, BatchAssumption
<1>2. /\ to_batch_begin(i) \in Nat /\ to_batch_end(i) \in Nat
      /\ to_batch_end(i - 1) = to_batch_begin(i)
      /\ to_batch_begin(i) < to_batch_end(i) /\ to_batch_end(i) <= inputSize
  BY <1>0, <1>1, PlacesGrow, BatchesMeet
<1>. DEFINE m == batchTracker[i - 1]
            n == batchTracker[i]
            s == to_batch_begin(i)
<1>3. m \in Nat /\ n \in Nat /\ outputSize[i] \in Nat
  BY <1>1 DEF Tracked, TrackerTyped
<1>4. place[i] = to_batch_end(i)
  BY DEF OutputHolds, Counted
<1>5. n = outputSize[i] /\ Holds(passes, output, s, n, s, to_batch_end(i))
  BY <1>4 DEF OutputHolds, BatchesHold
<1>6. s + n <= to_batch_end(i)
  BY <1>4, <1>5 DEF Tracked, KeptFits
<1>7. /\ m <= s
      /\ Holds(passes, output, 0, m, 0, s)
  <2>1. (i - 1) + 1 = i
    BY <1>1
  <2>. QED
    BY <1>1, <1>2, <2>1 DEF OutputHolds, PackedHold
<1>8. DOMAIN output = 0 .. inputSize - 1
  BY <1>0, <1>1 DEF OutputHolds, Sized
<1>9. Packed(i) = [k \in 0 .. inputSize - 1 |->
                     IF k \in m .. m + n - 1 THEN output[s + k - m] ELSE output[k]]
  BY <1>8 DEF Packed
<1>. HIDE DEF m, n, s
<1>10. m + n <= to_batch_end(i)
  BY <1>2, <1>3, <1>6, <1>7 DEF s
<1>11. \A a \in 0 .. m - 1 : Packed(i)[a] = output[a]
  BY <1>0, <1>2, <1>3, <1>9, <1>10
<1>12. \A a \in m .. m + n - 1 : Packed(i)[a] = output[s + a - m]
  BY <1>0, <1>2, <1>3, <1>9, <1>10
<1>13. Holds(passes, Packed(i), 0, m + n, 0, to_batch_end(i))
  BY <1>2, <1>3, <1>5, <1>7, <1>11, <1>12, HoldsJoined DEF s
<1>14. \A k \in DOMAIN output : to_batch_end(i) <= k => Packed(i)[k] = output[k]
  BY <1>2, <1>3, <1>8, <1>9, <1>10
<1>. QED
  BY <1>3, <1>8, <1>9, <1>10, <1>13, <1>14 DEF m, n

-----------------------------------------------------------------------------
\* Every step keeps the invariant.

LEMMA SizesStay ==
  ASSUME UNCHANGED inputVars
  PROVE  /\ batchCount' = batchCount /\ last' = last /\ Batches' = Batches /\ End' = End
         /\ \A i : to_batch_begin(i)' = to_batch_begin(i) /\ to_batch_end(i)' = to_batch_end(i)
  BY DEF inputVars, batchSize, batchCount, last, Batches, End, to_batch_begin, to_batch_end

\* The numbers of the batches, and their jobs.
BatchFacts ==
  /\ inputSize \in Nat /\ assigned \in Nat
  /\ batchCount \in Nat /\ batchCount <= BatchJobMaxSlices /\ last = batchCount - 1
  /\ Batches = 0 .. last
  /\ \A i \in Batches :
       /\ i \in Nat /\ i \in 0 .. BatchJobMaxSlices - 1
       /\ Process(i) \in Jobs /\ Pack(i) \in Jobs /\ PackOf(i) \in Jobs
       /\ to_batch_begin(i) \in Nat /\ to_batch_end(i) \in Nat
       /\ to_batch_begin(i) < to_batch_end(i) /\ to_batch_end(i) <= inputSize
       /\ place[i] \in Nat /\ outputSize[i] \in Nat /\ batchTracker[i] \in Nat
       /\ to_batch_begin(i) + outputSize[i] <= place[i]
  /\ stage \in [Jobs -> Order!Stages] /\ Root \in Jobs /\ End \in Jobs

LEMMA BatchesAre ==
  ASSUME JobsHold, Tracked
  PROVE  BatchFacts
<1>1. /\ inputSize \in Nat /\ assigned \in Nat /\ stage \in [Jobs -> Order!Stages]
      /\ Root \in Jobs /\ End \in Jobs
  BY JobsAre DEF JobsHold, MadeInOrder, InputTyped, Ordered, Order!OrderTypeOK
<1>2. /\ batchCount \in Nat /\ batchCount <= BatchJobMaxSlices /\ last = batchCount - 1
      /\ Batches = 0 .. last
  BY <1>1, Sizes DEF Batches
<1>3. ASSUME NEW i \in Batches
      PROVE  /\ i \in Nat /\ i \in 0 .. BatchJobMaxSlices - 1
             /\ Process(i) \in Jobs /\ Pack(i) \in Jobs /\ PackOf(i) \in Jobs
             /\ to_batch_begin(i) \in Nat /\ to_batch_end(i) \in Nat
             /\ to_batch_begin(i) < to_batch_end(i) /\ to_batch_end(i) <= inputSize
             /\ place[i] \in Nat /\ outputSize[i] \in Nat /\ batchTracker[i] \in Nat
             /\ to_batch_begin(i) + outputSize[i] <= place[i]
  <2>1. i \in Nat /\ i \in 0 .. BatchJobMaxSlices - 1
    BY <1>2, BatchAssumption
  <2>2. Process(i) \in Jobs /\ Pack(i) \in Jobs /\ PackOf(i) \in Jobs
    BY <1>1, JobsAre DEF PackOf
  <2>3. /\ to_batch_begin(i) \in Nat /\ to_batch_end(i) \in Nat
        /\ to_batch_begin(i) < to_batch_end(i) /\ to_batch_end(i) <= inputSize
    BY <1>1, <2>1, PlacesGrow, BatchesMeet
  <2>4. /\ place[i] \in Nat /\ outputSize[i] \in Nat /\ batchTracker[i] \in Nat
        /\ to_batch_begin(i) + outputSize[i] <= place[i]
    BY <2>1 DEF Tracked, TrackerTyped, KeptFits
  <2>. QED
    BY <2>1, <2>2, <2>3, <2>4
<1>. QED
  BY <1>1, <1>2, <1>3 DEF BatchFacts

LEMMA QuietKeeps ==
  ASSUME JobsHold, SelfKept, Tracked, OutputHolds, UNCHANGED inputVars, Advances, Quiet
  PROVE  OutputHolds'
<1>0. BatchFacts
  BY BatchesAre
<1>1. /\ batchCount' = batchCount /\ last' = last /\ Batches' = Batches /\ End' = End
      /\ \A i : to_batch_begin(i)' = to_batch_begin(i) /\ to_batch_end(i)' = to_batch_end(i)
      /\ kind' = kind /\ passes' = passes /\ inputSize' = inputSize
  BY SizesStay DEF inputVars
<1>2. /\ place' = place /\ outputSize' = outputSize /\ processed' = processed
      /\ batchTracker' = batchTracker /\ released' = released
  BY DEF Quiet, workVars
<1>3. \A i \in Batches : /\ stage'[Process(i)] = "finished" <=> stage[Process(i)] = "finished"
                         /\ stage'[Process(i)] = "held" => stage[Process(i)] = "held"
                         /\ IsPacked(i)' <=> IsPacked(i)
  BY <1>0 DEF Quiet, Advances, BatchFacts, IsPacked, PackOf
<1>4. Counted'
  BY <1>1, <1>2, <1>3 DEF OutputHolds, Counted
<1>5. EndReleases'
  BY <1>1, <1>2 DEF OutputHolds, EndReleases, Quiet
<1>6. Begun => Begun'
  BY <1>0 DEF Begun, Advances, BatchFacts
<1>7. DOMAIN resize(output, inputSize) = 0 .. inputSize - 1
  BY DEF resize
<1>8. Sized'
  <2>1. CASE output' = output /\ (Begun' => Begun)
    BY <1>1, <1>2, <2>1 DEF OutputHolds, Sized
  <2>2. CASE output' = output /\ ~(Begun' => Begun)
    BY <1>1, <1>2, <1>7, <2>2 DEF OutputHolds, Sized, Quiet
  <2>3. CASE output' # output
    BY <1>1, <1>2, <1>7, <2>3 DEF OutputHolds, Sized, Quiet
  <2>. QED
    BY <2>1, <2>2, <2>3
\* The output changes before a batch is processed only.
<1>9. CASE output' = output
  <2>1. Unread'
    BY <1>1, <1>2, <1>9 DEF OutputHolds, Unread
  <2>2. BatchesHold'
    BY <1>1, <1>2, <1>3, <1>9 DEF OutputHolds, BatchesHold
  <2>3. PackedHold'
    <3>1. \A i \in Batches : i < last => i + 1 \in Batches
      BY <1>0 DEF BatchFacts
    <3>. QED
      BY <1>1, <1>2, <1>3, <1>9, <3>1 DEF OutputHolds, PackedHold
  <2>4. AllHold'
    BY <1>1, <1>2, <1>9 DEF OutputHolds, AllHold
  <2>. QED
    BY <1>4, <1>5, <1>8, <2>1, <2>2, <2>3, <2>4 DEF OutputHolds
<1>10. CASE output' # output
  <2>1. ~Begun /\ output' = resize(output, inputSize)
    BY <1>10 DEF Quiet
  <2>2. \A i \in Batches : stage[Process(i)] = "held" /\ stage[Pack(i)] = "held"
    BY <2>1, WorkHasBegun
  <2>3. \A i \in Batches : ~IsPacked(i)
    BY <2>2 DEF IsPacked, PackOf
  <2>4. \A i \in Batches : place[i] = to_batch_begin(i) /\ outputSize[i] = 0
    BY <1>0, <2>2 DEF OutputHolds, Counted, BatchFacts
  <2>5. Unread'
    <3>1. \A i \in Batches : \A k \in place[i] .. to_batch_end(i) - 1 : k \in 0 .. inputSize - 1
      BY <1>0 DEF BatchFacts
    <3>2. kind = "input" /\ ~released /\ batchCount > 0 => DOMAIN output = 0 .. inputSize - 1
      BY DEF OutputHolds, Sized
    <3>3. \A k \in 0 .. inputSize - 1 : k \in DOMAIN output => output'[k] = output[k]
      BY <2>1 DEF resize
    <3>4. \A i \in Batches : batchCount > 0
      BY <1>0 DEF BatchFacts
    <3>. QED
      BY <1>1, <1>2, <3>1, <3>2, <3>3, <3>4 DEF OutputHolds, Unread
  <2>6. BatchesHold'
    <3>1. ASSUME NEW i \in Batches
          PROVE  Holds(passes, output', to_batch_begin(i), outputSize[i], to_batch_begin(i), place[i])
      <4>1. /\ to_batch_begin(i) .. to_batch_begin(i) + outputSize[i] - 1 = {}
            /\ to_batch_begin(i) .. place[i] - 1 = {}
        BY <1>0, <2>4 DEF BatchFacts
      <4>. QED
        BY <4>1 DEF Holds
    <3>2. \A i \in Batches : stage'[Process(i)] # "finished"
      BY <1>3, <2>2
    <3>. QED
      BY <1>1, <1>2, <3>1, <3>2 DEF BatchesHold
  <2>7. PackedHold'
    BY <1>1, <1>3, <2>3 DEF PackedHold
  <2>8. AllHold'
    <3>1. ~released
      <4>1. released => batchCount > 0 /\ stage[End] # "held"
        BY DEF SelfKept
      <4>2. released => stage[Process(0)] = "finished" /\ 0 \in Batches
        BY <1>0, <4>1 DEF JobsHold, Chained, DoneUpTo, BatchFacts
      <4>. QED
        BY <2>2, <4>2
    <3>. QED
      BY <1>2, <3>1 DEF AllHold
  <2>. QED
    BY <1>4, <1>5, <1>8, <2>5, <2>6, <2>7, <2>8 DEF OutputHolds
<1>. QED
  BY <1>9, <1>10

LEMMA ItemKeeps ==
  ASSUME JobsHold, SelfKept, Tracked, OutputHolds, UNCHANGED inputVars,
         NEW i \in Batches, ProcessItem(i)
  PROVE  OutputHolds'
<1>0. BatchFacts
  BY BatchesAre
<1>1. /\ batchCount' = batchCount /\ last' = last /\ Batches' = Batches /\ End' = End
      /\ \A j : to_batch_begin(j)' = to_batch_begin(j) /\ to_batch_end(j)' = to_batch_end(j)
      /\ kind' = kind /\ passes' = passes /\ inputSize' = inputSize
  BY SizesStay DEF inputVars
<1>. DEFINE k == place[i]
            target == to_batch_begin(i) + outputSize[i]
<1>2. /\ stage[Process(i)] = "running" /\ k < to_batch_end(i)
      /\ stage' = stage /\ batchTracker' = batchTracker /\ released' = released
      /\ processed' = [processed EXCEPT ![k] = @ + 1]
      /\ place' = [place EXCEPT ![i] = @ + 1]
      /\ outputSize' = [outputSize EXCEPT ![i] = IF kind # "update" /\ passes[k] THEN @ + 1 ELSE @]
      /\ output' = IF kind = "inputOutput" THEN [output EXCEPT ![target] = k]
                   ELSE IF kind = "input" /\ passes[k] THEN [output EXCEPT ![target] = output[k]]
                   ELSE output
  BY DEF ProcessItem, jobVars, refVars
<1>3. ~released /\ Begun /\ batchCount > 0
  BY <1>0, <1>2, WorkIsBeforeEnd, WorkHasBegun DEF BatchFacts
<1>4. /\ k \in Nat /\ target \in Nat /\ to_batch_begin(i) <= target /\ target <= k
      /\ k < to_batch_end(i) /\ k \in 0 .. inputSize - 1 /\ target \in 0 .. inputSize - 1
      /\ k \in to_batch_begin(i) .. to_batch_end(i) - 1
  BY <1>0, <1>2 DEF BatchFacts
<1>5. /\ place'[i] = k + 1
      /\ \A j \in Batches : j # i => place'[j] = place[j] /\ outputSize'[j] = outputSize[j]
      /\ outputSize'[i] = IF kind # "update" /\ passes[k] THEN outputSize[i] + 1 ELSE outputSize[i]
  BY <1>2 DEF Tracked, TrackerTyped
\* The places of another batch are not those of this one.
<1>6. ASSUME NEW j \in Batches, j # i, NEW x \in Int, to_batch_begin(j) <= x, x < to_batch_end(j)
      PROVE  x # k /\ x # target
  <2>1. to_batch_end(i) <= to_batch_begin(j) \/ to_batch_end(j) <= to_batch_begin(i)
    BY <1>0, <1>6, BatchesApart DEF BatchFacts
  <2>2. /\ to_batch_begin(i) \in Nat /\ to_batch_begin(j) \in Nat
        /\ to_batch_end(i) \in Nat /\ to_batch_end(j) \in Nat
    BY <1>0 DEF BatchFacts
  <2>. QED
    BY <1>4, <1>6, <2>1, <2>2
<1>. HIDE DEF k, target
<1>7. Counted'
  <2>1. /\ processed' \in [0 .. inputSize - 1 -> Nat]
        /\ processed'[k] = processed[k] + 1
        /\ \A x \in 0 .. inputSize - 1 : x # k => processed'[x] = processed[x]
    BY <1>2, <1>4 DEF OutputHolds, Counted
  <2>2. ASSUME NEW j \in Batches
        PROVE  /\ to_batch_begin(j) <= place'[j] /\ place'[j] <= to_batch_end(j)
               /\ stage[Process(j)] = "held" => place'[j] = to_batch_begin(j)
               /\ stage[Process(j)] = "finished" => place'[j] = to_batch_end(j)
               /\ \A x \in to_batch_begin(j) .. to_batch_end(j) - 1 :
                    processed'[x] = IF x < place'[j] THEN 1 ELSE 0
    <3>1. /\ to_batch_begin(j) <= place[j] /\ place[j] <= to_batch_end(j)
          /\ stage[Process(j)] = "held" => place[j] = to_batch_begin(j)
          /\ stage[Process(j)] = "finished" => place[j] = to_batch_end(j)
          /\ \A x \in to_batch_begin(j) .. to_batch_end(j) - 1 :
               processed[x] = IF x < place[j] THEN 1 ELSE 0
      BY DEF OutputHolds, Counted
    <3>2. /\ to_batch_begin(j) \in Nat /\ to_batch_end(j) \in Nat /\ to_batch_end(j) <= inputSize
          /\ inputSize \in Nat
      BY <1>0 DEF BatchFacts
    <3>3. \A x \in to_batch_begin(j) .. to_batch_end(j) - 1 : x \in 0 .. inputSize - 1
      BY <3>2
    <3>4. CASE j = i
      <4>1. place[j] = k /\ place'[j] = k + 1
        BY <1>5, <3>4 DEF k
      <4>2. \A x \in to_batch_begin(j) .. to_batch_end(j) - 1 :
              processed'[x] = IF x < k + 1 THEN 1 ELSE 0
        <5>. SUFFICES ASSUME NEW x \in to_batch_begin(j) .. to_batch_end(j) - 1
                      PROVE  processed'[x] = IF x < k + 1 THEN 1 ELSE 0
          OBVIOUS
        <5>1. x \in Int /\ k \in Int /\ processed[x] = IF x < k THEN 1 ELSE 0
          BY <1>4, <3>1, <3>2, <4>1
        <5>2. CASE x = k
          BY <2>1, <5>1, <5>2
        <5>3. CASE x # k
          BY <2>1, <3>3, <5>1, <5>3
        <5>. QED
          BY <5>2, <5>3
      <4>. QED
        BY <1>2, <1>4, <3>1, <3>2, <3>4, <4>1, <4>2
    <3>5. CASE j # i
      <4>1. \A x \in to_batch_begin(j) .. to_batch_end(j) - 1 : x # k
        BY <1>6, <3>2, <3>5
      <4>. QED
        BY <1>5, <2>1, <3>1, <3>3, <3>5, <4>1
    <3>. QED
      BY <3>4, <3>5
  <2>. QED
    BY <1>1, <1>2, <2>1, <2>2 DEF Counted
<1>8. EndReleases'
  BY <1>1, <1>2 DEF OutputHolds, EndReleases
<1>9. DOMAIN output = 0 .. inputSize - 1
  BY <1>3 DEF OutputHolds, Sized
<1>10. /\ DOMAIN output' = 0 .. inputSize - 1
       /\ \A x \in 0 .. inputSize - 1 : x # target => output'[x] = output[x]
  BY <1>2, <1>4, <1>9
<1>11. kind # "update" /\ passes[k] => output'[target] = k
  <2>1. kind \in {"update", "input", "inputOutput"}
    BY DEF JobsHold, MadeInOrder, InputTyped, AllKinds
  <2>2. kind = "input" => output[k] = k
    <3>1. k \in place[i] .. to_batch_end(i) - 1
      BY <1>0, <1>4 DEF k, BatchFacts
    <3>. QED
      BY <1>3, <3>1 DEF OutputHolds, Unread
  <2>. QED
    BY <1>2, <1>4, <1>9, <2>1, <2>2
<1>12. Sized'
  BY <1>1, <1>10 DEF Sized
<1>13. Unread'
  <2>1. ASSUME kind = "input", NEW j \in Batches, NEW x \in place'[j] .. to_batch_end(j) - 1
        PROVE  output'[x] = x
    <3>1. /\ to_batch_begin(j) <= place[j] /\ place[j] \in Nat /\ to_batch_begin(j) \in Nat
          /\ to_batch_end(j) \in Nat /\ to_batch_end(j) <= inputSize
      BY <1>0 DEF OutputHolds, Counted, BatchFacts
    <3>2. x \in place[j] .. to_batch_end(j) - 1 /\ x # target
      <4>1. CASE j = i
        BY <1>4, <1>5, <2>1, <3>1, <4>1 DEF k
      <4>2. CASE j # i
        <5>1. x \in place[j] .. to_batch_end(j) - 1
          BY <1>5, <2>1, <4>2
        <5>2. to_batch_begin(j) <= x /\ x < to_batch_end(j) /\ x \in Int
          BY <3>1, <5>1
        <5>. QED
          BY <1>6, <4>2, <5>1, <5>2
      <4>. QED
        BY <4>1, <4>2
    <3>3. output[x] = x
      BY <1>3, <2>1, <3>2 DEF OutputHolds, Unread
    <3>4. x \in 0 .. inputSize - 1
      BY <1>0, <3>1, <3>2 DEF BatchFacts
    <3>. QED
      BY <1>10, <3>2, <3>3, <3>4
  <2>. QED
    BY <1>1, <1>2, <2>1 DEF Unread
<1>14. BatchesHold'
  <2>. SUFFICES ASSUME kind # "update", NEW j \in Batches, ~IsPacked(j)
                PROVE  /\ Holds(passes, output', to_batch_begin(j), outputSize'[j], to_batch_begin(j), place'[j])
                       /\ stage[Process(j)] = "finished" => batchTracker[j] = outputSize'[j]
    BY <1>1, <1>2 DEF BatchesHold, IsPacked, PackOf
  <2>1. /\ Holds(passes, output, to_batch_begin(j), outputSize[j], to_batch_begin(j), place[j])
        /\ stage[Process(j)] = "finished" => batchTracker[j] = outputSize[j]
    BY <1>3 DEF OutputHolds, BatchesHold
  <2>2. /\ to_batch_begin(j) \in Nat /\ outputSize[j] \in Nat /\ place[j] \in Nat
        /\ to_batch_begin(j) + outputSize[j] <= place[j] /\ place[j] <= to_batch_end(j)
        /\ to_batch_end(j) \in Nat /\ to_batch_end(j) <= inputSize /\ inputSize \in Nat
    BY <1>0 DEF OutputHolds, Counted, BatchFacts
  <2>3. ASSUME NEW x \in to_batch_begin(j) .. to_batch_begin(j) + outputSize[j] - 1
        PROVE  output'[x] = output[x]
    <3>1. x \in 0 .. inputSize - 1
      BY <2>2
    <3>2. x # target
      <4>1. CASE j = i
        BY <2>2, <4>1 DEF target
      <4>2. CASE j # i
        <5>1. to_batch_begin(j) <= x /\ x < to_batch_end(j) /\ x \in Int
          BY <2>2
        <5>. QED
          BY <1>6, <4>2, <5>1
      <4>. QED
        BY <4>1, <4>2
    <3>. QED
      BY <1>10, <3>1, <3>2
  <2>4. CASE j # i
    BY <1>5, <2>1, <2>2, <2>3, <2>4, HoldsStill
  <2>5. CASE j = i
    <3>1. Holds(passes, output, to_batch_begin(i), outputSize[i], to_batch_begin(i), k)
      BY <2>1, <2>5 DEF k
    <3>2. passes[k] => outputSize'[i] = outputSize[i] + 1 /\ output'[to_batch_begin(i) + outputSize[i]] = k
      BY <1>5, <1>11 DEF target
    <3>3. ~passes[k] => outputSize'[i] = outputSize[i]
      BY <1>5
    <3>4. outputSize'[i] \in Nat
      BY <1>5, <2>2, <2>5
    <3>5. to_batch_begin(i) \in Nat /\ outputSize[i] \in Nat /\ to_batch_begin(i) <= k
      BY <1>4, <2>2, <2>5
    <3>6. \A x \in to_batch_begin(i) .. to_batch_begin(i) + outputSize[i] - 1 : output'[x] = output[x]
      BY <2>3, <2>5
    <3>7. Holds(passes, output', to_batch_begin(i), outputSize'[i], to_batch_begin(i), k + 1)
      BY <1>4, <3>1, <3>2, <3>3, <3>4, <3>5, <3>6, HoldsNext
    <3>. QED
      BY <1>2, <1>5, <2>5, <3>7
  <2>. QED
    BY <2>4, <2>5
<1>15. PackedHold'
  <2>. SUFFICES ASSUME kind # "update", NEW j \in Batches, IsPacked(j), j < last => ~IsPacked(j + 1)
                PROVE  /\ batchTracker[j] <= to_batch_end(j)
                       /\ Holds(passes, output', 0, batchTracker[j], 0, to_batch_end(j))
    BY <1>1, <1>2 DEF PackedHold, IsPacked, PackOf
  <2>1. /\ batchTracker[j] <= to_batch_end(j)
        /\ Holds(passes, output, 0, batchTracker[j], 0, to_batch_end(j))
    BY <1>3 DEF OutputHolds, PackedHold
  <2>2. j < i
    <3>1. \A b \in 0 .. j : stage[Process(b)] = "finished"
      BY PackedAreDone DEF DoneUpTo
    <3>2. i \in Nat /\ j \in Nat /\ i \notin 0 .. j
      BY <1>0, <1>2, <3>1 DEF BatchFacts
    <3>. QED
      BY <3>2
  <2>3. to_batch_end(j) <= to_batch_begin(i)
    BY <1>0, <2>2, BatchesApart DEF BatchFacts
  <2>4. /\ batchTracker[j] \in Nat /\ to_batch_end(j) \in Nat
        /\ to_batch_begin(i) \in Nat /\ to_batch_begin(i) < inputSize /\ inputSize \in Nat
    BY <1>0, <1>4 DEF BatchFacts
  <2>5. \A x \in 0 .. 0 + batchTracker[j] - 1 : output'[x] = output[x]
    BY <1>4, <1>10, <2>1, <2>3, <2>4
  <2>6. 0 \in Nat
    OBVIOUS
  <2>. QED
    BY <2>1, <2>4, <2>5, <2>6, HoldsStill
<1>16. AllHold'
  BY <1>2, <1>3 DEF AllHold
<1>. QED
  BY <1>7, <1>8, <1>12, <1>13, <1>14, <1>15, <1>16 DEF OutputHolds

LEMMA ProcessKeeps ==
  ASSUME JobsHold, SelfKept, Tracked, OutputHolds, UNCHANGED inputVars,
         NEW i \in Batches, FinishProcess(i)
  PROVE  OutputHolds'
<1>0. BatchFacts
  BY BatchesAre
<1>1. /\ batchCount' = batchCount /\ last' = last /\ Batches' = Batches /\ End' = End
      /\ \A j : to_batch_begin(j)' = to_batch_begin(j) /\ to_batch_end(j)' = to_batch_end(j)
      /\ kind' = kind /\ passes' = passes /\ inputSize' = inputSize
  BY SizesStay DEF inputVars
<1>2. /\ place[i] = to_batch_end(i)
      /\ stage[Process(i)] = "running" /\ stage' = [stage EXCEPT ![Process(i)] = "finished"]
      /\ place' = place /\ outputSize' = outputSize /\ processed' = processed
      /\ output' = output /\ released' = released
      /\ kind # "update" => batchTracker' = [batchTracker EXCEPT ![i] = outputSize[i]]
  BY DEF FinishProcess, Order!Finish, refVars, workVars
<1>3. ~released /\ Begun /\ batchCount > 0
  BY <1>0, <1>2, WorkIsBeforeEnd, WorkHasBegun DEF BatchFacts
<1>4. /\ stage'[Process(i)] = "finished" /\ stage'[End] = stage[End]
      /\ \A j \in Batches : /\ j # i => stage'[Process(j)] = stage[Process(j)]
                            /\ stage'[Pack(j)] = stage[Pack(j)]
  <2>1. End # Process(i)
    BY <1>3, JobNames, EndName
  <2>. QED
    BY <1>0, <1>2, <2>1, JobNames DEF BatchFacts
<1>5. \A j \in Batches : IsPacked(j)' <=> IsPacked(j) \/ (i = 0 /\ j = 0)
  BY <1>0, <1>4 DEF IsPacked, PackOf, BatchFacts
<1>6. kind # "update" => /\ batchTracker'[i] = outputSize[i]
                         /\ \A j \in Batches : j # i => batchTracker'[j] = batchTracker[j]
  BY <1>0, <1>2 DEF Tracked, TrackerTyped, BatchFacts
<1>7. Counted'
  BY <1>1, <1>2, <1>4 DEF OutputHolds, Counted
<1>8. EndReleases'
  BY <1>1, <1>2, <1>4 DEF OutputHolds, EndReleases
<1>9. Sized'
  BY <1>1, <1>2, <1>3 DEF OutputHolds, Sized
<1>10. Unread'
  BY <1>1, <1>2 DEF OutputHolds, Unread
<1>11. BatchesHold'
  <2>1. ASSUME kind # "update", NEW j \in Batches, ~IsPacked(j)'
        PROVE  /\ Holds(passes, output, to_batch_begin(j), outputSize[j], to_batch_begin(j), place[j])
               /\ stage'[Process(j)] = "finished" => batchTracker'[j] = outputSize[j]
    BY <1>3, <1>4, <1>5, <1>6, <2>1 DEF OutputHolds, BatchesHold
  <2>. QED
    BY <1>1, <1>2, <2>1 DEF BatchesHold
<1>12. PackedHold'
  <2>1. ASSUME kind # "update", NEW j \in Batches, IsPacked(j)', j < last => ~IsPacked(j + 1)'
        PROVE  /\ batchTracker'[j] <= to_batch_end(j)
               /\ Holds(passes, output, 0, batchTracker'[j], 0, to_batch_end(j))
    <3>1. CASE IsPacked(j)
      <4>1. j # i
        <5>1. DoneUpTo(j)
          BY <2>1, <3>1, PackedAreDone
        <5>. QED
          BY <1>0, <1>2, <5>1 DEF DoneUpTo, BatchFacts
      <4>2. j < last => j + 1 \in Batches /\ ~IsPacked(j + 1)
        BY <1>0, <1>5, <2>1 DEF BatchFacts
      <4>. QED
        BY <1>3, <1>6, <2>1, <3>1, <4>1, <4>2 DEF OutputHolds, PackedHold
    <3>2. CASE ~IsPacked(j)
      <4>1. i = 0 /\ j = 0
        BY <1>5, <2>1, <3>2
      <4>2. to_batch_begin(0) = 0
        BY <1>0, BatchesMeet DEF BatchFacts
      <4>3. Holds(passes, output, 0, outputSize[0], 0, to_batch_end(0))
        BY <1>2, <1>3, <2>1, <3>2, <4>1, <4>2 DEF OutputHolds, BatchesHold
      <4>4. outputSize[0] <= to_batch_end(0)
        BY <1>0, <1>2, <4>1, <4>2 DEF BatchFacts
      <4>. QED
        BY <1>6, <2>1, <4>1, <4>3, <4>4
    <3>. QED
      BY <3>1, <3>2
  <2>. QED
    BY <1>1, <1>2, <2>1 DEF PackedHold
<1>13. AllHold'
  BY <1>2, <1>3 DEF AllHold
<1>. QED
  BY <1>7, <1>8, <1>9, <1>10, <1>11, <1>12, <1>13 DEF OutputHolds

LEMMA PackKeeps ==
  ASSUME JobsHold, SelfKept, Tracked, OutputHolds, UNCHANGED inputVars,
         NEW i \in Batches, FinishPack(i)
  PROVE  OutputHolds'
<1>0. BatchFacts
  BY BatchesAre
<1>1. /\ batchCount' = batchCount /\ last' = last /\ Batches' = Batches /\ End' = End
      /\ \A j : to_batch_begin(j)' = to_batch_begin(j) /\ to_batch_end(j)' = to_batch_end(j)
      /\ kind' = kind /\ passes' = passes /\ inputSize' = inputSize
  BY SizesStay DEF inputVars
<1>2. /\ stage[Pack(i)] = "running" /\ stage' = [stage EXCEPT ![Pack(i)] = "finished"]
      /\ place' = place /\ outputSize' = outputSize /\ processed' = processed
      /\ output' = Packed(i) /\ released' = released
      /\ batchTracker' = [batchTracker EXCEPT ![i] = batchTracker[i - 1] + @]
  BY DEF FinishPack, TrackPacked, Order!Finish, refVars, workVars
<1>3. ~released /\ Begun /\ batchCount > 0
  BY <1>0, <1>2, WorkIsBeforeEnd, WorkHasBegun DEF BatchFacts
<1>4. /\ kind # "update" /\ i \in 1 .. last - 1 /\ i - 1 \in Batches /\ DoneUpTo(i)
      /\ i > 0 /\ i < last
  <2>1. i \in Nat /\ Pack(i) \in Jobs
    BY <1>0 DEF BatchFacts
  <2>2. kind # "update" /\ i \in 1 .. last - 1 /\ i - 1 \in Batches /\ DoneUpTo(i)
    BY <1>2, <2>1, PackRuns
  <2>. QED
    BY <1>0, <2>2 DEF BatchFacts
<1>5. /\ stage'[Pack(i)] = "finished" /\ stage'[End] = stage[End]
      /\ \A j \in Batches : /\ stage'[Process(j)] = stage[Process(j)]
                            /\ j # i => stage'[Pack(j)] = stage[Pack(j)]
  <2>1. End # Pack(i)
    BY <1>3, JobNames, EndName
  <2>. QED
    BY <1>0, <1>2, <2>1, JobNames DEF BatchFacts
<1>6. \A j \in Batches : IsPacked(j)' <=> IsPacked(j) \/ j = i
  BY <1>0, <1>4, <1>5 DEF IsPacked, PackOf, BatchFacts
<1>7. ~IsPacked(i)
  BY <1>2, <1>4 DEF IsPacked, PackOf
\* The batches before i are packed, and none after it.
<1>8. \A j \in Batches : j < i => IsPacked(j) /\ place[j] = to_batch_end(j)
  <2>1. ASSUME NEW j \in Batches, j < i
        PROVE  stage[Process(j)] = "finished" /\ (j # 0 => stage[Pack(j)] = "finished")
    <3>1. j \in 0 .. i /\ (j # 0 => j \in 1 .. i - 1)
      BY <1>0, <2>1 DEF BatchFacts
    <3>. QED
      BY <1>4, <3>1 DEF DoneUpTo
  <2>. QED
    BY <2>1 DEF IsPacked, PackOf, OutputHolds, Counted
<1>9. \A j \in Batches : i < j => ~IsPacked(j)
  <2>. SUFFICES ASSUME NEW j \in Batches, i < j, IsPacked(j) PROVE FALSE
    OBVIOUS
  <2>1. \A b \in 1 .. j - 1 : stage[Pack(b)] = "finished"
    BY <1>4, PackedAreDone DEF DoneUpTo
  <2>2. i \in 1 .. j - 1
    BY <1>0, <1>4 DEF BatchFacts
  <2>. QED
    BY <1>2, <2>1, <2>2
<1>10. stage[Process(i)] = "finished" /\ place[i] = to_batch_end(i)
  <2>1. i \in 0 .. i
    BY <1>0 DEF BatchFacts
  <2>. QED
    BY <1>4, <2>1 DEF DoneUpTo, OutputHolds, Counted
<1>11. /\ batchTracker[i - 1] \in Nat /\ batchTracker[i] \in Nat
       /\ batchTracker[i - 1] + batchTracker[i] <= to_batch_end(i)
       /\ DOMAIN output = 0 .. inputSize - 1 /\ DOMAIN output' = DOMAIN output
       /\ \A k \in DOMAIN output : to_batch_end(i) <= k => output'[k] = output[k]
       /\ Holds(passes, output', 0, batchTracker[i - 1] + batchTracker[i], 0, to_batch_end(i))
  <2>1. IsPacked(i - 1)
    BY <1>0, <1>4, <1>8 DEF BatchFacts
  <2>. QED
    BY <1>2, <1>3, <1>4, <1>7, <1>10, <2>1, Packing
<1>12. /\ batchTracker'[i] = batchTracker[i - 1] + batchTracker[i]
       /\ \A j \in Batches : j # i => batchTracker'[j] = batchTracker[j]
  BY <1>0, <1>2 DEF Tracked, TrackerTyped, BatchFacts
<1>13. Counted'
  BY <1>1, <1>2, <1>5 DEF OutputHolds, Counted
<1>14. EndReleases'
  BY <1>1, <1>2, <1>5 DEF OutputHolds, EndReleases
<1>15. Sized'
  BY <1>1, <1>11 DEF Sized
\* The batches after i keep their places.
<1>16. ASSUME NEW j \in Batches, i < j, NEW x \in Int, to_batch_begin(j) <= x, x < to_batch_end(j)
       PROVE  output'[x] = output[x]
  <2>1. to_batch_end(i) <= to_batch_begin(j)
    BY <1>0, <1>16, BatchesApart DEF BatchFacts
  <2>2. /\ to_batch_end(i) \in Nat /\ to_batch_begin(j) \in Nat /\ to_batch_end(j) \in Nat
        /\ to_batch_end(j) <= inputSize /\ inputSize \in Nat
    BY <1>0 DEF BatchFacts
  <2>3. x \in 0 .. inputSize - 1 /\ to_batch_end(i) <= x
    BY <1>16, <2>1, <2>2
  <2>. QED
    BY <1>11, <2>3
<1>17. Unread'
  <2>1. ASSUME kind = "input", NEW j \in Batches, NEW x \in place[j] .. to_batch_end(j) - 1
        PROVE  output'[x] = x
    <3>1. /\ to_batch_begin(j) <= place[j] /\ place[j] \in Nat /\ to_batch_begin(j) \in Nat
          /\ to_batch_end(j) \in Nat /\ j \in Nat /\ i \in Nat
      BY <1>0 DEF OutputHolds, Counted, BatchFacts
    <3>2. i < j
      BY <1>8, <1>10, <2>1, <3>1
    <3>3. output[x] = x
      BY <1>3, <2>1 DEF OutputHolds, Unread
    <3>4. x \in Int /\ to_batch_begin(j) <= x /\ x < to_batch_end(j)
      BY <3>1
    <3>. QED
      BY <1>16, <3>2, <3>3, <3>4
  <2>. QED
    BY <1>1, <1>2, <2>1 DEF Unread
<1>18. BatchesHold'
  <2>1. ASSUME NEW j \in Batches, ~IsPacked(j)'
        PROVE  /\ Holds(passes, output', to_batch_begin(j), outputSize[j], to_batch_begin(j), place[j])
               /\ stage'[Process(j)] = "finished" => batchTracker'[j] = outputSize[j]
    <3>1. j # i /\ ~IsPacked(j)
      BY <1>6, <2>1
    <3>2. i < j
      BY <1>0, <1>8, <3>1 DEF BatchFacts
    <3>3. /\ Holds(passes, output, to_batch_begin(j), outputSize[j], to_batch_begin(j), place[j])
          /\ stage[Process(j)] = "finished" => batchTracker[j] = outputSize[j]
      BY <1>3, <1>4, <3>1 DEF OutputHolds, BatchesHold
    <3>4. /\ to_batch_begin(j) \in Nat /\ outputSize[j] \in Nat /\ place[j] \in Nat
          /\ to_batch_begin(j) + outputSize[j] <= place[j] /\ place[j] <= to_batch_end(j)
          /\ to_batch_end(j) \in Nat
      BY <1>0 DEF OutputHolds, Counted, BatchFacts
    <3>5. ASSUME NEW x \in to_batch_begin(j) .. to_batch_begin(j) + outputSize[j] - 1
          PROVE  output'[x] = output[x]
      <4>1. x \in Int /\ to_batch_begin(j) <= x /\ x < to_batch_end(j)
        BY <3>4
      <4>. QED
        BY <1>16, <3>2, <4>1
    <3>6. Holds(passes, output', to_batch_begin(j), outputSize[j], to_batch_begin(j), place[j])
      BY <3>3, <3>4, <3>5, HoldsStill
    <3>. QED
      BY <1>5, <1>12, <3>1, <3>3, <3>6
  <2>. QED
    BY <1>1, <1>2, <2>1 DEF BatchesHold
<1>19. PackedHold'
  <2>1. ASSUME NEW j \in Batches, IsPacked(j)', j < last => ~IsPacked(j + 1)'
        PROVE  j = i
    <3>1. ~(i < j)
      BY <1>0, <1>6, <1>9, <2>1 DEF BatchFacts
    <3>2. ~(j < i)
      <4>. SUFFICES ASSUME j < i PROVE FALSE
        OBVIOUS
      <4>1. j < last /\ j + 1 \in Batches /\ (j + 1 = i \/ j + 1 < i)
        BY <1>0, <1>4 DEF BatchFacts
      <4>. QED
        BY <1>6, <1>8, <2>1, <4>1
    <3>. QED
      BY <1>0, <3>1, <3>2 DEF BatchFacts
  <2>2. /\ batchTracker'[i] <= to_batch_end(i)
        /\ Holds(passes, output', 0, batchTracker'[i], 0, to_batch_end(i))
    BY <1>11, <1>12
  <2>. QED
    BY <1>1, <2>1, <2>2 DEF PackedHold
<1>20. AllHold'
  BY <1>2, <1>3 DEF AllHold
<1>. QED
  BY <1>13, <1>14, <1>15, <1>17, <1>18, <1>19, <1>20 DEF OutputHolds

LEMMA FinalizeKeeps ==
  ASSUME JobsHold, SelfKept, Tracked, OutputHolds, UNCHANGED inputVars, Finalize
  PROVE  OutputHolds'
<1>0. BatchFacts
  BY BatchesAre
<1>1. /\ batchCount' = batchCount /\ last' = last /\ Batches' = Batches /\ End' = End
      /\ \A j : to_batch_begin(j)' = to_batch_begin(j) /\ to_batch_end(j)' = to_batch_end(j)
      /\ kind' = kind /\ passes' = passes /\ inputSize' = inputSize
  BY SizesStay DEF inputVars
<1>2. /\ batchCount > 0 /\ stage[End] = "running" /\ ~released /\ released' = TRUE
      /\ stage' = stage /\ place' = place /\ outputSize' = outputSize /\ processed' = processed
  BY DEF Finalize, jobVars, workVars
<1>3. Counted'
  BY <1>1, <1>2 DEF OutputHolds, Counted
<1>4. EndReleases' /\ Sized' /\ Unread' /\ BatchesHold' /\ PackedHold'
  BY <1>2 DEF EndReleases, Sized, Unread, BatchesHold, PackedHold
<1>5. AllHold'
  <2>. SUFFICES ASSUME kind # "update"
                PROVE  /\ batchTracker'[last] \in Nat
                       /\ DOMAIN output' = 0 .. batchTracker'[last] - 1
                       /\ Holds(passes, output', 0, batchTracker'[last], 0, inputSize)
    BY <1>1 DEF AllHold
  <2>. DEFINE container == IF batchCount > 1 THEN Packed(last) ELSE output
              size == batchTracker'[last]
  <2>1. /\ batchTracker' = IF batchCount > 1 THEN [batchTracker EXCEPT ![last] = batchTracker[last - 1] + @]
                                             ELSE batchTracker
        /\ output' = resize(container, size)
    BY <1>2 DEF Finalize, TrackPacked, get_output_size, last
  <2>2. last \in Batches /\ last \in Nat /\ to_batch_end(last) = inputSize
    BY <1>0, <1>2, BatchesMeet DEF BatchFacts
  <2>3. DoneUpTo(last)
    BY <1>2 DEF JobsHold, Chained
  <2>4. Begun
    <3>1. stage[Process(last)] = "finished"
      BY <2>2, <2>3 DEF DoneUpTo
    <3>. QED
      BY <2>2, <3>1, WorkHasBegun
  <2>5. /\ size \in Nat /\ size <= inputSize
        /\ 0 .. inputSize - 1 = DOMAIN container
        /\ Holds(passes, container, 0, size, 0, inputSize)
    <3>1. CASE batchCount > 1
      <4>1. last - 1 \in Batches /\ last > 0 /\ last - 1 \in Nat
        BY <1>0, <3>1 DEF BatchFacts
      <4>2. IsPacked(last - 1)
        <5>1. 0 \in 0 .. last /\ (last - 1 # 0 => last - 1 \in 1 .. last - 1)
          BY <2>2, <4>1
        <5>. QED
          BY <2>3, <5>1 DEF IsPacked, PackOf, DoneUpTo
      <4>3. ~IsPacked(last)
        BY <3>1, LastIsNotPacked
      <4>4. stage[Process(last)] = "finished"
        BY <2>2, <2>3 DEF DoneUpTo
      <4>5. /\ batchTracker[last - 1] \in Nat /\ batchTracker[last] \in Nat
            /\ batchTracker[last - 1] + batchTracker[last] <= to_batch_end(last)
            /\ DOMAIN output = 0 .. inputSize - 1 /\ DOMAIN Packed(last) = DOMAIN output
            /\ Holds(passes, Packed(last), 0, batchTracker[last - 1] + batchTracker[last], 0, to_batch_end(last))
        BY <1>2, <2>2, <2>4, <4>1, <4>2, <4>3, <4>4, Packing
      <4>6. size = batchTracker[last - 1] + batchTracker[last]
        BY <1>0, <2>1, <2>2, <3>1 DEF Tracked, TrackerTyped, BatchFacts
      <4>7. container = Packed(last)
        BY <3>1
      <4>. QED
        BY <2>2, <4>5, <4>6, <4>7
    <3>2. CASE ~(batchCount > 1)
      <4>1. last = 0 /\ 0 \in Batches /\ container = output /\ size = batchTracker[0]
        BY <1>0, <1>2, <2>1, <3>2 DEF BatchFacts
      <4>2. IsPacked(0)
        BY <2>3, <4>1 DEF IsPacked, PackOf, DoneUpTo
      <4>3. /\ batchTracker[0] <= to_batch_end(0) /\ batchTracker[0] \in Nat
            /\ Holds(passes, output, 0, batchTracker[0], 0, to_batch_end(0))
        BY <1>0, <1>2, <4>1, <4>2 DEF OutputHolds, PackedHold, BatchFacts
      <4>4. DOMAIN output = 0 .. inputSize - 1
        BY <1>2, <2>4 DEF OutputHolds, Sized
      <4>. QED
        BY <2>2, <4>1, <4>3, <4>4
    <3>. QED
      BY <3>1, <3>2
  <2>. HIDE DEF container, size
  <2>6. DOMAIN output' = 0 .. size - 1 /\ \A x \in 0 .. size - 1 : output'[x] = container[x]
    <3>1. \A x \in 0 .. size - 1 : x \in DOMAIN container
      BY <1>0, <2>5 DEF BatchFacts
    <3>. QED
      BY <2>1, <3>1 DEF resize
  <2>7. Holds(passes, output', 0, size, 0, inputSize)
    <3>1. \A x \in 0 .. 0 + size - 1 : output'[x] = container[x]
      BY <2>5, <2>6
    <3>. QED
      BY <2>5, <3>1, HoldsStill
  <2>. QED
    BY <2>5, <2>6, <2>7 DEF size
<1>. QED
  BY <1>3, <1>4, <1>5 DEF OutputHolds

LEMMA StepOutput ==
  ASSUME JobsHold, SelfKept, Tracked, OutputHolds, [Next]_vars
  PROVE  OutputHolds'
<1>1. InputTyped
  BY DEF JobsHold, MadeInOrder
<1>2. UNCHANGED inputVars /\ Advances
  BY <1>1, NextSteps, OrderKeeps DEF JobsHold
<1>3. CASE Quiet
  BY <1>2, <1>3, QuietKeeps
<1>4. ASSUME NEW i \in Batches, ProcessItem(i) \/ FinishProcess(i) \/ FinishPack(i)
      PROVE  OutputHolds'
  BY <1>2, <1>4, ItemKeeps, ProcessKeeps, PackKeeps
<1>5. CASE Finalize
  BY <1>2, <1>5, FinalizeKeeps
<1>. QED
  BY <1>3, <1>4, <1>5, ItemSteps DEF ItemStep

LEMMA OutputIsFinal == JobsHold /\ Tracked /\ OutputHolds => FinalOutput
<1>. SUFFICES ASSUME JobsHold, Tracked, OutputHolds, stage[End] = "finished"
              PROVE  /\ \A k \in DOMAIN processed : processed[k] = 1
                     /\ (kind # "update" /\ inputSize > 0) =>
                          /\ DOMAIN output = 0 .. get_output_size(batchTracker) - 1
                          /\ {output[a] : a \in DOMAIN output} = {k \in 0 .. inputSize - 1 : passes[k]}
                          /\ \A a, b \in DOMAIN output : a < b => output[a] < output[b]
  BY DEF FinalOutput
<1>0. BatchFacts
  BY BatchesAre
<1>1. ASSUME NEW k \in DOMAIN processed
      PROVE  processed[k] = 1
  <2>1. k \in 0 .. inputSize - 1
    BY DEF OutputHolds, Counted
  <2>2. PICK i \in Batches : k \in to_batch_begin(i) .. to_batch_end(i) - 1
    BY <1>0, <2>1, BatchOf DEF BatchFacts
  <2>3. batchCount > 0 /\ i \in 0 .. last
    BY <1>0 DEF BatchFacts
  <2>4. stage[Process(i)] = "finished"
    BY <2>3 DEF JobsHold, Chained, DoneUpTo
  <2>5. place[i] = to_batch_end(i) /\ processed[k] = IF k < place[i] THEN 1 ELSE 0
    BY <2>2, <2>4 DEF OutputHolds, Counted
  <2>6. k < to_batch_end(i)
    BY <1>0, <2>2 DEF BatchFacts
  <2>. QED
    BY <2>5, <2>6
<1>2. ASSUME kind # "update", inputSize > 0
      PROVE  /\ DOMAIN output = 0 .. get_output_size(batchTracker) - 1
             /\ {output[a] : a \in DOMAIN output} = {k \in 0 .. inputSize - 1 : passes[k]}
             /\ \A a, b \in DOMAIN output : a < b => output[a] < output[b]
  <2>. DEFINE size == batchTracker[last]
  <2>1. batchCount > 0
    BY <1>0, <1>2, BatchesMeet DEF BatchFacts
  <2>2. /\ size \in Nat /\ DOMAIN output = 0 .. size - 1
        /\ Holds(passes, output, 0, size, 0, inputSize)
    BY <1>2, <2>1 DEF OutputHolds, EndReleases, AllHold
  <2>3. get_output_size(batchTracker) = size
    BY DEF get_output_size, last
  <2>. HIDE DEF size
  <2>4. 0 + size - 1 = size - 1
    BY <2>2
  <2>. QED
    BY <2>2, <2>3, <2>4 DEF Holds
<1>. QED
  BY <1>1, <1>2

\* batch_job.h: "processor called for each element" and "outputs the (potentially
\* reduced) set of input items".  However the batches are processed and packed
\* by the workers, a finished batch job has called the processor once for each
\* item, and its output holds the items that pass, in the order of the input and
\* nothing else, whatever the sizes, the workers and the answers of the processor.
THEOREM OutputIsComplete == SafeSpec => []FinalOutput
<1>. DEFINE Inv == JobsHold /\ SelfKept /\ Tracked /\ OutputHolds
<1>1. Init => Inv
  BY InitJobs, InitKept, InitTracked, InitOutput
<1>2. Inv /\ [Next]_vars => Inv'
  BY StepJobs, StepKept, StepTracked, StepOutput
<1>3. Inv => FinalOutput
  BY OutputIsFinal
<1>. QED
  BY <1>1, <1>2, <1>3, PTL DEF SafeSpec
=============================================================================
