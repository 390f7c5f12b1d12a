# TLA+ verification of gdul

gdul (`src/source/gdul`) is a C++17 library of lock-free building blocks: a
job system with dependencies, an atomic shared pointer, and concurrent
containers that rest on it. This directory holds TLA+ models of its protocols,
TLC configurations that check them on small instances, and TLAPS proofs for
instances of every size. `PROJECT.json` relates every definition to the lines
it models, lists the runs, the mutants, the hazards and the theorems.

    tlasany M.tla                       parse a module
    tlc -config X.cfg M.tla             check a configuration
    tlapm M.tla                         check the proofs of a module

The configurations that `PROJECT.json` lists as runs are the ones to repeat after
a change. Some others show what goes wrong under conditions that the runs
exclude; each ends with a counterexample, and the section of its module says
what it is: `MCQueueFifo`, `MCQueueLockFree`, `MCBatchEdges`, `MCPriorityQueueClear`,
`MCUnorderedMapGrowth`, `MCUnorderedMapErase`, `MCWorkerPoolRestart`,
`MCWorkerPoolHasty`, `MCTlmOwn`, `MCTlmConcurrent`, `MCGuardPoolBlocks`,
`MCGuardPoolFence`, `MCGuardPoolReset`.

## 1. Inventory

Paths are relative to `src/source/gdul`.

| component | state it keeps | operations | what is hard | what makes it correct |
|---|---|---|---|---|
| job graph (`execution/job_handler/job/job*`) | per job: the counter `m_dependencies`, the lock-free list `m_headDependee` of the jobs that wait for it, `m_finished` | `depends_on`, `enable`, `enable_locally_if_ready`, `operator()`, `work_until_ready/finished`, `wait_until_finished` | a parent finishes while a child is being attached; three places may submit a job | a job is submitted exactly once, after its dependencies, and no dependant is forgotten |
| job queues (`job_queue.*`) | a queue of jobs, plain or ordered by learnt priorities | `submit_job`, `fetch_job` | order of jobs of equal priority | jobs are handed out once |
| workers and job handler (`worker/*`, `job_handler_impl.*`) | array of workers, their queues and flags | `make_worker`, `add_assignment`, `enable`, `disable`, `work`, `shutdown` | threads that read slots which others fill; join at shutdown; waiting inside of jobs | no job is run by a worker that is not assigned; shutdown ends |
| batch jobs (`job/batch_job*`) | root, process, pack and end jobs, counts per batch, a reference to itself | `depends_on`, `enable`, `enable_locally_if_ready`, `initialize`, `work_process`, `work_pack`, `finalize` | the self reference is set and dropped by different threads; chunks of an uneven array | every element is processed once, output is contiguous, the batch job is released |
| job tracking (`tracking/*`) | times per job, sets of times, graphs | measure, dump | none that safety depends on | - |
| atomic_shared_ptr (`memory/atomic_shared_ptr.h`) | a word of pointer, version and local references; a counter in each control block | load, store, exchange, compare_exchange, get_raw_ptr | refilling the word while it is replaced; wrap-around of byte and version | counts are exact; nothing is destroyed in use, nothing leaks |
| concurrent_queue (`containers/concurrent_queue.h`) | per producer a chain of rings and a slot; per consumer the ring it keeps | `push`, `try_pop`, `reserve`, `size`, `unsafe_clear`, `unsafe_reset` | reservations that are given back; rings that wrap; moving from ring to ring; growth of the slot array | FIFO per producer, no item lost or taken twice, progress |
| skip list, concurrent_map | towers of linked nodes | insert, find, iterate | towers linked level by level | keys sorted, unique, found |
| concurrent_priority_queue | the same list, versioned links, flagged front | push, try_pop | deletion and insertion around the front | every pushed item popped once, roughly smallest first |
| concurrent_unordered_map | array of buckets, of versioned links | insert, find, grow | growth during insertion | keys unique, found after growth |
| thread_local_member | an index per object, arrays per thread | get, construct, destroy | an index is reused by a new object | a thread never sees the value of an old object |
| pools (`memory/*pool*`, `scratch_pad.h`) | queues of free blocks, guard indices | get, recycle, guard, reset | recycling while readers are inside | a block has one owner |
| atomic_128, packed_ptr, delegate, small_vector, type_traits, math, thread | - | sequential helpers and wrappers of single instructions | - | - |
| WIP | ten versions of a FIFO queue, quiescent-state reclamation | - | experiments no header outside uses | - |
| Testers, `source/job_time_set_view` | - | stress tests; a viewer in C# | - | - |

How they interact: a job that becomes ready is pushed to a job queue, which is
a `concurrent_queue` or a `concurrent_priority_queue`; workers pop it and call
it; its end releases its dependants, which pushes them to their queues. The list
of dependants, the slots of the concurrent queue and the buffers behind them are
`atomic_shared_ptr`s, whose versions the compare-exchanges rely on. Per-thread
state of queues and pools is kept in a `thread_local_member`. So the models build
upon one another: `AtomicSharedPtr` justifies that the others treat an
exchange of a pointer as one step on a versioned word.

## 2. Modules and plan

| module | part | state |
|---|---|---|
| `JobOrder`, `JobDependencies`, `JobDependenciesProofs` | job graph | checked, safety proved |
| `SharedObjects`, `AtomicSharedPtr`, `AtomicSharedPtrProofs` | atomic_shared_ptr | checked, counts, boundary and refinement proved |
| `PerProducerFifo`, `ConcurrentQueue`, `ConcurrentQueueProofs` | concurrent_queue, items that do not throw | checked, reservations and claims proved; nothing stranded and the refinement proved up to the race of `find_back` |
| `BatchJob`, `BatchJobProofs` | batch jobs over `JobOrder` | checked, all safety proved |
| `OrderedMap`, `ConcurrentMap`, `ConcurrentMapProofs` | concurrent_map and its skip list | checked, safety and refinement proved |
| `PriorityQueue` | concurrent_priority_queue | checked |
| `HashTable`, `UnorderedMap`, `UnorderedMapProofs` | concurrent_unordered_map | checked, the freezing of replaced arrays proved; the count and the refinement proved up to the copy |
| `WorkerPool`, `WorkerPoolProofs` | workers, waiting calls, the life of a job handler | checked, the assignment of queues proved |
| `ThreadLocalMember` | thread_local_member | checked |
| `GuardPool`, `GuardPoolProofs` | concurrent_guard_pool | checked, all safety proved |

`JobOrder`, `SharedObjects`, `PerProducerFifo`, `OrderedMap` and `HashTable` are
the abstract specifications; the module after each is shown to implement it.
`BatchJob` composes with `JobOrder`, whose actions are the only ones on its
jobs. `WorkerPool` takes of the job graph what `JobOrder` promises: an enabled job
is in its queue when what it depends on has finished.

What is left, in the order of its worth: the growth of the array of producer
slots of the queue (claim, swap array, forced store: the scheme of
`ThreadLocalMember`, with producers in the place of constructors); the object
and scratch pools; the queue's variant for items that throw. The theorem worth
proving next is `OwnValue` of `ThreadLocalMember`, for programs that do not call it
concurrently with the end of a member.

## 3. The job graph

`JobDependencies` has one variable per field of `job_impl` and one per place
where a thread keeps something: `link[l]` is how far the call number `l` of
`depends_on` is, `seen[l]` the head it read, `enabler[j]` how far `enable` is,
`phase[j]` and `detaching[j]` how far the thread that executes `j` is. Each
action is one atomic access and the local work after it. Calls of `depends_on`,
`enable` and `enable_locally_if_ready` come from any threads at any time, also
for jobs that were scheduled or have finished. `JobOrder` is the promise of
`README.md` of the repository: a job may begin when the jobs it depends on have
finished.

`Submit` of a job is one step: the queue is a bag from which a worker takes any
job. The waiting calls are in `WorkerPool`; the statistics of a job are not
modelled.

| run | bounds | shows |
|---|---|---|
| `job_graph` (`MCJobDependencies.cfg`) | 3 jobs, 2 calls of `depends_on` over every acyclic choice of edges, 2 workers | counters are exact, jobs are handed over exactly once and run after their dependencies, no dependant of a finished job is forgotten, the graph implements `JobOrder`, and a job that is enabled, with everything it depends on, finishes |

Two calls are two children of one parent, a chain, two parents of one child, or
two calls on the same edge; for more, the safety properties are proved. The
versions never wrap; `Versions > Cardinality(Links) + 1` is an assumption, as
`MaxVersion` is 4095.

Fairness: a thread inside `depends_on`, `enable` or the execution of a job goes
on, work units return, and workers poll their queues (`launch_worker` loops as
long as the worker is active). Nothing makes the program link or enable jobs.

**Proved** (`JobDependenciesProofs`), for all sets of jobs, workers, finite sets
of calls and any dependency relation: all the safety properties of the run. The
inductive invariant `IInv` adds what none of them says: the list of a job and
the list its executor took away hold exactly the attached links, each once
(`Lists`); which phase has emptied which list (`PhaseFacts`); that links taken
back or released have finished parents (`LateLinks`); that the version of a
head counts the links that ever joined it and its detachment (`HeadVersions`);
and that a head which was read and still has the current version is the current
head (`SeenHeads`). The last two are what makes the compare-exchange of
`try_attach_child` safe: the mutant without the version breaks them. `KeepsOrder`
follows: each step is a step of `JobOrder` or a stutter.

## 4. atomic_shared_ptr

The word `m_storage` holds a pointer, a version and in its top byte the number
of references it stands for. `AtomicSharedPtr` has one such word, a shared
pointer `own` and an `expected` (shared or raw) for each thread, and follows
`load`, `store`, `exchange` and `compare_exchange_strong` access by access,
through the refilling of a word (`try_fill_local_refs`) that any load may
begin. Spurious failures of `compare_exchange_weak` are included.
`SharedObjects` is what the class promises: an object lives while something
refers to it.

| run | bounds | shows |
|---|---|---|
| `shared_ptr` | 2 threads, 2 objects, 3 replacements, full word 3, boundary 2 | every counter is the number of references at every step, a load finds a reference in the word, and the model implements `SharedObjects` |
| `shared_ptr_liveness` | 2 threads, 2 replacements | what is not referred to is destroyed, a short word is refilled |

The full word and the boundary are as small as the number of threads allows, so
words run short after one or two loads. `Versions > MaxInstalls` bounds the
replacements so that no version comes round again: what happens when a thread
sleeps during 4096 replacements is left out (section 14).
Fairness: threads inside an operation go on; a compare_exchange_weak that is
tried again and again does not fail spuriously for ever (strong fairness of
`FillWord`); nothing is assumed of clients.

**Proved** (`AtomicSharedPtrProofs`): `LocalRefsSuffice`. The source says of
`LocalRefFillBoundary` that it is "also, the maximum number of concurrently
accessing threads"; the theorem shows why that is enough. The invariant counts
the threads that have taken a reference and have seen that it was one of the
last (they will refill): references left plus fillers never fall below the
boundary, so with one thread outside there is a reference left.
`InstalledWordsAreFull` says that what replaces the word is never short.
`CountsAreExact` and `ObjectsAreKept` are about the counters of the control blocks.
A count is the size of a set of tokens, one for each reference of a holder: the
word, what is installed next, shared pointers, local references of each thread. A step
moves tokens of one thread only, and changes the counter by as many. An object
is destroyed by whoever takes the counter to zero, so there is no token
left; and a word whose local references are used up still holds its object, because
whoever took the last one is about to refill it and has a loaded reference until then.
That gives the refinement of `SharedObjects`, step by step. The liveness is checked
only.

## 5. concurrent_queue

`ConcurrentQueue` has for each producer its `chain` of rings and the place in
it that the `slots` array points to, and for each consumer the ring it keeps.
`try_pop` is `ReadWritten`, `ReserveItem`, `Claim`, `WriteOut` (or `GiveBack`),
and a pop that fails goes through `relocate_consumer`: the visit of the slots,
`size()`, `is_active()`, `find_back()` and the replacement of the slot, one ring
read per action. The two counters of a ring are read in one step: `m_readSlot` is
read first and never passes `m_written`, so the two are found equal only if
they were equal at the first read, and found different only if they were
different at some moment between. Items are the numbers of their pushes.
`PerProducerFifo` is the promise: one queue per producer, and a pop takes the
head of one of them.

| run | bounds | shows |
|---|---|---|
| `queue` | 1 producer, 2 consumers, first ring of 2, `reserve(4)`, 5 pushes | claims are in the order of the pushes across two rings, and the slot never passes an unclaimed item; reservations are accounted for exactly; a consumer moves out the item it claimed; some `try_pop` returns time and again |
| `queue_all_claimed` | 2 producers, `reserve(2)` or `reserve(4)`, 2 pushes each, 1 consumer that relocates after 2 pops | an undisturbed consumer gets everything, in the order of each producer |
| `MCQueueFifo` | rings of 1, 2 and 4 | see below |
| `MCQueueLockFree` | 2 producers, 2 consumers | see below |

Five pushes take a ring of two round and into the ring behind it. A producer
that reserves twice leaves an empty ring behind, and with two producers the
counting of slots and the indices of relocation matter.

Two configurations disagree with the documentation. **FIFO**: `find_back` compares the
counters of a ring and loads its `m_next` afterwards. In between, a ring that was
empty can be filled and left by its producer; `find_back` returns the ring
behind it, which goes to the slot, and younger items are popped first. It takes
three rings in a chain, so the run `queue` keeps to two: there the order holds.
**Lock-freedom**: with two producers, consumers whose short-lived reservations
make each other fail on the last item relocate, find the item, and try again,
for ever and without any `try_pop` returning. With one producer
`relocate_consumer` gives up instead (run `queue`).

Fairness: a producer inside `push` goes on; consumers call `try_pop` again and
again, as workers do.

`BufferCapacityMax` (4 in the configurations) is the largest capacity of a ring that a
producer makes.

**Proved** (`ConcurrentQueueProofs`), for any number of producers, consumers, rings and
pushes, whatever relocates in between: `ReservationsAreExact` and `ClaimedItemsAreThere`. What a consumer has
in hand exists, as chains of rings only grow. `m_preReadSync` is ahead of `m_readSlot` by the
consumers that have reserved and neither claimed nor given back; a reservation is only used
when an item that was read from `m_written` covers it, so claims never pass what is
written, although the counter of reservations may. Unclaimed items are in their slots,
claimed numbers are distinct, and a slot is written again only after it was moved out of: so
what is moved out is the item of the number that was claimed.

`OnlyFindBackStrands` and `OnlyFindBackReorders`: `NothingStranded` holds and the queue
implements `PerProducerFifo` in every execution in which `find_back` goes on only from
buffers that are used up at that moment (`GoesOnFromUsedUp`). That is what the race of
`MCQueueFifo` breaks; the theorems say that nothing else does, so they exclude
executions of the code, namely those of that race. They are about chains of any
length, where the run `queue` has two rings, and about slots that go back to an older
ring. The argument: a
buffer that was left by its producer and is used up stays so, since its written items
are all claimed and nothing more is written (`UsedUpStays`); the slot and whatever
consumers hold come after used up buffers only (`GonePast`, `KeptPast`); so what a consumer
claims is the first unclaimed item of its producer, and each step pushes one item, takes
the first one or changes nothing. `unclaimed` concatenates the buffers of a chain; what
`FlattenSeq` does with one item more at the end or one less at the front is an induction over
the chain. Liveness is checked only.

A new producer claims a slot and stores its buffer (`InitProducer`,
`ReserveFirst`), raises the count of stored buffers (`PostReserve`), and raises
`producerCount` if as many slots are claimed as there are buffers stored
(`CountProducers`); consumers visit the counted slots only.

Not modelled: the growth of the array of slots, the array that a consumer remembers, exceptions, `unsafe_*`, and the orderings of
memory that C++ allows beyond sequential consistency.

## 6. Batch jobs

`BatchJob` uses `JobOrder` as its job system: root, process, pack and end jobs
are jobs of `Order == INSTANCE JobOrder`, and `Order!Enable`, `Order!Require`,
`Order!Run` and `Order!Finish` are the only actions on them. `make_jobs` is a loop over
the batches (`batch`) with the calls of `depends_on` and `enable` for each of them (`Calls`, of
which `call` is the next), one per step, so that jobs run while later ones are made.
`work_process` takes one item per step; `work_pack` is one step, which is
sound as long as `DisjointAccess` holds: no two jobs that run at the same time touch
the same item or the same entry of `m_batchTracker`. `Alive` says whether
anything refers to the batch job: its owner or `m_selfRef`. With
`enable_locally_if_ready` the same jobs run one after the other in the calling
thread (`locally`). The kinds are those of `make_batch_job`: update in place,
reduce in place, and reduce into another container.

| run | bounds | shows |
|---|---|---|
| `batch` | inputs of 0, 2 and 5 items, 3 slices, 2 workers (they ask for five batches of 5 items, and get three), any result of the processor | data of concurrent jobs is disjoint, the batch job outlives its jobs, at the end each item was processed once and the output is the items that pass, in order, and an enabled batch job finishes |
| `MCBatchEdges` | no items or one; with `-continue` TLC shows both counterexamples | see below |

Three batches are the least with a pack job between the first batch and the end
job, the last of them is shorter than the others, and the batch size is an
adjusted one. The dependency that a program may give the batch job is one job.

Two properties of `MCBatchEdges` disagree with the code. **Empty input** (`EmptyOutput`): the root job is an
empty delegate and the end job is a copy of it, so the output container is
neither resized nor is `get_output_size` meaningful: it reads the entry before
the first. **Self reference** (`NothingLeaks`): `enable` stores it after it has enabled the
root job; if the end job has dropped it by then, nothing will drop it any more,
and the batch job keeps itself alive. `batch` shows that the converse never
happens: the reference is not dropped while a job still needs it.

Fairness: a program that has begun `enable` returns from it and enables the job
that the batch job depends on; workers run what is scheduled.

**Proved** (`BatchJobProofs`): `SlicesAlwaysFit`. `to_batch_size` and
`clamp_batch_size` round down and up; for every input and number of workers the
batches are at most `BatchJobMaxSlices`, the length of `m_batchTracker`. The
source calculates with `float`, exactly below 2^24 items; the theorem is about
exact arithmetic. `OwnerMayDiscard`: a job can follow its pointer only while the batch job
is alive. The reference of the batch job to itself is dropped by the end job, and each
other job has finished by then, because it is ordered before the end job by
dependencies that were made before it was enabled (`Chained`); in
`enable_locally_if_ready` the calling thread is the owner. `JobsTouchTheirOwn`: batches are
slices that do not meet, and two jobs that may write the same entry or the same part
of the output are ordered by a dependency. Pack jobs move items to where earlier
batches ended, which is never beyond the beginning of their own batch, since a batch keeps no
more items than it had. `OutputIsComplete`: when the batch job has finished, each item was
processed once and the output is the items that pass, in order. Each batch holds its
passing items at its front once its process job has finished; after the pack job of a
batch the output begins with the passing items of all batches up to it and ends where
`m_batchTracker` says (`OutputHolds`).

## 7. concurrent_map and its skip list

`ConcurrentMap` has one link per node and layer. A search is `pc`, `sought`,
`layer` and the two sets `atSet` and `nextSet` of the code; each link that it reads
is an action (`Forward`, `Down`, `Found`, `SlotFound`, `NotFound`), `LinkBase` is the
store of the node's own links with the compare-exchange of the base link, and
`LinkUpper` one shortcut. A node that finds its key already there goes back to
the pool. `OrderedMap` is the promise: a sorted set of keys, and operations that
take effect at one instant between call and return. The base link decides: a
key is in the map from the moment it is linked there.

| run | bounds | shows |
|---|---|---|
| `map` | 2 threads, 3 nodes, 3 keys, 2 layers | shortcuts lead forward, to linked nodes that are high enough, and the map implements `OrderedMap` |

Three keys let one node be linked between two others while a third thread's
search has passed; two layers give one of shortcuts. Threads and nodes are
interchangeable: no definition of the modules orders them, and both properties
treat them alike.

**Proved** (`ConcurrentMapProofs`), for every number of threads, nodes, keys and
layers: `InvHolds`, `ShortcutsForward`, and `ImplementsOrderedMap`. Sortedness is
not inductive alone: the compare-exchange is right only because of what the
thread remembers. The invariant `Inv` therefore has, beyond types and the facts of
`m_head`, `SearchFacts`: in every layer that a search has left, what it holds in
`atSet` is a linked node below its key, and what it holds in `nextSet` one above it;
`OwnNodes`: a node that is not linked yet belongs to one thread;
`ShortcutsLeadForward`; `Adjacent`: no key lies between a node and the next of the
base layer; and `UniqueKeys`. With these, a base link that is still the one in
`nextSet` has no room for the same key (`LinkBaseMap`), and a search that ends
without its key has looked at the gap in which it would be (`SearchEnds`). Each
step is then an `Insert`, `Find`, `Begin`, `Increment` or `Clear` of `OrderedMap`, or
a stutter.

`operator[]` and `at` are a find or an insert. Nodes are freed only by
`unsafe_clear`, which the model allows only when nobody is inside an operation,
and iterators are at the end afterwards.

## 8. concurrent_priority_queue

`PriorityQueue` keeps the versions that tell a link of the head from an older one,
and flag the base link of a node that is being popped. A pop goes through
`PopFront`, `LoadFrontSet`, `LoadNextSet`, `Flag`, `DelinkUpper`, `DelinkBase`, and after a
failure finds out who was faster (`LookForNode`, `StillUnclaimed`, `Claimed`); a push
through the search, `Verify`, `link_to_head` or `link_to_node`, and the layers above.
`counteract_version_lag` drags outdated links of the head along. `retired[n]` holds
the threads that were guarded when `n` was recycled: what the guard pool
promises is that none of them still runs when `n` is handed out again.

| run | bounds | shows |
|---|---|---|
| `priority_queue` | 2 threads, 3 pushes over 2 nodes and 2 keys, 2 layers, a `clear` while nobody else is at work | every item is popped once, none is lost, items leave from the front with the least key, no shortcut leads to a node that may be handed out again, every operation returns |
| `MCPriorityQueueClear` | `clear` at any time | see below |

With two nodes and three pushes a node comes back from the pool with another
key, while the other thread still holds a view of it. `MaxVersion` is 63, far above
the number of changes of the front that three pushes allow; the wrap-around of
`version_add_one` and `in_range` is in the definitions and is not reached. A pop of
an empty queue changes nothing, so behaviours are finite and `AllReturn` says that
no operation is stuck.

Fairness: a thread inside an operation goes on; nothing makes it begin one.

`clear` takes the list off the head without flagging the front. A pop that has
flagged it concludes that the node is its own, and the node is recycled twice
(`MCPriorityQueueClear`, in the findings).

## 9. concurrent_unordered_map

`arrays` is the sequence of the bucket arrays that `m_items` has held, `tl[t]` the one
that thread `t` has seen last. `Dispose` marks buckets, `Publish` copies into the
new array and swaps it in, `Swap` is the compare-exchange of `insert_internal`. The
copying is one step because every bucket of the old array is disposed by then,
and nobody else has the new one yet. Hashes are chosen so that they meet in the
same buckets. `HashTable` is the promise: a find sees every key that was there
when it was called.

| run | bounds | shows |
|---|---|---|
| `unordered_map` | 2 threads, 3 hashes in the same buckets, arrays of 2, 4 and 8 buckets, `reserve(8)` | the map implements `HashTable`, `m_size` is exact, an array that was replaced is disposed all over |
| `MCUnorderedMapGrowth` | 1 thread, 5 hashes, 8 buckets | see below |
| `MCUnorderedMapErase` | erasing while arrays are outdated | see below |

`VIEW HeldArrays` leaves out the contents of arrays that neither `m_items` nor a
thread holds; no action reads them, and an array that is held is never one that
was not held before. `OldArraysFrozen` is checked when an array
is replaced: while a thread holds it, it stays in the view.

Two disagreements. **Lost when growing**: the probes of a hash reach only 4 of 16
buckets, and `reserve_internal` ignores that an item found no place in the new
array, which an assertion there rules out. **Erase**: `unsafe_erase` leaves the
pointer of the item in the bucket; growing brings it back, and threads with an
outdated array find it still. The passing run erases and clears only when all
threads have seen the last array, and erases only from one that does not grow.

**Proved** (`UnorderedMapProofs`): `ReplacedArraysStayFrozen`, for any number of threads, any
hashes and sizes, and without the restriction on erasing. A thread has disposed the
buckets it has passed, and publishes when it has passed all of them; a bucket is swapped
only for the one that was read, which was not disposed, so a late insert cannot go into
an array that was replaced; `unsafe_erase` keeps the flag, and `unsafe_clear`, which does
not, runs when no thread disposes anything.

`OnlyTheCopyMiscounts` and `OnlyTheCopyBreaksTheTable`: the two disagreements above make
`SizeExact` and `KeepsTable` false in general, and both are faults of the copy. The theorems
say that nothing else is wrong: in every execution in which a copy brings all items of the
old array and none that was erased (`CopiesAll`; the code asserts the first half), the
count is exact, and if keys are erased only when every thread has seen the last array
(`EraseSettled`, as in the passing run), the map implements `HashTable`. TLC checks
that every copy on the bounds of the passing run is such a copy. The argument: the items in the current array
are `m_size` and the inserts that have not raised it yet (`Sized`); an item is in one
bucket, and from the first bucket of its hash to that one there is no empty one (`Tidy`), which
every copy establishes by an induction over the buckets moved; and a thread that
probes an outdated array either finds what it looks for or meets a disposed bucket and
goes on to a newer array (`Seeing`).

## 10. Workers and job handler

`WorkerPool` has one record per `worker_impl` (`m_workers`), and per thread where it
is in `launch_worker`. `stack[p]` is what makes waiting hard: the jobs and waits that
a thread is in, one on top of the other; `work_until_finished` puts another job on
top and can return only when that one has. Threads of the program (`Users`) make,
assign, enable, retire workers, enable jobs and wait for them, shut down and
destroy the job handler, in any order. `make_worker` is two steps, as the thread it
launches runs before the worker is moved to its place. `add_assignment` is three.
A queue is a set here, and `try_pop` fails only when it is empty; that of section 5 may
also fail while another consumer gives back a reservation. `FetchesStored` does not depend
on it; `JobsFinish` and `DestructorReturns` count on some `try_pop` succeeding in the end, which is
what the run `queue` shows for one producer and `MCQueueLockFree` refutes for two.
The two reads of `work` and `fetch_job` are one step: nobody retires a worker and
assigns a queue to it at the same time.

| run | bounds | shows |
|---|---|---|
| `workers` | 2 workers, one with two queues, 2 threads launched, 1 user, a job that works on the queue of the one it waits for, a job with a dependency | a worker asks only queues that were stored, all jobs finish when each queue has a worker, the destructor returns |
| `MCWorkerPoolRestart`, `MCWorkerPoolHasty` | workers made after a shutdown | see below |
| `MCWorkerPool` with `Users = {u1, u2}` | 2 users assign at the same time | the worker reads a place that is not stored yet: `m_queueCount` counts places, and not which ones are filled |
| `MCWorkerPool` with `NestedTarget`, `NestedDependencies`, `NestedAwaits` | a job waits for one that its own thread is in | the thread stalls, as the comment of `work_until_finished` in `job.h` warns |

Assumed of the program in the passing run (`Patient`, and the guards of `Shutdown`
and `Destroy`): it shuts down when the jobs it enabled have finished, enables each
worker before (a worker that never was enabled stays in `launch_worker` and the
destructor does not return), and makes no worker in the place of a thread that
has not ended. Two threads suffice for one to be replaced and for one to help
another. `QueueIndices` is 2: with at most two queues per worker only the parity
of the 8-bit `m_queueIndex` matters, and 256 is even.

**Workers after a shutdown.** `shutdown` starts again at place 0, and the new
thread looks at what it finds there. If the flags are those of the retired
worker it leaves at once, and the new worker has no thread
(`MCWorkerPoolRestart`); if the old thread still runs it takes the new flags for
its own, and the join of it does not return (`MCWorkerPoolHasty`). So `JobsFinish`
is about workers that replaced nobody.

**Proved** (`WorkerPoolProofs`): `StoredQueuesAreFetched`, for any number of workers, targets,
queues, threads and jobs, if one thread of the program makes and assigns (`OneCaller`) and
makes no worker in the place of a running thread (`Patient`). Both are needed:
`MCWorkerPool` with two users breaks the property, and so does a worker that is moved to the
place of a thread that has read `m_queueCount` of the old one. The targets below `m_queueCount` are
stored and stay, through shutdowns and new beginnings, because a place gets a new worker only
when every thread that looks there has found the old one retired.

Fairness: threads of workers are never blocked but by a wait; a user ends
what it has begun. Nothing makes a user begin anything.

Not modelled: the callbacks `run_on_enable` and `run_on_disable`, the sleep timer, and
`work_until_ready` and `wait_until_ready`, whose loops end as soon as the job is
enabled, even if it still has dependencies (`job_impl.cpp:184`).

## 11. thread_local_member

`ThreadLocalMember` has what the objects of one type share (`s_container`: the array
of instance constructors, the swap array it grows through, the counter of
iterations, the pool of indices) and what each thread has (`t_container`: its
values in `items`, and in `seen` the iteration up to which it has looked). An object
is made in `Construct`, the growth of the array (`GrowLoad` to `GrowEnd`), the stores
to both arrays until they stay what they are (`StoreLoad` to `CheckActive`), `Count` and
`SetIteration`; one that is destroyed stores a null pointer the same way and gives
its index back. `Get` refreshes the values of the thread only for an object that
is younger than all it has seen. `used` remembers which values a thread has had in
its hands, so that a value made anew is told from the one it should find.

| run | bounds | shows |
|---|---|---|
| `thread_local` | 2 threads, 2 objects; indices are used again and the array grows twice | a thread finds its own value of the object, as it left it; the loops end |
| `MCTlmOwn` | 3 threads, each with an object of its own | a constructor is lost, see below |
| `MCTlmConcurrent` | 2 threads, 3 objects, made at the same time and used by both | an object is never refreshed for, see below |

`Programs` says how the program uses objects, and each behaviour is one of them:
it makes them one at a time (`serial`), or a thread uses only those it made
(`own`), or neither (`any`). With two threads the first two are safe, and
with three objects too (4.8 and 2.5 million states up to symmetry).

**Lost when growing.** Threads a, b and c make their first objects. b, which needs
room for two, has copied the array to the swap array; c, which needs room for
three, replaces the swap array; a stores its constructor in the array in use and in
the new swap array, sees that both are still there, and is done; b publishes
the old swap array. The constructor of a is not in it, and `get` throws
(`MCTlmOwn`). **Seen out of order.** The iteration of an object is counted and
written after its constructor is in the arrays. A thread that refreshes for a
younger object in between passes over the entry, and will never look again
(`MCTlmConcurrent`).

Fairness: a thread inside a call goes on; nothing makes it begin one. Objects are
made once, so arrays grow finitely often: `CallsReturn` says that no loop waits for
what nobody will do. An entry and the iteration of its constructor are read in one
step, as the comment of `RefreshEntry` justifies. Not modelled: the nodes of the
index pool, which is a stack here; allocators; values whose construction throws.

## 12. concurrent_guard_pool

`GuardPool` has the blocks with their counters (`m_blocks`), the bag of full caches
(`m_fullCaches`), the index that each thread raises around a critical section
(`m_indices`), and what a thread keeps: the rest of the cache it takes items from
(`cache`), the one it fills (`reclaim`) and those that wait for readers (`reclaims`).
`get` is `BeginGet` to `PopAgain`, with `AllocLoad` to `Advance` when a block is needed;
`recycle` is `Recycle`, then `Discard` and `Release` for an item of an outdated block, or
`Scan` (one index per step), `Evaluate` and `Reclaim`. The program around it is that of the
priority queue, cut down to one place, `cell`: items are gotten outside of critical
sections, and published, read, taken out and recycled inside. `m_fullCaches` is a set, and a pop of
it fails only when it is empty: one that fails without need would make `get` allocate a
block early.

| run | bounds | shows |
|---|---|---|
| `guard_pool` | 2 threads, blocks of 2 and 4 items, caches of 1, 3 critical sections | an item that a thread reads is not handed out before it leaves; an item is in one place, and the counters of blocks are exact |
| `MCGuardPoolBlocks`, `MCGuardPoolFence`, `MCGuardPoolReset` | blocks of 2, 4 and 8 items, 6 sections | see below |

The pool outgrows its first block after two items, so items of the outdated block
are discarded while others are still recycled. Three sections let one thread be
inside while the other takes out the item, leaves and comes back; four give the
same result (2.6 million states), and so do caches of two items. `Threads` are
interchangeable.

Three disagreements. **Freed under a reader**: `discard_item` does not look at
`m_indices`; the last item of an outdated block frees it while a thread that is
inside may still read that item (`MCGuardPoolBlocks`). **Store and fence**: the index is
stored relaxed, with an acquire fence behind; with a store buffer per thread
(`BufferedSpec`) the section reads before others see the index, and what it reads is
handed out (`MCGuardPoolFence`). **Reset**: `unsafe_reset` leaves the caches of the
threads, which hold items of blocks that are gone (`MCGuardPoolReset`).

**Proved** (`GuardPoolProofs`), for any number of threads and blocks, caches of one item or
two, and stores that are seen at once: `ReadersAreGuarded` and `PlacesAreUnique`. An item is in one place at
a time. What a thread has read is in `cell`, or the thread that took it out keeps it: a
cache that it is in waits for the reader, whose index is odd and the one that was loaded
until it leaves, and what is pushed for `get` waits for nobody. `ItemsAreKept`: `livingItems`
is the number of items of the block that are somewhere (`Conserved`), since only
`Discard` takes one away, and counts it down in the same step; a block is released when none is
left, so no item is lost or outlives its block. `unsafe_reset` is not among the steps of
`Spec` (it is in `ResetSpec`), because of the disagreement above.

No liveness is claimed: caches that wait for readers are looked at only when
the thread recycles again, and `get` then allocates instead. Not modelled: the queue
of empty caches, rows of several items, and the end of a thread, which loses
what it has cached.

## 13. What is proved, what is only checked

TLAPS checks every theorem from the assumptions named in the modules
(`DependencyAssumption`, `SharedPtrAssumption`, `BatchAssumption`, `QueueAssumption`, the
`PoolAssumption` of `GuardPool` and that of `WorkerPool`, `RowsAssumption` of
`GuardPool`, `ThreadsAssumption`, `HashesAssumption`, `BucketsAssumption` and
`SettledAssumption` of `UnorderedMap`, and `KeysAssumption`, `HeightAssumption`, `NodesAssumption` of
`ConcurrentMap`), and from what a theorem itself assumes, in these:

- `ReadersAreGuarded`, `PlacesAreUnique`, `ItemsAreKept`: stores are seen at once
  (`~StoreBuffers`; with store buffers the first fails, section 12).
- `StoredQueuesAreFetched`: one thread of the program makes workers and assigns queues, and
  none in the place of a thread that still runs (section 10).
- `OnlyFindBackStrands`, `OnlyFindBackReorders`: no `find_back` is overtaken by a producer.
- `OnlyTheCopyMiscounts`, `OnlyTheCopyBreaksTheTable`: a copy brings every item and no
  erased one; the second also that items are erased when all threads have seen the
  last array.

The last four restrict the executions, because others break what the code promises, as
`MCQueueFifo`, `MCUnorderedMapGrowth` and `MCUnorderedMapErase` show: they say that the faults
which sections 5 and 9 describe are the only ones.

| part | proved for every value of the constants | only model-checked |
|---|---|---|
| job graph | all safety, the refinement of `JobOrder` | liveness |
| atomic_shared_ptr | all safety, the refinement of `SharedObjects` | liveness |
| concurrent_map | all safety, the refinement of `OrderedMap` | liveness |
| concurrent_queue | `ReservationsExact`, `TakesItsItem`; `NothingStranded` and the refinement of `PerProducerFifo` up to the race of `find_back` | liveness |
| batch jobs | all safety | liveness |
| concurrent_guard_pool | all safety of `Spec` (no store buffers, no `unsafe_reset`) | |
| concurrent_unordered_map | `OldArraysFrozen`; `SizeExact` and the refinement of `HashTable` up to the copy | |
| workers | `FetchesStored` | liveness |
| concurrent_priority_queue | | everything |
| thread_local_member | | everything |

Liveness under fairness is out of the prover's reach. What `concurrent_priority_queue`
promises rests on versions that come round and are compared by a range
(`in_range`): it holds while no thread sleeps through half of them, which is a bound on
behaviours and not an invariant of a step, so its properties have no inductive form for
every value of the constants. `OwnValue` of `thread_local_member` fails where members
are used in ways that section 11 lists. Where a proof needs an induction over data, over a chain
of buffers or the buckets of an array, it is an argument about the least counterexample, since the
induction theorems of the library cannot be instantiated.
The `TypeOK` of a module that no run lists documents the types of its state.

## 14. Not modelled

- Memory orderings weaker than sequential consistency, but for the store buffers
  of `MCGuardPoolFence`. Where the code relies on
  more than that is a hazard in `PROJECT.json` with a note.
- The wrap-around of the 12-bit version of an `atomic_shared_ptr`, and the overflow
  of `m_dependencies` when a job has more dependencies than its half of the
  counter: counters are bounded below both.
- Exceptions, but for what an assignment that throws would do to the queue,
  which is a hazard with a note.
- The growth of the array of producer slots, and the object and scratch pools: next
  in the plan. The models take of the pools that a block has one owner.
  `PriorityQueue` takes of the guard pool that a node is not handed out while a
  thread that could see it is inside, which `GuardPool` shows for nodes, and not for
  the memory of a block that is outgrown.
- `packed_ptr` and `atomic_128`: wrappers of one instruction, which the models take
  as atomic. `delegate`, `small_vector`, `type_traits` and `thread` are sequential
  helpers and wrappers of the operating system.
- The statistics of jobs, `WIP` (experiments), testers, and the viewer in C#.
