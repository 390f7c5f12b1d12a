--------------------------- MODULE AtomicSharedPtr ---------------------------
(***************************************************************************)
(* The reference counts of atomic_shared_ptr.h.                            *)
(*                                                                         *)
(* A control block counts references, and one word of an atomic_shared_ptr *)
(* (or of a shared_ptr) stands for many of them: its top byte says how     *)
(* many.  A load takes one of the references of the word with a single     *)
(* fetch_sub, and when few are left the loading thread buys new ones from  *)
(* the control block and puts them in the word.  Whoever replaces the word *)
(* gives back, or takes over, the references it then holds.                *)
(*                                                                         *)
(* The model has one atomic_shared_ptr and, for each thread, two variables *)
(* that the operations of the class work with: a shared_ptr `own` (what    *)
(* is stored) and an `expected` (what was loaded, a shared_ptr with refs   *)
(* above zero or a raw_ptr with none).  Each action is one atomic access   *)
(* and the local work after it.                                            *)
(***************************************************************************)
EXTENDS Integers, FiniteSets

CONSTANTS
  Threads,
  Objects,               \* control blocks; a destroyed one may be allocated again
  Versions,              \* number of versions of the word (MaxVersion + 1)
  DefaultLocalRefs,      \* the references a full word stands for (255)
  LocalRefFillBoundary,  \* a load that leaves fewer fills the word up (112)
  MaxInstalls,           \* bound: how often the program begins to replace the word
  Null

\* "Also, the maximum number of concurrently accessing threads" is what the
\* source says of the boundary.  No version comes round again.
ASSUME SharedPtrAssumption ==
  /\ IsFiniteSet(Threads)
  /\ Versions \in Nat /\ MaxInstalls \in Nat /\ MaxInstalls < Versions
  /\ DefaultLocalRefs \in Nat /\ LocalRefFillBoundary \in Nat
  /\ Cardinality(Threads) <= LocalRefFillBoundary
  /\ LocalRefFillBoundary <= DefaultLocalRefs
  /\ Null \notin Objects

VARIABLES
  m_storage,   \* the word of the atomic_shared_ptr
  m_useCount,  \* m_useCount[o]: the counter of control block o
  alive,       \* the control blocks that are not destroyed
  own,         \* own[t]: the shared_ptr that t stores or was given
  expected,    \* expected[t]: the pointer that t loaded and compares with
  pc,          \* how far thread t is in an operation
  op,          \* the operation that installs own[t]
  word,        \* the word that t read last and expects in m_storage
  loaded,      \* the pointer that a load of t took one reference for
  added,       \* the references that t bought and has not put in the word
  installs     \* how often a replacement was begun

vars == <<m_storage, m_useCount, alive, own, expected, pc, op, word, loaded, added, installs>>

Pointers == Objects \cup {Null}
Words == [cb : Pointers, version : 0 .. Versions - 1, refs : 0 .. DefaultLocalRefs]

\* The version of a shared_ptr matters only where it is compared with.
SharedPtrs == [cb : Pointers, refs : 0 .. DefaultLocalRefs]

\* store, exchange, and compare_exchange_strong with a raw_ptr or a shared_ptr.
Ops == {"store", "exchange", "raw", "shared"}

(***************************************************************************)
(* The program counters:                                                   *)
(*   idle                                                                  *)
(*   incref, fill, decref   in the loop of try_fill_local_refs             *)
(*   receive                a load is over, expected is to be assigned     *)
(*   begin, install         before and in the loop of a replacement        *)
(*   capture                it failed, and expected is to be loaded        *)
(*   drop                   the replaced word's references are given back  *)
(***************************************************************************)
Pcs == {"idle", "incref", "fill", "decref", "receive", "begin", "install", "capture", "drop"}

EmptyWord == [cb |-> Null, version |-> 0, refs |-> 0]
EmptyPtr == [cb |-> Null, refs |-> 0]

\* Equality of the bits of VersionedCbMask: pointer and version.
SamePointer(a, b) == a.cb = b.cb /\ a.version = b.version

\* fetch_sub on the top byte of a word, whose largest value is that of a full
\* word, wraps at zero.
OneLess(w) == [w EXCEPT !.refs = IF @ = 0 THEN DefaultLocalRefs ELSE @ - 1]

\* The counters after o's was raised by n; a null pointer has no counter.
Raised(o, n) == IF o = Null THEN m_useCount ELSE [m_useCount EXCEPT ![o] = @ + n]
Lowered(o, n) == Raised(o, 0 - n)

\* An operation of t is over.
Finish(t) ==
  /\ pc' = [pc EXCEPT ![t] = "idle"]
  /\ op' = [op EXCEPT ![t] = "none"]

-----------------------------------------------------------------------------

Init ==
  /\ m_storage = [EmptyWord EXCEPT !.refs = DefaultLocalRefs]
  /\ m_useCount = [o \in Objects |-> 0]
  /\ alive = {}
  /\ own = [t \in Threads |-> EmptyPtr]
  /\ expected = [t \in Threads |-> EmptyWord]
  /\ pc = [t \in Threads |-> "idle"]
  /\ op = [t \in Threads |-> "none"]
  /\ word = [t \in Threads |-> EmptyWord]
  /\ loaded = [t \in Threads |-> EmptyWord]
  /\ added = [t \in Threads |-> 0]
  /\ installs = 0

\* make_shared, or a shared_ptr that claims an object.
MakeShared(t, o) ==
  /\ pc[t] = "idle"
  /\ own[t].cb = Null
  /\ o \notin alive
  /\ alive' = alive \cup {o}
  /\ m_useCount' = [m_useCount EXCEPT ![o] = DefaultLocalRefs]
  /\ own' = [own EXCEPT ![t] = [cb |-> o, refs |-> DefaultLocalRefs]]
  /\ UNCHANGED <<m_storage, expected, pc, op, word, loaded, added, installs>>

\* A thread copies its shared_ptr into that of another thread.
CopyTo(t, u) ==
  /\ pc[t] = "idle" /\ pc[u] = "idle"
  /\ own[t].cb # Null /\ own[u].cb = Null
  /\ m_useCount' = Raised(own[t].cb, DefaultLocalRefs)
  /\ own' = [own EXCEPT ![u] = [own[t] EXCEPT !.refs = DefaultLocalRefs]]
  /\ UNCHANGED <<m_storage, alive, expected, pc, op, word, loaded, added, installs>>

\* own = std::move(expected), where expected is a shared_ptr.
MoveExpected(t) ==
  /\ pc[t] = "idle"
  /\ own[t].cb = Null
  /\ expected[t].refs > 0
  /\ own' = [own EXCEPT ![t] = [cb |-> expected[t].cb, refs |-> expected[t].refs]]
  /\ expected' = [expected EXCEPT ![t] = EmptyWord]
  /\ UNCHANGED <<m_storage, m_useCount, alive, pc, op, word, loaded, added, installs>>

\* The destructor of a shared_ptr gives back all the references of its word.
ReleaseOwn(t) ==
  /\ pc[t] = "idle"
  /\ own[t].cb # Null
  /\ m_useCount' = Lowered(own[t].cb, own[t].refs)
  /\ own' = [own EXCEPT ![t] = EmptyPtr]
  /\ UNCHANGED <<m_storage, alive, expected, pc, op, word, loaded, added, installs>>

ReleaseExpected(t) ==
  /\ pc[t] = "idle"
  /\ expected[t].refs > 0
  /\ m_useCount' = Lowered(expected[t].cb, expected[t].refs)
  /\ expected' = [expected EXCEPT ![t] = EmptyWord]
  /\ UNCHANGED <<m_storage, alive, own, pc, op, word, loaded, added, installs>>

\* get_raw_ptr: pointer and version, no reference.
ReadRaw(t) ==
  /\ pc[t] = "idle"
  /\ expected[t].refs = 0
  /\ expected' = [expected EXCEPT ![t] = [m_storage EXCEPT !.refs = 0]]
  /\ UNCHANGED <<m_storage, m_useCount, alive, own, pc, op, word, loaded, added, installs>>

\* copy_internal: one reference of the word becomes this thread's.
TakeReference(t) ==
  /\ m_storage' = OneLess(m_storage)
  /\ word' = [word EXCEPT ![t] = OneLess(m_storage)]
  /\ loaded' = [loaded EXCEPT ![t] = [m_storage EXCEPT !.refs = 1]]
  /\ pc' = [pc EXCEPT ![t] =
              IF OneLess(m_storage).refs < LocalRefFillBoundary THEN "incref" ELSE "receive"]

Load(t) ==
  /\ pc[t] = "idle"
  /\ expected[t].refs = 0
  /\ TakeReference(t)
  /\ UNCHANGED <<m_useCount, alive, own, expected, op, added, installs>>

\* Mutant: as many as were missing before this thread took its reference.
BuyReferences_OneShort(t) ==
  /\ pc[t] = "incref"
  /\ added' = [added EXCEPT ![t] = DefaultLocalRefs - word[t].refs - 1]
  /\ m_useCount' = Raised(loaded[t].cb, DefaultLocalRefs - word[t].refs - 1)
  /\ pc' = [pc EXCEPT ![t] = "fill"]
  /\ UNCHANGED <<m_storage, alive, own, expected, op, word, loaded, installs>>

\* try_fill_local_refs: buy the references that the word is short of.
BuyReferences(t) ==
  /\ pc[t] = "incref"
  /\ added' = [added EXCEPT ![t] = DefaultLocalRefs - word[t].refs]
  /\ m_useCount' = Raised(loaded[t].cb, DefaultLocalRefs - word[t].refs)
  /\ pc' = [pc EXCEPT ![t] = "fill"]
  /\ UNCHANGED <<m_storage, alive, own, expected, op, word, loaded, installs>>

\* try_fill_local_refs: put them in the word, if it is the word that was read.
FillWord(t) ==
  /\ pc[t] = "fill"
  /\ IF m_storage = word[t]
     THEN /\ m_storage' = [m_storage EXCEPT !.refs = DefaultLocalRefs]
          /\ added' = [added EXCEPT ![t] = 0]
          /\ pc' = [pc EXCEPT ![t] = "receive"]
          /\ UNCHANGED word
     ELSE /\ word' = [word EXCEPT ![t] = m_storage]
          /\ pc' = [pc EXCEPT ![t] = "decref"]
          /\ UNCHANGED <<m_storage, added>>
  /\ UNCHANGED <<m_useCount, alive, own, expected, op, loaded, installs>>

\* compare_exchange_weak may fail although the word is the expected one.
FillFailsSpuriously(t) ==
  /\ pc[t] = "fill"
  /\ word' = [word EXCEPT ![t] = m_storage]
  /\ pc' = [pc EXCEPT ![t] = "decref"]
  /\ UNCHANGED <<m_storage, m_useCount, alive, own, expected, op, loaded, added, installs>>

\* Mutant: a thread whose exchange failed leaves the refill to others.
SellReferences_GivesUp(t) ==
  /\ pc[t] = "decref"
  /\ m_useCount' = Lowered(loaded[t].cb, added[t])
  /\ added' = [added EXCEPT ![t] = 0]
  /\ pc' = [pc EXCEPT ![t] = "receive"]
  /\ UNCHANGED <<m_storage, alive, own, expected, op, word, loaded, installs>>

\* try_fill_local_refs: give them back, and start over as long as the word
\* holds the same pointer and is still short.
SellReferences(t) ==
  /\ pc[t] = "decref"
  /\ m_useCount' = Lowered(loaded[t].cb, added[t])
  /\ added' = [added EXCEPT ![t] = 0]
  /\ pc' = [pc EXCEPT ![t] =
              IF SamePointer(word[t], loaded[t]) /\ word[t].refs < LocalRefFillBoundary
              THEN "incref" ELSE "receive"]
  /\ UNCHANGED <<m_storage, alive, own, expected, op, word, loaded, installs>>

\* The shared_ptr that was loaded is assigned to expected, whose former value
\* is destroyed.  A null pointer has no references.
Receive(t) ==
  /\ pc[t] = "receive"
  /\ m_useCount' = Lowered(expected[t].cb, expected[t].refs)
  /\ expected' = [expected EXCEPT ![t] =
                    [loaded[t] EXCEPT !.refs = IF loaded[t].cb = Null THEN 0 ELSE @]]
  /\ loaded' = [loaded EXCEPT ![t] = EmptyWord]
  /\ word' = [word EXCEPT ![t] = EmptyWord]
  /\ Finish(t)
  /\ UNCHANGED <<m_storage, alive, own, added, installs>>

\* Mutant: a shared_ptr with few references is stored as it is.
Begin_NoFill(t, o) ==
  /\ pc[t] = "idle"
  /\ installs < MaxInstalls
  /\ o = "raw" => expected[t].refs = 0
  /\ o = "shared" => (expected[t].refs > 0 \/ expected[t].cb = Null)
  /\ own' = own
  /\ m_useCount' = m_useCount
  /\ op' = [op EXCEPT ![t] = o]
  /\ pc' = [pc EXCEPT ![t] = "begin"]
  /\ installs' = installs + 1
  /\ UNCHANGED <<m_storage, alive, expected, word, loaded, added>>

\* Mutant: the shared_ptr is filled up without telling the control block.
Begin_NoCount(t, o) ==
  /\ pc[t] = "idle"
  /\ installs < MaxInstalls
  /\ o = "raw" => expected[t].refs = 0
  /\ o = "shared" => (expected[t].refs > 0 \/ expected[t].cb = Null)
  /\ own' = [own EXCEPT ![t].refs = IF @ < LocalRefFillBoundary THEN DefaultLocalRefs ELSE @]
  /\ m_useCount' = m_useCount
  /\ op' = [op EXCEPT ![t] = o]
  /\ pc' = [pc EXCEPT ![t] = "begin"]
  /\ installs' = installs + 1
  /\ UNCHANGED <<m_storage, alive, expected, word, loaded, added>>

\* store, exchange and compare_exchange_strong (whose expected is a raw_ptr or
\* a shared_ptr) first fill up the shared_ptr that is to be installed.
Begin(t, o) ==
  /\ pc[t] = "idle"
  /\ installs < MaxInstalls
  /\ o = "raw" => expected[t].refs = 0
  /\ o = "shared" => (expected[t].refs > 0 \/ expected[t].cb = Null)
  /\ IF own[t].refs < LocalRefFillBoundary
     THEN /\ own' = [own EXCEPT ![t].refs = DefaultLocalRefs]
          /\ m_useCount' = Raised(own[t].cb, DefaultLocalRefs - own[t].refs)
     ELSE UNCHANGED <<own, m_useCount>>
  /\ op' = [op EXCEPT ![t] = o]
  /\ pc' = [pc EXCEPT ![t] = "begin"]
  /\ installs' = installs + 1
  /\ UNCHANGED <<m_storage, alive, expected, word, loaded, added>>

\* Read the word.  A compare_exchange takes only its count of references and
\* the rest from what the caller expects.
ReadWord(t) ==
  /\ pc[t] = "begin"
  /\ word' = [word EXCEPT ![t] =
                IF op[t] \in {"store", "exchange"} THEN m_storage
                ELSE [expected[t] EXCEPT !.refs = m_storage.refs]]
  /\ pc' = [pc EXCEPT ![t] = "install"]
  /\ UNCHANGED <<m_storage, m_useCount, alive, own, expected, op, loaded, added, installs>>

\* compare_exchange_weak_internal: the new word carries the next version.
\* exchange takes the references of the old word over, the others drop them.
Install(t) ==
  /\ pc[t] = "install"
  /\ m_storage = word[t]
  /\ m_storage' = [cb |-> own[t].cb,
                   version |-> (word[t].version + 1) % Versions,
                   refs |-> own[t].refs]
  /\ IF op[t] = "exchange"
     THEN /\ own' = [own EXCEPT ![t] =
                       IF word[t].cb = Null THEN EmptyPtr
                       ELSE [cb |-> word[t].cb, refs |-> word[t].refs]]
          /\ word' = [word EXCEPT ![t] = EmptyWord]
          /\ Finish(t)
     ELSE /\ own' = [own EXCEPT ![t] = EmptyPtr]
          /\ pc' = [pc EXCEPT ![t] = "drop"]
          /\ UNCHANGED <<word, op>>
  /\ UNCHANGED <<m_useCount, alive, expected, loaded, added, installs>>

\* The exchange failed with the same pointer in the word (another thread took
\* a reference, or it failed spuriously), or a store or exchange failed in any
\* way: try again with the word that was found.
Retry(t) ==
  /\ pc[t] = "install"
  /\ op[t] \in {"raw", "shared"} => SamePointer(m_storage, word[t])
  /\ word' = [word EXCEPT ![t] = m_storage]
  /\ UNCHANGED <<m_storage, m_useCount, alive, own, expected, pc, op, loaded, added, installs>>

\* A compare_exchange that finds another pointer or version fails; a raw
\* expected then holds what was found ...
FailRaw(t) ==
  /\ pc[t] = "install" /\ op[t] = "raw"
  /\ ~ SamePointer(m_storage, word[t])
  /\ expected' = [expected EXCEPT ![t] = [m_storage EXCEPT !.refs = 0]]
  /\ word' = [word EXCEPT ![t] = EmptyWord]
  /\ Finish(t)
  /\ UNCHANGED <<m_storage, m_useCount, alive, own, loaded, added, installs>>

\* ... and for a shared expected it goes on to load (cas_flag_capture_on_failure).
FailCapture(t) ==
  /\ pc[t] = "install" /\ op[t] = "shared"
  /\ ~ SamePointer(m_storage, word[t])
  /\ pc' = [pc EXCEPT ![t] = "capture"]
  /\ UNCHANGED <<m_storage, m_useCount, alive, own, expected, op, word, loaded, added, installs>>

Capture(t) ==
  /\ pc[t] = "capture"
  /\ TakeReference(t)
  /\ UNCHANGED <<m_useCount, alive, own, expected, op, added, installs>>

\* Mutant: the references of the word that a store replaced are forgotten.
DropReplaced_Not(t) ==
  /\ pc[t] = "drop"
  /\ word' = [word EXCEPT ![t] = EmptyWord]
  /\ Finish(t)
  /\ UNCHANGED <<m_storage, m_useCount, alive, own, expected, loaded, added, installs>>

\* The references that the replaced word held are given back.
DropReplaced(t) ==
  /\ pc[t] = "drop"
  /\ m_useCount' = Lowered(word[t].cb, word[t].refs)
  /\ word' = [word EXCEPT ![t] = EmptyWord]
  /\ Finish(t)
  /\ UNCHANGED <<m_storage, alive, own, expected, loaded, added, installs>>

\* decref that brings the counter to zero goes on to destroy().
Destroy(o) ==
  /\ o \in alive
  /\ m_useCount[o] = 0
  /\ alive' = alive \ {o}
  /\ UNCHANGED <<m_storage, m_useCount, own, expected, pc, op, word, loaded, added, installs>>

-----------------------------------------------------------------------------

\* A thread that is inside an operation goes on.
Fill(t) == FillWord(t) \/ FillFailsSpuriously(t)

Continue(t) ==
  \/ BuyReferences(t)
  \/ Fill(t)
  \/ SellReferences(t)
  \/ Receive(t)
  \/ ReadWord(t)
  \/ Install(t)
  \/ Retry(t)
  \/ FailRaw(t)
  \/ FailCapture(t)
  \/ Capture(t)
  \/ DropReplaced(t)

Next ==
  \/ \E t \in Threads :
       \/ \E o \in Objects : MakeShared(t, o)
       \/ \E u \in Threads : CopyTo(t, u)
       \/ MoveExpected(t)
       \/ ReleaseOwn(t)
       \/ ReleaseExpected(t)
       \/ ReadRaw(t)
       \/ Load(t)
       \/ \E o \in Ops : Begin(t, o)
       \/ Continue(t)
  \/ \E o \in Objects : Destroy(o)

\* Threads inside an operation go on, and a compare_exchange_weak does not
\* fail spuriously for ever.
Fairness ==
  /\ \A t \in Threads : WF_vars(Continue(t)) /\ SF_vars(FillWord(t))
  /\ \A o \in Objects : WF_vars(Destroy(o))

SafeSpec == Init /\ [][Next]_vars
Spec == SafeSpec /\ Fairness

-----------------------------------------------------------------------------

\* Every word holds a pointer, a version and a count of references in range,
\* and no control block counts below zero.
TypeOK ==
  /\ m_storage \in Words
  /\ m_useCount \in [Objects -> Nat]
  /\ alive \in SUBSET Objects
  /\ own \in [Threads -> SharedPtrs]
  /\ expected \in [Threads -> Words]
  /\ pc \in [Threads -> Pcs]
  /\ op \in [Threads -> Ops \cup {"none"}]
  /\ word \in [Threads -> Words]
  /\ loaded \in [Threads -> Words]
  /\ added \in [Threads -> 0 .. DefaultLocalRefs]
  /\ installs \in 0 .. MaxInstalls

RefsIn(w, o) == IF w.cb = o THEN w.refs ELSE 0

\* Who has references: the word, and of each thread its two pointers, a load it
\* has not delivered, what it bought for the word and a replaced word.
Holders ==
  {<<"m_storage", Null>>} \cup ({"own", "expected", "loaded", "added", "word"} \X Threads)

\* How many references to o the holder h has.
RefsOf(h, o) ==
  LET t == h[2]
  IN CASE h[1] = "m_storage" -> RefsIn(m_storage, o)
       [] h[1] = "own"       -> RefsIn(own[t], o)
       [] h[1] = "expected"  -> RefsIn(expected[t], o)
       [] h[1] = "loaded"    -> RefsIn(loaded[t], o)
       [] h[1] = "added"     -> IF loaded[t].cb = o THEN added[t] ELSE 0
       [] h[1] = "word"      -> IF pc[t] = "drop" THEN RefsIn(word[t], o) ELSE 0

\* The references to o, each of them the n-th of the one who has it.
References(o) == {r \in Holders \X (1 .. DefaultLocalRefs) : r[2] <= RefsOf(r[1], o)}

\* The counter of a control block is at every step the number of references
\* that the words hold for it, however the threads are interleaved: nothing
\* is destroyed under a user, and nothing is leaked.
UseCountExact == \A o \in Objects : m_useCount[o] = Cardinality(References(o))

Filling(t) == pc[t] \in {"incref", "fill", "decref"}

\* The comment on LocalRefFillBoundary: as long as no more threads than that
\* use the pointer, a thread that comes to load (or to take the word away)
\* finds a reference in it, so the byte never wraps below zero.
ReferenceLeft == (\E t \in Threads : ~ Filling(t)) => m_storage.refs > 0

\* The objects that t's shared_ptrs refer to, an undelivered load included.
HeldBy(t) ==
  {o \in Objects : RefsIn(own[t], o) > 0 \/ RefsIn(expected[t], o) > 0 \/ RefsIn(loaded[t], o) > 0}

Shared == INSTANCE SharedObjects WITH
  cell <- m_storage.cb,
  held <- [t \in Threads |-> HeldBy(t)]

\* Whatever the counts do, what users see is SharedObjects: above all, no
\* object is destroyed while the atomic_shared_ptr or a shared_ptr refers to it.
KeepsObjects == Shared!SharedSpec

\* An object that nothing refers to any more is destroyed.
Reclaimed ==
  \A o \in Objects : (o \in alive /\ ~ Shared!Referenced(o)) ~> (o \notin alive)

\* A word that runs short of references is filled up again, whichever of the
\* loading threads does it.
WordRefills ==
  (m_storage.refs < LocalRefFillBoundary) ~> (m_storage.refs >= LocalRefFillBoundary)
=============================================================================
