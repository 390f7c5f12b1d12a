------------------------- MODULE UnorderedMapProofs -------------------------
(***************************************************************************)
(* An array that concurrent_unordered_map has replaced stays as it was     *)
(* left, for any number of threads, any hashes and any sizes of the table. *)
(*                                                                         *)
(* Three things keep it so.  The buckets a thread has passed while it      *)
(* disposes an array are disposed, and an array is replaced by a thread    *)
(* that has passed them all.  A bucket is only replaced if it is the one   *)
(* that was read, and that one was not disposed.  Erase leaves the flag,   *)
(* and clear, which does not, runs when no thread disposes anything, and   *)
(* only on the array in m_items.                                           *)
(*                                                                         *)
(* From this, m_size counts the items: none is put into an array that was  *)
(* replaced, and none is moved while it is only in its bucket.  And every  *)
(* operation takes effect at one instant.  A key is in one bucket, the     *)
(* first on its way that had room for it, so a search that stops at an     *)
(* empty bucket has passed no bucket with its key, and a search for a key  *)
(* that was there when it began still has it ahead.                        *)
(*                                                                         *)
(* What is left to the copy of an array is a condition of the last two     *)
(* theorems, CopiesAll.                                                    *)
(***************************************************************************)
EXTENDS UnorderedMap, FiniteSetTheorems, FunctionTheorems, SequenceTheorems, TLAPS

Flags == {"valid", "disposed", "deleted"}
BucketValues == [hash : Hashes \cup {0}, flags : SUBSET Flags]
ArraysOf(n) == [0 .. n - 1 -> BucketValues]
Counts == Nat \ {0}
Array == UNION {ArraysOf(n) : n \in Counts}
Growth == [from : Nat, to : Nat, caller : {"none", "reserve", "grow_buckets"}]
Places == {"idle", "insert", "swap", "count", "refresh", "grow", "reserve", "dispose",
           "grown", "find", "miss", "forward", "backward"}

LocalsTyped ==
  /\ pc \in [Threads -> Places]
  /\ hash \in [Threads -> Hashes \cup {0}]
  /\ probe \in [Threads -> Int]
  /\ expected \in [Threads -> BucketValues]
  /\ growing \in [Threads -> Growth]

ResultsTyped ==
  /\ found \in [Threads -> Hashes \cup {0}]
  /\ inserted \in [Threads -> BOOLEAN]
  /\ absent \in [Threads -> BOOLEAN]

ArraysTyped == arrays \in Seq(Array) /\ m_items \in Counts

Typed ==
  /\ ArraysTyped
  /\ m_size \in Int
  /\ tl \in [Threads -> Nat]
  /\ LocalsTyped
  /\ ResultsTyped

\* The buckets a thread has passed are disposed.
Passed(t) == \A i \in DOMAIN arrays[growing[t].from] :
               i < probe[t] => Disposed(arrays[growing[t].from][i])

\* What a thread relies on.
AtWork(t) ==
  /\ tl[t] \in 1 .. m_items
  /\ pc[t] = "swap" => ~Disposed(expected[t])
  /\ pc[t] \in {"reserve", "dispose"} => growing[t].to # 0
  /\ pc[t] = "dispose" => /\ growing[t].from \in 1 .. m_items
                          /\ probe[t] \in Nat
                          /\ Passed(t)

Inv == Typed /\ OldArraysFrozen /\ \A t \in Threads : AtWork(t)

-----------------------------------------------------------------------------
(***************************************************************************)
(* Arrays.                                                                 *)
(***************************************************************************)
LEMMA ArrayShape ==
  ASSUME NEW a \in Array
  PROVE  /\ Size(a) \in Counts
         /\ DOMAIN a = 0 .. Size(a) - 1
         /\ \A i \in DOMAIN a : a[i] \in BucketValues
         /\ a \in ArraysOf(Size(a))
<1>1. PICK n \in Counts : a \in ArraysOf(n)
  BY DEF Array
<1>2. DOMAIN a = 0 .. n - 1 /\ \A i \in DOMAIN a : a[i] \in BucketValues
  BY <1>1 DEF ArraysOf
<1>3. n \in Nat /\ n > 0
  BY DEF Counts
<1>4. Cardinality(0 .. n - 1) = n
  BY <1>3, FS_Interval
<1>5. Size(a) = n
  BY <1>2, <1>4 DEF Size
<1> QED BY <1>1, <1>2, <1>5

LEMMA AnArray ==
  ASSUME NEW n \in Counts, NEW a \in ArraysOf(n)
  PROVE  a \in Array
BY DEF Array

LEMMA EmptyIsABucket == Empty \in BucketValues
BY DEF Empty, BucketValues, Flags

LEMMA FilledIsABucket ==
  ASSUME NEW h \in Hashes \cup {0}
  PROVE  Filled(h) \in BucketValues
BY DEF Filled, BucketValues, Flags

LEMMA NewIsAnArray ==
  ASSUME NEW n \in Counts
  PROVE  NewArray(n) \in Array
<1>1. NewArray(n) \in ArraysOf(n)
  BY EmptyIsABucket DEF NewArray, ArraysOf
<1> QED BY <1>1, AnArray

LEMMA RegrownIsAnArray ==
  ASSUME NEW a, NEW n \in Counts
  PROVE  Regrown(a, n) \in Array
<1>1. \A h : h \in Hashes => Filled(h) \in BucketValues
  BY FilledIsABucket
<1>2. Regrown(a, n) \in ArraysOf(n)
  BY <1>1, EmptyIsABucket, Zenon DEF Regrown, ArraysOf
<1> QED BY <1>2, AnArray

\* A slot is a bucket of the array, whatever the probe is.
LEMMA SlotInRange ==
  ASSUME NEW n \in Counts, NEW h \in Int, NEW p \in Int
  PROVE  Slot(n, h, p) \in 0 .. n - 1
<1>1. p * p \in Int /\ -(p * p) \in Int
  OBVIOUS
<1>2. PICK d \in Int : d = h + (IF p % 2 = 0 THEN p * p ELSE -(p * p))
  BY <1>1
<1>3. n \in Nat /\ n > 0
  BY DEF Counts
<1>4. d % n \in 0 .. n - 1
  BY <1>3
<1> QED BY <1>2, <1>4 DEF Slot

-----------------------------------------------------------------------------
(***************************************************************************)
(* One bucket is replaced.                                                 *)
(***************************************************************************)
WithBucket(all, c, i, b) == [all EXCEPT ![c][i] = b]

\* What a thread may do to the buckets of the arrays there are.
StayDisposed(all, new) ==
  /\ Len(new) = Len(all)
  /\ \A a \in 1 .. Len(all) :
       /\ DOMAIN new[a] = DOMAIN all[a]
       /\ \A i \in DOMAIN all[a] : Disposed(all[a][i]) => Disposed(new[a][i])

LEMMA BucketReplaced ==
  ASSUME NEW all \in Seq(Array), NEW c \in 1 .. Len(all), NEW i \in DOMAIN all[c],
         NEW b \in BucketValues,
         Disposed(all[c][i]) => Disposed(b)
  PROVE  /\ WithBucket(all, c, i, b) \in Seq(Array)
         /\ StayDisposed(all, WithBucket(all, c, i, b))
         /\ WithBucket(all, c, i, b)[c][i] = b
<1>1. PICK new : new = WithBucket(all, c, i, b)
  OBVIOUS
<1>2. all[c] \in Array
  BY ElementOfSeq
<1>3. PICK n \in Counts : all[c] \in ArraysOf(n)
  BY <1>2, ArrayShape
<1>4. PICK x : x = [all[c] EXCEPT ![i] = b]
  OBVIOUS
<1>5. x \in ArraysOf(n) /\ DOMAIN x = DOMAIN all[c] /\ x[i] = b
      /\ \A j \in DOMAIN all[c] : j # i => x[j] = all[c][j]
  BY <1>3, <1>4 DEF ArraysOf
<1>6. x \in Array
  BY <1>5, AnArray
<1>7. new = [all EXCEPT ![c] = x]
  BY <1>1, <1>4 DEF WithBucket
<1>8. new \in Seq(Array) /\ Len(new) = Len(all) /\ new[c] = x
      /\ \A a \in 1 .. Len(all) : a # c => new[a] = all[a]
  BY <1>6, <1>7, ExceptSeq
<1>9. ASSUME NEW a \in 1 .. Len(all)
      PROVE  /\ DOMAIN new[a] = DOMAIN all[a]
             /\ \A j \in DOMAIN all[a] : Disposed(all[a][j]) => Disposed(new[a][j])
  BY <1>5, <1>8, a = c \/ a # c
<1> QED BY <1>1, <1>5, <1>8, <1>9 DEF StayDisposed

LEMMA BucketThere ==
  ASSUME ArraysTyped, NEW a \in 1 .. m_items
  PROVE  /\ arrays[a] \in Array
         /\ Size(arrays[a]) \in Counts
         /\ DOMAIN arrays[a] = 0 .. Size(arrays[a]) - 1
         /\ \A i \in DOMAIN arrays[a] : arrays[a][i] \in BucketValues
<1>1. arrays[a] \in Array
  BY ElementOfSeq DEF ArraysTyped, m_items
<1> QED BY <1>1, ArrayShape

\* The bucket a search is at exists.
LEMMA HereInRange ==
  ASSUME Typed, NEW t \in Threads, AtWork(t)
  PROVE  /\ tl[t] \in 1 .. m_items
         /\ bucketCount(t) \in Counts
         /\ Here(t) \in DOMAIN arrays[tl[t]]
         /\ Bucket(t) \in BucketValues
<1>1. tl[t] \in 1 .. m_items
  BY DEF AtWork
<1>2. ArraysTyped /\ hash[t] \in Hashes \cup {0} /\ probe[t] \in Int
  BY DEF Typed, LocalsTyped
<1>3. hash[t] \in Int
  BY <1>2, HashesAssumption
<1>4. /\ Size(arrays[tl[t]]) \in Counts
      /\ DOMAIN arrays[tl[t]] = 0 .. Size(arrays[tl[t]]) - 1
      /\ \A i \in DOMAIN arrays[tl[t]] : arrays[tl[t]][i] \in BucketValues
  BY <1>1, <1>2, BucketThere
<1>5. bucketCount(t) = Size(arrays[tl[t]])
  BY DEF bucketCount, Buckets
<1>6. Here(t) \in 0 .. Size(arrays[tl[t]]) - 1
  BY <1>2, <1>3, <1>4, <1>5, SlotInRange DEF Here
<1> QED BY <1>1, <1>4, <1>5, <1>6 DEF Bucket, Buckets

-----------------------------------------------------------------------------
(***************************************************************************)
(* The local steps.                                                        *)
(***************************************************************************)
LEMMA ReturnTyped ==
  ASSUME LocalsTyped, NEW t \in Threads, Return(t)
  PROVE  LocalsTyped' /\ pc'[t] = "idle" /\ (\A u \in Threads \ {t} : pc'[u] = pc[u])
<1>1. Empty \in BucketValues /\ NoGrowth \in Growth
  BY EmptyIsABucket DEF NoGrowth, Growth
<1> QED BY <1>1 DEF LocalsTyped, Return, Places

LEMMA SearchTyped ==
  ASSUME LocalsTyped, hash' \in [Threads -> Hashes \cup {0}],
         NEW t \in Threads, NEW how \in Places, Search(t, how)
  PROVE  LocalsTyped' /\ pc'[t] = how
<1>1. Empty \in BucketValues /\ NoGrowth \in Growth
  BY EmptyIsABucket DEF NoGrowth, Growth
<1> QED BY <1>1 DEF LocalsTyped, Search

LEMMA GotoTyped ==
  ASSUME LocalsTyped, NEW t \in Threads, NEW where \in Places, Goto(t, where)
  PROVE  LocalsTyped' /\ pc'[t] = where
BY DEF LocalsTyped, Goto

\* A step of one thread leaves the others alone.
Others(t) ==
  \A u \in Threads \ {t} :
    /\ tl'[u] = tl[u] /\ pc'[u] = pc[u] /\ probe'[u] = probe[u]
    /\ expected'[u] = expected[u] /\ growing'[u] = growing[u]

LEMMA OthersReturn ==
  ASSUME LocalsTyped, NEW t \in Threads, Return(t), \A u \in Threads \ {t} : tl'[u] = tl[u]
  PROVE  Others(t)
BY DEF LocalsTyped, Return, Others

LEMMA OthersSearch ==
  ASSUME LocalsTyped, NEW t \in Threads, NEW how, Search(t, how),
         \A u \in Threads \ {t} : tl'[u] = tl[u]
  PROVE  Others(t)
BY DEF LocalsTyped, Search, Others

LEMMA OthersGoto ==
  ASSUME LocalsTyped, NEW t \in Threads, NEW where, Goto(t, where),
         \A u \in Threads \ {t} : tl'[u] = tl[u]
  PROVE  Others(t)
BY DEF LocalsTyped, Goto, Others

-----------------------------------------------------------------------------
(***************************************************************************)
(* What a step leaves as it was.                                           *)
(***************************************************************************)
LEMMA NothingDisposed ==
  ASSUME arrays' = arrays
  PROVE  StayDisposed(arrays, arrays')
BY DEF StayDisposed

\* Frozen arrays stay frozen, and the others go on, when disposed buckets stay so.
LEMMA OthersGoOn ==
  ASSUME Inv, NEW t \in Threads, Others(t), StayDisposed(arrays, arrays')
  PROVE  OldArraysFrozen' /\ \A u \in Threads \ {t} : AtWork(u)'
<1>1. /\ m_items' = m_items /\ m_items \in Nat
      /\ \A a \in 1 .. m_items :
           /\ DOMAIN arrays'[a] = DOMAIN arrays[a]
           /\ \A i \in DOMAIN arrays[a] : Disposed(arrays[a][i]) => Disposed(arrays'[a][i])
  BY DEF StayDisposed, m_items, Inv, Typed, ArraysTyped, Counts
<1>2. OldArraysFrozen'
  BY <1>1 DEF OldArraysFrozen, Inv
<1>3. ASSUME NEW u \in Threads \ {t}
      PROVE  AtWork(u)'
  <2>1. AtWork(u) /\ tl'[u] = tl[u] /\ pc'[u] = pc[u] /\ probe'[u] = probe[u]
        /\ expected'[u] = expected[u] /\ growing'[u] = growing[u]
    BY DEF Inv, Others
  <2>2. /\ tl'[u] \in 1 .. m_items'
        /\ pc'[u] = "swap" => ~Disposed(expected'[u])
        /\ pc'[u] \in {"reserve", "dispose"} => growing'[u].to # 0
    BY <1>1, <2>1 DEF AtWork
  <2>3. ASSUME pc'[u] = "dispose"
        PROVE  /\ growing'[u].from \in 1 .. m_items'
               /\ probe'[u] \in Nat
               /\ Passed(u)'
    <3>1. growing[u].from \in 1 .. m_items /\ probe[u] \in Nat /\ Passed(u)
      BY <2>1, <2>3 DEF AtWork
    <3>2. PICK c \in 1 .. m_items : c = growing[u].from
      BY <3>1
    <3>3. \A i \in DOMAIN arrays[c] : i < probe[u] => Disposed(arrays[c][i])
      BY <3>1, <3>2 DEF Passed
    <3>4. \A i \in DOMAIN arrays'[c] : i < probe[u] => Disposed(arrays'[c][i])
      BY <1>1, <3>3
    <3>5. growing'[u].from = c
      BY <2>1, <3>2
    <3> QED BY <1>1, <2>1, <3>1, <3>4, <3>5 DEF Passed
  <2> QED BY <2>2, <2>3 DEF AtWork
<1> QED BY <1>2, <1>3

LEMMA BucketStep ==
  ASSUME Inv, NEW t \in Threads, Others(t), StayDisposed(arrays, arrays'), Typed', AtWork(t)'
  PROVE  Inv'
<1>1. OldArraysFrozen' /\ \A u \in Threads \ {t} : AtWork(u)'
  BY OthersGoOn
<1> QED BY <1>1 DEF Inv

\* Most steps leave the arrays alone.
LEMMA QuietStep ==
  ASSUME Inv, NEW t \in Threads, Others(t), UNCHANGED <<arrays, m_size>>,
         tl' \in [Threads -> Nat], LocalsTyped', ResultsTyped', AtWork(t)'
  PROVE  Inv'
<1>1. Typed'
  BY DEF Inv, Typed, ArraysTyped, m_items
<1> QED BY <1>1, NothingDisposed, BucketStep

\* Outside these places a thread relies on nothing but its array.
LEMMA AtRest ==
  ASSUME NEW t \in Threads, arrays' = arrays, tl'[t] \in 1 .. m_items,
         pc'[t] \notin {"swap", "reserve", "dispose"}
  PROVE  AtWork(t)'
BY DEF AtWork, m_items

LEMMA ResultsKept ==
  ASSUME Inv, UNCHANGED results
  PROVE  ResultsTyped'
BY DEF Inv, Typed, ResultsTyped, results

\* The array a thread knows next.
LEMMA Informed ==
  ASSUME Inv, NEW t \in Threads, tl' = tl \/ tl' = [tl EXCEPT ![t] = m_items]
  PROVE  /\ tl' \in [Threads -> Nat]
         /\ tl'[t] \in 1 .. m_items
         /\ \A u \in Threads \ {t} : tl'[u] = tl[u]
BY DEF Inv, Typed, ArraysTyped, Counts, AtWork

-----------------------------------------------------------------------------
(***************************************************************************)
(* The steps that leave the arrays alone.                                  *)
(***************************************************************************)
LEMMA CallSteps ==
  ASSUME Inv, NEW t \in Threads, Insert(t) \/ Find(t)
  PROVE  Inv'
<1>1. /\ LocalsTyped /\ ResultsTyped
      /\ UNCHANGED <<arrays, m_size, tl>>
  BY DEF Inv, Typed, Insert, Find
<1>2. PICK how \in {"insert", "find"} : Search(t, how)
  BY DEF Insert, Find
<1>3. hash' \in [Threads -> Hashes \cup {0}] /\ ResultsTyped'
  <2>1. hash' \in [Threads -> Hashes \cup {0}]
    BY <1>1 DEF Insert, Find, LocalsTyped
  <2>2. NoResult(t)
    BY DEF Insert, Find
  <2>3. absent' \in [Threads -> BOOLEAN]
    BY <1>1 DEF Insert, Find, ResultsTyped
  <2> QED
    BY <1>1, <2>1, <2>2, <2>3 DEF NoResult, ResultsTyped
<1>4. how \in Places /\ how \notin {"swap", "reserve", "dispose"}
  BY <1>2 DEF Places
<1>5. LocalsTyped' /\ pc'[t] = how
  BY <1>1, <1>2, <1>3, <1>4, SearchTyped
<1>6. tl' \in [Threads -> Nat] /\ tl'[t] \in 1 .. m_items /\ \A u \in Threads \ {t} : tl'[u] = tl[u]
  BY <1>1, Informed
<1>7. Others(t)
  BY <1>1, <1>2, <1>6, OthersSearch
<1>8. AtWork(t)'
  BY <1>1, <1>4, <1>5, <1>6, AtRest
<1> QED BY <1>1, <1>3, <1>5, <1>6, <1>7, <1>8, QuietStep

\* A thread returns to the program.
LEMMA ReturnSteps ==
  ASSUME Inv, NEW t \in Threads, Return(t), UNCHANGED <<arrays, m_size>>,
         tl' = tl \/ tl' = [tl EXCEPT ![t] = m_items], ResultsTyped'
  PROVE  Inv'
<1>1. LocalsTyped
  BY DEF Inv, Typed
<1>2. LocalsTyped' /\ pc'[t] = "idle"
  BY <1>1, ReturnTyped
<1>3. tl' \in [Threads -> Nat] /\ tl'[t] \in 1 .. m_items /\ \A u \in Threads \ {t} : tl'[u] = tl[u]
  BY Informed
<1>4. Others(t)
  BY <1>1, <1>3, OthersReturn
<1>5. AtWork(t)'
  BY <1>2, <1>3, AtRest
<1> QED BY <1>2, <1>3, <1>4, <1>5, QuietStep

\* A thread starts its search again.
LEMMA SearchSteps ==
  ASSUME Inv, NEW t \in Threads, NEW how \in {"insert", "find", "count", "grow"}, Search(t, how),
         UNCHANGED <<arrays, m_size>>,
         hash' \in [Threads -> Hashes \cup {0}],
         tl' = tl \/ tl' = [tl EXCEPT ![t] = m_items], ResultsTyped'
  PROVE  Inv'
<1>1. LocalsTyped
  BY DEF Inv, Typed
<1>2. how \in Places /\ how \notin {"swap", "reserve", "dispose"}
  BY DEF Places
<1>3. LocalsTyped' /\ pc'[t] = how
  BY <1>1, <1>2, SearchTyped
<1>4. tl' \in [Threads -> Nat] /\ tl'[t] \in 1 .. m_items /\ \A u \in Threads \ {t} : tl'[u] = tl[u]
  BY Informed
<1>5. Others(t)
  BY <1>1, <1>4, OthersSearch
<1>6. AtWork(t)'
  BY <1>2, <1>3, <1>4, AtRest
<1> QED BY <1>3, <1>4, <1>5, <1>6, QuietStep

\* A thread goes on elsewhere.
LEMMA GotoSteps ==
  ASSUME Inv, NEW t \in Threads, NEW where \in {"refresh", "grow", "miss"}, Goto(t, where),
         UNCHANGED <<arrays, m_size, tl>>, ResultsTyped'
  PROVE  Inv'
<1>1. LocalsTyped
  BY DEF Inv, Typed
<1>2. where \in Places /\ where \notin {"swap", "reserve", "dispose"}
  BY DEF Places
<1>3. LocalsTyped' /\ pc'[t] = where
  BY <1>1, <1>2, GotoTyped
<1>4. tl' \in [Threads -> Nat] /\ tl'[t] \in 1 .. m_items /\ \A u \in Threads \ {t} : tl'[u] = tl[u]
  BY Informed
<1>5. Others(t)
  BY <1>1, <1>4, OthersGoto
<1>6. AtWork(t)'
  BY <1>2, <1>3, <1>4, AtRest
<1> QED BY <1>3, <1>4, <1>5, <1>6, QuietStep

\* A thread only moves to another bucket.
LEMMA ProbeSteps ==
  ASSUME Inv, NEW t \in Threads, NEW p \in Int, probe' = [probe EXCEPT ![t] = p],
         NEW where \in {"insert", "find", "forward", "backward"}, pc' = [pc EXCEPT ![t] = where],
         UNCHANGED <<arrays, m_size, hash, expected, growing, results>>,
         tl' = tl \/ tl' = [tl EXCEPT ![t] = m_items]
  PROVE  Inv'
<1>1. LocalsTyped
  BY DEF Inv, Typed
<1>2. where \in Places /\ where \notin {"swap", "reserve", "dispose"}
  BY DEF Places
<1>3. LocalsTyped' /\ pc'[t] = where
  BY <1>1, <1>2 DEF LocalsTyped
<1>4. tl' \in [Threads -> Nat] /\ tl'[t] \in 1 .. m_items /\ \A u \in Threads \ {t} : tl'[u] = tl[u]
  BY Informed
<1>5. Others(t)
  BY <1>1, <1>4 DEF LocalsTyped, Others
<1>6. AtWork(t)'
  BY <1>2, <1>3, <1>4, AtRest
<1>7. ResultsTyped'
  BY ResultsKept
<1> QED BY <1>3, <1>4, <1>5, <1>6, <1>7, QuietStep

LEMMA StepOfSearch ==
  ASSUME Inv, NEW t \in Threads,
         \/ InsertProbe(t) \/ InsertFails(t) \/ InsertFinds(t) \/ SwapFails(t)
         \/ Refresh(t) \/ FindProbe(t) \/ FindHit(t) \/ FindMiss(t) \/ FindReturns(t) \/ FindAgain(t)
  PROVE  Inv'
<1>0. LocalsTyped /\ ResultsTyped /\ probe[t] + 1 \in Int /\ hash[t] \in Hashes \cup {0}
  BY DEF Inv, Typed, LocalsTyped
<1>1. CASE InsertProbe(t) \/ FindProbe(t)
  <2>1. PICK where \in {"insert", "find"} : pc[t] = where
    BY <1>1 DEF InsertProbe, FindProbe
  <2>2. NextProbe(t)
    BY <1>1 DEF InsertProbe, FindProbe
  <2>3. PICK p \in Int : p = probe[t] + 1
    BY <1>0
  <2>4. pc' = [pc EXCEPT ![t] = where]
    BY <1>0, <2>1, <2>2 DEF NextProbe, LocalsTyped
  <2>5. probe' = [probe EXCEPT ![t] = p]
    BY <2>2, <2>3 DEF NextProbe
  <2>6. UNCHANGED <<arrays, m_size, hash, expected, growing, results>> /\ tl' = tl
    BY <2>2 DEF NextProbe
  <2> QED BY <2>4, <2>5, <2>6, ProbeSteps
<1>2. CASE InsertFails(t) \/ FindMiss(t)
  <2>1. PICK where \in {"refresh", "miss"} : Goto(t, where)
    BY <1>2 DEF InsertFails, FindMiss
  <2>2. UNCHANGED <<arrays, m_size, tl>> /\ UNCHANGED results
    BY <1>2 DEF InsertFails, FindMiss
  <2>3. ResultsTyped'
    BY <2>2, ResultsKept
  <2> QED BY <2>1, <2>2, <2>3, GotoSteps
<1>3. CASE InsertFinds(t) \/ FindHit(t) \/ FindReturns(t)
  <2>1. Return(t) /\ UNCHANGED <<arrays, m_size>> /\ tl' = tl
    BY <1>3 DEF InsertFinds, FindHit, FindReturns
  <2>2. ResultsTyped'
    BY <1>0, <1>3 DEF InsertFinds, FindHit, FindReturns, ResultsTyped
  <2> QED BY <2>1, <2>2, ReturnSteps
<1>4. CASE SwapFails(t)
  <2>1. Search(t, "insert") /\ UNCHANGED <<arrays, m_size>> /\ tl' = tl /\ hash' = hash /\ UNCHANGED results
    BY <1>4 DEF SwapFails
  <2>2. ResultsTyped' /\ hash' \in [Threads -> Hashes \cup {0}]
    BY <1>0, <2>1, ResultsKept DEF LocalsTyped
  <2> QED BY <2>1, <2>2, SearchSteps
<1>5. CASE Refresh(t) /\ tl[t] = m_items
  <2>1. Goto(t, "grow") /\ UNCHANGED <<arrays, m_size, tl>> /\ UNCHANGED results
    BY <1>5 DEF Refresh
  <2>2. ResultsTyped'
    BY <2>1, ResultsKept
  <2> QED BY <2>1, <2>2, GotoSteps
<1>6. CASE (Refresh(t) /\ tl[t] # m_items) \/ FindAgain(t)
  <2>1. PICK how \in {"insert", "find"} : Search(t, how)
    BY <1>6 DEF Refresh, FindAgain
  <2>2. UNCHANGED <<arrays, m_size>> /\ tl' = [tl EXCEPT ![t] = m_items] /\ hash' = hash /\ UNCHANGED results
    BY <1>6 DEF Refresh, FindAgain
  <2>3. ResultsTyped' /\ hash' \in [Threads -> Hashes \cup {0}]
    BY <1>0, <2>2, ResultsKept DEF LocalsTyped
  <2> QED BY <2>1, <2>2, <2>3, SearchSteps
<1> QED BY <1>1, <1>2, <1>3, <1>4, <1>5, <1>6

\* The bucket to be replaced is not disposed.
LEMMA SlotStep ==
  ASSUME Inv, NEW t \in Threads, InsertSlot(t)
  PROVE  Inv'
<1>1. LocalsTyped /\ Typed /\ AtWork(t)
  BY DEF Inv, Typed
<1>2. Bucket(t) \in BucketValues
  BY <1>1, HereInRange
<1>3. PICK b \in BucketValues : b = Bucket(t)
  BY <1>2
<1>4. /\ ~Disposed(b) /\ expected' = [expected EXCEPT ![t] = b]
      /\ pc' = [pc EXCEPT ![t] = "swap"]
      /\ UNCHANGED <<arrays, m_size, tl, hash, probe, growing>> /\ UNCHANGED results
  BY <1>3 DEF InsertSlot
<1>5. LocalsTyped' /\ pc'[t] = "swap" /\ expected'[t] = b
  BY <1>1, <1>4 DEF LocalsTyped, Places
<1>6. tl' \in [Threads -> Nat] /\ tl'[t] \in 1 .. m_items /\ \A u \in Threads \ {t} : tl'[u] = tl[u]
  BY <1>4, Informed
<1>7. Others(t)
  BY <1>1, <1>4, <1>6 DEF LocalsTyped, Others
<1>8. AtWork(t)'
  BY <1>4, <1>5, <1>6 DEF AtWork, m_items
<1>9. ResultsTyped'
  BY <1>4, ResultsKept
<1> QED BY <1>4, <1>5, <1>6, <1>7, <1>8, <1>9, QuietStep

LEMMA CountStep ==
  ASSUME Inv, NEW t \in Threads, Count(t)
  PROVE  Inv'
<1>1. LocalsTyped /\ m_size \in Int
  BY DEF Inv, Typed
<1>2. UNCHANGED <<arrays, tl>> /\ UNCHANGED results /\ m_size' \in Int
  BY <1>1 DEF Count
<1>3. tl' \in [Threads -> Nat] /\ tl'[t] \in 1 .. m_items /\ \A u \in Threads \ {t} : tl'[u] = tl[u]
  BY <1>2, Informed
<1>4. PICK where \in {"idle", "grow"} : LocalsTyped' /\ pc'[t] = where /\ Others(t)
  <2>1. CASE Return(t)
    BY <1>1, <1>3, <2>1, ReturnTyped, OthersReturn
  <2>2. CASE hash' = [hash EXCEPT ![t] = 0] /\ Search(t, "grow")
    <3>1. hash' \in [Threads -> Hashes \cup {0}] /\ "grow" \in Places
      BY <1>1, <2>2 DEF LocalsTyped, Places
    <3> QED BY <1>1, <1>3, <2>2, <3>1, SearchTyped, OthersSearch
  <2> QED BY <2>1, <2>2 DEF Count
<1>5. AtWork(t)'
  BY <1>2, <1>3, <1>4, AtRest
<1>6. ResultsTyped'
  BY <1>2, ResultsKept
<1>7. Typed'
  BY <1>2, <1>3, <1>4, <1>6 DEF Inv, Typed, ArraysTyped, m_items
<1> QED BY <1>2, <1>4, <1>5, <1>7, NothingDisposed, BucketStep

\* An array that has to grow.
LEMMA GrowSteps ==
  ASSUME Inv, NEW t \in Threads, GrowBuckets(t) \/ Grown(t) \/ Reserve(t)
  PROVE  Inv'
<1>1. LocalsTyped /\ Typed /\ AtWork(t) /\ hash[t] \in Hashes \cup {0}
  BY DEF Inv, Typed, LocalsTyped
<1>2. UNCHANGED <<arrays, m_size>> /\ UNCHANGED results
  BY DEF GrowBuckets, Grown, Reserve
<1>3. ResultsTyped'
  BY <1>2, ResultsKept
<1>4. CASE Return(t) /\ (tl' = tl \/ tl' = [tl EXCEPT ![t] = m_items])
  BY <1>2, <1>3, <1>4, ReturnSteps
<1>5. CASE Search(t, "insert") /\ hash' = hash /\ tl' = [tl EXCEPT ![t] = m_items]
  <2>1. hash' \in [Threads -> Hashes \cup {0}]
    BY <1>1, <1>5 DEF LocalsTyped
  <2> QED BY <1>2, <1>3, <1>5, <2>1, SearchSteps
<1>6. ASSUME NEW g \in Growth, g.to # 0, growing' = [growing EXCEPT ![t] = g],
             pc' = [pc EXCEPT ![t] = "reserve"], UNCHANGED <<tl, hash, probe, expected>>
      PROVE  Inv'
  <2>1. LocalsTyped' /\ pc'[t] = "reserve" /\ growing'[t] = g
    BY <1>1, <1>6 DEF LocalsTyped, Places
  <2>2. tl' \in [Threads -> Nat] /\ tl'[t] \in 1 .. m_items /\ \A u \in Threads \ {t} : tl'[u] = tl[u]
    BY <1>6, Informed
  <2>3. Others(t)
    BY <1>1, <1>6, <2>2 DEF LocalsTyped, Others
  <2>4. AtWork(t)'
    BY <1>2, <1>6, <2>1, <2>2 DEF AtWork, m_items
  <2> QED BY <1>2, <1>3, <2>1, <2>2, <2>3, <2>4, QuietStep
<1>7. CASE GrowBuckets(t) /\ tl[t] = m_items
  <2>1. bucketCount(t) \in Counts
    BY <1>1, HereInRange
  <2>2. PICK g : g = [from |-> 0, to |-> 2 * bucketCount(t), caller |-> "grow_buckets"]
    OBVIOUS
  <2>3. g \in Growth /\ g.to # 0
    BY <2>1, <2>2 DEF Growth, Counts
  <2>4. growing' = [growing EXCEPT ![t] = g] /\ pc' = [pc EXCEPT ![t] = "reserve"]
        /\ UNCHANGED <<tl, hash, probe, expected>>
    BY <1>7, <2>2 DEF GrowBuckets
  <2> QED BY <1>6, <2>3, <2>4
<1>8. CASE Reserve(t)
  <2>1. PICK g : g = [from |-> 0, to |-> ReservedBuckets, caller |-> "reserve"]
    OBVIOUS
  <2>2. ReservedBuckets \in Nat /\ ReservedBuckets # 0
    BY BucketsAssumption DEF BucketCounts
  <2>3. g \in Growth /\ g.to # 0
    BY <2>1, <2>2 DEF Growth
  <2>4. growing' = [growing EXCEPT ![t] = g] /\ pc' = [pc EXCEPT ![t] = "reserve"]
        /\ UNCHANGED <<tl, hash, probe, expected>>
    BY <1>8, <2>1 DEF Reserve
  <2> QED BY <1>6, <2>3, <2>4
<1>9. CASE (GrowBuckets(t) /\ tl[t] # m_items) \/ Grown(t)
  BY <1>4, <1>5, <1>9 DEF GrowBuckets, Grown, Retry
<1> QED BY <1>7, <1>8, <1>9

LEMMA IterateStep ==
  ASSUME Inv, NEW t \in Threads, Iterate(t)
  PROVE  Inv'
<1>1. m_items \in 1 .. m_items /\ ArraysTyped
  BY DEF Inv, Typed, ArraysTyped, Counts
<1>2. PICK a : a = arrays[m_items]
  OBVIOUS
<1>3. Size(a) \in Counts /\ DOMAIN a = 0 .. Size(a) - 1
  BY <1>1, <1>2, BucketThere
<1>4. PICK d \in {1, -1} :
        \E i \in IF found[t] = 0 THEN {(Size(a) - 1 + d) % Size(a)}
                                 ELSE {j \in DOMAIN a : a[j].hash = found[t]} :
          /\ probe' = [probe EXCEPT ![t] = i + d]
          /\ pc' = [pc EXCEPT ![t] = IF d = 1 THEN "forward" ELSE "backward"]
  BY <1>2 DEF Iterate
<1>5. PICK i \in IF found[t] = 0 THEN {(Size(a) - 1 + d) % Size(a)}
                                  ELSE {j \in DOMAIN a : a[j].hash = found[t]} :
          /\ probe' = [probe EXCEPT ![t] = i + d]
          /\ pc' = [pc EXCEPT ![t] = IF d = 1 THEN "forward" ELSE "backward"]
  BY <1>4
<1>6. i \in Int
  <2>1. Size(a) \in Nat /\ Size(a) > 0 /\ Size(a) - 1 + d \in Int
    BY <1>3 DEF Counts
  <2>2. (Size(a) - 1 + d) % Size(a) \in Int
    BY <2>1
  <2> QED BY <1>3, <1>5, <2>2
<1>7. PICK p \in Int : p = i + d
  BY <1>6
<1>8. PICK where \in {"forward", "backward"} : where = IF d = 1 THEN "forward" ELSE "backward"
  OBVIOUS
<1>9. probe' = [probe EXCEPT ![t] = p] /\ pc' = [pc EXCEPT ![t] = where]
  BY <1>5, <1>7, <1>8
<1>10. UNCHANGED <<arrays, m_size, hash, expected, growing, results>> /\ tl' = [tl EXCEPT ![t] = m_items]
  BY DEF Iterate
<1> QED BY <1>9, <1>10, ProbeSteps

LEMMA ScanSteps ==
  ASSUME Inv, NEW t \in Threads, ScanNext(t) \/ ScanEnds(t)
  PROVE  Inv'
<1>1. LocalsTyped /\ ResultsTyped /\ ArraysTyped /\ AtWork(t) /\ probe[t] \in Int
  BY DEF Inv, Typed, LocalsTyped
<1>2. CASE ScanNext(t)
  <2>1. PICK where \in {"forward", "backward"} : pc[t] = where
    BY <1>2 DEF ScanNext, Scanning
  <2>2. PICK p \in Int : p = IF where = "forward" THEN probe[t] + 1 ELSE probe[t] - 1
    BY <1>1
  <2>3. probe' = [probe EXCEPT ![t] = p]
    BY <1>2, <2>1, <2>2 DEF ScanNext
  <2>4. pc' = [pc EXCEPT ![t] = where]
    BY <1>1, <1>2, <2>1 DEF ScanNext, LocalsTyped
  <2>5. UNCHANGED <<arrays, m_size, hash, expected, growing, results>> /\ tl' = tl
    BY <1>2 DEF ScanNext
  <2> QED BY <2>3, <2>4, <2>5, ProbeSteps
<1>3. CASE ScanEnds(t)
  <2>1. tl[t] \in 1 .. m_items
    BY <1>1 DEF AtWork
  <2>2. \A i \in DOMAIN Buckets(t) : Buckets(t)[i] \in BucketValues
    BY <1>1, <2>1, BucketThere DEF Buckets
  <2>3. PICK h \in Hashes \cup {0} : h = IF ScannedOut(t) THEN 0 ELSE Buckets(t)[probe[t]].hash
    <3>1. CASE ScannedOut(t)
      BY <3>1
    <3>2. CASE ~ScannedOut(t)
      <4>1. Buckets(t)[probe[t]] \in BucketValues
        BY <2>2, <3>2 DEF ScannedOut
      <4>2. Buckets(t)[probe[t]].hash \in Hashes \cup {0}
        BY <4>1 DEF BucketValues
      <4> QED BY <3>2, <4>2
    <3> QED BY <3>1, <3>2
  <2>4. found' = [found EXCEPT ![t] = h] /\ inserted' = [inserted EXCEPT ![t] = FALSE] /\ absent' = absent
    BY <1>3, <2>3 DEF ScanEnds
  <2>5. ResultsTyped'
    BY <1>1, <2>4 DEF ResultsTyped
  <2>6. Return(t) /\ UNCHANGED <<arrays, m_size>> /\ tl' = tl
    BY <1>3 DEF ScanEnds
  <2> QED BY <2>5, <2>6, ReturnSteps
<1> QED BY <1>2, <1>3

-----------------------------------------------------------------------------
(***************************************************************************)
(* An array is disposed and replaced.                                      *)
(***************************************************************************)
\* No bucket has been passed yet.
LEMMA BeginSteps ==
  ASSUME Inv, NEW t \in Threads, pc[t] \in {"reserve", "dispose"}, BeginDispose(t),
         UNCHANGED <<arrays, m_size, tl, hash, expected, results>>
  PROVE  Inv'
<1>1. LocalsTyped /\ ArraysTyped /\ AtWork(t)
  BY DEF Inv, Typed
<1>2. m_items \in 1 .. m_items /\ m_items \in Nat
  BY <1>1 DEF ArraysTyped, Counts
<1>3. tl' \in [Threads -> Nat] /\ tl'[t] \in 1 .. m_items /\ \A u \in Threads \ {t} : tl'[u] = tl[u]
  BY Informed
<1>4. ResultsTyped'
  BY ResultsKept
<1>5. CASE /\ growing' = [growing EXCEPT ![t].from = m_items]
           /\ probe' = [probe EXCEPT ![t] = 0]
           /\ pc' = [pc EXCEPT ![t] = "dispose"]
  <2>1. /\ growing' \in [Threads -> Growth] /\ growing'[t].from = m_items
        /\ growing'[t].to = growing[t].to
        /\ \A u \in Threads \ {t} : growing'[u] = growing[u]
    BY <1>1, <1>2, <1>5 DEF LocalsTyped, Growth
  <2>2. LocalsTyped' /\ pc'[t] = "dispose" /\ probe'[t] = 0
    BY <1>1, <1>5, <2>1 DEF LocalsTyped, Places
  <2>3. Others(t)
    BY <1>1, <1>3, <1>5, <2>1 DEF LocalsTyped, Others
  <2>4. \A i \in DOMAIN arrays[m_items] : ~(i < 0)
    BY <1>1, <1>2, BucketThere DEF Counts
  <2>5. Passed(t)'
    BY <2>1, <2>2, <2>4 DEF Passed
  <2>6. AtWork(t)'
    BY <1>1, <1>2, <1>3, <2>1, <2>2, <2>5 DEF AtWork, m_items
  <2> QED BY <1>3, <1>4, <2>2, <2>3, <2>6, QuietStep
<1>6. CASE pc' = [pc EXCEPT ![t] = "grown"] /\ UNCHANGED <<growing, probe>>
  <2>1. LocalsTyped' /\ pc'[t] = "grown"
    BY <1>1, <1>6 DEF LocalsTyped, Places
  <2>2. Others(t)
    BY <1>1, <1>3, <1>6 DEF LocalsTyped, Others
  <2>3. AtWork(t)'
    BY <1>3, <2>1, AtRest
  <2> QED BY <1>3, <1>4, <2>1, <2>2, <2>3, QuietStep
<1> QED BY <1>5, <1>6 DEF BeginDispose

LEMMA DisposeStep ==
  ASSUME Inv, NEW t \in Threads, Dispose(t)
  PROVE  Inv'
<1>1. LocalsTyped /\ ArraysTyped /\ AtWork(t) /\ pc[t] = "dispose" /\ m_items \in Nat
  BY DEF Inv, Typed, ArraysTyped, Counts, Dispose
<1>2. growing[t].from \in 1 .. m_items /\ probe[t] \in Nat /\ Passed(t)
  BY <1>1 DEF AtWork
<1>3. PICK c \in 1 .. m_items, p \in Nat : c = growing[t].from /\ p = probe[t]
  BY <1>2
<1>4. p \in DOMAIN arrays[c]
  BY <1>3 DEF Dispose
<1>5. arrays[c][p] \in BucketValues
  BY <1>1, <1>4, BucketThere
<1>6. PICK b : b = [arrays[c][p] EXCEPT !.flags = @ \cup {"disposed"}]
  OBVIOUS
<1>7. b \in BucketValues /\ Disposed(b)
  BY <1>5, <1>6 DEF BucketValues, Flags, Disposed
<1>8. arrays' = WithBucket(arrays, c, p, b)
  BY <1>3, <1>6 DEF Dispose, WithBucket
<1>9. arrays \in Seq(Array) /\ c \in 1 .. Len(arrays)
  BY <1>1, <1>3 DEF ArraysTyped, m_items
<1>10. Disposed(arrays[c][p]) => Disposed(b)
  BY <1>7
<1>11. arrays' \in Seq(Array) /\ StayDisposed(arrays, arrays') /\ arrays'[c][p] = b
  BY <1>4, <1>7, <1>8, <1>9, <1>10, BucketReplaced
<1>12. m_items' = m_items /\ DOMAIN arrays'[c] = DOMAIN arrays[c]
       /\ \A i \in DOMAIN arrays[c] : Disposed(arrays[c][i]) => Disposed(arrays'[c][i])
  BY <1>9, <1>11 DEF StayDisposed, m_items
<1>13. UNCHANGED <<m_size, tl, pc, hash, expected, growing>> /\ UNCHANGED results
       /\ probe' = [probe EXCEPT ![t] = p + 1]
  BY <1>3 DEF Dispose
<1>14. LocalsTyped' /\ probe'[t] = p + 1
  BY <1>1, <1>13 DEF LocalsTyped
<1>15. Others(t)
  BY <1>1, <1>13 DEF LocalsTyped, Others
<1>16. Passed(t)'
  <2>1. \A i \in DOMAIN arrays[c] : i < p => Disposed(arrays[c][i])
    BY <1>2, <1>3 DEF Passed
  <2>2. \A i \in DOMAIN arrays[c] : i \in Int
    BY <1>1, <1>3, BucketThere DEF Counts
  <2>3. \A i \in DOMAIN arrays[c] : i < p + 1 => i < p \/ i = p
    BY <2>2
  <2>4. \A i \in DOMAIN arrays'[c] : i < p + 1 => Disposed(arrays'[c][i])
    BY <1>7, <1>11, <1>12, <2>1, <2>3
  <2>5. growing'[t].from = c
    BY <1>3, <1>13
  <2> QED BY <1>14, <2>4, <2>5 DEF Passed
<1>17. AtWork(t)'
  <2>1. tl'[t] \in 1 .. m_items' /\ growing'[t].to # 0 /\ growing'[t].from \in 1 .. m_items'
        /\ pc'[t] = "dispose" /\ probe'[t] \in Nat
    BY <1>1, <1>2, <1>12, <1>13, <1>14 DEF AtWork
  <2> QED BY <1>16, <2>1 DEF AtWork
<1>18. ResultsTyped'
  BY <1>13, ResultsKept
<1>19. Typed'
  BY <1>11, <1>12, <1>13, <1>14, <1>18 DEF Inv, Typed, ArraysTyped
<1> QED BY <1>11, <1>15, <1>17, <1>19, BucketStep

LEMMA PublishStep ==
  ASSUME Inv, NEW t \in Threads, Publish(t)
  PROVE  Inv'
<1>1. LocalsTyped /\ ArraysTyped /\ AtWork(t) /\ pc[t] = "dispose" /\ m_items \in Nat
  BY DEF Inv, Typed, ArraysTyped, Counts, Publish
<1>2. growing[t].from \in 1 .. m_items /\ probe[t] \in Nat /\ Passed(t)
      /\ growing[t].to # 0 /\ growing[t] \in Growth
  BY <1>1 DEF AtWork, LocalsTyped
<1>3. UNCHANGED <<m_size, tl, hash, expected>> /\ UNCHANGED results
  BY DEF Publish
<1>4. CASE growing[t].from = m_items
  <2>1. PICK n \in Counts : n = growing[t].to
    BY <1>2 DEF Growth, Counts
  <2>2. PICK x : x = Regrown(arrays[m_items], n)
    OBVIOUS
  <2>3. x \in Array
    BY <2>2, RegrownIsAnArray
  <2>4. arrays' = Append(arrays, x) /\ pc' = [pc EXCEPT ![t] = "grown"] /\ UNCHANGED <<growing, probe>>
    BY <1>4, <2>1, <2>2 DEF Publish
  <2>5. /\ arrays' \in Seq(Array) /\ Len(arrays') = Len(arrays) + 1
        /\ \A a \in 1 .. Len(arrays) : arrays'[a] = arrays[a]
    BY <1>1, <2>3, <2>4, AppendProperties DEF ArraysTyped
  <2>6. m_items' = m_items + 1 /\ \A a \in 1 .. m_items : arrays'[a] = arrays[a]
    BY <2>5 DEF m_items
  <2>7. \A i \in DOMAIN arrays[m_items] : Disposed(arrays[m_items][i])
    <3>1. PICK c \in 1 .. m_items : c = m_items /\ c = growing[t].from
      BY <1>2, <1>4
    <3>2. DOMAIN arrays[c] = 0 .. Size(arrays[c]) - 1 /\ Size(arrays[c]) \in Nat
      BY <1>1, <3>1, BucketThere DEF Counts
    <3>3. probe[t] \notin DOMAIN arrays[c]
      BY <3>1 DEF Publish
    <3>4. \A i \in DOMAIN arrays[c] : i < probe[t]
      BY <1>2, <3>2, <3>3
    <3>5. \A i \in DOMAIN arrays[c] : i < probe[t] => Disposed(arrays[c][i])
      BY <1>2, <3>1 DEF Passed
    <3> QED BY <3>1, <3>4, <3>5
  <2>8. OldArraysFrozen'
    <3>1. ASSUME NEW a \in 1 .. m_items' - 1, NEW i \in DOMAIN arrays'[a]
          PROVE  Disposed(arrays'[a][i])
      <4>1. a \in 1 .. m_items /\ arrays'[a] = arrays[a]
        BY <1>1, <2>6
      <4>2. CASE a = m_items
        BY <2>7, <3>1, <4>1, <4>2
      <4>3. CASE a # m_items
        <5>1. a \in 1 .. m_items - 1
          BY <1>1, <4>1, <4>3
        <5> QED BY <3>1, <4>1, <5>1 DEF Inv, OldArraysFrozen
      <4> QED BY <4>2, <4>3
    <3> QED BY <3>1 DEF OldArraysFrozen
  <2>9. LocalsTyped' /\ pc'[t] = "grown"
    BY <1>1, <1>3, <2>4 DEF LocalsTyped, Places
  <2>10. ResultsTyped'
    BY <1>3, ResultsKept
  <2>11. Typed'
    BY <1>1, <1>3, <2>5, <2>6, <2>9, <2>10 DEF Inv, Typed, ArraysTyped, Counts
  <2>12. ASSUME NEW u \in Threads
         PROVE  AtWork(u)'
    <3>1. AtWork(u) /\ tl'[u] = tl[u] /\ probe'[u] = probe[u]
          /\ expected'[u] = expected[u] /\ growing'[u] = growing[u]
      BY <1>3, <2>4 DEF Inv
    <3>2. pc'[u] = pc[u] \/ pc'[u] = "grown"
      BY <1>1, <2>4 DEF LocalsTyped
    <3>3. tl'[u] \in 1 .. m_items'
      BY <1>1, <2>6, <3>1 DEF AtWork
    <3>4. ASSUME pc'[u] = "dispose"
          PROVE  growing'[u].from \in 1 .. m_items' /\ probe'[u] \in Nat /\ Passed(u)'
      <4>1. growing[u].from \in 1 .. m_items /\ probe[u] \in Nat /\ Passed(u)
        BY <3>1, <3>2, <3>4 DEF AtWork
      <4>2. PICK c \in 1 .. m_items : c = growing[u].from
        BY <4>1
      <4>3. arrays'[c] = arrays[c]
        BY <2>6
      <4>4. growing'[u].from = c /\ probe'[u] = probe[u]
        BY <3>1, <4>2
      <4>5. \A i \in DOMAIN arrays[c] : i < probe[u] => Disposed(arrays[c][i])
        BY <4>1, <4>2 DEF Passed
      <4>6. Passed(u)'
        BY <4>3, <4>4, <4>5 DEF Passed
      <4> QED BY <1>1, <2>6, <4>1, <4>4, <4>6
    <3>5. /\ pc'[u] = "swap" => ~Disposed(expected'[u])
          /\ pc'[u] \in {"reserve", "dispose"} => growing'[u].to # 0
      BY <3>1, <3>2 DEF AtWork
    <3> QED BY <3>3, <3>4, <3>5 DEF AtWork
  <2> QED BY <2>8, <2>11, <2>12 DEF Inv
<1>5. CASE growing[t].from # m_items
  BY <1>1, <1>3, <1>5, BeginSteps DEF Publish
<1> QED BY <1>4, <1>5

-----------------------------------------------------------------------------
(***************************************************************************)
(* Items come and go.                                                      *)
(***************************************************************************)
\* What is replaced is what was read, and that was not disposed.
LEMMA SwapStep ==
  ASSUME Inv, NEW t \in Threads, Swap(t)
  PROVE  Inv'
<1>1. LocalsTyped /\ ResultsTyped /\ ArraysTyped /\ Typed /\ AtWork(t) /\ hash[t] \in Hashes \cup {0}
  BY DEF Inv, Typed, LocalsTyped
<1>2. tl[t] \in 1 .. m_items /\ Here(t) \in DOMAIN arrays[tl[t]]
  BY <1>1, HereInRange
<1>3. PICK c \in 1 .. m_items, i \in DOMAIN arrays[tl[t]] : c = tl[t] /\ i = Here(t)
  BY <1>2
<1>4. ~Disposed(arrays[c][i])
  BY <1>1, <1>3 DEF Swap, AtWork, Bucket, Buckets
<1>5. PICK b \in BucketValues : b = Filled(hash[t])
  BY <1>1, FilledIsABucket
<1>6. arrays' = WithBucket(arrays, c, i, b)
  BY <1>3, <1>5 DEF Swap, WithBucket
<1>7. arrays \in Seq(Array) /\ c \in 1 .. Len(arrays) /\ i \in DOMAIN arrays[c]
      /\ (Disposed(arrays[c][i]) => Disposed(b))
  BY <1>1, <1>3, <1>4 DEF ArraysTyped, m_items
<1>8. arrays' \in Seq(Array) /\ StayDisposed(arrays, arrays')
  BY <1>6, <1>7, BucketReplaced
<1>9. m_items' = m_items
  BY <1>8 DEF StayDisposed, m_items
<1>10. UNCHANGED <<m_size, tl, hash, absent>> /\ Search(t, "count")
       /\ found' = [found EXCEPT ![t] = hash[t]] /\ inserted' = [inserted EXCEPT ![t] = TRUE]
  BY DEF Swap
<1>11. LocalsTyped' /\ pc'[t] = "count"
  <2>1. hash' \in [Threads -> Hashes \cup {0}] /\ "count" \in Places
    BY <1>1, <1>10 DEF LocalsTyped, Places
  <2> QED BY <1>1, <1>10, <2>1, SearchTyped
<1>12. Others(t)
  BY <1>1, <1>10, OthersSearch
<1>13. ResultsTyped'
  BY <1>1, <1>10 DEF ResultsTyped
<1>14. AtWork(t)'
  BY <1>2, <1>9, <1>10, <1>11 DEF AtWork
<1>15. Typed'
  BY <1>1, <1>8, <1>9, <1>10, <1>11, <1>13 DEF Inv, Typed, ArraysTyped
<1> QED BY <1>8, <1>12, <1>14, <1>15, BucketStep

\* Erase leaves the flag of the bucket.
LEMMA EraseStep ==
  ASSUME Inv, NEW t \in Threads, UnsafeErase(t)
  PROVE  Inv'
<1>1. LocalsTyped /\ ArraysTyped /\ m_items \in 1 .. m_items /\ m_size \in Int /\ pc[t] = "idle"
  BY DEF Inv, Typed, ArraysTyped, Counts, UnsafeErase, Unsafe
<1>2. PICK c \in 1 .. m_items : c = m_items
  BY <1>1
<1>3. PICK i \in DOMAIN arrays[c] :
        arrays' = [arrays EXCEPT ![c][i].flags = (@ \ {"valid"}) \cup {"deleted"}]
  BY <1>2 DEF UnsafeErase
<1>4. arrays[c][i] \in BucketValues
  BY <1>1, BucketThere
<1>5. PICK b : b = [arrays[c][i] EXCEPT !.flags = (@ \ {"valid"}) \cup {"deleted"}]
  OBVIOUS
<1>6. b \in BucketValues /\ (Disposed(arrays[c][i]) => Disposed(b))
  BY <1>4, <1>5 DEF BucketValues, Flags, Disposed
<1>7. arrays' = WithBucket(arrays, c, i, b)
  BY <1>3, <1>5 DEF WithBucket
<1>8. arrays \in Seq(Array) /\ c \in 1 .. Len(arrays)
  BY <1>1 DEF ArraysTyped, m_items
<1>9. arrays' \in Seq(Array) /\ StayDisposed(arrays, arrays')
  BY <1>6, <1>7, <1>8, BucketReplaced
<1>10. m_items' = m_items
  BY <1>9 DEF StayDisposed, m_items
<1>11. UNCHANGED <<pc, hash, probe, expected, growing>> /\ UNCHANGED results
       /\ tl' = [tl EXCEPT ![t] = m_items] /\ m_size' \in Int
  BY <1>1 DEF UnsafeErase
<1>12. LocalsTyped' /\ ResultsTyped'
  BY <1>1, <1>11, ResultsKept DEF LocalsTyped
<1>13. tl' \in [Threads -> Nat] /\ tl'[t] \in 1 .. m_items /\ \A u \in Threads \ {t} : tl'[u] = tl[u]
  BY <1>11, Informed
<1>14. Others(t)
  BY <1>11, <1>13 DEF Others
<1>15. AtWork(t)'
  BY <1>1, <1>10, <1>11, <1>13 DEF AtWork
<1>16. Typed'
  BY <1>1, <1>9, <1>10, <1>11, <1>12, <1>13 DEF Inv, Typed, ArraysTyped
<1> QED BY <1>9, <1>14, <1>15, <1>16, BucketStep

\* Nobody disposes an array while the one in m_items is cleared.
LEMMA ClearStep ==
  ASSUME Inv, UnsafeClear
  PROVE  Inv'
<1>1. LocalsTyped /\ ResultsTyped /\ ArraysTyped /\ m_items \in 1 .. m_items /\ m_items \in Nat
  BY DEF Inv, Typed, ArraysTyped, Counts
<1>2. PICK x : x = NewArray(Size(arrays[m_items]))
  OBVIOUS
<1>3. x \in Array
  <2>1. Size(arrays[m_items]) \in Counts
    BY <1>1, BucketThere
  <2> QED BY <1>2, <2>1, NewIsAnArray
<1>4. arrays' = [arrays EXCEPT ![m_items] = x] /\ m_size' = 0
      /\ UNCHANGED <<tl, pc, hash, probe, expected, growing>> /\ UNCHANGED results
      /\ \A t \in Threads : pc[t] = "idle"
  BY <1>2 DEF UnsafeClear, Unsafe
<1>5. /\ arrays' \in Seq(Array) /\ Len(arrays') = Len(arrays)
      /\ \A a \in 1 .. Len(arrays) : a # m_items => arrays'[a] = arrays[a]
  BY <1>1, <1>3, <1>4, ExceptSeq DEF ArraysTyped, m_items
<1>6. m_items' = m_items
  BY <1>5 DEF m_items
<1>7. OldArraysFrozen'
  <2>1. ASSUME NEW a \in 1 .. m_items' - 1
        PROVE  arrays'[a] = arrays[a] /\ a \in 1 .. m_items - 1
    BY <1>1, <1>5, <1>6, <2>1 DEF m_items
  <2> QED BY <2>1 DEF OldArraysFrozen, Inv
<1>8. Typed'
  <2>1. LocalsTyped' /\ ResultsTyped'
    BY <1>1, <1>4, ResultsKept DEF LocalsTyped
  <2> QED BY <1>1, <1>4, <1>5, <1>6, <2>1 DEF Inv, Typed, ArraysTyped
<1>9. \A t \in Threads : AtWork(t)'
  BY <1>4, <1>6 DEF Inv, AtWork
<1> QED BY <1>7, <1>8, <1>9 DEF Inv

-----------------------------------------------------------------------------
(***************************************************************************)
(* The invariant.                                                          *)
(***************************************************************************)
LEMMA InvInit == Init => Inv
<1> SUFFICES ASSUME Init
             PROVE  Inv
  OBVIOUS
<1>1. InitialBuckets \in Counts
  BY BucketsAssumption DEF BucketCounts, Counts
<1>2. PICK x : x = NewArray(InitialBuckets)
  OBVIOUS
<1>3. x \in Array /\ arrays = <<x>>
  BY <1>1, <1>2, NewIsAnArray DEF Init
<1>4. ArraysTyped /\ m_items = 1
  BY <1>3 DEF ArraysTyped, m_items, Counts
<1>5. LocalsTyped /\ ResultsTyped
  <2>1. Empty \in BucketValues /\ NoGrowth \in Growth /\ "idle" \in Places
    BY EmptyIsABucket DEF NoGrowth, Growth, Places
  <2> QED BY <2>1 DEF Init, LocalsTyped, ResultsTyped
<1>6. Typed /\ OldArraysFrozen
  BY <1>4, <1>5 DEF Init, Typed, OldArraysFrozen
<1>7. \A t \in Threads : AtWork(t)
  BY <1>4 DEF Init, AtWork
<1> QED BY <1>6, <1>7 DEF Inv

LEMMA InvStep == Inv /\ [Next]_vars => Inv'
<1> SUFFICES ASSUME Inv, [Next]_vars
             PROVE  Inv'
  OBVIOUS
<1>1. CASE UnsafeClear
  BY <1>1, ClearStep
<1>2. ASSUME NEW t \in Threads,
             Insert(t) \/ Find(t) \/ Reserve(t) \/ Iterate(t) \/ UnsafeErase(t) \/ Step(t)
      PROVE  Inv'
  <2>1. CASE Insert(t) \/ Find(t)
    BY <2>1, CallSteps
  <2>2. CASE Reserve(t) \/ GrowBuckets(t) \/ Grown(t)
    BY <2>2, GrowSteps
  <2>3. CASE Iterate(t)
    BY <2>3, IterateStep
  <2>4. CASE UnsafeErase(t)
    BY <2>4, EraseStep
  <2>5. CASE \/ InsertProbe(t) \/ InsertFails(t) \/ InsertFinds(t) \/ SwapFails(t)
             \/ Refresh(t) \/ FindProbe(t) \/ FindHit(t) \/ FindMiss(t) \/ FindReturns(t) \/ FindAgain(t)
    BY <2>5, StepOfSearch
  <2>6. CASE InsertSlot(t)
    BY <2>6, SlotStep
  <2>7. CASE Swap(t)
    BY <2>7, SwapStep
  <2>8. CASE Count(t)
    BY <2>8, CountStep
  <2>9. CASE ReserveInternal(t)
    BY <2>9, BeginSteps DEF ReserveInternal
  <2>10. CASE Dispose(t)
    BY <2>10, DisposeStep
  <2>11. CASE Publish(t)
    BY <2>11, PublishStep
  <2>12. CASE ScanNext(t) \/ ScanEnds(t)
    BY <2>12, ScanSteps
  <2> QED BY <1>2, <2>1, <2>2, <2>3, <2>4, <2>5, <2>6, <2>7, <2>8, <2>9, <2>10, <2>11, <2>12 DEF Step
<1>3. CASE UNCHANGED vars
  BY <1>3 DEF vars, Inv, Typed, ArraysTyped, LocalsTyped, ResultsTyped, OldArraysFrozen, AtWork,
              Passed, m_items
<1> QED BY <1>1, <1>2, <1>3 DEF Next

\* reserve_internal: every bucket of every array that has left m_items is disposed,
\* whatever is inserted, found, erased or cleared by any number of threads, and
\* however often and by whomever the table is grown: nothing can be put into an
\* array that is not the current one.
THEOREM ReplacedArraysStayFrozen == Spec => []OldArraysFrozen
<1>1. Inv => OldArraysFrozen
  BY DEF Inv
<1> QED BY InvInit, InvStep, <1>1, PTL DEF Spec

-----------------------------------------------------------------------------
(***************************************************************************)
(* Counting the items.                                                     *)
(***************************************************************************)
Present(a) == {i \in DOMAIN a : Valid(a[i])}
Counting(where) == {t \in Threads : where[t] = "count"}

\* A bucket is only filled if it had no item when it was read.
FillsEmpty == \A t \in Threads : pc[t] = "swap" => ~Valid(expected[t])

Sized == Inv /\ FillsEmpty /\ SizeExact

LEMMA SizeIs ==
  SizeExact <=> m_size + Cardinality(Counting(pc)) = Cardinality(Present(arrays[m_items]))
BY DEF SizeExact, Counting, Present

LEMMA PresentFinite ==
  ASSUME NEW a \in Array
  PROVE  IsFiniteSet(Present(a)) /\ Cardinality(Present(a)) \in Nat
<1>1. DOMAIN a = 0 .. Size(a) - 1 /\ Size(a) \in Nat
  BY ArrayShape DEF Counts
<1>2. IsFiniteSet(0 .. Size(a) - 1)
  BY <1>1, FS_Interval
<1>3. Present(a) \subseteq 0 .. Size(a) - 1
  BY <1>1 DEF Present
<1>4. IsFiniteSet(Present(a))
  BY <1>2, <1>3, FS_Subset
<1> QED BY <1>4, FS_CardinalityType

LEMMA CountingFinite ==
  ASSUME NEW where
  PROVE  IsFiniteSet(Counting(where)) /\ Cardinality(Counting(where)) \in Nat
<1>1. Counting(where) \subseteq Threads
  BY DEF Counting
<1>2. IsFiniteSet(Counting(where))
  BY <1>1, ThreadsAssumption, FS_Subset
<1> QED BY <1>2, FS_CardinalityType

\* The element that makes the difference between two sets.
LEMMA OneMore ==
  ASSUME NEW S, IsFiniteSet(S), NEW x, x \notin S, NEW T, T = S \cup {x}
  PROVE  Cardinality(T) = Cardinality(S) + 1
BY FS_AddElement

\* The items of an array of which one bucket is replaced.
LEMMA PresentReplaced ==
  ASSUME NEW a \in Array, NEW i \in DOMAIN a, NEW b, NEW x, x = [a EXCEPT ![i] = b]
  PROVE  /\ \A j : j # i => (j \in Present(x) <=> j \in Present(a))
         /\ i \in Present(x) <=> Valid(b)
         /\ i \in Present(a) <=> Valid(a[i])
<1>1. PICK n \in Counts : a \in ArraysOf(n)
  BY ArrayShape
<1>2. DOMAIN x = DOMAIN a /\ x[i] = b /\ \A j \in DOMAIN a : j # i => x[j] = a[j]
  BY <1>1 DEF ArraysOf
<1> QED BY <1>2 DEF Present

LEMMA ItemsStay ==
  ASSUME NEW a \in Array, NEW i \in DOMAIN a, NEW b, NEW x, x = [a EXCEPT ![i] = b],
         Valid(b) <=> Valid(a[i])
  PROVE  Present(x) = Present(a)
<1>1. \A j : j # i => (j \in Present(x) <=> j \in Present(a))
  BY PresentReplaced
<1>2. i \in Present(x) <=> i \in Present(a)
  BY PresentReplaced
<1>3. \A j : j \in Present(x) <=> j \in Present(a)
  BY <1>1, <1>2
<1> QED BY <1>3

LEMMA ItemAdded ==
  ASSUME NEW a \in Array, NEW i \in DOMAIN a, NEW b, NEW x, x = [a EXCEPT ![i] = b],
         Valid(b), ~Valid(a[i])
  PROVE  Cardinality(Present(x)) = Cardinality(Present(a)) + 1
<1>1. \A j : j # i => (j \in Present(x) <=> j \in Present(a))
  BY PresentReplaced
<1>2. i \in Present(x) /\ i \notin Present(a)
  BY PresentReplaced
<1>3. Present(x) = Present(a) \cup {i}
  BY <1>1, <1>2
<1> QED BY <1>2, <1>3, PresentFinite, OneMore

LEMMA ItemRemoved ==
  ASSUME NEW a \in Array, NEW i \in DOMAIN a, NEW b, NEW x, x = [a EXCEPT ![i] = b]
  PROVE  Valid(a[i]) /\ ~Valid(b) =>
           /\ Cardinality(Present(x)) \in Nat
           /\ Cardinality(Present(a)) = Cardinality(Present(x)) + 1
<1>1. /\ \A j : j # i => (j \in Present(x) <=> j \in Present(a))
      /\ i \in Present(x) <=> Valid(b)
      /\ i \in Present(a) <=> Valid(a[i])
  BY PresentReplaced
<1> SUFFICES ASSUME Valid(a[i]), ~Valid(b)
             PROVE  /\ Cardinality(Present(x)) \in Nat
                    /\ Cardinality(Present(a)) = Cardinality(Present(x)) + 1
  OBVIOUS
<1>2. i \in Present(a) /\ i \notin Present(x)
  BY <1>1
<1>3. Present(a) = Present(x) \cup {i}
  BY <1>1, <1>2
<1>4. IsFiniteSet(Present(a))
  BY PresentFinite
<1>5. IsFiniteSet(Present(x))
  BY <1>3, <1>4, FS_Subset
<1> QED BY <1>2, <1>3, <1>5, OneMore, FS_CardinalityType

\* One bucket of the array in m_items is replaced.
LEMMA CurrentReplaced ==
  ASSUME ArraysTyped, NEW i \in DOMAIN arrays[m_items], NEW b \in BucketValues,
         arrays' = WithBucket(arrays, m_items, i, b)
  PROVE  /\ m_items' = m_items
         /\ arrays'[m_items] = [arrays[m_items] EXCEPT ![i] = b]
<1>1. arrays \in Seq(Array) /\ m_items \in 1 .. Len(arrays) /\ m_items = Len(arrays)
  BY DEF ArraysTyped, m_items, Counts
<1>2. PICK c \in 1 .. Len(arrays) : c = m_items
  BY <1>1
<1>3. PICK x : x = [arrays[c] EXCEPT ![i] = b]
  OBVIOUS
<1>4. arrays' = [arrays EXCEPT ![c] = x]
  BY <1>2, <1>3 DEF WithBucket
<1>5. arrays' = [arrays EXCEPT ![c] = x] /\ DOMAIN arrays = 1 .. Len(arrays)
  BY <1>1, <1>4
<1>6. arrays'[c] = x
  BY <1>5
<1>7. Len(arrays') = Len(arrays)
  BY <1>1, <1>4
<1> QED BY <1>2, <1>3, <1>6, <1>7 DEF m_items

\* A bucket of an older array is replaced.
LEMMA OlderReplaced ==
  ASSUME ArraysTyped, NEW c \in 1 .. m_items, c # m_items, NEW i, NEW b,
         arrays' = WithBucket(arrays, c, i, b)
  PROVE  m_items' = m_items /\ arrays'[m_items] = arrays[m_items]
<1>1. arrays \in Seq(Array) /\ m_items \in 1 .. Len(arrays) /\ m_items = Len(arrays)
  BY DEF ArraysTyped, m_items, Counts
<1>2. PICK x : x = [arrays[c] EXCEPT ![i] = b]
  OBVIOUS
<1>3. arrays' = [arrays EXCEPT ![c] = x]
  BY <1>2 DEF WithBucket
<1>4. Len(arrays') = Len(arrays) /\ arrays'[m_items] = arrays[m_items]
  BY <1>1, <1>3
<1> QED BY <1>4 DEF m_items

-----------------------------------------------------------------------------
(***************************************************************************)
(* The steps that do not count.                                            *)
(***************************************************************************)
\* The threads that have filled a bucket and not raised m_size.
LEMMA CountingKept ==
  ASSUME LocalsTyped, NEW t \in Threads, pc[t] # "count", NEW where, where # "count",
         pc' = [pc EXCEPT ![t] = where]
  PROVE  Counting(pc') = Counting(pc)
BY DEF LocalsTyped, Counting

LEMMA UncountedStep ==
  ASSUME Sized, NEW t \in Threads, UNCHANGED <<arrays, m_size>>,
         pc[t] # "count", NEW where, where # "count", pc' = [pc EXCEPT ![t] = where],
         \A u \in Threads \ {t} : expected'[u] = expected[u],
         where = "swap" => ~Valid(expected'[t])
  PROVE  FillsEmpty' /\ SizeExact'
<1>1. LocalsTyped
  BY DEF Sized, Inv, Typed
<1>2. Counting(pc') = Counting(pc)
  BY <1>1, CountingKept
<1>3. pc'[t] = where /\ \A u \in Threads \ {t} : pc'[u] = pc[u]
  BY <1>1 DEF LocalsTyped
<1>4. FillsEmpty'
  BY <1>3 DEF Sized, FillsEmpty
<1>5. m_size' + Cardinality(Counting(pc')) = Cardinality(Present(arrays'[m_items']))
  BY <1>2, SizeIs DEF Sized, m_items
<1>6. SizeExact'
  BY <1>5 DEF SizeExact, Counting, Present
<1> QED BY <1>4, <1>6

LEMMA UncountedReturn ==
  ASSUME Sized, NEW t \in Threads, UNCHANGED <<arrays, m_size>>, pc[t] # "count", Return(t)
  PROVE  FillsEmpty' /\ SizeExact'
<1>1. pc' = [pc EXCEPT ![t] = "idle"] /\ \A u \in Threads \ {t} : expected'[u] = expected[u]
  BY DEF Return, Sized, Inv, Typed, LocalsTyped
<1> QED BY <1>1, UncountedStep

LEMMA UncountedSearch ==
  ASSUME Sized, NEW t \in Threads, UNCHANGED <<arrays, m_size>>, pc[t] # "count",
         NEW how \in {"insert", "find"}, Search(t, how)
  PROVE  FillsEmpty' /\ SizeExact'
<1>1. pc' = [pc EXCEPT ![t] = how] /\ \A u \in Threads \ {t} : expected'[u] = expected[u]
  BY DEF Search, Sized, Inv, Typed, LocalsTyped
<1> QED BY <1>1, UncountedStep

\* The thread keeps the bucket it has read, if any.
LEMMA UncountedMove ==
  ASSUME Sized, NEW t \in Threads, UNCHANGED <<arrays, m_size, expected>>, pc[t] # "count",
         NEW where, where \notin {"swap", "count"}, pc' = [pc EXCEPT ![t] = where]
  PROVE  FillsEmpty' /\ SizeExact'
BY UncountedStep

LEMMA UncountedProbe ==
  ASSUME Sized, UNCHANGED <<arrays, m_size, expected, pc>>
  PROVE  FillsEmpty' /\ SizeExact'
BY DEF Sized, FillsEmpty, SizeExact, m_items

LEMMA UncountedSteps ==
  ASSUME Sized, NEW t \in Threads,
         \/ Insert(t) \/ Find(t) \/ Reserve(t) \/ Iterate(t)
         \/ InsertProbe(t) \/ InsertFails(t) \/ InsertFinds(t) \/ InsertSlot(t) \/ SwapFails(t)
         \/ Refresh(t) \/ GrowBuckets(t) \/ ReserveInternal(t) \/ Grown(t)
         \/ FindProbe(t) \/ FindHit(t) \/ FindMiss(t) \/ FindReturns(t) \/ FindAgain(t)
         \/ ScanNext(t) \/ ScanEnds(t)
  PROVE  FillsEmpty' /\ SizeExact'
<1>1. CASE Insert(t) \/ Find(t) \/ SwapFails(t) \/ FindAgain(t)
  <2>1. pc[t] # "count" /\ UNCHANGED <<arrays, m_size>>
    BY <1>1 DEF Insert, Find, SwapFails, FindAgain
  <2>2. PICK how \in {"insert", "find"} : Search(t, how)
    BY <1>1 DEF Insert, Find, SwapFails, FindAgain
  <2> QED BY <2>1, <2>2, UncountedSearch
<1>2. CASE Reserve(t) \/ InsertFails(t) \/ FindMiss(t)
  <2>1. pc[t] # "count" /\ UNCHANGED <<arrays, m_size, expected>>
    BY <1>2 DEF Reserve, InsertFails, FindMiss, Goto
  <2>2. PICK where \in {"reserve", "refresh", "miss"} : pc' = [pc EXCEPT ![t] = where]
    BY <1>2 DEF Reserve, InsertFails, FindMiss, Goto
  <2> QED BY <2>1, <2>2, UncountedMove
<1>3. CASE Iterate(t)
  <2>1. pc[t] # "count" /\ UNCHANGED <<arrays, m_size, expected>>
    BY <1>3 DEF Iterate
  <2>2. PICK where \in {"forward", "backward"} : pc' = [pc EXCEPT ![t] = where]
    BY <1>3 DEF Iterate
  <2> QED BY <2>1, <2>2, UncountedMove
<1>4. CASE InsertProbe(t) \/ FindProbe(t) \/ ScanNext(t)
  <2>1. UNCHANGED <<arrays, m_size, expected, pc>>
    BY <1>4 DEF InsertProbe, FindProbe, ScanNext, NextProbe
  <2> QED BY <2>1, UncountedProbe
<1>5. CASE InsertFinds(t) \/ FindHit(t) \/ FindReturns(t) \/ ScanEnds(t)
  <2>1. pc[t] # "count" /\ UNCHANGED <<arrays, m_size>> /\ Return(t)
    BY <1>5 DEF InsertFinds, FindHit, FindReturns, ScanEnds, Scanning
  <2> QED BY <2>1, UncountedReturn
<1>6. CASE InsertSlot(t)
  <2>1. pc[t] # "count" /\ UNCHANGED <<arrays, m_size>> /\ pc' = [pc EXCEPT ![t] = "swap"]
    BY <1>6 DEF InsertSlot
  <2>2. expected' = [expected EXCEPT ![t] = Bucket(t)] /\ ~Valid(Bucket(t))
    BY <1>6 DEF InsertSlot
  <2>3. ~Valid(expected'[t]) /\ \A u \in Threads \ {t} : expected'[u] = expected[u]
    BY <2>2 DEF Sized, Inv, Typed, LocalsTyped
  <2> QED BY <2>1, <2>3, UncountedStep
<1>7. CASE Refresh(t)
  <2>1. pc[t] # "count" /\ UNCHANGED <<arrays, m_size>>
    BY <1>7 DEF Refresh
  <2>2. CASE tl[t] = m_items
    <3>1. UNCHANGED expected /\ pc' = [pc EXCEPT ![t] = "grow"]
      BY <1>7, <2>2 DEF Refresh, Goto
    <3> QED BY <2>1, <3>1, UncountedMove
  <2>3. CASE tl[t] # m_items
    <3>1. Search(t, "insert")
      BY <1>7, <2>3 DEF Refresh
    <3> QED BY <2>1, <3>1, UncountedSearch
  <2> QED BY <2>2, <2>3
<1>8. CASE GrowBuckets(t) /\ tl[t] = m_items
  <2>1. pc[t] # "count" /\ UNCHANGED <<arrays, m_size, expected>> /\ pc' = [pc EXCEPT ![t] = "reserve"]
    BY <1>8 DEF GrowBuckets
  <2> QED BY <2>1, UncountedMove
<1>9. CASE (GrowBuckets(t) /\ tl[t] # m_items) \/ Grown(t)
  <2>1. pc[t] # "count" /\ UNCHANGED <<arrays, m_size>>
    BY <1>9 DEF GrowBuckets, Grown
  <2>2. Return(t) \/ Search(t, "insert")
    BY <1>9 DEF GrowBuckets, Grown, Retry
  <2> QED BY <2>1, <2>2, UncountedReturn, UncountedSearch
<1>10. CASE ReserveInternal(t)
  <2>1. pc[t] # "count" /\ UNCHANGED <<arrays, m_size, expected>>
    BY <1>10 DEF ReserveInternal
  <2>2. PICK where \in {"dispose", "grown"} : pc' = [pc EXCEPT ![t] = where]
    BY <1>10 DEF ReserveInternal, BeginDispose
  <2> QED BY <2>1, <2>2, UncountedMove
<1> QED BY <1>1, <1>2, <1>3, <1>4, <1>5, <1>6, <1>7, <1>8, <1>9, <1>10

-----------------------------------------------------------------------------
(***************************************************************************)
(* The steps that do.                                                      *)
(***************************************************************************)
\* An item cannot be put into an array that was replaced, so it is one more in the
\* array in m_items, and one more insert that has not raised m_size.
LEMMA SwapCounts ==
  ASSUME Sized, NEW t \in Threads, Swap(t)
  PROVE  FillsEmpty' /\ SizeExact'
<1>1. /\ LocalsTyped /\ ArraysTyped /\ Typed /\ AtWork(t) /\ hash[t] \in Hashes \cup {0}
      /\ m_size \in Int /\ m_items \in Nat
  BY DEF Sized, Inv, Typed, LocalsTyped, ArraysTyped, Counts
<1>2. tl[t] \in 1 .. m_items /\ Here(t) \in DOMAIN arrays[tl[t]]
  BY <1>1, HereInRange
<1>3. PICK i : i = Here(t)
  OBVIOUS
<1>4. ~Disposed(arrays[tl[t]][i]) /\ ~Valid(arrays[tl[t]][i])
  BY <1>1, <1>3 DEF Swap, AtWork, Bucket, Buckets, Sized, FillsEmpty
<1>5. tl[t] = m_items
  <2>1. SUFFICES ASSUME tl[t] # m_items
                 PROVE  FALSE
    OBVIOUS
  <2>2. tl[t] \in 1 .. m_items - 1
    BY <1>1, <1>2, <2>1
  <2> QED BY <1>2, <1>3, <1>4, <2>2 DEF Sized, Inv, OldArraysFrozen
<1>6. i \in DOMAIN arrays[m_items] /\ ~Valid(arrays[m_items][i])
  BY <1>2, <1>3, <1>4, <1>5
<1>7. PICK b \in BucketValues : b = Filled(hash[t])
  BY <1>1, FilledIsABucket
<1>8. Valid(b)
  BY <1>7 DEF Filled, Valid
<1>9. arrays' = WithBucket(arrays, m_items, i, b)
  BY <1>3, <1>5, <1>7 DEF Swap, WithBucket
<1>10. m_items' = m_items /\ arrays'[m_items] = [arrays[m_items] EXCEPT ![i] = b]
  BY <1>1, <1>6, <1>9, CurrentReplaced
<1>11. PICK a \in Array, x \in {arrays'[m_items]} : a = arrays[m_items]
  BY <1>1, <1>2, BucketThere
<1>12. Cardinality(Present(x)) = Cardinality(Present(a)) + 1
  BY <1>6, <1>8, <1>10, <1>11, ItemAdded
<1>13. pc[t] = "swap" /\ pc' = [pc EXCEPT ![t] = "count"] /\ m_size' = m_size
       /\ \A u \in Threads \ {t} : expected'[u] = expected[u]
  BY <1>1 DEF Swap, Search, LocalsTyped
<1>14. pc'[t] = "count" /\ \A u \in Threads \ {t} : pc'[u] = pc[u]
  BY <1>1, <1>13 DEF LocalsTyped
<1>15. Cardinality(Counting(pc')) = Cardinality(Counting(pc)) + 1
  <2>1. t \notin Counting(pc) /\ Counting(pc') = Counting(pc) \cup {t}
    BY <1>13, <1>14 DEF Counting
  <2> QED BY <2>1, CountingFinite, OneMore
<1>16. FillsEmpty'
  BY <1>13, <1>14 DEF Sized, FillsEmpty
<1>17. m_size + Cardinality(Counting(pc)) = Cardinality(Present(a))
  BY <1>11, SizeIs DEF Sized
<1>18. Cardinality(Counting(pc)) \in Nat /\ Cardinality(Present(a)) \in Nat
  BY CountingFinite, PresentFinite
<1>19. m_size' + Cardinality(Counting(pc')) = Cardinality(Present(arrays'[m_items']))
  BY <1>1, <1>10, <1>11, <1>12, <1>13, <1>15, <1>17, <1>18
<1> QED BY <1>16, <1>19 DEF SizeExact, Counting, Present

LEMMA CountCounts ==
  ASSUME Sized, NEW t \in Threads, Count(t)
  PROVE  FillsEmpty' /\ SizeExact'
<1>1. LocalsTyped /\ m_size \in Int
  BY DEF Sized, Inv, Typed
<1>2. pc[t] = "count" /\ m_size' = m_size + 1 /\ arrays' = arrays
  BY DEF Count
<1>3. PICK where \in {"idle", "grow"} :
        /\ pc' = [pc EXCEPT ![t] = where]
        /\ expected' = [expected EXCEPT ![t] = Empty]
  BY DEF Count, Return, Search
<1>4. pc'[t] = where /\ \A u \in Threads \ {t} : pc'[u] = pc[u] /\ expected'[u] = expected[u]
  BY <1>1, <1>3 DEF LocalsTyped
<1>5. Cardinality(Counting(pc)) = Cardinality(Counting(pc')) + 1
  <2>1. t \notin Counting(pc') /\ Counting(pc) = Counting(pc') \cup {t}
    BY <1>2, <1>4 DEF Counting
  <2> QED BY <2>1, CountingFinite, OneMore
<1>6. Cardinality(Counting(pc')) \in Nat
  BY CountingFinite
<1>7. m_size + Cardinality(Counting(pc)) = Cardinality(Present(arrays[m_items]))
  BY SizeIs DEF Sized
<1>8. m_size' + Cardinality(Counting(pc')) = m_size + Cardinality(Counting(pc))
  BY <1>1, <1>2, <1>5, <1>6
<1>9. m_size' + Cardinality(Counting(pc')) = Cardinality(Present(arrays'[m_items']))
  BY <1>2, <1>7, <1>8 DEF m_items
<1>10. FillsEmpty'
  BY <1>4 DEF Sized, FillsEmpty
<1> QED BY <1>9, <1>10 DEF SizeExact, Counting, Present

\* A flag more or less, but for the one that says that there is an item.
LEMMA DisposeCounts ==
  ASSUME Sized, NEW t \in Threads, Dispose(t)
  PROVE  FillsEmpty' /\ SizeExact'
<1>1. LocalsTyped /\ ArraysTyped /\ AtWork(t) /\ m_items \in Nat
  BY DEF Sized, Inv, Typed, ArraysTyped, Counts
<1>2. growing[t].from \in 1 .. m_items /\ probe[t] \in Nat
  BY <1>1 DEF AtWork, Dispose
<1>3. PICK c \in 1 .. m_items, p \in Nat : c = growing[t].from /\ p = probe[t]
  BY <1>2
<1>4. p \in DOMAIN arrays[c]
  BY <1>3 DEF Dispose
<1>5. arrays[c][p] \in BucketValues
  BY <1>1, <1>4, BucketThere
<1>6. PICK b : b = [arrays[c][p] EXCEPT !.flags = @ \cup {"disposed"}]
  OBVIOUS
<1>7. b \in BucketValues /\ (Valid(b) <=> Valid(arrays[c][p]))
  BY <1>5, <1>6 DEF BucketValues, Flags, Valid
<1>8. arrays' = WithBucket(arrays, c, p, b)
  BY <1>3, <1>6 DEF Dispose, WithBucket
<1>9. UNCHANGED <<m_size, pc, expected>>
  BY DEF Dispose
<1>10. m_items' = m_items /\ Present(arrays'[m_items]) = Present(arrays[m_items])
  <2>1. CASE c = m_items
    <3>1. arrays'[m_items] = [arrays[m_items] EXCEPT ![p] = b] /\ m_items' = m_items
      BY <1>1, <1>4, <1>7, <1>8, <2>1, CurrentReplaced
    <3>2. PICK a \in Array, x \in {arrays'[m_items]} : a = arrays[m_items]
      BY <1>1, <2>1, BucketThere
    <3>3. Present(x) = Present(a)
      BY <1>4, <1>7, <2>1, <3>1, <3>2, ItemsStay
    <3> QED BY <3>1, <3>2, <3>3
  <2>2. CASE c # m_items
    <3>1. m_items' = m_items /\ arrays'[m_items] = arrays[m_items]
      BY <1>1, <1>8, <2>2, OlderReplaced
    <3> QED BY <3>1
  <2> QED BY <2>1, <2>2
<1>11. m_size + Cardinality(Counting(pc)) = Cardinality(Present(arrays[m_items]))
  BY SizeIs DEF Sized
<1>12. m_size' + Cardinality(Counting(pc')) = Cardinality(Present(arrays'[m_items']))
  BY <1>9, <1>10, <1>11
<1>13. FillsEmpty'
  BY <1>9 DEF Sized, FillsEmpty
<1> QED BY <1>12, <1>13 DEF SizeExact, Counting, Present

\* Nobody is between its bucket and m_size when an item is erased.
LEMMA EraseCounts ==
  ASSUME Sized, NEW t \in Threads, UnsafeErase(t)
  PROVE  FillsEmpty' /\ SizeExact'
<1>1. ArraysTyped /\ m_items \in 1 .. m_items /\ m_size \in Int
  BY DEF Sized, Inv, Typed, ArraysTyped, Counts
<1>2. PICK c \in 1 .. m_items : c = m_items
  BY <1>1
<1>3. PICK i \in DOMAIN arrays[c] :
        /\ Valid(arrays[c][i])
        /\ arrays' = [arrays EXCEPT ![c][i].flags = (@ \ {"valid"}) \cup {"deleted"}]
  BY <1>2 DEF UnsafeErase
<1>4. arrays[c][i] \in BucketValues
  BY <1>1, BucketThere
<1>5. PICK b : b = [arrays[c][i] EXCEPT !.flags = (@ \ {"valid"}) \cup {"deleted"}]
  OBVIOUS
<1>6. b \in BucketValues /\ ~Valid(b)
  BY <1>4, <1>5 DEF BucketValues, Flags, Valid
<1>7. arrays' = WithBucket(arrays, m_items, i, b)
  BY <1>2, <1>3, <1>5 DEF WithBucket
<1>8. m_items' = m_items /\ arrays'[m_items] = [arrays[m_items] EXCEPT ![i] = b]
  BY <1>1, <1>2, <1>6, <1>7, CurrentReplaced
<1>9. PICK a \in Array, x \in {arrays'[m_items]} : a = arrays[m_items]
  BY <1>1, BucketThere
<1>10. Cardinality(Present(x)) \in Nat /\ Cardinality(Present(a)) = Cardinality(Present(x)) + 1
  <2>1. i \in DOMAIN a /\ Valid(a[i]) /\ x = [a EXCEPT ![i] = b]
    BY <1>2, <1>3, <1>8, <1>9
  <2> QED BY <1>6, <2>1, ItemRemoved
<1>11. m_size' = m_size - 1 /\ UNCHANGED <<pc, expected>>
  BY DEF UnsafeErase
<1>12. m_size + Cardinality(Counting(pc)) = Cardinality(Present(a))
  BY <1>9, SizeIs DEF Sized
<1>13. Cardinality(Counting(pc)) \in Nat
  BY CountingFinite
<1>14. m_size' + Cardinality(Counting(pc')) = Cardinality(Present(arrays'[m_items']))
  BY <1>1, <1>8, <1>9, <1>10, <1>11, <1>12, <1>13
<1>15. FillsEmpty'
  BY <1>11 DEF Sized, FillsEmpty
<1> QED BY <1>14, <1>15 DEF SizeExact, Counting, Present

LEMMA ClearCounts ==
  ASSUME Sized, UnsafeClear
  PROVE  FillsEmpty' /\ SizeExact'
<1>1. ArraysTyped /\ m_items \in 1 .. m_items
  BY DEF Sized, Inv, Typed, ArraysTyped, Counts
<1>2. PICK x : x = NewArray(Size(arrays[m_items]))
  OBVIOUS
<1>3. arrays' = [arrays EXCEPT ![m_items] = x] /\ m_size' = 0 /\ UNCHANGED <<pc, expected>>
      /\ \A t \in Threads : pc[t] = "idle"
  BY <1>2 DEF UnsafeClear, Unsafe
<1>4. arrays \in Seq(Array) /\ m_items \in 1 .. Len(arrays)
  BY <1>1 DEF ArraysTyped, m_items
<1>5. m_items' = m_items /\ arrays'[m_items] = x
  BY <1>3, <1>4 DEF m_items
<1>6. Present(x) = {} /\ Counting(pc') = {}
  BY <1>2, <1>3 DEF Present, NewArray, Empty, Valid, Counting
<1>7. Cardinality(Present(x)) = 0 /\ Cardinality(Counting(pc')) = 0
  BY <1>6, FS_EmptySet
<1>8. m_size' + Cardinality(Counting(pc')) = Cardinality(Present(arrays'[m_items']))
  BY <1>3, <1>5, <1>7
<1>9. FillsEmpty'
  BY <1>3 DEF FillsEmpty
<1> QED BY <1>8, <1>9 DEF SizeExact, Counting, Present

\* The new array holds as many items as the one it replaces.
CopyCounts ==
  \/ m_items' = m_items
  \/ Cardinality(Present(arrays'[m_items'])) = Cardinality(Present(arrays[m_items]))

LEMMA PublishCounts ==
  ASSUME Sized, NEW t \in Threads, Publish(t), CopyCounts
  PROVE  FillsEmpty' /\ SizeExact'
<1>1. pc[t] = "dispose" /\ UNCHANGED <<m_size, expected>>
  BY DEF Publish
<1>2. CASE growing[t].from = m_items
  <2>1. pc' = [pc EXCEPT ![t] = "grown"] /\ Len(arrays') = Len(arrays) + 1 /\ m_items \in Nat
    <3>1. arrays' = Append(arrays, Regrown(arrays[m_items], growing[t].to))
          /\ pc' = [pc EXCEPT ![t] = "grown"]
      BY <1>2 DEF Publish
    <3>2. arrays \in Seq(Array) /\ m_items \in Nat
      BY DEF Sized, Inv, Typed, ArraysTyped, Counts
    <3> QED BY <3>1, <3>2
  <2>2. LocalsTyped
    BY DEF Sized, Inv, Typed
  <2>3. Counting(pc') = Counting(pc)
    BY <1>1, <2>1, <2>2, CountingKept
  <2>4. m_items' # m_items
    BY <2>1 DEF m_items
  <2>5. Cardinality(Present(arrays'[m_items'])) = Cardinality(Present(arrays[m_items]))
    BY <2>4 DEF CopyCounts
  <2>6. m_size' + Cardinality(Counting(pc')) = Cardinality(Present(arrays'[m_items']))
    BY <1>1, <2>3, <2>5, SizeIs DEF Sized
  <2>7. FillsEmpty'
    BY <1>1, <2>1, <2>2 DEF Sized, FillsEmpty, LocalsTyped
  <2> QED BY <2>6, <2>7 DEF SizeExact, Counting, Present
<1>3. CASE growing[t].from # m_items
  <2>1. UNCHANGED <<arrays, m_size, expected>>
    BY <1>1, <1>3 DEF Publish
  <2>2. PICK where \in {"dispose", "grown"} : pc' = [pc EXCEPT ![t] = where]
    BY <1>1, <1>3 DEF Publish, BeginDispose, Sized, Inv, Typed, LocalsTyped
  <2> QED BY <1>1, <2>1, <2>2, UncountedMove
<1> QED BY <1>2, <1>3

LEMMA SizedInit == Init => Sized
<1> SUFFICES ASSUME Init
             PROVE  Sized
  OBVIOUS
<1>1. Inv
  BY InvInit
<1>2. PICK x : x = NewArray(InitialBuckets)
  OBVIOUS
<1>3. arrays[m_items] = x /\ m_size = 0
  BY <1>2 DEF Init, m_items
<1>4. Present(x) = {} /\ Counting(pc) = {}
  BY <1>2 DEF Init, Present, NewArray, Empty, Valid, Counting
<1>5. Cardinality(Present(x)) = 0 /\ Cardinality(Counting(pc)) = 0
  BY <1>4, FS_EmptySet
<1>6. SizeExact
  BY <1>3, <1>5, SizeIs
<1>7. FillsEmpty
  BY DEF Init, FillsEmpty
<1> QED BY <1>1, <1>6, <1>7 DEF Sized

LEMMA SizedStep == Sized /\ [Next /\ CopyCounts]_vars => Sized'
<1> SUFFICES ASSUME Sized, [Next /\ CopyCounts]_vars
             PROVE  Sized'
  OBVIOUS
<1>1. Inv'
  BY InvStep DEF Sized
<1>2. CASE UnsafeClear
  BY <1>1, <1>2, ClearCounts DEF Sized
<1>3. ASSUME NEW t \in Threads, CopyCounts,
             Insert(t) \/ Find(t) \/ Reserve(t) \/ Iterate(t) \/ UnsafeErase(t) \/ Step(t)
      PROVE  Sized'
  <2>1. CASE UnsafeErase(t)
    BY <1>1, <2>1, EraseCounts DEF Sized
  <2>2. CASE Swap(t)
    BY <1>1, <2>2, SwapCounts DEF Sized
  <2>3. CASE Count(t)
    BY <1>1, <2>3, CountCounts DEF Sized
  <2>4. CASE Dispose(t)
    BY <1>1, <2>4, DisposeCounts DEF Sized
  <2>5. CASE Publish(t)
    BY <1>1, <1>3, <2>5, PublishCounts DEF Sized
  <2>6. CASE ~(UnsafeErase(t) \/ Swap(t) \/ Count(t) \/ Dispose(t) \/ Publish(t))
    <3>1. FillsEmpty' /\ SizeExact'
      BY <1>3, <2>6, UncountedSteps DEF Step
    <3> QED BY <1>1, <3>1 DEF Sized
  <2> QED BY <2>1, <2>2, <2>3, <2>4, <2>5, <2>6
<1>4. CASE UNCHANGED vars
  <2>1. UNCHANGED <<arrays, m_size, expected, pc>>
    BY <1>4 DEF vars
  <2>2. FillsEmpty' /\ SizeExact'
    BY <2>1, UncountedProbe
  <2> QED BY <1>1, <2>2 DEF Sized
<1> QED BY <1>2, <1>3, <1>4 DEF Next

-----------------------------------------------------------------------------
(***************************************************************************)
(* Where the hashes of an array are: each in the first bucket on its way   *)
(* that had room for it.  The copy that replaces an array keeps to this,   *)
(* by induction over the buckets that it has moved.                        *)
(***************************************************************************)
\* A set of numbers has a least one.
LEMMA Least ==
  ASSUME NEW n \in Nat, NEW B, B \subseteq 0 .. n, B # {}
  PROVE  \E m \in B : \A k \in B : m <= k
<1>1. PICK S : S = 0 .. n
  OBVIOUS
<1>2. IsFiniteSet(S)
  BY <1>1, FS_Interval
<1>3. IsWellFoundedOn(StrictSubsetOrdering(S), SUBSET S)
  BY <1>2, FS_StrictSubsetOrderingWellFounded, FS_FiniteSubsetsOfFinite
<1>4. PICK T : T = {0 .. m : m \in B}
  OBVIOUS
<1>5. \A m \in B : m \in Nat /\ m <= n /\ 0 .. m \in SUBSET S
  BY <1>1
<1>6. T \subseteq SUBSET S /\ T # {}
  BY <1>4, <1>5
<1>7. PICK x \in T : \A y \in T : <<y, x>> \notin StrictSubsetOrdering(S)
  BY <1>3, <1>6, WFMin
<1>8. PICK m \in B : x = 0 .. m
  BY <1>4
<1>9. ASSUME NEW k \in B, ~(m <= k)
      PROVE  FALSE
  <2>1. 0 .. k \subseteq 0 .. m /\ m \in 0 .. m /\ m \notin 0 .. k
    BY <1>5, <1>9
  <2>2. <<0 .. k, 0 .. m>> \in StrictSubsetOrdering(S)
    <3>1. 0 .. k # 0 .. m
      BY <2>1
    <3>2. PICK u, v : u = 0 .. k /\ v = 0 .. m
      OBVIOUS
    <3>3. <<u, v>> \in StrictSubsetOrdering(S)
      BY <1>5, <2>1, <3>1, <3>2 DEF StrictSubsetOrdering
    <3> QED BY <3>2, <3>3
  <2>3. 0 .. k \in T
    BY <1>4
  <2> QED BY <1>7, <1>8, <2>2, <2>3
<1> QED BY <1>9


\* The buckets that an item may be put in, and the items of the buckets so far.
Hashings(n) == [0 .. n - 1 -> Hashes \cup {0}]

\* An item lies where a search comes upon it before any empty bucket.
HashesProbed(hashes, n) ==
  \A i \in 0 .. n - 1 : hashes[i] # 0 =>
    \E p \in 0 .. n - 1 :
      /\ Slot(n, hashes[i], p) = i
      /\ \A q \in 0 .. n - 1 : q < p => hashes[Slot(n, hashes[i], q)] \notin {0, hashes[i]}

LEMMA HashIsInt ==
  ASSUME NEW h \in Hashes \cup {0}
  PROVE  h \in Int
BY HashesAssumption

LEMMA HashingShape ==
  ASSUME NEW n \in Counts, NEW hashes \in Hashings(n)
  PROVE  DOMAIN hashes = 0 .. n - 1 /\ Size(hashes) = n
<1>1. DOMAIN hashes = 0 .. n - 1 /\ n \in Nat /\ n > 0
  BY DEF Hashings, Counts
<1>2. Cardinality(0 .. n - 1) = n
  BY <1>1, FS_Interval
<1> QED BY <1>1, <1>2 DEF Size

\* An item is put where its search has come, past nothing but other items.
LEMMA FilledProbed ==
  ASSUME NEW n \in Counts, NEW hashes \in Hashings(n), HashesProbed(hashes, n),
         NEW h \in Hashes, NEW p \in 0 .. n - 1, NEW i, i = Slot(n, h, p), hashes[i] \in {0, h},
         \A q \in 0 .. n - 1 : q < p => hashes[Slot(n, h, q)] \notin {0, h},
         NEW new, new = [hashes EXCEPT ![i] = h]
  PROVE  new \in Hashings(n) /\ HashesProbed(new, n)
<1>1. n \in Nat /\ n > 0 /\ h \in Int /\ h # 0 /\ DOMAIN hashes = 0 .. n - 1
  BY HashesAssumption DEF Counts, Hashings
<1>2. \A q \in 0 .. n - 1 : Slot(n, h, q) \in 0 .. n - 1
  BY <1>1, SlotInRange
<1>3. new \in Hashings(n) /\ new[i] = h /\ \A j \in 0 .. n - 1 : j # i => new[j] = hashes[j]
  BY <1>1, <1>2 DEF Hashings
<1>4. \A j \in 0 .. n - 1 : hashes[j] # 0 => new[j] = hashes[j]
  BY <1>3
<1>5. ASSUME NEW j \in 0 .. n - 1, new[j] # 0
      PROVE  \E r \in 0 .. n - 1 :
               /\ Slot(n, new[j], r) = j
               /\ \A q \in 0 .. n - 1 : q < r => new[Slot(n, new[j], q)] \notin {0, new[j]}
  <2>1. CASE j = i
    <3>1. \A q \in 0 .. n - 1 : q < p => new[Slot(n, h, q)] \notin {0, h}
      BY <1>2, <1>4
    <3> QED BY <1>3, <2>1, <3>1
  <2>2. CASE j # i
    <3>1. hashes[j] \in Int
      <4>1. hashes[j] \in Hashes \cup {0}
        BY DEF Hashings
      <4> QED BY <4>1, HashIsInt
    <3>2. hashes[j] # 0 /\ new[j] = hashes[j]
      BY <1>3, <1>5, <2>2
    <3>3. PICK r \in 0 .. n - 1 :
            /\ Slot(n, hashes[j], r) = j
            /\ \A q \in 0 .. n - 1 : q < r => hashes[Slot(n, hashes[j], q)] \notin {0, hashes[j]}
      BY <3>2 DEF HashesProbed
    <3>4. \A q \in 0 .. n - 1 : Slot(n, hashes[j], q) \in 0 .. n - 1
      BY <3>1, SlotInRange
    <3>5. \A q \in 0 .. n - 1 : q < r => new[Slot(n, hashes[j], q)] \notin {0, hashes[j]}
      BY <1>4, <3>3, <3>4
    <3> QED BY <3>2, <3>3, <3>5
  <2> QED BY <2>1, <2>2
<1> QED BY <1>3, <1>5 DEF HashesProbed

LEMMA TryInsertProbed ==
  ASSUME NEW n \in Counts, NEW hashes \in Hashings(n), HashesProbed(hashes, n), NEW h \in Hashes
  PROVE  TryInsert(hashes, h) \in Hashings(n) /\ HashesProbed(TryInsert(hashes, h), n)
<1>1. DOMAIN hashes = 0 .. n - 1 /\ Size(hashes) = n /\ n \in Nat /\ n > 0
  BY HashingShape DEF Counts
<1>2. PICK U : U = {p \in 0 .. n - 1 : hashes[Slot(n, h, p)] \in {0, h}}
  OBVIOUS
<1>3. CASE U = {}
  <2>1. TryInsert(hashes, h) = hashes
    BY <1>1, <1>2, <1>3 DEF TryInsert
  <2> QED BY <2>1
<1>4. CASE U # {}
  <2>1. \E p \in U : \A q \in U : p <= q
    <3>1. n - 1 \in Nat /\ U \subseteq 0 .. n - 1
      BY <1>1, <1>2
    <3> QED BY <1>4, <3>1, Least
  <2>2. PICK first : first = CHOOSE p \in U : \A q \in U : p <= q
    OBVIOUS
  <2>3. first \in U /\ \A q \in U : first <= q
    BY <2>1, <2>2
  <2>4. PICK i : i = Slot(n, h, first)
    OBVIOUS
  <2>5. first \in 0 .. n - 1 /\ hashes[i] \in {0, h}
        /\ \A q \in 0 .. n - 1 : q < first => hashes[Slot(n, h, q)] \notin {0, h}
    BY <1>1, <1>2, <2>3, <2>4
  <2>6. PICK new : new = TryInsert(hashes, h)
    OBVIOUS
  <2>7. new = [hashes EXCEPT ![i] = h]
    BY <1>1, <1>2, <1>4, <2>2, <2>4, <2>6 DEF TryInsert
  <2>8. new \in Hashings(n) /\ HashesProbed(new, n)
    BY <2>4, <2>5, <2>7, FilledProbed
  <2> QED BY <2>6, <2>8
<1> QED BY <1>3, <1>4

\* The new array after so many buckets of a, as reserve_internal fills it.
Moved(g, a, n, i) ==
  IF i = 0 THEN [s \in 0 .. n - 1 |-> 0]
  ELSE IF a[i - 1].hash = 0 THEN g[i - 1]
  ELSE TryInsert(g[i - 1], a[i - 1].hash)

Moves(g, a, n, last) == g = [i \in 0 .. last |-> Moved(g, a, n, i)]

LEMMA MovesExist ==
  ASSUME NEW a, NEW n, NEW last \in Nat
  PROVE  \E g : Moves(g, a, n, last)
<1>1. PICK B : B = {k \in 0 .. last : ~\E g : Moves(g, a, n, k)}
  OBVIOUS
<1>2. SUFFICES ASSUME B # {}
               PROVE  FALSE
  BY <1>1
<1>3. PICK k \in B : \A j \in B : k <= j
  BY <1>1, <1>2, Least
<1>4. k \in 0 .. last /\ ~\E g : Moves(g, a, n, k)
  BY <1>1
<1>5. CASE k = 0
  <2>1. PICK g : g = [i \in 0 .. 0 |-> [s \in 0 .. n - 1 |-> 0]]
    OBVIOUS
  <2>2. \A i \in 0 .. 0 : Moved(g, a, n, i) = [s \in 0 .. n - 1 |-> 0]
    BY DEF Moved
  <2>3. Moves(g, a, n, 0)
    BY <2>1, <2>2 DEF Moves
  <2> QED BY <1>4, <1>5, <2>3
<1>6. CASE k # 0
  <2>1. k - 1 \in 0 .. last /\ k - 1 \notin B
    BY <1>3, <1>4, <1>6
  <2>2. PICK f : Moves(f, a, n, k - 1)
    BY <1>1, <2>1
  <2>3. PICK last1 : last1 = Moved(f, a, n, k)
    OBVIOUS
  <2>4. PICK g : g = [i \in 0 .. k |-> IF i = k THEN last1 ELSE f[i]]
    OBVIOUS
  <2>5. \A i \in 0 .. k - 1 : f[i] = Moved(f, a, n, i) /\ g[i] = f[i] /\ i \in Nat
    BY <1>4, <2>2, <2>4 DEF Moves
  <2>6. \A i \in 0 .. k : i # 0 => i - 1 \in 0 .. k - 1
    BY <1>4
  <2>7. \A i \in 0 .. k : Moved(g, a, n, i) = Moved(f, a, n, i)
    BY <2>5, <2>6 DEF Moved
  <2>8. \A i \in 0 .. k : g[i] = Moved(g, a, n, i)
    <3>1. \A i \in 0 .. k : i = k \/ i \in 0 .. k - 1
      BY <1>4
    <3> QED BY <1>4, <2>3, <2>4, <2>5, <2>7, <3>1
  <2>9. Moves(g, a, n, k)
    <3>1. g = [i \in 0 .. k |-> g[i]]
      BY <2>4
    <3>2. [i \in 0 .. k |-> g[i]] = [i \in 0 .. k |-> Moved(g, a, n, i)]
      BY <2>8
    <3> QED BY <3>1, <3>2, Zenon DEF Moves
  <2> QED BY <1>4, <2>9
<1> QED BY <1>5, <1>6

LEMMA MovedProbed ==
  ASSUME NEW a \in Array, NEW n \in Counts, NEW g, Moves(g, a, n, Size(a))
  PROVE  g[Size(a)] \in Hashings(n) /\ HashesProbed(g[Size(a)], n)
<1>1. Size(a) \in Nat /\ DOMAIN a = 0 .. Size(a) - 1 /\ \A i \in DOMAIN a : a[i] \in BucketValues
  BY ArrayShape DEF Counts
<1>2. PICK B : B = {k \in 0 .. Size(a) : ~(g[k] \in Hashings(n) /\ HashesProbed(g[k], n))}
  OBVIOUS
<1>3. SUFFICES ASSUME B # {}
               PROVE  FALSE
  BY <1>1, <1>2
<1>4. PICK k \in B : \A j \in B : k <= j
  BY <1>1, <1>2, <1>3, Least
<1>5. k \in 0 .. Size(a) /\ ~(g[k] \in Hashings(n) /\ HashesProbed(g[k], n))
  BY <1>2
<1>6. g[k] = Moved(g, a, n, k)
  BY <1>5 DEF Moves
<1>7. CASE k = 0
  <2>1. g[k] = [s \in 0 .. n - 1 |-> 0]
    BY <1>6, <1>7 DEF Moved
  <2> QED BY <1>5, <2>1 DEF Hashings, HashesProbed
<1>8. CASE k # 0
  <2>1. k - 1 \in 0 .. Size(a) /\ k - 1 \notin B /\ k - 1 \in DOMAIN a
    BY <1>1, <1>4, <1>5, <1>8
  <2>2. g[k - 1] \in Hashings(n) /\ HashesProbed(g[k - 1], n)
    BY <1>2, <2>1
  <2>3. a[k - 1].hash \in Hashes \cup {0}
    BY <1>1, <2>1 DEF BucketValues
  <2>4. CASE a[k - 1].hash = 0
    <3>1. g[k] = g[k - 1]
      BY <1>6, <1>8, <2>4 DEF Moved
    <3> QED BY <1>5, <2>2, <3>1
  <2>5. CASE a[k - 1].hash # 0
    <3>1. PICK h \in Hashes : h = a[k - 1].hash
      BY <2>3, <2>5
    <3>2. g[k] = TryInsert(g[k - 1], h)
      BY <1>6, <1>8, <2>5, <3>1 DEF Moved
    <3>3. PICK hashes \in Hashings(n) : hashes = g[k - 1]
      BY <2>2
    <3> QED BY <1>5, <2>2, <3>2, <3>3, TryInsertProbed
  <2> QED BY <2>4, <2>5
<1> QED BY <1>7, <1>8

Pictured(hashes, n) == [s \in 0 .. n - 1 |-> IF hashes[s] \in Hashes THEN Filled(hashes[s]) ELSE Empty]

LEMMA RegrownIs ==
  ASSUME NEW a \in Array, NEW n
  PROVE  \E g : Moves(g, a, n, Size(a)) /\ Regrown(a, n) = Pictured(g[Size(a)], n)
<1>1. PICK g : g = CHOOSE hashes : hashes = [i \in 0 .. Size(a) |->
        IF i = 0 THEN [s \in 0 .. n - 1 |-> 0]
        ELSE IF a[i - 1].hash = 0 THEN hashes[i - 1]
        ELSE TryInsert(hashes[i - 1], a[i - 1].hash)]
  OBVIOUS
<1>2. Regrown(a, n) = Pictured(g[Size(a)], n)
  BY <1>1 DEF Regrown, Pictured
<1>3. Size(a) \in Nat
  BY ArrayShape DEF Counts
<1>4. PICK f : Moves(f, a, n, Size(a))
  BY <1>3, MovesExist
<1>5. Moves(g, a, n, Size(a))
  BY <1>1, <1>4, Zenon DEF Moves, Moved
<1> QED BY <1>2, <1>5

\* An array in which a search for an item comes upon the item before an empty
\* bucket, and no two buckets have one hash.
HashesOf(a) == [i \in DOMAIN a |-> a[i].hash]
WellProbed(a) == HashesProbed(HashesOf(a), Size(a))
ItemsHaveHashes(a) == \A i \in DOMAIN a : Valid(a[i]) => a[i].hash # 0

LEMMA HashesOfArray ==
  ASSUME NEW a \in Array
  PROVE  /\ HashesOf(a) \in Hashings(Size(a))
         /\ \A i \in DOMAIN a : HashesOf(a)[i] = a[i].hash
<1>1. Size(a) \in Counts /\ DOMAIN a = 0 .. Size(a) - 1 /\ \A i \in DOMAIN a : a[i] \in BucketValues
  BY ArrayShape
<1>2. \A i \in DOMAIN a : a[i].hash \in Hashes \cup {0}
  BY <1>1 DEF BucketValues
<1> QED BY <1>1, <1>2 DEF HashesOf, Hashings

LEMMA RegrownIsProbed ==
  ASSUME NEW a \in Array, NEW n \in Counts
  PROVE  WellProbed(Regrown(a, n)) /\ ItemsHaveHashes(Regrown(a, n))
<1>1. PICK g : Moves(g, a, n, Size(a)) /\ Regrown(a, n) = Pictured(g[Size(a)], n)
  BY RegrownIs
<1>2. PICK hashes \in Hashings(n) : hashes = g[Size(a)] /\ HashesProbed(hashes, n)
  BY <1>1, MovedProbed
<1>3. PICK x : x = Regrown(a, n)
  OBVIOUS
<1>4. x = Pictured(hashes, n)
  BY <1>1, <1>2, <1>3
<1>5. DOMAIN x = 0 .. n - 1 /\ n \in Nat /\ n > 0
  BY <1>4 DEF Pictured, Counts
<1>6. Size(x) = n
  BY <1>5, FS_Interval DEF Size
<1>7. \A i \in 0 .. n - 1 : x[i].hash = hashes[i] /\ (Valid(x[i]) => hashes[i] \in Hashes)
  BY <1>4, HashesAssumption DEF Pictured, Filled, Empty, Valid, Hashings
<1>8. ItemsHaveHashes(x)
  BY <1>5, <1>7, HashesAssumption DEF ItemsHaveHashes
<1>9. HashesOf(x) = hashes
  BY <1>5, <1>7 DEF HashesOf, Hashings
<1> QED BY <1>2, <1>3, <1>6, <1>8, <1>9 DEF WellProbed

-----------------------------------------------------------------------------
(***************************************************************************)
(* A search passes nothing that it is looking for.                         *)
(***************************************************************************)
\* The bucket that is probe q of t.
At(t, q) == Buckets(t)[Slot(bucketCount(t), hash[t], q)]

\* What a thread knows of the buckets on its way.
Probing(t) ==
  /\ pc[t] \in {"insert", "swap", "refresh", "find", "miss"} => hash[t] # 0
  /\ pc[t] \in {"insert", "find"} => probe[t] \in 0 .. bucketCount(t)
  /\ pc[t] = "swap" => /\ probe[t] \in 0 .. bucketCount(t) - 1
                       /\ expected[t].hash \in {0, hash[t]} /\ ~Valid(expected[t])
  /\ pc[t] \in {"insert", "swap"} /\ tl[t] = m_items =>
       \A q \in 0 .. probe[t] - 1 : At(t, q).hash \notin {0, hash[t]}

Current == arrays[m_items]
CurrentProbed == WellProbed(Current) /\ ItemsHaveHashes(Current)

Tidy == Inv /\ CurrentProbed /\ \A t \in Threads : Probing(t)

\* A bucket that has got a hash keeps it, and so does an item its bucket.
Keeps(a, b) ==
  /\ DOMAIN b = DOMAIN a
  /\ \A i \in DOMAIN a : /\ a[i].hash # 0 => b[i].hash = a[i].hash
                         /\ Valid(a[i]) => Valid(b[i])

Apart(t) ==
  \A u \in Threads \ {t} :
    /\ tl'[u] = tl[u] /\ pc'[u] = pc[u] /\ hash'[u] = hash[u] /\ probe'[u] = probe[u]
    /\ expected'[u] = expected[u]

LEMMA AtInRange ==
  ASSUME Typed, NEW t \in Threads, AtWork(t), NEW q \in Int
  PROVE  Slot(bucketCount(t), hash[t], q) \in DOMAIN Buckets(t)
<1>1. tl[t] \in 1 .. m_items /\ ArraysTyped /\ hash[t] \in Hashes \cup {0}
  BY DEF AtWork, Typed, LocalsTyped
<1>2. Size(arrays[tl[t]]) \in Counts /\ DOMAIN arrays[tl[t]] = 0 .. Size(arrays[tl[t]]) - 1
  BY <1>1, BucketThere
<1>3. hash[t] \in Int
  BY <1>1, HashIsInt
<1> QED BY <1>2, <1>3, SlotInRange DEF bucketCount, Buckets

\* What others do does not matter to a search.
LEMMA ProbingOn ==
  ASSUME Tidy, NEW u \in Threads,
         tl'[u] = tl[u], pc'[u] = pc[u], hash'[u] = hash[u], probe'[u] = probe[u],
         expected'[u] = expected[u],
         Keeps(arrays[tl[u]], arrays'[tl[u]]), m_items' \in {m_items, m_items + 1}
  PROVE  Probing(u)'
<1>1. Probing(u) /\ AtWork(u) /\ Typed /\ m_items \in Nat /\ tl[u] \in 1 .. m_items /\ probe[u] \in Int
  BY DEF Tidy, Inv, AtWork, Typed, ArraysTyped, LocalsTyped, Counts
<1>2. PICK c : c = tl[u]
  OBVIOUS
<1>3. Size(arrays'[c]) = Size(arrays[c])
  BY <1>2 DEF Keeps, Size
<1>4. bucketCount(u)' = bucketCount(u) /\ Buckets(u)' = arrays'[c] /\ Buckets(u) = arrays[c]
  BY <1>2, <1>3 DEF bucketCount, Buckets
<1>5. tl'[u] = m_items' => tl[u] = m_items
  BY <1>1
<1>6. ASSUME pc[u] \in {"insert", "swap"}, tl[u] = m_items, NEW q \in 0 .. probe[u] - 1
      PROVE  At(u, q)'.hash \notin {0, hash[u]}
  <2>1. At(u, q).hash \notin {0, hash[u]}
    BY <1>1, <1>6 DEF Probing
  <2>2. PICK i : i = Slot(bucketCount(u), hash[u], q)
    OBVIOUS
  <2>3. i \in DOMAIN arrays[c] /\ At(u, q) = arrays[c][i]
    BY <1>1, <1>4, <2>2, AtInRange DEF At
  <2>4. At(u, q)' = arrays'[c][i]
    BY <1>4, <2>2 DEF At
  <2> QED BY <1>2, <2>1, <2>3, <2>4 DEF Keeps
<1> QED BY <1>1, <1>4, <1>5, <1>6 DEF Probing

LEMMA KeptAsItIs ==
  ASSUME NEW a
  PROVE  Keeps(a, a)
BY DEF Keeps

\* A thread goes on or starts anew, and the arrays stay.
LEMMA ProbingStep ==
  ASSUME Tidy, Inv', UNCHANGED arrays, NEW t \in Threads, Apart(t), Probing(t)'
  PROVE  Tidy'
<1>1. m_items' = m_items
  BY DEF m_items
<1>2. CurrentProbed'
  BY <1>1 DEF Tidy, CurrentProbed, Current
<1>3. ASSUME NEW u \in Threads \ {t}
      PROVE  Probing(u)'
  <2>1. Keeps(arrays[tl[u]], arrays'[tl[u]])
    BY KeptAsItIs
  <2> QED BY <1>1, <2>1, ProbingOn DEF Apart
<1> QED BY <1>2, <1>3 DEF Tidy

LEMMA TidyReturn ==
  ASSUME Tidy, Inv', UNCHANGED arrays, NEW t \in Threads, Return(t),
         tl' = tl \/ tl' = [tl EXCEPT ![t] = m_items]
  PROVE  Tidy'
<1>1. LocalsTyped /\ tl \in [Threads -> Nat]
  BY DEF Tidy, Inv, Typed
<1>2. Apart(t) /\ pc'[t] = "idle"
  BY <1>1 DEF Apart, Return, LocalsTyped
<1>3. Probing(t)'
  BY <1>2 DEF Probing
<1> QED BY <1>2, <1>3, ProbingStep

LEMMA TidySearch ==
  ASSUME Tidy, Inv', UNCHANGED arrays, NEW t \in Threads,
         NEW how \in {"insert", "find", "count", "grow"}, Search(t, how),
         \A u \in Threads \ {t} : hash'[u] = hash[u],
         how \in {"insert", "find"} => hash'[t] # 0,
         tl' = tl \/ tl' = [tl EXCEPT ![t] = m_items]
  PROVE  Tidy'
<1>1. LocalsTyped /\ tl \in [Threads -> Nat]
  BY DEF Tidy, Inv, Typed
<1>2. Apart(t) /\ pc'[t] = how /\ probe'[t] = 0
  BY <1>1 DEF Apart, Search, LocalsTyped
<1>3. bucketCount(t)' \in Nat
  <2>1. Typed' /\ AtWork(t)'
    BY DEF Inv
  <2>2. (tl[t] \in 1 .. m_items)' /\ ArraysTyped'
    BY <2>1 DEF AtWork, Typed
  <2>3. tl'[t] \in 1 .. Len(arrays') /\ arrays' \in Seq(Array)
    BY <2>2 DEF ArraysTyped, m_items
  <2>4. arrays'[tl'[t]] \in Array
    BY <2>3, ElementOfSeq
  <2>5. Size(arrays'[tl'[t]]) \in Nat
    BY <2>4, ArrayShape DEF Counts
  <2> QED BY <2>5 DEF bucketCount, Buckets
<1>4. Probing(t)'
  BY <1>2, <1>3 DEF Probing
<1> QED BY <1>2, <1>4, ProbingStep

\* A thread goes where it does not search, or keeps the hash of its next search.
LEMMA TidyMove ==
  ASSUME Tidy, Inv', UNCHANGED <<arrays, hash, expected>>, NEW t \in Threads,
         NEW where \in {"refresh", "grow", "miss", "reserve", "dispose", "grown", "forward", "backward"},
         pc' = [pc EXCEPT ![t] = where],
         where \in {"refresh", "miss"} => hash[t] # 0,
         tl' = tl \/ tl' = [tl EXCEPT ![t] = m_items],
         \A u \in Threads \ {t} : probe'[u] = probe[u]
  PROVE  Tidy'
<1>1. LocalsTyped /\ tl \in [Threads -> Nat]
  BY DEF Tidy, Inv, Typed
<1>2. Apart(t) /\ pc'[t] = where /\ hash'[t] = hash[t]
  BY <1>1 DEF Apart, LocalsTyped
<1>3. Probing(t)'
  BY <1>2 DEF Probing
<1> QED BY <1>2, <1>3, ProbingStep

\* A search goes to the next bucket.
LEMMA TidyProbe ==
  ASSUME Tidy, Inv', NEW t \in Threads, InsertProbe(t) \/ FindProbe(t)
  PROVE  Tidy'
<1>1. LocalsTyped /\ Typed /\ AtWork(t) /\ Probing(t) /\ NextProbe(t) /\ pc[t] \in {"insert", "find"}
      /\ ~Exhausted(t)
  BY DEF Tidy, Inv, Typed, InsertProbe, FindProbe
<1>2. UNCHANGED <<arrays, tl, pc, hash, expected>> /\ probe' = [probe EXCEPT ![t] = @ + 1]
  BY <1>1 DEF NextProbe
<1>3. probe'[t] = probe[t] + 1 /\ \A u \in Threads \ {t} : probe'[u] = probe[u]
  BY <1>1, <1>2 DEF LocalsTyped
<1>4. Apart(t)
  BY <1>2, <1>3 DEF Apart
<1>5. bucketCount(t) \in Nat /\ probe[t] \in 0 .. bucketCount(t) - 1
  <2>1. bucketCount(t) \in Nat
    BY <1>1, HereInRange DEF Counts
  <2> QED BY <1>1, <2>1 DEF Probing, Exhausted
<1>6. bucketCount(t)' = bucketCount(t) /\ \A q : At(t, q)' = At(t, q)
  BY <1>2 DEF bucketCount, Buckets, At
<1>7. ASSUME pc[t] = "insert", tl[t] = m_items, NEW q \in 0 .. probe[t]
      PROVE  At(t, q).hash \notin {0, hash[t]}
  <2>1. CASE q = probe[t]
    <3>1. Taken(t)
      BY <1>7 DEF InsertProbe, FindProbe
    <3> QED BY <2>1, <3>1 DEF Taken, Bucket, Here, At
  <2>2. CASE q # probe[t]
    <3>1. q \in 0 .. probe[t] - 1
      BY <1>5, <1>7, <2>2
    <3> QED BY <1>1, <1>7, <3>1 DEF Probing
  <2> QED BY <2>1, <2>2
<1>8. m_items' = m_items
  BY <1>2 DEF m_items
<1>9. Probing(t)'
  <2>1. hash'[t] # 0
    BY <1>1, <1>2 DEF Probing
  <2>2. probe'[t] \in 0 .. bucketCount(t)'
    BY <1>3, <1>5, <1>6
  <2>3. pc[t] = "insert" /\ tl[t] = m_items =>
          \A q \in 0 .. probe'[t] - 1 : At(t, q)'.hash \notin {0, hash'[t]}
    BY <1>2, <1>3, <1>5, <1>6, <1>7
  <2> QED BY <1>1, <1>2, <1>8, <2>1, <2>2, <2>3 DEF Probing
<1> QED BY <1>2, <1>4, <1>9, ProbingStep

\* The bucket that was read has no item, and no other hash.
LEMMA TidySlot ==
  ASSUME Tidy, Inv', NEW t \in Threads, InsertSlot(t)
  PROVE  Tidy'
<1>1. LocalsTyped /\ Typed /\ AtWork(t) /\ Probing(t) /\ pc[t] = "insert"
  BY DEF Tidy, Inv, Typed, InsertSlot
<1>2. UNCHANGED <<arrays, tl, hash, probe>> /\ pc' = [pc EXCEPT ![t] = "swap"]
      /\ expected' = [expected EXCEPT ![t] = Bucket(t)]
  BY DEF InsertSlot
<1>3. Apart(t) /\ pc'[t] = "swap" /\ expected'[t] = Bucket(t)
  BY <1>1, <1>2 DEF LocalsTyped, Apart
<1>4. bucketCount(t) \in Nat /\ probe[t] \in 0 .. bucketCount(t) - 1
  <2>1. bucketCount(t) \in Nat
    BY <1>1, HereInRange DEF Counts
  <2>2. ~Exhausted(t)
    BY DEF InsertSlot
  <2> QED BY <1>1, <2>1, <2>2 DEF Probing, Exhausted
<1>5. Bucket(t).hash \in {0, hash[t]} /\ ~Valid(Bucket(t))
  BY DEF InsertSlot, Taken
<1>6. bucketCount(t)' = bucketCount(t) /\ (\A q : At(t, q)' = At(t, q)) /\ m_items' = m_items
  BY <1>2 DEF bucketCount, Buckets, At, m_items
<1>7. tl[t] = m_items => \A q \in 0 .. probe[t] - 1 : At(t, q).hash \notin {0, hash[t]}
  BY <1>1 DEF Probing
<1>8. hash[t] # 0
  BY <1>1 DEF Probing
<1>9. Probing(t)'
  BY <1>2, <1>3, <1>4, <1>5, <1>6, <1>7, <1>8 DEF Probing
<1> QED BY <1>2, <1>3, <1>9, ProbingStep

LEMMA TidyQuiet ==
  ASSUME Tidy, Inv', NEW t \in Threads,
         \/ Insert(t) \/ Find(t) \/ Reserve(t) \/ Iterate(t)
         \/ InsertProbe(t) \/ InsertFails(t) \/ InsertFinds(t) \/ InsertSlot(t) \/ SwapFails(t)
         \/ Count(t) \/ Refresh(t) \/ GrowBuckets(t) \/ ReserveInternal(t) \/ Grown(t)
         \/ FindProbe(t) \/ FindHit(t) \/ FindMiss(t) \/ FindReturns(t) \/ FindAgain(t)
         \/ ScanNext(t) \/ ScanEnds(t)
  PROVE  Tidy'
<1>0. LocalsTyped /\ Probing(t)
  BY DEF Tidy, Inv, Typed
<1>1. CASE Insert(t) \/ Find(t)
  <2>1. PICK h \in Hashes : hash' = [hash EXCEPT ![t] = h]
    BY <1>1 DEF Insert, Find
  <2>2. hash'[t] # 0 /\ \A u \in Threads \ {t} : hash'[u] = hash[u]
    BY <1>0, <2>1, HashesAssumption DEF LocalsTyped
  <2>3. PICK how \in {"insert", "find"} : Search(t, how)
    BY <1>1 DEF Insert, Find
  <2>4. UNCHANGED arrays /\ tl' = tl
    BY <1>1 DEF Insert, Find
  <2> QED BY <2>2, <2>3, <2>4, TidySearch
<1>2. CASE SwapFails(t) \/ FindAgain(t) \/ (Refresh(t) /\ tl[t] # m_items)
  <2>1. UNCHANGED <<arrays, hash>> /\ (tl' = tl \/ tl' = [tl EXCEPT ![t] = m_items])
    BY <1>2 DEF SwapFails, FindAgain, Refresh
  <2>2. PICK how \in {"insert", "find"} : Search(t, how)
    BY <1>2 DEF SwapFails, FindAgain, Refresh
  <2>3. hash'[t] # 0
    BY <1>0, <1>2, <2>1 DEF SwapFails, FindAgain, Refresh, Probing
  <2> QED BY <2>1, <2>2, <2>3, TidySearch
<1>3. CASE InsertProbe(t) \/ FindProbe(t)
  BY <1>3, TidyProbe
<1>4. CASE InsertSlot(t)
  BY <1>4, TidySlot
<1>5. CASE InsertFails(t) \/ FindMiss(t) \/ (Refresh(t) /\ tl[t] = m_items)
  <2>1. UNCHANGED <<arrays, hash, expected, probe>> /\ tl' = tl /\ hash[t] # 0
    BY <1>0, <1>5 DEF InsertFails, FindMiss, Refresh, Goto, Probing
  <2>2. PICK where \in {"refresh", "miss", "grow"} : pc' = [pc EXCEPT ![t] = where]
    BY <1>5 DEF InsertFails, FindMiss, Refresh, Goto
  <2> QED BY <2>1, <2>2, TidyMove
<1>6. CASE InsertFinds(t) \/ FindHit(t) \/ FindReturns(t) \/ ScanEnds(t)
  <2>1. Return(t) /\ UNCHANGED arrays /\ tl' = tl
    BY <1>6 DEF InsertFinds, FindHit, FindReturns, ScanEnds
  <2> QED BY <2>1, TidyReturn
<1>7. CASE Count(t)
  <2>1. UNCHANGED arrays /\ tl' = tl
    BY <1>7 DEF Count
  <2>2. Return(t) \/ (hash' = [hash EXCEPT ![t] = 0] /\ Search(t, "grow"))
    BY <1>7 DEF Count
  <2>3. ASSUME hash' = [hash EXCEPT ![t] = 0], Search(t, "grow")
        PROVE  Tidy'
    <3>1. \A u \in Threads \ {t} : hash'[u] = hash[u]
      BY <1>0, <2>3 DEF LocalsTyped
    <3> QED BY <2>1, <2>3, <3>1, TidySearch
  <2> QED BY <2>1, <2>2, <2>3, TidyReturn
<1>8. CASE Reserve(t) \/ (GrowBuckets(t) /\ tl[t] = m_items)
  <2>1. UNCHANGED <<arrays, hash, expected, probe>> /\ tl' = tl /\ pc' = [pc EXCEPT ![t] = "reserve"]
    BY <1>8 DEF Reserve, GrowBuckets
  <2> QED BY <2>1, TidyMove
<1>9. CASE (GrowBuckets(t) /\ tl[t] # m_items) \/ Grown(t)
  <2>1. UNCHANGED arrays /\ (tl' = tl \/ tl' = [tl EXCEPT ![t] = m_items])
    BY <1>9 DEF GrowBuckets, Grown
  <2>2. Return(t) \/ (hash[t] # 0 /\ hash' = hash /\ Search(t, "insert"))
    BY <1>9 DEF GrowBuckets, Grown, Retry
  <2> QED BY <2>1, <2>2, TidyReturn, TidySearch
<1>10. CASE ReserveInternal(t)
  <2>1. UNCHANGED <<arrays, hash, expected>> /\ tl' = tl
    BY <1>10 DEF ReserveInternal
  <2>2. PICK where \in {"dispose", "grown"} : pc' = [pc EXCEPT ![t] = where]
    BY <1>10 DEF ReserveInternal, BeginDispose
  <2>3. \A u \in Threads \ {t} : probe'[u] = probe[u]
    BY <1>0, <1>10 DEF ReserveInternal, BeginDispose, LocalsTyped
  <2> QED BY <2>1, <2>2, <2>3, TidyMove
<1>11. CASE Iterate(t)
  <2>1. UNCHANGED <<arrays, hash, expected>> /\ tl' = [tl EXCEPT ![t] = m_items]
    BY <1>11 DEF Iterate
  <2>2. PICK where \in {"forward", "backward"} : pc' = [pc EXCEPT ![t] = where]
    BY <1>11 DEF Iterate
  <2>3. \E p : probe' = [probe EXCEPT ![t] = p]
    BY <1>11 DEF Iterate
  <2>4. \A u \in Threads \ {t} : probe'[u] = probe[u]
    BY <1>0, <2>3 DEF LocalsTyped
  <2> QED BY <2>1, <2>2, <2>4, TidyMove
<1>12. CASE ScanNext(t)
  <2>1. UNCHANGED <<arrays, hash, expected>> /\ tl' = tl
    BY <1>12 DEF ScanNext
  <2>2. PICK where \in {"forward", "backward"} : pc' = [pc EXCEPT ![t] = where]
    BY <1>0, <1>12 DEF ScanNext, Scanning, LocalsTyped
  <2>3. \A u \in Threads \ {t} : probe'[u] = probe[u]
    BY <1>0, <1>12 DEF ScanNext, LocalsTyped
  <2> QED BY <2>1, <2>2, <2>3, TidyMove
<1> QED BY <1>1, <1>2, <1>3, <1>4, <1>5, <1>6, <1>7, <1>8, <1>9, <1>10, <1>11, <1>12

LEMMA OneReplaced ==
  ASSUME ArraysTyped, NEW c \in 1 .. m_items, NEW i, NEW b,
         arrays' = WithBucket(arrays, c, i, b)
  PROVE  /\ m_items' = m_items
         /\ arrays'[c] = [arrays[c] EXCEPT ![i] = b]
         /\ \A d \in 1 .. m_items : d # c => arrays'[d] = arrays[d]
<1>1. arrays \in Seq(Array) /\ m_items = Len(arrays)
  BY DEF ArraysTyped, m_items
<1>2. PICK x : x = [arrays[c] EXCEPT ![i] = b]
  OBVIOUS
<1>3. arrays' = [arrays EXCEPT ![c] = x]
  BY <1>2 DEF WithBucket
<1>4. Len(arrays') = Len(arrays) /\ arrays'[c] = x /\ \A d \in 1 .. Len(arrays) : d # c => arrays'[d] = arrays[d]
  BY <1>1, <1>3
<1> QED BY <1>1, <1>2, <1>4 DEF m_items

\* A bucket is replaced by one with the same hash, if it had one, and the item.
LEMMA BucketKept ==
  ASSUME NEW a \in Array, NEW i \in DOMAIN a, NEW b, NEW x, x = [a EXCEPT ![i] = b],
         a[i].hash # 0 => b.hash = a[i].hash, Valid(a[i]) => Valid(b)
  PROVE  Keeps(a, x)
<1>1. PICK n \in Counts : a \in ArraysOf(n)
  BY ArrayShape
<1>2. DOMAIN x = DOMAIN a /\ x[i] = b /\ \A j \in DOMAIN a : j # i => x[j] = a[j]
  BY <1>1 DEF ArraysOf
<1> QED BY <1>2 DEF Keeps

\* The same hashes, and no new item.
LEMMA StillProbed ==
  ASSUME NEW a \in Array, NEW x, WellProbed(a), ItemsHaveHashes(a), DOMAIN x = DOMAIN a,
         \A i \in DOMAIN a : x[i].hash = a[i].hash /\ (Valid(x[i]) => Valid(a[i]))
  PROVE  WellProbed(x) /\ ItemsHaveHashes(x)
<1>1. HashesOf(x) = HashesOf(a) /\ Size(x) = Size(a)
  BY DEF HashesOf, Size
<1> QED BY <1>1 DEF WellProbed, ItemsHaveHashes

LEMMA CurrentIsAnArray ==
  ASSUME Tidy
  PROVE  /\ Current \in Array /\ m_items \in 1 .. m_items /\ m_items \in Nat
         /\ WellProbed(Current) /\ ItemsHaveHashes(Current)
<1>1. ArraysTyped /\ m_items \in 1 .. m_items /\ m_items \in Nat
  BY DEF Tidy, Inv, Typed, ArraysTyped, Counts
<1>2. arrays[m_items] \in Array
  BY <1>1, BucketThere
<1> QED BY <1>1, <1>2 DEF Tidy, CurrentProbed, Current

\* Buckets of the arrays change, and the locals of one thread.
LEMMA ArraysStep ==
  ASSUME Tidy, Inv', NEW t \in Threads, Apart(t), m_items' \in {m_items, m_items + 1},
         \A c \in 1 .. m_items : Keeps(arrays[c], arrays'[c]),
         CurrentProbed', pc'[t] \in {"count", "dispose", "grown"}
  PROVE  Tidy'
<1>1. Probing(t)'
  BY DEF Probing
<1>2. ASSUME NEW u \in Threads \ {t}
      PROVE  Probing(u)'
  <2>1. tl[u] \in 1 .. m_items
    BY DEF Tidy, Inv, AtWork
  <2>2. Keeps(arrays[tl[u]], arrays'[tl[u]])
    BY <2>1
  <2> QED BY <2>2, ProbingOn DEF Apart
<1> QED BY <1>1, <1>2 DEF Tidy

\* What a swap does: the item goes where the search has come to, in the array that
\* is in m_items.
Swapped(t) ==
  /\ tl[t] = m_items /\ m_items' = m_items
  /\ hash[t] \in Hashes
  /\ probe[t] \in 0 .. Size(Current) - 1
  /\ Here(t) = Slot(Size(Current), hash[t], probe[t]) /\ Here(t) \in DOMAIN Current
  /\ Current[Here(t)].hash \in {0, hash[t]} /\ ~Valid(Current[Here(t)])
  /\ \A q \in 0 .. probe[t] - 1 : Current[Slot(Size(Current), hash[t], q)].hash \notin {0, hash[t]}
  /\ arrays'[m_items] = [Current EXCEPT ![Here(t)] = Filled(hash[t])]
  /\ \A c \in 1 .. m_items : c # m_items => arrays'[c] = arrays[c]

LEMMA SwapIs ==
  ASSUME Tidy, NEW t \in Threads, Swap(t)
  PROVE  Swapped(t)
<1>1. /\ Typed /\ ArraysTyped /\ AtWork(t) /\ Probing(t) /\ pc[t] = "swap" /\ m_items \in Nat
      /\ hash[t] \in Hashes \cup {0} /\ Bucket(t) = expected[t]
  BY DEF Tidy, Inv, Typed, LocalsTyped, ArraysTyped, Counts, Swap
<1>2. tl[t] \in 1 .. m_items /\ Here(t) \in DOMAIN arrays[tl[t]]
  BY <1>1, HereInRange
<1>3. PICK i : i = Here(t)
  OBVIOUS
<1>4. hash[t] \in Hashes /\ probe[t] \in 0 .. bucketCount(t) - 1
      /\ Bucket(t).hash \in {0, hash[t]} /\ ~Valid(Bucket(t)) /\ ~Disposed(Bucket(t))
  BY <1>1 DEF Probing, AtWork
<1>5. tl[t] = m_items
  <2>1. SUFFICES ASSUME tl[t] # m_items
                 PROVE  FALSE
    OBVIOUS
  <2>2. tl[t] \in 1 .. m_items - 1
    BY <1>1, <1>2, <2>1
  <2> QED BY <1>2, <1>3, <1>4, <2>2 DEF Tidy, Inv, OldArraysFrozen, Bucket, Buckets
<1>6. Buckets(t) = Current /\ bucketCount(t) = Size(Current) /\ Bucket(t) = Current[i]
  BY <1>3, <1>5 DEF Buckets, bucketCount, Bucket, Current
<1>7. arrays' = WithBucket(arrays, m_items, i, Filled(hash[t])) /\ m_items \in 1 .. m_items
  BY <1>2, <1>3, <1>5 DEF Swap, WithBucket
<1>8. /\ m_items' = m_items
      /\ arrays'[m_items] = [arrays[m_items] EXCEPT ![i] = Filled(hash[t])]
      /\ \A d \in 1 .. m_items : d # m_items => arrays'[d] = arrays[d]
  BY <1>1, <1>7, OneReplaced
<1>9. \A q \in 0 .. probe[t] - 1 : Current[Slot(Size(Current), hash[t], q)].hash \notin {0, hash[t]}
  BY <1>1, <1>5, <1>6 DEF Probing, At
<1>10. i = Slot(Size(Current), hash[t], probe[t]) /\ i \in DOMAIN Current
  BY <1>2, <1>3, <1>5, <1>6 DEF Here, Current
<1> QED BY <1>3, <1>4, <1>5, <1>6, <1>8, <1>9, <1>10 DEF Swapped, Current

LEMMA TidySwap ==
  ASSUME Tidy, Inv', NEW t \in Threads, Swap(t)
  PROVE  Tidy'
<1>1. Swapped(t) /\ LocalsTyped
  BY SwapIs DEF Tidy, Inv, Typed
<1>2. PICK a \in Array : a = Current
  BY CurrentIsAnArray
<1>3. PICK h \in Hashes, i \in DOMAIN a, p \in 0 .. Size(a) - 1 :
        /\ h = hash[t] /\ i = Here(t) /\ p = probe[t]
  BY <1>1, <1>2 DEF Swapped
<1>4. PICK x : x = arrays'[m_items]
  OBVIOUS
<1>5. /\ i = Slot(Size(a), h, p) /\ a[i].hash \in {0, h} /\ ~Valid(a[i])
      /\ \A q \in 0 .. p - 1 : a[Slot(Size(a), h, q)].hash \notin {0, h}
      /\ x = [a EXCEPT ![i] = Filled(h)]
  BY <1>1, <1>2, <1>3, <1>4 DEF Swapped
<1>6. Keeps(a, x)
  <2>1. PICK b \in {Filled(h)} : b.hash = h
    BY DEF Filled
  <2>2. (a[i].hash # 0 => b.hash = a[i].hash) /\ (Valid(a[i]) => Valid(b)) /\ x = [a EXCEPT ![i] = b]
    BY <1>5, <2>1
  <2> QED BY <2>2, BucketKept
<1>7. Size(a) \in Counts /\ DOMAIN a = 0 .. Size(a) - 1 /\ WellProbed(a) /\ ItemsHaveHashes(a)
      /\ h \in Int /\ h # 0
  BY <1>2, ArrayShape, CurrentIsAnArray, HashesAssumption
<1>8. DOMAIN x = DOMAIN a /\ x[i] = Filled(h) /\ \A j \in DOMAIN a : j # i => x[j] = a[j]
  <2>1. PICK n \in Counts : a \in ArraysOf(n)
    BY ArrayShape
  <2> QED BY <1>5, <2>1 DEF ArraysOf
<1>9. WellProbed(x)
  <2>1. PICK n \in Counts : n = Size(a)
    BY <1>7
  <2>2. PICK hashes \in Hashings(n) : hashes = HashesOf(a)
    BY <2>1, HashesOfArray
  <2>3. HashesProbed(hashes, n) /\ \A j \in DOMAIN a : hashes[j] = a[j].hash
    BY <1>7, <2>1, <2>2 DEF WellProbed, HashesOf
  <2>4. \A q \in 0 .. n - 1 : Slot(n, h, q) \in DOMAIN a
    BY <1>7, <2>1, SlotInRange
  <2>5. \A q \in 0 .. n - 1 : q < p => hashes[Slot(n, h, q)] \notin {0, h}
    <3>1. n \in Nat
      BY DEF Counts
    <3>2. \A q \in 0 .. n - 1 : q < p => q \in 0 .. p - 1
      BY <1>3, <2>1, <3>1
    <3> QED BY <1>5, <2>1, <2>3, <2>4, <3>2
  <2>6. PICK new : new = [hashes EXCEPT ![i] = h]
    OBVIOUS
  <2>7. HashesProbed(new, n)
    BY <1>3, <1>5, <2>1, <2>3, <2>5, <2>6, FilledProbed
  <2>8. HashesOf(x) = new
    <3>1. DOMAIN hashes = DOMAIN a
      BY <1>7, <2>1 DEF Hashings
    <3>2. \A j \in DOMAIN a : x[j].hash = new[j]
      BY <1>8, <2>3, <2>6, <3>1 DEF Filled
    <3> QED BY <1>8, <2>6, <3>1, <3>2 DEF HashesOf
  <2>9. Size(x) = n
    BY <1>8, <2>1 DEF Size
  <2> QED BY <2>7, <2>8, <2>9 DEF WellProbed
<1>10. ItemsHaveHashes(x)
  BY <1>7, <1>8 DEF ItemsHaveHashes, Filled
<1>11. m_items' = m_items
  BY <1>1 DEF Swapped
<1>12. CurrentProbed'
  BY <1>4, <1>9, <1>10, <1>11 DEF CurrentProbed, Current
<1>13. ASSUME NEW c \in 1 .. m_items
       PROVE  Keeps(arrays[c], arrays'[c])
  <2>1. CASE c = m_items
    BY <1>2, <1>4, <1>6, <2>1 DEF Current
  <2>2. CASE c # m_items
    <3>1. arrays'[c] = arrays[c]
      BY <1>1, <2>2 DEF Swapped
    <3> QED BY <3>1, KeptAsItIs
  <2> QED BY <2>1, <2>2
<1>14. Apart(t) /\ pc'[t] = "count"
  BY <1>1 DEF Swap, Search, Apart, LocalsTyped
<1> QED BY <1>11, <1>12, <1>13, <1>14, ArraysStep

LEMMA TidyDispose ==
  ASSUME Tidy, Inv', NEW t \in Threads, Dispose(t)
  PROVE  Tidy'
<1>0. LocalsTyped /\ ArraysTyped /\ AtWork(t) /\ pc[t] = "dispose"
  BY DEF Tidy, Inv, Typed, Dispose
<1>1. PICK c \in 1 .. m_items : c = growing[t].from
  BY <1>0 DEF AtWork
<1>2. PICK p \in DOMAIN arrays[c] : p = probe[t]
  BY <1>1 DEF Dispose
<1>3. arrays[c] \in Array /\ arrays[c][p] \in BucketValues
  BY <1>0, BucketThere
<1>4. PICK b : b = [arrays[c][p] EXCEPT !.flags = @ \cup {"disposed"}]
  OBVIOUS
<1>5. b.hash = arrays[c][p].hash /\ (Valid(b) <=> Valid(arrays[c][p]))
  BY <1>3, <1>4 DEF BucketValues, Valid
<1>6. arrays' = WithBucket(arrays, c, p, b)
  BY <1>1, <1>2, <1>4 DEF Dispose, WithBucket
<1>7. /\ m_items' = m_items
      /\ arrays'[c] = [arrays[c] EXCEPT ![p] = b]
      /\ \A d \in 1 .. m_items : d # c => arrays'[d] = arrays[d]
  BY <1>0, <1>6, OneReplaced
<1>8. PICK a \in Array, x \in {arrays'[c]} : a = arrays[c]
  BY <1>3
<1>9. p \in DOMAIN a /\ x = [a EXCEPT ![p] = b] /\ b.hash = a[p].hash /\ (Valid(b) <=> Valid(a[p]))
  BY <1>5, <1>7, <1>8
<1>10. Keeps(a, x)
  BY <1>9, BucketKept
<1>11. ASSUME NEW d \in 1 .. m_items
       PROVE  Keeps(arrays[d], arrays'[d])
  <2>1. CASE d = c
    BY <1>8, <1>10, <2>1
  <2>2. CASE d # c
    BY <1>7, <2>2, KeptAsItIs
  <2> QED BY <2>1, <2>2
<1>12. CurrentProbed'
  <2>1. CASE c = m_items
    <3>1. DOMAIN x = DOMAIN a /\ \A j \in DOMAIN a : x[j].hash = a[j].hash /\ (Valid(x[j]) => Valid(a[j]))
      <4>1. PICK n \in Counts : a \in ArraysOf(n)
        BY ArrayShape
      <4>2. DOMAIN x = DOMAIN a /\ x[p] = b /\ \A j \in DOMAIN a : j # p => x[j] = a[j]
        BY <1>9, <4>1 DEF ArraysOf
      <4> QED BY <1>9, <4>2
    <3>2. WellProbed(a) /\ ItemsHaveHashes(a)
      BY <1>8, <2>1, CurrentIsAnArray DEF Current
    <3>3. WellProbed(x) /\ ItemsHaveHashes(x)
      BY <3>1, <3>2, StillProbed
    <3> QED BY <1>7, <1>8, <2>1, <3>3 DEF CurrentProbed, Current
  <2>2. CASE c # m_items
    <3>1. m_items \in 1 .. m_items
      BY CurrentIsAnArray
    <3>2. arrays'[m_items] = arrays[m_items]
      BY <1>7, <2>2, <3>1
    <3> QED BY <1>7, <3>2 DEF Tidy, CurrentProbed, Current
  <2> QED BY <2>1, <2>2
<1>13. Apart(t) /\ pc'[t] = "dispose"
  BY <1>0 DEF Dispose, Apart, LocalsTyped
<1> QED BY <1>7, <1>11, <1>12, <1>13, ArraysStep

\* What replacing the array does.
LEMMA PublishIs ==
  ASSUME Inv, NEW t \in Threads, Publish(t), growing[t].from = m_items
  PROVE  /\ m_items' = m_items + 1 /\ m_items \in Nat
         /\ growing[t].to \in Counts
         /\ arrays'[m_items'] = Regrown(arrays[m_items], growing[t].to)
         /\ \A c \in 1 .. m_items : arrays'[c] = arrays[c]
<1>1. LocalsTyped /\ ArraysTyped /\ AtWork(t) /\ m_items \in Nat /\ pc[t] = "dispose"
  BY DEF Inv, Typed, ArraysTyped, Counts, Publish
<1>2. growing[t] \in Growth /\ growing[t].to # 0
  BY <1>1 DEF LocalsTyped, AtWork
<1>3. growing[t].to \in Counts
  BY <1>2 DEF Growth, Counts
<1>4. PICK x : x = Regrown(arrays[m_items], growing[t].to)
  OBVIOUS
<1>5. arrays' = Append(arrays, x)
  BY <1>4 DEF Publish
<1>6. arrays \in Seq(Array) /\ m_items = Len(arrays)
  BY <1>1 DEF ArraysTyped, m_items
<1>7. x \in Array
  BY <1>3, <1>4, RegrownIsAnArray
<1>8. Len(arrays') = Len(arrays) + 1 /\ arrays'[Len(arrays) + 1] = x
      /\ \A c \in 1 .. Len(arrays) : arrays'[c] = arrays[c]
  BY <1>5, <1>6, <1>7, AppendProperties
<1>9. m_items' = m_items + 1
  BY <1>6, <1>8 DEF m_items
<1> QED BY <1>1, <1>3, <1>4, <1>6, <1>8, <1>9

LEMMA TidyPublish ==
  ASSUME Tidy, Inv', NEW t \in Threads, Publish(t)
  PROVE  Tidy'
<1>1. LocalsTyped /\ pc[t] = "dispose"
  BY DEF Tidy, Inv, Typed, Publish
<1>2. CASE growing[t].from = m_items
  <2>1. /\ m_items' = m_items + 1 /\ growing[t].to \in Counts
        /\ arrays'[m_items'] = Regrown(arrays[m_items], growing[t].to)
        /\ \A c \in 1 .. m_items : arrays'[c] = arrays[c]
    BY <1>2, PublishIs DEF Tidy
  <2>2. arrays[m_items] \in Array
    BY CurrentIsAnArray DEF Current
  <2>3. CurrentProbed'
    BY <2>1, <2>2, RegrownIsProbed DEF CurrentProbed, Current
  <2>4. \A c \in 1 .. m_items : Keeps(arrays[c], arrays'[c])
    BY <2>1, KeptAsItIs
  <2>5. Apart(t) /\ pc'[t] = "grown"
    BY <1>1, <1>2 DEF Publish, Apart, LocalsTyped
  <2> QED BY <2>1, <2>3, <2>4, <2>5, ArraysStep
<1>3. CASE growing[t].from # m_items
  <2>1. UNCHANGED <<arrays, hash, expected>> /\ tl' = tl
    BY <1>3 DEF Publish
  <2>2. BeginDispose(t)
    BY <1>3 DEF Publish
  <2>3. PICK where \in {"dispose", "grown"} : pc' = [pc EXCEPT ![t] = where]
    BY <2>2 DEF BeginDispose
  <2>4. \A u \in Threads \ {t} : probe'[u] = probe[u]
    BY <1>1, <2>2 DEF BeginDispose, LocalsTyped
  <2> QED BY <2>1, <2>3, <2>4, TidyMove
<1> QED BY <1>2, <1>3

\* Nobody searches while an item is erased.  Its hash stays.
EraseIs(c, i, b) ==
  /\ Valid(arrays[c][i])
  /\ b.hash = arrays[c][i].hash /\ ~Valid(b) /\ b \in BucketValues
  /\ m_items' = m_items
  /\ arrays'[c] = [arrays[c] EXCEPT ![i] = b]
  /\ \A d \in 1 .. m_items : d # c => arrays'[d] = arrays[d]

LEMMA Erased ==
  ASSUME Inv, NEW t \in Threads, UnsafeErase(t)
  PROVE  \E c \in {m_items} : \E i \in DOMAIN arrays[c], b \in BucketValues : EraseIs(c, i, b)
<1>1. ArraysTyped /\ m_items \in 1 .. m_items
  BY DEF Inv, Typed, ArraysTyped, Counts
<1>2. PICK c \in 1 .. m_items : c = m_items
  BY <1>1
<1>3. PICK i \in DOMAIN arrays[c] :
        /\ Valid(arrays[c][i])
        /\ arrays' = [arrays EXCEPT ![c][i].flags = (@ \ {"valid"}) \cup {"deleted"}]
  BY <1>2 DEF UnsafeErase
<1>4. arrays[c][i] \in BucketValues
  BY <1>1, BucketThere
<1>5. PICK b : b = [arrays[c][i] EXCEPT !.flags = (@ \ {"valid"}) \cup {"deleted"}]
  OBVIOUS
<1>6. b \in BucketValues /\ ~Valid(b) /\ b.hash = arrays[c][i].hash
  BY <1>4, <1>5 DEF BucketValues, Flags, Valid
<1>7. arrays' = WithBucket(arrays, c, i, b)
  BY <1>3, <1>5 DEF WithBucket
<1>8. /\ m_items' = m_items
      /\ arrays'[c] = [arrays[c] EXCEPT ![i] = b]
      /\ \A d \in 1 .. m_items : d # c => arrays'[d] = arrays[d]
  BY <1>1, <1>7, OneReplaced
<1>9. EraseIs(c, i, b)
  BY <1>3, <1>6, <1>8 DEF EraseIs
<1> QED BY <1>2, <1>6, <1>9

LEMMA TidyErase ==
  ASSUME Tidy, Inv', NEW t \in Threads, UnsafeErase(t)
  PROVE  Tidy'
<1>1. PICK c \in {m_items} : \E i \in DOMAIN arrays[c], b \in BucketValues : EraseIs(c, i, b)
  BY Erased DEF Tidy
<1>2. PICK i \in DOMAIN arrays[c], b \in BucketValues : EraseIs(c, i, b)
  BY <1>1
<1>3. PICK a \in Array, x \in {arrays'[m_items]} : a = Current
  BY CurrentIsAnArray
<1>4. c = m_items /\ i \in DOMAIN a /\ x = [a EXCEPT ![i] = b] /\ b.hash = a[i].hash /\ ~Valid(b)
      /\ m_items' = m_items
  BY <1>2, <1>3 DEF EraseIs, Current
<1>5. DOMAIN x = DOMAIN a /\ \A j \in DOMAIN a : x[j].hash = a[j].hash /\ (Valid(x[j]) => Valid(a[j]))
  <2>1. PICK n \in Counts : a \in ArraysOf(n)
    BY ArrayShape
  <2>2. DOMAIN x = DOMAIN a /\ x[i] = b /\ \A j \in DOMAIN a : j # i => x[j] = a[j]
    BY <1>4, <2>1 DEF ArraysOf
  <2> QED BY <1>4, <2>2
<1>6. WellProbed(x) /\ ItemsHaveHashes(x)
  BY <1>3, <1>5, StillProbed, CurrentIsAnArray
<1>7. CurrentProbed'
  BY <1>3, <1>4, <1>6 DEF CurrentProbed, Current
<1>8. \A u \in Threads : pc'[u] = "idle"
  BY DEF UnsafeErase, Unsafe
<1>9. \A u \in Threads : Probing(u)'
  BY <1>8 DEF Probing
<1> QED BY <1>7, <1>9 DEF Tidy

LEMMA NewIsProbed ==
  ASSUME NEW n \in Counts
  PROVE  WellProbed(NewArray(n)) /\ ItemsHaveHashes(NewArray(n))
<1>1. PICK x : x = NewArray(n)
  OBVIOUS
<1>2. DOMAIN x = 0 .. n - 1 /\ \A i \in DOMAIN x : x[i].hash = 0 /\ ~Valid(x[i])
  BY <1>1 DEF NewArray, Empty, Valid
<1>3. n \in Nat /\ n > 0
  BY DEF Counts
<1>4. Size(x) = n
  <2>1. Cardinality(0 .. n - 1) = n
    BY <1>3, FS_Interval
  <2> QED BY <1>2, <2>1 DEF Size
<1>5. \A i \in 0 .. n - 1 : HashesOf(x)[i] = 0
  BY <1>2 DEF HashesOf
<1> QED BY <1>1, <1>2, <1>4, <1>5 DEF WellProbed, HashesProbed, ItemsHaveHashes

LEMMA ClearIs ==
  ASSUME Inv, UnsafeClear
  PROVE  m_items' = m_items /\ arrays'[m_items] = NewArray(Size(arrays[m_items]))
         /\ \A c \in 1 .. m_items : c # m_items => arrays'[c] = arrays[c]
<1>1. ArraysTyped /\ m_items \in 1 .. m_items
  BY DEF Inv, Typed, ArraysTyped, Counts
<1>2. PICK x : x = NewArray(Size(arrays[m_items]))
  OBVIOUS
<1>3. arrays' = [arrays EXCEPT ![m_items] = x]
  BY <1>2 DEF UnsafeClear
<1>4. arrays \in Seq(Array) /\ m_items = Len(arrays)
  BY <1>1 DEF ArraysTyped, m_items
<1>5. Len(arrays') = Len(arrays) /\ arrays'[m_items] = x
      /\ \A c \in 1 .. m_items : c # m_items => arrays'[c] = arrays[c]
  BY <1>1, <1>3, <1>4
<1> QED BY <1>2, <1>4, <1>5 DEF m_items

LEMMA TidyClear ==
  ASSUME Tidy, Inv', UnsafeClear
  PROVE  Tidy'
<1>1. m_items' = m_items /\ arrays'[m_items] = NewArray(Size(Current))
  BY ClearIs DEF Tidy, Current
<1>2. Size(Current) \in Counts
  BY CurrentIsAnArray, ArrayShape
<1>3. CurrentProbed'
  BY <1>1, <1>2, NewIsProbed DEF CurrentProbed, Current
<1>4. \A u \in Threads : pc'[u] = "idle"
  BY DEF UnsafeClear, Unsafe
<1>5. \A u \in Threads : Probing(u)'
  BY <1>4 DEF Probing
<1> QED BY <1>3, <1>5 DEF Tidy

LEMMA TidyInit == Init => Tidy
<1> SUFFICES ASSUME Init
             PROVE  Tidy
  OBVIOUS
<1>1. Inv
  BY InvInit
<1>2. InitialBuckets \in Counts
  BY BucketsAssumption DEF BucketCounts, Counts
<1>3. Current = NewArray(InitialBuckets)
  BY DEF Init, Current, m_items
<1>4. CurrentProbed
  BY <1>2, <1>3, NewIsProbed DEF CurrentProbed
<1>5. \A t \in Threads : Probing(t)
  BY DEF Init, Probing
<1> QED BY <1>1, <1>4, <1>5 DEF Tidy

LEMMA TidyStep == Tidy /\ [Next]_vars => Tidy'
<1> SUFFICES ASSUME Tidy, [Next]_vars
             PROVE  Tidy'
  OBVIOUS
<1>1. Inv'
  BY InvStep DEF Tidy
<1>2. CASE UnsafeClear
  BY <1>1, <1>2, TidyClear
<1>3. ASSUME NEW t \in Threads,
             Insert(t) \/ Find(t) \/ Reserve(t) \/ Iterate(t) \/ UnsafeErase(t) \/ Step(t)
      PROVE  Tidy'
  <2>1. CASE UnsafeErase(t)
    BY <1>1, <2>1, TidyErase
  <2>2. CASE Swap(t)
    BY <1>1, <2>2, TidySwap
  <2>3. CASE Dispose(t)
    BY <1>1, <2>3, TidyDispose
  <2>4. CASE Publish(t)
    BY <1>1, <2>4, TidyPublish
  <2>5. CASE ~(UnsafeErase(t) \/ Swap(t) \/ Dispose(t) \/ Publish(t))
    BY <1>1, <1>3, <2>5, TidyQuiet DEF Step
  <2> QED BY <2>1, <2>2, <2>3, <2>4, <2>5
<1>4. CASE UNCHANGED vars
  BY <1>1, <1>4 DEF vars, Tidy, CurrentProbed, Current, Probing, At, bucketCount, Buckets, m_items
<1> QED BY <1>2, <1>3, <1>4 DEF Next

-----------------------------------------------------------------------------
(***************************************************************************)
(* What a search comes upon.                                               *)
(***************************************************************************)
LEMMA IsIn ==
  ASSUME NEW a, NEW h
  PROVE  h \in Contents(a) <=> \E i \in DOMAIN a : Valid(a[i]) /\ a[i].hash = h
BY DEF Contents

LEMMA Reached ==
  ASSUME NEW a \in Array, WellProbed(a), NEW i \in DOMAIN a, a[i].hash # 0
  PROVE  \E p \in 0 .. Size(a) - 1 :
           /\ Slot(Size(a), a[i].hash, p) = i
           /\ \A q \in 0 .. Size(a) - 1 :
                q < p => a[Slot(Size(a), a[i].hash, q)].hash \notin {0, a[i].hash}
<1>1. Size(a) \in Counts /\ DOMAIN a = 0 .. Size(a) - 1
      /\ \A j \in DOMAIN a : a[j] \in BucketValues
  BY ArrayShape
<1>2. PICK n \in Counts, h \in Hashes \cup {0} : n = Size(a) /\ h = a[i].hash
  BY <1>1 DEF BucketValues
<1>3. PICK hashes : hashes = HashesOf(a)
  OBVIOUS
<1>4. HashesProbed(hashes, n) /\ \A j \in 0 .. n - 1 : hashes[j] = a[j].hash
  BY <1>1, <1>2, <1>3, HashesOfArray DEF WellProbed
<1>5. h # 0 /\ hashes[i] = h /\ i \in 0 .. n - 1
  BY <1>1, <1>2, <1>4
<1>6. PICK p \in 0 .. n - 1 :
        /\ Slot(n, h, p) = i
        /\ \A q \in 0 .. n - 1 : q < p => hashes[Slot(n, h, q)] \notin {0, h}
  BY <1>4, <1>5 DEF HashesProbed
<1>7. h \in Int
  BY HashIsInt
<1>8. \A q \in 0 .. n - 1 : Slot(n, h, q) \in 0 .. n - 1
  BY <1>7, SlotInRange
<1>9. \A q \in 0 .. n - 1 : q < p => a[Slot(n, h, q)].hash \notin {0, h}
  BY <1>4, <1>6, <1>8
<1> QED BY <1>2, <1>6, <1>9

\* A hash is in one bucket.
LEMMA OneBucket ==
  ASSUME NEW a \in Array, WellProbed(a), NEW i \in DOMAIN a, NEW j \in DOMAIN a,
         a[i].hash # 0, a[j].hash = a[i].hash
  PROVE  i = j
<1>1. PICK n, h : n = Size(a) /\ h = a[i].hash
  OBVIOUS
<1>2. n \in Nat
  BY <1>1, ArrayShape DEF Counts
<1>3. PICK p \in 0 .. n - 1 :
        /\ Slot(n, h, p) = i
        /\ \A q \in 0 .. n - 1 : q < p => a[Slot(n, h, q)].hash \notin {0, h}
  BY <1>1, Reached
<1>4. PICK r \in 0 .. n - 1 :
        /\ Slot(n, h, r) = j
        /\ \A q \in 0 .. n - 1 : q < r => a[Slot(n, h, q)].hash \notin {0, h}
  <2>1. a[j].hash = h /\ a[j].hash # 0
    BY <1>1
  <2> QED BY <1>1, <2>1, Reached
<1>5. ~(p < r) /\ ~(r < p)
  BY <1>1, <1>3, <1>4
<1> QED BY <1>2, <1>3, <1>4, <1>5

\* An item lies on the way of a search for it.
LEMMA OnTheWay ==
  ASSUME NEW a \in Array, WellProbed(a), ItemsHaveHashes(a), NEW h \in Contents(a)
  PROVE  \E p \in 0 .. Size(a) - 1 :
           LET b == a[Slot(Size(a), h, p)] IN Valid(b) /\ b.hash = h
<1>1. PICK i \in DOMAIN a : Valid(a[i]) /\ a[i].hash = h
  BY IsIn
<1>2. a[i].hash # 0
  BY <1>1 DEF ItemsHaveHashes
<1>3. PICK p \in 0 .. Size(a) - 1 : Slot(Size(a), a[i].hash, p) = i
  BY <1>2, Reached
<1> QED BY <1>1, <1>3

\* The keys of an array of which one bucket is replaced.
Differ(a, x, i, b) ==
  DOMAIN x = DOMAIN a /\ x[i] = b /\ \A j \in DOMAIN a : j # i => x[j] = a[j]

LEMMA ReplacedDiffer ==
  ASSUME NEW a \in Array, NEW i \in DOMAIN a, NEW b
  PROVE  Differ(a, [a EXCEPT ![i] = b], i, b)
<1>1. PICK n \in Counts : a \in ArraysOf(n)
  BY ArrayShape
<1> QED BY <1>1 DEF ArraysOf, Differ

LEMMA NewItemIsIn ==
  ASSUME NEW a, NEW i \in DOMAIN a, NEW b, NEW x, Differ(a, x, i, b), ~Valid(a[i]), Valid(b)
  PROVE  Contents(x) = Contents(a) \cup {b.hash}
<1>1. DOMAIN x = DOMAIN a /\ x[i] = b /\ \A j \in DOMAIN a : j # i => x[j] = a[j]
  BY DEF Differ
<1>2. \A h : h \in Contents(x) <=> h \in Contents(a) \/ h = b.hash
  <2>1. ASSUME NEW h, h \in Contents(x)
        PROVE  h \in Contents(a) \/ h = b.hash
    <3>1. PICK j \in DOMAIN x : Valid(x[j]) /\ x[j].hash = h
      BY <2>1, IsIn
    <3> QED BY <1>1, <3>1, IsIn
  <2>2. ASSUME NEW h, h \in Contents(a)
        PROVE  h \in Contents(x)
    <3>1. PICK j \in DOMAIN a : Valid(a[j]) /\ a[j].hash = h
      BY <2>2, IsIn
    <3>2. j # i
      BY <3>1
    <3>3. j \in DOMAIN x /\ Valid(x[j]) /\ x[j].hash = h
      BY <1>1, <3>1, <3>2
    <3> QED BY <3>3, IsIn
  <2>3. b.hash \in Contents(x)
    BY <1>1, IsIn
  <2> QED BY <2>1, <2>2, <2>3
<1> QED BY <1>2

LEMMA SameItems ==
  ASSUME NEW a, NEW x, DOMAIN x = DOMAIN a,
         \A j \in DOMAIN a : x[j].hash = a[j].hash /\ (Valid(x[j]) <=> Valid(a[j]))
  PROVE  Contents(x) = Contents(a)
<1>1. \A h : h \in Contents(x) <=> h \in Contents(a)
  BY IsIn
<1> QED BY <1>1

LEMMA ErasedItemIsOut ==
  ASSUME NEW a \in Array, WellProbed(a), ItemsHaveHashes(a), NEW i \in DOMAIN a,
         NEW b, NEW x, Differ(a, x, i, b), Valid(a[i]), b.hash = a[i].hash, ~Valid(b)
  PROVE  a[i].hash \in Contents(a) /\ Contents(x) = Contents(a) \ {a[i].hash}
<1>1. DOMAIN x = DOMAIN a /\ x[i] = b /\ \A j \in DOMAIN a : j # i => x[j] = a[j]
  BY DEF Differ
<1>2. a[i].hash # 0
  BY DEF ItemsHaveHashes
<1>3. ASSUME NEW h, h \in Contents(x)
      PROVE  h \in Contents(a) \ {a[i].hash}
  <2>1. PICK j \in DOMAIN x : Valid(x[j]) /\ x[j].hash = h
    BY <1>3, IsIn
  <2>2. j # i /\ j \in DOMAIN a /\ Valid(a[j]) /\ a[j].hash = h
    BY <1>1, <2>1
  <2>3. h # a[i].hash
    BY <1>2, <2>2, OneBucket
  <2> QED BY <2>2, <2>3, IsIn
<1>4. ASSUME NEW h, h \in Contents(a), h # a[i].hash
      PROVE  h \in Contents(x)
  <2>1. PICK j \in DOMAIN a : Valid(a[j]) /\ a[j].hash = h
    BY <1>4, IsIn
  <2>2. j # i
    BY <1>4, <2>1
  <2>3. j \in DOMAIN x /\ Valid(x[j]) /\ x[j].hash = h
    BY <1>1, <2>1, <2>2
  <2> QED BY <2>3, IsIn
<1>5. a[i].hash \in Contents(a)
  BY IsIn
<1> QED BY <1>3, <1>4, <1>5

-----------------------------------------------------------------------------
(***************************************************************************)
(* What a thread sees of the table.                                        *)
(***************************************************************************)
\* The copy of an array neither loses a key nor brings one back: the code asserts
\* that every item finds a bucket, and an item that was erased, whose bucket still
\* has its hash, is not to be copied.
CopiesAll == m_items' = m_items \/ contents' = contents

\* What its place says of the hash of a thread, and of its history.
Honest(t) ==
  /\ pc[t] \in {"idle", "forward", "backward"} => hash[t] = 0
  /\ pc[t] \in {"reserve", "dispose", "grown"} /\ growing[t].caller = "reserve" => hash[t] = 0
  /\ pc[t] \notin {"find", "miss"} => absent[t] = FALSE

\* A thread sees no key in its array that is not in the table, and a find that was
\* called when its key was there has it still before it, unless its array is old.
Sees(t) ==
  /\ Contents(Buckets(t)) \subseteq contents
  /\ pc[t] \in {"find", "miss"} /\ ~absent[t] => hash[t] \in contents
  /\ pc[t] = "find" /\ ~absent[t] /\ tl[t] = m_items =>
       \E p \in 0 .. bucketCount(t) - 1 :
         probe[t] <= p /\ Valid(At(t, p)) /\ At(t, p).hash = hash[t]
  /\ pc[t] = "miss" /\ tl[t] = m_items => absent[t]

Seeing == Tidy /\ \A t \in Threads : Honest(t) /\ Sees(t)

Aside(t) ==
  \A u \in Threads \ {t} :
    /\ tl'[u] = tl[u] /\ pc'[u] = pc[u] /\ hash'[u] = hash[u] /\ probe'[u] = probe[u]
    /\ growing'[u] = growing[u]
    /\ found'[u] = found[u] /\ inserted'[u] = inserted[u] /\ absent'[u] = absent[u]

\* The arrays a thread may have are at most richer, and not by what is not in the
\* table.
Richer ==
  /\ m_items' \in {m_items, m_items + 1}
  /\ \A c \in 1 .. m_items : Keeps(arrays[c], arrays'[c])
  /\ \A c \in 1 .. m_items : c # m_items' => Contents(arrays'[c]) = Contents(arrays[c])
  /\ contents \subseteq contents'

LEMMA ContentsIs == contents = Contents(Current)
BY DEF contents, Current

LEMMA SeesOn ==
  ASSUME Seeing, NEW t \in Threads, Aside(t), Richer, NEW u \in Threads \ {t}
  PROVE  Honest(u)' /\ Sees(u)'
<1>1. /\ Honest(u) /\ Sees(u) /\ Probing(u) /\ AtWork(u) /\ Typed /\ m_items \in Nat
      /\ tl[u] \in 1 .. m_items /\ probe[u] \in Int
  BY DEF Seeing, Tidy, Inv, AtWork, Typed, ArraysTyped, LocalsTyped, Counts
<1>2. /\ tl'[u] = tl[u] /\ pc'[u] = pc[u] /\ hash'[u] = hash[u] /\ probe'[u] = probe[u]
      /\ growing'[u] = growing[u] /\ absent'[u] = absent[u]
  BY DEF Aside
<1>3. Honest(u)'
  BY <1>1, <1>2 DEF Honest
<1>4. PICK c \in 1 .. m_items : c = tl[u]
  BY <1>1
<1>5. Keeps(arrays[c], arrays'[c])
  BY DEF Richer
<1>6. Size(arrays'[c]) = Size(arrays[c])
  BY <1>5 DEF Keeps, Size
<1>7. bucketCount(u)' = bucketCount(u) /\ Buckets(u)' = arrays'[c] /\ Buckets(u) = arrays[c]
  BY <1>2, <1>4, <1>6 DEF bucketCount, Buckets
<1>8. tl'[u] = m_items' => tl[u] = m_items
  BY <1>1, <1>2 DEF Richer
<1>9. Contents(arrays'[c]) \subseteq contents'
  <2>1. CASE c = m_items'
    BY <2>1 DEF contents
  <2>2. CASE c # m_items'
    BY <1>1, <1>7, <2>2 DEF Richer, Sees
  <2> QED BY <2>1, <2>2
<1>10. pc[u] \in {"find", "miss"} /\ ~absent[u] => hash[u] \in contents'
  BY <1>1 DEF Richer, Sees
<1>11. ASSUME pc[u] = "find", ~absent[u], tl[u] = m_items
       PROVE  \E p \in 0 .. bucketCount(u)' - 1 :
                probe'[u] <= p /\ Valid(At(u, p)') /\ At(u, p)'.hash = hash'[u]
  <2>1. PICK p \in 0 .. bucketCount(u) - 1 :
          probe[u] <= p /\ Valid(At(u, p)) /\ At(u, p).hash = hash[u]
    BY <1>1, <1>11 DEF Sees
  <2>2. PICK i : i = Slot(bucketCount(u), hash[u], p)
    OBVIOUS
  <2>3. p \in Int
    OBVIOUS
  <2>4. i \in DOMAIN arrays[c] /\ At(u, p) = arrays[c][i]
    BY <1>1, <1>7, <2>2, <2>3, AtInRange DEF At
  <2>5. At(u, p)' = arrays'[c][i]
    BY <1>2, <1>7, <2>2 DEF At
  <2>6. hash[u] # 0
    BY <1>1, <1>11 DEF Probing
  <2>7. Valid(At(u, p)') /\ At(u, p)'.hash = hash[u]
    BY <1>5, <2>1, <2>4, <2>5, <2>6 DEF Keeps
  <2> QED BY <1>2, <1>7, <2>1, <2>7
<1>12. pc[u] = "miss" /\ tl[u] = m_items => absent[u]
  BY <1>1 DEF Sees
<1> QED BY <1>2, <1>3, <1>7, <1>8, <1>9, <1>10, <1>11, <1>12 DEF Sees

LEMMA QuietRicher ==
  ASSUME UNCHANGED arrays
  PROVE  Richer /\ contents' = contents /\ m_items' = m_items
BY KeptAsItIs DEF Richer, contents, m_items

\* One thread has taken a step, and the arrays are as rich as they were.
LEMMA SeeingStep ==
  ASSUME Seeing, Tidy', NEW t \in Threads, Aside(t), Richer, Honest(t)', Sees(t)'
  PROVE  Seeing'
BY SeesOn DEF Seeing

\* The array a thread has, or the current one, has nothing that is not in the table.
LEMMA SeesArray ==
  ASSUME Seeing, UNCHANGED arrays, NEW t \in Threads,
         tl' = tl \/ tl' = [tl EXCEPT ![t] = m_items]
  PROVE  Contents(Buckets(t)') \subseteq contents'
<1>1. contents' = contents /\ m_items' = m_items
  BY QuietRicher
<1>2. tl \in [Threads -> Nat] /\ Sees(t)
  BY DEF Seeing, Tidy, Inv, Typed
<1>3. CASE tl'[t] = tl[t]
  BY <1>1, <1>2, <1>3 DEF Buckets, Sees
<1>4. CASE tl'[t] = m_items
  BY <1>1, <1>4 DEF Buckets, contents
<1> QED BY <1>2, <1>3, <1>4

\* A thread that is not looking for anything.
LEMMA SeesNothing ==
  ASSUME Seeing, Tidy', UNCHANGED arrays, NEW t \in Threads, Aside(t), Honest(t)',
         tl' = tl \/ tl' = [tl EXCEPT ![t] = m_items],
         pc'[t] \notin {"find", "miss"}
  PROVE  Seeing'
<1>1. Sees(t)'
  BY SeesArray DEF Sees
<1> QED BY <1>1, QuietRicher, SeeingStep

\* A step of one thread leaves the others' locals and results alone.
LEMMA AsideReturn ==
  ASSUME Seeing, NEW t \in Threads, Return(t),
         tl' = tl \/ tl' = [tl EXCEPT ![t] = m_items],
         found' = found \/ \E f : found' = [found EXCEPT ![t] = f],
         inserted' = inserted \/ \E i : inserted' = [inserted EXCEPT ![t] = i],
         (absent' = absent /\ pc[t] \notin {"find", "miss"}) \/ absent' = [absent EXCEPT ![t] = FALSE]
  PROVE  Aside(t) /\ Honest(t)' /\ pc'[t] = "idle"
<1>1. LocalsTyped /\ ResultsTyped /\ tl \in [Threads -> Nat] /\ Honest(t)
  BY DEF Seeing, Tidy, Inv, Typed
<1>2. \A u \in Threads \ {t} :
        /\ pc'[u] = pc[u] /\ hash'[u] = hash[u] /\ probe'[u] = probe[u] /\ growing'[u] = growing[u]
  BY <1>1 DEF Return, LocalsTyped
<1>3. \A u \in Threads \ {t} :
        /\ tl'[u] = tl[u] /\ found'[u] = found[u] /\ inserted'[u] = inserted[u] /\ absent'[u] = absent[u]
  BY <1>1 DEF ResultsTyped
<1>4. pc'[t] = "idle" /\ hash'[t] = 0
  BY <1>1 DEF Return, LocalsTyped
<1>5. absent'[t] = FALSE
  BY <1>1 DEF Honest, ResultsTyped
<1> QED BY <1>2, <1>3, <1>4, <1>5 DEF Aside, Honest

LEMMA AsideSearch ==
  ASSUME Seeing, NEW t \in Threads, NEW how, Search(t, how),
         hash' = hash \/ \E h : hash' = [hash EXCEPT ![t] = h],
         tl' = tl \/ tl' = [tl EXCEPT ![t] = m_items],
         found' = found \/ \E f : found' = [found EXCEPT ![t] = f],
         inserted' = inserted \/ \E i : inserted' = [inserted EXCEPT ![t] = i],
         absent' = absent \/ \E b : absent' = [absent EXCEPT ![t] = b]
  PROVE  Aside(t) /\ pc'[t] = how /\ probe'[t] = 0 /\ growing'[t] = NoGrowth
<1>1. LocalsTyped /\ ResultsTyped /\ tl \in [Threads -> Nat] /\ Honest(t)
  BY DEF Seeing, Tidy, Inv, Typed
<1> QED BY <1>1 DEF Aside, Search, LocalsTyped, ResultsTyped

LEMMA AsideMove ==
  ASSUME Seeing, NEW t \in Threads, NEW where, pc' = [pc EXCEPT ![t] = where],
         UNCHANGED <<hash, absent>>,
         tl' = tl \/ tl' = [tl EXCEPT ![t] = m_items],
         probe' = probe \/ \E p : probe' = [probe EXCEPT ![t] = p],
         growing' = growing \/ \E g : growing' = [growing EXCEPT ![t] = g],
         found' = found, inserted' = inserted
  PROVE  Aside(t) /\ pc'[t] = where
<1>1. LocalsTyped /\ tl \in [Threads -> Nat]
  BY DEF Seeing, Tidy, Inv, Typed
<1> QED BY <1>1 DEF Aside, LocalsTyped

LEMMA SeeingReturn ==
  ASSUME Seeing, Tidy', NEW t \in Threads,
         \/ InsertFinds(t) \/ FindHit(t) \/ FindReturns(t) \/ ScanEnds(t)
         \/ (Count(t) /\ 2 * m_size < bucketCount(t))
         \/ (Grown(t) /\ growing[t].caller = "reserve")
         \/ (Grown(t) /\ growing[t].caller # "reserve" /\ hash[t] = 0)
         \/ (GrowBuckets(t) /\ tl[t] # m_items /\ hash[t] = 0)
  PROVE  Seeing' /\ Aside(t) /\ Return(t)
<1>1. /\ Return(t) /\ UNCHANGED arrays
      /\ tl' = tl \/ tl' = [tl EXCEPT ![t] = m_items]
      /\ found' = found \/ \E f : found' = [found EXCEPT ![t] = f]
      /\ inserted' = inserted \/ \E i : inserted' = [inserted EXCEPT ![t] = i]
      /\ (absent' = absent /\ pc[t] \notin {"find", "miss"}) \/ absent' = [absent EXCEPT ![t] = FALSE]
  BY DEF Scanning, InsertFinds, FindHit, FindReturns, ScanEnds, Count, Grown, GrowBuckets, Retry, results
<1>2. Aside(t) /\ Honest(t)' /\ pc'[t] = "idle"
  BY <1>1, AsideReturn
<1> QED BY <1>1, <1>2, SeesNothing

LEMMA SeeingSearch ==
  ASSUME Seeing, Tidy', NEW t \in Threads,
         \/ Insert(t) \/ SwapFails(t)
         \/ (Count(t) /\ ~(2 * m_size < bucketCount(t)))
         \/ (Refresh(t) /\ tl[t] # m_items)
         \/ (Grown(t) /\ growing[t].caller # "reserve" /\ hash[t] # 0)
         \/ (GrowBuckets(t) /\ tl[t] # m_items /\ hash[t] # 0)
  PROVE  Seeing' /\ Aside(t)
<1>0. LocalsTyped /\ Honest(t)
  BY DEF Seeing, Tidy, Inv, Typed
<1>1. PICK how \in {"insert", "grow"} : Search(t, how)
  BY DEF Insert, SwapFails, Count, Refresh, Grown, GrowBuckets, Retry
<1>2. /\ UNCHANGED arrays
      /\ tl' = tl \/ tl' = [tl EXCEPT ![t] = m_items]
      /\ hash' = hash \/ \E h : hash' = [hash EXCEPT ![t] = h]
      /\ found' = found \/ \E f : found' = [found EXCEPT ![t] = f]
      /\ inserted' = inserted \/ \E i : inserted' = [inserted EXCEPT ![t] = i]
      /\ absent' = absent
  BY DEF Insert, SwapFails, Count, Refresh, Grown, GrowBuckets, Retry, results, NoResult
<1>3. Aside(t) /\ pc'[t] = how /\ growing'[t] = NoGrowth
  BY <1>1, <1>2, AsideSearch
<1>4. absent[t] = FALSE
  BY <1>0 DEF Honest, Insert, SwapFails, Count, Refresh, Grown, GrowBuckets
<1>5. Honest(t)'
  BY <1>2, <1>3, <1>4 DEF Honest
<1> QED BY <1>2, <1>3, <1>5, SeesNothing

LEMMA SeeingMove ==
  ASSUME Seeing, Tidy', NEW t \in Threads,
         \/ InsertFails(t) \/ InsertSlot(t) \/ Reserve(t) \/ Iterate(t) \/ ReserveInternal(t)
         \/ (Refresh(t) /\ tl[t] = m_items)
         \/ (GrowBuckets(t) /\ tl[t] = m_items)
         \/ ScanNext(t) \/ InsertProbe(t)
         \/ (Publish(t) /\ growing[t].from # m_items)
  PROVE  Seeing' /\ Aside(t)
<1>0. LocalsTyped /\ Honest(t) /\ pc[t] \notin {"find", "miss"}
  BY DEF Seeing, Tidy, Inv, Typed, InsertFails, InsertSlot, Reserve, Iterate, ReserveInternal,
         Refresh, GrowBuckets, ScanNext, Scanning, InsertProbe, Publish
<1>1. PICK where \in {"refresh", "swap", "reserve", "dispose", "grown", "forward", "backward", "grow", "insert"} :
        pc' = [pc EXCEPT ![t] = where]
  <2>1. ASSUME pc' = pc, pc[t] \in {"insert", "forward", "backward"}
        PROVE  pc' = [pc EXCEPT ![t] = pc[t]]
    BY <1>0, <2>1 DEF LocalsTyped
  <2>2. CASE ScanNext(t) \/ InsertProbe(t)
    <3>1. pc' = pc /\ pc[t] \in {"insert", "forward", "backward"}
      BY <2>2 DEF ScanNext, Scanning, InsertProbe, NextProbe
    <3> QED BY <2>1, <3>1
  <2>3. CASE ~(ScanNext(t) \/ InsertProbe(t))
    BY <2>3 DEF InsertFails, Goto, InsertSlot, Reserve, Iterate, ReserveInternal, BeginDispose,
         Refresh, GrowBuckets, Publish
  <2> QED BY <2>2, <2>3
<1>2. /\ UNCHANGED <<arrays, hash, absent, found, inserted>>
      /\ tl' = tl \/ tl' = [tl EXCEPT ![t] = m_items]
      /\ probe' = probe \/ \E p : probe' = [probe EXCEPT ![t] = p]
  BY DEF InsertFails, Goto, InsertSlot, Reserve, Iterate, ReserveInternal, BeginDispose,
         Refresh, GrowBuckets, ScanNext, InsertProbe, NextProbe, Publish, results
<1>3. \/ growing' = growing
      \/ growing' = [growing EXCEPT ![t] = [@ EXCEPT !.from = m_items]]
      \/ Reserve(t) /\ growing' = [growing EXCEPT ![t] = [from |-> 0, to |-> ReservedBuckets, caller |-> "reserve"]]
      \/ GrowBuckets(t) /\ growing' = [growing EXCEPT ![t] = [from |-> 0, to |-> 2 * bucketCount(t), caller |-> "grow_buckets"]]
  BY DEF InsertFails, Goto, InsertSlot, Reserve, Iterate, ReserveInternal, BeginDispose,
         Refresh, GrowBuckets, ScanNext, InsertProbe, NextProbe, Publish
<1>4. growing' = growing \/ \E g : growing' = [growing EXCEPT ![t] = g]
  BY <1>3
<1>5. Aside(t) /\ pc'[t] = where
  BY <1>1, <1>2, <1>4, AsideMove
<1>6. growing[t] \in Growth /\ growing \in [Threads -> Growth]
  BY <1>0 DEF LocalsTyped
<1>7. growing'[t].caller = "reserve" => Reserve(t) \/ growing[t].caller = "reserve"
  BY <1>3, <1>6 DEF Growth
<1>8. where \in {"forward", "backward"} => hash[t] = 0
  <2>1. where \in {"forward", "backward"} => pc[t] \in {"idle", "forward", "backward"}
    BY <1>0, <1>1 DEF LocalsTyped, InsertFails, Goto, InsertSlot, Reserve, Iterate, ReserveInternal, BeginDispose,
         Refresh, GrowBuckets, ScanNext, Scanning, InsertProbe, NextProbe, Publish
  <2> QED BY <1>0, <2>1 DEF Honest
<1>9. where \in {"reserve", "dispose", "grown"} /\ growing'[t].caller = "reserve" => hash[t] = 0
  <2>1. where \in {"reserve", "dispose", "grown"} => Reserve(t) \/ GrowBuckets(t) \/ pc[t] \in {"reserve", "dispose"}
    BY <1>0, <1>1 DEF LocalsTyped, InsertFails, Goto, InsertSlot, Reserve, Iterate, ReserveInternal, BeginDispose,
         Refresh, GrowBuckets, ScanNext, Scanning, InsertProbe, NextProbe, Publish
  <2>2. Reserve(t) => hash[t] = 0
    BY <1>0 DEF Reserve, Honest
  <2>3. GrowBuckets(t) /\ tl[t] = m_items => growing'[t].caller = "grow_buckets"
    BY <1>6 DEF GrowBuckets, Growth
  <2>4. GrowBuckets(t) => tl[t] = m_items
    BY <1>0, <1>1 DEF LocalsTyped, GrowBuckets, InsertFails, InsertSlot, Reserve, Iterate, ReserveInternal,
         Refresh, ScanNext, Scanning, InsertProbe, Publish
  <2>5. pc[t] \in {"reserve", "dispose"} /\ growing[t].caller = "reserve" => hash[t] = 0
    BY <1>0 DEF Honest
  <2> QED BY <1>7, <2>1, <2>2, <2>3, <2>4, <2>5
<1>10. Honest(t)'
  BY <1>0, <1>2, <1>5, <1>8, <1>9 DEF Honest
<1> QED BY <1>2, <1>5, <1>10, SeesNothing

\* A key of the table lies before a search that starts in the current array.
LEMMA StartsBefore ==
  ASSUME Seeing, NEW h \in contents
  PROVE  \E p \in 0 .. Size(Current) - 1 :
           LET b == Current[Slot(Size(Current), h, p)] IN Valid(b) /\ b.hash = h
<1>1. Current \in Array /\ WellProbed(Current) /\ ItemsHaveHashes(Current) /\ h \in Contents(Current)
  BY CurrentIsAnArray, ContentsIs DEF Seeing
<1> QED BY <1>1, OnTheWay

LEMMA SeeingFind ==
  ASSUME Seeing, Tidy', NEW t \in Threads, Find(t) \/ FindAgain(t)
  PROVE  Seeing' /\ Aside(t) /\ pc'[t] = "find"
<1>0. LocalsTyped /\ ResultsTyped /\ Honest(t) /\ Sees(t) /\ tl \in [Threads -> Nat]
  BY DEF Seeing, Tidy, Inv, Typed
<1>1. /\ Search(t, "find") /\ UNCHANGED arrays
      /\ tl' = tl \/ tl' = [tl EXCEPT ![t] = m_items]
      /\ hash' = hash \/ \E h : hash' = [hash EXCEPT ![t] = h]
      /\ found' = found \/ \E f : found' = [found EXCEPT ![t] = f]
      /\ inserted' = inserted \/ \E i : inserted' = [inserted EXCEPT ![t] = i]
      /\ absent' = absent \/ \E b : absent' = [absent EXCEPT ![t] = b]
  BY DEF Find, FindAgain, NoResult, results
<1>2. Aside(t) /\ pc'[t] = "find" /\ probe'[t] = 0
  BY <1>1, AsideSearch
<1>3. Honest(t)'
  BY <1>2 DEF Honest
<1>4. contents' = contents /\ m_items' = m_items /\ Richer
  BY <1>1, QuietRicher
<1>5. absent'[t] \/ hash'[t] \in contents
  <2>1. CASE Find(t)
    <3>1. PICK h \in Hashes : hash' = [hash EXCEPT ![t] = h] /\ absent' = [absent EXCEPT ![t] = h \notin contents]
      BY <2>1 DEF Find
    <3>2. hash'[t] = h
      BY <1>0, <3>1 DEF LocalsTyped
    <3>3. absent'[t] = (h \notin contents)
      BY <1>0, <3>1, Zenon DEF ResultsTyped
    <3> QED BY <3>2, <3>3
  <2>2. CASE FindAgain(t)
    BY <1>0, <2>2 DEF FindAgain, results, Sees
  <2> QED BY <2>1, <2>2
<1>6. ASSUME ~absent'[t], tl'[t] = m_items'
      PROVE  \E p \in 0 .. bucketCount(t)' - 1 :
               probe'[t] <= p /\ Valid(At(t, p)') /\ At(t, p)'.hash = hash'[t]
  <2>1. Buckets(t)' = Current /\ bucketCount(t)' = Size(Current)
    BY <1>1, <1>4, <1>6 DEF Buckets, bucketCount, Current
  <2>2. PICK h \in contents : h = hash'[t]
    BY <1>5, <1>6
  <2>3. PICK p \in 0 .. Size(Current) - 1 :
          Valid(Current[Slot(Size(Current), h, p)]) /\ Current[Slot(Size(Current), h, p)].hash = h
    BY StartsBefore
  <2>4. At(t, p)' = Current[Slot(Size(Current), h, p)]
    BY <2>1, <2>2 DEF At
  <2>5. 0 <= p
    OBVIOUS
  <2> QED BY <1>2, <2>1, <2>2, <2>3, <2>4, <2>5
<1>7. Contents(Buckets(t)') \subseteq contents'
  BY <1>1, SeesArray
<1>8. Sees(t)'
  BY <1>2, <1>4, <1>5, <1>6, <1>7 DEF Sees
<1> QED BY <1>2, <1>3, <1>4, <1>8, SeeingStep

LEMMA SeeingFindProbe ==
  ASSUME Seeing, Tidy', NEW t \in Threads, FindProbe(t)
  PROVE  Seeing' /\ Aside(t)
<1>0. LocalsTyped /\ Honest(t) /\ Sees(t) /\ Probing(t)
  BY DEF Seeing, Tidy, Inv, Typed
<1>1. /\ pc[t] = "find" /\ UNCHANGED <<arrays, tl, pc, hash, growing, found, inserted, absent>>
      /\ probe' = [probe EXCEPT ![t] = @ + 1] /\ Bucket(t).hash # hash[t]
  BY DEF FindProbe, NextProbe, results
<1>2. pc' = [pc EXCEPT ![t] = "find"]
  BY <1>0, <1>1 DEF LocalsTyped
<1>3. Aside(t)
  BY <1>1, <1>2, AsideMove
<1>4. probe'[t] = probe[t] + 1 /\ probe[t] \in Int
  BY <1>0, <1>1 DEF LocalsTyped
<1>5. contents' = contents /\ m_items' = m_items /\ Richer
  BY <1>1, QuietRicher
<1>6. Honest(t)'
  BY <1>0, <1>1 DEF Honest
<1>7. bucketCount(t)' = bucketCount(t) /\ (\A q : At(t, q)' = At(t, q)) /\ Buckets(t)' = Buckets(t)
  BY <1>1 DEF bucketCount, Buckets, At
<1>8. ASSUME ~absent[t], tl[t] = m_items
      PROVE  \E p \in 0 .. bucketCount(t) - 1 :
               probe'[t] <= p /\ Valid(At(t, p)) /\ At(t, p).hash = hash[t]
  <2>1. PICK p \in 0 .. bucketCount(t) - 1 :
          probe[t] <= p /\ Valid(At(t, p)) /\ At(t, p).hash = hash[t]
    BY <1>0, <1>1, <1>8 DEF Sees
  <2>2. p # probe[t]
    BY <1>1, <2>1 DEF Bucket, Here, At
  <2> QED BY <1>4, <2>1, <2>2
<1>9. Sees(t)'
  BY <1>0, <1>1, <1>5, <1>7, <1>8 DEF Sees
<1> QED BY <1>3, <1>5, <1>6, <1>9, SeeingStep

\* A search that misses its key in the current array was called without it.
LEMMA SeeingMiss ==
  ASSUME Seeing, Tidy', NEW t \in Threads, FindMiss(t)
  PROVE  Seeing' /\ Aside(t) /\ pc'[t] = "miss"
<1>0. LocalsTyped /\ Typed /\ AtWork(t) /\ Honest(t) /\ Sees(t) /\ Probing(t)
  BY DEF Seeing, Tidy, Inv, Typed
<1>1. /\ pc[t] = "find" /\ UNCHANGED <<arrays, tl, hash, probe, growing, found, inserted, absent>>
      /\ pc' = [pc EXCEPT ![t] = "miss"]
      /\ Exhausted(t) \/ (Bucket(t).hash = hash[t] /\ ~Valid(Bucket(t)))
  BY DEF FindMiss, Goto, results
<1>2. Aside(t) /\ pc'[t] = "miss"
  BY <1>1, AsideMove
<1>3. contents' = contents /\ m_items' = m_items /\ Richer
  BY <1>1, QuietRicher
<1>4. Honest(t)'
  BY <1>2 DEF Honest
<1>5. ASSUME ~absent[t], tl[t] = m_items
      PROVE  FALSE
  <2>1. PICK p \in 0 .. bucketCount(t) - 1 :
          probe[t] <= p /\ Valid(At(t, p)) /\ At(t, p).hash = hash[t]
    BY <1>0, <1>1, <1>5 DEF Sees
  <2>2. Buckets(t) = Current /\ bucketCount(t) = Size(Current)
    BY <1>5 DEF Buckets, bucketCount, Current
  <2>3. Current \in Array /\ WellProbed(Current)
    BY CurrentIsAnArray DEF Seeing
  <2>4. Size(Current) \in Nat
    BY <2>3, ArrayShape DEF Counts
  <2>5. ~Exhausted(t)
    BY <2>1, <2>2, <2>4 DEF Exhausted
  <2>6. PICK i \in DOMAIN Current : i = Here(t)
    BY <1>0, <2>2, HereInRange DEF Buckets
  <2>7. Bucket(t) = Current[i] /\ Current[i].hash = hash[t] /\ ~Valid(Current[i])
    BY <1>1, <2>2, <2>5, <2>6 DEF Bucket
  <2>8. PICK j \in DOMAIN Current : j = Slot(bucketCount(t), hash[t], p)
    BY <1>0, <2>2, AtInRange
  <2>9. Valid(Current[j]) /\ Current[j].hash = hash[t]
    BY <2>1, <2>2, <2>8 DEF At
  <2>10. hash[t] # 0
    BY <1>0, <1>1 DEF Probing
  <2>11. i = j
    BY <2>3, <2>7, <2>9, <2>10, OneBucket
  <2> QED BY <2>7, <2>9, <2>11
<1>6. Contents(Buckets(t)') \subseteq contents'
  BY <1>1, SeesArray
<1>7. Sees(t)'
  BY <1>0, <1>1, <1>2, <1>3, <1>5, <1>6 DEF Sees
<1> QED BY <1>2, <1>3, <1>4, <1>7, SeeingStep

\* A thread that goes where it looks for nothing.
LEMMA SeesElsewhere ==
  ASSUME Seeing, Tidy', NEW t \in Threads, Aside(t), Richer, Honest(t)',
         UNCHANGED tl, pc'[t] \notin {"find", "miss"}
  PROVE  Seeing'
<1>1. m_items \in Nat /\ tl[t] \in 1 .. m_items /\ Contents(Buckets(t)) \subseteq contents
  BY CurrentIsAnArray DEF Seeing, Tidy, Inv, AtWork, Sees
<1>2. Contents(arrays'[tl[t]]) \subseteq contents'
  <2>1. CASE tl[t] = m_items'
    BY <2>1 DEF contents
  <2>2. CASE tl[t] # m_items'
    <3>1. Contents(arrays'[tl[t]]) = Contents(arrays[tl[t]])
      BY <1>1, <2>2 DEF Richer
    <3> QED BY <1>1, <3>1 DEF Buckets, Richer
  <2> QED BY <2>1, <2>2
<1>3. Sees(t)'
  BY <1>2 DEF Sees, Buckets
<1> QED BY <1>3, SeeingStep

\* The item of a swap comes into the table, and was not there.
LEMMA SwapContents ==
  ASSUME Tidy, NEW t \in Threads, Swap(t)
  PROVE  contents' = contents \cup {hash[t]} /\ hash[t] \notin contents
<1>1. Swapped(t)
  BY SwapIs
<1>2. PICK a \in Array, x \in {arrays'[m_items]} : a = Current
  BY CurrentIsAnArray
<1>3. WellProbed(a) /\ ItemsHaveHashes(a) /\ Size(a) \in Nat
  BY <1>2, CurrentIsAnArray, ArrayShape DEF Counts
<1>4. PICK h \in Hashes, i \in DOMAIN a, p \in 0 .. Size(a) - 1 :
        h = hash[t] /\ i = Here(t) /\ p = probe[t]
  BY <1>1, <1>2 DEF Swapped
<1>5. /\ i = Slot(Size(a), h, p) /\ a[i].hash \in {0, h} /\ ~Valid(a[i])
      /\ \A q \in 0 .. p - 1 : a[Slot(Size(a), h, q)].hash \notin {0, h}
      /\ x = [a EXCEPT ![i] = Filled(h)] /\ m_items' = m_items
  BY <1>1, <1>2, <1>4 DEF Swapped
<1>6. Contents(x) = Contents(a) \cup {h}
  <2>1. PICK b \in {Filled(h)} : Valid(b) /\ b.hash = h
    BY DEF Filled, Valid
  <2>2. Differ(a, x, i, b)
    BY <1>5, <2>1, ReplacedDiffer
  <2> QED BY <1>5, <2>1, <2>2, NewItemIsIn
<1>7. h \notin Contents(a)
  <2>1. SUFFICES ASSUME h \in Contents(a)
                 PROVE  FALSE
    OBVIOUS
  <2>2. PICK j \in DOMAIN a : Valid(a[j]) /\ a[j].hash = h
    BY <2>1, IsIn
  <2>3. a[j].hash # 0 /\ h # 0
    BY <1>3, <2>2 DEF ItemsHaveHashes
  <2>4. PICK r \in 0 .. Size(a) - 1 :
          /\ Slot(Size(a), h, r) = j
          /\ \A q \in 0 .. Size(a) - 1 : q < r => a[Slot(Size(a), h, q)].hash \notin {0, h}
    BY <1>3, <2>2, <2>3, Reached
  <2>5. ~(p < r)
    BY <1>5, <2>4
  <2>6. ~(r < p)
    <3>1. ASSUME r < p
          PROVE  FALSE
      <4>1. r \in 0 .. p - 1
        BY <1>3, <3>1
      <4> QED BY <1>5, <2>2, <2>4, <4>1
    <3> QED BY <3>1
  <2>7. r = p
    BY <1>3, <2>5, <2>6
  <2> QED BY <1>5, <2>2, <2>4, <2>7
<1>8. contents = Contents(a) /\ contents' = Contents(x)
  BY <1>2, <1>5, ContentsIs DEF contents
<1> QED BY <1>4, <1>6, <1>7, <1>8

LEMMA SeeingSwap ==
  ASSUME Seeing, Tidy', NEW t \in Threads, Swap(t)
  PROVE  Seeing' /\ Aside(t) /\ pc'[t] = "count"
<1>0. Tidy /\ LocalsTyped /\ Honest(t) /\ m_items \in Nat
  BY CurrentIsAnArray DEF Seeing, Tidy, Inv, Typed
<1>1. /\ pc[t] = "swap" /\ Search(t, "count") /\ UNCHANGED <<tl, hash, absent>>
      /\ found' = [found EXCEPT ![t] = hash[t]] /\ inserted' = [inserted EXCEPT ![t] = TRUE]
  BY DEF Swap
<1>2. Aside(t) /\ pc'[t] = "count"
  <2>1. found' = found \/ \E f : found' = [found EXCEPT ![t] = f]
    BY <1>1
  <2>2. inserted' = inserted \/ \E i : inserted' = [inserted EXCEPT ![t] = i]
    BY <1>1
  <2> QED BY <1>1, <2>1, <2>2, AsideSearch
<1>3. Honest(t)'
  BY <1>0, <1>1, <1>2 DEF Honest
<1>4. Swapped(t) /\ contents' = contents \cup {hash[t]}
  BY <1>0, SwapIs, SwapContents
<1>5. Keeps(Current, arrays'[m_items])
  <2>1. PICK a \in Array, i \in {Here(t)}, h \in {hash[t]}, x \in {arrays'[m_items]} : a = Current
    BY <1>0, CurrentIsAnArray
  <2>2. i \in DOMAIN a /\ a[i].hash \in {0, h} /\ ~Valid(a[i]) /\ x = [a EXCEPT ![i] = Filled(h)]
    BY <1>4, <2>1 DEF Swapped
  <2>3. PICK b \in {Filled(h)} : b.hash = h
    BY DEF Filled
  <2>4. (a[i].hash # 0 => b.hash = a[i].hash) /\ (Valid(a[i]) => Valid(b)) /\ x = [a EXCEPT ![i] = b]
    BY <2>2, <2>3
  <2> QED BY <2>1, <2>2, <2>4, BucketKept
<1>6. m_items' = m_items /\ \A c \in 1 .. m_items : c # m_items => arrays'[c] = arrays[c]
  BY <1>4 DEF Swapped
<1>7. \A c \in 1 .. m_items : Keeps(arrays[c], arrays'[c])
  BY <1>5, <1>6, KeptAsItIs DEF Current
<1>8. Richer
  BY <1>4, <1>6, <1>7 DEF Richer
<1> QED BY <1>1, <1>2, <1>3, <1>8, SeesElsewhere

LEMMA SeeingDispose ==
  ASSUME Seeing, Tidy', NEW t \in Threads, Dispose(t)
  PROVE  Seeing' /\ Aside(t) /\ contents' = contents /\ pc' = pc /\ UNCHANGED hash
<1>0. LocalsTyped /\ ArraysTyped /\ AtWork(t) /\ Honest(t) /\ pc[t] = "dispose" /\ m_items \in Nat
  BY CurrentIsAnArray DEF Seeing, Tidy, Inv, Typed, Dispose
<1>1. PICK c \in 1 .. m_items : c = growing[t].from
  BY <1>0 DEF AtWork
<1>2. PICK p \in DOMAIN arrays[c] : p = probe[t]
  BY <1>1 DEF Dispose
<1>3. arrays[c] \in Array /\ arrays[c][p] \in BucketValues
  BY <1>0, BucketThere
<1>4. PICK b : b = [arrays[c][p] EXCEPT !.flags = @ \cup {"disposed"}]
  OBVIOUS
<1>5. b.hash = arrays[c][p].hash /\ (Valid(b) <=> Valid(arrays[c][p]))
  BY <1>3, <1>4 DEF BucketValues, Valid
<1>6. arrays' = WithBucket(arrays, c, p, b)
  BY <1>1, <1>2, <1>4 DEF Dispose, WithBucket
<1>7. /\ m_items' = m_items
      /\ arrays'[c] = [arrays[c] EXCEPT ![p] = b]
      /\ \A d \in 1 .. m_items : d # c => arrays'[d] = arrays[d]
  BY <1>0, <1>6, OneReplaced
<1>8. PICK a \in Array, x \in {arrays'[c]} : a = arrays[c]
  BY <1>3
<1>9. p \in DOMAIN a /\ x = [a EXCEPT ![p] = b] /\ b.hash = a[p].hash /\ (Valid(b) <=> Valid(a[p]))
  BY <1>5, <1>7, <1>8
<1>10. Keeps(a, x)
  BY <1>9, BucketKept
<1>11. Contents(x) = Contents(a)
  <2>1. Differ(a, x, p, b)
    BY <1>9, ReplacedDiffer
  <2>2. DOMAIN x = DOMAIN a /\ \A j \in DOMAIN a : x[j].hash = a[j].hash /\ (Valid(x[j]) <=> Valid(a[j]))
    BY <1>9, <2>1 DEF Differ
  <2> QED BY <2>2, SameItems
<1>12. ASSUME NEW d \in 1 .. m_items
       PROVE  Keeps(arrays[d], arrays'[d]) /\ Contents(arrays'[d]) = Contents(arrays[d])
  <2>1. CASE d = c
    BY <1>8, <1>10, <1>11, <2>1
  <2>2. CASE d # c
    BY <1>7, <2>2, KeptAsItIs
  <2> QED BY <2>1, <2>2
<1>13. contents' = contents
  <2>1. m_items \in 1 .. m_items
    BY CurrentIsAnArray DEF Seeing
  <2> QED BY <1>7, <1>12, <2>1 DEF contents
<1>14. Richer
  BY <1>7, <1>12, <1>13 DEF Richer
<1>15. UNCHANGED <<tl, pc, hash, growing, found, inserted, absent>> /\ probe' = [probe EXCEPT ![t] = @ + 1]
  BY DEF Dispose, results
<1>16. Aside(t)
  BY <1>0, <1>15 DEF Aside, LocalsTyped
<1>17. Honest(t)'
  BY <1>0, <1>15 DEF Honest
<1> QED BY <1>0, <1>13, <1>14, <1>15, <1>16, <1>17, SeesElsewhere

LEMMA SeeingPublish ==
  ASSUME Seeing, Tidy', NEW t \in Threads, Publish(t), CopiesAll, growing[t].from = m_items
  PROVE  Seeing' /\ Aside(t) /\ contents' = contents /\ pc'[t] = "grown"
<1>0. LocalsTyped /\ Honest(t) /\ pc[t] = "dispose"
  BY DEF Seeing, Tidy, Inv, Typed, Publish
<1>1. /\ m_items' = m_items + 1 /\ m_items \in Nat
      /\ \A c \in 1 .. m_items : arrays'[c] = arrays[c]
  BY PublishIs DEF Seeing, Tidy
<1>2. contents' = contents
  BY <1>1 DEF CopiesAll
<1>3. Richer
  BY <1>1, <1>2, KeptAsItIs DEF Richer
<1>4. UNCHANGED <<tl, hash, probe, growing, found, inserted, absent>> /\ pc' = [pc EXCEPT ![t] = "grown"]
  BY DEF Publish, results
<1>5. Aside(t) /\ pc'[t] = "grown"
  BY <1>0, <1>4 DEF Aside, LocalsTyped
<1>6. Honest(t)'
  BY <1>0, <1>4, <1>5 DEF Honest
<1> QED BY <1>2, <1>3, <1>4, <1>5, <1>6, SeesElsewhere

\* Keys leave the table while nobody is inside an operation, and everybody has seen
\* the array.
LEMMA SeesWhenSettled ==
  ASSUME Seeing, Tidy', Unsafe, UNCHANGED <<pc, hash, growing, absent>>, m_items' = m_items,
         \A u \in Threads : tl'[u] = m_items
  PROVE  Seeing'
<1>1. ASSUME NEW u \in Threads
      PROVE  Honest(u)' /\ Sees(u)'
  <2>1. Honest(u) /\ pc'[u] = "idle"
    BY DEF Seeing, Unsafe
  <2>2. Buckets(u)' = arrays'[m_items']
    BY DEF Buckets
  <2> QED BY <2>1, <2>2 DEF Honest, Sees, contents
<1> QED BY <1>1 DEF Seeing

LEMMA SeeingErase ==
  ASSUME Seeing, Tidy', NEW t \in Threads, UnsafeErase(t), EraseSettled
  PROVE  Seeing'
<1>1. m_items' = m_items
  <2>1. Inv
    BY DEF Seeing, Tidy
  <2>2. PICK c \in {m_items} : \E i \in DOMAIN arrays[c], b \in BucketValues : EraseIs(c, i, b)
    BY <2>1, Erased
  <2> QED BY <2>2 DEF EraseIs
<1>2. tl \in [Threads -> Nat]
  BY DEF Seeing, Tidy, Inv, Typed
<1>3. Unsafe /\ Settled /\ tl' = [tl EXCEPT ![t] = m_items] /\ UNCHANGED <<pc, hash, growing, absent>>
  BY DEF UnsafeErase, results
<1>4. \A u \in Threads : tl'[u] = m_items
  BY <1>2, <1>3 DEF Settled
<1> QED BY <1>1, <1>3, <1>4, SeesWhenSettled

LEMMA SeeingClear ==
  ASSUME Seeing, Tidy', UnsafeClear, EraseSettled
  PROVE  Seeing'
<1>1. m_items' = m_items
  BY ClearIs DEF Seeing, Tidy
<1>2. Unsafe /\ Settled /\ UNCHANGED <<tl, pc, hash, growing, absent>>
  BY DEF UnsafeClear, results
<1> QED BY <1>1, <1>2, SeesWhenSettled DEF Settled

\* What every step of a thread leaves to the others.
LEMMA SeeingSteps ==
  ASSUME Seeing, Tidy', CopiesAll, NEW t \in Threads,
         Insert(t) \/ Find(t) \/ Reserve(t) \/ Iterate(t) \/ Step(t)
  PROVE  Seeing' /\ Aside(t)
<1>1. CASE \/ InsertFinds(t) \/ FindHit(t) \/ FindReturns(t) \/ ScanEnds(t)
           \/ (Count(t) /\ 2 * m_size < bucketCount(t))
           \/ (Grown(t) /\ growing[t].caller = "reserve")
           \/ (Grown(t) /\ growing[t].caller # "reserve" /\ hash[t] = 0)
           \/ (GrowBuckets(t) /\ tl[t] # m_items /\ hash[t] = 0)
  BY <1>1, SeeingReturn
<1>2. CASE \/ Insert(t) \/ SwapFails(t)
           \/ (Count(t) /\ ~(2 * m_size < bucketCount(t)))
           \/ (Refresh(t) /\ tl[t] # m_items)
           \/ (Grown(t) /\ growing[t].caller # "reserve" /\ hash[t] # 0)
           \/ (GrowBuckets(t) /\ tl[t] # m_items /\ hash[t] # 0)
  BY <1>2, SeeingSearch
<1>3. CASE \/ InsertFails(t) \/ InsertSlot(t) \/ Reserve(t) \/ Iterate(t) \/ ReserveInternal(t)
           \/ (Refresh(t) /\ tl[t] = m_items)
           \/ (GrowBuckets(t) /\ tl[t] = m_items)
           \/ ScanNext(t) \/ InsertProbe(t)
           \/ (Publish(t) /\ growing[t].from # m_items)
  BY <1>3, SeeingMove
<1>4. CASE Find(t) \/ FindAgain(t) \/ FindProbe(t) \/ FindMiss(t)
  BY <1>4, SeeingFind, SeeingFindProbe, SeeingMiss
<1>5. CASE Swap(t) \/ Dispose(t) \/ (Publish(t) /\ growing[t].from = m_items)
  BY <1>5, SeeingSwap, SeeingDispose, SeeingPublish
<1> QED BY <1>1, <1>2, <1>3, <1>4, <1>5 DEF Step

LEMMA SeeingInit == Init => Seeing
<1> SUFFICES ASSUME Init
             PROVE  Seeing
  OBVIOUS
<1>1. \A t \in Threads : pc[t] = "idle" /\ hash[t] = 0 /\ absent[t] = FALSE /\ tl[t] = 1 /\ m_items = 1
  BY DEF Init, m_items
<1>2. \A t \in Threads : Honest(t) /\ Sees(t)
  BY <1>1 DEF Honest, Sees, Buckets, contents
<1> QED BY <1>2, TidyInit DEF Seeing

-----------------------------------------------------------------------------
(***************************************************************************)
(* The operations, as the abstract table has them.                         *)
(***************************************************************************)
Calls == [t \in Threads |-> Call(t)]
TableNow == <<contents, Calls, found, inserted>>
NoCall == [op |-> "none", key |-> 0, absent |-> FALSE]
Busy == [op |-> "busy", key |-> 0, absent |-> FALSE]
Inserting(h) == [op |-> "insert", key |-> h, absent |-> FALSE]
Finding(h, ab) == [op |-> "find", key |-> h, absent |-> ab]

Called(t) ==
  /\ pc[t] = "idle" => Call(t) = NoCall
  /\ pc[t] = "count" => Call(t) = Busy
  /\ pc[t] \in {"find", "miss"} => Call(t) = Finding(hash[t], absent[t])
  /\ pc[t] \notin {"idle", "count", "find", "miss"} /\ hash[t] # 0 => Call(t) = Inserting(hash[t])
  /\ pc[t] \notin {"idle", "count", "find", "miss"} /\ hash[t] = 0 => Call(t) = Busy
AllCalled == \A t \in Threads : Honest(t) => Called(t)

LEMMA CallNames == AllCalled
BY DEF AllCalled, Called, Call, Honest, NoCall, Busy, Inserting, Finding

LEMMA CallNamesThen == AllCalled'
BY CallNames, PTL

LEMMA CallsThen ==
  ASSUME Seeing, Seeing', NEW t \in Threads
  PROVE  Called(t) /\ Called(t)' /\ Calls[t] = Call(t)
BY CallNames, CallNamesThen DEF AllCalled, Seeing, Calls

LEMMA SameCalls == Table!NoCall = NoCall /\ Table!Busy = Busy
BY DEF Table!NoCall, Table!Busy, NoCall, Busy

\* A step of one thread changes its call only.
LEMMA OneCall ==
  ASSUME NEW t \in Threads, Aside(t)
  PROVE  Calls' = [Calls EXCEPT ![t] = Call(t)']
<1>1. ASSUME NEW u \in Threads \ {t}
      PROVE  Call(u)' = Call(u)
  BY DEF Aside, Call
<1> QED BY <1>1 DEF Calls

LEMMA SameCall ==
  ASSUME NEW t \in Threads, Aside(t), Call(t)' = Call(t)
  PROVE  Calls' = Calls
<1>1. \A u \in Threads : Call(u)' = Call(u)
  BY DEF Aside, Call
<1> QED BY <1>1 DEF Calls

LEMMA TableStutters ==
  ASSUME UNCHANGED TableNow
  PROVE  UNCHANGED Table!vars
BY DEF TableNow, Table!vars, Calls

LEMMA DoesCallInsert ==
  ASSUME NEW t \in Threads, NEW k \in Hashes, Calls[t] = NoCall,
         Calls' = [Calls EXCEPT ![t] = Inserting(k)],
         found' = [found EXCEPT ![t] = 0], inserted' = [inserted EXCEPT ![t] = FALSE],
         UNCHANGED contents
  PROVE  Table!Call(t)
BY SameCalls DEF Table!Call, Calls, Inserting

LEMMA DoesCallFind ==
  ASSUME NEW t \in Threads, NEW k \in Hashes, Calls[t] = NoCall, NEW ab, ab = (k \notin contents),
         Calls' = [Calls EXCEPT ![t] = Finding(k, ab)],
         found' = [found EXCEPT ![t] = 0], inserted' = [inserted EXCEPT ![t] = FALSE],
         UNCHANGED contents
  PROVE  Table!Call(t)
<1>1. Calls' = [Calls EXCEPT ![t] = [op |-> "find", key |-> k, absent |-> k \notin contents]]
  BY DEF Finding
<1> QED BY <1>1, SameCalls DEF Table!Call, Calls

LEMMA DoesEnter ==
  ASSUME NEW t \in Threads, Calls[t] = NoCall, Calls' = [Calls EXCEPT ![t] = Busy],
         UNCHANGED <<contents, found, inserted>>
  PROVE  Table!Enter(t)
BY SameCalls DEF Table!Enter, Calls

LEMMA DoesLeave ==
  ASSUME NEW t \in Threads, Calls[t] = Busy, Calls' = [Calls EXCEPT ![t] = NoCall],
         UNCHANGED <<contents, found, inserted>>
  PROVE  Table!Leave(t)
BY SameCalls DEF Table!Leave, Calls

LEMMA DoesInsert ==
  ASSUME NEW t \in Threads, NEW k, NEW new, Calls[t] = Inserting(k), new = (k \notin contents),
         inserted' = [inserted EXCEPT ![t] = new], contents' = contents \cup {k},
         found' = [found EXCEPT ![t] = k],
         NEW c \in {Busy, NoCall}, Calls' = [Calls EXCEPT ![t] = c]
  PROVE  Table!Insert(t)
<1>1. Calls[t].op = "insert" /\ Calls[t].key = k
  BY DEF Inserting
<1>2. \E d \in {Table!Busy, Table!NoCall} : Calls' = [Calls EXCEPT ![t] = d]
  BY SameCalls
<1>3. inserted' = [inserted EXCEPT ![t] = Calls[t].key \notin contents]
  BY <1>1
<1> QED BY <1>1, <1>2, <1>3 DEF Table!Insert, Calls

LEMMA DoesFindHit ==
  ASSUME NEW t \in Threads, NEW k \in contents, NEW ab, Calls[t] = Finding(k, ab),
         found' = [found EXCEPT ![t] = k], Calls' = [Calls EXCEPT ![t] = NoCall],
         UNCHANGED <<contents, inserted>>
  PROVE  Table!FindHit(t)
<1>1. Calls[t].op = "find" /\ Calls[t].key = k
  BY DEF Finding
<1> QED BY <1>1, SameCalls DEF Table!FindHit, Calls

LEMMA DoesFindMiss ==
  ASSUME NEW t \in Threads, NEW k, Calls[t] = Finding(k, TRUE),
         found' = [found EXCEPT ![t] = 0], Calls' = [Calls EXCEPT ![t] = NoCall],
         UNCHANGED <<contents, inserted>>
  PROVE  Table!FindMiss(t)
<1>1. Calls[t].op = "find" /\ Calls[t].absent = TRUE
  BY DEF Finding
<1> QED BY <1>1, SameCalls DEF Table!FindMiss, Calls

LEMMA DoesIterate ==
  ASSUME NEW t \in Threads, NEW k \in contents \cup {0}, Calls[t] = Busy,
         found' = [found EXCEPT ![t] = k], inserted' = [inserted EXCEPT ![t] = FALSE],
         Calls' = [Calls EXCEPT ![t] = NoCall], UNCHANGED contents
  PROVE  Table!Iterate(t)
BY SameCalls DEF Table!Iterate, Calls

LEMMA DoesRemove ==
  ASSUME \A t \in Threads : Calls[t] = NoCall,
         contents' = {} \/ \E k \in contents : contents' = contents \ {k},
         Calls' = Calls, UNCHANGED <<found, inserted>>
  PROVE  Table!Remove
<1>1. Calls = [t \in Threads |-> Table!NoCall]
  BY SameCalls DEF Calls
<1>2. contents' \in {contents \ {k} : k \in contents} \cup {{}}
  OBVIOUS
<1> QED BY <1>1, <1>2 DEF Table!Remove, Calls

LEMMA TableInitially == Init => Table!Init
<1> SUFFICES ASSUME Init
             PROVE  Table!Init
  OBVIOUS
<1>1. m_items = 1 /\ arrays[1] = NewArray(InitialBuckets)
  BY DEF Init, m_items
<1>2. contents = {}
  BY <1>1 DEF contents, Contents, NewArray, Empty, Valid
<1>3. \A t \in Threads : Call(t) = NoCall
  BY DEF Init, Call, NoCall
<1>4. [t \in Threads |-> Call(t)] = [t \in Threads |-> Table!NoCall]
  BY <1>3, SameCalls
<1> QED BY <1>2, <1>4 DEF Init, Table!Init

-----------------------------------------------------------------------------
\* Searching, growing and moving the table are nothing that a caller can see.
LEMMA SearchIsHidden ==
  ASSUME Seeing, Seeing', NEW t \in Threads, Aside(t),
         \/ InsertFails(t) \/ InsertSlot(t) \/ SwapFails(t) \/ Refresh(t) \/ InsertProbe(t)
         \/ FindProbe(t) \/ FindMiss(t) \/ FindAgain(t) \/ ReserveInternal(t) \/ ScanNext(t)
         \/ (GrowBuckets(t) /\ (tl[t] = m_items \/ hash[t] # 0))
         \/ (Grown(t) /\ growing[t].caller # "reserve" /\ hash[t] # 0)
  PROVE  UNCHANGED TableNow
<1>0. LocalsTyped /\ Probing(t)
  BY DEF Seeing, Tidy, Inv, Typed
<1>1. UNCHANGED <<arrays, hash, found, inserted, absent>>
  BY DEF InsertFails, InsertSlot, SwapFails, Refresh, InsertProbe, FindProbe, FindMiss, FindAgain,
         ReserveInternal, ScanNext, GrowBuckets, Grown, Goto, NextProbe, Retry, results
<1>2. \/ pc[t] \in {"find", "miss"} /\ pc'[t] \in {"find", "miss"}
      \/ /\ pc[t] \notin {"idle", "count", "find", "miss"}
         /\ pc'[t] \notin {"idle", "count", "find", "miss"}
  BY <1>0 DEF LocalsTyped, InsertFails, InsertSlot, SwapFails, Refresh, InsertProbe, FindProbe,
         FindMiss, FindAgain, ReserveInternal, BeginDispose, ScanNext, Scanning, GrowBuckets, Grown,
         Goto, NextProbe, Retry, Search
<1>3. Call(t)' = Call(t)
  BY <1>1, <1>2 DEF Call
<1>4. contents' = contents
  BY <1>1, QuietRicher
<1> QED BY <1>1, <1>3, <1>4, SameCall DEF TableNow

LEMMA MoveIsHidden ==
  ASSUME Seeing, Seeing', NEW t \in Threads, Aside(t), contents' = contents,
         Dispose(t) \/ Publish(t)
  PROVE  UNCHANGED TableNow
<1>0. LocalsTyped /\ pc[t] = "dispose"
  BY DEF Seeing, Tidy, Inv, Typed, Dispose, Publish
<1>1. UNCHANGED <<hash, found, inserted, absent>>
  BY DEF Dispose, Publish, results
<1>2. pc'[t] \in {"dispose", "grown"}
  BY <1>0 DEF LocalsTyped, Dispose, Publish, BeginDispose
<1>3. Call(t)' = Call(t)
  BY <1>0, <1>1, <1>2 DEF Call
<1> QED BY <1>1, <1>3, SameCall DEF TableNow

LEMMA CallSeen ==
  ASSUME Seeing, Seeing', NEW t \in Threads, Aside(t), Insert(t) \/ Find(t)
  PROVE  Table!Call(t)
<1>0. /\ LocalsTyped /\ ResultsTyped /\ Called(t) /\ Called(t)' /\ Calls[t] = Call(t)
      /\ Calls' = [Calls EXCEPT ![t] = Call(t)'] /\ pc[t] = "idle" /\ Honest(t)
  BY CallsThen, OneCall DEF Seeing, Tidy, Inv, Typed, Insert, Find
<1>1. UNCHANGED arrays /\ found' = [found EXCEPT ![t] = 0] /\ inserted' = [inserted EXCEPT ![t] = FALSE]
  BY DEF Insert, Find, NoResult
<1>2. contents' = contents
  BY <1>1, QuietRicher
<1>3. PICK k \in Hashes : /\ hash' = [hash EXCEPT ![t] = k]
                          /\ Find(t) => absent' = [absent EXCEPT ![t] = k \notin contents]
  BY DEF Insert, Find
<1>4. hash'[t] = k /\ k # 0
  BY <1>0, <1>3, HashesAssumption DEF LocalsTyped
<1>5. CASE Insert(t)
  <2>1. pc'[t] = "insert"
    BY <1>0, <1>5 DEF Insert, Search, LocalsTyped
  <2>2. Call(t)' = Inserting(k)
    BY <1>0, <1>4, <2>1 DEF Called
  <2>3. Calls[t] = NoCall /\ Calls' = [Calls EXCEPT ![t] = Inserting(k)]
    BY <1>0, <2>2 DEF Called
  <2> QED BY <1>1, <1>2, <2>3, DoesCallInsert
<1>6. CASE Find(t)
  <2>1. pc'[t] = "find"
    BY <1>0, <1>6 DEF Find, Search, LocalsTyped
  <2>2. absent'[t] = (k \notin contents)
    BY <1>0, <1>3, <1>6, Zenon DEF ResultsTyped
  <2>3. Call(t)' = Finding(k, absent'[t])
    BY <1>0, <1>4, <2>1 DEF Called
  <2>4. Calls[t] = NoCall /\ Calls' = [Calls EXCEPT ![t] = Finding(k, absent'[t])]
    BY <1>0, <2>3 DEF Called
  <2> QED BY <1>1, <1>2, <2>2, <2>4, DoesCallFind
<1> QED BY <1>5, <1>6

LEMMA EnterSeen ==
  ASSUME Seeing, Seeing', NEW t \in Threads, Aside(t), Reserve(t) \/ Iterate(t)
  PROVE  Table!Enter(t)
<1>0. /\ LocalsTyped /\ Called(t) /\ Called(t)' /\ Calls[t] = Call(t)
      /\ Calls' = [Calls EXCEPT ![t] = Call(t)'] /\ pc[t] = "idle" /\ Honest(t)
  BY CallsThen, OneCall DEF Seeing, Tidy, Inv, Typed, Reserve, Iterate
<1>1. UNCHANGED <<arrays, hash, found, inserted>>
  BY DEF Reserve, Iterate, results
<1>2. hash[t] = 0 /\ pc'[t] \in {"reserve", "forward", "backward"}
  BY <1>0 DEF Honest, Reserve, Iterate, LocalsTyped
<1>3. Calls[t] = NoCall /\ Call(t)' = Busy
  BY <1>0, <1>1, <1>2 DEF Called
<1>4. contents' = contents
  BY <1>1, QuietRicher
<1> QED BY <1>0, <1>1, <1>3, <1>4, DoesEnter

LEMMA Returned ==
  ASSUME Seeing, Seeing', NEW t \in Threads, Return(t)
  PROVE  Call(t)' = NoCall
<1>1. pc'[t] = "idle"
  BY DEF Seeing, Tidy, Inv, Typed, LocalsTyped, Return
<1> QED BY <1>1, CallsThen DEF Called

\* Growing is over, or there was no need to grow.
LEMMA LeaveSeen ==
  ASSUME Seeing, Seeing', NEW t \in Threads, Aside(t), Return(t),
         \/ Count(t) /\ 2 * m_size < bucketCount(t)
         \/ Grown(t) /\ growing[t].caller = "reserve"
         \/ Grown(t) /\ growing[t].caller # "reserve" /\ hash[t] = 0
         \/ GrowBuckets(t) /\ tl[t] # m_items /\ hash[t] = 0
  PROVE  Table!Leave(t)
<1>0. /\ Called(t) /\ Calls[t] = Call(t) /\ Honest(t)
      /\ Calls' = [Calls EXCEPT ![t] = NoCall]
  BY CallsThen, OneCall, Returned DEF Seeing
<1>1. UNCHANGED <<arrays, found, inserted>>
  BY DEF Count, Grown, GrowBuckets, results
<1>2. pc[t] = "count" \/ (pc[t] \in {"grow", "grown"} /\ hash[t] = 0)
  BY <1>0 DEF Honest, Count, Grown, GrowBuckets
<1>3. Calls[t] = Busy
  BY <1>0, <1>2 DEF Called
<1>4. contents' = contents
  BY <1>1, QuietRicher
<1> QED BY <1>0, <1>1, <1>3, <1>4, DoesLeave

\* The item is counted; what follows is growth.
LEMMA CountIsHidden ==
  ASSUME Seeing, Seeing', NEW t \in Threads, Aside(t), Count(t), ~(2 * m_size < bucketCount(t))
  PROVE  UNCHANGED TableNow
<1>0. LocalsTyped /\ Called(t) /\ Called(t)'
  BY CallsThen DEF Seeing, Tidy, Inv, Typed
<1>1. /\ UNCHANGED <<arrays, found, inserted>> /\ pc[t] = "count" /\ hash' = [hash EXCEPT ![t] = 0]
      /\ Search(t, "grow")
  BY DEF Count, results
<1>2. pc'[t] = "grow" /\ hash'[t] = 0
  BY <1>0, <1>1 DEF Search, LocalsTyped
<1>3. Call(t)' = Call(t)
  BY <1>0, <1>1, <1>2 DEF Called
<1>4. contents' = contents
  BY <1>1, QuietRicher
<1> QED BY <1>1, <1>3, <1>4, SameCall DEF TableNow

\* What has an item in the array of a thread is a key of the table.
LEMMA ItemIsAKey ==
  ASSUME Seeing, NEW t \in Threads, NEW i \in DOMAIN Buckets(t), Valid(Buckets(t)[i])
  PROVE  Buckets(t)[i].hash \in contents /\ Buckets(t)[i].hash # 0
<1>1. Buckets(t)[i].hash \in contents
  BY IsIn DEF Seeing, Sees
<1>2. ItemsHaveHashes(Current)
  BY CurrentIsAnArray DEF Seeing
<1>3. 0 \notin contents
  BY <1>2, ContentsIs, IsIn DEF ItemsHaveHashes
<1> QED BY <1>1, <1>3

LEMMA BucketIsAKey ==
  ASSUME Seeing, NEW t \in Threads, Valid(Bucket(t))
  PROVE  Bucket(t).hash \in contents /\ Bucket(t).hash # 0
<1>1. Here(t) \in DOMAIN Buckets(t)
  BY HereInRange DEF Seeing, Tidy, Inv, Buckets
<1> QED BY <1>1, ItemIsAKey DEF Bucket

LEMMA InsertSeen ==
  ASSUME Seeing, Seeing', NEW t \in Threads, Aside(t), InsertFinds(t) \/ Swap(t)
  PROVE  Table!Insert(t)
<1>0. /\ LocalsTyped /\ Called(t) /\ Called(t)' /\ Calls[t] = Call(t) /\ Probing(t) /\ Tidy
      /\ Calls' = [Calls EXCEPT ![t] = Call(t)'] /\ pc[t] \in {"insert", "swap"}
  BY CallsThen, OneCall DEF Seeing, Tidy, Inv, Typed, InsertFinds, Swap
<1>1. hash[t] # 0 /\ Calls[t] = Inserting(hash[t])
  BY <1>0 DEF Probing, Called
<1>2. found' = [found EXCEPT ![t] = hash[t]]
  BY DEF InsertFinds, Swap
<1>3. CASE InsertFinds(t)
  <2>1. Bucket(t).hash \in {0, hash[t]} /\ Valid(Bucket(t)) /\ UNCHANGED arrays /\ Return(t)
        /\ inserted' = [inserted EXCEPT ![t] = FALSE]
    BY <1>3 DEF InsertFinds, Taken
  <2>2. hash[t] \in contents
    BY <2>1, BucketIsAKey
  <2>3. contents' = contents \cup {hash[t]}
    BY <2>1, <2>2, QuietRicher
  <2>4. Calls' = [Calls EXCEPT ![t] = NoCall]
    BY <1>0, <2>1, Returned
  <2>5. FALSE = (hash[t] \notin contents)
    BY <2>2
  <2> QED BY <1>1, <1>2, <2>1, <2>3, <2>4, <2>5, DoesInsert
<1>4. CASE Swap(t)
  <2>1. contents' = contents \cup {hash[t]} /\ hash[t] \notin contents
    BY <1>0, <1>4, SwapContents
  <2>2. pc'[t] = "count" /\ inserted' = [inserted EXCEPT ![t] = TRUE]
    BY <1>0, <1>4 DEF Swap, Search, LocalsTyped
  <2>3. Calls' = [Calls EXCEPT ![t] = Busy]
    BY <1>0, <2>2 DEF Called
  <2>4. TRUE = (hash[t] \notin contents)
    BY <2>1
  <2> QED BY <1>1, <1>2, <2>1, <2>2, <2>3, <2>4, DoesInsert
<1> QED BY <1>3, <1>4

LEMMA FindHitSeen ==
  ASSUME Seeing, Seeing', NEW t \in Threads, Aside(t), FindHit(t)
  PROVE  Table!FindHit(t)
<1>0. /\ Called(t) /\ Calls[t] = Call(t) /\ Calls' = [Calls EXCEPT ![t] = NoCall]
  BY CallsThen, OneCall, Returned DEF Seeing, FindHit
<1>1. /\ pc[t] = "find" /\ UNCHANGED <<arrays, inserted>> /\ Bucket(t).hash = hash[t] /\ Valid(Bucket(t))
      /\ found' = [found EXCEPT ![t] = hash[t]]
  BY DEF FindHit
<1>2. Calls[t] = Finding(hash[t], absent[t])
  BY <1>0, <1>1 DEF Called
<1>3. hash[t] \in contents
  BY <1>1, BucketIsAKey
<1>4. contents' = contents
  BY <1>1, QuietRicher
<1> QED BY <1>0, <1>1, <1>2, <1>3, <1>4, DoesFindHit

LEMMA FindMissSeen ==
  ASSUME Seeing, Seeing', NEW t \in Threads, Aside(t), FindReturns(t)
  PROVE  Table!FindMiss(t)
<1>0. /\ Called(t) /\ Calls[t] = Call(t) /\ Calls' = [Calls EXCEPT ![t] = NoCall]
      /\ Sees(t) /\ ResultsTyped
  BY CallsThen, OneCall, Returned DEF Seeing, Tidy, Inv, Typed, FindReturns
<1>1. /\ pc[t] = "miss" /\ tl[t] = m_items /\ UNCHANGED <<arrays, inserted>>
      /\ found' = [found EXCEPT ![t] = 0]
  BY DEF FindReturns
<1>2. absent[t] = TRUE
  BY <1>0, <1>1 DEF Sees, ResultsTyped
<1>3. Calls[t] = Finding(hash[t], TRUE)
  BY <1>0, <1>1, <1>2 DEF Called
<1>4. contents' = contents
  BY <1>1, QuietRicher
<1> QED BY <1>0, <1>1, <1>3, <1>4, DoesFindMiss

LEMMA IterateSeen ==
  ASSUME Seeing, Seeing', NEW t \in Threads, Aside(t), ScanEnds(t)
  PROVE  Table!Iterate(t)
<1>0. /\ Called(t) /\ Calls[t] = Call(t) /\ Calls' = [Calls EXCEPT ![t] = NoCall] /\ Honest(t)
  BY CallsThen, OneCall, Returned DEF Seeing, ScanEnds
<1>1. /\ pc[t] \in {"forward", "backward"} /\ UNCHANGED arrays
      /\ inserted' = [inserted EXCEPT ![t] = FALSE]
  BY DEF ScanEnds, Scanning
<1>2. PICK k \in contents \cup {0} : found' = [found EXCEPT ![t] = k]
  <2>1. CASE ScannedOut(t)
    BY <2>1 DEF ScanEnds
  <2>2. CASE ~ScannedOut(t)
    <3>1. PICK i \in DOMAIN Buckets(t) : i = probe[t]
      BY <2>2 DEF ScannedOut
    <3>2. Valid(Buckets(t)[i]) /\ found' = [found EXCEPT ![t] = Buckets(t)[i].hash]
      BY <2>2, <3>1 DEF ScanEnds
    <3> QED BY <3>2, ItemIsAKey
  <2> QED BY <2>1, <2>2
<1>3. Calls[t] = Busy
  BY <1>0, <1>1 DEF Called, Honest
<1>4. contents' = contents
  BY <1>1, QuietRicher
<1> QED BY <1>0, <1>1, <1>2, <1>3, <1>4, DoesIterate

LEMMA RemoveSeen ==
  ASSUME Seeing, Seeing', UnsafeClear \/ \E t \in Threads : UnsafeErase(t)
  PROVE  Table!Remove
<1>1. /\ Unsafe /\ UNCHANGED <<pc, hash, found, inserted, absent>>
  BY DEF UnsafeClear, UnsafeErase, results
<1>2. Calls' = Calls
  BY <1>1 DEF Calls, Call
<1>3. \A t \in Threads : Calls[t] = NoCall
  BY <1>1, CallsThen DEF Unsafe, Called
<1>4. CASE UnsafeClear
  <2>1. m_items' = m_items /\ arrays'[m_items] = NewArray(Size(arrays[m_items]))
    BY <1>4, ClearIs DEF Seeing, Tidy
  <2>2. contents' = {}
    BY <2>1 DEF contents, Contents, NewArray, Empty, Valid
  <2> QED BY <1>1, <1>2, <1>3, <2>2, DoesRemove
<1>5. ASSUME NEW t \in Threads, UnsafeErase(t)
      PROVE  \E k \in contents : contents' = contents \ {k}
  <2>1. PICK c \in {m_items} : \E i \in DOMAIN arrays[c], b \in BucketValues :
          EraseIs(c, i, b) /\ Valid(arrays[c][i])
    <3>1. PICK c \in {m_items} : \E i \in DOMAIN arrays[c], b \in BucketValues : EraseIs(c, i, b)
      BY <1>5, Erased DEF Seeing, Tidy
    <3> QED BY <3>1 DEF EraseIs
  <2>2. PICK i \in DOMAIN arrays[c], b \in BucketValues : EraseIs(c, i, b) /\ Valid(arrays[c][i])
    BY <2>1
  <2>3. PICK a \in Array, x \in {arrays'[m_items]} : a = Current
    BY CurrentIsAnArray DEF Seeing
  <2>4. i \in DOMAIN a /\ x = [a EXCEPT ![i] = b] /\ b.hash = a[i].hash /\ ~Valid(b) /\ Valid(a[i])
        /\ m_items' = m_items
    BY <2>1, <2>2, <2>3 DEF EraseIs, Current
  <2>5. Differ(a, x, i, b) /\ WellProbed(a) /\ ItemsHaveHashes(a)
    BY <2>3, <2>4, ReplacedDiffer, CurrentIsAnArray DEF Seeing
  <2>6. a[i].hash \in Contents(a) /\ Contents(x) = Contents(a) \ {a[i].hash}
    BY <2>4, <2>5, ErasedItemIsOut
  <2>7. contents = Contents(a) /\ contents' = Contents(x)
    BY <2>3, <2>4, ContentsIs DEF contents
  <2> QED BY <2>6, <2>7
<1> QED BY <1>1, <1>2, <1>3, <1>4, <1>5, DoesRemove

-----------------------------------------------------------------------------
(***************************************************************************)
(* The two theorems about what the copy has to do.                         *)
(***************************************************************************)
\* A well probed array has one bucket for every key.
LEMMA OneBucketEach ==
  ASSUME NEW a \in Array, WellProbed(a), ItemsHaveHashes(a)
  PROVE  Cardinality(Present(a)) = Cardinality(Contents(a))
<1> DEFINE f == [i \in Present(a) |-> a[i].hash]
<1>1. IsFiniteSet(Present(a))
  BY PresentFinite
<1>2. \A h \in Contents(a) : \E i \in Present(a) : f[i] = h
  BY IsIn DEF Present
<1>3. \A i \in Present(a) : f[i] \in Contents(a)
  BY IsIn DEF Present
<1>4. ASSUME NEW i \in Present(a), NEW j \in Present(a), f[i] = f[j]
      PROVE  i = j
  <2>1. i \in DOMAIN a /\ j \in DOMAIN a /\ a[j].hash = a[i].hash /\ a[i].hash # 0
    BY <1>4 DEF Present, ItemsHaveHashes
  <2> QED BY <2>1, OneBucket
<1>5. f \in Bijection(Present(a), Contents(a))
  BY <1>2, <1>3, <1>4, Fun_IsBij
<1>6. ExistsBijection(Present(a), Contents(a))
  BY <1>5 DEF ExistsBijection
<1> QED BY <1>1, <1>6, FS_Bijection

LEMMA CopyKeepsTheCount ==
  ASSUME Tidy, Tidy', CopiesAll
  PROVE  CopyCounts
<1>1. Cardinality(Present(Current)) = Cardinality(contents)
  BY CurrentIsAnArray, ContentsIs, OneBucketEach
<1>2. Cardinality(Present(Current')) = Cardinality(contents')
  <2>1. Current' \in Array
    <3>1. (m_items \in Counts)' /\ (arrays \in Seq(Array))'
      BY DEF Tidy, Inv, Typed, ArraysTyped
    <3>2. m_items' \in 1 .. Len(arrays') /\ arrays' \in Seq(Array)
      BY <3>1 DEF m_items, Counts
    <3> QED BY <3>2, ElementOfSeq DEF Current
  <2>2. WellProbed(Current') /\ ItemsHaveHashes(Current')
    BY DEF Tidy, CurrentProbed
  <2>3. contents' = Contents(Current')
    BY DEF contents, Current
  <2> QED BY <2>1, <2>2, <2>3, OneBucketEach
<1> QED BY <1>1, <1>2 DEF CopiesAll, CopyCounts, Current

CountedAndTidy == Sized /\ Tidy

\* insert_internal, reserve_internal, dispose_bucket: m_size and the inserts that have
\* not raised it yet are the items in the current array, however inserts, the
\* threads that dispose the array and the one that replaces it interleave, as long
\* as each new array gets all the items of the old one (the code asserts that they
\* find a bucket) and no erased one: nothing but the copy can get m_size wrong.
THEOREM OnlyTheCopyMiscounts == Spec /\ [][CopiesAll]_vars => []SizeExact
<1>1. CountedAndTidy => SizeExact
  BY DEF CountedAndTidy, Sized
<1>2. Init => CountedAndTidy
  BY SizedInit, TidyInit DEF CountedAndTidy
<1>3. CountedAndTidy /\ [Next]_vars /\ [CopiesAll]_vars => CountedAndTidy'
  <2>1. CountedAndTidy /\ [Next]_vars => Tidy'
    BY TidyStep DEF CountedAndTidy
  <2>2. CountedAndTidy /\ [Next]_vars /\ [CopiesAll]_vars => [Next /\ CopyCounts]_vars
    BY <2>1, CopyKeepsTheCount DEF CountedAndTidy
  <2> QED BY <2>1, <2>2, SizedStep DEF CountedAndTidy
<1> QED BY <1>1, <1>2, <1>3, PTL DEF Spec

LEMMA SeeingNext ==
  ASSUME EraseSettled, Seeing, [Next]_vars, [CopiesAll]_vars
  PROVE  Seeing' /\ [Table!Next]_(Table!vars)
<1>1. Tidy'
  BY TidyStep DEF Seeing
<1>2. CASE UNCHANGED vars
  <2>1. UNCHANGED <<arrays, tl, pc, hash, probe, growing, found, inserted, absent>>
    BY <1>2 DEF vars, results
  <2>2. Seeing'
    <3>1. \A t \in Threads : Aside(t)
      BY <2>1 DEF Aside
    <3>2. \A t \in Threads : (Honest(t) <=> Honest(t)') /\ (Sees(t) <=> Sees(t)')
      BY <2>1 DEF Honest, Sees, At, Buckets, bucketCount, contents, m_items
    <3> QED BY <1>1, <3>2 DEF Seeing
  <2>3. UNCHANGED TableNow
    BY <2>1 DEF TableNow, Calls, Call, contents, m_items
  <2> QED BY <2>2, <2>3, TableStutters
<1>3. CASE CopiesAll /\ UnsafeClear
  <2>1. Seeing'
    BY <1>1, <1>3, SeeingClear
  <2> QED BY <1>3, <2>1, RemoveSeen DEF Table!Next
<1>4. ASSUME NEW t \in Threads, CopiesAll, UnsafeErase(t)
      PROVE  Seeing' /\ [Table!Next]_(Table!vars)
  <2>1. Seeing'
    BY <1>1, <1>4, SeeingErase
  <2> QED BY <1>4, <2>1, RemoveSeen DEF Table!Next
<1>5. ASSUME NEW t \in Threads, CopiesAll,
             Insert(t) \/ Find(t) \/ Reserve(t) \/ Iterate(t) \/ Step(t)
      PROVE  Seeing' /\ [Table!Next]_(Table!vars)
  <2>1. Seeing' /\ Aside(t)
    BY <1>1, <1>5, SeeingSteps
  <2>2. CASE Insert(t) \/ Find(t) \/ Reserve(t) \/ Iterate(t)
    BY <2>1, <2>2, CallSeen, EnterSeen DEF Table!Next
  <2>3. CASE \/ (Count(t) /\ 2 * m_size < bucketCount(t))
             \/ (Grown(t) /\ growing[t].caller = "reserve")
             \/ (Grown(t) /\ growing[t].caller # "reserve" /\ hash[t] = 0)
             \/ (GrowBuckets(t) /\ tl[t] # m_items /\ hash[t] = 0)
    <3>1. Return(t)
      BY <1>1, <2>3, SeeingReturn
    <3>2. Table!Leave(t)
      BY <2>1, <2>3, <3>1, LeaveSeen
    <3> QED BY <2>1, <3>2 DEF Table!Next
  <2>4. CASE InsertFinds(t) \/ Swap(t) \/ FindHit(t) \/ FindReturns(t) \/ ScanEnds(t)
    BY <2>1, <2>4, InsertSeen, FindHitSeen, FindMissSeen, IterateSeen DEF Table!Next
  <2>5. CASE Dispose(t) \/ Publish(t)
    <3>1. contents' = contents
      BY <1>1, <1>5, <2>5, SeeingDispose, SeeingPublish, QuietRicher DEF Publish
    <3> QED BY <2>1, <2>5, <3>1, MoveIsHidden, TableStutters
  <2>6. CASE Count(t) /\ ~(2 * m_size < bucketCount(t))
    BY <2>1, <2>6, CountIsHidden, TableStutters
  <2>7. CASE \/ InsertFails(t) \/ InsertSlot(t) \/ SwapFails(t) \/ Refresh(t) \/ InsertProbe(t)
             \/ FindProbe(t) \/ FindMiss(t) \/ FindAgain(t) \/ ReserveInternal(t) \/ ScanNext(t)
             \/ (GrowBuckets(t) /\ (tl[t] = m_items \/ hash[t] # 0))
             \/ (Grown(t) /\ growing[t].caller # "reserve" /\ hash[t] # 0)
    BY <2>1, <2>7, SearchIsHidden, TableStutters
  <2> QED BY <1>5, <2>2, <2>3, <2>4, <2>5, <2>6, <2>7 DEF Step
<1> QED BY <1>2, <1>3, <1>4, <1>5 DEF Next

\* Every execution of concurrent_unordered_map, with any number of threads inserting,
\* finding, iterating and growing at once, is one that HashTable allows: of two
\* inserts of one key one succeeds, a find misses only what was not there when it
\* was called, and an iterator stands on keys of the table.  Two things are left to
\* the code around it: that the copy of an array neither loses a key nor brings an
\* erased one back, and that keys are erased only when every thread has seen the
\* array in m_items.
THEOREM OnlyTheCopyBreaksTheTable ==
  ASSUME EraseSettled
  PROVE  Spec /\ [][CopiesAll]_vars => KeepsTable
<1>1. Seeing /\ [Next]_vars /\ [CopiesAll]_vars => Seeing' /\ [Table!Next]_(Table!vars)
  BY SeeingNext
<1> QED BY <1>1, SeeingInit, TableInitially, PTL DEF Spec, KeepsTable, Table!Spec
=============================================================================
