---------------------------- MODULE UnorderedMap ----------------------------
(***************************************************************************)
(* concurrent_unordered_map: open addressing in an array of buckets, which *)
(* is replaced by a larger one when it is half full.  A thread works on    *)
(* the array it has seen last (tl), not on the one in m_items.  Before an  *)
(* array is replaced every bucket of it is disposed: from then on nothing  *)
(* can be inserted in it, and whoever comes upon a disposed bucket helps.  *)
(*                                                                         *)
(* One action is one access to a bucket, to m_items or to m_size.  A key   *)
(* is its hash: the code never compares keys.  A bucket has an item if its *)
(* hash is not 0, so items are left out; their memory keeps its bytes      *)
(* after an erase.  Accesses are sequentially consistent.                  *)
(***************************************************************************)
EXTENDS Integers, FiniteSets, Sequences

CONSTANTS
  Threads,
  Hashes,
  InitialBuckets,   \* capacity / max_load_factor(), a power of 2
  ReservedBuckets,  \* newCapacity / max_load_factor() when the program calls reserve
  EraseSettled      \* the program erases and clears only when every thread has
                    \* seen the array, and erases only from one that will not grow

ASSUME ThreadsAssumption == IsFiniteSet(Threads)
ASSUME HashesAssumption == Hashes \subseteq Nat \ {0}
\* What align_value_pow2 returns; a map has at least two buckets.
BucketCounts == {n \in 2 .. 1024 : \E i \in 1 .. 10 : n = 2 ^ i}
ASSUME BucketsAssumption == {InitialBuckets, ReservedBuckets} \subseteq BucketCounts
ASSUME SettledAssumption == EraseSettled \in BOOLEAN

VARIABLES
  arrays,     \* the bucket arrays in the order m_items has held them, the last one
              \* is there now
  m_size,
  tl,         \* tl[t]: the array a thread has seen last
  pc,         \* where a thread is
  hash,       \* the hash of the key of its operation, 0 outside insert and find
  probe,      \* how many buckets its search has passed, or it has disposed
  expected,   \* the bucket it wants to replace
  growing,    \* the array it helps to dispose, the new bucket count, and who asked
  found,      \* the hash of the iterator it got last, 0 for the end
  inserted,   \* the second half of its last result of insert
  absent      \* history: the key it looks for was not there when it called find

vars == <<arrays, m_size, tl, pc, hash, probe, expected, growing, found, inserted, absent>>
results == <<found, inserted, absent>>

Empty == [hash |-> 0, flags |-> {}]
Filled(h) == [hash |-> h, flags |-> {"valid"}]
NoGrowth == [from |-> 0, to |-> 0, caller |-> "none"]
NewArray(n) == [i \in 0 .. n - 1 |-> Empty]
Size(a) == Cardinality(DOMAIN a)

m_items == Len(arrays)
Buckets(t) == arrays[tl[t]]
bucketCount(t) == Size(Buckets(t))

Init ==
  /\ arrays = <<NewArray(InitialBuckets)>>
  /\ m_size = 0
  /\ tl = [t \in Threads |-> 1]
  /\ pc = [t \in Threads |-> "idle"]
  /\ hash = [t \in Threads |-> 0]
  /\ probe = [t \in Threads |-> 0]
  /\ expected = [t \in Threads |-> Empty]
  /\ growing = [t \in Threads |-> NoGrowth]
  /\ found = [t \in Threads |-> 0]
  /\ inserted = [t \in Threads |-> FALSE]
  /\ absent = [t \in Threads |-> FALSE]

-----------------------------------------------------------------------------
\* Where probe p of a hash goes: quadratic, to both sides in turn.
Slot(n, h, p) == (h + (IF p % 2 = 0 THEN p * p ELSE -(p * p))) % n

Here(t) == Slot(bucketCount(t), hash[t], probe[t])
Bucket(t) == Buckets(t)[Here(t)]
Exhausted(t) == probe[t] = bucketCount(t)

Valid(b) == "valid" \in b.flags
Disposed(b) == "disposed" \in b.flags

\* try_insert_in_bucket_array, on the hashes of an array that no other thread has:
\* the first bucket on the way that is empty or has the hash.
TryInsert(hashes, h) ==
  LET Usable(p) == hashes[Slot(Size(hashes), h, p)] \in {0, h}
      Usables == {p \in DOMAIN hashes : Usable(p)}
      first == CHOOSE p \in Usables : \A q \in Usables : p <= q
  IN IF Usables = {} THEN hashes
     ELSE [hashes EXCEPT ![Slot(Size(hashes), h, first)] = h]

\* The new array of n buckets: the items of a, in the order of the buckets of a.
Regrown(a, n) ==
  LET hashes[i \in 0 .. Size(a)] ==
        IF i = 0 THEN [s \in 0 .. n - 1 |-> 0]
        ELSE IF a[i - 1].hash = 0 THEN hashes[i - 1]
        ELSE TryInsert(hashes[i - 1], a[i - 1].hash)
  IN [s \in 0 .. n - 1 |-> IF hashes[Size(a)][s] \in Hashes THEN Filled(hashes[Size(a)][s]) ELSE Empty]

-----------------------------------------------------------------------------
\* What a thread leaves on its stack.
Return(t) ==
  /\ pc' = [pc EXCEPT ![t] = "idle"]
  /\ hash' = [hash EXCEPT ![t] = 0]
  /\ probe' = [probe EXCEPT ![t] = 0]
  /\ expected' = [expected EXCEPT ![t] = Empty]
  /\ growing' = [growing EXCEPT ![t] = NoGrowth]

\* A search starts at the first bucket of the array the thread knows.
Search(t, how) ==
  /\ pc' = [pc EXCEPT ![t] = how]
  /\ probe' = [probe EXCEPT ![t] = 0]
  /\ expected' = [expected EXCEPT ![t] = Empty]
  /\ growing' = [growing EXCEPT ![t] = NoGrowth]

\* The caller has dropped its last iterator.
NoResult(t) ==
  /\ found' = [found EXCEPT ![t] = 0]
  /\ inserted' = [inserted EXCEPT ![t] = FALSE]

Goto(t, where) ==
  /\ pc' = [pc EXCEPT ![t] = where]
  /\ UNCHANGED <<hash, probe, expected, growing>>

NextProbe(t) ==
  /\ probe' = [probe EXCEPT ![t] = @ + 1]
  /\ UNCHANGED <<arrays, m_size, tl, pc, hash, expected, growing, results>>

-----------------------------------------------------------------------------
Insert(t) ==
  /\ pc[t] = "idle"
  /\ \E h \in Hashes : hash' = [hash EXCEPT ![t] = h]
  /\ Search(t, "insert")
  /\ NoResult(t)
  /\ UNCHANGED <<arrays, m_size, tl, absent>>

\* find_slot_or_bucket: one bucket.
Taken(t) == Bucket(t).hash \notin {0, hash[t]}

InsertProbe(t) ==
  /\ pc[t] = "insert" /\ ~Exhausted(t) /\ Taken(t)
  /\ NextProbe(t)

\* The search came to an end, or to a bucket that is to be moved: the item does not
\* go into this array.
InsertFails(t) ==
  /\ pc[t] = "insert"
  /\ Exhausted(t) \/ (~Taken(t) /\ Disposed(Bucket(t)))
  /\ Goto(t, "refresh")
  /\ UNCHANGED <<arrays, m_size, tl, results>>

\* The key is there: the new item is destroyed.
InsertFinds(t) ==
  /\ pc[t] = "insert" /\ ~Exhausted(t) /\ ~Taken(t)
  /\ ~Disposed(Bucket(t)) /\ Valid(Bucket(t))
  /\ found' = [found EXCEPT ![t] = hash[t]]
  /\ inserted' = [inserted EXCEPT ![t] = FALSE]
  /\ Return(t)
  /\ UNCHANGED <<arrays, m_size, tl, absent>>

InsertSlot(t) ==
  /\ pc[t] = "insert" /\ ~Exhausted(t) /\ ~Taken(t)
  /\ ~Disposed(Bucket(t)) /\ ~Valid(Bucket(t))
  /\ expected' = [expected EXCEPT ![t] = Bucket(t)]
  /\ pc' = [pc EXCEPT ![t] = "swap"]
  /\ UNCHANGED <<arrays, m_size, tl, hash, probe, growing, results>>

\* Mutant: the bucket is stored, whatever has become of it.
Swap_Blindly(t) ==
  /\ pc[t] = "swap"
  /\ arrays' = [arrays EXCEPT ![tl[t]][Here(t)] = Filled(hash[t])]
  /\ found' = [found EXCEPT ![t] = hash[t]]
  /\ inserted' = [inserted EXCEPT ![t] = TRUE]
  /\ Search(t, "count")
  /\ UNCHANGED <<m_size, tl, hash, absent>>

\* The bucket is swapped if it is still the one that was read, else the search
\* starts again.
Swap(t) ==
  /\ pc[t] = "swap" /\ Bucket(t) = expected[t]
  /\ arrays' = [arrays EXCEPT ![tl[t]][Here(t)] = Filled(hash[t])]
  /\ found' = [found EXCEPT ![t] = hash[t]]
  /\ inserted' = [inserted EXCEPT ![t] = TRUE]
  /\ Search(t, "count")
  /\ UNCHANGED <<m_size, tl, hash, absent>>

SwapFails(t) ==
  /\ pc[t] = "swap" /\ Bucket(t) # expected[t]
  /\ Search(t, "insert")
  /\ UNCHANGED <<arrays, m_size, tl, hash, results>>

\* m_size is raised.  When it was half of the bucket count the array has to grow;
\* the hash is not needed any more.
Count(t) ==
  /\ pc[t] = "count"
  /\ m_size' = m_size + 1
  /\ IF 2 * m_size < bucketCount(t)
       THEN Return(t)
       ELSE /\ hash' = [hash EXCEPT ![t] = 0]
            /\ Search(t, "grow")
  /\ UNCHANGED <<arrays, tl, results>>

-----------------------------------------------------------------------------
\* refresh_tl after a failed attempt: another attempt, or the array has to grow.
Refresh(t) ==
  /\ pc[t] = "refresh"
  /\ IF tl[t] = m_items
       THEN Goto(t, "grow") /\ UNCHANGED tl
       ELSE Search(t, "insert") /\ UNCHANGED hash /\ tl' = [tl EXCEPT ![t] = m_items]
  /\ UNCHANGED <<arrays, m_size, results>>

\* After growing, an insert that has not taken effect tries again.
Retry(t) == IF hash[t] = 0 THEN Return(t) ELSE Search(t, "insert") /\ UNCHANGED hash

\* grow_buckets: nothing to do if another thread has replaced the array.
GrowBuckets(t) ==
  /\ pc[t] = "grow"
  /\ IF tl[t] = m_items
       THEN /\ growing' = [growing EXCEPT
                             ![t] = [from |-> 0, to |-> 2 * bucketCount(t), caller |-> "grow_buckets"]]
            /\ pc' = [pc EXCEPT ![t] = "reserve"]
            /\ UNCHANGED <<tl, hash, probe, expected>>
       ELSE tl' = [tl EXCEPT ![t] = m_items] /\ Retry(t)
  /\ UNCHANGED <<arrays, m_size, results>>

\* reserve, called by the program.
Reserve(t) ==
  /\ pc[t] = "idle"
  /\ growing' = [growing EXCEPT ![t] = [from |-> 0, to |-> ReservedBuckets, caller |-> "reserve"]]
  /\ pc' = [pc EXCEPT ![t] = "reserve"]
  /\ UNCHANGED <<arrays, m_size, tl, hash, probe, expected, results>>

\* reserve_internal: the current array is loaded, and if it is too small, disposed.
BeginDispose(t) ==
  IF Size(arrays[m_items]) < growing[t].to
    THEN /\ growing' = [growing EXCEPT ![t].from = m_items]
         /\ probe' = [probe EXCEPT ![t] = 0]
         /\ pc' = [pc EXCEPT ![t] = "dispose"]
    ELSE /\ pc' = [pc EXCEPT ![t] = "grown"]
         /\ UNCHANGED <<growing, probe>>

ReserveInternal(t) ==
  /\ pc[t] = "reserve"
  /\ BeginDispose(t)
  /\ UNCHANGED <<arrays, m_size, tl, hash, expected, results>>

\* dispose_bucket: the flag is swapped in, whatever else the bucket holds.
Dispose(t) ==
  /\ pc[t] = "dispose"
  /\ probe[t] \in DOMAIN arrays[growing[t].from]
  /\ arrays' = [arrays EXCEPT ![growing[t].from][probe[t]].flags = @ \cup {"disposed"}]
  /\ probe' = [probe EXCEPT ![t] = @ + 1]
  /\ UNCHANGED <<m_size, tl, pc, hash, expected, growing, results>>

\* Mutant: the last bucket is left out.
Publish_Early(t) ==
  /\ pc[t] = "dispose"
  /\ probe[t] + 1 \notin DOMAIN arrays[growing[t].from]
  /\ IF growing[t].from = m_items
       THEN /\ arrays' = Append(arrays, Regrown(arrays[m_items], growing[t].to))
            /\ pc' = [pc EXCEPT ![t] = "grown"]
            /\ UNCHANGED <<growing, probe>>
       ELSE BeginDispose(t) /\ UNCHANGED arrays
  /\ UNCHANGED <<m_size, tl, hash, expected, results>>

\* Nothing can change a disposed array, so the copy and the swap are one action.
Publish(t) ==
  /\ pc[t] = "dispose"
  /\ probe[t] \notin DOMAIN arrays[growing[t].from]
  /\ IF growing[t].from = m_items
       THEN /\ arrays' = Append(arrays, Regrown(arrays[m_items], growing[t].to))
            /\ pc' = [pc EXCEPT ![t] = "grown"]
            /\ UNCHANGED <<growing, probe>>
       ELSE BeginDispose(t) /\ UNCHANGED arrays
  /\ UNCHANGED <<m_size, tl, hash, expected, results>>

\* The caller goes on: grow_buckets with a last refresh_tl.
Grown(t) ==
  /\ pc[t] = "grown"
  /\ IF growing[t].caller = "reserve"
       THEN Return(t) /\ UNCHANGED tl
       ELSE tl' = [tl EXCEPT ![t] = m_items] /\ Retry(t)
  /\ UNCHANGED <<arrays, m_size, results>>

-----------------------------------------------------------------------------
\* The keys in the table: those of the array in m_items.
Contents(a) == {a[i].hash : i \in {j \in DOMAIN a : Valid(a[j])}}
contents == Contents(arrays[m_items])

Find(t) ==
  /\ pc[t] = "idle"
  /\ \E h \in Hashes : /\ hash' = [hash EXCEPT ![t] = h]
                       /\ absent' = [absent EXCEPT ![t] = h \notin contents]
  /\ Search(t, "find")
  /\ NoResult(t)
  /\ UNCHANGED <<arrays, m_size, tl>>

\* find_bucket: one bucket.  An empty bucket does not end the search.
FindProbe(t) ==
  /\ pc[t] = "find" /\ ~Exhausted(t) /\ Bucket(t).hash # hash[t]
  /\ NextProbe(t)

FindHit(t) ==
  /\ pc[t] = "find" /\ ~Exhausted(t)
  /\ Bucket(t).hash = hash[t] /\ Valid(Bucket(t))
  /\ found' = [found EXCEPT ![t] = hash[t]]
  /\ absent' = [absent EXCEPT ![t] = FALSE]
  /\ Return(t)
  /\ UNCHANGED <<arrays, m_size, tl, inserted>>

FindMiss(t) ==
  /\ pc[t] = "find"
  /\ Exhausted(t) \/ (Bucket(t).hash = hash[t] /\ ~Valid(Bucket(t)))
  /\ Goto(t, "miss")
  /\ UNCHANGED <<arrays, m_size, tl, results>>

\* Mutant: the array is not compared with the one in m_items.
FindReturns_Stale(t) ==
  /\ pc[t] = "miss"
  /\ found' = [found EXCEPT ![t] = 0]
  /\ absent' = [absent EXCEPT ![t] = FALSE]
  /\ Return(t)
  /\ UNCHANGED <<arrays, m_size, tl, inserted>>

\* The key is missing only if the array is still the one in m_items.
FindReturns(t) ==
  /\ pc[t] = "miss" /\ tl[t] = m_items
  /\ found' = [found EXCEPT ![t] = 0]
  /\ absent' = [absent EXCEPT ![t] = FALSE]
  /\ Return(t)
  /\ UNCHANGED <<arrays, m_size, tl, inserted>>

FindAgain(t) ==
  /\ pc[t] = "miss" /\ tl[t] # m_items
  /\ tl' = [tl EXCEPT ![t] = m_items]
  /\ Search(t, "find")
  /\ UNCHANGED <<arrays, m_size, hash, results>>

-----------------------------------------------------------------------------
\* begin, ++, rbegin and --: scan_for_bucket goes on from the bucket of the iterator,
\* or from the first or last but one, in the array that is there now.
Iterate(t) ==
  /\ pc[t] = "idle"
  /\ found[t] \in contents \cup {0}
  /\ tl' = [tl EXCEPT ![t] = m_items]
  /\ LET a == arrays[m_items] IN
     \E d \in {1, -1} :
       \E i \in IF found[t] = 0 THEN {(Size(a) - 1 + d) % Size(a)}
                                ELSE {j \in DOMAIN a : a[j].hash = found[t]} :
         /\ probe' = [probe EXCEPT ![t] = i + d]
         /\ pc' = [pc EXCEPT ![t] = IF d = 1 THEN "forward" ELSE "backward"]
  /\ UNCHANGED <<arrays, m_size, hash, expected, growing, results>>

Scanning(t) == pc[t] \in {"forward", "backward"}
ScannedOut(t) == probe[t] \notin DOMAIN Buckets(t)

ScanNext(t) ==
  /\ Scanning(t) /\ ~ScannedOut(t)
  /\ ~Valid(Buckets(t)[probe[t]])
  /\ probe' = [probe EXCEPT ![t] = IF pc[t] = "forward" THEN @ + 1 ELSE @ - 1]
  /\ UNCHANGED <<arrays, m_size, tl, pc, hash, expected, growing, results>>

ScanEnds(t) ==
  /\ Scanning(t)
  /\ ~ScannedOut(t) => Valid(Buckets(t)[probe[t]])
  /\ found' = [found EXCEPT ![t] = IF ScannedOut(t) THEN 0 ELSE Buckets(t)[probe[t]].hash]
  /\ inserted' = [inserted EXCEPT ![t] = FALSE]
  /\ Return(t)
  /\ UNCHANGED <<arrays, m_size, tl, absent>>

-----------------------------------------------------------------------------
\* Not concurrency safe: nobody is inside an operation.
Settled == EraseSettled => \A t \in Threads : tl[t] = m_items
Unsafe == \A t \in Threads : pc[t] = "idle"

UnsafeErase(t) ==
  /\ Unsafe /\ Settled
  /\ EraseSettled => Size(arrays[m_items]) >= ReservedBuckets
  /\ \E i \in DOMAIN arrays[m_items] :
       /\ Valid(arrays[m_items][i])
       /\ arrays' = [arrays EXCEPT ![m_items][i].flags = (@ \ {"valid"}) \cup {"deleted"}]
  /\ m_size' = m_size - 1
  /\ tl' = [tl EXCEPT ![t] = m_items]
  /\ UNCHANGED <<pc, hash, probe, expected, growing, results>>

UnsafeClear ==
  /\ Unsafe /\ Settled
  /\ arrays' = [arrays EXCEPT ![m_items] = NewArray(Size(@))]
  /\ m_size' = 0
  /\ UNCHANGED <<tl, pc, hash, probe, expected, growing, results>>

-----------------------------------------------------------------------------
Step(t) ==
  \/ InsertProbe(t) \/ InsertFails(t) \/ InsertFinds(t) \/ InsertSlot(t)
  \/ Swap(t) \/ SwapFails(t) \/ Count(t) \/ Refresh(t)
  \/ GrowBuckets(t) \/ ReserveInternal(t) \/ Dispose(t) \/ Publish(t) \/ Grown(t)
  \/ FindProbe(t) \/ FindHit(t) \/ FindMiss(t) \/ FindReturns(t) \/ FindAgain(t)
  \/ ScanNext(t) \/ ScanEnds(t)

Next ==
  \/ UnsafeClear
  \/ \E t \in Threads : Insert(t) \/ Find(t) \/ Reserve(t) \/ Iterate(t) \/ UnsafeErase(t) \/ Step(t)

Spec == Init /\ [][Next]_vars

-----------------------------------------------------------------------------
\* The map is what it promises to be, with all operations concurrent and while
\* the array is replaced: an insert takes effect when its bucket is swapped in, a
\* key that was inserted is found by every later find and never inserted again,
\* and growing neither loses a key nor brings one back.
Call(t) ==
  [op |-> IF pc[t] = "idle" THEN "none"
          ELSE IF pc[t] \in {"find", "miss"} THEN "find"
          ELSE IF hash[t] # 0 /\ pc[t] # "count" THEN "insert"
          ELSE "busy",
   key |-> IF pc[t] = "count" THEN 0 ELSE hash[t],
   absent |-> absent[t]]
Table == INSTANCE HashTable WITH End <- 0, call <- [t \in Threads |-> Call(t)]
KeepsTable == Table!Spec

\* insert_internal, reserve_internal: m_size counts the items, but for those whose
\* insert has not raised it yet, and no two buckets of an array have one item:
\* not when the array is replaced while inserts are between their bucket and
\* m_size, and not after an erase.
SizeExact ==
  LET present == {i \in DOMAIN arrays[m_items] : Valid(arrays[m_items][i])}
  IN m_size + Cardinality({t \in Threads : pc[t] = "count"}) = Cardinality(present)

\* reserve_internal: an array leaves m_items only with every bucket disposed, so that
\* no insert can go into it any more.
OldArraysFrozen ==
  \A a \in 1 .. m_items - 1 : \A i \in DOMAIN arrays[a] : Disposed(arrays[a][i])
=============================================================================
