------------------------ MODULE AtomicSharedPtrProofs ------------------------
(***************************************************************************)
(* Proof that the comment on LocalRefFillBoundary is right for every       *)
(* number of threads up to the boundary: a thread that takes a reference   *)
(* from the word finds one.                                                *)
(*                                                                         *)
(* The argument counts the threads that are about to fill the word that    *)
(* is there now: the references in the word and those threads together     *)
(* are never fewer than the boundary.                                      *)
(*                                                                         *)
(* The second part proves that the counters of the control blocks are      *)
(* exact, and the third that the users see SharedObjects.                  *)
(***************************************************************************)
EXTENDS AtomicSharedPtr, FiniteSetTheorems, TLAPS

\* The types of everything that the counters of the control blocks do not enter.
WordTypes ==
  /\ m_storage \in Words
  /\ own \in [Threads -> SharedPtrs]
  /\ expected \in [Threads -> Words]
  /\ pc \in [Threads -> Pcs]
  /\ op \in [Threads -> Ops \cup {"none"}]
  /\ word \in [Threads -> Words]
  /\ loaded \in [Threads -> Words]
  /\ added \in [Threads -> 0 .. DefaultLocalRefs]

\* t took a reference of the word that is there now and is going to fill it.
WillFill(t) ==
  /\ SamePointer(loaded[t], m_storage)
  /\ \/ pc[t] \in {"incref", "fill"}
     \/ /\ pc[t] = "decref"
        /\ SamePointer(word[t], loaded[t])
        /\ word[t].refs < LocalRefFillBoundary

Fillers == {t \in Threads : WillFill(t)}

FillersCover == m_storage.refs + Cardinality(Fillers) >= LocalRefFillBoundary

\* What is going to be installed was filled up before.
InstallsFull ==
  \A t \in Threads : pc[t] \in {"begin", "install"} => own[t].refs >= LocalRefFillBoundary

IInv == WordTypes /\ FillersCover /\ InstallsFull

\* The number of fillers, with or without one thread more.
LEMMA FillersCount ==
  /\ IsFiniteSet(Fillers) /\ Cardinality(Fillers) \in Nat
  /\ \A t \in Threads : t \notin Fillers =>
       /\ Cardinality(Fillers \cup {t}) = Cardinality(Fillers) + 1
       /\ Cardinality(Fillers) < LocalRefFillBoundary
<1>1. IsFiniteSet(Threads)
  BY SharedPtrAssumption
<1>2. IsFiniteSet(Fillers) /\ Cardinality(Fillers) \in Nat
  BY <1>1, FS_Subset, FS_CardinalityType DEF Fillers
<1>3. ASSUME NEW t \in Threads, t \notin Fillers
      PROVE  /\ Cardinality(Fillers \cup {t}) = Cardinality(Fillers) + 1
             /\ Cardinality(Fillers) < LocalRefFillBoundary
  <2>1. Cardinality(Fillers \cup {t}) = Cardinality(Fillers) + 1
    BY <1>2, <1>3, FS_AddElement
  <2>2. Fillers \cup {t} \subseteq Threads
    BY DEF Fillers
  <2>3. Cardinality(Fillers \cup {t}) <= Cardinality(Threads) /\ Cardinality(Threads) \in Nat
    BY <1>1, <2>2, FS_Subset, FS_CardinalityType
  <2> QED
    BY <1>2, <2>1, <2>3, SharedPtrAssumption
<1> QED
  BY <1>2, <1>3

\* A word from which a thread that fills nothing takes a reference has one.
LEMMA ReferenceForTaker ==
  ASSUME IInv, NEW t \in Threads, pc[t] \notin {"incref", "fill", "decref"}
  PROVE  m_storage.refs \in Nat /\ m_storage.refs > 0 /\ t \notin Fillers
<1>1. t \notin Fillers
  BY DEF Fillers, WillFill
<1>2. m_storage.refs \in Nat
  BY DEF IInv, WordTypes, Words
<1>3. Cardinality(Fillers) < LocalRefFillBoundary /\ Cardinality(Fillers) \in Nat
  BY <1>1, FillersCount
<1> QED
  BY <1>1, <1>2, <1>3, SharedPtrAssumption DEF IInv, FillersCover

LEMMA InitInv == Init => IInv
<1> SUFFICES ASSUME Init PROVE IInv
  OBVIOUS
<1>1. WordTypes
  BY SharedPtrAssumption
     DEF Init, WordTypes, Words, Pointers, SharedPtrs, Pcs, EmptyWord, EmptyPtr
<1>2. m_storage.refs = DefaultLocalRefs
  BY DEF Init, EmptyWord
<1>3. Cardinality(Fillers) \in Nat
  BY FillersCount
<1> QED
  BY <1>1, <1>2, <1>3, SharedPtrAssumption DEF IInv, FillersCover, InstallsFull, Init

\* A step that leaves the word alone and changes no filler keeps the count.
LEMMA CoverKept ==
  ASSUME FillersCover, m_storage' = m_storage,
         \A t \in Threads : WillFill(t)' <=> WillFill(t)
  PROVE  FillersCover'
<1>1. Fillers' = Fillers
  BY DEF Fillers
<1> QED
  BY <1>1 DEF FillersCover

\* A step after which the word has enough references.
LEMMA CoverFull ==
  ASSUME m_storage'.refs \in Nat, m_storage'.refs >= LocalRefFillBoundary
  PROVE  FillersCover'
<1>1. Cardinality(Fillers)' \in Nat
  <2>1. IsFiniteSet(Fillers')
    BY SharedPtrAssumption, FS_Subset DEF Fillers
  <2> QED
    BY <2>1, FS_CardinalityType
<1> QED
  BY <1>1, SharedPtrAssumption DEF FillersCover

-----------------------------------------------------------------------------
(* Each action keeps the invariant. *)

\* Taking one reference from a word that has one.
LEMMA TakeReferenceStep ==
  ASSUME IInv, NEW t \in Threads, pc[t] \notin {"incref", "fill", "decref"}, TakeReference(t)
  PROVE  /\ FillersCover' /\ m_storage' \in Words /\ word' \in [Threads -> Words]
         /\ loaded' \in [Threads -> Words] /\ pc' \in [Threads -> Pcs]
<1>0. WordTypes
  BY DEF IInv
<1>1. m_storage.refs \in Nat /\ m_storage.refs > 0 /\ t \notin Fillers
  BY ReferenceForTaker
<1>2. /\ m_storage \in [cb : Pointers, version : 0 .. Versions - 1, refs : 0 .. DefaultLocalRefs]
      /\ DefaultLocalRefs \in Nat /\ LocalRefFillBoundary \in Nat /\ LocalRefFillBoundary <= DefaultLocalRefs
      /\ Cardinality(Threads) \in Nat
  BY <1>0, SharedPtrAssumption, FS_CardinalityType DEF WordTypes, Words
<1>3. OneLess(m_storage) = [m_storage EXCEPT !.refs = m_storage.refs - 1]
  BY <1>1 DEF OneLess
<1>4. /\ OneLess(m_storage) \in Words
      /\ OneLess(m_storage).cb = m_storage.cb
      /\ OneLess(m_storage).version = m_storage.version
      /\ OneLess(m_storage).refs = m_storage.refs - 1
  BY <1>1, <1>2, <1>3 DEF Words
<1>5. LocalRefFillBoundary >= 1 /\ DefaultLocalRefs >= 1
  <2>1. Cardinality(Fillers) < LocalRefFillBoundary /\ Cardinality(Fillers) \in Nat
    BY <1>1, FillersCount
  <2> QED
    BY <1>2, <2>1
<1>6. [m_storage EXCEPT !.refs = 1] \in Words
  BY <1>2, <1>5 DEF Words
<1>7. m_storage' \in Words /\ word' \in [Threads -> Words] /\ loaded' \in [Threads -> Words]
  BY <1>0, <1>4, <1>6 DEF TakeReference, WordTypes
<1>8. pc' \in [Threads -> Pcs]
  BY <1>0 DEF TakeReference, WordTypes, Pcs
<1>9. CASE m_storage.refs - 1 >= LocalRefFillBoundary
  <2>1. m_storage'.refs = m_storage.refs - 1
    BY <1>4 DEF TakeReference
  <2> QED
    BY <1>1, <1>7, <1>8, <1>9, <2>1, CoverFull
<1>10. CASE m_storage.refs - 1 < LocalRefFillBoundary
  <2>1. WillFill(t)'
    <3>1. pc'[t] = "incref" /\ loaded'[t] = [m_storage EXCEPT !.refs = 1] /\ m_storage' = OneLess(m_storage)
      BY <1>0, <1>4, <1>10 DEF TakeReference, WordTypes
    <3>2. loaded'[t].cb = m_storage.cb /\ loaded'[t].version = m_storage.version
      BY <1>2, <3>1
    <3> QED
      BY <1>4, <3>1, <3>2 DEF WillFill, SamePointer
  <2>2. \A u \in Threads : u # t => (WillFill(u)' <=> WillFill(u))
    BY <1>0, <1>4 DEF TakeReference, WordTypes, WillFill, SamePointer
  <2>3. Fillers' = Fillers \cup {t}
    BY <2>1, <2>2 DEF Fillers
  <2>4. Cardinality(Fillers') = Cardinality(Fillers) + 1 /\ Cardinality(Fillers) \in Nat
    BY <1>1, <2>3, FillersCount
  <2>5. m_storage'.refs = m_storage.refs - 1
    BY <1>4 DEF TakeReference
  <2> QED
    BY <1>1, <1>2, <1>7, <1>8, <2>4, <2>5 DEF FillersCover, IInv
<1> QED
  BY <1>1, <1>2, <1>9, <1>10

LEMMA LoadStep ==
  ASSUME IInv, NEW t \in Threads, Load(t) \/ Capture(t)
  PROVE  IInv'
<1>0. WordTypes
  BY DEF IInv
<1>1. pc[t] \notin {"incref", "fill", "decref"} /\ TakeReference(t)
  BY DEF Load, Capture
<1>2. FillersCover' /\ m_storage' \in Words /\ word' \in [Threads -> Words]
      /\ loaded' \in [Threads -> Words] /\ pc' \in [Threads -> Pcs]
  BY <1>1, TakeReferenceStep
<1>3. own' = own /\ expected' = expected /\ op' = op /\ added' = added
  BY DEF Load, Capture
<1>4. WordTypes'
  BY <1>0, <1>2, <1>3 DEF WordTypes
<1>5. \A u \in Threads : pc'[u] \in {"begin", "install"} => pc[u] \in {"begin", "install"}
  BY <1>0, <1>1 DEF TakeReference, WordTypes
<1> QED
  BY <1>2, <1>3, <1>4, <1>5 DEF IInv, InstallsFull

\* What a thread does with its own two pointers.
LEMMA PointersStep ==
  ASSUME IInv, NEW t \in Threads,
         \/ \E o \in Objects : MakeShared(t, o)
         \/ \E u \in Threads : CopyTo(t, u)
         \/ MoveExpected(t) \/ ReleaseOwn(t) \/ ReleaseExpected(t) \/ ReadRaw(t)
  PROVE  IInv'
<1>0. WordTypes /\ DefaultLocalRefs \in Nat
  BY SharedPtrAssumption DEF IInv
<1>1. m_storage' = m_storage /\ pc' = pc /\ op' = op /\ word' = word /\ loaded' = loaded /\ added' = added
  BY DEF MakeShared, CopyTo, MoveExpected, ReleaseOwn, ReleaseExpected, ReadRaw
<1>2. FillersCover'
  BY <1>1, CoverKept DEF IInv, WillFill, SamePointer
<1>3. \E u \in Threads : pc[u] = "idle" /\ \A k \in Threads : k # u => own'[k] = own[k]
  BY <1>0 DEF MakeShared, CopyTo, MoveExpected, ReleaseOwn, ReleaseExpected, ReadRaw, WordTypes
<1>4. InstallsFull'
  BY <1>1, <1>3 DEF IInv, InstallsFull
<1>5. own' \in [Threads -> SharedPtrs]
  <2>1. CASE \E o \in Objects : MakeShared(t, o)
    BY <1>0, <2>1 DEF MakeShared, WordTypes, SharedPtrs, Pointers
  <2>2. CASE \E u \in Threads : CopyTo(t, u)
    BY <1>0, <2>2 DEF CopyTo, WordTypes, SharedPtrs
  <2>3. CASE MoveExpected(t)
    BY <1>0, <2>3 DEF MoveExpected, WordTypes, SharedPtrs, Words
  <2>4. CASE ReleaseOwn(t)
    BY <1>0, <2>4 DEF ReleaseOwn, WordTypes, SharedPtrs, EmptyPtr, Pointers
  <2>5. CASE ReleaseExpected(t) \/ ReadRaw(t)
    BY <1>0, <2>5 DEF ReleaseExpected, ReadRaw, WordTypes
  <2> QED
    BY <2>1, <2>2, <2>3, <2>4, <2>5
<1>6. expected' \in [Threads -> Words]
  <2>1. EmptyWord \in Words
    BY <1>0, SharedPtrAssumption DEF EmptyWord, Words, Pointers
  <2>2. [m_storage EXCEPT !.refs = 0] \in Words
    BY <1>0 DEF WordTypes, Words
  <2> QED
    BY <1>0, <2>1, <2>2 DEF MakeShared, CopyTo, MoveExpected, ReleaseOwn, ReleaseExpected, ReadRaw, WordTypes
<1> QED
  BY <1>0, <1>1, <1>2, <1>4, <1>5, <1>6 DEF IInv, WordTypes

\* The loop of try_fill_local_refs.
LEMMA FillStep ==
  ASSUME IInv, NEW t \in Threads, BuyReferences(t) \/ Fill(t) \/ SellReferences(t)
  PROVE  IInv'
<1>0. WordTypes /\ DefaultLocalRefs \in Nat /\ LocalRefFillBoundary \in Nat /\ LocalRefFillBoundary <= DefaultLocalRefs
  BY SharedPtrAssumption DEF IInv
<1>1. own' = own /\ expected' = expected /\ op' = op /\ loaded' = loaded
  BY DEF BuyReferences, Fill, FillWord, FillFailsSpuriously, SellReferences
<1>2. InstallsFull'
  BY <1>0, <1>1
     DEF IInv, InstallsFull, BuyReferences, Fill, FillWord, FillFailsSpuriously, SellReferences, WordTypes
<1>3. pc' \in [Threads -> Pcs] /\ word' \in [Threads -> Words]
  BY <1>0 DEF BuyReferences, Fill, FillWord, FillFailsSpuriously, SellReferences, WordTypes, Pcs
<1>4. CASE BuyReferences(t)
  <2>1. word[t].refs \in 0 .. DefaultLocalRefs
    BY <1>0 DEF WordTypes, Words
  <2>2. added' \in [Threads -> 0 .. DefaultLocalRefs]
    BY <1>0, <1>4, <2>1 DEF BuyReferences, WordTypes
  <2>3. m_storage' = m_storage /\ \A u \in Threads : WillFill(u)' <=> WillFill(u)
    BY <1>0, <1>4 DEF BuyReferences, WordTypes, WillFill, SamePointer
  <2>4. FillersCover'
    BY <2>3, CoverKept DEF IInv
  <2> QED
    BY <1>0, <1>1, <1>2, <1>3, <2>2, <2>3, <2>4 DEF IInv, WordTypes
<1>5. CASE SellReferences(t)
  <2>1. added' \in [Threads -> 0 .. DefaultLocalRefs]
    BY <1>0, <1>5 DEF SellReferences, WordTypes
  <2>2. m_storage' = m_storage /\ \A u \in Threads : WillFill(u)' <=> WillFill(u)
    BY <1>0, <1>5 DEF SellReferences, WordTypes, WillFill, SamePointer
  <2>3. FillersCover'
    BY <2>2, CoverKept DEF IInv
  <2> QED
    BY <1>0, <1>1, <1>2, <1>3, <2>1, <2>2, <2>3 DEF IInv, WordTypes
<1>6. CASE FillWord(t) /\ m_storage = word[t]
  <2>1. m_storage' = [m_storage EXCEPT !.refs = DefaultLocalRefs] /\ m_storage \in Words
    BY <1>0, <1>6 DEF FillWord, WordTypes
  <2>2. m_storage' \in Words /\ m_storage'.refs = DefaultLocalRefs
    BY <1>0, <2>1 DEF Words
  <2>3. FillersCover'
    BY <1>0, <2>2, CoverFull
  <2>4. added' \in [Threads -> 0 .. DefaultLocalRefs]
    BY <1>0, <1>6 DEF FillWord, WordTypes
  <2> QED
    BY <1>0, <1>1, <1>2, <1>3, <2>2, <2>3, <2>4 DEF IInv, WordTypes
<1>7. CASE FillFailsSpuriously(t) \/ (FillWord(t) /\ m_storage # word[t])
  <2>1. /\ m_storage' = m_storage /\ added' = added /\ pc[t] = "fill"
        /\ word' = [word EXCEPT ![t] = m_storage]
        /\ pc' = [pc EXCEPT ![t] = "decref"]
    BY <1>7 DEF FillWord, FillFailsSpuriously
  <2>2. FillersCover'
    <3>1. CASE m_storage.refs >= LocalRefFillBoundary
      BY <1>0, <2>1, <3>1, CoverFull DEF WordTypes, Words
    <3>2. CASE ~ (m_storage.refs >= LocalRefFillBoundary)
      <4>1. m_storage.refs < LocalRefFillBoundary
        BY <1>0, <3>2 DEF WordTypes, Words
      <4>2. \A u \in Threads : WillFill(u)' <=> WillFill(u)
        BY <1>0, <1>1, <2>1, <4>1 DEF WordTypes, WillFill, SamePointer
      <4> QED
        BY <2>1, <4>2, CoverKept DEF IInv
    <3> QED
      BY <3>1, <3>2
  <2> QED
    BY <1>0, <1>1, <1>2, <1>3, <2>1, <2>2 DEF IInv, WordTypes
<1> QED
  BY <1>4, <1>5, <1>6, <1>7, ZenonT(30) DEF Fill

\* The end of a load, and the parts of a replacement that leave the word alone.
LEMMA AsideStep ==
  ASSUME IInv, NEW t \in Threads,
         \/ Receive(t) \/ ReadWord(t) \/ Retry(t) \/ FailRaw(t) \/ FailCapture(t) \/ DropReplaced(t)
         \/ \E o \in Ops : Begin(t, o)
  PROVE  IInv'
<1>0. WordTypes /\ DefaultLocalRefs \in Nat /\ LocalRefFillBoundary \in Nat /\ LocalRefFillBoundary <= DefaultLocalRefs
  BY SharedPtrAssumption DEF IInv
<1>1. m_storage' = m_storage /\ added' = added
  BY DEF Receive, ReadWord, Retry, FailRaw, FailCapture, DropReplaced, Begin
<1>2. pc' \in [Threads -> Pcs] /\ op' \in [Threads -> Ops \cup {"none"}]
  BY <1>0 DEF Receive, ReadWord, Retry, FailRaw, FailCapture, DropReplaced, Begin, Finish, WordTypes, Pcs
<1>3. EmptyWord \in Words
  BY <1>0, SharedPtrAssumption DEF EmptyWord, Words, Pointers
<1>4. loaded' \in [Threads -> Words]
  BY <1>0, <1>3 DEF Receive, ReadWord, Retry, FailRaw, FailCapture, DropReplaced, Begin, WordTypes
<1>5. word' \in [Threads -> Words]
  <2>1. [expected[t] EXCEPT !.refs = m_storage.refs] \in Words
    BY <1>0 DEF WordTypes, Words
  <2>2. CASE FailRaw(t) \/ FailCapture(t) \/ DropReplaced(t)
    BY <1>0, <1>3, <2>1, <2>2 DEF FailRaw, FailCapture, DropReplaced, WordTypes
  <2>3. CASE Receive(t) \/ ReadWord(t) \/ Retry(t) \/ \E o \in Ops : Begin(t, o)
    BY <1>0, <1>3, <2>1, <2>3 DEF Receive, ReadWord, Retry, Begin, WordTypes
  <2> QED
    BY <2>2, <2>3
<1>6. expected' \in [Threads -> Words]
  <2>1. [m_storage EXCEPT !.refs = 0] \in Words
    BY <1>0 DEF WordTypes, Words
  <2>2. [loaded[t] EXCEPT !.refs = IF loaded[t].cb = Null THEN 0 ELSE @] \in Words
    <3>1. loaded[t] \in Words /\ 0 \in 0 .. DefaultLocalRefs
      BY <1>0 DEF WordTypes
    <3>2. (IF loaded[t].cb = Null THEN 0 ELSE loaded[t].refs) \in 0 .. DefaultLocalRefs
      BY <3>1 DEF Words
    <3> QED
      BY <3>1, <3>2 DEF Words
  <2>3. CASE FailRaw(t) \/ FailCapture(t) \/ DropReplaced(t)
    BY <1>0, <2>1, <2>2, <2>3 DEF FailRaw, FailCapture, DropReplaced, WordTypes
  <2>4. CASE Receive(t) \/ ReadWord(t) \/ Retry(t) \/ \E o \in Ops : Begin(t, o)
    BY <1>0, <2>1, <2>2, <2>4 DEF Receive, ReadWord, Retry, Begin, WordTypes
  <2> QED
    BY <2>3, <2>4
<1>7. own' \in [Threads -> SharedPtrs] /\ InstallsFull'
  <2>1. CASE \E o \in Ops : Begin(t, o)
    <3>1. own' \in [Threads -> SharedPtrs]
      BY <1>0, <2>1 DEF Begin, WordTypes, SharedPtrs
    <3>2. own'[t].refs >= LocalRefFillBoundary
      <4>1. own[t] \in SharedPtrs
        BY <1>0 DEF WordTypes
      <4>2. CASE own[t].refs < LocalRefFillBoundary
        <5>1. own'[t].refs = DefaultLocalRefs
          BY <1>0, <2>1, <4>1, <4>2 DEF Begin, WordTypes, SharedPtrs
        <5> QED
          BY <1>0, <5>1
      <4>3. CASE ~ (own[t].refs < LocalRefFillBoundary)
        BY <1>0, <2>1, <4>1, <4>3 DEF Begin, SharedPtrs
      <4> QED
        BY <4>2, <4>3
    <3>3. \A u \in Threads : u # t => own'[u] = own[u] /\ pc'[u] = pc[u]
      BY <1>0, <2>1 DEF Begin, WordTypes
    <3> QED
      BY <3>1, <3>2, <3>3 DEF IInv, InstallsFull
  <2>2. CASE Receive(t) \/ ReadWord(t) \/ Retry(t) \/ FailRaw(t) \/ FailCapture(t) \/ DropReplaced(t)
    <3>1. own' = own
      BY <2>2 DEF Receive, ReadWord, Retry, FailRaw, FailCapture, DropReplaced
    <3>2. \A u \in Threads : pc'[u] \in {"begin", "install"} => pc[u] \in {"begin", "install"}
      BY <1>0, <2>2
         DEF Receive, ReadWord, Retry, FailRaw, FailCapture, DropReplaced, Finish, WordTypes
    <3> QED
      BY <1>0, <3>1, <3>2 DEF IInv, InstallsFull, WordTypes
  <2> QED
    BY <2>1, <2>2
<1>8. FillersCover'
  <2>1. \A u \in Threads : u # t =>
          pc'[u] = pc[u] /\ word'[u] = word[u] /\ loaded'[u] = loaded[u]
    BY <1>0 DEF Receive, ReadWord, Retry, FailRaw, FailCapture, DropReplaced, Begin, Finish, WordTypes
  <2>2. pc[t] \notin {"incref", "fill", "decref"} /\ pc'[t] \notin {"incref", "fill", "decref"}
    BY <1>0 DEF Receive, ReadWord, Retry, FailRaw, FailCapture, DropReplaced, Begin, Finish, WordTypes
  <2>3. \A u \in Threads : WillFill(u)' <=> WillFill(u)
    BY <1>1, <2>1, <2>2 DEF WillFill, SamePointer
  <2> QED
    BY <1>1, <2>3, CoverKept DEF IInv
<1> QED
  BY <1>0, <1>1, <1>2, <1>4, <1>5, <1>6, <1>7, <1>8 DEF IInv, WordTypes

\* A replacement puts a word with enough references in place.
LEMMA InstallStep ==
  ASSUME IInv, NEW t \in Threads, Install(t)
  PROVE  IInv'
<1>0. WordTypes /\ own[t] \in SharedPtrs /\ word[t] \in Words
  BY DEF IInv, WordTypes
<1>1. own[t].refs >= LocalRefFillBoundary
  BY DEF IInv, InstallsFull, Install
<1>2. (word[t].version + 1) % Versions \in 0 .. Versions - 1
  BY <1>0, SharedPtrAssumption DEF Words
<1>3. m_storage' \in Words /\ m_storage'.refs = own[t].refs
  BY <1>0, <1>2 DEF Install, Words, SharedPtrs
<1>4. FillersCover'
  <2>1. own[t].refs \in Nat
    BY <1>0, SharedPtrAssumption DEF SharedPtrs
  <2> QED
    BY <1>1, <1>3, <2>1, CoverFull
<1>5. EmptyWord \in Words /\ EmptyPtr \in SharedPtrs
  BY SharedPtrAssumption DEF EmptyWord, EmptyPtr, Words, SharedPtrs, Pointers
<1>6. [cb |-> word[t].cb, refs |-> word[t].refs] \in SharedPtrs
  BY <1>0 DEF Words, SharedPtrs
<1>7. own' \in [Threads -> SharedPtrs] /\ word' \in [Threads -> Words]
  BY <1>0, <1>5, <1>6 DEF Install, WordTypes
<1>8. pc' \in [Threads -> Pcs] /\ op' \in [Threads -> Ops \cup {"none"}]
  BY <1>0 DEF Install, Finish, WordTypes, Pcs
<1>9. expected' = expected /\ loaded' = loaded /\ added' = added
  BY DEF Install
<1>10. InstallsFull'
  <2>1. pc'[t] \notin {"begin", "install"}
    BY <1>0 DEF Install, Finish, WordTypes
  <2>2. \A u \in Threads : u # t => own'[u] = own[u] /\ pc'[u] = pc[u]
    BY <1>0 DEF Install, Finish, WordTypes
  <2> QED
    BY <2>1, <2>2 DEF IInv, InstallsFull
<1> QED
  BY <1>0, <1>3, <1>4, <1>7, <1>8, <1>9, <1>10 DEF IInv, WordTypes

LEMMA NextInv == IInv /\ [Next]_vars => IInv'
<1> SUFFICES ASSUME IInv, [Next]_vars PROVE IInv'
  OBVIOUS
<1>1. CASE UNCHANGED vars \/ \E o \in Objects : Destroy(o)
  <2>1. /\ m_storage' = m_storage /\ own' = own /\ expected' = expected /\ pc' = pc
        /\ op' = op /\ word' = word /\ loaded' = loaded /\ added' = added
    BY <1>1 DEF vars, Destroy
  <2>2. FillersCover'
    BY <2>1, CoverKept DEF IInv, WillFill, SamePointer
  <2> QED
    BY <2>1, <2>2 DEF IInv, WordTypes, InstallsFull
<1>2. ASSUME NEW t \in Threads,
             \/ \E o \in Objects : MakeShared(t, o)
             \/ \E u \in Threads : CopyTo(t, u)
             \/ MoveExpected(t) \/ ReleaseOwn(t) \/ ReleaseExpected(t) \/ ReadRaw(t)
             \/ Load(t)
             \/ \E o \in Ops : Begin(t, o)
             \/ Continue(t)
      PROVE  IInv'
  BY <1>2, PointersStep, LoadStep, FillStep, AsideStep, InstallStep DEF Continue
<1> QED
  BY <1>1, <1>2 DEF Next

LEMMA Invariance == Spec => []IInv
BY InitInv, NextInv, PTL DEF Spec, SafeSpec

\* For every number of threads up to LocalRefFillBoundary: a thread that is
\* not itself about to fill the word finds a reference in it.
THEOREM LocalRefsSuffice == Spec => []ReferenceLeft
<1>1. IInv => ReferenceLeft
  BY ReferenceForTaker DEF ReferenceLeft, Filling
<1> QED
  BY <1>1, Invariance, PTL

\* No operation ever installs a word that the next load would find short.
THEOREM InstalledWordsAreFull == Spec => []InstallsFull
<1>1. IInv => InstallsFull
  BY DEF IInv
<1> QED
  BY <1>1, Invariance, PTL

-----------------------------------------------------------------------------
(***************************************************************************)
(* The counters of the control blocks.                                     *)
(*                                                                         *)
(* A step moves references between the word and one thread, and changes a  *)
(* counter by as many as it makes or gives up.  So the lemmas compare the  *)
(* references that exist before and after the step with those of the word  *)
(* and that thread, its share.                                             *)
(***************************************************************************)

\* How many references each holder has, and the references that makes.
HolderCounts == [Holders -> 0 .. DefaultLocalRefs]

Tokens(c) == {r \in Holders \X (1 .. DefaultLocalRefs) : r[2] <= c[r[1]]}

\* There are finitely many references, of one object or of all.
LEMMA TokensFinite ==
  ASSUME NEW c
  PROVE  IsFiniteSet(Tokens(c)) /\ Cardinality(Tokens(c)) \in Nat
<1>1. IsFiniteSet({<<"m_storage", Null>>}) /\ IsFiniteSet(Threads)
  BY FS_Singleton, SharedPtrAssumption
<1>2. IsFiniteSet({"own", "expected", "loaded", "added", "word"})
  <2>1. IsFiniteSet({"own"})
    BY FS_Singleton
  <2>2. IsFiniteSet({"own"} \cup {"expected"})
    BY <2>1, FS_AddElement
  <2>3. IsFiniteSet(({"own"} \cup {"expected"}) \cup {"loaded"})
    BY <2>2, FS_AddElement
  <2>4. IsFiniteSet((({"own"} \cup {"expected"}) \cup {"loaded"}) \cup {"added"})
    BY <2>3, FS_AddElement
  <2>5. IsFiniteSet(((({"own"} \cup {"expected"}) \cup {"loaded"}) \cup {"added"}) \cup {"word"})
    BY <2>4, FS_AddElement
  <2>6. {"own", "expected", "loaded", "added", "word"}
          = ((({"own"} \cup {"expected"}) \cup {"loaded"}) \cup {"added"}) \cup {"word"}
    OBVIOUS
  <2> QED
    BY <2>5, <2>6
<1>3. IsFiniteSet({"own", "expected", "loaded", "added", "word"} \X Threads)
  BY <1>1, <1>2, FS_Product
<1>4. IsFiniteSet(Holders)
  BY <1>1, <1>3, FS_Union DEF Holders
<1>5. IsFiniteSet(1 .. DefaultLocalRefs)
  BY SharedPtrAssumption, FS_Interval
<1>6. IsFiniteSet(Holders \X (1 .. DefaultLocalRefs))
  BY <1>4, <1>5, FS_Product
<1>7. IsFiniteSet(Tokens(c))
  BY <1>6, FS_Subset DEF Tokens
<1> QED
  BY <1>7, FS_CardinalityType

LEMMA UpTo ==
  ASSUME NEW k \in Nat
  PROVE  IsFiniteSet(1 .. k) /\ Cardinality(1 .. k) = k
BY FS_Interval

\* One holder's references are as many as it is said to have.
LEMMA TokensOfOne ==
  ASSUME NEW c \in HolderCounts, NEW h \in Holders
  PROVE  Cardinality(Tokens(c)) = Cardinality({r \in Tokens(c) : r[1] # h}) + c[h]
<1> DEFINE Rest == {r \in Tokens(c) : r[1] # h}
           Own == {h} \X (1 .. c[h])
<1>1. c[h] \in Nat /\ c[h] <= DefaultLocalRefs /\ DefaultLocalRefs \in Nat
  BY SharedPtrAssumption DEF HolderCounts
<1>2. Tokens(c) = Rest \cup Own /\ Rest \cap Own = {}
  BY <1>1 DEF Tokens
<1>3. IsFiniteSet(1 .. c[h]) /\ Cardinality(1 .. c[h]) = c[h]
  BY <1>1, UpTo
<1>4. IsFiniteSet(Own) /\ Cardinality(Own) = c[h]
  <2>1. IsFiniteSet({h}) /\ Cardinality({h}) = 1
    BY FS_Singleton
  <2>2. IsFiniteSet({h} \X (1 .. c[h]))
        /\ Cardinality({h} \X (1 .. c[h])) = Cardinality({h}) * Cardinality(1 .. c[h])
    BY <1>3, <2>1, FS_Product
  <2>3. Cardinality({h} \X (1 .. c[h])) = 1 * c[h]
    BY <1>3, <2>1, <2>2
  <2> QED
    BY <1>1, <2>2, <2>3
<1>5. IsFiniteSet(Rest) /\ Cardinality(Rest) \in Nat
  BY TokensFinite, FS_Subset, FS_CardinalityType
<1>6. Cardinality(Rest \cap Own) = 0
  BY <1>2, FS_EmptySet
<1>7. Cardinality(Rest \cup Own) = Cardinality(Rest) + Cardinality(Own) - Cardinality(Rest \cap Own)
  BY <1>4, <1>5, FS_Union
<1>8. Cardinality(Tokens(c)) = Cardinality(Rest \cup Own)
  BY <1>2, Zenon
<1> QED
  BY <1>1, <1>4, <1>5, <1>6, <1>7, <1>8

\* What one, two or three holders get or lose is what the total changes by.
LEMMA OneHolderChanges ==
  ASSUME NEW c \in HolderCounts, NEW d \in HolderCounts, NEW h \in Holders,
         \A g \in Holders \ {h} : d[g] = c[g]
  PROVE  Cardinality(Tokens(d)) = Cardinality(Tokens(c)) - c[h] + d[h]
<1>1. {r \in Tokens(d) : r[1] # h} = {r \in Tokens(c) : r[1] # h}
  BY DEF Tokens
<1>2. /\ Cardinality(Tokens(c)) = Cardinality({r \in Tokens(c) : r[1] # h}) + c[h]
      /\ Cardinality(Tokens(d)) = Cardinality({r \in Tokens(c) : r[1] # h}) + d[h]
  BY <1>1, TokensOfOne
<1>3. Cardinality({r \in Tokens(c) : r[1] # h}) \in Nat
  BY TokensFinite, FS_Subset, FS_CardinalityType
<1>4. c[h] \in Nat /\ d[h] \in Nat
  BY SharedPtrAssumption DEF HolderCounts
<1> QED
  BY <1>2, <1>3, <1>4

LEMMA TwoHoldersChange ==
  ASSUME NEW c \in HolderCounts, NEW d \in HolderCounts, NEW h \in Holders, NEW k \in Holders,
         h # k, \A g \in Holders \ {h, k} : d[g] = c[g]
  PROVE  Cardinality(Tokens(d)) = Cardinality(Tokens(c)) - c[h] - c[k] + d[h] + d[k]
<1> DEFINE e == [c EXCEPT ![h] = d[h]]
<1>1. e \in HolderCounts /\ e[h] = d[h] /\ e[k] = c[k]
  BY DEF HolderCounts
<1>2. \A g \in Holders \ {h} : e[g] = c[g]
  BY DEF HolderCounts
<1>3. \A g \in Holders \ {k} : d[g] = e[g]
  BY DEF HolderCounts
<1> HIDE DEF e
<1>4. Cardinality(Tokens(e)) = Cardinality(Tokens(c)) - c[h] + e[h]
  BY <1>1, <1>2, OneHolderChanges
<1>5. Cardinality(Tokens(d)) = Cardinality(Tokens(e)) - e[k] + d[k]
  BY <1>1, <1>3, OneHolderChanges
<1>6. /\ c[h] \in Int /\ c[k] \in Int /\ d[h] \in Int /\ d[k] \in Int
      /\ Cardinality(Tokens(c)) \in Int
  BY TokensFinite, SharedPtrAssumption DEF HolderCounts
<1> QED
  BY <1>1, <1>4, <1>5, <1>6

LEMMA ThreeHoldersChange ==
  ASSUME NEW c \in HolderCounts, NEW d \in HolderCounts,
         NEW h \in Holders, NEW k \in Holders, NEW l \in Holders,
         h # k, h # l, k # l, \A g \in Holders \ {h, k, l} : d[g] = c[g]
  PROVE  Cardinality(Tokens(d))
           = Cardinality(Tokens(c)) - c[h] - c[k] - c[l] + d[h] + d[k] + d[l]
<1> DEFINE e == [c EXCEPT ![h] = d[h]]
<1>1. e \in HolderCounts /\ e[h] = d[h] /\ e[k] = c[k] /\ e[l] = c[l]
  BY DEF HolderCounts
<1>2. \A g \in Holders \ {h} : e[g] = c[g]
  BY DEF HolderCounts
<1>3. \A g \in Holders \ {k, l} : d[g] = e[g]
  BY DEF HolderCounts
<1> HIDE DEF e
<1>4. Cardinality(Tokens(e)) = Cardinality(Tokens(c)) - c[h] + e[h]
  BY <1>1, <1>2, OneHolderChanges
<1>5. Cardinality(Tokens(d)) = Cardinality(Tokens(e)) - e[k] - e[l] + d[k] + d[l]
  BY <1>1, <1>3, TwoHoldersChange
<1>6. /\ c[h] \in Int /\ c[k] \in Int /\ c[l] \in Int /\ d[h] \in Int /\ d[k] \in Int /\ d[l] \in Int
      /\ Cardinality(Tokens(c)) \in Int
  BY TokensFinite, SharedPtrAssumption DEF HolderCounts
<1> QED
  BY <1>1, <1>4, <1>5, <1>6

-----------------------------------------------------------------------------

\* How many references to o each holder has.
CountsOf(o) == [h \in Holders |-> RefsOf(h, o)]

\* The references to o in the word and of thread t.
Bought(t, o) == IF loaded[t].cb = o THEN added[t] ELSE 0
Replaced(t, o) == IF pc[t] = "drop" THEN RefsIn(word[t], o) ELSE 0
Share(t, o) ==
  RefsIn(m_storage, o) + RefsIn(own[t], o) + RefsIn(expected[t], o) + RefsIn(loaded[t], o)
    + Bought(t, o) + Replaced(t, o)

LEMMA ReferencesAreTokens ==
  ASSUME NEW o
  PROVE  References(o) = Tokens(CountsOf(o))
BY DEF References, Tokens, CountsOf

LEMMA HolderValues ==
  ASSUME NEW o, NEW t \in Threads
  PROVE  /\ RefsOf(<<"m_storage", Null>>, o) = RefsIn(m_storage, o)
         /\ RefsOf(<<"own", t>>, o) = RefsIn(own[t], o)
         /\ RefsOf(<<"expected", t>>, o) = RefsIn(expected[t], o)
         /\ RefsOf(<<"loaded", t>>, o) = RefsIn(loaded[t], o)
         /\ RefsOf(<<"added", t>>, o) = Bought(t, o)
         /\ RefsOf(<<"word", t>>, o) = Replaced(t, o)
BY DEF RefsOf, Bought, Replaced

LEMMA RefsInRange ==
  ASSUME WordTypes, NEW o, NEW t \in Threads
  PROVE  /\ RefsIn(m_storage, o) \in 0 .. DefaultLocalRefs
         /\ RefsIn(own[t], o) \in 0 .. DefaultLocalRefs
         /\ RefsIn(expected[t], o) \in 0 .. DefaultLocalRefs
         /\ RefsIn(loaded[t], o) \in 0 .. DefaultLocalRefs
         /\ Bought(t, o) \in 0 .. DefaultLocalRefs
         /\ Replaced(t, o) \in 0 .. DefaultLocalRefs
<1>1. \A w \in Words : RefsIn(w, o) \in 0 .. DefaultLocalRefs
  BY SharedPtrAssumption DEF Words, RefsIn
<1>2. \A w \in SharedPtrs : RefsIn(w, o) \in 0 .. DefaultLocalRefs
  BY SharedPtrAssumption DEF SharedPtrs, RefsIn
<1> QED
  BY <1>1, <1>2, SharedPtrAssumption DEF WordTypes, Bought, Replaced

LEMMA CountsInRange == WordTypes => \A o : CountsOf(o) \in HolderCounts
<1> SUFFICES ASSUME WordTypes, NEW o, NEW h \in Holders PROVE RefsOf(h, o) \in 0 .. DefaultLocalRefs
  BY DEF CountsOf, HolderCounts
<1>1. CASE h = <<"m_storage", Null>>
  <2>1. RefsOf(h, o) = RefsIn(m_storage, o)
    BY <1>1 DEF RefsOf
  <2>2. \A w \in Words : RefsIn(w, o) \in 0 .. DefaultLocalRefs
    BY SharedPtrAssumption DEF Words, RefsIn
  <2> QED
    BY <2>1, <2>2 DEF WordTypes
<1>2. CASE h \in {"own", "expected", "loaded", "added", "word"} \X Threads
  <2>1. PICK t \in Threads : h \in {<<"own", t>>, <<"expected", t>>, <<"loaded", t>>, <<"added", t>>, <<"word", t>>}
    BY <1>2
  <2> QED
    BY <2>1, HolderValues, RefsInRange
<1> QED
  BY <1>1, <1>2 DEF Holders

LEMMA CountsInRangeNext == WordTypes' => \A o : CountsOf(o)' \in HolderCounts
<1>1. WordTypes' => (\A o : CountsOf(o) \in HolderCounts)'
  BY CountsInRange, PTL
<1>2. HolderCounts' = HolderCounts
  BY DEF HolderCounts, Holders
<1> QED
  BY <1>1, <1>2

\* A step of t changes the references that exist by what changes of its share.
LEMMA ShareChanges ==
  ASSUME WordTypes, WordTypes', NEW t \in Threads, NEW o \in Objects,
         \A u \in Threads \ {t} :
           /\ own'[u] = own[u] /\ expected'[u] = expected[u] /\ pc'[u] = pc[u]
           /\ word'[u] = word[u] /\ loaded'[u] = loaded[u] /\ added'[u] = added[u]
  PROVE  Cardinality(References(o))' = Cardinality(References(o)) - Share(t, o) + Share(t, o)'
<1> DEFINE c == CountsOf(o)
           d == CountsOf(o)'
           st == <<"m_storage", Null>>
           ow == <<"own", t>>
           ex == <<"expected", t>>
           lo == <<"loaded", t>>
           ad == <<"added", t>>
           wo == <<"word", t>>
           e == [h \in Holders |-> IF h \in {st, ow, ex} THEN d[h] ELSE c[h]]
<1>1. c \in HolderCounts
  BY CountsInRange
<1>2. d \in HolderCounts
  BY CountsInRangeNext
<1>3. /\ st \in Holders /\ ow \in Holders /\ ex \in Holders
      /\ lo \in Holders /\ ad \in Holders /\ wo \in Holders
  BY DEF Holders
<1>4. /\ c[st] = RefsIn(m_storage, o) /\ c[ow] = RefsIn(own[t], o) /\ c[ex] = RefsIn(expected[t], o)
      /\ c[lo] = RefsIn(loaded[t], o) /\ c[ad] = Bought(t, o) /\ c[wo] = Replaced(t, o)
  BY <1>3, HolderValues DEF CountsOf
<1>5. /\ d[st] = RefsIn(m_storage, o)' /\ d[ow] = RefsIn(own[t], o)' /\ d[ex] = RefsIn(expected[t], o)'
      /\ d[lo] = RefsIn(loaded[t], o)' /\ d[ad] = Bought(t, o)' /\ d[wo] = Replaced(t, o)'
  BY <1>3 DEF CountsOf, RefsOf, Bought, Replaced, Holders
<1>6. \A h \in Holders \ {st, ow, ex, lo, ad, wo} : d[h] = c[h]
  <2> SUFFICES ASSUME NEW h \in Holders \ {st, ow, ex, lo, ad, wo} PROVE d[h] = c[h]
    OBVIOUS
  <2>1. PICK u \in Threads \ {t} :
          h \in {<<"own", u>>, <<"expected", u>>, <<"loaded", u>>, <<"added", u>>, <<"word", u>>}
    BY DEF Holders
  <2>2. c[h] = RefsOf(h, o) /\ d[h] = RefsOf(h, o)'
    BY DEF CountsOf, Holders
  <2> QED
    BY <2>1, <2>2 DEF RefsOf, RefsIn
<1>15. /\ st # ow /\ st # ex /\ ow # ex /\ lo # ad /\ lo # wo /\ ad # wo
       /\ lo \notin {st, ow, ex} /\ ad \notin {st, ow, ex} /\ wo \notin {st, ow, ex}
  OBVIOUS
<1> HIDE DEF c, d, st, ow, ex, lo, ad, wo
<1>7. e \in HolderCounts
  BY <1>1, <1>2 DEF HolderCounts
<1>8. Cardinality(Tokens(e)) = Cardinality(Tokens(c)) - c[st] - c[ow] - c[ex] + e[st] + e[ow] + e[ex]
  <2>1. \A g \in Holders \ {st, ow, ex} : e[g] = c[g]
    OBVIOUS
  <2> HIDE DEF e
  <2> QED
    BY <1>1, <1>3, <1>7, <1>15, <2>1, ThreeHoldersChange
<1>9. Cardinality(Tokens(d)) = Cardinality(Tokens(e)) - e[lo] - e[ad] - e[wo] + d[lo] + d[ad] + d[wo]
  <2>1. \A g \in Holders \ {lo, ad, wo} : d[g] = e[g]
    BY <1>6
  <2> HIDE DEF e
  <2> QED
    BY <1>2, <1>3, <1>7, <1>15, <2>1, ThreeHoldersChange
<1>10. e[st] = d[st] /\ e[ow] = d[ow] /\ e[ex] = d[ex] /\ e[lo] = c[lo] /\ e[ad] = c[ad] /\ e[wo] = c[wo]
  BY <1>3, <1>15
<1>11. /\ Cardinality(References(o)) = Cardinality(Tokens(c))
       /\ Cardinality(References(o))' = Cardinality(Tokens(d))
  <2>1. References(o) = Tokens(c)
    BY ReferencesAreTokens DEF c
  <2>2. References(o)' = Tokens(d)
    BY DEF References, Tokens, CountsOf, Holders, d
  <2> QED
    BY <2>1, <2>2, Zenon
<1>12. Cardinality(Tokens(c)) \in Nat
  BY TokensFinite
<1>13. \A h \in Holders : c[h] \in Int /\ d[h] \in Int
  BY <1>1, <1>2, SharedPtrAssumption DEF HolderCounts
<1> HIDE DEF e
<1>14. Cardinality(Tokens(d)) = Cardinality(Tokens(c)) - (c[st] + c[ow] + c[ex] + c[lo] + c[ad] + c[wo])
                                  + (d[st] + d[ow] + d[ex] + d[lo] + d[ad] + d[wo])
  BY <1>3, <1>8, <1>9, <1>10, <1>12, <1>13
<1> QED
  BY <1>4, <1>5, <1>11, <1>14 DEF Share

-----------------------------------------------------------------------------

\* What a thread that is inside an operation can rely on.
Orderly(t) ==
  /\ loaded[t].refs = IF pc[t] \in {"incref", "fill", "decref", "receive"} THEN 1 ELSE 0
  /\ pc[t] \in {"incref", "fill"} => word[t].cb = loaded[t].cb
  /\ pc[t] = "fill" => added[t] = DefaultLocalRefs - word[t].refs
  /\ pc[t] \notin {"fill", "decref"} => added[t] = 0
  /\ own[t].cb # Null => own[t].refs > 0
  /\ (op[t] = "raw" /\ pc[t] \in {"begin", "install"}) => expected[t].refs = 0

OperationsOrderly == \A t \in Threads : Orderly(t)

\* A control block that counts references is not destroyed.
CountedIsAlive ==
  /\ m_useCount \in [Objects -> Nat]
  /\ alive \in SUBSET Objects
  /\ \A o \in Objects : m_useCount[o] > 0 => o \in alive

\* Only threads install anything in the word.
NobodyInstalls == Threads = {} => m_storage.cb = Null

\* The invariant.
Counted == IInv /\ OperationsOrderly /\ CountedIsAlive /\ UseCountExact /\ NobodyInstalls

\* What every step of a thread leaves alone: the pointers of the others.
OthersStay(t) ==
  \A u \in Threads \ {t} :
    /\ own'[u] = own[u] /\ expected'[u] = expected[u] /\ pc'[u] = pc[u] /\ op'[u] = op[u]
    /\ word'[u] = word[u] /\ loaded'[u] = loaded[u] /\ added'[u] = added[u]

LEMMA BoundaryPositive ==
  ASSUME NEW t \in Threads
  PROVE  LocalRefFillBoundary > 0 /\ DefaultLocalRefs > 0
<1>1. Cardinality(Threads) # 0 /\ Cardinality(Threads) \in Nat
  BY SharedPtrAssumption, FS_EmptySet, FS_CardinalityType
<1> QED
  BY <1>1, SharedPtrAssumption

\* Who has a reference to a control block finds it counted, and not destroyed.
LEMMA HolderIsCounted ==
  ASSUME UseCountExact, CountedIsAlive, WordTypes,
         NEW o \in Objects, NEW h \in Holders, RefsOf(h, o) > 0
  PROVE  m_useCount[o] > 0 /\ o \in alive
<1>1. RefsOf(h, o) \in 0 .. DefaultLocalRefs
  BY CountsInRange DEF CountsOf, HolderCounts
<1>2. <<h, 1>> \in References(o)
  BY <1>1, SharedPtrAssumption DEF References
<1>3. IsFiniteSet(References(o)) /\ Cardinality(References(o)) \in Nat
  BY ReferencesAreTokens, TokensFinite
<1>4. Cardinality(References(o)) # 0
  BY <1>2, <1>3, FS_EmptySet
<1>5. m_useCount[o] > 0
  BY <1>3, <1>4 DEF UseCountExact
<1> QED
  BY <1>5 DEF CountedIsAlive

\* The counters stay exact if a step changes them by what changes of the share.
LEMMA CountFollows ==
  ASSUME WordTypes, WordTypes', UseCountExact, CountedIsAlive, NEW t \in Threads, OthersStay(t),
         DOMAIN m_useCount' = Objects, m_useCount' = [o \in Objects |-> m_useCount'[o]],
         \A o \in Objects : m_useCount'[o] = m_useCount[o] - Share(t, o) + Share(t, o)'
  PROVE  UseCountExact' /\ m_useCount' \in [Objects -> Nat]
<1>1. ASSUME NEW o \in Objects
      PROVE  m_useCount'[o] = Cardinality(References(o))' /\ m_useCount'[o] \in Nat
  <2>1. Cardinality(References(o))' = Cardinality(References(o)) - Share(t, o) + Share(t, o)'
    BY ShareChanges DEF OthersStay
  <2>2. m_useCount[o] = Cardinality(References(o))
    BY DEF UseCountExact
  <2>3. m_useCount'[o] = Cardinality(References(o))'
    BY <2>1, <2>2
  <2>4. IsFiniteSet(References(o))' /\ Cardinality(References(o))' \in Nat
    <3>1. References(o)' = Tokens(CountsOf(o)')
      BY DEF References, Tokens, CountsOf, Holders
    <3> QED
      BY <3>1, TokensFinite
  <2> QED
    BY <2>3, <2>4
<1> QED
  BY <1>1 DEF UseCountExact

-----------------------------------------------------------------------------
(* What a thread does with its own pointers. *)

LEMMA MakeSharedCounts ==
  ASSUME Counted, IInv', NEW t \in Threads, NEW p \in Objects, MakeShared(t, p)
  PROVE  Counted'
<1>0. WordTypes /\ WordTypes' /\ DefaultLocalRefs \in Nat /\ Null \notin Objects
  BY SharedPtrAssumption DEF Counted, IInv
<1>1. OthersStay(t)
  BY <1>0 DEF OthersStay, MakeShared, WordTypes
<1>2. own'[t] = [cb |-> p, refs |-> DefaultLocalRefs] /\ own[t].cb = Null
  BY <1>0 DEF MakeShared, WordTypes
<1>3. m_useCount[p] = 0 /\ m_useCount \in [Objects -> Nat]
  BY DEF Counted, CountedIsAlive, MakeShared
<1>4. ASSUME NEW o \in Objects
      PROVE  m_useCount'[o] = m_useCount[o] - Share(t, o) + Share(t, o)'
  <2>1. RefsIn(own[t], o) = 0
    BY <1>0, <1>2 DEF RefsIn
  <2>2. RefsIn(own[t], o)' = IF o = p THEN DefaultLocalRefs ELSE 0
    BY <1>2 DEF RefsIn
  <2>3. /\ RefsIn(m_storage, o)' = RefsIn(m_storage, o)
        /\ RefsIn(expected[t], o)' = RefsIn(expected[t], o)
        /\ RefsIn(loaded[t], o)' = RefsIn(loaded[t], o)
        /\ Bought(t, o)' = Bought(t, o) /\ Replaced(t, o)' = Replaced(t, o)
    BY DEF MakeShared, RefsIn, Bought, Replaced
  <2>4. m_useCount'[o] = IF o = p THEN DefaultLocalRefs ELSE m_useCount[o]
    BY <1>3 DEF MakeShared
  <2> QED
    BY <1>0, <1>3, <2>1, <2>2, <2>3, <2>4, RefsInRange DEF Share
<1>5. UseCountExact' /\ m_useCount' \in [Objects -> Nat]
  BY <1>0, <1>1, <1>3, <1>4, CountFollows DEF MakeShared, Counted
<1>6. CountedIsAlive'
  BY <1>3, <1>5 DEF MakeShared, Counted, CountedIsAlive
<1>7. OperationsOrderly'
  BY <1>0, <1>1, <1>2, BoundaryPositive DEF OthersStay, MakeShared, Counted, OperationsOrderly, Orderly
<1> QED
  BY <1>5, <1>6, <1>7 DEF MakeShared, Counted, NobodyInstalls

\* The other steps of a thread construct and destroy nothing.
LEMMA ThreadStepCounts ==
  ASSUME Counted, IInv', NEW t \in Threads, OthersStay(t), Orderly(t)', alive' = alive,
         m_useCount' \in [Objects -> Int],
         \A o \in Objects : m_useCount'[o] = m_useCount[o] - Share(t, o) + Share(t, o)',
         \A o \in Objects : m_useCount'[o] > m_useCount[o] => o \in alive
  PROVE  Counted'
<1>1. UseCountExact' /\ m_useCount' \in [Objects -> Nat]
  BY CountFollows DEF Counted, IInv
<1>2. CountedIsAlive'
  BY <1>1 DEF Counted, CountedIsAlive
<1>3. OperationsOrderly'
  BY DEF Counted, OperationsOrderly, OthersStay, Orderly
<1> QED
  BY <1>1, <1>2, <1>3 DEF Counted, NobodyInstalls

\* A step that touches no counter and moves no reference to or from its thread.
LEMMA NothingCounted ==
  ASSUME Counted, IInv', NEW t \in Threads, OthersStay(t), Orderly(t)', alive' = alive,
         m_useCount' = m_useCount,
         \A o \in Objects : Share(t, o)' = Share(t, o)
  PROVE  Counted'
<1>1. \A o \in Objects : Share(t, o) \in Int /\ m_useCount[o] \in Int
  BY RefsInRange, SharedPtrAssumption DEF Share, Counted, IInv, CountedIsAlive
<1>2. m_useCount' \in [Objects -> Int]
  BY DEF Counted, CountedIsAlive
<1>3. \A o \in Objects : m_useCount'[o] = m_useCount[o] - Share(t, o) + Share(t, o)'
  BY <1>1
<1> QED
  BY <1>1, <1>2, <1>3, ThreadStepCounts

LEMMA RaisedBy ==
  ASSUME CountedIsAlive, NEW q, NEW n \in Int
  PROVE  /\ Raised(q, n) \in [Objects -> Int]
         /\ Lowered(q, n) \in [Objects -> Int]
         /\ \A o \in Objects :
              /\ Raised(q, n)[o] = m_useCount[o] + (IF o = q THEN n ELSE 0)
              /\ Lowered(q, n)[o] = m_useCount[o] - (IF o = q THEN n ELSE 0)
<1>1. ASSUME NEW k \in Int
      PROVE  /\ Raised(q, k) \in [Objects -> Int]
             /\ \A o \in Objects : Raised(q, k)[o] = m_useCount[o] + (IF o = q THEN k ELSE 0)
  <2>1. m_useCount \in [Objects -> Int] /\ Null \notin Objects
    BY SharedPtrAssumption DEF CountedIsAlive
  <2>2. CASE q \in Objects
    BY <2>1, <2>2 DEF Raised
  <2>3. CASE q \notin Objects
    <3>1. Raised(q, k) = m_useCount
      BY <2>1, <2>3 DEF Raised
    <3>2. Raised(q, k) \in [Objects -> Int] /\ \A o \in Objects : Raised(q, k)[o] = m_useCount[o]
      BY <2>1, <3>1, Zenon
    <3>3. \A o \in Objects : m_useCount[o] + (IF o = q THEN k ELSE 0) = m_useCount[o]
      BY <2>1, <2>3
    <3> QED
      BY <3>2, <3>3
  <2> QED
    BY <2>2, <2>3
<1>2. 0 - n \in Int /\ \A o \in Objects : m_useCount[o] \in Int
  BY DEF CountedIsAlive
<1>3. /\ Lowered(q, n) \in [Objects -> Int]
      /\ \A o \in Objects : Lowered(q, n)[o] = m_useCount[o] + (IF o = q THEN 0 - n ELSE 0)
  BY <1>1, <1>2 DEF Lowered
<1> QED
  BY <1>1, <1>2, <1>3

LEMMA CopyToCounts ==
  ASSUME Counted, IInv', NEW t \in Threads, NEW u \in Threads, CopyTo(t, u)
  PROVE  Counted'
<1>0. WordTypes /\ DefaultLocalRefs \in Nat /\ Null \notin Objects
  BY SharedPtrAssumption DEF Counted, IInv
<1>1. OthersStay(u)
  BY <1>0 DEF OthersStay, CopyTo, WordTypes
<1>2. /\ own[u].cb = Null /\ own[t].cb # Null
      /\ own'[u].cb = own[t].cb /\ own'[u].refs = DefaultLocalRefs
  BY <1>0 DEF CopyTo, WordTypes, SharedPtrs
<1>3. /\ m_useCount' \in [Objects -> Int]
      /\ \A o \in Objects : m_useCount'[o] = m_useCount[o] + (IF o = own[t].cb THEN DefaultLocalRefs ELSE 0)
  BY <1>0, RaisedBy DEF CopyTo, Counted
<1>4. ASSUME NEW o \in Objects
      PROVE  /\ m_useCount'[o] = m_useCount[o] - Share(u, o) + Share(u, o)'
             /\ m_useCount'[o] > m_useCount[o] => o \in alive
  <2>1. RefsIn(own[u], o) = 0
    BY <1>0, <1>2 DEF RefsIn
  <2>2. RefsIn(own[u], o)' = IF o = own[t].cb THEN DefaultLocalRefs ELSE 0
    BY <1>2 DEF RefsIn
  <2>3. /\ RefsIn(m_storage, o)' = RefsIn(m_storage, o)
        /\ RefsIn(expected[u], o)' = RefsIn(expected[u], o)
        /\ RefsIn(loaded[u], o)' = RefsIn(loaded[u], o)
        /\ Bought(u, o)' = Bought(u, o) /\ Replaced(u, o)' = Replaced(u, o)
    BY DEF CopyTo, RefsIn, Bought, Replaced
  <2>4. m_useCount[o] \in Int
    BY DEF Counted, CountedIsAlive
  <2>5. m_useCount'[o] = m_useCount[o] - Share(u, o) + Share(u, o)'
    BY <1>0, <1>3, <2>1, <2>2, <2>3, <2>4, RefsInRange DEF Share
  <2>6. o = own[t].cb => o \in alive
    <3> SUFFICES ASSUME o = own[t].cb PROVE o \in alive
      OBVIOUS
    <3>1. RefsOf(<<"own", t>>, o) > 0 /\ <<"own", t>> \in Holders
      BY <1>2, HolderValues DEF RefsIn, Counted, OperationsOrderly, Orderly, Holders
    <3> QED
      BY <1>0, <3>1, HolderIsCounted DEF Counted
  <2> QED
    BY <1>3, <2>4, <2>5, <2>6
<1>5. Orderly(u)'
  BY <1>0, <1>2, BoundaryPositive DEF CopyTo, Counted, OperationsOrderly, Orderly
<1>6. alive' = alive
  BY DEF CopyTo
<1> QED
  BY <1>1, <1>3, <1>4, <1>5, <1>6, ThreadStepCounts

LEMMA MoveExpectedCounts ==
  ASSUME Counted, IInv', NEW t \in Threads, MoveExpected(t)
  PROVE  Counted'
<1>0. WordTypes /\ DefaultLocalRefs \in Nat /\ Null \notin Objects
  BY SharedPtrAssumption DEF Counted, IInv
<1>1. OthersStay(t)
  BY <1>0 DEF OthersStay, MoveExpected, WordTypes
<1>2. /\ own[t].cb = Null /\ expected[t].refs > 0
      /\ own'[t] = [cb |-> expected[t].cb, refs |-> expected[t].refs]
      /\ expected'[t] = EmptyWord
  BY <1>0 DEF MoveExpected, WordTypes
<1>3. ASSUME NEW o \in Objects
      PROVE  Share(t, o)' = Share(t, o)
  <2>1. RefsIn(own[t], o) = 0 /\ RefsIn(expected[t], o)' = 0
    BY <1>0, <1>2 DEF RefsIn, EmptyWord
  <2>2. RefsIn(own[t], o)' = RefsIn(expected[t], o)
    BY <1>2 DEF RefsIn
  <2>3. /\ RefsIn(m_storage, o)' = RefsIn(m_storage, o)
        /\ RefsIn(loaded[t], o)' = RefsIn(loaded[t], o)
        /\ Bought(t, o)' = Bought(t, o) /\ Replaced(t, o)' = Replaced(t, o)
    BY DEF MoveExpected, RefsIn, Bought, Replaced
  <2> QED
    BY <1>0, <2>1, <2>2, <2>3, RefsInRange DEF Share
<1>4. Orderly(t)'
  BY <1>0, <1>2 DEF MoveExpected, Counted, OperationsOrderly, Orderly, EmptyWord
<1>5. alive' = alive /\ m_useCount' = m_useCount
  BY DEF MoveExpected
<1> QED
  BY <1>1, <1>3, <1>4, <1>5, NothingCounted

LEMMA ReleaseOwnCounts ==
  ASSUME Counted, IInv', NEW t \in Threads, ReleaseOwn(t)
  PROVE  Counted'
<1>0. WordTypes /\ DefaultLocalRefs \in Nat /\ Null \notin Objects
  BY SharedPtrAssumption DEF Counted, IInv
<1>1. OthersStay(t)
  BY <1>0 DEF OthersStay, ReleaseOwn, WordTypes
<1>2. own'[t] = EmptyPtr /\ own[t].refs \in Nat
  BY <1>0 DEF ReleaseOwn, WordTypes, SharedPtrs
<1>3. /\ m_useCount' \in [Objects -> Int]
      /\ \A o \in Objects : m_useCount'[o] = m_useCount[o] - (IF o = own[t].cb THEN own[t].refs ELSE 0)
  BY <1>2, RaisedBy DEF ReleaseOwn, Counted
<1>4. ASSUME NEW o \in Objects
      PROVE  /\ m_useCount'[o] = m_useCount[o] - Share(t, o) + Share(t, o)'
             /\ m_useCount'[o] > m_useCount[o] => o \in alive
  <2>1. RefsIn(own[t], o) = (IF o = own[t].cb THEN own[t].refs ELSE 0)
    BY DEF RefsIn
  <2>2. RefsIn(own[t], o)' = 0
    BY <1>0, <1>2 DEF RefsIn, EmptyPtr
  <2>3. /\ RefsIn(m_storage, o)' = RefsIn(m_storage, o)
        /\ RefsIn(expected[t], o)' = RefsIn(expected[t], o)
        /\ RefsIn(loaded[t], o)' = RefsIn(loaded[t], o)
        /\ Bought(t, o)' = Bought(t, o) /\ Replaced(t, o)' = Replaced(t, o)
    BY DEF ReleaseOwn, RefsIn, Bought, Replaced
  <2>4. m_useCount[o] \in Int
    BY DEF Counted, CountedIsAlive
  <2>5. m_useCount'[o] = m_useCount[o] - Share(t, o) + Share(t, o)'
    BY <1>0, <1>3, <2>1, <2>2, <2>3, <2>4, RefsInRange DEF Share
  <2> QED
    BY <1>2, <1>3, <2>4, <2>5
<1>5. Orderly(t)'
  BY <1>0, <1>2 DEF ReleaseOwn, Counted, OperationsOrderly, Orderly, EmptyPtr
<1>6. alive' = alive
  BY DEF ReleaseOwn
<1> QED
  BY <1>1, <1>3, <1>4, <1>5, <1>6, ThreadStepCounts

LEMMA ReleaseExpectedCounts ==
  ASSUME Counted, IInv', NEW t \in Threads, ReleaseExpected(t)
  PROVE  Counted'
<1>0. WordTypes /\ DefaultLocalRefs \in Nat /\ Null \notin Objects
  BY SharedPtrAssumption DEF Counted, IInv
<1>1. OthersStay(t)
  BY <1>0 DEF OthersStay, ReleaseExpected, WordTypes
<1>2. expected'[t] = EmptyWord /\ expected[t].refs \in Nat
  BY <1>0 DEF ReleaseExpected, WordTypes, Words
<1>3. /\ m_useCount' \in [Objects -> Int]
      /\ \A o \in Objects :
           m_useCount'[o] = m_useCount[o] - (IF o = expected[t].cb THEN expected[t].refs ELSE 0)
  BY <1>2, RaisedBy DEF ReleaseExpected, Counted
<1>4. ASSUME NEW o \in Objects
      PROVE  /\ m_useCount'[o] = m_useCount[o] - Share(t, o) + Share(t, o)'
             /\ m_useCount'[o] > m_useCount[o] => o \in alive
  <2>1. RefsIn(expected[t], o) = (IF o = expected[t].cb THEN expected[t].refs ELSE 0)
    BY DEF RefsIn
  <2>2. RefsIn(expected[t], o)' = 0
    BY <1>0, <1>2 DEF RefsIn, EmptyWord
  <2>3. /\ RefsIn(m_storage, o)' = RefsIn(m_storage, o)
        /\ RefsIn(own[t], o)' = RefsIn(own[t], o)
        /\ RefsIn(loaded[t], o)' = RefsIn(loaded[t], o)
        /\ Bought(t, o)' = Bought(t, o) /\ Replaced(t, o)' = Replaced(t, o)
    BY DEF ReleaseExpected, RefsIn, Bought, Replaced
  <2>4. m_useCount[o] \in Int
    BY DEF Counted, CountedIsAlive
  <2>5. m_useCount'[o] = m_useCount[o] - Share(t, o) + Share(t, o)'
    BY <1>0, <1>3, <2>1, <2>2, <2>3, <2>4, RefsInRange DEF Share
  <2> QED
    BY <1>2, <1>3, <2>4, <2>5
<1>5. Orderly(t)'
  BY <1>0, <1>2 DEF ReleaseExpected, Counted, OperationsOrderly, Orderly
<1>6. alive' = alive
  BY DEF ReleaseExpected
<1> QED
  BY <1>1, <1>3, <1>4, <1>5, <1>6, ThreadStepCounts

LEMMA ReadRawCounts ==
  ASSUME Counted, IInv', NEW t \in Threads, ReadRaw(t)
  PROVE  Counted'
<1>0. WordTypes /\ DefaultLocalRefs \in Nat /\ Null \notin Objects
  BY SharedPtrAssumption DEF Counted, IInv
<1>1. OthersStay(t)
  BY <1>0 DEF OthersStay, ReadRaw, WordTypes
<1>2. expected'[t].refs = 0 /\ expected[t].refs = 0
  BY <1>0 DEF ReadRaw, WordTypes, Words
<1>3. ASSUME NEW o \in Objects
      PROVE  Share(t, o)' = Share(t, o)
  <2>1. RefsIn(expected[t], o)' = RefsIn(expected[t], o)
    BY <1>2 DEF RefsIn
  <2>2. /\ RefsIn(m_storage, o)' = RefsIn(m_storage, o)
        /\ RefsIn(own[t], o)' = RefsIn(own[t], o)
        /\ RefsIn(loaded[t], o)' = RefsIn(loaded[t], o)
        /\ Bought(t, o)' = Bought(t, o) /\ Replaced(t, o)' = Replaced(t, o)
    BY DEF ReadRaw, RefsIn, Bought, Replaced
  <2> QED
    BY <2>1, <2>2 DEF Share
<1>4. Orderly(t)'
  BY <1>2 DEF ReadRaw, Counted, OperationsOrderly, Orderly
<1>5. alive' = alive /\ m_useCount' = m_useCount
  BY DEF ReadRaw
<1> QED
  BY <1>1, <1>3, <1>4, <1>5, NothingCounted

-----------------------------------------------------------------------------
(* A load. *)

\* The reference that a load takes from the word is the one it then has.
LEMMA LoadCounts ==
  ASSUME Counted, IInv', NEW t \in Threads, Load(t) \/ Capture(t)
  PROVE  Counted'
<1>0. WordTypes /\ DefaultLocalRefs \in Nat /\ Null \notin Objects
  BY SharedPtrAssumption DEF Counted, IInv
<1>1. /\ pc[t] \in {"idle", "capture"} /\ TakeReference(t)
      /\ own' = own /\ expected' = expected /\ op' = op /\ added' = added
      /\ m_useCount' = m_useCount /\ alive' = alive
  BY DEF Load, Capture
<1>2. OthersStay(t)
  BY <1>0, <1>1 DEF OthersStay, TakeReference, WordTypes
<1>3. m_storage.refs \in Nat /\ m_storage.refs > 0 /\ m_storage \in Words
  BY <1>0, <1>1, ReferenceForTaker DEF Counted, WordTypes
<1>4. /\ m_storage'.cb = m_storage.cb /\ m_storage'.refs = m_storage.refs - 1
      /\ word'[t].cb = m_storage.cb
      /\ loaded'[t].cb = m_storage.cb /\ loaded'[t].refs = 1
      /\ pc'[t] \in {"incref", "receive"}
  BY <1>0, <1>1, <1>3 DEF TakeReference, OneLess, WordTypes, Words
<1>5. loaded[t].refs = 0 /\ added[t] = 0
  BY <1>1 DEF Counted, OperationsOrderly, Orderly
<1>6. ASSUME NEW o \in Objects
      PROVE  Share(t, o)' = Share(t, o)
  <2>1. RefsIn(m_storage, o)' = RefsIn(m_storage, o) - (IF o = m_storage.cb THEN 1 ELSE 0)
    BY <1>3, <1>4 DEF RefsIn
  <2>2. RefsIn(loaded[t], o) = 0 /\ RefsIn(loaded[t], o)' = IF o = m_storage.cb THEN 1 ELSE 0
    BY <1>4, <1>5 DEF RefsIn
  <2>3. RefsIn(own[t], o)' = RefsIn(own[t], o) /\ RefsIn(expected[t], o)' = RefsIn(expected[t], o)
    BY <1>1 DEF RefsIn
  <2>4. /\ Bought(t, o) = 0 /\ Bought(t, o)' = 0
        /\ Replaced(t, o) = 0 /\ Replaced(t, o)' = 0
    BY <1>1, <1>4, <1>5 DEF Bought, Replaced
  <2> QED
    BY <1>0, <2>1, <2>2, <2>3, <2>4, RefsInRange DEF Share
<1>7. Orderly(t)'
  BY <1>1, <1>4, <1>5 DEF Counted, OperationsOrderly, Orderly
<1> QED
  BY <1>1, <1>2, <1>6, <1>7, NothingCounted

LEMMA BuyReferencesCounts ==
  ASSUME Counted, IInv', NEW t \in Threads, BuyReferences(t)
  PROVE  Counted'
<1>0. WordTypes /\ DefaultLocalRefs \in Nat /\ Null \notin Objects
  BY SharedPtrAssumption DEF Counted, IInv
<1>1. OthersStay(t)
  BY <1>0 DEF OthersStay, BuyReferences, WordTypes
<1>2. DefaultLocalRefs - word[t].refs \in Nat
  BY <1>0 DEF WordTypes, Words
<1>3. /\ added[t] = 0 /\ loaded[t].refs = 1 /\ word[t].cb = loaded[t].cb
      /\ added'[t] = DefaultLocalRefs - word[t].refs /\ pc[t] = "incref" /\ pc'[t] = "fill"
  BY <1>0 DEF BuyReferences, WordTypes, Counted, OperationsOrderly, Orderly
<1>4. /\ m_useCount' \in [Objects -> Int]
      /\ \A o \in Objects : m_useCount'[o] = m_useCount[o] + (IF o = loaded[t].cb THEN added'[t] ELSE 0)
  BY <1>2, <1>3, RaisedBy DEF BuyReferences, Counted
<1>5. ASSUME NEW o \in Objects
      PROVE  /\ m_useCount'[o] = m_useCount[o] - Share(t, o) + Share(t, o)'
             /\ m_useCount'[o] > m_useCount[o] => o \in alive
  <2>1. Bought(t, o) = 0 /\ Bought(t, o)' = IF o = loaded[t].cb THEN added'[t] ELSE 0
    BY <1>3 DEF Bought, BuyReferences
  <2>2. /\ RefsIn(m_storage, o)' = RefsIn(m_storage, o)
        /\ RefsIn(own[t], o)' = RefsIn(own[t], o)
        /\ RefsIn(expected[t], o)' = RefsIn(expected[t], o)
        /\ RefsIn(loaded[t], o)' = RefsIn(loaded[t], o)
        /\ Replaced(t, o)' = Replaced(t, o)
    BY <1>3 DEF BuyReferences, RefsIn, Replaced
  <2>3. m_useCount[o] \in Int
    BY DEF Counted, CountedIsAlive
  <2>4. m_useCount'[o] = m_useCount[o] - Share(t, o) + Share(t, o)'
    BY <1>0, <1>2, <1>3, <1>4, <2>1, <2>2, <2>3, RefsInRange DEF Share
  <2>5. o = loaded[t].cb => o \in alive
    <3> SUFFICES ASSUME o = loaded[t].cb PROVE o \in alive
      OBVIOUS
    <3>1. <<"loaded", t>> \in Holders /\ RefsOf(<<"loaded", t>>, o) = RefsIn(loaded[t], o)
      BY HolderValues DEF Holders
    <3>2. RefsIn(loaded[t], o) = 1
      BY <1>3 DEF RefsIn
    <3>3. RefsOf(<<"loaded", t>>, o) > 0
      BY <3>1, <3>2
    <3> QED
      BY <1>0, <3>1, <3>3, HolderIsCounted DEF Counted
  <2> QED
    BY <1>4, <2>3, <2>4, <2>5
<1>6. Orderly(t)'
  BY <1>3 DEF BuyReferences, Counted, OperationsOrderly, Orderly
<1>7. alive' = alive
  BY DEF BuyReferences
<1> QED
  BY <1>1, <1>4, <1>5, <1>6, <1>7, ThreadStepCounts

\* The references bought are exactly those the word is short of.
LEMMA FillCounts ==
  ASSUME Counted, IInv', NEW t \in Threads, Fill(t)
  PROVE  Counted'
<1>0. WordTypes /\ DefaultLocalRefs \in Nat /\ Null \notin Objects
  BY SharedPtrAssumption DEF Counted, IInv
<1>1. /\ own' = own /\ expected' = expected /\ op' = op /\ loaded' = loaded
      /\ m_useCount' = m_useCount /\ alive' = alive /\ pc[t] = "fill"
  BY DEF Fill, FillWord, FillFailsSpuriously
<1>2. OthersStay(t)
  BY <1>0 DEF OthersStay, Fill, FillWord, FillFailsSpuriously, WordTypes
<1>3. /\ loaded[t].refs = 1 /\ word[t].cb = loaded[t].cb
      /\ added[t] = DefaultLocalRefs - word[t].refs
  BY <1>1 DEF Counted, OperationsOrderly, Orderly
<1>4. CASE FillWord(t) /\ m_storage = word[t]
  <2>1. /\ m_storage'.cb = loaded[t].cb /\ m_storage'.refs = DefaultLocalRefs
        /\ m_storage.cb = loaded[t].cb /\ m_storage.refs = word[t].refs
        /\ added'[t] = 0 /\ pc'[t] = "receive" /\ m_storage.refs \in Nat
    BY <1>0, <1>3, <1>4 DEF FillWord, WordTypes, Words
  <2>2. ASSUME NEW o \in Objects
        PROVE  Share(t, o)' = Share(t, o)
    <3>1. /\ RefsIn(m_storage, o) = (IF o = loaded[t].cb THEN m_storage.refs ELSE 0)
          /\ RefsIn(m_storage, o)' = (IF o = loaded[t].cb THEN DefaultLocalRefs ELSE 0)
      BY <2>1 DEF RefsIn
    <3>2. /\ Bought(t, o) = (IF o = loaded[t].cb THEN DefaultLocalRefs - m_storage.refs ELSE 0)
          /\ Bought(t, o)' = 0
      BY <1>3, <2>1 DEF Bought
    <3>3. /\ RefsIn(own[t], o)' = RefsIn(own[t], o)
          /\ RefsIn(expected[t], o)' = RefsIn(expected[t], o)
          /\ RefsIn(loaded[t], o)' = RefsIn(loaded[t], o)
          /\ Replaced(t, o)' = Replaced(t, o)
      BY <1>1, <2>1 DEF RefsIn, Replaced
    <3> QED
      BY <1>0, <2>1, <3>1, <3>2, <3>3, RefsInRange DEF Share
  <2>3. Orderly(t)'
    BY <1>1, <2>1 DEF Counted, OperationsOrderly, Orderly
  <2> QED
    BY <1>1, <1>2, <2>2, <2>3, NothingCounted
<1>5. CASE FillFailsSpuriously(t) \/ (FillWord(t) /\ m_storage # word[t])
  <2>1. m_storage' = m_storage /\ added' = added /\ pc'[t] = "decref"
    BY <1>0, <1>5 DEF FillWord, FillFailsSpuriously, WordTypes
  <2>2. ASSUME NEW o \in Objects
        PROVE  Share(t, o)' = Share(t, o)
    BY <1>1, <2>1 DEF Share, RefsIn, Bought, Replaced
  <2>3. Orderly(t)'
    BY <1>1, <2>1 DEF Counted, OperationsOrderly, Orderly
  <2> QED
    BY <1>1, <1>2, <2>2, <2>3, NothingCounted
<1> QED
  BY <1>4, <1>5, Zenon DEF Fill

LEMMA SellReferencesCounts ==
  ASSUME Counted, IInv', NEW t \in Threads, SellReferences(t)
  PROVE  Counted'
<1>0. WordTypes /\ DefaultLocalRefs \in Nat /\ Null \notin Objects
  BY SharedPtrAssumption DEF Counted, IInv
<1>1. OthersStay(t)
  BY <1>0 DEF OthersStay, SellReferences, WordTypes
<1>2. /\ added[t] \in Nat /\ added'[t] = 0 /\ pc[t] = "decref"
      /\ pc'[t] \in {"incref", "receive"} /\ loaded[t].refs = 1
      /\ pc'[t] = "incref" => word[t].cb = loaded[t].cb
  BY <1>0 DEF SellReferences, WordTypes, SamePointer, Counted, OperationsOrderly, Orderly
<1>3. /\ m_useCount' \in [Objects -> Int]
      /\ \A o \in Objects : m_useCount'[o] = m_useCount[o] - (IF o = loaded[t].cb THEN added[t] ELSE 0)
  BY <1>2, RaisedBy DEF SellReferences, Counted
<1>4. ASSUME NEW o \in Objects
      PROVE  /\ m_useCount'[o] = m_useCount[o] - Share(t, o) + Share(t, o)'
             /\ m_useCount'[o] > m_useCount[o] => o \in alive
  <2>1. Bought(t, o) = (IF o = loaded[t].cb THEN added[t] ELSE 0) /\ Bought(t, o)' = 0
    BY <1>2 DEF Bought, SellReferences
  <2>2. /\ RefsIn(m_storage, o)' = RefsIn(m_storage, o)
        /\ RefsIn(own[t], o)' = RefsIn(own[t], o)
        /\ RefsIn(expected[t], o)' = RefsIn(expected[t], o)
        /\ RefsIn(loaded[t], o)' = RefsIn(loaded[t], o)
        /\ Replaced(t, o)' = Replaced(t, o)
    BY <1>2 DEF SellReferences, RefsIn, Replaced
  <2>3. m_useCount[o] \in Int
    BY DEF Counted, CountedIsAlive
  <2>4. m_useCount'[o] = m_useCount[o] - Share(t, o) + Share(t, o)'
    BY <1>0, <1>2, <1>3, <2>1, <2>2, <2>3, RefsInRange DEF Share
  <2> QED
    BY <1>2, <1>3, <2>3, <2>4
<1>5. Orderly(t)'
  BY <1>2 DEF SellReferences, Counted, OperationsOrderly, Orderly
<1>6. alive' = alive
  BY DEF SellReferences
<1> QED
  BY <1>1, <1>3, <1>4, <1>5, <1>6, ThreadStepCounts

\* The reference that was loaded moves to expected, whose own are given back.
LEMMA ReceiveCounts ==
  ASSUME Counted, IInv', NEW t \in Threads, Receive(t)
  PROVE  Counted'
<1>0. WordTypes /\ DefaultLocalRefs \in Nat /\ Null \notin Objects
  BY SharedPtrAssumption DEF Counted, IInv
<1>1. OthersStay(t)
  BY <1>0 DEF OthersStay, Receive, Finish, WordTypes
<1>2. /\ added[t] = 0 /\ added'[t] = 0 /\ pc[t] = "receive" /\ pc'[t] = "idle" /\ op'[t] = "none"
      /\ loaded[t].refs = 1 /\ loaded'[t] = EmptyWord
      /\ expected[t].refs \in Nat
      /\ expected'[t].cb = loaded[t].cb
      /\ expected'[t].refs = IF loaded[t].cb = Null THEN 0 ELSE 1
  BY <1>0 DEF Receive, Finish, WordTypes, Words, Counted, OperationsOrderly, Orderly
<1>3. /\ m_useCount' \in [Objects -> Int]
      /\ \A o \in Objects :
           m_useCount'[o] = m_useCount[o] - (IF o = expected[t].cb THEN expected[t].refs ELSE 0)
  BY <1>2, RaisedBy DEF Receive, Counted
<1>4. ASSUME NEW o \in Objects
      PROVE  /\ m_useCount'[o] = m_useCount[o] - Share(t, o) + Share(t, o)'
             /\ m_useCount'[o] > m_useCount[o] => o \in alive
  <2>1. RefsIn(expected[t], o) = (IF o = expected[t].cb THEN expected[t].refs ELSE 0)
    BY DEF RefsIn
  <2>2. RefsIn(expected[t], o)' = RefsIn(loaded[t], o)
    BY <1>0, <1>2 DEF RefsIn
  <2>3. RefsIn(loaded[t], o)' = 0
    BY <1>0, <1>2 DEF RefsIn, EmptyWord
  <2>4. /\ RefsIn(m_storage, o)' = RefsIn(m_storage, o)
        /\ RefsIn(own[t], o)' = RefsIn(own[t], o)
        /\ Bought(t, o)' = 0 /\ Replaced(t, o)' = 0
        /\ Bought(t, o) = 0 /\ Replaced(t, o) = 0
    BY <1>2 DEF Receive, RefsIn, Bought, Replaced
  <2>5. m_useCount[o] \in Int
    BY DEF Counted, CountedIsAlive
  <2>6. m_useCount'[o] = m_useCount[o] - Share(t, o) + Share(t, o)'
    BY <1>0, <1>3, <2>1, <2>2, <2>3, <2>4, <2>5, RefsInRange DEF Share
  <2> QED
    BY <1>2, <1>3, <2>5, <2>6
<1>5. Orderly(t)'
  BY <1>2 DEF Receive, Counted, OperationsOrderly, Orderly, EmptyWord
<1>6. alive' = alive
  BY DEF Receive
<1> QED
  BY <1>1, <1>3, <1>4, <1>5, <1>6, ThreadStepCounts

-----------------------------------------------------------------------------
(* A replacement of the word. *)

LEMMA BeginCounts ==
  ASSUME Counted, IInv', NEW t \in Threads, NEW p \in Ops, Begin(t, p)
  PROVE  Counted'
<1>0. WordTypes /\ DefaultLocalRefs \in Nat /\ Null \notin Objects
  BY SharedPtrAssumption DEF Counted, IInv
<1>1. OthersStay(t)
  BY <1>0 DEF OthersStay, Begin, WordTypes
<1>2. /\ m_storage' = m_storage /\ expected' = expected /\ loaded' = loaded /\ added' = added
      /\ word' = word /\ alive' = alive /\ pc[t] = "idle" /\ pc'[t] = "begin" /\ op'[t] = p
      /\ p = "raw" => expected[t].refs = 0
  BY <1>0 DEF Begin, WordTypes
<1>3. own[t].refs \in Nat /\ own[t].refs <= DefaultLocalRefs
  BY <1>0 DEF WordTypes, SharedPtrs
<1>4. ASSUME NEW o \in Objects
      PROVE  /\ RefsIn(m_storage, o)' = RefsIn(m_storage, o)
             /\ RefsIn(expected[t], o)' = RefsIn(expected[t], o)
             /\ RefsIn(loaded[t], o)' = RefsIn(loaded[t], o)
             /\ Bought(t, o)' = Bought(t, o)
             /\ Replaced(t, o)' = Replaced(t, o)
  BY <1>2 DEF RefsIn, Bought, Replaced
<1>5. CASE own[t].refs < LocalRefFillBoundary
  <2>1. own'[t].cb = own[t].cb /\ own'[t].refs = DefaultLocalRefs
    BY <1>0, <1>5 DEF Begin, WordTypes, SharedPtrs
  <2>2. /\ m_useCount' \in [Objects -> Int]
        /\ \A o \in Objects :
             m_useCount'[o] = m_useCount[o] + (IF o = own[t].cb THEN DefaultLocalRefs - own[t].refs ELSE 0)
    <3>1. DefaultLocalRefs - own[t].refs \in Int
      BY <1>0, <1>3
    <3>2. m_useCount' = Raised(own[t].cb, DefaultLocalRefs - own[t].refs)
      BY <1>5 DEF Begin
    <3>3. CountedIsAlive
      BY DEF Counted
    <3> QED
      BY <3>1, <3>2, <3>3, RaisedBy
  <2>3. ASSUME NEW o \in Objects
        PROVE  /\ m_useCount'[o] = m_useCount[o] - Share(t, o) + Share(t, o)'
               /\ m_useCount'[o] > m_useCount[o] => o \in alive
    <3>1. /\ RefsIn(own[t], o) = (IF o = own[t].cb THEN own[t].refs ELSE 0)
          /\ RefsIn(own[t], o)' = (IF o = own[t].cb THEN DefaultLocalRefs ELSE 0)
      BY <2>1 DEF RefsIn
    <3>2. m_useCount[o] \in Int
      BY DEF Counted, CountedIsAlive
    <3>3. m_useCount'[o] = m_useCount[o] - Share(t, o) + Share(t, o)'
      BY <1>0, <1>3, <1>4, <2>2, <3>1, <3>2, RefsInRange DEF Share
    <3>4. o = own[t].cb => o \in alive
      <4> SUFFICES ASSUME o = own[t].cb PROVE o \in alive
        OBVIOUS
      <4>1. RefsOf(<<"own", t>>, o) > 0 /\ <<"own", t>> \in Holders
        BY <1>0, HolderValues DEF RefsIn, Counted, OperationsOrderly, Orderly, Holders
      <4> QED
        BY <1>0, <4>1, HolderIsCounted DEF Counted
    <3> QED
      BY <2>2, <3>2, <3>3, <3>4
  <2>4. Orderly(t)'
    BY <1>2, <2>1, BoundaryPositive DEF Counted, OperationsOrderly, Orderly
  <2> QED
    BY <1>1, <1>2, <2>2, <2>3, <2>4, ThreadStepCounts
<1>6. CASE ~ (own[t].refs < LocalRefFillBoundary)
  <2>1. own' = own /\ m_useCount' = m_useCount
    BY <1>6 DEF Begin
  <2>2. ASSUME NEW o \in Objects
        PROVE  Share(t, o)' = Share(t, o)
    <3>1. RefsIn(own[t], o)' = RefsIn(own[t], o)
      BY <2>1 DEF RefsIn
    <3> QED
      BY <1>4, <3>1 DEF Share
  <2>3. Orderly(t)'
    BY <1>2, <2>1 DEF Counted, OperationsOrderly, Orderly
  <2> QED
    BY <1>1, <1>2, <2>1, <2>2, <2>3, NothingCounted
<1> QED
  BY <1>5, <1>6

\* The parts of a replacement that move no reference.
LEMMA LookCounts ==
  ASSUME Counted, IInv', NEW t \in Threads, ReadWord(t) \/ Retry(t) \/ FailCapture(t) \/ FailRaw(t)
  PROVE  Counted'
<1>0. WordTypes /\ DefaultLocalRefs \in Nat /\ Null \notin Objects
  BY SharedPtrAssumption DEF Counted, IInv
<1>1. OthersStay(t)
  BY <1>0 DEF OthersStay, ReadWord, Retry, FailCapture, FailRaw, Finish, WordTypes
<1>2. /\ m_storage' = m_storage /\ own' = own /\ loaded' = loaded /\ added' = added
      /\ alive' = alive /\ m_useCount' = m_useCount
      /\ pc[t] \in {"begin", "install"} /\ pc'[t] \in {"idle", "install", "capture"}
  BY <1>0 DEF ReadWord, Retry, FailCapture, FailRaw, Finish, WordTypes
<1>3. expected' = expected \/ (expected[t].refs = 0 /\ expected'[t].refs = 0)
  BY <1>0 DEF ReadWord, Retry, FailCapture, FailRaw, WordTypes, Words, Counted, OperationsOrderly, Orderly
<1>4. ASSUME NEW o \in Objects
      PROVE  Share(t, o)' = Share(t, o)
  <2>1. RefsIn(expected[t], o)' = RefsIn(expected[t], o)
    BY <1>3 DEF RefsIn
  <2>2. /\ RefsIn(m_storage, o)' = RefsIn(m_storage, o)
        /\ RefsIn(own[t], o)' = RefsIn(own[t], o)
        /\ RefsIn(loaded[t], o)' = RefsIn(loaded[t], o)
        /\ Bought(t, o)' = Bought(t, o) /\ Replaced(t, o)' = Replaced(t, o)
    BY <1>2 DEF RefsIn, Bought, Replaced
  <2> QED
    BY <2>1, <2>2 DEF Share
<1>5. op'[t] = op[t] \/ op'[t] = "none"
  BY <1>0 DEF ReadWord, Retry, FailCapture, FailRaw, Finish, WordTypes
<1>6. Orderly(t)'
  BY <1>2, <1>3, <1>5 DEF Counted, OperationsOrderly, Orderly
<1> QED
  BY <1>1, <1>2, <1>4, <1>6, NothingCounted

\* The word gets the references of own[t], and those it had go to own[t] (an
\* exchange) or stay with the thread until it drops them.
LEMMA InstallCounts ==
  ASSUME Counted, IInv', NEW t \in Threads, Install(t)
  PROVE  Counted'
<1>0. WordTypes /\ DefaultLocalRefs \in Nat /\ Null \notin Objects
  BY SharedPtrAssumption DEF Counted, IInv
<1>1. OthersStay(t)
  BY <1>0 DEF OthersStay, Install, Finish, WordTypes
<1>2. /\ expected' = expected /\ loaded' = loaded /\ added' = added
      /\ alive' = alive /\ m_useCount' = m_useCount
      /\ m_storage'.cb = own[t].cb /\ m_storage'.refs = own[t].refs
      /\ pc[t] = "install" /\ m_storage = word[t]
  BY DEF Install
<1>3. m_storage.refs > 0
  BY <1>2, ReferenceForTaker DEF Counted
<1>4. ASSUME NEW o \in Objects
      PROVE  /\ RefsIn(m_storage, o)' = RefsIn(own[t], o)
             /\ RefsIn(expected[t], o)' = RefsIn(expected[t], o)
             /\ RefsIn(loaded[t], o)' = RefsIn(loaded[t], o)
             /\ Bought(t, o)' = Bought(t, o)
             /\ Replaced(t, o) = 0
  BY <1>2 DEF RefsIn, Bought, Replaced
<1>5. CASE op[t] = "exchange"
  <2>1. /\ own'[t] = IF m_storage.cb = Null THEN EmptyPtr ELSE [cb |-> m_storage.cb, refs |-> m_storage.refs]
        /\ pc'[t] = "idle" /\ op'[t] = "none"
    BY <1>0, <1>2, <1>5 DEF Install, Finish, WordTypes
  <2>2. ASSUME NEW o \in Objects
        PROVE  Share(t, o)' = Share(t, o)
    <3>1. RefsIn(own[t], o)' = RefsIn(m_storage, o)
      BY <1>0, <2>1 DEF RefsIn, EmptyPtr
    <3>2. Replaced(t, o)' = 0
      BY <2>1 DEF Replaced
    <3> QED
      BY <1>0, <1>4, <3>1, <3>2, RefsInRange DEF Share
  <2>3. Orderly(t)'
    BY <1>2, <1>3, <2>1 DEF Counted, OperationsOrderly, Orderly, EmptyPtr
  <2> QED
    BY <1>1, <1>2, <2>2, <2>3, NothingCounted
<1>6. CASE op[t] # "exchange"
  <2>1. own'[t] = EmptyPtr /\ pc'[t] = "drop" /\ word' = word
    BY <1>0, <1>6 DEF Install, WordTypes
  <2>2. ASSUME NEW o \in Objects
        PROVE  Share(t, o)' = Share(t, o)
    <3>1. RefsIn(own[t], o)' = 0
      BY <1>0, <2>1 DEF RefsIn, EmptyPtr
    <3>2. Replaced(t, o)' = RefsIn(m_storage, o)
      BY <1>2, <2>1 DEF Replaced, RefsIn
    <3> QED
      BY <1>0, <1>4, <3>1, <3>2, RefsInRange DEF Share
  <2>3. Orderly(t)'
    BY <1>2, <2>1 DEF Counted, OperationsOrderly, Orderly, EmptyPtr
  <2> QED
    BY <1>1, <1>2, <2>2, <2>3, NothingCounted
<1> QED
  BY <1>5, <1>6

LEMMA DropReplacedCounts ==
  ASSUME Counted, IInv', NEW t \in Threads, DropReplaced(t)
  PROVE  Counted'
<1>0. WordTypes /\ DefaultLocalRefs \in Nat /\ Null \notin Objects
  BY SharedPtrAssumption DEF Counted, IInv
<1>1. OthersStay(t)
  BY <1>0 DEF OthersStay, DropReplaced, Finish, WordTypes
<1>2. word[t].refs \in Nat /\ pc[t] = "drop" /\ pc'[t] = "idle" /\ op'[t] = "none"
  BY <1>0 DEF DropReplaced, Finish, WordTypes, Words
<1>3. /\ m_useCount' \in [Objects -> Int]
      /\ \A o \in Objects : m_useCount'[o] = m_useCount[o] - (IF o = word[t].cb THEN word[t].refs ELSE 0)
  BY <1>2, RaisedBy DEF DropReplaced, Counted
<1>4. ASSUME NEW o \in Objects
      PROVE  /\ m_useCount'[o] = m_useCount[o] - Share(t, o) + Share(t, o)'
             /\ m_useCount'[o] > m_useCount[o] => o \in alive
  <2>1. Replaced(t, o) = (IF o = word[t].cb THEN word[t].refs ELSE 0) /\ Replaced(t, o)' = 0
    BY <1>2 DEF Replaced, RefsIn
  <2>2. /\ RefsIn(m_storage, o)' = RefsIn(m_storage, o)
        /\ RefsIn(own[t], o)' = RefsIn(own[t], o)
        /\ RefsIn(expected[t], o)' = RefsIn(expected[t], o)
        /\ RefsIn(loaded[t], o)' = RefsIn(loaded[t], o)
        /\ Bought(t, o)' = Bought(t, o)
    BY DEF DropReplaced, RefsIn, Bought
  <2>3. m_useCount[o] \in Int
    BY DEF Counted, CountedIsAlive
  <2>4. m_useCount'[o] = m_useCount[o] - Share(t, o) + Share(t, o)'
    BY <1>0, <1>3, <2>1, <2>2, <2>3, RefsInRange DEF Share
  <2> QED
    BY <1>2, <1>3, <2>3, <2>4
<1>5. Orderly(t)'
  BY <1>2 DEF DropReplaced, Counted, OperationsOrderly, Orderly
<1>6. alive' = alive
  BY DEF DropReplaced
<1> QED
  BY <1>1, <1>3, <1>4, <1>5, <1>6, ThreadStepCounts

\* A step that changes none of the holders.
LEMMA ReferencesStay ==
  ASSUME UseCountExact, m_useCount' = m_useCount, m_storage' = m_storage, own' = own,
         expected' = expected, pc' = pc, word' = word, loaded' = loaded, added' = added
  PROVE  UseCountExact'
<1>1. ASSUME NEW o \in Objects
      PROVE  Cardinality(References(o))' = Cardinality(References(o))
  <2>1. \A h \in Holders : RefsOf(h, o)' = RefsOf(h, o)
    BY DEF RefsOf, RefsIn
  <2>2. References(o)' = References(o)
    BY <2>1 DEF References, Holders
  <2> QED
    BY <2>2, Zenon
<1> QED
  BY <1>1 DEF UseCountExact

LEMMA DestroyCounts ==
  ASSUME Counted, IInv', NEW p \in Objects, Destroy(p)
  PROVE  Counted'
<1>1. /\ m_storage' = m_storage /\ m_useCount' = m_useCount /\ own' = own /\ expected' = expected
      /\ pc' = pc /\ op' = op /\ word' = word /\ loaded' = loaded /\ added' = added
  BY DEF Destroy
<1>2. UseCountExact'
  BY <1>1, ReferencesStay DEF Counted
<1>3. OperationsOrderly' /\ NobodyInstalls'
  BY <1>1 DEF Counted, OperationsOrderly, Orderly, NobodyInstalls
<1>4. CountedIsAlive'
  BY <1>1 DEF Destroy, Counted, CountedIsAlive
<1> QED
  BY <1>2, <1>3, <1>4 DEF Counted

LEMMA InitCounted == Init => Counted
<1> SUFFICES ASSUME Init PROVE Counted
  OBVIOUS
<1>1. IInv
  BY InitInv
<1>2. OperationsOrderly /\ NobodyInstalls
  BY DEF Init, OperationsOrderly, Orderly, NobodyInstalls, EmptyWord, EmptyPtr
<1>3. CountedIsAlive
  BY DEF Init, CountedIsAlive
<1>4. ASSUME NEW o \in Objects
      PROVE  m_useCount[o] = Cardinality(References(o))
  <2>1. ASSUME NEW h \in Holders
        PROVE  RefsOf(h, o) = 0
    BY SharedPtrAssumption DEF Init, Holders, RefsOf, RefsIn, EmptyWord, EmptyPtr
  <2>2. References(o) = {}
    BY <2>1 DEF References
  <2> QED
    BY <2>2, FS_EmptySet DEF Init
<1> QED
  BY <1>1, <1>2, <1>3, <1>4 DEF Counted, UseCountExact

LEMMA NextCounted == Counted /\ [Next]_vars => Counted'
<1> SUFFICES ASSUME Counted, [Next]_vars PROVE Counted'
  OBVIOUS
<1>1. IInv'
  BY NextInv DEF Counted
<1>2. CASE UNCHANGED vars
  <2>1. UseCountExact'
    BY <1>2, ReferencesStay DEF vars, Counted
  <2> QED
    BY <1>1, <1>2, <2>1
       DEF vars, Counted, OperationsOrderly, Orderly, CountedIsAlive, NobodyInstalls
<1>3. ASSUME NEW t \in Threads, Continue(t)
      PROVE  Counted'
  BY <1>1, <1>3, BuyReferencesCounts, FillCounts, SellReferencesCounts, ReceiveCounts, LookCounts,
     InstallCounts, LoadCounts, DropReplacedCounts DEF Continue
<1>4. ASSUME NEW t \in Threads,
             \/ \E o \in Objects : MakeShared(t, o)
             \/ \E u \in Threads : CopyTo(t, u)
             \/ MoveExpected(t) \/ ReleaseOwn(t) \/ ReleaseExpected(t) \/ ReadRaw(t)
             \/ Load(t)
             \/ \E o \in Ops : Begin(t, o)
      PROVE  Counted'
  BY <1>1, <1>4, MakeSharedCounts, CopyToCounts, MoveExpectedCounts, ReleaseOwnCounts,
     ReleaseExpectedCounts, ReadRawCounts, LoadCounts, BeginCounts
<1> QED
  BY <1>1, <1>2, <1>3, <1>4, DestroyCounts DEF Next

LEMMA CountedAlways == Spec => []Counted
BY InitCounted, NextCounted, PTL DEF Spec, SafeSpec

\* For every number of threads and of objects: the counter of each control
\* block is the number of references that there are to it.
THEOREM CountsAreExact == Spec => []UseCountExact
<1>1. Counted => UseCountExact
  BY DEF Counted
<1> QED
  BY <1>1, CountedAlways, PTL

-----------------------------------------------------------------------------
(* The refinement of SharedObjects. *)

Held == [t \in Threads |-> HeldBy(t)]

\* A step of t that keeps the word's pointer and constructs nothing is, for the
\* users, the release of an object, or nothing at all.
LEMMA ReleaseMaps ==
  ASSUME NEW t \in Threads, NEW q, OthersStay(t),
         m_storage'.cb = m_storage.cb, alive' = alive,
         HeldBy(t)' = HeldBy(t) \/ HeldBy(t)' = HeldBy(t) \ {q}
  PROVE  [Shared!SharedNext]_(Shared!sharedVars)
<1>1. \A u \in Threads \ {t} : HeldBy(u)' = HeldBy(u)
  BY DEF OthersStay, HeldBy, RefsIn
<1>2. CASE HeldBy(t)' = HeldBy(t)
  <2>1. Held' = Held
    BY <1>1, <1>2 DEF Held
  <2> QED
    BY <2>1 DEF Held, Shared!sharedVars
<1>3. CASE HeldBy(t)' = HeldBy(t) \ {q} /\ HeldBy(t)' # HeldBy(t)
  <2>1. q \in Objects
    BY <1>3 DEF HeldBy
  <2>2. Held' = [Held EXCEPT ![t] = @ \ {q}]
    BY <1>1, <1>3 DEF Held
  <2>3. Shared!Release(t, q)
    BY <2>2 DEF Held, Shared!Release
  <2> QED
    BY <2>1, <2>3 DEF Shared!SharedNext
<1> QED
  BY <1>2, <1>3

LEMMA MakeSharedMaps ==
  ASSUME Counted, Counted', NEW t \in Threads, NEW p \in Objects, MakeShared(t, p)
  PROVE  [Shared!SharedNext]_(Shared!sharedVars)
<1>0. WordTypes /\ WordTypes' /\ DefaultLocalRefs \in Nat /\ DefaultLocalRefs > 0 /\ Null \notin Objects
  BY SharedPtrAssumption, BoundaryPositive DEF Counted, IInv
<1>1. own[t].cb = Null /\ own'[t].cb = p /\ own'[t].refs = DefaultLocalRefs
  BY <1>0 DEF MakeShared, WordTypes, SharedPtrs
<1>2. HeldBy(t)' = HeldBy(t) \cup {p}
  BY <1>0, <1>1 DEF HeldBy, RefsIn, MakeShared
<1>3. \A u \in Threads \ {t} : HeldBy(u)' = HeldBy(u)
  BY <1>0 DEF MakeShared, HeldBy, RefsIn, WordTypes
<1>4. Held' = [Held EXCEPT ![t] = @ \cup {p}]
  BY <1>2, <1>3 DEF Held
<1>5. Shared!Create(t, p)
  BY <1>4 DEF Held, Shared!Create, MakeShared
<1> QED
  BY <1>5 DEF Shared!SharedNext

LEMMA CopyToMaps ==
  ASSUME Counted, Counted', NEW t \in Threads, NEW u \in Threads, CopyTo(t, u)
  PROVE  [Shared!SharedNext]_(Shared!sharedVars)
<1>0. WordTypes /\ DefaultLocalRefs \in Nat /\ DefaultLocalRefs > 0 /\ Null \notin Objects
  BY SharedPtrAssumption, BoundaryPositive DEF Counted, IInv
<1>1. /\ own[u].cb = Null /\ own[t].cb \in Objects /\ own[t].refs > 0
      /\ own'[u].cb = own[t].cb /\ own'[u].refs = DefaultLocalRefs
  BY <1>0 DEF CopyTo, WordTypes, SharedPtrs, Pointers, Counted, OperationsOrderly, Orderly
<1>2. own[t].cb \in HeldBy(t) /\ HeldBy(u)' = HeldBy(u) \cup {own[t].cb}
  BY <1>0, <1>1 DEF HeldBy, RefsIn, CopyTo
<1>3. \A v \in Threads \ {u} : HeldBy(v)' = HeldBy(v)
  BY <1>0 DEF CopyTo, HeldBy, RefsIn, WordTypes
<1>4. Held' = [Held EXCEPT ![u] = @ \cup {own[t].cb}]
  BY <1>2, <1>3 DEF Held
<1>5. Shared!Give(t, u, own[t].cb)
  BY <1>2, <1>4 DEF Held, Shared!Give, CopyTo
<1> QED
  BY <1>1, <1>5 DEF Shared!SharedNext

LEMMA LoadMaps ==
  ASSUME Counted, Counted', NEW t \in Threads, Load(t) \/ Capture(t)
  PROVE  [Shared!SharedNext]_(Shared!sharedVars)
<1>0. WordTypes /\ DefaultLocalRefs \in Nat /\ Null \notin Objects
  BY SharedPtrAssumption DEF Counted, IInv
<1>1. /\ pc[t] \in {"idle", "capture"} /\ TakeReference(t)
      /\ own' = own /\ expected' = expected /\ alive' = alive
  BY DEF Load, Capture
<1>2. loaded[t].refs = 0
  BY <1>1 DEF Counted, OperationsOrderly, Orderly
<1>3. m_storage'.cb = m_storage.cb /\ loaded'[t].cb = m_storage.cb /\ loaded'[t].refs = 1
  BY <1>0, <1>1 DEF TakeReference, OneLess, WordTypes, Words
<1>4. m_storage.cb \in Objects \cup {Null}
  BY <1>0 DEF WordTypes, Words, Pointers
<1>5. HeldBy(t)' = HeldBy(t) \cup Shared!NonNull(m_storage.cb)
  BY <1>0, <1>1, <1>2, <1>3, <1>4 DEF HeldBy, RefsIn, Shared!NonNull
<1>6. \A u \in Threads \ {t} : HeldBy(u)' = HeldBy(u)
  BY <1>0, <1>1 DEF TakeReference, HeldBy, RefsIn, WordTypes
<1>7. Held' = [Held EXCEPT ![t] = @ \cup Shared!NonNull(m_storage.cb)]
  BY <1>5, <1>6 DEF Held
<1>8. Shared!Read(t)
  BY <1>1, <1>3, <1>7 DEF Held, Shared!Read
<1> QED
  BY <1>8 DEF Shared!SharedNext

LEMMA InstallMaps ==
  ASSUME Counted, Counted', NEW t \in Threads, Install(t)
  PROVE  [Shared!SharedNext]_(Shared!sharedVars)
<1>0. WordTypes /\ DefaultLocalRefs \in Nat /\ Null \notin Objects
  BY SharedPtrAssumption DEF Counted, IInv
<1>1. /\ m_storage'.cb = own[t].cb /\ m_storage = word[t]
      /\ expected' = expected /\ loaded' = loaded /\ alive' = alive
      /\ own[t].cb \in Objects \cup {Null} /\ m_storage.cb \in Objects \cup {Null}
  BY <1>0 DEF Install, WordTypes, SharedPtrs, Words, Pointers
<1>2. m_storage.refs > 0
  BY ReferenceForTaker DEF Counted, Install
<1>3. own[t].cb \in HeldBy(t) \cup {Null}
  BY <1>1 DEF HeldBy, RefsIn, Counted, OperationsOrderly, Orderly
<1>4. \E rest \in {HeldBy(t), HeldBy(t) \ {own[t].cb}} :
        \E previous \in {{}, Shared!NonNull(m_storage.cb)} : HeldBy(t)' = rest \cup previous
  <2> DEFINE Rest == {o \in Objects : RefsIn(expected[t], o) > 0 \/ RefsIn(loaded[t], o) > 0}
  <2>1. Rest = HeldBy(t) \/ Rest = HeldBy(t) \ {own[t].cb}
    BY DEF HeldBy, RefsIn
  <2>2. CASE op[t] = "exchange"
    <3>1. own'[t] = IF m_storage.cb = Null THEN EmptyPtr ELSE [cb |-> m_storage.cb, refs |-> m_storage.refs]
      BY <1>0, <1>1, <2>2 DEF Install, WordTypes
    <3>2. {o \in Objects : RefsIn(own'[t], o) > 0} = Shared!NonNull(m_storage.cb)
      BY <1>0, <1>1, <1>2, <3>1 DEF RefsIn, EmptyPtr, Shared!NonNull
    <3>3. HeldBy(t)' = Rest \cup {o \in Objects : RefsIn(own'[t], o) > 0}
      BY <1>1 DEF HeldBy, RefsIn
    <3>4. HeldBy(t)' = Rest \cup Shared!NonNull(m_storage.cb)
      BY <3>2, <3>3
    <3> QED
      BY <2>1, <3>4
  <2>3. CASE op[t] # "exchange"
    <3>1. own'[t] = EmptyPtr
      BY <1>0, <2>3 DEF Install, WordTypes
    <3>2. HeldBy(t)' = Rest \cup {}
      BY <1>0, <1>1, <3>1 DEF HeldBy, RefsIn, EmptyPtr
    <3> QED
      BY <2>1, <3>2
  <2> QED
    BY <2>2, <2>3
<1>5. \A u \in Threads \ {t} : HeldBy(u)' = HeldBy(u)
  BY <1>0 DEF Install, HeldBy, RefsIn, WordTypes
<1>6. Held' = [Held EXCEPT ![t] = HeldBy(t)']
  BY <1>5 DEF Held
<1>7. Shared!Replace(t, own[t].cb)
  BY <1>1, <1>3, <1>4, <1>6 DEF Held, Shared!Replace
<1> QED
  BY <1>1, <1>7 DEF Shared!SharedNext

\* What a thread does with its own pointers, a refill, and the parts of a
\* replacement that leave the word alone.
LEMMA AsideMaps ==
  ASSUME Counted, Counted', NEW t \in Threads,
         \/ MoveExpected(t) \/ ReleaseOwn(t) \/ ReleaseExpected(t) \/ ReadRaw(t)
         \/ \E p \in Ops : Begin(t, p)
         \/ BuyReferences(t) \/ Fill(t) \/ SellReferences(t) \/ Receive(t)
         \/ ReadWord(t) \/ Retry(t) \/ FailRaw(t) \/ FailCapture(t) \/ DropReplaced(t)
  PROVE  [Shared!SharedNext]_(Shared!sharedVars)
<1>0. WordTypes /\ DefaultLocalRefs \in Nat /\ DefaultLocalRefs > 0 /\ Null \notin Objects
  BY SharedPtrAssumption, BoundaryPositive DEF Counted, IInv
<1>1. CASE MoveExpected(t)
  <2>1. own[t].cb = Null /\ own'[t].cb = expected[t].cb /\ own'[t].refs = expected[t].refs /\ expected'[t] = EmptyWord
    BY <1>0, <1>1 DEF MoveExpected, WordTypes
  <2>2. HeldBy(t)' = HeldBy(t)
    BY <1>0, <1>1, <2>1 DEF MoveExpected, HeldBy, RefsIn, EmptyWord
  <2>3. OthersStay(t) /\ m_storage'.cb = m_storage.cb /\ alive' = alive
    BY <1>0, <1>1 DEF MoveExpected, OthersStay, WordTypes
  <2> QED
    BY <2>2, <2>3, ReleaseMaps
<1>2. CASE ReleaseOwn(t)
  <2>1. own'[t] = EmptyPtr
    BY <1>0, <1>2 DEF ReleaseOwn, WordTypes
  <2>2. HeldBy(t)' = HeldBy(t) \/ HeldBy(t)' = HeldBy(t) \ {own[t].cb}
    BY <1>0, <1>2, <2>1 DEF ReleaseOwn, HeldBy, RefsIn, EmptyPtr
  <2>3. OthersStay(t) /\ m_storage'.cb = m_storage.cb /\ alive' = alive
    BY <1>0, <1>2 DEF ReleaseOwn, OthersStay, WordTypes
  <2> QED
    BY <2>2, <2>3, ReleaseMaps
<1>3. CASE ReleaseExpected(t)
  <2>1. expected'[t] = EmptyWord
    BY <1>0, <1>3 DEF ReleaseExpected, WordTypes
  <2>2. HeldBy(t)' = HeldBy(t) \/ HeldBy(t)' = HeldBy(t) \ {expected[t].cb}
    BY <1>0, <1>3, <2>1 DEF ReleaseExpected, HeldBy, RefsIn, EmptyWord
  <2>3. OthersStay(t) /\ m_storage'.cb = m_storage.cb /\ alive' = alive
    BY <1>0, <1>3 DEF ReleaseExpected, OthersStay, WordTypes
  <2> QED
    BY <2>2, <2>3, ReleaseMaps
<1>4. CASE ReadRaw(t) \/ FailRaw(t)
  <2>1. expected[t].refs = 0 /\ expected'[t].refs = 0
    BY <1>0, <1>4 DEF ReadRaw, FailRaw, WordTypes, Words, Counted, OperationsOrderly, Orderly
  <2>2. own' = own /\ loaded' = loaded /\ m_storage' = m_storage /\ alive' = alive
    BY <1>4 DEF ReadRaw, FailRaw
  <2>3. HeldBy(t)' = HeldBy(t)
    BY <2>1, <2>2 DEF HeldBy, RefsIn
  <2>4. OthersStay(t)
    BY <1>0, <1>4 DEF ReadRaw, FailRaw, Finish, OthersStay, WordTypes
  <2> QED
    BY <2>2, <2>3, <2>4, ReleaseMaps
<1>5. CASE \E p \in Ops : Begin(t, p)
  <2>1. PICK p \in Ops : Begin(t, p)
    BY <1>5
  <2>2. expected' = expected /\ loaded' = loaded /\ m_storage' = m_storage /\ alive' = alive
    BY <2>1 DEF Begin
  <2>3. own'[t].cb = own[t].cb /\ (own'[t].refs = own[t].refs \/ own'[t].refs = DefaultLocalRefs)
    BY <1>0, <2>1 DEF Begin, WordTypes, SharedPtrs
  <2>4. own[t].cb \in Objects => own[t].refs > 0 /\ own'[t].refs > 0
    BY <1>0, <2>3 DEF Counted, OperationsOrderly, Orderly
  <2>5. HeldBy(t)' = HeldBy(t)
    BY <2>2, <2>3, <2>4 DEF HeldBy, RefsIn
  <2>6. OthersStay(t)
    BY <1>0, <2>1 DEF Begin, OthersStay, WordTypes
  <2> QED
    BY <2>2, <2>5, <2>6, ReleaseMaps
<1>6. CASE BuyReferences(t) \/ Fill(t) \/ SellReferences(t) \/ ReadWord(t) \/ Retry(t) \/ FailCapture(t) \/ DropReplaced(t)
  <2>1. own' = own /\ expected' = expected /\ loaded' = loaded /\ alive' = alive
    BY <1>6 DEF BuyReferences, Fill, FillWord, FillFailsSpuriously, SellReferences, ReadWord, Retry,
                FailCapture, DropReplaced
  <2>2. m_storage'.cb = m_storage.cb
    BY <1>0, <1>6
       DEF BuyReferences, Fill, FillWord, FillFailsSpuriously, SellReferences, ReadWord, Retry,
           FailCapture, DropReplaced, WordTypes, Words
  <2>3. HeldBy(t)' = HeldBy(t)
    BY <2>1 DEF HeldBy, RefsIn
  <2>4. OthersStay(t)
    BY <1>0, <1>6
       DEF BuyReferences, Fill, FillWord, FillFailsSpuriously, SellReferences, ReadWord, Retry,
           FailCapture, DropReplaced, Finish, OthersStay, WordTypes
  <2> QED
    BY <2>1, <2>2, <2>3, <2>4, ReleaseMaps
<1>7. CASE Receive(t)
  <2>1. /\ loaded'[t] = EmptyWord /\ loaded[t].refs = 1
        /\ expected'[t].cb = loaded[t].cb
        /\ expected'[t].refs = IF loaded[t].cb = Null THEN 0 ELSE 1
    BY <1>0, <1>7 DEF Receive, WordTypes, Words, Counted, OperationsOrderly, Orderly
  <2>2. HeldBy(t)' = HeldBy(t) \/ HeldBy(t)' = HeldBy(t) \ {expected[t].cb}
    BY <1>0, <1>7, <2>1 DEF Receive, HeldBy, RefsIn, EmptyWord
  <2>3. OthersStay(t) /\ m_storage'.cb = m_storage.cb /\ alive' = alive
    BY <1>0, <1>7 DEF Receive, Finish, OthersStay, WordTypes
  <2> QED
    BY <2>2, <2>3, ReleaseMaps
<1> QED
  BY <1>1, <1>2, <1>3, <1>4, <1>5, <1>6, <1>7, Zenon

\* A counter of zero means that neither the word nor a shared_ptr refers to the
\* object: the word has a reference left, or every thread is filling it up.
LEMMA UncountedIsUnreferenced ==
  ASSUME Counted, NEW p \in Objects, m_useCount[p] = 0
  PROVE  m_storage.cb # p /\ \A t \in Threads : p \notin HeldBy(t)
<1>0. WordTypes /\ UseCountExact /\ CountedIsAlive
  BY DEF Counted, IInv
<1>1. \A h \in Holders : ~ (RefsOf(h, p) > 0)
  BY <1>0, HolderIsCounted
<1>2. ASSUME NEW t \in Threads
      PROVE  ~ (RefsIn(own[t], p) > 0) /\ ~ (RefsIn(expected[t], p) > 0) /\ ~ (RefsIn(loaded[t], p) > 0)
  <2>1. <<"own", t>> \in Holders /\ <<"expected", t>> \in Holders /\ <<"loaded", t>> \in Holders
    BY DEF Holders
  <2> QED
    BY <1>1, <2>1, HolderValues
<1>3. m_storage.cb # p
  <2> SUFFICES ASSUME m_storage.cb = p PROVE FALSE
    OBVIOUS
  <2>1. PICK t \in Threads : TRUE
    BY SharedPtrAssumption DEF Counted, NobodyInstalls
  <2>2. <<"m_storage", Null>> \in Holders /\ ~ (RefsIn(m_storage, p) > 0)
    BY <1>1, <2>1, HolderValues DEF Holders
  <2>3. m_storage.refs = 0
    BY <1>0, <2>2, SharedPtrAssumption DEF RefsIn, WordTypes, Words
  <2>4. t \in Fillers
    <3> SUFFICES ASSUME t \notin Fillers PROVE FALSE
      OBVIOUS
    <3>1. Cardinality(Fillers) < LocalRefFillBoundary /\ Cardinality(Fillers) \in Nat
      BY FillersCount
    <3> QED
      BY <2>3, <3>1, SharedPtrAssumption DEF Counted, IInv, FillersCover
  <2>5. loaded[t].cb = p /\ loaded[t].refs = 1
    BY <2>4 DEF Fillers, WillFill, SamePointer, Counted, OperationsOrderly, Orderly
  <2>6. RefsIn(loaded[t], p) > 0
    BY <2>5 DEF RefsIn
  <2> QED
    BY <1>2, <2>6
<1> QED
  BY <1>2, <1>3 DEF HeldBy

LEMMA DestroyMaps ==
  ASSUME Counted, NEW p \in Objects, Destroy(p)
  PROVE  [Shared!SharedNext]_(Shared!sharedVars)
<1>1. m_storage.cb # p /\ \A t \in Threads : p \notin HeldBy(t)
  BY UncountedIsUnreferenced DEF Destroy
<1>2. m_storage' = m_storage /\ Held' = Held
  BY DEF Destroy, Held, HeldBy, RefsIn
<1>3. ~ Shared!Referenced(p)
  BY <1>1 DEF Shared!Referenced
<1>4. Shared!Destroy(p)
  BY <1>2, <1>3 DEF Held, Shared!Destroy, Destroy
<1> QED
  BY <1>4 DEF Shared!SharedNext

LEMMA NextMaps == Counted /\ Counted' /\ [Next]_vars => [Shared!SharedNext]_(Shared!sharedVars)
<1> SUFFICES ASSUME Counted, Counted', [Next]_vars PROVE [Shared!SharedNext]_(Shared!sharedVars)
  OBVIOUS
<1>1. CASE UNCHANGED vars
  <2>1. Held' = Held /\ m_storage' = m_storage /\ alive' = alive
    BY <1>1 DEF vars, Held, HeldBy, RefsIn
  <2> QED
    BY <2>1 DEF Held, Shared!sharedVars
<1>2. ASSUME NEW t \in Threads,
             \/ \E o \in Objects : MakeShared(t, o)
             \/ \E u \in Threads : CopyTo(t, u)
             \/ MoveExpected(t) \/ ReleaseOwn(t) \/ ReleaseExpected(t) \/ ReadRaw(t)
             \/ Load(t)
             \/ \E o \in Ops : Begin(t, o)
             \/ Continue(t)
      PROVE  [Shared!SharedNext]_(Shared!sharedVars)
  BY <1>2, MakeSharedMaps, CopyToMaps, LoadMaps, InstallMaps, AsideMaps, Zenon DEF Continue
<1>3. ASSUME NEW p \in Objects, Destroy(p)
      PROVE  [Shared!SharedNext]_(Shared!sharedVars)
  BY <1>3, DestroyMaps
<1> QED
  BY <1>1, <1>2, <1>3 DEF Next

LEMMA InitMaps == Init => Shared!SharedInit
BY SharedPtrAssumption DEF Init, Shared!SharedInit, HeldBy, RefsIn, EmptyWord, EmptyPtr

\* What users of atomic_shared_ptr and shared_ptr see is SharedObjects: no
\* object is destroyed that the word or a shared_ptr refers to, a load returns
\* the object that is stored, and only an object that a thread has is stored.
THEOREM ObjectsAreKept == Spec => KeepsObjects
<1>1. Counted /\ [Next]_vars => [Shared!SharedNext]_(Shared!sharedVars)
  BY NextCounted, NextMaps
<1> QED
  BY <1>1, InitMaps, CountedAlways, PTL DEF Spec, SafeSpec, KeepsObjects, Shared!SharedSpec

\* Every word holds a pointer, a version and a count of references in range,
\* and no control block counts below zero.
THEOREM TypesHold == Spec => []TypeOK
<1>1. Init => installs \in 0 .. MaxInstalls
  BY SharedPtrAssumption DEF Init
<1>2. installs \in 0 .. MaxInstalls /\ [Next]_vars => (installs \in 0 .. MaxInstalls)'
  <2> SUFFICES ASSUME installs \in 0 .. MaxInstalls, [Next]_vars PROVE installs' \in 0 .. MaxInstalls
    OBVIOUS
  <2>1. installs' = installs \/ (installs < MaxInstalls /\ installs' = installs + 1)
    BY DEF Next, vars, MakeShared, CopyTo, MoveExpected, ReleaseOwn, ReleaseExpected, ReadRaw, Load,
           Begin, Continue, BuyReferences, Fill, FillWord, FillFailsSpuriously, SellReferences, Receive,
           ReadWord, Install, Retry, FailRaw, FailCapture, Capture, DropReplaced, Destroy
  <2> QED
    BY <2>1, SharedPtrAssumption
<1>3. Counted /\ installs \in 0 .. MaxInstalls => TypeOK
  BY DEF Counted, IInv, WordTypes, CountedIsAlive, TypeOK
<1> QED
  BY <1>1, <1>2, <1>3, CountedAlways, PTL DEF Spec, SafeSpec
=============================================================================
