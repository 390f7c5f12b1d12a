-------------------------- MODULE GuardPoolProofs --------------------------
(***************************************************************************)
(* Proof that a critical section guards what is read in it, and that items *)
(* are neither lost nor doubled, for any number of threads, blocks of any  *)
(* number, and caches of one item or two.  The stores of critical_sec are  *)
(* seen at once (~StoreBuffers).                                           *)
(*                                                                         *)
(* The argument follows the item that a thread holds.  An item is in one   *)
(* place at a time (Unique).  While it is held it is in the data           *)
(* structure, or the thread that took it out keeps it.  It leaves that     *)
(* thread with a cache that waits for nobody; a cache that it is in waits  *)
(* for the holder, whose index has not changed since it was loaded.        *)
(*                                                                         *)
(* Only Discard takes an item away from where it is without putting it     *)
(* elsewhere, and it counts livingItems down; so livingItems is how many   *)
(* items of the block are anywhere (Conserved), and a block is released    *)
(* when none is.                                                           *)
(***************************************************************************)
EXTENDS GuardPool, SequenceTheorems, FiniteSetTheorems, TLAPS

\* The types, and what a thread has at each place in its program.
AllItems == [block : Blocks, place : Nat]
Caches == Seq(AllItems) \ {<< >>}
Waiting == [users : SUBSET Threads, items : Caches]
BlockStates == [version : Nat, itemBlock : BOOLEAN, pushSync : Nat, livingItems : Int]

\* Where a thread can be: in a call of get, in one of recycle, or in none.
Getting == {"pop", "load_end", "pop_again", "alloc", "alloc_exchange", "claim", "push", "advance"}
Recycling == {"recycle", "discard", "release", "scan", "reclaim"}
Labels == {"outside", "inside"} \cup Getting \cup Recycling

SharedTyped ==
  /\ blocks \in [Blocks -> BlockStates]
  /\ blocksEndIndex \in Nat
  /\ fullCaches \in SUBSET Caches
  /\ cell \in AllItems \cup {None}

SectionTyped ==
  /\ indices \in [Threads -> Nat]
  /\ lastCs \in [Threads -> Nat]
  /\ pending = [t \in Threads |-> << >>]
  /\ indexCache \in [Threads -> [Threads -> Nat]]

CachesTyped ==
  /\ cache \in [Threads -> Seq(AllItems)]
  /\ reclaim \in [Threads -> Seq(AllItems)]
  /\ chunk \in [Threads -> Seq(AllItems)]
  /\ reclaims \in [Threads -> Seq(Waiting)]

LocalTyped ==
  /\ pc \in [Threads -> Labels]
  /\ mine \in [Threads -> AllItems \cup {None}]
  /\ held \in [Threads -> AllItems \cup {None}]
  /\ item \in [Threads -> AllItems \cup {None}]
  /\ block \in [Threads -> Nat]
  /\ toScan \in [Threads -> SUBSET Threads]
  /\ inside \in [Threads -> SUBSET Threads]
  /\ changed \in [Threads -> SUBSET Threads]
  /\ next \in [Threads -> Nat \ {0}]

\* What belongs to a place in the program.
AtItsPlace(t) ==
  /\ pc[t] \in {"alloc_exchange", "claim", "push", "advance"} => block[t] \in Blocks
  /\ pc[t] = "push" => chunk[t] # << >>
  /\ pc[t] # "push" => chunk[t] = << >>
  /\ pc[t] \in Getting => mine[t] = None /\ cache[t] = << >>
  /\ pc[t] \in Recycling <=> item[t] # None
  /\ pc[t] = "reclaim" => reclaim[t] = << >>
  /\ pc[t] # "scan" => inside[t] = {} /\ changed[t] = {}
  /\ changed[t] \cap toScan[t] = {}
  /\ lastCs[t] % 2 = 0
  /\ pc[t] \in {"inside"} \cup Recycling => indices[t] % 2 = 1

Typed ==
  /\ SharedTyped /\ SectionTyped /\ CachesTyped /\ LocalTyped
  /\ \A t \in Threads : AtItsPlace(t)

LEMMA InitTyped == ~StoreBuffers /\ Init => Typed
<1> SUFFICES ASSUME ~StoreBuffers, Init PROVE Typed
  OBVIOUS
<1>0. CapacityBits \in Nat \ {0} /\ TlCacheSize \in {1, 2} /\ 0 \in Blocks
  BY PoolAssumption DEF Blocks
<1>1. itemRows(0) \in Nat
  <2>1. itemRows(0) = 2
    BY DEF itemRows
  <2> QED
    BY <2>1
<1>2. \A b \in Blocks : itemRows(b) \in Int
  BY DEF itemRows, Blocks
<1>3. ASSUME NEW b \in Blocks, NEW first \in Nat
      PROVE  Chunk(b, first) \in Caches
  BY <1>0 DEF Chunk, Item, Caches, AllItems
<1>4. SharedTyped
  <2>1. blocks \in [Blocks -> BlockStates]
    <3>1. \A b \in Blocks : EmptyBlock(b) \in BlockStates
      BY <1>2 DEF EmptyBlock, BlockStates
    <3>2. [EmptyBlock(0) EXCEPT !.version = 1, !.itemBlock = TRUE,
                                !.pushSync = itemRows(0) + TlCacheSize] \in BlockStates
      <4>1. itemRows(0) + TlCacheSize \in Nat
        BY <1>0, <1>1
      <4>2. ASSUME NEW r \in BlockStates, NEW n \in Nat
            PROVE  [r EXCEPT !.version = 1, !.itemBlock = TRUE, !.pushSync = n] \in BlockStates
        BY DEF BlockStates
      <4> QED
        BY <1>0, <3>1, <4>1, <4>2
    <3> QED
      BY <3>1, <3>2 DEF Init
  <2>2. fullCaches \in SUBSET Caches
    BY <1>0, <1>1, <1>3 DEF Init
  <2> QED
    BY <2>1, <2>2 DEF Init, SharedTyped
<1>5. SectionTyped
  BY DEF Init, SectionTyped
<1>6. CachesTyped
  BY DEF Init, CachesTyped
<1>7. LocalTyped
  BY DEF Init, LocalTyped, Labels
<1>8. \A t \in Threads : AtItsPlace(t)
  BY DEF Init, AtItsPlace, Getting, Recycling
<1> QED
  BY <1>4, <1>5, <1>6, <1>7, <1>8 DEF Typed

-----------------------------------------------------------------------------

LEMMA BeginGetTyped ==
  ASSUME Typed, NEW t \in Threads, BeginGet(t)
  PROVE  Typed'
<1>1. SharedTyped' /\ SectionTyped'
  BY DEF Typed, SharedTyped, SectionTyped, BeginGet, sharedVars, sectionVars
<1>2. CASE cache[t] # << >>
  <2>1. cache[t] \in Seq(AllItems) /\ Head(cache[t]) \in AllItems /\ Tail(cache[t]) \in Seq(AllItems)
    BY <1>2 DEF Typed, CachesTyped
  <2>2. CachesTyped'
    BY <1>2, <2>1 DEF Typed, CachesTyped, BeginGet, Fetch, localVars
  <2>4. LocalTyped'
    <3>1. mine' = [mine EXCEPT ![t] = Head(cache[t])] /\ pc' = [pc EXCEPT ![t] = "outside"] /\ LocalTyped
      BY <1>2 DEF Typed, BeginGet, Fetch, Goto
    <3>2. /\ held' = held /\ item' = item /\ block' = block /\ toScan' = toScan
          /\ inside' = inside /\ changed' = changed /\ next' = next
      BY DEF BeginGet, localVars
    <3> QED
      BY <2>1, <3>1, <3>2 DEF LocalTyped, Labels
  <2>3. \A u \in Threads : AtItsPlace(u)'
    <3>1. /\ pc[t] = "outside" /\ pc'[t] = "outside" /\ \A u \in Threads \ {t} : pc'[u] = pc[u]
          /\ \A u \in Threads \ {t} : mine'[u] = mine[u] /\ cache'[u] = cache[u]
          /\ UNCHANGED <<lastCs, indices, reclaim, item, block, chunk, toScan, inside, changed>>
      BY <1>2 DEF Typed, CachesTyped, LocalTyped, BeginGet, Fetch, Goto, localVars, sectionVars
    <3> QED
      BY <3>1 DEF Typed, AtItsPlace, Getting
  <2> QED
    BY <1>1, <2>2, <2>3, <2>4 DEF Typed
<1>3. CASE cache[t] = << >>
  <2>2. CachesTyped' /\ LocalTyped'
    BY <1>3 DEF Typed, CachesTyped, LocalTyped, BeginGet, Fetch, Goto, localVars, Labels, Getting
  <2>3. \A u \in Threads : AtItsPlace(u)'
    <3>1. /\ UNCHANGED <<block, chunk, mine, cache, item, reclaim, inside, changed, toScan, lastCs, indices>>
          /\ pc[t] = "outside" /\ pc'[t] = "pop" /\ \A u \in Threads \ {t} : pc'[u] = pc[u]
          /\ mine[t] = None
      BY <1>3 DEF Typed, LocalTyped, BeginGet, Goto, localVars, sectionVars
    <3> QED
      BY <1>3, <3>1 DEF Typed, AtItsPlace, Getting, Recycling
  <2> QED
    BY <1>1, <2>2, <2>3 DEF Typed
<1> QED
  BY <1>2, <1>3

LEMMA PopTyped ==
  ASSUME Typed, NEW t \in Threads, NEW otherwise \in {"load_end", "alloc"},
         pc[t] \in {"pop", "pop_again"}, Pop(t, otherwise),
         UNCHANGED <<blocks, blocksEndIndex, cell, sectionVars, reclaim, reclaims, indexCache,
                     held, localVars>>
  PROVE  Typed'
<1>1. SectionTyped'
  BY DEF Typed, SectionTyped, sectionVars
<1>2. SharedTyped'
  BY DEF Typed, SharedTyped, Pop
<1>3. ASSUME NEW c \in fullCaches, Fetch(t, c)
      PROVE  CachesTyped' /\ LocalTyped' /\ \A u \in Threads : AtItsPlace(u)'
  <2>1. c \in Seq(AllItems) /\ Head(c) \in AllItems /\ Tail(c) \in Seq(AllItems)
    BY DEF Typed, SharedTyped, Caches
  <2>2. CachesTyped'
    BY <1>3, <2>1 DEF Typed, CachesTyped, Fetch, localVars
  <2>3. LocalTyped'
    BY <1>3, <2>1 DEF Typed, LocalTyped, Fetch, Goto, localVars, Labels
  <2>4. \A u \in Threads : AtItsPlace(u)'
    BY <1>3, <2>1 DEF Typed, CachesTyped, LocalTyped, AtItsPlace, Fetch, Goto, localVars,
                      sectionVars, Getting, Recycling
  <2> QED
    BY <2>2, <2>3, <2>4
<1>4. ASSUME Goto(t, otherwise), UNCHANGED <<mine, cache>>
      PROVE  CachesTyped' /\ LocalTyped' /\ \A u \in Threads : AtItsPlace(u)'
  <2>2. CachesTyped'
    BY <1>4 DEF Typed, CachesTyped, localVars
  <2>3. LocalTyped'
    BY <1>4 DEF Typed, LocalTyped, Goto, localVars, Labels, Getting
  <2>4. \A u \in Threads : AtItsPlace(u)'
    BY <1>4 DEF Typed, LocalTyped, AtItsPlace, Goto, localVars, sectionVars, Getting, Recycling
  <2> QED
    BY <2>2, <2>3, <2>4
<1> QED
  BY <1>1, <1>2, <1>3, <1>4 DEF Typed, Pop

LEMMA LoadEndTyped ==
  ASSUME Typed, NEW t \in Threads, LoadEnd(t)
  PROVE  Typed'
<1>1. SharedTyped' /\ SectionTyped'
  BY DEF Typed, SharedTyped, SectionTyped, LoadEnd, sharedVars, sectionVars, cacheVars
<1>2. CachesTyped' /\ LocalTyped'
  BY DEF Typed, SharedTyped, CachesTyped, LocalTyped, LoadEnd, Goto, cacheVars, userVars, Labels, Getting
<1>3. \A u \in Threads : AtItsPlace(u)'
  BY DEF Typed, LocalTyped, AtItsPlace, LoadEnd, Goto, cacheVars, userVars, sectionVars, Getting, Recycling
<1> QED
  BY <1>1, <1>2, <1>3 DEF Typed

LEMMA KnownTyped ==
  ASSUME SharedTyped, NEW b \in Blocks
  PROVE  /\ Known(b) \in [Blocks -> BlockStates]
         /\ \A a \in Blocks : Known(b)[a].pushSync = blocks[a].pushSync
<1>1. ASSUME NEW r \in BlockStates, NEW n \in Nat, NEW v \in BOOLEAN
      PROVE  /\ [r EXCEPT !.version = n, !.itemBlock = v] \in BlockStates
             /\ [r EXCEPT !.version = n, !.itemBlock = v].pushSync = r.pushSync
  BY DEF BlockStates
<1>2. \A a \in Blocks : blocks[a] \in BlockStates /\ blocks[a].version \in Nat
  BY DEF SharedTyped, BlockStates
<1> DEFINE n == IF blocks[b].version = 0 THEN 1 ELSE blocks[b].version
           v == blocks[b].version # 2
           known == [blocks[b] EXCEPT !.version = n, !.itemBlock = v]
<1>3. Known(b) = [blocks EXCEPT ![b] = known]
  BY DEF SharedTyped, Known
<1>4. known \in BlockStates /\ known.pushSync = blocks[b].pushSync
  <2>1. n \in Nat /\ v \in BOOLEAN
    BY <1>2
  <2> HIDE DEF n, v
  <2> QED
    BY <1>1, <1>2, <2>1
<1> HIDE DEF known
<1> QED
  BY <1>3, <1>4 DEF SharedTyped

LEMMA AllocTyped ==
  ASSUME Typed, NEW t \in Threads, AllocLoad(t) \/ AllocExchange(t)
  PROVE  Typed'
<1>0. /\ UNCHANGED <<blocksEndIndex, fullCaches, cell, sectionVars, cacheVars, userVars, localVars>>
      /\ pc[t] \in {"alloc", "alloc_exchange"}
  BY DEF AllocLoad, AllocExchange
<1>1. \/ UNCHANGED blocks /\ Goto(t, "pop")
      \/ block[t] \in Blocks /\ UNCHANGED blocks /\ Goto(t, "alloc_exchange")
      \/ block[t] \in Blocks /\ blocks' = Known(block[t]) /\ Goto(t, "claim")
  BY PoolAssumption DEF Typed, AtItsPlace, LocalTyped, AllocLoad, AllocExchange, Blocks
<1>2. SharedTyped' /\ SectionTyped'
  BY <1>0, <1>1, KnownTyped DEF Typed, SharedTyped, SectionTyped, sectionVars, cacheVars
<1>3. CachesTyped' /\ LocalTyped'
  BY <1>0, <1>1 DEF Typed, CachesTyped, LocalTyped, Goto, cacheVars, userVars, localVars, Labels, Getting
<1>4. \A u \in Threads : AtItsPlace(u)'
  BY <1>0, <1>1 DEF Typed, LocalTyped, AtItsPlace, Goto, cacheVars, userVars, localVars, sectionVars,
                    Getting, Recycling
<1> QED
  BY <1>2, <1>3, <1>4 DEF Typed

LEMMA ChunkTyped ==
  ASSUME NEW b \in Blocks, NEW first \in Nat
  PROVE  /\ Chunk(b, first) \in Caches
         /\ Len(Chunk(b, first)) = TlCacheSize
         /\ \A i \in 1 .. TlCacheSize : Chunk(b, first)[i] = Item(b, first + i - 1)
BY PoolAssumption DEF Chunk, Item, Caches, AllItems

LEMMA ClaimChunkTyped ==
  ASSUME Typed, NEW t \in Threads, ClaimChunk(t)
  PROVE  Typed'
<1> DEFINE b == block[t]
           pushIndex == blocks[b].pushSync
<1>0. b \in Blocks /\ pushIndex \in Nat /\ TlCacheSize \in Nat
  BY PoolAssumption DEF Typed, AtItsPlace, SharedTyped, ClaimChunk, BlockStates
<1>1. SharedTyped' /\ SectionTyped'
  <2>1. ASSUME NEW r \in BlockStates, NEW n \in Nat
        PROVE  [r EXCEPT !.pushSync = n] \in BlockStates
    BY DEF BlockStates
  <2>2. blocks' = [blocks EXCEPT ![b] = [blocks[b] EXCEPT !.pushSync = pushIndex + TlCacheSize]]
    BY DEF ClaimChunk
  <2>3. blocks' \in [Blocks -> BlockStates]
    BY <1>0, <2>1, <2>2 DEF Typed, SharedTyped
  <2> QED
    BY <2>3 DEF Typed, SharedTyped, SectionTyped, ClaimChunk, sectionVars, cacheVars
<1>2. \/ chunk' = [chunk EXCEPT ![t] = Chunk(b, pushIndex)] /\ Goto(t, "push")
      \/ UNCHANGED chunk /\ Goto(t, "advance")
  BY DEF ClaimChunk
<1>3. Chunk(b, pushIndex) \in Seq(AllItems) /\ Chunk(b, pushIndex) # << >>
  BY <1>0, ChunkTyped DEF Caches
<1>4. CachesTyped' /\ LocalTyped'
  <2>1. CachesTyped'
    BY <1>2, <1>3 DEF Typed, CachesTyped, ClaimChunk, cacheVars
  <2>2. LocalTyped'
    BY <1>2 DEF Typed, LocalTyped, ClaimChunk, Goto, userVars, Labels, Getting
  <2> QED
    BY <2>1, <2>2
<1>5. \A u \in Threads : AtItsPlace(u)'
  <2>1. /\ UNCHANGED <<block, mine, cache, item, reclaim, inside, changed, toScan, lastCs, indices>>
        /\ pc[t] = "claim" /\ \A u \in Threads \ {t} : pc'[u] = pc[u] /\ chunk'[u] = chunk[u]
        /\ \/ pc'[t] = "push" /\ chunk'[t] # << >>
           \/ pc'[t] = "advance" /\ chunk'[t] = chunk[t]
    BY <1>2, <1>3 DEF Typed, CachesTyped, LocalTyped, ClaimChunk, Goto, cacheVars, userVars, sectionVars
  <2> QED
    BY <2>1 DEF Typed, AtItsPlace, Getting, Recycling
<1> QED
  BY <1>1, <1>4, <1>5 DEF Typed

LEMMA PushChunkTyped ==
  ASSUME Typed, NEW t \in Threads, PushChunk(t)
  PROVE  Typed'
<1>1. SharedTyped' /\ SectionTyped'
  BY DEF Typed, SharedTyped, SectionTyped, CachesTyped, AtItsPlace, Caches, PushChunk, sectionVars, cacheVars
<1>2. CachesTyped' /\ LocalTyped'
  BY DEF Typed, CachesTyped, LocalTyped, PushChunk, Goto, cacheVars, userVars, Labels, Getting
<1>3. \A u \in Threads : AtItsPlace(u)'
  BY DEF Typed, CachesTyped, LocalTyped, AtItsPlace, PushChunk, Goto, cacheVars, userVars, sectionVars,
         Getting, Recycling
<1> QED
  BY <1>1, <1>2, <1>3 DEF Typed

LEMMA AdvanceTyped ==
  ASSUME Typed, NEW t \in Threads, Advance(t)
  PROVE  Typed'
<1>0. block[t] \in Nat /\ block[t] + 1 \in Nat
  BY DEF Typed, LocalTyped
<1>1. SharedTyped' /\ SectionTyped'
  BY <1>0 DEF Typed, SharedTyped, SectionTyped, Advance, sectionVars, cacheVars
<1>2. CachesTyped' /\ LocalTyped'
  BY DEF Typed, CachesTyped, LocalTyped, Advance, Goto, cacheVars, userVars, Labels, Getting
<1>3. \A u \in Threads : AtItsPlace(u)'
  BY DEF Typed, LocalTyped, AtItsPlace, Advance, Goto, cacheVars, userVars, sectionVars, Getting, Recycling
<1> QED
  BY <1>1, <1>2, <1>3 DEF Typed

-----------------------------------------------------------------------------
LEMMA EnterTyped ==
  ASSUME ~StoreBuffers, Typed, NEW t \in Threads, Enter(t)
  PROVE  Typed'
<1>0. lastCs[t] + 2 \in Nat /\ (lastCs[t] + 2) % 2 = 0 /\ lastCs[t] + 3 \in Nat /\ (lastCs[t] + 3) % 2 = 1
  <2>1. lastCs[t] \in Nat /\ lastCs[t] % 2 = 0
    BY DEF Typed, SectionTyped, AtItsPlace
  <2> QED
    BY <2>1
<1>1. /\ indices' = [indices EXCEPT ![t] = lastCs[t] + 3]
      /\ lastCs' = [lastCs EXCEPT ![t] = lastCs[t] + 2]
      /\ UNCHANGED pending
  BY DEF Enter, StoreIndex
<1>2. SharedTyped'
  BY DEF Typed, SharedTyped, Enter, sharedVars
<1>3. SectionTyped'
  BY <1>0, <1>1 DEF Typed, SectionTyped, Enter, cacheVars
<1>4. CachesTyped' /\ LocalTyped'
  BY DEF Typed, CachesTyped, LocalTyped, Enter, Goto, cacheVars, userVars, localVars, Labels
<1>5. \A u \in Threads : AtItsPlace(u)'
  BY <1>0, <1>1 DEF Typed, SectionTyped, LocalTyped, AtItsPlace, Enter, Goto, cacheVars, userVars,
                    localVars, Getting, Recycling
<1> QED
  BY <1>2, <1>3, <1>4, <1>5 DEF Typed

LEMMA ExitTyped ==
  ASSUME ~StoreBuffers, Typed, NEW t \in Threads, Exit(t)
  PROVE  Typed'
<1>0. lastCs[t] + 2 \in Nat
  BY DEF Typed, SectionTyped
<1>1. /\ indices' = [indices EXCEPT ![t] = lastCs[t] + 2]
      /\ UNCHANGED <<lastCs, pending>>
  BY DEF Exit, StoreIndex
<1>2. SharedTyped'
  BY DEF Typed, SharedTyped, Exit, sharedVars
<1>3. SectionTyped'
  BY <1>0, <1>1 DEF Typed, SectionTyped, Exit, cacheVars
<1>4. CachesTyped' /\ LocalTyped'
  BY DEF Typed, CachesTyped, LocalTyped, Exit, Goto, cacheVars, localVars, Labels
<1>5. \A u \in Threads : AtItsPlace(u)'
  BY <1>1 DEF Typed, SectionTyped, LocalTyped, AtItsPlace, Exit, Goto, cacheVars,
              localVars, Getting, Recycling
<1> QED
  BY <1>2, <1>3, <1>4, <1>5 DEF Typed

LEMMA ReadTyped ==
  ASSUME Typed, NEW t \in Threads, Read(t)
  PROVE  Typed'
<1>1. SharedTyped' /\ SectionTyped'
  BY DEF Typed, SharedTyped, SectionTyped, Read, sharedVars, sectionVars, cacheVars
<1>2. CachesTyped' /\ LocalTyped'
  BY DEF Typed, SharedTyped, CachesTyped, LocalTyped, Read, cacheVars, localVars
<1>3. \A u \in Threads : AtItsPlace(u)'
  BY DEF Typed, LocalTyped, AtItsPlace, Read, cacheVars, localVars, sectionVars
<1> QED
  BY <1>1, <1>2, <1>3 DEF Typed

LEMMA ExchangeTyped ==
  ASSUME Typed, NEW t \in Threads, Exchange(t)
  PROVE  Typed'
<1>1. SharedTyped' /\ SectionTyped'
  BY DEF Typed, SharedTyped, LocalTyped, SectionTyped, Exchange, sectionVars, cacheVars
<1>2. CachesTyped' /\ LocalTyped'
  <2>1. CachesTyped'
    BY DEF Typed, CachesTyped, Exchange, cacheVars
  <2>2. LocalTyped'
    BY DEF Typed, SharedTyped, LocalTyped, Exchange, Goto, Labels, Recycling
  <2> QED
    BY <2>1, <2>2
<1>3. \A u \in Threads : AtItsPlace(u)'
  BY DEF Typed, LocalTyped, AtItsPlace, Exchange, Goto, cacheVars, sectionVars, Getting, Recycling
<1> QED
  BY <1>1, <1>2, <1>3 DEF Typed

LEMMA RecycleTyped ==
  ASSUME Typed, NEW t \in Threads, Recycle(t)
  PROVE  Typed'
<1>0. item[t] \in AllItems /\ pc[t] = "recycle"
  BY DEF Typed, LocalTyped, AtItsPlace, Recycle, Recycling
<1>1. SharedTyped' /\ SectionTyped'
  BY DEF Typed, SharedTyped, SectionTyped, Recycle, sharedVars, sectionVars
<1>2. \/ Goto(t, "discard") /\ UNCHANGED <<reclaim, item, toScan>>
      \/ reclaim' = [reclaim EXCEPT ![t] = Append(@, item[t])] /\ Recycled(t) /\ UNCHANGED toScan
      \/ toScan' = [toScan EXCEPT ![t] = Threads \ {t}] /\ Goto(t, "scan") /\ UNCHANGED <<reclaim, item>>
  BY DEF Recycle
<1>3. UNCHANGED <<sectionVars, cache, reclaims, indexCache, userVars, block, chunk, inside, changed, next>>
  BY DEF Recycle
<1>4. CachesTyped'
  <2>1. Append(reclaim[t], item[t]) \in Seq(AllItems)
    BY <1>0 DEF Typed, CachesTyped
  <2> QED
    BY <1>2, <1>3, <2>1 DEF Typed, CachesTyped
<1>5. PICK label \in {"discard", "inside", "scan"}, x \in {item[t], None}, others \in SUBSET Threads :
        /\ Goto(t, label)
        /\ item' = [item EXCEPT ![t] = x] /\ (x = None <=> label = "inside")
        /\ toScan' = [toScan EXCEPT ![t] = others]
  <2>1. item[t] # None /\ toScan = [toScan EXCEPT ![t] = toScan[t]] /\ item = [item EXCEPT ![t] = item[t]]
    BY <1>0, PoolAssumption DEF Typed, LocalTyped, AllItems, Blocks
  <2>2. toScan[t] \in SUBSET Threads /\ Threads \ {t} \in SUBSET Threads
    BY DEF Typed, LocalTyped
  <2> QED
    BY <1>2, <2>1, <2>2 DEF Recycled
<1>6. LocalTyped'
  BY <1>0, <1>3, <1>5 DEF Typed, LocalTyped, Goto, userVars, Labels, Recycling
<1>7. \A u \in Threads : AtItsPlace(u)'
  <2>1. reclaim'[t] = << >> \/ pc'[t] # "reclaim"
    BY <1>0, <1>5 DEF Typed, LocalTyped, Goto
  <2>2. \A u \in Threads \ {t} : reclaim'[u] = reclaim[u]
    BY <1>2 DEF Typed, CachesTyped
  <2> QED
    BY <1>0, <1>3, <1>5, <2>1, <2>2 DEF Typed, LocalTyped, AtItsPlace, Goto, userVars, sectionVars,
                                        Getting, Recycling
<1> QED
  BY <1>1, <1>4, <1>6, <1>7 DEF Typed

LEMMA DiscardTyped ==
  ASSUME Typed, NEW t \in Threads, Discard(t) \/ Release(t)
  PROVE  /\ Typed'
         /\ \A b \in Blocks : blocks'[b].pushSync = blocks[b].pushSync
<1>0. item[t] \in AllItems /\ item[t].block \in Blocks /\ pc[t] \in {"discard", "release"}
  BY DEF Typed, LocalTyped, AtItsPlace, Discard, Release, Recycling, AllItems
<1>1. PICK r \in BlockStates : /\ blocks' = [blocks EXCEPT ![item[t].block] = r]
                               /\ r.pushSync = blocks[item[t].block].pushSync
  <2> DEFINE old == blocks[item[t].block]
  <2>1. old \in BlockStates
    BY <1>0 DEF Typed, SharedTyped
  <2>2. CASE Discard(t)
    <3> DEFINE new == [old EXCEPT !.livingItems = @ - 1]
    <3>1. new \in BlockStates /\ new.pushSync = old.pushSync
      BY <2>1 DEF BlockStates
    <3>2. blocks' = [blocks EXCEPT ![item[t].block] = new]
      BY <2>2 DEF Discard
    <3> QED
      BY <3>1, <3>2
  <2>3. CASE Release(t)
    <3> DEFINE new == [old EXCEPT !.version = @ + 1]
    <3>1. new \in BlockStates /\ new.pushSync = old.pushSync
      BY <2>1 DEF BlockStates
    <3>2. blocks' = [blocks EXCEPT ![item[t].block] = new]
      BY <2>3 DEF Release
    <3> QED
      BY <3>1, <3>2
  <2> QED
    BY <2>2, <2>3
<1>2. SharedTyped' /\ \A b \in Blocks : blocks'[b].pushSync = blocks[b].pushSync
  BY <1>0, <1>1 DEF Typed, SharedTyped, Discard, Release
<1>3. SectionTyped'
  BY DEF Typed, SectionTyped, Discard, Release, sectionVars, cacheVars
<1>4. \/ Discard(t) /\ Goto(t, "release") /\ UNCHANGED item
      \/ Recycled(t)
  BY DEF Discard, Release
<1>5. UNCHANGED <<sectionVars, cacheVars, userVars, block, chunk, toScan, inside, changed, next>>
  BY DEF Discard, Release
<1>6. CachesTyped' /\ LocalTyped'
  BY <1>4, <1>5 DEF Typed, CachesTyped, LocalTyped, Recycled, Goto, cacheVars, userVars, Labels, Recycling
<1>7. \A u \in Threads : AtItsPlace(u)'
  BY <1>0, <1>4, <1>5 DEF Typed, LocalTyped, AtItsPlace, Recycled, Goto, cacheVars, userVars,
                          sectionVars, Getting, Recycling
<1> QED
  BY <1>2, <1>3, <1>6, <1>7 DEF Typed

LEMMA ScanTyped ==
  ASSUME Typed, NEW t \in Threads, Scan(t)
  PROVE  Typed'
<1>1. SharedTyped'
  BY DEF Typed, SharedTyped, Scan, sharedVars
<1>2. SectionTyped'
  BY DEF Typed, SectionTyped, LocalTyped, Scan, sectionVars
<1>3. CachesTyped'
  BY DEF Typed, CachesTyped, Scan
<1>4. LocalTyped'
  BY DEF Typed, LocalTyped, Scan, userVars
<1>5. \A u \in Threads : AtItsPlace(u)'
  BY DEF Typed, LocalTyped, AtItsPlace, Scan, userVars, sectionVars, Getting, Recycling
<1> QED
  BY <1>1, <1>2, <1>3, <1>4, <1>5 DEF Typed

LEMMA EvaluateTyped ==
  ASSUME Typed, NEW t \in Threads, Evaluate(t)
  PROVE  /\ Typed'
         /\ toScan[t] = {} /\ pc[t] = "scan"
         /\ \A u \in Threads \ {t} : reclaims'[u] = reclaims[u]
         /\ \A k \in 1 .. Len(reclaims[t]) :
              /\ reclaims'[t][k].items = reclaims[t][k].items
              /\ reclaims'[t][k].users = reclaims[t][k].users \cap (inside[t] \ changed[t])
         /\ \/ reclaim[t] = << >> /\ Len(reclaims'[t]) = Len(reclaims[t])
            \/ LET last == Len(reclaims[t]) + 1
               IN  /\ Len(reclaims'[t]) = last
                   /\ reclaims'[t][last] = [users |-> inside[t], items |-> reclaim[t]]
<1> DEFINE older == [k \in DOMAIN reclaims[t] |->
                       [reclaims[t][k] EXCEPT !.users = StillBlocking(t, @)]]
           newest == [users |-> Blocking(t), items |-> reclaim[t]]
<1>0. /\ reclaims[t] \in Seq(Waiting) /\ reclaim[t] \in Seq(AllItems)
      /\ inside[t] \in SUBSET Threads /\ changed[t] \in SUBSET Threads
  BY DEF Typed, CachesTyped, LocalTyped
<1>1. /\ older \in Seq(Waiting) /\ Len(older) = Len(reclaims[t])
      /\ \A k \in 1 .. Len(reclaims[t]) :
           /\ older[k].items = reclaims[t][k].items
           /\ older[k].users = reclaims[t][k].users \cap (inside[t] \ changed[t])
  <2>1. ASSUME NEW w \in Waiting
        PROVE  /\ [w EXCEPT !.users = StillBlocking(t, @)] \in Waiting
               /\ [w EXCEPT !.users = StillBlocking(t, @)].items = w.items
               /\ [w EXCEPT !.users = StillBlocking(t, @)].users = w.users \cap (inside[t] \ changed[t])
    BY DEF Waiting, StillBlocking
  <2>2. \A k \in 1 .. Len(reclaims[t]) : reclaims[t][k] \in Waiting
    BY <1>0
  <2>3. /\ older = [k \in 1 .. Len(reclaims[t]) |-> older[k]]
        /\ Len(reclaims[t]) \in Nat
    BY <1>0
  <2>4. \A k \in 1 .. Len(reclaims[t]) :
          older[k] = [reclaims[t][k] EXCEPT !.users = StillBlocking(t, @)]
    BY <1>0
  <2> HIDE DEF older
  <2>5. \A k \in 1 .. Len(reclaims[t]) :
          /\ older[k] \in Waiting
          /\ older[k].items = reclaims[t][k].items
          /\ older[k].users = reclaims[t][k].users \cap (inside[t] \ changed[t])
    BY <2>1, <2>2, <2>4
  <2>6. older \in [1 .. Len(reclaims[t]) -> Waiting] /\ Len(reclaims[t]) \in Nat
    BY <2>3, <2>5
  <2>7. older \in Seq(Waiting) /\ Len(older) = Len(reclaims[t])
    BY ONLY <2>6, Z3
  <2> QED
    BY <2>5, <2>7
<1>2. reclaims' = [reclaims EXCEPT ![t] = IF reclaim[t] = << >> THEN older ELSE Append(older, newest)]
  BY DEF Evaluate
<1>3. reclaim[t] # << >> => newest \in Waiting
  BY <1>0 DEF Waiting, Caches, Blocking
<1> HIDE DEF older
<1>4. (IF reclaim[t] = << >> THEN older ELSE Append(older, newest)) \in Seq(Waiting)
  <2> HIDE DEF newest
  <2> QED
    BY <1>1, <1>3
<1>5. CachesTyped'
  <2>1. reclaims' \in [Threads -> Seq(Waiting)]
    BY <1>2, <1>4 DEF Typed, CachesTyped
  <2>2. reclaim' \in [Threads -> Seq(AllItems)]
    BY DEF Typed, CachesTyped, Evaluate
  <2> QED
    BY <2>1, <2>2 DEF Typed, CachesTyped, Evaluate
<1>6. SharedTyped' /\ SectionTyped'
  BY DEF Typed, SharedTyped, SectionTyped, Evaluate, sharedVars, sectionVars
<1>7. /\ reclaim' = [reclaim EXCEPT ![t] = << >>]
      /\ inside' = [inside EXCEPT ![t] = {}]
      /\ changed' = [changed EXCEPT ![t] = {}]
      /\ next' = [next EXCEPT ![t] = 1]
      /\ Goto(t, "reclaim")
      /\ pc[t] = "scan" /\ toScan[t] = {}
      /\ UNCHANGED <<sectionVars, cache, indexCache, userVars, item, block, chunk, toScan>>
  BY DEF Evaluate
<1>8. LocalTyped'
  BY <1>7 DEF Typed, LocalTyped, Goto, userVars, Labels, Recycling
<1>9. \A u \in Threads : AtItsPlace(u)'
  BY <1>7 DEF Typed, CachesTyped, LocalTyped, AtItsPlace, Goto, userVars, sectionVars, Getting, Recycling
<1>10. /\ \A u \in Threads \ {t} : reclaims'[u] = reclaims[u]
       /\ reclaims'[t] = IF reclaim[t] = << >> THEN older ELSE Append(older, newest)
  BY <1>2 DEF Typed, CachesTyped
<1>11. CASE reclaim[t] = << >>
  BY <1>1, <1>5, <1>6, <1>7, <1>8, <1>9, <1>10, <1>11 DEF Typed
<1>12. CASE reclaim[t] # << >>
  <2> HIDE DEF newest
  <2>1. /\ Len(Append(older, newest)) = Len(reclaims[t]) + 1
        /\ Append(older, newest)[Len(reclaims[t]) + 1] = newest
        /\ \A k \in 1 .. Len(reclaims[t]) : Append(older, newest)[k] = older[k]
    BY <1>1, <1>3, <1>12
  <2>2. newest = [users |-> inside[t], items |-> reclaim[t]]
    BY DEF newest, Blocking
  <2> QED
    BY <1>1, <1>5, <1>6, <1>7, <1>8, <1>9, <1>10, <1>12, <2>1, <2>2 DEF Typed
<1> QED
  BY <1>11, <1>12

\* Without(caches, k): the last takes the place of the one that goes.
LEMMA WithoutOne ==
  ASSUME NEW S, NEW caches \in Seq(S), NEW k \in 1 .. Len(caches)
  PROVE  /\ Without(caches, k) \in Seq(S)
         /\ Len(Without(caches, k)) = Len(caches) - 1
         /\ \A j \in 1 .. Len(caches) - 1 :
              Without(caches, k)[j] = IF j = k THEN caches[Len(caches)] ELSE caches[j]
<1> DEFINE moved == [caches EXCEPT ![k] = caches[Len(caches)]]
<1>1. /\ moved \in Seq(S) /\ Len(moved) = Len(caches)
      /\ \A j \in 1 .. Len(caches) : moved[j] = IF j = k THEN caches[Len(caches)] ELSE caches[j]
  OBVIOUS
<1> HIDE DEF moved
<1>2. moved # << >>
  BY <1>1
<1> QED
  BY <1>1, <1>2 DEF Without, moved, Front

LEMMA ReclaimTyped ==
  ASSUME Typed, NEW t \in Threads, Reclaim(t)
  PROVE  /\ Typed'
         /\ pc[t] = "reclaim" /\ UNCHANGED <<mine, held, cell, blocks, cache, chunk>>
         /\ \/ /\ reclaim' = [reclaim EXCEPT ![t] = <<item[t]>>]
               /\ Recycled(t)
               /\ UNCHANGED <<fullCaches, reclaims>>
            \/ \E k \in 1 .. Len(reclaims[t]) :
                 /\ reclaims[t][k].users = {}
                 /\ fullCaches' = fullCaches \cup {reclaims[t][k].items}
                 /\ reclaims' = [reclaims EXCEPT ![t] = Without(reclaims[t], k)]
                 /\ UNCHANGED <<reclaim, item, pc>>
<1> DEFINE free == {k \in next[t] .. Len(reclaims[t]) : reclaims[t][k].users = {}}
<1>0. /\ reclaims[t] \in Seq(Waiting) /\ next[t] \in Nat \ {0}
      /\ item[t] \in AllItems /\ pc[t] = "reclaim"
  BY DEF Typed, CachesTyped, LocalTyped, AtItsPlace, Reclaim, Recycling
<1>1. UNCHANGED <<blocks, blocksEndIndex, cell, sectionVars, cache, indexCache, userVars,
                  block, chunk, toScan, inside, changed>>
  BY DEF Reclaim
<1>2. CASE Recycled(t)
  <2>1. /\ reclaim' = [reclaim EXCEPT ![t] = <<item[t]>>]
        /\ next' = [next EXCEPT ![t] = 1]
        /\ Recycled(t)
        /\ UNCHANGED <<fullCaches, reclaims>>
    <3>1. ~ UNCHANGED item
      BY <1>0, <1>2, PoolAssumption DEF Typed, LocalTyped, Recycled, AllItems, Blocks
    <3> QED
      BY <1>2, <3>1 DEF Reclaim
  <2>2. <<item[t]>> \in Seq(AllItems)
    BY <1>0
  <2>3. SharedTyped' /\ SectionTyped'
    BY <1>1, <2>1 DEF Typed, SharedTyped, SectionTyped, sectionVars
  <2>4. CachesTyped'
    BY <1>1, <2>1, <2>2 DEF Typed, CachesTyped
  <2>5. LocalTyped'
    BY <1>1, <2>1 DEF Typed, LocalTyped, Recycled, Goto, userVars, Labels
  <2>6. \A u \in Threads : AtItsPlace(u)'
    BY <1>0, <1>1, <2>1 DEF Typed, LocalTyped, AtItsPlace, Recycled, Goto, userVars, sectionVars,
                            Getting, Recycling
  <2> QED
    BY <1>0, <1>1, <2>1, <2>3, <2>4, <2>5, <2>6 DEF Typed, userVars
<1>3. CASE ~ Recycled(t)
  <2>2. PICK k \in free :
          /\ fullCaches' = fullCaches \cup {reclaims[t][k].items}
          /\ reclaims' = [reclaims EXCEPT ![t] = Without(reclaims[t], k)]
          /\ next' = [next EXCEPT ![t] = k + 1]
          /\ UNCHANGED <<reclaim, item, pc>>
    BY <1>3 DEF Reclaim
  <2>3. k \in 1 .. Len(reclaims[t]) /\ k \in Nat /\ reclaims[t][k].users = {}
    BY <1>0
  <2>4. reclaims[t][k].items \in Caches /\ Without(reclaims[t], k) \in Seq(Waiting)
    <3>1. reclaims[t][k] \in Waiting
      BY <1>0, <2>3
    <3> QED
      BY <1>0, <2>3, <3>1, WithoutOne DEF Waiting
  <2>5. SharedTyped' /\ SectionTyped'
    BY <1>1, <2>2, <2>4 DEF Typed, SharedTyped, SectionTyped, sectionVars
  <2>6. CachesTyped'
    BY <1>1, <2>2, <2>4 DEF Typed, CachesTyped
  <2>7. LocalTyped'
    BY <1>1, <2>2, <2>3 DEF Typed, LocalTyped, userVars
  <2>8. \A u \in Threads : AtItsPlace(u)'
    BY <1>1, <2>2 DEF Typed, AtItsPlace, userVars, sectionVars
  <2> QED
    BY <1>0, <1>1, <2>2, <2>3, <2>5, <2>6, <2>7, <2>8 DEF Typed, userVars
<1> QED
  BY <1>2, <1>3

-----------------------------------------------------------------------------
\* The places where an item can be, the part of its block that is still to be
\* divided among them.  An item that is in none is discarded.
InCell(x, p) == cell = x /\ p = <<"cell", 0, 0, 0>>
InMine(x, p) == \E t \in Threads : mine[t] = x /\ p = <<"mine", t, 0, 0>>
InGiven(x, p) ==
  \E t \in Threads : pc[t] # "release" /\ item[t] = x /\ p = <<"given", t, 0, 0>>
InCache(x, p) ==
  \E t \in Threads : \E i \in 1 .. Len(cache[t]) : cache[t][i] = x /\ p = <<"cache", t, i, 0>>
InReclaim(x, p) ==
  \E t \in Threads : \E i \in 1 .. Len(reclaim[t]) :
    reclaim[t][i] = x /\ p = <<"reclaim", t, i, 0>>
InChunk(x, p) ==
  \E t \in Threads : \E i \in 1 .. Len(chunk[t]) : chunk[t][i] = x /\ p = <<"chunk", t, i, 0>>
InReclaims(x, p) ==
  \E t \in Threads : \E k \in 1 .. Len(reclaims[t]) : \E i \in 1 .. Len(reclaims[t][k].items) :
    reclaims[t][k].items[i] = x /\ p = <<"reclaims", t, k, i>>
InFull(x, p) ==
  \E c \in fullCaches : \E i \in 1 .. Len(c) : c[i] = x /\ p = <<"full", c, i, 0>>
InBlock(x, p) == x.place >= blocks[x.block].pushSync /\ p = <<"block", 0, 0, 0>>

In(x, p) ==
  \/ InCell(x, p) \/ InMine(x, p) \/ InGiven(x, p)
  \/ InCache(x, p) \/ InReclaim(x, p) \/ InChunk(x, p)
  \/ InReclaims(x, p) \/ InFull(x, p) \/ InBlock(x, p)

Unique == \A x \in AllItems : \A p, q : In(x, p) /\ In(x, q) => p = q

LEMMA InitUnique == ~StoreBuffers /\ Init => Unique
<1> SUFFICES ASSUME ~StoreBuffers, Init, NEW x \in AllItems, NEW p, NEW q, In(x, p), In(x, q)
             PROVE  p = q
  BY DEF Unique
<1>0. TlCacheSize \in {1, 2} /\ 0 \in Blocks /\ itemRows(0) = 2 /\ x # None
  BY PoolAssumption DEF Blocks, itemRows, AllItems
<1>1. \A y : In(x, y) => InFull(x, y) \/ InBlock(x, y)
  BY <1>0 DEF Init, In, InCell, InMine, InGiven, InCache, InReclaim, InChunk, InReclaims
<1>2. ASSUME NEW c \in fullCaches, NEW i \in 1 .. Len(c), c[i] = x
      PROVE  /\ x.block = 0 /\ x.place < 2
             /\ c = Chunk(0, x.place + 1 - i) /\ (TlCacheSize = 1 => i = 1)
             /\ (TlCacheSize = 2 => i = x.place + 1)
  <2>1. PICK k \in 0 .. 1 : c = Chunk(0, k) /\ k % TlCacheSize = 0
    BY <1>0 DEF Init
  <2>2. i \in 1 .. TlCacheSize /\ x = Item(0, k + i - 1)
    <3>1. k \in Nat
      OBVIOUS
    <3>2. /\ Len(Chunk(0, k)) = TlCacheSize
          /\ \A j \in 1 .. TlCacheSize : Chunk(0, k)[j] = Item(0, k + j - 1)
      BY <1>0, <3>1, ChunkTyped, Zenon
    <3> QED
      BY <1>2, <2>1, <3>2
  <2>3. TlCacheSize = 2 => k = 0
    BY <2>1
  <2> QED
    BY <1>0, <2>1, <2>2, <2>3 DEF Item
<1>3. x.block = 0 => blocks[x.block].pushSync = 2 + TlCacheSize
  <2>1. ASSUME NEW r, r = [EmptyBlock(0) EXCEPT !.version = 1, !.itemBlock = TRUE,
                                                !.pushSync = itemRows(0) + TlCacheSize]
        PROVE  r.pushSync = 2 + TlCacheSize
    BY <1>0, <2>1 DEF EmptyBlock
  <2> QED
    BY <1>0, <2>1 DEF Init
<1>4. CASE InFull(x, p) /\ InFull(x, q)
  BY <1>0, <1>2, <1>4 DEF InFull
<1>5. ASSUME NEW y, InFull(x, y)
      PROVE  \A z : ~ InBlock(x, z)
  <2>1. x.block = 0 /\ x.place < 2 /\ x.place \in Nat
    BY <1>2, <1>5 DEF InFull, AllItems
  <2> QED
    BY <1>0, <1>3, <2>1 DEF InBlock
<1>6. CASE InBlock(x, p) /\ InBlock(x, q)
  BY <1>6 DEF InBlock
<1> QED
  BY <1>1, <1>4, <1>5, <1>6

-----------------------------------------------------------------------------
\* Steps that take no item to another place.
NothingMoves == \A x \in AllItems : \A p : In(x, p)' => In(x, p)

LEMMA StaysThere ==
  ASSUME UNCHANGED <<fullCaches, cell, cache, reclaim, reclaims, chunk, mine>>,
         \A b \in Blocks : blocks'[b].pushSync = blocks[b].pushSync,
         \A u \in Threads : item'[u] # None /\ pc'[u] # "release" =>
                             item'[u] = item[u] /\ pc[u] # "release"
  PROVE  NothingMoves
<1> SUFFICES ASSUME NEW x \in AllItems, NEW p, In(x, p)'
             PROVE  In(x, p)
  BY DEF NothingMoves
<1>0. x # None /\ x.block \in Blocks
  BY PoolAssumption DEF AllItems, Blocks
<1>1. InGiven(x, p)' => InGiven(x, p)
  BY <1>0 DEF InGiven
<1>2. InBlock(x, p)' => InBlock(x, p)
  BY <1>0 DEF InBlock
<1> QED
  BY <1>1, <1>2 DEF In, InCell, InMine, InCache, InReclaim, InChunk, InReclaims, InFull

LEMMA KindOf ==
  ASSUME NEW x, NEW p
  PROVE  /\ InCell(x, p) => In(x, p) /\ p[1] = "cell"
         /\ InMine(x, p) => In(x, p) /\ p[1] = "mine"
         /\ InGiven(x, p) => In(x, p) /\ p[1] = "given"
         /\ InCache(x, p) => In(x, p) /\ p[1] = "cache"
         /\ InReclaim(x, p) => In(x, p) /\ p[1] = "reclaim"
         /\ InChunk(x, p) => In(x, p) /\ p[1] = "chunk"
         /\ InReclaims(x, p) => In(x, p) /\ p[1] = "reclaims"
         /\ InFull(x, p) => In(x, p) /\ p[1] = "full"
         /\ InBlock(x, p) => In(x, p) /\ p[1] = "block"
<1>1. (InCell(x, p) => p[1] = "cell") /\ (InBlock(x, p) => p[1] = "block")
  BY DEF InCell, InBlock
<1>2. (InMine(x, p) => p[1] = "mine") /\ (InGiven(x, p) => p[1] = "given")
  BY DEF InMine, InGiven
<1>3. (InCache(x, p) => p[1] = "cache") /\ (InReclaim(x, p) => p[1] = "reclaim")
  BY DEF InCache, InReclaim
<1>4. (InChunk(x, p) => p[1] = "chunk") /\ (InReclaims(x, p) => p[1] = "reclaims")
  BY DEF InChunk, InReclaims
<1>5. InFull(x, p) => p[1] = "full"
  BY DEF InFull
<1> QED
  BY <1>1, <1>2, <1>3, <1>4, <1>5 DEF In

LEMMA NothingMovesUnique == Unique /\ NothingMoves => Unique'
BY DEF Unique, NothingMoves

\* Where an item comes from, s, that is at a place p after the step.
GetMove(t, s, p) ==
  \/ p = s /\ (p[1] \in {"mine", "cache"} => p[2] # t)
  \/ p = <<"mine", t, 0, 0>> /\ s = <<"cache", t, 1, 0>>
  \/ \E i \in Nat \ {0} : p = <<"cache", t, i, 0>> /\ s = <<"cache", t, i + 1, 0>>

LEMMA BeginGetMoves ==
  ASSUME Typed, NEW t \in Threads, BeginGet(t), cache[t] # << >>, NEW x \in AllItems, NEW p, In(x, p)'
  PROVE  \E s : In(x, s) /\ GetMove(t, s, p)
<1>0. x # None /\ mine[t] = None /\ cache[t] \in Seq(AllItems)
  BY PoolAssumption DEF AllItems, Blocks, BeginGet, Typed, CachesTyped
<1>1. UNCHANGED <<fullCaches, cell, blocks, reclaim, reclaims, chunk, item>>
  BY DEF BeginGet, sharedVars, localVars
<1>2. /\ mine' = [mine EXCEPT ![t] = cache[t][1]]
      /\ cache' = [cache EXCEPT ![t] = Tail(cache[t])]
      /\ pc' = [pc EXCEPT ![t] = "outside"] /\ pc[t] = "outside"
  BY DEF BeginGet, Fetch, Goto
<1>3. InGiven(x, p)' => In(x, p) /\ p[1] = "given"
  BY <1>1, <1>2 DEF InGiven, In, Typed, LocalTyped
<1>4. \/ InCell(x, p)'
      \/ InReclaim(x, p)' \/ InChunk(x, p)' \/ InReclaims(x, p)' \/ InFull(x, p)' \/ InBlock(x, p)'
      => In(x, p) /\ p[1] \notin {"mine", "cache"}
  <2>1. (InCell(x, p)' => InCell(x, p)) /\ (InReclaim(x, p)' => InReclaim(x, p)) /\ (InChunk(x, p)' => InChunk(x, p))
    BY <1>1 DEF InCell, InReclaim, InChunk
  <2>2. (InReclaims(x, p)' => InReclaims(x, p)) /\ (InFull(x, p)' => InFull(x, p)) /\ (InBlock(x, p)' => InBlock(x, p))
    BY <1>1 DEF InReclaims, InFull, InBlock
  <2> QED
    BY <2>1, <2>2, KindOf
<1>5. InMine(x, p)' =>
        \/ In(x, p) /\ p[1] = "mine" /\ p[2] # t
        \/ p = <<"mine", t, 0, 0>> /\ In(x, <<"cache", t, 1, 0>>)
  <2>1. Len(cache[t]) \in Nat \ {0}
    BY <1>0
  <2> QED
    BY <1>2, <2>1 DEF In, InMine, InCache, Typed, LocalTyped
<1>6. InCache(x, p)' =>
        \/ In(x, p) /\ p[1] = "cache" /\ p[2] # t
        \/ \E i \in Nat \ {0} : p = <<"cache", t, i, 0>> /\ In(x, <<"cache", t, i + 1, 0>>)
  <2> SUFFICES ASSUME NEW u \in Threads, NEW i \in 1 .. Len(cache'[u]),
                      cache'[u][i] = x, p = <<"cache", u, i, 0>>
               PROVE  \/ In(x, p) /\ p[1] = "cache" /\ p[2] # t
                      \/ i \in Nat \ {0} /\ p = <<"cache", t, i, 0>> /\ In(x, <<"cache", t, i + 1, 0>>)
    BY DEF InCache
  <2>1. CASE u # t
    BY <1>2, <2>1 DEF In, InCache, Typed, CachesTyped
  <2>2. CASE u = t
    <3>1. i \in 1 .. Len(Tail(cache[t])) /\ Tail(cache[t])[i] = x
      BY <1>2, <2>2 DEF Typed, CachesTyped
    <3>2. i + 1 \in 1 .. Len(cache[t]) /\ cache[t][i + 1] = x
      BY <1>0, <3>1
    <3> QED
      BY <2>2, <3>2 DEF In, InCache
  <2> QED
    BY <2>1, <2>2
<1>9. \/ InCell(x, p)' \/ InMine(x, p)' \/ InGiven(x, p)'
      \/ InCache(x, p)' \/ InReclaim(x, p)' \/ InChunk(x, p)'
      \/ InReclaims(x, p)' \/ InFull(x, p)' \/ InBlock(x, p)'
  BY DEF In
<1> QED
  BY <1>3, <1>4, <1>5, <1>6, <1>9 DEF GetMove

PopMove(t, c, s, p) ==
  \/ p = s /\ (p[1] \in {"mine", "cache"} => p[2] # t) /\ (p[1] = "full" => p[2] # c)
  \/ p = <<"mine", t, 0, 0>> /\ s = <<"full", c, 1, 0>>
  \/ \E i \in Nat \ {0} : p = <<"cache", t, i, 0>> /\ s = <<"full", c, i + 1, 0>>

LEMMA PopMoves ==
  ASSUME Typed, NEW t \in Threads, NEW otherwise, pc[t] \in {"pop", "pop_again"},
         NEW c \in fullCaches, fullCaches' = fullCaches \ {c}, Fetch(t, c),
         UNCHANGED <<blocks, cell, reclaim, reclaims, localVars>>,
         NEW x \in AllItems, NEW p, In(x, p)'
  PROVE  \E s : In(x, s) /\ PopMove(t, c, s, p)
<1>0. c \in Seq(AllItems) /\ c # << >> /\ Len(c) \in Nat \ {0}
  BY DEF Typed, SharedTyped, Caches
<1>2. /\ mine' = [mine EXCEPT ![t] = c[1]]
      /\ cache' = [cache EXCEPT ![t] = Tail(c)]
      /\ pc' = [pc EXCEPT ![t] = "outside"]
  BY DEF Fetch, Goto
<1>3. InGiven(x, p)' => In(x, p) /\ p[1] = "given"
  BY <1>2 DEF InGiven, In, Typed, LocalTyped, localVars
<1>4. \/ InCell(x, p)'
      \/ InReclaim(x, p)' \/ InChunk(x, p)' \/ InReclaims(x, p)' \/ InBlock(x, p)'
      => In(x, p) /\ p[1] \notin {"mine", "cache", "full"}
  <2>1. (InCell(x, p)' => InCell(x, p)) /\ (InReclaim(x, p)' => InReclaim(x, p)) /\ (InChunk(x, p)' => InChunk(x, p))
    BY DEF InCell, InReclaim, InChunk, localVars
  <2>2. (InReclaims(x, p)' => InReclaims(x, p)) /\ (InBlock(x, p)' => InBlock(x, p))
    BY DEF InReclaims, InBlock, localVars
  <2> QED
    BY <2>1, <2>2, KindOf
<1>7. InFull(x, p)' => In(x, p) /\ p[1] = "full" /\ p[2] # c
  BY DEF In, InFull
<1>5. InMine(x, p)' =>
        \/ In(x, p) /\ p[1] = "mine" /\ p[2] # t
        \/ p = <<"mine", t, 0, 0>> /\ In(x, <<"full", c, 1, 0>>)
  BY <1>0, <1>2 DEF In, InMine, InFull, Typed, LocalTyped
<1>6. InCache(x, p)' =>
        \/ In(x, p) /\ p[1] = "cache" /\ p[2] # t
        \/ \E i \in Nat \ {0} : p = <<"cache", t, i, 0>> /\ In(x, <<"full", c, i + 1, 0>>)
  <2> SUFFICES ASSUME NEW u \in Threads, NEW i \in 1 .. Len(cache'[u]),
                      cache'[u][i] = x, p = <<"cache", u, i, 0>>
               PROVE  \/ In(x, p) /\ p[1] = "cache" /\ p[2] # t
                      \/ i \in Nat \ {0} /\ p = <<"cache", t, i, 0>> /\ In(x, <<"full", c, i + 1, 0>>)
    BY DEF InCache
  <2>1. CASE u # t
    BY <1>2, <2>1 DEF In, InCache, Typed, CachesTyped
  <2>2. CASE u = t
    <3>1. i \in 1 .. Len(Tail(c)) /\ Tail(c)[i] = x
      BY <1>2, <2>2 DEF Typed, CachesTyped
    <3>2. i + 1 \in 1 .. Len(c) /\ c[i + 1] = x
      BY <1>0, <3>1
    <3> QED
      BY <2>2, <3>2 DEF In, InFull
  <2> QED
    BY <2>1, <2>2
<1>9. \/ InCell(x, p)' \/ InMine(x, p)' \/ InGiven(x, p)'
      \/ InCache(x, p)' \/ InReclaim(x, p)' \/ InChunk(x, p)'
      \/ InReclaims(x, p)' \/ InFull(x, p)' \/ InBlock(x, p)'
  BY DEF In
<1> QED
  BY <1>3, <1>4, <1>5, <1>6, <1>7, <1>9 DEF PopMove

ClaimMove(t, x, s, p) ==
  LET first == blocks[block[t]].pushSync
  IN  \/ /\ p = s /\ (p[1] = "chunk" => p[2] # t)
         /\ p[1] = "block" /\ x.block = block[t] => x.place >= first + TlCacheSize
      \/ \E i \in 1 .. TlCacheSize :
           p = <<"chunk", t, i, 0>> /\ x = Item(block[t], first + i - 1) /\ s = <<"block", 0, 0, 0>>

LEMMA ClaimChunkMoves ==
  ASSUME Typed, NEW t \in Threads, ClaimChunk(t), NEW x \in AllItems, NEW p, In(x, p)'
  PROVE  \E s : In(x, s) /\ ClaimMove(t, x, s, p)
<1> DEFINE b == block[t]
           first == blocks[b].pushSync
<1>0. /\ b \in Blocks /\ first \in Nat /\ TlCacheSize \in Nat
      /\ x # None /\ x.block \in Blocks /\ x.place \in Nat
      /\ pc[t] = "claim" /\ chunk[t] = << >>
  <2>1. x # None /\ x.block \in Blocks /\ x.place \in Nat /\ TlCacheSize \in Nat
    BY PoolAssumption DEF AllItems, Blocks
  <2>2. pc[t] = "claim" /\ b \in Blocks /\ chunk[t] = << >>
    BY DEF Typed, AtItsPlace, ClaimChunk
  <2>3. first \in Nat
    BY <2>2 DEF Typed, SharedTyped, BlockStates
  <2> QED
    BY <2>1, <2>2, <2>3
<1>1. UNCHANGED <<fullCaches, cell, cache, reclaim, reclaims, mine, item>>
  BY DEF ClaimChunk, cacheVars, userVars
<1>2. /\ \A a \in Blocks : blocks'[a].pushSync =
           IF a = b THEN first + TlCacheSize ELSE blocks[a].pushSync
      /\ \/ chunk' = [chunk EXCEPT ![t] = Chunk(b, first)] /\ Goto(t, "push")
         \/ UNCHANGED chunk /\ Goto(t, "advance")
  <2>1. blocks' = [blocks EXCEPT ![b] = [blocks[b] EXCEPT !.pushSync = first + TlCacheSize]]
    BY DEF ClaimChunk
  <2>2. \A r \in BlockStates : [r EXCEPT !.pushSync = first + TlCacheSize].pushSync = first + TlCacheSize
    BY DEF BlockStates
  <2>3. \A a \in Blocks : blocks'[a].pushSync = IF a = b THEN first + TlCacheSize ELSE blocks[a].pushSync
    BY <1>0, <2>1, <2>2 DEF Typed, SharedTyped
  <2> QED
    BY <2>3 DEF ClaimChunk
<1>3. InGiven(x, p)' => In(x, p) /\ p[1] = "given"
  BY <1>0, <1>1, <1>2 DEF InGiven, In, Typed, LocalTyped, Goto
<1>4. \/ InCell(x, p)' \/ InMine(x, p)' \/ InCache(x, p)'
      \/ InReclaim(x, p)' \/ InReclaims(x, p)' \/ InFull(x, p)'
      => In(x, p) /\ p[1] \notin {"chunk", "block"}
  BY <1>1, KindOf DEF InCell, InMine, InCache, InReclaim, InReclaims, InFull
<1>5. InBlock(x, p)' => In(x, p) /\ p[1] = "block" /\ (x.block = b => x.place >= first + TlCacheSize)
  BY <1>0, <1>2 DEF In, InBlock
<1>6. InChunk(x, p)' =>
        \/ In(x, p) /\ p[1] = "chunk" /\ p[2] # t
        \/ \E i \in 1 .. TlCacheSize :
             p = <<"chunk", t, i, 0>> /\ x = Item(b, first + i - 1) /\ In(x, <<"block", 0, 0, 0>>)
  <2> SUFFICES ASSUME NEW u \in Threads, NEW i \in 1 .. Len(chunk'[u]),
                      chunk'[u][i] = x, p = <<"chunk", u, i, 0>>
               PROVE  \/ In(x, p) /\ p[1] = "chunk" /\ p[2] # t
                      \/ i \in 1 .. TlCacheSize /\ p = <<"chunk", t, i, 0>> /\ x = Item(b, first + i - 1)
                         /\ In(x, <<"block", 0, 0, 0>>)
    BY DEF InChunk
  <2>1. CASE u # t
    BY <1>2, <2>1 DEF In, InChunk, Typed, CachesTyped
  <2>2. CASE u = t
    <3>1. chunk'[t] = Chunk(b, first)
      BY <1>0, <1>2, <2>2 DEF Typed, CachesTyped
    <3>4. /\ Len(Chunk(b, first)) = TlCacheSize
          /\ \A j \in 1 .. TlCacheSize : Chunk(b, first)[j] = Item(b, first + j - 1)
      BY <1>0, ChunkTyped, Zenon
    <3>2. i \in 1 .. TlCacheSize /\ x = Item(b, first + i - 1)
      BY <2>2, <3>1, <3>4
    <3>3. x.block = b /\ x.place >= first
      BY <1>0, <3>2 DEF Item
    <3> QED
      BY <1>0, <2>2, <3>2, <3>3 DEF In, InBlock
  <2> QED
    BY <2>1, <2>2
<1>9. \/ InCell(x, p)' \/ InMine(x, p)' \/ InGiven(x, p)'
      \/ InCache(x, p)' \/ InReclaim(x, p)' \/ InChunk(x, p)'
      \/ InReclaims(x, p)' \/ InFull(x, p)' \/ InBlock(x, p)'
  BY DEF In
<1> QED
  BY <1>3, <1>4, <1>5, <1>6, <1>9 DEF ClaimMove

PushMove(t, s, p) ==
  \/ p = s /\ (p[1] = "chunk" => p[2] # t)
  \/ \E i \in Nat : p = <<"full", chunk[t], i, 0>> /\ s = <<"chunk", t, i, 0>>

LEMMA PushChunkMoves ==
  ASSUME Typed, NEW t \in Threads, PushChunk(t), NEW x \in AllItems, NEW p, In(x, p)'
  PROVE  \E s : In(x, s) /\ PushMove(t, s, p)
<1>0. pc[t] = "push" /\ item[t] = None /\ x # None
  BY PoolAssumption DEF Typed, AtItsPlace, PushChunk, AllItems, Blocks, Recycling
<1>1. UNCHANGED <<blocks, cell, cache, reclaim, reclaims, mine, item>>
  BY DEF PushChunk, cacheVars, userVars
<1>2. /\ fullCaches' = fullCaches \cup {chunk[t]}
      /\ chunk' = [chunk EXCEPT ![t] = << >>]
      /\ pc' = [pc EXCEPT ![t] = "claim"]
  BY DEF PushChunk, Goto
<1>3. InGiven(x, p)' => In(x, p) /\ p[1] = "given"
  BY <1>0, <1>1, <1>2 DEF InGiven, In, Typed, LocalTyped
<1>4. \/ InCell(x, p)' \/ InMine(x, p)' \/ InCache(x, p)'
      \/ InReclaim(x, p)' \/ InReclaims(x, p)' \/ InBlock(x, p)'
      => In(x, p) /\ p[1] # "chunk"
  BY <1>1, KindOf DEF InCell, InMine, InCache, InReclaim, InReclaims, InBlock
<1>5. InChunk(x, p)' => In(x, p) /\ p[1] = "chunk" /\ p[2] # t
  BY <1>2 DEF In, InChunk, Typed, CachesTyped
<1>6. InFull(x, p)' =>
        \/ In(x, p) /\ p[1] = "full"
        \/ \E i \in Nat : p = <<"full", chunk[t], i, 0>> /\ In(x, <<"chunk", t, i, 0>>)
  BY <1>2 DEF In, InFull, InChunk
<1>9. \/ InCell(x, p)' \/ InMine(x, p)' \/ InGiven(x, p)'
      \/ InCache(x, p)' \/ InReclaim(x, p)' \/ InChunk(x, p)'
      \/ InReclaims(x, p)' \/ InFull(x, p)' \/ InBlock(x, p)'
  BY DEF In
<1> QED
  BY <1>3, <1>4, <1>5, <1>6, <1>9 DEF PushMove

ExchangeMove(t, s, p) ==
  \/ p = s /\ p[1] # "cell" /\ (p[1] \in {"mine", "given"} => p[2] # t)
  \/ p = <<"cell", 0, 0, 0>> /\ s = <<"mine", t, 0, 0>>
  \/ p = <<"given", t, 0, 0>> /\ s = <<"cell", 0, 0, 0>>

LEMMA ExchangeMoves ==
  ASSUME Typed, NEW t \in Threads, Exchange(t), NEW x \in AllItems, NEW p, In(x, p)'
  PROVE  \E s : In(x, s) /\ ExchangeMove(t, s, p)
<1>0. pc[t] = "inside" /\ item[t] = None /\ x # None
  BY PoolAssumption DEF Typed, AtItsPlace, Exchange, AllItems, Blocks, Recycling
<1>1. UNCHANGED <<blocks, fullCaches, cache, reclaim, reclaims, chunk>>
  BY DEF Exchange, cacheVars
<1>2. /\ cell' = mine[t]
      /\ mine' = [mine EXCEPT ![t] = None]
      /\ item' = [item EXCEPT ![t] = cell]
      /\ \A u \in Threads \ {t} : pc'[u] = pc[u]
  BY DEF Exchange, Goto, Typed, LocalTyped
<1>3. InGiven(x, p)' =>
        \/ In(x, p) /\ p[1] = "given" /\ p[2] # t
        \/ p = <<"given", t, 0, 0>> /\ In(x, <<"cell", 0, 0, 0>>)
  BY <1>0, <1>2 DEF InGiven, InCell, In, Typed, LocalTyped
<1>4. \/ InCache(x, p)' \/ InChunk(x, p)' \/ InFull(x, p)'
      \/ InReclaim(x, p)' \/ InReclaims(x, p)' \/ InBlock(x, p)'
      => In(x, p) /\ p[1] \notin {"cell", "mine", "given"}
  BY <1>1, KindOf DEF InCache, InChunk, InFull, InReclaim, InReclaims, InBlock
<1>5. InMine(x, p)' => In(x, p) /\ p[1] = "mine" /\ p[2] # t
  BY <1>0, <1>2 DEF In, InMine, Typed, LocalTyped
<1>6. InCell(x, p)' => p = <<"cell", 0, 0, 0>> /\ In(x, <<"mine", t, 0, 0>>)
  BY <1>2 DEF In, InCell, InMine
<1>9. \/ InCell(x, p)' \/ InMine(x, p)' \/ InGiven(x, p)'
      \/ InCache(x, p)' \/ InReclaim(x, p)' \/ InChunk(x, p)'
      \/ InReclaims(x, p)' \/ InFull(x, p)' \/ InBlock(x, p)'
  BY DEF In
<1> QED
  BY <1>3, <1>4, <1>5, <1>6, <1>9 DEF ExchangeMove

\* What is given back is kept, by Recycle or when the caches have been gone through.
KeepMove(t, s, p) ==
  \/ p = s /\ (p[1] = "given" => p[2] # t)
  \/ p = <<"reclaim", t, Len(reclaim[t]) + 1, 0>> /\ s = <<"given", t, 0, 0>>

LEMMA KeepMoves ==
  ASSUME Typed, NEW t \in Threads,
         UNCHANGED <<blocks, fullCaches, cell, mine, cache, reclaims, chunk>>,
         item[t] # None, pc[t] # "release", Recycled(t),
         reclaim' = [reclaim EXCEPT ![t] = Append(@, item[t])],
         NEW x \in AllItems, NEW p, In(x, p)'
  PROVE  \E s : In(x, s) /\ KeepMove(t, s, p)
<1>0. reclaim[t] \in Seq(AllItems) /\ item[t] \in AllItems /\ x # None
  BY PoolAssumption DEF Typed, CachesTyped, LocalTyped, AllItems, Blocks
<1>1. InGiven(x, p)' => In(x, p) /\ (p[1] = "given" => p[2] # t)
  BY <1>0 DEF InGiven, In, Recycled, Goto, Typed, LocalTyped
<1>2. \/ InCell(x, p)' \/ InMine(x, p)' \/ InCache(x, p)' \/ InChunk(x, p)' \/ InFull(x, p)'
      \/ InReclaims(x, p)' \/ InBlock(x, p)'
      => In(x, p) /\ p[1] # "given"
  <2>1. (InCell(x, p)' => InCell(x, p)) /\ (InMine(x, p)' => InMine(x, p)) /\ (InCache(x, p)' => InCache(x, p)) /\ (InChunk(x, p)' => InChunk(x, p))
    BY DEF InCell, InMine, InCache, InChunk
  <2>2. (InFull(x, p)' => InFull(x, p)) /\ (InReclaims(x, p)' => InReclaims(x, p)) /\ (InBlock(x, p)' => InBlock(x, p))
    BY DEF InFull, InReclaims, InBlock
  <2> QED
    BY <2>1, <2>2, KindOf
<1>3. InReclaim(x, p)' =>
        \/ In(x, p) /\ p[1] # "given"
        \/ p = <<"reclaim", t, Len(reclaim[t]) + 1, 0>> /\ In(x, <<"given", t, 0, 0>>)
  <2> SUFFICES ASSUME NEW u \in Threads, NEW i \in 1 .. Len(reclaim'[u]),
                      reclaim'[u][i] = x, p = <<"reclaim", u, i, 0>>
               PROVE  \/ In(x, p) /\ p[1] # "given"
                      \/ p = <<"reclaim", t, Len(reclaim[t]) + 1, 0>> /\ In(x, <<"given", t, 0, 0>>)
    BY DEF InReclaim
  <2>1. CASE u # t
    BY <2>1 DEF In, InReclaim, Typed, CachesTyped
  <2>2. CASE u = t
    <3>1. i \in 1 .. Len(reclaim[t]) + 1 /\ Append(reclaim[t], item[t])[i] = x
      BY <1>0, <2>2 DEF Typed, CachesTyped
    <3>2. CASE i \in 1 .. Len(reclaim[t])
      <4>1. InReclaim(x, p)
        BY <1>0, <2>2, <3>1, <3>2 DEF InReclaim
      <4> QED
        BY <4>1, KindOf
    <3>3. CASE i = Len(reclaim[t]) + 1
      <4>1. x = item[t]
        BY <1>0, <3>1, <3>3
      <4>2. InGiven(x, <<"given", t, 0, 0>>)
        BY <4>1 DEF InGiven
      <4>3. In(x, <<"given", t, 0, 0>>)
        BY <4>2 DEF In
      <4> QED
        BY <2>2, <3>3, <4>3
    <3>4. i \in 1 .. Len(reclaim[t]) \/ i = Len(reclaim[t]) + 1
      <4>1. Len(reclaim[t]) \in Nat /\ i \in 1 .. Len(reclaim[t]) + 1
        BY <1>0, <3>1
      <4> QED
        BY <4>1
    <3> QED
      BY <3>2, <3>3, <3>4
  <2> QED
    BY <2>1, <2>2
<1>9. \/ InCell(x, p)' \/ InMine(x, p)' \/ InGiven(x, p)'
      \/ InCache(x, p)' \/ InReclaim(x, p)' \/ InChunk(x, p)'
      \/ InReclaims(x, p)' \/ InFull(x, p)' \/ InBlock(x, p)'
  BY DEF In
<1> QED
  BY <1>1, <1>2, <1>3, <1>9 DEF KeepMove

EvaluateMove(t, s, p) ==
  \/ p = s /\ (p[1] = "reclaim" => p[2] # t)
  \/ \E i \in Nat : p = <<"reclaims", t, Len(reclaims[t]) + 1, i>> /\ s = <<"reclaim", t, i, 0>>

LEMMA EvaluateMoves ==
  ASSUME Typed, NEW t \in Threads, Evaluate(t), NEW x \in AllItems, NEW p, In(x, p)'
  PROVE  \E s : In(x, s) /\ EvaluateMove(t, s, p)
<1>0. /\ UNCHANGED <<blocks, fullCaches, cell, mine, cache, item, chunk>>
      /\ pc' = [pc EXCEPT ![t] = "reclaim"] /\ pc[t] = "scan"
      /\ reclaim' = [reclaim EXCEPT ![t] = << >>]
  BY DEF Evaluate, Goto, sharedVars, userVars
<1>1. InGiven(x, p)' => In(x, p) /\ p[1] = "given"
  BY <1>0 DEF InGiven, In, Typed, LocalTyped
<1>2. \/ InCell(x, p)' \/ InMine(x, p)' \/ InCache(x, p)' \/ InChunk(x, p)' \/ InFull(x, p)'
      \/ InBlock(x, p)'
      => In(x, p) /\ p[1] # "reclaim"
  BY <1>0, KindOf DEF InCell, InMine, InCache, InChunk, InFull, InBlock
<1>3. InReclaim(x, p)' => In(x, p) /\ (p[1] = "reclaim" => p[2] # t)
  BY <1>0 DEF In, InReclaim, Typed, CachesTyped
<1>4. InReclaims(x, p)' =>
        \/ In(x, p) /\ p[1] = "reclaims"
        \/ \E i \in Nat : /\ p = <<"reclaims", t, Len(reclaims[t]) + 1, i>>
                          /\ In(x, <<"reclaim", t, i, 0>>)
  <2> SUFFICES ASSUME NEW u \in Threads, NEW k \in 1 .. Len(reclaims'[u]),
                      NEW i \in 1 .. Len(reclaims'[u][k].items),
                      reclaims'[u][k].items[i] = x, p = <<"reclaims", u, k, i>>
               PROVE  \/ In(x, p) /\ p[1] = "reclaims"
                      \/ /\ i \in Nat /\ p = <<"reclaims", t, Len(reclaims[t]) + 1, i>>
                         /\ In(x, <<"reclaim", t, i, 0>>)
    BY DEF InReclaims
  <2>1. CASE u # t
    <3>1. reclaims'[u] = reclaims[u]
      BY <2>1, EvaluateTyped
    <3> QED
      BY <3>1 DEF In, InReclaims
  <2>2. CASE u = t /\ k \in 1 .. Len(reclaims[t])
    <3>1. reclaims'[t][k].items = reclaims[t][k].items
      BY <2>2, EvaluateTyped
    <3> QED
      BY <2>2, <3>1 DEF In, InReclaims
  <2>3. CASE u = t /\ k \notin 1 .. Len(reclaims[t])
    <3>1. Len(reclaims[t]) \in Nat
      BY DEF Typed, CachesTyped
    <3>2. \/ Len(reclaims'[t]) = Len(reclaims[t])
          \/ /\ Len(reclaims'[t]) = Len(reclaims[t]) + 1
             /\ reclaims'[t][Len(reclaims[t]) + 1].items = reclaim[t]
      <4>1. [users |-> inside[t], items |-> reclaim[t]].items = reclaim[t]
        OBVIOUS
      <4> QED
        BY <4>1, EvaluateTyped
    <3>3. k = Len(reclaims[t]) + 1 /\ reclaims'[t][k].items = reclaim[t]
      BY <2>3, <3>1, <3>2
    <3> QED
      BY <2>3, <3>3 DEF In, InReclaim
  <2> QED
    BY <2>1, <2>2, <2>3
<1>9. \/ InCell(x, p)' \/ InMine(x, p)' \/ InGiven(x, p)'
      \/ InCache(x, p)' \/ InReclaim(x, p)' \/ InChunk(x, p)'
      \/ InReclaims(x, p)' \/ InFull(x, p)' \/ InBlock(x, p)'
  BY DEF In
<1> QED
  BY <1>1, <1>2, <1>3, <1>4, <1>9 DEF EvaluateMove

ReclaimMove(t, k, s, p) ==
  LET last == Len(reclaims[t])
  IN  \/ p = s /\ (p[1] = "reclaims" /\ p[2] = t => p[3] \notin {k, last})
      \/ \E i \in Nat : /\ p = <<"full", reclaims[t][k].items, i, 0>>
                        /\ s = <<"reclaims", t, k, i>>
      \/ \E i \in Nat : /\ k # last /\ p = <<"reclaims", t, k, i>>
                        /\ s = <<"reclaims", t, last, i>>

LEMMA ReclaimMoves ==
  ASSUME Typed, NEW t \in Threads, NEW k \in 1 .. Len(reclaims[t]),
         UNCHANGED <<blocks, cell, mine, cache, chunk, reclaim, item, pc>>,
         fullCaches' = fullCaches \cup {reclaims[t][k].items},
         reclaims' = [reclaims EXCEPT ![t] = Without(reclaims[t], k)],
         NEW x \in AllItems, NEW p, In(x, p)'
  PROVE  \E s : In(x, s) /\ ReclaimMove(t, k, s, p)
<1> DEFINE last == Len(reclaims[t])
<1>0. reclaims[t] \in Seq(Waiting) /\ last \in Nat /\ k \in Nat
  BY DEF Typed, CachesTyped
<1>1. \/ InCell(x, p)' \/ InMine(x, p)' \/ InCache(x, p)' \/ InChunk(x, p)' \/ InReclaim(x, p)'
      \/ InBlock(x, p)' \/ InGiven(x, p)'
      => In(x, p) /\ p[1] # "reclaims"
  BY KindOf DEF InCell, InMine, InCache, InChunk, InReclaim, InBlock, InGiven
<1>2. InFull(x, p)' =>
        \/ In(x, p) /\ p[1] = "full"
        \/ \E i \in Nat : /\ p = <<"full", reclaims[t][k].items, i, 0>>
                          /\ In(x, <<"reclaims", t, k, i>>)
  <2>1. Len(reclaims[t][k].items) \in Nat
    <3>1. reclaims[t][k] \in Waiting
      BY <1>0
    <3> QED
      BY <3>1 DEF Waiting, Caches
  <2> SUFFICES ASSUME NEW c \in fullCaches', NEW i \in 1 .. Len(c), c[i] = x, p = <<"full", c, i, 0>>
               PROVE  \/ In(x, p) /\ p[1] = "full"
                      \/ /\ i \in Nat /\ p = <<"full", reclaims[t][k].items, i, 0>>
                         /\ In(x, <<"reclaims", t, k, i>>)
    BY DEF InFull
  <2>2. CASE c \in fullCaches
    BY <2>2 DEF In, InFull
  <2>3. CASE c = reclaims[t][k].items
    BY <2>1, <2>3 DEF In, InReclaims
  <2> QED
    BY <2>2, <2>3
<1>3. InReclaims(x, p)' =>
        \/ In(x, p) /\ p[1] = "reclaims" /\ (p[2] = t => p[3] \notin {k, last})
        \/ \E i \in Nat : p = <<"reclaims", t, k, i>> /\ k # last /\ In(x, <<"reclaims", t, last, i>>)
  <2> SUFFICES ASSUME NEW u \in Threads, NEW j \in 1 .. Len(reclaims'[u]),
                      NEW i \in 1 .. Len(reclaims'[u][j].items),
                      reclaims'[u][j].items[i] = x, p = <<"reclaims", u, j, i>>
               PROVE  \/ In(x, p) /\ p[1] = "reclaims" /\ (p[2] = t => p[3] \notin {k, last})
                      \/ /\ i \in Nat /\ p = <<"reclaims", t, k, i>> /\ k # last
                         /\ In(x, <<"reclaims", t, last, i>>)
    BY DEF InReclaims
  <2>1. CASE u # t
    <3>1. reclaims'[u] = reclaims[u]
      BY <2>1 DEF Typed, CachesTyped
    <3> QED
      BY <2>1, <3>1 DEF In, InReclaims
  <2>2. CASE u = t
    <3>1. /\ j \in 1 .. last - 1
          /\ reclaims'[t][j] = IF j = k THEN reclaims[t][last] ELSE reclaims[t][j]
      <4>1. /\ reclaims'[t] = Without(reclaims[t], k)
            /\ Len(Without(reclaims[t], k)) = last - 1
            /\ \A m \in 1 .. last - 1 :
                 Without(reclaims[t], k)[m] = IF m = k THEN reclaims[t][last] ELSE reclaims[t][m]
        BY <1>0, WithoutOne DEF Typed, CachesTyped
      <4> QED
        BY <2>2, <4>1
    <3>2. CASE j = k
      BY <1>0, <2>2, <3>1, <3>2 DEF In, InReclaims
    <3>3. CASE j # k
      BY <1>0, <2>2, <3>1, <3>3 DEF In, InReclaims
    <3> QED
      BY <3>2, <3>3
  <2> QED
    BY <2>1, <2>2
<1>9. \/ InCell(x, p)' \/ InMine(x, p)' \/ InGiven(x, p)'
      \/ InCache(x, p)' \/ InReclaim(x, p)' \/ InChunk(x, p)'
      \/ InReclaims(x, p)' \/ InFull(x, p)' \/ InBlock(x, p)'
  BY DEF In
<1> QED
  BY <1>1, <1>2, <1>3, <1>9 DEF ReclaimMove

-----------------------------------------------------------------------------
\* Where an item that is in m_deferredReclaimCaches is.
PlacesInReclaims ==
  \A x, u, k, i : In(x, <<"reclaims", u, k, i>>) =>
    /\ u \in Threads /\ k \in 1 .. Len(reclaims[u]) /\ i \in 1 .. Len(reclaims[u][k].items)
    /\ reclaims[u][k].items[i] = x

LEMMA InReclaimsAt == PlacesInReclaims
<1> SUFFICES ASSUME NEW x, NEW u, NEW k, NEW i, In(x, <<"reclaims", u, k, i>>)
             PROVE  InReclaims(x, <<"reclaims", u, k, i>>)
  BY DEF InReclaims, PlacesInReclaims
<1> DEFINE p == <<"reclaims", u, k, i>>
<1>1. p[1] = "reclaims"
  OBVIOUS
<1> HIDE DEF p
<1>2. In(x, p)
  BY DEF p
<1>3. InReclaims(x, p)
  BY <1>1, <1>2, KindOf DEF In
<1> QED
  BY <1>3 DEF p

\* What a thread has read inside a critical section is in the data structure, or
\* another thread has taken it out and keeps it.  A cache that it is in waits for
\* the reader; while the indices are being loaded, the reader is among those that
\* are inside, and if a cache waits already, among those that have not changed.
HeldAt(t) ==
  \A p : In(held[t], p) => \/ p[1] = "cell"
                           \/ p[1] \in {"given", "reclaim", "reclaims"} /\ p[2] # t

Awaited(t) ==
  \A u \in Threads : \A k, i : In(held[t], <<"reclaims", u, k, i>>) =>
    /\ t \in reclaims[u][k].users
    /\ indexCache[u][t] = indices[t]
    /\ pc[u] = "scan" /\ t \notin toScan[u] => t \in inside[u] /\ t \notin changed[u]

Noticed(t) ==
  \A u \in Threads : \A i : In(held[t], <<"reclaim", u, i, 0>>) =>
    /\ pc[u] = "scan" /\ t \notin toScan[u] => t \in inside[u] /\ indexCache[u][t] = indices[t]

HeldSafe(t) ==
  held[t] # None => /\ pc[t] \in {"inside"} \cup Recycling
                    /\ HeldAt(t) /\ Awaited(t) /\ Noticed(t)

IInv == Typed /\ Unique /\ \A t \in Threads : HeldSafe(t)

\* Steps that leave the caches and the indices that have been loaded as they are.
LEMMA HeldStays ==
  ASSUME NEW v \in Threads, HeldSafe(v), held[v] # None,
         held'[v] = held[v], pc'[v] \in {"inside"} \cup Recycling, indices'[v] = indices[v],
         UNCHANGED <<reclaims, indexCache>>,
         \A u \in Threads : pc'[u] = "scan" =>
           \/ pc[u] = "scan" /\ toScan'[u] = toScan[u]
              /\ inside'[u] = inside[u] /\ changed'[u] = changed[u]
           \/ v # u => v \in toScan'[u],
         \A p : In(held[v], p)' =>
           \/ In(held[v], p)
           \/ p[1] = "given" /\ p[2] # v
           \/ p[1] = "reclaim" /\ p[2] # v /\ pc'[p[2]] # "scan"
  PROVE  HeldSafe(v)'
<1>0. HeldAt(v) /\ Awaited(v) /\ Noticed(v)
  BY DEF HeldSafe
<1>1. HeldAt(v)'
  BY <1>0 DEF HeldAt
<1>2. Awaited(v)'
  <2> SUFFICES ASSUME NEW u \in Threads, NEW k, NEW i, In(held[v], <<"reclaims", u, k, i>>)'
               PROVE  /\ v \in reclaims[u][k].users
                      /\ indexCache[u][v] = indices[v]
                      /\ pc'[u] = "scan" /\ v \notin toScan'[u] => v \in inside'[u] /\ v \notin changed'[u]
    BY DEF Awaited
  <2>1. In(held[v], <<"reclaims", u, k, i>>)
    OBVIOUS
  <2>2. v # u
    BY <1>0, <2>1 DEF HeldAt
  <2> QED
    BY <1>0, <2>1, <2>2 DEF Awaited
<1>3. Noticed(v)'
  <2> SUFFICES ASSUME NEW u \in Threads, NEW i, In(held[v], <<"reclaim", u, i, 0>>)',
                      pc'[u] = "scan", v \notin toScan'[u]
               PROVE  v \in inside'[u] /\ indexCache[u][v] = indices[v]
    BY DEF Noticed
  <2>1. In(held[v], <<"reclaim", u, i, 0>>)
    OBVIOUS
  <2>2. v # u
    BY <1>0, <2>1 DEF HeldAt
  <2> QED
    BY <1>0, <2>1, <2>2 DEF Noticed
<1> QED
  BY <1>1, <1>2, <1>3 DEF HeldSafe

LEMMA HeldStaysThere ==
  ASSUME Typed, NEW v \in Threads, HeldSafe(v), held'[v] = held[v],
         held[v] # None => \A p : In(held[v], p)' => In(held[v], p),
         pc[v] \in {"inside"} \cup Recycling => pc'[v] \in {"inside"} \cup Recycling,
         UNCHANGED <<indices, reclaims, indexCache, toScan, inside, changed>>,
         \A u \in Threads : pc'[u] = "scan" => pc[u] = "scan"
  PROVE  HeldSafe(v)'
<1>1. CASE held[v] = None
  BY <1>1 DEF HeldSafe
<1>2. CASE held[v] # None
  <2>1. pc'[v] \in {"inside"} \cup Recycling
    BY <1>2 DEF HeldSafe
  <2> QED
    BY <1>2, <2>1, HeldStays
<1> QED
  BY <1>1, <1>2

LEMMA HeldStaysIfNothingMoves ==
  ASSUME Typed, NEW v \in Threads, held'[v] = held[v], NothingMoves
  PROVE  held[v] # None => \A p : In(held[v], p)' => In(held[v], p)
BY DEF Typed, LocalTyped, NothingMoves

LEMMA InitHolds == ~StoreBuffers /\ Init => IInv
<1> SUFFICES ASSUME ~StoreBuffers, Init PROVE IInv
  OBVIOUS
<1>1. \A t \in Threads : HeldSafe(t)
  BY DEF Init, HeldSafe
<1> QED
  BY <1>1, InitTyped, InitUnique DEF IInv

-----------------------------------------------------------------------------
LEMMA BeginGetKeeps ==
  ASSUME IInv, NEW t \in Threads, BeginGet(t)
  PROVE  IInv'
<1>0. /\ UNCHANGED <<fullCaches, cell, blocks, indices, reclaim, reclaims, indexCache, held,
                     item, chunk, toScan, inside, changed>>
      /\ pc[t] = "outside" /\ pc'[t] \in {"outside", "pop"} /\ \A u \in Threads \ {t} : pc'[u] = pc[u]
  BY DEF IInv, Typed, LocalTyped, BeginGet, Fetch, Goto, sharedVars, sectionVars, localVars
<1>1. CASE cache[t] = << >>
  <2>1. NothingMoves
    BY <1>0, <1>1, StaysThere DEF BeginGet
  <2>2. \A v \in Threads : HeldSafe(v)'
    BY <1>0, <2>1, HeldStaysThere, HeldStaysIfNothingMoves DEF IInv, Recycling
  <2> QED
    BY <2>1, <2>2, BeginGetTyped, NothingMovesUnique DEF IInv
<1>2. CASE cache[t] # << >>
  <2>1. \A x \in AllItems : \A p : In(x, p)' => \E s : In(x, s) /\ GetMove(t, s, p)
    BY <1>2, BeginGetMoves DEF IInv
  <2>2. ASSUME NEW s, NEW p, NEW q, GetMove(t, s, p), GetMove(t, s, q)
        PROVE  p = q
    <3>1. \A i, j \in Nat : i # j => <<"cache", t, i, 0>> # <<"cache", t, j, 0>>
      OBVIOUS
    <3>2. \A i \in Nat \ {0} : i + 1 \in Nat /\ i + 1 # 1
      OBVIOUS
    <3> QED
      BY <2>2, <3>1, <3>2 DEF GetMove
  <2>3. Unique'
    BY <2>1, <2>2 DEF IInv, Unique
  <2>4. ASSUME NEW v \in Threads
        PROVE  HeldSafe(v)'
    <3>1. ASSUME held[v] # None, NEW p, In(held[v], p)'
          PROVE  In(held[v], p)
      <4>1. PICK s : In(held[v], s) /\ GetMove(t, s, p)
        BY <1>0, <2>1, <3>1 DEF IInv, Typed, LocalTyped
      <4>2. s[1] \in {"cell", "given", "reclaim", "reclaims"}
        BY <3>1, <4>1 DEF IInv, HeldSafe, HeldAt
      <4> QED
        BY <4>1, <4>2 DEF GetMove
    <3> QED
      BY <1>0, <3>1, HeldStaysThere DEF IInv, Recycling
  <2> QED
    BY <2>3, <2>4, BeginGetTyped DEF IInv
<1> QED
  BY <1>1, <1>2

LEMMA PopKeeps ==
  ASSUME IInv, NEW t \in Threads, PopFull(t) \/ PopAgain(t)
  PROVE  IInv'
<1>1. PICK otherwise \in {"load_end", "alloc"} : Pop(t, otherwise)
  BY DEF PopFull, PopAgain
<1>2. /\ pc[t] \in {"pop", "pop_again"}
      /\ UNCHANGED <<blocks, blocksEndIndex, cell, sectionVars, reclaim, reclaims, indexCache,
                     held, localVars>>
  BY DEF PopFull, PopAgain
<1>3. Typed'
  BY <1>1, <1>2, PopTyped DEF IInv
<1>4. /\ pc'[t] \in {"load_end", "alloc", "outside"} /\ \A u \in Threads \ {t} : pc'[u] = pc[u]
      /\ UNCHANGED <<indices, item, chunk, toScan, inside, changed>>
  BY <1>1, <1>2 DEF IInv, Typed, LocalTyped, Pop, Fetch, Goto, sectionVars, localVars
<1>5. CASE UNCHANGED <<fullCaches, mine, cache>>
  <2>1. NothingMoves
    BY <1>2, <1>4, <1>5, StaysThere
  <2>2. \A v \in Threads : HeldSafe(v)'
    BY <1>2, <1>4, <2>1, HeldStaysThere, HeldStaysIfNothingMoves DEF IInv, Recycling
  <2> QED
    BY <1>3, <2>1, <2>2, NothingMovesUnique DEF IInv
<1>6. ASSUME NEW c \in fullCaches, fullCaches' = fullCaches \ {c}, Fetch(t, c)
      PROVE  Unique' /\ \A v \in Threads : HeldSafe(v)'
  <2>1. \A x \in AllItems : \A p : In(x, p)' => \E s : In(x, s) /\ PopMove(t, c, s, p)
    BY <1>2, <1>6, PopMoves DEF IInv
  <2>2. ASSUME NEW s, NEW p, NEW q, PopMove(t, c, s, p), PopMove(t, c, s, q)
        PROVE  p = q
    <3>1. \A i, j \in Nat : i # j => <<"full", c, i, 0>> # <<"full", c, j, 0>>
      OBVIOUS
    <3>2. \A i \in Nat \ {0} : i + 1 \in Nat /\ i + 1 # 1
      OBVIOUS
    <3> QED
      BY <2>2, <3>1, <3>2 DEF PopMove
  <2>3. Unique'
    BY <2>1, <2>2 DEF IInv, Unique
  <2>4. ASSUME NEW v \in Threads
        PROVE  HeldSafe(v)'
    <3>1. ASSUME held[v] # None, NEW p, In(held[v], p)'
          PROVE  In(held[v], p)
      <4>1. PICK s : In(held[v], s) /\ PopMove(t, c, s, p)
        BY <1>2, <2>1, <3>1 DEF IInv, Typed, LocalTyped
      <4>2. s[1] \in {"cell", "given", "reclaim", "reclaims"}
        BY <3>1, <4>1 DEF IInv, HeldSafe, HeldAt
      <4> QED
        BY <4>1, <4>2 DEF PopMove
    <3> QED
      BY <1>2, <1>4, <3>1, HeldStaysThere DEF IInv, Recycling
  <2> QED
    BY <2>3, <2>4
<1> QED
  BY <1>1, <1>3, <1>5, <1>6 DEF Pop, IInv

\* Steps of try_alloc_block between those that take items.
LEMMA AllocKeeps ==
  ASSUME IInv, NEW t \in Threads, LoadEnd(t) \/ AllocLoad(t) \/ AllocExchange(t) \/ Advance(t)
  PROVE  IInv'
<1>1. Typed'
  BY LoadEndTyped, AllocTyped, AdvanceTyped DEF IInv
<1>2. /\ UNCHANGED <<fullCaches, cell, cache, reclaim, reclaims, chunk, mine, item, held, indices,
                     indexCache, toScan, inside, changed>>
      /\ pc[t] \in Getting
  BY DEF LoadEnd, AllocLoad, AllocExchange, Advance, sharedVars, cacheVars, userVars, localVars,
         sectionVars, Getting
<1>3. pc'[t] \in Getting /\ \A u \in Threads \ {t} : pc'[u] = pc[u]
  BY DEF IInv, Typed, LocalTyped, LoadEnd, AllocLoad, AllocExchange, Advance, Goto, Getting
<1>4. \A b \in Blocks : blocks'[b].pushSync = blocks[b].pushSync
  <2>1. \/ blocks' = blocks
        \/ block[t] \in Blocks /\ blocks' = Known(block[t])
    BY PoolAssumption
    DEF IInv, Typed, AtItsPlace, LocalTyped, LoadEnd, AllocLoad, AllocExchange, Advance, sharedVars, Blocks
  <2> QED
    BY <2>1, KnownTyped DEF IInv, Typed
<1>5. NothingMoves
  <2>1. item[t] = None
    BY <1>2 DEF IInv, Typed, AtItsPlace, Getting, Recycling
  <2> QED
    BY <1>2, <1>3, <1>4, <2>1, StaysThere
<1>6. \A v \in Threads : HeldSafe(v)'
  BY <1>2, <1>3, <1>5, HeldStaysThere, HeldStaysIfNothingMoves DEF IInv, Getting, Recycling
<1> QED
  BY <1>1, <1>5, <1>6, NothingMovesUnique DEF IInv

LEMMA ClaimChunkKeeps ==
  ASSUME IInv, NEW t \in Threads, ClaimChunk(t)
  PROVE  IInv'
<1>0. /\ UNCHANGED <<indices, reclaims, indexCache, held, toScan, inside, changed>>
      /\ pc[t] = "claim" /\ pc'[t] \in {"push", "advance"} /\ \A u \in Threads \ {t} : pc'[u] = pc[u]
  BY DEF IInv, Typed, LocalTyped, ClaimChunk, Goto, sectionVars, cacheVars, userVars
<1>1. blocks[block[t]].pushSync \in Nat /\ TlCacheSize \in Nat
  <2>1. block[t] \in Blocks
    BY DEF IInv, Typed, AtItsPlace, ClaimChunk
  <2> QED
    BY <2>1, PoolAssumption DEF IInv, Typed, SharedTyped, BlockStates
<1>2. \A x \in AllItems : \A p : In(x, p)' => \E s : In(x, s) /\ ClaimMove(t, x, s, p)
  BY ClaimChunkMoves DEF IInv
<1>3. \A x, s, p, q : ClaimMove(t, x, s, p) /\ ClaimMove(t, x, s, q) => p = q
  <2> SUFFICES ASSUME NEW x, NEW s, NEW p, NEW q, ClaimMove(t, x, s, p), ClaimMove(t, x, s, q)
               PROVE  p = q
    OBVIOUS
  <2>1. \A i \in Nat : x = Item(block[t], blocks[block[t]].pushSync + i - 1) =>
          /\ x.block = block[t]
          /\ x.place = blocks[block[t]].pushSync + i - 1
    BY DEF Item
  <2> QED
    BY <1>1, <2>1 DEF ClaimMove
<1>4. Unique'
  BY <1>2, <1>3 DEF IInv, Unique
<1>5. ASSUME NEW v \in Threads
      PROVE  HeldSafe(v)'
  <2>1. ASSUME held[v] # None, NEW p, In(held[v], p)'
        PROVE  In(held[v], p)
    <3>1. PICK s : In(held[v], s) /\ ClaimMove(t, held[v], s, p)
      BY <1>0, <1>2, <2>1 DEF IInv, Typed, LocalTyped
    <3>2. s[1] \in {"cell", "given", "reclaim", "reclaims"}
      BY <2>1, <3>1 DEF IInv, HeldSafe, HeldAt
    <3> QED
      BY <3>1, <3>2 DEF ClaimMove
  <2> QED
    BY <1>0, <2>1, HeldStaysThere DEF IInv, Recycling
<1> QED
  BY <1>4, <1>5, ClaimChunkTyped DEF IInv

LEMMA PushChunkKeeps ==
  ASSUME IInv, NEW t \in Threads, PushChunk(t)
  PROVE  IInv'
<1>0. /\ UNCHANGED <<indices, reclaims, indexCache, held, toScan, inside, changed>>
      /\ pc[t] = "push" /\ pc'[t] = "claim" /\ \A u \in Threads \ {t} : pc'[u] = pc[u]
  BY DEF IInv, Typed, LocalTyped, PushChunk, Goto, sectionVars, cacheVars, userVars
<1>2. \A x \in AllItems : \A p : In(x, p)' => \E s : In(x, s) /\ PushMove(t, s, p)
  BY PushChunkMoves DEF IInv
<1>3. \A s, p, q : PushMove(t, s, p) /\ PushMove(t, s, q) => p = q
  BY DEF PushMove
<1>4. Unique'
  BY <1>2, <1>3 DEF IInv, Unique
<1>5. ASSUME NEW v \in Threads
      PROVE  HeldSafe(v)'
  <2>1. ASSUME held[v] # None, NEW p, In(held[v], p)'
        PROVE  In(held[v], p)
    <3>1. PICK s : In(held[v], s) /\ PushMove(t, s, p)
      BY <1>0, <1>2, <2>1 DEF IInv, Typed, LocalTyped
    <3>2. s[1] \in {"cell", "given", "reclaim", "reclaims"}
      BY <2>1, <3>1 DEF IInv, HeldSafe, HeldAt
    <3> QED
      BY <3>1, <3>2 DEF PushMove
  <2> QED
    BY <1>0, <2>1, HeldStaysThere DEF IInv, Recycling
<1> QED
  BY <1>4, <1>5, PushChunkTyped DEF IInv

-----------------------------------------------------------------------------
LEMMA EnterKeeps ==
  ASSUME ~StoreBuffers, IInv, NEW t \in Threads, Enter(t)
  PROVE  IInv'
<1>0. /\ UNCHANGED <<fullCaches, cell, blocks, cache, chunk, mine, item, reclaim, reclaims,
                     indexCache, held, toScan, inside, changed>>
      /\ pc[t] = "outside" /\ pc'[t] = "inside" /\ \A u \in Threads \ {t} : pc'[u] = pc[u]
      /\ \A u \in Threads \ {t} : indices'[u] = indices[u]
  BY DEF IInv, Typed, LocalTyped, SectionTyped, Enter, StoreIndex, Goto, sharedVars, cacheVars,
         userVars, localVars
<1>1. NothingMoves
  BY <1>0, StaysThere
<1>2. ASSUME NEW v \in Threads
      PROVE  HeldSafe(v)'
  <2>1. CASE v = t
    BY <1>0, <2>1 DEF IInv, HeldSafe, Recycling
  <2>2. CASE v # t /\ held[v] # None
    <3>1. \A p : In(held[v], p)' => In(held[v], p)
      BY <1>0, <1>1, <2>2, HeldStaysIfNothingMoves DEF IInv
    <3>2. pc'[v] \in {"inside"} \cup Recycling /\ HeldSafe(v)
      BY <1>0, <2>2 DEF IInv, HeldSafe
    <3>3. \A u \in Threads : pc'[u] = "scan" => pc[u] = "scan"
      BY <1>0
    <3> QED
      BY <1>0, <2>2, <3>1, <3>2, <3>3, HeldStays
  <2>3. CASE held[v] = None
    BY <1>0, <2>3 DEF HeldSafe
  <2> QED
    BY <2>1, <2>2, <2>3
<1> QED
  BY <1>1, <1>2, EnterTyped, NothingMovesUnique DEF IInv

LEMMA ExitKeeps ==
  ASSUME ~StoreBuffers, IInv, NEW t \in Threads, Exit(t)
  PROVE  IInv'
<1>0. /\ UNCHANGED <<fullCaches, cell, blocks, cache, chunk, mine, item, reclaim, reclaims,
                     indexCache, toScan, inside, changed>>
      /\ pc[t] = "inside" /\ pc'[t] = "outside" /\ \A u \in Threads \ {t} : pc'[u] = pc[u]
      /\ \A u \in Threads \ {t} : indices'[u] = indices[u] /\ held'[u] = held[u]
      /\ held'[t] = None
  BY DEF IInv, Typed, LocalTyped, SectionTyped, Exit, StoreIndex, Goto, sharedVars, cacheVars, localVars
<1>1. NothingMoves
  BY <1>0, StaysThere
<1>2. ASSUME NEW v \in Threads
      PROVE  HeldSafe(v)'
  <2>1. CASE v # t /\ held[v] # None
    <3>1. \A p : In(held[v], p)' => In(held[v], p)
      BY <1>0, <1>1, <2>1, HeldStaysIfNothingMoves DEF IInv
    <3>2. pc'[v] \in {"inside"} \cup Recycling /\ HeldSafe(v)
      BY <1>0, <2>1 DEF IInv, HeldSafe
    <3>3. \A u \in Threads : pc'[u] = "scan" => pc[u] = "scan"
      BY <1>0
    <3> QED
      BY <1>0, <2>1, <3>1, <3>2, <3>3, HeldStays
  <2>2. CASE held'[v] = None
    BY <2>2 DEF HeldSafe
  <2> QED
    BY <1>0, <2>1, <2>2
<1> QED
  BY <1>1, <1>2, ExitTyped, NothingMovesUnique DEF IInv

\* What is in the data structure is nowhere else.
LEMMA ReadKeeps ==
  ASSUME IInv, NEW t \in Threads, Read(t)
  PROVE  IInv'
<1>0. /\ UNCHANGED <<fullCaches, cell, blocks, cache, chunk, mine, item, reclaim, reclaims,
                     indexCache, indices, toScan, inside, changed, pc>>
      /\ pc[t] = "inside" /\ cell \in AllItems /\ held'[t] = cell
      /\ \A u \in Threads \ {t} : held'[u] = held[u]
  BY DEF IInv, Typed, SharedTyped, LocalTyped, Read, sharedVars, sectionVars, cacheVars, localVars
<1>1. NothingMoves
  BY <1>0, StaysThere
<1>2. ASSUME NEW v \in Threads, v # t
      PROVE  HeldSafe(v)'
  BY <1>0, <1>1, <1>2, HeldStaysThere, HeldStaysIfNothingMoves DEF IInv
<1>3. HeldSafe(t)'
  <2>1. \A p : In(cell, p)' => p = <<"cell", 0, 0, 0>>
    <3>1. In(cell, <<"cell", 0, 0, 0>>)
      BY DEF In, InCell
    <3> QED
      BY <1>0, <1>1, <3>1 DEF IInv, Unique, NothingMoves
  <2>2. \A p : In(cell, p)' => p[1] = "cell"
    BY <2>1
  <2>3. \A u, k, i : ~ In(cell, <<"reclaims", u, k, i>>)' /\ ~ In(cell, <<"reclaim", u, i, 0>>)'
    BY <2>1
  <2>4. held'[t] = cell' /\ cell' = cell
    BY <1>0
  <2>5. HeldAt(t)'
    <3> SUFFICES ASSUME NEW p, In(held[t], p)'
                 PROVE  p[1] = "cell"
      BY DEF HeldAt
    <3> QED
      BY <2>2, <2>4
  <2>6. Awaited(t)' /\ Noticed(t)'
    BY <2>3, <2>4 DEF Awaited, Noticed
  <2> QED
    BY <1>0, <2>5, <2>6 DEF HeldSafe
<1> QED
  BY <1>1, <1>2, <1>3, ReadTyped, NothingMovesUnique DEF IInv

LEMMA ExchangeKeeps ==
  ASSUME IInv, NEW t \in Threads, Exchange(t)
  PROVE  IInv'
<1>0. /\ UNCHANGED <<indices, reclaims, indexCache, toScan, inside, changed>>
      /\ pc[t] = "inside" /\ pc'[t] \in {"inside", "recycle"} /\ \A u \in Threads \ {t} : pc'[u] = pc[u]
      /\ \A u \in Threads \ {t} : held'[u] = held[u]
      /\ held'[t] = IF held[t] = cell THEN None ELSE held[t]
  BY DEF IInv, Typed, LocalTyped, Exchange, Goto, sectionVars, cacheVars
<1>1. \A x \in AllItems : \A p : In(x, p)' => \E s : In(x, s) /\ ExchangeMove(t, s, p)
  BY ExchangeMoves DEF IInv
<1>2. \A s, p, q : ExchangeMove(t, s, p) /\ ExchangeMove(t, s, q) => p = q
  BY DEF ExchangeMove
<1>3. Unique'
  BY <1>1, <1>2 DEF IInv, Unique
<1>4. ASSUME NEW v \in Threads
      PROVE  HeldSafe(v)'
  <2>1. CASE held'[v] = None
    BY <2>1 DEF HeldSafe
  <2>2. CASE held'[v] # None
    <3>1. held'[v] = held[v] /\ held[v] # None /\ HeldSafe(v) /\ (v = t => held[v] # cell)
      BY <1>0, <2>2 DEF IInv
    <3>2. ASSUME NEW p, In(held[v], p)'
          PROVE  In(held[v], p) \/ (p[1] = "given" /\ p[2] # v)
      <4>1. PICK s : In(held[v], s) /\ ExchangeMove(t, s, p)
        BY <1>1, <3>1, <3>2 DEF IInv, Typed, LocalTyped
      <4>2. s[1] \in {"cell", "given", "reclaim", "reclaims"}
        BY <3>1, <4>1 DEF HeldSafe, HeldAt
      <4>3. CASE p = <<"given", t, 0, 0>> /\ s = <<"cell", 0, 0, 0>>
        <5>1. InCell(held[v], s)
          BY <4>1, <4>3, KindOf DEF In
        <5> QED
          BY <3>1, <4>3, <5>1 DEF InCell
      <4> QED
        BY <4>1, <4>2, <4>3 DEF ExchangeMove
    <3>3. pc'[v] \in {"inside"} \cup Recycling
      BY <1>0, <3>1 DEF HeldSafe, Recycling
    <3>4. \A u \in Threads : pc'[u] = "scan" => pc[u] = "scan"
      BY <1>0
    <3> QED
      BY <1>0, <3>1, <3>2, <3>3, <3>4, HeldStays
  <2> QED
    BY <2>1, <2>2
<1> QED
  BY <1>3, <1>4, ExchangeTyped DEF IInv

-----------------------------------------------------------------------------
LEMMA RecycleKeeps ==
  ASSUME IInv, NEW t \in Threads, Recycle(t)
  PROVE  IInv'
<1>0. /\ UNCHANGED <<fullCaches, cell, blocks, cache, chunk, mine, held, indices, reclaims,
                     indexCache, inside, changed>>
      /\ pc[t] = "recycle" /\ item[t] # None
  BY DEF IInv, Typed, AtItsPlace, Recycle, sharedVars, sectionVars, userVars, Recycling
<1>1. CASE UNCHANGED <<reclaim, item>> /\ pc'[t] \in {"discard", "scan"}
  <2>1. /\ \A u \in Threads \ {t} : pc'[u] = pc[u] /\ toScan'[u] = toScan[u]
        /\ pc'[t] = "scan" => toScan'[t] = Threads \ {t}
    BY <1>0, <1>1 DEF IInv, Typed, LocalTyped, Recycle, Recycled, Goto
  <2>2. NothingMoves
    BY <1>0, <1>1, <2>1, StaysThere
  <2>3. ASSUME NEW v \in Threads
        PROVE  HeldSafe(v)'
    <3>1. CASE held[v] # None
      <4>1. \A p : In(held[v], p)' => In(held[v], p)
        BY <1>0, <2>2, <3>1, HeldStaysIfNothingMoves DEF IInv
      <4>2. pc'[v] \in {"inside"} \cup Recycling /\ HeldSafe(v)
        BY <1>1, <2>1, <3>1 DEF IInv, HeldSafe, Recycling
      <4> QED
        BY <1>0, <2>1, <3>1, <4>1, <4>2, HeldStays
    <3>2. CASE held[v] = None
      BY <1>0, <3>2 DEF HeldSafe
    <3> QED
      BY <3>1, <3>2
  <2> QED
    BY <2>2, <2>3, RecycleTyped, NothingMovesUnique DEF IInv
<1>2. CASE reclaim' = [reclaim EXCEPT ![t] = Append(@, item[t])] /\ Recycled(t) /\ UNCHANGED toScan
  <2>1. pc'[t] = "inside" /\ \A u \in Threads \ {t} : pc'[u] = pc[u]
    BY <1>2 DEF IInv, Typed, LocalTyped, Recycled, Goto
  <2>2. \A x \in AllItems : \A p : In(x, p)' => \E s : In(x, s) /\ KeepMove(t, s, p)
    BY <1>0, <1>2, KeepMoves DEF IInv
  <2>3. \A s, p, q : KeepMove(t, s, p) /\ KeepMove(t, s, q) => p = q
    BY DEF KeepMove
  <2>4. Unique'
    BY <2>2, <2>3 DEF IInv, Unique
  <2>5. ASSUME NEW v \in Threads
        PROVE  HeldSafe(v)'
    <3>1. CASE held[v] # None
      <4>1. ASSUME NEW p, In(held[v], p)'
            PROVE  In(held[v], p) \/ (p[1] = "reclaim" /\ p[2] # v /\ pc'[p[2]] # "scan")
        <5>1. PICK s : In(held[v], s) /\ KeepMove(t, s, p)
          BY <1>0, <2>2, <3>1, <4>1 DEF IInv, Typed, LocalTyped
        <5>2. s[1] = "given" => s[2] # v
          BY <3>1, <5>1 DEF IInv, HeldSafe, HeldAt
        <5> QED
          BY <2>1, <5>1, <5>2 DEF KeepMove
      <4>2. pc'[v] \in {"inside"} \cup Recycling /\ HeldSafe(v)
        BY <2>1, <3>1 DEF IInv, HeldSafe
      <4>3. \A u \in Threads : pc'[u] = "scan" => pc[u] = "scan"
        BY <2>1
      <4> QED
        BY <1>0, <1>2, <3>1, <4>1, <4>2, <4>3, HeldStays
    <3>2. CASE held[v] = None
      BY <1>0, <3>2 DEF HeldSafe
    <3> QED
      BY <3>1, <3>2
  <2> QED
    BY <2>4, <2>5, RecycleTyped DEF IInv
<1> QED
  BY <1>0, <1>1, <1>2 DEF IInv, Typed, LocalTyped, Recycle, Goto

\* An item that is discarded is nowhere.
LEMMA DiscardKeeps ==
  ASSUME IInv, NEW t \in Threads, Discard(t) \/ Release(t)
  PROVE  IInv'
<1>0. /\ UNCHANGED <<fullCaches, cell, cache, chunk, mine, held, indices, reclaim, reclaims,
                     indexCache, toScan, inside, changed>>
      /\ pc[t] \in {"discard", "release"} /\ pc'[t] \in {"release", "inside"}
      /\ \A u \in Threads \ {t} : pc'[u] = pc[u] /\ item'[u] = item[u]
      /\ pc'[t] = "inside" => item'[t] = None
  BY DEF IInv, Typed, LocalTyped, Discard, Release, Recycled, Goto, sectionVars, cacheVars, userVars
<1>1. NothingMoves
  BY <1>0, StaysThere, DiscardTyped DEF IInv
<1>2. \A v \in Threads : HeldSafe(v)'
  BY <1>0, <1>1, HeldStaysThere, HeldStaysIfNothingMoves DEF IInv, Recycling
<1> QED
  BY <1>1, <1>2, DiscardTyped, NothingMovesUnique DEF IInv

\* The index of a thread that reads what waits is odd, and the same as before.
LEMMA ScanKeeps ==
  ASSUME IInv, NEW t \in Threads, Scan(t)
  PROVE  IInv'
<1>0. /\ UNCHANGED <<fullCaches, cell, blocks, cache, chunk, mine, held, item, indices, reclaim,
                     reclaims, pc>>
      /\ pc[t] = "scan"
  BY DEF Scan, sharedVars, sectionVars, userVars
<1>1. PICK w \in toScan[t] :
        /\ toScan' = [toScan EXCEPT ![t] = @ \ {w}]
        /\ inside' = [inside EXCEPT ![t] = IF indices[w] % 2 = 1 THEN @ \cup {w} ELSE @]
        /\ changed' = [changed EXCEPT ![t] = IF indices[w] # indexCache[t][w] THEN @ \cup {w} ELSE @]
        /\ indexCache' = [indexCache EXCEPT ![t][w] = indices[w]]
  BY DEF Scan
<1>2. /\ w \in Threads
      /\ \A u \in Threads \ {t} : /\ toScan'[u] = toScan[u] /\ inside'[u] = inside[u]
                                  /\ changed'[u] = changed[u] /\ indexCache'[u] = indexCache[u]
      /\ toScan'[t] = toScan[t] \ {w}
      /\ \A v \in Threads \ {w} : /\ v \in inside[t] => v \in inside'[t]
                                  /\ v \notin changed[t] => v \notin changed'[t]
                                  /\ indexCache'[t][v] = indexCache[t][v]
      /\ indices[w] % 2 = 1 => w \in inside'[t]
      /\ indices[w] = indexCache[t][w] => changed'[t] = changed[t]
      /\ indexCache'[t][w] = indices[w]
  BY <1>1 DEF IInv, Typed, LocalTyped, SectionTyped
<1>3. NothingMoves
  BY <1>0, StaysThere
<1>4. ASSUME NEW v \in Threads
      PROVE  HeldSafe(v)'
  <2>1. CASE held[v] # None
    <3>1. HeldAt(v) /\ Awaited(v) /\ Noticed(v) /\ pc'[v] \in {"inside"} \cup Recycling
      BY <1>0, <2>1 DEF IInv, HeldSafe
    <3>2. \A p : In(held[v], p)' => In(held[v], p)
      BY <1>0, <1>3, <2>1, HeldStaysIfNothingMoves DEF IInv
    <3>3. indices[v] % 2 = 1
      BY <1>0, <3>1 DEF IInv, Typed, AtItsPlace
    <3>4. HeldAt(v)'
      BY <1>0, <3>1, <3>2 DEF HeldAt
    <3>5. Awaited(v)'
      <4> SUFFICES ASSUME NEW u \in Threads, NEW k, NEW i, In(held[v], <<"reclaims", u, k, i>>)
                   PROVE  /\ v \in reclaims[u][k].users
                          /\ indexCache'[u][v] = indices[v]
                          /\ pc[u] = "scan" /\ v \notin toScan'[u] => v \in inside'[u] /\ v \notin changed'[u]
        BY <1>0, <3>2 DEF Awaited
      <4>1. /\ v \in reclaims[u][k].users /\ indexCache[u][v] = indices[v]
            /\ pc[u] = "scan" /\ v \notin toScan[u] => v \in inside[u] /\ v \notin changed[u]
        BY <3>1 DEF Awaited
      <4>2. CASE u # t
        BY <1>2, <4>1, <4>2
      <4>3. CASE u = t /\ v # w
        <5>1. /\ v \in toScan[t] => v \in toScan'[t]
              /\ v \in inside[t] => v \in inside'[t]
              /\ v \notin changed[t] => v \notin changed'[t]
              /\ indexCache'[t][v] = indexCache[t][v]
          BY <1>2, <4>3
        <5> QED
          BY <4>1, <4>3, <5>1
      <4>4. CASE u = t /\ v = w
        <5>1. v \notin changed[t]
          BY <1>0, <4>1, <4>4 DEF IInv, Typed, AtItsPlace
        <5> QED
          BY <1>2, <3>3, <4>1, <4>4, <5>1
      <4> QED
        BY <4>2, <4>3, <4>4
    <3>6. Noticed(v)'
      <4> SUFFICES ASSUME NEW u \in Threads, NEW i, In(held[v], <<"reclaim", u, i, 0>>),
                          pc[u] = "scan", v \notin toScan'[u]
                   PROVE  v \in inside'[u] /\ indexCache'[u][v] = indices[v]
        BY <1>0, <3>2 DEF Noticed
      <4>1. v \notin toScan[u] => v \in inside[u] /\ indexCache[u][v] = indices[v]
        BY <3>1 DEF Noticed
      <4>2. CASE u # t
        BY <1>2, <4>1, <4>2
      <4>3. CASE u = t /\ v # w
        <5>1. /\ v \in toScan[t] => v \in toScan'[t]
              /\ v \in inside[t] => v \in inside'[t]
              /\ indexCache'[t][v] = indexCache[t][v]
          BY <1>2, <4>3
        <5> QED
          BY <4>1, <4>3, <5>1
      <4>4. CASE u = t /\ v = w
        BY <1>2, <3>3, <4>4
      <4> QED
        BY <4>2, <4>3, <4>4
    <3> QED
      BY <3>1, <3>4, <3>5, <3>6 DEF HeldSafe
  <2>2. CASE held[v] = None
    BY <1>0, <2>2 DEF HeldSafe
  <2> QED
    BY <2>1, <2>2
<1> QED
  BY <1>3, <1>4, ScanTyped, NothingMovesUnique DEF IInv

LEMMA EvaluateKeeps ==
  ASSUME IInv, NEW t \in Threads, Evaluate(t)
  PROVE  IInv'
<1>0. /\ UNCHANGED <<held, indices, indexCache, toScan>>
      /\ pc'[t] = "reclaim" /\ \A u \in Threads \ {t} : pc'[u] = pc[u]
      /\ \A u \in Threads \ {t} : inside'[u] = inside[u] /\ changed'[u] = changed[u]
  BY DEF IInv, Typed, LocalTyped, Evaluate, Goto, sectionVars, userVars
<1>1. \A x \in AllItems : \A p : In(x, p)' => \E s : In(x, s) /\ EvaluateMove(t, s, p)
  BY EvaluateMoves DEF IInv
<1>3. Unique'
  <2> SUFFICES ASSUME NEW x \in AllItems, NEW p, NEW q, In(x, p)', In(x, q)'
               PROVE  p = q
    BY DEF Unique
  <2>1. PICK s : In(x, s) /\ EvaluateMove(t, s, p)
    BY <1>1
  <2>2. EvaluateMove(t, s, q)
    BY <1>1, <2>1 DEF IInv, Unique
  <2> QED
    BY <2>1, <2>2 DEF EvaluateMove
<1>4. ASSUME NEW v \in Threads
      PROVE  HeldSafe(v)'
  <2>1. CASE held[v] # None
    <3>0. HeldAt(v) /\ Awaited(v) /\ Noticed(v) /\ pc'[v] \in {"inside"} \cup Recycling
      BY <1>0, <2>1 DEF IInv, HeldSafe, Recycling
    <3>1. \A p : In(held[v], p)' => \E s : In(held[v], s) /\ EvaluateMove(t, s, p)
      BY <1>0, <1>1, <2>1 DEF IInv, Typed, LocalTyped
    <3>2. HeldAt(v)'
      <4> SUFFICES ASSUME NEW p, In(held[v], p)'
                   PROVE  \/ p[1] = "cell"
                          \/ p[1] \in {"given", "reclaim", "reclaims"} /\ p[2] # v
        BY DEF HeldAt
      <4>1. PICK s : In(held[v], s) /\ EvaluateMove(t, s, p)
        BY <3>1
      <4>2. \/ s[1] = "cell"
            \/ s[1] \in {"given", "reclaim", "reclaims"} /\ s[2] # v
        BY <3>0, <4>1 DEF HeldAt
      <4> QED
        BY <4>1, <4>2 DEF EvaluateMove
    <3>3. Awaited(v)'
      <4> SUFFICES ASSUME NEW u \in Threads, NEW k, NEW i, In(held[v], <<"reclaims", u, k, i>>)'
                   PROVE  /\ v \in reclaims'[u][k].users
                          /\ indexCache[u][v] = indices[v]
                          /\ pc'[u] = "scan" /\ v \notin toScan[u] => v \in inside'[u] /\ v \notin changed'[u]
        BY <1>0 DEF Awaited
      <4>1. PICK s : In(held[v], s) /\ EvaluateMove(t, s, <<"reclaims", u, k, i>>)
        BY <3>1
      <4>2. CASE s = <<"reclaims", u, k, i>>
        <5>1. /\ v \in reclaims[u][k].users /\ indexCache[u][v] = indices[v]
              /\ pc[u] = "scan" /\ v \notin toScan[u] => v \in inside[u] /\ v \notin changed[u]
          BY <3>0, <4>1, <4>2 DEF Awaited
        <5>2. CASE u # t
          <6>1. reclaims'[u] = reclaims[u]
            BY <5>2, EvaluateTyped DEF IInv
          <6> QED
            BY <1>0, <5>1, <5>2, <6>1
        <5>3. CASE u = t
          <6>1. k \in 1 .. Len(reclaims[t])
            BY <4>1, <4>2, <5>3, InReclaimsAt DEF PlacesInReclaims
          <6>2. /\ reclaims'[t][k].users = reclaims[t][k].users \cap (inside[t] \ changed[t])
                /\ pc[t] = "scan" /\ toScan[t] = {}
            BY <6>1, EvaluateTyped DEF IInv
          <6> QED
            BY <1>0, <5>1, <5>3, <6>2
        <5> QED
          BY <5>2, <5>3
      <4>3. CASE u = t /\ k = Len(reclaims[t]) + 1 /\ s = <<"reclaim", t, i, 0>>
        <5>1. pc[t] = "scan" /\ toScan[t] = {}
          BY EvaluateTyped DEF IInv
        <5>2. v \in inside[t] /\ indexCache[t][v] = indices[v]
          BY <3>0, <4>1, <4>3, <5>1 DEF Noticed
        <5>3. k \in 1 .. Len(reclaims'[t])
          <6>1. PlacesInReclaims'
            BY InReclaimsAt, PTL
          <6> QED
            BY <4>3, <6>1 DEF PlacesInReclaims
        <5>4. reclaims'[t][k].users = inside[t]
          <6>1. [users |-> inside[t], items |-> reclaim[t]].users = inside[t]
            OBVIOUS
          <6>2. Len(reclaims[t]) \in Nat
            BY DEF IInv, Typed, CachesTyped
          <6>3. \/ Len(reclaims'[t]) = Len(reclaims[t])
                \/ reclaims'[t][Len(reclaims[t]) + 1].users = inside[t]
            BY <6>1, EvaluateTyped DEF IInv
          <6> QED
            BY <4>3, <5>3, <6>2, <6>3
        <5> QED
          BY <1>0, <4>3, <5>2, <5>4
      <4> QED
        BY <4>1, <4>2, <4>3 DEF EvaluateMove
    <3>4. Noticed(v)'
      <4> SUFFICES ASSUME NEW u \in Threads, NEW i, In(held[v], <<"reclaim", u, i, 0>>)',
                          pc'[u] = "scan", v \notin toScan[u]
                   PROVE  v \in inside'[u] /\ indexCache[u][v] = indices[v]
        BY <1>0 DEF Noticed
      <4>1. In(held[v], <<"reclaim", u, i, 0>>) /\ u # t
        BY <1>0, <3>1 DEF EvaluateMove
      <4> QED
        BY <1>0, <3>0, <4>1 DEF Noticed
    <3> QED
      BY <1>0, <3>0, <3>2, <3>3, <3>4 DEF HeldSafe
  <2>2. CASE held[v] = None
    BY <1>0, <2>2 DEF HeldSafe
  <2> QED
    BY <2>1, <2>2
<1> QED
  BY <1>3, <1>4, EvaluateTyped DEF IInv

\* A cache that is pushed waits for nobody, so nobody reads what is in it.
LEMMA ReclaimKeeps ==
  ASSUME IInv, NEW t \in Threads, Reclaim(t)
  PROVE  IInv'
<1>0. /\ UNCHANGED <<blocks, cell, mine, held, cache, chunk, indices, indexCache, toScan, inside, changed>>
      /\ pc[t] = "reclaim" /\ item[t] # None /\ reclaim[t] = << >>
  BY DEF IInv, Typed, AtItsPlace, Reclaim, sectionVars, userVars, Recycling
<1>1. CASE /\ reclaim' = [reclaim EXCEPT ![t] = <<item[t]>>]
           /\ Recycled(t)
           /\ UNCHANGED <<fullCaches, reclaims>>
  <2>1. pc'[t] = "inside" /\ \A u \in Threads \ {t} : pc'[u] = pc[u]
    BY <1>1 DEF IInv, Typed, LocalTyped, Recycled, Goto
  <2>2. \A x \in AllItems : \A p : In(x, p)' => \E s : In(x, s) /\ KeepMove(t, s, p)
    <3>1. reclaim' = [reclaim EXCEPT ![t] = Append(@, item[t])]
      BY <1>0, <1>1 DEF IInv, Typed, CachesTyped
    <3> QED
      BY <1>0, <1>1, <3>1, KeepMoves DEF IInv
  <2>3. \A s, p, q : KeepMove(t, s, p) /\ KeepMove(t, s, q) => p = q
    BY DEF KeepMove
  <2>4. Unique'
    BY <2>2, <2>3 DEF IInv, Unique
  <2>5. ASSUME NEW v \in Threads
        PROVE  HeldSafe(v)'
    <3>1. CASE held[v] # None
      <4>1. ASSUME NEW p, In(held[v], p)'
            PROVE  In(held[v], p) \/ (p[1] = "reclaim" /\ p[2] # v /\ pc'[p[2]] # "scan")
        <5>1. PICK s : In(held[v], s) /\ KeepMove(t, s, p)
          BY <1>0, <2>2, <3>1, <4>1 DEF IInv, Typed, LocalTyped
        <5>2. s[1] = "given" => s[2] # v
          BY <3>1, <5>1 DEF IInv, HeldSafe, HeldAt
        <5> QED
          BY <2>1, <5>1, <5>2 DEF KeepMove
      <4>2. pc'[v] \in {"inside"} \cup Recycling /\ HeldSafe(v)
        BY <2>1, <3>1 DEF IInv, HeldSafe
      <4>3. \A u \in Threads : pc'[u] = "scan" => pc[u] = "scan"
        BY <2>1
      <4> QED
        BY <1>0, <1>1, <3>1, <4>1, <4>2, <4>3, HeldStays
    <3>2. CASE held[v] = None
      BY <1>0, <3>2 DEF HeldSafe
    <3> QED
      BY <3>1, <3>2
  <2> QED
    BY <2>4, <2>5, ReclaimTyped DEF IInv
<1>2. ASSUME NEW k \in 1 .. Len(reclaims[t]), reclaims[t][k].users = {},
             fullCaches' = fullCaches \cup {reclaims[t][k].items},
             reclaims' = [reclaims EXCEPT ![t] = Without(reclaims[t], k)],
             UNCHANGED <<reclaim, item, pc>>
      PROVE  Unique' /\ \A v \in Threads : HeldSafe(v)'
  <2>1. \A x \in AllItems : \A p : In(x, p)' => \E s : In(x, s) /\ ReclaimMove(t, k, s, p)
    BY <1>0, <1>2, ReclaimMoves DEF IInv
  <2>2. Unique'
    <3> SUFFICES ASSUME NEW x \in AllItems, NEW p, NEW q, In(x, p)', In(x, q)'
                 PROVE  p = q
      BY DEF Unique
    <3>1. PICK s : In(x, s) /\ ReclaimMove(t, k, s, p)
      BY <2>1
    <3>2. ReclaimMove(t, k, s, q)
      BY <2>1, <3>1 DEF IInv, Unique
    <3> QED
      BY <3>1, <3>2 DEF ReclaimMove
  <2>3. ASSUME NEW v \in Threads
        PROVE  HeldSafe(v)'
    <3>1. CASE held[v] # None
      <4>0. HeldAt(v) /\ Awaited(v) /\ Noticed(v) /\ pc'[v] \in {"inside"} \cup Recycling
        BY <1>2, <3>1 DEF IInv, HeldSafe
      <4>1. ASSUME NEW p, In(held[v], p)'
            PROVE  \/ In(held[v], p) /\ (p[1] = "reclaims" /\ p[2] = t => p[3] \notin {k, Len(reclaims[t])})
                   \/ \E i : /\ p = <<"reclaims", t, k, i>> /\ k # Len(reclaims[t])
                             /\ In(held[v], <<"reclaims", t, Len(reclaims[t]), i>>)
        <5>1. PICK s : In(held[v], s) /\ ReclaimMove(t, k, s, p)
          BY <1>0, <2>1, <3>1, <4>1 DEF IInv, Typed, LocalTyped
        <5>2. \A i : ~ In(held[v], <<"reclaims", t, k, i>>)
          BY <1>2, <4>0 DEF Awaited
        <5> QED
          BY <5>1, <5>2 DEF ReclaimMove
      <4>2. HeldAt(v)'
        <5> SUFFICES ASSUME NEW p, In(held[v], p)'
                     PROVE  \/ p[1] = "cell"
                            \/ p[1] \in {"given", "reclaim", "reclaims"} /\ p[2] # v
          BY DEF HeldAt
        <5>1. CASE In(held[v], p)
          BY <4>0, <5>1 DEF HeldAt
        <5>2. CASE ~ In(held[v], p)
          <6>1. PICK i : /\ p = <<"reclaims", t, k, i>>
                         /\ In(held[v], <<"reclaims", t, Len(reclaims[t]), i>>)
            BY <4>1, <5>2
          <6>2. t # v
            BY <4>0, <6>1 DEF HeldAt
          <6> QED
            BY <6>1, <6>2
        <5> QED
          BY <5>1, <5>2
      <4>3. Awaited(v)'
        <5> SUFFICES ASSUME NEW u \in Threads, NEW j, NEW i, In(held[v], <<"reclaims", u, j, i>>)'
                     PROVE  /\ v \in reclaims'[u][j].users
                            /\ indexCache[u][v] = indices[v]
                            /\ pc[u] = "scan" /\ v \notin toScan[u] => v \in inside[u] /\ v \notin changed[u]
          BY <1>0, <1>2 DEF Awaited
        <5>1. PICK n : /\ In(held[v], <<"reclaims", u, n, i>>)
                       /\ reclaims'[u][j] = reclaims[u][n]
          <6>1. /\ \A w \in Threads \ {t} : reclaims'[w] = reclaims[w]
                /\ reclaims'[t] = Without(reclaims[t], k)
            BY <1>2 DEF IInv, Typed, CachesTyped
          <6>2. \A m \in 1 .. Len(reclaims[t]) - 1 :
                  reclaims'[t][m] = IF m = k THEN reclaims[t][Len(reclaims[t])] ELSE reclaims[t][m]
            <7>1. reclaims[t] \in Seq(Waiting)
              BY DEF IInv, Typed, CachesTyped
            <7>2. \A m \in 1 .. Len(reclaims[t]) - 1 :
                    Without(reclaims[t], k)[m] = IF m = k THEN reclaims[t][Len(reclaims[t])] ELSE reclaims[t][m]
              BY <7>1, WithoutOne, Zenon
            <7> QED
              BY <6>1, <7>2
          <6>3. Len(reclaims[t]) \in Nat
            BY DEF IInv, Typed, CachesTyped
          <6>4. CASE u # t /\ In(held[v], <<"reclaims", u, j, i>>)
            BY <6>1, <6>4
          <6>5. CASE u = t /\ In(held[v], <<"reclaims", t, j, i>>) /\ j \notin {k, Len(reclaims[t])}
            <7>1. j \in 1 .. Len(reclaims[t])
              BY <6>5, InReclaimsAt DEF PlacesInReclaims
            <7>2. reclaims'[t][j] = reclaims[t][j]
              BY <6>2, <6>3, <6>5, <7>1
            <7> QED
              BY <6>5, <7>2
          <6>6. CASE /\ u = t /\ j = k /\ k # Len(reclaims[t])
                     /\ In(held[v], <<"reclaims", t, Len(reclaims[t]), i>>)
            <7>1. k \in 1 .. Len(reclaims[t]) - 1
              BY <6>3, <6>6
            <7>2. reclaims'[t][k] = reclaims[t][Len(reclaims[t])]
              BY <6>2, <7>1
            <7> QED
              BY <6>6, <7>2
          <6>7. \/ /\ In(held[v], <<"reclaims", u, j, i>>)
                   /\ u = t => j \notin {k, Len(reclaims[t])}
                \/ /\ u = t /\ j = k /\ k # Len(reclaims[t])
                   /\ In(held[v], <<"reclaims", t, Len(reclaims[t]), i>>)
            <7> DEFINE p == <<"reclaims", u, j, i>>
            <7>1. p[1] = "reclaims" /\ p[2] = u /\ p[3] = j /\ p[4] = i
              OBVIOUS
            <7> HIDE DEF p
            <7>2. In(held[v], p)'
              BY DEF p
            <7>3. \A m : p = <<"reclaims", t, k, m>> => u = t /\ j = k /\ i = m
              BY <7>1
            <7>4. \/ In(held[v], p) /\ (u = t => j \notin {k, Len(reclaims[t])})
                  \/ /\ u = t /\ j = k /\ k # Len(reclaims[t])
                     /\ In(held[v], <<"reclaims", t, Len(reclaims[t]), i>>)
              BY <4>1, <7>1, <7>2, <7>3
            <7> QED
              BY <7>4 DEF p
          <6> QED
            BY <6>4, <6>5, <6>6, <6>7
        <5> QED
          BY <4>0, <5>1 DEF Awaited
      <4>4. Noticed(v)'
        <5> SUFFICES ASSUME NEW u \in Threads, NEW i, In(held[v], <<"reclaim", u, i, 0>>)',
                            pc[u] = "scan", v \notin toScan[u]
                     PROVE  v \in inside[u] /\ indexCache[u][v] = indices[v]
          BY <1>0, <1>2 DEF Noticed
        <5>1. In(held[v], <<"reclaim", u, i, 0>>)
          BY <4>1
        <5> QED
          BY <4>0, <5>1 DEF Noticed
      <4> QED
        BY <1>2, <4>0, <4>2, <4>3, <4>4 DEF HeldSafe
    <3>2. CASE held[v] = None
      BY <1>0, <3>2 DEF HeldSafe
    <3> QED
      BY <3>1, <3>2
  <2> QED
    BY <2>2, <2>3
<1> QED
  BY <1>1, <1>2, ReclaimTyped DEF IInv

-----------------------------------------------------------------------------
LEMMA StepHolds == ~StoreBuffers /\ IInv /\ [Next]_vars => IInv'
<1> SUFFICES ASSUME ~StoreBuffers, IInv, [Next]_vars
             PROVE  IInv'
  OBVIOUS
<1>1. ASSUME NEW t \in Threads, Step(t)
      PROVE  IInv'
  BY <1>1, PopKeeps, AllocKeeps, ClaimChunkKeeps, PushChunkKeeps, ExitKeeps, RecycleKeeps,
     DiscardKeeps, ScanKeeps, EvaluateKeeps, ReclaimKeeps DEF Step
<1>2. ASSUME NEW t \in Threads, BeginGet(t) \/ Enter(t) \/ Read(t) \/ Exchange(t)
      PROVE  IInv'
  BY <1>2, BeginGetKeeps, EnterKeeps, ReadKeeps, ExchangeKeeps
<1>3. CASE UNCHANGED vars
  <2>1. UNCHANGED <<blocks, blocksEndIndex, fullCaches, indices, pending, cell, cache, reclaim,
                    reclaims, indexCache, lastCs, pc, mine, held, item, block, chunk, toScan,
                    inside, changed, next>>
    BY <1>3 DEF vars, sharedVars, sectionVars, cacheVars, userVars, localVars
  <2>2. Typed'
    BY <2>1 DEF IInv, Typed, SharedTyped, SectionTyped, CachesTyped, LocalTyped, AtItsPlace
  <2>3. NothingMoves
    BY <2>1, StaysThere
  <2>4. \A v \in Threads : HeldSafe(v)'
    BY <2>1, <2>3, HeldStaysThere, HeldStaysIfNothingMoves DEF IInv
  <2> QED
    BY <2>2, <2>3, <2>4, NothingMovesUnique DEF IInv
<1> QED
  BY <1>1, <1>2, <1>3 DEF Next

LEMMA ItemsOf ==
  ASSUME NEW s \in Seq(AllItems), NEW x, x \in Items(s)
  PROVE  x # None /\ \E i \in 1 .. Len(s) : s[i] = x
<1>1. PICK i \in 1 .. Len(s) : s[i] = x
  BY DEF Items
<1>2. x \in AllItems
  BY <1>1
<1> QED
  BY <1>1, <1>2, PoolAssumption DEF AllItems, Blocks

LEMMA HeldIsGuarded == IInv => Guarded
<1> SUFFICES ASSUME IInv, NEW r \in Threads, held[r] \in Available
             PROVE  FALSE
  BY DEF Guarded
<1>1. PICK s \in Seq(AllItems) :
        /\ held[r] \in Items(s)
        /\ s \in fullCaches \/ \E u \in Threads : s = cache[u]
  <2>1. (\E c \in fullCaches : held[r] \in Items(c)) \/ (\E u \in Threads : held[r] \in Items(cache[u]))
    <3> DEFINE full == UNION {Items(c) : c \in fullCaches}
               taken == UNION {Items(cache[t]) : t \in Threads}
    <3>1. held[r] \in full => \E c \in fullCaches : held[r] \in Items(c)
      BY Zenon
    <3>2. held[r] \in taken => \E u \in Threads : held[r] \in Items(cache[u])
      BY Zenon
    <3>3. Available = full \cup taken
      BY DEF Available
    <3> HIDE DEF full, taken
    <3> QED
      BY <3>1, <3>2, <3>3
  <2>2. fullCaches \subseteq Seq(AllItems) /\ \A u \in Threads : cache[u] \in Seq(AllItems)
    BY DEF IInv, Typed, SharedTyped, CachesTyped, Caches
  <2> QED
    BY <2>1, <2>2
<1>2. held[r] # None
  BY <1>1, ItemsOf
<1>3. PICK i \in 1 .. Len(s) : s[i] = held[r]
  BY <1>1, ItemsOf
<1>4. HeldAt(r)
  BY <1>2 DEF IInv, HeldSafe
<1>5. CASE s \in fullCaches
  <2>1. InFull(held[r], <<"full", s, i, 0>>)
    BY <1>3, <1>5 DEF InFull
  <2>2. In(held[r], <<"full", s, i, 0>>)
    BY <2>1 DEF In
  <2> QED
    BY <1>4, <2>2 DEF HeldAt
<1>6. ASSUME NEW u \in Threads, s = cache[u]
      PROVE  FALSE
  <2>1. InCache(held[r], <<"cache", u, i, 0>>)
    BY <1>3, <1>6 DEF InCache
  <2>2. In(held[r], <<"cache", u, i, 0>>)
    BY <2>1 DEF In
  <2> QED
    BY <1>4, <2>2 DEF HeldAt
<1> QED
  BY <1>1, <1>5, <1>6

\* guard: however many threads use the pool, what one of them has read inside a
\* critical section is in no cache that get takes from, until it leaves.
THEOREM ReadersAreGuarded ==
  ASSUME ~StoreBuffers
  PROVE  Spec => []Guarded
<1>1. Init => IInv
  BY InitHolds
<1>2. IInv /\ [Next]_vars => IInv'
  BY StepHolds
<1>3. IInv => Guarded
  BY HeldIsGuarded
<1> QED
  BY <1>1, <1>2, <1>3, PTL DEF Spec

\* An item is in one place at a time: not in two caches or twice in one, nor in
\* a cache and in the hands of a thread, nor in what is left of its block.
THEOREM PlacesAreUnique ==
  ASSUME ~StoreBuffers
  PROVE  Spec => []Unique
<1>1. Init => IInv
  BY InitHolds
<1>2. IInv /\ [Next]_vars => IInv'
  BY StepHolds
<1>3. IInv => Unique
  BY DEF IInv
<1> QED
  BY <1>1, <1>2, <1>3, PTL DEF Spec

-----------------------------------------------------------------------------
\* The same places without their positions: where an item is that was taken from
\* its block, and whether it still has to be.
LiesIn(x, s) == \E i \in 1 .. Len(s) : s[i] = x

WithThread(t, x) ==
  \/ mine[t] = x
  \/ pc[t] # "release" /\ item[t] = x
  \/ LiesIn(x, cache[t]) \/ LiesIn(x, reclaim[t]) \/ LiesIn(x, chunk[t])
  \/ \E k \in 1 .. Len(reclaims[t]) : LiesIn(x, reclaims[t][k].items)

Outstanding(x) ==
  \/ cell = x
  \/ \E t \in Threads : WithThread(t, x)
  \/ \E c \in fullCaches : LiesIn(x, c)

Undivided(x) == x.place >= blocks[x.block].pushSync

LEMMA OutstandingIsIn == \A x : Outstanding(x) <=> \E p : In(x, p) /\ ~ InBlock(x, p)
<1> SUFFICES ASSUME NEW x
             PROVE  Outstanding(x) <=> \E p : In(x, p) /\ ~ InBlock(x, p)
  OBVIOUS
<1>1. Outstanding(x) <=>
        \E p : \/ InCell(x, p) \/ InMine(x, p) \/ InGiven(x, p) \/ InCache(x, p) \/ InReclaim(x, p)
               \/ InChunk(x, p) \/ InReclaims(x, p) \/ InFull(x, p)
  <2>1. cell = x <=> \E p : InCell(x, p)
    BY DEF InCell
  <2>2. (\E t \in Threads : mine[t] = x) <=> \E p : InMine(x, p)
    BY DEF InMine
  <2>3. (\E t \in Threads : pc[t] # "release" /\ item[t] = x) <=> \E p : InGiven(x, p)
    BY DEF InGiven
  <2>4. (\E t \in Threads : LiesIn(x, cache[t])) <=> \E p : InCache(x, p)
    BY DEF InCache, LiesIn
  <2>5. (\E t \in Threads : LiesIn(x, reclaim[t])) <=> \E p : InReclaim(x, p)
    BY DEF InReclaim, LiesIn
  <2>6. (\E t \in Threads : LiesIn(x, chunk[t])) <=> \E p : InChunk(x, p)
    BY DEF InChunk, LiesIn
  <2>7. (\E t \in Threads : \E k \in 1 .. Len(reclaims[t]) : LiesIn(x, reclaims[t][k].items))
        <=> \E p : InReclaims(x, p)
    BY DEF InReclaims, LiesIn
  <2>8. (\E c \in fullCaches : LiesIn(x, c)) <=> \E p : InFull(x, p)
    BY DEF InFull, LiesIn
  <2>9. Outstanding(x) <=>
          \/ cell = x \/ (\E t \in Threads : mine[t] = x)
          \/ (\E t \in Threads : pc[t] # "release" /\ item[t] = x)
          \/ (\E t \in Threads : LiesIn(x, cache[t])) \/ (\E t \in Threads : LiesIn(x, reclaim[t]))
          \/ (\E t \in Threads : LiesIn(x, chunk[t]))
          \/ (\E t \in Threads : \E k \in 1 .. Len(reclaims[t]) : LiesIn(x, reclaims[t][k].items))
          \/ (\E c \in fullCaches : LiesIn(x, c))
    BY Zenon DEF Outstanding, WithThread
  <2> QED
    BY <2>1, <2>2, <2>3, <2>4, <2>5, <2>6, <2>7, <2>8, <2>9, Zenon
<1>2. ASSUME NEW p
      PROVE  /\ In(x, p) /\ ~ InBlock(x, p) =>
                  \/ InCell(x, p) \/ InMine(x, p) \/ InGiven(x, p) \/ InCache(x, p) \/ InReclaim(x, p)
                  \/ InChunk(x, p) \/ InReclaims(x, p) \/ InFull(x, p)
             /\ \/ InCell(x, p) \/ InMine(x, p) \/ InGiven(x, p) \/ InCache(x, p) \/ InReclaim(x, p)
                \/ InChunk(x, p) \/ InReclaims(x, p) \/ InFull(x, p)
                => In(x, p) /\ p[1] # "block"
  BY KindOf DEF In
<1>3. \A p : InBlock(x, p) => p[1] = "block"
  BY KindOf
<1> QED
  BY <1>1, <1>2, <1>3, Zenon

Placed(x) == Outstanding(x) \/ Undivided(x)

PlacedAnywhere == \A x : Placed(x) <=> \E p : In(x, p)

LEMMA PlacedIsIn == PlacedAnywhere
<1> SUFFICES ASSUME NEW x
             PROVE  Placed(x) <=> \E p : In(x, p)
  BY DEF PlacedAnywhere
<1>1. Undivided(x) <=> \E p : InBlock(x, p)
  BY DEF Undivided, InBlock
<1>2. \A p : InBlock(x, p) => In(x, p)
  BY KindOf
<1> QED
  BY <1>1, <1>2, OutstandingIsIn, Zenon DEF Placed

\* A step that takes items from one place to another brings none back.
LEMMA NoneGained ==
  ASSUME NEW x, \A p : In(x, p)' => \E s : In(x, s), Placed(x)'
  PROVE  Placed(x)
<1>1. PlacedAnywhere'
  BY PlacedIsIn, PTL
<1>2. PICK p : In(x, p)'
  BY <1>1 DEF PlacedAnywhere
<1> QED
  BY <1>2, PlacedIsIn DEF PlacedAnywhere

\* An item of which part of the block is still to be divided is in no other place.
LEMMA NotBoth ==
  ASSUME Unique, NEW x \in AllItems, Undivided(x)
  PROVE  ~ Outstanding(x)
<1>1. InBlock(x, <<"block", 0, 0, 0>>) /\ In(x, <<"block", 0, 0, 0>>)
  BY DEF InBlock, Undivided, In
<1>2. ASSUME NEW p, In(x, p)
      PROVE  InBlock(x, p)
  BY <1>1, <1>2 DEF Unique
<1> QED
  BY <1>2, OutstandingIsIn

\* What of a block has not been discarded.
BlockItems(b) == {Item(b, k) : k \in 0 .. itemRows(b) - 1}
Living(b) == {x \in BlockItems(b) : Placed(x)}

\* Nothing comes from beyond the end of a block, which is divided into whole caches;
\* livingItems counts the items that are left, and a block that is released, or
\* about to be, has none.
Fits == \A x \in AllItems : Outstanding(x) => x.place < itemRows(x.block) \/ Undivided(x)
Divided == \A b \in Blocks : blocks[b].pushSync % TlCacheSize = 0
Accounted ==
  \A b \in Blocks : /\ blocks[b].livingItems = Cardinality(Living(b))
                    /\ blocks[b].version = 2 => Living(b) = {}
Emptied ==
  \A t \in Threads : \A b \in Blocks :
    pc[t] = "release" /\ item[t].block = b => Living(b) = {}

Conserved == Fits /\ Divided /\ Accounted /\ Emptied

LEMMA ItemsOfBlock ==
  ASSUME NEW b \in Blocks
  PROVE  /\ BlockItems(b) = {x \in AllItems : x.block = b /\ x.place < itemRows(b)}
         /\ IsFiniteSet(BlockItems(b)) /\ Cardinality(BlockItems(b)) = itemRows(b)
<1>0. itemRows(b) \in Nat
  BY RowsAssumption
<1>1. BlockItems(b) = {x \in AllItems : x.block = b /\ x.place < itemRows(b)}
  <2>1. ASSUME NEW x \in BlockItems(b)
        PROVE  x \in AllItems /\ x.block = b /\ x.place < itemRows(b)
    BY <1>0 DEF BlockItems, Item, AllItems
  <2>2. ASSUME NEW x \in AllItems, x.block = b, x.place < itemRows(b)
        PROVE  x \in BlockItems(b)
    <3>1. x = Item(b, x.place) /\ x.place \in 0 .. itemRows(b) - 1
      BY <1>0, <2>2 DEF Item, AllItems
    <3> QED
      BY <3>1 DEF BlockItems
  <2> QED
    BY <2>1, <2>2
<1>2. /\ IsFiniteSet(0 .. itemRows(b) - 1)
      /\ Cardinality(0 .. itemRows(b) - 1) = itemRows(b)
  BY <1>0, FS_Interval
<1>3. ExistsBijection(0 .. itemRows(b) - 1, BlockItems(b))
  <2> DEFINE f == [k \in 0 .. itemRows(b) - 1 |-> Item(b, k)]
  <2>1. f \in Bijection(0 .. itemRows(b) - 1, BlockItems(b))
    <3>1. f \in Surjection(0 .. itemRows(b) - 1, BlockItems(b))
      BY DEF BlockItems, Surjection
    <3>2. \A k, j \in 0 .. itemRows(b) - 1 : f[k] = f[j] => k = j
      BY DEF Item
    <3> QED
      BY <3>1, <3>2 DEF Bijection, Injection, Surjection, IsInjective
  <2> QED
    BY <2>1 DEF ExistsBijection
<1> QED
  BY <1>1, <1>2, <1>3, FS_Bijection

-----------------------------------------------------------------------------
\* Steps that only move items.
SameItems == \A x \in AllItems : Placed(x)' <=> Placed(x)
SameBlocks == \A b \in Blocks : /\ blocks'[b].pushSync = blocks[b].pushSync
                                /\ blocks'[b].livingItems = blocks[b].livingItems
                                /\ blocks'[b].version = 2 => blocks[b].version = 2
NoneEmptied == \A t \in Threads : pc'[t] = "release" => pc[t] = "release" /\ item'[t] = item[t]

LEMMA ConservedStays ==
  ASSUME Typed, Conserved, SameItems, SameBlocks, NoneEmptied
  PROVE  Conserved'
<1>1. ASSUME NEW b \in Blocks
      PROVE  Living(b)' = Living(b)
  <2>1. BlockItems(b) \subseteq AllItems
    BY ItemsOfBlock
  <2> QED
    BY <2>1 DEF Living, SameItems
<1>2. Fits'
  <2> SUFFICES ASSUME NEW x \in AllItems, Outstanding(x)'
               PROVE  x.place < itemRows(x.block) \/ Undivided(x)'
    BY DEF Fits
  <2>1. Placed(x)
    BY DEF Placed, SameItems
  <2>2. x.block \in Blocks
    BY DEF AllItems
  <2>3. Undivided(x) => Undivided(x)'
    BY <2>2 DEF Undivided, SameBlocks
  <2> QED
    BY <2>1, <2>3 DEF Conserved, Fits, Placed
<1>3. Divided'
  BY DEF Conserved, Divided, SameBlocks
<1>4. Accounted'
  BY <1>1 DEF Conserved, Accounted, SameBlocks
<1>5. Emptied'
  BY <1>1 DEF Conserved, Emptied, NoneEmptied
<1> QED
  BY <1>2, <1>3, <1>4, <1>5 DEF Conserved

\* What a step of t leaves alone.
OthersStay(t) ==
  \A u \in Threads \ {t} :
    /\ mine'[u] = mine[u] /\ pc'[u] = pc[u] /\ item'[u] = item[u]
    /\ cache'[u] = cache[u] /\ reclaim'[u] = reclaim[u] /\ chunk'[u] = chunk[u]
    /\ reclaims'[u] = reclaims[u]

LEMMA OutstandingStays ==
  ASSUME NEW t \in Threads, OthersStay(t), NEW x, Outstanding(x),
         WithThread(t, x) => Outstanding(x)',
         cell = x => Outstanding(x)',
         \A c \in fullCaches : LiesIn(x, c) => Outstanding(x)'
  PROVE  Outstanding(x)'
<1>1. ASSUME NEW u \in Threads \ {t}, WithThread(u, x)
      PROVE  WithThread(u, x)'
  BY <1>1 DEF OthersStay, WithThread, LiesIn
<1> QED
  BY <1>1 DEF Outstanding

\* Steps that move no item.
LEMMA NobodyMoves ==
  ASSUME UNCHANGED <<fullCaches, cell, cache, reclaim, reclaims, chunk, mine>>, SameBlocks,
         \A u \in Threads : \A x \in AllItems :
           (pc'[u] # "release" /\ item'[u] = x) <=> (pc[u] # "release" /\ item[u] = x)
  PROVE  SameItems
<1> SUFFICES ASSUME NEW x \in AllItems
             PROVE  Placed(x)' <=> Placed(x)
  BY DEF SameItems
<1>1. \A u \in Threads : WithThread(u, x)' <=> WithThread(u, x)
  BY DEF WithThread, LiesIn
<1>2. Outstanding(x)' <=> Outstanding(x)
  BY <1>1 DEF Outstanding, LiesIn
<1>3. Undivided(x)' <=> Undivided(x)
  BY DEF Undivided, SameBlocks, AllItems
<1> QED
  BY <1>2, <1>3 DEF Placed

\* Steps that leave the blocks as they are.
LEMMA ItemsStay ==
  ASSUME UNCHANGED blocks,
         \A x \in AllItems : \A p : In(x, p)' => \E s : In(x, s),
         \A x \in AllItems : Outstanding(x) => Outstanding(x)'
  PROVE  SameItems /\ SameBlocks
<1>1. ASSUME NEW x \in AllItems
      PROVE  Placed(x)' <=> Placed(x)
  <2>1. Placed(x)' => Placed(x)
    BY NoneGained
  <2>2. Undivided(x)' <=> Undivided(x)
    BY DEF Undivided
  <2> QED
    BY <2>1, <2>2 DEF Placed
<1> QED
  BY <1>1 DEF SameItems, SameBlocks

-----------------------------------------------------------------------------
LEMMA BeginGetConserves ==
  ASSUME IInv, Conserved, NEW t \in Threads, BeginGet(t)
  PROVE  Conserved'
<1>0. /\ UNCHANGED <<fullCaches, cell, blocks, reclaim, reclaims, chunk, item>>
      /\ pc[t] = "outside" /\ pc'[t] \in {"outside", "pop"} /\ \A u \in Threads \ {t} : pc'[u] = pc[u]
      /\ mine[t] = None
  BY DEF IInv, Typed, LocalTyped, BeginGet, Fetch, Goto, sharedVars, localVars
<1>1. SameBlocks /\ NoneEmptied
  BY <1>0 DEF SameBlocks, NoneEmptied
<1>2. CASE cache[t] = << >>
  <2>1. UNCHANGED <<mine, cache>>
    BY <1>2 DEF BeginGet
  <2> QED
    BY <1>0, <1>1, <2>1, NobodyMoves, ConservedStays DEF IInv
<1>3. CASE cache[t] # << >>
  <2>1. \A x \in AllItems : \A p : In(x, p)' => \E s : In(x, s)
    BY <1>3, BeginGetMoves DEF IInv
  <2>2. /\ cache[t] \in Seq(AllItems) /\ cache[t] # << >>
        /\ mine' = [mine EXCEPT ![t] = cache[t][1]]
        /\ cache' = [cache EXCEPT ![t] = Tail(cache[t])]
    BY <1>3 DEF IInv, Typed, CachesTyped, BeginGet, Fetch
  <2>3. /\ mine'[t] = cache[t][1] /\ cache'[t] = Tail(cache[t])
        /\ \A u \in Threads \ {t} : mine'[u] = mine[u] /\ cache'[u] = cache[u]
    BY <2>2 DEF IInv, Typed, CachesTyped, LocalTyped
  <2>4. ASSUME NEW x \in AllItems, Outstanding(x)
        PROVE  Outstanding(x)'
    <3>1. OthersStay(t)
      BY <1>0, <2>3 DEF OthersStay
    <3>2. ASSUME WithThread(t, x)
          PROVE  WithThread(t, x)'
      <4>1. x # None
        BY PoolAssumption DEF AllItems, Blocks
      <4>2. CASE LiesIn(x, cache[t])
        <5>1. PICK i \in 1 .. Len(cache[t]) : cache[t][i] = x
          BY <4>2 DEF LiesIn
        <5>2. CASE i = 1
          BY <2>3, <5>1, <5>2 DEF WithThread
        <5>3. CASE i # 1
          <6>1. i - 1 \in 1 .. Len(Tail(cache[t])) /\ Tail(cache[t])[i - 1] = x
            BY <2>2, <5>1, <5>3
          <6> QED
            BY <2>3, <6>1 DEF WithThread, LiesIn
        <5> QED
          BY <5>2, <5>3
      <4>3. CASE ~ LiesIn(x, cache[t])
        BY <1>0, <3>2, <4>1, <4>3 DEF WithThread, LiesIn
      <4> QED
        BY <4>2, <4>3
    <3> QED
      BY <1>0, <2>4, <3>1, <3>2, OutstandingStays DEF Outstanding, LiesIn
  <2> QED
    BY <1>0, <1>1, <2>1, <2>4, ItemsStay, ConservedStays DEF IInv
<1> QED
  BY <1>2, <1>3

LEMMA PopConserves ==
  ASSUME IInv, Conserved, NEW t \in Threads, PopFull(t) \/ PopAgain(t)
  PROVE  Conserved'
<1>1. PICK otherwise \in {"load_end", "alloc"} : Pop(t, otherwise)
  BY DEF PopFull, PopAgain
<1>2. /\ pc[t] \in {"pop", "pop_again"}
      /\ UNCHANGED <<blocks, cell, reclaim, reclaims, localVars, item, chunk>>
  BY DEF PopFull, PopAgain, localVars
<1>3. /\ pc'[t] \in {"load_end", "alloc", "outside"} /\ \A u \in Threads \ {t} : pc'[u] = pc[u]
      /\ mine[t] = None /\ cache[t] = << >>
  BY <1>1, <1>2 DEF IInv, Typed, LocalTyped, AtItsPlace, Getting, Pop, Fetch, Goto
<1>4. SameBlocks /\ NoneEmptied
  BY <1>2, <1>3 DEF SameBlocks, NoneEmptied
<1>5. CASE UNCHANGED <<fullCaches, mine, cache>>
  BY <1>2, <1>3, <1>4, <1>5, NobodyMoves, ConservedStays DEF IInv
<1>6. ASSUME NEW c \in fullCaches, fullCaches' = fullCaches \ {c}, Fetch(t, c)
      PROVE  Conserved'
  <2>1. \A x \in AllItems : \A p : In(x, p)' => \E s : In(x, s)
    BY <1>2, <1>6, PopMoves DEF IInv
  <2>2. /\ c \in Seq(AllItems) /\ c # << >>
        /\ mine' = [mine EXCEPT ![t] = c[1]]
        /\ cache' = [cache EXCEPT ![t] = Tail(c)]
    BY <1>6 DEF IInv, Typed, SharedTyped, Caches, Fetch
  <2>3. /\ mine'[t] = c[1] /\ cache'[t] = Tail(c)
        /\ \A u \in Threads \ {t} : mine'[u] = mine[u] /\ cache'[u] = cache[u]
    BY <2>2 DEF IInv, Typed, CachesTyped, LocalTyped
  <2>4. ASSUME NEW x \in AllItems, Outstanding(x)
        PROVE  Outstanding(x)'
    <3>1. OthersStay(t)
      BY <1>2, <1>3, <2>3 DEF OthersStay
    <3>0. x # None
      BY PoolAssumption DEF AllItems, Blocks
    <3>2. ASSUME WithThread(t, x)
          PROVE  WithThread(t, x)'
      BY <1>2, <1>3, <3>0, <3>2 DEF WithThread, LiesIn
    <3>3. ASSUME LiesIn(x, c)
          PROVE  WithThread(t, x)'
      <4>1. PICK i \in 1 .. Len(c) : c[i] = x
        BY <3>3 DEF LiesIn
      <4>2. CASE i = 1
        BY <2>3, <4>1, <4>2 DEF WithThread
      <4>3. CASE i # 1
        <5>1. i - 1 \in 1 .. Len(Tail(c)) /\ Tail(c)[i - 1] = x
          BY <2>2, <4>1, <4>3
        <5> QED
          BY <2>3, <5>1 DEF WithThread, LiesIn
      <4> QED
        BY <4>2, <4>3
    <3>4. ASSUME NEW d \in fullCaches, d # c, LiesIn(x, d)
          PROVE  Outstanding(x)'
      BY <1>6, <3>4 DEF Outstanding, LiesIn
    <3>5. (WithThread(t, x)' => Outstanding(x)') /\ (cell = x => Outstanding(x)')
      BY <1>2 DEF Outstanding
    <3> QED
      BY <2>4, <3>1, <3>2, <3>3, <3>4, <3>5, OutstandingStays
  <2> QED
    BY <1>2, <1>4, <2>1, <2>4, ItemsStay, ConservedStays DEF IInv
<1> QED
  BY <1>1, <1>5, <1>6 DEF Pop

\* Steps of try_alloc_block between those that take items.
LEMMA AllocConserves ==
  ASSUME IInv, Conserved, NEW t \in Threads, LoadEnd(t) \/ AllocLoad(t) \/ AllocExchange(t) \/ Advance(t)
  PROVE  Conserved'
<1>2. /\ UNCHANGED <<fullCaches, cell, cache, reclaim, reclaims, chunk, mine, item>>
      /\ pc[t] \in Getting
  BY DEF LoadEnd, AllocLoad, AllocExchange, Advance, sharedVars, cacheVars, userVars, localVars,
         sectionVars, Getting
<1>3. pc'[t] \in Getting /\ \A u \in Threads \ {t} : pc'[u] = pc[u]
  BY DEF IInv, Typed, LocalTyped, LoadEnd, AllocLoad, AllocExchange, Advance, Goto, Getting
<1>4. SameBlocks
  <2>1. \/ blocks' = blocks
        \/ block[t] \in Blocks /\ blocks' = Known(block[t])
    BY PoolAssumption
    DEF IInv, Typed, AtItsPlace, LocalTyped, LoadEnd, AllocLoad, AllocExchange, Advance, sharedVars, Blocks
  <2>2. CASE block[t] \in Blocks /\ blocks' = Known(block[t])
    <3>1. ASSUME NEW r \in BlockStates, NEW n \in Nat, NEW v \in BOOLEAN
          PROVE  /\ [r EXCEPT !.version = n, !.itemBlock = v].livingItems = r.livingItems
                 /\ [r EXCEPT !.version = n, !.itemBlock = v].pushSync = r.pushSync
                 /\ [r EXCEPT !.version = n, !.itemBlock = v].version = n
      BY DEF BlockStates
    <3>2. \A a \in Blocks : blocks[a] \in BlockStates /\ blocks[a].version \in Nat
      BY DEF IInv, Typed, SharedTyped, BlockStates
    <3> DEFINE b == block[t]
               n == IF blocks[b].version = 0 THEN 1 ELSE blocks[b].version
               v == blocks[b].version # 2
               known == [blocks[b] EXCEPT !.version = n, !.itemBlock = v]
    <3>3. blocks' = [blocks EXCEPT ![b] = known]
      BY <2>2 DEF IInv, Typed, SharedTyped, Known
    <3>4. /\ known.livingItems = blocks[b].livingItems /\ known.pushSync = blocks[b].pushSync
          /\ known.version = 2 => blocks[b].version = 2
      <4>1. n \in Nat /\ v \in BOOLEAN /\ (n = 2 => blocks[b].version = 2)
        BY <2>2, <3>2
      <4> HIDE DEF n, v
      <4> QED
        BY <2>2, <3>1, <3>2, <4>1
    <3> HIDE DEF known
    <3> QED
      BY <3>3, <3>4 DEF SameBlocks, IInv, Typed, SharedTyped
  <2> QED
    BY <2>1, <2>2 DEF SameBlocks
<1>5. NoneEmptied /\ \A u \in Threads : (pc'[u] # "release") <=> (pc[u] # "release")
  BY <1>2, <1>3 DEF NoneEmptied, Getting
<1> QED
  BY <1>2, <1>4, <1>5, NobodyMoves, ConservedStays DEF IInv

\* A cache is taken from what is left of the block, as long as there is a whole one.
LEMMA ClaimChunkConserves ==
  ASSUME IInv, Conserved, NEW t \in Threads, ClaimChunk(t)
  PROVE  Conserved'
<1> DEFINE b == block[t]
           first == blocks[b].pushSync
<1>0. /\ b \in Blocks /\ first \in Nat /\ first % TlCacheSize = 0 /\ TlCacheSize \in {1, 2}
      /\ itemRows(b) \in Nat /\ itemRows(b) % TlCacheSize = 0
      /\ pc[t] = "claim" /\ chunk[t] = << >> /\ item[t] = None
  <2>1. pc[t] = "claim" /\ b \in Blocks /\ chunk[t] = << >> /\ item[t] = None
    BY DEF IInv, Typed, AtItsPlace, ClaimChunk, Recycling
  <2>2. first \in Nat /\ first % TlCacheSize = 0
    BY <2>1 DEF IInv, Typed, SharedTyped, BlockStates, Conserved, Divided
  <2> QED
    BY <2>1, <2>2, PoolAssumption, RowsAssumption
<1>1. UNCHANGED <<fullCaches, cell, cache, reclaim, reclaims, mine, item>>
  BY DEF ClaimChunk, cacheVars, userVars
<1>2. /\ \A a \in Blocks : /\ blocks'[a].pushSync =
                                IF a = b THEN first + TlCacheSize ELSE blocks[a].pushSync
                           /\ blocks'[a].livingItems = blocks[a].livingItems
                           /\ blocks'[a].version = blocks[a].version
      /\ \A u \in Threads \ {t} : pc'[u] = pc[u] /\ chunk'[u] = chunk[u]
      /\ \/ first < itemRows(b) /\ chunk'[t] = Chunk(b, first) /\ pc'[t] = "push"
         \/ first >= itemRows(b) /\ UNCHANGED chunk /\ pc'[t] = "advance"
  <2>1. blocks' = [blocks EXCEPT ![b] = [blocks[b] EXCEPT !.pushSync = first + TlCacheSize]]
    BY DEF ClaimChunk
  <2>2. \A r \in BlockStates : /\ [r EXCEPT !.pushSync = first + TlCacheSize].pushSync = first + TlCacheSize
                               /\ [r EXCEPT !.pushSync = first + TlCacheSize].livingItems = r.livingItems
                               /\ [r EXCEPT !.pushSync = first + TlCacheSize].version = r.version
    BY DEF BlockStates
  <2>3. \A a \in Blocks : /\ blocks'[a].pushSync =
                               IF a = b THEN first + TlCacheSize ELSE blocks[a].pushSync
                          /\ blocks'[a].livingItems = blocks[a].livingItems
                          /\ blocks'[a].version = blocks[a].version
    BY <1>0, <2>1, <2>2 DEF IInv, Typed, SharedTyped
  <2>4. \/ first < itemRows(b) /\ chunk' = [chunk EXCEPT ![t] = Chunk(b, first)] /\ Goto(t, "push")
        \/ first >= itemRows(b) /\ UNCHANGED chunk /\ Goto(t, "advance")
    BY <1>0 DEF ClaimChunk
  <2>5. chunk \in [Threads -> Seq(AllItems)] /\ pc \in [Threads -> Labels]
    BY DEF IInv, Typed, CachesTyped, LocalTyped
  <2> QED
    BY <2>3, <2>4, <2>5 DEF Goto
<1>3. OthersStay(t) /\ NoneEmptied
  BY <1>0, <1>1, <1>2 DEF OthersStay, NoneEmptied
<1>4. ASSUME NEW x \in AllItems, Outstanding(x)
      PROVE  Outstanding(x)'
  <2>1. WithThread(t, x) => WithThread(t, x)'
    BY <1>0, <1>1, <1>2 DEF WithThread, LiesIn
  <2>2. (cell = x => Outstanding(x)') /\ \A c \in fullCaches : LiesIn(x, c) => Outstanding(x)'
    BY <1>1 DEF Outstanding, LiesIn
  <2>3. WithThread(t, x)' => Outstanding(x)'
    BY DEF Outstanding
  <2> QED
    BY <1>3, <1>4, <2>1, <2>2, <2>3, OutstandingStays
<1>5. ASSUME NEW x \in AllItems, Placed(x)'
      PROVE  Placed(x)
  <2>1. \A p : In(x, p)' => \E s : In(x, s)
    BY ClaimChunkMoves DEF IInv
  <2> QED
    BY <1>5, <2>1, NoneGained
<1>6. ASSUME NEW x \in AllItems, Undivided(x)
      PROVE  \/ Undivided(x)' \/ Outstanding(x)'
             \/ x.block = b /\ x.place >= itemRows(b)
  <2>0. x.block \in Blocks /\ x.place \in Nat
    BY DEF AllItems
  <2>1. CASE x.block # b
    BY <1>2, <1>6, <2>0, <2>1 DEF Undivided
  <2>2. CASE x.block = b /\ x.place >= first + TlCacheSize
    BY <1>2, <2>0, <2>2 DEF Undivided
  <2>3. CASE x.block = b /\ x.place < first + TlCacheSize /\ first < itemRows(b)
    <3>1. /\ chunk'[t] = Chunk(b, first)
          /\ Len(Chunk(b, first)) = TlCacheSize
          /\ \A i \in 1 .. TlCacheSize : Chunk(b, first)[i] = Item(b, first + i - 1)
      <4>1. first \in Nat /\ b \in Blocks
        BY <1>0
      <4>2. chunk'[t] = Chunk(b, first)
        BY <1>0, <1>2, <2>3
      <4> QED
        BY <4>1, <4>2, ChunkTyped, Zenon
    <3>2. /\ x.place - first + 1 \in 1 .. TlCacheSize
          /\ Item(b, first + (x.place - first + 1) - 1) = x
      <4>1. x.place >= first
        BY <1>6, <2>3 DEF Undivided
      <4>2. x.place - first + 1 \in 1 .. TlCacheSize /\ first + (x.place - first + 1) - 1 = x.place
        <5>1. \A n, m \in Nat : n >= m /\ n < m + TlCacheSize =>
                n - m + 1 \in 1 .. TlCacheSize /\ m + (n - m + 1) - 1 = n
          BY <1>0
        <5>2. first \in Nat /\ x.place < first + TlCacheSize
          BY <1>0, <2>3
        <5> HIDE DEF first
        <5> QED
          BY <2>0, <4>1, <5>1, <5>2
      <4>3. Item(b, x.place) = x
        BY <2>0, <2>3 DEF Item, AllItems
      <4> QED
        BY <4>2, <4>3
    <3>3. LiesIn(x, chunk[t])'
      BY <3>1, <3>2 DEF LiesIn
    <3> QED
      BY <3>3 DEF Outstanding, WithThread
  <2>4. CASE x.block = b /\ x.place < first + TlCacheSize /\ first >= itemRows(b)
    <3>1. x.place >= first
      BY <1>6, <2>4 DEF Undivided
    <3> QED
      BY <1>0, <2>0, <2>4, <3>1
  <2> QED
    BY <1>0, <2>0, <2>1, <2>2, <2>3, <2>4
<1>7. ASSUME NEW a \in Blocks
      PROVE  Living(a)' = Living(a)
  <2>1. BlockItems(a) = {x \in AllItems : x.block = a /\ x.place < itemRows(a)}
    BY ItemsOfBlock
  <2>2. ASSUME NEW x \in BlockItems(a)
        PROVE  Placed(x)' <=> Placed(x)
    <3>1. x \in AllItems /\ x.block = a /\ x.place < itemRows(a) /\ x.place \in Nat /\ itemRows(a) \in Nat
      BY <2>1, RowsAssumption DEF AllItems
    <3>2. ~ (x.block = b /\ x.place >= itemRows(b))
      BY <3>1
    <3> QED
      BY <1>4, <1>5, <1>6, <3>1, <3>2 DEF Placed
  <2> QED
    BY <2>2 DEF Living
<1>8. Fits'
  <2> SUFFICES ASSUME NEW x \in AllItems, Outstanding(x)'
               PROVE  x.place < itemRows(x.block) \/ Undivided(x)'
    BY DEF Fits
  <2>0. x.block \in Blocks /\ x.place \in Nat
    BY DEF AllItems
  <2>1. x.place < itemRows(x.block) \/ Undivided(x)
    BY <1>5 DEF Placed, Conserved, Fits
  <2>2. CASE x.block # b
    BY <1>2, <2>0, <2>1, <2>2 DEF Undivided
  <2>3. CASE x.block = b /\ first < itemRows(b)
    <3>1. first + TlCacheSize <= itemRows(b)
      BY <1>0, <2>3
    <3>2. blocks'[x.block].pushSync = first + TlCacheSize
      BY <1>2, <2>0, <2>3
    <3>3. x.place < first + TlCacheSize \/ Undivided(x)'
      BY <1>0, <2>0, <3>2 DEF Undivided
    <3> QED
      BY <1>0, <2>0, <2>3, <3>1, <3>3
  <2>4. CASE x.block = b /\ first >= itemRows(b)
    <3>1. chunk' = chunk /\ pc[t] # "release" /\ pc'[t] # "release"
      BY <1>0, <1>2, <2>4
    <3>2. Outstanding(x)
      <4>1. \A u \in Threads : WithThread(u, x)' => WithThread(u, x)
        BY <1>1, <1>2, <3>1 DEF WithThread, LiesIn
      <4> QED
        BY <1>1, <4>1 DEF Outstanding, LiesIn
    <3>3. ~ Undivided(x)
      BY <3>2, NotBoth DEF IInv
    <3> QED
      BY <2>1, <3>3
  <2> QED
    BY <1>0, <2>2, <2>3, <2>4
<1>9. Divided'
  <2>1. (first + TlCacheSize) % TlCacheSize = 0
    BY <1>0
  <2> QED
    BY <1>2, <2>1 DEF Divided, Conserved
<1>10. Accounted' /\ Emptied'
  BY <1>1, <1>2, <1>3, <1>7 DEF Accounted, Emptied, Conserved, NoneEmptied
<1> QED
  BY <1>8, <1>9, <1>10 DEF Conserved

LEMMA PushChunkConserves ==
  ASSUME IInv, Conserved, NEW t \in Threads, PushChunk(t)
  PROVE  Conserved'
<1>0. pc[t] = "push" /\ item[t] = None
  BY DEF IInv, Typed, AtItsPlace, PushChunk, Recycling
<1>1. UNCHANGED <<blocks, cell, cache, reclaim, reclaims, mine, item>>
  BY DEF PushChunk, cacheVars, userVars
<1>2. /\ fullCaches' = fullCaches \cup {chunk[t]}
      /\ \A u \in Threads \ {t} : pc'[u] = pc[u] /\ chunk'[u] = chunk[u]
      /\ pc'[t] = "claim"
  BY DEF IInv, Typed, CachesTyped, LocalTyped, PushChunk, Goto
<1>3. OthersStay(t) /\ NoneEmptied
  BY <1>0, <1>1, <1>2 DEF OthersStay, NoneEmptied
<1>4. ASSUME NEW x \in AllItems, Outstanding(x)
      PROVE  Outstanding(x)'
  <2>1. (cell = x => Outstanding(x)') /\ \A c \in fullCaches : LiesIn(x, c) => Outstanding(x)'
    BY <1>1, <1>2 DEF Outstanding, LiesIn
  <2>2. CASE LiesIn(x, chunk[t])
    <3>1. chunk[t] \in fullCaches'
      BY <1>2
    <3> QED
      BY <2>2, <3>1 DEF Outstanding, LiesIn
  <2>3. CASE ~ LiesIn(x, chunk[t])
    <3>1. WithThread(t, x) => WithThread(t, x)'
      BY <1>0, <1>1, <1>2, <2>3 DEF WithThread, LiesIn
    <3>2. WithThread(t, x)' => Outstanding(x)'
      BY DEF Outstanding
    <3> QED
      BY <1>3, <1>4, <2>1, <3>1, <3>2, OutstandingStays
  <2> QED
    BY <2>2, <2>3
<1>5. SameItems /\ SameBlocks
  <2>1. \A x \in AllItems : \A p : In(x, p)' => \E s : In(x, s)
    BY PushChunkMoves DEF IInv
  <2> QED
    BY <1>1, <1>4, <2>1, ItemsStay
<1> QED
  BY <1>3, <1>5, ConservedStays DEF IInv

\* Steps that take no item anywhere and leave the blocks as they are.
LEMMA QuietConserves ==
  ASSUME IInv, Conserved, NEW t \in Threads,
         Enter(t) \/ Exit(t) \/ Read(t) \/ Scan(t)
  PROVE  Conserved'
<1>1. /\ UNCHANGED <<fullCaches, cell, cache, reclaim, reclaims, chunk, mine, item, blocks>>
      /\ \A u \in Threads : pc'[u] = "release" <=> pc[u] = "release"
  <2>1. UNCHANGED <<fullCaches, cell, cache, reclaim, reclaims, chunk, mine, item, blocks>>
    BY DEF Enter, Exit, Read, Scan, sharedVars, cacheVars, userVars, localVars
  <2>2. \/ UNCHANGED pc
        \/ Goto(t, "inside") /\ pc[t] = "outside"
        \/ Goto(t, "outside") /\ pc[t] = "inside"
    BY DEF Enter, Exit, Read, Scan
  <2> QED
    BY <2>1, <2>2 DEF Goto, IInv, Typed, LocalTyped
<1>2. SameBlocks /\ NoneEmptied
  BY <1>1 DEF SameBlocks, NoneEmptied
<1>3. SameItems
  BY <1>1, <1>2, NobodyMoves
<1> QED
  BY <1>2, <1>3, ConservedStays DEF IInv

LEMMA ExchangeConserves ==
  ASSUME IInv, Conserved, NEW t \in Threads, Exchange(t)
  PROVE  Conserved'
<1>0. pc[t] = "inside" /\ item[t] = None /\ None \notin AllItems
  BY PoolAssumption DEF IInv, Typed, AtItsPlace, Exchange, AllItems, Blocks, Recycling
<1>1. UNCHANGED <<blocks, fullCaches, cache, reclaim, reclaims, chunk>>
  BY DEF Exchange, cacheVars
<1>2. /\ cell' = mine[t] /\ item'[t] = cell
      /\ pc'[t] = IF cell = None THEN "inside" ELSE "recycle"
      /\ \A u \in Threads \ {t} : pc'[u] = pc[u] /\ mine'[u] = mine[u] /\ item'[u] = item[u]
  BY DEF Exchange, Goto, IInv, Typed, LocalTyped
<1>3. OthersStay(t) /\ NoneEmptied
  BY <1>0, <1>1, <1>2 DEF OthersStay, NoneEmptied
<1>4. ASSUME NEW x \in AllItems, Outstanding(x)
      PROVE  Outstanding(x)'
  <2>1. \A c \in fullCaches : LiesIn(x, c) => Outstanding(x)'
    BY <1>1 DEF Outstanding, LiesIn
  <2>2. cell = x => Outstanding(x)'
    <3>1. cell = x => WithThread(t, x)'
      BY <1>0, <1>2 DEF WithThread
    <3> QED
      BY <3>1 DEF Outstanding
  <2>3. CASE mine[t] = x
    BY <1>2, <2>3 DEF Outstanding
  <2>4. CASE mine[t] # x
    <3>1. WithThread(t, x) => WithThread(t, x)'
      BY <1>0, <1>1, <1>2, <2>4 DEF WithThread, LiesIn
    <3>2. WithThread(t, x)' => Outstanding(x)'
      BY DEF Outstanding
    <3> QED
      BY <1>3, <1>4, <2>1, <2>2, <3>1, <3>2, OutstandingStays
  <2> QED
    BY <2>3, <2>4
<1>5. SameItems /\ SameBlocks
  <2>1. \A x \in AllItems : \A p : In(x, p)' => \E s : In(x, s)
    BY ExchangeMoves DEF IInv
  <2> QED
    BY <1>1, <1>4, <2>1, ItemsStay
<1> QED
  BY <1>3, <1>5, ConservedStays DEF IInv

\* An item that is given back and kept.
LEMMA KeepConserves ==
  ASSUME IInv, Conserved, NEW t \in Threads,
         UNCHANGED <<blocks, fullCaches, cell, mine, cache, reclaims, chunk>>,
         item[t] # None, pc[t] # "release", Recycled(t),
         reclaim' = [reclaim EXCEPT ![t] = Append(@, item[t])]
  PROVE  Conserved'
<1>0. reclaim[t] \in Seq(AllItems) /\ item[t] \in AllItems
  BY DEF IInv, Typed, CachesTyped, LocalTyped
<1>1. /\ reclaim'[t] = Append(reclaim[t], item[t]) /\ pc'[t] = "inside"
      /\ \A u \in Threads \ {t} : pc'[u] = pc[u] /\ item'[u] = item[u] /\ reclaim'[u] = reclaim[u]
  BY DEF Recycled, Goto, IInv, Typed, CachesTyped, LocalTyped
<1>2. OthersStay(t) /\ NoneEmptied
  BY <1>1 DEF OthersStay, NoneEmptied
<1>3. ASSUME NEW x \in AllItems, Outstanding(x)
      PROVE  Outstanding(x)'
  <2>1. (cell = x => Outstanding(x)') /\ \A c \in fullCaches : LiesIn(x, c) => Outstanding(x)'
    BY DEF Outstanding, LiesIn
  <2>2. item[t] = x \/ LiesIn(x, reclaim[t]) => LiesIn(x, reclaim'[t])
    <3>1. /\ Len(reclaim'[t]) = Len(reclaim[t]) + 1 /\ Len(reclaim[t]) \in Nat
          /\ reclaim'[t][Len(reclaim[t]) + 1] = item[t]
          /\ \A i \in 1 .. Len(reclaim[t]) : reclaim'[t][i] = reclaim[t][i]
      BY <1>0, <1>1
    <3>2. item[t] = x => LiesIn(x, reclaim'[t])
      BY <3>1 DEF LiesIn
    <3>3. LiesIn(x, reclaim[t]) => LiesIn(x, reclaim'[t])
      BY <3>1 DEF LiesIn
    <3> QED
      BY <3>2, <3>3
  <2>3. WithThread(t, x) => WithThread(t, x)'
    BY <2>2 DEF WithThread, LiesIn
  <2>4. WithThread(t, x)' => Outstanding(x)'
    BY DEF Outstanding
  <2> QED
    BY <1>2, <1>3, <2>1, <2>3, <2>4, OutstandingStays
<1>4. SameItems /\ SameBlocks
  <2>1. \A x \in AllItems : \A p : In(x, p)' => \E s : In(x, s)
    BY KeepMoves DEF IInv
  <2> QED
    BY <1>3, <2>1, ItemsStay
<1> QED
  BY <1>2, <1>4, ConservedStays DEF IInv

LEMMA RecycleConserves ==
  ASSUME IInv, Conserved, NEW t \in Threads, Recycle(t)
  PROVE  Conserved'
<1>0. /\ UNCHANGED <<fullCaches, cell, blocks, cache, chunk, mine, reclaims>>
      /\ pc[t] = "recycle" /\ item[t] # None
  BY DEF IInv, Typed, AtItsPlace, Recycle, sharedVars, sectionVars, userVars, Recycling
<1>1. CASE UNCHANGED <<reclaim, item>> /\ pc'[t] \in {"discard", "scan"}
  <2>1. \A u \in Threads \ {t} : pc'[u] = pc[u]
    BY DEF IInv, Typed, LocalTyped, Recycle, Recycled, Goto
  <2>2. SameBlocks /\ NoneEmptied
    BY <1>0, <1>1, <2>1 DEF SameBlocks, NoneEmptied
  <2>3. SameItems
    BY <1>0, <1>1, <2>1, <2>2, NobodyMoves
  <2> QED
    BY <2>2, <2>3, ConservedStays DEF IInv
<1>2. CASE reclaim' = [reclaim EXCEPT ![t] = Append(@, item[t])] /\ Recycled(t)
  BY <1>0, <1>2, KeepConserves
<1> QED
  BY <1>0, <1>1, <1>2 DEF IInv, Typed, LocalTyped, Recycle, Goto

\* What is discarded is nowhere any more, and the block counts one item less.
LEMMA DiscardConserves ==
  ASSUME IInv, Conserved, NEW t \in Threads, Discard(t)
  PROVE  Conserved'
<1> DEFINE x == item[t]
           b == x.block
<1>0. /\ x \in AllItems /\ b \in Blocks /\ pc[t] = "discard" /\ blocks[b].livingItems \in Int
      /\ UNCHANGED <<fullCaches, cell, cache, chunk, mine, reclaim, reclaims>>
  <2>1. x \in AllItems /\ b \in Blocks /\ pc[t] = "discard"
    BY DEF IInv, Typed, LocalTyped, AtItsPlace, Discard, Recycling, AllItems
  <2>2. blocks[b].livingItems \in Int
    BY <2>1 DEF IInv, Typed, SharedTyped, BlockStates
  <2>3. UNCHANGED <<fullCaches, cell, cache, chunk, mine, reclaim, reclaims>>
    BY DEF Discard, cacheVars, userVars
  <2> QED
    BY <2>1, <2>2, <2>3
<1>1. \A a \in Blocks : /\ blocks'[a].pushSync = blocks[a].pushSync
                        /\ blocks'[a].version = blocks[a].version
                        /\ blocks'[a].livingItems = IF a = b THEN blocks[b].livingItems - 1
                                                             ELSE blocks[a].livingItems
  <2>1. blocks' = [blocks EXCEPT ![b] = [blocks[b] EXCEPT !.livingItems = blocks[b].livingItems - 1]]
    BY DEF Discard
  <2>2. \A r \in BlockStates : \A n \in Int :
          /\ [r EXCEPT !.livingItems = n].pushSync = r.pushSync
          /\ [r EXCEPT !.livingItems = n].version = r.version
          /\ [r EXCEPT !.livingItems = n].livingItems = n
    BY DEF BlockStates
  <2>3. blocks[b].livingItems - 1 \in Int
    BY <1>0
  <2>4. blocks \in [Blocks -> BlockStates]
    BY DEF IInv, Typed, SharedTyped
  <2> HIDE DEF b
  <2> QED
    BY <1>0, <2>1, <2>2, <2>3, <2>4
<1>2. /\ \A u \in Threads \ {t} : pc'[u] = pc[u] /\ item'[u] = item[u]
      /\ \/ blocks[b].livingItems = 1 /\ pc'[t] = "release" /\ item'[t] = x
         \/ blocks[b].livingItems # 1 /\ pc'[t] = "inside" /\ item'[t] = None
  BY DEF Discard, Recycled, Goto, IInv, Typed, LocalTyped
<1>3. ASSUME NEW y \in AllItems
      PROVE  Placed(y)' <=> Placed(y) /\ y # x
  <2>0. y # None /\ y.block \in Blocks
    BY PoolAssumption DEF AllItems, Blocks
  <2>1. Undivided(y)' <=> Undivided(y)
    BY <1>1, <2>0 DEF Undivided
  <2>2. OthersStay(t)
    BY <1>0, <1>2 DEF OthersStay
  <2>3. CASE y # x
    <3>1. \A u \in Threads : WithThread(u, y)' <=> WithThread(u, y)
      <4>1. WithThread(t, y)' <=> WithThread(t, y)
        BY <1>0, <1>2, <2>0, <2>3 DEF WithThread, LiesIn
      <4>2. ASSUME NEW u \in Threads \ {t}
            PROVE  WithThread(u, y)' <=> WithThread(u, y)
        BY <2>2 DEF OthersStay, WithThread, LiesIn
      <4> QED
        BY <4>1, <4>2
    <3>2. Outstanding(y)' <=> Outstanding(y)
      BY <1>0, <3>1 DEF Outstanding, LiesIn
    <3> QED
      BY <2>1, <2>3, <3>2 DEF Placed
  <2>4. CASE y = x
    <3>1. In(y, <<"given", t, 0, 0>>)
      BY <1>0, <2>4 DEF In, InGiven
    <3>2. ASSUME NEW p, In(y, p)'
          PROVE  FALSE
      <4>1. NothingMoves
        BY <1>0, <1>1, <1>2, StaysThere
      <4>2. In(y, p)
        BY <3>2, <4>1 DEF NothingMoves
      <4>3. p = <<"given", t, 0, 0>>
        BY <3>1, <4>2 DEF IInv, Unique
      <4>4. InGiven(y, p)'
        BY <3>2, <4>3 DEF In, InCell, InMine, InCache, InReclaim, InChunk, InReclaims, InFull, InBlock
      <4>5. pc'[t] # "release" /\ item'[t] = y
        BY <4>3, <4>4 DEF InGiven
      <4> QED
        BY <1>2, <2>0, <4>5
    <3>3. PlacedAnywhere'
      BY PlacedIsIn, PTL
    <3> QED
      BY <2>4, <3>2, <3>3 DEF PlacedAnywhere
  <2> QED
    BY <2>3, <2>4
<1>4. x \in Living(b)
  <2>1. WithThread(t, x)
    BY <1>0 DEF WithThread
  <2>2. Outstanding(x)
    BY <2>1 DEF Outstanding
  <2>3. x.place < itemRows(b)
    BY <1>0, <2>2, NotBoth DEF IInv, Conserved, Fits
  <2> QED
    BY <1>0, <2>2, <2>3, ItemsOfBlock DEF Living, Placed
<1>5. ASSUME NEW a \in Blocks
      PROVE  /\ IsFiniteSet(Living(a))
             /\ Living(a)' = IF a = b THEN Living(b) \ {x} ELSE Living(a)
             /\ blocks'[a].livingItems = Cardinality(Living(a)')
             /\ blocks[a].livingItems = 1 /\ a = b => Living(a)' = {}
  <2>1. BlockItems(a) = {y \in AllItems : y.block = a /\ y.place < itemRows(a)}
    BY ItemsOfBlock
  <2>2. IsFiniteSet(Living(a))
    <3>1. IsFiniteSet(BlockItems(a)) /\ Living(a) \in SUBSET BlockItems(a)
      BY ItemsOfBlock DEF Living
    <3> QED
      BY <3>1, FS_Subset
  <2>3. Living(a)' = Living(a) \ {x}
    <3>1. \A y \in BlockItems(a) : Placed(y)' <=> Placed(y) /\ y # x
      BY <1>3, <2>1
    <3> QED
      BY <3>1 DEF Living
  <2>4. a # b => x \notin Living(a)
    BY <2>1 DEF Living
  <2>5. blocks[a].livingItems = Cardinality(Living(a))
    BY DEF Conserved, Accounted
  <2>6. Cardinality(Living(a) \ {x}) =
          IF x \in Living(a) THEN Cardinality(Living(a)) - 1 ELSE Cardinality(Living(a))
    BY <2>2, FS_RemoveElement
  <2>7. blocks'[a].livingItems = Cardinality(Living(a)')
    BY <1>1, <1>4, <2>3, <2>4, <2>5, <2>6
  <2>8. IsFiniteSet(Living(a) \ {x})
    BY <2>2, FS_RemoveElement
  <2>9. blocks[a].livingItems = 1 /\ a = b => Living(a)' = {}
    <3>1. blocks[a].livingItems = 1 /\ a = b => Cardinality(Living(a) \ {x}) = 0
      BY <1>4, <2>5, <2>6
    <3> QED
      BY <2>3, <2>8, <3>1, FS_EmptySet
  <2> QED
    BY <2>2, <2>3, <2>4, <2>7, <2>9
<1>6. Fits'
  <2> SUFFICES ASSUME NEW y \in AllItems, Outstanding(y)'
               PROVE  y.place < itemRows(y.block) \/ Undivided(y)'
    BY DEF Fits
  <2>1. Placed(y)
    BY <1>3 DEF Placed
  <2>2. Undivided(y) => Undivided(y)'
    BY <1>1 DEF Undivided, AllItems
  <2> QED
    BY <2>1, <2>2 DEF Conserved, Fits, Placed
<1>7. Divided'
  BY <1>1 DEF Conserved, Divided
<1>8. Accounted'
  <2> SUFFICES ASSUME NEW a \in Blocks
               PROVE  /\ blocks'[a].livingItems = Cardinality(Living(a)')
                      /\ blocks'[a].version = 2 => Living(a)' = {}
    BY DEF Accounted
  <2>1. blocks[a].version = 2 => Living(a) = {}
    BY DEF Conserved, Accounted
  <2>2. Living(a) = {} => Living(a)' = {}
    BY <1>4, <1>5
  <2> QED
    BY <1>1, <1>5, <2>1, <2>2
<1>9. Emptied'
  <2> SUFFICES ASSUME NEW u \in Threads, NEW a \in Blocks, pc'[u] = "release", item'[u].block = a
               PROVE  Living(a)' = {}
    BY DEF Emptied
  <2>1. CASE u = t
    <3>1. blocks[b].livingItems = 1 /\ a = b
      BY <1>2, <2>1
    <3> QED
      BY <1>5, <3>1
  <2>2. CASE u # t
    <3>1. pc[u] = "release" /\ item[u].block = a
      BY <1>2, <2>2
    <3>2. Living(a) = {}
      BY <3>1 DEF Conserved, Emptied
    <3> QED
      BY <1>4, <1>5, <3>2
  <2> QED
    BY <2>1, <2>2
<1> QED
  BY <1>6, <1>7, <1>8, <1>9 DEF Conserved

LEMMA ReleaseConserves ==
  ASSUME IInv, Conserved, NEW t \in Threads, Release(t)
  PROVE  Conserved'
<1> DEFINE b == item[t].block
<1>0. /\ b \in Blocks /\ pc[t] = "release" /\ None \notin AllItems
      /\ UNCHANGED <<fullCaches, cell, cache, chunk, mine, reclaim, reclaims>>
  BY PoolAssumption
  DEF IInv, Typed, LocalTyped, AtItsPlace, Release, Recycling, AllItems, Blocks, cacheVars, userVars
<1>1. \A a \in Blocks : /\ blocks'[a].pushSync = blocks[a].pushSync
                        /\ blocks'[a].livingItems = blocks[a].livingItems
                        /\ a # b => blocks'[a].version = blocks[a].version
  <2>1. blocks' = [blocks EXCEPT ![b] = [blocks[b] EXCEPT !.version = blocks[b].version + 1]]
    BY DEF Release
  <2>2. \A r \in BlockStates : \A n \in Int :
          /\ [r EXCEPT !.version = n].pushSync = r.pushSync
          /\ [r EXCEPT !.version = n].livingItems = r.livingItems
    BY DEF BlockStates
  <2>3. blocks[b].version + 1 \in Int
    BY <1>0 DEF IInv, Typed, SharedTyped, BlockStates
  <2>4. blocks \in [Blocks -> BlockStates]
    BY DEF IInv, Typed, SharedTyped
  <2> HIDE DEF b
  <2> QED
    BY <1>0, <2>1, <2>2, <2>3, <2>4
<1>2. /\ \A u \in Threads \ {t} : pc'[u] = pc[u] /\ item'[u] = item[u]
      /\ pc'[t] = "inside" /\ item'[t] = None
  BY DEF Release, Recycled, Goto, IInv, Typed, LocalTyped
<1>3. Living(b) = {}
  BY <1>0 DEF Conserved, Emptied
<1>4. ASSUME NEW x \in AllItems
      PROVE  Placed(x)' <=> Placed(x)
  <2>1. Undivided(x)' <=> Undivided(x)
    BY <1>1 DEF Undivided, AllItems
  <2>2. \A u \in Threads : WithThread(u, x)' <=> WithThread(u, x)
    BY <1>0, <1>2 DEF WithThread, LiesIn
  <2>3. Outstanding(x)' <=> Outstanding(x)
    BY <1>0, <2>2 DEF Outstanding, LiesIn
  <2> QED
    BY <2>1, <2>3 DEF Placed
<1>5. ASSUME NEW a \in Blocks
      PROVE  Living(a)' = Living(a)
  <2>1. BlockItems(a) \subseteq AllItems
    BY ItemsOfBlock
  <2> QED
    BY <1>4, <2>1 DEF Living
<1>6. Fits'
  <2> SUFFICES ASSUME NEW x \in AllItems, Outstanding(x)'
               PROVE  x.place < itemRows(x.block) \/ Undivided(x)'
    BY DEF Fits
  <2>1. Placed(x)
    BY <1>4 DEF Placed
  <2>2. Undivided(x) => Undivided(x)'
    BY <1>1 DEF Undivided, AllItems
  <2> QED
    BY <2>1, <2>2 DEF Conserved, Fits, Placed
<1>7. Divided' /\ Accounted'
  BY <1>1, <1>3, <1>5 DEF Conserved, Divided, Accounted
<1>8. Emptied'
  BY <1>2, <1>5 DEF Conserved, Emptied
<1> QED
  BY <1>6, <1>7, <1>8 DEF Conserved

LEMMA EvaluateConserves ==
  ASSUME IInv, Conserved, NEW t \in Threads, Evaluate(t)
  PROVE  Conserved'
<1>0. /\ UNCHANGED <<blocks, fullCaches, cell, mine, cache, item, chunk>>
      /\ \A u \in Threads \ {t} : pc'[u] = pc[u] /\ reclaim'[u] = reclaim[u]
      /\ pc'[t] = "reclaim" /\ pc[t] = "scan"
  BY DEF IInv, Typed, CachesTyped, LocalTyped, Evaluate, Goto, sharedVars, userVars
<1>1. OthersStay(t) /\ NoneEmptied
  BY <1>0, EvaluateTyped DEF IInv, OthersStay, NoneEmptied
<1>2. ASSUME NEW x \in AllItems, Outstanding(x)
      PROVE  Outstanding(x)'
  <2>1. (cell = x => Outstanding(x)') /\ \A c \in fullCaches : LiesIn(x, c) => Outstanding(x)'
    BY <1>0 DEF Outstanding, LiesIn
  <2>2. Len(reclaims[t]) \in Nat
    BY DEF IInv, Typed, CachesTyped
  <2>3. LiesIn(x, reclaim[t]) =>
          \E k \in 1 .. Len(reclaims'[t]) : LiesIn(x, reclaims'[t][k].items)
    <3>1. CASE reclaim[t] = << >>
      BY <3>1 DEF LiesIn
    <3>2. CASE reclaim[t] # << >>
      <4>1. /\ Len(reclaims'[t]) = Len(reclaims[t]) + 1
            /\ reclaims'[t][Len(reclaims[t]) + 1] = [users |-> inside[t], items |-> reclaim[t]]
        BY <3>2, EvaluateTyped DEF IInv
      <4>2. reclaims'[t][Len(reclaims[t]) + 1].items = reclaim[t]
        BY <4>1
      <4> QED
        BY <2>2, <4>1, <4>2
    <3> QED
      BY <3>1, <3>2
  <2>4. \A k \in 1 .. Len(reclaims[t]) :
          k \in 1 .. Len(reclaims'[t]) /\ reclaims'[t][k].items = reclaims[t][k].items
    <3>1. Len(reclaims'[t]) = Len(reclaims[t]) \/ Len(reclaims'[t]) = Len(reclaims[t]) + 1
      BY EvaluateTyped DEF IInv
    <3>2. \A k \in 1 .. Len(reclaims[t]) : k \in 1 .. Len(reclaims'[t])
      BY <2>2, <3>1
    <3>3. \A k \in 1 .. Len(reclaims[t]) : reclaims'[t][k].items = reclaims[t][k].items
      BY EvaluateTyped DEF IInv
    <3> QED
      BY <3>2, <3>3
  <2>5. WithThread(t, x) => WithThread(t, x)'
    BY <1>0, <2>3, <2>4 DEF WithThread, LiesIn
  <2>6. WithThread(t, x)' => Outstanding(x)'
    BY DEF Outstanding
  <2> QED
    BY <1>1, <1>2, <2>1, <2>5, <2>6, OutstandingStays
<1>3. SameItems /\ SameBlocks
  <2>1. \A x \in AllItems : \A p : In(x, p)' => \E s : In(x, s)
    BY EvaluateMoves DEF IInv
  <2> QED
    BY <1>0, <1>2, <2>1, ItemsStay
<1> QED
  BY <1>1, <1>3, ConservedStays DEF IInv

LEMMA ReclaimConserves ==
  ASSUME IInv, Conserved, NEW t \in Threads, Reclaim(t)
  PROVE  Conserved'
<1>0. /\ UNCHANGED <<blocks, cell, mine, cache, chunk>>
      /\ pc[t] = "reclaim" /\ item[t] # None /\ reclaim[t] = << >>
  BY DEF IInv, Typed, AtItsPlace, Reclaim, sectionVars, userVars, Recycling
<1>1. CASE /\ reclaim' = [reclaim EXCEPT ![t] = <<item[t]>>]
           /\ Recycled(t)
           /\ UNCHANGED <<fullCaches, reclaims>>
  <2>1. reclaim' = [reclaim EXCEPT ![t] = Append(@, item[t])]
    BY <1>0, <1>1 DEF IInv, Typed, CachesTyped
  <2> QED
    BY <1>0, <1>1, <2>1, KeepConserves
<1>2. ASSUME NEW k \in 1 .. Len(reclaims[t]),
             fullCaches' = fullCaches \cup {reclaims[t][k].items},
             reclaims' = [reclaims EXCEPT ![t] = Without(reclaims[t], k)],
             UNCHANGED <<reclaim, item, pc>>
      PROVE  Conserved'
  <2> DEFINE last == Len(reclaims[t])
  <2>1. reclaims[t] \in Seq(Waiting) /\ last \in Nat /\ reclaims \in [Threads -> Seq(Waiting)]
    BY DEF IInv, Typed, CachesTyped
  <2>2. OthersStay(t) /\ NoneEmptied
    BY <1>0, <1>2, <2>1 DEF OthersStay, NoneEmptied
  <2>3. /\ Len(reclaims'[t]) = last - 1
        /\ \A j \in 1 .. last - 1 :
             reclaims'[t][j] = IF j = k THEN reclaims[t][last] ELSE reclaims[t][j]
    <3>1. reclaims'[t] = Without(reclaims[t], k)
      BY <1>2, <2>1
    <3> QED
      BY <2>1, <3>1, WithoutOne
  <2>4. ASSUME NEW x \in AllItems, Outstanding(x)
        PROVE  Outstanding(x)'
    <3>1. (cell = x => Outstanding(x)') /\ \A c \in fullCaches : LiesIn(x, c) => Outstanding(x)'
      BY <1>0, <1>2 DEF Outstanding, LiesIn
    <3>2. ASSUME NEW j \in 1 .. last, LiesIn(x, reclaims[t][j].items)
          PROVE  Outstanding(x)'
      <4>1. CASE j = k
        <5>1. reclaims[t][k].items \in fullCaches'
          BY <1>2
        <5> QED
          BY <3>2, <4>1, <5>1 DEF Outstanding, LiesIn
      <4>2. CASE j # k
        <5>1. PICK m \in 1 .. last - 1 : reclaims'[t][m] = reclaims[t][j]
          <6>1. CASE j = last
            <7>1. k \in 1 .. last - 1 /\ reclaims'[t][k] = reclaims[t][j]
              BY <2>1, <2>3, <4>2, <6>1
            <7> QED
              BY <7>1
          <6>2. CASE j # last
            <7>1. j \in 1 .. last - 1 /\ reclaims'[t][j] = reclaims[t][j]
              BY <2>1, <2>3, <4>2, <6>2
            <7> QED
              BY <7>1
          <6> QED
            BY <6>1, <6>2
        <5>2. \E n \in 1 .. Len(reclaims'[t]) : LiesIn(x, reclaims'[t][n].items)
          BY <2>3, <3>2, <5>1
        <5>3. WithThread(t, x)'
          BY <5>2 DEF WithThread, LiesIn
        <5> QED
          BY <5>3 DEF Outstanding
      <4> QED
        BY <4>1, <4>2
    <3>3. WithThread(t, x) => Outstanding(x)'
      <4>1. CASE \E j \in 1 .. last : LiesIn(x, reclaims[t][j].items)
        BY <3>2, <4>1
      <4>2. CASE ~ \E j \in 1 .. last : LiesIn(x, reclaims[t][j].items)
        <5>1. WithThread(t, x) => WithThread(t, x)'
          BY <1>0, <1>2, <4>2 DEF WithThread, LiesIn
        <5> QED
          BY <5>1 DEF Outstanding
      <4> QED
        BY <4>1, <4>2
    <3> QED
      BY <2>2, <2>4, <3>1, <3>3, OutstandingStays
  <2>5. SameItems /\ SameBlocks
    <3>1. \A x \in AllItems : \A p : In(x, p)' => \E s : In(x, s)
      BY <1>0, <1>2, ReclaimMoves DEF IInv
    <3> QED
      BY <1>0, <2>4, <3>1, ItemsStay
  <2> QED
    BY <2>2, <2>5, ConservedStays DEF IInv
<1> QED
  BY <1>1, <1>2, ReclaimTyped DEF IInv

LEMMA StepConserves == IInv /\ Conserved /\ [Next]_vars => Conserved'
<1> SUFFICES ASSUME IInv, Conserved, [Next]_vars
             PROVE  Conserved'
  OBVIOUS
<1>1. ASSUME NEW t \in Threads, Step(t)
      PROVE  Conserved'
  BY <1>1, PopConserves, AllocConserves, ClaimChunkConserves, PushChunkConserves, QuietConserves,
     RecycleConserves, DiscardConserves, ReleaseConserves, EvaluateConserves, ReclaimConserves DEF Step
<1>2. ASSUME NEW t \in Threads, BeginGet(t) \/ Enter(t) \/ Read(t) \/ Exchange(t)
      PROVE  Conserved'
  BY <1>2, BeginGetConserves, QuietConserves, ExchangeConserves
<1>3. CASE UNCHANGED vars
  <2>1. UNCHANGED <<blocks, fullCaches, cell, cache, reclaim, reclaims, pc, mine, item, chunk>>
    BY <1>3 DEF vars, sharedVars, cacheVars, userVars, localVars
  <2>2. SameBlocks /\ NoneEmptied
    BY <2>1 DEF SameBlocks, NoneEmptied
  <2>3. SameItems
    BY <2>1, <2>2, NobodyMoves
  <2> QED
    BY <2>2, <2>3, ConservedStays DEF IInv
<1> QED
  BY <1>1, <1>2, <1>3 DEF Next

LEMMA InitConserves == Init => Conserved
<1> SUFFICES ASSUME Init
             PROVE  Conserved
  OBVIOUS
<1>0. /\ TlCacheSize \in {1, 2} /\ 0 \in Blocks /\ itemRows(0) = 2
      /\ \A b \in Blocks : itemRows(b) \in Nat /\ itemRows(b) % TlCacheSize = 0
      /\ None \notin AllItems
  BY PoolAssumption, RowsAssumption DEF Blocks, itemRows, AllItems
<1>1. ASSUME NEW b \in Blocks
      PROVE  /\ blocks[b].livingItems = itemRows(b) /\ blocks[b].version # 2
             /\ blocks[b].pushSync = IF b = 0 THEN itemRows(0) + TlCacheSize ELSE 0
  <2>1. ASSUME NEW r, r = [EmptyBlock(0) EXCEPT !.version = 1, !.itemBlock = TRUE,
                                                !.pushSync = itemRows(0) + TlCacheSize]
        PROVE  r.pushSync = itemRows(0) + TlCacheSize /\ r.version = 1 /\ r.livingItems = itemRows(0)
    BY <2>1 DEF EmptyBlock
  <2>2. CASE b = 0
    BY <2>1, <2>2 DEF Init
  <2>3. CASE b # 0
    BY <2>3 DEF Init, EmptyBlock
  <2> QED
    BY <2>2, <2>3
<1>2. ASSUME NEW x \in AllItems, x.block = 0, x.place < 2
      PROVE  Outstanding(x)
  <2>1. x = Item(0, 0) \/ x = Item(0, 1)
    <3>1. x.place = 0 \/ x.place = 1
      BY <1>2 DEF AllItems
    <3> QED
      BY <1>2, <3>1 DEF Item, AllItems
  <2>2. ASSUME NEW k \in Nat, k < 2, k % TlCacheSize = 0
        PROVE  /\ Chunk(0, k) \in fullCaches /\ Len(Chunk(0, k)) = TlCacheSize
               /\ \A i \in 1 .. TlCacheSize : Chunk(0, k)[i] = Item(0, k + i - 1)
    <3>1. k \in {j \in 0 .. itemRows(0) - 1 : j % TlCacheSize = 0}
      BY <1>0, <2>2
    <3>2. Chunk(0, k) \in fullCaches
      BY <3>1 DEF Init
    <3> QED
      BY <1>0, <3>2, ChunkTyped, Zenon
  <2>3. Chunk(0, 0) \in fullCaches /\ LiesIn(Item(0, 0), Chunk(0, 0))
    <3>1. 0 \in Nat /\ 0 < 2 /\ 0 % TlCacheSize = 0 /\ 1 \in 1 .. TlCacheSize /\ 0 + 1 - 1 = 0
      BY <1>0
    <3> QED
      BY <2>2, <3>1 DEF LiesIn
  <2>4. \E c \in fullCaches : LiesIn(Item(0, 1), c)
    <3>1. CASE TlCacheSize = 1
      <4>1. 1 \in Nat /\ 1 < 2 /\ 1 % TlCacheSize = 0 /\ 1 \in 1 .. TlCacheSize /\ 1 + 1 - 1 = 1
        BY <3>1
      <4> QED
        BY <2>2, <4>1 DEF LiesIn
    <3>2. CASE TlCacheSize = 2
      <4>1. 0 \in Nat /\ 0 < 2 /\ 0 % TlCacheSize = 0 /\ 2 \in 1 .. TlCacheSize /\ 0 + 2 - 1 = 1
        BY <3>2
      <4> QED
        BY <2>2, <4>1 DEF LiesIn
    <3> QED
      BY <1>0, <3>1, <3>2
  <2> QED
    BY <2>1, <2>3, <2>4 DEF Outstanding
<1>3. ASSUME NEW b \in Blocks
      PROVE  Living(b) = BlockItems(b)
  <2>1. BlockItems(b) = {x \in AllItems : x.block = b /\ x.place < itemRows(b)}
    BY ItemsOfBlock
  <2>2. ASSUME NEW x \in AllItems, x.block = b, x.place < itemRows(b)
        PROVE  Placed(x)
    <3>1. CASE b = 0
      BY <1>0, <1>2, <2>2, <3>1 DEF Placed
    <3>2. CASE b # 0
      BY <1>1, <2>2, <3>2 DEF Placed, Undivided, AllItems
    <3> QED
      BY <3>1, <3>2
  <2> QED
    BY <2>1, <2>2 DEF Living
<1>4. Fits
  <2> SUFFICES ASSUME NEW x \in AllItems, ~ (x.place < itemRows(x.block))
               PROVE  Undivided(x) \/ ~ Outstanding(x)
    BY DEF Fits
  <2>0. x.block \in Blocks /\ x.place \in Nat
    BY DEF AllItems
  <2>1. CASE x.block # 0
    BY <1>1, <2>0, <2>1 DEF Undivided
  <2>2. CASE x.block = 0
    <3>1. x.place >= 2
      BY <1>0, <2>0, <2>2
    <3>2. ASSUME NEW c \in fullCaches
          PROVE  ~ LiesIn(x, c)
      <4>1. PICK k \in 0 .. 1 : c = Chunk(0, k) /\ k % TlCacheSize = 0
        BY <1>0 DEF Init
      <4>2. k \in Nat
        OBVIOUS
      <4>3. /\ Len(c) = TlCacheSize
            /\ \A i \in 1 .. TlCacheSize : c[i] = Item(0, k + i - 1)
        BY <1>0, <4>1, <4>2, ChunkTyped, Zenon
      <4>4. \A i \in 1 .. TlCacheSize : k + i - 1 < 2
        BY <1>0, <4>1
      <4>5. \A i \in 1 .. TlCacheSize : Item(0, k + i - 1).place < 2
        BY <4>4 DEF Item
      <4> QED
        BY <2>0, <3>1, <4>3, <4>5 DEF LiesIn
    <3>3. \A t \in Threads : ~ WithThread(t, x)
      BY <1>0 DEF Init, WithThread, LiesIn
    <3> QED
      BY <1>0, <3>2, <3>3 DEF Outstanding, Init
  <2> QED
    BY <2>1, <2>2
<1>5. Divided
  <2>1. (2 + TlCacheSize) % TlCacheSize = 0 /\ 0 % TlCacheSize = 0
    BY <1>0
  <2> QED
    BY <1>0, <1>1, <2>1 DEF Divided
<1>6. Accounted
  BY <1>1, <1>3, ItemsOfBlock DEF Accounted
<1>7. Emptied
  BY DEF Emptied, Init
<1> QED
  BY <1>4, <1>5, <1>6, <1>7 DEF Conserved

-----------------------------------------------------------------------------
\* A set that has at most one element.
LEMMA AtMostOne ==
  ASSUME NEW S, \A a, b \in S : a = b
  PROVE  Cardinality(S) = IF S = {} THEN 0 ELSE 1
<1>1. CASE S = {}
  BY <1>1, FS_EmptySet
<1>2. CASE S # {}
  <2>1. PICK a \in S : S = {a}
    BY <1>2
  <2> QED
    BY <2>1, FS_Singleton
<1> QED
  BY <1>1, <1>2

LEMMA ItemsLie ==
  ASSUME NEW s \in Seq(AllItems), NEW x
  PROVE  x \in Items(s) <=> LiesIn(x, s)
<1>1. DOMAIN s = 1 .. Len(s)
  OBVIOUS
<1> QED
  BY <1>1 DEF Items, LiesIn

\* The places that ItemsKept counts are those of In.
Kinds == {"mine", "given", "cache", "reclaim", "reclaims", "chunk"}

LEMMA PartsOf ==
  ASSUME Typed, NEW t \in Threads, NEW x \in AllItems
  PROVE  /\ x \in Parts(t)["mine"] <=> mine[t] = x
         /\ x \in Parts(t)["given"] <=> pc[t] # "release" /\ item[t] = x
         /\ x \in Parts(t)["cache"] <=> LiesIn(x, cache[t])
         /\ x \in Parts(t)["reclaim"] <=> LiesIn(x, reclaim[t])
         /\ x \in Parts(t)["chunk"] <=> LiesIn(x, chunk[t])
         /\ x \in Parts(t)["reclaims"] <=>
              \E k \in 1 .. Len(reclaims[t]) : LiesIn(x, reclaims[t][k].items)
<1>1. /\ Parts(t)["mine"] = {mine[t]}
      /\ Parts(t)["given"] = IF pc[t] = "release" THEN {} ELSE {item[t]}
      /\ Parts(t)["cache"] = Items(cache[t]) /\ Parts(t)["reclaim"] = Items(reclaim[t])
      /\ Parts(t)["chunk"] = Items(chunk[t])
      /\ Parts(t)["reclaims"] = UNION {Items(reclaims[t][k].items) : k \in DOMAIN reclaims[t]}
  BY DEF Parts
<1>2. /\ cache[t] \in Seq(AllItems) /\ reclaim[t] \in Seq(AllItems) /\ chunk[t] \in Seq(AllItems)
      /\ reclaims[t] \in Seq(Waiting)
  BY DEF Typed, CachesTyped
<1>3. \A k \in 1 .. Len(reclaims[t]) : reclaims[t][k].items \in Seq(AllItems)
  <2>1. \A k \in 1 .. Len(reclaims[t]) : reclaims[t][k] \in Waiting
    BY <1>2
  <2> QED
    BY <2>1 DEF Waiting, Caches
<1>4. x \in Parts(t)["reclaims"] <=>
        \E k \in 1 .. Len(reclaims[t]) : x \in Items(reclaims[t][k].items)
  <2>1. DOMAIN reclaims[t] = 1 .. Len(reclaims[t])
    BY <1>2
  <2> QED
    BY <1>1, <2>1
<1>5. /\ x \in Items(cache[t]) <=> LiesIn(x, cache[t])
      /\ x \in Items(reclaim[t]) <=> LiesIn(x, reclaim[t])
      /\ x \in Items(chunk[t]) <=> LiesIn(x, chunk[t])
      /\ \A k \in 1 .. Len(reclaims[t]) :
           x \in Items(reclaims[t][k].items) <=> LiesIn(x, reclaims[t][k].items)
  BY <1>2, <1>3, ItemsLie
<1>6. (x \in {mine[t]} <=> mine[t] = x) /\ (x \in {item[t]} <=> item[t] = x) /\ x \notin {}
  OBVIOUS
<1> QED
  BY <1>1, <1>4, <1>5, <1>6

LEMMA PlacesOfItem ==
  ASSUME Typed, Unique, NEW x \in AllItems
  PROVE  Places(x) \in {0, 1} /\ (Places(x) # 0 <=> Outstanding(x))
<1> DEFINE full == {c \in fullCaches : x \in Items(c)}
           parts == {s \in Threads \X Kinds : x \in Parts(s[1])[s[2]]}
<1>1. ASSUME NEW c \in full
      PROVE  LiesIn(x, c) /\ \E i : In(x, <<"full", c, i, 0>>)
  <2>1. c \in Seq(AllItems)
    BY DEF Typed, SharedTyped, Caches
  <2>2. LiesIn(x, c)
    BY <2>1, ItemsLie
  <2>3. PICK i \in 1 .. Len(c) : c[i] = x
    BY <2>2 DEF LiesIn
  <2>4. InFull(x, <<"full", c, i, 0>>)
    BY <2>3 DEF InFull
  <2> QED
    BY <2>2, <2>4 DEF In
<1>2. ASSUME NEW t \in Threads, NEW kind \in Kinds, x \in Parts(t)[kind]
      PROVE  \E i, k : In(x, <<kind, t, i, k>>)
  <2>1. CASE kind = "mine"
    <3>1. InMine(x, <<kind, t, 0, 0>>)
      BY <1>2, <2>1, PartsOf DEF InMine
    <3> QED
      BY <3>1 DEF In
  <2>2. CASE kind = "given"
    <3>1. InGiven(x, <<kind, t, 0, 0>>)
      BY <1>2, <2>2, PartsOf DEF InGiven
    <3> QED
      BY <3>1 DEF In
  <2>3. CASE kind = "cache"
    <3>1. PICK i \in 1 .. Len(cache[t]) : cache[t][i] = x
      BY <1>2, <2>3, PartsOf DEF LiesIn
    <3>2. InCache(x, <<kind, t, i, 0>>)
      BY <2>3, <3>1 DEF InCache
    <3> QED
      BY <3>2 DEF In
  <2>4. CASE kind = "reclaim"
    <3>1. PICK i \in 1 .. Len(reclaim[t]) : reclaim[t][i] = x
      BY <1>2, <2>4, PartsOf DEF LiesIn
    <3>2. InReclaim(x, <<kind, t, i, 0>>)
      BY <2>4, <3>1 DEF InReclaim
    <3> QED
      BY <3>2 DEF In
  <2>5. CASE kind = "chunk"
    <3>1. PICK i \in 1 .. Len(chunk[t]) : chunk[t][i] = x
      BY <1>2, <2>5, PartsOf DEF LiesIn
    <3>2. InChunk(x, <<kind, t, i, 0>>)
      BY <2>5, <3>1 DEF InChunk
    <3> QED
      BY <3>2 DEF In
  <2>6. CASE kind = "reclaims"
    <3>1. PICK k \in 1 .. Len(reclaims[t]) : LiesIn(x, reclaims[t][k].items)
      BY <1>2, <2>6, PartsOf
    <3>2. PICK i \in 1 .. Len(reclaims[t][k].items) : reclaims[t][k].items[i] = x
      BY <3>1 DEF LiesIn
    <3>3. InReclaims(x, <<kind, t, k, i>>)
      BY <2>6, <3>2 DEF InReclaims
    <3> QED
      BY <3>3 DEF In
  <2> QED
    BY <2>1, <2>2, <2>3, <2>4, <2>5, <2>6 DEF Kinds
<1>3. \A c, d \in full : c = d
  <2> SUFFICES ASSUME NEW c \in full, NEW d \in full
               PROVE  c = d
    OBVIOUS
  <2>1. PICK i, j : In(x, <<"full", c, i, 0>>) /\ In(x, <<"full", d, j, 0>>)
    BY <1>1
  <2> QED
    BY <2>1 DEF Unique
<1>4. \A s, r \in parts : s = r
  <2> SUFFICES ASSUME NEW t \in Threads, NEW kind \in Kinds, x \in Parts(t)[kind],
                      NEW u \in Threads, NEW other \in Kinds, x \in Parts(u)[other]
               PROVE  t = u /\ kind = other
    OBVIOUS
  <2>1. PICK i, k : In(x, <<kind, t, i, k>>)
    BY <1>2
  <2>2. PICK j, m : In(x, <<other, u, j, m>>)
    BY <1>2
  <2> QED
    BY <2>1, <2>2 DEF Unique
<1>5. full # {} => parts = {}
  <2> SUFFICES ASSUME NEW c \in full, NEW t \in Threads, NEW kind \in Kinds, x \in Parts(t)[kind]
               PROVE  FALSE
    OBVIOUS
  <2>1. PICK j : In(x, <<"full", c, j, 0>>)
    BY <1>1
  <2>2. PICK i, k : In(x, <<kind, t, i, k>>)
    BY <1>2
  <2>3. kind = "full"
    BY <2>1, <2>2 DEF Unique
  <2> QED
    BY <2>3 DEF Kinds
<1>6. cell = x => full = {} /\ parts = {}
  <2> SUFFICES ASSUME cell = x
               PROVE  full = {} /\ parts = {}
    OBVIOUS
  <2>1. In(x, <<"cell", 0, 0, 0>>)
    BY DEF In, InCell
  <2>2. ASSUME NEW c \in full
        PROVE  FALSE
    <3>1. PICK j : In(x, <<"full", c, j, 0>>)
      BY <1>1
    <3> QED
      BY <2>1, <3>1 DEF Unique
  <2>3. ASSUME NEW t \in Threads, NEW kind \in Kinds, x \in Parts(t)[kind]
        PROVE  FALSE
    <3>1. PICK i, k : In(x, <<kind, t, i, k>>)
      BY <1>2, <2>3
    <3>2. kind = "cell"
      BY <2>1, <3>1 DEF Unique
    <3> QED
      BY <3>2 DEF Kinds
  <2> QED
    BY <2>2, <2>3
<1>7. Outstanding(x) <=> cell = x \/ full # {} \/ parts # {}
  <2>1. (\E c \in fullCaches : LiesIn(x, c)) <=> full # {}
    <3>1. \A c \in fullCaches : x \in Items(c) <=> LiesIn(x, c)
      BY ItemsLie DEF Typed, SharedTyped, Caches
    <3> QED
      BY <3>1
  <2>2. ASSUME NEW t \in Threads
        PROVE  WithThread(t, x) <=> \E kind \in Kinds : x \in Parts(t)[kind]
    BY PartsOf DEF WithThread, Kinds
  <2>3. (\E t \in Threads : WithThread(t, x)) <=> parts # {}
    <3>1. parts # {} <=> \E t \in Threads : \E kind \in Kinds : x \in Parts(t)[kind]
      <4>1. ASSUME NEW s \in parts
            PROVE  s[1] \in Threads /\ s[2] \in Kinds /\ x \in Parts(s[1])[s[2]]
        OBVIOUS
      <4>2. ASSUME NEW t \in Threads, NEW kind \in Kinds, x \in Parts(t)[kind]
            PROVE  <<t, kind>> \in parts
        <5>1. <<t, kind>> \in Threads \X Kinds /\ <<t, kind>>[1] = t /\ <<t, kind>>[2] = kind
          OBVIOUS
        <5> QED
          BY <4>2, <5>1
      <4> HIDE DEF parts
      <4> QED
        BY <4>1, <4>2
    <3> QED
      BY <2>2, <3>1
  <2> QED
    BY <2>1, <2>3 DEF Outstanding
<1>8. Places(x) = (IF cell = x THEN 1 ELSE 0) + Cardinality(full) + Cardinality(parts)
  BY DEF Places, Kinds
<1>9. /\ Cardinality(full) = IF full = {} THEN 0 ELSE 1
      /\ Cardinality(parts) = IF parts = {} THEN 0 ELSE 1
  <2> HIDE DEF full, parts
  <2> QED
    BY <1>3, <1>4, AtMostOne
<1> HIDE DEF full, parts
<1> QED
  BY <1>5, <1>6, <1>7, <1>8, <1>9

LEMMA ConservedIsKept == IInv /\ Conserved => ItemsKept
<1> SUFFICES ASSUME IInv, Conserved, NEW b \in Blocks
             PROVE  LET items == {Item(b, k) : k \in 0 .. itemRows(b) - 1}
                        living == {x \in items : x.place >= blocks[b].pushSync \/ Places(x) # 0}
                    IN  /\ \A x \in items : Places(x) <= 1
                        /\ blocks[b].livingItems = Cardinality(living)
                        /\ blocks[b].version = 2 => living = {}
  BY DEF ItemsKept
<1>1. BlockItems(b) = {x \in AllItems : x.block = b /\ x.place < itemRows(b)}
  BY ItemsOfBlock
<1>2. ASSUME NEW x \in BlockItems(b)
      PROVE  /\ Places(x) <= 1
             /\ x.place >= blocks[b].pushSync \/ Places(x) # 0 <=> Placed(x)
  <2>1. x \in AllItems /\ x.block = b
    BY <1>1
  <2>2. Places(x) \in {0, 1} /\ (Places(x) # 0 <=> Outstanding(x))
    BY <2>1, PlacesOfItem DEF IInv
  <2> QED
    BY <2>1, <2>2 DEF Placed, Undivided
<1>3. Living(b) = {x \in BlockItems(b) : x.place >= blocks[b].pushSync \/ Places(x) # 0}
  BY <1>2 DEF Living
<1>4. /\ blocks[b].livingItems = Cardinality(Living(b))
      /\ blocks[b].version = 2 => Living(b) = {}
  BY DEF Conserved, Accounted
<1> QED
  BY <1>2, <1>3, <1>4 DEF BlockItems

\* However many threads divide a block and give its items back: each of them is in
\* one place at most, livingItems counts those that are in one, and the block is
\* released when all of them are discarded.
THEOREM ItemsAreKept ==
  ASSUME ~StoreBuffers
  PROVE  Spec => []ItemsKept
<1>1. Init => IInv /\ Conserved
  BY InitHolds, InitConserves
<1>2. IInv /\ Conserved /\ [Next]_vars => (IInv /\ Conserved)'
  BY StepHolds, StepConserves
<1>3. IInv /\ Conserved => ItemsKept
  BY ConservedIsKept
<1> QED
  BY <1>1, <1>2, <1>3, PTL DEF Spec
=============================================================================
