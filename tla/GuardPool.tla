------------------------------ MODULE GuardPool ------------------------------
(***************************************************************************)
(* concurrent_guard_pool: items that are given back are not handed out     *)
(* again while a thread is in a critical section that began before.        *)
(*                                                                         *)
(* Items come in blocks, each twice as large as the one before, and go     *)
(* round in caches: a queue of full ones, one that a thread takes items    *)
(* from, one that it fills with what it gives back, and those it has       *)
(* filled and keeps until the threads that were inside have left.  Items   *)
(* of outdated blocks are not reused.                                      *)
(*                                                                         *)
(* The program is that of concurrent_priority_queue: nodes are gotten      *)
(* outside a critical section, and published, read, taken out and given    *)
(* back inside.  One place, `cell', stands for its list.                   *)
(*                                                                         *)
(* One action is one access to what threads share.  Accesses are           *)
(* sequentially consistent, but for the stores of critical_sec, which stay *)
(* in the store buffer of the thread if StoreBuffers.                      *)
(***************************************************************************)
EXTENDS Integers, SequencesExt

CONSTANTS
  Threads,       \* fewer than MaxUsers
  CapacityBits,  \* how many blocks there can be
  TlCacheSize,
  StoreBuffers,  \* whether stores of critical_sec may be seen late
  MaxSections,   \* bound: critical sections of all threads together
  None

ASSUME PoolAssumption ==
  /\ CapacityBits \in Nat \ {0} /\ TlCacheSize \in {1, 2}
  /\ MaxSections \in Nat
  /\ StoreBuffers \in BOOLEAN
  /\ None \notin [block : 0 .. CapacityBits - 1, place : Nat]

VARIABLES
  blocks,          \* m_blocks: version of items, itemBlock, pushSync, livingItems
  blocksEndIndex,
  fullCaches,
  indices,         \* m_indices, which are odd inside a critical section
  pending,         \* stores to m_indices that are still in the store buffer
  cell,            \* the data structure of the program
  cache,           \* tl_container: what is left of m_cache,
  reclaim,         \* the items in m_deferredReclaimCache, none if it is null,
  reclaims,        \* m_deferredReclaimCaches,
  indexCache, lastCs,
  pc, mine, held,  \* where a thread is, the item it has to publish, the one it reads
  item,            \* local variables: what is given back,
  block, chunk,    \* the block that is allocated and the items to push,
  toScan, inside, changed,  \* m_indices that are still to load, and the masks,
  next             \* and the place in m_deferredReclaimCaches

sharedVars == <<blocks, blocksEndIndex, fullCaches, cell>>
sectionVars == <<indices, pending, lastCs>>
cacheVars == <<cache, reclaim, reclaims, indexCache>>
userVars == <<mine, held>>
localVars == <<item, block, chunk, toScan, inside, changed, next>>
vars == <<sharedVars, sectionVars, cacheVars, pc, userVars, localVars>>

-----------------------------------------------------------------------------
Blocks == 0 .. CapacityBits - 1
itemRows(b) == 2 ^ (b + 1)

\* A block is divided into whole caches.
ASSUME RowsAssumption ==
  \A b \in Blocks : itemRows(b) \in Nat /\ itemRows(b) % TlCacheSize = 0

Item(b, k) == [block |-> b, place |-> k]

EmptyBlock(b) ==
  [version |-> 0, itemBlock |-> FALSE, pushSync |-> 0, livingItems |-> itemRows(b)]

\* The items of a cache that begins at a place, even if the block is smaller.
Chunk(b, first) == [k \in 1 .. TlCacheSize |-> Item(b, first + k - 1)]

\* Constructed with the capacity of the first block.
Init ==
  /\ blocks = [b \in Blocks |->
       IF b = 0 THEN [EmptyBlock(0) EXCEPT !.version = 1, !.itemBlock = TRUE,
                                           !.pushSync = itemRows(0) + TlCacheSize]
                ELSE EmptyBlock(b)]
  /\ blocksEndIndex = 1
  /\ fullCaches = {Chunk(0, k) : k \in {j \in 0 .. itemRows(0) - 1 : j % TlCacheSize = 0}}
  /\ indices = [t \in Threads |-> 0]
  /\ pending = [t \in Threads |-> << >>]
  /\ cell = None
  /\ cache = [t \in Threads |-> << >>]
  /\ reclaim = [t \in Threads |-> << >>]
  /\ reclaims = [t \in Threads |-> << >>]
  /\ indexCache = [t \in Threads |-> [u \in Threads |-> 0]]
  /\ lastCs = [t \in Threads |-> 0]
  /\ pc = [t \in Threads |-> "outside"]
  /\ mine = [t \in Threads |-> None]
  /\ held = [t \in Threads |-> None]
  /\ item = [t \in Threads |-> None]
  /\ block = [t \in Threads |-> 0]
  /\ chunk = [t \in Threads |-> << >>]
  /\ toScan = [t \in Threads |-> {}]
  /\ inside = [t \in Threads |-> {}]
  /\ changed = [t \in Threads |-> {}]
  /\ next = [t \in Threads |-> 1]

Goto(t, label) == pc' = [pc EXCEPT ![t] = label]

\* A locked instruction waits for the stores before it.
Drained(t) == pending[t] = << >>

-----------------------------------------------------------------------------
\* get: from the cache of the thread, and when that is empty from a full one.
Fetch(t, items) ==
  /\ mine' = [mine EXCEPT ![t] = Head(items)]
  /\ cache' = [cache EXCEPT ![t] = Tail(items)]
  /\ Goto(t, "outside")

BeginGet(t) ==
  /\ pc[t] = "outside" /\ mine[t] = None
  /\ IF cache[t] # << >> THEN Fetch(t, cache[t])
                         ELSE Goto(t, "pop") /\ UNCHANGED <<mine, cache>>
  /\ UNCHANGED <<sharedVars, sectionVars, reclaim, reclaims, indexCache, held, localVars>>

Pop(t, otherwise) ==
  /\ Drained(t)
  /\ \/ \E c \in fullCaches :
          /\ fullCaches' = fullCaches \ {c}
          /\ Fetch(t, c)
     \/ /\ fullCaches = {}
        /\ Goto(t, otherwise)
        /\ UNCHANGED <<fullCaches, mine, cache>>

PopFull(t) ==
  /\ pc[t] = "pop"
  /\ Pop(t, "load_end")
  /\ UNCHANGED <<blocks, blocksEndIndex, cell, sectionVars, reclaim, reclaims, indexCache,
                 held, localVars>>

LoadEnd(t) ==
  /\ pc[t] = "load_end"
  /\ block' = [block EXCEPT ![t] = blocksEndIndex]
  /\ Goto(t, "pop_again")
  /\ UNCHANGED <<sharedVars, sectionVars, cacheVars, userVars, item, chunk, toScan, inside,
                 changed, next>>

PopAgain(t) ==
  /\ pc[t] = "pop_again"
  /\ Pop(t, "alloc")
  /\ UNCHANGED <<blocks, blocksEndIndex, cell, sectionVars, reclaim, reclaims, indexCache,
                 held, localVars>>

-----------------------------------------------------------------------------
\* try_alloc_block: one thread allocates the block, all help to divide it.  A block
\* that was released has version 2.
\* The block is there, unless it was released in the meantime.
Known(b) == [blocks EXCEPT ![b].version = IF @ = 0 THEN 1 ELSE @, ![b].itemBlock = blocks[b].version # 2]

AllocLoad(t) ==
  /\ pc[t] = "alloc"
  /\ LET b == block[t] IN
     IF b >= CapacityBits \/ blocks[b].version = 2
       THEN Goto(t, "pop") /\ UNCHANGED blocks
     ELSE IF blocks[b].version = 0
       THEN Goto(t, "alloc_exchange") /\ UNCHANGED blocks
       ELSE Goto(t, "claim") /\ blocks' = Known(b)
  /\ UNCHANGED <<blocksEndIndex, fullCaches, cell, sectionVars, cacheVars, userVars, localVars>>

AllocExchange(t) ==
  /\ pc[t] = "alloc_exchange"
  /\ blocks' = Known(block[t])
  /\ Goto(t, "claim")
  /\ UNCHANGED <<blocksEndIndex, fullCaches, cell, sectionVars, cacheVars, userVars, localVars>>

\* Mutant: what is pushed is loaded and stored in two steps.
ClaimChunk_Loaded(t) ==
  /\ pc[t] = "claim"
  /\ LET b == block[t]
         pushIndex == blocks[b].pushSync
     IN  /\ chunk' = [chunk EXCEPT ![t] = IF pushIndex < itemRows(b) THEN Chunk(b, pushIndex) ELSE << >>]
         /\ Goto(t, IF pushIndex < itemRows(b) THEN "push" ELSE "advance")
         /\ blocks' = IF pushIndex < itemRows(b) THEN blocks
                      ELSE [blocks EXCEPT ![b].pushSync = @ + TlCacheSize]
  /\ UNCHANGED <<blocksEndIndex, fullCaches, cell, sectionVars, cacheVars, userVars, item,
                 block, toScan, inside, changed, next>>

ClaimChunk(t) ==
  /\ pc[t] = "claim"
  /\ LET b == block[t]
         pushIndex == blocks[b].pushSync
     IN  /\ blocks' = [blocks EXCEPT ![b].pushSync = @ + TlCacheSize]
         /\ IF pushIndex < itemRows(b)
              THEN chunk' = [chunk EXCEPT ![t] = Chunk(b, pushIndex)] /\ Goto(t, "push")
              ELSE Goto(t, "advance") /\ UNCHANGED chunk
  /\ UNCHANGED <<blocksEndIndex, fullCaches, cell, sectionVars, cacheVars, userVars, item,
                 block, toScan, inside, changed, next>>

PushChunk(t) ==
  /\ pc[t] = "push"
  /\ fullCaches' = fullCaches \cup {chunk[t]}
  /\ chunk' = [chunk EXCEPT ![t] = << >>]
  /\ Goto(t, "claim")
  /\ UNCHANGED <<blocks, blocksEndIndex, cell, sectionVars, cacheVars, userVars, item,
                 block, toScan, inside, changed, next>>

Advance(t) ==
  /\ pc[t] = "advance"
  /\ blocksEndIndex' = IF blocksEndIndex = block[t] THEN block[t] + 1 ELSE blocksEndIndex
  /\ block' = [block EXCEPT ![t] = 0]
  /\ Goto(t, "pop")
  /\ UNCHANGED <<blocks, fullCaches, cell, sectionVars, cacheVars, userVars, item, chunk,
                 toScan, inside, changed, next>>

-----------------------------------------------------------------------------
\* critical_sec: the index is odd from its construction to its destruction.
StoreIndex(t, at) ==
  IF StoreBuffers THEN pending' = [pending EXCEPT ![t] = Append(@, at)] /\ UNCHANGED indices
                  ELSE indices' = [indices EXCEPT ![t] = at] /\ UNCHANGED pending

Flush(t) ==
  /\ ~Drained(t)
  /\ indices' = [indices EXCEPT ![t] = Head(pending[t])]
  /\ pending' = [pending EXCEPT ![t] = Tail(@)]
  /\ UNCHANGED <<sharedVars, lastCs, cacheVars, pc, userVars, localVars>>

Enter(t) ==
  /\ pc[t] = "outside"
  /\ FoldFunction(+, 0, lastCs) < 2 * MaxSections
  /\ lastCs' = [lastCs EXCEPT ![t] = @ + 2]
  /\ StoreIndex(t, lastCs[t] + 3)
  /\ Goto(t, "inside")
  /\ UNCHANGED <<sharedVars, cacheVars, userVars, localVars>>

Exit(t) ==
  /\ pc[t] = "inside"
  /\ StoreIndex(t, lastCs[t] + 2)
  /\ held' = [held EXCEPT ![t] = None]
  /\ Goto(t, "outside")
  /\ UNCHANGED <<sharedVars, lastCs, cacheVars, mine, localVars>>

\* What the program does inside: it reads, or exchanges what it finds for what it has.
Read(t) ==
  /\ pc[t] = "inside" /\ held[t] = None /\ cell # None
  /\ held' = [held EXCEPT ![t] = cell]
  /\ UNCHANGED <<sharedVars, sectionVars, cacheVars, pc, mine, localVars>>

Exchange(t) ==
  /\ pc[t] = "inside" /\ Drained(t) /\ mine[t] # cell
  /\ cell' = mine[t]
  /\ mine' = [mine EXCEPT ![t] = None]
  /\ item' = [item EXCEPT ![t] = cell]
  /\ held' = [held EXCEPT ![t] = IF @ = cell THEN None ELSE @]
  /\ Goto(t, IF cell = None THEN "inside" ELSE "recycle")
  /\ UNCHANGED <<blocks, blocksEndIndex, fullCaches, sectionVars, cacheVars, block, chunk,
                 toScan, inside, changed, next>>

-----------------------------------------------------------------------------
\* recycle: an item of the last block, or of one after it, is up to date.
is_up_to_date(x) ==
  /\ x.block \in {blocksEndIndex - 1, blocksEndIndex}
  /\ blocks[x.block].itemBlock

Recycled(t) ==
  /\ item' = [item EXCEPT ![t] = None]
  /\ Goto(t, "inside")

Recycle(t) ==
  /\ pc[t] = "recycle"
  /\ IF ~is_up_to_date(item[t])
       THEN Goto(t, "discard") /\ UNCHANGED <<reclaim, item, toScan>>
     ELSE IF Len(reclaim[t]) \in 1 .. TlCacheSize - 1
       THEN /\ reclaim' = [reclaim EXCEPT ![t] = Append(@, item[t])]
            /\ Recycled(t)
            /\ UNCHANGED toScan
       ELSE /\ toScan' = [toScan EXCEPT ![t] = Threads \ {t}]
            /\ Goto(t, "scan")
            /\ UNCHANGED <<reclaim, item>>
  /\ UNCHANGED <<sharedVars, sectionVars, cache, reclaims, indexCache, userVars, block, chunk,
                 inside, changed, next>>

\* discard_item: the last one releases the block.
Discard(t) ==
  /\ pc[t] = "discard"
  /\ LET b == item[t].block IN
     /\ blocks' = [blocks EXCEPT ![b].livingItems = @ - 1]
     /\ IF blocks[b].livingItems = 1 THEN Goto(t, "release") /\ UNCHANGED item
                                     ELSE Recycled(t)
  /\ UNCHANGED <<blocksEndIndex, fullCaches, cell, sectionVars, cacheVars, userVars, block,
                 chunk, toScan, inside, changed, next>>

Release(t) ==
  /\ pc[t] = "release"
  /\ blocks' = [blocks EXCEPT ![item[t].block].version = @ + 1]
  /\ Recycled(t)
  /\ UNCHANGED <<blocksEndIndex, fullCaches, cell, sectionVars, cacheVars, userVars, block,
                 chunk, toScan, inside, changed, next>>

-----------------------------------------------------------------------------
\* update_index_cache: the indices of the others are loaded one by one.
Scan(t) ==
  /\ pc[t] = "scan"
  /\ \E u \in toScan[t] :
       /\ toScan' = [toScan EXCEPT ![t] = @ \ {u}]
       /\ inside' = [inside EXCEPT ![t] = IF indices[u] % 2 = 1 THEN @ \cup {u} ELSE @]
       /\ changed' = [changed EXCEPT ![t] = IF indices[u] # indexCache[t][u] THEN @ \cup {u} ELSE @]
       /\ indexCache' = [indexCache EXCEPT ![t][u] = indices[u]]
  /\ UNCHANGED <<sharedVars, sectionVars, cache, reclaim, reclaims, pc, userVars, item, block,
                 chunk, next>>

\* Mutant: the mask of those that have not changed is taken the wrong way round.
Blocking_Changed(t) == inside[t] \cap changed[t]
\* A full cache waits for all that are inside now,
Blocking(t) == inside[t]
\* and an older one for those that have been all the time.
StillBlocking(t, users) == users \cap (inside[t] \ changed[t])

\* evaluate_caches_for_reclamation
Evaluate(t) ==
  /\ pc[t] = "scan" /\ toScan[t] = {}
  /\ LET older == [k \in DOMAIN reclaims[t] |->
                     [reclaims[t][k] EXCEPT !.users = StillBlocking(t, @)]]
     IN  reclaims' = [reclaims EXCEPT ![t] =
                        IF reclaim[t] = << >> THEN older
                        ELSE Append(older, [users |-> Blocking(t), items |-> reclaim[t]])]
  /\ reclaim' = [reclaim EXCEPT ![t] = << >>]
  /\ inside' = [inside EXCEPT ![t] = {}]
  /\ changed' = [changed EXCEPT ![t] = {}]
  /\ next' = [next EXCEPT ![t] = 1]
  /\ Goto(t, "reclaim")
  /\ UNCHANGED <<sharedVars, sectionVars, cache, indexCache, userVars, item, block, chunk, toScan>>

\* The last cache takes the place of one that is pushed, and is passed over.
Without(caches, k) == Front([caches EXCEPT ![k] = caches[Len(caches)]])

Reclaim(t) ==
  /\ pc[t] = "reclaim"
  /\ LET caches == reclaims[t]
         free == {k \in next[t] .. Len(caches) : caches[k].users = {}}
     IN  \/ /\ free = {}
            /\ reclaim' = [reclaim EXCEPT ![t] = <<item[t]>>]
            /\ next' = [next EXCEPT ![t] = 1]
            /\ Recycled(t)
            /\ UNCHANGED <<fullCaches, reclaims>>
         \/ \E k \in free :
            /\ \A j \in free : k =< j
            /\ fullCaches' = fullCaches \cup {caches[k].items}
            /\ reclaims' = [reclaims EXCEPT ![t] = Without(caches, k)]
            /\ next' = [next EXCEPT ![t] = k + 1]
            /\ UNCHANGED <<reclaim, item, pc>>
  /\ UNCHANGED <<blocks, blocksEndIndex, cell, sectionVars, cache, indexCache, userVars,
                 block, chunk, toScan, inside, changed>>

-----------------------------------------------------------------------------
\* Nobody is in a call, and the data structure is empty.
UnsafeReset ==
  /\ cell = None /\ \A t \in Threads : pc[t] = "outside" /\ mine[t] = None
  /\ blocks' = [b \in Blocks |-> IF b < blocksEndIndex THEN EmptyBlock(b) ELSE blocks[b]]
  /\ blocksEndIndex' = 0
  /\ fullCaches' = {}
  /\ UNCHANGED <<cell, sectionVars, cacheVars, pc, userVars, localVars>>

Step(t) ==
  \/ PopFull(t) \/ LoadEnd(t) \/ PopAgain(t)
  \/ AllocLoad(t) \/ AllocExchange(t) \/ ClaimChunk(t) \/ PushChunk(t) \/ Advance(t)
  \/ Exit(t)
  \/ Recycle(t) \/ Discard(t) \/ Release(t) \/ Scan(t) \/ Evaluate(t) \/ Reclaim(t)

Next == \E t \in Threads : Step(t) \/ BeginGet(t) \/ Enter(t) \/ Read(t) \/ Exchange(t)

Spec == Init /\ [][Next]_vars
BufferedSpec == Init /\ [][Next \/ \E t \in Threads : Flush(t)]_vars
ResetSpec == Init /\ [][Next \/ UnsafeReset]_vars

-----------------------------------------------------------------------------
Items(c) == {c[k] : k \in DOMAIN c}

\* Items that get may return.
Available == (UNION {Items(c) : c \in fullCaches}) \cup (UNION {Items(cache[t]) : t \in Threads})

\* guard: "ensure no item that is potentially referenced by another thread is
\* recycled".  What a thread has read inside a critical section cannot be handed
\* out before the thread leaves.
Guarded == \A t \in Threads : held[t] \notin Available

\* Nor is the memory of its block given back.
BlockGuarded == \A t \in Threads : held[t] # None => blocks[held[t].block].version = 1

Parts(t) ==
  [mine |-> {mine[t]}, given |-> IF pc[t] = "release" THEN {} ELSE {item[t]},
   cache |-> Items(cache[t]), reclaim |-> Items(reclaim[t]),
   reclaims |-> UNION {Items(reclaims[t][k].items) : k \in DOMAIN reclaims[t]},
   chunk |-> Items(chunk[t])]

\* In how many places an item is.
Places(x) ==
  (IF cell = x THEN 1 ELSE 0)
  + Cardinality({c \in fullCaches : x \in Items(c)})
  + Cardinality({s \in Threads \X {"mine", "given", "cache", "reclaim", "reclaims", "chunk"} :
                   x \in Parts(s[1])[s[2]]})

\* However many threads divide a block and give its items back, an item is in one
\* place at a time, and the block is released when all its items are discarded.
ItemsKept ==
  \A b \in Blocks :
    LET items == {Item(b, k) : k \in 0 .. itemRows(b) - 1}
        living == {x \in items : x.place >= blocks[b].pushSync \/ Places(x) # 0}
    IN  /\ \A x \in items : Places(x) <= 1
        /\ blocks[b].livingItems = Cardinality(living)
        /\ blocks[b].version = 2 => living = {}
=============================================================================
