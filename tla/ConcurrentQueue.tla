--------------------------- MODULE ConcurrentQueue ---------------------------
(***************************************************************************)
(* concurrent_queue.h, for items whose assignment does not throw.          *)
(*                                                                         *)
(* A producer writes to a chain of ring buffers of its own: the producer   *)
(* alone links a larger buffer to the last one of the chain and goes on    *)
(* there, and never comes back to an older one.  The queue has a slot for  *)
(* each producer, which holds the buffer where consumers begin to look.    *)
(* A consumer keeps one buffer and pops from it until that fails; then it  *)
(* visits the slots, and replaces the buffer of a slot by a later one of   *)
(* its chain when the older one is used up.                                *)
(*                                                                         *)
(* Memory accesses are atomic and sequentially consistent.  Items are the  *)
(* numbers of the push that wrote them (slotTotal of try_push).            *)
(***************************************************************************)
EXTENDS Integers, FiniteSets, SequencesExt

CONSTANTS
  Producers,
  Consumers,
  InitialProducerCapacity,
  BufferCapacityMax,
  ReserveCapacities,                \* bound: what the program gives to reserve()
  ConsumerForceRelocationPopCount,
  RelocationIndices,                \* values of m_relocationIndex (2^16)
  MaxPushes,                        \* bound: how often each producer pushes
  NoItem,
  Dummy                             \* the dummy buffer, which nothing is ever pushed to

ASSUME QueueAssumption ==
  /\ IsFiniteSet(Consumers)
  /\ InitialProducerCapacity \in Nat \ {0}
  /\ BufferCapacityMax \in Nat \ {0}
  /\ ReserveCapacities \subseteq Nat \ {0}
  /\ ConsumerForceRelocationPopCount \in Nat
  /\ RelocationIndices \in Nat \ {0}
  /\ MaxPushes \in Nat
  /\ NoItem \notin Nat

VARIABLES
  chain,       \* chain[p]: the buffers of p, each linked to the next by m_next
  slots,       \* slots[p]: the buffer in the slot of p, 0 before it has one
  registered,  \* the producers in the order of the slots they have claimed
  postIterator,   \* postIterator[p]: how many had stored their buffer when p had
  producerCount,  \* m_producerCount: the slots that consumers visit
  producerPc,  \* how far p is in push
  pushes,      \* how often p called push
  pc,          \* how far c is in try_pop
  kept,        \* kept[c]: the buffer of t_consumer
  popCounter,  \* pops of c since it last relocated
  number,      \* what c read of m_written, and then the number of its item
  popped,      \* whether c relocates after a pop that succeeded
  toVisit,     \* the slots that c has still to visit
  seen,        \* the buffer that c found in the slot it visits
  inspect      \* the buffer that c looks at, at `seen' or behind it

registryVars == <<registered, postIterator, producerCount>>
producerVars == <<chain, registryVars, producerPc, pushes>>
relocationVars == <<popped, toVisit, seen, inspect>>
vars == <<chain, slots, registryVars, producerPc, pushes,
          pc, kept, popCounter, number, relocationVars>>

-----------------------------------------------------------------------------

\* A new buffer.  An empty slot of the ring has no item.
producer_buffer(capacity) ==
  [capacity |-> capacity, preReadSync |-> 0, readSlot |-> 0, written |-> 0,
   block |-> [s \in 0 .. capacity - 1 |-> NoItem]]

\* A buffer is named by its producer and its place in the chain.
BufferOf(b) == chain[b.p][b.i]
HasNext(b) == b.i < Len(chain[b.p])
\* Mutant: compares with the reserved items instead of the claimed ones.
UsedUp_Reserved(b) == BufferOf(b).preReadSync = BufferOf(b).written
UsedUp(b) == BufferOf(b).readSlot = BufferOf(b).written

\* The slot of the ring that comes next in the last buffer of a chain.
WriteSlot(buffers) == Last(buffers).written % Last(buffers).capacity

is_valid(b) == b # Dummy

\* Mutant: does not look at the entries.
is_active_AnyEntries(b) == ~HasNext(b)
\* "Contains entries and / or has no next buffer".
is_active(b) == ~HasNext(b) \/ ~UsedUp(b)

\* The first power of two that is large enough, or the largest capacity.
align_value_pow2(n) ==
  LET lastBit == Cardinality({k \in 0 .. n : 2 ^ k < n})
  IN  IF 2 ^ lastBit \in 1 .. BufferCapacityMax THEN 2 ^ lastBit ELSE BufferCapacityMax

create_producer_buffer(size) == producer_buffer(align_value_pow2(size))

-----------------------------------------------------------------------------

Init ==
  /\ chain = [p \in Producers |-> << >>]
  /\ slots = [p \in Producers |-> 0]
  /\ registered = << >>
  /\ postIterator = [p \in Producers |-> 0]
  /\ producerCount = 0
  /\ producerPc = [p \in Producers |-> "idle"]
  /\ pushes = [p \in Producers |-> 0]
  /\ pc = [c \in Consumers |-> "idle"]
  /\ kept = [c \in Consumers |-> Dummy]
  /\ popCounter = [c \in Consumers |-> 0]
  /\ number = [c \in Consumers |-> 0]
  /\ popped = [c \in Consumers |-> FALSE]
  /\ toVisit = [c \in Consumers |-> << >>]
  /\ seen = [c \in Consumers |-> Dummy]
  /\ inspect = [c \in Consumers |-> Dummy]

-----------------------------------------------------------------------------
\* Producers.

\* The slot gets its item and becomes valid; nobody looks at it yet.
WriteIn(buffers) ==
  [buffers EXCEPT ![Len(buffers)].block[WriteSlot(buffers)] = Last(buffers).written]

\* Mutant: counts the claimed items as gone, which may not be moved out yet.
CanWrite_ByCount(buffers) ==
  Last(buffers).written - Last(buffers).readSlot < Last(buffers).capacity
CanWrite(buffers) == Last(buffers).block[WriteSlot(buffers)] = NoItem

\* try_push finds the next slot of the ring empty and writes to it.
Push(p) ==
  /\ producerPc[p] = "idle" /\ chain[p] # << >> /\ pushes[p] < MaxPushes
  /\ CanWrite(chain[p])
  /\ chain' = [chain EXCEPT ![p] = WriteIn(@)]
  /\ pushes' = [pushes EXCEPT ![p] = @ + 1]
  /\ producerPc' = [producerPc EXCEPT ![p] = "publish"]
  /\ UNCHANGED <<slots, registryVars, pc, kept, popCounter, number, relocationVars>>

\* try_push fails: the slot still holds an item that was not popped.
PushFails(p) ==
  /\ producerPc[p] = "idle" /\ chain[p] # << >> /\ pushes[p] < MaxPushes
  /\ ~CanWrite(chain[p])
  /\ pushes' = [pushes EXCEPT ![p] = @ + 1]
  /\ producerPc' = [producerPc EXCEPT ![p] = "grow"]
  /\ UNCHANGED <<chain, slots, registryVars, pc, kept, popCounter, number, relocationVars>>

\* add_producer_buffer: m_next of the last buffer is stored, and the second
\* try_push writes to the new one.
AddProducerBuffer(p) ==
  /\ producerPc[p] = "grow"
  /\ LET larger == create_producer_buffer(2 * Last(chain[p]).capacity)
     IN  chain' = [chain EXCEPT ![p] = WriteIn(Append(@, larger))]
  /\ producerPc' = [producerPc EXCEPT ![p] = "publish"]
  /\ UNCHANGED <<slots, registryVars, pushes, pc, kept, popCounter, number, relocationVars>>

\* init_producer makes a first buffer, claims a slot and stores the buffer there.
\* The growth of the array of slots is left out here.
ClaimProducerSlot(p, capacity, next) ==
  /\ producerPc[p] = "idle" /\ chain[p] = << >>
  /\ chain' = [chain EXCEPT ![p] = <<create_producer_buffer(capacity)>>]
  /\ slots' = [slots EXCEPT ![p] = 1]
  /\ registered' = Append(registered, p)
  /\ producerPc' = [producerPc EXCEPT ![p] = next]

\* The first push of p fails on the dummy buffer.
InitProducer(p) ==
  /\ pushes[p] < MaxPushes
  /\ ClaimProducerSlot(p, InitialProducerCapacity, "register")
  /\ pushes' = [pushes EXCEPT ![p] = @ + 1]
  /\ UNCHANGED <<postIterator, producerCount, pc, kept, popCounter, number, relocationVars>>

\* The producers whose buffers are stored, as m_producerSlotPostReservation says.
Stored == {p \in Producers : chain[p] # << >> /\ producerPc[p] \notin {"register", "registerReserve"}}

\* push_producer_buffer: m_producerSlotPostReservation is raised.
PostReserve(p) ==
  /\ producerPc[p] \in {"register", "registerReserve"}
  /\ postIterator' = [postIterator EXCEPT ![p] = Cardinality(Stored) + 1]
  /\ producerPc' = [producerPc EXCEPT ![p] = IF @ = "register" THEN "count" ELSE "countReserve"]
  /\ UNCHANGED <<chain, slots, registered, producerCount, pushes,
                 pc, kept, popCounter, number, relocationVars>>

\* Mutant: compares with the number of producers that are counted.
CountProducers_Next(p) ==
  /\ producerPc[p] \in {"count", "countReserve"}
  /\ producerCount' = IF postIterator[p] = producerCount + 1 THEN postIterator[p] ELSE producerCount
  /\ chain' = IF producerPc[p] = "count" THEN [chain EXCEPT ![p] = WriteIn(@)] ELSE chain
  /\ producerPc' = [producerPc EXCEPT ![p] = IF @ = "count" THEN "publish" ELSE "idle"]
  /\ UNCHANGED <<slots, registered, postIterator, pushes,
                 pc, kept, popCounter, number, relocationVars>>

\* With as many buffers stored as slots are claimed now, m_producerCount is
\* raised to that number.  The second try_push writes to the new buffer.
CountProducers(p) ==
  /\ producerPc[p] \in {"count", "countReserve"}
  /\ producerCount' = IF postIterator[p] = Len(registered) THEN postIterator[p] ELSE producerCount
  /\ chain' = IF producerPc[p] = "count" THEN [chain EXCEPT ![p] = WriteIn(@)] ELSE chain
  /\ producerPc' = [producerPc EXCEPT ![p] = IF @ = "count" THEN "publish" ELSE "idle"]
  /\ UNCHANGED <<slots, registered, postIterator, pushes,
                 pc, kept, popCounter, number, relocationVars>>

\* try_push stores m_written and push returns.
Publish(p) ==
  /\ producerPc[p] = "publish"
  /\ chain' = [chain EXCEPT ![p][Len(chain[p])].written = @ + 1]
  /\ producerPc' = [producerPc EXCEPT ![p] = "idle"]
  /\ UNCHANGED <<slots, registryVars, pushes, pc, kept, popCounter, number, relocationVars>>

\* reserve(capacity) before the first push makes the producer's first buffer.
ReserveFirst(p, capacity) ==
  /\ ClaimProducerSlot(p, capacity, "registerReserve")
  /\ UNCHANGED <<postIterator, producerCount, pushes, pc, kept, popCounter, number, relocationVars>>

\* reserve(capacity) on a producer with a smaller buffer, which need not be full.
Reserve(p, capacity) ==
  /\ producerPc[p] = "idle" /\ chain[p] # << >>
  /\ Last(chain[p]).capacity < capacity
  /\ chain' = [chain EXCEPT ![p] = Append(@, create_producer_buffer(capacity))]
  /\ UNCHANGED <<slots, registryVars, producerPc, pushes, pc, kept, popCounter, number, relocationVars>>

-----------------------------------------------------------------------------
\* Consumers: try_pop of the buffer that c keeps.

\* try_pop returns: what the relocation worked with is of no use any more.
Return(c) ==
  /\ pc' = [pc EXCEPT ![c] = "idle"]
  /\ number' = [number EXCEPT ![c] = 0]
  /\ popped' = [popped EXCEPT ![c] = FALSE]
  /\ toVisit' = [toVisit EXCEPT ![c] = << >>]
  /\ seen' = [seen EXCEPT ![c] = Dummy]
  /\ inspect' = [inspect EXCEPT ![c] = Dummy]

\* m_written is read; of the dummy buffer it is zero for good.
ReadWritten(c) ==
  /\ pc[c] \in {"idle", "retry"}
  /\ number' = [number EXCEPT ![c] = IF is_valid(kept[c]) THEN BufferOf(kept[c]).written ELSE 0]
  /\ pc' = [pc EXCEPT ![c] = IF is_valid(kept[c]) THEN "reserve" ELSE "relocate"]
  /\ UNCHANGED <<producerVars, slots, kept, popCounter, relocationVars>>

\* m_preReadSync is raised.  With all that was written reserved, lastWritten -
\* slotReserved wraps around to more than the capacity, and the pop fails.
ReserveItem(c) ==
  /\ pc[c] = "reserve"
  /\ LET slotReserved == BufferOf(kept[c]).preReadSync + 1
     IN  /\ chain' = [chain EXCEPT ![kept[c].p][kept[c].i].preReadSync = slotReserved]
         /\ pc' = [pc EXCEPT ![c] = IF number[c] < slotReserved THEN "giveBack" ELSE "claim"]
  /\ number' = [number EXCEPT ![c] = 0]
  /\ UNCHANGED <<slots, registryVars, producerPc, pushes, kept, popCounter, relocationVars>>

\* Mutant: a pop that fails keeps its reservation.
GiveBack_Keeps(c) ==
  /\ pc[c] = "giveBack"
  /\ pc' = [pc EXCEPT ![c] = "relocate"]
  /\ UNCHANGED <<chain, slots, registryVars, producerPc, pushes,
                 kept, popCounter, number, relocationVars>>

\* The pop fails, and m_preReadSync is lowered again.
GiveBack(c) ==
  /\ pc[c] = "giveBack"
  /\ chain' = [chain EXCEPT ![kept[c].p][kept[c].i].preReadSync = @ - 1]
  /\ pc' = [pc EXCEPT ![c] = "relocate"]
  /\ UNCHANGED <<slots, registryVars, producerPc, pushes, kept, popCounter, number, relocationVars>>

\* m_readSlot is raised: the item with the old number belongs to c.
Claim(c) ==
  /\ pc[c] = "claim"
  /\ number' = [number EXCEPT ![c] = BufferOf(kept[c]).readSlot]
  /\ chain' = [chain EXCEPT ![kept[c].p][kept[c].i].readSlot = @ + 1]
  /\ pc' = [pc EXCEPT ![c] = "writeOut"]
  /\ UNCHANGED <<slots, registryVars, producerPc, pushes, kept, popCounter, relocationVars>>

\* The slot of the ring that c moves its item out of.
ReadSlot(c) == number[c] % BufferOf(kept[c]).capacity

\* write_out and post_pop_cleanup: the item is moved out and its slot is empty.
\* With several producers a consumer relocates after so many pops.
WriteOut(c) ==
  /\ pc[c] = "writeOut"
  /\ chain' = [chain EXCEPT ![kept[c].p][kept[c].i].block[ReadSlot(c)] = NoItem]
  /\ IF producerCount < 2
       THEN /\ Return(c)
            /\ UNCHANGED popCounter
       ELSE IF popCounter[c] + 1 < ConsumerForceRelocationPopCount
         THEN /\ Return(c)
              /\ popCounter' = [popCounter EXCEPT ![c] = @ + 1]
         ELSE /\ pc' = [pc EXCEPT ![c] = "relocate"]
              /\ number' = [number EXCEPT ![c] = 0]
              /\ popCounter' = [popCounter EXCEPT ![c] = 0]
              /\ popped' = [popped EXCEPT ![c] = TRUE]
              /\ UNCHANGED <<toVisit, seen, inspect>>
  /\ UNCHANGED <<slots, registryVars, producerPc, pushes, kept>>

-----------------------------------------------------------------------------
\* Consumers: relocate_consumer.

\* "Is this a dummybuffer" and "contains entries and / or has no next buffer":
\* the only producer has no other buffer to offer.
StaysAtProducer(c) == is_valid(kept[c]) /\ is_active(kept[c])

\* Mutant: relocates in the hope of another buffer of the only producer.
NothingToVisit_NoStay(c) == producerCount = 0

NothingToVisit(c) ==
  \/ producerCount = 0
  \/ producerCount = 1 /\ StaysAtProducer(c)

\* try_pop returns false, or true if c has popped an item before.
NoRelocation(c) ==
  /\ pc[c] = "relocate"
  /\ NothingToVisit(c)
  /\ Return(c)
  /\ UNCHANGED <<producerVars, slots, kept, popCounter>>

\* The visit begins at m_relocationIndex, which has any value as all consumers
\* raise it, and takes as many slots as there are producers now.
BeginRelocation(c) ==
  /\ pc[c] = "relocate"
  /\ ~NothingToVisit(c)
  /\ LET producers == producerCount
     IN  \E relocation \in 0 .. RelocationIndices - 1 :
           toVisit' = [toVisit EXCEPT ![c] =
             [n \in 1 .. producers |-> 1 + (((relocation + n - 1) % RelocationIndices) % producers)]]
  /\ pc' = [pc EXCEPT ![c] = "visit"]
  /\ UNCHANGED <<producerVars, slots, kept, popCounter, number, popped, seen, inspect>>

\* The buffer in the next slot is loaded.
Visit(c) ==
  /\ pc[c] = "visit" /\ toVisit[c] # << >>
  /\ LET p == registered[Head(toVisit[c])]
         b == [p |-> p, i |-> slots[p]]
     IN  /\ seen' = [seen EXCEPT ![c] = b]
         /\ inspect' = [inspect EXCEPT ![c] = b]
  /\ toVisit' = [toVisit EXCEPT ![c] = Tail(@)]
  /\ pc' = [pc EXCEPT ![c] = "size"]
  /\ UNCHANGED <<producerVars, slots, kept, popCounter, number, popped>>

VisitedAll(c) ==
  /\ pc[c] = "visit" /\ toVisit[c] = << >>
  /\ Return(c)
  /\ UNCHANGED <<producerVars, slots, kept, popCounter>>

\* size() adds up the chain, one buffer in a step; it is zero only if all are.
Size(c) ==
  /\ pc[c] = "size"
  /\ IF UsedUp(inspect[c]) /\ HasNext(inspect[c])
       THEN /\ inspect' = [inspect EXCEPT ![c].i = @ + 1]
            /\ UNCHANGED pc
       ELSE /\ inspect' = [inspect EXCEPT ![c] = seen[c]]
            /\ pc' = [pc EXCEPT ![c] = IF UsedUp(inspect[c]) THEN "visit" ELSE "active"]
  /\ UNCHANGED <<producerVars, slots, kept, popCounter, number, popped, toVisit, seen>>

\* c keeps b, and pops from it unless it has popped before it relocated.
Keep(c, b) ==
  /\ kept' = [kept EXCEPT ![c] = b]
  /\ popCounter' = [popCounter EXCEPT ![c] = 0]
  /\ IF popped[c]
       THEN Return(c)
       ELSE /\ pc' = [pc EXCEPT ![c] = "retry"]
            /\ toVisit' = [toVisit EXCEPT ![c] = << >>]
            /\ seen' = [seen EXCEPT ![c] = Dummy]
            /\ inspect' = [inspect EXCEPT ![c] = Dummy]
            /\ UNCHANGED <<number, popped>>

KeepActive(c) ==
  /\ pc[c] = "active"
  /\ is_active(seen[c])
  /\ Keep(c, seen[c])
  /\ UNCHANGED <<producerVars, slots>>

\* find_back begins at a buffer that is used up and linked, and stays so.
FindBack(c) ==
  /\ pc[c] = "active"
  /\ ~is_active(seen[c])
  /\ inspect' = [inspect EXCEPT ![c].i = @ + 1]
  /\ pc' = [pc EXCEPT ![c] = "findBack"]
  /\ UNCHANGED <<producerVars, slots, kept, popCounter, number, popped, toVisit, seen>>

\* find_back compares m_readSlot and m_written of a buffer behind it.
InspectBack(c) ==
  /\ pc[c] = "findBack"
  /\ pc' = [pc EXCEPT ![c] = IF UsedUp(inspect[c]) THEN "next" ELSE "replace"]
  /\ UNCHANGED <<producerVars, slots, kept, popCounter, number, relocationVars>>

\* find_back goes on to m_next of a buffer that was empty when it was inspected.
InspectNext(c) ==
  /\ pc[c] = "next"
  /\ HasNext(inspect[c])
  /\ inspect' = [inspect EXCEPT ![c].i = @ + 1]
  /\ pc' = [pc EXCEPT ![c] = "findBack"]
  /\ UNCHANGED <<producerVars, slots, kept, popCounter, number, popped, toVisit, seen>>

\* find_back returns nothing, and c keeps the buffer of the slot.
NoSuccessor(c) ==
  /\ pc[c] = "next"
  /\ ~HasNext(inspect[c])
  /\ Keep(c, seen[c])
  /\ UNCHANGED <<producerVars, slots>>

\* The successor goes to the slot, whatever the slot holds by now.
ReplaceSlot(c) ==
  /\ pc[c] = "replace"
  /\ slots' = [slots EXCEPT ![inspect[c].p] = inspect[c].i]
  /\ Keep(c, inspect[c])
  /\ UNCHANGED producerVars

-----------------------------------------------------------------------------

push(p) ==
  \/ InitProducer(p)
  \/ PostReserve(p)
  \/ CountProducers(p)
  \/ Push(p)
  \/ PushFails(p)
  \/ AddProducerBuffer(p)
  \/ Publish(p)

reserve(p) == \E capacity \in ReserveCapacities : ReserveFirst(p, capacity) \/ Reserve(p, capacity)

try_pop(c) ==
  \/ ReadWritten(c)
  \/ ReserveItem(c)
  \/ GiveBack(c)
  \/ Claim(c)
  \/ WriteOut(c)

relocate_consumer(c) ==
  \/ NoRelocation(c)
  \/ BeginRelocation(c)
  \/ Visit(c)
  \/ VisitedAll(c)
  \/ Size(c)
  \/ KeepActive(c)
  \/ FindBack(c)
  \/ InspectBack(c)
  \/ InspectNext(c)
  \/ NoSuccessor(c)
  \/ ReplaceSlot(c)

Next ==
  \/ \E p \in Producers : push(p) \/ reserve(p)
  \/ \E c \in Consumers : try_pop(c) \/ relocate_consumer(c)

SafeSpec == Init /\ [][Next]_vars

\* A thread goes on with a push that it began, and consumers call try_pop again
\* and again, as the workers of a job handler do.
Spec ==
  /\ SafeSpec
  /\ \A p \in Producers : WF_vars(PostReserve(p) \/ CountProducers(p) \/ AddProducerBuffer(p) \/ Publish(p))
  /\ \A c \in Consumers : WF_vars(try_pop(c) \/ relocate_consumer(c))

-----------------------------------------------------------------------------
\* Properties.

ProducerPcs == {"idle", "register", "registerReserve", "count", "countReserve", "grow", "publish"}
ConsumerPcs == {"idle", "retry", "reserve", "giveBack", "claim", "writeOut", "relocate",
                "visit", "size", "active", "findBack", "next", "replace"}

BufferTypeOK(b) ==
  /\ b.capacity \in Nat \ {0}
  /\ {b.preReadSync, b.readSlot, b.written} \subseteq Nat
  /\ b.readSlot <= b.written /\ b.written - b.readSlot <= b.capacity
  /\ b.block \in [0 .. b.capacity - 1 -> Nat \cup {NoItem}]

Buffers == [p : Producers, i : Nat]

\* Type invariant.  A buffer never counts more read than written items, nor
\* more unread ones than it has room for.
TypeOK ==
  /\ \A p \in Producers :
       /\ \A i \in DOMAIN chain[p] : BufferTypeOK(chain[p][i])
       /\ slots[p] \in 0 .. Len(chain[p])
       /\ slots[p] # 0 <=> \E e \in DOMAIN registered : registered[e] = p
       /\ producerPc[p] \in ProducerPcs
       /\ pushes[p] \in 0 .. MaxPushes
       /\ postIterator[p] \in 0 .. Len(registered)
  /\ producerCount \in 0 .. Len(registered)
  /\ \A c \in Consumers :
       /\ pc[c] \in ConsumerPcs
       /\ {kept[c], seen[c], inspect[c]} \subseteq Buffers \cup {Dummy}
       /\ {popCounter[c], number[c]} \subseteq Nat
       /\ popped[c] \in BOOLEAN
       /\ \A n \in DOMAIN toVisit[c] : toVisit[c][n] \in DOMAIN registered

\* The consumers that hold a reservation in b: they raised its m_preReadSync,
\* and have neither claimed an item for it nor lowered it again.
Reserving(b) == {c \in Consumers : kept[c] = b /\ pc[c] \in {"claim", "giveBack"}}

\* m_preReadSync is ahead of m_readSlot by just the reservations that are being
\* used or given back, so a pop that nobody disturbs fails only on a buffer
\* whose items are all claimed.
ReservationsExact ==
  \A p \in Producers : \A i \in DOMAIN chain[p] :
    chain[p][i].preReadSync - chain[p][i].readSlot = Cardinality(Reserving([p |-> p, i |-> i]))

\* A consumer moves out the very item that it claimed: the item was written and
\* published, nobody else has moved it out, and the producer has not come round
\* the ring and overwritten it.
TakesItsItem ==
  \A c \in Consumers : pc[c] = "writeOut" =>
    BufferOf(kept[c]).block[ReadSlot(c)] = number[c]

\* The consumers that look for items begin at the slots: items that nobody has
\* claimed are never in a buffer that the slot has gone past.
NothingStranded ==
  \A p \in Producers : \A i \in 1 .. slots[p] - 1 : UsedUp([p |-> p, i |-> i])

\* The items of buffer i of p that were published and not claimed, oldest first.
Unclaimed(p, i) ==
  [n \in 1 .. chain[p][i].written - chain[p][i].readSlot |-> <<i, chain[p][i].readSlot + n - 1>>]

\* Over all the buffers of p.
unclaimed == [p \in Producers |-> FlattenSeq([i \in DOMAIN chain[p] |-> Unclaimed(p, i)])]

Fifo == INSTANCE PerProducerFifo WITH Items <- Nat \X Nat, queue <- unclaimed

\* "FIFO is respected within the context of single producers": every claim is a
\* claim of the oldest item of a producer, over all the buffers of its chain.
KeepsFifo == Fifo!Spec

\* "Lock-free": while consumers pop, some try_pop comes to its end time and again.
SomePopReturns == []<>(\E c \in Consumers : pc[c] = "idle")

\* When the producers are done, a consumer that no other disturbs and that calls
\* try_pop again and again gets every item, in whatever buffer of whatever
\* producer.
AllClaimed ==
  <>[](\A p \in Producers : producerPc[p] = "idle") =>
    <>[](\A p \in Producers : \A i \in DOMAIN chain[p] : UsedUp([p |-> p, i |-> i]))
=============================================================================
