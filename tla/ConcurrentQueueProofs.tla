------------------------ MODULE ConcurrentQueueProofs ------------------------
(***************************************************************************)
(* Proofs about ConcurrentQueue for any number of producers, consumers,    *)
(* pushes and buffers: what consumers reserve and claim is there (Safe),   *)
(* what they go past is used up (GonePast, KeptPast) unless find_back is   *)
(* overtaken by a producer, and then the queue is a FIFO per producer.     *)
(***************************************************************************)
EXTENDS ConcurrentQueue, FiniteSetTheorems, SequenceTheorems, WellFoundedInduction, TLAPS

\* What the chains are made of.  No item has been read more often than once,
\* so m_readSlot counts them; m_preReadSync may only be higher.
Buffer ==
  UNION {[capacity : {n}, preReadSync : Int, readSlot : Nat, written : Nat,
          block : [0 .. n - 1 -> Nat \cup {NoItem}]] : n \in Nat \ {0}}

\* The buffer with that name exists.
Exists(b) == b \in Buffers /\ b.i \in 1 .. Len(chain[b.p])

\* A slot has a buffer as soon as it is claimed, before consumers visit it.
RegistryHolds ==
  /\ registered \in Seq(Producers)
  /\ producerCount \in 0 .. Len(registered)
  /\ slots \in [Producers -> Nat]
  /\ \A e \in 1 .. Len(registered) :
       slots[registered[e]] \in 1 .. Len(chain[registered[e]])

Popping == {"reserve", "claim", "giveBack", "writeOut"}
Looking == {"size", "active", "findBack", "next", "replace"}

ConsumersTyped ==
  /\ pc \in [Consumers -> ConsumerPcs]
  /\ kept \in [Consumers -> Buffers \cup {Dummy}]
  /\ number \in [Consumers -> Nat]
  /\ toVisit \in [Consumers -> Seq(Nat)]
  /\ seen \in [Consumers -> Buffers \cup {Dummy}]
  /\ inspect \in [Consumers -> Buffers \cup {Dummy}]

\* What a consumer has in its hands exists.
ConsumersHold ==
  \A c \in Consumers :
    /\ kept[c] # Dummy => Exists(kept[c])
    /\ pc[c] \in Popping => Exists(kept[c])
    /\ pc[c] \in Looking => Exists(seen[c]) /\ Exists(inspect[c])
    /\ pc[c] = "active" => inspect[c] = seen[c]
    /\ \A n \in 1 .. Len(toVisit[c]) : toVisit[c][n] \in 1 .. Len(registered)

\* Nothing has been written to a first buffer whose producer is registering.
ProducersHold ==
  \A p \in Producers :
    /\ producerPc[p] \in {"grow", "publish"} => chain[p] # << >>
    /\ producerPc[p] \in {"register", "count"} => Len(chain[p]) = 1 /\ chain[p][1].written = 0

Typed ==
  /\ chain \in [Producers -> Seq(Buffer)]
  /\ producerPc \in [Producers -> ProducerPcs]
  /\ RegistryHolds /\ ConsumersTyped /\ ConsumersHold /\ ProducersHold

\* The consumers that are about to claim an item of b.
Claiming(b) == {c \in Consumers : kept[c] = b /\ pc[c] = "claim"}

\* There is an item for each of them.
ClaimsFit ==
  \A p \in Producers : \A i \in 1 .. Len(chain[p]) :
    chain[p][i].readSlot + Cardinality(Claiming([p |-> p, i |-> i])) <= chain[p][i].written

\* Items are only ever added.
ReadBefore ==
  \A c \in Consumers : pc[c] = "reserve" => number[c] <= BufferOf(kept[c]).written

CountsHold == ReservationsExact /\ ClaimsFit /\ ReadBefore

\* The items that a buffer still has to give out are in their slots ...
ItemsInPlace ==
  \A p \in Producers : \A i \in 1 .. Len(chain[p]) :
    \A n \in Nat : (chain[p][i].readSlot <= n /\ n < chain[p][i].written) =>
      chain[p][i].block[n % chain[p][i].capacity] = n

\* ... with the one that is written and not yet published.
NewestInPlace ==
  \A p \in Producers : producerPc[p] = "publish" =>
    Last(chain[p]).block[Last(chain[p]).written % Last(chain[p]).capacity] = Last(chain[p]).written

\* What was claimed was claimed by one consumer, before what is claimed next.
ClaimedOnce ==
  \A c \in Consumers : pc[c] = "writeOut" =>
    /\ number[c] < BufferOf(kept[c]).readSlot
    /\ \A d \in Consumers \ {c} :
         (pc[d] = "writeOut" /\ kept[d] = kept[c]) => number[d] # number[c]

ItemsHold == ItemsInPlace /\ NewestInPlace /\ ClaimedOnce /\ TakesItsItem

-----------------------------------------------------------------------------
\* Buffers and chains.

LEMMA BufferIs ==
  ASSUME NEW b
  PROVE  b \in Buffer <=>
           \E n \in Nat \ {0} :
             b \in [capacity : {n}, preReadSync : Int, readSlot : Nat, written : Nat,
                   block : [0 .. n - 1 -> Nat \cup {NoItem}]]
BY DEF Buffer

\* The fields of a buffer and what its users store in them.
LEMMA BufferFields ==
  ASSUME NEW b \in Buffer
  PROVE  /\ b.capacity \in Nat \ {0} /\ b.preReadSync \in Int
         /\ b.readSlot \in Nat /\ b.written \in Nat
         /\ b.block \in [0 .. b.capacity - 1 -> Nat \cup {NoItem}]
         /\ \A n \in Nat : n % b.capacity \in 0 .. b.capacity - 1
<1>1. PICK n \in Nat \ {0} :
             b \in [capacity : {n}, preReadSync : Int, readSlot : Nat, written : Nat,
                   block : [0 .. n - 1 -> Nat \cup {NoItem}]]
  BY BufferIs
<1>2. b.capacity = n
  BY <1>1
<1>. QED
  BY <1>1, <1>2

\* A field of a buffer is set.
LEMMA SetPreReadSync ==
  ASSUME NEW b \in Buffer, NEW x \in Int, NEW r, r = [b EXCEPT !.preReadSync = x]
  PROVE  /\ r \in Buffer
         /\ r.preReadSync = x
         /\ r.capacity = b.capacity /\ r.readSlot = b.readSlot /\ r.written = b.written /\ r.block = b.block
<1>1. PICK n \in Nat \ {0} :
             b \in [capacity : {n}, preReadSync : Int, readSlot : Nat, written : Nat,
                   block : [0 .. n - 1 -> Nat \cup {NoItem}]]
  BY BufferIs
<1>2. r \in [capacity : {n}, preReadSync : Int, readSlot : Nat, written : Nat,
            block : [0 .. n - 1 -> Nat \cup {NoItem}]]
  BY <1>1
<1>3. r \in Buffer
  BY <1>2, BufferIs
<1>. QED
  BY <1>1, <1>3

LEMMA SetReadSlot ==
  ASSUME NEW b \in Buffer, NEW x \in Nat, NEW r, r = [b EXCEPT !.readSlot = x]
  PROVE  /\ r \in Buffer
         /\ r.readSlot = x
         /\ r.capacity = b.capacity /\ r.preReadSync = b.preReadSync /\ r.written = b.written /\ r.block = b.block
<1>1. PICK n \in Nat \ {0} :
             b \in [capacity : {n}, preReadSync : Int, readSlot : Nat, written : Nat,
                   block : [0 .. n - 1 -> Nat \cup {NoItem}]]
  BY BufferIs
<1>2. r \in [capacity : {n}, preReadSync : Int, readSlot : Nat, written : Nat,
            block : [0 .. n - 1 -> Nat \cup {NoItem}]]
  BY <1>1
<1>3. r \in Buffer
  BY <1>2, BufferIs
<1>. QED
  BY <1>1, <1>3

LEMMA SetWritten ==
  ASSUME NEW b \in Buffer, NEW x \in Nat, NEW r, r = [b EXCEPT !.written = x]
  PROVE  /\ r \in Buffer
         /\ r.written = x
         /\ r.capacity = b.capacity /\ r.preReadSync = b.preReadSync /\ r.readSlot = b.readSlot /\ r.block = b.block
<1>1. PICK n \in Nat \ {0} :
             b \in [capacity : {n}, preReadSync : Int, readSlot : Nat, written : Nat,
                   block : [0 .. n - 1 -> Nat \cup {NoItem}]]
  BY BufferIs
<1>2. r \in [capacity : {n}, preReadSync : Int, readSlot : Nat, written : Nat,
            block : [0 .. n - 1 -> Nat \cup {NoItem}]]
  BY <1>1
<1>3. r \in Buffer
  BY <1>2, BufferIs
<1>. QED
  BY <1>1, <1>3

WithItem(b, k, x) == [b EXCEPT !.block[k] = x]

LEMMA SetItem ==
  ASSUME NEW b \in Buffer, NEW x \in Nat \cup {NoItem}, NEW k \in 0 .. b.capacity - 1,
         NEW r, r = WithItem(b, k, x)
  PROVE  /\ r \in Buffer
         /\ r.block[k] = x /\ \A n \in 0 .. b.capacity - 1 : n # k => r.block[n] = b.block[n]
         /\ r.capacity = b.capacity /\ r.preReadSync = b.preReadSync
         /\ r.readSlot = b.readSlot /\ r.written = b.written
<1>1. PICK n \in Nat \ {0} :
             b \in [capacity : {n}, preReadSync : Int, readSlot : Nat, written : Nat,
                   block : [0 .. n - 1 -> Nat \cup {NoItem}]]
  BY BufferIs
<1>2. r \in [capacity : {n}, preReadSync : Int, readSlot : Nat, written : Nat,
            block : [0 .. n - 1 -> Nat \cup {NoItem}]]
  BY <1>1 DEF WithItem
<1>3. r \in Buffer
  BY <1>2, BufferIs
<1>4. /\ r.capacity = b.capacity /\ r.preReadSync = b.preReadSync
      /\ r.readSlot = b.readSlot /\ r.written = b.written
      /\ r.block = [b.block EXCEPT ![k] = x]
  BY <1>1 DEF WithItem
<1>5. r.block[k] = x /\ \A i \in 0 .. b.capacity - 1 : i # k => r.block[i] = b.block[i]
  BY <1>1, <1>4
<1>. QED
  BY <1>3, <1>4, <1>5

LEMMA Aligned ==
  ASSUME NEW n
  PROVE  align_value_pow2(n) \in Nat \ {0}
BY QueueAssumption DEF align_value_pow2

\* A new buffer has no items.
LEMMA NewBuffer ==
  ASSUME NEW size
  PROVE  /\ create_producer_buffer(size) \in Buffer
         /\ create_producer_buffer(size).preReadSync = 0
         /\ create_producer_buffer(size).readSlot = 0
         /\ create_producer_buffer(size).written = 0
<1>. DEFINE n == align_value_pow2(size)
<1>1. n \in Nat \ {0}
  BY Aligned
<1>. HIDE DEF n
<1>2. producer_buffer(n) \in [capacity : {n}, preReadSync : Int, readSlot : Nat, written : Nat,
                              block : [0 .. n - 1 -> Nat \cup {NoItem}]]
  BY DEF producer_buffer
<1>3. producer_buffer(n) \in Buffer
  BY <1>1, <1>2, BufferIs
<1>4. create_producer_buffer(size) = producer_buffer(n)
  BY DEF create_producer_buffer, n
<1>. QED
  BY <1>3, <1>4 DEF producer_buffer

\* One buffer of a chain is replaced.
ReplacesBuffer(p, i, b) == chain' = [chain EXCEPT ![p] = [@ EXCEPT ![i] = b]]

LEMMA Replaced ==
  ASSUME chain \in [Producers -> Seq(Buffer)], NEW p \in Producers,
         NEW i \in 1 .. Len(chain[p]), NEW b \in Buffer, ReplacesBuffer(p, i, b)
  PROVE  /\ chain' \in [Producers -> Seq(Buffer)]
         /\ \A q \in Producers : Len(chain'[q]) = Len(chain[q])
         /\ chain'[p][i] = b
         /\ \A q \in Producers : \A k \in 1 .. Len(chain[q]) :
              (q # p \/ k # i) => chain'[q][k] = chain[q][k]
<1>1. chain[p] \in Seq(Buffer)
  OBVIOUS
<1>. DEFINE new == [chain[p] EXCEPT ![i] = b]
<1>2. /\ new \in Seq(Buffer) /\ Len(new) = Len(chain[p])
      /\ \A k \in 1 .. Len(chain[p]) : new[k] = IF k = i THEN b ELSE chain[p][k]
  BY <1>1, ExceptSeq
<1>. HIDE DEF new
<1>3. chain' = [chain EXCEPT ![p] = new]
  BY DEF ReplacesBuffer, new
<1>4. chain'[p] = new /\ \A q \in Producers \ {p} : chain'[q] = chain[q]
  BY <1>3
<1>. QED
  BY <1>2, <1>3, <1>4

\* A buffer is added to a chain.
AppendsBuffer(p, b) == chain' = [chain EXCEPT ![p] = Append(@, b)]

LEMMA Appended ==
  ASSUME chain \in [Producers -> Seq(Buffer)], NEW p \in Producers,
         NEW b \in Buffer, AppendsBuffer(p, b)
  PROVE  /\ chain' \in [Producers -> Seq(Buffer)]
         /\ Len(chain'[p]) = Len(chain[p]) + 1
         /\ \A q \in Producers \ {p} : Len(chain'[q]) = Len(chain[q])
         /\ chain'[p][Len(chain[p]) + 1] = b
         /\ \A q \in Producers : \A k \in 1 .. Len(chain[q]) : chain'[q][k] = chain[q][k]
<1>1. chain[p] \in Seq(Buffer)
  OBVIOUS
<1>. DEFINE new == Append(chain[p], b)
<1>2. /\ new \in Seq(Buffer) /\ Len(new) = Len(chain[p]) + 1
      /\ \A k \in 1 .. Len(chain[p]) : new[k] = chain[p][k]
      /\ new[Len(chain[p]) + 1] = b
  BY <1>1, AppendProperties
<1>. HIDE DEF new
<1>3. chain' = [chain EXCEPT ![p] = new]
  BY DEF AppendsBuffer, new
<1>4. chain'[p] = new /\ \A q \in Producers \ {p} : chain'[q] = chain[q]
  BY <1>3
<1>. QED
  BY <1>2, <1>3, <1>4

-----------------------------------------------------------------------------
\* What a step does to the items and to the consumers that pop them.

ConsumersStay == UNCHANGED <<pc, kept, number>>

OthersStay(c) ==
  \A d \in Consumers \ {c} :
    pc'[d] = pc[d] /\ kept'[d] = kept[d] /\ number'[d] = number[d]

\* Nobody pops and nothing is written.
Quiet ==
  /\ chain' = chain
  /\ \A p \in Producers : producerPc'[p] = "publish" => producerPc[p] = "publish"
  /\ \/ ConsumersStay
     \/ \E c \in Consumers : OthersStay(c) /\ pc[c] \notin Popping /\ pc'[c] \notin Popping

\* c is at a buffer and goes on with it.
AtBuffer(c, from) ==
  /\ Exists(kept[c]) /\ pc[c] = from
  /\ kept'[c] = kept[c] /\ OthersStay(c)
  /\ UNCHANGED producerPc

Reads(c) ==
  /\ Exists(kept[c]) /\ pc[c] \notin Popping /\ pc'[c] = "reserve"
  /\ kept'[c] = kept[c] /\ OthersStay(c)
  /\ number'[c] = BufferOf(kept[c]).written
  /\ UNCHANGED <<chain, producerPc>>

Reserves(c) ==
  /\ AtBuffer(c, "reserve")
  /\ ReplacesBuffer(kept[c].p, kept[c].i, [BufferOf(kept[c]) EXCEPT !.preReadSync = @ + 1])
  /\ \/ pc'[c] = "claim" /\ ~(number[c] < BufferOf(kept[c]).preReadSync + 1)
     \/ pc'[c] = "giveBack"

GivesBack(c) ==
  /\ AtBuffer(c, "giveBack")
  /\ ReplacesBuffer(kept[c].p, kept[c].i, [BufferOf(kept[c]) EXCEPT !.preReadSync = @ - 1])
  /\ pc'[c] \notin Popping

Claims(c) ==
  /\ AtBuffer(c, "claim")
  /\ ReplacesBuffer(kept[c].p, kept[c].i, [BufferOf(kept[c]) EXCEPT !.readSlot = @ + 1])
  /\ pc'[c] = "writeOut"
  /\ number'[c] = BufferOf(kept[c]).readSlot

WritesOut(c) ==
  /\ AtBuffer(c, "writeOut")
  /\ ReplacesBuffer(kept[c].p, kept[c].i, [BufferOf(kept[c]) EXCEPT !.block[ReadSlot(c)] = NoItem])
  /\ pc'[c] \notin Popping

\* The slot that p writes to is free.
Writes(p) ==
  /\ chain[p] # << >> /\ producerPc[p] # "publish"
  /\ CanWrite(chain[p]) \/ Last(chain[p]).written = 0
  /\ ReplacesBuffer(p, Len(chain[p]),
       [Last(chain[p]) EXCEPT !.block[WriteSlot(chain[p])] = Last(chain[p]).written])
  /\ producerPc' = [producerPc EXCEPT ![p] = "publish"]
  /\ ConsumersStay

Publishes(p) ==
  /\ chain[p] # << >> /\ producerPc[p] = "publish"
  /\ ReplacesBuffer(p, Len(chain[p]), [Last(chain[p]) EXCEPT !.written = @ + 1])
  /\ producerPc' = [producerPc EXCEPT ![p] = "idle"]
  /\ ConsumersStay

\* p adds a buffer, perhaps with a first item.
Adds(p, b) ==
  /\ producerPc[p] \in {"idle", "grow"}
  /\ b \in Buffer /\ b.preReadSync = 0 /\ b.readSlot = 0 /\ b.written = 0
  /\ AppendsBuffer(p, b)
  /\ producerPc'[p] = "publish" => b.block[0 % b.capacity] = 0
  /\ \A q \in Producers \ {p} : producerPc'[q] = producerPc[q]
  /\ ConsumersStay

Effect ==
  \/ Quiet
  \/ \E c \in Consumers : Reads(c) \/ Reserves(c) \/ GivesBack(c) \/ Claims(c) \/ WritesOut(c)
  \/ \E p \in Producers : Writes(p) \/ Publishes(p) \/ \E b \in Buffer : Adds(p, b)

LEMMA LastBuffer ==
  ASSUME chain \in [Producers -> Seq(Buffer)], NEW p \in Producers, chain[p] # << >>
  PROVE  /\ Len(chain[p]) \in Nat \ {0} /\ Len(chain[p]) \in 1 .. Len(chain[p])
         /\ Last(chain[p]) = chain[p][Len(chain[p])]
         /\ Last(chain[p]) \in Buffer
<1>1. chain[p] \in Seq(Buffer)
  OBVIOUS
<1>2. Len(chain[p]) \in Nat \ {0}
  BY <1>1, EmptySeq
<1>. QED
  BY <1>1, <1>2, ElementOfSeq DEF Last

\* WriteIn changes the last buffer only.
LEMMA WritesIn ==
  ASSUME chain \in [Producers -> Seq(Buffer)], NEW p \in Producers, chain[p] # << >>,
         chain' = [chain EXCEPT ![p] = WriteIn(@)]
  PROVE  ReplacesBuffer(p, Len(chain[p]),
           [Last(chain[p]) EXCEPT !.block[WriteSlot(chain[p])] = Last(chain[p]).written])
<1>1. Last(chain[p]) = chain[p][Len(chain[p])]
  BY LastBuffer
<1>. QED
  BY <1>1 DEF WriteIn, ReplacesBuffer

LEMMA AppendWrites ==
  ASSUME chain \in [Producers -> Seq(Buffer)], NEW p \in Producers,
         NEW size
  PROVE  \E b \in Buffer :
           /\ b.preReadSync = 0 /\ b.readSlot = 0 /\ b.written = 0
           /\ b.block[0 % b.capacity] = 0
           /\ WriteIn(Append(chain[p], create_producer_buffer(size))) = Append(chain[p], b)
<1>. DEFINE new == create_producer_buffer(size)
            longer == Append(chain[p], new)
            n == Len(longer)
<1>1. new \in Buffer /\ new.preReadSync = 0 /\ new.readSlot = 0 /\ new.written = 0
  BY NewBuffer
<1>. HIDE DEF new
<1>2. chain[p] \in Seq(Buffer)
  OBVIOUS
<1>3. /\ longer \in Seq(Buffer) /\ n = Len(chain[p]) + 1 /\ Len(chain[p]) \in Nat
      /\ \A k \in 1 .. Len(chain[p]) : longer[k] = chain[p][k]
      /\ longer[n] = new
  BY <1>1, <1>2, AppendProperties, LenProperties
<1>4. /\ 0 % new.capacity \in 0 .. new.capacity - 1
      /\ new.block \in [0 .. new.capacity - 1 -> Nat \cup {NoItem}]
  BY <1>1, BufferFields
<1>10. PICK b : b = [new EXCEPT !.block[0 % new.capacity] = 0]
  OBVIOUS
<1>5. /\ b \in Buffer /\ b.preReadSync = 0 /\ b.readSlot = 0 /\ b.written = 0
      /\ b.capacity = new.capacity /\ b.block[0 % new.capacity] = 0
  <2>. DEFINE k == 0 % new.capacity
  <2>1. k \in 0 .. new.capacity - 1 /\ 0 \in Nat \cup {NoItem} /\ b = WithItem(new, k, 0)
    BY <1>4, <1>10 DEF WithItem
  <2>. HIDE DEF k
  <2>2. /\ b \in Buffer /\ b.block[k] = 0 /\ b.capacity = new.capacity
        /\ b.preReadSync = new.preReadSync /\ b.readSlot = new.readSlot /\ b.written = new.written
    BY <1>1, <2>1, SetItem
  <2>. QED
    BY <1>1, <2>2 DEF k
<1>6. b.block[0 % b.capacity] = 0
  BY <1>5
<1>. HIDE DEF longer
<1>7. WriteIn(longer) = [longer EXCEPT ![n] = b]
  <2>1. Last(longer) = new
    BY <1>3 DEF Last
  <2>2. WriteSlot(longer) = 0 % new.capacity
    BY <1>1, <2>1 DEF WriteSlot
  <2>. QED
    BY <1>1, <1>3, <1>10, <2>1, <2>2 DEF WriteIn
<1>8. [longer EXCEPT ![n] = b] = Append(chain[p], b)
  <2>. DEFINE x == [longer EXCEPT ![n] = b]
              y == Append(chain[p], b)
  <2>1. /\ x \in Seq(Buffer) /\ Len(x) = n
        /\ \A k \in 1 .. n : x[k] = IF k = n THEN b ELSE longer[k]
    <3>1. n \in 1 .. Len(longer)
      BY <1>3
    <3>. QED
      BY <1>3, <1>5, <3>1, ExceptSeq
  <2>2. /\ y \in Seq(Buffer) /\ Len(y) = n
        /\ \A k \in 1 .. Len(chain[p]) : y[k] = chain[p][k]
        /\ y[n] = b
    BY <1>2, <1>3, <1>5, AppendProperties
  <2>. HIDE DEF x, y
  <2>3. \A k \in 1 .. n : x[k] = y[k]
    <3>. SUFFICES ASSUME NEW k \in 1 .. n
                  PROVE  x[k] = y[k]
      OBVIOUS
    <3>1. CASE k = n
      BY <2>1, <2>2, <3>1
    <3>2. CASE k # n
      <4>1. Len(chain[p]) \in Nat /\ n = Len(chain[p]) + 1
        BY <1>3
      <4>2. k \in 1 .. Len(chain[p])
        BY <3>2, <4>1
      <4>3. longer[k] = chain[p][k]
        BY <1>3, <4>2
      <4>. QED
        BY <2>1, <2>2, <3>2, <4>2, <4>3
    <3>. QED
      BY <3>1, <3>2
  <2>4. x = y
    BY <2>1, <2>2, <2>3, SeqEqual
  <2>. QED
    BY <2>4 DEF x, y
<1>9. WriteIn(longer) = Append(chain[p], b)
  BY <1>7, <1>8
<1>. QED
  BY <1>5, <1>6, <1>9 DEF longer, new

LEMMA ProducerEffects ==
  ASSUME Typed, NEW p \in Producers, push(p) \/ reserve(p)
  PROVE  Effect
<1>1. /\ chain \in [Producers -> Seq(Buffer)] /\ producerPc \in [Producers -> ProducerPcs]
      /\ ProducersHold
  BY DEF Typed
\* A new buffer, with or without an item.
<1>2. ASSUME NEW b \in Buffer, Adds(p, b) PROVE Effect
  BY <1>2 DEF Effect
<1>3. ASSUME NEW size, NEW next \in {"register", "registerReserve"},
             ClaimProducerSlot(p, size, next), ConsumersStay
      PROVE  Effect
  <2>. DEFINE b == create_producer_buffer(size)
  <2>1. b \in Buffer /\ b.preReadSync = 0 /\ b.readSlot = 0 /\ b.written = 0
    BY NewBuffer
  <2>. HIDE DEF b
  <2>2. chain' = [chain EXCEPT ![p] = <<b>>] /\ chain[p] = << >>
        /\ producerPc[p] = "idle" /\ producerPc' = [producerPc EXCEPT ![p] = next]
    BY <1>3 DEF ClaimProducerSlot, b
  <2>3. AppendsBuffer(p, b)
    <3>1. Append(chain[p], b) = <<b>>
      BY <2>2
    <3>. QED
      BY <2>2, <3>1 DEF AppendsBuffer
  <2>. QED
    BY <1>1, <1>2, <1>3, <2>1, <2>2, <2>3 DEF Adds
<1>4. CASE InitProducer(p)
  <2>1. ConsumersStay
    BY <1>4 DEF InitProducer, ConsumersStay
  <2>2. ClaimProducerSlot(p, InitialProducerCapacity, "register")
    BY <1>4 DEF InitProducer
  <2>. QED
    BY <1>3, <2>1, <2>2
<1>5. CASE PostReserve(p)
  BY <1>1, <1>5 DEF PostReserve, Effect, Quiet, ConsumersStay
<1>6. CASE CountProducers(p)
  <2>1. CASE producerPc[p] = "count"
    <3>1. Len(chain[p]) = 1 /\ chain[p][1].written = 0 /\ chain[p] # << >>
      BY <1>1, <2>1 DEF ProducersHold
    <3>2. Last(chain[p]).written = 0
      BY <3>1 DEF Last
    <3>3. chain' = [chain EXCEPT ![p] = WriteIn(@)] /\ producerPc' = [producerPc EXCEPT ![p] = "publish"]
          /\ ConsumersStay
      BY <1>6, <2>1 DEF CountProducers, ConsumersStay
    <3>. QED
      BY <1>1, <2>1, <3>1, <3>2, <3>3, WritesIn DEF Writes, Effect
  <2>2. CASE producerPc[p] # "count"
    <3>1. chain' = chain /\ producerPc' = [producerPc EXCEPT ![p] = "idle"] /\ ConsumersStay
      BY <1>6, <2>2 DEF CountProducers, ConsumersStay
    <3>. QED
      BY <1>1, <3>1 DEF Effect, Quiet
  <2>. QED
    BY <2>1, <2>2
<1>7. CASE Push(p)
  <2>1. /\ producerPc[p] = "idle" /\ chain[p] # << >> /\ CanWrite(chain[p])
        /\ chain' = [chain EXCEPT ![p] = WriteIn(@)]
        /\ producerPc' = [producerPc EXCEPT ![p] = "publish"] /\ ConsumersStay
    BY <1>7 DEF Push, ConsumersStay
  <2>. QED
    BY <1>1, <2>1, WritesIn DEF Writes, Effect
<1>8. CASE PushFails(p)
  BY <1>1, <1>8 DEF PushFails, Effect, Quiet, ConsumersStay
<1>9. CASE AddProducerBuffer(p)
  <2>1. PICK b \in Buffer :
           /\ b.preReadSync = 0 /\ b.readSlot = 0 /\ b.written = 0
           /\ b.block[0 % b.capacity] = 0
           /\ WriteIn(Append(chain[p], create_producer_buffer(2 * Last(chain[p]).capacity)))
                = Append(chain[p], b)
    BY <1>1, AppendWrites
  <2>2. /\ producerPc[p] = "grow" /\ producerPc' = [producerPc EXCEPT ![p] = "publish"]
        /\ chain' = [chain EXCEPT ![p] = WriteIn(Append(chain[p], create_producer_buffer(2 * Last(chain[p]).capacity)))]
        /\ ConsumersStay
    BY <1>9 DEF AddProducerBuffer, ConsumersStay
  <2>3. AppendsBuffer(p, b)
    BY <2>1, <2>2 DEF AppendsBuffer
  <2>. QED
    BY <1>1, <1>2, <2>1, <2>2, <2>3 DEF Adds
<1>10. CASE Publish(p)
  <2>1. producerPc[p] = "publish" /\ producerPc' = [producerPc EXCEPT ![p] = "idle"] /\ ConsumersStay
        /\ chain' = [chain EXCEPT ![p][Len(chain[p])].written = @ + 1]
    BY <1>10 DEF Publish, ConsumersStay
  <2>2. chain[p] # << >>
    BY <1>1, <2>1 DEF ProducersHold
  <2>3. Last(chain[p]) = chain[p][Len(chain[p])]
    BY <1>1, <2>2, LastBuffer
  <2>4. ReplacesBuffer(p, Len(chain[p]), [Last(chain[p]) EXCEPT !.written = @ + 1])
    BY <2>1, <2>3 DEF ReplacesBuffer
  <2>. QED
    BY <2>1, <2>2, <2>4 DEF Publishes, Effect
<1>11. ASSUME NEW capacity \in ReserveCapacities, ReserveFirst(p, capacity)
       PROVE  Effect
  <2>1. ConsumersStay /\ ClaimProducerSlot(p, capacity, "registerReserve")
    BY <1>11 DEF ReserveFirst, ConsumersStay
  <2>. QED
    BY <1>3, <2>1
<1>12. ASSUME NEW capacity \in ReserveCapacities, Reserve(p, capacity)
       PROVE  Effect
  <2>. DEFINE b == create_producer_buffer(capacity)
  <2>1. b \in Buffer /\ b.preReadSync = 0 /\ b.readSlot = 0 /\ b.written = 0
    BY NewBuffer
  <2>2. /\ producerPc[p] = "idle" /\ producerPc' = producerPc
        /\ AppendsBuffer(p, b) /\ ConsumersStay
    BY <1>12 DEF Reserve, ConsumersStay, AppendsBuffer
  <2>. HIDE DEF b
  <2>. QED
    BY <1>2, <2>1, <2>2 DEF Adds
<1>. QED
  BY <1>4, <1>5, <1>6, <1>7, <1>8, <1>9, <1>10, <1>11, <1>12 DEF push, reserve

LEMMA ConsumerEffects ==
  ASSUME Typed, NEW c \in Consumers, try_pop(c) \/ relocate_consumer(c)
  PROVE  Effect
<1>1. /\ chain \in [Producers -> Seq(Buffer)]
      /\ pc \in [Consumers -> ConsumerPcs]
      /\ kept \in [Consumers -> Buffers \cup {Dummy}]
      /\ number \in [Consumers -> Nat]
      /\ kept[c] # Dummy => Exists(kept[c])
      /\ pc[c] \in Popping => Exists(kept[c])
  BY DEF Typed, ConsumersTyped, ConsumersHold
<1>. USE DEF Popping
\* The steps of a relocation.
<1>2. ASSUME UNCHANGED <<chain, producerPc>>,
             pc[c] \notin Popping, pc'[c] \notin Popping, OthersStay(c)
      PROVE  Effect
  BY <1>2 DEF Effect, Quiet
<1>3. ASSUME UNCHANGED <<chain, producerPc>>, pc[c] \notin Popping,
             kept' = kept \/ \E b : kept' = [kept EXCEPT ![c] = b],
             number' = number \/ \E n : number' = [number EXCEPT ![c] = n],
             pc' = pc \/ \E s \in ConsumerPcs \ Popping : pc' = [pc EXCEPT ![c] = s]
      PROVE  Effect
  <2>1. OthersStay(c) /\ pc'[c] \notin Popping
    BY <1>1, <1>3 DEF OthersStay
  <2>. QED
    BY <1>2, <1>3, <2>1
<1>4. CASE ReadWritten(c)
  <2>1. CASE is_valid(kept[c])
    <3>1. Exists(kept[c])
      BY <1>1, <2>1 DEF is_valid
    <3>. QED
      BY <1>1, <1>4, <2>1, <3>1 DEF ReadWritten, Reads, OthersStay, Effect, producerVars
  <2>2. CASE ~is_valid(kept[c])
    BY <1>1, <1>2, <1>4, <2>2 DEF ReadWritten, OthersStay, producerVars
  <2>. QED
    BY <2>1, <2>2
<1>5. CASE ReserveItem(c)
  <2>1. AtBuffer(c, "reserve")
    BY <1>1, <1>5 DEF ReserveItem, AtBuffer, OthersStay
  <2>2. ReplacesBuffer(kept[c].p, kept[c].i, [BufferOf(kept[c]) EXCEPT !.preReadSync = @ + 1])
    BY <1>5 DEF ReserveItem, ReplacesBuffer, BufferOf
  <2>3. \/ pc'[c] = "claim" /\ ~(number[c] < BufferOf(kept[c]).preReadSync + 1)
        \/ pc'[c] = "giveBack"
    BY <1>1, <1>5 DEF ReserveItem
  <2>. QED
    BY <2>1, <2>2, <2>3 DEF Reserves, Effect
<1>6. CASE GiveBack(c)
  <2>1. AtBuffer(c, "giveBack") /\ pc'[c] \notin Popping
    BY <1>1, <1>6 DEF GiveBack, AtBuffer, OthersStay
  <2>2. ReplacesBuffer(kept[c].p, kept[c].i, [BufferOf(kept[c]) EXCEPT !.preReadSync = @ - 1])
    BY <1>6 DEF GiveBack, ReplacesBuffer, BufferOf
  <2>. QED
    BY <2>1, <2>2 DEF GivesBack, Effect
<1>7. CASE Claim(c)
  <2>1. AtBuffer(c, "claim") /\ pc'[c] = "writeOut" /\ number'[c] = BufferOf(kept[c]).readSlot
    BY <1>1, <1>7 DEF Claim, AtBuffer, OthersStay
  <2>2. ReplacesBuffer(kept[c].p, kept[c].i, [BufferOf(kept[c]) EXCEPT !.readSlot = @ + 1])
    BY <1>7 DEF Claim, ReplacesBuffer, BufferOf
  <2>. QED
    BY <2>1, <2>2 DEF Claims, Effect
<1>8. CASE WriteOut(c)
  <2>1. /\ pc[c] = "writeOut" /\ kept' = kept /\ producerPc' = producerPc
        /\ \E s \in {"idle", "relocate"} : pc' = [pc EXCEPT ![c] = s]
        /\ number' = [number EXCEPT ![c] = 0]
    BY <1>8 DEF WriteOut, Return
  <2>2. AtBuffer(c, "writeOut") /\ pc'[c] \notin Popping
    BY <1>1, <2>1 DEF AtBuffer, OthersStay
  <2>3. ReplacesBuffer(kept[c].p, kept[c].i, [BufferOf(kept[c]) EXCEPT !.block[ReadSlot(c)] = NoItem])
    BY <1>8 DEF WriteOut, ReplacesBuffer, BufferOf
  <2>. QED
    BY <2>2, <2>3 DEF WritesOut, Effect
<1>. USE DEF ConsumerPcs, producerVars
<1>9. CASE NoRelocation(c)
  BY <1>3, <1>9 DEF NoRelocation, Return
<1>10. CASE BeginRelocation(c)
  BY <1>3, <1>10 DEF BeginRelocation
<1>11. CASE Visit(c)
  BY <1>3, <1>11 DEF Visit
<1>12. CASE VisitedAll(c)
  BY <1>3, <1>12 DEF VisitedAll, Return
<1>13. CASE Size(c)
  BY <1>3, <1>13 DEF Size
<1>14. CASE KeepActive(c)
  BY <1>3, <1>14 DEF KeepActive, Keep, Return
<1>15. CASE FindBack(c)
  BY <1>3, <1>15 DEF FindBack
<1>16. CASE InspectBack(c)
  BY <1>3, <1>16 DEF InspectBack
<1>17. CASE InspectNext(c)
  BY <1>3, <1>17 DEF InspectNext
<1>18. CASE NoSuccessor(c)
  BY <1>3, <1>18 DEF NoSuccessor, Keep, Return
<1>19. CASE ReplaceSlot(c)
  BY <1>3, <1>19 DEF ReplaceSlot, Keep, Return
<1>. QED
  BY <1>4, <1>5, <1>6, <1>7, <1>8, <1>9, <1>10, <1>11, <1>12, <1>13, <1>14, <1>15, <1>16,
     <1>17, <1>18, <1>19 DEF try_pop, relocate_consumer

LEMMA Effects ==
  ASSUME Typed, [Next]_vars
  PROVE  Effect
<1>1. CASE UNCHANGED vars
  BY <1>1 DEF vars, Effect, Quiet, ConsumersStay
<1>. QED
  BY <1>1, ProducerEffects, ConsumerEffects DEF Next

-----------------------------------------------------------------------------
\* Chains only grow, so that what exists stays.

Grows ==
  /\ chain' \in [Producers -> Seq(Buffer)]
  /\ \A p \in Producers : Len(chain[p]) \in Nat /\ Len(chain'[p]) \in Nat
  /\ \A p \in Producers : Len(chain[p]) <= Len(chain'[p])
  /\ \A p \in Producers : \A i \in 1 .. Len(chain[p]) :
       /\ chain[p][i] \in Buffer
       /\ chain'[p][i].written >= chain[p][i].written
       /\ producerPc[p] # "publish" => chain'[p][i].written = chain[p][i].written
  /\ \A p \in Producers : producerPc[p] \notin {"idle", "grow"} => Len(chain'[p]) = Len(chain[p])

LEMMA ChainGrows ==
  ASSUME chain \in [Producers -> Seq(Buffer)], number \in [Consumers -> Nat], Effect
  PROVE  Grows
<1>0. /\ \A p \in Producers : Len(chain[p]) \in Nat
      /\ \A p \in Producers : \A i \in 1 .. Len(chain[p]) : chain[p][i] \in Buffer
  BY LenProperties, ElementOfSeq
<1>2. \A b \in Buffer :
        /\ b.capacity \in Nat \ {0} /\ b.preReadSync \in Int
        /\ b.readSlot \in Nat /\ b.written \in Nat
  BY BufferFields
<1>9. \A c \in Consumers : number[c] \in Nat
  OBVIOUS
\* A buffer is replaced by one with as many items.
<1>3. ASSUME NEW p \in Producers, NEW i \in 1 .. Len(chain[p]), NEW b \in Buffer,
             b.written >= chain[p][i].written,
             producerPc[p] # "publish" => b.written = chain[p][i].written,
             ReplacesBuffer(p, i, b)
      PROVE  Grows
  <2>1. /\ chain' \in [Producers -> Seq(Buffer)]
        /\ \A q \in Producers : Len(chain'[q]) = Len(chain[q])
        /\ chain'[p][i] = b
        /\ \A q \in Producers : \A k \in 1 .. Len(chain[q]) :
             (q # p \/ k # i) => chain'[q][k] = chain[q][k]
    BY <1>3, Replaced
  <2>2. ASSUME NEW q \in Producers, NEW k \in 1 .. Len(chain[q])
        PROVE  /\ chain'[q][k].written >= chain[q][k].written
               /\ producerPc[q] # "publish" => chain'[q][k].written = chain[q][k].written
    BY <1>0, <1>2, <1>3, <2>1, <2>2
  <2>. QED
    BY <1>0, <2>1, <2>2 DEF Grows
<1>4. ASSUME NEW p \in Producers, NEW b \in Buffer, AppendsBuffer(p, b),
             producerPc[p] \in {"idle", "grow"}
      PROVE  Grows
  <2>1. /\ chain' \in [Producers -> Seq(Buffer)]
        /\ Len(chain'[p]) = Len(chain[p]) + 1
        /\ \A q \in Producers \ {p} : Len(chain'[q]) = Len(chain[q])
        /\ \A q \in Producers : \A k \in 1 .. Len(chain[q]) : chain'[q][k] = chain[q][k]
    BY <1>4, Appended
  <2>2. ASSUME NEW q \in Producers, NEW k \in 1 .. Len(chain[q])
        PROVE  /\ chain'[q][k].written >= chain[q][k].written
               /\ producerPc[q] # "publish" => chain'[q][k].written = chain[q][k].written
    BY <1>0, <1>2, <2>1, <2>2
  <2>. QED
    BY <1>0, <1>4, <2>1, <2>2 DEF Grows
<1>5. CASE Quiet
  BY <1>0, <1>2, <1>5 DEF Quiet, Grows
<1>6. ASSUME NEW c \in Consumers,
             Reads(c) \/ Reserves(c) \/ GivesBack(c) \/ Claims(c) \/ WritesOut(c)
      PROVE  Grows
  <2>1. CASE Reads(c)
    BY <1>0, <1>2, <2>1 DEF Reads, Grows
  <2>. DEFINE p == kept[c].p
              i == kept[c].i
              b == BufferOf(kept[c])
  <2>2. CASE Exists(kept[c])
    <3>1. p \in Producers /\ i \in 1 .. Len(chain[p]) /\ b = chain[p][i] /\ b \in Buffer
      BY <1>0, <2>2 DEF Exists, Buffers, BufferOf
    <3>. HIDE DEF p, i, b
    <3>2. CASE Reserves(c)
      <4>1. PICK r : r = [b EXCEPT !.preReadSync = @ + 1] /\ ReplacesBuffer(p, i, r)
        BY <3>2 DEF Reserves, p, i, b
      <4>2. r \in Buffer /\ r.written = b.written
        <5>1. b.preReadSync + 1 \in Int
          BY <1>2, <3>1
        <5>. QED
          BY <3>1, <4>1, <5>1, SetPreReadSync
      <4>. QED
        <5>1. r.written >= chain[p][i].written /\ r.written = chain[p][i].written
          BY <1>2, <3>1, <4>2
        <5>. QED
          BY <1>3, <3>1, <4>1, <4>2, <5>1
    <3>3. CASE GivesBack(c)
      <4>1. PICK r : r = [b EXCEPT !.preReadSync = @ - 1] /\ ReplacesBuffer(p, i, r)
        BY <3>3 DEF GivesBack, p, i, b
      <4>2. r \in Buffer /\ r.written = b.written
        <5>1. b.preReadSync - 1 \in Int
          BY <1>2, <3>1
        <5>. QED
          BY <3>1, <4>1, <5>1, SetPreReadSync
      <4>. QED
        <5>1. r.written >= chain[p][i].written /\ r.written = chain[p][i].written
          BY <1>2, <3>1, <4>2
        <5>. QED
          BY <1>3, <3>1, <4>1, <4>2, <5>1
    <3>4. CASE Claims(c)
      <4>1. PICK r : r = [b EXCEPT !.readSlot = @ + 1] /\ ReplacesBuffer(p, i, r)
        BY <3>4 DEF Claims, p, i, b
      <4>2. r \in Buffer /\ r.written = b.written
        <5>1. b.readSlot + 1 \in Nat
          BY <1>2, <3>1
        <5>. QED
          BY <3>1, <4>1, <5>1, SetReadSlot
      <4>. QED
        <5>1. r.written >= chain[p][i].written /\ r.written = chain[p][i].written
          BY <1>2, <3>1, <4>2
        <5>. QED
          BY <1>3, <3>1, <4>1, <4>2, <5>1
    <3>5. CASE WritesOut(c)
      <4>1. PICK r : r = WithItem(b, ReadSlot(c), NoItem) /\ ReplacesBuffer(p, i, r)
        BY <3>5 DEF WritesOut, WithItem, p, i, b
      <4>2. r \in Buffer /\ r.written = b.written
        <5>1. PICK k, x : k = ReadSlot(c) /\ x = NoItem
          OBVIOUS
        <5>2. k \in 0 .. b.capacity - 1
          BY <1>9, <3>1, <5>1, BufferFields DEF ReadSlot, b
        <5>3. r = WithItem(b, k, x) /\ x \in Nat \cup {NoItem}
          BY <4>1, <5>1
        <5>4. b \in Buffer
          BY <3>1
        <5>. QED
          BY <5>2, <5>3, <5>4, SetItem
      <4>. QED
        <5>1. r.written >= chain[p][i].written /\ r.written = chain[p][i].written
          BY <1>2, <3>1, <4>2
        <5>. QED
          BY <1>3, <3>1, <4>1, <4>2, <5>1
    <3>. QED
      BY <1>6, <2>1, <3>2, <3>3, <3>4, <3>5
  <2>. QED
    BY <1>6, <2>1, <2>2 DEF Reserves, GivesBack, Claims, WritesOut, AtBuffer
<1>7. ASSUME NEW p \in Producers, Writes(p) \/ Publishes(p)
      PROVE  Grows
  <2>. DEFINE i == Len(chain[p])
              b == Last(chain[p])
  <2>1. i \in 1 .. Len(chain[p]) /\ b = chain[p][i] /\ b \in Buffer
    BY <1>7, LastBuffer DEF Writes, Publishes
  <2>. HIDE DEF i, b
  <2>2. CASE Writes(p)
    <3>1. PICK r : r = WithItem(b, WriteSlot(chain[p]), b.written) /\ ReplacesBuffer(p, i, r)
      BY <2>2 DEF Writes, WithItem, i, b
    <3>2. WriteSlot(chain[p]) \in 0 .. b.capacity - 1
      BY <1>2, <2>1, BufferFields DEF WriteSlot, b
    <3>3. r \in Buffer /\ r.written = b.written
      <4>1. PICK k, x : k = WriteSlot(chain[p]) /\ x = b.written
        OBVIOUS
      <4>2. k \in 0 .. b.capacity - 1 /\ x \in Nat
        BY <1>2, <2>1, <3>2, <4>1
      <4>3. r = WithItem(b, k, x)
        BY <3>1, <4>1
      <4>. QED
        BY <2>1, <4>2, <4>3, SetItem
    <3>. QED
      <4>1. r.written >= chain[p][i].written /\ r.written = chain[p][i].written
        BY <1>2, <2>1, <3>3
      <4>. QED
        BY <1>3, <2>1, <3>1, <3>3, <4>1
  <2>3. CASE Publishes(p)
    <3>1. PICK r : r = [b EXCEPT !.written = @ + 1] /\ ReplacesBuffer(p, i, r)
      BY <2>3 DEF Publishes, i, b
    <3>2. r \in Buffer /\ r.written = b.written + 1
      <4>1. b.written + 1 \in Nat
        BY <1>2, <2>1
      <4>. QED
        BY <2>1, <3>1, <4>1, SetWritten
    <3>. QED
      <4>1. r.written >= chain[p][i].written /\ producerPc[p] = "publish"
        BY <1>2, <2>1, <2>3, <3>2 DEF Publishes
      <4>. QED
        BY <1>3, <2>1, <3>1, <3>2, <4>1
  <2>. QED
    BY <1>7, <2>2, <2>3
<1>8. ASSUME NEW p \in Producers, NEW b \in Buffer, Adds(p, b)
      PROVE  Grows
  BY <1>4, <1>8 DEF Adds
<1>. QED
  BY <1>5, <1>6, <1>7, <1>8 DEF Effect

LEMMA StillExists ==
  ASSUME Grows, NEW b, Exists(b)
  PROVE  Exists(b)'
BY DEF Grows, Exists, Buffers

LEMMA RegistryStep ==
  ASSUME Typed, Grows, [Next]_vars
  PROVE  RegistryHolds' /\ Len(registered) \in Nat /\ Len(registered) <= Len(registered')
<1>0. /\ registered \in Seq(Producers) /\ Len(registered) \in Nat
      /\ producerCount \in 0 .. Len(registered)
      /\ slots \in [Producers -> Nat]
      /\ \A e \in 1 .. Len(registered) :
           registered[e] \in Producers /\ slots[registered[e]] \in 1 .. Len(chain[registered[e]])
  BY LenProperties, ElementOfSeq DEF Typed, RegistryHolds
<1>1. /\ chain' \in [Producers -> Seq(Buffer)]
      /\ \A p \in Producers : /\ Len(chain[p]) \in Nat /\ Len(chain'[p]) \in Nat
                              /\ Len(chain[p]) <= Len(chain'[p])
  BY DEF Grows
<1>2. ASSUME registered' = registered, slots' = slots, producerCount' \in 0 .. Len(registered)
      PROVE  RegistryHolds' /\ Len(registered) <= Len(registered')
  BY <1>0, <1>1, <1>2 DEF RegistryHolds
<1>3. ASSUME NEW p \in Producers, NEW size, NEW next, ClaimProducerSlot(p, size, next),
             producerCount' = producerCount
      PROVE  RegistryHolds' /\ Len(registered) <= Len(registered')
  <2>1. /\ chain[p] = << >> /\ slots' = [slots EXCEPT ![p] = 1]
        /\ registered' = Append(registered, p)
        /\ chain' = [chain EXCEPT ![p] = <<create_producer_buffer(size)>>]
    BY <1>3 DEF ClaimProducerSlot
  <2>2. /\ registered' \in Seq(Producers) /\ Len(registered') = Len(registered) + 1
        /\ \A e \in 1 .. Len(registered) : registered'[e] = registered[e]
        /\ registered'[Len(registered) + 1] = p
    BY <1>0, <2>1, AppendProperties
  <2>3. Len(chain'[p]) = 1 /\ Len(chain[p]) = 0
    <3>1. chain \in [Producers -> Seq(Buffer)]
      BY DEF Typed
    <3>. QED
      BY <2>1, <3>1
  <2>4. ASSUME NEW e \in 1 .. Len(registered')
        PROVE  slots'[registered'[e]] \in 1 .. Len(chain'[registered'[e]])
    <3>1. CASE e = Len(registered) + 1
      <4>1. PICK q : q = registered'[e]
        OBVIOUS
      <4>2. q = p
        BY <2>2, <3>1, <4>1
      <4>3. slots'[q] = 1 /\ Len(chain'[q]) = 1
        BY <1>0, <2>1, <2>3, <4>2
      <4>4. slots'[q] \in 1 .. Len(chain'[q])
        BY <4>3
      <4>. QED
        BY <4>1, <4>4
    <3>2. CASE e \in 1 .. Len(registered)
      <4>1. registered'[e] = registered[e] /\ registered[e] \in Producers
            /\ slots[registered[e]] \in 1 .. Len(chain[registered[e]])
        BY <1>0, <2>2, <3>2
      <4>2. registered[e] # p
        BY <2>3, <4>1
      <4>. QED
        BY <1>0, <1>1, <2>1, <4>1, <4>2
    <3>. QED
      BY <1>0, <2>2, <3>1, <3>2
  <2>5. slots' \in [Producers -> Nat] /\ producerCount' \in 0 .. Len(registered')
    BY <1>0, <1>3, <2>1, <2>2
  <2>. QED
    BY <1>0, <2>2, <2>4, <2>5 DEF RegistryHolds
<1>4. CASE UNCHANGED vars
  BY <1>0, <1>2, <1>4 DEF vars, registryVars
<1>5. ASSUME NEW p \in Producers, push(p) \/ reserve(p)
      PROVE  RegistryHolds' /\ Len(registered) <= Len(registered')
  <2>1. CASE InitProducer(p)
    BY <1>3, <2>1 DEF InitProducer
  <2>2. CASE \E capacity \in ReserveCapacities : ReserveFirst(p, capacity)
    BY <1>3, <2>2 DEF ReserveFirst
  <2>3. CASE CountProducers(p)
    <3>1. registered' = registered /\ slots' = slots
          /\ (producerCount' = producerCount \/ producerCount' = Len(registered))
      BY <2>3 DEF CountProducers
    <3>. QED
      BY <1>0, <1>2, <3>1
  <2>4. CASE \/ PostReserve(p) \/ Push(p) \/ PushFails(p) \/ AddProducerBuffer(p) \/ Publish(p)
            \/ \E capacity \in ReserveCapacities : Reserve(p, capacity)
    BY <1>0, <1>2, <2>4 DEF PostReserve, Push, PushFails, AddProducerBuffer, Publish, Reserve, registryVars
  <2>. QED
    BY <1>5, <2>1, <2>2, <2>3, <2>4 DEF push, reserve
<1>6. ASSUME NEW c \in Consumers, try_pop(c) \/ relocate_consumer(c)
      PROVE  RegistryHolds' /\ Len(registered) <= Len(registered')
  <2>1. CASE ReplaceSlot(c)
    <3>1. /\ UNCHANGED <<registered, producerCount, chain>>
          /\ slots' = [slots EXCEPT ![inspect[c].p] = inspect[c].i]
          /\ pc[c] = "replace"
      BY <2>1 DEF ReplaceSlot, producerVars, registryVars
    <3>2. Exists(inspect[c])
      BY <3>1 DEF Typed, ConsumersHold, Looking
    <3>. QED
      BY <1>0, <1>1, <3>1, <3>2 DEF Exists, Buffers, RegistryHolds
  <2>2. CASE ~ReplaceSlot(c)
    <3>1. UNCHANGED <<registered, producerCount, slots>>
      BY <1>6, <2>2 DEF try_pop, relocate_consumer, ReadWritten, ReserveItem, GiveBack, Claim, WriteOut,
         NoRelocation, BeginRelocation, Visit, VisitedAll, Size, KeepActive, FindBack, InspectBack,
         InspectNext, NoSuccessor, producerVars, registryVars
    <3>. QED
      BY <1>0, <1>2, <3>1
  <2>. QED
    BY <2>1, <2>2
<1>. QED
  BY <1>0, <1>4, <1>5, <1>6 DEF Next

LEMMA ProducersStep ==
  ASSUME Typed, Grows, [Next]_vars
  PROVE  producerPc' \in [Producers -> ProducerPcs] /\ ProducersHold'
<1>0. /\ chain \in [Producers -> Seq(Buffer)]
      /\ producerPc \in [Producers -> ProducerPcs]
      /\ \A p \in Producers :
           /\ producerPc[p] \in {"grow", "publish"} => chain[p] # << >>
           /\ producerPc[p] \in {"register", "count"} => Len(chain[p]) = 1 /\ chain[p][1].written = 0
      /\ \A p \in Producers : /\ Len(chain[p]) \in Nat /\ Len(chain'[p]) \in Nat
                              /\ Len(chain[p]) <= Len(chain'[p])
      /\ \A p \in Producers : chain[p] # << >> => Len(chain[p]) # 0
  BY EmptySeq DEF Typed, Grows, ProducersHold
<1>1. \A p \in Producers : chain[p] # << >> => chain'[p] # << >>
  BY <1>0
<1>2. \A p \in Producers : producerPc[p] \in {"register", "count"} =>
        Len(chain'[p]) = 1 /\ chain'[p][1].written = 0
  <2>. SUFFICES ASSUME NEW p \in Producers, producerPc[p] \in {"register", "count"}
                PROVE  Len(chain'[p]) = 1 /\ chain'[p][1].written = 0
    OBVIOUS
  <2>1. Len(chain[p]) = 1 /\ chain[p][1].written = 0
    BY <1>0
  <2>2. Len(chain'[p]) = Len(chain[p])
    BY DEF Grows
  <2>3. chain'[p][1].written = chain[p][1].written
    BY <2>1 DEF Grows
  <2>. QED
    BY <2>1, <2>2, <2>3
<1>3. ASSUME NEW p \in Producers, NEW next \in ProducerPcs, producerPc' = [producerPc EXCEPT ![p] = next],
             next \in {"grow", "publish"} => chain'[p] # << >>,
             next \in {"register", "count"} => Len(chain'[p]) = 1 /\ chain'[p][1].written = 0
      PROVE  producerPc' \in [Producers -> ProducerPcs] /\ ProducersHold'
  <2>1. producerPc' \in [Producers -> ProducerPcs] /\ producerPc'[p] = next
    BY <1>0, <1>3
  <2>2. \A q \in Producers \ {p} : producerPc'[q] = producerPc[q]
    BY <1>0, <1>3
  <2>. QED
    BY <1>0, <1>1, <1>2, <1>3, <2>1, <2>2 DEF ProducersHold
<1>4. ASSUME producerPc' = producerPc
      PROVE  producerPc' \in [Producers -> ProducerPcs] /\ ProducersHold'
  BY <1>0, <1>1, <1>2, <1>4 DEF ProducersHold
<1>5. CASE UNCHANGED vars
  BY <1>4, <1>5 DEF vars
<1>6. ASSUME NEW c \in Consumers, try_pop(c) \/ relocate_consumer(c)
      PROVE  producerPc' = producerPc
  BY <1>6 DEF try_pop, relocate_consumer, ReadWritten, ReserveItem, GiveBack, Claim, WriteOut,
     NoRelocation, BeginRelocation, Visit, VisitedAll, Size, KeepActive, FindBack, InspectBack,
     InspectNext, NoSuccessor, ReplaceSlot, producerVars
<1>7. ASSUME NEW p \in Producers, push(p) \/ reserve(p)
      PROVE  producerPc' \in [Producers -> ProducerPcs] /\ ProducersHold'
  <2>. USE DEF ProducerPcs
  <2>1. ASSUME NEW size, NEW next \in {"register", "registerReserve"}, ClaimProducerSlot(p, size, next)
        PROVE  producerPc' \in [Producers -> ProducerPcs] /\ ProducersHold'
    <3>1. chain' = [chain EXCEPT ![p] = <<create_producer_buffer(size)>>]
          /\ producerPc' = [producerPc EXCEPT ![p] = next]
      BY <2>1 DEF ClaimProducerSlot
    <3>2. chain'[p] = <<create_producer_buffer(size)>>
      BY <1>0, <3>1
    <3>3. Len(chain'[p]) = 1 /\ chain'[p][1].written = 0
      BY <3>2, NewBuffer
    <3>. QED
      BY <1>3, <2>1, <3>1, <3>3
  <2>2. CASE InitProducer(p)
    BY <2>1, <2>2 DEF InitProducer
  <2>3. CASE \E capacity \in ReserveCapacities : ReserveFirst(p, capacity)
    BY <2>1, <2>3 DEF ReserveFirst
  <2>4. CASE PostReserve(p)
    <3>1. CASE producerPc[p] = "register"
      BY <1>2, <1>3, <2>4, <3>1 DEF PostReserve
    <3>2. CASE producerPc[p] # "register"
      BY <1>3, <2>4, <3>2 DEF PostReserve
    <3>. QED
      BY <3>1, <3>2
  <2>5. CASE CountProducers(p)
    <3>1. CASE producerPc[p] = "count"
      <4>1. chain[p] # << >>
        BY <1>0, <3>1
      <4>2. producerPc' = [producerPc EXCEPT ![p] = "publish"]
        BY <2>5, <3>1 DEF CountProducers
      <4>. QED
        BY <1>1, <1>3, <4>1, <4>2
    <3>2. CASE producerPc[p] # "count"
      BY <1>3, <2>5, <3>2 DEF CountProducers
    <3>. QED
      BY <3>1, <3>2
  <2>6. CASE Push(p)
    BY <1>1, <1>3, <2>6 DEF Push
  <2>7. CASE PushFails(p)
    BY <1>1, <1>3, <2>7 DEF PushFails
  <2>8. CASE AddProducerBuffer(p)
    <3>1. chain'[p] # << >> /\ producerPc' = [producerPc EXCEPT ![p] = "publish"]
      BY <1>0, <1>1, <2>8 DEF AddProducerBuffer
    <3>. QED
      BY <1>3, <3>1
  <2>9. CASE Publish(p)
    BY <1>3, <2>9 DEF Publish
  <2>10. CASE \E capacity \in ReserveCapacities : Reserve(p, capacity)
    BY <1>4, <2>10 DEF Reserve
  <2>. QED
    BY <1>7, <2>2, <2>3, <2>4, <2>5, <2>6, <2>7, <2>8, <2>9, <2>10 DEF push, reserve
<1>. QED
  BY <1>4, <1>5, <1>6, <1>7 DEF Next

\* What a consumer has after a step.
Holds(c) ==
  /\ kept[c] # Dummy => Exists(kept[c])
  /\ pc[c] \in Popping => Exists(kept[c])
  /\ pc[c] \in Looking => Exists(seen[c]) /\ Exists(inspect[c])
  /\ pc[c] = "active" => inspect[c] = seen[c]
  /\ \A n \in 1 .. Len(toVisit[c]) : toVisit[c][n] \in 1 .. Len(registered)

\* b exists after a step.
Stays(b) == b \in Buffers /\ b.i \in 1 .. Len(chain'[b.p])

\* What a step of c may set is of c alone.
SetsOwn(f, g, c) == g = f \/ \E v : g = [f EXCEPT ![c] = v]

ConsumerSets(c) ==
  /\ SetsOwn(pc, pc', c) /\ SetsOwn(kept, kept', c) /\ SetsOwn(number, number', c)
  /\ SetsOwn(toVisit, toVisit', c) /\ SetsOwn(seen, seen', c) /\ SetsOwn(inspect, inspect', c)

\* c holds what it may after a step.
HoldsNext(c) ==
  /\ pc'[c] \in ConsumerPcs /\ number'[c] \in Nat
  /\ kept'[c] = Dummy \/ Stays(kept'[c])
  /\ pc'[c] \in Popping => Stays(kept'[c])
  /\ seen'[c] = Dummy \/ seen'[c] \in Buffers
  /\ inspect'[c] = Dummy \/ inspect'[c] \in Buffers
  /\ pc'[c] \in Looking => Stays(seen'[c]) /\ Stays(inspect'[c])
  /\ pc'[c] = "active" => inspect'[c] = seen'[c]
  /\ toVisit'[c] \in Seq(Nat)
  /\ \A n \in 1 .. Len(toVisit'[c]) : toVisit'[c][n] \in 1 .. Len(registered')

LEMMA OneConsumer ==
  ASSUME Typed, Grows, [Next]_vars,
         NEW c \in Consumers, ConsumerSets(c), HoldsNext(c)
  PROVE  ConsumersTyped' /\ ConsumersHold'
<1>0. /\ pc \in [Consumers -> ConsumerPcs]
      /\ kept \in [Consumers -> Buffers \cup {Dummy}]
      /\ number \in [Consumers -> Nat]
      /\ toVisit \in [Consumers -> Seq(Nat)]
      /\ seen \in [Consumers -> Buffers \cup {Dummy}]
      /\ inspect \in [Consumers -> Buffers \cup {Dummy}]
  BY DEF Typed, ConsumersTyped
<1>1. ConsumersTyped'
  <2>1. ASSUME NEW S, NEW f \in [Consumers -> S], NEW g, SetsOwn(f, g, c), g[c] \in S
        PROVE  g \in [Consumers -> S]
    <3>1. CASE g = f
      BY <2>1, <3>1
    <3>2. ASSUME NEW v, g = [f EXCEPT ![c] = v]
          PROVE  g \in [Consumers -> S]
      <4>1. v \in S
        BY <2>1, <3>2
      <4>. QED
        BY <2>1, <3>2, <4>1
    <3>. QED
      BY <2>1, <3>1, <3>2 DEF SetsOwn
  <2>2. /\ pc'[c] \in ConsumerPcs /\ number'[c] \in Nat /\ toVisit'[c] \in Seq(Nat)
        /\ kept'[c] \in Buffers \cup {Dummy}
        /\ seen'[c] \in Buffers \cup {Dummy} /\ inspect'[c] \in Buffers \cup {Dummy}
    BY DEF HoldsNext, Stays
  <2>3. pc' \in [Consumers -> ConsumerPcs]
    BY <1>0, <2>1, <2>2 DEF ConsumerSets
  <2>4. kept' \in [Consumers -> Buffers \cup {Dummy}]
    BY <1>0, <2>1, <2>2 DEF ConsumerSets
  <2>5. number' \in [Consumers -> Nat]
    BY <1>0, <2>1, <2>2 DEF ConsumerSets
  <2>6. toVisit' \in [Consumers -> Seq(Nat)]
    BY <1>0, <2>1, <2>2 DEF ConsumerSets
  <2>7. seen' \in [Consumers -> Buffers \cup {Dummy}]
    BY <1>0, <2>1, <2>2 DEF ConsumerSets
  <2>8. inspect' \in [Consumers -> Buffers \cup {Dummy}]
    BY <1>0, <2>1, <2>2 DEF ConsumerSets
  <2>. QED
    BY <2>3, <2>4, <2>5, <2>6, <2>7, <2>8 DEF ConsumersTyped
<1>2. Len(registered) \in Nat /\ Len(registered) <= Len(registered') /\ Len(registered') \in Nat
  BY RegistryStep, LenProperties DEF RegistryHolds
<1>3. \A b : Exists(b) => Stays(b)
  BY DEF Grows, Exists, Stays, Buffers
\* Those that do not take the step.
<1>4. ASSUME NEW d \in Consumers, d # c
      PROVE  /\ pc'[d] = pc[d] /\ kept'[d] = kept[d] /\ toVisit'[d] = toVisit[d]
             /\ seen'[d] = seen[d] /\ inspect'[d] = inspect[d]
  BY <1>0, <1>4 DEF ConsumerSets, SetsOwn
<1>5. ASSUME NEW d \in Consumers
      PROVE  /\ kept'[d] # Dummy => Stays(kept'[d])
             /\ pc'[d] \in Popping => Stays(kept'[d])
             /\ pc'[d] \in Looking => Stays(seen'[d]) /\ Stays(inspect'[d])
             /\ pc'[d] = "active" => inspect'[d] = seen'[d]
             /\ \A n \in 1 .. Len(toVisit'[d]) : toVisit'[d][n] \in 1 .. Len(registered')
  <2>1. CASE d = c
    BY <2>1 DEF HoldsNext
  <2>2. CASE d # c
    <3>1. /\ kept[d] # Dummy => Exists(kept[d])
          /\ pc[d] \in Popping => Exists(kept[d])
          /\ pc[d] \in Looking => Exists(seen[d]) /\ Exists(inspect[d])
          /\ pc[d] = "active" => inspect[d] = seen[d]
          /\ \A n \in 1 .. Len(toVisit[d]) : toVisit[d][n] \in 1 .. Len(registered)
      BY DEF Typed, ConsumersHold
    <3>2. \A n \in 1 .. Len(registered) : n \in 1 .. Len(registered')
      BY <1>2
    <3>. QED
      BY <1>3, <1>4, <2>2, <3>1, <3>2
  <2>. QED
    BY <2>1, <2>2
<1>6. ConsumersHold'
  BY <1>5 DEF ConsumersHold, Exists, Stays
<1>. QED
  BY <1>1, <1>6

\* The steps of c change nothing of the other consumers.
LEMMA StepSetsOwn ==
  ASSUME NEW c \in Consumers, try_pop(c) \/ relocate_consumer(c)
  PROVE  ConsumerSets(c)
<1>. USE DEF ConsumerSets, SetsOwn, relocationVars, producerVars
<1>1. CASE ReadWritten(c)
  BY <1>1 DEF ReadWritten
<1>2. CASE ReserveItem(c) \/ GiveBack(c) \/ Claim(c)
  BY <1>2 DEF ReserveItem, GiveBack, Claim
<1>3. CASE WriteOut(c)
  BY <1>3 DEF WriteOut, Return
<1>4. CASE NoRelocation(c) \/ VisitedAll(c)
  BY <1>4 DEF NoRelocation, VisitedAll, Return
<1>5. CASE BeginRelocation(c)
  BY <1>5 DEF BeginRelocation
<1>6. CASE Visit(c)
  BY <1>6 DEF Visit
<1>7. CASE Size(c)
  BY <1>7 DEF Size
<1>8. CASE FindBack(c) \/ InspectBack(c) \/ InspectNext(c)
  BY <1>8 DEF FindBack, InspectBack, InspectNext
<1>9. ASSUME NEW b, Keep(c, b)
      PROVE  ConsumerSets(c)
  BY <1>9 DEF Keep, Return
<1>10. CASE KeepActive(c) \/ NoSuccessor(c) \/ ReplaceSlot(c)
  BY <1>9, <1>10 DEF KeepActive, NoSuccessor, ReplaceSlot
<1>. QED
  BY <1>1, <1>2, <1>3, <1>4, <1>5, <1>6, <1>7, <1>8, <1>10 DEF try_pop, relocate_consumer

LEMMA ConsumersStep ==
  ASSUME Typed, Grows, [Next]_vars
  PROVE  ConsumersTyped' /\ ConsumersHold'
<1>0. /\ pc \in [Consumers -> ConsumerPcs]
      /\ kept \in [Consumers -> Buffers \cup {Dummy}]
      /\ number \in [Consumers -> Nat]
      /\ toVisit \in [Consumers -> Seq(Nat)]
      /\ seen \in [Consumers -> Buffers \cup {Dummy}]
      /\ inspect \in [Consumers -> Buffers \cup {Dummy}]
  BY DEF Typed, ConsumersTyped
<1>1. Len(registered) \in Nat /\ Len(registered) <= Len(registered') /\ Len(registered') \in Nat
  BY RegistryStep, LenProperties DEF RegistryHolds
<1>2. \A b : Exists(b) => Stays(b)
  BY DEF Grows, Exists, Stays, Buffers
<1>3. \A b : Exists(b) => b \in Buffers /\ BufferOf(b) \in Buffer
  BY DEF Grows, Exists, BufferOf, Buffers
<1>4. \A b \in Buffer : b.readSlot \in Nat /\ b.written \in Nat
  BY BufferFields
<1>5. \A s \in Seq(Nat) : \A n \in 1 .. Len(s) : s[n] \in 1 .. Len(registered) => s[n] \in 1 .. Len(registered')
  BY <1>1
<1>6. << >> \in Seq(Nat) /\ Len(<< >>) = 0
  OBVIOUS
\* What c has before the step.
<1>7. ASSUME NEW c \in Consumers
      PROVE  /\ pc[c] \in ConsumerPcs /\ number[c] \in Nat
             /\ kept[c] = Dummy \/ Stays(kept[c])
             /\ pc[c] \in Popping => Exists(kept[c]) /\ Stays(kept[c])
             /\ seen[c] = Dummy \/ seen[c] \in Buffers
             /\ inspect[c] = Dummy \/ inspect[c] \in Buffers
             /\ pc[c] \in Looking => Exists(seen[c]) /\ Exists(inspect[c]) /\ Stays(seen[c]) /\ Stays(inspect[c])
             /\ pc[c] = "active" => inspect[c] = seen[c]
             /\ toVisit[c] \in Seq(Nat)
             /\ \A n \in 1 .. Len(toVisit[c]) : toVisit[c][n] \in 1 .. Len(registered')
  <2>1. toVisit[c] \in Seq(Nat)
    BY <1>0
  <2>. QED
    BY <1>0, <1>2, <1>5, <2>1 DEF Typed, ConsumersHold
<1>8. ASSUME UNCHANGED <<pc, kept, number, toVisit, seen, inspect>>
      PROVE  ConsumersTyped' /\ ConsumersHold'
  <2>1. CASE Consumers = {}
    BY <1>0, <1>8, <2>1 DEF ConsumersTyped, ConsumersHold
  <2>2. ASSUME NEW c \in Consumers
        PROVE  ConsumersTyped' /\ ConsumersHold'
    <3>1. ConsumerSets(c)
      BY <1>8 DEF ConsumerSets, SetsOwn
    <3>2. HoldsNext(c)
      BY <1>7, <1>8 DEF HoldsNext
    <3>. QED
      BY <3>1, <3>2, OneConsumer
  <2>. QED
    BY <2>1, <2>2
<1>9. CASE UNCHANGED vars
  BY <1>8, <1>9 DEF vars, relocationVars
<1>10. ASSUME NEW p \in Producers, push(p) \/ reserve(p)
       PROVE  UNCHANGED <<pc, kept, number, toVisit, seen, inspect>>
  BY <1>10 DEF push, reserve, InitProducer, PostReserve, CountProducers, Push, PushFails,
     AddProducerBuffer, Publish, ReserveFirst, Reserve, relocationVars
<1>11. ASSUME NEW c \in Consumers, try_pop(c) \/ relocate_consumer(c)
       PROVE  ConsumerSets(c)
  BY <1>11, StepSetsOwn
<1>. USE DEF Popping, Looking, ConsumerPcs
<1>12. ASSUME NEW c \in Consumers, try_pop(c)
       PROVE  HoldsNext(c)
  <2>1. CASE ReadWritten(c)
    <3>1. /\ kept' = kept /\ toVisit' = toVisit /\ seen' = seen /\ inspect' = inspect
          /\ pc'[c] = IF is_valid(kept[c]) THEN "reserve" ELSE "relocate"
          /\ number'[c] = IF is_valid(kept[c]) THEN BufferOf(kept[c]).written ELSE 0
      BY <1>0, <2>1 DEF ReadWritten, relocationVars
    <3>2. is_valid(kept[c]) => Exists(kept[c]) /\ Stays(kept[c])
      BY <1>2 DEF is_valid, Typed, ConsumersHold
    <3>3. number'[c] \in Nat
      BY <1>3, <1>4, <3>1, <3>2
    <3>. QED
      BY <1>7, <3>1, <3>2, <3>3 DEF HoldsNext
  <2>2. CASE ReserveItem(c)
    <3>1. /\ kept' = kept /\ toVisit' = toVisit /\ seen' = seen /\ inspect' = inspect
          /\ pc[c] = "reserve" /\ pc'[c] \in {"giveBack", "claim"} /\ number'[c] = 0
      BY <1>0, <2>2 DEF ReserveItem, relocationVars
    <3>. QED
      BY <1>7, <3>1 DEF HoldsNext
  <2>3. CASE GiveBack(c)
    <3>1. /\ kept' = kept /\ toVisit' = toVisit /\ seen' = seen /\ inspect' = inspect
          /\ pc[c] = "giveBack" /\ pc'[c] = "relocate" /\ number' = number
      BY <1>0, <2>3 DEF GiveBack, relocationVars
    <3>. QED
      BY <1>7, <3>1 DEF HoldsNext
  <2>4. CASE Claim(c)
    <3>1. /\ kept' = kept /\ toVisit' = toVisit /\ seen' = seen /\ inspect' = inspect
          /\ pc[c] = "claim" /\ pc'[c] = "writeOut" /\ number'[c] = BufferOf(kept[c]).readSlot
      BY <1>0, <2>4 DEF Claim, relocationVars
    <3>2. Exists(kept[c])
      BY <1>7, <3>1
    <3>3. number'[c] \in Nat
      BY <1>3, <1>4, <3>1, <3>2
    <3>. QED
      BY <1>7, <3>1, <3>3 DEF HoldsNext
  <2>5. CASE WriteOut(c)
    <3>1. /\ kept' = kept /\ pc'[c] \in {"idle", "relocate"} /\ number'[c] = 0
          /\ toVisit'[c] \in {toVisit[c], << >>}
          /\ seen'[c] \in {seen[c], Dummy} /\ inspect'[c] \in {inspect[c], Dummy}
      BY <1>0, <2>5 DEF WriteOut, Return
    <3>2. toVisit'[c] \in Seq(Nat) /\ \A n \in 1 .. Len(toVisit'[c]) : toVisit'[c][n] \in 1 .. Len(registered')
      <4>1. CASE toVisit'[c] = toVisit[c]
        BY <1>7, <4>1
      <4>2. CASE toVisit'[c] = << >>
        BY <1>6, <4>2
      <4>. QED
        BY <3>1, <4>1, <4>2
    <3>3. pc'[c] \in ConsumerPcs /\ pc'[c] \notin Popping \cup Looking \cup {"active"} /\ number'[c] \in Nat
      BY <3>1
    <3>4. /\ kept'[c] = Dummy \/ Stays(kept'[c])
          /\ seen'[c] = Dummy \/ seen'[c] \in Buffers
          /\ inspect'[c] = Dummy \/ inspect'[c] \in Buffers
      BY <1>7, <3>1
    <3>. QED
      BY <3>2, <3>3, <3>4 DEF HoldsNext
  <2>. QED
    BY <1>12, <2>1, <2>2, <2>3, <2>4, <2>5 DEF try_pop
\* c keeps a buffer that it has seen.
<1>13. ASSUME NEW c \in Consumers, NEW b, Keep(c, b), Stays(b)
       PROVE  HoldsNext(c)
  <2>1. /\ kept'[c] = b /\ pc'[c] \in {"idle", "retry"} /\ number'[c] \in {number[c], 0}
        /\ toVisit'[c] = << >> /\ seen'[c] = Dummy /\ inspect'[c] = Dummy
    BY <1>0, <1>13 DEF Keep, Return
  <2>. QED
    BY <1>6, <1>7, <1>13, <2>1 DEF HoldsNext
<1>14. ASSUME NEW c \in Consumers, relocate_consumer(c)
       PROVE  HoldsNext(c)
  <2>1. CASE NoRelocation(c) \/ VisitedAll(c)
    <3>1. /\ kept' = kept /\ pc'[c] = "idle" /\ number'[c] = 0
          /\ toVisit'[c] = << >> /\ seen'[c] = Dummy /\ inspect'[c] = Dummy
      BY <1>0, <2>1 DEF NoRelocation, VisitedAll, Return
    <3>. QED
      BY <1>6, <1>7, <3>1 DEF HoldsNext
  <2>2. CASE BeginRelocation(c)
    <3>1. /\ kept' = kept /\ number' = number /\ seen' = seen /\ inspect' = inspect
          /\ pc'[c] = "visit"
      BY <1>0, <2>2 DEF BeginRelocation
    <3>2. PICK relocation \in 0 .. RelocationIndices - 1 :
            toVisit'[c] = [n \in 1 .. producerCount |->
              1 + (((relocation + n - 1) % RelocationIndices) % producerCount)]
      BY <1>0, <2>2 DEF BeginRelocation
    <3>3. producerCount \in 1 .. Len(registered)
      BY <1>1, <2>2 DEF BeginRelocation, NothingToVisit, Typed, RegistryHolds
    <3>4. ASSUME NEW n \in 1 .. producerCount
          PROVE  1 + (((relocation + n - 1) % RelocationIndices) % producerCount) \in 1 .. producerCount
      <4>1. relocation + n - 1 \in Nat /\ RelocationIndices \in Nat \ {0} /\ producerCount \in Nat \ {0}
        BY <1>1, <3>3, QueueAssumption
      <4>2. (relocation + n - 1) % RelocationIndices \in Nat
        BY <4>1
      <4>3. ((relocation + n - 1) % RelocationIndices) % producerCount \in 0 .. producerCount - 1
        BY <4>1, <4>2
      <4>. QED
        BY <4>1, <4>3
    <3>7. PICK v : v = toVisit'[c]
      OBVIOUS
    <3>8. v \in [1 .. producerCount -> 1 .. producerCount]
      BY <3>2, <3>4, <3>7
    <3>5. v \in Seq(Nat) /\ Len(v) = producerCount
      <4>1. v \in [1 .. producerCount -> Nat]
        BY <1>1, <3>3, <3>8
      <4>2. v \in Seq(Nat)
        BY <1>1, <3>3, <4>1
      <4>3. producerCount \in Nat /\ DOMAIN v = 1 .. producerCount
        BY <1>1, <3>3, <3>8
      <4>. QED
        BY <4>2, <4>3, LenProperties
    <3>6. \A n \in 1 .. Len(v) : v[n] \in 1 .. Len(registered')
      <4>1. \A n \in 1 .. producerCount : v[n] \in 1 .. producerCount
        BY <3>8
      <4>. QED
        BY <1>1, <3>3, <3>5, <4>1
    <3>. QED
      BY <1>7, <3>1, <3>5, <3>6, <3>7 DEF HoldsNext
  <2>3. CASE Visit(c)
    <3>. DEFINE e == Head(toVisit[c])
                b == [p |-> registered[e], i |-> slots[registered[e]]]
    <3>1. /\ kept' = kept /\ number' = number /\ seen'[c] = b /\ inspect'[c] = b
          /\ pc'[c] = "size" /\ toVisit'[c] = Tail(toVisit[c])
          /\ toVisit[c] # << >>
      BY <1>0, <2>3 DEF Visit
    <3>2. toVisit[c] \in Seq(Nat)
      BY <1>7
    <3>3. /\ e = toVisit[c][1] /\ Tail(toVisit[c]) \in Seq(Nat)
          /\ Len(toVisit[c]) \in Nat \ {0}
          /\ Len(Tail(toVisit[c])) = Len(toVisit[c]) - 1
          /\ \A n \in 1 .. Len(Tail(toVisit[c])) : Tail(toVisit[c])[n] = toVisit[c][n + 1]
      BY <3>1, <3>2, HeadTailProperties, EmptySeq
    <3>4. e \in 1 .. Len(registered)
      <4>1. \A n \in 1 .. Len(toVisit[c]) : toVisit[c][n] \in 1 .. Len(registered)
        BY DEF Typed, ConsumersHold
      <4>. QED
        BY <3>3, <4>1
    <3>5. Stays(b)
      <4>1. registered[e] \in Producers /\ slots[registered[e]] \in Nat
            /\ slots[registered[e]] \in 1 .. Len(chain[registered[e]])
        BY <3>4, ElementOfSeq DEF Typed, RegistryHolds
      <4>2. Exists(b)
        BY <4>1 DEF Exists, Buffers
      <4>. QED
        BY <1>2, <4>2
    <3>6. \A n \in 1 .. Len(toVisit'[c]) : toVisit'[c][n] \in 1 .. Len(registered')
      BY <1>7, <3>1, <3>3
    <3>7. b \in Buffers
      BY <3>5 DEF Stays
    <3>. HIDE DEF b, e
    <3>. QED
      BY <1>7, <3>1, <3>3, <3>5, <3>6, <3>7 DEF HoldsNext
  \* The buffer behind one that has a next one.
  <2>4. ASSUME NEW b, Exists(b), HasNext(b)
        PROVE  Stays([b EXCEPT !.i = @ + 1]) /\ [b EXCEPT !.i = @ + 1] \in Buffers
    <3>1. b \in Buffers /\ b.i \in Nat /\ b.i < Len(chain[b.p]) /\ b.p \in Producers
          /\ Len(chain[b.p]) \in Nat
      BY <2>4 DEF Exists, HasNext, Buffers, Grows
    <3>2. [b EXCEPT !.i = @ + 1] \in Buffers
      BY <3>1 DEF Buffers
    <3>3. Exists([b EXCEPT !.i = @ + 1])
      BY <3>1, <3>2 DEF Exists, Buffers
    <3>. QED
      BY <1>2, <3>2, <3>3
  <2>5. ASSUME pc[c] \in Looking, kept' = kept, number' = number, toVisit' = toVisit, seen' = seen,
               pc'[c] \in ConsumerPcs \ (Popping \cup {"active"}), HasNext(inspect[c]),
               inspect' = [inspect EXCEPT ![c].i = @ + 1]
        PROVE  HoldsNext(c)
    <3>1. Exists(inspect[c])
      BY <1>7, <2>5
    <3>2. inspect'[c] = [inspect[c] EXCEPT !.i = @ + 1]
      BY <1>0, <2>5
    <3>3. Stays(inspect'[c]) /\ inspect'[c] \in Buffers
      BY <2>4, <2>5, <3>1, <3>2
    <3>. QED
      BY <1>7, <2>5, <3>3 DEF HoldsNext
  <2>6. CASE Size(c)
    <3>1. CASE UsedUp(inspect[c]) /\ HasNext(inspect[c])
      <4>1. /\ pc[c] = "size" /\ pc'[c] = "size" /\ kept' = kept /\ number' = number /\ toVisit' = toVisit
            /\ seen' = seen /\ inspect' = [inspect EXCEPT ![c].i = @ + 1]
        BY <2>6, <3>1 DEF Size
      <4>. QED
        BY <2>5, <3>1, <4>1
    <3>2. CASE ~(UsedUp(inspect[c]) /\ HasNext(inspect[c]))
      <4>1. /\ pc[c] = "size" /\ pc'[c] \in {"visit", "active"} /\ kept' = kept /\ number' = number
            /\ toVisit' = toVisit /\ seen' = seen /\ inspect'[c] = seen[c]
        BY <1>0, <2>6, <3>2 DEF Size
      <4>. QED
        BY <1>7, <4>1 DEF HoldsNext
    <3>. QED
      BY <3>1, <3>2
  <2>7. CASE KeepActive(c) \/ NoSuccessor(c)
    BY <1>7, <1>13, <2>7 DEF KeepActive, NoSuccessor
  <2>8. CASE ReplaceSlot(c)
    BY <1>7, <1>13, <2>8 DEF ReplaceSlot
  <2>9. CASE FindBack(c)
    <3>1. /\ pc[c] = "active" /\ pc'[c] = "findBack" /\ kept' = kept /\ number' = number
          /\ toVisit' = toVisit /\ seen' = seen /\ inspect' = [inspect EXCEPT ![c].i = @ + 1]
          /\ HasNext(seen[c])
      BY <1>0, <2>9 DEF FindBack, is_active
    <3>2. inspect[c] = seen[c]
      BY <1>7, <3>1
    <3>. QED
      BY <2>5, <3>1, <3>2
  <2>10. CASE InspectBack(c)
    <3>1. /\ pc[c] = "findBack" /\ pc'[c] \in {"next", "replace"} /\ kept' = kept /\ number' = number
          /\ toVisit' = toVisit /\ seen' = seen /\ inspect' = inspect
      BY <1>0, <2>10 DEF InspectBack, relocationVars
    <3>. QED
      BY <1>7, <3>1 DEF HoldsNext
  <2>11. CASE InspectNext(c)
    <3>1. /\ pc[c] = "next" /\ pc'[c] = "findBack" /\ kept' = kept /\ number' = number
          /\ toVisit' = toVisit /\ seen' = seen /\ inspect' = [inspect EXCEPT ![c].i = @ + 1]
          /\ HasNext(inspect[c])
      BY <1>0, <2>11 DEF InspectNext
    <3>. QED
      BY <2>5, <3>1
  <2>. QED
    BY <1>14, <2>1, <2>2, <2>3, <2>6, <2>7, <2>8, <2>9, <2>10, <2>11 DEF relocate_consumer
<1>15. ASSUME NEW c \in Consumers, try_pop(c) \/ relocate_consumer(c)
       PROVE  ConsumersTyped' /\ ConsumersHold'
  BY <1>11, <1>12, <1>14, <1>15, OneConsumer
<1>. QED
  BY <1>8, <1>9, <1>10, <1>15 DEF Next

LEMMA InitTyped ==
  ASSUME Init
  PROVE  Typed
<1>. << >> \in Seq(Buffer) /\ << >> \in Seq(Nat) /\ << >> \in Seq(Producers) /\ Len(<< >>) = 0
  OBVIOUS
<1>1. chain \in [Producers -> Seq(Buffer)] /\ producerPc \in [Producers -> ProducerPcs]
  BY DEF Init, ProducerPcs
<1>2. RegistryHolds
  BY DEF Init, RegistryHolds
<1>3. ConsumersTyped
  BY DEF Init, ConsumersTyped, ConsumerPcs
<1>4. ConsumersHold /\ ProducersHold
  BY DEF Init, ConsumersHold, ProducersHold, Popping, Looking
<1>. QED
  BY <1>1, <1>2, <1>3, <1>4 DEF Typed

LEMMA StepTyped ==
  ASSUME Typed, [Next]_vars
  PROVE  Typed' /\ Grows /\ Effect
<1>1. Effect
  BY Effects
<1>2. Grows
  BY <1>1, ChainGrows DEF Typed, ConsumersTyped
<1>3. RegistryHolds'
  BY <1>2, RegistryStep
<1>4. producerPc' \in [Producers -> ProducerPcs] /\ ProducersHold'
  BY <1>2, ProducersStep
<1>5. ConsumersTyped' /\ ConsumersHold'
  BY <1>2, ConsumersStep
<1>. QED
  BY <1>1, <1>2, <1>3, <1>4, <1>5 DEF Typed, Grows

-----------------------------------------------------------------------------
\* What a step does to the buffers, by their names.

AtNext(b) == chain'[b.p][b.i]

\* b is the only buffer that a step changes.
OnlyAt(b) ==
  /\ \A q \in Producers : Len(chain'[q]) = Len(chain[q])
  /\ \A d : Stays(d) => Exists(d)
  /\ \A d : (Exists(d) /\ d # b) => AtNext(d) = BufferOf(d)

Counters(b, preReadSync, readSlot, written) ==
  /\ AtNext(b).preReadSync = preReadSync
  /\ AtNext(b).readSlot = readSlot
  /\ AtNext(b).written = written
  /\ AtNext(b).capacity = BufferOf(b).capacity

SameItems(b) == AtNext(b).block = BufferOf(b).block

\* Slot k of the ring of b has x, and the others have what they had.
ItemSet(b, k, x) ==
  /\ AtNext(b).block[k] = x
  /\ \A n \in 0 .. BufferOf(b).capacity - 1 : n # k => AtNext(b).block[n] = BufferOf(b).block[n]

LEMMA Fields ==
  ASSUME chain \in [Producers -> Seq(Buffer)], NEW b, Exists(b)
  PROVE  /\ BufferOf(b) \in Buffer
         /\ BufferOf(b).capacity \in Nat \ {0} /\ BufferOf(b).preReadSync \in Int
         /\ BufferOf(b).readSlot \in Nat /\ BufferOf(b).written \in Nat
         /\ \A n \in Nat : n % BufferOf(b).capacity \in 0 .. BufferOf(b).capacity - 1
         /\ b.p \in Producers /\ b.i \in 1 .. Len(chain[b.p])
<1>1. b.p \in Producers /\ b.i \in 1 .. Len(chain[b.p])
  BY DEF Exists, Buffers
<1>2. BufferOf(b) \in Buffer
  BY <1>1, ElementOfSeq DEF BufferOf
<1>. QED
  BY <1>1, <1>2, BufferFields

LEMMA OneReplaced ==
  ASSUME chain \in [Producers -> Seq(Buffer)], NEW b, Exists(b), NEW r \in Buffer,
         ReplacesBuffer(b.p, b.i, r)
  PROVE  OnlyAt(b) /\ AtNext(b) = r
<1>1. PICK p, i : p = b.p /\ i = b.i
  OBVIOUS
<1>2. p \in Producers /\ i \in 1 .. Len(chain[p]) /\ ReplacesBuffer(p, i, r)
  BY <1>1, Fields
<1>3. /\ \A q \in Producers : Len(chain'[q]) = Len(chain[q])
      /\ chain'[p][i] = r
      /\ \A q \in Producers : \A k \in 1 .. Len(chain[q]) :
           (q # p \/ k # i) => chain'[q][k] = chain[q][k]
  BY <1>2, Replaced
<1>4. ASSUME NEW d, Stays(d)
      PROVE  Exists(d)
  BY <1>3, <1>4 DEF Stays, Exists, Buffers
<1>5. ASSUME NEW d, Exists(d), d # b
      PROVE  AtNext(d) = BufferOf(d)
  <2>1. d \in Buffers /\ b \in Buffers
    BY <1>5 DEF Exists
  <2>2. d.p # b.p \/ d.i # b.i
    BY <1>5, <2>1 DEF Buffers
  <2>3. d.p \in Producers /\ d.i \in 1 .. Len(chain[d.p])
    BY <1>5, Fields
  <2>. QED
    BY <1>1, <1>3, <2>2, <2>3 DEF AtNext, BufferOf
<1>. QED
  BY <1>1, <1>3, <1>4, <1>5 DEF OnlyAt, AtNext

\* The steps of a consumer on the buffer that it keeps.
LEMMA AtKept ==
  ASSUME Typed, NEW c \in Consumers, NEW b, b = kept[c]
  PROVE  /\ Reserves(c) => /\ OnlyAt(b) /\ SameItems(b)
                           /\ Counters(b, BufferOf(b).preReadSync + 1, BufferOf(b).readSlot, BufferOf(b).written)
         /\ GivesBack(c) => /\ OnlyAt(b) /\ SameItems(b)
                            /\ Counters(b, BufferOf(b).preReadSync - 1, BufferOf(b).readSlot, BufferOf(b).written)
         /\ Claims(c) => /\ OnlyAt(b) /\ SameItems(b)
                         /\ Counters(b, BufferOf(b).preReadSync, BufferOf(b).readSlot + 1, BufferOf(b).written)
         /\ WritesOut(c) => /\ OnlyAt(b) /\ ItemSet(b, ReadSlot(c), NoItem)
                            /\ Counters(b, BufferOf(b).preReadSync, BufferOf(b).readSlot, BufferOf(b).written)
<1>1. chain \in [Producers -> Seq(Buffer)] /\ number[c] \in Nat
  BY DEF Typed, ConsumersTyped
<1>2. (Reserves(c) \/ GivesBack(c) \/ Claims(c) \/ WritesOut(c)) => Exists(b)
  BY DEF Reserves, GivesBack, Claims, WritesOut, AtBuffer
<1>3. PICK o : o = BufferOf(b)
  OBVIOUS
<1>4. ASSUME Exists(b)
      PROVE  /\ o \in Buffer /\ o.capacity \in Nat \ {0} /\ o.preReadSync \in Int
             /\ o.readSlot \in Nat /\ o.written \in Nat
             /\ \A n \in Nat : n % o.capacity \in 0 .. o.capacity - 1
  BY <1>1, <1>3, <1>4, Fields
<1>5. CASE Reserves(c)
  <2>1. PICK r, x : x = o.preReadSync + 1 /\ r = [o EXCEPT !.preReadSync = x] /\ ReplacesBuffer(b.p, b.i, r)
    BY <1>3, <1>5 DEF Reserves
  <2>2. x \in Int
    BY <1>2, <1>4, <1>5, <2>1
  <2>3. /\ r \in Buffer /\ r.preReadSync = x /\ r.capacity = o.capacity /\ r.readSlot = o.readSlot
        /\ r.written = o.written /\ r.block = o.block
    BY <1>2, <1>4, <1>5, <2>1, <2>2, SetPreReadSync
  <2>4. OnlyAt(b) /\ AtNext(b) = r
    BY <1>1, <1>2, <1>5, <2>1, <2>3, OneReplaced
  <2>5. ~GivesBack(c) /\ ~Claims(c) /\ ~WritesOut(c)
    BY <1>5 DEF Reserves, GivesBack, Claims, WritesOut, AtBuffer
  <2>. QED
    BY <1>3, <2>1, <2>3, <2>4, <2>5 DEF SameItems, Counters
<1>6. CASE GivesBack(c)
  <2>1. PICK r, x : x = o.preReadSync - 1 /\ r = [o EXCEPT !.preReadSync = x] /\ ReplacesBuffer(b.p, b.i, r)
    BY <1>3, <1>6 DEF GivesBack
  <2>2. x \in Int
    BY <1>2, <1>4, <1>6, <2>1
  <2>3. /\ r \in Buffer /\ r.preReadSync = x /\ r.capacity = o.capacity /\ r.readSlot = o.readSlot
        /\ r.written = o.written /\ r.block = o.block
    BY <1>2, <1>4, <1>6, <2>1, <2>2, SetPreReadSync
  <2>4. OnlyAt(b) /\ AtNext(b) = r
    BY <1>1, <1>2, <1>6, <2>1, <2>3, OneReplaced
  <2>5. ~Reserves(c) /\ ~Claims(c) /\ ~WritesOut(c)
    BY <1>6 DEF Reserves, GivesBack, Claims, WritesOut, AtBuffer
  <2>. QED
    BY <1>3, <2>1, <2>3, <2>4, <2>5 DEF SameItems, Counters
<1>7. CASE Claims(c)
  <2>1. PICK r, x : x = o.readSlot + 1 /\ r = [o EXCEPT !.readSlot = x] /\ ReplacesBuffer(b.p, b.i, r)
    BY <1>3, <1>7 DEF Claims
  <2>2. x \in Nat
    BY <1>2, <1>4, <1>7, <2>1
  <2>3. /\ r \in Buffer /\ r.readSlot = x /\ r.capacity = o.capacity /\ r.preReadSync = o.preReadSync
        /\ r.written = o.written /\ r.block = o.block
    BY <1>2, <1>4, <1>7, <2>1, <2>2, SetReadSlot
  <2>4. OnlyAt(b) /\ AtNext(b) = r
    BY <1>1, <1>2, <1>7, <2>1, <2>3, OneReplaced
  <2>5. ~Reserves(c) /\ ~GivesBack(c) /\ ~WritesOut(c)
    BY <1>7 DEF Reserves, GivesBack, Claims, WritesOut, AtBuffer
  <2>. QED
    BY <1>3, <2>1, <2>3, <2>4, <2>5 DEF SameItems, Counters
<1>8. CASE WritesOut(c)
  <2>1. PICK r, k, x : /\ k = ReadSlot(c) /\ x = NoItem /\ r = WithItem(o, k, x)
                       /\ ReplacesBuffer(b.p, b.i, r)
    BY <1>3, <1>8 DEF WritesOut, WithItem
  <2>2. k \in 0 .. o.capacity - 1 /\ x \in Nat \cup {NoItem}
    BY <1>1, <1>2, <1>3, <1>4, <1>8, <2>1 DEF ReadSlot
  <2>3. /\ r \in Buffer
        /\ r.block[k] = x /\ \A n \in 0 .. o.capacity - 1 : n # k => r.block[n] = o.block[n]
        /\ r.capacity = o.capacity /\ r.preReadSync = o.preReadSync
        /\ r.readSlot = o.readSlot /\ r.written = o.written
    <3>1. o \in Buffer
      BY <1>2, <1>4, <1>8
    <3>. QED
      BY <2>1, <2>2, <3>1, SetItem
  <2>4. OnlyAt(b) /\ AtNext(b) = r
    BY <1>1, <1>2, <1>8, <2>1, <2>3, OneReplaced
  <2>5. ~Reserves(c) /\ ~GivesBack(c) /\ ~Claims(c)
    BY <1>8 DEF Reserves, GivesBack, Claims, WritesOut, AtBuffer
  <2>. QED
    BY <1>3, <2>1, <2>3, <2>4, <2>5 DEF ItemSet, Counters
<1>. QED
  BY <1>5, <1>6, <1>7, <1>8

\* The steps of a producer on its last buffer.
LEMMA AtLast ==
  ASSUME Typed, NEW p \in Producers, chain[p] # << >>, NEW b, b = [p |-> p, i |-> Len(chain[p])]
  PROVE  /\ Exists(b) /\ BufferOf(b) = Last(chain[p])
         /\ Writes(p) => /\ OnlyAt(b)
                         /\ ItemSet(b, BufferOf(b).written % BufferOf(b).capacity, BufferOf(b).written)
                         /\ Counters(b, BufferOf(b).preReadSync, BufferOf(b).readSlot, BufferOf(b).written)
         /\ Publishes(p) => /\ OnlyAt(b) /\ SameItems(b)
                            /\ Counters(b, BufferOf(b).preReadSync, BufferOf(b).readSlot, BufferOf(b).written + 1)
<1>1. chain \in [Producers -> Seq(Buffer)]
  BY DEF Typed
<1>2. Exists(b) /\ BufferOf(b) = Last(chain[p]) /\ b.p = p /\ b.i = Len(chain[p])
  BY <1>1, LastBuffer DEF Exists, BufferOf, Buffers
<1>3. PICK o : o = BufferOf(b)
  OBVIOUS
<1>4. /\ o \in Buffer /\ o.capacity \in Nat \ {0} /\ o.written \in Nat
      /\ \A n \in Nat : n % o.capacity \in 0 .. o.capacity - 1
  BY <1>1, <1>2, <1>3, Fields
<1>5. CASE Writes(p)
  <2>1. PICK r, k, x : /\ k = o.written % o.capacity /\ x = o.written /\ r = WithItem(o, k, x)
                       /\ ReplacesBuffer(b.p, b.i, r)
    BY <1>2, <1>3, <1>5 DEF Writes, WithItem, WriteSlot
  <2>2. k \in 0 .. o.capacity - 1 /\ x \in Nat \cup {NoItem}
    BY <1>4, <2>1
  <2>3. /\ r \in Buffer
        /\ r.block[k] = x /\ \A n \in 0 .. o.capacity - 1 : n # k => r.block[n] = o.block[n]
        /\ r.capacity = o.capacity /\ r.preReadSync = o.preReadSync
        /\ r.readSlot = o.readSlot /\ r.written = o.written
    <3>1. o \in Buffer
      BY <1>4
    <3>2. r = WithItem(o, k, x)
      BY <2>1
    <3>. QED
      BY <2>2, <3>1, <3>2, SetItem
  <2>4. OnlyAt(b) /\ AtNext(b) = r
    BY <1>1, <1>2, <2>1, <2>3, OneReplaced
  <2>5. ~Publishes(p)
    BY <1>5 DEF Writes, Publishes
  <2>. QED
    BY <1>2, <1>3, <2>1, <2>3, <2>4, <2>5 DEF ItemSet, Counters
<1>6. CASE Publishes(p)
  <2>1. PICK r, x : x = o.written + 1 /\ r = [o EXCEPT !.written = x] /\ ReplacesBuffer(b.p, b.i, r)
    BY <1>2, <1>3, <1>6 DEF Publishes
  <2>2. x \in Nat
    BY <1>4, <2>1
  <2>3. /\ r \in Buffer /\ r.written = x /\ r.capacity = o.capacity /\ r.preReadSync = o.preReadSync
        /\ r.readSlot = o.readSlot /\ r.block = o.block
    BY <1>4, <2>1, <2>2, SetWritten
  <2>4. OnlyAt(b) /\ AtNext(b) = r
    BY <1>1, <1>2, <2>1, <2>3, OneReplaced
  <2>5. ~Writes(p)
    BY <1>6 DEF Writes, Publishes
  <2>. QED
    BY <1>2, <1>3, <2>1, <2>3, <2>4, <2>5 DEF SameItems, Counters
<1>. QED
  BY <1>2, <1>5, <1>6

\* A new buffer is the last one of its chain, and the others stay.
LEMMA AtNew ==
  ASSUME Typed, NEW p \in Producers, NEW r \in Buffer, Adds(p, r),
         NEW b, b = [p |-> p, i |-> Len(chain[p]) + 1]
  PROVE  /\ ~Exists(b) /\ AtNext(b) = r /\ Len(chain'[p]) = Len(chain[p]) + 1
         /\ Len(chain[p]) \in Nat
         /\ \A q \in Producers \ {p} : Len(chain'[q]) = Len(chain[q])
         /\ \A d : Exists(d) => AtNext(d) = BufferOf(d)
         /\ \A d : Stays(d) => Exists(d) \/ d = b
<1>1. chain \in [Producers -> Seq(Buffer)]
  BY DEF Typed
<1>2. /\ Len(chain'[p]) = Len(chain[p]) + 1
      /\ \A q \in Producers \ {p} : Len(chain'[q]) = Len(chain[q])
      /\ chain'[p][Len(chain[p]) + 1] = r
      /\ \A q \in Producers : \A k \in 1 .. Len(chain[q]) : chain'[q][k] = chain[q][k]
  BY <1>1, Appended DEF Adds
<1>3. \A q \in Producers : Len(chain[q]) \in Nat
  BY <1>1, LenProperties
<1>4. ASSUME NEW d, Exists(d)
      PROVE  AtNext(d) = BufferOf(d)
  BY <1>1, <1>2, <1>4, Fields DEF AtNext, BufferOf
<1>5. ASSUME NEW d, Stays(d)
      PROVE  Exists(d) \/ d = b
  <2>1. d \in Buffers /\ d.p \in Producers /\ d.i \in Nat /\ d.i \in 1 .. Len(chain'[d.p])
        /\ d = [p |-> d.p, i |-> d.i]
    BY <1>5 DEF Stays, Buffers
  <2>. QED
    BY <1>2, <1>3, <2>1 DEF Exists
<1>. QED
  BY <1>2, <1>3, <1>4, <1>5 DEF Exists, AtNext

-----------------------------------------------------------------------------
\* The counters of a buffer and the consumers that keep it.

Exact(b) == BufferOf(b).preReadSync - BufferOf(b).readSlot = Cardinality(Reserving(b))
Fits(b) == BufferOf(b).readSlot + Cardinality(Claiming(b)) <= BufferOf(b).written

LEMMA CountsByName ==
  ASSUME chain \in [Producers -> Seq(Buffer)]
  PROVE  /\ ReservationsExact <=> \A b : Exists(b) => Exact(b)
         /\ ClaimsFit <=> \A b : Exists(b) => Fits(b)
<1>1. ASSUME NEW p \in Producers
      PROVE  DOMAIN chain[p] = 1 .. Len(chain[p]) /\ Len(chain[p]) \in Nat
  BY LenProperties
<1>2. ASSUME NEW p \in Producers, NEW i \in 1 .. Len(chain[p])
      PROVE  Exists([p |-> p, i |-> i]) /\ BufferOf([p |-> p, i |-> i]) = chain[p][i]
  BY <1>1 DEF Exists, Buffers, BufferOf
<1>3. ASSUME NEW b, Exists(b)
      PROVE  /\ b.p \in Producers /\ b.i \in 1 .. Len(chain[b.p]) /\ b = [p |-> b.p, i |-> b.i]
             /\ BufferOf(b) = chain[b.p][b.i]
  BY <1>3 DEF Exists, Buffers, BufferOf
<1>4. ASSUME ReservationsExact, NEW b, Exists(b)
      PROVE  Exact(b)
  BY <1>1, <1>3, <1>4 DEF ReservationsExact, Exact
<1>5. ASSUME \A b : Exists(b) => Exact(b)
      PROVE  ReservationsExact
  BY <1>1, <1>2, <1>5 DEF ReservationsExact, Exact
<1>6. ASSUME ClaimsFit, NEW b, Exists(b)
      PROVE  Fits(b)
  BY <1>1, <1>3, <1>6 DEF ClaimsFit, Fits
<1>7. ASSUME \A b : Exists(b) => Fits(b)
      PROVE  ClaimsFit
  BY <1>1, <1>2, <1>7 DEF ClaimsFit, Fits
<1>. QED
  BY <1>4, <1>5, <1>6, <1>7

LEMMA ConsumersFinite ==
  ASSUME NEW b
  PROVE  /\ IsFiniteSet(Reserving(b)) /\ Cardinality(Reserving(b)) \in Nat
         /\ IsFiniteSet(Claiming(b)) /\ Cardinality(Claiming(b)) \in Nat
         /\ Cardinality(Claiming(b)) <= Cardinality(Reserving(b))
<1>1. IsFiniteSet(Consumers) /\ Reserving(b) \subseteq Consumers
  BY QueueAssumption DEF Reserving
<1>2. Claiming(b) \subseteq Reserving(b)
  BY DEF Claiming, Reserving
<1>3. IsFiniteSet(Reserving(b))
  BY <1>1, FS_Subset
<1>4. IsFiniteSet(Claiming(b)) /\ Cardinality(Claiming(b)) <= Cardinality(Reserving(b))
  BY <1>2, <1>3, FS_Subset
<1>. QED
  BY <1>3, <1>4, FS_CardinalityType

\* Nobody begins or ends to reserve or to claim.
LEMMA SetsStay ==
  ASSUME \A d \in Consumers : \/ pc'[d] = pc[d] /\ kept'[d] = kept[d]
                              \/ /\ pc[d] \notin {"claim", "giveBack"}
                                 /\ pc'[d] \notin {"claim", "giveBack"},
         NEW b
  PROVE  Reserving(b)' = Reserving(b) /\ Claiming(b)' = Claiming(b)
BY DEF Reserving, Claiming

LEMMA CountsStep ==
  ASSUME Typed, CountsHold, Grows, Effect
  PROVE  CountsHold'
<1>1. /\ chain \in [Producers -> Seq(Buffer)] /\ chain' \in [Producers -> Seq(Buffer)]
      /\ \A c \in Consumers : pc[c] \in Popping => Exists(kept[c])
      /\ \A b : Exists(b) => Stays(b)
      /\ \A b : Stays(b) => (Exists(b)') /\ BufferOf(b)' = AtNext(b)
      /\ \A b : (Exists(b)') => Stays(b)
  BY DEF Typed, ConsumersHold, Grows, Stays, Exists, Buffers, AtNext, BufferOf
<1>2. \A b : Exists(b) => Exact(b) /\ Fits(b)
  BY <1>1, CountsByName DEF CountsHold
<1>3. ASSUME \A b : Stays(b) => Exact(b)' /\ Fits(b)', ReadBefore'
      PROVE  CountsHold'
  <2>1. ASSUME NEW p \in Producers
        PROVE  DOMAIN chain'[p] = 1 .. Len(chain'[p]) /\ Len(chain'[p]) \in Nat
    BY <1>1, LenProperties
  <2>2. ASSUME NEW p \in Producers, NEW i \in 1 .. Len(chain'[p])
        PROVE  Stays([p |-> p, i |-> i]) /\ AtNext([p |-> p, i |-> i]) = chain'[p][i]
    BY <2>1 DEF Stays, Buffers, AtNext
  <2>3. ReservationsExact'
    BY <1>1, <1>3, <2>1, <2>2 DEF ReservationsExact, Exact
  <2>4. ASSUME NEW p \in Producers, NEW i \in 1 .. Len(chain'[p])
        PROVE  chain'[p][i].readSlot + Cardinality(Claiming([p |-> p, i |-> i])') <= chain'[p][i].written
    <3>. DEFINE b == [p |-> p, i |-> i]
    <3>1. Stays(b) /\ AtNext(b) = chain'[p][i]
      BY <2>2
    <3>. HIDE DEF b
    <3>2. AtNext(b).readSlot + Cardinality(Claiming(b)') <= AtNext(b).written
      BY <1>1, <1>3, <3>1 DEF Fits
    <3>. QED
      BY <3>1, <3>2 DEF b
  <2>5. ClaimsFit'
    BY <2>4 DEF ClaimsFit
  <2>. QED
    BY <1>3, <2>3, <2>5 DEF CountsHold
\* What a step does to the counters of a buffer that was there.
<1>4. ASSUME NEW b, Exists(b)
      PROVE  /\ BufferOf(b).preReadSync \in Int /\ BufferOf(b).readSlot \in Nat
             /\ BufferOf(b).written \in Nat
             /\ AtNext(b).preReadSync \in Int /\ AtNext(b).readSlot \in Nat
             /\ AtNext(b).written \in Nat
             /\ BufferOf(b).preReadSync - BufferOf(b).readSlot = Cardinality(Reserving(b))
             /\ BufferOf(b).readSlot + Cardinality(Claiming(b)) <= BufferOf(b).written
             /\ Cardinality(Reserving(b)) \in Nat /\ Cardinality(Claiming(b)) \in Nat
             /\ Cardinality(Claiming(b)) <= Cardinality(Reserving(b))
  <2>1. AtNext(b) \in Buffer
    BY <1>1, <1>4, ElementOfSeq DEF Stays, Buffers, AtNext
  <2>2. BufferOf(b) \in Buffer
    BY <1>1, <1>4, Fields
  <2>. QED
    BY <1>2, <1>4, <2>1, <2>2, BufferFields, ConsumersFinite DEF Exact, Fits
<1>5. ASSUME NEW b, Stays(b),
             AtNext(b).preReadSync - AtNext(b).readSlot = Cardinality(Reserving(b)'),
             AtNext(b).readSlot + Cardinality(Claiming(b)') <= AtNext(b).written
      PROVE  Exact(b)' /\ Fits(b)'
  BY <1>1, <1>5 DEF Exact, Fits
<1>6. ASSUME NEW b, Stays(b), Exists(b),
             AtNext(b).preReadSync = BufferOf(b).preReadSync,
             AtNext(b).readSlot = BufferOf(b).readSlot,
             AtNext(b).written >= BufferOf(b).written,
             Reserving(b)' = Reserving(b), Claiming(b)' = Claiming(b)
      PROVE  Exact(b)' /\ Fits(b)'
  BY <1>4, <1>5, <1>6
\* The buffers that a step of c leaves alone.
<1>7. ASSUME NEW c \in Consumers, OthersStay(c), kept'[c] = kept[c],
             NEW b, b # kept[c]
      PROVE  Reserving(b)' = Reserving(b) /\ Claiming(b)' = Claiming(b)
  BY <1>7 DEF OthersStay, Reserving, Claiming
<1>8. ASSUME NEW c \in Consumers, OthersStay(c), kept'[c] = kept[c],
             NEW d, d = kept[c], OnlyAt(d), Exact(d)' /\ Fits(d)',
             ReadBefore'
      PROVE  CountsHold'
  <2>1. ASSUME NEW b, Stays(b), b # kept[c]
        PROVE  Exact(b)' /\ Fits(b)'
    <3>1. Exists(b) /\ AtNext(b) = BufferOf(b)
      BY <1>8, <2>1 DEF OnlyAt
    <3>2. Reserving(b)' = Reserving(b) /\ Claiming(b)' = Claiming(b)
      BY <1>7, <1>8, <2>1
    <3>. QED
      BY <1>4, <1>6, <2>1, <3>1, <3>2
  <2>. QED
    BY <1>3, <1>8, <2>1
\* Nobody goes on with an older value of m_written than it had.
<1>9. ASSUME \A d \in Consumers : pc'[d] = "reserve" =>
               pc[d] = "reserve" /\ kept'[d] = kept[d] /\ number'[d] = number[d]
      PROVE  ReadBefore'
  <2>1. ASSUME NEW d \in Consumers, pc'[d] = "reserve"
        PROVE  number'[d] <= AtNext(kept'[d]).written
    <3>1. pc[d] = "reserve" /\ kept'[d] = kept[d] /\ number'[d] = number[d] /\ Exists(kept[d])
      BY <1>1, <1>9, <2>1 DEF Popping
    <3>2. number[d] <= BufferOf(kept[d]).written
      BY <3>1 DEF CountsHold, ReadBefore
    <3>3. AtNext(kept[d]).written >= BufferOf(kept[d]).written
      BY <3>1 DEF Grows, Exists, Buffers, AtNext, BufferOf
    <3>4. number[d] \in Nat
      BY DEF Typed, ConsumersTyped
    <3>. QED
      BY <1>4, <3>1, <3>2, <3>3, <3>4
  <2>. QED
    BY <2>1 DEF ReadBefore, AtNext, BufferOf
<1>10. CASE Quiet
  <2>1. \A b : Reserving(b)' = Reserving(b) /\ Claiming(b)' = Claiming(b)
    <3>1. \A d \in Consumers : \/ pc'[d] = pc[d] /\ kept'[d] = kept[d]
                               \/ /\ pc[d] \notin {"claim", "giveBack"}
                                  /\ pc'[d] \notin {"claim", "giveBack"}
      BY <1>10 DEF Quiet, ConsumersStay, OthersStay, Popping
    <3>. QED
      BY <3>1, SetsStay
  <2>2. ReadBefore'
    BY <1>9, <1>10 DEF Quiet, ConsumersStay, OthersStay, Popping
  <2>3. ASSUME NEW b, Stays(b)
        PROVE  Exists(b) /\ AtNext(b) = BufferOf(b)
    BY <1>10, <2>3 DEF Quiet, Stays, Exists, AtNext, BufferOf
  <2>. QED
    BY <1>3, <1>4, <1>6, <2>1, <2>2, <2>3
<1>11. ASSUME NEW c \in Consumers, Reads(c)
       PROVE  CountsHold'
  <2>1. \A b : Reserving(b)' = Reserving(b) /\ Claiming(b)' = Claiming(b)
    <3>1. \A d \in Consumers : \/ pc'[d] = pc[d] /\ kept'[d] = kept[d]
                               \/ /\ pc[d] \notin {"claim", "giveBack"}
                                  /\ pc'[d] \notin {"claim", "giveBack"}
      BY <1>11 DEF Reads, OthersStay, Popping
    <3>. QED
      BY <3>1, SetsStay
  <2>2. ReadBefore'
    <3>1. \A d \in Consumers \ {c} : pc'[d] = "reserve" => number'[d] <= BufferOf(kept'[d]).written
      BY <1>11 DEF Reads, OthersStay, CountsHold, ReadBefore
    <3>2. BufferOf(kept[c]).written \in Nat
      BY <1>4, <1>11 DEF Reads
    <3>3. number'[c] <= BufferOf(kept'[c]).written
      BY <1>11, <3>2 DEF Reads
    <3>4. chain' = chain
      BY <1>11 DEF Reads
    <3>. QED
      BY <3>1, <3>3, <3>4 DEF ReadBefore, BufferOf
  <2>3. ASSUME NEW b, Stays(b)
        PROVE  Exists(b) /\ AtNext(b) = BufferOf(b)
    BY <1>11, <2>3 DEF Reads, Stays, Exists, AtNext, BufferOf
  <2>. QED
    BY <1>3, <1>4, <1>6, <2>1, <2>2, <2>3
\* The steps of a consumer on its buffer.
<1>12. ASSUME NEW c \in Consumers, AtBuffer(c, pc[c]), pc'[c] # "reserve"
       PROVE  /\ ReadBefore' /\ Exists(kept[c]) /\ Stays(kept[c])
              /\ OthersStay(c) /\ kept'[c] = kept[c]
  BY <1>1, <1>9, <1>12 DEF AtBuffer, OthersStay
<1>13. ASSUME NEW c \in Consumers, NEW S, NEW T, IsFiniteSet(S)
       PROVE  /\ T = S \ {c} /\ c \in S => Cardinality(T) = Cardinality(S) - 1
              /\ T = S \cup {c} /\ c \notin S => Cardinality(T) = Cardinality(S) + 1
  BY <1>13, FS_AddElement, FS_RemoveElement
<1>14. ASSUME NEW c \in Consumers, Reserves(c)
       PROVE  CountsHold'
  <2>0. PICK b : b = kept[c]
    OBVIOUS
  <2>1. AtBuffer(c, pc[c]) /\ pc[c] = "reserve" /\ pc'[c] \in {"claim", "giveBack"}
        /\ (pc'[c] = "claim" => ~(number[c] < BufferOf(b).preReadSync + 1))
    BY <2>0, <1>14 DEF Reserves, AtBuffer
  <2>2. /\ ReadBefore' /\ Exists(b) /\ Stays(b)
        /\ OthersStay(c) /\ kept'[c] = b
    BY <1>12, <2>0, <2>1
  <2>3. OnlyAt(b) /\ Counters(b, BufferOf(b).preReadSync + 1, BufferOf(b).readSlot, BufferOf(b).written)
    BY <1>14, <2>0, AtKept
  <2>4. Reserving(b)' = Reserving(b) \cup {c} /\ c \notin Reserving(b)
    BY <2>0, <2>1, <2>2 DEF Reserving, OthersStay
  <2>5. Cardinality(Reserving(b)') = Cardinality(Reserving(b)) + 1
    BY <1>13, <2>4, ConsumersFinite
  <2>6. AtNext(b).preReadSync - AtNext(b).readSlot = Cardinality(Reserving(b)')
    BY <1>4, <2>2, <2>3, <2>5 DEF Counters
  <2>7. AtNext(b).readSlot + Cardinality(Claiming(b)') <= AtNext(b).written
    <3>1. CASE pc'[c] = "claim"
      <4>1. Claiming(b)' = Claiming(b) \cup {c} /\ c \notin Claiming(b)
        BY <2>0, <2>1, <2>2, <3>1 DEF Claiming, OthersStay
      <4>2. Cardinality(Claiming(b)') = Cardinality(Claiming(b)) + 1
        BY <1>13, <4>1, ConsumersFinite
      <4>3. number[c] <= BufferOf(b).written /\ number[c] \in Nat
        BY <2>0, <2>1 DEF CountsHold, ReadBefore, Typed, ConsumersTyped
      <4>. QED
        BY <1>4, <2>1, <2>2, <2>3, <3>1, <4>2, <4>3 DEF Counters
    <3>2. CASE pc'[c] = "giveBack"
      <4>1. Claiming(b)' = Claiming(b)
        BY <2>0, <2>1, <2>2, <3>2 DEF Claiming, OthersStay
      <4>. QED
        BY <1>4, <2>2, <2>3, <4>1 DEF Counters
    <3>. QED
      BY <2>1, <3>1, <3>2
  <2>8. Exact(b)' /\ Fits(b)'
    BY <1>5, <2>2, <2>6, <2>7
  <2>. QED
    BY <1>8, <2>0, <2>2, <2>3, <2>8
<1>15. ASSUME NEW c \in Consumers, GivesBack(c)
       PROVE  CountsHold'
  <2>0. PICK b : b = kept[c]
    OBVIOUS
  <2>1. AtBuffer(c, pc[c]) /\ pc[c] = "giveBack" /\ pc'[c] \notin Popping
    BY <2>0, <1>15 DEF GivesBack, AtBuffer
  <2>2. /\ ReadBefore' /\ Exists(b) /\ Stays(b)
        /\ OthersStay(c) /\ kept'[c] = b
    BY <1>12, <2>0, <2>1 DEF Popping
  <2>3. OnlyAt(b) /\ Counters(b, BufferOf(b).preReadSync - 1, BufferOf(b).readSlot, BufferOf(b).written)
    BY <1>15, <2>0, AtKept
  <2>4. Reserving(b)' = Reserving(b) \ {c} /\ c \in Reserving(b) /\ Claiming(b)' = Claiming(b)
    BY <2>0, <2>1, <2>2 DEF Reserving, Claiming, OthersStay, Popping
  <2>5. Cardinality(Reserving(b)') = Cardinality(Reserving(b)) - 1
    BY <1>13, <2>4, ConsumersFinite
  <2>6. /\ AtNext(b).preReadSync - AtNext(b).readSlot = Cardinality(Reserving(b)')
        /\ AtNext(b).readSlot + Cardinality(Claiming(b)') <= AtNext(b).written
    BY <1>4, <2>2, <2>3, <2>4, <2>5 DEF Counters
  <2>7. Exact(b)' /\ Fits(b)'
    BY <1>5, <2>2, <2>6
  <2>. QED
    BY <1>8, <2>0, <2>2, <2>3, <2>7
<1>16. ASSUME NEW c \in Consumers, Claims(c)
       PROVE  CountsHold'
  <2>0. PICK b : b = kept[c]
    OBVIOUS
  <2>1. AtBuffer(c, pc[c]) /\ pc[c] = "claim" /\ pc'[c] = "writeOut"
    BY <2>0, <1>16 DEF Claims, AtBuffer
  <2>2. /\ ReadBefore' /\ Exists(b) /\ Stays(b)
        /\ OthersStay(c) /\ kept'[c] = b
    BY <1>12, <2>0, <2>1
  <2>3. OnlyAt(b) /\ Counters(b, BufferOf(b).preReadSync, BufferOf(b).readSlot + 1, BufferOf(b).written)
    BY <1>16, <2>0, AtKept
  <2>4. /\ Reserving(b)' = Reserving(b) \ {c} /\ c \in Reserving(b)
        /\ Claiming(b)' = Claiming(b) \ {c} /\ c \in Claiming(b)
    BY <2>0, <2>1, <2>2 DEF Reserving, Claiming, OthersStay
  <2>5. /\ Cardinality(Reserving(b)') = Cardinality(Reserving(b)) - 1
        /\ Cardinality(Claiming(b)') = Cardinality(Claiming(b)) - 1
    BY <1>13, <2>4, ConsumersFinite
  <2>6. /\ AtNext(b).preReadSync - AtNext(b).readSlot = Cardinality(Reserving(b)')
        /\ AtNext(b).readSlot + Cardinality(Claiming(b)') <= AtNext(b).written
    BY <1>4, <2>2, <2>3, <2>5 DEF Counters
  <2>7. Exact(b)' /\ Fits(b)'
    BY <1>5, <2>2, <2>6
  <2>. QED
    BY <1>8, <2>0, <2>2, <2>3, <2>7
<1>17. ASSUME NEW c \in Consumers, WritesOut(c)
       PROVE  CountsHold'
  <2>0. PICK b : b = kept[c]
    OBVIOUS
  <2>1. AtBuffer(c, pc[c]) /\ pc[c] = "writeOut" /\ pc'[c] \notin Popping
    BY <2>0, <1>17 DEF WritesOut, AtBuffer
  <2>2. /\ ReadBefore' /\ Exists(b) /\ Stays(b)
        /\ OthersStay(c) /\ kept'[c] = b
    BY <1>12, <2>0, <2>1 DEF Popping
  <2>3. OnlyAt(b) /\ Counters(b, BufferOf(b).preReadSync, BufferOf(b).readSlot, BufferOf(b).written)
    BY <1>17, <2>0, AtKept
  <2>4. Reserving(b)' = Reserving(b) /\ Claiming(b)' = Claiming(b)
    BY <2>0, <2>1, <2>2 DEF Reserving, Claiming, OthersStay, Popping
  <2>5. Exact(b)' /\ Fits(b)'
    BY <1>4, <1>6, <2>2, <2>3, <2>4 DEF Counters
  <2>. QED
    BY <1>8, <2>0, <2>2, <2>3, <2>5
\* The steps of a producer.
<1>18. ASSUME ConsumersStay
       PROVE  ReadBefore' /\ \A b : Reserving(b)' = Reserving(b) /\ Claiming(b)' = Claiming(b)
  BY <1>9, <1>18 DEF ConsumersStay, Reserving, Claiming
<1>19. ASSUME NEW p \in Producers, Writes(p) \/ Publishes(p)
       PROVE  CountsHold'
  <2>1. chain[p] # << >> /\ ConsumersStay
    BY <1>19 DEF Writes, Publishes
  <2>2. PICK b : b = [p |-> p, i |-> Len(chain[p])]
    OBVIOUS
  <2>3. /\ OnlyAt(b) /\ Exists(b)
        /\ \/ Counters(b, BufferOf(b).preReadSync, BufferOf(b).readSlot, BufferOf(b).written)
           \/ Counters(b, BufferOf(b).preReadSync, BufferOf(b).readSlot, BufferOf(b).written + 1)
    BY <1>19, <2>1, <2>2, AtLast
  <2>4. ASSUME NEW d, Stays(d)
        PROVE  Exact(d)' /\ Fits(d)'
    <3>1. Exists(d) /\ (d # b => AtNext(d) = BufferOf(d))
      BY <2>3, <2>4 DEF OnlyAt
    <3>2. AtNext(d).preReadSync = BufferOf(d).preReadSync /\ AtNext(d).readSlot = BufferOf(d).readSlot
          /\ AtNext(d).written >= BufferOf(d).written
      BY <1>4, <2>3, <3>1 DEF Counters
    <3>. QED
      BY <1>6, <1>18, <2>1, <2>4, <3>1, <3>2
  <2>. QED
    BY <1>3, <1>18, <2>1, <2>4
<1>20. ASSUME NEW p \in Producers, NEW r \in Buffer, Adds(p, r)
       PROVE  CountsHold'
  <2>1. ConsumersStay /\ r.preReadSync = 0 /\ r.readSlot = 0 /\ r.written = 0
    BY <1>20 DEF Adds
  <2>2. PICK b : b = [p |-> p, i |-> Len(chain[p]) + 1]
    OBVIOUS
  <2>3. /\ ~Exists(b) /\ AtNext(b) = r
        /\ \A d : Exists(d) => AtNext(d) = BufferOf(d)
        /\ \A d : Stays(d) => Exists(d) \/ d = b
    BY <1>20, <2>2, AtNew
  <2>4. ASSUME NEW d, Stays(d)
        PROVE  Exact(d)' /\ Fits(d)'
    <3>1. CASE Exists(d)
      <4>1. AtNext(d).preReadSync = BufferOf(d).preReadSync /\ AtNext(d).readSlot = BufferOf(d).readSlot
            /\ AtNext(d).written >= BufferOf(d).written
        BY <1>4, <2>3, <3>1
      <4>. QED
        BY <1>6, <1>18, <2>1, <2>4, <3>1, <4>1
    <3>2. CASE d = b
      <4>1. Reserving(b) = {} /\ Claiming(b) = {}
        BY <1>1, <2>3 DEF Reserving, Claiming, Popping
      <4>2. Cardinality(Reserving(b)') = 0 /\ Cardinality(Claiming(b)') = 0
        BY <1>18, <2>1, <4>1, FS_EmptySet
      <4>. QED
        BY <1>5, <2>1, <2>3, <2>4, <3>2, <4>2
    <3>. QED
      BY <2>3, <2>4, <3>1, <3>2
  <2>. QED
    BY <1>3, <1>18, <2>1, <2>4
<1>. QED
  BY <1>10, <1>11, <1>14, <1>15, <1>16, <1>17, <1>19, <1>20 DEF Effect

-----------------------------------------------------------------------------
\* The items in the ring of a buffer o.

InPlace(o) ==
  \A n \in Nat : (o.readSlot <= n /\ n < o.written) => o.block[n % o.capacity] = n

Newest(o) == o.block[o.written % o.capacity] = o.written

\* Item n was claimed and is still there.
Has(o, n) == n < o.readSlot /\ o.block[n % o.capacity] = n

SameRing(x, o) ==
  x.capacity = o.capacity /\ x.readSlot = o.readSlot /\ x.written = o.written /\ x.block = o.block

LEMMA ItemsByName ==
  ASSUME Typed, CountsHold, ItemsHold
  PROVE  /\ \A b : Exists(b) => InPlace(BufferOf(b)) /\ BufferOf(b).readSlot <= BufferOf(b).written
         /\ \A p \in Producers : producerPc[p] = "publish" =>
              /\ Newest(BufferOf([p |-> p, i |-> Len(chain[p])]))
              /\ Exists([p |-> p, i |-> Len(chain[p])])
         /\ \A c \in Consumers : pc[c] = "writeOut" =>
              Exists(kept[c]) /\ number[c] \in Nat /\ Has(BufferOf(kept[c]), number[c])
         /\ \A c, d \in Consumers :
              (c # d /\ pc[c] = "writeOut" /\ pc[d] = "writeOut" /\ kept[d] = kept[c]) =>
                number[d] # number[c]
         /\ \A c \in Consumers : pc[c] = "claim" =>
              Exists(kept[c]) /\ BufferOf(kept[c]).readSlot < BufferOf(kept[c]).written
<1>1. /\ chain \in [Producers -> Seq(Buffer)] /\ number \in [Consumers -> Nat]
      /\ \A c \in Consumers : pc[c] \in Popping => Exists(kept[c])
      /\ \A p \in Producers : producerPc[p] = "publish" => chain[p] # << >>
  BY DEF Typed, ConsumersTyped, ConsumersHold, ProducersHold
<1>2. ASSUME NEW b, Exists(b)
      PROVE  /\ InPlace(BufferOf(b)) /\ BufferOf(b).readSlot <= BufferOf(b).written
             /\ \A c \in Consumers : (pc[c] = "claim" /\ kept[c] = b) =>
                  BufferOf(b).readSlot < BufferOf(b).written
  <2>1. b.p \in Producers /\ b.i \in 1 .. Len(chain[b.p]) /\ BufferOf(b) = chain[b.p][b.i]
    BY <1>1, <1>2, Fields DEF BufferOf
  <2>2. InPlace(BufferOf(b))
    BY <2>1 DEF ItemsHold, ItemsInPlace, InPlace
  <2>3. Fits(b)
    BY <1>1, <1>2, CountsByName DEF CountsHold
  <2>4. /\ BufferOf(b).readSlot \in Nat /\ BufferOf(b).written \in Nat
        /\ Cardinality(Claiming(b)) \in Nat /\ IsFiniteSet(Claiming(b))
    BY <1>1, <1>2, Fields, ConsumersFinite
  <2>5. ASSUME NEW c \in Consumers, pc[c] = "claim", kept[c] = b
        PROVE  Cardinality(Claiming(b)) # 0
    BY <2>4, <2>5, FS_EmptySet DEF Claiming
  <2>. QED
    BY <2>2, <2>3, <2>4, <2>5 DEF Fits
<1>3. ASSUME NEW p \in Producers, producerPc[p] = "publish"
      PROVE  /\ Newest(BufferOf([p |-> p, i |-> Len(chain[p])]))
             /\ Exists([p |-> p, i |-> Len(chain[p])])
  <2>1. PICK b : b = [p |-> p, i |-> Len(chain[p])]
    OBVIOUS
  <2>2. Exists(b) /\ BufferOf(b) = Last(chain[p])
    BY <1>1, <1>3, <2>1, AtLast
  <2>. QED
    BY <1>3, <2>1, <2>2 DEF ItemsHold, NewestInPlace, Newest
<1>4. ASSUME NEW c \in Consumers, pc[c] = "writeOut"
      PROVE  Exists(kept[c]) /\ number[c] \in Nat /\ Has(BufferOf(kept[c]), number[c])
  BY <1>1, <1>4 DEF ItemsHold, ClaimedOnce, TakesItsItem, ReadSlot, Has, Popping
<1>5. ASSUME NEW c \in Consumers, pc[c] = "claim"
      PROVE  Exists(kept[c]) /\ BufferOf(kept[c]).readSlot < BufferOf(kept[c]).written
  BY <1>1, <1>2, <1>5 DEF Popping
<1>. QED
  BY <1>2, <1>3, <1>4, <1>5 DEF ItemsHold, ClaimedOnce

LEMMA ItemsNext ==
  ASSUME Typed', Grows,
         \A b : Stays(b) => InPlace(AtNext(b)),
         \A p \in Producers : \A b :
           (producerPc'[p] = "publish" /\ b = [p |-> p, i |-> Len(chain'[p])] /\ Stays(b)) =>
             Newest(AtNext(b)),
         \A c \in Consumers : pc'[c] = "writeOut" => Has(AtNext(kept'[c]), number'[c]),
         \A c, d \in Consumers :
           (c # d /\ pc'[c] = "writeOut" /\ pc'[d] = "writeOut" /\ kept'[d] = kept'[c]) =>
             number'[d] # number'[c]
  PROVE  ItemsHold'
<1>1. /\ chain' \in [Producers -> Seq(Buffer)]
      /\ \A p \in Producers : producerPc'[p] = "publish" => chain'[p] # << >>
  BY DEF Typed, ProducersHold
<1>2. ASSUME NEW p \in Producers
      PROVE  Len(chain'[p]) \in Nat /\ (chain'[p] # << >> => Len(chain'[p]) \in 1 .. Len(chain'[p]))
  BY <1>1, LenProperties, EmptySeq
<1>3. ASSUME NEW p \in Producers, NEW i \in 1 .. Len(chain'[p])
      PROVE  Stays([p |-> p, i |-> i]) /\ AtNext([p |-> p, i |-> i]) = chain'[p][i]
  BY <1>2 DEF Stays, Buffers, AtNext
<1>4. ItemsInPlace'
  <2>1. ASSUME NEW p \in Producers, NEW i \in 1 .. Len(chain'[p])
        PROVE  InPlace(chain'[p][i])
    BY <1>3
  <2>. QED
    BY <2>1 DEF ItemsInPlace, InPlace
<1>5. NewestInPlace'
  <2>1. ASSUME NEW p \in Producers, producerPc'[p] = "publish"
        PROVE  Newest(Last(chain'[p]))
    <3>1. PICK b : b = [p |-> p, i |-> Len(chain'[p])]
      OBVIOUS
    <3>2. Stays(b) /\ AtNext(b) = chain'[p][Len(chain'[p])]
      BY <1>1, <1>2, <1>3, <2>1, <3>1
    <3>. QED
      BY <2>1, <3>1, <3>2 DEF Last
  <2>. QED
    BY <2>1 DEF NewestInPlace, Newest
<1>6. ClaimedOnce' /\ TakesItsItem'
  BY DEF ClaimedOnce, TakesItsItem, Has, AtNext, BufferOf, ReadSlot
<1>. QED
  BY <1>4, <1>5, <1>6 DEF ItemsHold

LEMMA ItemsStep ==
  ASSUME Typed, CountsHold, ItemsHold, Typed', Grows, Effect
  PROVE  ItemsHold'
<1>1. /\ \A b : Exists(b) => InPlace(BufferOf(b)) /\ BufferOf(b).readSlot <= BufferOf(b).written
      /\ \A p \in Producers : producerPc[p] = "publish" =>
           /\ Newest(BufferOf([p |-> p, i |-> Len(chain[p])]))
           /\ Exists([p |-> p, i |-> Len(chain[p])])
      /\ \A c \in Consumers : pc[c] = "writeOut" =>
           Exists(kept[c]) /\ number[c] \in Nat /\ Has(BufferOf(kept[c]), number[c])
      /\ \A c, d \in Consumers :
           (c # d /\ pc[c] = "writeOut" /\ pc[d] = "writeOut" /\ kept[d] = kept[c]) =>
             number[d] # number[c]
      /\ \A c \in Consumers : pc[c] = "claim" =>
           Exists(kept[c]) /\ BufferOf(kept[c]).readSlot < BufferOf(kept[c]).written
  BY ItemsByName
<1>2. ASSUME NEW b, Exists(b)
      PROVE  /\ BufferOf(b).capacity \in Nat \ {0}
             /\ BufferOf(b).readSlot \in Nat /\ BufferOf(b).written \in Nat
             /\ \A n \in Nat : n % BufferOf(b).capacity \in 0 .. BufferOf(b).capacity - 1
  BY <1>2, Fields DEF Typed
<1>3. \A p \in Producers : producerPc[p] \in ProducerPcs
  BY DEF Typed
\* The items are where they were, and nobody begins to move one out.
<1>4. ASSUME \A b : Stays(b) => Exists(b) /\ SameRing(AtNext(b), BufferOf(b)),
             \A p \in Producers : producerPc'[p] = "publish" =>
               producerPc[p] = "publish" /\ Len(chain'[p]) = Len(chain[p]),
             \A c \in Consumers : pc'[c] = "writeOut" =>
               pc[c] = "writeOut" /\ kept'[c] = kept[c] /\ number'[c] = number[c]
      PROVE  ItemsHold'
  <2>1. ASSUME NEW b, Stays(b)
        PROVE  InPlace(AtNext(b))
    BY <1>1, <1>4, <2>1 DEF InPlace, SameRing
  <2>2. ASSUME NEW p \in Producers, NEW b, producerPc'[p] = "publish",
               b = [p |-> p, i |-> Len(chain'[p])], Stays(b)
        PROVE  Newest(AtNext(b))
    BY <1>1, <1>4, <2>2 DEF Newest, SameRing
  <2>3. ASSUME NEW c \in Consumers, pc'[c] = "writeOut"
        PROVE  Has(AtNext(kept'[c]), number'[c])
    <3>1. Exists(kept[c]) /\ Has(BufferOf(kept[c]), number[c])
          /\ kept'[c] = kept[c] /\ number'[c] = number[c]
      BY <1>1, <1>4, <2>3
    <3>2. Stays(kept[c])
      BY <3>1 DEF Grows, Stays, Exists, Buffers
    <3>. QED
      BY <1>4, <3>1, <3>2 DEF Has, SameRing
  <2>4. ASSUME NEW c \in Consumers, NEW d \in Consumers, c # d,
               pc'[c] = "writeOut", pc'[d] = "writeOut", kept'[d] = kept'[c]
        PROVE  number'[d] # number'[c]
    BY <1>1, <1>4, <2>4
  <2>. QED
    BY <2>1, <2>2, <2>3, <2>4, ItemsNext
<1>5. CASE Quiet
  <2>1. \A b : Stays(b) => Exists(b) /\ SameRing(AtNext(b), BufferOf(b))
    BY <1>5 DEF Quiet, Stays, Exists, AtNext, BufferOf, SameRing
  <2>2. \A p \in Producers : producerPc'[p] = "publish" =>
          producerPc[p] = "publish" /\ Len(chain'[p]) = Len(chain[p])
    BY <1>5 DEF Quiet
  <2>3. \A c \in Consumers : pc'[c] = "writeOut" =>
          pc[c] = "writeOut" /\ kept'[c] = kept[c] /\ number'[c] = number[c]
    BY <1>5 DEF Quiet, ConsumersStay, OthersStay, Popping
  <2>. QED
    BY <1>4, <2>1, <2>2, <2>3
<1>6. ASSUME NEW c \in Consumers, Reads(c)
      PROVE  ItemsHold'
  <2>1. \A b : Stays(b) => Exists(b) /\ SameRing(AtNext(b), BufferOf(b))
    BY <1>6 DEF Reads, Stays, Exists, AtNext, BufferOf, SameRing
  <2>2. \A p \in Producers : producerPc'[p] = "publish" =>
          producerPc[p] = "publish" /\ Len(chain'[p]) = Len(chain[p])
    BY <1>6 DEF Reads
  <2>3. \A d \in Consumers : pc'[d] = "writeOut" =>
          pc[d] = "writeOut" /\ kept'[d] = kept[d] /\ number'[d] = number[d]
    BY <1>6 DEF Reads, OthersStay
  <2>. QED
    BY <1>4, <2>1, <2>2, <2>3
<1>7. ASSUME NEW c \in Consumers, Reserves(c) \/ GivesBack(c)
      PROVE  ItemsHold'
  <2>1. PICK b : b = kept[c]
    OBVIOUS
  <2>2. /\ OnlyAt(b) /\ SameItems(b) /\ AtNext(b).capacity = BufferOf(b).capacity
        /\ AtNext(b).readSlot = BufferOf(b).readSlot /\ AtNext(b).written = BufferOf(b).written
    BY <1>7, <2>1, AtKept DEF Counters
  <2>3. \A d : Stays(d) => Exists(d) /\ SameRing(AtNext(d), BufferOf(d))
    BY <2>2 DEF OnlyAt, SameRing, SameItems
  <2>4. \A p \in Producers : producerPc'[p] = "publish" =>
          producerPc[p] = "publish" /\ Len(chain'[p]) = Len(chain[p])
    BY <1>7, <2>2 DEF Reserves, GivesBack, AtBuffer, OnlyAt
  <2>5. \A d \in Consumers : pc'[d] = "writeOut" =>
          pc[d] = "writeOut" /\ kept'[d] = kept[d] /\ number'[d] = number[d]
    BY <1>7 DEF Reserves, GivesBack, AtBuffer, OthersStay, Popping
  <2>. QED
    BY <1>4, <2>3, <2>4, <2>5
\* The item that is claimed is the oldest one.
<1>8. ASSUME NEW c \in Consumers, Claims(c)
      PROVE  ItemsHold'
  <2>1. PICK b : b = kept[c]
    OBVIOUS
  <2>2. /\ OnlyAt(b) /\ SameItems(b) /\ AtNext(b).capacity = BufferOf(b).capacity
        /\ AtNext(b).readSlot = BufferOf(b).readSlot + 1 /\ AtNext(b).written = BufferOf(b).written
    BY <1>8, <2>1, AtKept DEF Counters
  <2>3. /\ Exists(b) /\ pc[c] = "claim" /\ pc'[c] = "writeOut" /\ kept'[c] = b
        /\ number'[c] = BufferOf(b).readSlot /\ OthersStay(c) /\ producerPc' = producerPc
    BY <1>8, <2>1 DEF Claims, AtBuffer
  <2>4. /\ BufferOf(b).readSlot \in Nat /\ BufferOf(b).written \in Nat
        /\ BufferOf(b).readSlot < BufferOf(b).written /\ InPlace(BufferOf(b))
    BY <1>1, <1>2, <2>1, <2>3
  <2>5. ASSUME NEW d, Stays(d)
        PROVE  InPlace(AtNext(d))
    <3>1. CASE d = b
      BY <2>2, <2>4, <3>1 DEF InPlace, SameItems
    <3>2. CASE d # b
      BY <1>1, <2>2, <2>5, <3>2 DEF OnlyAt
    <3>. QED
      BY <3>1, <3>2
  <2>6. ASSUME NEW p \in Producers, NEW d, producerPc'[p] = "publish",
               d = [p |-> p, i |-> Len(chain'[p])], Stays(d)
        PROVE  Newest(AtNext(d))
    <3>1. Newest(BufferOf(d)) /\ Exists(d)
      BY <1>1, <2>2, <2>3, <2>6 DEF OnlyAt
    <3>. QED
      BY <2>2, <3>1 DEF OnlyAt, Newest, SameItems
  <2>7. Has(AtNext(b), BufferOf(b).readSlot)
    BY <2>2, <2>4 DEF Has, InPlace, SameItems
  <2>8. ASSUME NEW d \in Consumers, d # c, pc'[d] = "writeOut"
        PROVE  /\ pc[d] = "writeOut" /\ kept'[d] = kept[d] /\ number'[d] = number[d]
               /\ Has(AtNext(kept[d]), number[d]) /\ (kept[d] = b => number[d] < BufferOf(b).readSlot)
    <3>1. pc[d] = "writeOut" /\ kept'[d] = kept[d] /\ number'[d] = number[d]
      BY <2>3, <2>8 DEF OthersStay
    <3>2. Exists(kept[d]) /\ number[d] \in Nat /\ Has(BufferOf(kept[d]), number[d])
      BY <1>1, <3>1
    <3>3. CASE kept[d] = b
      BY <2>2, <2>4, <3>1, <3>2, <3>3 DEF Has, SameItems
    <3>4. CASE kept[d] # b
      BY <2>2, <3>1, <3>2, <3>4 DEF OnlyAt
    <3>. QED
      BY <3>3, <3>4
  <2>9. ASSUME NEW d \in Consumers, pc'[d] = "writeOut"
        PROVE  Has(AtNext(kept'[d]), number'[d])
    BY <2>3, <2>7, <2>8, <2>9
  <2>10. ASSUME NEW d \in Consumers, NEW e \in Consumers, d # e,
                pc'[d] = "writeOut", pc'[e] = "writeOut", kept'[e] = kept'[d]
         PROVE  number'[e] # number'[d]
    <3>1. CASE d = c
      BY <2>3, <2>4, <2>8, <2>10, <3>1
    <3>2. CASE e = c
      BY <2>3, <2>4, <2>8, <2>10, <3>2
    <3>3. CASE d # c /\ e # c
      BY <1>1, <2>8, <2>10, <3>3
    <3>. QED
      BY <3>1, <3>2, <3>3
  <2>. QED
    BY <2>5, <2>6, <2>9, <2>10, ItemsNext
\* The slot that is emptied has no item that anybody else may still claim or move out.
<1>9. ASSUME NEW c \in Consumers, WritesOut(c)
      PROVE  ItemsHold'
  <2>1. PICK b, k : b = kept[c] /\ k = number[c] % BufferOf(b).capacity
    OBVIOUS
  <2>2. /\ OnlyAt(b) /\ ItemSet(b, k, NoItem) /\ AtNext(b).capacity = BufferOf(b).capacity
        /\ AtNext(b).readSlot = BufferOf(b).readSlot /\ AtNext(b).written = BufferOf(b).written
    BY <1>9, <2>1, AtKept DEF Counters, ReadSlot
  <2>3. /\ Exists(b) /\ pc[c] = "writeOut" /\ pc'[c] # "writeOut"
        /\ OthersStay(c) /\ producerPc' = producerPc
    BY <1>9, <2>1 DEF WritesOut, AtBuffer, Popping
  <2>4. /\ BufferOf(b).readSlot \in Nat /\ BufferOf(b).written \in Nat
        /\ BufferOf(b).readSlot <= BufferOf(b).written /\ InPlace(BufferOf(b))
        /\ number[c] \in Nat /\ number[c] < BufferOf(b).readSlot /\ BufferOf(b).block[k] = number[c]
        /\ \A n \in Nat : n % BufferOf(b).capacity \in 0 .. BufferOf(b).capacity - 1
    BY <1>1, <1>2, <2>1, <2>3 DEF Has
  <2>5. ASSUME NEW n \in Nat, BufferOf(b).block[n % BufferOf(b).capacity] = n, n # number[c]
        PROVE  AtNext(b).block[n % AtNext(b).capacity] = n
    BY <2>2, <2>4, <2>5 DEF ItemSet
  <2>6. ASSUME NEW d, Stays(d)
        PROVE  InPlace(AtNext(d))
    <3>1. CASE d = b
      <4>1. ASSUME NEW n \in Nat, AtNext(b).readSlot <= n, n < AtNext(b).written
            PROVE  AtNext(b).block[n % AtNext(b).capacity] = n
        <5>1. BufferOf(b).block[n % BufferOf(b).capacity] = n /\ n # number[c]
          BY <2>2, <2>4, <4>1 DEF InPlace
        <5>. QED
          BY <2>5, <5>1
      <4>. QED
        BY <3>1, <4>1 DEF InPlace
    <3>2. CASE d # b
      BY <1>1, <2>2, <2>6, <3>2 DEF OnlyAt
    <3>. QED
      BY <3>1, <3>2
  <2>7. ASSUME NEW p \in Producers, NEW d, producerPc'[p] = "publish",
               d = [p |-> p, i |-> Len(chain'[p])], Stays(d)
        PROVE  Newest(AtNext(d))
    <3>1. Newest(BufferOf(d)) /\ Exists(d)
      BY <1>1, <2>2, <2>3, <2>7 DEF OnlyAt
    <3>2. CASE d = b
      <4>1. PICK n : n = BufferOf(b).written
        OBVIOUS
      <4>2. n \in Nat /\ BufferOf(b).block[n % BufferOf(b).capacity] = n /\ n # number[c]
        BY <2>4, <3>1, <3>2, <4>1 DEF Newest
      <4>3. AtNext(b).block[n % AtNext(b).capacity] = n
        BY <2>5, <4>2
      <4>. QED
        BY <2>2, <3>2, <4>1, <4>3 DEF Newest
    <3>3. CASE d # b
      BY <2>2, <3>1, <3>3 DEF OnlyAt
    <3>. QED
      BY <3>2, <3>3
  <2>8. ASSUME NEW d \in Consumers, pc'[d] = "writeOut"
        PROVE  /\ d # c /\ pc[d] = "writeOut" /\ kept'[d] = kept[d] /\ number'[d] = number[d]
    BY <2>3, <2>8 DEF OthersStay
  <2>9. ASSUME NEW d \in Consumers, pc'[d] = "writeOut"
        PROVE  Has(AtNext(kept'[d]), number'[d])
    <3>1. Exists(kept[d]) /\ number[d] \in Nat /\ Has(BufferOf(kept[d]), number[d])
      BY <1>1, <2>8, <2>9
    <3>2. CASE kept[d] = b
      <4>1. number[d] # number[c]
        BY <1>1, <2>1, <2>3, <2>8, <2>9, <3>2
      <4>2. AtNext(b).block[number[d] % AtNext(b).capacity] = number[d]
        BY <2>5, <3>1, <3>2, <4>1 DEF Has
      <4>. QED
        BY <2>2, <2>8, <2>9, <3>1, <3>2, <4>2 DEF Has
    <3>3. CASE kept[d] # b
      BY <2>2, <2>8, <2>9, <3>1, <3>3 DEF OnlyAt
    <3>. QED
      BY <3>2, <3>3
  <2>10. ASSUME NEW d \in Consumers, NEW e \in Consumers, d # e,
                pc'[d] = "writeOut", pc'[e] = "writeOut", kept'[e] = kept'[d]
         PROVE  number'[e] # number'[d]
    BY <1>1, <2>8, <2>10
  <2>. QED
    BY <2>6, <2>7, <2>9, <2>10, ItemsNext
\* The slot that is written to has no item, so none is lost.
<1>10. ASSUME NEW p \in Producers, Writes(p)
       PROVE  ItemsHold'
  <2>1. PICK b : b = [p |-> p, i |-> Len(chain[p])]
    OBVIOUS
  <2>2. PICK k : k = BufferOf(b).written % BufferOf(b).capacity
    OBVIOUS
  <2>3. chain[p] # << >> /\ ConsumersStay /\ producerPc' = [producerPc EXCEPT ![p] = "publish"]
        /\ (CanWrite(chain[p]) \/ Last(chain[p]).written = 0)
    BY <1>10 DEF Writes
  <2>4. /\ Exists(b) /\ BufferOf(b) = Last(chain[p])
        /\ OnlyAt(b) /\ ItemSet(b, k, BufferOf(b).written) /\ AtNext(b).capacity = BufferOf(b).capacity
        /\ AtNext(b).readSlot = BufferOf(b).readSlot /\ AtNext(b).written = BufferOf(b).written
    BY <1>10, <2>1, <2>2, <2>3, AtLast DEF Counters
  <2>5. BufferOf(b).block[k] = NoItem \/ BufferOf(b).written = 0
    BY <2>2, <2>3, <2>4 DEF CanWrite, WriteSlot
  <2>6. /\ BufferOf(b).readSlot \in Nat /\ BufferOf(b).written \in Nat
        /\ BufferOf(b).readSlot <= BufferOf(b).written
        /\ \A n \in Nat : n % BufferOf(b).capacity \in 0 .. BufferOf(b).capacity - 1
    BY <1>1, <1>2, <2>4
  <2>7. ASSUME NEW n \in Nat, BufferOf(b).block[n % BufferOf(b).capacity] = n, n < BufferOf(b).written
        PROVE  AtNext(b).block[n % AtNext(b).capacity] = n
    <3>1. n % BufferOf(b).capacity # k
      BY <2>5, <2>6, <2>7, QueueAssumption
    <3>. QED
      BY <2>4, <2>6, <2>7, <3>1 DEF ItemSet
  <2>8. ASSUME NEW d, Stays(d)
        PROVE  InPlace(AtNext(d))
    <3>1. CASE d = b
      <4>1. ASSUME NEW n \in Nat, AtNext(b).readSlot <= n, n < AtNext(b).written
            PROVE  AtNext(b).block[n % AtNext(b).capacity] = n
        BY <1>1, <2>4, <2>7, <4>1 DEF InPlace
      <4>. QED
        BY <3>1, <4>1 DEF InPlace
    <3>2. CASE d # b
      BY <1>1, <2>4, <2>8, <3>2 DEF OnlyAt
    <3>. QED
      BY <3>1, <3>2
  <2>9. ASSUME NEW q \in Producers, NEW d, producerPc'[q] = "publish",
               d = [p |-> q, i |-> Len(chain'[q])], Stays(d)
        PROVE  Newest(AtNext(d))
    <3>1. Exists(d) /\ Len(chain'[q]) = Len(chain[q])
      BY <2>4, <2>9 DEF OnlyAt
    <3>2. CASE q = p
      <4>1. d = b
        BY <2>1, <2>9, <3>1, <3>2
      <4>. QED
        BY <2>2, <2>4, <4>1 DEF Newest, ItemSet
    <3>3. CASE q # p
      <4>1. producerPc[q] = "publish" /\ d # b
        BY <1>3, <2>1, <2>3, <2>9, <3>3 DEF Typed
      <4>. QED
        BY <1>1, <2>4, <2>9, <3>1, <4>1 DEF OnlyAt
    <3>. QED
      BY <3>2, <3>3
  <2>10. ASSUME NEW d \in Consumers, pc'[d] = "writeOut"
         PROVE  Has(AtNext(kept'[d]), number'[d])
    <3>1. Exists(kept[d]) /\ number[d] \in Nat /\ Has(BufferOf(kept[d]), number[d])
          /\ kept'[d] = kept[d] /\ number'[d] = number[d]
      BY <1>1, <2>3, <2>10 DEF ConsumersStay
    <3>2. CASE kept[d] = b
      <4>1. number[d] < BufferOf(b).written
        BY <2>6, <3>1, <3>2 DEF Has
      <4>. QED
        BY <2>4, <2>7, <3>1, <3>2, <4>1 DEF Has
    <3>3. CASE kept[d] # b
      BY <2>4, <3>1, <3>3 DEF OnlyAt
    <3>. QED
      BY <3>2, <3>3
  <2>11. \A c, d \in Consumers :
           (c # d /\ pc'[c] = "writeOut" /\ pc'[d] = "writeOut" /\ kept'[d] = kept'[c]) =>
             number'[d] # number'[c]
    BY <1>1, <2>3 DEF ConsumersStay
  <2>. QED
    BY <2>8, <2>9, <2>10, <2>11, ItemsNext
\* The item that is published was written.
<1>11. ASSUME NEW p \in Producers, Publishes(p)
       PROVE  ItemsHold'
  <2>1. PICK b : b = [p |-> p, i |-> Len(chain[p])]
    OBVIOUS
  <2>2. chain[p] # << >> /\ ConsumersStay /\ producerPc' = [producerPc EXCEPT ![p] = "idle"]
        /\ producerPc[p] = "publish"
    BY <1>11 DEF Publishes
  <2>3. /\ Exists(b)
        /\ OnlyAt(b) /\ SameItems(b) /\ AtNext(b).capacity = BufferOf(b).capacity
        /\ AtNext(b).readSlot = BufferOf(b).readSlot /\ AtNext(b).written = BufferOf(b).written + 1
    BY <1>11, <2>1, <2>2, AtLast DEF Counters
  <2>4. /\ BufferOf(b).readSlot \in Nat /\ BufferOf(b).written \in Nat
        /\ InPlace(BufferOf(b)) /\ Newest(BufferOf(b))
    BY <1>1, <1>2, <2>1, <2>2, <2>3
  <2>5. ASSUME NEW d, Stays(d)
        PROVE  InPlace(AtNext(d))
    <3>1. CASE d = b
      <4>1. ASSUME NEW n \in Nat, AtNext(b).readSlot <= n, n < AtNext(b).written
            PROVE  AtNext(b).block[n % AtNext(b).capacity] = n
        <5>1. CASE n = BufferOf(b).written
          BY <2>3, <2>4, <5>1 DEF Newest, SameItems
        <5>2. CASE n # BufferOf(b).written
          <6>1. BufferOf(b).readSlot <= n /\ n < BufferOf(b).written
            BY <2>3, <2>4, <4>1, <5>2
          <6>. QED
            BY <2>3, <2>4, <6>1 DEF InPlace, SameItems
        <5>. QED
          BY <5>1, <5>2
      <4>. QED
        BY <3>1, <4>1 DEF InPlace
    <3>2. CASE d # b
      BY <1>1, <2>3, <2>5, <3>2 DEF OnlyAt
    <3>. QED
      BY <3>1, <3>2
  <2>6. ASSUME NEW q \in Producers, NEW d, producerPc'[q] = "publish",
               d = [p |-> q, i |-> Len(chain'[q])], Stays(d)
        PROVE  Newest(AtNext(d))
    <3>1. q # p /\ producerPc[q] = "publish" /\ d # b
      BY <2>1, <2>2, <2>6 DEF Typed
    <3>. QED
      BY <1>1, <2>3, <2>6, <3>1 DEF OnlyAt
  <2>7. ASSUME NEW d \in Consumers, pc'[d] = "writeOut"
        PROVE  Has(AtNext(kept'[d]), number'[d])
    <3>1. Exists(kept[d]) /\ Has(BufferOf(kept[d]), number[d])
          /\ kept'[d] = kept[d] /\ number'[d] = number[d]
      BY <1>1, <2>2, <2>7 DEF ConsumersStay
    <3>2. CASE kept[d] = b
      BY <2>3, <3>1, <3>2 DEF Has, SameItems
    <3>3. CASE kept[d] # b
      BY <2>3, <3>1, <3>3 DEF OnlyAt
    <3>. QED
      BY <3>2, <3>3
  <2>8. \A c, d \in Consumers :
          (c # d /\ pc'[c] = "writeOut" /\ pc'[d] = "writeOut" /\ kept'[d] = kept'[c]) =>
            number'[d] # number'[c]
    BY <1>1, <2>2 DEF ConsumersStay
  <2>. QED
    BY <2>5, <2>6, <2>7, <2>8, ItemsNext
\* A new buffer has at most an item that is not published.
<1>12. ASSUME NEW p \in Producers, NEW r \in Buffer, Adds(p, r)
       PROVE  ItemsHold'
  <2>1. PICK b : b = [p |-> p, i |-> Len(chain[p]) + 1]
    OBVIOUS
  <2>2. /\ ConsumersStay /\ r.readSlot = 0 /\ r.written = 0
        /\ producerPc'[p] = "publish" => r.block[0 % r.capacity] = 0
        /\ \A q \in Producers \ {p} : producerPc'[q] = producerPc[q]
    BY <1>12 DEF Adds
  <2>3. /\ ~Exists(b) /\ AtNext(b) = r
        /\ Len(chain'[p]) = Len(chain[p]) + 1
        /\ \A q \in Producers \ {p} : Len(chain'[q]) = Len(chain[q])
        /\ \A d : Exists(d) => AtNext(d) = BufferOf(d)
        /\ \A d : Stays(d) => Exists(d) \/ d = b
    BY <1>12, <2>1, AtNew
  <2>4. InPlace(r)
    BY <2>2 DEF InPlace
  <2>5. \A d : Stays(d) => InPlace(AtNext(d))
    BY <1>1, <2>3, <2>4
  <2>6. ASSUME NEW q \in Producers, NEW d, producerPc'[q] = "publish",
               d = [p |-> q, i |-> Len(chain'[q])], Stays(d)
        PROVE  Newest(AtNext(d))
    <3>1. CASE q = p
      <4>1. d = b
        BY <2>1, <2>3, <2>6, <3>1
      <4>. QED
        BY <2>2, <2>3, <2>6, <3>1, <4>1 DEF Newest
    <3>2. CASE q # p
      <4>1. producerPc[q] = "publish" /\ d = [p |-> q, i |-> Len(chain[q])]
        BY <2>2, <2>3, <2>6, <3>2
      <4>. QED
        BY <1>1, <2>3, <4>1
    <3>. QED
      BY <3>1, <3>2
  <2>7. ASSUME NEW d \in Consumers, pc'[d] = "writeOut"
        PROVE  Has(AtNext(kept'[d]), number'[d])
    BY <1>1, <2>2, <2>3, <2>7 DEF ConsumersStay
  <2>8. \A c, d \in Consumers :
          (c # d /\ pc'[c] = "writeOut" /\ pc'[d] = "writeOut" /\ kept'[d] = kept'[c]) =>
            number'[d] # number'[c]
    BY <1>1, <2>2 DEF ConsumersStay
  <2>. QED
    BY <2>5, <2>6, <2>7, <2>8, ItemsNext
<1>. QED
  BY <1>5, <1>6, <1>7, <1>8, <1>9, <1>10, <1>11, <1>12 DEF Effect

-----------------------------------------------------------------------------

Safe == Typed /\ CountsHold /\ ItemsHold

LEMMA InitSafe ==
  ASSUME Init
  PROVE  Safe
<1>1. Typed
  BY InitTyped
<1>2. \A p \in Producers : chain[p] = << >> /\ producerPc[p] = "idle"
  BY DEF Init
<1>3. \A c \in Consumers : pc[c] = "idle"
  BY DEF Init
<1>4. CountsHold
  BY <1>2, <1>3 DEF CountsHold, ReservationsExact, ClaimsFit, ReadBefore
<1>5. ItemsHold
  BY <1>2, <1>3 DEF ItemsHold, ItemsInPlace, NewestInPlace, ClaimedOnce, TakesItsItem
<1>. QED
  BY <1>1, <1>4, <1>5 DEF Safe

LEMMA SafeAlways == SafeSpec => []Safe
<1>1. Init => Safe
  BY InitSafe
<1>2. Safe /\ [Next]_vars => Safe'
  BY StepTyped, CountsStep, ItemsStep DEF Safe
<1>. QED
  BY <1>1, <1>2, PTL DEF SafeSpec

\* m_preReadSync is never ahead of m_readSlot by more or less than the
\* reservations that consumers are using or giving back, whatever the order in
\* which they raise and lower it: no reservation is lost, so that a buffer never
\* hides an item for good, and none is counted twice.
THEOREM ReservationsAreExact == SafeSpec => []ReservationsExact
<1>1. Safe => ReservationsExact
  BY DEF Safe, CountsHold
<1>. QED
  BY <1>1, SafeAlways, PTL

\* The item that a consumer moves out is the one that it claimed: it was
\* published, nobody else moves it out, and the producer has not come round the
\* ring and overwritten it.
THEOREM ClaimedItemsAreThere == SafeSpec => []TakesItsItem
<1>1. Safe => TakesItsItem
  BY DEF Safe, ItemsHold
<1>. QED
  BY <1>1, SafeAlways, PTL

-----------------------------------------------------------------------------
\* What consumers have gone past.

\* Nothing is left to claim in the buffers before b.
Passed(b) == \A d \in Buffers : (d.p = b.p /\ 1 <= d.i /\ d.i < b.i) => UsedUp(d)

\* The slots and the consumers that look for items are past used up buffers only.
GonePast ==
  /\ \A p \in Producers : slots[p] \in 0 .. Len(chain[p]) /\ Passed([p |-> p, i |-> slots[p]])
  /\ \A c \in Consumers : pc[c] \in Looking => Passed(seen[c]) /\ Passed(inspect[c])

\* A buffer that find_back goes on from is used up when it does, and not only
\* when it was inspected.
GoesOnFromUsedUp == \A c \in Consumers : InspectNext(c) => UsedUp(inspect[c])

\* A producer does not write to a buffer that it has left, and consumers only
\* claim what is there.
LEMMA UsedUpStays ==
  ASSUME Safe, Effect, NEW b, Exists(b), HasNext(b), UsedUp(b)
  PROVE  AtNext(b).readSlot = AtNext(b).written
<1>1. Typed /\ chain \in [Producers -> Seq(Buffer)]
  BY DEF Safe, Typed
<1>2. BufferOf(b).readSlot = BufferOf(b).written
  BY DEF UsedUp
<1>3. ASSUME AtNext(b) = BufferOf(b)
      PROVE  AtNext(b).readSlot = AtNext(b).written
  BY <1>2, <1>3
<1>4. CASE chain' = chain
  BY <1>3, <1>4 DEF AtNext, BufferOf
<1>5. ASSUME NEW c \in Consumers, Reserves(c) \/ GivesBack(c) \/ Claims(c) \/ WritesOut(c)
      PROVE  AtNext(b).readSlot = AtNext(b).written
  <2>1. PICK k : k = kept[c]
    OBVIOUS
  <2>2. CASE b # k
    <3>1. OnlyAt(k)
      BY <1>1, <1>5, <2>1, AtKept
    <3>. QED
      BY <1>3, <2>2, <3>1 DEF OnlyAt
  <2>3. CASE b = k
    <3>1. CASE Claims(c)
      <4>1. c \in Claiming(b)
        BY <2>1, <2>3, <3>1 DEF Claims, AtBuffer, Claiming
      <4>2. Cardinality(Claiming(b)) \in Nat \ {0}
        BY <4>1, ConsumersFinite, FS_EmptySet
      <4>3. BufferOf(b).readSlot + Cardinality(Claiming(b)) <= BufferOf(b).written
        BY <1>1, CountsByName DEF Safe, CountsHold, Fits
      <4>4. BufferOf(b).readSlot \in Nat
        BY <1>1, Fields
      <4>. QED
        BY <1>2, <4>2, <4>3, <4>4
    <3>2. CASE Reserves(c) \/ GivesBack(c) \/ WritesOut(c)
      <4>1. AtNext(k).readSlot = BufferOf(k).readSlot /\ AtNext(k).written = BufferOf(k).written
        BY <1>1, <2>1, <3>2, AtKept DEF Counters
      <4>. QED
        BY <1>2, <2>3, <4>1
    <3>. QED
      BY <1>5, <3>1, <3>2
  <2>. QED
    BY <2>2, <2>3
<1>6. ASSUME NEW p \in Producers, Writes(p) \/ Publishes(p)
      PROVE  AtNext(b).readSlot = AtNext(b).written
  <2>1. PICK d : d = [p |-> p, i |-> Len(chain[p])]
    OBVIOUS
  <2>2. OnlyAt(d)
    BY <1>1, <1>6, <2>1, AtLast DEF Writes, Publishes
  <2>3. b # d
    BY <2>1, <1>1, LenProperties DEF HasNext
  <2>. QED
    BY <1>3, <2>2, <2>3 DEF OnlyAt
<1>7. ASSUME NEW p \in Producers, NEW r \in Buffer, Adds(p, r)
      PROVE  AtNext(b).readSlot = AtNext(b).written
  BY <1>1, <1>3, <1>7, AtNew
<1>. QED
  BY <1>4, <1>5, <1>6, <1>7 DEF Effect, Quiet, Reads

\* What was passed before a step is passed after it.
PassedNext(b) ==
  \A d \in Buffers : (d.p = b.p /\ 1 <= d.i /\ d.i < b.i) => AtNext(d).readSlot = AtNext(d).written

LEMMA PassedStays ==
  ASSUME Safe, Effect, NEW b \in Buffers, b.i <= Len(chain[b.p]), Passed(b)
  PROVE  PassedNext(b)
<1>. SUFFICES ASSUME NEW d \in Buffers, d.p = b.p, 1 <= d.i, d.i < b.i
              PROVE  AtNext(d).readSlot = AtNext(d).written
  BY DEF PassedNext
<1>1. UsedUp(d)
  BY DEF Passed
<1>2. d.p \in Producers /\ d.i \in Nat /\ b.i \in Nat /\ Len(chain[d.p]) \in Nat
  BY LenProperties DEF Buffers, Safe, Typed
<1>3. Exists(d) /\ HasNext(d)
  BY <1>2 DEF Exists, HasNext
<1>. QED
  BY <1>1, <1>3, UsedUpStays

\* The buffer behind one that is used up.
LEMMA PassedBehind ==
  ASSUME Safe, Effect, NEW b, Exists(b), HasNext(b), UsedUp(b), Passed(b),
         NEW n, n = [b EXCEPT !.i = @ + 1]
  PROVE  PassedNext(n)
<1>1. b \in Buffers /\ b.i \in Nat /\ b.p \in Producers /\ Len(chain[b.p]) \in Nat
  BY LenProperties DEF Exists, Buffers, Safe, Typed
<1>2. n.p = b.p /\ n.i = b.i + 1
  BY <1>1 DEF Buffers
<1>3. PassedNext(b)
  BY <1>1, PassedStays DEF HasNext
<1>4. AtNext(b).readSlot = AtNext(b).written
  BY UsedUpStays
<1>5. ASSUME NEW d \in Buffers, d.p = n.p, 1 <= d.i, d.i < n.i
      PROVE  AtNext(d).readSlot = AtNext(d).written
  <2>1. d.i \in Nat
    BY DEF Buffers
  <2>2. CASE d.i < b.i
    BY <1>2, <1>3, <1>5, <2>2 DEF PassedNext
  <2>3. CASE d.i = b.i
    <3>1. d = b
      BY <1>1, <1>2, <1>5, <2>3 DEF Buffers
    <3>. QED
      BY <1>4, <3>1
  <2>. QED
    BY <1>1, <1>2, <1>5, <2>1, <2>2, <2>3
<1>. QED
  BY <1>5 DEF PassedNext

\* Nothing is before the first buffer.
LEMMA FirstPassed ==
  ASSUME NEW p \in Producers
  PROVE  PassedNext([p |-> p, i |-> 1])
BY DEF PassedNext, Buffers

\* The consumers that a step leaves alone keep what they have seen.
LEMMA OthersPass ==
  ASSUME Safe, Effect, GonePast
  PROVE  /\ \A p \in Producers : PassedNext([p |-> p, i |-> slots[p]])
         /\ \A c \in Consumers : pc[c] \in Looking => PassedNext(seen[c]) /\ PassedNext(inspect[c])
<1>1. ASSUME NEW p \in Producers
      PROVE  PassedNext([p |-> p, i |-> slots[p]])
  <2>1. PICK b : b = [p |-> p, i |-> slots[p]]
    OBVIOUS
  <2>2. b \in Buffers /\ b.i <= Len(chain[b.p]) /\ Passed(b)
    BY <2>1, LenProperties DEF GonePast, Buffers, Safe, Typed
  <2>. QED
    BY <2>1, <2>2, PassedStays
<1>2. ASSUME NEW b, Exists(b), Passed(b)
      PROVE  PassedNext(b)
  <2>1. b \in Buffers /\ b.i <= Len(chain[b.p])
    BY <1>2, LenProperties DEF Exists, Buffers, Safe, Typed
  <2>. QED
    BY <1>2, <2>1, PassedStays
<1>. QED
  BY <1>1, <1>2 DEF GonePast, Safe, Typed, ConsumersHold

\* What c looks at after its step.
LooksPast(c) == pc'[c] \in Looking => PassedNext(seen'[c]) /\ PassedNext(inspect'[c])

LEMMA ConsumerPasses ==
  ASSUME Safe, Effect, GonePast, GoesOnFromUsedUp,
         NEW c \in Consumers, relocate_consumer(c)
  PROVE  LooksPast(c)
<1>0. /\ pc \in [Consumers -> ConsumerPcs]
      /\ seen \in [Consumers -> Buffers \cup {Dummy}]
      /\ inspect \in [Consumers -> Buffers \cup {Dummy}]
      /\ registered \in Seq(Producers)
  BY DEF Safe, Typed, ConsumersTyped, RegistryHolds
<1>1. /\ pc[c] \in Looking => PassedNext(seen[c]) /\ PassedNext(inspect[c])
      /\ pc[c] \in Looking => Exists(seen[c]) /\ Exists(inspect[c])
      /\ pc[c] \in Looking => Passed(seen[c]) /\ Passed(inspect[c])
      /\ pc[c] = "active" => inspect[c] = seen[c]
  BY OthersPass DEF GonePast, Safe, Typed, ConsumersHold
<1>. USE DEF Looking
<1>2. ASSUME pc[c] \in Looking, UsedUp(inspect[c]), HasNext(inspect[c]),
             seen' = seen, inspect' = [inspect EXCEPT ![c].i = @ + 1]
      PROVE  LooksPast(c)
  <2>1. PICK n : n = [inspect[c] EXCEPT !.i = @ + 1]
    OBVIOUS
  <2>2. inspect'[c] = n
    BY <1>0, <1>2, <2>1
  <2>3. PassedNext(n)
    BY <1>1, <1>2, <2>1, PassedBehind
  <2>. QED
    BY <1>1, <1>2, <2>2, <2>3 DEF LooksPast
<1>3. CASE NoRelocation(c) \/ VisitedAll(c)
  BY <1>0, <1>3 DEF NoRelocation, VisitedAll, Return, LooksPast
<1>4. CASE BeginRelocation(c)
  BY <1>0, <1>4 DEF BeginRelocation, LooksPast
<1>5. CASE Visit(c)
  <2>1. PICK p : p = registered[Head(toVisit[c])]
    OBVIOUS
  <2>2. seen'[c] = [p |-> p, i |-> slots[p]] /\ inspect'[c] = [p |-> p, i |-> slots[p]]
    BY <1>0, <1>5, <2>1 DEF Visit
  <2>3. p \in Producers
    <3>1. toVisit[c] \in Seq(Nat) /\ toVisit[c] # << >>
      BY <1>5 DEF Visit, Safe, Typed, ConsumersTyped
    <3>2. Head(toVisit[c]) = toVisit[c][1] /\ Len(toVisit[c]) \in Nat \ {0}
      BY <3>1, HeadTailProperties, EmptySeq
    <3>3. \A n \in 1 .. Len(toVisit[c]) : toVisit[c][n] \in 1 .. Len(registered)
      BY DEF Safe, Typed, ConsumersHold
    <3>. QED
      BY <1>0, <2>1, <3>2, <3>3, ElementOfSeq
  <2>. QED
    BY <2>2, <2>3, OthersPass DEF LooksPast
<1>6. CASE Size(c)
  <2>1. CASE UsedUp(inspect[c]) /\ HasNext(inspect[c])
    BY <1>2, <1>6, <2>1 DEF Size
  <2>2. CASE ~(UsedUp(inspect[c]) /\ HasNext(inspect[c]))
    <3>1. pc[c] = "size" /\ seen' = seen /\ inspect'[c] = seen[c]
      BY <1>0, <1>6, <2>2 DEF Size
    <3>. QED
      BY <1>1, <3>1 DEF LooksPast
  <2>. QED
    BY <2>1, <2>2
<1>7. ASSUME NEW b, Keep(c, b)
      PROVE  LooksPast(c)
  BY <1>0, <1>7 DEF Keep, Return, LooksPast
<1>8. CASE KeepActive(c) \/ NoSuccessor(c) \/ ReplaceSlot(c)
  BY <1>7, <1>8 DEF KeepActive, NoSuccessor, ReplaceSlot
<1>9. CASE FindBack(c)
  <2>1. /\ pc[c] = "active" /\ UsedUp(inspect[c]) /\ HasNext(inspect[c])
        /\ seen' = seen /\ inspect' = [inspect EXCEPT ![c].i = @ + 1]
    BY <1>1, <1>9 DEF FindBack, is_active
  <2>. QED
    BY <1>2, <2>1
<1>10. CASE InspectBack(c)
  <2>1. pc[c] = "findBack" /\ seen' = seen /\ inspect' = inspect
    BY <1>10 DEF InspectBack, relocationVars
  <2>. QED
    BY <1>1, <2>1 DEF LooksPast
<1>11. CASE InspectNext(c)
  <2>1. UsedUp(inspect[c])
    BY <1>11 DEF GoesOnFromUsedUp
  <2>2. /\ pc[c] = "next" /\ HasNext(inspect[c])
        /\ seen' = seen /\ inspect' = [inspect EXCEPT ![c].i = @ + 1]
    BY <1>11 DEF InspectNext
  <2>. QED
    BY <1>2, <2>1, <2>2
<1>. QED
  BY <1>3, <1>4, <1>5, <1>6, <1>8, <1>9, <1>10, <1>11 DEF relocate_consumer

LEMMA GonePastStep ==
  ASSUME Safe, GonePast, GoesOnFromUsedUp, [Next]_vars
  PROVE  GonePast'
<1>0. /\ Effect /\ Grows
      /\ pc \in [Consumers -> ConsumerPcs]
      /\ slots \in [Producers -> Nat]
  BY StepTyped DEF Safe, Typed, ConsumersTyped, RegistryHolds
<1>1. /\ \A p \in Producers : PassedNext([p |-> p, i |-> slots[p]])
      /\ \A c \in Consumers : pc[c] \in Looking => PassedNext(seen[c]) /\ PassedNext(inspect[c])
  BY <1>0, OthersPass
<1>2. \A p \in Producers : slots[p] \in 0 .. Len(chain'[p]) /\ Len(chain'[p]) \in Nat
  <2>1. \A p \in Producers : /\ Len(chain[p]) \in Nat /\ Len(chain'[p]) \in Nat
                             /\ Len(chain[p]) <= Len(chain'[p])
    BY <1>0 DEF Grows
  <2>2. \A p \in Producers : slots[p] \in 0 .. Len(chain[p])
    BY DEF GonePast
  <2>. QED
    BY <1>0, <2>1, <2>2
<1>3. ASSUME \A p \in Producers : /\ slots'[p] \in 0 .. Len(chain'[p])
                                  /\ PassedNext([p |-> p, i |-> slots'[p]]),
             \A c \in Consumers : LooksPast(c)
      PROVE  GonePast'
  BY <1>3 DEF GonePast, LooksPast, PassedNext, Passed, UsedUp, BufferOf, AtNext
<1>4. ASSUME slots' = slots
      PROVE  \A p \in Producers : /\ slots'[p] \in 0 .. Len(chain'[p])
                                  /\ PassedNext([p |-> p, i |-> slots'[p]])
  BY <1>1, <1>2, <1>4
<1>5. ASSUME UNCHANGED <<pc, seen, inspect>>
      PROVE  \A c \in Consumers : LooksPast(c)
  BY <1>1, <1>5 DEF LooksPast
<1>6. CASE UNCHANGED vars
  BY <1>3, <1>4, <1>5, <1>6 DEF vars, relocationVars
<1>7. ASSUME NEW p \in Producers, push(p) \/ reserve(p)
      PROVE  GonePast'
  <2>1. UNCHANGED <<pc, seen, inspect>>
    BY <1>7 DEF push, reserve, InitProducer, PostReserve, CountProducers, Push, PushFails,
       AddProducerBuffer, Publish, ReserveFirst, Reserve, relocationVars
  <2>2. CASE slots' = slots
    BY <1>3, <1>4, <1>5, <2>1, <2>2
  <2>3. ASSUME NEW size, NEW next, ClaimProducerSlot(p, size, next)
        PROVE  GonePast'
    <3>1. /\ slots' = [slots EXCEPT ![p] = 1]
          /\ chain' = [chain EXCEPT ![p] = <<create_producer_buffer(size)>>]
      BY <2>3 DEF ClaimProducerSlot
    <3>2. slots'[p] = 1 /\ \A q \in Producers \ {p} : slots'[q] = slots[q]
      BY <1>0, <3>1
    <3>3. Len(chain'[p]) = 1
      BY <3>1 DEF Safe, Typed
    <3>4. ASSUME NEW q \in Producers
          PROVE  slots'[q] \in 0 .. Len(chain'[q]) /\ PassedNext([p |-> q, i |-> slots'[q]])
      <4>1. CASE q = p
        <5>1. PassedNext([p |-> q, i |-> 1])
          BY FirstPassed
        <5>2. slots'[q] = 1 /\ Len(chain'[q]) = 1
          BY <3>2, <3>3, <4>1
        <5>3. slots'[q] \in 0 .. Len(chain'[q])
          BY <5>2
        <5>. QED
          BY <5>1, <5>2, <5>3
      <4>2. CASE q # p
        <5>1. slots[q] \in 0 .. Len(chain'[q])
          BY <1>2
        <5>2. PassedNext([p |-> q, i |-> slots[q]])
          BY <1>1
        <5>3. PICK k : k = slots[q]
          OBVIOUS
        <5>4. slots'[q] = k
          BY <3>2, <4>2, <5>3
        <5>. QED
          BY <5>1, <5>2, <5>3, <5>4
      <4>. QED
        BY <4>1, <4>2
    <3>. QED
      BY <1>3, <1>5, <2>1, <3>4
  <2>. QED
    BY <1>7, <2>2, <2>3 DEF push, reserve, InitProducer, PostReserve, CountProducers, Push, PushFails,
       AddProducerBuffer, Publish, ReserveFirst, Reserve
<1>8. ASSUME NEW c \in Consumers, try_pop(c) \/ relocate_consumer(c)
      PROVE  \A d \in Consumers : LooksPast(d)
  <2>1. ASSUME NEW d \in Consumers \ {c}
        PROVE  LooksPast(d)
    <3>1. pc'[d] = pc[d] /\ seen'[d] = seen[d] /\ inspect'[d] = inspect[d]
      <4>1. SetsOwn(pc, pc', c) /\ SetsOwn(seen, seen', c) /\ SetsOwn(inspect, inspect', c)
        BY <1>8, StepSetsOwn DEF ConsumerSets
      <4>2. DOMAIN pc = Consumers /\ DOMAIN seen = Consumers /\ DOMAIN inspect = Consumers
        BY DEF Safe, Typed, ConsumersTyped
      <4>. QED
        BY <2>1, <4>1, <4>2 DEF SetsOwn
    <3>. QED
      BY <1>1, <3>1 DEF LooksPast
  <2>2. CASE try_pop(c)
    <3>1. pc'[c] \in {"reserve", "giveBack", "claim", "writeOut", "relocate", "idle"}
      BY <1>0, <2>2 DEF try_pop, ReadWritten, ReserveItem, GiveBack, Claim, WriteOut, Return
    <3>. QED
      BY <2>1, <3>1 DEF LooksPast, Looking
  <2>3. CASE relocate_consumer(c)
    BY <1>0, <2>1, <2>3, ConsumerPasses
  <2>. QED
    BY <1>8, <2>2, <2>3
<1>9. ASSUME NEW c \in Consumers, ReplaceSlot(c)
      PROVE  \A p \in Producers : /\ slots'[p] \in 0 .. Len(chain'[p])
                                  /\ PassedNext([p |-> p, i |-> slots'[p]])
  <2>1. PICK b : b = inspect[c]
    OBVIOUS
  <2>2. Exists(b) /\ PassedNext(b)
    BY <1>1, <1>9, <2>1 DEF ReplaceSlot, Looking, Safe, Typed, ConsumersHold
  <2>3. slots' = [slots EXCEPT ![b.p] = b.i]
    BY <1>9, <2>1 DEF ReplaceSlot
  <2>4. /\ b.p \in Producers /\ b.i \in 1 .. Len(chain'[b.p]) /\ b = [p |-> b.p, i |-> b.i]
    BY <1>0, <2>2 DEF Exists, Buffers, Grows
  <2>5. slots'[b.p] = b.i /\ \A q \in Producers \ {b.p} : slots'[q] = slots[q]
    BY <1>0, <2>3, <2>4
  <2>. QED
    BY <1>1, <1>2, <2>2, <2>4, <2>5
<1>10. ASSUME NEW c \in Consumers, try_pop(c) \/ relocate_consumer(c)
       PROVE  GonePast'
  <2>1. CASE ReplaceSlot(c)
    BY <1>3, <1>8, <1>9, <1>10, <2>1
  <2>2. CASE ~ReplaceSlot(c)
    <3>1. slots' = slots
      BY <1>10, <2>2 DEF try_pop, relocate_consumer, ReadWritten, ReserveItem, GiveBack, Claim, WriteOut,
         NoRelocation, BeginRelocation, Visit, VisitedAll, Size, KeepActive, FindBack, InspectBack,
         InspectNext, NoSuccessor
    <3>. QED
      BY <1>3, <1>4, <1>8, <1>10, <3>1
  <2>. QED
    BY <2>1, <2>2
<1>. QED
  BY <1>6, <1>7, <1>10 DEF Next

LEMMA InitGonePast ==
  ASSUME Init
  PROVE  GonePast
<1>1. \A p \in Producers : slots[p] = 0 /\ Len(chain[p]) = 0
  BY DEF Init
<1>2. \A p \in Producers : Passed([p |-> p, i |-> 0])
  BY DEF Passed, Buffers
<1>3. \A c \in Consumers : pc[c] = "idle"
  BY DEF Init
<1>. QED
  BY <1>1, <1>2, <1>3 DEF GonePast, Looking

LEMMA NoneStranded ==
  ASSUME Typed, GonePast
  PROVE  NothingStranded
<1>. SUFFICES ASSUME NEW p \in Producers, NEW i \in 1 .. slots[p] - 1
              PROVE  UsedUp([p |-> p, i |-> i])
  BY DEF NothingStranded
<1>1. slots[p] \in Nat
  BY DEF Typed, RegistryHolds
<1>2. [p |-> p, i |-> i] \in Buffers /\ 1 <= i /\ i < slots[p]
  BY <1>1 DEF Buffers
<1>. QED
  BY <1>2 DEF GonePast, Passed

\* No slot goes past a buffer that has items to claim, unless a find_back goes on
\* from a buffer that was filled since it was inspected: this race is the only
\* way to strand an item.
THEOREM OnlyFindBackStrands ==
  SafeSpec /\ [][GoesOnFromUsedUp]_vars => []NothingStranded
<1>1. Init => GonePast
  BY InitGonePast
<1>2. GonePast /\ Safe /\ [Next]_vars /\ [GoesOnFromUsedUp]_vars => GonePast'
  <2>1. CASE UNCHANGED vars
    BY <2>1 DEF GonePast, Passed, UsedUp, BufferOf, vars, relocationVars
  <2>. QED
    BY <2>1, GonePastStep
<1>3. Safe /\ GonePast => NothingStranded
  BY NoneStranded DEF Safe
<1>. QED
  BY <1>1, <1>2, <1>3, SafeAlways, PTL DEF SafeSpec

-----------------------------------------------------------------------------
\* FlattenSeq, whose value is the last one of a function on the indices.

\* A set of numbers has a least one.
LEMMA Least ==
  ASSUME NEW n \in Nat, NEW B, B \subseteq 0 .. n, B # {}
  PROVE  \E m \in B : \A k \in B : m <= k
<1>1. PICK S : S = 0 .. n
  OBVIOUS
<1>2. IsFiniteSet(S)
  BY <1>1, FS_Interval
<1>3. IsWellFoundedOn(StrictSubsetOrdering(S), SUBSET S)
  BY <1>2, FS_StrictSubsetOrderingWellFounded, FS_FiniteSubsetsOfFinite
<1>4. PICK T : T = {0 .. m : m \in B}
  OBVIOUS
<1>5. \A m \in B : m \in Nat /\ m <= n /\ 0 .. m \in SUBSET S
  BY <1>1
<1>6. T \subseteq SUBSET S /\ T # {}
  BY <1>4, <1>5
<1>7. PICK x \in T : \A y \in T : <<y, x>> \notin StrictSubsetOrdering(S)
  BY <1>3, <1>6, WFMin
<1>8. PICK m \in B : x = 0 .. m
  BY <1>4
<1>9. ASSUME NEW k \in B, ~(m <= k)
      PROVE  FALSE
  <2>1. 0 .. k \subseteq 0 .. m /\ m \in 0 .. m /\ m \notin 0 .. k
    BY <1>5, <1>9
  <2>2. PICK u, v : u = 0 .. k /\ v = 0 .. m
    OBVIOUS
  <2>3. u # v
    BY <2>1, <2>2
  <2>4. <<u, v>> \in StrictSubsetOrdering(S)
    BY <1>5, <2>1, <2>2, <2>3 DEF StrictSubsetOrdering
  <2>5. 0 .. k \in T
    BY <1>4
  <2>. QED
    BY <1>7, <1>8, <2>2, <2>4, <2>5
<1>. QED
  BY <1>9

\* A number has a property that the one before it hands on.
LEMMA UpTo ==
  ASSUME NEW n \in Nat, NEW G, 0 \in G,
         \A k \in 1 .. n : k - 1 \in G => k \in G
  PROVE  \A k \in 0 .. n : k \in G
<1>1. PICK B : B = (0 .. n) \ G
  OBVIOUS
<1>2. CASE B = {}
  BY <1>1, <1>2
<1>3. CASE B # {}
  <2>1. PICK k \in B : \A j \in B : k <= j
    BY <1>1, <1>3, Least
  <2>2. k \in 0 .. n /\ k \notin G /\ k # 0
    BY <1>1, <2>1
  <2>3. k \in 1 .. n /\ k - 1 \in 0 .. n
    BY <2>2
  <2>4. k - 1 \notin B
    BY <2>1, <2>3
  <2>. QED
    BY <1>1, <2>2, <2>3, <2>4
<1>. QED
  BY <1>2, <1>3

\* What the sequences up to i make.
Flat(g, s, i) == IF i = 1 THEN s[i] ELSE g[i - 1] \o s[i]
Flattens(g, s, n) == g = [i \in 1 .. n |-> Flat(g, s, i)]

LEMMA FlatExists ==
  ASSUME NEW s, NEW n \in Nat
  PROVE  \E g : Flattens(g, s, n)
<1>1. PICK G : G = {k \in 0 .. n : \E g : Flattens(g, s, k)}
  OBVIOUS
<1>2. 0 \in G
  <2>1. PICK g : g = [i \in 1 .. 0 |-> 0]
    OBVIOUS
  <2>2. Flattens(g, s, 0)
    BY <2>1 DEF Flattens
  <2>. QED
    BY <1>1, <2>2
<1>3. ASSUME NEW k \in 1 .. n, k - 1 \in G
      PROVE  k \in G
  <2>1. PICK f : Flattens(f, s, k - 1)
    BY <1>1, <1>3
  <2>2. PICK last : last = Flat(f, s, k)
    OBVIOUS
  <2>3. PICK g : g = [i \in 1 .. k |-> IF i = k THEN last ELSE f[i]]
    OBVIOUS
  <2>4. \A i \in 1 .. k - 1 : f[i] = Flat(f, s, i) /\ g[i] = f[i] /\ i \in Nat
    BY <2>1, <2>3 DEF Flattens
  <2>5. \A i \in 1 .. k : i # 1 => i - 1 \in 1 .. k - 1
    OBVIOUS
  <2>6. \A i \in 1 .. k : Flat(g, s, i) = Flat(f, s, i)
    BY <2>4, <2>5 DEF Flat
  <2>7. \A i \in 1 .. k : i = k \/ i \in 1 .. k - 1
    OBVIOUS
  <2>8. \A i \in 1 .. k : g[i] = Flat(g, s, i)
    BY <2>2, <2>3, <2>4, <2>6, <2>7
  <2>9. g = [i \in 1 .. k |-> g[i]]
    BY <2>3
  <2>10. [i \in 1 .. k |-> g[i]] = [i \in 1 .. k |-> Flat(g, s, i)]
    BY <2>8
  <2>11. Flattens(g, s, k)
    BY <2>9, <2>10, Zenon DEF Flattens
  <2>. QED
    BY <1>1, <2>11
<1>4. n \in 0 .. n
  OBVIOUS
<1>5. n \in G
  BY <1>2, <1>3, <1>4, UpTo
<1>. QED
  BY <1>1, <1>5

LEMMA FlattenIs ==
  ASSUME NEW T, NEW s \in Seq(T), s # << >>
  PROVE  \E g : Flattens(g, s, Len(s)) /\ FlattenSeq(s) = g[Len(s)]
<1>1. Len(s) \in Nat \ {0}
  BY EmptySeq
<1>2. PICK g : g = CHOOSE flatten : flatten = [i \in 1 .. Len(s) |->
                     IF i = 1 THEN s[i] ELSE flatten[i - 1] \o s[i]]
  OBVIOUS
<1>3. FlattenSeq(s) = g[Len(s)]
  BY <1>1, <1>2 DEF FlattenSeq
<1>4. PICK f : Flattens(f, s, Len(s))
  BY <1>1, FlatExists
<1>5. Flattens(g, s, Len(s))
  BY <1>2, <1>4, Zenon DEF Flattens, Flat
<1>. QED
  BY <1>3, <1>5

LEMMA FlattenNone == FlattenSeq(<< >>) = << >>
BY EmptySeq DEF FlattenSeq

LEMMA FlatTyped ==
  ASSUME NEW T, NEW s, NEW n \in Nat, \A i \in 1 .. n : s[i] \in Seq(T), NEW g, Flattens(g, s, n)
  PROVE  \A k \in 1 .. n : g[k] \in Seq(T)
<1>1. PICK G : G = {k \in 0 .. n : k = 0 \/ g[k] \in Seq(T)}
  OBVIOUS
<1>2. ASSUME NEW k \in 1 .. n, k - 1 \in G
      PROVE  k \in G
  <2>1. g[k] = Flat(g, s, k) /\ s[k] \in Seq(T)
    BY DEF Flattens
  <2>2. CASE k = 1
    BY <1>1, <2>1, <2>2 DEF Flat
  <2>3. CASE k # 1
    <3>1. g[k - 1] \in Seq(T)
      BY <1>1, <1>2, <2>3
    <3>2. g[k] = g[k - 1] \o s[k]
      BY <2>1, <2>3 DEF Flat
    <3>3. g[k] \in Seq(T)
      BY <2>1, <3>1, <3>2, ConcatProperties
    <3>. QED
      BY <1>1, <3>3
  <2>. QED
    BY <2>2, <2>3
<1>4. 0 \in G
  BY <1>1
<1>3. \A k \in 0 .. n : k \in G
  BY <1>2, <1>4, UpTo
<1>. QED
  BY <1>1, <1>3

\* It depends on these sequences only.
Begin(s, t, last) == \A i \in 1 .. last : s[i] = t[i]

LEMMA FlatAgrees ==
  ASSUME NEW s, NEW t, NEW m \in Nat, NEW n \in Nat, NEW g, Flattens(g, s, m), NEW h, Flattens(h, t, n),
         NEW last \in Nat, last <= m, last <= n, Begin(s, t, last)
  PROVE  Begin(g, h, last)
<1>. USE DEF Begin
<1>1. PICK G : G = {k \in 0 .. last : k = 0 \/ g[k] = h[k]}
  OBVIOUS
<1>2. ASSUME NEW k \in 1 .. last, k - 1 \in G
      PROVE  k \in G
  <2>1. k \in 1 .. m /\ k \in 1 .. n
    OBVIOUS
  <2>2. g[k] = Flat(g, s, k) /\ h[k] = Flat(h, t, k) /\ s[k] = t[k]
    BY <2>1 DEF Flattens
  <2>3. k = 1 \/ g[k - 1] = h[k - 1]
    BY <1>1, <1>2
  <2>. QED
    BY <1>1, <2>2, <2>3 DEF Flat
<1>4. 0 \in G
  BY <1>1
<1>3. \A k \in 0 .. last : k \in G
  BY <1>2, <1>4, UpTo
<1>. QED
  BY <1>1, <1>3


LEMMA ConcatAppend ==
  ASSUME NEW T, NEW a \in Seq(T), NEW b \in Seq(T), NEW x \in T
  PROVE  a \o Append(b, x) = Append(a \o b, x)
<1>1. <<x>> \in Seq(T) /\ a \o b \in Seq(T)
  BY ConcatProperties
<1>2. Append(b, x) = b \o <<x>> /\ Append(a \o b, x) = (a \o b) \o <<x>>
  BY <1>1, AppendIsConcat
<1>. QED
  BY <1>1, <1>2, ConcatAssociative

\* The last sequence gets an item.
LastGets(s, t, n, x) ==
  /\ n = Len(s) /\ n # 0 /\ Len(t) = n
  /\ \A i \in 1 .. n : i # n => t[i] = s[i]
  /\ t[n] = Append(s[n], x)

LEMMA FlattenAppended ==
  ASSUME NEW T, NEW s \in Seq(Seq(T)), NEW t \in Seq(Seq(T)), NEW x \in T, NEW n, LastGets(s, t, n, x)
  PROVE  FlattenSeq(t) = Append(FlattenSeq(s), x)
<1>0. /\ n = Len(s) /\ n # 0 /\ Len(t) = n
      /\ \A i \in 1 .. n : i # n => t[i] = s[i]
      /\ t[n] = Append(s[n], x)
  BY DEF LastGets
<1>1. n \in Nat /\ n \in 1 .. n /\ s # << >> /\ t # << >>
  BY <1>0, EmptySeq, LenProperties
<1>2. /\ \A i \in 1 .. n : s[i] \in Seq(T) /\ t[i] \in Seq(T)
  BY <1>0, ElementOfSeq
<1>3. PICK g : Flattens(g, s, n) /\ FlattenSeq(s) = g[n]
  BY <1>0, <1>1, FlattenIs
<1>4. PICK h : Flattens(h, t, n) /\ FlattenSeq(t) = h[n]
  BY <1>0, <1>1, FlattenIs
<1>5. g[n] = Flat(g, s, n) /\ h[n] = Flat(h, t, n)
  BY <1>1, <1>3, <1>4 DEF Flattens
<1>6. CASE n = 1
  <2>1. g[n] = s[n] /\ h[n] = t[n]
    BY <1>5, <1>6 DEF Flat
  <2>. QED
    BY <1>0, <1>3, <1>4, <2>1, Zenon
<1>7. CASE n # 1
  <2>1. n - 1 \in Nat /\ n - 1 \in 1 .. n - 1 /\ n - 1 \in 1 .. n /\ n - 1 <= n
    BY <1>1, <1>7
  <2>2. h[n - 1] = g[n - 1]
    <3>1. PICK last : last = n - 1
      OBVIOUS
    <3>2. last \in Nat /\ last <= n /\ last \in 1 .. last
      BY <2>1, <3>1
    <3>4. Begin(s, t, last)
      <4>1. \A i \in 1 .. last : i \in 1 .. n /\ i # n
        BY <1>1, <3>1
      <4>. QED
        BY <1>0, <4>1 DEF Begin
    <3>5. n \in Nat /\ Flattens(g, s, n) /\ Flattens(h, t, n)
      BY <1>1, <1>3, <1>4
    <3>3. Begin(g, h, last)
      BY <3>2, <3>4, <3>5, FlatAgrees
    <3>. QED
      BY <3>1, <3>2, <3>3 DEF Begin
  <2>3. g[n - 1] \in Seq(T)
    BY <1>1, <1>2, <1>3, <2>1, FlatTyped
  <2>4. PICK a, b : a = g[n - 1] /\ b = s[n]
    OBVIOUS
  <2>5. a \in Seq(T) /\ b \in Seq(T)
    BY <1>1, <1>2, <2>3, <2>4
  <2>9. g[n] = g[n - 1] \o s[n] /\ h[n] = h[n - 1] \o t[n]
    BY <1>5, <1>7 DEF Flat
  <2>6. g[n] = a \o b /\ h[n] = a \o Append(b, x)
    BY <1>0, <2>2, <2>4, <2>9, Zenon
  <2>7. a \o Append(b, x) = Append(a \o b, x)
    BY <2>5, ConcatAppend
  <2>8. h[n] = Append(g[n], x)
    BY <2>6, <2>7, Zenon
  <2>. QED
    BY <1>3, <1>4, <2>8, Zenon
<1>. QED
  BY <1>6, <1>7

\* A last sequence that is empty adds nothing.
LEMMA FlattenNothingMore ==
  ASSUME NEW T, NEW s \in Seq(Seq(T)), NEW t \in Seq(Seq(T)), Len(t) = Len(s) + 1,
         \A i \in 1 .. Len(s) : t[i] = s[i], t[Len(t)] = << >>
  PROVE  FlattenSeq(t) = FlattenSeq(s)
<1>1. PICK n : n = Len(s)
  OBVIOUS
<1>2. n \in Nat /\ Len(t) = n + 1 /\ n + 1 \in 1 .. n + 1 /\ t # << >>
  BY <1>1, EmptySeq, LenProperties
<1>3. \A i \in 1 .. n : s[i] \in Seq(T)
  BY <1>1, ElementOfSeq
<1>4. PICK h : Flattens(h, t, n + 1) /\ FlattenSeq(t) = h[n + 1]
  BY <1>2, FlattenIs
<1>5. h[n + 1] = Flat(h, t, n + 1)
  BY <1>2, <1>4 DEF Flattens
<1>6. CASE n = 0
  <2>1. s = << >>
    BY <1>1, <1>6, EmptySeq
  <2>. QED
    BY <1>2, <1>4, <1>5, <1>6, <2>1, FlattenNone DEF Flat
<1>7. CASE n # 0
  <2>1. s # << >> /\ n \in 1 .. n /\ n <= n + 1 /\ n + 1 \in Nat
    BY <1>1, <1>2, <1>7, EmptySeq
  <2>2. PICK g : Flattens(g, s, n) /\ FlattenSeq(s) = g[n]
    BY <1>1, <2>1, FlattenIs
  <2>3. Begin(s, t, n)
    BY <1>1 DEF Begin
  <2>4. g[n] = h[n]
    <3>1. PICK more : more = n + 1
      OBVIOUS
    <3>2. more \in Nat /\ n <= more /\ n <= n /\ Flattens(h, t, more)
      BY <1>2, <1>4, <2>1, <3>1
    <3>3. Begin(g, h, n)
      BY <1>2, <2>2, <2>3, <3>2, FlatAgrees
    <3>. QED
      BY <2>1, <3>3 DEF Begin
  <2>5. g[n] \in Seq(T)
    BY <1>2, <1>3, <2>1, <2>2, FlatTyped
  <2>6. h[n + 1] = h[n] \o << >>
    <3>1. PICK more : more = n + 1
      OBVIOUS
    <3>2. more # 1 /\ more - 1 = n /\ t[more] = << >> /\ h[more] = Flat(h, t, more)
      BY <1>2, <1>5, <1>7, <3>1
    <3>3. h[more] = h[more - 1] \o t[more]
      BY <3>2 DEF Flat
    <3>. QED
      BY <3>1, <3>2, <3>3
  <2>7. h[n + 1] = g[n]
    BY <2>4, <2>5, <2>6, ConcatEmptySeq
  <2>. QED
    BY <1>4, <2>2, <2>7
<1>. QED
  BY <1>6, <1>7

LEMMA TailOfConcat ==
  ASSUME NEW T, NEW a \in Seq(T), NEW b \in Seq(T), a # << >>
  PROVE  a \o b # << >> /\ Tail(a \o b) = Tail(a) \o b
<1>1. /\ a \o b \in Seq(T) /\ Len(a \o b) = Len(a) + Len(b)
      /\ \A i \in 1 .. Len(a) + Len(b) : (a \o b)[i] = IF i <= Len(a) THEN a[i] ELSE b[i - Len(a)]
  BY ConcatProperties
<1>2. Len(a) \in Nat \ {0} /\ Len(b) \in Nat
  BY EmptySeq, LenProperties
<1>3. a \o b # << >>
  BY <1>1, <1>2, EmptySeq
<1>4. /\ Tail(a) \in Seq(T) /\ Len(Tail(a)) = Len(a) - 1
      /\ \A i \in 1 .. Len(Tail(a)) : Tail(a)[i] = a[i + 1]
  BY HeadTailProperties
<1>5. PICK c : c = a \o b
  OBVIOUS
<1>6. /\ Tail(c) \in Seq(T) /\ Len(Tail(c)) = Len(c) - 1
      /\ \A i \in 1 .. Len(Tail(c)) : Tail(c)[i] = c[i + 1]
  BY <1>1, <1>3, <1>5, HeadTailProperties
<1>7. PICK d : d = Tail(a)
  OBVIOUS
<1>8. /\ d \o b \in Seq(T) /\ Len(d \o b) = Len(d) + Len(b)
      /\ \A i \in 1 .. Len(d) + Len(b) : (d \o b)[i] = IF i <= Len(d) THEN d[i] ELSE b[i - Len(d)]
  BY <1>4, <1>7, ConcatProperties
<1>9. Len(Tail(c)) = Len(d \o b)
  BY <1>1, <1>2, <1>4, <1>5, <1>6, <1>7, <1>8
<1>10. ASSUME NEW i \in 1 .. Len(d) + Len(b)
       PROVE  Tail(c)[i] = (d \o b)[i]
  <2>1. Len(d) = Len(a) - 1 /\ i + 1 \in 1 .. Len(a) + Len(b) /\ i \in Nat
    BY <1>2, <1>4, <1>7
  <2>2. Tail(c)[i] = c[i + 1]
    BY <1>1, <1>2, <1>5, <1>6, <2>1
  <2>3. c[i + 1] = IF i + 1 <= Len(a) THEN a[i + 1] ELSE b[i + 1 - Len(a)]
    BY <1>1, <1>5, <2>1
  <2>4. (d \o b)[i] = IF i <= Len(d) THEN d[i] ELSE b[i - Len(d)]
    BY <1>8
  <2>5. CASE i <= Len(d)
    <3>1. i \in 1 .. Len(Tail(a)) /\ i + 1 <= Len(a)
      BY <1>2, <1>7, <2>1, <2>5
    <3>2. d[i] = a[i + 1]
      BY <1>4, <1>7, <3>1
    <3>. QED
      BY <2>2, <2>3, <2>4, <2>5, <3>1, <3>2
  <2>6. CASE ~(i <= Len(d))
    <3>1. ~(i + 1 <= Len(a)) /\ i + 1 - Len(a) = i - Len(d)
      BY <1>2, <2>1, <2>6
    <3>. QED
      BY <2>2, <2>3, <2>4, <2>6, <3>1
  <2>. QED
    BY <2>5, <2>6
<1>11. Tail(c) = d \o b
  BY <1>6, <1>8, <1>9, <1>10, SeqEqual
<1>. QED
  BY <1>3, <1>5, <1>7, <1>11

\* The first sequence that is not empty loses its head.
LEMMA FlattenTail ==
  ASSUME NEW T, NEW s \in Seq(Seq(T)), NEW t \in Seq(Seq(T)), NEW n, n = Len(s), Len(t) = n,
         NEW j \in 1 .. n, s[j] # << >>, t[j] = Tail(s[j]),
         \A i \in 1 .. n : i < j => s[i] = << >>,
         \A i \in 1 .. n : i # j => t[i] = s[i]
  PROVE  FlattenSeq(s) # << >> /\ FlattenSeq(t) = Tail(FlattenSeq(s))
<1>1. n \in Nat /\ n \in 1 .. n /\ s # << >> /\ t # << >> /\ j \in Nat
  BY EmptySeq, LenProperties
<1>2. \A i \in 1 .. n : s[i] \in Seq(T) /\ t[i] \in Seq(T)
  BY ElementOfSeq
<1>3. PICK g : Flattens(g, s, n) /\ FlattenSeq(s) = g[n]
  BY <1>1, FlattenIs
<1>4. PICK h : Flattens(h, t, n) /\ FlattenSeq(t) = h[n]
  BY <1>1, FlattenIs
<1>5. \A k \in 1 .. n : g[k] = Flat(g, s, k) /\ h[k] = Flat(h, t, k)
  BY <1>3, <1>4 DEF Flattens
<1>6. \A k \in 1 .. n : g[k] \in Seq(T) /\ h[k] \in Seq(T)
  BY <1>1, <1>2, <1>3, <1>4, FlatTyped
<1>7. PICK G : G = {k \in 0 .. n : \/ k = 0
                                  \/ (k < j /\ g[k] = << >> /\ h[k] = << >>)
                                  \/ (k >= j /\ g[k] # << >> /\ h[k] = Tail(g[k]))}
  OBVIOUS
<1>8. ASSUME NEW k \in 1 .. n, k - 1 \in G
      PROVE  k \in G
  <2>1. k = 1 => g[k] = s[k] /\ h[k] = t[k]
    BY <1>5 DEF Flat
  <2>2. k # 1 => g[k] = g[k - 1] \o s[k] /\ h[k] = h[k - 1] \o t[k]
    BY <1>5 DEF Flat
  <2>3. k # 1 => k - 1 \in 1 .. n
    OBVIOUS
  <2>4. << >> \in Seq(T) /\ << >> \o << >> = << >>
    BY EmptySeq, ConcatEmptySeq
  <2>5. CASE k < j
    <3>1. s[k] = << >> /\ t[k] = << >>
      BY <2>5
    <3>2. k # 1 => g[k - 1] = << >> /\ h[k - 1] = << >>
      BY <1>7, <1>8, <2>5
    <3>3. g[k] = << >> /\ h[k] = << >>
      BY <2>1, <2>2, <2>4, <3>1, <3>2
    <3>. QED
      BY <1>7, <2>5, <3>3
  <2>6. CASE k = j
    <3>1. k # 1 => g[k - 1] = << >> /\ h[k - 1] = << >>
      BY <1>7, <1>8, <2>6
    <3>2. << >> \o s[k] = s[k] /\ << >> \o t[k] = t[k]
      BY <1>2, ConcatEmptySeq
    <3>3. g[k] = s[k] /\ h[k] = t[k]
      BY <2>1, <2>2, <3>1, <3>2
    <3>. QED
      BY <1>7, <2>6, <3>3
  <2>7. CASE k > j
    <3>1. k # 1 /\ k - 1 \in 1 .. n /\ k - 1 >= j /\ k # j
      BY <1>1, <2>7
    <3>2. g[k - 1] # << >> /\ h[k - 1] = Tail(g[k - 1])
      BY <1>1, <1>7, <1>8, <3>1
    <3>3. PICK a, b : a = g[k - 1] /\ b = s[k]
      OBVIOUS
    <3>4. a \in Seq(T) /\ b \in Seq(T) /\ a # << >> /\ t[k] = b
      BY <1>2, <1>6, <3>1, <3>2, <3>3
    <3>5. g[k] = a \o b /\ h[k] = Tail(a) \o b
      BY <2>2, <3>1, <3>2, <3>3, <3>4
    <3>6. a \o b # << >> /\ Tail(a \o b) = Tail(a) \o b
      BY <3>4, TailOfConcat
    <3>7. g[k] # << >> /\ h[k] = Tail(g[k])
      BY <3>5, <3>6
    <3>. QED
      BY <1>7, <2>7, <3>7
  <2>. QED
    BY <1>1, <2>5, <2>6, <2>7
<1>9. 0 \in G
  BY <1>1, <1>7
<1>12. \A k \in 0 .. n : k \in G
  BY <1>1, <1>8, <1>9, UpTo
<1>10. n \in G
  BY <1>1, <1>12
<1>11. g[n] # << >> /\ h[n] = Tail(g[n])
  BY <1>1, <1>7, <1>10
<1>. QED
  BY <1>3, <1>4, <1>11
-----------------------------------------------------------------------------
\* The items of a chain that nobody has claimed.

Item == Nat \X Nat
Pending(i, read, written) == [n \in 1 .. written - read |-> <<i, read + n - 1>>]
Parts(buffers) == [i \in DOMAIN buffers |-> Pending(i, buffers[i].readSlot, buffers[i].written)]
ReadBehind(buffers) == \A i \in 1 .. Len(buffers) : buffers[i].readSlot <= buffers[i].written

LEMMA PendingIs ==
  ASSUME NEW i \in Nat, NEW read \in Nat, NEW written \in Nat, read <= written
  PROVE  /\ Pending(i, read, written) \in Seq(Item)
         /\ Len(Pending(i, read, written)) = written - read
         /\ \A n \in 1 .. written - read : Pending(i, read, written)[n] = <<i, read + n - 1>>
<1>1. PICK s : s = Pending(i, read, written)
  OBVIOUS
<1>2. PICK m : m = written - read
  OBVIOUS
<1>3. m \in Nat /\ s = [n \in 1 .. m |-> <<i, read + n - 1>>]
  BY <1>1, <1>2 DEF Pending
<1>4. s \in [1 .. m -> Item] /\ \A n \in 1 .. m : s[n] = <<i, read + n - 1>>
  BY <1>3 DEF Item
<1>5. s \in Seq(Item)
  BY <1>3, <1>4, SeqDef
<1>6. Len(s) = m
  BY <1>3, <1>4, <1>5, LenProperties
<1>. QED
  BY <1>1, <1>2, <1>4, <1>5, <1>6

LEMMA PendingGets ==
  ASSUME NEW i \in Nat, NEW read \in Nat, NEW written \in Nat, read <= written
  PROVE  Pending(i, read, written + 1) = Append(Pending(i, read, written), <<i, written>>)
<1>1. PICK s, t, x : s = Pending(i, read, written) /\ t = Pending(i, read, written + 1) /\ x = <<i, written>>
  OBVIOUS
<1>2. PICK m : m = written - read
  OBVIOUS
<1>3. m \in Nat /\ written + 1 \in Nat /\ read <= written + 1 /\ written + 1 - read = m + 1 /\ x \in Item
  BY <1>1, <1>2 DEF Item
<1>4. s \in Seq(Item) /\ Len(s) = m /\ \A n \in 1 .. m : s[n] = <<i, read + n - 1>>
  BY <1>1, <1>2, PendingIs
<1>5. t \in Seq(Item) /\ Len(t) = m + 1 /\ \A n \in 1 .. m + 1 : t[n] = <<i, read + n - 1>>
  <2>1. PICK more : more = written + 1
    OBVIOUS
  <2>2. /\ Pending(i, read, more) \in Seq(Item) /\ Len(Pending(i, read, more)) = more - read
        /\ \A n \in 1 .. more - read : Pending(i, read, more)[n] = <<i, read + n - 1>>
    <3>1. more \in Nat /\ read <= more
      BY <2>1
    <3>. QED
      BY <3>1, PendingIs
  <2>3. more - read = m + 1 /\ t = Pending(i, read, more)
    BY <1>1, <1>3, <2>1
  <2>. QED
    BY <2>2, <2>3
<1>6. /\ Append(s, x) \in Seq(Item) /\ Len(Append(s, x)) = m + 1
      /\ \A n \in 1 .. m : Append(s, x)[n] = s[n]
      /\ Append(s, x)[m + 1] = x
  BY <1>3, <1>4, AppendProperties
<1>7. ASSUME NEW n \in 1 .. m + 1
      PROVE  t[n] = Append(s, x)[n]
  <2>1. CASE n \in 1 .. m
    BY <1>4, <1>5, <1>6, <2>1
  <2>2. CASE n \notin 1 .. m
    <3>1. n = m + 1
      BY <1>3, <2>2
    <3>2. read + n - 1 = written
      BY <1>2, <1>3, <3>1
    <3>3. t[n] = <<i, written>>
      BY <1>5, <3>2
    <3>. QED
      BY <1>1, <1>6, <3>1, <3>3
  <2>. QED
    BY <2>1, <2>2
<1>8. t = Append(s, x)
  BY <1>5, <1>6, <1>7, SeqEqual
<1>. QED
  BY <1>1, <1>8

LEMMA PendingLoses ==
  ASSUME NEW i \in Nat, NEW read \in Nat, NEW written \in Nat, read < written
  PROVE  /\ Pending(i, read, written) # << >>
         /\ Pending(i, read + 1, written) = Tail(Pending(i, read, written))
<1>1. PICK s, t : s = Pending(i, read, written) /\ t = Pending(i, read + 1, written)
  OBVIOUS
<1>2. PICK m : m = written - read
  OBVIOUS
<1>3. m \in Nat \ {0} /\ read <= written /\ read + 1 \in Nat /\ read + 1 <= written
      /\ written - (read + 1) = m - 1
  BY <1>2
<1>10. read <= written
  OBVIOUS
<1>4. s \in Seq(Item) /\ Len(s) = m /\ \A n \in 1 .. m : s[n] = <<i, read + n - 1>>
  BY <1>1, <1>2, <1>10, PendingIs
<1>5. t \in Seq(Item) /\ Len(t) = m - 1 /\ \A n \in 1 .. m - 1 : t[n] = <<i, read + 1 + n - 1>>
  <2>1. PICK next : next = read + 1
    OBVIOUS
  <2>4. next \in Nat /\ next <= written
    BY <2>1
  <2>2. /\ Pending(i, next, written) \in Seq(Item) /\ Len(Pending(i, next, written)) = written - next
        /\ \A n \in 1 .. written - next : Pending(i, next, written)[n] = <<i, next + n - 1>>
    BY <2>4, PendingIs
  <2>3. written - next = m - 1 /\ t = Pending(i, next, written)
    BY <1>1, <1>3, <2>1
  <2>. QED
    BY <2>1, <2>2, <2>3
<1>6. s # << >>
  BY <1>3, <1>4, EmptySeq
<1>7. /\ Tail(s) \in Seq(Item) /\ Len(Tail(s)) = m - 1
      /\ \A n \in 1 .. m - 1 : Tail(s)[n] = s[n + 1]
  BY <1>4, <1>6, HeadTailProperties
<1>8. ASSUME NEW n \in 1 .. m - 1
      PROVE  t[n] = Tail(s)[n]
  <2>1. n + 1 \in 1 .. m /\ read + (n + 1) - 1 = read + 1 + n - 1
    BY <1>3
  <2>2. PICK k : k = n + 1
    OBVIOUS
  <2>3. s[k] = <<i, read + k - 1>> /\ read + k - 1 = read + 1 + n - 1
    BY <1>4, <2>1, <2>2
  <2>. QED
    BY <1>5, <1>7, <2>2, <2>3
<1>9. t = Tail(s)
  BY <1>5, <1>7, <1>8, SeqEqual
<1>. QED
  BY <1>1, <1>6, <1>9

LEMMA PendingNothing ==
  ASSUME NEW i, NEW read \in Nat
  PROVE  Pending(i, read, read) = << >>
<1>1. 1 .. read - read = {}
  OBVIOUS
<1>. QED
  BY <1>1 DEF Pending

LEMMA PartsAre ==
  ASSUME NEW buffers \in Seq(Buffer), ReadBehind(buffers)
  PROVE  /\ Parts(buffers) \in Seq(Seq(Item)) /\ Len(Parts(buffers)) = Len(buffers)
         /\ \A i \in 1 .. Len(buffers) :
              /\ i \in Nat /\ buffers[i].readSlot \in Nat /\ buffers[i].written \in Nat
              /\ buffers[i].readSlot <= buffers[i].written
              /\ Parts(buffers)[i] = Pending(i, buffers[i].readSlot, buffers[i].written)
<1>1. Len(buffers) \in Nat /\ DOMAIN buffers = 1 .. Len(buffers)
  BY LenProperties
<1>2. PICK s : s = Parts(buffers)
  OBVIOUS
<1>3. \A i \in 1 .. Len(buffers) :
        /\ i \in Nat /\ buffers[i].readSlot \in Nat /\ buffers[i].written \in Nat
        /\ buffers[i].readSlot <= buffers[i].written
  <2>1. \A i \in 1 .. Len(buffers) : buffers[i] \in Buffer
    BY ElementOfSeq
  <2>2. \A i \in 1 .. Len(buffers) : buffers[i].readSlot \in Nat /\ buffers[i].written \in Nat
    BY <2>1, BufferFields
  <2>. QED
    BY <1>1, <2>2 DEF ReadBehind
<1>4. \A i \in 1 .. Len(buffers) : Pending(i, buffers[i].readSlot, buffers[i].written) \in Seq(Item)
  BY <1>3, PendingIs
<1>5. s = [i \in 1 .. Len(buffers) |-> Pending(i, buffers[i].readSlot, buffers[i].written)]
  BY <1>1, <1>2 DEF Parts
<1>6. s \in [1 .. Len(buffers) -> Seq(Item)]
  BY <1>4, <1>5
<1>7. s \in Seq(Seq(Item))
  BY <1>1, <1>6, SeqDef
<1>8. Len(s) = Len(buffers)
  BY <1>1, <1>6, <1>7, LenProperties
<1>. QED
  BY <1>2, <1>3, <1>5, <1>7, <1>8

LEMMA FlattenTyped ==
  ASSUME NEW T, NEW s \in Seq(Seq(T))
  PROVE  FlattenSeq(s) \in Seq(T)
<1>1. CASE s = << >>
  BY <1>1, FlattenNone, EmptySeq
<1>2. CASE s # << >>
  <2>1. PICK g : Flattens(g, s, Len(s)) /\ FlattenSeq(s) = g[Len(s)]
    BY <1>2, FlattenIs
  <2>2. Len(s) \in Nat \ {0} /\ \A i \in 1 .. Len(s) : s[i] \in Seq(T)
    BY <1>2, EmptySeq, ElementOfSeq
  <2>3. PICK n : n = Len(s)
    OBVIOUS
  <2>4. \A k \in 1 .. n : g[k] \in Seq(T)
    BY <2>1, <2>2, <2>3, FlatTyped
  <2>. QED
    BY <2>1, <2>2, <2>3, <2>4
<1>. QED
  BY <1>1, <1>2
-----------------------------------------------------------------------------
\* The queue of a producer, step by step.

ReadBehindAll == \A p \in Producers : ReadBehind(chain[p])

LEMMA SafeReadBehind == Safe => ReadBehindAll
<1>. SUFFICES ASSUME Safe, NEW p \in Producers, NEW i \in 1 .. Len(chain[p])
              PROVE  chain[p][i].readSlot <= chain[p][i].written
  BY DEF ReadBehindAll, ReadBehind
<1>1. PICK b : b = [p |-> p, i |-> i]
  OBVIOUS
<1>2. PICK m : m = Cardinality(Claiming(b))
  OBVIOUS
<1>3. m \in Nat
  BY <1>2, ConsumersFinite
<1>4. chain[p][i].readSlot + m <= chain[p][i].written
  BY <1>1, <1>2 DEF Safe, CountsHold, ClaimsFit
<1>5. chain[p][i] \in Buffer
  BY ElementOfSeq DEF Safe, Typed
<1>6. chain[p][i].readSlot \in Nat /\ chain[p][i].written \in Nat
  BY <1>5, BufferFields
<1>. QED
  BY <1>3, <1>4, <1>6

\* What can be said of the parts of the queues before and after a step.
LEMMA PartsTyped ==
  ASSUME Safe, NEW p \in Producers
  PROVE  /\ chain[p] \in Seq(Buffer) /\ ReadBehind(chain[p])
         /\ Parts(chain[p]) \in Seq(Seq(Item)) /\ Len(Parts(chain[p])) = Len(chain[p])
         /\ \A i \in 1 .. Len(chain[p]) :
              /\ i \in Nat /\ chain[p][i].readSlot \in Nat /\ chain[p][i].written \in Nat
              /\ chain[p][i].readSlot <= chain[p][i].written
              /\ Parts(chain[p])[i] = Pending(i, chain[p][i].readSlot, chain[p][i].written)
         /\ unclaimed[p] = FlattenSeq(Parts(chain[p]))
         /\ unclaimed[p] \in Seq(Item)
<1>1. chain[p] \in Seq(Buffer) /\ ReadBehind(chain[p])
  BY SafeReadBehind DEF Safe, Typed, ReadBehindAll
<1>2. unclaimed[p] = FlattenSeq(Parts(chain[p]))
  BY DEF unclaimed, Parts, Unclaimed, Pending
<1>3. Parts(chain[p]) \in Seq(Seq(Item))
  BY <1>1, PartsAre
<1>4. unclaimed[p] \in Seq(Item)
  BY <1>2, <1>3, FlattenTyped
<1>. QED
  BY <1>1, <1>2, <1>3, <1>4, PartsAre

LEMMA PartsNext ==
  ASSUME Safe', NEW p \in Producers
  PROVE  /\ Parts(chain'[p]) \in Seq(Seq(Item)) /\ Len(Parts(chain'[p])) = Len(chain'[p])
         /\ \A i \in 1 .. Len(chain'[p]) :
              Parts(chain'[p])[i] = Pending(i, chain'[p][i].readSlot, chain'[p][i].written)
         /\ unclaimed'[p] = FlattenSeq(Parts(chain'[p]))
<1>1. ReadBehindAll'
  BY SafeReadBehind, PTL
<1>2. chain'[p] \in Seq(Buffer) /\ ReadBehind(chain'[p])
  BY <1>1 DEF Safe, Typed, ReadBehindAll, ReadBehind
<1>3. unclaimed'[p] = FlattenSeq(Parts(chain'[p]))
  BY DEF unclaimed, Parts, Unclaimed, Pending
<1>. QED
  BY <1>2, <1>3, PartsAre

\* A queue whose counters stay is what it was.
CountersStay(p) ==
  /\ Len(chain'[p]) = Len(chain[p])
  /\ \A i \in 1 .. Len(chain[p]) :
       chain'[p][i].readSlot = chain[p][i].readSlot /\ chain'[p][i].written = chain[p][i].written

LEMMA QueueStays ==
  ASSUME Safe, Safe', NEW p \in Producers, CountersStay(p)
  PROVE  unclaimed'[p] = unclaimed[p]
<1>1. \A i \in 1 .. Len(chain[p]) : Parts(chain'[p])[i] = Parts(chain[p])[i]
  BY PartsTyped, PartsNext DEF CountersStay
<1>2. /\ Parts(chain[p]) \in Seq(Seq(Item)) /\ Parts(chain'[p]) \in Seq(Seq(Item))
      /\ Len(Parts(chain[p])) = Len(chain[p]) /\ Len(Parts(chain'[p])) = Len(chain[p])
  BY PartsTyped, PartsNext DEF CountersStay
<1>3. Parts(chain'[p]) = Parts(chain[p])
  BY <1>1, <1>2, SeqEqual
<1>. QED
  BY <1>3, PartsTyped, PartsNext

LEMMA BuffersByName ==
  ASSUME Typed, NEW p \in Producers, NEW i \in 1 .. Len(chain[p]), NEW b, b = [p |-> p, i |-> i]
  PROVE  /\ Exists(b) /\ b.p = p /\ b.i = i
         /\ BufferOf(b) = chain[p][i] /\ AtNext(b) = chain'[p][i]
<1>1. Len(chain[p]) \in Nat
  BY LenProperties DEF Typed
<1>. QED
  BY <1>1 DEF Exists, Buffers, BufferOf, AtNext

\* No counter of a chain but that of b is set.
LEMMA OthersCountersStay ==
  ASSUME Safe, NEW b, OnlyAt(b), NEW p \in Producers,
         \/ p # b.p
         \/ AtNext(b).readSlot = BufferOf(b).readSlot /\ AtNext(b).written = BufferOf(b).written
  PROVE  CountersStay(p)
<1>1. ASSUME NEW i \in 1 .. Len(chain[p])
      PROVE  chain'[p][i].readSlot = chain[p][i].readSlot /\ chain'[p][i].written = chain[p][i].written
  <2>1. PICK d : d = [p |-> p, i |-> i]
    OBVIOUS
  <2>2. Exists(d) /\ d.p = p /\ BufferOf(d) = chain[p][i] /\ AtNext(d) = chain'[p][i]
    BY <2>1, BuffersByName DEF Safe
  <2>3. CASE d # b
    BY <2>2, <2>3 DEF OnlyAt
  <2>4. CASE d = b
    BY <2>2, <2>4
  <2>. QED
    BY <2>3, <2>4
<1>. QED
  BY <1>1 DEF CountersStay, OnlyAt

LEMMA QueuesStay ==
  ASSUME Safe, Safe', \A p \in Producers : CountersStay(p)
  PROVE  unclaimed' = unclaimed
<1>1. \A p \in Producers : unclaimed'[p] = unclaimed[p]
  BY QueueStays
<1>2. unclaimed = [p \in Producers |-> unclaimed[p]] /\ unclaimed' = [p \in Producers |-> unclaimed'[p]]
  BY DEF unclaimed
<1>. QED
  BY <1>1, <1>2

\* The queue of p is the only one that changes.
LEMMA OneQueue ==
  ASSUME NEW p \in Producers, \A q \in Producers \ {p} : unclaimed'[q] = unclaimed[q],
         NEW new, unclaimed'[p] = new
  PROVE  unclaimed' = [unclaimed EXCEPT ![p] = new]
BY DEF unclaimed

\* An item that is published is added to the queue.
LEMMA PublishPushes ==
  ASSUME Safe, Safe', NEW p \in Producers, Publishes(p)
  PROVE  Fifo!Push(p)
<1>1. PICK n : n = Len(chain[p])
  OBVIOUS
<1>2. PICK b : b = [p |-> p, i |-> n]
  OBVIOUS
<1>3. /\ OnlyAt(b) /\ AtNext(b).readSlot = BufferOf(b).readSlot
      /\ AtNext(b).written = BufferOf(b).written + 1
  BY <1>1, <1>2, AtLast DEF Safe, Publishes, Counters
<1>4. n \in Nat \ {0} /\ n \in 1 .. n
  BY <1>1, EmptySeq DEF Publishes, Safe, Typed
<1>5. b.p = p /\ b.i = n /\ BufferOf(b) = chain[p][n] /\ AtNext(b) = chain'[p][n]
  BY <1>1, <1>2, <1>4, BuffersByName DEF Safe
<1>6. PICK read, written : read = chain[p][n].readSlot /\ written = chain[p][n].written
  OBVIOUS
<1>7. PICK s, t : s = Parts(chain[p]) /\ t = Parts(chain'[p])
  OBVIOUS
<1>8. Len(chain'[p]) = n
  BY <1>1, <1>3 DEF OnlyAt
<1>9. s \in Seq(Seq(Item)) /\ t \in Seq(Seq(Item)) /\ Len(s) = n /\ Len(t) = n
  BY <1>1, <1>7, <1>8, PartsTyped, PartsNext
<1>10. \A i \in 1 .. n : i # n => t[i] = s[i]
  <2>. SUFFICES ASSUME NEW i \in 1 .. n, i # n
                PROVE  t[i] = s[i]
    OBVIOUS
  <2>1. PICK d : d = [p |-> p, i |-> i]
    OBVIOUS
  <2>2. i \in 1 .. n /\ i # n
    OBVIOUS
  <2>3. Exists(d) /\ d.i = i /\ BufferOf(d) = chain[p][i] /\ AtNext(d) = chain'[p][i]
    BY <1>1, <2>1, <2>2, BuffersByName DEF Safe
  <2>4. chain'[p][i] = chain[p][i]
    BY <1>3, <1>5, <2>2, <2>3 DEF OnlyAt
  <2>. QED
    BY <1>1, <1>7, <1>8, <2>2, <2>4, PartsTyped, PartsNext
<1>11. read \in Nat /\ written \in Nat /\ read <= written
  BY <1>1, <1>4, <1>6, PartsTyped
<1>12. PICK x : x = <<n, written>>
  OBVIOUS
<1>13. x \in Item
  BY <1>4, <1>11, <1>12 DEF Item
<1>14. t[n] = Append(s[n], x)
  <2>1. s[n] = Pending(n, read, written)
    BY <1>1, <1>4, <1>6, <1>7, PartsTyped
  <2>2. t[n] = Pending(n, read, written + 1)
    BY <1>3, <1>4, <1>5, <1>6, <1>7, <1>8, PartsNext
  <2>. QED
    BY <1>4, <1>11, <1>12, <2>1, <2>2, PendingGets
<1>15. FlattenSeq(t) = Append(FlattenSeq(s), x)
  <2>1. LastGets(s, t, n, x)
    BY <1>4, <1>9, <1>10, <1>14 DEF LastGets
  <2>. QED
    BY <1>9, <1>13, <2>1, FlattenAppended
<1>16. PICK old : old = unclaimed[p]
  OBVIOUS
<1>17. unclaimed'[p] = Append(old, x) /\ old \in Seq(Item)
  BY <1>7, <1>15, <1>16, PartsTyped, PartsNext
<1>18. Append(old, x) # << >> /\ Last(Append(old, x)) = x
  <2>1. /\ Append(old, x) \in Seq(Item) /\ Len(Append(old, x)) = Len(old) + 1
        /\ Append(old, x)[Len(old) + 1] = x /\ Len(old) \in Nat
    BY <1>13, <1>17, AppendProperties, LenProperties
  <2>. QED
    BY <2>1, EmptySeq DEF Last
<1>19. \A q \in Producers \ {p} : unclaimed'[q] = unclaimed[q]
  BY <1>3, <1>5, OthersCountersStay, QueueStays
<1>20. unclaimed' = [unclaimed EXCEPT ![p] = Append(@, x)]
  BY <1>16, <1>17, <1>19, OneQueue
<1>. QED
  BY <1>13, <1>17, <1>18, <1>20 DEF Fifo!Push, Fifo!Last, Last, Item

\* What is kept comes after buffers that are used up.
KeptPast == \A c \in Consumers : (kept[c] # Dummy \/ pc[c] \in Popping) => Passed(kept[c])

\* An item that is claimed is the oldest one of the queue.
LEMMA ClaimPops ==
  ASSUME Safe, Safe', KeptPast, NEW c \in Consumers, Claims(c)
  PROVE  Fifo!Pop(kept[c].p)
<1>1. PICK b : b = kept[c]
  OBVIOUS
<1>3. PICK p \in Producers, n \in {b.i} : p = b.p
  BY <1>1 DEF Claims, AtBuffer, Exists, Buffers
<1>4. PICK len : len = Len(chain[p])
  OBVIOUS
<1>5. /\ Exists(b) /\ n \in 1 .. len /\ len \in Nat /\ b = [p |-> p, i |-> n]
      /\ BufferOf(b) = chain[p][n] /\ AtNext(b) = chain'[p][n]
  <2>1. Exists(b)
    BY <1>1 DEF Claims, AtBuffer
  <2>2. n \in 1 .. len /\ b = [p |-> p, i |-> n] /\ n \in Nat
    BY <1>3, <1>4, <2>1 DEF Exists, Buffers
  <2>3. len \in Nat
    BY <1>4, LenProperties DEF Safe, Typed
  <2>. QED
    BY <1>4, <2>1, <2>2, <2>3, BuffersByName DEF Safe
<1>6. /\ OnlyAt(b) /\ AtNext(b).readSlot = BufferOf(b).readSlot + 1
      /\ AtNext(b).written = BufferOf(b).written
  BY <1>1, AtKept DEF Safe, Counters
<1>7. PICK read, written : read = chain[p][n].readSlot /\ written = chain[p][n].written
  OBVIOUS
<1>8. read \in Nat /\ written \in Nat /\ read < written
  <2>1. read \in Nat /\ written \in Nat
    BY <1>4, <1>5, <1>7, PartsTyped
  <2>2. c \in Claiming(b)
    BY <1>1 DEF Claims, AtBuffer, Claiming
  <2>3. PICK m : m = Cardinality(Claiming(b))
    OBVIOUS
  <2>4. m \in Nat \ {0}
    BY <2>2, <2>3, ConsumersFinite, FS_EmptySet
  <2>5. read + m <= written
    BY <1>5, <1>7, <2>3, CountsByName DEF Safe, Typed, CountsHold, Fits
  <2>. QED
    BY <2>1, <2>4, <2>5
<1>9. PICK s, t : s = Parts(chain[p]) /\ t = Parts(chain'[p])
  OBVIOUS
<1>10. Len(chain'[p]) = len
  BY <1>4, <1>6 DEF OnlyAt
<1>11. s \in Seq(Seq(Item)) /\ t \in Seq(Seq(Item)) /\ Len(s) = len /\ Len(t) = len
  BY <1>4, <1>9, <1>10, PartsTyped, PartsNext
<1>12. s[n] # << >> /\ t[n] = Tail(s[n])
  <2>1. s[n] = Pending(n, read, written)
    BY <1>4, <1>5, <1>7, <1>9, PartsTyped
  <2>2. t[n] = Pending(n, read + 1, written)
    BY <1>5, <1>6, <1>7, <1>9, <1>10, PartsNext
  <2>. QED
    BY <1>5, <1>8, <2>1, <2>2, PendingLoses
<1>13. ASSUME NEW i \in 1 .. len, i < n
       PROVE  s[i] = << >>
  <2>1. PICK d : d = [p |-> p, i |-> i]
    OBVIOUS
  <2>2. Exists(d) /\ d.p = p /\ d.i = i /\ BufferOf(d) = chain[p][i]
    BY <1>4, <2>1, BuffersByName DEF Safe
  <2>3. Passed(b)
    <3>1. pc[c] \in Popping
      BY DEF Claims, AtBuffer, Popping
    <3>. QED
      BY <1>1, <3>1 DEF KeptPast
  <2>4. UsedUp(d)
    <3>1. d \in Buffers /\ d.p = b.p /\ 1 <= d.i /\ d.i < b.i
      BY <1>3, <1>5, <1>13, <2>2 DEF Exists
    <3>. QED
      BY <2>3, <3>1 DEF Passed
  <2>5. s[i] = Pending(i, chain[p][i].readSlot, chain[p][i].written) /\ chain[p][i].readSlot \in Nat
    BY <1>4, <1>9, PartsTyped
  <2>6. chain[p][i].readSlot = chain[p][i].written
    BY <2>2, <2>4 DEF UsedUp
  <2>. QED
    BY <2>5, <2>6, PendingNothing
<1>14. ASSUME NEW i \in 1 .. len, i # n
       PROVE  t[i] = s[i]
  <2>1. PICK d : d = [p |-> p, i |-> i]
    OBVIOUS
  <2>2. Exists(d) /\ d.i = i /\ BufferOf(d) = chain[p][i] /\ AtNext(d) = chain'[p][i]
    BY <1>4, <2>1, BuffersByName DEF Safe
  <2>3. chain'[p][i] = chain[p][i]
    BY <1>3, <1>6, <1>14, <2>2 DEF OnlyAt
  <2>4. s[i] = Pending(i, chain[p][i].readSlot, chain[p][i].written)
    BY <1>4, <1>9, PartsTyped
  <2>5. t[i] = Pending(i, chain'[p][i].readSlot, chain'[p][i].written)
    BY <1>9, <1>10, PartsNext
  <2>. QED
    BY <2>3, <2>4, <2>5
<1>15. FlattenSeq(s) # << >> /\ FlattenSeq(t) = Tail(FlattenSeq(s))
  BY <1>5, <1>11, <1>12, <1>13, <1>14, FlattenTail
<1>16. unclaimed[p] # << >> /\ unclaimed'[p] = Tail(unclaimed[p])
  BY <1>9, <1>15, PartsTyped, PartsNext
<1>17. \A q \in Producers \ {p} : unclaimed'[q] = unclaimed[q]
  BY <1>3, <1>6, OthersCountersStay, QueueStays
<1>18. unclaimed' = [unclaimed EXCEPT ![p] = Tail(@)]
  BY <1>16, <1>17, OneQueue
<1>. QED
  BY <1>1, <1>3, <1>16, <1>18 DEF Fifo!Pop

LEMMA AddsNothing ==
  ASSUME Safe, Safe', NEW p \in Producers, NEW r \in Buffer, Adds(p, r)
  PROVE  unclaimed' = unclaimed
<1>1. PICK n : n = Len(chain[p])
  OBVIOUS
<1>2. PICK b : b = [p |-> p, i |-> n + 1]
  OBVIOUS
<1>3. /\ AtNext(b) = r /\ Len(chain'[p]) = n + 1 /\ n \in Nat
      /\ \A q \in Producers \ {p} : Len(chain'[q]) = Len(chain[q])
      /\ \A d : Exists(d) => AtNext(d) = BufferOf(d)
  BY <1>1, <1>2, AtNew DEF Safe
<1>4. \A q \in Producers : \A i \in 1 .. Len(chain[q]) : chain'[q][i] = chain[q][i]
  <2>. SUFFICES ASSUME NEW q \in Producers, NEW i \in 1 .. Len(chain[q])
                PROVE  chain'[q][i] = chain[q][i]
    OBVIOUS
  <2>1. PICK d : d = [p |-> q, i |-> i]
    OBVIOUS
  <2>2. Exists(d) /\ BufferOf(d) = chain[q][i] /\ AtNext(d) = chain'[q][i]
    BY <2>1, BuffersByName DEF Safe
  <2>. QED
    BY <1>3, <2>2
<1>5. \A q \in Producers \ {p} : CountersStay(q)
  BY <1>3, <1>4 DEF CountersStay
<1>6. \A q \in Producers \ {p} : unclaimed'[q] = unclaimed[q]
  BY <1>5, QueueStays
<1>7. PICK s, t : s = Parts(chain[p]) /\ t = Parts(chain'[p])
  OBVIOUS
<1>8. s \in Seq(Seq(Item)) /\ t \in Seq(Seq(Item)) /\ Len(s) = n /\ Len(t) = n + 1
  BY <1>1, <1>3, <1>7, PartsTyped, PartsNext
<1>9. \A i \in 1 .. n : t[i] = s[i]
  <2>. SUFFICES ASSUME NEW i \in 1 .. n
                PROVE  t[i] = s[i]
    OBVIOUS
  <2>1. i \in 1 .. Len(chain'[p]) /\ i \in 1 .. Len(chain[p])
    BY <1>1, <1>3
  <2>2. t[i] = Pending(i, chain'[p][i].readSlot, chain'[p][i].written)
    BY <1>7, <2>1, PartsNext
  <2>3. s[i] = Pending(i, chain[p][i].readSlot, chain[p][i].written)
    BY <1>7, <2>1, PartsTyped
  <2>4. chain'[p][i] = chain[p][i]
    BY <1>4, <2>1
  <2>. QED
    BY <2>2, <2>3, <2>4
<1>10. t[n + 1] = << >>
  <2>1. PICK m : m = n + 1
    OBVIOUS
  <2>2. m \in 1 .. Len(chain'[p]) /\ chain'[p][m] = r
    BY <1>2, <1>3, <2>1 DEF AtNext
  <2>3. t[m] = Pending(m, r.readSlot, r.written)
    BY <1>7, <2>2, PartsNext
  <2>4. r.readSlot = 0 /\ r.written = 0
    BY DEF Adds
  <2>. QED
    BY <2>1, <2>3, <2>4, PendingNothing
<1>11. FlattenSeq(t) = FlattenSeq(s)
  <2>1. Len(t) = Len(s) + 1 /\ (\A i \in 1 .. Len(s) : t[i] = s[i]) /\ t[Len(t)] = << >>
    BY <1>8, <1>9, <1>10
  <2>. QED
    BY <1>8, <2>1, FlattenNothingMore
<1>12. unclaimed'[p] = unclaimed[p]
  BY <1>7, <1>11, PartsTyped, PartsNext
<1>13. \A q \in Producers : unclaimed'[q] = unclaimed[q]
  BY <1>6, <1>12
<1>14. unclaimed = [q \in Producers |-> unclaimed[q]] /\ unclaimed' = [q \in Producers |-> unclaimed'[q]]
  BY DEF unclaimed
<1>. QED
  BY <1>13, <1>14

\* Each step pushes an item to the queue of a producer, pops the oldest one of
\* it, or changes nothing.
LEMMA FifoStep ==
  ASSUME Safe, Safe', Effect, KeptPast
  PROVE  [Fifo!Next]_unclaimed
<1>1. CASE chain' = chain
  <2>1. unclaimed' = unclaimed
    BY <1>1 DEF unclaimed, Unclaimed
  <2>. QED
    BY <2>1
<1>2. ASSUME NEW b, OnlyAt(b), AtNext(b).readSlot = BufferOf(b).readSlot,
             AtNext(b).written = BufferOf(b).written
      PROVE  [Fifo!Next]_unclaimed
  <2>1. \A p \in Producers : CountersStay(p)
    BY <1>2, OthersCountersStay
  <2>2. unclaimed' = unclaimed
    BY <2>1, QueuesStay
  <2>. QED
    BY <2>2
<1>3. ASSUME NEW c \in Consumers, Reserves(c) \/ GivesBack(c) \/ WritesOut(c)
      PROVE  [Fifo!Next]_unclaimed
  <2>1. PICK b : b = kept[c]
    OBVIOUS
  <2>2. OnlyAt(b) /\ AtNext(b).readSlot = BufferOf(b).readSlot /\ AtNext(b).written = BufferOf(b).written
    BY <1>3, <2>1, AtKept DEF Safe, Counters
  <2>. QED
    BY <1>2, <2>2
<1>4. ASSUME NEW c \in Consumers, Claims(c)
      PROVE  [Fifo!Next]_unclaimed
  <2>1. kept[c].p \in Producers
    BY <1>4 DEF Claims, AtBuffer, Exists, Buffers
  <2>2. Fifo!Pop(kept[c].p)
    BY <1>4, ClaimPops
  <2>. QED
    BY <2>1, <2>2 DEF Fifo!Next
<1>5. ASSUME NEW p \in Producers, Writes(p)
      PROVE  [Fifo!Next]_unclaimed
  <2>1. PICK b : b = [p |-> p, i |-> Len(chain[p])]
    OBVIOUS
  <2>2. OnlyAt(b) /\ AtNext(b).readSlot = BufferOf(b).readSlot /\ AtNext(b).written = BufferOf(b).written
    BY <1>5, <2>1, AtLast DEF Safe, Counters, Writes
  <2>. QED
    BY <1>2, <2>2
<1>6. ASSUME NEW p \in Producers, Publishes(p)
      PROVE  [Fifo!Next]_unclaimed
  BY <1>6, PublishPushes DEF Fifo!Next
<1>7. ASSUME NEW p \in Producers, NEW r \in Buffer, Adds(p, r)
      PROVE  [Fifo!Next]_unclaimed
  BY <1>7, AddsNothing
<1>. QED
  BY <1>1, <1>3, <1>4, <1>5, <1>6, <1>7 DEF Effect, Quiet, Reads

LEMMA FifoInit == Init => Fifo!Init
<1>. SUFFICES ASSUME Init
              PROVE  Fifo!Init
  OBVIOUS
<1>1. ASSUME NEW p \in Producers
      PROVE  FlattenSeq([i \in DOMAIN chain[p] |-> Unclaimed(p, i)]) = << >>
  <2>1. DOMAIN chain[p] = {}
    <3>1. chain[p] = << >> /\ << >> \in Seq(Nat) /\ Len(<< >>) = 0
      BY EmptySeq DEF Init
    <3>2. DOMAIN chain[p] = 1 .. 0
      BY <3>1, LenProperties
    <3>. QED
      BY <3>2
  <2>2. [i \in DOMAIN chain[p] |-> Unclaimed(p, i)] = << >>
    BY <2>1
  <2>. QED
    BY <2>2, FlattenNone
<1>2. unclaimed = [p \in Producers |-> << >>]
  BY <1>1 DEF unclaimed
<1>. QED
  BY <1>2 DEF Fifo!Init

\* What is kept comes from a slot or from find_back.
LEMMA KeptFrom ==
  ASSUME Typed, NEW c \in Consumers, try_pop(c) \/ relocate_consumer(c)
  PROVE  \/ /\ kept'[c] = kept[c]
            /\ pc'[c] \in Popping => kept[c] # Dummy \/ pc[c] \in Popping
         \/ pc[c] \in Looking /\ kept'[c] \in {seen[c], inspect[c]}
<1>0. kept \in [Consumers -> Buffers \cup {Dummy}] /\ pc \in [Consumers -> ConsumerPcs]
  BY DEF Typed, ConsumersTyped
<1>1. CASE ReadWritten(c)
  BY <1>0, <1>1 DEF ReadWritten, is_valid, Popping
<1>2. CASE ReserveItem(c) \/ GiveBack(c) \/ Claim(c) \/ WriteOut(c)
  BY <1>2 DEF ReserveItem, GiveBack, Claim, WriteOut, Popping
<1>3. CASE NoRelocation(c) \/ VisitedAll(c)
  BY <1>0, <1>3 DEF NoRelocation, VisitedAll, Return, Popping
<1>4. CASE BeginRelocation(c) \/ Visit(c) \/ Size(c) \/ FindBack(c) \/ InspectBack(c) \/ InspectNext(c)
  BY <1>0, <1>4 DEF BeginRelocation, Visit, Size, FindBack, InspectBack, InspectNext, Popping, relocationVars
<1>5. CASE KeepActive(c) \/ NoSuccessor(c) \/ ReplaceSlot(c)
  BY <1>0, <1>5 DEF KeepActive, NoSuccessor, ReplaceSlot, Keep, Looking
<1>. QED
  BY <1>1, <1>2, <1>3, <1>4, <1>5 DEF try_pop, relocate_consumer

LEMMA KeptPastStep ==
  ASSUME Safe, GonePast, KeptPast, [Next]_vars
  PROVE  KeptPast'
<1>1. Effect /\ kept \in [Consumers -> Buffers \cup {Dummy}] /\ pc \in [Consumers -> ConsumerPcs]
  BY StepTyped DEF Safe, Typed, ConsumersTyped
<1>2. ASSUME NEW b, Exists(b), Passed(b)
      PROVE  PassedNext(b)
  <2>1. b \in Buffers /\ b.i <= Len(chain[b.p])
    BY <1>2, LenProperties DEF Exists, Buffers, Safe, Typed
  <2>. QED
    BY <1>1, <1>2, <2>1, PassedStays
<1>3. \A c \in Consumers : (kept[c] # Dummy \/ pc[c] \in Popping) => PassedNext(kept[c])
  BY <1>2 DEF KeptPast, Safe, Typed, ConsumersHold
<1>4. \A c \in Consumers : pc[c] \in Looking => PassedNext(seen[c]) /\ PassedNext(inspect[c])
  BY <1>2 DEF GonePast, Safe, Typed, ConsumersHold
<1>5. ASSUME \A c \in Consumers : (kept'[c] # Dummy \/ pc'[c] \in Popping) => PassedNext(kept'[c])
      PROVE  KeptPast'
  BY <1>5 DEF KeptPast, PassedNext, Passed, UsedUp, BufferOf, AtNext
<1>6. CASE UNCHANGED <<kept, pc>>
  BY <1>3, <1>5, <1>6
<1>7. ASSUME NEW p \in Producers, push(p) \/ reserve(p)
      PROVE  UNCHANGED <<kept, pc>>
  BY <1>7 DEF push, reserve, InitProducer, PostReserve, CountProducers, Push, PushFails,
     AddProducerBuffer, Publish, ReserveFirst, Reserve
<1>8. ASSUME NEW c \in Consumers, try_pop(c) \/ relocate_consumer(c)
      PROVE  KeptPast'
  <2>1. \A d \in Consumers \ {c} : kept'[d] = kept[d] /\ pc'[d] = pc[d]
    BY <1>1, <1>8, StepSetsOwn DEF ConsumerSets, SetsOwn
  <2>2. (kept'[c] # Dummy \/ pc'[c] \in Popping) => PassedNext(kept'[c])
    BY <1>3, <1>4, <1>8, KeptFrom DEF Safe
  <2>. QED
    BY <1>3, <1>5, <2>1, <2>2
<1>. QED
  BY <1>6, <1>7, <1>8 DEF Next, vars

LEMMA InitKeptPast ==
  ASSUME Init
  PROVE  KeptPast
BY DEF Init, KeptPast, Popping

\* Claims are in the order of the pushes, over all the buffers of a producer,
\* unless a find_back goes on from a buffer that was filled since it was
\* inspected: this race is the only way to break the order.
THEOREM OnlyFindBackReorders ==
  SafeSpec /\ [][GoesOnFromUsedUp]_vars => KeepsFifo
<1>1. Init => GonePast /\ KeptPast /\ Fifo!Init
  BY InitGonePast, InitKeptPast, FifoInit
<1>2. GonePast /\ Safe /\ [Next]_vars /\ [GoesOnFromUsedUp]_vars => GonePast'
  <2>1. CASE UNCHANGED vars
    BY <2>1 DEF GonePast, Passed, UsedUp, BufferOf, vars, relocationVars
  <2>. QED
    BY <2>1, GonePastStep
<1>3. GonePast /\ KeptPast /\ Safe /\ [Next]_vars => KeptPast'
  BY KeptPastStep
<1>4. Safe /\ Safe' /\ KeptPast /\ [Next]_vars => [Fifo!Next]_unclaimed
  BY StepTyped, FifoStep DEF Safe
<1>. QED
  BY <1>1, <1>2, <1>3, <1>4, SafeAlways, PTL DEF SafeSpec, KeepsFifo, Fifo!Spec

=============================================================================
