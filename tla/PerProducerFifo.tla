--------------------------- MODULE PerProducerFifo ---------------------------
(***************************************************************************)
(* What concurrent_queue promises: "FIFO is respected within the context   *)
(* of single producers".  There is one queue for each producer; a try_pop  *)
(* that returns an item has taken the oldest one of some producer, and a   *)
(* try_pop that returns false has taken nothing.                           *)
(***************************************************************************)
EXTENDS SequencesExt

CONSTANTS Producers, Items

VARIABLE queue   \* queue[p]: what p has pushed and nobody has claimed

Init == queue = [p \in Producers |-> << >>]

\* p pushes some item, which is the newest one of its queue afterwards.
Push(p) ==
  /\ queue'[p] # << >> /\ Last(queue'[p]) \in Items
  /\ queue' = [queue EXCEPT ![p] = Append(@, Last(queue'[p]))]

Pop(p) ==
  /\ queue[p] # << >>
  /\ queue' = [queue EXCEPT ![p] = Tail(@)]

Next == \E p \in Producers : Push(p) \/ Pop(p)

Spec == Init /\ [][Next]_queue
=============================================================================
