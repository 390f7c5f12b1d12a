----------------------------- MODULE HashTable -----------------------------
(***************************************************************************)
(* What concurrent_unordered_map promises: a set of keys (the value belongs *)
(* to its key).  An insert takes effect at one instant between its call and *)
(* its return.  A find sees every key that was there when it was called;    *)
(* keys leave the table only while nobody is inside an operation, so a find *)
(* that misses a key took effect at its call.                               *)
(***************************************************************************)
CONSTANTS
  Threads,
  Hashes,
  End      \* the iterator to the end

VARIABLES
  contents,  \* the keys in the table, each given by its hash
  call,      \* call[t]: the operation t is inside of; busy if it has taken effect
             \* or works on no key
  found,     \* found[t]: the key of the iterator t got last; a call drops it
  inserted   \* inserted[t]: the second half of the last result of insert

vars == <<contents, call, found, inserted>>

NoCall == [op |-> "none", key |-> End, absent |-> FALSE]
Busy == [op |-> "busy", key |-> End, absent |-> FALSE]

Init ==
  /\ contents = {}
  /\ call = [t \in Threads |-> NoCall]
  /\ found = [t \in Threads |-> End]
  /\ inserted = [t \in Threads |-> FALSE]

Call(t) ==
  /\ call[t] = NoCall
  /\ \E k \in Hashes :
       call' \in {[call EXCEPT ![t] = [op |-> "insert", key |-> k, absent |-> FALSE]],
                  [call EXCEPT ![t] = [op |-> "find", key |-> k, absent |-> k \notin contents]]}
  /\ found' = [found EXCEPT ![t] = End]
  /\ inserted' = [inserted EXCEPT ![t] = FALSE]
  /\ UNCHANGED contents

Enter(t) ==
  /\ call[t] = NoCall
  /\ call' = [call EXCEPT ![t] = Busy]
  /\ UNCHANGED <<contents, found, inserted>>

Leave(t) ==
  /\ call[t] = Busy
  /\ call' = [call EXCEPT ![t] = NoCall]
  /\ UNCHANGED <<contents, found, inserted>>

Insert(t) ==
  /\ call[t].op = "insert"
  /\ inserted' = [inserted EXCEPT ![t] = call[t].key \notin contents]
  /\ contents' = contents \cup {call[t].key}
  /\ found' = [found EXCEPT ![t] = call[t].key]
  /\ \E c \in {Busy, NoCall} : call' = [call EXCEPT ![t] = c]

FindHit(t) ==
  /\ call[t].op = "find"
  /\ call[t].key \in contents
  /\ found' = [found EXCEPT ![t] = call[t].key]
  /\ call' = [call EXCEPT ![t] = NoCall]
  /\ UNCHANGED <<contents, inserted>>

FindMiss(t) ==
  /\ call[t].op = "find"
  /\ call[t].absent
  /\ found' = [found EXCEPT ![t] = End]
  /\ call' = [call EXCEPT ![t] = NoCall]
  /\ UNCHANGED <<contents, inserted>>

\* An iterator goes to some key of the table, or to the end.
Iterate(t) ==
  /\ call[t] = Busy
  /\ \E k \in contents \cup {End} : found' = [found EXCEPT ![t] = k]
  /\ inserted' = [inserted EXCEPT ![t] = FALSE]
  /\ call' = [call EXCEPT ![t] = NoCall]
  /\ UNCHANGED contents

\* Not concurrency safe.
Remove ==
  /\ call = [t \in Threads |-> NoCall]
  /\ contents' \in {contents \ {k} : k \in contents} \cup {{}}
  /\ UNCHANGED <<call, found, inserted>>

Next ==
  \/ Remove
  \/ \E t \in Threads : Call(t) \/ Enter(t) \/ Leave(t) \/ Insert(t) \/ FindHit(t) \/ FindMiss(t) \/ Iterate(t)

Spec == Init /\ [][Next]_vars
=============================================================================
