----------------------------- MODULE OrderedMap -----------------------------
(***************************************************************************)
(* What concurrent_map promises: a sorted set of keys (the value belongs   *)
(* to its key).  Each operation takes effect at one instant between its    *)
(* call and its return, and leaves the caller with an iterator, given here *)
(* by the key it points to.                                                *)
(***************************************************************************)
EXTENDS Integers

CONSTANTS
  Threads,
  Keys,
  End      \* the position of the end iterator, above every key

VARIABLES
  contents,  \* the keys in the map
  call,      \* call[t]: the operation t has begun and that has not taken effect
  position,  \* position[t]: the iterator t got last
  inserted   \* inserted[t]: the second half of the last result of insert

vars == <<contents, call, position, inserted>>

NoCall == [op |-> "none", key |-> End]
Operations == [op : {"insert", "find"}, key : Keys]

Init ==
  /\ contents = {}
  /\ call = [t \in Threads |-> NoCall]
  /\ position = [t \in Threads |-> End]
  /\ inserted = [t \in Threads |-> FALSE]

Call(t) ==
  /\ call[t] = NoCall
  /\ \E c \in Operations : call' = [call EXCEPT ![t] = c]
  /\ UNCHANGED <<contents, position, inserted>>

Insert(t) ==
  /\ call[t].op = "insert"
  /\ inserted' = [inserted EXCEPT ![t] = call[t].key \notin contents]
  /\ contents' = contents \cup {call[t].key}
  /\ position' = [position EXCEPT ![t] = call[t].key]
  /\ call' = [call EXCEPT ![t] = NoCall]

Find(t) ==
  /\ call[t].op = "find"
  /\ position' = [position EXCEPT
                    ![t] = IF call[t].key \in contents THEN call[t].key ELSE End]
  /\ call' = [call EXCEPT ![t] = NoCall]
  /\ UNCHANGED <<contents, inserted>>

\* p is where an iterator goes that is at the beginning or has passed all keys
\* that are not in later.
First(later, p) ==
  /\ p \in later \cup {End}
  /\ \A k \in later : p <= k

Begin(t) ==
  /\ call[t] = NoCall
  /\ \E p \in Keys \cup {End} :
       /\ First(contents, p)
       /\ position' = [position EXCEPT ![t] = p]
  /\ UNCHANGED <<contents, call, inserted>>

Increment(t) ==
  /\ call[t] = NoCall
  /\ position[t] # End
  /\ \E p \in Keys \cup {End} :
       /\ First({k \in contents : k > position[t]}, p)
       /\ position' = [position EXCEPT ![t] = p]
  /\ UNCHANGED <<contents, call, inserted>>

\* Not concurrency safe: nobody is inside an operation or holds an iterator.
Clear ==
  /\ call = [t \in Threads |-> NoCall]
  /\ contents' = {}
  /\ position' = [t \in Threads |-> End]
  /\ UNCHANGED <<call, inserted>>

Next ==
  \/ Clear
  \/ \E t \in Threads : Call(t) \/ Insert(t) \/ Find(t) \/ Begin(t) \/ Increment(t)

Spec == Init /\ [][Next]_vars
=============================================================================
