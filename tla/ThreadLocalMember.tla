------------------------- MODULE ThreadLocalMember -------------------------
(***************************************************************************)
(* thread_local_member: each thread has its own value of each object.      *)
(*                                                                         *)
(* An object has an index, which an object that is gone may have had       *)
(* before, and an iteration, which no other object has.  The instance      *)
(* constructors of the objects are in an array, which grows through a swap *)
(* array; a thread that meets an object younger than all it has met goes   *)
(* through the array and brings its values up to date.                     *)
(*                                                                         *)
(* One action is one access to what threads share.  The pool of indices,   *)
(* two stacks of fresh nodes, is a sequence.  Accesses are sequentially    *)
(* consistent.                                                             *)
(***************************************************************************)
EXTENDS Integers, Sequences, FiniteSets

CONSTANTS
  Threads,
  Objects,   \* objects of the program, each made once; unsafe_reset makes another
  Programs,  \* what kinds of program there are
  None

ASSUME NoneAssumption == None \notin Threads \cup Objects
\* A program makes its objects one at a time, or uses each only in the thread that
\* made it, or does neither.
ASSUME ProgramsAssumption == Programs \subseteq {"serial", "own", "any"}

VARIABLES
  program,
  arrays,                \* the arrays of instance constructors ever allocated
  instanceConstructors,  \* the array in use, 0 for none
  swapArray,             \* with the version of the word
  freeIndices, nextIndex,
  nextIteration,
  index, iteration,      \* m_index and m_iteration of each object
  constructorIteration,  \* m_iteration of its instance constructor
  life, maker,
  pc, obj,               \* where a thread is, and in a call on which object
  active, swap, i, copied,  \* local variables of the calls
  seen,                  \* t_container.iteration
  items,                 \* t_container.items
  used                   \* history: used[t] are the objects whose value t has had

staticVars == <<arrays, instanceConstructors, swapArray, nextIteration>>
poolVars == <<freeIndices, nextIndex>>
objectVars == <<index, iteration, constructorIteration, life, maker>>
callVars == <<pc, obj, active, swap, i, copied>>
threadVars == <<seen, items, used>>
vars == <<program, staticVars, poolVars, objectVars, callVars, threadVars>>

\* An entry that was never written has version 0.
Unwritten == [object |-> None, written |-> FALSE]
NullWord == [array |-> 0, version |-> 0]
\* A value, and whether its thread has had it in use.
NoItem == [object |-> None, used |-> FALSE]

Init ==
  /\ program \in Programs
  /\ arrays = << >> /\ instanceConstructors = 0 /\ swapArray = NullWord
  /\ nextIteration = 0
  /\ freeIndices = << >> /\ nextIndex = 0
  /\ index = [o \in Objects |-> 0]
  /\ iteration = [o \in Objects |-> 0]
  /\ constructorIteration = [o \in Objects |-> 0]
  /\ life = [o \in Objects |-> "new"]
  /\ maker = [o \in Objects |-> None]
  /\ pc = [t \in Threads |-> "idle"]
  /\ obj = [t \in Threads |-> None]
  /\ active = [t \in Threads |-> 0]
  /\ swap = [t \in Threads |-> NullWord]
  /\ i = [t \in Threads |-> 0]
  /\ copied = [t \in Threads |-> None]
  /\ seen = [t \in Threads |-> 0]
  /\ items = [t \in Threads |-> << >>]
  /\ used = [t \in Threads |-> {}]

-----------------------------------------------------------------------------
item_count(a) == IF a = 0 THEN 0 ELSE Len(arrays[a])
\* Sequences begin at 1 and indices at 0.
Entry(a, n) == arrays[a][n + 1].object
minimum(t) == index[obj[t]] + 1

Goto(t, label) == pc' = [pc EXCEPT ![t] = label]

Begin(t, o, label) ==
  /\ pc[t] = "idle"
  /\ Goto(t, label)
  /\ obj' = [obj EXCEPT ![t] = o]
  /\ UNCHANGED <<active, swap, i, copied>>

\* The call returns, and its local variables are gone.
Return(t) ==
  /\ Goto(t, "idle")
  /\ obj' = [obj EXCEPT ![t] = None]
  /\ active' = [active EXCEPT ![t] = 0]
  /\ swap' = [swap EXCEPT ![t] = NullWord]
  /\ i' = [i EXCEPT ![t] = 0]
  /\ copied' = [copied EXCEPT ![t] = None]

-----------------------------------------------------------------------------
\* The constructor takes an index that was given back, or a new one.
Construct(t, o) ==
  /\ life[o] = "new"
  /\ program = "serial" => \A p \in Objects : life[p] # "making"
  /\ Begin(t, o, "grow")
  /\ life' = [life EXCEPT ![o] = "making"]
  /\ maker' = [maker EXCEPT ![o] = t]
  /\ IF freeIndices = << >>
       THEN /\ index' = [index EXCEPT ![o] = nextIndex]
            /\ nextIndex' = nextIndex + 1
            /\ UNCHANGED freeIndices
       ELSE /\ index' = [index EXCEPT ![o] = Head(freeIndices)]
            /\ freeIndices' = Tail(freeIndices)
            /\ UNCHANGED nextIndex
  /\ UNCHANGED <<staticVars, iteration, constructorIteration, threadVars>>

\* grow_instance_constructor_array: is the array large enough?
GrowLoad(t) ==
  /\ pc[t] = "grow"
  /\ active' = [active EXCEPT ![t] = instanceConstructors]
  /\ Goto(t, IF item_count(instanceConstructors) < minimum(t) THEN "grow_swap" ELSE "grow_end")
  /\ UNCHANGED <<staticVars, poolVars, objectVars, obj, swap, i, copied, threadVars>>

GrowLoadSwap(t) ==
  /\ pc[t] = "grow_swap"
  /\ swap' = [swap EXCEPT ![t] = swapArray]
  /\ i' = [i EXCEPT ![t] = 0]
  /\ Goto(t, IF item_count(swapArray.array) < minimum(t) THEN "grow_new" ELSE "copy")
  /\ UNCHANGED <<staticVars, poolVars, objectVars, obj, active, copied, threadVars>>

growth(min) == (min * 14) \div 10

NewSwapArray(t) ==
  /\ pc[t] = "grow_new"
  /\ IF swapArray = swap[t]
       THEN /\ arrays' = Append(arrays, [n \in 1 .. growth(minimum(t)) |-> Unwritten])
            /\ swapArray' = [array |-> Len(arrays) + 1, version |-> swapArray.version + 1]
       ELSE UNCHANGED <<arrays, swapArray>>
  /\ Goto(t, "grow")
  /\ UNCHANGED <<instanceConstructors, nextIteration, poolVars, objectVars, obj, active, swap,
                 i, copied, threadVars>>

CopyLoad(t) ==
  /\ pc[t] = "copy" /\ i[t] < item_count(active[t])
  /\ copied' = [copied EXCEPT ![t] = Entry(active[t], i[t])]
  /\ Goto(t, "copy_store")
  /\ UNCHANGED <<staticVars, poolVars, objectVars, obj, active, swap, i, threadVars>>

\* Only an entry that nobody has written to is copied to.
CopyStore(t) ==
  /\ pc[t] = "copy_store"
  /\ IF arrays[swap[t].array][i[t] + 1].written
       THEN UNCHANGED arrays
       ELSE arrays' = [arrays EXCEPT ![swap[t].array][i[t] + 1] =
                         [object |-> copied[t], written |-> TRUE]]
  /\ i' = [i EXCEPT ![t] = @ + 1]
  /\ copied' = [copied EXCEPT ![t] = None]
  /\ Goto(t, "copy")
  /\ UNCHANGED <<instanceConstructors, swapArray, nextIteration, poolVars, objectVars, obj,
                 active, swap, threadVars>>

Publish(t) ==
  /\ pc[t] = "copy" /\ i[t] = item_count(active[t])
  /\ IF instanceConstructors = active[t]
       THEN /\ instanceConstructors' = swap[t].array
            /\ Goto(t, "grow_end")
            /\ UNCHANGED active
       ELSE /\ active' = [active EXCEPT ![t] = instanceConstructors]
            /\ Goto(t, IF item_count(instanceConstructors) < minimum(t) THEN "grow" ELSE "grow_end")
            /\ UNCHANGED instanceConstructors
  /\ UNCHANGED <<arrays, swapArray, nextIteration, poolVars, objectVars, obj, swap, i, copied,
                 threadVars>>

\* Who did not publish takes the swap array away, if it is still the one it knows.
GrowEnd(t) ==
  /\ pc[t] = "grow_end"
  /\ IF item_count(active[t]) >= item_count(swap[t].array) /\ swapArray = swap[t]
       THEN swapArray' = [array |-> 0, version |-> swapArray.version + 1]
       ELSE UNCHANGED swapArray
  /\ Goto(t, "store")
  /\ UNCHANGED <<arrays, instanceConstructors, nextIteration, poolVars, objectVars, obj, active,
                 swap, i, copied, threadVars>>

-----------------------------------------------------------------------------
\* store_instance_constructor: into both arrays, again and again until they stay
\* what they are.  The destructor stores a null pointer.
ToStore(t) == IF life[obj[t]] = "making" THEN obj[t] ELSE None

StoreLoad(t) ==
  /\ pc[t] = "store"
  /\ active' = [active EXCEPT ![t] = instanceConstructors]
  /\ Goto(t, "store_load_swap")
  /\ UNCHANGED <<staticVars, poolVars, objectVars, obj, swap, i, copied, threadVars>>

\* Mutant: the swap array is loaded before the loop.
StoreLoadSwap_Once(t) ==
  /\ pc[t] = "store_load_swap"
  /\ swap' = [swap EXCEPT ![t] = IF @ = NullWord THEN swapArray ELSE @]
  /\ Goto(t, "store_in_swap")
  /\ UNCHANGED <<staticVars, poolVars, objectVars, obj, active, i, copied, threadVars>>

StoreLoadSwap(t) ==
  /\ pc[t] = "store_load_swap"
  /\ swap' = [swap EXCEPT ![t] = swapArray]
  /\ Goto(t, "store_in_swap")
  /\ UNCHANGED <<staticVars, poolVars, objectVars, obj, active, i, copied, threadVars>>

StoreIn(t, a) ==
  IF Entry(a, index[obj[t]]) = ToStore(t)
    THEN UNCHANGED arrays
    ELSE arrays' = [arrays EXCEPT ![a][minimum(t)] = [object |-> ToStore(t), written |-> TRUE]]

StoreInSwap(t) ==
  /\ pc[t] = "store_in_swap"
  /\ IF index[obj[t]] < item_count(swap[t].array) THEN StoreIn(t, swap[t].array)
                                                 ELSE UNCHANGED arrays
  /\ Goto(t, "store_in_active")
  /\ UNCHANGED <<instanceConstructors, swapArray, nextIteration, poolVars, objectVars, obj,
                 active, swap, i, copied, threadVars>>

StoreInActive(t) ==
  /\ pc[t] = "store_in_active"
  /\ StoreIn(t, active[t])
  /\ Goto(t, "check_swap")
  /\ UNCHANGED <<instanceConstructors, swapArray, nextIteration, poolVars, objectVars, obj,
                 active, swap, i, copied, threadVars>>

CheckSwap(t) ==
  /\ pc[t] = "check_swap"
  /\ Goto(t, IF swapArray.array = swap[t].array THEN "check_active" ELSE "store")
  /\ UNCHANGED <<staticVars, poolVars, objectVars, obj, active, swap, i, copied, threadVars>>

CheckActive(t) ==
  /\ pc[t] = "check_active"
  /\ Goto(t, IF instanceConstructors # active[t] THEN "store"
             ELSE IF life[obj[t]] = "making" THEN "count" ELSE "recycle")
  /\ UNCHANGED <<staticVars, poolVars, objectVars, obj, active, swap, i, copied, threadVars>>

\* initialize_instance_constructor: the iteration is taken from the counter,
Count(t) ==
  /\ pc[t] = "count"
  /\ nextIteration' = nextIteration + 1
  /\ iteration' = [iteration EXCEPT ![obj[t]] = nextIteration + 1]
  /\ Goto(t, "set_iteration")
  /\ UNCHANGED <<arrays, instanceConstructors, swapArray, poolVars, index, constructorIteration,
                 life, maker, obj, active, swap, i, copied, threadVars>>

\* and written to the instance constructor, which others may be reading.
SetIteration(t) ==
  /\ pc[t] = "set_iteration"
  /\ constructorIteration' = [constructorIteration EXCEPT ![obj[t]] = iteration[obj[t]]]
  /\ life' = [life EXCEPT ![obj[t]] = "alive"]
  /\ Return(t)
  /\ UNCHANGED <<staticVars, poolVars, index, iteration, maker, threadVars>>

MayUse(t, o) == life[o] = "alive" /\ (program = "own" => maker[o] = t)

\* An object is destroyed when nobody uses it.
Destroy(t, o) ==
  /\ MayUse(t, o) /\ \A u \in Threads : obj[u] # o
  /\ Begin(t, o, "store")
  /\ life' = [life EXCEPT ![o] = "dying"]
  /\ UNCHANGED <<staticVars, poolVars, index, iteration, constructorIteration, maker, threadVars>>

Recycle(t) ==
  /\ pc[t] = "recycle"
  /\ freeIndices' = <<index[obj[t]]>> \o freeIndices
  /\ life' = [life EXCEPT ![obj[t]] = "gone"]
  /\ used' = [u \in Threads |-> used[u] \ {obj[t]}]
  /\ Return(t)
  /\ UNCHANGED <<staticVars, nextIndex, index, iteration, constructorIteration, maker, seen, items>>

-----------------------------------------------------------------------------
\* get, check_for_invalidation: only an object that is younger than what the thread
\* has seen makes it refresh.
Get(t, o) ==
  /\ MayUse(t, o)
  /\ Begin(t, o, IF seen[t] < iteration[o] THEN "refresh" ELSE "value")
  /\ UNCHANGED <<staticVars, poolVars, objectVars, threadVars>>

RefreshLoad(t) ==
  /\ pc[t] = "refresh"
  /\ active' = [active EXCEPT ![t] = instanceConstructors]
  /\ i' = [i EXCEPT ![t] = 0]
  /\ LET size == item_count(instanceConstructors) IN
     items' = [items EXCEPT ![t] = IF Len(@) < size
                                     THEN @ \o [n \in 1 .. size - Len(@) |-> NoItem] ELSE @]
  /\ Goto(t, "refresh_entry")
  /\ UNCHANGED <<staticVars, poolVars, objectVars, obj, swap, copied, seen, used>>

\* Mutant: what the thread has seen is not taken into account.
Outdated_Always(t, o) == constructorIteration[o] <= iteration[obj[t]]
Outdated(t, o) ==
  /\ seen[t] < constructorIteration[o]
  /\ constructorIteration[o] <= iteration[obj[t]]

\* An entry and the iteration of its constructor are read in one step: the iteration
\* changes only before the object can be destroyed, and the entry only after it.
RefreshEntry(t) ==
  /\ pc[t] = "refresh_entry" /\ i[t] < item_count(active[t])
  /\ LET o == Entry(active[t], i[t]) IN
     items' = [items EXCEPT ![t][i[t] + 1] =
                 IF o = None THEN NoItem
                 ELSE IF Outdated(t, o) THEN [object |-> o, used |-> FALSE]
                 ELSE @]
  /\ i' = [i EXCEPT ![t] = @ + 1]
  /\ UNCHANGED <<staticVars, poolVars, objectVars, pc, obj, active, swap, copied, seen, used>>

RefreshEnd(t) ==
  /\ pc[t] = "refresh_entry" /\ i[t] = item_count(active[t])
  /\ seen' = [seen EXCEPT ![t] = iteration[obj[t]]]
  /\ Goto(t, "value")
  /\ UNCHANGED <<staticVars, poolVars, objectVars, obj, active, swap, i, copied, items, used>>

\* The thread does something with its value.
Value(t) ==
  /\ pc[t] = "value" /\ index[obj[t]] < Len(items[t])
  /\ items' = [items EXCEPT ![t][minimum(t)].used = TRUE]
  /\ used' = [used EXCEPT ![t] = @ \cup {obj[t]}]
  /\ Return(t)
  /\ UNCHANGED <<staticVars, poolVars, objectVars, seen>>

-----------------------------------------------------------------------------
Step(t) ==
  /\ \/ GrowLoad(t) \/ GrowLoadSwap(t) \/ NewSwapArray(t) \/ CopyLoad(t) \/ CopyStore(t)
     \/ Publish(t) \/ GrowEnd(t)
     \/ StoreLoad(t) \/ StoreLoadSwap(t) \/ StoreInSwap(t) \/ StoreInActive(t)
     \/ CheckSwap(t) \/ CheckActive(t) \/ Count(t) \/ SetIteration(t) \/ Recycle(t)
     \/ RefreshLoad(t) \/ RefreshEntry(t) \/ RefreshEnd(t) \/ Value(t)
  /\ UNCHANGED program

Begins(t) ==
  /\ \E o \in Objects : Construct(t, o) \/ Destroy(t, o) \/ Get(t, o)
  /\ UNCHANGED program

Next == \E t \in Threads : Step(t) \/ Begins(t)

SafeSpec == Init /\ [][Next]_vars

\* A thread that has begun a call goes on.
Spec == SafeSpec /\ \A t \in Threads : WF_vars(Step(t))

-----------------------------------------------------------------------------
\* get: the thread finds a value that the constructor of this object has made, not
\* one of an object that had the index before, and finds it as it has left it.
OwnValue ==
  \A t \in Threads : pc[t] = "value" =>
    /\ index[obj[t]] < Len(items[t])
    /\ items[t][minimum(t)] = [object |-> obj[t], used |-> obj[t] \in used[t]]

\* The loops that wait for the arrays to settle end.
CallsReturn == \A t \in Threads : pc[t] # "idle" ~> pc[t] = "idle"
=============================================================================
