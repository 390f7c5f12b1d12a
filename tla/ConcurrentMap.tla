---------------------------- MODULE ConcurrentMap ----------------------------
(***************************************************************************)
(* concurrent_map: a skip list that only grows.  Every node is in the base *)
(* layer, and a random number of layers above it are shortcuts.            *)
(*                                                                         *)
(* One action is one access to a link that other threads may read.  A node *)
(* is private until the base link to it is swapped in, so what insert      *)
(* writes to it before belongs to that action.  Keys are numbers, compared *)
(* by std::less; the largest is the key of m_head, which is also the end.  *)
(* Accesses are sequentially consistent.                                   *)
(***************************************************************************)
EXTENDS Integers, FiniteSets

CONSTANTS
  Threads,
  Nodes,            \* the nodes m_pool can hand out
  m_head,
  Keys,
  MaxKey,           \* numeric_limits<key_type>::max(), reserved for m_head
  LinkTowerHeight,
  None

ASSUME KeysAssumption == Keys \subseteq Int /\ MaxKey \in Int /\ \A k \in Keys : k < MaxKey
ASSUME HeightAssumption == LinkTowerHeight \in Nat \ {0}
ASSUME NodesAssumption == m_head \notin Nodes /\ None \notin Nodes \cup {m_head}

Layers == 0 .. LinkTowerHeight - 1
Top == LinkTowerHeight - 1
AllNodes == Nodes \cup {m_head}

VARIABLES
  pool,       \* nodes that m_pool may hand out
  key,        \* m_kv.first of a node
  m_height,
  link,       \* m_linkViews: link[n][l]
  pc,         \* where a thread is: idle, find_slot, link_upper or find
  node,       \* the node a thread is about to insert
  sought,     \* the key it looks for
  layer,
  atSet,
  nextSet,
  itr,        \* the iterator the thread got last
  inserted    \* the second half of the last result of insert

shared == <<pool, key, m_height, link>>
vars == <<pool, key, m_height, link, pc, node, sought, layer, atSet, nextSet, itr, inserted>>

NoLinks == [l \in Layers |-> None]

Init ==
  /\ pool = Nodes
  /\ key = [n \in AllNodes |-> MaxKey]
  /\ m_height = [n \in AllNodes |-> LinkTowerHeight]
  /\ link = [n \in AllNodes |-> IF n = m_head THEN [l \in Layers |-> m_head] ELSE NoLinks]
  /\ pc = [t \in Threads |-> "idle"]
  /\ node = [t \in Threads |-> None]
  /\ sought = [t \in Threads |-> MaxKey]
  /\ layer = [t \in Threads |-> 0]
  /\ atSet = [t \in Threads |-> NoLinks]
  /\ nextSet = [t \in Threads |-> NoLinks]
  /\ itr = [t \in Threads |-> m_head]
  /\ inserted = [t \in Threads |-> FALSE]

-----------------------------------------------------------------------------
\* Nobody reads what a node holds while it is in the pool, so it is not kept.
Recycle(ns) ==
  /\ pool' = pool \cup ns
  /\ key' = [n \in AllNodes |-> IF n \in ns THEN MaxKey ELSE key[n]]
  /\ m_height' = [n \in AllNodes |-> IF n \in ns THEN LinkTowerHeight ELSE m_height[n]]

\* A search starts at the head, in the top layer.
StartSearch(t) ==
  /\ layer' = [layer EXCEPT ![t] = Top]
  /\ atSet' = [atSet EXCEPT ![t] = [NoLinks EXCEPT ![Top] = m_head]]
  /\ nextSet' = [nextSet EXCEPT ![t] = NoLinks]

\* insert: a node from the pool, of a random height.
Insert(t) ==
  /\ pc[t] = "idle"
  /\ \E n \in pool, k \in Keys, h \in 1 .. LinkTowerHeight :
       /\ pool' = pool \ {n}
       /\ key' = [key EXCEPT ![n] = k]
       /\ m_height' = [m_height EXCEPT ![n] = h]
       /\ node' = [node EXCEPT ![t] = n]
       /\ sought' = [sought EXCEPT ![t] = k]
  /\ pc' = [pc EXCEPT ![t] = "find_slot"]
  /\ StartSearch(t)
  /\ UNCHANGED <<link, itr, inserted>>

Find(t) ==
  /\ pc[t] = "idle"
  /\ \E k \in Keys : sought' = [sought EXCEPT ![t] = k]
  /\ pc' = [pc EXCEPT ![t] = "find"]
  /\ StartSearch(t)
  /\ UNCHANGED <<shared, node, itr, inserted>>

\* What a thread leaves on its stack when it returns.
Returns(t) ==
  /\ pc' = [pc EXCEPT ![t] = "idle"]
  /\ node' = [node EXCEPT ![t] = None]
  /\ sought' = [sought EXCEPT ![t] = MaxKey]
  /\ layer' = [layer EXCEPT ![t] = 0]
  /\ atSet' = [atSet EXCEPT ![t] = NoLinks]
  /\ nextSet' = [nextSet EXCEPT ![t] = NoLinks]

-----------------------------------------------------------------------------
\* One iteration of the loops of find_slot and find_internal: next is loaded, and
\* the search goes forward, goes down a layer, or ends.  find_slot remembers where
\* it went down, find_internal does not.
Searching(t) == pc[t] \in {"find_slot", "find"}
NextNode(t) == link[atSet[t][layer[t]]][layer[t]]
Remember(t) == IF pc[t] = "find_slot" THEN nextSet' = [nextSet EXCEPT ![t][layer[t]] = NextNode(t)]
                                      ELSE UNCHANGED nextSet

Forward(t) ==
  /\ Searching(t)
  /\ key[NextNode(t)] < sought[t]
  /\ atSet' = [atSet EXCEPT ![t][layer[t]] = NextNode(t)]
  /\ Remember(t)
  /\ UNCHANGED <<shared, pc, node, sought, layer, itr, inserted>>

Down(t) ==
  /\ Searching(t)
  /\ key[NextNode(t)] > sought[t]
  /\ layer[t] > 0
  /\ Remember(t)
  /\ LET seen == IF pc[t] = "find_slot" THEN atSet[t] ELSE NoLinks IN
     atSet' = [atSet EXCEPT ![t] = [seen EXCEPT ![layer[t] - 1] = atSet[t][layer[t]]]]
  /\ layer' = [layer EXCEPT ![t] = layer[t] - 1]
  /\ UNCHANGED <<shared, pc, node, sought, itr, inserted>>

\* The key is there: insert gives its node back to the pool.
Found(t) ==
  /\ Searching(t)
  /\ key[NextNode(t)] = sought[t]
  /\ itr' = [itr EXCEPT ![t] = NextNode(t)]
  /\ IF pc[t] = "find_slot"
       THEN /\ inserted' = [inserted EXCEPT ![t] = FALSE]
            /\ Recycle({node[t]})
       ELSE UNCHANGED <<inserted, pool, key, m_height>>
  /\ Returns(t)
  /\ UNCHANGED link

NotFound(t) ==
  /\ pc[t] = "find"
  /\ layer[t] = 0
  /\ key[NextNode(t)] > sought[t]
  /\ itr' = [itr EXCEPT ![t] = m_head]
  /\ Returns(t)
  /\ UNCHANGED <<shared, inserted>>

SlotFound(t) ==
  /\ pc[t] = "find_slot"
  /\ layer[t] = 0
  /\ key[NextNode(t)] > sought[t]
  /\ nextSet' = [nextSet EXCEPT ![t][0] = NextNode(t)]
  /\ pc' = [pc EXCEPT ![t] = "link_base"]
  /\ UNCHANGED <<shared, node, sought, layer, atSet, itr, inserted>>

-----------------------------------------------------------------------------
\* The links of the node are stored, and the base link to it is swapped in.
\* Mutant: the link is stored without looking whether it is still the one that
\* was read.
LinkBase_Blindly(t) ==
  LET n == node[t] IN
  /\ pc[t] = "link_base"
  /\ link' = [link EXCEPT ![n] = [l \in Layers |-> IF l < m_height[n] THEN nextSet[t][l]
                                                                    ELSE @[l]],
                          ![atSet[t][0]][0] = n]
  /\ inserted' = [inserted EXCEPT ![t] = TRUE]
  /\ itr' = [itr EXCEPT ![t] = n]
  /\ pc' = [pc EXCEPT ![t] = "link_upper"]
  /\ layer' = [layer EXCEPT ![t] = 1]
  /\ UNCHANGED <<pool, key, m_height, node, sought, atSet, nextSet>>

LinkBase(t) ==
  LET n == node[t] IN
  /\ pc[t] = "link_base"
  /\ link[atSet[t][0]][0] = nextSet[t][0]
  /\ link' = [link EXCEPT ![n] = [l \in Layers |-> IF l < m_height[n] THEN nextSet[t][l]
                                                                    ELSE @[l]],
                          ![atSet[t][0]][0] = n]
  /\ inserted' = [inserted EXCEPT ![t] = TRUE]
  /\ itr' = [itr EXCEPT ![t] = n]
  /\ pc' = [pc EXCEPT ![t] = "link_upper"]
  /\ layer' = [layer EXCEPT ![t] = 1]
  /\ UNCHANGED <<pool, key, m_height, node, sought, atSet, nextSet>>

\* Another node came in between: try_insert returns the end, and insert tries again.
TryAgain(t) ==
  /\ pc[t] = "link_base"
  /\ link[atSet[t][0]][0] # nextSet[t][0]
  /\ pc' = [pc EXCEPT ![t] = "find_slot"]
  /\ StartSearch(t)
  /\ UNCHANGED <<shared, node, sought, itr, inserted>>

\* Mutant: the loop goes on to the full height of a tower.
LinkUpper_FullHeight(t) ==
  /\ pc[t] = "link_upper"
  /\ layer[t] < LinkTowerHeight
  /\ IF link[atSet[t][layer[t]]][layer[t]] = nextSet[t][layer[t]]
       THEN link' = [link EXCEPT ![atSet[t][layer[t]]][layer[t]] = node[t]]
       ELSE UNCHANGED link
  /\ layer' = [layer EXCEPT ![t] = @ + 1]
  /\ UNCHANGED <<pool, key, m_height, pc, node, sought, atSet, nextSet, itr, inserted>>

\* A shortcut is given up when its link has changed.
LinkUpper(t) ==
  /\ pc[t] = "link_upper"
  /\ layer[t] < m_height[node[t]]
  /\ IF link[atSet[t][layer[t]]][layer[t]] = nextSet[t][layer[t]]
       THEN link' = [link EXCEPT ![atSet[t][layer[t]]][layer[t]] = node[t]]
       ELSE UNCHANGED link
  /\ layer' = [layer EXCEPT ![t] = @ + 1]
  /\ UNCHANGED <<pool, key, m_height, pc, node, sought, atSet, nextSet, itr, inserted>>

InsertReturns(t) ==
  /\ pc[t] = "link_upper"
  /\ layer[t] >= m_height[node[t]]
  /\ Returns(t)
  /\ UNCHANGED <<shared, itr, inserted>>

-----------------------------------------------------------------------------
Begin(t) ==
  /\ pc[t] = "idle"
  /\ itr' = [itr EXCEPT ![t] = link[m_head][0]]
  /\ UNCHANGED <<shared, pc, node, sought, layer, atSet, nextSet, inserted>>

Increment(t) ==
  /\ pc[t] = "idle"
  /\ itr[t] # m_head
  /\ itr' = [itr EXCEPT ![t] = link[itr[t]][0]]
  /\ UNCHANGED <<shared, pc, node, sought, layer, atSet, nextSet, inserted>>

\* Not concurrency safe: nobody is inside an operation or holds an iterator.  All
\* nodes go back to the pool.
UnsafeClear ==
  /\ \A t \in Threads : pc[t] = "idle"
  /\ Recycle(Nodes \ pool)
  /\ link' = [n \in AllNodes |-> IF n = m_head THEN [l \in Layers |-> m_head] ELSE NoLinks]
  /\ itr' = [t \in Threads |-> m_head]
  /\ UNCHANGED <<pc, node, sought, layer, atSet, nextSet, inserted>>

-----------------------------------------------------------------------------
Step(t) ==
  \/ Forward(t) \/ Down(t) \/ Found(t) \/ NotFound(t) \/ SlotFound(t)
  \/ LinkBase(t) \/ TryAgain(t) \/ LinkUpper(t) \/ InsertReturns(t)

Next ==
  \/ UnsafeClear
  \/ \E t \in Threads : Insert(t) \/ Find(t) \/ Begin(t) \/ Increment(t) \/ Step(t)

Spec == Init /\ [][Next]_vars

-----------------------------------------------------------------------------
\* The nodes of the base layer: those the pool has handed out and whose insertion
\* has taken effect.
Inserting(t) == pc[t] \in {"find_slot", "link_base"}
Linked == {n \in Nodes \ pool : \A t \in Threads : Inserting(t) => node[t] # n}

TypeOK ==
  /\ pool \subseteq Nodes
  /\ key \in [AllNodes -> Keys \cup {MaxKey}]
  /\ m_height \in [AllNodes -> 1 .. LinkTowerHeight]
  /\ link \in [AllNodes -> [Layers -> AllNodes \cup {None}]]
  /\ pc \in [Threads -> {"idle", "find_slot", "find", "link_base", "link_upper"}]
  /\ node \in [Threads -> Nodes \cup {None}]
  /\ sought \in [Threads -> Keys \cup {MaxKey}]
  /\ layer \in [Threads -> 0 .. LinkTowerHeight]
  /\ atSet \in [Threads -> [Layers -> AllNodes \cup {None}]]
  /\ nextSet \in [Threads -> [Layers -> AllNodes \cup {None}]]
  /\ itr \in [Threads -> AllNodes]
  /\ inserted \in [Threads -> BOOLEAN]

\* The map is what it promises to be, with all operations concurrent: an insert
\* takes effect when its base link is swapped in, of two inserts of one key only
\* one succeeds and both get the same node, a find misses only what is not there,
\* and an iterator never skips a key or sees one twice.
Map == INSTANCE OrderedMap WITH
         End <- MaxKey,
         contents <- {key[n] : n \in Linked},
         call <- [t \in Threads |->
                    [op |-> IF Inserting(t) THEN "insert"
                            ELSE IF pc[t] = "find" THEN "find" ELSE "none",
                     key |-> IF pc[t] = "link_upper" THEN MaxKey ELSE sought[t]]],
         position <- [t \in Threads |-> key[itr[t]]]
KeepsMap == Map!Spec

\* try_insert: a node that is linked in a layer above the base was linked below
\* first, and a shortcut leads past smaller keys only.  A shortcut that went
\* backwards, or to a node that is not in the map, would lose keys to a search.
ShortcutsLeadForward ==
  \A n \in Linked \cup {m_head} : \A l \in 0 .. m_height[n] - 1 :
    LET next == link[n][l] IN
    next = m_head \/ /\ next \in Linked
                     /\ m_height[next] > l
                     /\ n = m_head \/ key[n] < key[next]

=============================================================================
