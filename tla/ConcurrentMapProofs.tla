------------------------ MODULE ConcurrentMapProofs ------------------------
(***************************************************************************)
(* The base layer of concurrent_map is sorted, without gaps and without    *)
(* doubles, its shortcuts lead forward, and it implements OrderedMap, for  *)
(* every number of threads, nodes, keys and layers.                        *)
(***************************************************************************)
EXTENDS ConcurrentMap, TLAPS

-----------------------------------------------------------------------------
\* The nodes a search may be at.
On == Linked \cup {m_head}

Holding(t) == pc[t] \in {"find_slot", "link_base", "link_upper"}

\* Where a search for k may be in layer l, and where it may look ahead to.
Pred(n, l, k) == n \in On /\ m_height[n] > l /\ (n = m_head \/ key[n] < k)
Succ(n, l, k) == n \in On /\ m_height[n] > l /\ key[n] > k

HeadFacts == key[m_head] = MaxKey /\ m_height[m_head] = LinkTowerHeight

NodeFacts == \A n \in Nodes \ pool : key[n] \in Keys

ThreadFact(t) ==
  /\ pc[t] = "idle" => node[t] = None /\ sought[t] = MaxKey
  /\ pc[t] = "find" => node[t] = None
  /\ pc[t] # "idle" => sought[t] \in Keys
  /\ Holding(t) => node[t] \in Nodes \ pool /\ key[node[t]] = sought[t]
  /\ Searching(t) => layer[t] \in Layers
  /\ pc[t] = "link_upper" => layer[t] >= 1
ThreadFacts == \A t \in Threads : ThreadFact(t)

OwnNodes == \A t, u \in Threads : t # u /\ node[t] # None => node[t] # node[u]

\* What a thread knows of the layers that its search has left.
SearchFact(t) ==
  /\ Searching(t) => Pred(atSet[t][layer[t]], layer[t], sought[t])
  /\ Holding(t) =>
       \A l \in Layers :
         (pc[t] = "find_slot" => l > layer[t]) =>
           Pred(atSet[t][l], l, sought[t]) /\ Succ(nextSet[t][l], l, sought[t])
SearchFacts == \A t \in Threads : SearchFact(t)

ItrFacts == \A t \in Threads : itr[t] \in On

\* No key of the map is between a node and the next one.
Adjacent ==
  \A n \in On : \A m \in Linked :
    (n = m_head \/ key[n] < key[m]) => key[link[n][0]] <= key[m]

UniqueKeys == \A a, b \in Linked : key[a] = key[b] => a = b

Inv ==
  /\ TypeOK /\ HeadFacts /\ NodeFacts
  /\ ThreadFacts /\ OwnNodes /\ SearchFacts /\ ItrFacts
  /\ ShortcutsLeadForward /\ Adjacent /\ UniqueKeys

-----------------------------------------------------------------------------
\* Keys are smaller than the key of m_head.
LEMMA KeyFacts ==
  /\ MaxKey \notin Keys
  /\ \A k \in Keys : k \in Int /\ k < MaxKey
  /\ MaxKey \in Int
  /\ 0 \in Layers /\ Top \in Layers /\ LinkTowerHeight \in Nat \ {0}
  /\ m_head \in AllNodes /\ m_head \notin Nodes /\ m_head # None /\ None \notin Nodes /\ None \notin AllNodes
BY KeysAssumption, HeightAssumption, NodesAssumption DEF Layers, Top, AllNodes

\* An entry of a function of functions is replaced.
LEMMA EntryReplaced ==
  ASSUME NEW A, NEW B, NEW C, NEW f \in [A -> [B -> C]], NEW a \in A, NEW b, NEW c \in C
  PROVE  [f EXCEPT ![a][b] = c] \in [A -> [B -> C]]
OBVIOUS

\* What the types say of the nodes a search may be at.
LEMMA OnFacts ==
  ASSUME Inv
  PROVE  /\ Linked \subseteq Nodes \ pool
         /\ On \subseteq AllNodes
         /\ \A n \in On : key[n] \in Int /\ m_height[n] \in 1 .. LinkTowerHeight
         /\ \A n \in Linked : key[n] \in Keys /\ key[n] < MaxKey /\ n # m_head
BY KeyFacts, NodesAssumption, KeysAssumption
   DEF Inv, TypeOK, HeadFacts, NodeFacts, Linked, On, AllNodes

\* The node ahead of a search is one the search may go to.
LEMMA NextOn ==
  ASSUME Inv, NEW t \in Threads, Searching(t)
  PROVE  /\ atSet[t][layer[t]] \in On
         /\ NextNode(t) \in On
         /\ m_height[NextNode(t)] > layer[t]
         /\ layer[t] \in Layers
<1> DEFINE at == atSet[t][layer[t]]
<1>1. /\ layer[t] \in Layers
      /\ at \in On /\ m_height[at] > layer[t]
  BY DEF Inv, ThreadFacts, ThreadFact, SearchFacts, SearchFact, Pred
<1>2. layer[t] \in 0 .. m_height[at] - 1
  BY <1>1, OnFacts DEF Layers
<1>3. NextNode(t) = m_head \/ (NextNode(t) \in Linked /\ m_height[NextNode(t)] > layer[t])
  BY <1>1, <1>2 DEF Inv, ShortcutsLeadForward, On, NextNode
<1>4. m_height[m_head] > layer[t]
  BY <1>1, HeightAssumption DEF Inv, HeadFacts, Layers
<1> QED BY <1>1, <1>3, <1>4 DEF On

-----------------------------------------------------------------------------
LEMMA InitHolds == Init => Inv
<1> SUFFICES ASSUME Init PROVE Inv
  OBVIOUS
<1>1. Linked = {} /\ On = {m_head}
  BY DEF Init, Linked, On
<1>2. TypeOK
  BY KeyFacts, HeightAssumption DEF Init, TypeOK, NoLinks, AllNodes, Layers
<1>3. HeadFacts /\ NodeFacts
  BY KeyFacts DEF Init, HeadFacts, NodeFacts
<1>4. ThreadFacts /\ OwnNodes /\ SearchFacts
  BY DEF Init, ThreadFacts, ThreadFact, OwnNodes, SearchFacts, SearchFact, Holding, Searching
<1>5. ItrFacts
  BY <1>1 DEF Init, ItrFacts
<1>6. ShortcutsLeadForward
  BY <1>1, KeyFacts DEF Init, ShortcutsLeadForward, Layers
<1>7. Adjacent /\ UniqueKeys
  BY <1>1 DEF Adjacent, UniqueKeys
<1> QED BY <1>2, <1>3, <1>4, <1>5, <1>6, <1>7 DEF Inv

-----------------------------------------------------------------------------
\* Types.  What is not a simple assignment is the reading and writing of links.
LEMMA TypeStep ==
  ASSUME Inv, [Next]_vars
  PROVE  TypeOK'
<1> USE KeyFacts, HeightAssumption
<1>0. TypeOK
  BY DEF Inv
<1>1. CASE UNCHANGED vars
  BY <1>0, <1>1 DEF vars, TypeOK
<1>2. CASE UnsafeClear
  BY <1>0, <1>2 DEF UnsafeClear, Recycle, TypeOK, NoLinks, AllNodes, Layers
<1>3. ASSUME NEW t \in Threads, Insert(t) PROVE TypeOK'
  BY <1>0, <1>3 DEF Insert, StartSearch, TypeOK, NoLinks, AllNodes, Layers, Top
<1>4. ASSUME NEW t \in Threads, Find(t) PROVE TypeOK'
  BY <1>0, <1>4 DEF Find, shared, StartSearch, TypeOK, NoLinks, AllNodes, Layers, Top
<1>5. ASSUME NEW t \in Threads, Forward(t) PROVE TypeOK'
  <2>1. NextNode(t) \in AllNodes \cup {None}
    BY <1>5, NextOn, OnFacts DEF Forward
  <2>2. atSet' \in [Threads -> [Layers -> AllNodes \cup {None}]]
    BY <1>0, <1>5, <2>1 DEF Forward, TypeOK
  <2>3. nextSet' \in [Threads -> [Layers -> AllNodes \cup {None}]]
    <3>1. nextSet \in [Threads -> [Layers -> AllNodes \cup {None}]]
      BY <1>0 DEF TypeOK
    <3>2. [nextSet EXCEPT ![t][layer[t]] = NextNode(t)]
            \in [Threads -> [Layers -> AllNodes \cup {None}]]
      BY <2>1, <3>1, EntryReplaced
    <3> QED BY <1>5, <3>1, <3>2 DEF Forward, Remember
  <2> QED BY <1>0, <1>5, <2>2, <2>3 DEF Forward, shared, TypeOK
<1>6. ASSUME NEW t \in Threads, Down(t) PROVE TypeOK'
  <2>1. /\ NextNode(t) \in AllNodes \cup {None}
        /\ layer[t] \in Layers
        /\ atSet[t][layer[t]] \in AllNodes \cup {None}
    BY <1>6, NextOn, OnFacts DEF Down
  <2>2. atSet' \in [Threads -> [Layers -> AllNodes \cup {None}]]
    BY <1>0, <1>6, <2>1 DEF Down, TypeOK, NoLinks
  <2>3. nextSet' \in [Threads -> [Layers -> AllNodes \cup {None}]]
    <3>1. nextSet \in [Threads -> [Layers -> AllNodes \cup {None}]]
      BY <1>0 DEF TypeOK
    <3>2. [nextSet EXCEPT ![t][layer[t]] = NextNode(t)]
            \in [Threads -> [Layers -> AllNodes \cup {None}]]
      BY <2>1, <3>1, EntryReplaced
    <3> QED BY <1>6, <3>1, <3>2 DEF Down, Remember
  <2>4. layer' \in [Threads -> 0 .. LinkTowerHeight]
    BY <1>0, <1>6, <2>1 DEF Down, TypeOK, Layers
  <2> QED BY <1>0, <1>6, <2>2, <2>3, <2>4 DEF Down, shared, TypeOK
<1>7. ASSUME NEW t \in Threads, Found(t) PROVE TypeOK'
  <2>1. NextNode(t) \in AllNodes
    BY <1>7, NextOn, OnFacts DEF Found
  <2>2. pool' \subseteq Nodes /\ key' \in [AllNodes -> Keys \cup {MaxKey}]
        /\ m_height' \in [AllNodes -> 1 .. LinkTowerHeight]
    <3>1. CASE pc[t] = "find_slot"
      <4>1. node[t] \in Nodes
        BY <3>1 DEF Inv, ThreadFacts, ThreadFact, Holding
      <4>2. Recycle({node[t]})
        BY <1>7, <3>1 DEF Found
      <4>3. pool' \subseteq Nodes
        BY <1>0, <4>1, <4>2 DEF Recycle, TypeOK
      <4>4. key' \in [AllNodes -> Keys \cup {MaxKey}]
        BY <1>0, <4>2 DEF Recycle, TypeOK
      <4>5. m_height' \in [AllNodes -> 1 .. LinkTowerHeight]
        BY <1>0, <4>2 DEF Recycle, TypeOK
      <4> QED BY <4>3, <4>4, <4>5
    <3>2. CASE pc[t] # "find_slot"
      BY <1>0, <1>7, <3>2 DEF Found, TypeOK
    <3> QED BY <3>1, <3>2
  <2>3. /\ pc' \in [Threads -> {"idle", "find_slot", "find", "link_base", "link_upper"}]
        /\ node' \in [Threads -> Nodes \cup {None}]
        /\ sought' \in [Threads -> Keys \cup {MaxKey}]
        /\ layer' \in [Threads -> 0 .. LinkTowerHeight]
        /\ atSet' \in [Threads -> [Layers -> AllNodes \cup {None}]]
        /\ nextSet' \in [Threads -> [Layers -> AllNodes \cup {None}]]
    BY <1>0, <1>7 DEF Found, Returns, TypeOK, NoLinks
  <2>4. itr' \in [Threads -> AllNodes] /\ inserted' \in [Threads -> BOOLEAN]
    BY <1>0, <1>7, <2>1 DEF Found, TypeOK
  <2> QED BY <1>0, <1>7, <2>2, <2>3, <2>4 DEF Found, TypeOK
<1>8. ASSUME NEW t \in Threads, NotFound(t) PROVE TypeOK'
  BY <1>0, <1>8 DEF NotFound, shared, Returns, TypeOK, NoLinks
<1>9. ASSUME NEW t \in Threads, SlotFound(t) PROVE TypeOK'
  <2>1. NextNode(t) \in AllNodes \cup {None}
    BY <1>9, NextOn, OnFacts DEF SlotFound, Searching
  <2> QED BY <1>0, <1>9, <2>1 DEF SlotFound, shared, TypeOK
<1>10. ASSUME NEW t \in Threads, LinkBase(t) PROVE TypeOK'
  <2>1. node[t] \in Nodes /\ atSet[t][0] \in AllNodes
    BY <1>10, OnFacts DEF LinkBase, Inv, ThreadFacts, ThreadFact, SearchFacts, SearchFact, Holding, Pred
  <2>2. link' \in [AllNodes -> [Layers -> AllNodes \cup {None}]]
    <3> DEFINE row == [l \in Layers |-> IF l < m_height[node[t]] THEN nextSet[t][l]
                                                              ELSE link[node[t]][l]]
               stored == [link EXCEPT ![node[t]] = row]
    <3>1. row \in [Layers -> AllNodes \cup {None}]
      BY <1>0, <2>1 DEF TypeOK, AllNodes
    <3>2. stored \in [AllNodes -> [Layers -> AllNodes \cup {None}]]
      <4> HIDE DEF row
      <4> QED BY <1>0, <2>1, <3>1 DEF TypeOK
    <3>3. link' = [stored EXCEPT ![atSet[t][0]][0] = node[t]]
      BY <1>10 DEF LinkBase
    <3>4. node[t] \in AllNodes \cup {None}
      BY <2>1 DEF AllNodes
    <3> HIDE DEF stored
    <3> QED BY <2>1, <3>2, <3>3, <3>4, EntryReplaced
  <2>3. layer' \in [Threads -> 0 .. LinkTowerHeight]
    BY <1>0, <1>10 DEF LinkBase, TypeOK
  <2>4. itr' \in [Threads -> AllNodes] /\ inserted' \in [Threads -> BOOLEAN]
    BY <1>0, <1>10, <2>1 DEF LinkBase, TypeOK, AllNodes
  <2> QED BY <1>0, <1>10, <2>2, <2>3, <2>4 DEF LinkBase, TypeOK
<1>11. ASSUME NEW t \in Threads, TryAgain(t) PROVE TypeOK'
  BY <1>0, <1>11 DEF TryAgain, shared, StartSearch, TypeOK, NoLinks, AllNodes, Layers, Top
<1>12. ASSUME NEW t \in Threads, LinkUpper(t) PROVE TypeOK'
  <2>1. node[t] \in Nodes /\ layer[t] \in Nat
    BY <1>0, <1>12 DEF LinkUpper, Inv, ThreadFacts, ThreadFact, Holding, TypeOK
  <2>2. layer' \in [Threads -> 0 .. LinkTowerHeight]
    BY <1>0, <1>12, <2>1 DEF LinkUpper, TypeOK, AllNodes
  <2>3. link' \in [AllNodes -> [Layers -> AllNodes \cup {None}]]
    <3>1. layer[t] \in Layers
      <4>1. layer[t] < m_height[node[t]] /\ m_height[node[t]] \in 1 .. LinkTowerHeight
        BY <1>0, <1>12, <2>1 DEF LinkUpper, TypeOK, AllNodes
      <4> QED BY <2>1, <4>1 DEF Layers
    <3>2. atSet[t][layer[t]] \in AllNodes
      BY <1>12, <3>1, OnFacts DEF LinkUpper, Inv, SearchFacts, SearchFact, Holding, Pred
    <3>3. link \in [AllNodes -> [Layers -> AllNodes \cup {None}]]
      BY <1>0 DEF TypeOK
    <3>4. node[t] \in AllNodes \cup {None}
      BY <2>1 DEF AllNodes
    <3>5. [link EXCEPT ![atSet[t][layer[t]]][layer[t]] = node[t]]
            \in [AllNodes -> [Layers -> AllNodes \cup {None}]]
      BY <3>2, <3>3, <3>4, EntryReplaced
    <3> QED BY <1>12, <3>3, <3>5 DEF LinkUpper
  <2> QED BY <1>0, <1>12, <2>2, <2>3 DEF LinkUpper, TypeOK
<1>13. ASSUME NEW t \in Threads, InsertReturns(t) PROVE TypeOK'
  BY <1>0, <1>13 DEF InsertReturns, shared, Returns, TypeOK, NoLinks
<1>14. ASSUME NEW t \in Threads, Begin(t) PROVE TypeOK'
  <2>1. link[m_head][0] \in AllNodes
    BY OnFacts DEF Inv, ShortcutsLeadForward, HeadFacts, On
  <2> QED BY <1>0, <1>14, <2>1 DEF Begin, shared, TypeOK
<1>15. ASSUME NEW t \in Threads, Increment(t) PROVE TypeOK'
  <2>1. itr[t] \in On /\ 0 \in 0 .. m_height[itr[t]] - 1
    BY OnFacts DEF Inv, ItrFacts
  <2>2. link[itr[t]][0] \in AllNodes
    BY <2>1, OnFacts DEF Inv, ShortcutsLeadForward, On
  <2> QED BY <1>0, <1>15, <2>2 DEF Increment, shared, TypeOK
<1> QED
  BY <1>1, <1>2, <1>3, <1>4, <1>5, <1>6, <1>7, <1>8, <1>9, <1>10, <1>11, <1>12, <1>13, <1>14,
     <1>15 DEF Next, Step

-----------------------------------------------------------------------------
\* Steps that neither write a link nor take or return a node.
Looks(t) ==
  \/ Find(t) \/ Forward(t) \/ Down(t) \/ NotFound(t) \/ SlotFound(t) \/ TryAgain(t)
  \/ InsertReturns(t) \/ Begin(t) \/ Increment(t)

\* The nodes of the map stay as they are.
Keeps == \A n \in On : key'[n] = key[n] /\ m_height'[n] = m_height[n]

\* A thread's node is out of the pool, and None when it has none.
LEMMA NodeOf ==
  ASSUME Inv, NEW t \in Threads
  PROVE  /\ node[t] = None \/ (Holding(t) /\ node[t] \in Nodes \ pool)
         /\ Holding(t) => node[t] # None
BY KeyFacts DEF Inv, TypeOK, ThreadFacts, ThreadFact, Holding

\* What was looked at is the same, and so is the map.
LEMMA LooksKeeps ==
  ASSUME Inv, NEW t \in Threads, Looks(t)
  PROVE  UNCHANGED shared /\ Linked' = Linked /\ Keeps /\ UNCHANGED inserted
<1>1. /\ UNCHANGED shared /\ UNCHANGED inserted
  BY DEF Looks, Find, Forward, Down, NotFound, SlotFound, TryAgain, InsertReturns, Begin,
         Increment, shared
<1>2. \A u \in Threads : (Inserting(u)' <=> Inserting(u)) /\ (Inserting(u) => node'[u] = node[u])
  <2> SUFFICES ASSUME NEW u \in Threads
               PROVE  (Inserting(u)' <=> Inserting(u)) /\ (Inserting(u) => node'[u] = node[u])
    OBVIOUS
  <2>1. CASE Find(t) \/ NotFound(t) \/ InsertReturns(t)
    BY <2>1 DEF Inv, TypeOK, Find, NotFound, InsertReturns, Returns, Inserting
  <2>2. CASE SlotFound(t) \/ TryAgain(t)
    BY <2>2 DEF Inv, TypeOK, SlotFound, TryAgain, Inserting
  <2>3. CASE Forward(t) \/ Down(t) \/ Begin(t) \/ Increment(t)
    BY <2>3 DEF Forward, Down, Begin, Increment, Inserting
  <2> QED BY <2>1, <2>2, <2>3 DEF Looks
<1>3. Linked' = Linked
  BY <1>1, <1>2 DEF Linked, shared
<1> QED BY <1>1, <1>3 DEF Keeps, shared

LEMMA InsertKeeps ==
  ASSUME Inv, NEW t \in Threads, Insert(t)
  PROVE  /\ Linked' = Linked /\ Keeps
         /\ node'[t] \in pool /\ key'[node'[t]] = sought'[t] /\ sought'[t] \in Keys
         /\ \A n \in Nodes \ pool : key'[n] = key[n]
         /\ pool' = pool \ {node'[t]}
<1>1. PICK n \in pool, k \in Keys, h \in 1 .. LinkTowerHeight :
        /\ pool' = pool \ {n}
        /\ key' = [key EXCEPT ![n] = k]
        /\ m_height' = [m_height EXCEPT ![n] = h]
        /\ node' = [node EXCEPT ![t] = n]
        /\ sought' = [sought EXCEPT ![t] = k]
  BY DEF Insert
<1>2. /\ node'[t] = n /\ sought'[t] = k /\ key'[n] = k
      /\ \A u \in Threads \ {t} : node'[u] = node[u] /\ pc'[u] = pc[u]
      /\ pc[t] = "idle" /\ pc'[t] = "find_slot"
  BY <1>1, KeyFacts DEF Inv, TypeOK, Insert, AllNodes
<1>3. Linked' = Linked
  <2>1. ASSUME NEW m \in Linked PROVE m \in Linked'
    BY <1>1, <1>2, <2>1 DEF Inv, TypeOK, Linked, Inserting
  <2>2. ASSUME NEW m \in Linked' PROVE m \in Linked
    <3>1. m # n /\ m \in Nodes \ pool
      BY <1>1, <1>2, <2>2 DEF Linked, Inserting
    <3>2. \A u \in Threads : Inserting(u) => node[u] # m
      BY <1>2, <2>2 DEF Linked, Inserting
    <3> QED BY <3>1, <3>2 DEF Linked
  <2> QED BY <2>1, <2>2
<1>4. Keeps
  <2>1. n \notin On /\ On \subseteq AllNodes
    BY <1>1, OnFacts, KeyFacts DEF Inv, TypeOK, On
  <2>2. key \in [AllNodes -> Keys \cup {MaxKey}] /\ m_height \in [AllNodes -> 1 .. LinkTowerHeight]
    BY DEF Inv, TypeOK
  <2> QED BY <1>1, <2>1, <2>2 DEF Keeps
<1>5. \A m \in Nodes \ pool : key'[m] = key[m]
  BY <1>1 DEF Inv, TypeOK, AllNodes
<1> QED BY <1>1, <1>2, <1>3, <1>4, <1>5

LEMMA FoundKeeps ==
  ASSUME Inv, NEW t \in Threads, Found(t)
  PROVE  /\ Linked' = Linked /\ Keeps /\ link' = link
         /\ \A n \in Nodes \ pool' : n \in Nodes \ pool /\ key'[n] = key[n]
         /\ \A n \in Nodes \ pool : n # node[t] => n \in Nodes \ pool'
<1>1. /\ \A u \in Threads \ {t} : node'[u] = node[u] /\ pc'[u] = pc[u]
      /\ Searching(t) /\ pc'[t] = "idle" /\ link' = link
  BY DEF Inv, TypeOK, Found, Returns
<1>2. CASE pc[t] = "find_slot"
  <2>1. /\ pool' = pool \cup {node[t]}
        /\ \A n \in AllNodes \ {node[t]} : key'[n] = key[n] /\ m_height'[n] = m_height[n]
    BY <1>2 DEF Found, Recycle
  <2>2. Linked' = Linked
    <3>1. ASSUME NEW m \in Linked PROVE m \in Linked'
      BY <1>1, <1>2, <2>1 DEF Linked, Inserting
    <3>2. ASSUME NEW m \in Linked' PROVE m \in Linked
      BY <1>1, <2>1, <3>2 DEF Linked, Inserting
    <3> QED BY <3>1, <3>2
  <2>3. node[t] \notin On
    <3>1. node[t] # m_head
      BY <1>2, NodeOf, KeyFacts DEF Holding
    <3> QED BY <1>2, <3>1 DEF On, Linked, Inserting
  <2> QED BY <1>1, <2>1, <2>2, <2>3, OnFacts DEF Keeps, AllNodes
<1>3. CASE pc[t] # "find_slot"
  <2>1. UNCHANGED <<pool, key, m_height>> /\ ~Inserting(t)
    BY <1>1, <1>3 DEF Found, Searching, Inserting
  <2>2. Linked' = Linked
    BY <1>1, <2>1 DEF Linked, Inserting
  <2> QED BY <1>1, <2>1, <2>2 DEF Keeps
<1> QED BY <1>2, <1>3

LEMMA LinkUpperKeeps ==
  ASSUME Inv, NEW t \in Threads, LinkUpper(t)
  PROVE  Linked' = Linked /\ Keeps
BY DEF LinkUpper, Linked, Inserting, Keeps

LEMMA LinkBaseAdds ==
  ASSUME Inv, NEW t \in Threads, LinkBase(t)
  PROVE  Linked' = Linked \cup {node[t]} /\ node[t] \notin On /\ Keeps
<1>1. /\ \A u \in Threads \ {t} : node'[u] = node[u] /\ pc'[u] = pc[u]
      /\ pc[t] = "link_base" /\ pc'[t] = "link_upper" /\ UNCHANGED <<pool, key, m_height>>
  BY DEF Inv, TypeOK, LinkBase
<1>2. node[t] \in Nodes \ pool /\ node[t] # m_head /\ node[t] # None
  BY <1>1, NodeOf, KeyFacts, NodesAssumption DEF Holding
<1>3. node[t] \notin On
  BY <1>1, <1>2 DEF On, Linked, Inserting
<1>4. node[t] \in Linked'
  <2>1. \A u \in Threads \ {t} : node[u] # node[t]
    BY <1>2 DEF Inv, OwnNodes
  <2> QED BY <1>1, <1>2, <2>1 DEF Linked, Inserting
<1>5. Linked \subseteq Linked'
  BY <1>1 DEF Linked, Inserting
<1>6. ASSUME NEW m \in Linked', m # node[t] PROVE m \in Linked
  BY <1>1, <1>6 DEF Linked, Inserting
<1> QED BY <1>1, <1>3, <1>4, <1>5, <1>6 DEF Keeps

LEMMA ClearEmpties ==
  ASSUME Inv, UnsafeClear
  PROVE  Linked' = {} /\ pool' = Nodes /\ key'[m_head] = key[m_head]
         /\ m_height'[m_head] = m_height[m_head]
BY KeyFacts, NodesAssumption DEF Inv, TypeOK, UnsafeClear, Recycle, Linked

-----------------------------------------------------------------------------
\* The map: its keys, its shortcuts and the order of its base layer.
MapFacts == HeadFacts /\ NodeFacts /\ ShortcutsLeadForward /\ Adjacent /\ UniqueKeys

\* With no link written, a map that keeps its nodes stays a map.
LEMMA NoLinkWritten ==
  ASSUME Inv, Linked' = Linked, Keeps, link' = link, NodeFacts'
  PROVE  MapFacts'
<1>1. On' = On /\ m_head \in On
  BY DEF On
<1>2. HeadFacts'
  BY <1>1 DEF Inv, HeadFacts, Keeps
<1>3. ShortcutsLeadForward'
  <2> SUFFICES ASSUME NEW n \in On, NEW l \in 0 .. m_height[n] - 1
               PROVE  \/ link[n][l] = m_head
                      \/ /\ link[n][l] \in Linked
                         /\ m_height'[link[n][l]] > l
                         /\ n = m_head \/ key'[n] < key'[link[n][l]]
    BY <1>1 DEF ShortcutsLeadForward, On, Keeps
  <2> QED BY DEF Inv, ShortcutsLeadForward, On, Keeps
<1>4. Adjacent'
  <2> SUFFICES ASSUME NEW n \in On, NEW m \in Linked, n = m_head \/ key[n] < key[m]
               PROVE  key'[link[n][0]] <= key'[m]
    BY <1>1 DEF Adjacent, Keeps, On
  <2>1. link[n][0] \in On
    BY OnFacts DEF Inv, ShortcutsLeadForward, On
  <2> QED BY <2>1 DEF Inv, Adjacent, Keeps, On
<1>5. UniqueKeys'
  BY DEF Inv, UniqueKeys, Keeps, On
<1> QED BY <1>2, <1>3, <1>4, <1>5 DEF MapFacts

\* What a thread knows when it swaps the base link: the key of its node is between
\* two nodes that are next to each other, so the map does not hold it.
LEMMA SlotFacts ==
  ASSUME Inv, NEW t \in Threads, LinkBase(t)
  PROVE  LET n == node[t]  at == atSet[t][0]  s == link[at][0] IN
         /\ at \in On /\ s \in On /\ s = nextSet[t][0]
         /\ n \in Nodes \ pool /\ key[n] \in Int /\ key[n] = sought[t]
         /\ at = m_head \/ key[at] < key[n]
         /\ key[n] < key[s]
         /\ \A m \in Linked : key[m] \in Int /\ key[m] # key[n]
<1> DEFINE n == node[t]
           at == atSet[t][0]
           s == link[at][0]
<1>1. pc[t] = "link_base" /\ s = nextSet[t][0]
  BY DEF LinkBase
<1>2. n \in Nodes \ pool /\ key[n] = sought[t] /\ sought[t] \in Keys
  BY <1>1 DEF Inv, ThreadFacts, ThreadFact, Holding
<1>3. Pred(at, 0, key[n]) /\ Succ(s, 0, key[n])
  BY <1>1, <1>2, KeyFacts DEF Inv, SearchFacts, SearchFact, Holding
<1>4. key[n] \in Int
  BY <1>2, KeyFacts
<1>5. ASSUME NEW m \in Linked PROVE key[m] \in Int /\ key[m] # key[n]
  <2>1. key[m] \in Int /\ key[s] \in Int
    BY <1>3, OnFacts, KeyFacts DEF Succ
  <2>2. CASE key[m] = key[n]
    <3>1. key[s] <= key[m]
      BY <1>3, <2>2 DEF Inv, Adjacent, Pred
    <3> QED BY <1>3, <1>4, <2>1, <2>2, <3>1 DEF Succ
  <2> QED BY <2>1, <2>2
<1> QED BY <1>1, <1>2, <1>3, <1>4, <1>5 DEF Pred, Succ

\* The links of a node that enters the map.
LEMMA LinkBaseLinks ==
  ASSUME Inv, NEW t \in Threads, LinkBase(t)
  PROVE  LET n == node[t]  at == atSet[t][0] IN
         /\ link'[at][0] = n
         /\ \A l \in Layers : l < m_height[n] => link'[n][l] = nextSet[t][l]
         /\ \A q \in On : \A l \in Layers : q # at \/ l # 0 => link'[q][l] = link[q][l]
<1> DEFINE n == node[t]
           at == atSet[t][0]
           row == [l \in Layers |-> IF l < m_height[n] THEN nextSet[t][l] ELSE link[n][l]]
           stored == [link EXCEPT ![n] = row]
<1>1. link' = [stored EXCEPT ![at][0] = n]
  BY DEF LinkBase
<1>2. at \in On /\ n \notin On /\ On \subseteq AllNodes /\ n \in AllNodes
  BY SlotFacts, LinkBaseAdds, OnFacts DEF AllNodes
<1>3. link \in [AllNodes -> [Layers -> AllNodes \cup {None}]] /\ 0 \in Layers
  BY KeyFacts DEF Inv, TypeOK
<1>4. row \in [Layers -> AllNodes \cup {None}]
  BY <1>2, <1>3 DEF Inv, TypeOK
<1>5. stored \in [AllNodes -> [Layers -> AllNodes \cup {None}]]
      /\ stored[n] = row /\ \A q \in On : stored[q] = link[q]
  <2> HIDE DEF row
  <2> QED BY <1>2, <1>3, <1>4
<1>6. \A l \in Layers : l < m_height[n] => row[l] = nextSet[t][l]
  OBVIOUS
<1> HIDE DEF stored, row
<1>7. /\ link'[at][0] = n
      /\ link'[n] = stored[n]
      /\ \A q \in On : \A l \in Layers : q # at \/ l # 0 => link'[q][l] = stored[q][l]
  BY <1>1, <1>2, <1>3, <1>5
<1> QED BY <1>5, <1>6, <1>7

LEMMA LinkBaseMap ==
  ASSUME Inv, NEW t \in Threads, LinkBase(t)
  PROVE  MapFacts'
<1> DEFINE n == node[t]
           at == atSet[t][0]
           s == link[at][0]
<1>1. /\ at \in On /\ s \in On /\ s = nextSet[t][0]
      /\ n \in Nodes \ pool /\ key[n] \in Int /\ key[n] = sought[t]
      /\ at = m_head \/ key[at] < key[n]
      /\ key[n] < key[s]
      /\ \A m \in Linked : key[m] \in Int /\ key[m] # key[n]
  BY SlotFacts
<1>2. Linked' = Linked \cup {n} /\ On' = On \cup {n} /\ n \notin On /\ UNCHANGED <<pool, key, m_height>>
  BY LinkBaseAdds DEF On, LinkBase
<1>3. /\ link'[at][0] = n
      /\ \A l \in Layers : l < m_height[n] => link'[n][l] = nextSet[t][l]
      /\ \A q \in On : \A l \in Layers : q # at \/ l # 0 => link'[q][l] = link[q][l]
  BY LinkBaseLinks
<1>4. /\ \A q \in On : key[q] \in Int /\ m_height[q] \in 1 .. LinkTowerHeight
      /\ m_height[n] \in 1 .. LinkTowerHeight /\ m_head \notin Linked
  BY <1>1, OnFacts DEF Inv, TypeOK, AllNodes
<1> HIDE DEF n, at, s
<1>5. HeadFacts' /\ NodeFacts'
  BY <1>2 DEF Inv, HeadFacts, NodeFacts
<1>6. ShortcutsLeadForward'
  <2> SUFFICES ASSUME NEW q \in On', NEW l \in 0 .. m_height[q] - 1
               PROVE  \/ link'[q][l] = m_head
                      \/ /\ link'[q][l] \in Linked'
                         /\ m_height[link'[q][l]] > l
                         /\ q = m_head \/ key[q] < key[link'[q][l]]
    BY <1>2 DEF ShortcutsLeadForward, On
  <2>1. l \in Layers /\ l < m_height[q]
    BY <1>2, <1>4, HeightAssumption DEF Layers
  <2>2. CASE q = n
    <3>1. Succ(nextSet[t][l], l, sought[t])
      BY <2>1 DEF Inv, SearchFacts, SearchFact, Holding, LinkBase
    <3> QED BY <1>1, <1>2, <1>3, <2>1, <2>2, <3>1 DEF Succ, On
  <2>3. CASE q = at /\ l = 0
    BY <1>1, <1>2, <1>3, <1>4, <2>3
  <2>4. CASE q \in On /\ (q # at \/ l # 0)
    BY <1>2, <1>3, <2>1, <2>4 DEF Inv, ShortcutsLeadForward, On
  <2> QED BY <1>2, <2>2, <2>3, <2>4
<1>7. Adjacent'
  <2> SUFFICES ASSUME NEW q \in On', NEW m \in Linked', q = m_head \/ key[q] < key[m]
               PROVE  key[link'[q][0]] <= key[m]
    BY <1>2 DEF Adjacent
  <2>0. 0 \in Layers /\ \A r \in On : r \in Linked \/ r = m_head
    BY KeyFacts DEF On
  <2>1. \A r \in On : \A p \in Linked : (r = m_head \/ key[r] < key[p]) => key[link[r][0]] <= key[p]
    BY DEF Inv, Adjacent
  <2>2. CASE q = n
    <3>1. m \in Linked /\ link'[q][0] = s /\ n # m_head
      BY <1>1, <1>2, <1>3, <1>4, <2>0, <2>2 DEF On
    <3>2. key[s] <= key[m]
      <4>1. at = m_head \/ key[at] < key[m]
        BY <1>1, <1>4, <2>2, <3>1
      <4> QED BY <1>1, <2>1, <3>1, <4>1 DEF s
    <3> QED BY <3>1, <3>2
  <2>3. CASE q = at
    <3>1. link'[q][0] = n
      BY <1>3, <2>3
    <3>2. CASE m = n
      BY <1>1, <3>1, <3>2
    <3>3. CASE m \in Linked
      <4>1. key[s] <= key[m]
        BY <1>1, <2>1, <2>3, <3>3 DEF s
      <4> QED BY <1>1, <1>4, <3>1, <3>3, <4>1
    <3> QED BY <1>2, <3>2, <3>3
  <2>4. CASE q \in On /\ q # at
    <3>1. link'[q][0] = link[q][0] /\ link[q][0] \in On
      BY <1>3, <1>4, <2>0, <2>4 DEF Inv, ShortcutsLeadForward, On
    <3>2. CASE m \in Linked
      BY <2>1, <2>4, <3>1, <3>2
    <3>3. CASE m = n
      <4>1. CASE q = m_head
        <5>1. at \in Linked
          BY <1>1, <2>0, <2>4, <4>1
        <5>2. key[link[q][0]] <= key[at]
          BY <2>1, <2>4, <4>1, <5>1
        <5> QED BY <1>1, <1>4, <2>4, <3>1, <3>3, <4>1, <5>2
      <4>2. CASE q # m_head
        <5>1. q \in Linked /\ key[q] < key[n]
          BY <2>0, <2>4, <3>3, <4>2
        <5>2. ~ (at = m_head \/ key[at] < key[q])
          <6>1. ASSUME at = m_head \/ key[at] < key[q] PROVE FALSE
            <7>1. key[s] <= key[q]
              BY <1>1, <2>1, <5>1, <6>1 DEF s
            <7> QED BY <1>1, <1>4, <5>1, <7>1
          <6> QED BY <6>1
        <5>3. at \in Linked /\ key[at] # key[q]
          BY <1>1, <2>0, <2>4, <5>1, <5>2 DEF Inv, UniqueKeys
        <5>4. key[q] < key[at]
          BY <1>1, <1>4, <2>4, <5>2, <5>3
        <5>5. key[link[q][0]] <= key[at]
          BY <2>1, <2>4, <5>3, <5>4
        <5> QED BY <1>1, <1>4, <3>1, <3>3, <5>2, <5>5
      <4> QED BY <4>1, <4>2
    <3> QED BY <1>2, <3>2, <3>3
  <2> QED BY <1>2, <2>2, <2>3, <2>4
<1>8. UniqueKeys'
  BY <1>1, <1>2 DEF Inv, UniqueKeys
<1> QED BY <1>5, <1>6, <1>7, <1>8 DEF MapFacts

\* A shortcut is swapped in above the base layer, and leads to a larger key.
LEMMA LinkUpperMap ==
  ASSUME Inv, NEW t \in Threads, LinkUpper(t)
  PROVE  MapFacts'
<1> DEFINE n == node[t]
           l == layer[t]
           at == atSet[t][l]
<1>1. Linked' = Linked /\ Keeps /\ UNCHANGED <<pool, key, m_height>> /\ On' = On
  BY LinkUpperKeeps DEF On, LinkUpper
<1>2. pc[t] = "link_upper" /\ l < m_height[n]
  BY DEF LinkUpper
<1>3. n \in Nodes \ pool /\ key[n] = sought[t] /\ l >= 1 /\ l \in Nat
  BY <1>2 DEF Inv, TypeOK, ThreadFacts, ThreadFact, Holding
<1>4. m_height[n] \in 1 .. LinkTowerHeight /\ l \in Layers
  <2>1. m_height[n] \in 1 .. LinkTowerHeight
    BY <1>3 DEF Inv, TypeOK, AllNodes
  <2> QED BY <1>2, <1>3, <2>1, HeightAssumption DEF Layers
<1>5. n \in Linked
  <2>1. \A u \in Threads : Inserting(u) => node[u] # n
    BY <1>2, <1>3, KeyFacts DEF Inserting, Inv, OwnNodes
  <2> QED BY <1>3, <2>1 DEF Linked
<1>6. Pred(at, l, key[n])
  BY <1>2, <1>3, <1>4 DEF Inv, SearchFacts, SearchFact, Holding
<1>7. \A q \in On : \A h \in Layers :
        \/ link'[q][h] = link[q][h]
        \/ q = at /\ h = l /\ link'[q][h] = n
  <2>1. link \in [AllNodes -> [Layers -> AllNodes \cup {None}]] /\ On \subseteq AllNodes
    BY OnFacts DEF Inv, TypeOK
  <2>2. link' = link \/ link' = [link EXCEPT ![at][l] = n]
    BY DEF LinkUpper
  <2> HIDE DEF n, at, l
  <2> QED BY <1>4, <2>1, <2>2
<1> HIDE DEF n, at, l
<1>8. HeadFacts' /\ NodeFacts' /\ UniqueKeys'
  BY <1>1 DEF Inv, HeadFacts, NodeFacts, UniqueKeys
<1>9. ShortcutsLeadForward'
  <2> SUFFICES ASSUME NEW q \in On, NEW h \in 0 .. m_height[q] - 1
               PROVE  \/ link'[q][h] = m_head
                      \/ /\ link'[q][h] \in Linked
                         /\ m_height[link'[q][h]] > h
                         /\ q = m_head \/ key[q] < key[link'[q][h]]
    BY <1>1 DEF ShortcutsLeadForward, On
  <2>1. h \in Layers
    BY OnFacts, HeightAssumption DEF Layers
  <2>2. CASE link'[q][h] = link[q][h]
    BY <2>2 DEF Inv, ShortcutsLeadForward, On
  <2>3. CASE q = at /\ h = l /\ link'[q][h] = n
    BY <1>2, <1>4, <1>5, <1>6, <2>3 DEF Pred, n, l
  <2> QED BY <1>7, <2>1, <2>2, <2>3
<1>10. Adjacent'
  <2>1. \A q \in On : link'[q][0] = link[q][0]
    BY <1>3, <1>7, KeyFacts
  <2> QED BY <1>1, <2>1 DEF Inv, Adjacent
<1> QED BY <1>8, <1>9, <1>10 DEF MapFacts

LEMMA ClearMap ==
  ASSUME Inv, UnsafeClear
  PROVE  MapFacts'
<1>1. Linked' = {} /\ On' = {m_head}
  BY ClearEmpties DEF On
<1>2. HeadFacts' /\ NodeFacts'
  BY ClearEmpties DEF Inv, HeadFacts, NodeFacts
<1>3. \A l \in Layers : link'[m_head][l] = m_head
  BY KeyFacts DEF UnsafeClear
<1>4. ShortcutsLeadForward'
  <2>1. \A l \in 0 .. m_height'[m_head] - 1 : link'[m_head][l] = m_head
    BY <1>2, <1>3 DEF HeadFacts, Layers
  <2> QED BY <1>1, <2>1 DEF ShortcutsLeadForward
<1>5. Adjacent' /\ UniqueKeys'
  BY <1>1 DEF Adjacent, UniqueKeys
<1> QED BY <1>2, <1>4, <1>5 DEF MapFacts

LEMMA MapStep ==
  ASSUME Inv, [Next]_vars
  PROVE  MapFacts'
<1>1. CASE UNCHANGED vars
  <2>1. Linked' = Linked /\ Keeps /\ link' = link /\ NodeFacts'
    BY <1>1 DEF vars, Linked, Inserting, Keeps, Inv, NodeFacts
  <2> QED BY <2>1, NoLinkWritten
<1>2. CASE UnsafeClear
  BY <1>2, ClearMap
<1>3. ASSUME NEW t \in Threads, Insert(t) PROVE MapFacts'
  <2>1. NodeFacts'
    BY <1>3, InsertKeeps DEF Inv, NodeFacts
  <2>2. link' = link
    BY <1>3 DEF Insert
  <2> QED BY <1>3, <2>1, <2>2, InsertKeeps, NoLinkWritten
<1>4. ASSUME NEW t \in Threads, Looks(t) PROVE MapFacts'
  <2>1. NodeFacts' /\ link' = link
    BY <1>4, LooksKeeps DEF Inv, NodeFacts, shared
  <2> QED BY <1>4, <2>1, LooksKeeps, NoLinkWritten
<1>5. ASSUME NEW t \in Threads, Found(t) PROVE MapFacts'
  <2>1. NodeFacts'
    BY <1>5, FoundKeeps DEF Inv, NodeFacts
  <2> QED BY <1>5, <2>1, FoundKeeps, NoLinkWritten
<1> QED
  BY <1>1, <1>2, <1>3, <1>4, <1>5, LinkBaseMap, LinkUpperMap DEF Next, Step, Looks

-----------------------------------------------------------------------------
\* The threads.
Knows(t) == ThreadFact(t) /\ SearchFact(t) /\ itr[t] \in On

\* What the other threads know is not disturbed by a step of t.
LEMMA OthersKnow ==
  ASSUME Inv, NEW t \in Threads, Linked \subseteq Linked', Keeps,
         \A n \in Nodes \ pool : n # node[t] => n \in Nodes \ pool' /\ key'[n] = key[n],
         NEW u \in Threads, u # t,
         UNCHANGED <<pc[u], node[u], sought[u], layer[u], atSet[u], nextSet[u], itr[u]>>
  PROVE  Knows(u)'
<1>1. On \subseteq On'
  BY DEF On
<1>2. \A n, l, k : /\ Pred(n, l, k) => Pred(n, l, k)'
                   /\ Succ(n, l, k) => Succ(n, l, k)'
  BY <1>1 DEF Pred, Succ, Keeps
<1>3. SearchFact(u)'
  BY <1>2 DEF Inv, SearchFacts, SearchFact, Searching, Holding
<1>4. Holding(u) => node[u] # node[t]
  BY NodeOf DEF Inv, OwnNodes
<1>5. ThreadFact(u)'
  BY <1>4 DEF Inv, ThreadFacts, ThreadFact, Searching, Holding
<1>6. itr'[u] \in On'
  BY <1>1 DEF Inv, ItrFacts
<1> QED BY <1>3, <1>5, <1>6 DEF Knows

\* A step of t changes nothing of another thread.
LEMMA OthersStay ==
  ASSUME TypeOK, NEW t \in Threads,
         Insert(t) \/ Find(t) \/ Begin(t) \/ Increment(t) \/ Step(t)
  PROVE  \A u \in Threads \ {t} :
           UNCHANGED <<pc[u], node[u], sought[u], layer[u], atSet[u], nextSet[u], itr[u]>>
<1>1. CASE Insert(t) \/ Find(t) \/ TryAgain(t)
  BY <1>1 DEF TypeOK, Insert, Find, TryAgain, StartSearch
<1>2. CASE Begin(t) \/ Increment(t) \/ SlotFound(t) \/ LinkBase(t) \/ LinkUpper(t)
  BY <1>2 DEF TypeOK, Begin, Increment, SlotFound, LinkBase, LinkUpper
<1>3. CASE Forward(t) \/ Down(t)
  BY <1>3 DEF TypeOK, Forward, Down, Remember
<1>4. CASE Found(t) \/ NotFound(t) \/ InsertReturns(t)
  BY <1>4 DEF TypeOK, Found, NotFound, InsertReturns, Returns
<1> QED BY <1>1, <1>2, <1>3, <1>4 DEF Step

\* A thread that has returned knows nothing.
LEMMA ReturnsKnow ==
  ASSUME TypeOK, NEW t \in Threads, Returns(t), itr'[t] \in On'
  PROVE  Knows(t)'
BY DEF TypeOK, Returns, Knows, ThreadFact, SearchFact, Searching, Holding

\* A thread that begins a search is at the head.
LEMMA StartKnows ==
  ASSUME Inv, HeadFacts', NEW t \in Threads, StartSearch(t), Searching(t)',
         sought'[t] \in Keys, itr'[t] \in On',
         pc'[t] = "find" => node'[t] = None,
         pc'[t] = "find_slot" => node'[t] \in Nodes \ pool' /\ key'[node'[t]] = sought'[t]
  PROVE  Knows(t)'
<1>1. layer'[t] = Top /\ atSet'[t][Top] = m_head /\ Top \in Layers
  BY KeyFacts DEF Inv, TypeOK, StartSearch, NoLinks
<1>2. Pred(m_head, Top, sought[t])'
  BY HeightAssumption DEF Pred, On, HeadFacts, Top
<1>3. SearchFact(t)'
  BY <1>1, <1>2, HeightAssumption DEF SearchFact, Holding, Searching, Layers, Top
<1>4. ThreadFact(t)'
  BY <1>1 DEF ThreadFact, Holding, Searching
<1> QED BY <1>3, <1>4 DEF Knows

\* Going forward or down, a search stays at smaller keys, and what it passes on the
\* way down is remembered.
LEMMA ForwardKnows ==
  ASSUME Inv, NEW t \in Threads, Forward(t)
  PROVE  Knows(t)'
<1> DEFINE l == layer[t]
<1>1. /\ Searching(t) /\ UNCHANGED <<pool, key, m_height, pc, node, sought, layer, itr>>
      /\ key[NextNode(t)] < sought[t]
      /\ atSet' = [atSet EXCEPT ![t][l] = NextNode(t)]
      /\ pc[t] = "find_slot" => nextSet' = [nextSet EXCEPT ![t][l] = NextNode(t)]
  BY DEF Forward, Remember, shared
<1>2. Linked' = Linked /\ On' = On
  BY LooksKeeps DEF Looks, On
<1>3. NextNode(t) \in On /\ m_height[NextNode(t)] > l /\ l \in Layers
  BY <1>1, NextOn
<1>4. /\ atSet'[t][l] = NextNode(t)
      /\ \A h \in Layers : h # l => atSet'[t][h] = atSet[t][h]
      /\ pc[t] = "find_slot" => \A h \in Layers : h # l => nextSet'[t][h] = nextSet[t][h]
  BY <1>1, <1>3 DEF Inv, TypeOK
<1>5. Pred(atSet[t][l], l, sought[t])'
  BY <1>1, <1>2, <1>3, <1>4 DEF Pred
<1>6. SearchFact(t)'
  <2>1. ASSUME Holding(t), NEW h \in Layers, h > l
        PROVE  Pred(atSet[t][h], h, sought[t])' /\ Succ(nextSet[t][h], h, sought[t])'
    <3>1. h # l /\ pc[t] = "find_slot"
      BY <1>1, <1>3, <2>1 DEF Layers, Holding, Searching
    <3>2. Pred(atSet[t][h], h, sought[t]) /\ Succ(nextSet[t][h], h, sought[t])
      BY <2>1, <3>1 DEF Inv, SearchFacts, SearchFact
    <3> QED BY <1>1, <1>2, <1>4, <3>1, <3>2 DEF Pred, Succ
  <2> QED BY <1>1, <1>5, <2>1 DEF SearchFact, Holding, Searching
<1>7. ThreadFact(t)' /\ itr'[t] \in On'
  BY <1>1, <1>2 DEF Inv, ThreadFacts, ThreadFact, ItrFacts, Holding, Searching
<1> QED BY <1>6, <1>7 DEF Knows

LEMMA DownKnows ==
  ASSUME Inv, NEW t \in Threads, Down(t)
  PROVE  Knows(t)'
<1> DEFINE l == layer[t]
           seen == IF pc[t] = "find_slot" THEN atSet[t] ELSE NoLinks
<1>1. /\ Searching(t) /\ UNCHANGED <<pool, key, m_height, pc, node, sought, itr>>
      /\ key[NextNode(t)] > sought[t] /\ l > 0
      /\ atSet' = [atSet EXCEPT ![t] = [seen EXCEPT ![l - 1] = atSet[t][l]]]
      /\ pc[t] = "find_slot" => nextSet' = [nextSet EXCEPT ![t][l] = NextNode(t)]
      /\ layer' = [layer EXCEPT ![t] = l - 1]
  BY DEF Down, Remember, shared
<1>2. Linked' = Linked /\ On' = On
  BY LooksKeeps DEF Looks, On
<1>3. NextNode(t) \in On /\ m_height[NextNode(t)] > l /\ l \in Layers
  BY <1>1, NextOn
<1>4. l - 1 \in Layers /\ layer'[t] = l - 1
  BY <1>1, <1>3, HeightAssumption DEF Layers, Inv, TypeOK
<1>5. atSet'[t] = [seen EXCEPT ![l - 1] = atSet[t][l]]
  BY <1>1 DEF Inv, TypeOK
<1>6. seen \in [Layers -> AllNodes \cup {None}]
  BY DEF Inv, TypeOK, NoLinks
<1>7. /\ atSet'[t][l - 1] = atSet[t][l]
      /\ pc[t] = "find_slot" =>
           \A h \in Layers : h # l - 1 => atSet'[t][h] = atSet[t][h]
      /\ pc[t] = "find_slot" =>
           /\ nextSet'[t][l] = NextNode(t)
           /\ \A h \in Layers : h # l => nextSet'[t][h] = nextSet[t][h]
  <2>1. atSet'[t][l - 1] = atSet[t][l]
    <3> HIDE DEF seen
    <3> QED BY <1>4, <1>5, <1>6
  <2>2. \A h \in Layers : h # l - 1 => atSet'[t][h] = seen[h]
    <3> HIDE DEF seen
    <3> QED BY <1>4, <1>5, <1>6
  <2>3. pc[t] = "find_slot" =>
           /\ nextSet'[t][l] = NextNode(t)
           /\ \A h \in Layers : h # l => nextSet'[t][h] = nextSet[t][h]
    BY <1>1, <1>3 DEF Inv, TypeOK
  <2> QED BY <2>1, <2>2, <2>3
<1>8. Pred(atSet[t][l], l, sought[t])
  BY <1>1 DEF Inv, SearchFacts, SearchFact
<1>9. Pred(atSet[t][layer[t]], layer[t], sought[t])'
  <2>1. m_height[atSet[t][l]] > l - 1
    BY <1>3, <1>8, OnFacts, HeightAssumption DEF Pred, Layers
  <2> QED BY <1>1, <1>2, <1>4, <1>7, <1>8, <2>1 DEF Pred
<1>10. SearchFact(t)'
  <2>1. ASSUME pc[t] = "find_slot", NEW h \in Layers, h > l - 1
        PROVE  Pred(atSet[t][h], h, sought[t])' /\ Succ(nextSet[t][h], h, sought[t])'
    <3>1. h # l - 1 /\ atSet'[t][h] = atSet[t][h]
      BY <1>3, <1>7, <2>1 DEF Layers
    <3>2. CASE h = l
      BY <1>1, <1>2, <1>3, <1>7, <1>8, <2>1, <3>1, <3>2 DEF Pred, Succ
    <3>3. CASE h # l
      <4>1. h > l
        BY <1>3, <2>1, <3>3 DEF Layers
      <4>2. Pred(atSet[t][h], h, sought[t]) /\ Succ(nextSet[t][h], h, sought[t])
        BY <2>1, <4>1 DEF Inv, SearchFacts, SearchFact, Holding
      <4> QED BY <1>1, <1>2, <1>7, <2>1, <3>1, <3>3, <4>2 DEF Pred, Succ
    <3> QED BY <3>2, <3>3
  <2> QED BY <1>1, <1>4, <1>9, <2>1 DEF SearchFact, Holding, Searching
<1>11. ThreadFact(t)' /\ itr'[t] \in On'
  BY <1>1, <1>2, <1>4 DEF Inv, ThreadFacts, ThreadFact, ItrFacts, Holding, Searching
<1> QED BY <1>10, <1>11 DEF Knows

LEMMA SlotFoundKnows ==
  ASSUME Inv, NEW t \in Threads, SlotFound(t)
  PROVE  Knows(t)'
<1>1. /\ pc[t] = "find_slot" /\ layer[t] = 0 /\ pc'[t] = "link_base"
      /\ UNCHANGED <<pool, key, m_height, node, sought, layer, atSet, itr>>
      /\ key[NextNode(t)] > sought[t]
      /\ nextSet'[t][0] = NextNode(t)
      /\ \A h \in Layers : h # 0 => nextSet'[t][h] = nextSet[t][h]
  BY KeyFacts DEF SlotFound, shared, Inv, TypeOK
<1>2. Linked' = Linked /\ On' = On
  BY LooksKeeps DEF Looks, On
<1>3. NextNode(t) \in On /\ m_height[NextNode(t)] > 0
  BY <1>1, NextOn DEF Searching
<1>4. ASSUME NEW h \in Layers
      PROVE  Pred(atSet[t][h], h, sought[t])' /\ Succ(nextSet[t][h], h, sought[t])'
  <2>1. CASE h = 0
    <3>1. Pred(atSet[t][0], 0, sought[t])
      BY <1>1 DEF Inv, SearchFacts, SearchFact, Searching
    <3> QED BY <1>1, <1>2, <1>3, <2>1, <3>1 DEF Pred, Succ
  <2>2. CASE h # 0
    <3>1. Pred(atSet[t][h], h, sought[t]) /\ Succ(nextSet[t][h], h, sought[t])
      BY <1>1, <2>2 DEF Inv, SearchFacts, SearchFact, Holding, Layers
    <3> QED BY <1>1, <1>2, <2>2, <3>1 DEF Pred, Succ
  <2> QED BY <2>1, <2>2
<1>5. SearchFact(t)'
  BY <1>1, <1>4 DEF SearchFact, Searching, Holding
<1>6. ThreadFact(t)' /\ itr'[t] \in On'
  BY <1>1, <1>2 DEF Inv, ThreadFacts, ThreadFact, ItrFacts, Holding, Searching
<1> QED BY <1>5, <1>6 DEF Knows

\* A thread that links its node still knows where: the nodes it found stay.
LEMMA LinkKnows ==
  ASSUME Inv, NEW t \in Threads, LinkBase(t) \/ LinkUpper(t)
  PROVE  Knows(t)'
<1>1. /\ pc[t] \in {"link_base", "link_upper"} /\ pc'[t] = "link_upper" /\ layer'[t] >= 1
      /\ UNCHANGED <<pool, key, m_height, node, sought, atSet, nextSet>>
  <2>1. CASE LinkBase(t)
    BY <2>1 DEF Inv, TypeOK, LinkBase
  <2>2. CASE LinkUpper(t)
    <3>1. layer[t] >= 1 /\ layer[t] \in Nat /\ layer'[t] = layer[t] + 1
      BY <2>2 DEF Inv, TypeOK, ThreadFacts, ThreadFact, LinkUpper
    <3> QED BY <2>2, <3>1 DEF LinkUpper
  <2> QED BY <2>1, <2>2
<1>2. On \subseteq On' /\ itr'[t] \in On'
  <2>1. CASE LinkBase(t)
    BY <2>1, LinkBaseAdds DEF On, LinkBase, Inv, TypeOK
  <2>2. CASE LinkUpper(t)
    BY <2>2, LinkUpperKeeps DEF On, LinkUpper, Inv, ItrFacts
  <2> QED BY <2>1, <2>2
<1>3. SearchFact(t)'
  BY <1>1, <1>2 DEF Inv, SearchFacts, SearchFact, Searching, Holding, Pred, Succ
<1>4. ThreadFact(t)'
  BY <1>1 DEF Inv, ThreadFacts, ThreadFact, Searching, Holding
<1> QED BY <1>2, <1>3, <1>4 DEF Knows

LEMMA ReadLinkOn ==
  ASSUME Inv, NEW n \in On
  PROVE  link[n][0] \in On
BY OnFacts DEF Inv, ShortcutsLeadForward, On

\* A thread that moves its iterator and does nothing else.
LEMMA IteratorKnows ==
  ASSUME Inv, NEW t \in Threads, Begin(t) \/ Increment(t)
  PROVE  Knows(t)'
<1>1. /\ pc[t] = "idle"
      /\ UNCHANGED <<pool, key, m_height, pc, node, sought, layer, atSet, nextSet>>
      /\ itr'[t] = link[m_head][0] \/ itr'[t] = link[itr[t]][0]
  BY DEF Begin, Increment, shared, Inv, TypeOK
<1>2. On' = On
  BY LooksKeeps DEF Looks, On
<1>3. itr'[t] \in On'
  BY <1>1, <1>2, ReadLinkOn DEF Inv, ItrFacts, On
<1> QED BY <1>1, <1>2, <1>3
   DEF Inv, ThreadFacts, ThreadFact, SearchFact, Knows, Searching, Holding

\* What the threads know after any step.
LEMMA ThreadStep ==
  ASSUME Inv, TypeOK', HeadFacts', [Next]_vars
  PROVE  \A u \in Threads : Knows(u)'
<1> SUFFICES ASSUME NEW u \in Threads PROVE Knows(u)'
  OBVIOUS
<1>0. TypeOK
  BY DEF Inv
<1>1. CASE UNCHANGED vars
  BY <1>1 DEF Inv, ThreadFacts, SearchFacts, ItrFacts, Knows, ThreadFact, SearchFact,
              Searching, Holding, Pred, Succ, On, Linked, Inserting, vars
<1>2. CASE UnsafeClear
  BY <1>2, KeyFacts DEF UnsafeClear, Knows, ThreadFact, SearchFact, Searching, Holding, On,
                        Inv, ThreadFacts
<1>3. ASSUME NEW t \in Threads, Insert(t) PROVE Knows(u)'
  <2>1. Linked' = Linked /\ On' = On /\ Keeps
    BY <1>3, InsertKeeps DEF On
  <2>2. \A n \in Nodes \ pool : n \in Nodes \ pool' /\ key'[n] = key[n]
    BY <1>3, InsertKeeps
  <2>3. CASE u = t
    <3>1. /\ StartSearch(t) /\ pc'[t] = "find_slot" /\ itr' = itr
          /\ node'[t] \in Nodes \ pool' /\ key'[node'[t]] = sought'[t] /\ sought'[t] \in Keys
      BY <1>0, <1>3, InsertKeeps DEF Insert, TypeOK
    <3>2. itr'[t] \in On'
      BY <2>1, <3>1 DEF Inv, ItrFacts
    <3> QED BY <2>3, <3>1, <3>2, StartKnows DEF Searching
  <2>4. CASE u # t
    BY <1>0, <1>3, <2>1, <2>2, <2>4, OthersStay, OthersKnow
  <2> QED BY <2>3, <2>4
<1>4. ASSUME NEW t \in Threads, Looks(t) PROVE Knows(u)'
  <2>1. Linked' = Linked /\ On' = On /\ Keeps /\ UNCHANGED <<pool, key>>
    BY <1>4, LooksKeeps DEF On, shared
  <2>2. CASE u # t
    BY <1>0, <1>4, <2>1, <2>2, OthersStay, OthersKnow DEF Looks, Step
  <2>3. CASE u = t /\ Find(t)
    <3>1. /\ StartSearch(t) /\ pc'[t] = "find" /\ itr' = itr
          /\ node'[t] = None /\ sought'[t] \in Keys
      BY <1>0, <2>3 DEF Find, TypeOK, Inv, ThreadFacts, ThreadFact
    <3>2. itr'[t] \in On'
      BY <2>1, <3>1 DEF Inv, ItrFacts
    <3> QED BY <2>3, <3>1, <3>2, StartKnows DEF Searching
  <2>4. CASE u = t /\ TryAgain(t)
    <3>1. /\ StartSearch(t) /\ pc'[t] = "find_slot" /\ itr' = itr
          /\ node'[t] \in Nodes \ pool' /\ key'[node'[t]] = sought'[t] /\ sought'[t] \in Keys
      BY <1>0, <2>1, <2>4 DEF TryAgain, TypeOK, Inv, ThreadFacts, ThreadFact, Holding
    <3>2. itr'[t] \in On'
      BY <2>1, <3>1 DEF Inv, ItrFacts
    <3> QED BY <2>4, <3>1, <3>2, StartKnows DEF Searching
  <2>5. CASE u = t /\ (NotFound(t) \/ InsertReturns(t))
    <3>1. Returns(t) /\ itr'[t] \in On'
      BY <1>0, <2>1, <2>5 DEF NotFound, InsertReturns, TypeOK, Inv, ItrFacts, On
    <3> QED BY <1>0, <2>5, <3>1, ReturnsKnow
  <2> QED
    BY <1>4, <2>2, <2>3, <2>4, <2>5, ForwardKnows, DownKnows, SlotFoundKnows, IteratorKnows
       DEF Looks
<1>5. ASSUME NEW t \in Threads, Found(t) PROVE Knows(u)'
  <2>1. Linked' = Linked /\ On' = On /\ Keeps
    BY <1>5, FoundKeeps DEF On
  <2>2. \A n \in Nodes \ pool : n # node[t] => n \in Nodes \ pool' /\ key'[n] = key[n]
    BY <1>5, FoundKeeps
  <2>3. CASE u = t
    <3>1. Returns(t) /\ itr'[t] = NextNode(t)
      BY <1>0, <1>5 DEF Found, TypeOK
    <3>2. itr'[t] \in On'
      BY <1>5, <2>1, <3>1, NextOn DEF Found
    <3> QED BY <1>0, <2>3, <3>1, <3>2, ReturnsKnow
  <2>4. CASE u # t
    BY <1>0, <1>5, <2>1, <2>2, <2>4, OthersStay, OthersKnow DEF Step
  <2> QED BY <2>3, <2>4
<1>6. ASSUME NEW t \in Threads, LinkBase(t) \/ LinkUpper(t) PROVE Knows(u)'
  <2>1. Linked \subseteq Linked' /\ Keeps /\ UNCHANGED <<pool, key>>
    BY <1>6, LinkBaseAdds, LinkUpperKeeps DEF LinkBase, LinkUpper
  <2>2. CASE u # t
    BY <1>0, <1>6, <2>1, <2>2, OthersStay, OthersKnow DEF Step
  <2> QED BY <1>6, <2>2, LinkKnows
<1> QED
  BY <1>1, <1>2, <1>3, <1>4, <1>5, <1>6 DEF Next, Step, Looks

\* No two threads have the same node: the pool hands it out to one.
LEMMA OwnStep ==
  ASSUME Inv, [Next]_vars
  PROVE  OwnNodes'
<1>0. TypeOK /\ OwnNodes
  BY DEF Inv
<1>1. CASE UNCHANGED node
  BY <1>0, <1>1 DEF OwnNodes
<1>2. ASSUME NEW t \in Threads, Insert(t) PROVE OwnNodes'
  <2>1. node'[t] \in pool /\ \A u \in Threads \ {t} : node'[u] = node[u]
    BY <1>0, <1>2, InsertKeeps, OthersStay
  <2>2. \A u \in Threads : node[u] # None => node[u] \notin pool
    BY NodeOf
  <2> QED BY <1>0, <2>1, <2>2 DEF OwnNodes
<1>3. ASSUME NEW t \in Threads, Returns(t) PROVE OwnNodes'
  BY <1>0, <1>3 DEF OwnNodes, Returns, TypeOK
<1>4. ASSUME NEW t \in Threads, Step(t) PROVE UNCHANGED node \/ Returns(t)
  BY <1>4 DEF Step, Forward, Down, Found, NotFound, SlotFound, LinkBase, TryAgain, LinkUpper,
              InsertReturns
<1> QED
  BY <1>1, <1>2, <1>3, <1>4 DEF Next, vars, UnsafeClear, Find, Begin, Increment

LEMMA InvStep ==
  ASSUME Inv, [Next]_vars
  PROVE  Inv'
<1>1. TypeOK' /\ MapFacts' /\ OwnNodes'
  BY TypeStep, MapStep, OwnStep
<1>2. \A u \in Threads : Knows(u)'
  BY <1>1, ThreadStep DEF MapFacts
<1> QED
  BY <1>1, <1>2 DEF Inv, MapFacts, ThreadFacts, SearchFacts, ItrFacts, Knows

THEOREM InvHolds == Spec => []Inv
BY InitHolds, InvStep, PTL DEF Spec

\* A node that is linked in a layer was linked below before, and a shortcut of
\* try_insert leads past smaller keys only, for every number of threads and layers.
THEOREM ShortcutsForward == Spec => []ShortcutsLeadForward
<1>1. Inv => ShortcutsLeadForward
  BY DEF Inv
<1> QED BY <1>1, InvHolds, PTL

-----------------------------------------------------------------------------
(* ConcurrentMap implements OrderedMap. *)

\* What OrderedMap sees.
Contents == {key[n] : n \in Linked}
CallOf(t) == [op |-> IF Inserting(t) THEN "insert" ELSE IF pc[t] = "find" THEN "find" ELSE "none",
              key |-> IF pc[t] = "link_upper" THEN MaxKey ELSE sought[t]]
Calls == [t \in Threads |-> CallOf(t)]
Positions == [t \in Threads |-> key[itr[t]]]
NoCall == [op |-> "none", key |-> MaxKey]

\* A key that is searched for is in the map if the node ahead has it, and is not if
\* the nodes around the search in the base layer have smaller and larger ones.
LEMMA SearchEnds ==
  ASSUME Inv, NEW t \in Threads, Searching(t)
  PROVE  /\ key[NextNode(t)] = sought[t] => sought[t] \in Contents
         /\ layer[t] = 0 /\ key[NextNode(t)] > sought[t] => sought[t] \notin Contents
<1>1. NextNode(t) \in On /\ sought[t] \in Keys
  BY NextOn DEF Searching, Inv, ThreadFacts, ThreadFact
<1>2. ASSUME key[NextNode(t)] = sought[t] PROVE sought[t] \in Contents
  <2>1. NextNode(t) # m_head
    BY <1>1, <1>2, KeyFacts DEF Inv, HeadFacts
  <2> QED BY <1>1, <1>2, <2>1 DEF On, Contents
<1>3. ASSUME layer[t] = 0, key[NextNode(t)] > sought[t], NEW m \in Linked, key[m] = sought[t]
      PROVE  FALSE
  <2>1. Pred(atSet[t][0], 0, sought[t])
    BY <1>3 DEF Inv, SearchFacts, SearchFact
  <2>2. key[NextNode(t)] <= key[m]
    BY <1>3, <2>1 DEF Inv, Adjacent, Pred, NextNode
  <2> QED BY <1>1, <1>3, <2>2, OnFacts, KeyFacts
<1> QED BY <1>2, <1>3 DEF Contents

\* The map and the iterators that are not moved stay as they are.
LEMMA SameContents ==
  ASSUME Inv, Linked' = Linked, Keeps
  PROVE  /\ Contents' = Contents
         /\ \A u \in Threads : itr'[u] = itr[u] => key'[itr'[u]] = key[itr[u]]
<1>1. Contents' = Contents
  BY DEF Contents, Keeps, On
<1> QED BY <1>1 DEF Keeps, Inv, ItrFacts

\* A step of one thread changes its call only, and its iterator only.
LEMMA OneCall ==
  ASSUME Inv, NEW t \in Threads, Keeps,
         Insert(t) \/ Find(t) \/ Begin(t) \/ Increment(t) \/ Step(t)
  PROVE  /\ Calls' = [Calls EXCEPT ![t] = CallOf(t)']
         /\ Positions' = [Positions EXCEPT ![t] = key'[itr'[t]]]
<1>1. \A u \in Threads \ {t} : UNCHANGED <<pc[u], sought[u], itr[u]>>
  BY OthersStay DEF Inv
<1>2. \A u \in Threads \ {t} : CallOf(u)' = CallOf(u)
  BY <1>1 DEF CallOf, Inserting
<1>3. \A u \in Threads \ {t} : key'[itr'[u]] = key[itr[u]]
  BY <1>1 DEF Inv, ItrFacts, Keeps
<1> QED BY <1>2, <1>3 DEF Calls, Positions

LEMMA CallNames ==
  ASSUME Inv, NEW t \in Threads
  PROVE  /\ pc[t] = "idle" => CallOf(t) = NoCall
         /\ pc[t] = "link_upper" => CallOf(t) = NoCall
         /\ pc[t] = "find" => CallOf(t) = [op |-> "find", key |-> sought[t]]
         /\ Inserting(t) => CallOf(t) = [op |-> "insert", key |-> sought[t]]
BY DEF Inv, ThreadFacts, ThreadFact, CallOf, Inserting, NoCall

LEMMA ReturnedCall ==
  ASSUME Inv, Inv', NEW t \in Threads, Returns(t)
  PROVE  CallOf(t)' = NoCall
<1>1. pc'[t] = "idle" /\ sought'[t] = MaxKey
  BY DEF Inv, TypeOK, Returns
<1> QED BY <1>1 DEF CallOf, Inserting, NoCall

LEMMA SameNoCall == Map!NoCall = NoCall
BY DEF Map!NoCall, NoCall

\* What neither writes the base layer nor begins or ends an operation is a stutter.
LEMMA Stutters ==
  ASSUME Inv, Inv', NEW t \in Threads,
         Forward(t) \/ Down(t) \/ SlotFound(t) \/ TryAgain(t) \/ LinkUpper(t) \/ InsertReturns(t)
  PROVE  UNCHANGED Map!vars
<1>1. Linked' = Linked /\ Keeps /\ UNCHANGED inserted /\ itr' = itr
  <2>1. CASE LinkUpper(t)
    BY <2>1, LinkUpperKeeps DEF LinkUpper
  <2>2. CASE ~LinkUpper(t)
    BY <2>2, LooksKeeps DEF Looks, Forward, Down, SlotFound, TryAgain, InsertReturns
  <2> QED BY <2>1, <2>2
<1>2. CallOf(t)' = CallOf(t)
  <2>1. CASE InsertReturns(t)
    BY <2>1, CallNames, ReturnedCall DEF InsertReturns
  <2>2. CASE Forward(t) \/ Down(t) \/ LinkUpper(t)
    BY <2>2 DEF Forward, Down, LinkUpper, CallOf, Inserting
  <2>3. CASE SlotFound(t) \/ TryAgain(t)
    <3>1. UNCHANGED sought /\ pc'[t] \in {"find_slot", "link_base"}
          /\ pc[t] \in {"find_slot", "link_base"}
      BY <2>3 DEF SlotFound, TryAgain, Inv, TypeOK
    <3> QED BY <3>1 DEF CallOf, Inserting
  <2> QED BY <2>1, <2>2, <2>3
<1>3. Calls' = Calls /\ Positions' = Positions
  <2>1. Calls' = [Calls EXCEPT ![t] = CallOf(t)] /\ Positions' = [Positions EXCEPT ![t] = key[itr[t]]]
    BY <1>1, <1>2, OneCall, SameContents DEF Step
  <2> QED BY <2>1 DEF Calls, Positions
<1>4. Contents' = Contents
  BY <1>1, SameContents
<1>5. <<Contents, Calls, Positions, inserted>>' = <<Contents, Calls, Positions, inserted>>
  BY <1>1, <1>3, <1>4
<1> QED BY <1>5 DEF Map!vars, Contents, Calls, CallOf, Positions

LEMMA CallSteps ==
  ASSUME Inv, Inv', NEW t \in Threads, Insert(t) \/ Find(t)
  PROVE  Map!Call(t)
<1>1. Linked' = Linked /\ Keeps /\ UNCHANGED inserted /\ itr' = itr /\ pc[t] = "idle"
  <2>1. CASE Insert(t)
    BY <2>1, InsertKeeps DEF Insert
  <2>2. CASE Find(t)
    BY <2>2, LooksKeeps DEF Looks, Find
  <2> QED BY <2>1, <2>2
<1>2. PICK op \in {"insert", "find"}, k \in Keys : CallOf(t)' = [op |-> op, key |-> k]
  <2>1. CASE Insert(t)
    <3>1. pc'[t] = "find_slot" /\ sought'[t] \in Keys
      BY <2>1, InsertKeeps DEF Insert, Inv, TypeOK
    <3> QED BY <3>1 DEF CallOf, Inserting
  <2>2. CASE Find(t)
    <3>1. pc'[t] = "find" /\ sought'[t] \in Keys
      BY <2>2 DEF Find, Inv, TypeOK
    <3> QED BY <3>1 DEF CallOf, Inserting
  <2> QED BY <2>1, <2>2
<1>3. /\ Calls' = [Calls EXCEPT ![t] = [op |-> op, key |-> k]]
      /\ Positions' = Positions /\ Contents' = Contents
  <2>1. Positions' = [Positions EXCEPT ![t] = key[itr[t]]]
    BY <1>1, OneCall, SameContents
  <2> QED BY <1>1, <1>2, <2>1, OneCall, SameContents DEF Positions
<1>4. Calls[t] = NoCall
  BY <1>1, CallNames DEF Calls
<1>5. [op |-> op, key |-> k] \in Map!Operations
  BY DEF Map!Operations
<1>6. /\ Calls[t] = Map!NoCall
      /\ \E c \in Map!Operations : Calls' = [Calls EXCEPT ![t] = c]
      /\ UNCHANGED <<Contents, Positions, inserted>>
  BY <1>1, <1>3, <1>4, <1>5, SameNoCall
<1> QED BY <1>6 DEF Map!Call, Calls, CallOf, Contents, Positions

\* An insert takes effect when it swaps the base link, or finds the key.
LEMMA InsertSteps ==
  ASSUME Inv, Inv', NEW t \in Threads,
         LinkBase(t) \/ (Found(t) /\ pc[t] = "find_slot")
  PROVE  Map!Insert(t)
<1>1. Inserting(t)
  BY DEF Inserting, LinkBase
<1>2. Calls[t] = [op |-> "insert", key |-> sought[t]]
  BY <1>1, CallNames DEF Calls
<1>3. Keeps /\ Calls' = [Calls EXCEPT ![t] = CallOf(t)'] /\ Positions' = [Positions EXCEPT ![t] = key'[itr'[t]]]
  BY OneCall, LinkBaseAdds, FoundKeeps DEF Step
<1>4. CallOf(t)' = NoCall
  <2>1. CASE LinkBase(t)
    BY <2>1 DEF LinkBase, CallOf, Inserting, NoCall, Inv, TypeOK
  <2>2. CASE Found(t)
    BY <2>2, ReturnedCall DEF Found
  <2> QED BY <2>1, <2>2
<1>5. /\ inserted' = [inserted EXCEPT ![t] = sought[t] \notin Contents]
      /\ Contents' = Contents \cup {sought[t]}
      /\ key'[itr'[t]] = sought[t]
  <2>1. CASE LinkBase(t)
    <3>1. /\ inserted' = [inserted EXCEPT ![t] = TRUE] /\ itr'[t] = node[t]
          /\ key' = key
      BY <2>1 DEF LinkBase, Inv, TypeOK
    <3>2. key[node[t]] = sought[t] /\ \A m \in Linked : key[m] # key[node[t]]
      BY <2>1, SlotFacts
    <3>3. sought[t] \notin Contents
      BY <3>2 DEF Contents
    <3>4. Contents' = Contents \cup {sought[t]}
      <4>1. Linked' = Linked \cup {node[t]}
        BY <2>1, LinkBaseAdds
      <4> QED BY <3>1, <3>2, <4>1 DEF Contents
    <3> QED BY <3>1, <3>2, <3>3, <3>4
  <2>2. CASE Found(t) /\ pc[t] = "find_slot"
    <3>1. /\ inserted' = [inserted EXCEPT ![t] = FALSE] /\ itr'[t] = NextNode(t)
          /\ key[NextNode(t)] = sought[t] /\ Searching(t)
      BY <2>2 DEF Found, Inv, TypeOK
    <3>2. sought[t] \in Contents /\ Contents' = Contents
      BY <2>2, <3>1, SearchEnds, FoundKeeps, SameContents
    <3>3. key'[NextNode(t)] = key[NextNode(t)]
      BY <1>3, <3>1, NextOn DEF Keeps
    <3> QED BY <3>1, <3>2, <3>3
  <2> QED BY <2>1, <2>2
<1>6. /\ Calls[t].op = "insert"
      /\ inserted' = [inserted EXCEPT ![t] = Calls[t].key \notin Contents]
      /\ Contents' = Contents \cup {Calls[t].key}
      /\ Positions' = [Positions EXCEPT ![t] = Calls[t].key]
      /\ Calls' = [Calls EXCEPT ![t] = Map!NoCall]
  BY <1>2, <1>3, <1>4, <1>5, SameNoCall
<1> QED BY <1>6 DEF Map!Insert, Calls, CallOf, Contents, Positions

LEMMA FindSteps ==
  ASSUME Inv, Inv', NEW t \in Threads,
         NotFound(t) \/ (Found(t) /\ pc[t] # "find_slot")
  PROVE  Map!Find(t)
<1>1. pc[t] = "find" /\ Returns(t)
  BY DEF Found, NotFound, Searching
<1>2. Calls[t] = [op |-> "find", key |-> sought[t]]
  BY <1>1, CallNames DEF Calls
<1>3. Linked' = Linked /\ Keeps /\ UNCHANGED inserted
  BY FoundKeeps, LooksKeeps DEF Looks, Found
<1>4. Calls' = [Calls EXCEPT ![t] = NoCall] /\ Positions' = [Positions EXCEPT ![t] = key'[itr'[t]]]
  BY <1>1, <1>3, OneCall, ReturnedCall DEF Step
<1>5. key'[itr'[t]] = IF sought[t] \in Contents THEN sought[t] ELSE MaxKey
  <2>1. CASE NotFound(t)
    <3>1. itr'[t] = m_head /\ layer[t] = 0 /\ key[NextNode(t)] > sought[t]
      BY <2>1 DEF NotFound, Inv, TypeOK
    <3>2. sought[t] \notin Contents
      BY <1>1, <3>1, SearchEnds DEF Searching
    <3> QED BY <3>1, <3>2 DEF Inv, HeadFacts
  <2>2. CASE Found(t)
    <3>1. itr'[t] = NextNode(t) /\ key[NextNode(t)] = sought[t] /\ Searching(t)
      BY <2>2 DEF Found, Inv, TypeOK
    <3>2. sought[t] \in Contents /\ key'[NextNode(t)] = key[NextNode(t)]
      BY <1>3, <3>1, SearchEnds, NextOn DEF Keeps
    <3> QED BY <3>1, <3>2
  <2> QED BY <2>1, <2>2
<1>6. /\ Calls[t].op = "find"
      /\ Positions' = [Positions EXCEPT
                         ![t] = IF Calls[t].key \in Contents THEN Calls[t].key ELSE MaxKey]
      /\ Calls' = [Calls EXCEPT ![t] = Map!NoCall]
      /\ UNCHANGED <<Contents, inserted>>
  BY <1>2, <1>3, <1>4, <1>5, SameNoCall, SameContents
<1> QED BY <1>6 DEF Map!Find, Calls, CallOf, Contents, Positions

\* An iterator goes to the key that follows the last one, and to the end after all.
LEMMA IteratorSteps ==
  ASSUME Inv, Inv', NEW t \in Threads, Begin(t) \/ Increment(t)
  PROVE  Map!Begin(t) \/ Map!Increment(t)
<1>1. pc[t] = "idle" /\ UNCHANGED <<key, pc, sought, inserted>>
  BY DEF Begin, Increment, shared
<1>2. Linked' = Linked /\ Keeps
  BY LooksKeeps DEF Looks
<1>3. Calls[t] = NoCall /\ Calls' = Calls /\ Contents' = Contents
  <2>1. Contents' = Contents /\ Calls[t] = NoCall
    BY <1>1, <1>2, SameContents, CallNames DEF Calls
  <2>2. \A u \in Threads : CallOf(u)' = CallOf(u)
    BY <1>1 DEF CallOf, Inserting
  <2> QED BY <2>1, <2>2 DEF Calls
<1>4. Positions' = [Positions EXCEPT ![t] = key[itr'[t]]]
  BY <1>1, <1>2, OneCall
<1>5. CASE Begin(t)
  <2> DEFINE p == key[link[m_head][0]]
  <2>1. itr'[t] = link[m_head][0] /\ link[m_head][0] \in On
    BY <1>5, ReadLinkOn DEF Begin, Inv, TypeOK, On
  <2>2. p \in Contents \cup {MaxKey} /\ p \in Keys \cup {MaxKey}
    BY <2>1, OnFacts DEF Contents, On, Inv, HeadFacts
  <2>3. \A k \in Contents : p <= k
    BY DEF Contents, Inv, Adjacent, On
  <2>4. Map!First(Contents, p)
    BY <2>2, <2>3 DEF Map!First
  <2>5. /\ Calls[t] = Map!NoCall
        /\ \E q \in Keys \cup {MaxKey} :
             Map!First(Contents, q) /\ Positions' = [Positions EXCEPT ![t] = q]
        /\ UNCHANGED <<Contents, Calls, inserted>>
    BY <1>1, <1>3, <1>4, <2>1, <2>2, <2>4, SameNoCall
  <2> QED BY <2>5 DEF Map!Begin, Calls, CallOf, Contents, Positions
<1>6. CASE Increment(t)
  <2> DEFINE at == itr[t]
             p == key[link[at][0]]
             later == {k \in Contents : k > Positions[t]}
  <2>1. itr'[t] = link[at][0] /\ link[at][0] \in On /\ at \in Linked
    BY <1>6, ReadLinkOn DEF Increment, Inv, TypeOK, ItrFacts, On
  <2>2. Positions[t] = key[at] /\ key[at] \in Int /\ Positions[t] # MaxKey
    BY <2>1, OnFacts, KeyFacts DEF Positions
  <2>3. p \in later \cup {MaxKey} /\ p \in Keys \cup {MaxKey}
    <3>1. CASE link[at][0] = m_head
      BY <3>1 DEF Inv, HeadFacts
    <3>2. CASE link[at][0] # m_head
      <4>1. link[at][0] \in Linked
        BY <2>1, <3>2 DEF On
      <4>2. 0 \in 0 .. m_height[at] - 1 /\ at # m_head
        BY <2>1, OnFacts DEF On
      <4>3. key[at] < p
        BY <2>1, <3>2, <4>2 DEF Inv, ShortcutsLeadForward
      <4> QED BY <2>2, <4>1, <4>3, OnFacts, KeyFacts DEF Contents
    <3> QED BY <3>1, <3>2
  <2>4. \A k \in later : p <= k
    BY <2>1, <2>2, OnFacts, KeyFacts DEF Contents, Inv, Adjacent, On
  <2>5. Map!First(later, p)
    BY <2>3, <2>4 DEF Map!First
  <2>6. /\ Calls[t] = Map!NoCall
        /\ Positions[t] # MaxKey
        /\ \E q \in Keys \cup {MaxKey} :
             Map!First(later, q) /\ Positions' = [Positions EXCEPT ![t] = q]
        /\ UNCHANGED <<Contents, Calls, inserted>>
    <3> HIDE DEF later, p
    <3> QED BY <1>1, <1>3, <1>4, <2>1, <2>2, <2>3, <2>5, SameNoCall DEF p
  <2> QED BY <2>6 DEF Map!Increment, Calls, CallOf, Contents, Positions
<1> QED BY <1>5, <1>6

LEMMA ClearSteps ==
  ASSUME Inv, Inv', UnsafeClear
  PROVE  Map!Clear
<1>1. \A t \in Threads : Calls[t] = NoCall
  BY CallNames DEF UnsafeClear, Calls
<1>2. Calls = [t \in Threads |-> NoCall]
  BY <1>1 DEF Calls
<1>3. Calls' = Calls /\ inserted' = inserted
  BY DEF UnsafeClear, Calls, CallOf, Inserting
<1>4. Contents' = {}
  BY ClearEmpties DEF Contents
<1>5. Positions' = [t \in Threads |-> MaxKey]
  BY DEF Positions, UnsafeClear, Inv, HeadFacts
<1>6. /\ Calls = [t \in Threads |-> Map!NoCall]
      /\ Contents' = {}
      /\ Positions' = [t \in Threads |-> MaxKey]
      /\ UNCHANGED <<Calls, inserted>>
  BY <1>2, <1>3, <1>4, <1>5, SameNoCall
<1> QED BY <1>6 DEF Map!Clear, Calls, CallOf, Contents, Positions

LEMMA MapInitially == Init => Map!Init
<1> SUFFICES ASSUME Init PROVE Map!Init
  OBVIOUS
<1>1. Linked = {}
  BY DEF Init, Linked
<1> QED BY <1>1, KeyFacts DEF Init, Map!Init, Map!NoCall, Inserting

\* Every execution of concurrent_map is one that OrderedMap allows: of two inserts
\* of one key one succeeds, a find misses only what is not there, and an iterator
\* visits the keys in order and skips none.
THEOREM ImplementsOrderedMap == Spec => KeepsMap
<1>1. ASSUME Inv, Inv', [Next]_vars
      PROVE  [Map!Next]_(Map!vars)
  <2>1. CASE UNCHANGED vars
    BY <2>1 DEF vars, Map!vars, Linked, Inserting
  <2>2. CASE UnsafeClear
    BY <1>1, <2>2, ClearSteps DEF Map!Next
  <2>3. ASSUME NEW t \in Threads, Insert(t) \/ Find(t) \/ Begin(t) \/ Increment(t) \/ Step(t)
        PROVE  UNCHANGED Map!vars \/ \E u \in Threads : \/ Map!Call(u) \/ Map!Insert(u)
                                                        \/ Map!Find(u) \/ Map!Begin(u)
                                                        \/ Map!Increment(u)
    BY <1>1, <2>3, Stutters, CallSteps, InsertSteps, FindSteps, IteratorSteps DEF Step
  <2> QED BY <1>1, <2>1, <2>2, <2>3 DEF Next, Map!Next
<1> QED BY <1>1, MapInitially, InvHolds, PTL DEF Spec, KeepsMap, Map!Spec
=============================================================================
