---------------------------- MODULE PriorityQueue ----------------------------
(***************************************************************************)
(* concurrent_priority_queue: a skip list from whose front nodes are       *)
(* popped, with nodes of a guard pool.                                     *)
(*                                                                         *)
(* A link is a view: a node and a version.  The version of m_head's base   *)
(* link grows with every change of the front, the links of m_head in the   *)
(* layers above follow it, and a version on the base link of a node flags  *)
(* it as being popped by the thread that saw the front at the version      *)
(* before.  One action is one access to a link that others may write; what *)
(* a thread computes from it and what it writes to its own node belong to  *)
(* the same action.  Accesses are sequentially consistent.                 *)
(***************************************************************************)
EXTENDS Integers, FiniteSets

CONSTANTS
  Threads,
  Clearers,         \* the threads that may call clear
  ClearAlone,       \* whether they see to it that nobody else is at work then
  Nodes,
  m_head,
  Keys,
  LinkTowerHeight,
  ExpectedListSize, \* to_expected_list_size(LinkTowerHeight)
  MaxVersion,       \* one less than a power of two
  MaxPushes,        \* bounds a behaviour
  None

ASSUME HeightAssumption == LinkTowerHeight \in Nat \ {0} /\ ExpectedListSize \in Nat \ {0}
ASSUME KeysAssumption == Keys \subseteq Int
ASSUME NodesAssumption == m_head \notin Nodes /\ None \notin Nodes \cup {m_head}

VARIABLES
  link,       \* m_linkViews
  key, m_height,
  pool,       \* how many times the pool holds a node
  retired,    \* the threads that were guarded when the node was recycled and still are
  pushes,     \* number of pushes so far
  pc, op,
  node,       \* the node a thread pushes, or found at the front and pops
  atSet,      \* push: the predecessors; pop and clear: frontSet
  nextSet,
  layer,      \* the counter of the loop a thread is in
  probing,    \* beganProbing
  flagged,
  cursor      \* where can_be_found_from is, or the link counteract_version_lag looks at

shared == <<link, key, m_height, pool, retired, pushes>>
local == <<op, node, atSet, nextSet, layer, probing, flagged, cursor>>
vars == <<shared, pc, local>>

AllNodes == Nodes \cup {m_head}
Layers == 0 .. LinkTowerHeight - 1
Top == LinkTowerHeight - 1

View(n, v) == [node |-> n, version |-> v]
NoView == View(None, 0)
NoViews == [l \in Layers |-> NoView]
HeadViews == [l \in Layers |-> View(m_head, 0)]
Front == link[m_head][0].node

-----------------------------------------------------------------------------
(* Versions *)
version_add_one(v) == IF (v + 1) % (MaxVersion + 1) = 0 THEN 1 ELSE (v + 1) % (MaxVersion + 1)
version_step(v, step) == IF step = 1 THEN version_add_one(v) ELSE version_add_one(version_add_one(v))
version_sub_one(v) == IF v \in {0, 1} THEN MaxVersion ELSE v - 1
version_delta(from, to) == (to - from) % (MaxVersion + 1)
\* Mutant: a version that is ahead is in range too.
in_range_Always(v, of) == v \in 0 .. MaxVersion /\ of \in 0 .. MaxVersion
in_range(v, of) == v = 0 \/ version_delta(v, of) < MaxVersion \div 2
needs_version_lag_check(v, step) == (v % ExpectedListSize) + step >= ExpectedListSize

-----------------------------------------------------------------------------
FreshLinks == [n \in AllNodes |-> IF n = m_head THEN HeadViews ELSE NoViews]

Init ==
  /\ link = FreshLinks
  /\ key = [n \in Nodes |-> 0]
  /\ m_height = [n \in AllNodes |-> LinkTowerHeight]
  /\ pool = [n \in Nodes |-> 1]
  /\ retired = [n \in Nodes |-> {}]
  /\ pushes = 0
  /\ pc = [t \in Threads |-> "idle"]
  /\ op = [t \in Threads |-> "none"]
  /\ node = [t \in Threads |-> None]
  /\ atSet = [t \in Threads |-> NoViews]
  /\ nextSet = [t \in Threads |-> NoViews]
  /\ layer = [t \in Threads |-> 0]
  /\ probing = [t \in Threads |-> FALSE]
  /\ flagged = [t \in Threads |-> FALSE]
  /\ cursor = [t \in Threads |-> NoView]

\* Where a thread is when guard has ended, what it had on its stack is gone, and
\* nodes that were recycled meanwhile need not wait for it any longer.
Guarded(t) == pc[t] \notin {"idle", "try_push"}

LeaveGuard(t, waiting) ==
  /\ retired' = [n \in Nodes |-> waiting[n] \ {t}]
  /\ atSet' = [atSet EXCEPT ![t] = NoViews]
  /\ nextSet' = [nextSet EXCEPT ![t] = NoViews]
  /\ layer' = [layer EXCEPT ![t] = 0]
  /\ probing' = [probing EXCEPT ![t] = FALSE]
  /\ flagged' = [flagged EXCEPT ![t] = FALSE]
  /\ cursor' = [cursor EXCEPT ![t] = NoView]

Return(t, waiting) ==
  /\ pc' = [pc EXCEPT ![t] = "idle"]
  /\ op' = [op EXCEPT ![t] = "none"]
  /\ node' = [node EXCEPT ![t] = None]
  /\ LeaveGuard(t, waiting)

\* try_push returns false, and push_internal calls it again.
PushFails(t) ==
  /\ pc' = [pc EXCEPT ![t] = "try_push"]
  /\ LeaveGuard(t, retired)
  /\ UNCHANGED <<op, node>>

\* The next iteration of the loop of try_pop or clear begins with new sets.
Retry(t) ==
  /\ pc' = [pc EXCEPT ![t] = "front"]
  /\ node' = [node EXCEPT ![t] = None]
  /\ atSet' = [atSet EXCEPT ![t] = NoViews]
  /\ nextSet' = [nextSet EXCEPT ![t] = NoViews]
  /\ layer' = [layer EXCEPT ![t] = 0]
  /\ flagged' = [flagged EXCEPT ![t] = FALSE]
  /\ UNCHANGED <<op, probing, cursor>>

Goto(t, label) == pc' = [pc EXCEPT ![t] = label]

\* delink_front: the height of the front, and by how much the version grows.
FrontHeight(t) ==
  CASE op[t] = "push" -> m_height[atSet[t][0].node]
    [] op[t] = "pop" -> m_height[node[t]]
    [] op[t] = "clear" -> LinkTowerHeight
Offset(t) == IF op[t] = "push" THEN 2 ELSE 1


-----------------------------------------------------------------------------
(* push: the search *)

Idle == \A t \in Threads : pc[t] = "idle"
MayBegin(t) == pc[t] = "idle" /\ (ClearAlone => \A u \in Threads : op[u] # "clear")

\* A node of the pool that no guarded thread may still be looking at.
Push(t) ==
  /\ MayBegin(t)
  /\ pushes < MaxPushes
  /\ pushes' = pushes + 1
  /\ \E n \in Nodes, k \in Keys, h \in 1 .. LinkTowerHeight :
       /\ pool[n] > 0
       /\ retired[n] = {}
       /\ pool' = [pool EXCEPT ![n] = @ - 1]
       /\ key' = [key EXCEPT ![n] = k]
       /\ m_height' = [m_height EXCEPT ![n] = h]
       /\ node' = [node EXCEPT ![t] = n]
  /\ op' = [op EXCEPT ![t] = "push"]
  /\ Goto(t, "try_push")
  /\ UNCHANGED <<link, retired, atSet, nextSet, layer, probing, flagged, cursor>>

TryPush(t) ==
  /\ pc[t] = "try_push"
  /\ atSet' = [atSet EXCEPT ![t] = [NoViews EXCEPT ![Top] = View(m_head, 0)]]
  /\ layer' = [layer EXCEPT ![t] = Top]
  /\ Goto(t, "search")
  /\ UNCHANGED <<shared, op, node, nextSet, probing, flagged, cursor>>

NextView(t) == link[atSet[t][layer[t]].node][layer[t]]
Passes(t) == NextView(t).node # m_head /\ key[NextView(t).node] <= key[node[t]]
LayersAbove(t) == layer[t] + 1 .. m_height[node[t]] - 1

Forward(t) ==
  /\ pc[t] = "search"
  /\ Passes(t)
  /\ probing[t] \/ LayersAbove(t) = {}
  /\ nextSet' = [nextSet EXCEPT ![t][layer[t]] = NextView(t)]
  /\ atSet' = [atSet EXCEPT ![t][layer[t]] = NextView(t)]
  /\ probing' = [probing EXCEPT ![t] = TRUE]
  /\ UNCHANGED <<shared, pc, op, node, layer, flagged, cursor>>

\* The first time, the links of m_head that were loaded on the way down are verified.
BeginProbing(t) ==
  /\ pc[t] = "search"
  /\ Passes(t)
  /\ ~probing[t]
  /\ LayersAbove(t) # {}
  /\ nextSet' = [nextSet EXCEPT ![t][layer[t]] = NextView(t)]
  /\ layer' = [layer EXCEPT ![t] = @ + 1]
  /\ Goto(t, "verify")
  /\ UNCHANGED <<shared, op, node, atSet, probing, flagged, cursor>>

\* The layer the search was in is the lowest that was loaded.
SearchLayer(t) ==
  CHOOSE l \in Layers : nextSet[t][l] # NoView /\ \A m \in 0 .. l - 1 : nextSet[t][m] = NoView

UpToDate(t) == link[m_head][layer[t]].version = nextSet[t][layer[t]].version

Verify(t) ==
  /\ pc[t] = "verify"
  /\ UpToDate(t)
  /\ IF layer[t] + 1 < m_height[node[t]]
       THEN /\ layer' = [layer EXCEPT ![t] = @ + 1]
            /\ UNCHANGED <<pc, atSet, probing>>
       ELSE LET l == SearchLayer(t) IN
            /\ layer' = [layer EXCEPT ![t] = l]
            /\ atSet' = [atSet EXCEPT ![t][l] = nextSet[t][l]]
            /\ probing' = [probing EXCEPT ![t] = TRUE]
            /\ Goto(t, "search")
  /\ UNCHANGED <<shared, op, node, nextSet, flagged, cursor>>

VerifyFails(t) ==
  /\ pc[t] = "verify"
  /\ ~UpToDate(t)
  /\ PushFails(t)
  /\ UNCHANGED <<link, key, m_height, pool, pushes>>

Down(t) ==
  /\ pc[t] = "search"
  /\ ~Passes(t)
  /\ nextSet' = [nextSet EXCEPT ![t][layer[t]] = NextView(t)]
  /\ IF layer[t] > 0
       THEN /\ atSet' = [atSet EXCEPT ![t][layer[t] - 1] = atSet[t][layer[t]]]
            /\ layer' = [layer EXCEPT ![t] = @ - 1]
            /\ UNCHANGED pc
       ELSE /\ layer' = [layer EXCEPT ![t] = 1]
            /\ Goto(t, IF atSet[t][0].node = m_head /\ m_height[node[t]] > 1 THEN "reload" ELSE "splice")
            /\ UNCHANGED atSet
  /\ UNCHANGED <<shared, op, node, probing, flagged, cursor>>

\* At the head: its upper links are loaded again, after the base link.
Reload(t) ==
  /\ pc[t] = "reload"
  /\ nextSet' = [nextSet EXCEPT ![t][layer[t]] = link[m_head][layer[t]]]
  /\ layer' = [layer EXCEPT ![t] = @ + 1]
  /\ Goto(t, IF layer[t] + 1 < m_height[node[t]] THEN "reload" ELSE "splice")
  /\ UNCHANGED <<shared, op, node, atSet, probing, flagged, cursor>>

-----------------------------------------------------------------------------
(* push: linking the node *)

\* Mutant: a node that is being popped is taken for one that is not.
is_flagged_Never(v) == v.version > MaxVersion
is_flagged(v) == v.version # 0
AtHead(t) == atSet[t][0].node = m_head

\* The links of the node are stored before it is linked; nobody else reads them yet.
Prepared(t) == [l \in Layers |-> IF l < m_height[node[t]] THEN View(nextSet[t][l].node, 0) ELSE NoView]

\* link_to_head and delink_front: the version of the base link, and whether its next
\* step asks for counteract_version_lag.
ToHead(t) == op[t] = "push" /\ AtHead(t)
VersionBase(t) == IF ToHead(t) THEN nextSet[t][0].version ELSE atSet[t][0].version
NeedsLagCheck(t) == needs_version_lag_check(VersionBase(t), IF ToHead(t) THEN 1 ELSE Offset(t))

\* The base link of m_head, or of the predecessor, is swapped if it has not changed.
LinksToHead(t) ==
  \/ pc[t] = "link_to_head"
  \/ pc[t] = "splice" /\ AtHead(t) /\ ~NeedsLagCheck(t)

link_to_head(t) ==
  LET version == version_add_one(nextSet[t][0].version) IN
  /\ LinksToHead(t)
  /\ link[m_head][0] = nextSet[t][0]
  /\ link' = [link EXCEPT ![node[t]] = Prepared(t), ![m_head][0] = View(node[t], version)]
  /\ nextSet' = [nextSet EXCEPT ![t][0].version = version]
  /\ layer' = [layer EXCEPT ![t] = 1]
  /\ Goto(t, "link_to_head_upper")
  /\ UNCHANGED <<key, m_height, pool, retired, pushes, op, node, atSet, probing, flagged, cursor>>

\* A new link is never flagged, also where the one it replaces was.
LinksToNode(t) ==
  \/ pc[t] = "found"
  \/ pc[t] = "splice" /\ ~AtHead(t) /\ ~is_flagged(nextSet[t][0])

\* Mutant: the link is stored without looking whether it is still the one that was read.
link_to_node_Blindly(t) ==
  LET at == atSet[t][0].node IN
  /\ LinksToNode(t)
  /\ link' = [link EXCEPT ![node[t]] = Prepared(t), ![at][0] = View(node[t], 0)]
  /\ layer' = [layer EXCEPT ![t] = 1]
  /\ Goto(t, "link_to_node_upper")
  /\ UNCHANGED <<key, m_height, pool, retired, pushes, op, node, atSet, nextSet, probing, flagged, cursor>>

link_to_node(t) ==
  LET at == atSet[t][0].node IN
  /\ LinksToNode(t)
  /\ link[at][0] = nextSet[t][0]
  /\ link' = [link EXCEPT ![node[t]] = Prepared(t), ![at][0] = View(node[t], 0)]
  /\ layer' = [layer EXCEPT ![t] = 1]
  /\ Goto(t, "link_to_node_upper")
  /\ UNCHANGED <<key, m_height, pool, retired, pushes, op, node, atSet, nextSet, probing, flagged, cursor>>

LinkFails(t) ==
  /\ \/ LinksToHead(t) /\ link[m_head][0] # nextSet[t][0]
     \/ LinksToNode(t) /\ link[atSet[t][0].node][0] # nextSet[t][0]
     \/ pc[t] = "failed"
  /\ PushFails(t)
  /\ UNCHANGED <<link, key, m_height, pool, pushes>>

link_to_node_upper(t) ==
  LET l == layer[t]
      at == atSet[t][l].node IN
  /\ pc[t] = "link_to_node_upper"
  /\ l < m_height[node[t]]
  /\ link' = IF link[at][l] = nextSet[t][l]
               THEN [link EXCEPT ![at][l] = View(node[t], nextSet[t][l].version)] ELSE link
  /\ layer' = [layer EXCEPT ![t] = @ + 1]
  /\ UNCHANGED <<key, m_height, pool, retired, pushes, pc, op, node, atSet, nextSet, probing, flagged, cursor>>

\* exchange_head_link: the link of m_head in this layer is swapped unless its version is
\* the desired one or not in range of it; next is where the loop goes on.
ExchangesHead(t, expected, version) ==
  /\ expected.version # version
  /\ in_range(expected.version, version)
  /\ link[m_head][layer[t]] = expected

link_to_head_upper(t) ==
  LET l == layer[t]
      version == nextSet[t][0].version
      expected == nextSet[t][l] IN
  /\ pc[t] = "link_to_head_upper"
  /\ l < m_height[node[t]]
  /\ \/ /\ expected.version = version
        /\ layer' = [layer EXCEPT ![t] = @ + 1]
        /\ UNCHANGED <<link, nextSet>>
     \/ /\ ~in_range(expected.version, version)
        /\ layer' = [layer EXCEPT ![t] = LinkTowerHeight]
        /\ UNCHANGED <<link, nextSet>>
     \/ /\ ExchangesHead(t, expected, version)
        /\ link' = [link EXCEPT ![m_head][l] = View(node[t], version)]
        /\ layer' = [layer EXCEPT ![t] = @ + 1]
        /\ UNCHANGED nextSet
     \/ /\ expected.version # version
        /\ in_range(expected.version, version)
        /\ link[m_head][l] # expected
        /\ nextSet' = [nextSet EXCEPT ![t][l] = link[m_head][l]]
        /\ UNCHANGED <<link, layer>>
  /\ UNCHANGED <<key, m_height, pool, retired, pushes, pc, op, node, atSet, probing, flagged, cursor>>

PushReturns(t) ==
  /\ pc[t] \in {"link_to_head_upper", "link_to_node_upper"}
  /\ layer[t] >= m_height[node[t]]
  /\ Return(t, retired)
  /\ UNCHANGED <<link, key, m_height, pool, pushes>>

-----------------------------------------------------------------------------
(* can_be_found_from: a scan of the base layer *)

Target(t) == IF op[t] = "push" THEN atSet[t][0].node ELSE node[t]

\* At n the scan has found the node, or is past it, or goes on.
ScanAt(t, n, found, missing) ==
  /\ Goto(t, IF n = Target(t) THEN found
             ELSE IF n = m_head \/ key[Target(t)] < key[n] THEN missing
             ELSE "scan")
  /\ cursor' = [cursor EXCEPT ![t] = IF pc'[t] = "scan" THEN View(n, 0) ELSE NoView]

Scan(t) ==
  /\ pc[t] = "scan"
  /\ LET n == link[cursor[t].node][0].node IN
     IF op[t] = "push" THEN ScanAt(t, n, "found", "failed") ELSE ScanAt(t, n, "unflag", "unclaimed")
  /\ UNCHANGED <<shared, op, node, atSet, nextSet, layer, probing, flagged>>

-----------------------------------------------------------------------------
(* push: behind a flagged node *)

\* The predecessor is being popped: it is replaced at the front by the new node.
link_to_front(t) ==
  LET front == link[m_head][0]
      height == m_height[front.node] IN
  /\ pc[t] = "splice" /\ ~AtHead(t) /\ is_flagged(nextSet[t][0])
  /\ atSet[t][0].node = front.node
  /\ nextSet[t][0].version = version_add_one(front.version)
  /\ link' = [link EXCEPT ![node[t]] = Prepared(t)]
  /\ atSet' = [atSet EXCEPT ![t][0] = front]
  /\ nextSet' = [nextSet EXCEPT ![t][0] = View(node[t], 0)]
  /\ IF height = 1
       THEN Goto(t, "delink") /\ layer' = [layer EXCEPT ![t] = 0]
       ELSE /\ Goto(t, IF m_height[node[t]] < height THEN "load_front" ELSE "load_next")
            /\ layer' = [layer EXCEPT ![t] = 1]
  /\ UNCHANGED <<key, m_height, pool, retired, pushes, op, node, probing, flagged, cursor>>

\* The predecessor was supplanted as front while it was being popped and is the front
\* again, with the old flag; or it may have left the list.
BehindFlagged(t) ==
  LET front == link[m_head][0] IN
  /\ pc[t] = "splice" /\ ~AtHead(t) /\ is_flagged(nextSet[t][0])
  /\ IF atSet[t][0].node = front.node
       THEN /\ nextSet[t][0].version # version_add_one(front.version)
            /\ Goto(t, "unflag")
            /\ UNCHANGED cursor
       ELSE ScanAt(t, front.node, "found", "failed")
  /\ UNCHANGED <<shared, op, node, atSet, nextSet, layer, probing, flagged>>

-----------------------------------------------------------------------------
(* try_pop, clear: the front *)

PopFront(t) ==
  LET front == link[m_head][0] IN
  /\ front.node # m_head
  /\ op' = [op EXCEPT ![t] = "pop"]
  /\ node' = [node EXCEPT ![t] = front.node]
  /\ atSet' = [atSet EXCEPT ![t] = [NoViews EXCEPT ![0] = front]]
  /\ nextSet' = [nextSet EXCEPT ![t] = NoViews]
  /\ flagged' = [flagged EXCEPT ![t] = FALSE]
  /\ IF m_height[front.node] = 1
       THEN Goto(t, "load_next") /\ layer' = [layer EXCEPT ![t] = 0]
       ELSE Goto(t, "load_front") /\ layer' = [layer EXCEPT ![t] = 1]
  /\ UNCHANGED <<shared, probing, cursor>>

\* try_pop of an empty queue changes nothing.
TryPop(t) == MayBegin(t) /\ PopFront(t)

ClearFront(t) ==
  LET front == link[m_head][0] IN
  /\ front.node # m_head
  /\ op' = [op EXCEPT ![t] = "clear"]
  /\ node' = [node EXCEPT ![t] = front.node]
  /\ atSet' = [atSet EXCEPT ![t] = [NoViews EXCEPT ![0] = front]]
  /\ nextSet' = [nextSet EXCEPT ![t] = HeadViews]
  /\ IF LinkTowerHeight = 1
       THEN Goto(t, "delink") /\ layer' = [layer EXCEPT ![t] = 0]
       ELSE Goto(t, "load_front") /\ layer' = [layer EXCEPT ![t] = 1]
  /\ UNCHANGED <<shared, probing, flagged, cursor>>

Clear(t) == t \in Clearers /\ MayBegin(t) /\ (ClearAlone => Idle) /\ ClearFront(t)
TryAgain(t) == pc[t] = "front" /\ IF op[t] = "clear" THEN ClearFront(t) ELSE PopFront(t)

\* The queue is found empty at another try.
NothingLeft(t) ==
  /\ pc[t] = "front"
  /\ Front = m_head
  /\ Return(t, retired)
  /\ UNCHANGED <<link, key, m_height, pool, pushes>>

\* load_set of the links of m_head, then of those of the front.
LoadFrontSet(t) ==
  /\ pc[t] = "load_front"
  /\ atSet' = [atSet EXCEPT ![t][layer[t]] = link[m_head][layer[t]]]
  /\ IF layer[t] + 1 < FrontHeight(t)
       THEN layer' = [layer EXCEPT ![t] = @ + 1] /\ UNCHANGED pc
       ELSE IF op[t] = "clear"
       THEN layer' = [layer EXCEPT ![t] = FrontHeight(t) - 1] /\ Goto(t, "delink")
       ELSE layer' = [layer EXCEPT ![t] = IF op[t] = "push" THEN 1 ELSE 0] /\ Goto(t, "load_next")
  /\ UNCHANGED <<shared, op, node, nextSet, probing, flagged, cursor>>

LoadNextSet(t) ==
  LET front == IF op[t] = "push" THEN atSet[t][0].node ELSE node[t] IN
  /\ pc[t] = "load_next"
  /\ nextSet' = [nextSet EXCEPT ![t][layer[t]] = link[front][layer[t]]]
  /\ IF layer[t] + 1 < FrontHeight(t)
       THEN layer' = [layer EXCEPT ![t] = @ + 1] /\ UNCHANGED pc
       ELSE /\ layer' = [layer EXCEPT ![t] = FrontHeight(t) - 1]
            /\ Goto(t, IF op[t] = "push" THEN "delink" ELSE "flag")
  /\ UNCHANGED <<shared, op, node, atSet, probing, flagged, cursor>>

-----------------------------------------------------------------------------
(* try_pop: flagging the front *)

FlagVersion(t) == version_add_one(atSet[t][0].version)

Flag(t) ==
  /\ pc[t] = "flag"
  /\ nextSet[t][0].version # FlagVersion(t)
  /\ in_range(nextSet[t][0].version, FlagVersion(t))
  /\ link[node[t]][0] = nextSet[t][0]
  /\ link' = [link EXCEPT ![node[t]][0].version = FlagVersion(t)]
  /\ nextSet' = [nextSet EXCEPT ![t][0].version = FlagVersion(t)]
  /\ flagged' = [flagged EXCEPT ![t] = TRUE]
  /\ Goto(t, "delink")
  /\ UNCHANGED <<key, m_height, pool, retired, pushes, op, node, atSet, layer, probing, cursor>>

\* Another thread has flagged it for this version: it is helped.
FlagCompetitor(t) ==
  LET seen == nextSet[t][0]
      now == IF seen.version = FlagVersion(t) THEN seen ELSE link[node[t]][0] IN
  /\ pc[t] = "flag"
  /\ in_range(seen.version, FlagVersion(t))
  /\ now.version = FlagVersion(t)
  /\ nextSet' = [nextSet EXCEPT ![t][0] = now]
  /\ Goto(t, "delink")
  /\ UNCHANGED <<shared, op, node, atSet, layer, probing, flagged, cursor>>

FlagUnexpected(t) ==
  LET seen == nextSet[t][0]
      now == link[node[t]][0] IN
  /\ pc[t] = "flag"
  /\ seen.version # FlagVersion(t)
  /\ \/ ~in_range(seen.version, FlagVersion(t))
     \/ now # seen /\ now.version # FlagVersion(t)
  /\ Retry(t)
  /\ UNCHANGED shared

-----------------------------------------------------------------------------
(* delink_front: the front is replaced, from the top layer down *)

\* One exchange of exchange_head_link, to the version after the front's.
DelinkUpper(t) ==
  LET l == layer[t]
      version == version_add_one(atSet[t][0].version)
      expected == atSet[t][l]
      desired == View(nextSet[t][l].node, version) IN
  /\ pc[t] = "delink"
  /\ l > 0
  /\ \/ /\ expected.version = version
        /\ layer' = [layer EXCEPT ![t] = @ - 1]
        /\ UNCHANGED <<link, atSet>>
     \/ /\ ExchangesHead(t, expected, version)
        /\ link' = [link EXCEPT ![m_head][l] = desired]
        /\ atSet' = [atSet EXCEPT ![t][l] = desired]
        /\ layer' = [layer EXCEPT ![t] = @ - 1]
     \/ /\ expected.version # version
        /\ in_range(expected.version, version)
        /\ link[m_head][l] # expected
        /\ atSet' = [atSet EXCEPT ![t][l] = link[m_head][l]]
        /\ UNCHANGED <<link, layer>>
  /\ UNCHANGED <<key, m_height, pool, retired, pushes, pc, op, node, nextSet, probing, flagged, cursor>>

\* delink_front returns false, with what it found at the head: push fails, clear tries
\* again, and so does try_pop if the flag of the front is another thread's.
Undelinked(t, seen) ==
  IF op[t] = "push" \/ flagged[t]
    THEN /\ Goto(t, IF flagged[t] THEN "by_other" ELSE "failed")
         /\ atSet' = [atSet EXCEPT ![t][0] = seen]
         /\ UNCHANGED <<op, node, nextSet, layer, probing, flagged, cursor>>
    ELSE Retry(t)

DelinkFails(t) ==
  /\ pc[t] = "delink"
  /\ layer[t] > 0
  /\ atSet[t][layer[t]].version # version_add_one(atSet[t][0].version)
  /\ ~in_range(atSet[t][layer[t]].version, version_add_one(atSet[t][0].version))
  /\ Undelinked(t, atSet[t][0])
  /\ UNCHANGED shared

DelinksBase(t) ==
  \/ pc[t] = "delink_base"
  \/ pc[t] = "delink" /\ layer[t] = 0 /\ ~NeedsLagCheck(t)
Delinked(t) == View(nextSet[t][0].node, version_step(atSet[t][0].version, Offset(t)))

\* try_pop returns what it has flagged and delinked.  The nodes it recycles wait for the
\* other threads that are guarded.
Recycle(t) ==
  /\ pool' = [pool EXCEPT ![node[t]] = @ + 1]
  /\ Return(t, [retired EXCEPT ![node[t]] = {u \in Threads : Guarded(u)}])

PopReturns(t) ==
  /\ DelinksBase(t) /\ op[t] = "pop" /\ flagged[t]
  /\ link[m_head][0] = atSet[t][0]
  /\ link' = [link EXCEPT ![m_head][0] = Delinked(t)]
  /\ Recycle(t)
  /\ UNCHANGED <<key, m_height, pushes>>

DelinkBase(t) ==
  /\ DelinksBase(t) /\ ~flagged[t]
  /\ link[m_head][0] = atSet[t][0]
  /\ link' = [link EXCEPT ![m_head][0] = Delinked(t)]
  /\ Goto(t, CASE op[t] = "push" -> "link_to_head_upper"
               [] op[t] = "pop" -> "front"
               [] op[t] = "clear" -> "recycle")
  /\ layer' = [layer EXCEPT ![t] = 1]
  /\ nextSet' = [nextSet EXCEPT ![t] = IF op[t] = "push" THEN [atSet[t] EXCEPT ![0] = Delinked(t)] ELSE NoViews]
  /\ atSet' = [atSet EXCEPT ![t] = NoViews]
  /\ UNCHANGED <<key, m_height, pool, retired, pushes, op, node, probing, flagged, cursor>>

DelinkBaseFails(t) ==
  /\ DelinksBase(t)
  /\ link[m_head][0] # atSet[t][0]
  /\ Undelinked(t, link[m_head][0])
  /\ UNCHANGED shared

\* clear: the nodes are recycled along the base layer as it is now.
ClearRecycles(t) ==
  LET next == link[node[t]][0].node IN
  /\ pc[t] = "recycle"
  /\ IF next = m_head
       THEN Recycle(t)
       ELSE /\ pool' = [pool EXCEPT ![node[t]] = @ + 1]
            /\ retired' = [retired EXCEPT ![node[t]] = {u \in Threads : Guarded(u)}]
            /\ node' = [node EXCEPT ![t] = next]
            /\ UNCHANGED <<pc, op, atSet, nextSet, layer, probing, flagged, cursor>>
  /\ UNCHANGED <<link, key, m_height, pushes>>

\* Not concurrency safe, and for an empty queue: the pool gets new nodes, the links of
\* m_head the version they began with.
UnsafeReset ==
  /\ Idle
  /\ Front = m_head
  /\ link' = FreshLinks
  /\ pool' = [n \in Nodes |-> 1]
  /\ retired' = [n \in Nodes |-> {}]
  /\ UNCHANGED <<key, m_height, pushes, pc, local>>

-----------------------------------------------------------------------------
(* has_been_delinked_by_other *)

\* The front was replaced by what this thread wanted there.
DelinkedByOther(t) ==
  /\ pc[t] = "by_other"
  /\ atSet[t][0] = nextSet[t][0]
  /\ Recycle(t)
  /\ UNCHANGED <<link, key, m_height, pushes>>

LookForNode(t) ==
  LET actual == atSet[t][0]
      tried == nextSet[t][0] IN
  /\ pc[t] = "by_other"
  /\ actual # tried
  /\ ScanAt(t, IF in_range(actual.version, tried.version) THEN Front ELSE actual.node,
            "unflag", "unclaimed")
  /\ UNCHANGED <<shared, op, node, atSet, nextSet, layer, probing, flagged>>

\* Mutant: whose flag it has is not looked at.
StillUnclaimed_AnyFlag(t) ==
  /\ pc[t] = "unclaimed"
  /\ Recycle(t)
  /\ UNCHANGED <<link, key, m_height, pushes>>

\* It is not in the list: it belongs to the thread whose flag it still has.
StillUnclaimed(t) ==
  /\ pc[t] = "unclaimed"
  /\ link[node[t]][0].version = nextSet[t][0].version
  /\ Recycle(t)
  /\ UNCHANGED <<link, key, m_height, pushes>>

Claimed(t) ==
  /\ pc[t] = "unclaimed"
  /\ link[node[t]][0].version # nextSet[t][0].version
  /\ Goto(t, "unflag")
  /\ UNCHANGED <<shared, local>>

\* Mutant: the flag stays.
delink_unflag_node_Keeps(t) ==
  /\ pc[t] = "unflag"
  /\ IF op[t] = "push" THEN PushFails(t)
                       ELSE Retry(t) /\ UNCHANGED retired
  /\ UNCHANGED <<link, key, m_height, pool, pushes>>

delink_unflag_node(t) ==
  LET at == Target(t) IN
  /\ pc[t] = "unflag"
  /\ link' = IF link[at][0] = nextSet[t][0] THEN [link EXCEPT ![at][0].version = 0] ELSE link
  /\ IF op[t] = "push" THEN PushFails(t)
                       ELSE Retry(t) /\ UNCHANGED retired
  /\ UNCHANGED <<key, m_height, pool, pushes>>

-----------------------------------------------------------------------------
(* counteract_version_lag: the links of m_head above the node or the front that lag *)
(* far behind the base link are brought forward.                                    *)


BeginLagCheck(t) ==
  /\ \/ pc[t] = "splice" /\ AtHead(t)
     \/ pc[t] = "delink" /\ layer[t] = 0
  /\ NeedsLagCheck(t)
  /\ layer' = [layer EXCEPT ![t] = IF ToHead(t) THEN m_height[node[t]] ELSE FrontHeight(t)]
  /\ Goto(t, "lag")
  /\ UNCHANGED <<shared, op, node, atSet, nextSet, probing, flagged, cursor>>

LagView(t) ==
  IF cursor[t] # NoView THEN cursor[t] ELSE IF ToHead(t) THEN nextSet[t][layer[t]] ELSE atSet[t][layer[t]]
LagsBehind(t, v) == version_delta(v.version, VersionBase(t)) > ExpectedListSize

LoadLagging(t) ==
  /\ pc[t] = "lag"
  /\ layer[t] < LinkTowerHeight
  /\ LagView(t) = NoView
  /\ cursor' = [cursor EXCEPT ![t] = link[m_head][layer[t]]]
  /\ UNCHANGED <<shared, pc, op, node, atSet, nextSet, layer, probing, flagged>>

CheckLag(t) ==
  /\ pc[t] = "lag"
  /\ layer[t] < LinkTowerHeight
  /\ LagView(t) # NoView
  /\ IF in_range(LagView(t).version, VersionBase(t)) /\ LagsBehind(t, LagView(t))
       THEN /\ cursor' = [cursor EXCEPT ![t] = LagView(t)]
            /\ Goto(t, "drag")
            /\ UNCHANGED layer
       ELSE /\ cursor' = [cursor EXCEPT ![t] = NoView]
            /\ layer' = [layer EXCEPT ![t] = @ + 1]
            /\ UNCHANGED pc
  /\ UNCHANGED <<shared, op, node, atSet, nextSet, probing, flagged>>

Drag(t) ==
  LET now == link[m_head][layer[t]] IN
  /\ pc[t] = "drag"
  /\ link' = IF now = cursor[t]
               THEN [link EXCEPT ![m_head][layer[t]].version = version_sub_one(VersionBase(t))] ELSE link
  /\ IF now # cursor[t] /\ LagsBehind(t, now)
       THEN /\ cursor' = [cursor EXCEPT ![t] = now]
            /\ UNCHANGED <<pc, layer>>
       ELSE /\ cursor' = [cursor EXCEPT ![t] = NoView]
            /\ layer' = [layer EXCEPT ![t] = @ + 1]
            /\ Goto(t, "lag")
  /\ UNCHANGED <<key, m_height, pool, retired, pushes, op, node, atSet, nextSet, probing, flagged>>

LagChecked(t) ==
  /\ pc[t] = "lag"
  /\ layer[t] = LinkTowerHeight
  /\ Goto(t, IF ToHead(t) THEN "link_to_head" ELSE "delink_base")
  /\ UNCHANGED <<shared, local>>

-----------------------------------------------------------------------------
Search(t) == Forward(t) \/ BeginProbing(t) \/ Verify(t) \/ VerifyFails(t) \/ Down(t) \/ Reload(t)
LinkNode(t) ==
  \/ link_to_head(t) \/ link_to_node(t) \/ LinkFails(t) \/ link_to_front(t) \/ BehindFlagged(t)
  \/ link_to_node_upper(t) \/ link_to_head_upper(t) \/ PushReturns(t)
Pop(t) ==
  \/ TryAgain(t) \/ NothingLeft(t) \/ LoadFrontSet(t) \/ LoadNextSet(t)
  \/ Flag(t) \/ FlagCompetitor(t) \/ FlagUnexpected(t)
  \/ DelinkedByOther(t) \/ LookForNode(t) \/ Scan(t) \/ StillUnclaimed(t) \/ Claimed(t)
  \/ delink_unflag_node(t)
DelinkFront(t) ==
  \/ DelinkUpper(t) \/ DelinkFails(t) \/ DelinkBase(t) \/ PopReturns(t) \/ DelinkBaseFails(t)
CounteractLag(t) ==
  BeginLagCheck(t) \/ LoadLagging(t) \/ CheckLag(t) \/ Drag(t) \/ LagChecked(t)

Step(t) ==
  \/ TryPush(t) \/ Search(t) \/ LinkNode(t) \/ Pop(t) \/ ClearRecycles(t)
  \/ DelinkFront(t) \/ CounteractLag(t)

Next ==
  \/ UnsafeReset
  \/ \E t \in Threads : Push(t) \/ TryPop(t) \/ Clear(t) \/ Step(t)

SafeSpec == Init /\ [][Next]_vars

\* A thread inside an operation goes on.
Spec == SafeSpec /\ \A t \in Threads : WF_vars(Step(t))

-----------------------------------------------------------------------------
Views == [node : AllNodes \cup {None}, version : 0 .. MaxVersion]

TypeOK ==
  /\ link \in [AllNodes -> [Layers -> Views]]
  /\ key \in [Nodes -> Keys \cup {0}]
  /\ m_height \in [AllNodes -> 1 .. LinkTowerHeight]
  /\ pool \in [Nodes -> Nat]
  /\ retired \in [Nodes -> SUBSET Threads]
  /\ node \in [Threads -> Nodes \cup {None}]
  /\ atSet \in [Threads -> [Layers -> Views]]
  /\ nextSet \in [Threads -> [Layers -> Views]]
  /\ layer \in [Threads -> 0 .. LinkTowerHeight]
  /\ probing \in [Threads -> BOOLEAN]
  /\ flagged \in [Threads -> BOOLEAN]
  /\ cursor \in [Threads -> Views]

\* The nodes that the base links lead to.
InList ==
  LET reach[i \in 0 .. Cardinality(Nodes)] ==
        IF i = 0 THEN {m_head} ELSE reach[i - 1] \cup {link[n][0].node : n \in reach[i - 1]}
  IN reach[Cardinality(Nodes)] \ {m_head}

\* try_pop: a node is popped, and recycled, by one thread only, which has it to itself:
\* it is not in the list any more.
PoppedOnce == \A n \in Nodes : pool[n] <= 1 /\ (pool[n] = 1 => n \notin InList)

\* Whatever was pushed and not popped is in the list when nobody is at work.
NothingLost == Idle => \A n \in Nodes : pool[n] = 0 => n \in InList

\* What the versions of the upper links are for: a node that may be handed out for the
\* next push is not where a search or a pop could come across it.
Shortcuts == {link[n][l].node : n \in InList \cup {m_head}, l \in Layers \ {0}} \ {m_head, None}
NoStaleShortcut == \A n \in Nodes : pool[n] > 0 /\ retired[n] = {} => n \notin Shortcuts

\* Nodes leave the list from the front, one at a time, the least key first, and clear is
\* the exception: what a push puts in front of the node that is being popped is not
\* popped with it.
LeastFirst ==
  [][\A n \in InList \ InList' :
       \/ n = Front /\ \A m \in InList : key[n] <= key[m]
       \/ \E t \in Threads : op[t] = "clear"]_vars

\* The queue is lock-free: of finitely many operations all return, however they meet.
AllReturn == []<>Idle
=============================================================================
