------------------------ MODULE JobDependenciesProofs ------------------------
(***************************************************************************)
(* Proofs about JobDependencies, for every set of jobs, finite set of      *)
(* calls, set of workers and dependency relation (also a cyclic one).      *)
(*                                                                         *)
(* None of the properties is inductive alone.  That a counter is exact     *)
(* needs that no link is released twice, which needs that the lists hold   *)
(* exactly the attached links, which needs that an exchange that succeeds  *)
(* found the head it had read, which needs the versions.                   *)
(***************************************************************************)
EXTENDS JobDependencies, FiniteSetTheorems, TLAPS

Elements(s) == {s[i] : i \in 1 .. Len(s)}

\* The executor of p has taken the list of p away.
Detached(p) == phase[p] \in {"detaching", "done"}

\* The lists of a job hold each of its attached links once, and nothing else.
ListOf(p, s) ==
  /\ \A i \in 1 .. Len(s) : Parent(s[i]) = p /\ link[s[i]] = "attached"
  /\ \A i, k \in 1 .. Len(s) : s[i] = s[k] => i = k

Lists ==
  /\ \A p \in Jobs : ListOf(p, m_headDependee[p].list) /\ ListOf(p, detaching[p])
  /\ \A l \in Links :
       link[l] = "attached" =>
         \/ l \in Elements(m_headDependee[Parent(l)].list)
         \/ l \in Elements(detaching[Parent(l)])

\* What the phase of an executor says of the lists and of m_finished.
PhaseFacts ==
  \A p \in Jobs :
    /\ m_finished[p] <=> phase[p] \in {"flagged", "detaching", "done"}
    /\ Detached(p) => m_headDependee[p].list = <<>>
    /\ phase[p] # "detaching" => detaching[p] = <<>>

\* Every link that was taken back or released had a finished parent.
LateLinks ==
  \A l \in Links :
    link[l] \in {"late", "resubmit", "undone", "release", "released"}
      => m_finished[Parent(l)]

\* The links that were ever put in the list of p: each raised the version.
Joined(p) == {l \in Links : Parent(l) = p /\ link[l] \in {"attached", "release", "released"}}

HeadVersions ==
  \A p \in Jobs :
    m_headDependee[p].version = Cardinality(Joined(p)) + (IF Detached(p) THEN 1 ELSE 0)

\* A head that was read and has the current version is the current head, and
\* a call that found its parent unfinished cannot hold the version that the
\* list has after it was taken.
SeenHeads ==
  \A l \in Links :
    /\ link[l] \in {"check", "exchange"} =>
         /\ seen[l].version <= m_headDependee[Parent(l)].version
         /\ seen[l].version = m_headDependee[Parent(l)].version
              => seen[l] = m_headDependee[Parent(l)]
    /\ link[l] = "exchange" /\ Detached(Parent(l)) =>
         seen[l].version < m_headDependee[Parent(l)].version

IInv ==
  /\ TypeOK
  /\ DependencyCount
  /\ HandedOnce
  /\ Lists
  /\ PhaseFacts
  /\ LateLinks
  /\ HeadVersions
  /\ SeenHeads

-----------------------------------------------------------------------------
(* Counting links. *)

One(b) == IF b THEN 1 ELSE 0

\* When one link enters or leaves a set of links, its size follows.
LEMMA MovedSize ==
  ASSUME NEW A \in SUBSET Links, NEW B \in SUBSET Links, NEW l \in Links,
         \A k \in Links : k # l => (k \in A <=> k \in B)
  PROVE  /\ IsFiniteSet(A) /\ IsFiniteSet(B)
         /\ Cardinality(A) \in Nat /\ Cardinality(B) \in Nat
         /\ Cardinality(B) = Cardinality(A) + One(l \in B) - One(l \in A)
<1>1. IsFiniteSet(Links)
  BY DependencyAssumption
<1>2. /\ IsFiniteSet(A) /\ IsFiniteSet(B)
  BY <1>1, FS_Subset
<1>3. Cardinality(A) \in Nat /\ Cardinality(B) \in Nat
  BY <1>2, FS_CardinalityType
<1>4. CASE l \in B /\ l \notin A
  <2>1. B = A \cup {l}
    BY <1>4
  <2>2. Cardinality(B) = Cardinality(A) + 1
    BY <1>2, <1>4, <2>1, FS_AddElement
  <2> QED
    BY <1>2, <1>3, <1>4, <2>2 DEF One
<1>5. CASE l \notin B /\ l \in A
  <2>1. A = B \cup {l}
    BY <1>5
  <2>2. Cardinality(A) = Cardinality(B) + 1
    BY <1>2, <1>5, <2>1, FS_AddElement
  <2> QED
    BY <1>2, <1>3, <1>5, <2>2 DEF One
<1>6. CASE (l \in A) = (l \in B)
  <2>1. A = B
    BY <1>6
  <2> QED
    BY <1>2, <1>3, <2>1 DEF One
<1> QED
  BY <1>4, <1>5, <1>6

\* The sets of links that are counted are finite.
LEMMA CountsAreNatural ==
  ASSUME NEW A \in SUBSET Links
  PROVE  /\ IsFiniteSet(A) /\ Cardinality(A) \in Nat
         /\ Cardinality(A) <= Cardinality(Links) /\ Cardinality(Links) \in Nat
         /\ Cardinality(A) = 0 <=> A = {}
         /\ \A l \in Links : l \notin A => Cardinality(A) + 1 <= Cardinality(Links)
<1>1. /\ IsFiniteSet(Links) /\ Cardinality(Links) \in Nat
  BY DependencyAssumption, FS_CardinalityType
<1>2. /\ IsFiniteSet(A) /\ Cardinality(A) \in Nat
      /\ Cardinality(A) <= Cardinality(Links)
  BY <1>1, FS_Subset, FS_CardinalityType
<1>3. Cardinality(A) = 0 <=> A = {}
  BY <1>2, FS_EmptySet
<1>4. ASSUME NEW l \in Links, l \notin A
      PROVE  Cardinality(A) + 1 <= Cardinality(Links)
  <2>1. Cardinality(A \cup {l}) = Cardinality(A) + 1
    BY <1>2, <1>4, FS_AddElement
  <2>2. A \cup {l} \in SUBSET Links
    BY <1>4
  <2> QED
    BY <1>1, <2>1, <2>2, FS_Subset
<1> QED
  BY <1>1, <1>2, <1>3, <1>4

\* A step that moves link l on to stage s changes each count at the child or
\* the parent of l only, and there by what the old and the new stage say.
CountsMove(l, s) ==
  \A j \in Jobs :
    /\ Cardinality(Outstanding(j)') =
         Cardinality(Outstanding(j))
           + (IF Child(l) = j THEN One(s \in Counted) - One(link[l] \in Counted) ELSE 0)
    /\ Cardinality(Submitters(j)') =
         Cardinality(Submitters(j))
           + (IF Child(l) = j
              THEN One(s \in {"resubmit", "release"}) - One(link[l] \in {"resubmit", "release"})
              ELSE 0)
    /\ Cardinality(Joined(j)') =
         Cardinality(Joined(j))
           + (IF Parent(l) = j
              THEN One(s \in {"attached", "release", "released"})
                   - One(link[l] \in {"attached", "release", "released"})
              ELSE 0)

LEMMA LinkMoves ==
  ASSUME TypeOK, NEW l \in Links, NEW s \in LinkStages,
         link' = [link EXCEPT ![l] = s], edge' = edge
  PROVE  CountsMove(l, s)
<1> SUFFICES ASSUME NEW j \in Jobs
             PROVE  /\ Cardinality(Outstanding(j)') =
                         Cardinality(Outstanding(j))
                           + (IF Child(l) = j THEN One(s \in Counted) - One(link[l] \in Counted) ELSE 0)
                    /\ Cardinality(Submitters(j)') =
                         Cardinality(Submitters(j))
                           + (IF Child(l) = j
                              THEN One(s \in {"resubmit", "release"}) - One(link[l] \in {"resubmit", "release"})
                              ELSE 0)
                    /\ Cardinality(Joined(j)') =
                         Cardinality(Joined(j))
                           + (IF Parent(l) = j
                              THEN One(s \in {"attached", "release", "released"})
                                   - One(link[l] \in {"attached", "release", "released"})
                              ELSE 0)
  BY DEF CountsMove
<1>0. \A k \in Links : link'[k] = IF k = l THEN s ELSE link[k]
  BY DEF TypeOK
<1>1. /\ Outstanding(j) \in SUBSET Links /\ Outstanding(j)' \in SUBSET Links
      /\ \A k \in Links : k # l => (k \in Outstanding(j) <=> k \in Outstanding(j)')
      /\ l \in Outstanding(j) <=> Child(l) = j /\ link[l] \in Counted
      /\ l \in Outstanding(j)' <=> Child(l) = j /\ s \in Counted
  BY <1>0 DEF Outstanding, Child
<1>2. /\ Submitters(j) \in SUBSET Links /\ Submitters(j)' \in SUBSET Links
      /\ \A k \in Links : k # l => (k \in Submitters(j) <=> k \in Submitters(j)')
      /\ l \in Submitters(j) <=> Child(l) = j /\ link[l] \in {"resubmit", "release"}
      /\ l \in Submitters(j)' <=> Child(l) = j /\ s \in {"resubmit", "release"}
  BY <1>0 DEF Submitters, Child
<1>3. /\ Joined(j) \in SUBSET Links /\ Joined(j)' \in SUBSET Links
      /\ \A k \in Links : k # l => (k \in Joined(j) <=> k \in Joined(j)')
      /\ l \in Joined(j) <=> Parent(l) = j /\ link[l] \in {"attached", "release", "released"}
      /\ l \in Joined(j)' <=> Parent(l) = j /\ s \in {"attached", "release", "released"}
  BY <1>0 DEF Joined, Parent
<1>4. Cardinality(Outstanding(j)') =
        Cardinality(Outstanding(j)) + One(l \in Outstanding(j)') - One(l \in Outstanding(j))
  BY <1>1, MovedSize
<1>5. Cardinality(Submitters(j)') =
        Cardinality(Submitters(j)) + One(l \in Submitters(j)') - One(l \in Submitters(j))
  BY <1>2, MovedSize
<1>6. Cardinality(Joined(j)') =
        Cardinality(Joined(j)) + One(l \in Joined(j)') - One(l \in Joined(j))
  BY <1>3, MovedSize
<1>7. /\ Cardinality(Outstanding(j)) \in Nat
      /\ Cardinality(Submitters(j)) \in Nat
      /\ Cardinality(Joined(j)) \in Nat
  BY <1>1, <1>2, <1>3, CountsAreNatural
<1> QED
  BY <1>1, <1>2, <1>3, <1>4, <1>5, <1>6, <1>7 DEF One

-----------------------------------------------------------------------------
(* What the invariant says about a job whose counter is known. *)

\* A counter is zero exactly when the job is enabled and nothing is counted,
\* and it reaches Job_Enable_Dependencies exactly when the job is not enabled.
LEMMA CounterFacts ==
  ASSUME TypeOK, DependencyCount, NEW j \in Jobs
  PROVE  /\ m_dependencies[j] = 0 <=> enabler[j] # "no" /\ Outstanding(j) = {}
         /\ m_dependencies[j] >= EnableDependencies <=> enabler[j] = "no"
         /\ m_dependencies[j] = EnableDependencies <=> enabler[j] = "no" /\ Outstanding(j) = {}
         /\ Outstanding(j) # {} => m_dependencies[j] - 1 \in Nat
<1>1. /\ Cardinality(Outstanding(j)) \in Nat
      /\ Cardinality(Outstanding(j)) <= Cardinality(Links) /\ Cardinality(Links) \in Nat
      /\ Cardinality(Outstanding(j)) = 0 <=> Outstanding(j) = {}
  BY CountsAreNatural DEF Outstanding
<1>2. /\ EnableDependencies \in Nat
      /\ EnableDependencies > Cardinality(Links)
  BY DependencyAssumption
<1>3. m_dependencies[j] =
        Cardinality(Outstanding(j)) + (IF enabler[j] = "no" THEN EnableDependencies ELSE 0)
  BY DEF DependencyCount
<1> QED
  BY <1>1, <1>2, <1>3

\* Whoever holds a job holds it alone, and its counter is zero.
LEMMA HolderFacts ==
  ASSUME TypeOK, HandedOnce, NEW j \in Jobs
  PROVE  /\ Cardinality(Submitters(j)) \in Nat
         /\ Submitters(j) = {} <=> Cardinality(Submitters(j)) = 0
         /\ phase[j] # "waiting" => m_dependencies[j] = 0 /\ queue[j] = 0
         /\ queue[j] > 0 => m_dependencies[j] = 0 /\ phase[j] = "waiting"
         /\ m_dependencies[j] # 0 => phase[j] = "waiting" /\ Handed(j) = 0
<1>1. /\ Cardinality(Submitters(j)) \in Nat
      /\ Cardinality(Submitters(j)) = 0 <=> Submitters(j) = {}
  BY CountsAreNatural DEF Submitters
<1>2. queue[j] \in Nat
  BY DEF TypeOK
<1>3. Handed(j) = IF m_dependencies[j] = 0 THEN 1 ELSE 0
  BY DEF HandedOnce
<1> QED
  BY <1>1, <1>2, <1>3 DEF Handed

\* The lists stay as they are when no attached link is touched.
LEMMA ListsUntouched ==
  ASSUME TypeOK, Lists, NEW l \in Links, NEW s \in LinkStages,
         link' = [link EXCEPT ![l] = s], edge' = edge,
         link[l] # "attached", s # "attached",
         m_headDependee' = m_headDependee, detaching' = detaching
  PROVE  Lists'
<1>0. \A k \in Links : link'[k] = IF k = l THEN s ELSE link[k]
  BY DEF TypeOK
<1>1. \A p \in Jobs : /\ m_headDependee[p].list \in Seq(Links)
                      /\ detaching[p] \in Seq(Links)
  BY DEF TypeOK, Heads
<1>2. \A p \in Jobs : /\ ListOf(p, m_headDependee[p].list)'
                      /\ ListOf(p, detaching[p])'
  <2> TAKE p \in Jobs
  <2>1. /\ ListOf(p, m_headDependee[p].list) /\ ListOf(p, detaching[p])
    BY DEF Lists
  <2>2. \A i \in 1 .. Len(m_headDependee[p].list) : m_headDependee[p].list[i] \in Links
    BY <1>1
  <2>3. \A i \in 1 .. Len(detaching[p]) : detaching[p][i] \in Links
    BY <1>1
  <2> QED
    BY <1>0, <2>1, <2>2, <2>3 DEF ListOf, Parent
<1>3. \A k \in Links :
        link'[k] = "attached" =>
          \/ k \in Elements(m_headDependee[Parent(k)].list)'
          \/ k \in Elements(detaching[Parent(k)])'
  BY <1>0 DEF Lists, Elements, Parent
<1> QED
  BY <1>2, <1>3 DEF Lists

\* A step that touches no link and no list, as seen by the lists, the late
\* links and the heads that were read.
LEMMA ListsSame ==
  ASSUME Lists, link' = link, edge' = edge,
         m_headDependee' = m_headDependee, detaching' = detaching
  PROVE  Lists'
BY DEF Lists, ListOf, Elements, Parent

\* The counts of a step that touches no link.
LEMMA CountsSame ==
  ASSUME link' = link, edge' = edge
  PROVE  \A j \in Jobs : /\ Outstanding(j)' = Outstanding(j)
                         /\ Submitters(j)' = Submitters(j)
                         /\ Joined(j)' = Joined(j)
BY DEF Outstanding, Submitters, Joined, Child, Parent

\* The ends of a link are jobs.
LEMMA EndsAreJobs ==
  ASSUME TypeOK, NEW l \in Links
  PROVE  Child(l) \in Jobs /\ Parent(l) \in Jobs
BY DependencyAssumption DEF TypeOK, Child, Parent

\* The counts are natural numbers, and so are the versions of all heads.
LEMMA CountsAndVersions ==
  ASSUME TypeOK
  PROVE  /\ \A j \in Jobs : /\ Cardinality(Outstanding(j)) \in Nat
                            /\ Cardinality(Submitters(j)) \in Nat
                            /\ Cardinality(Joined(j)) \in Nat
         /\ \A p \in Jobs : m_headDependee[p].version \in Nat /\ m_headDependee[p] \in Heads
         /\ \A l \in Links : seen[l].version \in Nat /\ seen[l] \in Heads
<1>1. \A j \in Jobs : /\ Cardinality(Outstanding(j)) \in Nat
                      /\ Cardinality(Submitters(j)) \in Nat
                      /\ Cardinality(Joined(j)) \in Nat
  BY CountsAreNatural DEF Outstanding, Submitters, Joined
<1>2. 0 .. Versions - 1 \subseteq Nat
  BY DependencyAssumption
<1> QED
  BY <1>1, <1>2 DEF TypeOK, Heads

-----------------------------------------------------------------------------
(* Each action keeps the invariant. *)

\* A dependency is counted in the step that raises the counter, and a job
\* that was scheduled keeps the counter at zero.
LEMMA DependsOnStep ==
  ASSUME IInv, NEW l \in Links, DependsOn(l)
  PROVE  IInv'
<1>0. /\ TypeOK /\ DependencyCount /\ HandedOnce /\ Lists
      /\ PhaseFacts /\ LateLinks /\ HeadVersions /\ SeenHeads
  BY DEF IInv
<1>1. Child(l) \in Jobs /\ Parent(l) \in Jobs
  BY <1>0, EndsAreJobs
<1>2. PICK s \in LinkStages :
        /\ link' = [link EXCEPT ![l] = s] /\ edge' = edge /\ link[l] = "idle"
        /\ s = IF m_dependencies[Child(l)] = 0 THEN "ignored" ELSE "attach"
  BY DEF DependsOn, runVars, LinkStages, Parent, Child
<1>3. CountsMove(l, s)
  BY <1>0, <1>2, LinkMoves
<1>4. \A j \in Jobs :
        /\ Cardinality(Outstanding(j)') = Cardinality(Outstanding(j)) + (IF Child(l) = j /\ s = "attach" THEN 1 ELSE 0)
        /\ Cardinality(Submitters(j)') = Cardinality(Submitters(j))
        /\ Cardinality(Joined(j)') = Cardinality(Joined(j))
  BY <1>0, <1>2, <1>3, CountsAndVersions DEF CountsMove, Counted, One
<1>5. m_dependencies' = IF s = "attach" THEN [m_dependencies EXCEPT ![Child(l)] = @ + 1] ELSE m_dependencies
  BY <1>2 DEF DependsOn
<1>6. m_dependencies' \in [Jobs -> Nat]
  BY <1>0, <1>1, <1>5 DEF TypeOK
<1>7. \A j \in Jobs :
        /\ m_dependencies[j] \in Nat
        /\ m_dependencies'[j] = m_dependencies[j] + (IF Child(l) = j /\ s = "attach" THEN 1 ELSE 0)
        /\ m_dependencies'[j] = 0 <=> m_dependencies[j] = 0
  BY <1>0, <1>1, <1>2, <1>5 DEF TypeOK
<1>8. TypeOK'
  BY <1>0, <1>1, <1>2, <1>3, <1>4, <1>5, <1>6, <1>7 DEF DependsOn, runVars, TypeOK
<1>9. DependencyCount'
  BY <1>0, <1>1, <1>2, <1>3, <1>4, <1>5, <1>6, <1>7, CountsAndVersions, DependencyAssumption DEF DependsOn, DependencyCount
<1>10. HandedOnce'
  BY <1>0, <1>1, <1>2, <1>3, <1>4, <1>5, <1>6, <1>7, CountsAndVersions DEF DependsOn, runVars, HandedOnce, Handed
<1>11. Lists'
  BY <1>0, <1>1, <1>2, <1>3, <1>4, <1>5, <1>6, <1>7, ListsUntouched DEF DependsOn, runVars, callVars, LinkStages
<1>12. PhaseFacts'
  BY <1>0, <1>1, <1>2, <1>3, <1>4, <1>5, <1>6, <1>7 DEF DependsOn, runVars, callVars, PhaseFacts, Detached
<1>13. LateLinks'
  BY <1>0, <1>1, <1>2, <1>3, <1>4, <1>5, <1>6, <1>7 DEF DependsOn, runVars, callVars, LateLinks, Parent, TypeOK
<1>14. HeadVersions'
  BY <1>0, <1>1, <1>2, <1>3, <1>4, <1>5, <1>6, <1>7, CountsAndVersions DEF DependsOn, runVars, callVars, HeadVersions, Detached, TypeOK
<1>15. SeenHeads'
  BY <1>0, <1>1, <1>2, <1>3, <1>4, <1>5, <1>6, <1>7, CountsAndVersions DEF DependsOn, runVars, callVars, SeenHeads, Detached, Parent, TypeOK
<1> QED
  BY <1>8, <1>9, <1>10, <1>11, <1>12, <1>13, <1>14, <1>15 DEF IInv

\* Reading the head changes no count and no list; the head read is current.
LEMMA LoadHeadStep ==
  ASSUME IInv, NEW l \in Links, LoadHead(l)
  PROVE  IInv'
<1>0. /\ TypeOK /\ DependencyCount /\ HandedOnce /\ Lists
      /\ PhaseFacts /\ LateLinks /\ HeadVersions /\ SeenHeads
  BY DEF IInv
<1>1. Child(l) \in Jobs /\ Parent(l) \in Jobs
  BY <1>0, EndsAreJobs
<1>2. link' = [link EXCEPT ![l] = "check"] /\ edge' = edge /\ "check" \in LinkStages /\ link[l] = "attach"
  BY DEF LoadHead, runVars, LinkStages
<1>3. CountsMove(l, "check")
  BY <1>0, <1>2, LinkMoves
<1>4. \A j \in Jobs :
        /\ Cardinality(Outstanding(j)') = Cardinality(Outstanding(j))
        /\ Cardinality(Submitters(j)') = Cardinality(Submitters(j))
        /\ Cardinality(Joined(j)') = Cardinality(Joined(j))
  BY <1>0, <1>2, <1>3, CountsAndVersions DEF CountsMove, Counted, One
<1>5. TypeOK'
  BY <1>0, <1>1, <1>2, <1>3, <1>4 DEF LoadHead, runVars, callVars, TypeOK, LinkStages
<1>6. DependencyCount'
  BY <1>0, <1>1, <1>2, <1>3, <1>4, CountsAndVersions DEF LoadHead, runVars, callVars, DependencyCount, TypeOK
<1>7. HandedOnce'
  BY <1>0, <1>1, <1>2, <1>3, <1>4, CountsAndVersions DEF LoadHead, runVars, callVars, HandedOnce, Handed, TypeOK
<1>8. Lists'
  BY <1>0, <1>1, <1>2, <1>3, <1>4, ListsUntouched DEF LoadHead, runVars, callVars, LinkStages
<1>9. PhaseFacts'
  BY <1>0, <1>1, <1>2, <1>3, <1>4 DEF LoadHead, runVars, callVars, PhaseFacts, Detached
<1>10. LateLinks'
  BY <1>0, <1>1, <1>2, <1>3, <1>4 DEF LoadHead, runVars, callVars, LateLinks, Parent, TypeOK
<1>11. HeadVersions'
  BY <1>0, <1>1, <1>2, <1>3, <1>4, CountsAndVersions DEF LoadHead, runVars, callVars, HeadVersions, Detached, TypeOK
<1>12. SeenHeads'
  BY <1>0, <1>1, <1>2, <1>3, <1>4, CountsAndVersions DEF LoadHead, runVars, callVars, SeenHeads, Detached, Parent, TypeOK
<1> QED
  BY <1>5, <1>6, <1>7, <1>8, <1>9, <1>10, <1>11, <1>12 DEF IInv

\* A call that finds its parent unfinished holds a head that the parent has
\* not taken away yet; one that finds it finished is late.
LEMMA CheckFinishedStep ==
  ASSUME IInv, NEW l \in Links, CheckFinished(l)
  PROVE  IInv'
<1>0. /\ TypeOK /\ DependencyCount /\ HandedOnce /\ Lists
      /\ PhaseFacts /\ LateLinks /\ HeadVersions /\ SeenHeads
  BY DEF IInv
<1>1. Child(l) \in Jobs /\ Parent(l) \in Jobs
  BY <1>0, EndsAreJobs
<1>2. PICK s \in LinkStages :
        /\ link' = [link EXCEPT ![l] = s] /\ edge' = edge /\ link[l] = "check"
        /\ s = IF m_finished[Parent(l)] THEN "late" ELSE "exchange"
  BY DEF CheckFinished, runVars, LinkStages, Parent, Child
<1>3. CountsMove(l, s)
  BY <1>0, <1>2, LinkMoves
<1>4. \A j \in Jobs :
        /\ Cardinality(Outstanding(j)') = Cardinality(Outstanding(j))
        /\ Cardinality(Submitters(j)') = Cardinality(Submitters(j))
        /\ Cardinality(Joined(j)') = Cardinality(Joined(j))
  BY <1>0, <1>2, <1>3, CountsAndVersions DEF CountsMove, Counted, One
<1>5. s = "exchange" => ~ Detached(Parent(l))
  BY <1>0, <1>1, <1>2 DEF PhaseFacts, Detached
<1>6. TypeOK'
  BY <1>0, <1>1, <1>2, <1>3, <1>4, <1>5 DEF CheckFinished, runVars, callVars, TypeOK, LinkStages
<1>7. DependencyCount'
  BY <1>0, <1>1, <1>2, <1>3, <1>4, <1>5, CountsAndVersions DEF CheckFinished, runVars, callVars, DependencyCount, TypeOK
<1>8. HandedOnce'
  BY <1>0, <1>1, <1>2, <1>3, <1>4, <1>5, CountsAndVersions DEF CheckFinished, runVars, callVars, HandedOnce, Handed, TypeOK
<1>9. Lists'
  BY <1>0, <1>1, <1>2, <1>3, <1>4, <1>5, ListsUntouched DEF CheckFinished, runVars, callVars, LinkStages
<1>10. PhaseFacts'
  BY <1>0, <1>1, <1>2, <1>3, <1>4, <1>5 DEF CheckFinished, runVars, callVars, PhaseFacts, Detached
<1>11. LateLinks'
  BY <1>0, <1>1, <1>2, <1>3, <1>4, <1>5 DEF CheckFinished, runVars, callVars, LateLinks, Parent, TypeOK
<1>12. HeadVersions'
  BY <1>0, <1>1, <1>2, <1>3, <1>4, <1>5, CountsAndVersions DEF CheckFinished, runVars, callVars, HeadVersions, Detached, TypeOK
<1>13. SeenHeads'
  BY <1>0, <1>1, <1>2, <1>3, <1>4, <1>5, CountsAndVersions DEF CheckFinished, runVars, callVars, SeenHeads, Detached, Parent, TypeOK
<1> QED
  BY <1>6, <1>7, <1>8, <1>9, <1>10, <1>11, <1>12, <1>13 DEF IInv

\* Taking a late dependency back leaves the job to the caller if it was the
\* last one.
LEMMA RemoveLateStep ==
  ASSUME IInv, NEW l \in Links, RemoveLate(l)
  PROVE  IInv'
<1>0. /\ TypeOK /\ DependencyCount /\ HandedOnce /\ Lists
      /\ PhaseFacts /\ LateLinks /\ HeadVersions /\ SeenHeads
  BY DEF IInv
<1>1. Child(l) \in Jobs /\ Parent(l) \in Jobs
  BY <1>0, EndsAreJobs
<1>2. PICK s \in LinkStages :
        /\ link' = [link EXCEPT ![l] = s] /\ edge' = edge /\ link[l] = "late"
        /\ s = IF m_dependencies[Child(l)] - 1 = 0 THEN "resubmit" ELSE "undone"
  BY DEF RemoveLate, runVars, LinkStages, Parent, Child
<1>3. CountsMove(l, s)
  BY <1>0, <1>2, LinkMoves
<1>4. \A j \in Jobs :
        /\ Cardinality(Outstanding(j)') = Cardinality(Outstanding(j)) - (IF Child(l) = j THEN 1 ELSE 0)
        /\ Cardinality(Submitters(j)') = Cardinality(Submitters(j)) + (IF Child(l) = j /\ s = "resubmit" THEN 1 ELSE 0)
        /\ Cardinality(Joined(j)') = Cardinality(Joined(j))
  BY <1>0, <1>2, <1>3, CountsAndVersions DEF CountsMove, Counted, One
<1>5. m_dependencies[Child(l)] > 0 /\ m_dependencies[Child(l)] \in Nat
  BY <1>0, <1>1, <1>2, CounterFacts DEF Outstanding, Counted, TypeOK
<1>6. \A j \in Jobs : /\ m_dependencies[j] \in Nat /\ queue[j] \in Nat
                      /\ m_dependencies'[j] = m_dependencies[j] - (IF Child(l) = j THEN 1 ELSE 0)
  BY <1>0, <1>1 DEF RemoveLate, TypeOK
<1>7. TypeOK'
  BY <1>0, <1>1, <1>2, <1>3, <1>4, <1>5, <1>6 DEF RemoveLate, runVars, callVars, TypeOK, LinkStages
<1>8. DependencyCount'
  BY <1>0, <1>1, <1>2, <1>3, <1>4, <1>5, <1>6, CountsAndVersions, DependencyAssumption DEF RemoveLate, DependencyCount
<1>9. HandedOnce'
  BY <1>0, <1>1, <1>2, <1>3, <1>4, <1>5, <1>6, CountsAndVersions DEF RemoveLate, runVars, HandedOnce, Handed
<1>10. Lists'
  BY <1>0, <1>1, <1>2, <1>3, <1>4, <1>5, <1>6, ListsUntouched DEF RemoveLate, runVars, callVars, LinkStages
<1>11. PhaseFacts'
  BY <1>0, <1>1, <1>2, <1>3, <1>4, <1>5, <1>6 DEF RemoveLate, runVars, callVars, PhaseFacts, Detached
<1>12. LateLinks'
  BY <1>0, <1>1, <1>2, <1>3, <1>4, <1>5, <1>6 DEF RemoveLate, runVars, callVars, LateLinks, Parent, TypeOK
<1>13. HeadVersions'
  BY <1>0, <1>1, <1>2, <1>3, <1>4, <1>5, <1>6, CountsAndVersions DEF RemoveLate, runVars, callVars, HeadVersions, Detached, TypeOK
<1>14. SeenHeads'
  BY <1>0, <1>1, <1>2, <1>3, <1>4, <1>5, <1>6, CountsAndVersions DEF RemoveLate, runVars, callVars, SeenHeads, Detached, Parent, TypeOK
<1> QED
  BY <1>7, <1>8, <1>9, <1>10, <1>11, <1>12, <1>13, <1>14 DEF IInv

\* Submitting moves the job from the caller of depends_on to its queue.
LEMMA ResubmitStep ==
  ASSUME IInv, NEW l \in Links, Resubmit(l)
  PROVE  IInv'
<1>0. /\ TypeOK /\ DependencyCount /\ HandedOnce /\ Lists
      /\ PhaseFacts /\ LateLinks /\ HeadVersions /\ SeenHeads
  BY DEF IInv
<1>1. Child(l) \in Jobs /\ Parent(l) \in Jobs
  BY <1>0, EndsAreJobs
<1>2. link' = [link EXCEPT ![l] = "undone"] /\ edge' = edge /\ "undone" \in LinkStages /\ link[l] = "resubmit"
  BY DEF Resubmit, runVars, LinkStages
<1>3. CountsMove(l, "undone")
  BY <1>0, <1>2, LinkMoves
<1>4. \A j \in Jobs :
        /\ Cardinality(Outstanding(j)') = Cardinality(Outstanding(j))
        /\ Cardinality(Submitters(j)') = Cardinality(Submitters(j)) - (IF Child(l) = j THEN 1 ELSE 0)
        /\ Cardinality(Joined(j)') = Cardinality(Joined(j))
  BY <1>0, <1>2, <1>3, CountsAndVersions DEF CountsMove, Counted, One
<1>5. \A j \in Jobs : queue[j] \in Nat /\ queue'[j] = queue[j] + (IF Child(l) = j THEN 1 ELSE 0)
  BY <1>0, <1>1 DEF Resubmit, TypeOK
<1>6. TypeOK'
  BY <1>0, <1>1, <1>2, <1>3, <1>4, <1>5 DEF Resubmit, runVars, callVars, TypeOK, LinkStages
<1>7. DependencyCount'
  BY <1>0, <1>1, <1>2, <1>3, <1>4, <1>5, CountsAndVersions DEF Resubmit, runVars, callVars, DependencyCount, TypeOK
<1>8. HandedOnce'
  BY <1>0, <1>1, <1>2, <1>3, <1>4, <1>5, CountsAndVersions DEF Resubmit, runVars, HandedOnce, Handed
<1>9. Lists'
  BY <1>0, <1>1, <1>2, <1>3, <1>4, <1>5, ListsUntouched DEF Resubmit, runVars, callVars, LinkStages
<1>10. PhaseFacts'
  BY <1>0, <1>1, <1>2, <1>3, <1>4, <1>5 DEF Resubmit, runVars, callVars, PhaseFacts, Detached
<1>11. LateLinks'
  BY <1>0, <1>1, <1>2, <1>3, <1>4, <1>5 DEF Resubmit, runVars, callVars, LateLinks, Parent, TypeOK
<1>12. HeadVersions'
  BY <1>0, <1>1, <1>2, <1>3, <1>4, <1>5, CountsAndVersions DEF Resubmit, runVars, callVars, HeadVersions, Detached, TypeOK
<1>13. SeenHeads'
  BY <1>0, <1>1, <1>2, <1>3, <1>4, <1>5, CountsAndVersions DEF Resubmit, runVars, callVars, SeenHeads, Detached, Parent, TypeOK
<1> QED
  BY <1>6, <1>7, <1>8, <1>9, <1>10, <1>11, <1>12, <1>13 DEF IInv

\* Submitting moves the job from the executor of its parent to its queue.
LEMMA SubmitReleasedStep ==
  ASSUME IInv, NEW l \in Links, SubmitReleased(l)
  PROVE  IInv'
<1>0. /\ TypeOK /\ DependencyCount /\ HandedOnce /\ Lists
      /\ PhaseFacts /\ LateLinks /\ HeadVersions /\ SeenHeads
  BY DEF IInv
<1>1. Child(l) \in Jobs /\ Parent(l) \in Jobs
  BY <1>0, EndsAreJobs
<1>2. link' = [link EXCEPT ![l] = "released"] /\ edge' = edge /\ "released" \in LinkStages /\ link[l] = "release"
  BY DEF SubmitReleased, runVars, LinkStages
<1>3. CountsMove(l, "released")
  BY <1>0, <1>2, LinkMoves
<1>4. \A j \in Jobs :
        /\ Cardinality(Outstanding(j)') = Cardinality(Outstanding(j))
        /\ Cardinality(Submitters(j)') = Cardinality(Submitters(j)) - (IF Child(l) = j THEN 1 ELSE 0)
        /\ Cardinality(Joined(j)') = Cardinality(Joined(j))
  BY <1>0, <1>2, <1>3, CountsAndVersions DEF CountsMove, Counted, One
<1>5. \A j \in Jobs : queue[j] \in Nat /\ queue'[j] = queue[j] + (IF Child(l) = j THEN 1 ELSE 0)
  BY <1>0, <1>1 DEF SubmitReleased, TypeOK
<1>6. TypeOK'
  BY <1>0, <1>1, <1>2, <1>3, <1>4, <1>5 DEF SubmitReleased, runVars, callVars, TypeOK, LinkStages
<1>7. DependencyCount'
  BY <1>0, <1>1, <1>2, <1>3, <1>4, <1>5, CountsAndVersions DEF SubmitReleased, runVars, callVars, DependencyCount, TypeOK
<1>8. HandedOnce'
  BY <1>0, <1>1, <1>2, <1>3, <1>4, <1>5, CountsAndVersions DEF SubmitReleased, runVars, HandedOnce, Handed
<1>9. Lists'
  BY <1>0, <1>1, <1>2, <1>3, <1>4, <1>5, ListsUntouched DEF SubmitReleased, runVars, callVars, LinkStages
<1>10. PhaseFacts'
  BY <1>0, <1>1, <1>2, <1>3, <1>4, <1>5 DEF SubmitReleased, runVars, callVars, PhaseFacts, Detached
<1>11. LateLinks'
  BY <1>0, <1>1, <1>2, <1>3, <1>4, <1>5 DEF SubmitReleased, runVars, callVars, LateLinks, Parent, TypeOK
<1>12. HeadVersions'
  BY <1>0, <1>1, <1>2, <1>3, <1>4, <1>5, CountsAndVersions DEF SubmitReleased, runVars, callVars, HeadVersions, Detached, TypeOK
<1>13. SeenHeads'
  BY <1>0, <1>1, <1>2, <1>3, <1>4, <1>5, CountsAndVersions DEF SubmitReleased, runVars, callVars, SeenHeads, Detached, Parent, TypeOK
<1> QED
  BY <1>6, <1>7, <1>8, <1>9, <1>10, <1>11, <1>12, <1>13 DEF IInv

\* An exchange that fails only starts the loop of try_attach_child again.
LEMMA ExchangeFailsStep ==
  ASSUME IInv, NEW l \in Links, ExchangeHead(l), ~ SameWord(m_headDependee[Parent(l)], seen[l])
  PROVE  IInv'
<1>0. /\ TypeOK /\ DependencyCount /\ HandedOnce /\ Lists
      /\ PhaseFacts /\ LateLinks /\ HeadVersions /\ SeenHeads
  BY DEF IInv
<1>1. Child(l) \in Jobs /\ Parent(l) \in Jobs
  BY <1>0, EndsAreJobs
<1>2. link' = [link EXCEPT ![l] = "attach"] /\ edge' = edge /\ "attach" \in LinkStages /\ link[l] = "exchange"
  BY DEF ExchangeHead, runVars, LinkStages
<1>3. CountsMove(l, "attach")
  BY <1>0, <1>2, LinkMoves
<1>4. \A j \in Jobs :
        /\ Cardinality(Outstanding(j)') = Cardinality(Outstanding(j))
        /\ Cardinality(Submitters(j)') = Cardinality(Submitters(j))
        /\ Cardinality(Joined(j)') = Cardinality(Joined(j))
  BY <1>0, <1>2, <1>3, CountsAndVersions DEF CountsMove, Counted, One
<1>5. TypeOK'
  BY <1>0, <1>1, <1>2, <1>3, <1>4 DEF ExchangeHead, runVars, callVars, TypeOK
<1>6. DependencyCount'
  BY <1>0, <1>1, <1>2, <1>3, <1>4, CountsAndVersions DEF ExchangeHead, runVars, callVars, DependencyCount, TypeOK
<1>7. HandedOnce'
  BY <1>0, <1>1, <1>2, <1>3, <1>4, CountsAndVersions DEF ExchangeHead, runVars, callVars, HandedOnce, Handed, TypeOK
<1>8. Lists'
  BY <1>0, <1>1, <1>2, <1>3, <1>4, ListsUntouched DEF ExchangeHead, runVars, callVars
<1>9. PhaseFacts'
  BY <1>0, <1>1, <1>2, <1>3, <1>4 DEF ExchangeHead, runVars, callVars, PhaseFacts, Detached
<1>10. LateLinks'
  BY <1>0, <1>1, <1>2, <1>3, <1>4 DEF ExchangeHead, runVars, callVars, LateLinks, Parent, TypeOK
<1>11. HeadVersions'
  BY <1>0, <1>1, <1>2, <1>3, <1>4, CountsAndVersions DEF ExchangeHead, runVars, callVars, HeadVersions, Detached, TypeOK
<1>12. SeenHeads'
  BY <1>0, <1>1, <1>2, <1>3, <1>4, CountsAndVersions DEF ExchangeHead, runVars, callVars, SeenHeads, Detached, Parent, TypeOK
<1> QED
  BY <1>5, <1>6, <1>7, <1>8, <1>9, <1>10, <1>11, <1>12 DEF IInv

\* An exchange that succeeds found the head it had read, puts the node on the
\* list that the head stands for, and cannot happen after the list was taken.
LEMMA ExchangeSucceedsStep ==
  ASSUME IInv, NEW l \in Links, ExchangeHead(l), SameWord(m_headDependee[Parent(l)], seen[l])
  PROVE  IInv'
<1>0. /\ TypeOK /\ DependencyCount /\ HandedOnce /\ Lists
      /\ PhaseFacts /\ LateLinks /\ HeadVersions /\ SeenHeads
  BY DEF IInv
<1>1. Child(l) \in Jobs /\ Parent(l) \in Jobs
  BY <1>0, EndsAreJobs
<1>2. link' = [link EXCEPT ![l] = "attached"] /\ edge' = edge /\ "attached" \in LinkStages /\ link[l] = "exchange"
  BY DEF ExchangeHead, runVars, LinkStages
<1>3. CountsMove(l, "attached")
  BY <1>0, <1>2, LinkMoves
<1>4. \A j \in Jobs :
        /\ Cardinality(Outstanding(j)') = Cardinality(Outstanding(j))
        /\ Cardinality(Submitters(j)') = Cardinality(Submitters(j))
        /\ Cardinality(Joined(j)') = Cardinality(Joined(j)) + (IF Parent(l) = j THEN 1 ELSE 0)
  BY <1>0, <1>2, <1>3, CountsAndVersions DEF CountsMove, Counted, One
<1>5. seen[l] = m_headDependee[Parent(l)] /\ ~ Detached(Parent(l))
  BY <1>0, <1>1, <1>2, CountsAndVersions DEF SameWord, SeenHeads
<1>6. seen[l].version + 1 < Versions /\ NextVersion(seen[l].version) = seen[l].version + 1
  <2>1. l \notin Joined(Parent(l)) /\ Joined(Parent(l)) \in SUBSET Links
    BY <1>2 DEF Joined
  <2>2. Cardinality(Joined(Parent(l))) + 1 <= Cardinality(Links) /\ Cardinality(Links) \in Nat
    BY <2>1, CountsAreNatural
  <2>3. seen[l].version = Cardinality(Joined(Parent(l)))
    BY <1>0, <1>1, <1>5, CountsAndVersions DEF HeadVersions
  <2>4. seen[l].version + 1 < Versions
    BY <1>0, <1>1, <2>2, <2>3, CountsAndVersions, DependencyAssumption
  <2> QED
    BY <1>0, <2>4, CountsAndVersions, DependencyAssumption DEF NextVersion
<1>7. m_headDependee' =
        [m_headDependee EXCEPT ![Parent(l)] =
           [list |-> Append(m_headDependee[Parent(l)].list, l), version |-> seen[l].version + 1]]
  BY <1>5, <1>6 DEF ExchangeHead
<1>8. \A p \in Jobs : m_headDependee[p].list \in Seq(Links) /\ detaching[p] \in Seq(Links)
  BY <1>0 DEF TypeOK, Heads
<1>9. TypeOK'
  <2>1. [list |-> Append(m_headDependee[Parent(l)].list, l), version |-> seen[l].version + 1] \in Heads
    <3>1. Append(m_headDependee[Parent(l)].list, l) \in Seq(Links)
      BY <1>1, <1>8
    <3>2. seen[l].version + 1 \in 0 .. Versions - 1
      BY <1>0, <1>6, CountsAndVersions, DependencyAssumption
    <3> QED
      BY <3>1, <3>2 DEF Heads
  <2>2. m_headDependee' \in [Jobs -> Heads]
    BY <1>0, <1>7, <2>1 DEF TypeOK
  <2>3. link' \in [Links -> LinkStages]
    BY <1>0, <1>2 DEF TypeOK
  <2> QED
    BY <1>0, <2>2, <2>3 DEF ExchangeHead, runVars, TypeOK
<1>10. DependencyCount'
  BY <1>0, <1>4, CountsAndVersions DEF ExchangeHead, runVars, DependencyCount, TypeOK
<1>11. HandedOnce'
  BY <1>0, <1>4, CountsAndVersions DEF ExchangeHead, runVars, HandedOnce, Handed, TypeOK
<1>12. Lists'
  <2>0. \A k \in Links : link'[k] = IF k = l THEN "attached" ELSE link[k]
    BY <1>0, <1>2 DEF TypeOK
  <2>1. detaching' = detaching
    BY DEF ExchangeHead, runVars
  <2>2. \A p \in Jobs : m_headDependee'[p].list =
           IF p = Parent(l) THEN Append(m_headDependee[p].list, l) ELSE m_headDependee[p].list
    BY <1>0, <1>1, <1>7 DEF TypeOK
  <2>3. ASSUME NEW p \in Jobs
        PROVE  ListOf(p, m_headDependee[p].list)' /\ ListOf(p, detaching[p])'
    <3> DEFINE s == m_headDependee[p].list
               d == detaching[p]
    <3>1. s \in Seq(Links) /\ d \in Seq(Links)
      BY <1>8
    <3>2. \A i \in 1 .. Len(s) : s[i] \in Links /\ Parent(s[i]) = p /\ link[s[i]] = "attached" /\ s[i] # l
      BY <1>0, <1>2, <3>1 DEF Lists, ListOf
    <3>3. \A i, k \in 1 .. Len(s) : s[i] = s[k] => i = k
      BY <1>0 DEF Lists, ListOf
    <3>4. \A i \in 1 .. Len(d) : d[i] \in Links /\ Parent(d[i]) = p /\ link[d[i]] = "attached"
      BY <1>0, <3>1 DEF Lists, ListOf
    <3>5. \A i, k \in 1 .. Len(d) : d[i] = d[k] => i = k
      BY <1>0 DEF Lists, ListOf
    <3>6. ListOf(p, detaching[p])'
      BY <1>2, <2>0, <2>1, <3>4, <3>5 DEF ListOf, Parent
    <3>7. CASE p # Parent(l)
      <4>1. m_headDependee'[p].list = s
        BY <2>2, <3>7
      <4> QED
        BY <1>2, <2>0, <3>2, <3>3, <3>6, <4>1 DEF ListOf, Parent
    <3>8. CASE p = Parent(l)
      <4> DEFINE t == Append(s, l)
      <4>1. m_headDependee'[p].list = t
        BY <2>2, <3>8
      <4>2. /\ Len(t) = Len(s) + 1 /\ Len(s) \in Nat
            /\ \A i \in 1 .. Len(s) : t[i] = s[i]
            /\ t[Len(s) + 1] = l
        BY <3>1
      <4>3. \A i \in 1 .. Len(t) : i \in 1 .. Len(s) \/ i = Len(s) + 1
        BY <4>2
      <4> HIDE DEF s, t
      <4>4. \A i \in 1 .. Len(t) : edge'[t[i]][2] = p /\ link'[t[i]] = "attached"
        BY <1>2, <2>0, <3>2, <3>8, <4>2, <4>3 DEF Parent
      <4>5. \A i, k \in 1 .. Len(t) : t[i] = t[k] => i = k
        BY <3>2, <3>3, <4>2, <4>3
      <4> QED
        BY <3>6, <4>1, <4>4, <4>5 DEF ListOf, Parent
    <3> QED
      BY <3>7, <3>8
  <2>4. ASSUME NEW k \in Links, link'[k] = "attached"
        PROVE  \/ k \in Elements(m_headDependee[Parent(k)].list)'
               \/ k \in Elements(detaching[Parent(k)])'
    <3>0. Parent(k) \in Jobs /\ Parent(k)' = Parent(k)
      BY <1>0, <1>2, EndsAreJobs DEF Parent
    <3> DEFINE s == m_headDependee[Parent(k)].list
    <3>1. s \in Seq(Links)
      BY <1>8, <3>0
    <3>2. CASE k = l
      <4>1. m_headDependee'[Parent(k)].list = Append(s, l)
        BY <2>2, <3>0, <3>2
      <4>2. /\ Append(s, l)[Len(s) + 1] = l
            /\ Len(s) + 1 \in 1 .. Len(Append(s, l))
        BY <3>1
      <4> QED
        BY <3>0, <3>2, <4>1, <4>2 DEF Elements
    <3>3. CASE k # l
      <4>1. \/ k \in Elements(s)
            \/ k \in Elements(detaching[Parent(k)])
        BY <1>0, <2>0, <2>4, <3>3 DEF Lists
      <4>2. Elements(s) \subseteq Elements(m_headDependee'[Parent(k)].list)
        <5>1. CASE Parent(k) # Parent(l)
          BY <2>2, <3>0, <5>1
        <5>2. CASE Parent(k) = Parent(l)
          <6>1. m_headDependee'[Parent(k)].list = Append(s, l)
            BY <2>2, <3>0, <5>2
          <6>2. \A i \in 1 .. Len(s) : i \in 1 .. Len(Append(s, l)) /\ Append(s, l)[i] = s[i]
            BY <3>1
          <6> QED
            BY <6>1, <6>2 DEF Elements
        <5> QED
          BY <5>1, <5>2
      <4> QED
        BY <2>1, <3>0, <4>1, <4>2 DEF Elements
    <3> QED
      BY <3>2, <3>3
  <2> QED
    BY <2>3, <2>4 DEF Lists
<1>13. PhaseFacts'
  <2>1. \A p \in Jobs : p # Parent(l) => m_headDependee'[p] = m_headDependee[p]
    BY <1>0, <1>7 DEF TypeOK
  <2>2. phase' = phase /\ detaching' = detaching /\ m_finished' = m_finished
    BY DEF ExchangeHead, runVars
  <2> QED
    BY <1>0, <1>5, <2>1, <2>2 DEF PhaseFacts, Detached
<1>14. LateLinks'
  BY <1>0, <1>2 DEF ExchangeHead, LateLinks, Parent, TypeOK
<1>15. HeadVersions'
  <2>1. \A p \in Jobs : m_headDependee'[p].version =
           m_headDependee[p].version + (IF p = Parent(l) THEN 1 ELSE 0)
    <3>1. m_headDependee'[Parent(l)].version = seen[l].version + 1
      BY <1>0, <1>1, <1>7 DEF TypeOK
    <3>2. \A p \in Jobs : p # Parent(l) => m_headDependee'[p] = m_headDependee[p]
      BY <1>0, <1>7 DEF TypeOK
    <3> QED
      BY <1>0, <1>5, <3>1, <3>2, CountsAndVersions
  <2>2. phase' = phase
    BY DEF ExchangeHead, runVars
  <2> QED
    BY <1>0, <1>1, <1>4, <2>1, <2>2, CountsAndVersions DEF HeadVersions, Detached
<1>16. SeenHeads'
  <2>1. \A p \in Jobs :
          IF p = Parent(l) THEN m_headDependee'[p].version = m_headDependee[p].version + 1
                           ELSE m_headDependee'[p] = m_headDependee[p]
    BY <1>0, <1>1, <1>5, <1>7, CountsAndVersions DEF TypeOK
  <2>2. phase' = phase /\ seen' = seen /\ edge' = edge
    BY DEF ExchangeHead, runVars
  <2>3. \A k \in Links : link'[k] = IF k = l THEN "attached" ELSE link[k]
    BY <1>0, <1>2 DEF TypeOK
  <2>4. \A k \in Links : Parent(k) \in Jobs /\ Parent(k)' = Parent(k)
    BY <1>0, <2>2, EndsAreJobs DEF Parent
  <2> QED
    BY <1>0, <2>1, <2>2, <2>3, <2>4, CountsAndVersions DEF SeenHeads, Detached
<1> QED
  BY <1>9, <1>10, <1>11, <1>12, <1>13, <1>14, <1>15, <1>16 DEF IInv

\* Enabling takes the initial amount off once, and leaves the job to the caller
\* if no dependency is left.
LEMMA EnableStep ==
  ASSUME IInv, NEW j \in Jobs, Enable(j)
  PROVE  IInv'
<1>0. /\ TypeOK /\ DependencyCount /\ HandedOnce /\ Lists
      /\ PhaseFacts /\ LateLinks /\ HeadVersions /\ SeenHeads
  BY DEF IInv
<1>1. link' = link /\ edge' = edge /\ seen' = seen
  BY DEF Enable, runVars, callVars
<1>2. \A k \in Jobs : /\ Outstanding(k)' = Outstanding(k)
                      /\ Submitters(k)' = Submitters(k)
                      /\ Joined(k)' = Joined(k)
  BY <1>1, CountsSame
<1>3. \A k \in Jobs : m_dependencies[k] \in Nat /\ queue[k] \in Nat
  BY <1>0 DEF TypeOK
<1>4. enabler[j] = "no" /\ m_dependencies[j] # 0
  <2>1. Cardinality(Links) \in Nat
    BY DependencyAssumption, FS_CardinalityType
  <2> QED
    BY <1>0, <2>1, CounterFacts, DependencyAssumption DEF Enable
<1>5. \A k \in Jobs : m_dependencies'[k] = m_dependencies[k] - (IF k = j THEN EnableDependencies ELSE 0)
  BY <1>0, DependencyAssumption DEF Enable, TypeOK
<1>6. m_dependencies' \in [Jobs -> Nat]
  BY <1>0, DependencyAssumption DEF Enable, TypeOK
<1>7. \A k \in Jobs : enabler'[k] = IF k # j THEN enabler[k] ELSE IF m_dependencies'[j] = 0 THEN "submit" ELSE "over"
  BY <1>0, <1>5 DEF Enable, TypeOK
<1>8. TypeOK'
  BY <1>0, <1>6 DEF Enable, runVars, callVars, TypeOK
<1>9. DependencyCount'
  BY <1>0, <1>2, <1>4, <1>5, <1>7, CountsAndVersions, DependencyAssumption DEF DependencyCount
<1>10. HandedOnce'
  <2>1. phase' = phase /\ queue' = queue
    BY DEF Enable, runVars
  <2> QED
    <3>1. Handed(j) = 0 /\ phase[j] = "waiting" /\ queue[j] = 0 /\ Cardinality(Submitters(j)) = 0
      BY <1>0, <1>3, <1>4, HolderFacts, CountsAndVersions DEF Handed
    <3>2. Handed(j)' = IF m_dependencies'[j] = 0 THEN 1 ELSE 0
      BY <1>2, <1>7, <2>1, <3>1 DEF Handed
    <3>3. \A k \in Jobs : k # j => Handed(k)' = Handed(k) /\ m_dependencies'[k] = m_dependencies[k]
      BY <1>2, <1>3, <1>5, <1>7, <2>1 DEF Handed
    <3> QED
      BY <1>0, <3>2, <3>3 DEF HandedOnce
<1>11. Lists'
  BY <1>0, <1>1, ListsSame DEF Enable, runVars, callVars
<1>12. PhaseFacts'
  BY <1>0, <1>1, <1>2, <1>3, <1>4, <1>5, <1>6, <1>7 DEF Enable, runVars, callVars, PhaseFacts, Detached, TypeOK
<1>13. LateLinks'
  BY <1>0, <1>1 DEF Enable, runVars, callVars, LateLinks, Parent
<1>14. HeadVersions'
  BY <1>0, <1>1, <1>2, <1>3, <1>4, <1>5, <1>6, <1>7 DEF Enable, runVars, callVars, HeadVersions, Detached, TypeOK
<1>15. SeenHeads'
  BY <1>0, <1>1, <1>2, <1>3, <1>4, <1>5, <1>6, <1>7, EndsAreJobs DEF Enable, runVars, callVars, SeenHeads, Detached, Parent, TypeOK
<1> QED
  BY <1>8, <1>9, <1>10, <1>11, <1>12, <1>13, <1>14, <1>15 DEF IInv

\* Submitting moves the job from the caller of enable to its queue.
LEMMA SubmitEnabledStep ==
  ASSUME IInv, NEW j \in Jobs, SubmitEnabled(j)
  PROVE  IInv'
<1>0. /\ TypeOK /\ DependencyCount /\ HandedOnce /\ Lists
      /\ PhaseFacts /\ LateLinks /\ HeadVersions /\ SeenHeads
  BY DEF IInv
<1>1. link' = link /\ edge' = edge /\ seen' = seen
  BY DEF SubmitEnabled, runVars, callVars
<1>2. \A k \in Jobs : /\ Outstanding(k)' = Outstanding(k)
                      /\ Submitters(k)' = Submitters(k)
                      /\ Joined(k)' = Joined(k)
  BY <1>1, CountsSame
<1>3. \A k \in Jobs : m_dependencies[k] \in Nat /\ queue[k] \in Nat
  BY <1>0 DEF TypeOK
<1>4. \A k \in Jobs : /\ queue'[k] = queue[k] + (IF k = j THEN 1 ELSE 0)
                      /\ enabler'[k] = IF k = j THEN "over" ELSE enabler[k]
  BY <1>0 DEF SubmitEnabled, TypeOK
<1>5. TypeOK'
  BY <1>0, <1>1, <1>2, <1>3, <1>4 DEF SubmitEnabled, runVars, callVars, TypeOK
<1>6. DependencyCount'
  BY <1>0, <1>2, <1>4 DEF SubmitEnabled, DependencyCount
<1>7. HandedOnce'
  BY <1>0, <1>2, <1>3, <1>4, CountsAndVersions DEF SubmitEnabled, runVars, HandedOnce, Handed
<1>8. Lists'
  BY <1>0, <1>1, ListsSame DEF SubmitEnabled, runVars, callVars
<1>9. PhaseFacts'
  BY <1>0, <1>1, <1>2, <1>3, <1>4 DEF SubmitEnabled, runVars, callVars, PhaseFacts, Detached, TypeOK
<1>10. LateLinks'
  BY <1>0, <1>1 DEF SubmitEnabled, runVars, callVars, LateLinks, Parent
<1>11. HeadVersions'
  BY <1>0, <1>1, <1>2, <1>3, <1>4 DEF SubmitEnabled, runVars, callVars, HeadVersions, Detached, TypeOK
<1>12. SeenHeads'
  BY <1>0, <1>1, <1>2, <1>3, <1>4, EndsAreJobs DEF SubmitEnabled, runVars, callVars, SeenHeads, Detached, Parent, TypeOK
<1> QED
  BY <1>5, <1>6, <1>7, <1>8, <1>9, <1>10, <1>11, <1>12 DEF IInv

\* A job that its enabler executes itself was in nobody's hands before.
LEMMA EnableLocallyStep ==
  ASSUME IInv, NEW j \in Jobs, EnableLocally(j)
  PROVE  IInv'
<1>0. /\ TypeOK /\ DependencyCount /\ HandedOnce /\ Lists
      /\ PhaseFacts /\ LateLinks /\ HeadVersions /\ SeenHeads
  BY DEF IInv
<1>1. link' = link /\ edge' = edge /\ seen' = seen
  BY DEF EnableLocally, runVars, callVars
<1>2. \A k \in Jobs : /\ Outstanding(k)' = Outstanding(k)
                      /\ Submitters(k)' = Submitters(k)
                      /\ Joined(k)' = Joined(k)
  BY <1>1, CountsSame
<1>3. \A k \in Jobs : m_dependencies[k] \in Nat /\ queue[k] \in Nat
  BY <1>0 DEF TypeOK
<1>4. m_dependencies[j] # 0 /\ phase[j] = "waiting" /\ enabler[j] = "no" /\ Outstanding(j) = {}
  <2>1. Cardinality(Links) \in Nat
    BY DependencyAssumption, FS_CardinalityType
  <2>2. m_dependencies[j] # 0
    BY <2>1, DependencyAssumption DEF EnableLocally
  <2> QED
    BY <1>0, <2>2, CounterFacts, HolderFacts DEF EnableLocally
<1>5. \A k \in Jobs : /\ m_dependencies'[k] = IF k = j THEN 0 ELSE m_dependencies[k]
                      /\ enabler'[k] = IF k = j THEN "over" ELSE enabler[k]
                      /\ phase'[k] = IF k = j THEN "running" ELSE phase[k]
  BY <1>0 DEF EnableLocally, TypeOK
<1>6. TypeOK'
  BY <1>0 DEF EnableLocally, callVars, TypeOK, Phases
<1>7. DependencyCount'
  BY <1>0, <1>2, <1>4, <1>5, FS_EmptySet DEF DependencyCount
<1>8. HandedOnce'
  BY <1>0, <1>2, <1>3, <1>4, <1>5, CountsAndVersions DEF EnableLocally, HandedOnce, Handed
<1>9. Lists'
  BY <1>0, <1>1, ListsSame DEF EnableLocally, runVars, callVars
<1>10. PhaseFacts'
  BY <1>0, <1>4, <1>5 DEF EnableLocally, PhaseFacts, Detached, TypeOK
<1>11. LateLinks'
  BY <1>0, <1>1 DEF EnableLocally, runVars, callVars, LateLinks, Parent
<1>12. HeadVersions'
  BY <1>0, <1>2, <1>4, <1>5 DEF EnableLocally, HeadVersions, Detached
<1>13. SeenHeads'
  BY <1>0, <1>1, <1>4, <1>5, EndsAreJobs DEF EnableLocally, SeenHeads, Detached, Parent
<1> QED
  BY <1>6, <1>7, <1>8, <1>9, <1>10, <1>11, <1>12, <1>13 DEF IInv

\* A job that a worker takes from a queue was not executed before.
LEMMA ConsumeJobStep ==
  ASSUME IInv, NEW w \in Workers, NEW j \in Jobs, ConsumeJob(w, j)
  PROVE  IInv'
<1>0. /\ TypeOK /\ DependencyCount /\ HandedOnce /\ Lists
      /\ PhaseFacts /\ LateLinks /\ HeadVersions /\ SeenHeads
  BY DEF IInv
<1>1. link' = link /\ edge' = edge /\ seen' = seen
  BY DEF ConsumeJob, runVars, callVars
<1>2. \A k \in Jobs : /\ Outstanding(k)' = Outstanding(k)
                      /\ Submitters(k)' = Submitters(k)
                      /\ Joined(k)' = Joined(k)
  BY <1>1, CountsSame
<1>3. \A k \in Jobs : m_dependencies[k] \in Nat /\ queue[k] \in Nat
  BY <1>0 DEF TypeOK
<1>4. phase[j] = "waiting"
  BY <1>0, HolderFacts DEF ConsumeJob
<1>5. \A k \in Jobs : /\ queue'[k] = queue[k] - (IF k = j THEN 1 ELSE 0)
                      /\ phase'[k] = IF k = j THEN "running" ELSE phase[k]
  BY <1>0 DEF ConsumeJob, TypeOK
<1>6. TypeOK'
  BY <1>0, <1>3 DEF ConsumeJob, callVars, TypeOK, Phases
<1>7. DependencyCount'
  BY <1>0, <1>2 DEF ConsumeJob, runVars, callVars, DependencyCount
<1>8. HandedOnce'
  BY <1>0, <1>2, <1>3, <1>4, <1>5, CountsAndVersions DEF ConsumeJob, HandedOnce, Handed
<1>9. Lists'
  BY <1>0, <1>1, ListsSame DEF ConsumeJob, runVars, callVars
<1>10. PhaseFacts'
  BY <1>0, <1>4, <1>5 DEF ConsumeJob, PhaseFacts, Detached, TypeOK
<1>11. LateLinks'
  BY <1>0, <1>1 DEF ConsumeJob, runVars, callVars, LateLinks, Parent
<1>12. HeadVersions'
  BY <1>0, <1>2, <1>4, <1>5 DEF ConsumeJob, HeadVersions, Detached
<1>13. SeenHeads'
  BY <1>0, <1>1, <1>4, <1>5, EndsAreJobs DEF ConsumeJob, SeenHeads, Detached, Parent
<1> QED
  BY <1>6, <1>7, <1>8, <1>9, <1>10, <1>11, <1>12, <1>13 DEF IInv

\* Setting m_finished comes before the list is taken.
LEMMA SetFinishedStep ==
  ASSUME IInv, NEW j \in Jobs, SetFinished(j)
  PROVE  IInv'
<1>0. /\ TypeOK /\ DependencyCount /\ HandedOnce /\ Lists
      /\ PhaseFacts /\ LateLinks /\ HeadVersions /\ SeenHeads
  BY DEF IInv
<1>1. link' = link /\ edge' = edge /\ seen' = seen
  BY DEF SetFinished, runVars, callVars
<1>2. \A k \in Jobs : /\ Outstanding(k)' = Outstanding(k)
                      /\ Submitters(k)' = Submitters(k)
                      /\ Joined(k)' = Joined(k)
  BY <1>1, CountsSame
<1>3. \A k \in Jobs : m_dependencies[k] \in Nat /\ queue[k] \in Nat
  BY <1>0 DEF TypeOK
<1>4. \A k \in Jobs : /\ m_finished'[k] <=> (m_finished[k] \/ k = j)
                      /\ phase'[k] = IF k = j THEN "flagged" ELSE phase[k]
  BY <1>0 DEF SetFinished, TypeOK
<1>5. TypeOK'
  BY <1>0 DEF SetFinished, callVars, TypeOK, Phases
<1>6. DependencyCount'
  BY <1>0, <1>2 DEF SetFinished, runVars, callVars, DependencyCount
<1>7. HandedOnce'
  BY <1>0, <1>2, <1>3, <1>4, CountsAndVersions DEF SetFinished, HandedOnce, Handed
<1>8. Lists'
  BY <1>0, <1>1, ListsSame DEF SetFinished, runVars, callVars
<1>9. PhaseFacts'
  BY <1>0, <1>4 DEF SetFinished, PhaseFacts, Detached
<1>10. LateLinks'
  BY <1>0, <1>1, <1>4, EndsAreJobs DEF LateLinks, Parent
<1>11. HeadVersions'
  BY <1>0, <1>2, <1>4 DEF SetFinished, HeadVersions, Detached
<1>12. SeenHeads'
  BY <1>0, <1>1, <1>4, EndsAreJobs DEF SetFinished, SeenHeads, Detached, Parent
<1> QED
  BY <1>5, <1>6, <1>7, <1>8, <1>9, <1>10, <1>11, <1>12 DEF IInv

\* The executor returns with nothing left to release.
LEMMA ReturnStep ==
  ASSUME IInv, NEW j \in Jobs, Return(j)
  PROVE  IInv'
<1>0. /\ TypeOK /\ DependencyCount /\ HandedOnce /\ Lists
      /\ PhaseFacts /\ LateLinks /\ HeadVersions /\ SeenHeads
  BY DEF IInv
<1>1. link' = link /\ edge' = edge /\ seen' = seen
  BY DEF Return, runVars, callVars
<1>2. \A k \in Jobs : /\ Outstanding(k)' = Outstanding(k)
                      /\ Submitters(k)' = Submitters(k)
                      /\ Joined(k)' = Joined(k)
  BY <1>1, CountsSame
<1>3. \A k \in Jobs : m_dependencies[k] \in Nat /\ queue[k] \in Nat
  BY <1>0 DEF TypeOK
<1>4. \A k \in Jobs : phase'[k] = IF k = j THEN "done" ELSE phase[k]
  BY <1>0 DEF Return, TypeOK
<1>5. TypeOK'
  BY <1>0 DEF Return, callVars, TypeOK, Phases
<1>6. DependencyCount'
  BY <1>0, <1>2 DEF Return, runVars, callVars, DependencyCount
<1>7. HandedOnce'
  BY <1>0, <1>2, <1>3, <1>4, CountsAndVersions DEF Return, HandedOnce, Handed
<1>8. Lists'
  BY <1>0, <1>1, ListsSame DEF Return, runVars, callVars
<1>9. PhaseFacts'
  BY <1>0, <1>4 DEF Return, PhaseFacts, Detached
<1>10. LateLinks'
  BY <1>0, <1>1 DEF Return, runVars, callVars, LateLinks, Parent
<1>11. HeadVersions'
  BY <1>0, <1>2, <1>4 DEF Return, HeadVersions, Detached
<1>12. SeenHeads'
  BY <1>0, <1>1, <1>4, EndsAreJobs DEF Return, SeenHeads, Detached, Parent
<1> QED
  BY <1>5, <1>6, <1>7, <1>8, <1>9, <1>10, <1>11, <1>12 DEF IInv

\* Taking the list moves every waiting link into the hands of the executor and
\* makes every head that was read before it out of date.
LEMMA DetachChildrenStep ==
  ASSUME IInv, NEW j \in Jobs, DetachChildren(j)
  PROVE  IInv'
<1>0. /\ TypeOK /\ DependencyCount /\ HandedOnce /\ Lists
      /\ PhaseFacts /\ LateLinks /\ HeadVersions /\ SeenHeads
  BY DEF IInv
<1>1. link' = link /\ edge' = edge /\ seen' = seen
  BY DEF DetachChildren, runVars, callVars
<1>2. \A k \in Jobs : /\ Outstanding(k)' = Outstanding(k)
                      /\ Submitters(k)' = Submitters(k)
                      /\ Joined(k)' = Joined(k)
  BY <1>1, CountsSame
<1>3. \A k \in Jobs : m_dependencies[k] \in Nat /\ queue[k] \in Nat
  BY <1>0 DEF TypeOK
<1>4. \A k \in Jobs : phase'[k] = IF k = j THEN "detaching" ELSE phase[k]
  BY <1>0 DEF DetachChildren, TypeOK
<1>5. detaching[j] = <<>> /\ ~ Detached(j)
  BY <1>0 DEF DetachChildren, PhaseFacts, Detached
<1>6. NextVersion(m_headDependee[j].version) = m_headDependee[j].version + 1 /\ m_headDependee[j].version + 1 < Versions
  <2>1. Joined(j) \in SUBSET Links
    BY DEF Joined
  <2>2. Cardinality(Joined(j)) <= Cardinality(Links) /\ Cardinality(Links) \in Nat
    BY <2>1, CountsAreNatural
  <2>3. m_headDependee[j].version = Cardinality(Joined(j))
    BY <1>0, <1>5, CountsAndVersions DEF HeadVersions
  <2>4. m_headDependee[j].version + 1 < Versions
    BY <1>0, <2>2, <2>3, CountsAndVersions, DependencyAssumption
  <2> QED
    BY <1>0, <2>4, CountsAndVersions, DependencyAssumption DEF NextVersion
<1>7. \A k \in Jobs : /\ m_headDependee'[k] = IF k = j THEN [list |-> <<>>, version |-> m_headDependee[j].version + 1]
                                               ELSE m_headDependee[k]
                      /\ detaching'[k] = IF k = j THEN m_headDependee[j].list ELSE detaching[k]
  BY <1>0, <1>6 DEF DetachChildren, TypeOK
<1>8. m_headDependee[j].list \in Seq(Links)
  BY <1>0 DEF TypeOK, Heads
<1>9. TypeOK'
  <2>1. [list |-> <<>>, version |-> m_headDependee[j].version + 1] \in Heads
    <3>1. m_headDependee[j].version + 1 \in 0 .. Versions - 1
      BY <1>0, <1>6, CountsAndVersions, DependencyAssumption
    <3> QED
      BY <3>1 DEF Heads
  <2>2. m_headDependee' \in [Jobs -> Heads]
    BY <1>0, <1>6, <2>1 DEF DetachChildren, TypeOK
  <2>3. detaching' \in [Jobs -> Seq(Links)]
    BY <1>0, <1>8 DEF DetachChildren, TypeOK
  <2>4. phase' \in [Jobs -> Phases]
    BY <1>0 DEF DetachChildren, TypeOK, Phases
  <2> QED
    BY <1>0, <2>2, <2>3, <2>4 DEF DetachChildren, callVars, TypeOK
<1>10. DependencyCount'
  BY <1>0, <1>2 DEF DetachChildren, runVars, callVars, DependencyCount
<1>11. HandedOnce'
  BY <1>0, <1>2, <1>3, <1>4, CountsAndVersions DEF DetachChildren, HandedOnce, Handed
<1>12. Lists'
  <2>1. \A p \in Jobs : ListOf(p, m_headDependee[p].list)' /\ ListOf(p, detaching[p])'
    BY <1>0, <1>1, <1>7 DEF Lists, ListOf, Parent
  <2>2. \A k \in Links :
           link'[k] = "attached" =>
             \/ k \in Elements(m_headDependee[Parent(k)].list)'
             \/ k \in Elements(detaching[Parent(k)])'
    BY <1>0, <1>1, <1>5, <1>7, EndsAreJobs DEF Lists, Elements, Parent
  <2> QED
    BY <2>1, <2>2 DEF Lists
<1>13. PhaseFacts'
  BY <1>0, <1>4, <1>7 DEF DetachChildren, PhaseFacts, Detached
<1>14. LateLinks'
  BY <1>0, <1>1 DEF DetachChildren, runVars, callVars, LateLinks, Parent
<1>15. HeadVersions'
  <2>1. \A k \in Jobs : m_headDependee'[k].version = m_headDependee[k].version + (IF k = j THEN 1 ELSE 0)
    BY <1>0, <1>7, CountsAndVersions
  <2> QED
    BY <1>0, <1>2, <1>4, <1>5, <2>1, CountsAndVersions DEF HeadVersions, Detached
<1>16. SeenHeads'
  <2>1. \A k \in Jobs :
          IF k = j THEN m_headDependee'[k].version = m_headDependee[k].version + 1
                   ELSE m_headDependee'[k] = m_headDependee[k]
    BY <1>7
  <2>2. \A l \in Links : Parent(l) \in Jobs /\ Parent(l)' = Parent(l)
    BY <1>0, <1>1, EndsAreJobs DEF Parent
  <2> QED
    BY <1>0, <1>1, <1>4, <2>1, <2>2, CountsAndVersions DEF SeenHeads, Detached
<1> QED
  BY <1>9, <1>10, <1>11, <1>12, <1>13, <1>14, <1>15, <1>16 DEF IInv

\* Releasing a link takes it off the list and out of the count of its child, and
\* leaves the child to the executor if it was the last one.
LEMMA RemoveDependencyStep ==
  ASSUME IInv, NEW p \in Jobs, RemoveDependency(p)
  PROVE  IInv'
<1>0. /\ TypeOK /\ DependencyCount /\ HandedOnce /\ Lists
      /\ PhaseFacts /\ LateLinks /\ HeadVersions /\ SeenHeads
  BY DEF IInv
<1>1. PICK l \in Links :
        /\ l = Head(detaching[p]) /\ l = detaching[p][1] /\ Parent(l) = p /\ link[l] = "attached"
        /\ Child(l) \in Jobs /\ detaching[p] # <<>> /\ detaching[p] \in Seq(Links)
  <2>1. detaching[p] \in Seq(Links) /\ detaching[p] # <<>>
    BY <1>0 DEF RemoveDependency, TypeOK
  <2>2. /\ Head(detaching[p]) \in Links /\ Head(detaching[p]) = detaching[p][1]
        /\ 1 \in 1 .. Len(detaching[p])
    BY <2>1
  <2>3. Parent(detaching[p][1]) = p /\ link[detaching[p][1]] = "attached"
    BY <1>0, <2>2 DEF Lists, ListOf
  <2> QED
    BY <1>0, <2>1, <2>2, <2>3, EndsAreJobs
<1>2. l \in Links /\ Parent(l) = p /\ link[l] = "attached" /\ Child(l) \in Jobs
  BY <1>1
<1>3. PICK s \in LinkStages :
        /\ link' = [link EXCEPT ![l] = s] /\ edge' = edge
        /\ s = IF m_dependencies[Child(l)] - 1 = 0 THEN "release" ELSE "released"
  BY <1>1 DEF RemoveDependency, LinkStages
<1>4. CountsMove(l, s)
  BY <1>0, <1>2, <1>3, LinkMoves
<1>5. \A j \in Jobs :
        /\ Cardinality(Outstanding(j)') = Cardinality(Outstanding(j)) - (IF Child(l) = j THEN 1 ELSE 0)
        /\ Cardinality(Submitters(j)') = Cardinality(Submitters(j)) + (IF Child(l) = j /\ s = "release" THEN 1 ELSE 0)
        /\ Cardinality(Joined(j)') = Cardinality(Joined(j))
  BY <1>0, <1>2, <1>3, <1>4, CountsAndVersions DEF CountsMove, Counted, One
<1>6. m_dependencies[Child(l)] > 0
  BY <1>0, <1>2, CounterFacts DEF Outstanding, Counted, TypeOK
<1>7. \A j \in Jobs : /\ m_dependencies[j] \in Nat /\ queue[j] \in Nat
                      /\ m_dependencies'[j] = m_dependencies[j] - (IF Child(l) = j THEN 1 ELSE 0)
                      /\ detaching'[j] = IF j = p THEN Tail(detaching[p]) ELSE detaching[j]
  BY <1>0, <1>1 DEF RemoveDependency, TypeOK
<1>8. phase[p] = "detaching" /\ m_headDependee[p].list = <<>> /\ m_finished[p]
  BY <1>0 DEF RemoveDependency, PhaseFacts, Detached
<1>9. TypeOK'
  <2>1. m_dependencies' \in [Jobs -> Nat]
    BY <1>0, <1>1, <1>6 DEF RemoveDependency, TypeOK
  <2>2. detaching' \in [Jobs -> Seq(Links)]
    BY <1>0, <1>1 DEF RemoveDependency, TypeOK
  <2>3. link' \in [Links -> LinkStages]
    BY <1>0, <1>3 DEF TypeOK
  <2> QED
    BY <1>0, <2>1, <2>2, <2>3 DEF RemoveDependency, TypeOK
<1>10. DependencyCount'
  <2>1. enabler' = enabler
    BY DEF RemoveDependency
  <2> QED
    BY <1>0, <1>2, <1>5, <1>7, <2>1, CountsAndVersions, DependencyAssumption DEF DependencyCount
<1>11. HandedOnce'
  <2> SUFFICES ASSUME NEW j \in Jobs
               PROVE  Handed(j)' = IF m_dependencies'[j] = 0 THEN 1 ELSE 0
    BY DEF HandedOnce
  <2>1. /\ UNCHANGED <<queue, enabler>>
        /\ phase'[j] = "waiting" <=> phase[j] = "waiting"
    BY <1>0 DEF RemoveDependency, TypeOK
  <2>2. Cardinality(Submitters(j)) \in Nat /\ queue[j] \in Nat /\ m_dependencies[Child(l)] \in Nat
    BY <1>0, <1>1, <1>7, CountsAndVersions
  <2>3. Handed(j) = IF m_dependencies[j] = 0 THEN 1 ELSE 0
    BY <1>0 DEF HandedOnce
  <2>4. CASE Child(l) = j
    BY <1>3, <1>5, <1>6, <1>7, <2>1, <2>2, <2>3, <2>4 DEF Handed
  <2>5. CASE Child(l) # j
    BY <1>5, <1>7, <2>1, <2>2, <2>3, <2>5 DEF Handed
  <2> QED
    BY <2>4, <2>5
<1>12. Lists'
  <2> DEFINE d == detaching[p]
             t == Tail(d)
  <2>0. \A k \in Links : link'[k] = IF k = l THEN s ELSE link[k]
    BY <1>0, <1>3 DEF TypeOK
  <2>1. m_headDependee' = m_headDependee
    BY DEF RemoveDependency
  <2>2. /\ Len(d) \in Nat /\ Len(d) >= 1 /\ Len(t) = Len(d) - 1
        /\ \A i \in 1 .. Len(t) : t[i] = d[i + 1] /\ i + 1 \in 1 .. Len(d) /\ t[i] \in Links
        /\ \A i \in 1 .. Len(d) : d[i] \in Links
    BY <1>1
  <2>3. /\ \A i \in 1 .. Len(d) : Parent(d[i]) = p /\ link[d[i]] = "attached"
        /\ \A i, k \in 1 .. Len(d) : d[i] = d[k] => i = k
    BY <1>0 DEF Lists, ListOf
  <2> HIDE DEF d, t
  <2>4. \A i \in 1 .. Len(t) : t[i] # l
    <3>1. l = d[1] /\ 1 \in 1 .. Len(d)
      BY <1>1, <2>2 DEF d
    <3>2. ASSUME NEW i \in 1 .. Len(t), t[i] = l
          PROVE  FALSE
      <4>1. d[i + 1] = d[1] /\ i + 1 \in 1 .. Len(d)
        BY <2>2, <3>1, <3>2
      <4>2. i + 1 = 1
        BY <2>3, <3>1, <4>1
      <4> QED
        BY <2>2, <4>2
    <3> QED
      BY <3>2
  <2>5. ASSUME NEW q \in Jobs
        PROVE  ListOf(q, m_headDependee[q].list)' /\ ListOf(q, detaching[q])'
    <3>1. \A i \in 1 .. Len(m_headDependee[q].list) :
             m_headDependee[q].list[i] \in Links /\ m_headDependee[q].list[i] # l
      <4>1. m_headDependee[q].list \in Seq(Links)
        BY <1>0 DEF TypeOK, Heads
      <4>2. CASE q = p
        BY <1>8, <4>2
      <4>3. CASE q # p
        BY <1>0, <1>1, <4>1, <4>3 DEF Lists, ListOf
      <4> QED
        BY <4>2, <4>3
    <3>2. ListOf(q, m_headDependee[q].list)'
      BY <1>0, <1>3, <2>0, <2>1, <3>1 DEF Lists, ListOf, Parent
    <3>3. CASE q = p
      <4>1. detaching'[q] = t
        BY <1>7, <3>3 DEF t, d
      <4>2. \A i \in 1 .. Len(t) : edge'[t[i]][2] = p /\ link'[t[i]] = "attached"
        BY <1>3, <2>0, <2>2, <2>3, <2>4 DEF Parent
      <4>3. \A i, k \in 1 .. Len(t) : t[i] = t[k] => i = k
        BY <2>2, <2>3
      <4> QED
        BY <3>2, <3>3, <4>1, <4>2, <4>3 DEF ListOf, Parent
    <3>4. CASE q # p
      <4>1. detaching'[q] = detaching[q] /\ detaching[q] \in Seq(Links)
        BY <1>0, <1>7, <3>4 DEF TypeOK
      <4>2. \A i \in 1 .. Len(detaching[q]) : detaching[q][i] \in Links /\ detaching[q][i] # l
        BY <1>0, <1>1, <3>4, <4>1 DEF Lists, ListOf
      <4> QED
        BY <1>0, <1>3, <2>0, <3>2, <4>1, <4>2 DEF Lists, ListOf, Parent
    <3> QED
      BY <3>3, <3>4
  <2>6. ASSUME NEW k \in Links, link'[k] = "attached"
        PROVE  \/ k \in Elements(m_headDependee[Parent(k)].list)'
               \/ k \in Elements(detaching[Parent(k)])'
    <3>0. Parent(k) \in Jobs /\ Parent(k)' = Parent(k)
      BY <1>0, <1>3, EndsAreJobs DEF Parent
    <3>1. k # l /\ link[k] = "attached"
      BY <1>3, <2>0, <2>6
    <3>2. \/ k \in Elements(m_headDependee[Parent(k)].list)
          \/ k \in Elements(detaching[Parent(k)])
      BY <1>0, <3>1 DEF Lists
    <3>3. CASE Parent(k) # p
      BY <1>7, <2>1, <3>0, <3>2, <3>3 DEF Elements
    <3>4. CASE Parent(k) = p
      <4>1. PICK i \in 1 .. Len(d) : k = d[i]
        BY <1>8, <3>2, <3>4 DEF Elements, d
      <4>2. i # 1
        BY <1>1, <3>1, <4>1 DEF d
      <4>3. i - 1 \in 1 .. Len(t) /\ t[i - 1] = k
        <5>1. i - 1 \in 1 .. Len(t)
          BY <2>2, <4>1, <4>2
        <5> QED
          BY <2>2, <4>1, <5>1
      <4>4. detaching'[Parent(k)] = t
        BY <1>7, <3>4 DEF t, d
      <4> QED
        BY <3>0, <4>3, <4>4 DEF Elements
    <3> QED
      BY <3>3, <3>4
  <2> QED
    BY <2>5, <2>6 DEF Lists
<1>13. PhaseFacts'
  BY <1>0, <1>7, <1>8 DEF RemoveDependency, PhaseFacts, Detached
<1>14. LateLinks'
  BY <1>0, <1>1, <1>3, <1>8 DEF RemoveDependency, LateLinks, Parent, TypeOK
<1>15. HeadVersions'
  BY <1>0, <1>5 DEF RemoveDependency, HeadVersions, Detached
<1>16. SeenHeads'
  BY <1>0, <1>1, <1>3 DEF RemoveDependency, SeenHeads, Detached, Parent, TypeOK
<1> QED
  BY <1>9, <1>10, <1>11, <1>12, <1>13, <1>14, <1>15, <1>16 DEF IInv

-----------------------------------------------------------------------------
(* The theorems. *)

\* Before the first call every counter stands at Job_Enable_Dependencies and
\* every list is empty.
LEMMA InitInv == Init => IInv
<1> SUFFICES ASSUME Init PROVE IInv
  OBVIOUS
<1>1. EmptyHead \in Heads
  <2>1. 0 \in 0 .. Versions - 1
    <3>1. Cardinality(Links) \in Nat
      BY DependencyAssumption, FS_CardinalityType
    <3> QED
      BY <3>1, DependencyAssumption
  <2> QED
    BY <2>1 DEF EmptyHead, Heads
<1>2. TypeOK
  BY <1>1, DependencyAssumption DEF Init, TypeOK, LinkStages, Phases
<1>3. \A j \in Jobs : Outstanding(j) = {} /\ Submitters(j) = {} /\ Joined(j) = {}
  BY DEF Init, Outstanding, Submitters, Joined, Counted
<1>4. Cardinality({}) = 0
  BY FS_EmptySet
<1>5. /\ Cardinality(Links) \in Nat
      /\ \A j \in Jobs : /\ Cardinality(Outstanding(j)) = 0
                         /\ Cardinality(Submitters(j)) = 0
                         /\ Cardinality(Joined(j)) = 0
  BY <1>3, <1>4, DependencyAssumption, FS_CardinalityType
<1>6. DependencyCount
  BY <1>5, DependencyAssumption DEF Init, DependencyCount
<1>7. HandedOnce
  BY <1>5, DependencyAssumption DEF Init, HandedOnce, Handed
<1>8. Lists
  BY DEF Init, Lists, ListOf, EmptyHead
<1>9. PhaseFacts /\ LateLinks
  BY DEF Init, PhaseFacts, LateLinks, EmptyHead, Detached
<1>10. HeadVersions
  BY <1>5 DEF Init, HeadVersions, EmptyHead, Detached
<1>11. SeenHeads
  BY DEF Init, SeenHeads
<1> QED
  BY <1>2, <1>6, <1>7, <1>8, <1>9, <1>10, <1>11 DEF IInv

LEMMA StutterStep ==
  ASSUME IInv, UNCHANGED vars
  PROVE  IInv'
<1>0. /\ TypeOK /\ DependencyCount /\ HandedOnce /\ Lists
      /\ PhaseFacts /\ LateLinks /\ HeadVersions /\ SeenHeads
  BY DEF IInv
<1>1. \A k \in Jobs : /\ Outstanding(k)' = Outstanding(k)
                      /\ Submitters(k)' = Submitters(k)
                      /\ Joined(k)' = Joined(k)
  BY CountsSame DEF vars
<1>2. TypeOK'
  BY <1>0 DEF vars, TypeOK
<1>3. DependencyCount' /\ HandedOnce'
  BY <1>0, <1>1 DEF vars, DependencyCount, HandedOnce, Handed
<1>4. Lists'
  BY <1>0, ListsSame DEF vars
<1>5. PhaseFacts' /\ LateLinks' /\ HeadVersions' /\ SeenHeads'
  BY <1>0, <1>1 DEF vars, PhaseFacts, LateLinks, HeadVersions, SeenHeads, Detached, Parent
<1> QED
  BY <1>2, <1>3, <1>4, <1>5 DEF IInv

LEMMA NextInv == IInv /\ [Next]_vars => IInv'
<1> SUFFICES ASSUME IInv, [Next]_vars PROVE IInv'
  OBVIOUS
<1>1. ASSUME NEW l \in Links, DependsOn(l) PROVE IInv'
  BY <1>1, DependsOnStep
<1>2. ASSUME NEW l \in Links, Call(l) PROVE IInv'
  <2>1. CASE ExchangeHead(l)
    BY <2>1, ExchangeSucceedsStep, ExchangeFailsStep
  <2> QED
    BY <1>2, <2>1, LoadHeadStep, CheckFinishedStep, RemoveLateStep, ResubmitStep DEF Call
<1>3. ASSUME NEW j \in Jobs, Enable(j) \/ SubmitEnabled(j) \/ EnableLocally(j) PROVE IInv'
  BY <1>3, EnableStep, SubmitEnabledStep, EnableLocallyStep
<1>4. ASSUME NEW j \in Jobs, Execute(j) PROVE IInv'
  BY <1>4, SetFinishedStep, DetachChildrenStep, RemoveDependencyStep, SubmitReleasedStep, ReturnStep
     DEF Execute
<1>5. ASSUME NEW j \in Jobs, NEW w \in Workers, ConsumeJob(w, j) PROVE IInv'
  BY <1>5, ConsumeJobStep
<1>6. CASE UNCHANGED vars
  BY <1>6, StutterStep
<1> QED
  BY <1>1, <1>2, <1>3, <1>4, <1>5, <1>6 DEF Next

\* The invariant holds throughout, whatever the graph of jobs and however
\* many threads link, enable and execute.
THEOREM Invariance == SafeSpec => []IInv
BY InitInv, NextInv, PTL DEF SafeSpec

\* Types are kept: no counter underflows, no version leaves its field.
THEOREM TypeCorrect == Spec => []TypeOK
<1>1. IInv => TypeOK
  BY DEF IInv
<1> QED
  BY <1>1, Invariance, PTL DEF Spec

\* m_dependencies counts exactly the dependencies that are still there.
THEOREM CountIsExact == Spec => []DependencyCount
<1>1. IInv => DependencyCount
  BY DEF IInv
<1> QED
  BY <1>1, Invariance, PTL DEF Spec

\* A job is in exactly one pair of hands from when its counter is zero.
THEOREM JobsAreHandedOnce == Spec => []HandedOnce
<1>1. IInv => HandedOnce
  BY DEF IInv
<1> QED
  BY <1>1, Invariance, PTL DEF Spec

\* No job starts before all that it was made to depend on has finished.
THEOREM DependenciesRunFirst == Spec => []RunsAfterDependencies
<1>1. ASSUME IInv PROVE RunsAfterDependencies
  <2> SUFFICES ASSUME NEW l \in Links, link[l] \notin {"idle", "ignored"},
                      phase[Child(l)] # "waiting"
               PROVE  m_finished[Parent(l)]
    BY DEF RunsAfterDependencies
  <2>0. TypeOK /\ DependencyCount /\ HandedOnce /\ LateLinks
    BY <1>1 DEF IInv
  <2>1. Child(l) \in Jobs
    BY <2>0, EndsAreJobs
  <2>2. Outstanding(Child(l)) = {}
    BY <2>0, <2>1, HolderFacts, CounterFacts
  <2>3. link[l] \notin Counted
    BY <2>2 DEF Outstanding
  <2>4. link[l] \in {"late", "resubmit", "undone", "release", "released"}
    BY <2>0, <2>3 DEF TypeOK, LinkStages, Counted
  <2> QED
    BY <2>0, <2>4 DEF LateLinks
<1> QED
  BY <1>1, Invariance, PTL DEF Spec

\* A job that has returned has left no dependant behind.
THEOREM NobodyIsForgotten == Spec => []NoForgottenDependant
<1>1. ASSUME IInv PROVE NoForgottenDependant
  <2> SUFFICES ASSUME NEW l \in Links, phase[Parent(l)] = "done", link[l] = "attached"
               PROVE  FALSE
    BY DEF NoForgottenDependant
  <2>0. TypeOK /\ Lists /\ PhaseFacts
    BY <1>1 DEF IInv
  <2>1. Parent(l) \in Jobs
    BY <2>0, EndsAreJobs
  <2>2. m_headDependee[Parent(l)].list = <<>> /\ detaching[Parent(l)] = <<>>
    BY <2>0, <2>1 DEF PhaseFacts, Detached
  <2>3. Elements(<<>>) = {}
    BY DEF Elements
  <2> QED
    BY <2>0, <2>2, <2>3 DEF Lists
<1> QED
  BY <1>1, Invariance, PTL DEF Spec

\* A job whose counter has come to zero stays scheduled.
THEOREM ScheduledJobsStay == Spec => ScheduledForGood
<1>1. ASSUME IInv, [Next]_vars
      PROVE  \A j \in Jobs : m_dependencies[j] = 0 => m_dependencies'[j] = 0
  <2> SUFFICES ASSUME NEW j \in Jobs, m_dependencies[j] = 0
               PROVE  m_dependencies'[j] = 0
    OBVIOUS
  <2>0. TypeOK /\ DependencyCount /\ HandedOnce /\ Lists
    BY <1>1 DEF IInv
  <2>1. enabler[j] # "no" /\ Outstanding(j) = {} /\ ~ (m_dependencies[j] >= EnableDependencies)
    BY <2>0, CounterFacts
  <2>2. \A l \in Links : Child(l) = j => link[l] \notin Counted
    BY <2>1 DEF Outstanding
  <2>3. ASSUME NEW l \in Links, DependsOn(l) \/ Call(l)
        PROVE  m_dependencies'[j] = 0
    <3>1. CASE DependsOn(l)
      BY <2>0, <3>1 DEF DependsOn, TypeOK
    <3>2. CASE RemoveLate(l)
      BY <2>0, <2>2, <3>2 DEF RemoveLate, TypeOK, Counted
    <3> QED
      BY <2>3, <3>1, <3>2 DEF Call, LoadHead, CheckFinished, ExchangeHead, Resubmit
  <2>4. ASSUME NEW k \in Jobs, Enable(k) \/ SubmitEnabled(k) \/ EnableLocally(k)
        PROVE  m_dependencies'[j] = 0
    BY <2>0, <2>1, <2>4 DEF Enable, SubmitEnabled, EnableLocally, TypeOK
  <2>5. ASSUME NEW k \in Jobs, Execute(k)
        PROVE  m_dependencies'[j] = 0
    <3>1. CASE RemoveDependency(k)
      <4>1. detaching[k] \in Seq(Links) /\ detaching[k] # <<>>
        BY <2>0, <3>1 DEF RemoveDependency, TypeOK
      <4>2. Head(detaching[k]) = detaching[k][1] /\ 1 \in 1 .. Len(detaching[k])
            /\ Head(detaching[k]) \in Links
        BY <4>1
      <4>3. link[Head(detaching[k])] = "attached"
        BY <2>0, <4>2 DEF Lists, ListOf
      <4>4. Child(Head(detaching[k])) # j
        BY <2>2, <4>2, <4>3 DEF Counted
      <4> QED
        BY <2>0, <3>1, <4>4 DEF RemoveDependency, TypeOK
    <3> QED
      BY <2>5, <3>1 DEF Execute, SetFinished, DetachChildren, SubmitReleased, Return
  <2>6. ASSUME NEW k \in Jobs, NEW w \in Workers, ConsumeJob(w, k)
        PROVE  m_dependencies'[j] = 0
    BY <2>6 DEF ConsumeJob
  <2>7. CASE UNCHANGED vars
    BY <2>7 DEF vars
  <2> QED
    BY <1>1, <2>3, <2>4, <2>5, <2>6, <2>7 DEF Next
<1> QED
  BY <1>1, Invariance, PTL DEF Spec, SafeSpec, ScheduledForGood

-----------------------------------------------------------------------------
(* The protocol implements JobOrder. *)

\* The stage of a job, without the order of the cases.
LEMMA StageCases ==
  ASSUME TypeOK, PhaseFacts, NEW j \in Jobs
  PROVE  StageOf(j) = IF phase[j] = "waiting"
                      THEN IF m_dependencies[j] = 0 THEN "scheduled" ELSE "held"
                      ELSE IF phase[j] = "running" THEN "running" ELSE "finished"
<1>1. phase[j] \in Phases
  BY DEF TypeOK
<1>2. m_finished[j] <=> phase[j] \in {"flagged", "detaching", "done"}
  BY DEF PhaseFacts
<1> QED
  BY <1>1, <1>2 DEF StageOf, Phases

\* What a job required has finished once none of its links is counted.
LEMMA RequiredHaveFinished ==
  ASSUME IInv, NEW j \in Jobs, Outstanding(j) = {}
  PROVE  \A p \in RequiredOf(j) : p \in Jobs /\ StageOf(p) = "finished"
<1> SUFFICES ASSUME NEW l \in Links, Child(l) = j, link[l] \notin {"idle", "ignored"}
             PROVE  Parent(l) \in Jobs /\ StageOf(Parent(l)) = "finished"
  BY DEF RequiredOf
<1>0. TypeOK /\ PhaseFacts /\ LateLinks
  BY DEF IInv
<1>1. Parent(l) \in Jobs
  BY <1>0, EndsAreJobs
<1>2. link[l] \notin Counted
  BY DEF Outstanding
<1>3. link[l] \in {"late", "resubmit", "undone", "release", "released"}
  BY <1>0, <1>2 DEF TypeOK, LinkStages, Counted
<1>4. phase[Parent(l)] \in {"flagged", "detaching", "done"}
  BY <1>0, <1>1, <1>3 DEF LateLinks, PhaseFacts
<1> QED
  BY <1>0, <1>1, <1>4, StageCases

\* The two facts as formulas of one state, to be used of the next state too.
LEMMA ZeroCounter ==
  IInv => \A j \in Jobs : m_dependencies[j] = 0 => enabler[j] # "no" /\ Outstanding(j) = {}
BY CounterFacts DEF IInv

LEMMA RequiredFinished ==
  IInv => \A j \in Jobs : Outstanding(j) = {}
            => \A p \in RequiredOf(j) : p \in Jobs /\ StageOf(p) = "finished"
BY RequiredHaveFinished

\* What the three abstract variables say, as functions of the protocol.
StageMap == [j \in Jobs |-> StageOf(j)]
RequiredMap == [j \in Jobs |-> RequiredOf(j)]
EnabledSet == {j \in Jobs : enabler[j] # "no"}

\* Moving a link that is idle neither before nor after requires nothing new.
LEMMA RequiredSame ==
  ASSUME TypeOK, edge' = edge,
         \A l \in Links : link'[l] \in {"idle", "ignored"} <=> link[l] \in {"idle", "ignored"}
  PROVE  RequiredMap' = RequiredMap
<1>1. \A j \in Jobs : RequiredOf(j)' = RequiredOf(j)
  BY DEF RequiredOf, Child, Parent
<1> QED
  BY <1>1 DEF RequiredMap

\* A step after which the abstract state is what it was, but for a job that
\* may have been scheduled.
LEMMA ScheduleOrStutter ==
  ASSUME IInv, IInv', RequiredMap' = RequiredMap, EnabledSet' = EnabledSet,
         phase' = phase, m_finished' = m_finished, edge' = edge, NEW c \in Jobs,
         m_dependencies[c] # 0,
         \A j \in Jobs : j # c => m_dependencies'[j] = m_dependencies[j]
  PROVE  [Order!OrderNext]_(Order!orderVars)
<1>0. TypeOK /\ PhaseFacts /\ HandedOnce /\ TypeOK' /\ PhaseFacts' /\ DependencyCount'
  BY DEF IInv
<1>1. \A j \in Jobs : j # c => StageOf(j)' = StageOf(j)
  BY <1>0 DEF StageOf
<1>2. StageOf(c) = "held"
  BY <1>0, StageCases, HolderFacts
<1>3. CASE m_dependencies'[c] # 0
  <2>1. StageOf(c)' = StageOf(c)
    BY <1>3 DEF StageOf
  <2>2. StageMap' = StageMap
    BY <1>1, <2>1 DEF StageMap
  <2> QED
    BY <2>2 DEF Order!orderVars, StageMap, RequiredMap, EnabledSet
<1>4. CASE m_dependencies'[c] = 0
  <2>1. phase[c] = "waiting"
    BY <1>0, HolderFacts
  <2>2. ~ m_finished[c] /\ ~ m_finished'[c]
    BY <1>0, <2>1 DEF PhaseFacts
  <2>3. StageOf(c)' = "scheduled"
    BY <1>4, <2>1, <2>2 DEF StageOf
  <2>4. StageMap' = [StageMap EXCEPT ![c] = "scheduled"]
    BY <1>1, <2>3 DEF StageMap
  <2>5. Outstanding(c)' = {} /\ enabler'[c] # "no"
    <3>1. IInv' => (\A j \in Jobs : m_dependencies[j] = 0 => enabler[j] # "no" /\ Outstanding(j) = {})'
      BY ZeroCounter, PTL
    <3> QED
      BY <1>4, <3>1
  <2>6. c \in EnabledSet
    BY <2>5 DEF EnabledSet
  <2>7. \A p \in RequiredOf(c)' : p \in Jobs /\ StageOf(p)' = "finished"
    <3>1. IInv' => (\A j \in Jobs : Outstanding(j) = {}
                       => \A p \in RequiredOf(j) : p \in Jobs /\ StageOf(p) = "finished")'
      BY RequiredFinished, PTL
    <3> QED
      BY <2>5, <3>1
  <2>8. \A p \in RequiredMap[c] : StageMap[p] = "finished"
    <3>1. RequiredMap[c] = RequiredOf(c)'
      BY DEF RequiredMap
    <3>2. ASSUME NEW p \in RequiredMap[c] PROVE StageMap[p] = "finished"
      <4>1. p \in Jobs /\ StageOf(p)' = "finished"
        BY <2>7, <3>1, <3>2
      <4>2. p # c
        BY <2>3, <4>1
      <4> QED
        BY <1>1, <4>1, <4>2 DEF StageMap
    <3> QED
      BY <3>2
  <2>9. Order!Schedule(c)
    BY <1>2, <2>4, <2>6, <2>8 DEF Order!Schedule, Order!Satisfied, StageMap, RequiredMap, EnabledSet
  <2> QED
    BY <2>9 DEF Order!OrderNext
<1> QED
  BY <1>3, <1>4

\* The program begins with every job held back and nothing required.
LEMMA OrderInitially == Init => Order!OrderInit
<1> SUFFICES ASSUME Init PROVE Order!OrderInit
  OBVIOUS
<1>0. EnableDependencies # 0
  <2>1. Cardinality(Links) \in Nat
    BY DependencyAssumption, FS_CardinalityType
  <2> QED
    BY <2>1, DependencyAssumption
<1>1. \A j \in Jobs : StageOf(j) = "held"
  BY <1>0 DEF Init, StageOf
<1>2. \A j \in Jobs : RequiredOf(j) = {}
  BY DEF Init, RequiredOf
<1>3. EnabledSet = {}
  BY DEF Init, EnabledSet
<1> QED
  BY <1>1, <1>2, <1>3 DEF Order!OrderInit, EnabledSet

\* A step of a thread in depends_on adds a requirement to a job that is held
\* back, schedules a job, or does nothing that JobOrder sees.
LEMMA CallsKeepOrder ==
  ASSUME IInv, IInv', NEW l \in Links, DependsOn(l) \/ Call(l)
  PROVE  [Order!OrderNext]_(Order!orderVars)
<1>0. TypeOK /\ PhaseFacts /\ HandedOnce
  BY DEF IInv
<1>1. Child(l) \in Jobs /\ Parent(l) \in Jobs
  BY <1>0, EndsAreJobs
<1>2. /\ phase' = phase /\ m_finished' = m_finished /\ edge' = edge
      /\ enabler' = enabler
  BY DEF DependsOn, Call, LoadHead, CheckFinished, ExchangeHead, RemoveLate, Resubmit, runVars
<1>3. EnabledSet' = EnabledSet
  BY <1>2 DEF EnabledSet
<1>4. ASSUME m_dependencies' = m_dependencies PROVE StageMap' = StageMap
  <2>1. \A j \in Jobs : StageOf(j)' = StageOf(j)
    BY <1>2, <1>4 DEF StageOf
  <2> QED
    BY <2>1 DEF StageMap
<1>5. CASE DependsOn(l) /\ m_dependencies[Child(l)] # 0
  <2>1. \A k \in Links : link'[k] = IF k = l THEN "attach" ELSE link[k]
    BY <1>0, <1>5 DEF DependsOn, TypeOK
  <2>2. \A j \in Jobs : (m_dependencies'[j] = 0) <=> (m_dependencies[j] = 0)
    BY <1>0, <1>1, <1>5 DEF DependsOn, TypeOK
  <2>3. \A j \in Jobs : StageOf(j)' = StageOf(j)
    BY <1>2, <2>2 DEF StageOf
  <2>4. StageMap' = StageMap
    BY <2>3 DEF StageMap
  <2>5. link[l] = "idle"
    BY <1>5 DEF DependsOn
  <2>6. \A j \in Jobs : RequiredOf(j)' =
           IF j = Child(l) THEN RequiredOf(j) \cup {Parent(l)} ELSE RequiredOf(j)
    BY <1>2, <2>1, <2>5 DEF RequiredOf, Child, Parent
  <2>7. RequiredMap' = [RequiredMap EXCEPT ![Child(l)] = @ \cup {Parent(l)}]
    BY <1>1, <2>6 DEF RequiredMap
  <2>8. StageMap[Child(l)] = "held"
    BY <1>0, <1>1, <1>5, StageCases, HolderFacts DEF StageMap
  <2>9. Order!Require(Child(l), Parent(l))
    BY <1>3, <2>4, <2>7, <2>8 DEF Order!Require, StageMap, RequiredMap, EnabledSet
  <2> QED
    BY <1>1, <2>9 DEF Order!OrderNext
<1>6. CASE RemoveLate(l)
  <2>1. RequiredMap' = RequiredMap
    BY <1>0, <1>2, <1>6, RequiredSame DEF RemoveLate, TypeOK
  <2>2. m_dependencies[Child(l)] # 0
    <3>1. l \in Outstanding(Child(l))
      BY <1>6 DEF RemoveLate, Outstanding, Counted
    <3> QED
      BY <1>1, <3>1, ZeroCounter
  <2>3. \A j \in Jobs : j # Child(l) => m_dependencies'[j] = m_dependencies[j]
    BY <1>0, <1>6 DEF RemoveLate, TypeOK
  <2> QED
    BY <1>1, <1>2, <1>3, <2>1, <2>2, <2>3, ScheduleOrStutter
<1>7. CASE \/ DependsOn(l) /\ m_dependencies[Child(l)] = 0
           \/ LoadHead(l) \/ CheckFinished(l) \/ ExchangeHead(l) \/ Resubmit(l)
  <2>1. m_dependencies' = m_dependencies
    BY <1>7 DEF DependsOn, LoadHead, CheckFinished, ExchangeHead, Resubmit
  <2>2. RequiredMap' = RequiredMap
    <3>1. \A k \in Links : link'[k] \in {"idle", "ignored"} <=> link[k] \in {"idle", "ignored"}
      BY <1>0, <1>7 DEF DependsOn, LoadHead, CheckFinished, ExchangeHead, Resubmit, TypeOK
    <3> QED
      BY <1>0, <1>2, <3>1, RequiredSame
  <2> QED
    BY <1>3, <1>4, <2>1, <2>2 DEF Order!orderVars, StageMap, RequiredMap, EnabledSet
<1> QED
  BY <1>5, <1>6, <1>7 DEF Call

\* A step of a thread that enables or executes a job is the step of JobOrder
\* of that name, or releases a dependant, which may schedule it.
LEMMA JobsKeepOrder ==
  ASSUME IInv, IInv', NEW j \in Jobs,
         \/ Enable(j) \/ SubmitEnabled(j) \/ EnableLocally(j) \/ Execute(j)
         \/ \E w \in Workers : ConsumeJob(w, j)
  PROVE  [Order!OrderNext]_(Order!orderVars)
<1>0. TypeOK /\ PhaseFacts /\ HandedOnce /\ DependencyCount /\ Lists
  BY DEF IInv
<1>a. EnableDependencies # 0 /\ EnableDependencies \in Nat
  <2>1. Cardinality(Links) \in Nat
    BY DependencyAssumption, FS_CardinalityType
  <2> QED
    BY <2>1, DependencyAssumption
<1>1. CASE Enable(j)
  <2>1. /\ link' = link /\ edge' = edge /\ phase' = phase /\ m_finished' = m_finished
    BY <1>1 DEF Enable, callVars, runVars
  <2>2. RequiredMap' = RequiredMap
    BY <1>0, <2>1, RequiredSame
  <2>3. enabler[j] = "no" /\ m_dependencies[j] # 0
    BY <1>0, <1>1, <1>a, CounterFacts DEF Enable
  <2>4. StageMap[j] = "held" /\ phase[j] = "waiting"
    BY <1>0, <2>3, StageCases, HolderFacts DEF StageMap
  <2>5. EnabledSet' = EnabledSet \cup {j} /\ j \notin EnabledSet
    BY <1>0, <1>1, <2>3 DEF Enable, TypeOK, EnabledSet
  <2>6. \A k \in Jobs : k # j => StageOf(k)' = StageOf(k)
    BY <1>0, <1>1, <2>1 DEF Enable, TypeOK, StageOf
  <2>7. CASE m_dependencies'[j] # 0
    <3>1. StageOf(j)' = StageOf(j)
      BY <2>1, <2>3, <2>7 DEF StageOf
    <3>2. StageMap' = StageMap
      BY <2>6, <3>1 DEF StageMap
    <3>3. Order!Enable(j)
      BY <2>2, <2>4, <2>5, <3>2 DEF Order!Enable, StageMap, RequiredMap, EnabledSet
    <3> QED
      BY <3>3 DEF Order!OrderNext
  <2>8. CASE m_dependencies'[j] = 0
    <3>1. ~ m_finished[j]
      BY <1>0, <2>4 DEF PhaseFacts
    <3>2. StageOf(j)' = "scheduled"
      BY <2>1, <2>4, <2>8, <3>1 DEF StageOf
    <3>3. StageMap' = [StageMap EXCEPT ![j] = "scheduled"]
      BY <2>6, <3>2 DEF StageMap
    <3>4. m_dependencies[j] = EnableDependencies
      BY <1>0, <1>1, <1>a, <2>8 DEF Enable, TypeOK
    <3>5. Outstanding(j) = {}
      BY <1>0, <3>4, CounterFacts
    <3>6. \A p \in RequiredMap[j] : StageMap[p] = "finished"
      BY <3>5, RequiredFinished DEF RequiredMap, StageMap
    <3>7. Order!Enable(j)
      BY <2>2, <2>4, <2>5, <3>3, <3>6 DEF Order!Enable, Order!Satisfied, StageMap, RequiredMap, EnabledSet
    <3> QED
      BY <3>7 DEF Order!OrderNext
  <2> QED
    BY <2>7, <2>8
<1>2. CASE EnableLocally(j)
  <2>1. link' = link /\ edge' = edge /\ m_finished' = m_finished
    BY <1>2 DEF EnableLocally, callVars
  <2>2. RequiredMap' = RequiredMap
    BY <1>0, <2>1, RequiredSame
  <2>3. enabler[j] = "no" /\ m_dependencies[j] # 0 /\ Outstanding(j) = {}
    BY <1>0, <1>2, <1>a, CounterFacts DEF EnableLocally
  <2>4. StageMap[j] = "held" /\ phase[j] = "waiting"
    BY <1>0, <2>3, StageCases, HolderFacts DEF StageMap
  <2>5. EnabledSet' = EnabledSet \cup {j} /\ j \notin EnabledSet
    BY <1>0, <1>2, <2>3 DEF EnableLocally, TypeOK, EnabledSet
  <2>6. StageOf(j)' = "running" /\ \A k \in Jobs : k # j => StageOf(k)' = StageOf(k)
    <3>1. phase'[j] = "running" /\ ~ m_finished'[j]
      BY <1>0, <1>2, <2>1, <2>4 DEF EnableLocally, TypeOK, PhaseFacts
    <3>2. StageOf(j)' = "running"
      BY <3>1 DEF StageOf
    <3>3. \A k \in Jobs : k # j => StageOf(k)' = StageOf(k)
      BY <1>0, <1>2, <2>1 DEF EnableLocally, TypeOK, StageOf
    <3> QED
      BY <3>2, <3>3
  <2>7. StageMap' = [StageMap EXCEPT ![j] = "running"]
    BY <2>6 DEF StageMap
  <2>8. \A p \in RequiredMap[j] : StageMap[p] = "finished"
    BY <2>3, RequiredFinished DEF RequiredMap, StageMap
  <2>9. Order!EnableAndRun(j)
    BY <2>2, <2>4, <2>5, <2>7, <2>8
       DEF Order!EnableAndRun, Order!Satisfied, StageMap, RequiredMap, EnabledSet
  <2> QED
    BY <2>9 DEF Order!OrderNext
<1>3. CASE \E w \in Workers : ConsumeJob(w, j)
  <2>1. link' = link /\ edge' = edge /\ m_finished' = m_finished /\ enabler' = enabler
        /\ m_dependencies' = m_dependencies
    BY <1>3 DEF ConsumeJob, callVars
  <2>2. RequiredMap' = RequiredMap /\ EnabledSet' = EnabledSet
    BY <1>0, <2>1, RequiredSame DEF EnabledSet
  <2>3. m_dependencies[j] = 0 /\ phase[j] = "waiting"
    BY <1>0, <1>3, HolderFacts DEF ConsumeJob
  <2>4. StageMap[j] = "scheduled"
    BY <1>0, <2>3, StageCases DEF StageMap
  <2>5. StageOf(j)' = "running" /\ \A k \in Jobs : k # j => StageOf(k)' = StageOf(k)
    <3>1. phase'[j] = "running" /\ ~ m_finished'[j]
      BY <1>0, <1>3, <2>1, <2>3 DEF ConsumeJob, TypeOK, PhaseFacts
    <3>2. StageOf(j)' = "running"
      BY <3>1 DEF StageOf
    <3>3. \A k \in Jobs : k # j => StageOf(k)' = StageOf(k)
      BY <1>0, <1>3, <2>1 DEF ConsumeJob, TypeOK, StageOf
    <3> QED
      BY <3>2, <3>3
  <2>6. StageMap' = [StageMap EXCEPT ![j] = "running"]
    BY <2>5 DEF StageMap
  <2>7. Order!Run(j)
    BY <2>2, <2>4, <2>6 DEF Order!Run, StageMap, RequiredMap, EnabledSet
  <2> QED
    BY <2>7 DEF Order!OrderNext
<1>4. CASE SetFinished(j)
  <2>1. link' = link /\ edge' = edge /\ enabler' = enabler /\ m_dependencies' = m_dependencies
    BY <1>4 DEF SetFinished, callVars
  <2>2. RequiredMap' = RequiredMap /\ EnabledSet' = EnabledSet
    BY <1>0, <2>1, RequiredSame DEF EnabledSet
  <2>3. StageMap[j] = "running"
    BY <1>0, <1>4, StageCases DEF SetFinished, StageMap
  <2>4. StageOf(j)' = "finished" /\ \A k \in Jobs : k # j => StageOf(k)' = StageOf(k)
    <3>1. phase'[j] = "flagged" /\ m_finished'[j]
      BY <1>0, <1>4 DEF SetFinished, TypeOK
    <3>2. StageOf(j)' = "finished"
      BY <3>1 DEF StageOf
    <3>3. \A k \in Jobs : k # j => StageOf(k)' = StageOf(k)
      BY <1>0, <1>4, <2>1 DEF SetFinished, TypeOK, StageOf
    <3> QED
      BY <3>2, <3>3
  <2>5. StageMap' = [StageMap EXCEPT ![j] = "finished"]
    BY <2>4 DEF StageMap
  <2>6. Order!Finish(j)
    BY <2>2, <2>3, <2>5 DEF Order!Finish, StageMap, RequiredMap, EnabledSet
  <2> QED
    BY <2>6 DEF Order!OrderNext
<1>5. CASE RemoveDependency(j)
  <2> DEFINE l == Head(detaching[j])
  <2>1. l \in Links /\ link[l] = "attached"
    <3>1. detaching[j] \in Seq(Links) /\ detaching[j] # <<>>
      BY <1>0, <1>5 DEF RemoveDependency, TypeOK
    <3>2. l = detaching[j][1] /\ 1 \in 1 .. Len(detaching[j]) /\ l \in Links
      BY <3>1
    <3> QED
      BY <1>0, <3>2 DEF Lists, ListOf
  <2>2. /\ phase' = phase /\ m_finished' = m_finished /\ edge' = edge /\ enabler' = enabler
        /\ m_dependencies' = [m_dependencies EXCEPT ![Child(l)] = @ - 1]
    BY <1>5 DEF RemoveDependency
  <2>3. \A k \in Links : link'[k] \in {"idle", "ignored"} <=> link[k] \in {"idle", "ignored"}
    BY <1>0, <1>5, <2>1 DEF RemoveDependency, TypeOK
  <2> HIDE DEF l
  <2>4. RequiredMap' = RequiredMap /\ EnabledSet' = EnabledSet
    BY <1>0, <2>2, <2>3, RequiredSame DEF EnabledSet
  <2>5. Child(l) \in Jobs
    BY <1>0, <2>1, EndsAreJobs
  <2>6. m_dependencies[Child(l)] # 0
    <3>1. l \in Outstanding(Child(l))
      BY <2>1 DEF Outstanding, Counted
    <3> QED
      BY <2>5, <3>1, ZeroCounter
  <2>7. \A k \in Jobs : k # Child(l) => m_dependencies'[k] = m_dependencies[k]
    BY <1>0, <2>2, <2>5 DEF TypeOK
  <2> QED
    BY <2>2, <2>4, <2>5, <2>6, <2>7, ScheduleOrStutter
<1>6. CASE \/ SubmitEnabled(j) \/ DetachChildren(j) \/ Return(j)
           \/ \E l \in Links : SubmitReleased(l)
  <2>1. m_dependencies' = m_dependencies /\ m_finished' = m_finished /\ edge' = edge
    BY <1>6 DEF SubmitEnabled, DetachChildren, Return, SubmitReleased, callVars
  <2>2. \A k \in Links : link'[k] \in {"idle", "ignored"} <=> link[k] \in {"idle", "ignored"}
    BY <1>0, <1>6 DEF SubmitEnabled, DetachChildren, Return, SubmitReleased, callVars, TypeOK
  <2>3. \A k \in Jobs : enabler'[k] = "no" <=> enabler[k] = "no"
    BY <1>0, <1>6 DEF SubmitEnabled, DetachChildren, Return, SubmitReleased, TypeOK
  <2>4. RequiredMap' = RequiredMap /\ EnabledSet' = EnabledSet
    BY <1>0, <2>1, <2>2, <2>3, RequiredSame DEF EnabledSet
  <2>5. \A k \in Jobs : StageOf(k)' = StageOf(k)
    <3>1. \A k \in Jobs : /\ phase'[k] = "running" <=> phase[k] = "running"
                          /\ phase'[k] = "waiting" <=> phase[k] = "waiting"
      BY <1>0, <1>6 DEF SubmitEnabled, DetachChildren, Return, SubmitReleased, runVars, TypeOK
    <3> QED
      BY <2>1, <3>1 DEF StageOf
  <2>6. StageMap' = StageMap
    BY <2>5 DEF StageMap
  <2> QED
    BY <2>4, <2>6 DEF Order!orderVars, StageMap, RequiredMap, EnabledSet
<1> QED
  BY <1>1, <1>2, <1>3, <1>4, <1>5, <1>6 DEF Execute

\* Every execution of the protocol is one that JobOrder allows.
THEOREM ImplementsJobOrder == Spec => KeepsOrder
<1>1. ASSUME IInv, IInv', [Next]_vars
      PROVE  [Order!OrderNext]_(Order!orderVars)
  <2>1. CASE UNCHANGED vars
    <3>1. \A j \in Jobs : StageOf(j)' = StageOf(j) /\ RequiredOf(j)' = RequiredOf(j)
      BY <2>1 DEF vars, StageOf, RequiredOf, Child, Parent
    <3>2. EnabledSet' = EnabledSet
      BY <2>1 DEF vars, EnabledSet
    <3> QED
      BY <3>1, <3>2 DEF Order!orderVars, EnabledSet
  <2> QED
    BY <1>1, <2>1, CallsKeepOrder, JobsKeepOrder DEF Next
<1> QED
  BY <1>1, OrderInitially, NextInv, Invariance, PTL DEF Spec, SafeSpec, KeepsOrder, Order!OrderSpec

=============================================================================
