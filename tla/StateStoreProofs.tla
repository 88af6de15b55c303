-------------------------- MODULE StateStoreProofs --------------------------
(***************************************************************************)
(* Theorems about StateStore for every set of states, leases and pages and *)
(* every choice of page references.  The inductive invariant IInv joins    *)
(* the type, the two lease indexes and the two directions of the lineage;  *)
(* from it follow what the collector may take and how the store implements *)
(* StateLifecycle.                                                         *)
(***************************************************************************)
EXTENDS StateStore, TLAPS

IInv == TypeOK /\ LeaseIndexesAgree /\ LineageAgrees /\ LineageEnds

(***************************************************************************)
(* The initial states, and the two steps that touch neither index.         *)
(***************************************************************************)
(* An empty store satisfies the invariant: Init and Reopen make one.       *)
LEMMA EmptyIInv ==
    ASSUME Known = {}, DOMAIN leases = {},
           states \in [Known -> Node],
           leases \in [DOMAIN leases -> StateId],
           stored \subseteq Page, report \in Report
    PROVE  IInv
  BY DEF IInv, TypeOK, LeaseIndexesAgree, LineageAgrees, LineageEnds, Known

LEMMA InitIInv == Init => IInv
<1> SUFFICES ASSUME Init PROVE IInv
  OBVIOUS
<1>1. Known = {} /\ DOMAIN leases = {}
  BY DEF Init, Known
<1>2. states \in [Known -> Node] /\ leases \in [DOMAIN leases -> StateId]
  BY DEF Init, Known
<1>3. stored \subseteq Page /\ report \in Report
  BY DEF Init, NoReport, Report
<1> QED
  BY <1>1, <1>2, <1>3, EmptyIInv

(* commit_root adds an isolated node.                                      *)
LEMMA CommitRootIInv ==
    ASSUME IInv, NEW i \in StateId, CommitRoot(i)
    PROVE  IInv'
<1> USE StoreAssumption DEF IInv
<1>1. /\ Known' = Known \cup {i} /\ i \notin Known
      /\ states'[i] = NewNode(NoParent)
      /\ \A j \in Known : states'[j] = states[j]
  BY DEF CommitRoot, Insert, Known
<1>2. UNCHANGED <<leases, stored>> /\ report' = NoReport
  BY DEF CommitRoot
<1>3. states' \in [Known' -> Node]
  <2>1. NewNode(NoParent) \in Node
    BY DEF NewNode, Node
  <2>2. states' = [j \in Known' |-> states'[j]]
    BY DEF CommitRoot, Insert, Known
  <2>3. \A j \in Known' : states'[j] \in Node
    BY <1>1, <2>1 DEF TypeOK
  <2> QED
    BY <2>2, <2>3
<1>4. TypeOK'
  BY <1>1, <1>2, <1>3 DEF TypeOK, NoReport, Report
<1>5. LeaseIndexesAgree'
  BY <1>1, <1>2 DEF LeaseIndexesAgree, NewNode
<1>6. LineageAgrees'
  BY <1>1 DEF LineageAgrees, NewNode, TypeOK
<1>7. LineageEnds'
  <2> SUFFICES ASSUME NEW S \in SUBSET Known', S # {}
               PROVE  \E j \in S : states'[j].parent \notin S
    BY DEF LineageEnds
  <2>1. CASE i \in S
    BY <2>1, <1>1 DEF NewNode, TypeOK
  <2>2. CASE i \notin S
    BY <2>2, <1>1 DEF LineageEnds
  <2> QED
    BY <2>1, <2>2
<1> QED
  BY <1>4, <1>5, <1>6, <1>7

(* fork adds a leaf under a state that is already there, so that no walk   *)
(* along parent_id passes through the new state.                           *)
LEMMA ForkIInv ==
    ASSUME IInv, NEW p \in StateId, NEW c \in StateId, Fork(p, c)
    PROVE  IInv'
<1> USE StoreAssumption DEF IInv
<1>1. /\ Known' = Known \cup {c} /\ c \notin Known /\ p \in Known
      /\ states'[c] = NewNode(p)
      /\ \A j \in Known \ {p} : states'[j] = states[j]
      /\ states'[p] = [states[p] EXCEPT !.children = @ \cup {c}]
  BY DEF Fork, Insert, Known, TypeOK
<1>2. UNCHANGED <<leases, stored>> /\ report' = NoReport
  BY DEF Fork
<1>3. states' \in [Known' -> Node]
  <2>1. NewNode(p) \in Node
    BY DEF NewNode, Node
  <2>2. states' = [j \in Known' |-> states'[j]]
    BY DEF Fork, Insert, Known
  <2>3. states'[p] \in Node
    BY <1>1 DEF TypeOK, Node
  <2>4. \A j \in Known' : states'[j] \in Node
    BY <1>1, <2>1, <2>3 DEF TypeOK
  <2> QED
    BY <2>2, <2>4
<1>4. TypeOK'
  BY <1>1, <1>2, <1>3 DEF TypeOK, NoReport, Report
<1>5. \A j \in Known : /\ states'[j].parent = states[j].parent
                       /\ states'[j].active = states[j].active
  BY <1>1 DEF TypeOK, Node
<1>6. LeaseIndexesAgree'
  BY <1>1, <1>2, <1>5 DEF LeaseIndexesAgree, NewNode
<1>7. LineageAgrees'
  <2>1. /\ Known' = Known \cup {c} /\ c \notin Known /\ p \in Known
        /\ states'[p].children = states[p].children \cup {c}
        /\ \A j \in Known \ {p} : states'[j].children = states[j].children
        /\ \A j \in Known : states'[j].parent = states[j].parent
        /\ states'[c].children = {} /\ states'[c].parent = p
    BY <1>1, <1>5 DEF TypeOK, Node, NewNode
  <2>2. \A i \in Known' : states'[i].parent \in Known' \cup {NoParent}
    BY <2>1 DEF LineageAgrees
  <2>3. ASSUME NEW i \in Known', NEW k \in StateId
        PROVE  k \in states'[i].children
                 <=> k \in Known' /\ states'[k].parent = i
    <3>1. CASE i = c
      BY <3>1, <2>1 DEF LineageAgrees
    <3>2. CASE i # c /\ k = c
      <4>1. c \notin states[i].children
        BY <3>2, <2>1 DEF LineageAgrees
      <4> QED
        BY <4>1, <3>2, <2>1
    <3>3. CASE i # c /\ k # c
      <4>1. k \in states[i].children <=> k \in Known /\ states[k].parent = i
        BY <3>3, <2>1 DEF LineageAgrees
      <4> QED
        BY <4>1, <3>3, <2>1
    <3> QED
      BY <3>1, <3>2, <3>3
  <2> QED
    BY <2>2, <2>3 DEF LineageAgrees
<1>8. LineageEnds'
  <2> SUFFICES ASSUME NEW S \in SUBSET Known', S # {}
               PROVE  \E j \in S : states'[j].parent \notin S
    BY DEF LineageEnds
  <2>1. CASE S \ {c} = {}
    BY <2>1, <1>1 DEF NewNode
  <2>2. CASE S \ {c} # {}
    <3>1. PICK j \in S \ {c} : states[j].parent \notin S \ {c}
      BY <2>2, <1>1 DEF LineageEnds
    <3>2. states[j].parent # c
      BY <3>1, <1>1 DEF LineageAgrees
    <3> QED
      BY <3>1, <3>2, <1>1, <1>5
  <2> QED
    BY <2>1, <2>2
<1> QED
  BY <1>4, <1>6, <1>7, <1>8

(* Lemma for the steps that keep the states and their lineage.             *)
LEMMA SameLineage ==
    ASSUME IInv, Known' = Known,
           \A j \in Known : /\ states'[j].parent = states[j].parent
                            /\ states'[j].children = states[j].children
    PROVE  LineageAgrees' /\ LineageEnds'
<1>1. LineageAgrees'
  BY DEF IInv, LineageAgrees, TypeOK
<1>2. LineageEnds'
  BY DEF IInv, LineageEnds
<1> QED
  BY <1>1, <1>2

LEMMA RegisterLeaseIInv ==
    ASSUME IInv, NEW l \in LeaseId, NEW i \in StateId, RegisterLease(l, i)
    PROVE  IInv'
<1> USE StoreAssumption DEF IInv
<1>1. /\ Known' = Known /\ i \in Known /\ l \notin DOMAIN leases
      /\ \A j \in Known \ {i} : states'[j] = states[j]
      /\ states'[i] = [states[i] EXCEPT !.active = @ \cup {l}]
  BY DEF RegisterLease, Known, TypeOK
<1>2. /\ DOMAIN leases' = DOMAIN leases \cup {l}
      /\ leases'[l] = i
      /\ \A k \in DOMAIN leases : leases'[k] = leases[k]
      /\ stored' = stored /\ report' = NoReport
  BY <1>1 DEF RegisterLease
<1>3. \A j \in Known : /\ states'[j] \in Node
                       /\ states'[j].parent = states[j].parent
                       /\ states'[j].children = states[j].children
  BY <1>1 DEF TypeOK, Node
<1>4. TypeOK'
  <2>1. states' \in [Known' -> Node]
    BY <1>1, <1>3 DEF RegisterLease, Known, TypeOK
  <2>2. leases' \in [DOMAIN leases' -> StateId]
    BY <1>2 DEF RegisterLease, TypeOK
  <2> QED
    BY <1>1, <1>2, <2>1, <2>2 DEF TypeOK, NoReport, Report
<1>5. LeaseIndexesAgree'
  <2>1. /\ states'[i].active = states[i].active \cup {l}
        /\ \A j \in Known \ {i} : states'[j].active = states[j].active
    BY <1>1 DEF TypeOK, Node
  <2>2. ASSUME NEW k \in LeaseId
        PROVE  k \in DOMAIN leases' => leases'[k] \in Known'
    BY <1>1, <1>2 DEF LeaseIndexesAgree
  <2>3. ASSUME NEW k \in LeaseId, NEW j \in Known'
        PROVE  k \in states'[j].active <=> k \in DOMAIN leases' /\ leases'[k] = j
    <3>1. k \in states[j].active <=> k \in DOMAIN leases /\ leases[k] = j
      BY <1>1 DEF LeaseIndexesAgree
    <3>2. CASE k = l
      BY <3>1, <3>2, <1>1, <1>2, <2>1
    <3>3. CASE k # l
      BY <3>1, <3>3, <1>1, <1>2, <2>1
    <3> QED
      BY <3>2, <3>3
  <2> QED
    BY <2>2, <2>3 DEF LeaseIndexesAgree
<1> QED
  BY <1>1, <1>3, <1>4, <1>5, SameLineage

LEMMA RevokeLeaseIInv ==
    ASSUME IInv, NEW l \in LeaseId, RevokeLease(l)
    PROVE  IInv'
<1> USE StoreAssumption DEF IInv
<1>1. PICK t \in Known : t = leases[l]
  BY DEF RevokeLease, LeaseIndexesAgree
<1>2. /\ Known' = Known /\ l \in DOMAIN leases
      /\ \A j \in Known \ {t} : states'[j] = states[j]
      /\ states'[t] = [states[t] EXCEPT !.active = @ \ {l}]
  BY <1>1 DEF RevokeLease, Known
<1>3. /\ DOMAIN leases' = DOMAIN leases \ {l}
      /\ \A k \in DOMAIN leases' : leases'[k] = leases[k]
      /\ stored' = stored /\ report' = NoReport
  BY DEF RevokeLease
<1>4. \A j \in Known : /\ states'[j] \in Node
                       /\ states'[j].parent = states[j].parent
                       /\ states'[j].children = states[j].children
  BY <1>2 DEF TypeOK, Node
<1>5. TypeOK'
  <2>1. states' \in [Known' -> Node]
    BY <1>2, <1>4 DEF RevokeLease, Known, TypeOK
  <2>2. leases' \in [DOMAIN leases' -> StateId]
    BY <1>3 DEF RevokeLease, TypeOK
  <2> QED
    BY <1>2, <1>3, <2>1, <2>2 DEF TypeOK, NoReport, Report
<1>6. LeaseIndexesAgree'
  <2>1. /\ states'[t].active = states[t].active \ {l}
        /\ \A j \in Known \ {t} : states'[j].active = states[j].active
    BY <1>2 DEF TypeOK, Node
  <2>2. ASSUME NEW k \in LeaseId
        PROVE  k \in DOMAIN leases' => leases'[k] \in Known'
    BY <1>2, <1>3 DEF LeaseIndexesAgree
  <2>3. ASSUME NEW k \in LeaseId, NEW j \in Known'
        PROVE  k \in states'[j].active <=> k \in DOMAIN leases' /\ leases'[k] = j
    <3>1. k \in states[j].active <=> k \in DOMAIN leases /\ leases[k] = j
      BY <1>2 DEF LeaseIndexesAgree
    <3>2. CASE k = l
      BY <3>1, <3>2, <1>1, <1>2, <1>3, <2>1
    <3>3. CASE k # l
      BY <3>1, <3>3, <1>2, <1>3, <2>1
    <3> QED
      BY <3>2, <3>3
  <2> QED
    BY <2>2, <2>3 DEF LeaseIndexesAgree
<1> QED
  BY <1>2, <1>4, <1>5, <1>6, SameLineage

LEMMA ReleaseIInv ==
    ASSUME IInv, NEW i \in StateId, Release(i)
    PROVE  IInv'
<1> USE StoreAssumption DEF IInv
<1>1. /\ Known' = Known /\ i \in Known
      /\ \A j \in Known \ {i} : states'[j] = states[j]
      /\ states'[i] = [states[i] EXCEPT !.released = TRUE]
      /\ UNCHANGED <<leases, stored>> /\ report' = NoReport
  BY DEF Release, Known, TypeOK
<1>2. \A j \in Known : /\ states'[j] \in Node
                       /\ states'[j].parent = states[j].parent
                       /\ states'[j].children = states[j].children
                       /\ states'[j].active = states[j].active
  <2>1. ASSUME NEW j \in Known PROVE states[j] \in Node
    BY DEF TypeOK
  <2>2. /\ states'[i] \in Node /\ states'[i].parent = states[i].parent
        /\ states'[i].children = states[i].children
        /\ states'[i].active = states[i].active
    BY <1>1, <2>1 DEF Node
  <2> QED
    BY <1>1, <2>1, <2>2
<1>3. states' \in [Known' -> Node]
  BY <1>1, <1>2 DEF Release, Known, TypeOK
<1>4. TypeOK'
  BY <1>1, <1>3 DEF TypeOK, NoReport, Report
<1>5. LeaseIndexesAgree'
  BY <1>1, <1>2 DEF LeaseIndexesAgree
<1> QED
  BY <1>1, <1>2, <1>4, <1>5, SameLineage

(* The steps of the page files and of the collector leave the states and   *)
(* the leases alone.                                                       *)
LEMMA PageStepIInv ==
    ASSUME IInv, UNCHANGED <<states, leases>>, stored' \subseteq Page,
           report' \in Report
    PROVE  IInv'
<1>1. Known' = Known
  BY DEF Known
<1>2. TypeOK'
  BY <1>1 DEF IInv, TypeOK
<1>3. LeaseIndexesAgree'
  BY <1>1 DEF IInv, LeaseIndexesAgree
<1>4. LineageAgrees' /\ LineageEnds'
  BY <1>1, SameLineage
<1> QED
  BY <1>2, <1>3, <1>4 DEF IInv

LEMMA ReopenIInv == ASSUME IInv, Reopen PROVE IInv'
<1>1. Known' = {} /\ DOMAIN leases' = {}
  BY DEF Reopen, Known
<1>2. TypeOK'
  BY <1>1 DEF IInv, Reopen, TypeOK, Known, NoReport, Report
<1>3. LeaseIndexesAgree' /\ LineageAgrees' /\ LineageEnds'
  BY <1>1 DEF LeaseIndexesAgree, LineageAgrees, LineageEnds
<1> QED
  BY <1>2, <1>3 DEF IInv

(* Every step keeps the invariant: one case for each operation.            *)
LEMMA NextIInv == ASSUME IInv, [Next]_vars PROVE IInv'
<1>1. ASSUME NEW i \in StateId, CommitRoot(i) PROVE IInv'
  BY <1>1, CommitRootIInv
<1>2. ASSUME NEW p \in StateId, NEW c \in StateId, Fork(p, c) PROVE IInv'
  BY <1>2, ForkIInv
<1>3. ASSUME NEW l \in LeaseId, NEW i \in StateId, RegisterLease(l, i)
      PROVE  IInv'
  BY <1>3, RegisterLeaseIInv
<1>4. ASSUME NEW l \in LeaseId, RevokeLease(l) PROVE IInv'
  BY <1>4, RevokeLeaseIInv
<1>5. ASSUME NEW i \in StateId, Release(i) PROVE IInv'
  BY <1>5, ReleaseIInv
<1>6. ASSUME NEW p \in Page, WritePage(p) PROVE IInv'
  BY <1>6, PageStepIInv DEF WritePage, IInv, TypeOK, NoReport, Report
<1>7. CASE Collect
  BY <1>7, PageStepIInv
     DEF Collect, IInv, TypeOK, Report, Collectable, Reachable, Doomed
<1>8. ASSUME NEW p \in Page, NEW D \in SUBSET Page, CollectFails(p, D)
      PROVE  IInv'
  BY <1>8, PageStepIInv DEF CollectFails, IInv, TypeOK, NoReport, Report
<1>9. CASE Reopen
  BY <1>9, ReopenIInv
<1>10. CASE UNCHANGED vars
  BY <1>10, PageStepIInv DEF vars, IInv, TypeOK
<1> QED
  BY <1>1, <1>2, <1>3, <1>4, <1>5, <1>6, <1>7, <1>8, <1>9, <1>10 DEF Next

(* The invariant holds in every state the store can be in.                 *)
THEOREM Invariance == Spec => []IInv
<1>1. IInv /\ [Next]_vars => IInv'
  BY NextIInv
<1> QED
  BY InitIInv, <1>1, PTL DEF Spec

(* state_store.rs keeps nodes, leases and page files well formed.          *)
THEOREM TypeCorrect == Spec => []TypeOK
<1>1. IInv => TypeOK
  BY DEF IInv
<1> QED
  BY Invariance, <1>1, PTL

(* The store's map of leases and the nodes' active_leases agree always.    *)
THEOREM LeasesAgree == Spec => []LeaseIndexesAgree
<1>1. IInv => LeaseIndexesAgree
  BY DEF IInv
<1> QED
  BY Invariance, <1>1, PTL

(* children and parent_id are inverse to each other.                       *)
THEOREM LineageSound == Spec => []LineageAgrees
<1>1. IInv => LineageAgrees
  BY DEF IInv
<1> QED
  BY Invariance, <1>1, PTL

(* A walk along parent_id ends, from every state and however it forks.     *)
THEOREM WalksEnd == Spec => []LineageEnds
<1>1. IInv => LineageEnds
  BY DEF IInv
<1> QED
  BY Invariance, <1>1, PTL

-----------------------------------------------------------------------------
(***************************************************************************)
(* Marking down the children finds what walking up the parents finds.      *)
(***************************************************************************)

(* The marked set has the roots, so what is not marked is released and     *)
(* without leases: the collector's own check adds nothing.                 *)
LEMMA CollectableUnmarked == Collectable = Known \ Reachable
<1> SUFFICES ASSUME NEW i \in Known \ Reachable
             PROVE  states[i].released /\ states[i].active = {}
  BY DEF Collectable
<1>1. PICK S \in SUBSET Known : Roots \subseteq S /\ i \notin S
  BY DEF Reachable
<1> QED
  BY <1>1 DEF Roots

LEMMA LineageIsClosed ==
    ASSUME IInv, NEW i \in Known
    PROVE  i \in Lineage(i) /\ ParentClosed(Lineage(i))
<1>1. i \in Lineage(i)
  BY DEF Lineage
<1>2. ASSUME NEW j \in Lineage(i), states[j].parent # NoParent
      PROVE  states[j].parent \in Lineage(i)
  <2>1. j \in Known /\ states[j].parent \in Known
    BY <1>2 DEF Lineage, IInv, LineageAgrees
  <2>2. ASSUME NEW S \in SUBSET Known, i \in S, ParentClosed(S)
        PROVE  states[j].parent \in S
    BY <1>2, <2>2 DEF Lineage, ParentClosed
  <2> QED
    BY <2>1, <2>2 DEF Lineage
<1> QED
  BY <1>1, <1>2 DEF ParentClosed

(* If no marked set can leave i out, some ancestor of i is a root, and the *)
(* other way round: the complement of a set closed under children is       *)
(* closed under parents.                                                   *)
LEMMA CollectableExact ==
    ASSUME IInv
    PROVE  Collectable = Garbage
<1>1. ASSUME NEW i \in Known \ Reachable
      PROVE  Lineage(i) \cap Roots = {}
  <2>1. PICK S \in SUBSET Known :
            Roots \subseteq S /\ ChildClosed(S) /\ i \notin S
    BY DEF Reachable
  <2>2. ASSUME NEW j \in Known \ S, states[j].parent # NoParent
        PROVE  states[j].parent \in Known \ S
    <3>1. j \in StateId /\ states[j].parent \in Known
      BY <2>2 DEF IInv, TypeOK, LineageAgrees
    <3>2. j \in states[states[j].parent].children
      BY <3>1 DEF IInv, LineageAgrees
    <3> QED
      BY <2>1, <3>1, <3>2 DEF ChildClosed
  <2>3. Lineage(i) \subseteq Known \ S
    BY <2>1, <2>2 DEF Lineage, ParentClosed
  <2> QED
    BY <2>1, <2>3
<1>2. ASSUME NEW i \in Known, Lineage(i) \cap Roots = {}
      PROVE  i \notin Reachable
  <2> DEFINE S == Known \ Lineage(i)
  <2>1. Roots \subseteq S
    BY <1>2 DEF Roots
  <2>2. ASSUME NEW j \in S, NEW c \in states[j].children
        PROVE  c \in S
    <3>1. c \in StateId
      BY <2>2 DEF IInv, TypeOK, Node
    <3>2. c \in Known /\ states[c].parent = j
      BY <2>2, <3>1 DEF IInv, LineageAgrees
    <3>3. j # NoParent
      BY StoreAssumption DEF IInv, TypeOK
    <3> QED
      BY <3>2, <3>3, LineageIsClosed DEF ParentClosed
  <2>3. i \notin S
    BY LineageIsClosed
  <2> QED
    BY <2>1, <2>2, <2>3 DEF Reachable, ChildClosed
<1> QED
  BY <1>1, <1>2, CollectableUnmarked DEF Garbage

(* gc.rs collects exactly the states with no unreleased or leased ancestor *)
(* that are not so themselves, whatever operations came before the pass.   *)
THEOREM CollectorIsExact == Spec => []CollectedExactly
<1>1. Init => CollectedExactly
  BY DEF Init, CollectedExactly
<1>2. IInv /\ CollectedExactly /\ [Next]_vars => CollectedExactly'
  <2> SUFFICES ASSUME IInv, CollectedExactly, [Next]_vars,
                      report' # NoReport
               PROVE  report'.collected = Garbage'
    BY DEF CollectedExactly
  <2>1. CASE Collect
    <3>1. states' = states /\ report'.collected = Collectable
      BY <2>1 DEF Collect
    <3>2. Garbage' = Garbage
      BY <3>1 DEF Garbage, Known, Lineage, ParentClosed, Roots
    <3> QED
      BY <3>1, <3>2, CollectableExact
  <2>2. CASE UNCHANGED vars
    BY <2>2 DEF vars, CollectedExactly, Garbage, Known, Lineage, ParentClosed, Roots
  <2>3. CASE Next /\ ~Collect
    BY <2>3 DEF Next, CommitRoot, Fork, RegisterLease, RevokeLease, Release,
                WritePage, CollectFails, Reopen
  <2> QED
    BY <2>1, <2>2, <2>3
<1> QED
  BY <1>1, <1>2, Invariance, PTL DEF Spec

(***************************************************************************)
(* How a step moves the marked set.                                        *)
(***************************************************************************)

(* A step whose new roots and new children are new states marks no old     *)
(* state: a marked set that leaves i out, with the new states added, still *)
(* does.                                                                   *)
LEMMA NothingRevives ==
    ASSUME Known \subseteq Known',
           Roots' \subseteq Roots \cup (Known' \ Known),
           \A j \in Known :
               states'[j].children \subseteq states[j].children \cup (Known' \ Known),
           \A j \in Known' \ Known : states'[j].children = {}
    PROVE  Reachable' \cap Known \subseteq Reachable
<1> SUFFICES ASSUME NEW i \in Known \ Reachable PROVE i \notin Reachable'
  OBVIOUS
<1>1. PICK S \in SUBSET Known :
          Roots \subseteq S /\ ChildClosed(S) /\ i \notin S
  BY DEF Reachable
<1> DEFINE T == S \cup (Known' \ Known)
<1>2. Roots' \subseteq T /\ T \in SUBSET Known' /\ i \notin T
  BY <1>1
<1>3. \A j \in T : states'[j].children \subseteq T
  BY <1>1 DEF ChildClosed
<1> QED
  BY <1>2, <1>3 DEF Reachable, ChildClosed

(* A step that takes away no root and no child unmarks nothing.            *)
LEMMA NothingIsLost ==
    ASSUME Known \subseteq Known', Roots \subseteq Roots',
           \A j \in Known : /\ states[j].children \subseteq states'[j].children
                            /\ states[j].children \subseteq Known
    PROVE  Reachable \subseteq Reachable'
<1> SUFFICES ASSUME NEW i \in Reachable,
                    NEW T \in SUBSET Known', Roots' \subseteq T, ChildClosed(T)'
             PROVE  i \in T
  BY DEF Reachable
<1>1. Roots \subseteq T \cap Known /\ T \cap Known \in SUBSET Known
  BY DEF Roots
<1>2. ChildClosed(T \cap Known)
  BY DEF ChildClosed
<1> QED
  BY <1>1, <1>2 DEF Reachable

LEMMA ChildrenAreKnown ==
    ASSUME IInv, NEW j \in Known
    PROVE  states[j].children \subseteq Known
  BY DEF IInv, TypeOK, LineageAgrees, Node

(* commit_root and fork: one new state, which is retained; the parent was  *)
(* retained already, since it is not released.                             *)
LEMMA CommitRootMarks ==
    ASSUME IInv, NEW i \in StateId, CommitRoot(i)
    PROVE  i \notin Known /\ Known' = Known \cup {i} /\ Reachable' = Reachable \cup {i}
<1>1. /\ Known' = Known \cup {i} /\ i \notin Known
      /\ states'[i] = NewNode(NoParent)
      /\ \A j \in Known : states'[j] = states[j]
  BY DEF CommitRoot, Insert, Known
<1>2. Roots' = Roots \cup {i}
  BY <1>1 DEF Roots, NewNode
<1>3. Reachable' \cap Known \subseteq Reachable
  BY <1>1, <1>2, NothingRevives DEF NewNode
<1>4. Reachable \subseteq Reachable'
  BY <1>1, <1>2, NothingIsLost, ChildrenAreKnown
<1>5. i \in Reachable'
  BY <1>1, <1>2 DEF Reachable
<1> QED
  BY <1>1, <1>3, <1>4, <1>5 DEF Reachable

LEMMA ForkMarks ==
    ASSUME IInv, NEW p \in StateId, NEW c \in StateId, Fork(p, c)
    PROVE  c \notin Known /\ Known' = Known \cup {c} /\ Reachable' = Reachable \cup {c}
<1>1. /\ Known' = Known \cup {c} /\ c \notin Known /\ p \in Known
      /\ states'[c] = NewNode(p)
      /\ \A j \in Known \ {p} : states'[j] = states[j]
      /\ states'[p] = [states[p] EXCEPT !.children = @ \cup {c}]
  BY DEF Fork, Insert, Known, IInv, TypeOK
<1>2. /\ states'[p].children = states[p].children \cup {c}
      /\ \A j \in Known \ {p} : states'[j].children = states[j].children
      /\ states'[c].children = {} /\ ~states'[c].released
      /\ \A j \in Known : /\ states'[j].released = states[j].released
                          /\ states'[j].active = states[j].active
  BY <1>1 DEF IInv, TypeOK, Node, NewNode
<1>3. Known' = Known \cup {c} /\ c \notin Known
  BY <1>1
<1>4. Roots' = Roots \cup {c}
  BY <1>2, <1>3 DEF Roots
<1>5. Reachable' \cap Known \subseteq Reachable
  BY <1>2, <1>3, <1>4, NothingRevives
<1>6. Reachable \subseteq Reachable'
  BY <1>2, <1>3, <1>4, NothingIsLost, ChildrenAreKnown
<1>7. c \in Reachable'
  BY <1>3, <1>4 DEF Reachable
<1> QED
  BY <1>3, <1>5, <1>6, <1>7 DEF Reachable

(* A lease goes to a state that is not released, hence a root already.     *)
LEMMA RegisterLeaseMarks ==
    ASSUME IInv, NEW l \in LeaseId, NEW i \in StateId, RegisterLease(l, i)
    PROVE  Known' = Known /\ Reachable' = Reachable
<1>1. /\ Known' = Known /\ i \in Known /\ ~states[i].released
      /\ \A j \in Known \ {i} : states'[j] = states[j]
      /\ states'[i] = [states[i] EXCEPT !.active = @ \cup {l}]
  BY DEF RegisterLease, Known, IInv, TypeOK
<1>2. /\ \A j \in Known : /\ states'[j].released = states[j].released
                          /\ states'[j].children = states[j].children
      /\ \A j \in Known \ {i} : states'[j].active = states[j].active
  BY <1>1 DEF IInv, TypeOK, Node
<1>3. Known' = Known /\ i \in Known /\ ~states[i].released
  BY <1>1
<1>4. Roots' = Roots
  BY <1>2, <1>3 DEF Roots
<1>5. Reachable' \cap Known \subseteq Reachable
  BY <1>2, <1>3, <1>4, NothingRevives
<1>6. Reachable \subseteq Reachable'
  BY <1>2, <1>3, <1>4, NothingIsLost, ChildrenAreKnown
<1> QED
  BY <1>3, <1>5, <1>6 DEF Reachable

(* revoke_lease and release can only take roots away.                      *)
LEMMA RevokeLeaseMarks ==
    ASSUME IInv, NEW l \in LeaseId, RevokeLease(l)
    PROVE  Known' = Known /\ Reachable' \subseteq Reachable
<1>1. PICK t \in Known : t = leases[l]
  BY DEF RevokeLease, IInv, LeaseIndexesAgree
<1>2. /\ Known' = Known
      /\ \A j \in Known \ {t} : states'[j] = states[j]
      /\ states'[t] = [states[t] EXCEPT !.active = @ \ {l}]
  BY <1>1 DEF RevokeLease, Known
<1>3. /\ \A j \in Known : /\ states'[j].released = states[j].released
                          /\ states'[j].children = states[j].children
                          /\ states'[j].active \subseteq states[j].active
  BY <1>2 DEF IInv, TypeOK, Node
<1>4. Known' = Known
  BY <1>2
<1>5. Roots' \subseteq Roots
  BY <1>3, <1>4 DEF Roots
<1>6. Reachable' \cap Known \subseteq Reachable
  BY <1>3, <1>4, <1>5, NothingRevives
<1> QED
  BY <1>4, <1>6 DEF Reachable

LEMMA ReleaseMarks ==
    ASSUME IInv, NEW i \in StateId, Release(i)
    PROVE  Known' = Known /\ Reachable' \subseteq Reachable
<1>1. /\ Known' = Known /\ i \in Known
      /\ \A j \in Known \ {i} : states'[j] = states[j]
      /\ states'[i] = [states[i] EXCEPT !.released = TRUE]
  BY DEF Release, Known, IInv, TypeOK
<1>2. /\ states'[i].released
      /\ \A j \in Known \ {i} : states'[j].released = states[j].released
      /\ \A j \in Known : /\ states'[j].children = states[j].children
                          /\ states'[j].active = states[j].active
  BY <1>1 DEF IInv, TypeOK, Node
<1>3. Known' = Known
  BY <1>1
<1>4. Roots' \subseteq Roots
  BY <1>2, <1>3 DEF Roots
<1>5. Reachable' \cap Known \subseteq Reachable
  BY <1>2, <1>3, <1>4, NothingRevives
<1> QED
  BY <1>3, <1>5 DEF Reachable

LEMMA SameMarks ==
    ASSUME states' = states
    PROVE  Known' = Known /\ Reachable' = Reachable
  BY DEF Known, Reachable, Roots, ChildClosed

LEMMA ReopenMarks ==
    ASSUME Reopen
    PROVE  Known' = {} /\ Reachable' = {}
<1>1. Known' = {}
  BY DEF Reopen, Known
<1> QED
  BY <1>1 DEF Reachable

(***************************************************************************)
(* The implementation of StateLifecycle.                                   *)
(***************************************************************************)

LEMMA ReachableIsKnown == Reachable \subseteq Known /\ Reachable' \subseteq Known'
  BY DEF Reachable, ChildClosed

(* What LifeStatus says of each id, before and after a step.               *)
LEMMA LifeStatusIs ==
    /\ LifeStatus = [i \in StateId |-> LifeStatus[i]]
    /\ \A i \in StateId :
         /\ i \notin Known => LifeStatus[i] = "absent"
         /\ i \in Reachable => LifeStatus[i] = "retained"
         /\ i \in Known \ Reachable => LifeStatus[i] = "garbage"
  BY ReachableIsKnown DEF LifeStatus

LEMMA LifeStatusIsNext ==
    /\ LifeStatus' = [i \in StateId |-> LifeStatus'[i]]
    /\ \A i \in StateId :
         /\ i \notin Known' => LifeStatus'[i] = "absent"
         /\ i \in Reachable' => LifeStatus'[i] = "retained"
         /\ i \in Known' \ Reachable' => LifeStatus'[i] = "garbage"
  BY ReachableIsKnown DEF LifeStatus

(* A new state is a Commit of the lifecycle. *)
LEMMA NewStateIsCommit ==
    ASSUME IInv, NEW i \in StateId, i \notin Known, stored' = stored,
           Known' = Known \cup {i}, Reachable' = Reachable \cup {i}
    PROVE  Life!Commit(i)
<1>1. LifeStatus[i] = "absent"
  BY LifeStatusIs
<1>2. \A j \in StateId :
        LifeStatus'[j] = IF j \in {i} THEN "retained" ELSE LifeStatus[j]
  BY LifeStatusIs, LifeStatusIsNext
<1> QED
  BY <1>1, <1>2, LifeStatusIsNext DEF Life!Commit, Life!Become

(* States that lose their marks are discarded. *)
LEMMA LostMarksAreDiscard ==
    ASSUME IInv, stored' = stored, Known' = Known, Reachable' \subseteq Reachable
    PROVE  Life!Discard(Reachable \ Reachable')
<1> DEFINE S == Reachable \ Reachable'
<1>1. S \subseteq StateId
  BY DEF Reachable, IInv, TypeOK
<1>2. S \subseteq Life!HasStatus("retained")
  BY <1>1, LifeStatusIs DEF Life!HasStatus
<1>3. \A j \in StateId :
        LifeStatus'[j] = IF j \in S THEN "garbage" ELSE LifeStatus[j]
  BY ReachableIsKnown, LifeStatusIs, LifeStatusIsNext
<1> QED
  BY <1>2, <1>3, LifeStatusIsNext DEF Life!Discard, Life!Become

(* A step that deletes pages of collectable states only is a Sweep. *)
LEMMA DeletionIsSweep ==
    ASSUME IInv, states' = states, NEW D \in SUBSET Doomed,
           stored' = stored \ D
    PROVE  Life!Sweep(D)
<1>1. ASSUME NEW p \in D
      PROVE  \E i \in Life!HasStatus("garbage") : p \in PageRefs[i]
  <2>1. PICK i \in Known \ Reachable : p \in PageRefs[i]
    BY CollectableUnmarked DEF Doomed, PagesOf
  <2>2. i \in StateId
    BY DEF IInv, TypeOK
  <2> QED
    BY <2>1, <2>2, LifeStatusIs DEF Life!HasStatus
<1>2. LifeStatus' = LifeStatus
  BY SameMarks DEF LifeStatus
<1> QED
  BY <1>1, <1>2 DEF Life!Sweep

LEMMA StepImplementsLife ==
    ASSUME IInv, [Next]_vars
    PROVE  [Life!Next]_Life!lifeVars
<1> USE DEF Life!Next
<1>1. ASSUME NEW i \in StateId, CommitRoot(i) PROVE Life!Next
  BY <1>1, CommitRootMarks, NewStateIsCommit DEF CommitRoot
<1>2. ASSUME NEW p \in StateId, NEW c \in StateId, Fork(p, c) PROVE Life!Next
  BY <1>2, ForkMarks, NewStateIsCommit DEF Fork
<1>3. ASSUME NEW l \in LeaseId, NEW i \in StateId, RegisterLease(l, i)
      PROVE  UNCHANGED Life!lifeVars
  BY <1>3, RegisterLeaseMarks DEF RegisterLease, Life!lifeVars, LifeStatus
<1>4. ASSUME stored' = stored, Known' = Known, Reachable' \subseteq Reachable
      PROVE  Life!Next
  <2>1. Reachable \ Reachable' \in SUBSET StateId
    BY ReachableIsKnown DEF IInv, TypeOK
  <2> QED
    BY <1>4, <2>1, LostMarksAreDiscard
<1>5. ASSUME NEW l \in LeaseId, RevokeLease(l) PROVE Life!Next
  <2>1. stored' = stored
    BY <1>5 DEF RevokeLease
  <2> QED
    BY <1>5, <2>1, <1>4, RevokeLeaseMarks
<1>6. ASSUME NEW i \in StateId, Release(i) PROVE Life!Next
  <2>1. stored' = stored
    BY <1>6 DEF Release
  <2> QED
    BY <1>6, <2>1, <1>4, ReleaseMarks
<1>7. ASSUME NEW p \in Page, WritePage(p) PROVE Life!Next
  BY <1>7, SameMarks DEF WritePage, Life!StorePage, LifeStatus
<1>8. Doomed \in SUBSET Page
  BY DEF Doomed, IInv, TypeOK
<1>9. CASE Collect
  BY <1>8, <1>9, DeletionIsSweep DEF Collect
<1>10. ASSUME NEW p \in Page, NEW D \in SUBSET Page, CollectFails(p, D)
       PROVE  Life!Next
  BY <1>10, DeletionIsSweep DEF CollectFails
<1>11. CASE Reopen
  <2>1. \A i \in StateId : LifeStatus'[i] = "absent"
    BY <1>11, ReopenMarks, LifeStatusIsNext
  <2> QED
    BY <1>11, <2>1, LifeStatusIsNext DEF Reopen, Life!Forget, Life!Become
<1>12. CASE UNCHANGED vars
  BY <1>12, SameMarks DEF vars, Life!lifeVars, LifeStatus
<1> QED
  BY <1>1, <1>2, <1>3, <1>5, <1>6, <1>7, <1>9, <1>10, <1>11, <1>12 DEF Next

(* The state store implements StateLifecycle: a state is retained from its *)
(* commit until nothing in use reaches it, never retained again, and only  *)
(* pages of such states are deleted.                                       *)
THEOREM StoreImplementsLifecycle == Spec => ImplementsLifecycle
<1>1. Init => Life!Init
  <2> SUFFICES ASSUME Init PROVE Life!Init
    OBVIOUS
  <2>1. Known = {}
    BY DEF Init, Known
  <2>2. LifeStatus = [i \in StateId |-> "absent"]
    BY <2>1, ReachableIsKnown DEF LifeStatus
  <2> QED
    BY <2>2 DEF Init, Life!Init
<1>2. IInv /\ [Next]_vars => [Life!Next]_Life!lifeVars
  BY StepImplementsLife
<1> QED
  BY <1>1, <1>2, Invariance, PTL DEF Spec, Life!Spec, ImplementsLifecycle

(* gc.rs, "It never ... resurrects a revoked state": an unreachable state  *)
(* stays unreachable for as long as the store is open.                     *)
THEOREM NothingIsResurrected == Spec => NoResurrection
<1>1. IInv /\ [Next]_vars
        => [(Known \cap Known') \ Reachable \subseteq Known' \ Reachable']_vars
  <2> SUFFICES ASSUME IInv, Next
               PROVE  (Known \cap Known') \ Reachable \subseteq Known' \ Reachable'
    OBVIOUS
  <2>1. CASE \E i \in StateId : CommitRoot(i)
    BY <2>1, CommitRootMarks
  <2>2. CASE \E p, c \in StateId : Fork(p, c)
    BY <2>2, ForkMarks
  <2>3. CASE \E l \in LeaseId, i \in StateId : RegisterLease(l, i)
    BY <2>3, RegisterLeaseMarks
  <2>4. CASE \E l \in LeaseId : RevokeLease(l)
    BY <2>4, RevokeLeaseMarks
  <2>5. CASE \E i \in StateId : Release(i)
    BY <2>5, ReleaseMarks
  <2>6. CASE states' = states
    BY <2>6, SameMarks
  <2>7. CASE Reopen
    BY <2>7, ReopenMarks
  <2> QED
    BY <2>1, <2>2, <2>3, <2>4, <2>5, <2>6, <2>7
       DEF Next, WritePage, Collect, CollectFails
<1> QED
  BY <1>1, Invariance, PTL DEF Spec, NoResurrection

(* gc.rs:77: whichever manifests share pages, a pass deletes only pages    *)
(* that garbage lists, also when it fails half way, and one that succeeds  *)
(* leaves none of them.  The collector computes the garbage by a walk down *)
(* the children; the theorem says it of the walk up the parents.           *)
THEOREM SweepIsExact == Spec => SweptExactly
<1>1. IInv => Doomed = stored \cap PagesOf(Garbage)
  BY CollectableExact DEF Doomed
<1>2. IInv /\ [Next]_vars
        => [/\ stored \ stored' \subseteq PagesOf(Garbage)
            /\ report' # NoReport => stored' \cap PagesOf(Garbage) = {}]_vars
  <2> SUFFICES ASSUME IInv, Next
               PROVE  /\ stored \ stored' \subseteq PagesOf(Garbage)
                      /\ report' # NoReport => stored' \cap PagesOf(Garbage) = {}
    OBVIOUS
  <2>1. CASE Collect
    BY <1>1, <2>1 DEF Collect
  <2>2. ASSUME NEW p \in Page, NEW D \in SUBSET Page, CollectFails(p, D)
        PROVE  stored \ stored' \subseteq PagesOf(Garbage) /\ report' = NoReport
    BY <1>1, <2>2 DEF CollectFails
  <2>3. CASE Next /\ ~Collect /\ ~(\E p \in Page, D \in SUBSET Page : CollectFails(p, D))
    BY <2>3 DEF Next, CommitRoot, Fork, RegisterLease, RevokeLease, Release,
                WritePage, Reopen
  <2> QED
    BY <2>1, <2>2, <2>3
<1> QED
  BY <1>2, Invariance, PTL DEF Spec, SweptExactly
=============================================================================
