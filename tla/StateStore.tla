----------------------------- MODULE StateStore -----------------------------
(***************************************************************************)
(* proveKV's state store with its garbage collector (state_store.rs,       *)
(* branch.rs, gc.rs).  A state is named by the digest of its manifest, so  *)
(* an id stands for the manifest it hashes and the page digests the        *)
(* manifest lists (PageRefs) never change.  The states and leases of a     *)
(* store are memory of one process; the page files are on disk, and a      *)
(* restart keeps only them.  Every operation takes &mut StateStore, so     *)
(* each is one step.  An operation that returns Err without a change is    *)
(* the absence of a step.                                                  *)
(*                                                                         *)
(* A definition whose name starts with Wrong is a mistake the definition   *)
(* after it could have had.  No specification uses it; put in the place of *)
(* the right one, it breaks the property that guards against it.           *)
(***************************************************************************)
EXTENDS FiniteSets

CONSTANTS
    StateId,    \* digests of valid manifests
    LeaseId,    \* lease ids
    Page,       \* page digests
    PageRefs,   \* StateId -> the digests in its manifest's page_refs
    NoParent    \* parent_id = None

ASSUME StoreAssumption ==
    /\ PageRefs \in [StateId -> SUBSET Page]
    /\ NoParent \notin StateId

VARIABLES
    states,     \* StateStore.states: committed id -> node
    leases,     \* StateStore.leases: registered lease id -> its state_id
    stored,     \* digests of the committed files of the page store
    report      \* GcReport of the step just taken, empty after other steps

vars == <<states, leases, stored, report>>

-----------------------------------------------------------------------------
(* The state nodes and the collector's view of them.                       *)

Node == [parent : StateId \cup {NoParent}, children : SUBSET StateId,
         active : SUBSET LeaseId, released : BOOLEAN]

Known == DOMAIN states

NewNode(p) == [parent |-> p, children |-> {}, active |-> {}, released |-> FALSE]

NoReport == [collected |-> {}, pages |-> {}, retained |-> {}]

Report == [collected : SUBSET StateId, pages : SUBSET Page,
           retained : SUBSET StateId]

(* Mistake: a leased state is in use only if it is not released. *)
WrongRoots == {i \in Known : ~states[i].released}

(* Where marking starts: states in use by themselves. *)
Roots == {i \in Known : ~states[i].released \/ states[i].active # {}}

(* The marked set: the least set of states that has the roots and, with a  *)
(* state, its children.                                                    *)
ChildClosed(S) == \A i \in S : states[i].children \subseteq S

(* Mistake: marking stops at the children of the roots. *)
WrongReachable == Roots \cup UNION {states[i].children : i \in Roots}

Reachable ==
    LET marked == {S \in SUBSET Known : Roots \subseteq S /\ ChildClosed(S)}
    IN  {i \in Known : \A S \in marked : i \in S}

Collectable ==
    {i \in Known \ Reachable : states[i].released /\ states[i].active = {}}

PagesOf(S) == UNION {PageRefs[i] : i \in S}

(* Mistake: the sweep takes the pages of every released state. *)
WrongDoomed == stored \cap PagesOf({i \in Known : states[i].released})

(* The page files a sweep will delete. *)
Doomed == stored \cap PagesOf(Collectable)

-----------------------------------------------------------------------------
Init ==
    /\ states = [i \in {} |-> NewNode(NoParent)]
    /\ leases = [l \in {} |-> NoParent]
    /\ stored = {}
    /\ report = NoReport

(* HashMap::insert of a state that commit_root or fork has just made. *)
Insert(nodes, i, node) ==
    [j \in DOMAIN nodes \cup {i} |-> IF j = i THEN node ELSE nodes[j]]

(* Mistake: commit_root does not look for a state with the same id. *)
WrongCommitRoot(i) ==
    /\ states' = Insert(states, i, NewNode(NoParent))
    /\ report' = NoReport
    /\ UNCHANGED <<leases, stored>>

CommitRoot(i) ==
    /\ i \notin Known
    /\ states' = Insert(states, i, NewNode(NoParent))
    /\ report' = NoReport
    /\ UNCHANGED <<leases, stored>>

(* Mistake: fork does not record the child in the parent. *)
WrongForkOneWay(p, c) ==
    /\ p \in Known
    /\ ~states[p].released
    /\ c \notin Known
    /\ states' = Insert(states, c, NewNode(p))
    /\ report' = NoReport
    /\ UNCHANGED <<leases, stored>>

(* Mistake: fork does not look for a state with the child's id. *)
WrongForkOverwrites(p, c) ==
    /\ p \in Known
    /\ ~states[p].released
    /\ states' = Insert([states EXCEPT ![p].children = @ \cup {c}],
                        c, NewNode(p))
    /\ report' = NoReport
    /\ UNCHANGED <<leases, stored>>

(* fork and branch: branch first records the parent in the manifest, which *)
(* only decides which id the child has.                                    *)
Fork(p, c) ==
    /\ p \in Known
    /\ ~states[p].released
    /\ c \notin Known
    /\ states' = Insert([states EXCEPT ![p].children = @ \cup {c}],
                        c, NewNode(p))
    /\ report' = NoReport
    /\ UNCHANGED <<leases, stored>>

(* Mistake: register_lease accepts a released state. *)
WrongRegisterLease(l, i) ==
    /\ l \notin DOMAIN leases
    /\ i \in Known
    /\ states' = [states EXCEPT ![i].active = @ \cup {l}]
    /\ leases' = [k \in DOMAIN leases \cup {l} |-> IF k = l THEN i ELSE leases[k]]
    /\ report' = NoReport
    /\ UNCHANGED stored

RegisterLease(l, i) ==
    /\ l \notin DOMAIN leases
    /\ i \in Known
    /\ ~states[i].released
    /\ states' = [states EXCEPT ![i].active = @ \cup {l}]
    /\ leases' = [k \in DOMAIN leases \cup {l} |-> IF k = l THEN i ELSE leases[k]]
    /\ report' = NoReport
    /\ UNCHANGED stored

(* Mistake: revoke_lease forgets the state's active_leases. *)
WrongRevokeLease(l) ==
    /\ l \in DOMAIN leases
    /\ leases' = [k \in DOMAIN leases \ {l} |-> leases[k]]
    /\ report' = NoReport
    /\ UNCHANGED <<states, stored>>

RevokeLease(l) ==
    /\ l \in DOMAIN leases
    /\ leases' = [k \in DOMAIN leases \ {l} |-> leases[k]]
    /\ states' = [i \in Known |->
                    IF i = leases[l]
                    THEN [states[i] EXCEPT !.active = @ \ {l}]
                    ELSE states[i]]
    /\ report' = NoReport
    /\ UNCHANGED stored

(* Allowed with leases outstanding and on a released state. *)
Release(i) ==
    /\ i \in Known
    /\ states' = [states EXCEPT ![i].released = TRUE]
    /\ report' = NoReport
    /\ UNCHANGED <<leases, stored>>

(* A page file reaches its final name, before or after a manifest that     *)
(* lists it is committed: the store checks neither order.                  *)
WritePage(p) ==
    /\ stored' = stored \cup {p}
    /\ report' = NoReport
    /\ UNCHANGED <<states, leases>>

(* A pass that succeeds.  The collected states stay in the map. *)
Collect ==
    /\ stored' = stored \ Doomed
    /\ report' = [collected |-> Collectable, pages |-> Doomed,
                  retained |-> Reachable]
    /\ UNCHANGED <<states, leases>>

(* delete_page fails on p: collect returns the error after having deleted  *)
(* some of the other pages, in the order of a HashMap.                     *)
CollectFails(p, D) ==
    /\ p \in Doomed
    /\ D \subseteq Doomed \ {p}
    /\ stored' = stored \ D
    /\ report' = NoReport
    /\ UNCHANGED <<states, leases>>

(* The process ends and StateStore::open makes a store over the same root: *)
(* it starts with no states and no leases and keeps the page files.        *)
Reopen ==
    /\ states' = [i \in {} |-> NewNode(NoParent)]
    /\ leases' = [l \in {} |-> NoParent]
    /\ report' = NoReport
    /\ UNCHANGED stored

Next ==
    \/ \E i \in StateId : CommitRoot(i)
    \/ \E p, c \in StateId : Fork(p, c)
    \/ \E l \in LeaseId, i \in StateId : RegisterLease(l, i)
    \/ \E l \in LeaseId : RevokeLease(l)
    \/ \E i \in StateId : Release(i)
    \/ \E p \in Page : WritePage(p)
    \/ Collect
    \/ \E p \in Page, D \in SUBSET Page : CollectFails(p, D)
    \/ Reopen

Spec == Init /\ [][Next]_vars

-----------------------------------------------------------------------------
(* Properties.                                                             *)

(* Every node, lease and page file is well formed, and so is the report.   *)
TypeOK ==
    /\ Known \subseteq StateId
    /\ states \in [Known -> Node]
    /\ DOMAIN leases \subseteq LeaseId
    /\ leases \in [DOMAIN leases -> StateId]
    /\ stored \subseteq Page
    /\ report \in Report

(* The two indexes of the leases agree: a state's active_leases are the    *)
(* registered leases on it.  register_lease and revoke_lease update both,  *)
(* release neither; the collector reads one and revoke_lease the other.    *)
LeaseIndexesAgree ==
    \A l \in LeaseId :
        /\ l \in DOMAIN leases => leases[l] \in Known
        /\ \A i \in Known :
               l \in states[i].active <=> l \in DOMAIN leases /\ leases[l] = i

(* The two directions of the lineage agree: the children of a state are    *)
(* the committed states that name it as their parent.  The collector walks *)
(* one direction, replay the other.                                        *)
LineageAgrees ==
    \A i \in Known :
        /\ states[i].parent \in Known \cup {NoParent}
        /\ \A c \in StateId :
               c \in states[i].children <=> c \in Known /\ states[c].parent = i

(* Lineage has no cycle: in every set of states some state's parent is     *)
(* outside.  A walk along parent_id, as AgentSession::replay makes, ends.  *)
LineageEnds ==
    \A S \in SUBSET Known : S # {} => \E i \in S : states[i].parent \notin S

(* A state and its ancestors, found along parent_id. *)
ParentClosed(S) ==
    \A i \in S : states[i].parent # NoParent => states[i].parent \in S

Lineage(i) ==
    LET closed == {S \in SUBSET Known : i \in S /\ ParentClosed(S)}
    IN  {a \in Known : \A S \in closed : a \in S}

(* The states that have no unreleased or leased ancestor and are not so    *)
(* themselves.                                                             *)
Garbage == {i \in Known : Lineage(i) \cap Roots = {}}

(* A pass collects exactly the garbage.  The code finds it by a walk down  *)
(* the children from the roots.                                            *)
CollectedExactly == report # NoReport => report.collected = Garbage

(* gc.rs:77: whichever manifests share pages, only pages that garbage      *)
(* lists disappear, also in a pass that fails, so a state in use loses a   *)
(* page only if garbage lists it too; and after a pass that succeeds, even *)
(* after others failed, no page that garbage lists is left.                *)
SweptExactly ==
    [][/\ stored \ stored' \subseteq PagesOf(Garbage)
       /\ report' # NoReport => stored' \cap PagesOf(Garbage) = {}]_vars

(* "It never ... resurrects a revoked state" (gc.rs): a state that the     *)
(* collector may take stays so, whatever is committed, forked, leased,     *)
(* revoked or released later, until the store is opened anew.              *)
NoResurrection ==
    [][(Known \cap Known') \ Reachable \subseteq Known' \ Reachable']_vars

(* The states, seen from outside, live the life StateLifecycle gives them. *)
LifeStatus ==
    LET retained == Reachable
    IN  [i \in StateId |-> IF i \in retained THEN "retained"
                           ELSE IF i \in Known THEN "garbage" ELSE "absent"]

Life == INSTANCE StateLifecycle WITH status <- LifeStatus

ImplementsLifecycle == Life!Spec

(* What gc.rs says of a pass.                                              *)

(* gc.rs:5, "It never deletes a reachable page": no page file disappears   *)
(* while a reachable state refers to it.  The code breaks this promise     *)
(* where a state it collects lists the page as well.                       *)
ReachablePagesKept ==
    [][(stored \ stored') \cap PagesOf(Reachable) = {}]_vars
=============================================================================
