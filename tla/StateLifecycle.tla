--------------------------- MODULE StateLifecycle ---------------------------
(***************************************************************************)
(* What the state store promises its callers, without lineage, leases or   *)
(* release flags: a state id is absent until it is committed, retained     *)
(* while something keeps it reachable, garbage afterwards, and garbage is  *)
(* never retained again; a page file is deleted only when a garbage state  *)
(* refers to it.  StateStore implements this module, which                 *)
(* StateStoreProofs proves (StoreImplementsLifecycle).                 *)
(***************************************************************************)
CONSTANTS
    StateId,    \* ids of hybrid states: digests of their manifests
    Page,       \* digests of pages
    PageRefs    \* the digests in each manifest's page_refs

VARIABLES
    status,     \* where each id stands in its life
    stored      \* digests of the page files on disk

lifeVars == <<status, stored>>

Status == {"absent", "retained", "garbage"}

HasStatus(s) == {i \in StateId : status[i] = s}

Become(S, s) == status' = [i \in StateId |-> IF i \in S THEN s ELSE status[i]]

Init ==
    /\ status = [i \in StateId |-> "absent"]
    /\ stored = {}

(* A manifest that was never committed becomes a retained state. *)
Commit(i) ==
    /\ status[i] = "absent"
    /\ Become({i}, "retained")
    /\ UNCHANGED stored

(* Any number of retained states lose their last reason to stay. *)
Discard(S) ==
    /\ S \subseteq HasStatus("retained")
    /\ Become(S, "garbage")
    /\ UNCHANGED stored

StorePage(p) ==
    /\ stored' = stored \cup {p}
    /\ UNCHANGED status

(* A collection may stop half way, so it deletes any part of the pages of  *)
(* the garbage states, but no other page.                                  *)
Sweep(D) ==
    /\ \A p \in D : \E i \in HasStatus("garbage") : p \in PageRefs[i]
    /\ stored' = stored \ D
    /\ UNCHANGED status

(* The states live in memory only; the page files survive. *)
Forget ==
    /\ Become(StateId, "absent")
    /\ UNCHANGED stored

Next ==
    \/ \E i \in StateId : Commit(i)
    \/ \E S \in SUBSET StateId : Discard(S)
    \/ \E p \in Page : StorePage(p)
    \/ \E D \in SUBSET Page : Sweep(D)
    \/ Forget

Spec == Init /\ [][Next]_lifeVars
=============================================================================
