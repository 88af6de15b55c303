---------------------------- MODULE PageRegistry ----------------------------
(***************************************************************************)
(* What the page store promises: a set of whole pages.  A page that        *)
(* write_page has returned Ok for is promised, and survives every crash    *)
(* until it is deleted.  A crash may lose the other pages and may bring    *)
(* deleted ones back.  PageStore implements this module as long as no two  *)
(* callers work on one page at the same time.                              *)
(***************************************************************************)
CONSTANT Page

VARIABLES
    present,    \* pages that can be read
    promised    \* pages whose write has returned Ok since the last delete

registryVars == <<present, promised>>

Init == present = {} /\ promised = {}

Publish(p) ==
    /\ present' = present \cup {p}
    /\ UNCHANGED promised

Promise(p) ==
    /\ p \in present
    /\ promised' = promised \cup {p}
    /\ UNCHANGED present

Delete(p) ==
    /\ present' = present \ {p}
    /\ promised' = promised \ {p}

Crash ==
    /\ present' \in {S \in SUBSET Page : promised \subseteq S}
    /\ UNCHANGED promised

Next == Crash \/ \E p \in Page : Publish(p) \/ Promise(p) \/ Delete(p)

Spec == Init /\ [][Next]_registryVars
=============================================================================
