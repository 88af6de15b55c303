---------------------------- MODULE MCStateStore ----------------------------
(***************************************************************************)
(* Small instances of StateStore.                                          *)
(***************************************************************************)
EXTENDS StateStore, TLC

CONSTANTS s1, s2, s3, s4, p1, p2

(* s1 and s2 share p1, as a state and a fork that keeps its pages do. *)
SharedRefs == [i \in StateId |->
    CASE i = s1 -> {p1}
      [] i = s2 -> {p1, p2}
      [] OTHER  -> {}]

(* Leases differ only in their names, and so do states without pages. *)
Symmetry == Permutations(LeaseId) \cup Permutations(StateId \ {s1, s2})
=============================================================================
