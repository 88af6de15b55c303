-------------------------- MODULE MCStreamSnapshots --------------------------
(***************************************************************************)
(* Small instances of StreamSnapshots.                                     *)
(***************************************************************************)
EXTENDS StreamSnapshots, TLC

CONSTANTS s1, s2, s3, p1, p2

(* s1 and s2 share p1, as a state and a fork that keeps its pages do. *)
SharedRefs == [i \in StateId |->
    CASE i = s1 -> {p1}
      [] i = s2 -> {p1, p2}
      [] OTHER  -> {}]

Symmetry == Permutations(LeaseId)
=============================================================================
