------------------------------ MODULE Sorting -------------------------------
(***************************************************************************)
(* The order in which code visits or returns the members of a set.         *)
(***************************************************************************)
EXTENDS Integers, FiniteSets

(* What of S goes before x, where before is a set of pairs. *)
Earlier(S, before, x) == {y \in S : <<y, x>> \in before}

(* The members of S in their order, if before is one. *)
Ordered(S, before) ==
    [k \in 1 .. Cardinality(S) |->
        CHOOSE x \in S : Cardinality(Earlier(S, before, x)) = k - 1]

(* The members of a set of numbers, the least first. *)
InOrder(S) == Ordered(S, {p \in S \X S : p[1] < p[2]})
=============================================================================
