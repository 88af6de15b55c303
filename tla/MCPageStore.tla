----------------------------- MODULE MCPageStore ----------------------------
(***************************************************************************)
(* Small instances of PageStore.                                           *)
(***************************************************************************)
EXTENDS PageStore, TLC

(* Writers, pages and inodes differ only in their names. *)
Symmetry == Permutations(Writer) \cup Permutations(Page) \cup Permutations(Inode)
=============================================================================
