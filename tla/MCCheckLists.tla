----------------------------- MODULE MCCheckLists -----------------------------
(* The instances of CheckLists that TLC checks. *)
EXTENDS CheckLists, TLC

ListsSymmetry == Permutations(Checks)

=============================================================================
