--------------------------- MODULE MCAccountKeys ---------------------------
(* The instances of AccountKeys that TLC checks. *)
EXTENDS AccountKeys, TLC

Symmetry == Permutations(Requests) \cup Permutations(Users)
            \cup Permutations(Checks) \cup Permutations(FirstKeys)

===========================================================================
