----------------------------- MODULE MCRetention -----------------------------
(* The instances of Retention that TLC checks. *)
EXTENDS Retention, TLC

RetentionSymmetry == Permutations(Pings) \cup Permutations(Checks)

=============================================================================
