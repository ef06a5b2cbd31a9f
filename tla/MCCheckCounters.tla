--------------------------- MODULE MCCheckCounters ---------------------------
(* The instances of CheckCounters that TLC checks. *)
EXTENDS CheckCounters, TLC

CountersSymmetry ==
    Permutations(Requests) \cup Permutations(Checks) \cup Permutations(Flushes)

=============================================================================
