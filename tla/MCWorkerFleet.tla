---------------------------- MODULE MCWorkerFleet ----------------------------
(* The instances of WorkerFleet that TLC checks. *)
EXTENDS WorkerFleet, TLC

FleetSymmetry == Permutations(Workers) \cup Permutations(Collectors)

=============================================================================
