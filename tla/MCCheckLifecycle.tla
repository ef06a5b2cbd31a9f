------------------------- MODULE MCCheckLifecycle -------------------------
(* The instances of CheckLifecycle that TLC checks. *)
EXTENDS CheckLifecycle, TLC

PairOps == {"ping", "start", "delete"}
AllOps == OpKinds
FailOps == {"ping", "fail"}
DetectOps == {"start", "delete"}

OneAllowance == {1}
TwoAllowances == {1, 2}

RequestSymmetry == Permutations(Requests)
ScannerSymmetry == Permutations(Scanners)
SessionSymmetry == RequestSymmetry \cup ScannerSymmetry

(* At most two of the sessions are open, and of two requests one is done      *)
(* before the clock stops: every pair of overlapping requests and scans,      *)
(* without the states of three or four at once.                               *)
Open == {r \in Requests : req[r].pc # "idle"}

PairsOfSessions ==
    /\ Cardinality(Open) + Cardinality({s \in Scanners : scan[s].pc # "idle"}) <= 2
    /\ Cardinality(Open) = 2 => now < MaxTime

===========================================================================
