---------------------------- MODULE MCRateControl ----------------------------
(* The instances of RateControl that TLC checks. *)
EXTENDS RateControl, TLC

ShortRetries == {0, 2}

WorkerSymmetry == Permutations(Workers)

=============================================================================
