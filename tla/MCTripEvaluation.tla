-------------------------- MODULE MCTripEvaluation --------------------------
(* Small instances of TripEvaluation.                                      *)
EXTENDS TripEvaluation, TLC

CallerSymmetry == Permutations(Callers)
MCTrips == {1}
MCTwoYears == {2024, 2025}
=============================================================================
