------------------------------ MODULE MCApiClient ------------------------------
(* ApiClient with three overlapping calls and times scaled down.            *)
EXTENDS ApiClient, TLC

Symmetry == Permutations(Calls)
=============================================================================
