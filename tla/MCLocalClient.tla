---------------------------- MODULE MCLocalClient ----------------------------
(***************************************************************************)
(* LocalClient on a small instance: two polls that may overlap (a          *)
(* scheduled refresh and one requested by a service call) and one unload.  *)
(***************************************************************************)
EXTENDS LocalClient, TLC

Symmetry == Permutations(Links) \cup Permutations(Polls)

=============================================================================
