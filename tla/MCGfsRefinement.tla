-------------------------- MODULE MCGfsRefinement --------------------------
(* GfsRefinement for TLC. *)
EXTENDS GfsRefinement, GfsCommands, TLC

AnyClient == Permutations(Client)
============================================================================
