---------------------------- MODULE MCGrdService ----------------------------
(* Small instances of GrdService for TLC. *)
EXTENDS GrdService, TLC

Symmetry == Permutations(Clients)
=============================================================================
