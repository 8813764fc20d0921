-------------------------- MODULE MCWayvncService --------------------------
(* Small instances of WayvncService for TLC. *)
EXTENDS WayvncService, TLC

Symmetry == Permutations(Clients)
=============================================================================
