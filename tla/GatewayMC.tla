------------------------------ MODULE GatewayMC -----------------------------
(* Gateway on small instances.                                              *)
EXTENDS Gateway, TLC

(* The paths are interchangeable.                                           *)
Symmetry == Permutations(Paths)
=============================================================================
