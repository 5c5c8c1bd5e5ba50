---------------------------- MODULE OmtSessionMC ----------------------------
(* OmtSession on small instances.                                           *)
EXTENDS OmtSession, TLC

(* Callers, and the runs not yet spawned, are interchangeable.              *)
Symmetry == Permutations(Callers) \cup Permutations(Runs)
=============================================================================
