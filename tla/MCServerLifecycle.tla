-------------------------- MODULE MCServerLifecycle --------------------------
(* An instance of ServerLifecycle for TLC; keys are interchangeable. *)
EXTENDS ServerLifecycle, TLC

Symmetry == Permutations(EncKeys)
=============================================================================
