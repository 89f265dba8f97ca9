--------------------------- MODULE MCComBackend ---------------------------
(* Instances of ComBackend for TLC. *)
EXTENDS ComBackend, TLC

Symmetric == Permutations(Calls)
=============================================================================
