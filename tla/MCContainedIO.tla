--------------------------- MODULE MCContainedIO ---------------------------
(* Instances of ContainedIO for TLC. *)
EXTENDS ContainedIO, TLC

Symmetric == Permutations(Writers) \cup Permutations(Dirs)
=============================================================================
