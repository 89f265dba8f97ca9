--------------------------- MODULE MCSplitHost ---------------------------
(* Instances of SplitHost for TLC. *)
EXTENDS SplitHost, TLC

Symmetric == Permutations(Calls)
=============================================================================
