--------------------------- MODULE MCArtifactSeal ---------------------------
(* Instances of ArtifactSeal for TLC. *)
EXTENDS ArtifactSeal, TLC

Symmetric == Permutations(Sealers) \cup Permutations(Exporters) \cup Permutations(Data)
=============================================================================
