----------------------------- MODULE MCSupervisor -----------------------------
(* Small instances of SupervisorProxy for TLC. *)
EXTENDS SupervisorProxy, TLC

RequestSymmetry == Permutations(Request)

=============================================================================
