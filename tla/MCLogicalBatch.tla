---------------------------- MODULE MCLogicalBatch ----------------------------
(* Small instances of LogicalBatch for TLC. *)
EXTENDS LogicalBatch

CONSTANTS a, b

MCSizeTwo == [c \in Client |-> IF c \in Setter THEN 1 ELSE 2]

=============================================================================
