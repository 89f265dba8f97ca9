------------------------------ MODULE UndoTape ------------------------------
(* What an undo history promises: a tape of snapshots of which the one under
   the cursor is the drawing as it was last recorded. Recording forgets what
   lies beyond the cursor and, at the limit, the oldest snapshot; undo and
   redo only move the cursor. Nothing else may touch the tape.            *)
EXTENDS Integers, Sequences

CONSTANTS Depth         \* undo steps kept
VARIABLES tape, cursor

tapeVars == <<tape, cursor>>

Newest(s, n) == IF Len(s) <= n THEN s ELSE SubSeq(s, Len(s) - n + 1, Len(s))

TapeInit == tape = <<>> /\ cursor = 0

\* A drawing is bound: the history starts again from its first snapshot.
Rebase(s) == tape' = <<s>> /\ cursor' = 1

\* A change is recorded behind the cursor.
Record(s) ==
    /\ tape' = Newest(Append(SubSeq(tape, 1, cursor), s), Depth + 1)
    /\ cursor' = Len(tape')

\* The last snapshot repeats the one before it and is dropped.
DropRepeat ==
    /\ cursor = Len(tape) /\ cursor >= 2
    /\ tape[cursor] = tape[cursor - 1]
    /\ tape' = SubSeq(tape, 1, cursor - 1)
    /\ cursor' = cursor - 1

MoveBack == cursor >= 2 /\ cursor' = cursor - 1 /\ UNCHANGED tape
MoveForward == cursor < Len(tape) /\ cursor' = cursor + 1 /\ UNCHANGED tape

TapeNext ==
    \/ \E s \in {tape'[i] : i \in DOMAIN tape'} : Rebase(s) \/ Record(s)
    \/ DropRepeat
    \/ MoveBack
    \/ MoveForward

TapeSpec == TapeInit /\ [][TapeNext]_tapeVars
=============================================================================
