------------------------- MODULE FailStopWriter -------------------------
(***************************************************************************)
(* What the shared mutation authority of the provider promises to the     *)
(* drawing: at any time at most one mutation that was handed to AutoCAD   *)
(* is unfinished, whichever lane carries it, and once the authority has   *)
(* shut no further mutation is handed over, although one that is already  *)
(* there may still finish, however late.                                  *)
(***************************************************************************)
CONSTANT Calls

VARIABLES writing,   \* the mutations AutoCAD was handed and has not finished
          shut       \* the authority has been quarantined

vars == <<writing, shut>>

Init == writing = {} /\ shut = FALSE

Start(c) ==
  /\ ~shut
  /\ writing = {}
  /\ writing' = {c}
  /\ UNCHANGED shut

\* A mutation ends, and its end may be what shuts the authority.
Finish(c) ==
  /\ writing = {c}
  /\ writing' = {}
  /\ shut' \in {shut, TRUE}

Shut ==
  /\ shut' = TRUE
  /\ UNCHANGED writing

Next == Shut \/ \E c \in Calls : Start(c) \/ Finish(c)

Spec == Init /\ [][Next]_vars
=============================================================================
