----------------------------- MODULE AtomicDrawing ----------------------------
(***************************************************************************)
(* What the native bridge and its clients promise about one drawing: the    *)
(* work of a client happens as a whole, in one step, or not at all, and a   *)
(* client that names an outcome names the one that holds for good.          *)
(* LogicalBatch implements this specification.                              *)
(***************************************************************************)
CONSTANTS Client, Foreign, MarksOf(_)

VARIABLES
  view,    \* the drawing, without the work of a client that is not decided
  disk,    \* the drawing file
  kept,    \* the clients whose work took effect
  told     \* told[c]: the outcome client c reported, or "none"

absVars == <<view, disk, kept, told>>

AbsInit ==
  view = {} /\ disk = {} /\ kept = {} /\ told = [c \in Client |-> "none"]

\* All marks of c appear at once, unless c reported that they never will.
Apply(c) ==
  /\ c \notin kept
  /\ told[c] \notin {"ROLLED_BACK_VERIFIED", "REFUSED"}
  /\ view' = view \cup MarksOf(c)
  /\ kept' = kept \cup {c}
  /\ UNCHANGED <<disk, told>>

\* A client reports once; a definite report is true when it is made.
Tell(c, s) ==
  /\ told[c] = "none"
  /\ s = "COMMITTED" => c \in kept
  /\ s \in {"ROLLED_BACK_VERIFIED", "REFUSED"} => c \notin kept
  /\ told' = [told EXCEPT ![c] = s]
  /\ UNCHANGED <<view, disk, kept>>

Edit ==
  /\ view' = IF Foreign \in view THEN view \ {Foreign} ELSE view \cup {Foreign}
  /\ UNCHANGED <<disk, kept, told>>

SaveView == disk' = view /\ UNCHANGED <<view, kept, told>>

\* AutoCAD is gone, or the drawing is opened again: what was not saved is lost.
Reload == view' = disk /\ UNCHANGED <<disk, kept, told>>

AbsNext ==
  \/ \E c \in Client : Apply(c)
  \/ \E c \in Client :
       \E s \in {"COMMITTED", "ROLLED_BACK_VERIFIED", "REFUSED", "UNCERTAIN", "DEAD"} : Tell(c, s)
  \/ Edit
  \/ SaveView
  \/ Reload

AbsSpec == AbsInit /\ [][AbsNext]_absVars

=============================================================================
