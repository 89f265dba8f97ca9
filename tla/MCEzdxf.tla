------------------------------ MODULE MCEzdxf ------------------------------
(* Instances of EzdxfBackend for TLC. *)
EXTENDS EzdxfBackend

CONSTANTS zero, walls, door, sheet, c1, c2, f1

FoldExact == [n \in Names |-> n]

OneBadLinetype == [kind |-> "layer_update", layer |-> zero, change |-> [field |-> "locked", to |-> TRUE], linetypeExists |-> FALSE]
Line == [kind |-> "create", layer |-> Nil]

\* One call at a time, nobody gives up: layers and blocks.
Blocks ==
    [callers |-> {c1}, requests |-> {"new", "undo", "redo"},
     edits |-> [kind : {"create"}, layer : {walls}] \cup [kind : {"block_insert"}, block : {door}, layer : {Nil}]
               \cup [kind : {"layer_create", "layer_set_current"}, layer : {walls}]
               \cup [kind : {"delete"}, ent : Handles] \cup [kind : {"purge"}]
               \cup [kind : {"block_create"}, block : {door}, ents : SUBSET Handles \ {{}}],
     budget |-> 8, impatient |-> FALSE, disk |-> {EmptyDrawing}]
\* One call at a time, nobody gives up: every operation.
Everything ==
    [callers |-> {c1}, requests |-> {"new", "open", "save", "begin", "rollback", "read"}, edits |-> Edits,
     budget |-> 4, impatient |-> FALSE, disk |-> {[EmptyDrawing EXCEPT !.flawed = TRUE]}]
\* Calls of all kinds at once, abandoned at will.
AtOnce ==
    [callers |-> {c1, c2}, requests |-> Control \ {"read", "export"}, edits |-> {OneBadLinetype, Line},
     budget |-> 4, impatient |-> TRUE, disk |-> {EmptyDrawing}]

\* Exports that come late.
Exports ==
    [callers |-> {c1, c2}, requests |-> {"new", "export"}, edits |-> {Line}, budget |-> 5,
     impatient |-> TRUE, disk |-> {EmptyDrawing}]

MCScenarios == {Blocks, Everything, AtOnce, Exports}
=============================================================================
