----------------------------- MODULE ComMethods -----------------------------
(***************************************************************************)
(* The drawing methods of backends/com_backend.py: the function that each  *)
(* of them runs on the STA thread, COM call by COM call, as the steps of a *)
(* recipe, with what follows when a call fails.  Any call may fail, one    *)
(* that changes something may do so and fail, or do nothing and say        *)
(* nothing, and between two calls the user may activate another drawing or *)
(* change a setting.                                                       *)
(*                                                                         *)
(* A drawing is a set of cells: the objects a method makes, the settings   *)
(* it changes.  Their values say who has put them there.                   *)
(***************************************************************************)
EXTENDS Integers, Sequences, FiniteSets

CONSTANTS Docs,          \* drawings that are open in AutoCAD
          Scripts,       \* what the client may call: sequences of methods
          Nil,
          MaxSwitches,   \* bound: how often the user goes to another drawing
          MaxEdits       \* bound: how often the user changes a setting


Objects == {"object", "hatch", "boundary", "profile", "region", "region2", "definition", "viewport"}
Settings == {"f1", "f2", "style", "layout", "plot", "p1", "p2", "file"}
Cells == Objects \cup Settings
UserSettings == {"f1", "style"}     \* those that the user changes meanwhile

\* "new": by the call in progress; "ours": by an earlier one; "user": by the user;
\* "late": by a command that the call has not waited for; "stray": by a restoration
\* that was meant for another drawing.
Values == {"none", "old", "new", "ours", "user", "late", "stray"}

Registers == {"doc", "layer", "space", "source", "tool"}

VARIABLES
  drawing,        \* per drawing and cell: "none", "old", or who has put it there (Values)
  active,         \* the active drawing
  inTransaction,  \* a tracked transaction is open; never changes
  scope,          \* _document_scope_key
  created,        \* _created_viewport_handles holds the handle of "viewport"
  integrity,      \* _integrity_uncertain_reason is not None
  script,         \* what the client has still to call
  method, args,   \* the method that was called last; whether it got its optional argument
  at,             \* the step it is at, 0 once it has failed
  reg,            \* the Document objects it has got, one for each call of _doc
  made,           \* the objects it has made, with the drawing they are in
  pred,           \* the predecessor it has read
  todo,           \* what is left of its except and finally blocks
  bad,            \* restoring a setting failed
  escaped,        \* a read in an except block has failed that nothing there catches
  told,           \* what the client was told
  pending,        \* per drawing, the calls whose style command is in its command queue
  hit,            \* a COM call has misbehaved, or the user has interfered
  roamed,         \* the user has gone to another drawing during the call
  switches, edits

callVars == <<method, args, at, reg, made, pred, todo, bad, escaped, told>>
userVars == <<active, roamed, switches, edits>>
vars == <<drawing, inTransaction, scope, created, integrity, script, callVars, userVars, pending, hit>>

-----------------------------------------------------------------------------
(* The steps of a recipe                                                   *)

\* on: what a failing step leads to.  "raise": the exception goes out at once;
\* "clean": through the except block; "halt": with a quarantine; "suspect": with
\* a quarantine, through the except block.
Step(do, cell, r, on) == [do |-> do, cell |-> cell, reg |-> r, on |-> on, reads |-> {}]

Bind(r) == Step("bind", Nil, r, "raise")                \* self._doc()
Use(on) == Step("use", Nil, Nil, on)                    \* reads, checks, calls that change no cell
Make(c, r, on) == Step("make", c, r, on)
Set(c, r, on) == Step("set", c, r, on)                  \* a property assignment, a Move, a Save, ...
Check(c, r, on) == Step("check", c, r, on)              \* read back and compared
Remember(on) == Step("remember", Nil, "doc", on)        \* the predecessor is read

\* The verified deletions.  reads: what is read before Delete; when "collection"
\* fails nothing catches it, when "handle" fails the backend is quarantined.
\* on, in an except block: whether a deletion that fails ends the block.
Drop(c, r, reads) == [do |-> "drop", cell |-> c, reg |-> r, on |-> "clean", reads |-> reads]
DropOrRaise(c, r, reads) == [do |-> "drop", cell |-> c, reg |-> r, on |-> "raise", reads |-> reads]

\* What an except or a finally block does to a setting.
Restore(c) == Step("restore", c, "doc", "clean")
VerifyRestore(C) == Step("verify", C, "doc", "clean")
GiveBack(c, on) == Step("back", c, "doc", on)
Fence == Step("fence", Nil, Nil, "halt")

Skip == Step("skip", Nil, Nil, "raise")
Given(s) == IF args THEN s ELSE Skip
Layer == Given(Bind("layer"))                           \* _validate_layer
-----------------------------------------------------------------------------
(* Methods that make one object                                            *)

\* line, circle and arc
Curve == <<Layer, Bind("space"), Make("object", "space", "raise"), Use("clean")>>

\* polyline and text: properties of their own first, then layer and colour
Shaped == <<Layer, Bind("space"), Make("object", "space", "raise"), Use("clean"), Given(Use("clean"))>>

Dimension == <<Layer, Bind("space"), Make("object", "space", "raise"), Given(Use("clean")), Use("clean")>>

BlockInsert == <<Bind("doc"), Use("raise"), Layer, Bind("space"), Make("object", "space", "raise"), Use("clean")>>

Polyline3d == <<Bind("space"), Make("object", "space", "raise"), Use("clean")>>

\* box, cylinder, sphere, cone, torus and wedge
Solid == <<Bind("doc"), Layer, Make("object", "doc", "raise"), Use("clean")>>

\* The source is looked up in a drawing of its own, and so is the copy made.
Copy == <<Bind("doc"), Bind("source"), Make("object", "source", "raise"), Use("clean"), Use("clean")>>

Mirror == <<Bind("doc"), Bind("source"), Make("object", "source", "raise"), Use("clean")>>

BlockCreate == <<Bind("doc"), Use("raise"), Bind("source"), Make("definition", "doc", "raise"), Use("clean")>>

LayerCreate == <<Bind("doc"), Use("raise"), Make("definition", "doc", "raise"), Use("clean")>>

(* Methods that make several                                               *)

Hatch ==
  <<Layer, Bind("space"), Make("hatch", "space", "clean"), Use("clean"), Make("boundary", "space", "clean"),
    Use("clean"), Drop("boundary", "space", {"handle"})>>

\* extrude, revolve and sweep of a Region, of which they take a copy
FromRegion ==
  <<Bind("doc"), Layer, Use("raise"), Make("region", "doc", "raise"),
    Make("object", "doc", "clean"), Use("clean"), Drop("region", "doc", {"handle"})>>

\* and of a curve: a copy that AddRegion may consume, and as many regions as
\* AutoCAD finds in it
FromProfile ==
  <<Bind("doc"), Layer, Use("raise"), Make("profile", "doc", "raise"), Use("halt"), Step("regions", Nil, "doc", "clean"),
    Drop("profile", "doc", {}), Step("one", Nil, "doc", "clean"),
    Make("object", "doc", "clean"), Use("clean"), Drop("region", "doc", {"handle"})>>

\* The reference and the definition it is a reference to; the source file is
\* hashed before and after.
XrefAttach ==
  <<Bind("doc"), Use("raise"), Layer, Bind("space"), Use("raise"), Step("attach", Nil, "space", "raise"), Use("clean"),
    Use("suspect"), Use("clean")>>

(* Methods that change settings                                            *)

TheSettings == {"f1"} \cup (IF args THEN {"f2"} ELSE {})

\* document_configure_units, with one variable or two
Units ==
  <<Bind("doc"), Remember("raise"), Set("f1", "doc", "clean"), Given(Set("f2", "doc", "clean")), Use("clean"),
    Check(TheSettings, "doc", "clean")>>

\* layer_update_state: the layer, its linetype and its predecessor are read first
LayerState ==
  <<Bind("doc"), Use("raise"), Remember("raise"), Set("f1", "doc", "clean"), Given(Set("f2", "doc", "clean")), Use("clean"),
    Check(TheSettings, "doc", "clean"), Use("clean")>>

\* SendCommand puts the command in AutoCAD's queue.
VisualStyle ==
  <<Bind("doc"), Remember("raise"), Step("command", "style", "doc", "clean"), Use("clean"), Check({"style"}, "doc", "clean"),
    Use("clean")>>

\* The layout is switched before the try; BACKGROUNDPLOT is read inside.
ExportPdf ==
  <<Bind("doc"), Use("raise"), Given(Set("layout", "doc", "raise")), Remember("clean"), Set("plot", "doc", "clean"), Use("clean"),
    GiveBack("plot", "raise"), Given(GiveBack("layout", "raise"))>>

ViewportCreate ==
  <<Bind("doc"), Use("raise"), Given(Set("layout", "doc", "raise")), Make("viewport", "doc", "clean"), Use("clean"),
    Given(GiveBack("layout", "halt"))>>

ViewportDelete == <<Bind("doc"), Use("raise"), Use("halt"), Use("raise"), Drop("viewport", "doc", {"handle"})>>

\* Save, then the bound path; Saved and DBMOD are compared.
Save == <<Bind("doc"), Use("raise"), Set("file", "doc", "raise"), Use("halt"), Check({"file"}, "doc", "halt"), Use("raise")>>

Boolean == <<Bind("doc"), Bind("source"), Bind("tool"), Set("p1", "source", "halt"), Use("halt"), Use("halt")>>

\* xref_reload, xref_unload
XrefLoad == <<Bind("source"), Use("raise"), Set("p1", "source", "raise"), Use("raise"), Check({"p1"}, "source", "halt")>>

(* Methods that change something and report it                             *)

SetProperties == <<Bind("source"), Bind("layer"), Set("p1", "source", "raise"), Given(Set("p2", "source", "raise")), Use("raise")>>

\* object_move, _rotate, _scale and their inspection
Transform == <<Bind("source"), Set("p1", "source", "raise"), Use("raise")>>

\* solid_move, _rotate3d, _scale3d
SolidTransform == <<Bind("source"), Use("raise"), Set("p1", "source", "raise"), Use("raise")>>

\* viewport_set_scale, viewport_lock
ViewportSet == <<Bind("doc"), Use("raise"), Set("p1", "doc", "raise"), Use("raise")>>

\* layer_set_current, layout_create, layout_set_current
SetCurrent == <<Bind("doc"), Use("raise"), Set("p1", "doc", "raise")>>

\* view_set_direction
Direction == <<Bind("doc"), Use("raise"), Set("p1", "doc", "raise"), Set("p2", "doc", "raise"), Use("raise")>>

\* document_open, which asks for no active drawing; the path is checked afterwards.
Open == <<Use("raise"), Step("open", Nil, Nil, "raise"), Use("halt"), Use("raise")>>

\* object_delete, drawing_purge
Unverified == <<Bind("source"), Use("raise"), Set("p1", "source", "raise")>>

\* The definition is looked up in a drawing of its own and verified gone in the first.
XrefDetach == <<Bind("doc"), Bind("source"), Use("raise"), Set("p1", "source", "raise"), Step("gone", "p1", "doc", "halt")>>

(* Methods that change nothing                                             *)

Read == <<Bind("source"), Use("raise")>>

\* object_intersections
Pair == <<Bind("source"), Bind("tool"), Use("raise")>>

\* The state of the drawing is read before the window is captured and after.
Screenshot == <<Bind("doc"), Remember("raise"), Use("raise"), Step("same", Nil, "doc", "halt")>>

Reads == {"read", "pair", "screenshot"}

AllMethods == Reads \cup {"open", "unverified", "xrefDetach", "curve", "shaped", "dimension", "blockInsert", "polyline3d", "solid", "copy", "mirror", "blockCreate",
               "layerCreate", "hatch", "fromRegion", "fromProfile", "xrefAttach", "units", "layerState", "visualStyle",
               "exportPdf", "viewportCreate", "viewportDelete", "viewportForce", "save", "boolean", "xrefLoad",
               "setProperties", "transform", "solidTransform", "viewportSet", "setCurrent", "direction"}

ASSUME NilAssumption == Nil \notin Docs \cup AllMethods \cup [Settings -> Values]
ASSUME ScriptsAssumption == \A s \in Scripts : s \in Seq(AllMethods)
ASSUME BoundsAssumption == {MaxSwitches, MaxEdits} \subseteq Nat

Recipe ==
  CASE method = "curve" -> Curve [] method = "shaped" -> Shaped [] method = "dimension" -> Dimension
    [] method = "blockInsert" -> BlockInsert [] method = "polyline3d" -> Polyline3d [] method = "solid" -> Solid
    [] method = "copy" -> Copy [] method = "mirror" -> Mirror [] method = "blockCreate" -> BlockCreate
    [] method = "layerCreate" -> LayerCreate [] method = "hatch" -> Hatch
    [] method = "fromRegion" -> FromRegion [] method = "fromProfile" -> FromProfile
    [] method = "xrefAttach" -> XrefAttach [] method = "units" -> Units [] method = "layerState" -> LayerState
    [] method = "visualStyle" -> VisualStyle [] method = "exportPdf" -> ExportPdf
    [] method = "viewportCreate" -> ViewportCreate [] method \in {"viewportDelete", "viewportForce"} -> ViewportDelete
    [] method = "save" -> Save [] method = "boolean" -> Boolean [] method = "xrefLoad" -> XrefLoad
    [] method = "setProperties" -> SetProperties [] method = "transform" -> Transform
    [] method = "solidTransform" -> SolidTransform [] method = "viewportSet" -> ViewportSet
    [] method = "setCurrent" -> SetCurrent [] method = "direction" -> Direction
    [] method = "open" -> Open [] method = "unverified" -> Unverified [] method = "xrefDetach" -> XrefDetach
    [] method = "read" -> Read [] method = "pair" -> Pair [] method = "screenshot" -> Screenshot
-----------------------------------------------------------------------------
(* The except and finally blocks                                           *)

Handle == {"handle"}

\* _finalize_created_solid reads ModelSpace, viewport_create the layout's block.
SolidCleanup == <<Drop("object", "doc", {"collection", "handle"}), Drop("region", "doc", Handle),
                  Drop("region2", "doc", Handle), Drop("profile", "doc", {})>>
ViewportCleanup == <<Drop("viewport", "doc", {"collection", "handle"}), Given(GiveBack("layout", "halt"))>>
HatchCleanup == <<Drop("boundary", "space", Handle), Drop("hatch", "space", Handle)>>

\* A definition is looked up by its name, without a handler around it.
XrefCleanup == <<DropOrRaise("object", "space", Handle), Drop("definition", "doc", {"collection", "handle"})>>
SettingsCleanup == <<Restore("f1"), Restore("f2"), VerifyRestore({"f1", "f2"})>>

\* visual_style_set takes the style that was read for the expected one.
StyleCleanup == <<Restore("style"), VerifyRestore({"style"})>>
PdfCleanup == <<GiveBack("plot", "raise"), Given(GiveBack("layout", "raise"))>>

Cleanup ==
  CASE method \in {"curve", "shaped", "dimension", "blockInsert", "polyline3d"} -> <<Drop("object", "space", Handle)>>
    [] method \in {"copy", "mirror"} -> <<Drop("object", "doc", Handle)>>
    [] method \in {"blockCreate", "layerCreate"} -> <<Drop("definition", "doc", {})>>
    [] method \in {"solid", "fromRegion", "fromProfile"} -> SolidCleanup
    [] method = "hatch" -> HatchCleanup
    [] method = "xrefAttach" -> XrefCleanup
    [] method \in {"units", "layerState"} -> SettingsCleanup
    [] method = "visualStyle" -> StyleCleanup
    [] method = "exportPdf" -> PdfCleanup
    [] method = "viewportCreate" -> ViewportCleanup
    [] OTHER -> <<>>

-----------------------------------------------------------------------------
Things == [c \in Objects |-> Nil]

Init ==
  /\ active \in Docs /\ inTransaction \in BOOLEAN
  /\ scope = active
  /\ \E d \in SUBSET Docs :       \* drawings that have a viewport with the handle of "viewport"
       drawing = [e \in Docs |-> [c \in Cells |->
                    IF c \in Settings \/ (c = "viewport" /\ e \in d /\ e # active) THEN "old" ELSE "none"]]
  /\ created = FALSE /\ integrity = FALSE
  /\ script \in Scripts
  /\ method = Nil /\ args = FALSE /\ at = 0 /\ reg = [r \in Registers |-> Nil] /\ made = Things
  /\ pred = Nil /\ todo = <<>> /\ bad = FALSE /\ escaped = FALSE /\ told = "idle"
  /\ pending = [d \in Docs |-> <<>>] /\ hit = FALSE /\ roamed = FALSE /\ switches = 0 /\ edits = 0

\* _run_after_mutation_gate; viewport_delete looks the handle up without force.
Call ==
  /\ told # "none" /\ script # <<>>
  /\ integrity => Head(script) \in Reads
  /\ Head(script) = "viewportDelete" => created
  /\ Head(script) = "open" => ~inTransaction
  /\ method' = Head(script) /\ script' = Tail(script)
  /\ args' \in BOOLEAN
  /\ at' = 1 /\ reg' = [r \in Registers |-> Nil] /\ made' = Things /\ pred' = Nil /\ todo' = <<>>
  /\ bad' = FALSE /\ escaped' = FALSE /\ told' = "none" /\ roamed' = FALSE
  /\ drawing' = [d \in Docs |-> [c \in Cells |-> IF drawing[d][c] \in {"new", "stray"} THEN "ours" ELSE drawing[d][c]]]
  /\ UNCHANGED <<inTransaction, scope, created, integrity, pending, hit, active, switches, edits>>

Now(do) == told = "none" /\ at \in 1 .. Len(Recipe) /\ Recipe[at].do = do
Of == Recipe[at]
Put(d, c, v) == drawing' = [drawing EXCEPT ![d][c] = v]
Quarantined(q) == integrity' = (integrity \/ q) /\ created' = (created /\ ~q)
Still == UNCHANGED <<inTransaction, script, method, args, told, userVars>>

\* A step that fails: what its handler has to do is what is left of the call.
Fails ==
  /\ Quarantined(Of.on \in {"halt", "suspect"})
  /\ at' = 0
  /\ todo' = IF Of.on \in {"clean", "suspect"} THEN Cleanup ELSE <<>>
  /\ UNCHANGED <<pred, bad, escaped>>

GoesOn == at' = at + 1 /\ UNCHANGED <<integrity, todo, bad, escaped>>

\* Mutant: the drawing of the transaction is not enforced.
MutantBindStep ==
  /\ Now("bind")
  /\ reg' = [reg EXCEPT ![Of.reg] = active] /\ scope' = active /\ created' = (created /\ scope = active)
  /\ GoesOn /\ UNCHANGED <<drawing, made, pred, pending, hit>> /\ Still

\* _doc: another drawing than in the scope is refused in a transaction and
\* becomes the scope otherwise.
BindStep ==
  /\ Now("bind") /\ UNCHANGED <<drawing, made, pending>> /\ Still
  /\ \/ /\ inTransaction => scope \in {Nil, active}
        /\ reg' = [reg EXCEPT ![Of.reg] = active] /\ scope' = active /\ created' = (created /\ scope = active)
        /\ GoesOn /\ UNCHANGED <<pred, hit>>
     \/ Fails /\ hit' = TRUE /\ UNCHANGED <<reg, scope>>

SkipStep == Now("skip") /\ GoesOn /\ UNCHANGED <<drawing, reg, scope, made, pending, pred, created, hit>> /\ Still

UseStep ==
  /\ Now("use") /\ UNCHANGED <<drawing, reg, scope, made, pending>> /\ Still
  /\ \/ GoesOn /\ UNCHANGED <<pred, created, hit>>
     \/ Fails /\ hit' = TRUE

\* A call that fails to make something has made nothing.
MakeStep ==
  /\ Now("make") /\ UNCHANGED <<reg, scope, pending>> /\ Still
  /\ \/ /\ Put(reg[Of.reg], Of.cell, "new") /\ made' = [made EXCEPT ![Of.cell] = reg[Of.reg]]
        /\ GoesOn /\ UNCHANGED <<pred, created, hit>>
     \/ Fails /\ hit' = TRUE /\ UNCHANGED <<drawing, made>>

\* AttachExternalReference makes a reference and a definition.
AttachStep ==
  /\ Now("attach") /\ UNCHANGED <<reg, scope, pending>> /\ Still
  /\ \/ /\ LET d == reg[Of.reg] IN
             /\ drawing' = [drawing EXCEPT ![d].object = "new", ![d].definition = "new"]
             /\ made' = [made EXCEPT !.object = d, !.definition = d]
        /\ GoesOn /\ UNCHANGED <<pred, created, hit>>
     \/ Fails /\ hit' = TRUE /\ UNCHANGED <<drawing, made>>

\* AddRegion makes as many regions as there are, and may consume the profile.
RegionsStep ==
  /\ Now("regions") /\ UNCHANGED <<reg, scope, pending>> /\ Still
  /\ \/ \E R \in {{}, {"region"}, {"region", "region2"}}, consumed \in BOOLEAN :
          /\ drawing' = [drawing EXCEPT ![reg.doc] = [c \in Cells |->
                           IF c \in R THEN "new" ELSE IF c = "profile" /\ consumed THEN "none" ELSE @[c]]]
          /\ made' = [c \in Objects |-> IF c \in R THEN reg.doc ELSE made[c]]
          /\ GoesOn /\ UNCHANGED <<pred, created, hit>>
     \/ Fails /\ hit' = TRUE /\ UNCHANGED <<drawing, made>>

OneStep ==
  /\ Now("one") /\ UNCHANGED <<drawing, reg, scope, made, pending, hit>> /\ Still
  /\ IF made.region # Nil /\ made.region2 = Nil THEN GoesOn /\ UNCHANGED <<pred, created>> ELSE Fails

\* A change that raises nothing may have done nothing, and one that raises may
\* have been made, wherever it stands.
ChangeStep ==
  /\ Now("set")
  /\ UNCHANGED <<reg, scope, made, pending>> /\ Still
  /\ \/ Put(reg[Of.reg], Of.cell, "new") /\ GoesOn /\ UNCHANGED <<pred, created, hit>>
     \/ GoesOn /\ hit' = TRUE /\ UNCHANGED <<drawing, pred, created>>
     \/ Fails /\ hit' = TRUE /\ (UNCHANGED drawing \/ Put(reg[Of.reg], Of.cell, "new"))

\* The native bridge reads and sets the visual style of the drawing that is active.
Seat(c, r) == IF c = "style" THEN active ELSE reg[r]

RememberStep ==
  /\ Now("remember") /\ UNCHANGED <<drawing, reg, scope, made, pending>> /\ Still
  /\ \/ /\ pred' = [c \in Settings |-> drawing[Seat(c, "doc")][c]]
        /\ at' = at + 1 /\ UNCHANGED <<integrity, created, todo, bad, escaped, hit>>
     \/ Fails /\ hit' = TRUE

\* Mutant: what was set is read back but not compared.
MutantCheckStep ==
  /\ Now("check") /\ UNCHANGED <<drawing, reg, scope, made, pending, hit>> /\ Still
  /\ GoesOn /\ UNCHANGED <<pred, created>>

\* A command that has not begun when AutoCAD is found idle has misbehaved.
CheckStep ==
  /\ Now("check") /\ UNCHANGED <<drawing, reg, scope, made, pending>> /\ Still
  /\ IF \A c \in Of.cell : drawing[Seat(c, Of.reg)][c] = "new"
       THEN GoesOn /\ UNCHANGED <<pred, created, hit>>
       ELSE Fails /\ hit' = (hit \/ \E d \in Docs : pending[d] # <<>>)

\* Documents.Open makes the drawing active, and may have done so when it fails.
OpenStep ==
  /\ Now("open") /\ UNCHANGED <<drawing, reg, scope, made, pending, inTransaction, script, method, args, told, roamed, switches, edits>>
  /\ active' \in Docs
  /\ \/ GoesOn /\ UNCHANGED <<pred, created, hit>>
     \/ Fails /\ hit' = TRUE

\* Another drawing may or may not have a definition of that name.
GoneStep ==
  /\ Now("gone") /\ UNCHANGED <<drawing, reg, scope, made, pending>> /\ Still
  /\ \/ /\ reg.doc # reg.source \/ drawing[reg.doc].p1 = "new"
        /\ GoesOn /\ UNCHANGED <<pred, created, hit>>
     \/ drawing[reg.doc].p1 # "new" /\ Fails /\ UNCHANGED hit

SameStep ==
  /\ Now("same") /\ UNCHANGED <<drawing, reg, scope, made, pending, hit>> /\ Still
  /\ IF \A c \in Settings \ {"style"} : drawing[reg.doc][c] = pred[c]
       THEN GoesOn /\ UNCHANGED <<pred, created>>
       ELSE Fails

Queued == pending' = [pending EXCEPT ![reg.doc] = Append(@, Len(script))]
CommandStep ==
  /\ Now("command") /\ UNCHANGED <<drawing, reg, scope, made>> /\ Still
  /\ \/ Queued /\ GoesOn /\ UNCHANGED <<pred, created, hit>>
     \/ Fails /\ hit' = TRUE /\ (Queued \/ UNCHANGED pending)

Gone(e) ==
  [drawing EXCEPT ![IF made[e.cell] = Nil THEN reg[e.reg] ELSE made[e.cell]][e.cell] = "none"]

\* Mutant: a Delete that raises nothing is taken for a deletion.
MutantTrusts(e, result) == result = "verified" /\ drawing' \in {drawing, Gone(e)} /\ UNCHANGED hit

\* Mutant: a Delete that raises, as that of a consumed profile does, is taken for a failure.
MutantReadsBack(e, result) ==
  \/ result = "verified" /\ drawing' = Gone(e) /\ drawing' # drawing /\ UNCHANGED hit
  \/ result = "doubtful" /\ drawing' = drawing /\ hit' = (hit \/ drawing # Gone(e))

\* Whatever Delete does and says, what counts is the read-back, in the drawing
\* in which it looks.
ReadsBack(e, result) ==
  \/ result = "verified" /\ drawing' = Gone(e) /\ UNCHANGED hit
  \/ result = "verified" /\ made[e.cell] \notin {Nil, reg[e.reg]} /\ drawing' = drawing /\ hit' = TRUE
  \/ result = "doubtful" /\ drawing' \in {drawing, Gone(e)} /\ hit' = TRUE

\* _delete_com_object_verified, _delete_com_object_document_verified,
\* _delete_named_object_verified, _detach_xref_definition_verified
Removes(e, result) ==
  \/ result = "escapes" /\ "collection" \in e.reads /\ hit' = TRUE /\ UNCHANGED drawing
  \/ result = "doubtful" /\ "handle" \in e.reads /\ hit' = TRUE /\ UNCHANGED drawing
  \/ ReadsBack(e, result)

Dropped(e) == made' = [made EXCEPT ![e.cell] = Nil]

DropStep ==
  /\ Now("drop") /\ UNCHANGED <<reg, scope, pending>> /\ Still
  /\ Dropped(Of)
  /\ \/ Removes(Of, "verified") /\ GoesOn /\ UNCHANGED <<pred, created>>
     \/ /\ Removes(Of, "doubtful")
        /\ Quarantined(TRUE) /\ at' = 0 /\ todo' = Cleanup /\ UNCHANGED <<pred, bad, escaped>>

\* A finally block on the way to success, in which nothing is read back: when it
\* fails, export_pdf lets the exception out, viewport_create deletes the viewport
\* and quarantines.
BackStep ==
  /\ Now("back") /\ UNCHANGED <<reg, scope, made, pending, pred, bad, created, integrity, escaped>> /\ Still
  /\ \/ Put(reg.doc, Of.cell, "old") /\ at' = at + 1 /\ UNCHANGED <<todo, hit>>
     \/ hit' = TRUE /\ at' = at + 1 /\ UNCHANGED <<drawing, todo>>
     \/ /\ hit' = TRUE /\ at' = 0 /\ (UNCHANGED drawing \/ Put(reg.doc, Of.cell, "old"))
        /\ todo' = IF Of.on = "raise" THEN (IF at < Len(Recipe) THEN <<Recipe[at + 1]>> ELSE <<>>)
                   ELSE <<DropOrRaise("viewport", "doc", {"collection", "handle"}), Fence>>

-----------------------------------------------------------------------------
\* Only what was made is deleted, and BACKGROUNDPLOT goes back only once it was read.
Needless(e) == e.do = "skip" \/ (e.do = "drop" /\ made[e.cell] = Nil) \/ (e.do = "back" /\ e.cell = "plot" /\ pred = Nil)

Unwinds(do) == told = "none" /\ at = 0 /\ todo # <<>> /\ Head(todo).do = do /\ ~Needless(Head(todo))
It == Head(todo)

CleanSkip ==
  /\ told = "none" /\ at = 0 /\ todo # <<>> /\ Needless(Head(todo)) /\ todo' = Tail(todo)
  /\ UNCHANGED <<drawing, at, reg, scope, made, pending, pred, bad, escaped, integrity, created, hit>> /\ Still

CleanDrop ==
  /\ Unwinds("drop") /\ UNCHANGED <<at, reg, scope, pending, pred, bad>> /\ Still
  /\ Dropped(It)
  /\ \E result \in {"verified", "doubtful", "escapes"} :
       /\ Removes(It, result)
       /\ Quarantined(result = "doubtful")
       /\ escaped' = (escaped \/ result = "escapes")
       /\ todo' = IF result # "verified" /\ It.on = "raise" THEN <<>> ELSE Tail(todo)

\* The predecessor is set again; the visual style only when it is another one,
\* and only in place of the one that was read.
RestoreStep ==
  /\ Unwinds("restore") /\ UNCHANGED <<at, reg, scope, made, pending, pred, integrity, created, escaped>> /\ Still
  /\ todo' = Tail(todo)
  /\ LET c == It.cell
         d == Seat(c, "doc")
         v == IF d = reg.doc THEN pred[c] ELSE "stray"
     IN \/ c = "style" /\ drawing[d][c] = pred[c] /\ UNCHANGED <<drawing, bad, hit>>
        \/ (c = "style" => drawing[d][c] # pred[c]) /\ Put(d, c, v) /\ UNCHANGED <<bad, hit>>
        \/ UNCHANGED <<drawing, bad>> /\ hit' = TRUE
        \/ bad' = TRUE /\ hit' = TRUE /\ drawing' \in {drawing, [drawing EXCEPT ![d][c] = v]}

VerifyStep ==
  /\ Unwinds("verify") /\ UNCHANGED <<drawing, at, reg, scope, made, pending, pred, bad, escaped>> /\ Still
  /\ todo' = Tail(todo)
  /\ \E readable \in BOOLEAN :
       /\ Quarantined(bad \/ ~readable \/ \E c \in It.cell : drawing[Seat(c, "doc")][c] \notin {pred[c], "stray"})
       /\ hit' = (hit \/ ~readable)

CleanBack ==
  /\ Unwinds("back") /\ UNCHANGED <<at, reg, scope, made, pending, pred, bad, escaped>> /\ Still
  /\ todo' = Tail(todo)
  /\ \/ Put(reg.doc, It.cell, "old") /\ UNCHANGED <<integrity, created, hit>>
     \/ hit' = TRUE /\ UNCHANGED <<drawing, integrity, created>>
     \/ hit' = TRUE /\ Quarantined(It.on = "halt") /\ (UNCHANGED drawing \/ Put(reg.doc, It.cell, "old"))

FenceStep ==
  /\ Unwinds("fence") /\ UNCHANGED <<drawing, at, reg, scope, made, pending, pred, bad, escaped, hit>> /\ Still
  /\ todo' = Tail(todo) /\ Quarantined(TRUE)

\* The coroutine gets the result or the exception.
Answered ==
  /\ told = "none"
  /\ \/ /\ at = Len(Recipe) + 1 /\ told' = "ok"
        /\ created' = CASE method = "viewportCreate" -> TRUE
                        [] method \in {"viewportDelete", "viewportForce", "open"} -> FALSE
                        [] OTHER -> created
        /\ scope' = IF method = "open" THEN Nil ELSE scope
     \/ at = 0 /\ todo = <<>> /\ told' = "error" /\ UNCHANGED <<created, scope>>
  /\ UNCHANGED <<drawing, inTransaction, integrity, script, userVars, pending, hit>>
  /\ UNCHANGED <<method, args, at, reg, made, pred, todo, bad, escaped>>
-----------------------------------------------------------------------------
(* AutoCAD and its user                                                    *)

\* "late": when the method that has sent it does not look at the style any more.
CadRunsCommand ==
  /\ \E d \in Docs :
       /\ pending[d] # <<>> /\ pending' = [pending EXCEPT ![d] = Tail(@)]
       /\ \/ /\ UNCHANGED hit
             /\ Put(d, "style", IF told = "none" /\ (at > 0 \/ todo # <<>>) /\ Head(pending[d]) = Len(script)
                                THEN "new" ELSE "late")
          \/ hit' = TRUE /\ UNCHANGED drawing
  /\ UNCHANGED <<inTransaction, scope, created, integrity, script, callVars, userVars>>

UserSwitches ==
  /\ switches < MaxSwitches /\ switches' = switches + 1
  /\ active' \in Docs \ {active}
  /\ roamed' = TRUE /\ hit' = TRUE
  /\ UNCHANGED <<drawing, inTransaction, scope, created, integrity, script, callVars, edits, pending>>

UserEdits ==
  /\ edits < MaxEdits /\ edits' = edits + 1
  /\ \E c \in UserSettings : Put(active, c, "user")
  /\ hit' = TRUE
  /\ UNCHANGED <<active, roamed, inTransaction, scope, created, integrity, script, callVars, switches, pending>>

Recipes ==
  \/ BindStep \/ SkipStep \/ UseStep \/ MakeStep \/ AttachStep \/ RegionsStep \/ OneStep \/ ChangeStep \/ RememberStep
  \/ CheckStep \/ CommandStep \/ DropStep \/ BackStep \/ OpenStep \/ GoneStep \/ SameStep

Unwinding == CleanSkip \/ CleanDrop \/ RestoreStep \/ VerifyStep \/ CleanBack \/ FenceStep

Next == Call \/ Recipes \/ Unwinding \/ Answered \/ CadRunsCommand \/ UserSwitches \/ UserEdits

Spec == Init /\ [][Next]_vars
-----------------------------------------------------------------------------
(* Properties                                                              *)

TypeOK ==
  /\ drawing \in [Docs -> [Cells -> Values]]
  /\ active \in Docs /\ scope \in Docs \cup {Nil} /\ {inTransaction, created, integrity, args, bad, escaped, hit, roamed} \subseteq BOOLEAN
  /\ method \in AllMethods \cup {Nil} /\ at \in 0 .. 20 /\ (at # 0 => todo = <<>> /\ ~escaped)
  /\ reg \in [Registers -> Docs \cup {Nil}] /\ made \in [Objects -> Docs \cup {Nil}]
  /\ script \in Seq(AllMethods) /\ told \in {"idle", "none", "ok", "error"}
  /\ pending \in [Docs -> Seq(Nat)] /\ switches \in 0 .. MaxSwitches /\ edits \in 0 .. MaxEdits
  /\ pred = Nil \/ pred \in [Settings -> Values]

\* What a call leaves in the drawings.
Left == {c \in Cells : \E d \in Docs : drawing[d][c] \in {"new", "stray"}}

\* Methods that change something outside of any try: what they did before they
\* failed stays, and nothing is quarantined.
Reporting == {"setProperties", "transform", "solidTransform", "viewportSet", "direction", "save", "xrefLoad", "setCurrent",
              "unverified", "xrefDetach"}

\* Methods that ask for the active drawing more than once and undo what they did
\* in one of the answers: the user may not go to another drawing meanwhile.  A
\* transaction pins them to its drawing, but not the native bridge.
Wandering == {"visualStyle"} \cup IF inTransaction THEN {} ELSE {"copy", "mirror", "xrefAttach"}

\* What a call is for.
Purpose ==
  CASE method \in {"curve", "shaped", "dimension", "blockInsert", "polyline3d", "solid", "copy", "mirror", "fromRegion",
                   "fromProfile"} -> {"object"}
    [] method \in {"blockCreate", "layerCreate"} -> {"definition"}
    [] method = "hatch" -> {"hatch"}
    [] method = "xrefAttach" -> {"object", "definition"}
    [] method = "visualStyle" -> {"style"}
    [] method = "viewportCreate" -> {"viewport"}
    [] method = "save" -> {"file"}
    [] method \in {"exportPdf", "viewportDelete", "viewportForce", "open"} \cup Reads -> {}
    [] method \in {"units", "layerState"} -> TheSettings
    [] method = "direction" \/ (method = "setProperties" /\ args) -> {"p1", "p2"}
    [] OTHER -> {"p1"}

\* The layout and BACKGROUNDPLOT: that they have been given back nobody reads.
Borrowed == {"layout", "plot"}

\* What the except blocks read ModelSpace, Blocks and the layout's Block for, outside
\* of the verified deletions: when that fails, it stays and nothing is quarantined.
Escapes ==
  CASE method \in {"solid", "fromRegion", "fromProfile"} -> {"object"}
    [] method = "xrefAttach" -> {"definition"}
    [] method = "viewportCreate" -> {"viewport"}
    [] OTHER -> {}
Unguarded == Borrowed \cup (IF method \in Reporting THEN Purpose ELSE {}) \cup (IF escaped THEN Escapes ELSE {})

\* A call that is answered with an error has left nothing of it in any drawing, or
\* the backend is quarantined, whatever failed and whatever Delete and Set
\* pretended: the verified cleanups and restorations.  Unguarded is what the code
\* leaves all the same.
NothingLeftBehind ==
  told = "error" /\ ~integrity /\ (method \in Wandering => ~roamed) => Left \subseteq Unguarded

\* Methods that do not compare what they have changed with what was asked for.
Unread == {"setProperties", "transform", "solidTransform", "viewportSet", "setCurrent", "direction", "unverified", "boolean"}

\* A call that is answered with ok has changed no other cell than those it is for,
\* in one drawing only, has left none of its temporary objects, and has done what
\* it is for unless it is Unread; a borrowed setting may be left when an assignment
\* has silently done nothing.  A setting may since have been changed by the user.
\* xref_detach verifies in the drawing that was active first, which the user may
\* have left meanwhile.
SuccessIsReal ==
  told = "ok" /\ ~integrity /\ (method = "xrefDetach" => inTransaction \/ ~roamed) =>
    /\ Left \subseteq Purpose \cup (IF hit THEN Borrowed ELSE {})
    /\ \A c \in Purpose :
         /\ \A d, e \in Docs : drawing[d][c] = "new" /\ drawing[e][c] = "new" => d = e
         /\ method \notin Unread => \E d \in Docs : drawing[d][c] \in {"new", "user"}

\* In a transaction a call leaves nothing in another drawing than the
\* transaction's, even if the user goes there.
StaysInTransaction ==
  inTransaction /\ method # "visualStyle" =>
    \A d \in Docs : d # scope => \A c \in Cells : drawing[d][c] \notin {"new", "stray"}

\* The state is well typed, and the backend is not quarantined as long as COM calls
\* do what they say and the user leaves the drawing alone: no false alarm shuts the
\* server's mutations off.
NoFalseAlarm == TypeOK /\ (integrity => hit)
-----------------------------------------------------------------------------
(* The inductive invariant                                                 *)

Dirty(d, c) == drawing[d][c] \in {"new", "stray"}

\* What a step of a recipe puts into a drawing, and what it takes away or finds gone.
Touches(s) ==
  CASE s.do \in {"make", "set", "command"} -> {s.cell}
    [] s.do = "attach" -> {"object", "definition"}
    [] s.do = "regions" -> {"region", "region2"}
    [] OTHER -> {}
Undoes(s) ==
  CASE s.do \in {"drop", "back"} -> {s.cell}
    [] s.do = "one" -> {"region2"}
    [] OTHER -> {}

\* What the steps before the n-th may have left; what they have seen to be there.
Standing(n) ==
  {c \in Cells : \E i \in 1 .. n - 1 : /\ c \in Touches(Recipe[i])
                                       /\ \A k \in i + 1 .. n - 1 : c \notin Undoes(Recipe[k])}
Sure(n) == {c \in Settings : \E i \in 1 .. n - 1 : Recipe[i].do = "check" /\ c \in Recipe[i].cell}

\* Each method gets the drawing of a cell in one register.
Home(c) ==
  CASE c \in Settings -> IF method \in {"boolean", "xrefLoad", "setProperties", "transform", "solidTransform",
                                        "unverified", "xrefDetach"} THEN "source" ELSE "doc"
    [] c \in Objects /\ method \in {"copy", "mirror"} -> "source"
    [] c \in Objects /\ method \in {"curve", "shaped", "dimension", "blockInsert", "polyline3d", "hatch", "xrefAttach"} -> "space"
    [] OTHER -> "doc"
At(c) == reg[Home(c)]

\* Only drawings that were active have been got, and one in a transaction.
PlaceInv ==
  /\ method # "open" /\ ~roamed => \A r \in Registers : reg[r] \in {Nil, active}
  /\ inTransaction => /\ method # "open" /\ scope \in Docs
                      /\ \A r \in Registers : reg[r] \in {Nil, scope}
                      /\ \A d \in Docs \ {scope} : pending[d] = <<>>

\* In the recipe: what is dirty was put there by a step before, and not taken away since.
DirtInv ==
  told = "none" /\ at > 0 =>
    /\ at = 1 \/ at <= Len(Recipe) + 1
    /\ \A i \in 1 .. at - 1 : Recipe[i].do = "bind" => reg[Recipe[i].reg] # Nil
    /\ \A d \in Docs, c \in Cells : drawing[d][c] = "new" =>
         (c \in Standing(at) \/ (c \in Borrowed /\ hit)) /\ d = At(c) /\ (c \in Objects => made[c] = d)
    /\ \A d \in Docs, c \in Cells : drawing[d][c] = "new" => \E i \in 1 .. at - 1 : c \in Touches(Recipe[i])
    /\ \A d \in Docs, c \in Cells : drawing[d][c] # "stray"

\* What was made is there, what was compared too.
GainInv ==
  told = "none" /\ at > 0 =>
    /\ \A c \in Objects : made[c] # Nil => c \in Standing(at) /\ made[c] = At(c) /\ (c # "profile" => drawing[made[c]][c] = "new")
    /\ \A c \in (Standing(at) \cap Objects) \ {"region", "region2"} : made[c] # Nil
    /\ \A c \in Sure(at) : drawing[At(c)][c] \in {"new", "user"}
    /\ \A i \in 1 .. at - 1 : Recipe[i].do = "gone" => reg.doc # reg.source \/ drawing[reg.source].p1 = "new"

\* What was read before is from before.
PredInv ==
  told = "none" =>
    /\ pred # Nil => \A c \in {"f1", "f2", "style"} : pred[c] \notin {"new", "stray"}
    /\ \A i \in 1 .. at - 1 : Recipe[i].do = "remember" => pred # Nil

\* A command that is still queued has its place.
QueueInv ==
  \A d \in Docs : \A i \in 1 .. Len(pending[d]) :
    /\ pending[d][i] >= Len(script)
    /\ pending[d][i] = Len(script) =>
         /\ method = "visualStyle" /\ d = reg.doc /\ i = Len(pending[d])
         /\ (told = "none" /\ at > 0 => "style" \in Standing(at))

\* The style is new only when all the commands for its drawing have run.
StyleInv ==
  method = "visualStyle" =>
    /\ told = "ok" => pending[reg.doc] = <<>>
    /\ told = "none" /\ at > 0 /\ ("style" \in Sure(at) \/ \E d \in Docs : drawing[d].style = "new") => pending[reg.doc] = <<>>

\* As long as nothing has misbehaved all is as it should be.
Calm ==
  /\ at = 0 => method = "fromProfile" /\ \A j \in 1 .. Len(todo) : todo[j].do \in {"drop", "skip"}
  /\ \A i \in 1 .. at - 1 : Recipe[i].do = "set" /\ Recipe[i].cell \notin Borrowed => drawing[At(Recipe[i].cell)][Recipe[i].cell] = "new"
  /\ \A i \in 1 .. at - 1 : method = "screenshot" /\ Recipe[i].do = "remember" =>
        \A c \in Settings \ {"style"} : drawing[reg.doc][c] = pred[c]
  /\ method = "visualStyle" /\ at > 0 /\ "style" \in Standing(at) =>
       \/ pending[reg.doc] # <<>> /\ pending[reg.doc][Len(pending[reg.doc])] = Len(script)
       \/ pending[reg.doc] = <<>> /\ drawing[reg.doc].style = "new"
CalmInv == told = "none" /\ ~hit => Calm

\* What may be left of a cleanup, or of the finally blocks around a step that fails.
Entries ==
  {Cleanup[k] : k \in 1 .. Len(Cleanup)} \cup {Recipe[k] : k \in {k \in 1 .. Len(Recipe) : Recipe[k].do \in {"back", "skip"}}}
  \cup {Fence, DropOrRaise("viewport", "doc", {"collection", "handle"})}

\* What takes the dirt away, or quarantines.
Handles(e, d, c) ==
  \/ e.do = "drop" /\ e.cell = c /\ made[c] = d
  \/ e.do = "verify" /\ c \in e.cell /\ d = reg.doc

Excused == integrity \/ (method \in Wandering /\ roamed)

\* In the cleanup: what is dirty will be handled.
CleanupInv ==
  told = "none" /\ at = 0 =>
    /\ todo \in Seq(Entries)
    /\ \A j \in 1 .. Len(todo) : todo[j].do \in {"restore", "verify"} => pred # Nil /\ reg.doc # Nil
    /\ method = "visualStyle" /\ todo # <<>> => todo[Len(todo)].do = "verify" /\ todo[Len(todo)].cell = {"style"}
    /\ \A j \in 1 .. Len(todo) : todo[j].do = "drop" /\ "collection" \in todo[j].reads =>
         /\ todo[j].cell \in Escapes
         /\ todo[j].on = "raise" => \A k \in 1 .. Len(todo) : k = j \/ todo[k].do = "fence"
    /\ ~Excused =>
         /\ \A d \in Docs, c \in Cells : drawing[d][c] = "new" => c \in Unguarded \/ \E j \in 1 .. Len(todo) : Handles(todo[j], d, c)
         /\ \A d \in Docs, c \in Cells : drawing[d][c] # "stray"
         /\ \A j \in 1 .. Len(todo) : todo[j].do = "drop" /\ made[todo[j].cell] # Nil => reg[todo[j].reg] = made[todo[j].cell]

\* Afterwards.
OkInv ==
  told = "ok" /\ ~integrity /\ (method = "xrefDetach" => inTransaction \/ ~roamed) =>
    \A c \in Cells : /\ \A d \in Docs : Dirty(d, c) => (c \in Purpose \/ (c \in Borrowed /\ hit)) /\ d = At(c)
                     /\ c \in Purpose /\ method \notin Unread => At(c) \in Docs /\ drawing[At(c)][c] \in {"new", "user"}

AlarmInv == (integrity \/ roamed => hit) /\ (told # "idle" => method \in AllMethods)

IInv ==
  /\ TypeOK /\ PlaceInv /\ DirtInv /\ GainInv /\ PredInv /\ QueueInv /\ StyleInv /\ CalmInv /\ CleanupInv /\ OkInv /\ AlarmInv
  /\ NothingLeftBehind /\ StaysInTransaction
=============================================================================
