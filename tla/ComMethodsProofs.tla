-------------------------- MODULE ComMethodsProofs --------------------------
(***************************************************************************)
(* Proofs about ComMethods, for every number of drawings, calls, user      *)
(* switches and edits.  First what every recipe is like: each of the       *)
(* thirty-six is shown to be Sound.  The rest uses of a recipe only that   *)
(* it is Sound: each step, each entry of an except or finally block, the   *)
(* answer, the next call and the user keep the inductive invariant.        *)
(***************************************************************************)
EXTENDS ComMethods, TLAPS

-----------------------------------------------------------------------------
(* What every recipe is like                                               *)

\* A step has what its kind needs; some kinds are of one method.
StepOK(s) ==
  /\ s.do \in {"skip", "bind", "use", "make", "attach", "regions", "one", "set", "check", "remember", "command",
               "drop", "back", "open", "gone", "same"}
  /\ s.do # "skip" => s.on \in {"raise", "clean", "halt", "suspect"}
  /\ s.do \in {"bind", "attach", "open"} => s.on = "raise"
  /\ s.do \in {"regions", "one", "command"} => s.on = "clean"
  /\ s.do \in {"gone", "same"} => s.on = "halt"
  /\ s.do = "drop" => s.on = "clean" /\ s.reg = Home(s.cell)
  /\ s.do \in {"make", "remember"} => s.on \in {"raise", "clean"}
  /\ s.do = "set" => s.on \in {"raise", "clean", "halt"}
  /\ s.do = "back" => s.on = "raise" \/ (s.on = "halt" /\ method = "viewportCreate")
  /\ s.do = "check" => s.on \in {"clean", "halt"}
  /\ s.do \in {"bind", "make", "set", "drop"} => s.reg \in Registers
  /\ s.do = "attach" => s.reg = "space"
  /\ s.do \in {"regions", "command", "back"} => s.reg = "doc"
  /\ s.do \in {"make", "drop"} => s.cell \in Objects \ {"region2"}
  /\ s.do = "set" => s.cell \in Settings \ {"style"}
  /\ s.do = "check" => /\ s.cell \subseteq Settings \ Borrowed /\ \A c \in s.cell : s.reg = Home(c)
                      /\ ("style" \in s.cell => method = "visualStyle" /\ s.cell = {"style"})
  /\ s.do = "command" => s.cell = "style" /\ method = "visualStyle"
  /\ s.do = "back" => s.cell \in Borrowed /\ s.reg = Home(s.cell) /\ method \in {"exportPdf", "viewportCreate"}
  /\ s.do = "one" => method = "fromProfile"
  /\ s.do = "open" => method = "open"
  /\ s.do = "gone" => method = "xrefDetach"
  /\ s.do = "same" => method = "screenshot"

CleanStep(e) ==
  /\ e.do \in {"skip", "fence", "drop", "restore", "verify", "back"}
  /\ e.do = "drop" => /\ e.cell \in Objects /\ e.reg \in Registers
                     /\ (e.reg = Home(e.cell) \/ method \in {"copy", "mirror", "xrefAttach"})
                     /\ ("collection" \in e.reads => e.cell \in Escapes /\ e.on # "raise")
  /\ e.do = "restore" => e.cell \in {"f1", "f2", "style"} /\ (e.cell = "style" => method = "visualStyle")
  /\ e.do = "verify" => e.cell \subseteq {"f1", "f2", "style"} /\ ("style" \in e.cell => method = "visualStyle")
  /\ e.do = "back" => e.cell \in Borrowed /\ e.on \in {"raise", "halt"}

Typed(R, C) ==
  /\ Len(R) \in 1 .. 19 /\ \A i \in 1 .. Len(R) : StepOK(R[i])
  /\ C \in Seq({C[k] : k \in 1 .. Len(C)}) /\ \A j \in 1 .. Len(C) : CleanStep(C[j])

\* Drawings are got before anything is done to them, each in its register.
BindsFirst(R) ==
  \A j \in 1 .. Len(R) : R[j].do = "bind" => \A i \in 1 .. j - 1 : R[i].do \in {"bind", "use", "skip"}
InPlace(R) ==
  \A j \in 1 .. Len(R) : \A c \in Touches(R[j]) :
    R[j].reg = Home(c) /\ \E i \in 1 .. Len(R) : R[i].do = "bind" /\ R[i].reg = Home(c)

\* An exception that nothing catches comes before anything is touched that is not
\* borrowed, but for the methods that report.
Early(R, P) ==
  \A j \in 1 .. Len(R) : R[j].on = "raise" /\ R[j].do \notin {"skip", "back"} =>
    \/ method \in Reporting /\ \A i \in 1 .. j : Touches(R[i]) \subseteq P
    \/ /\ \A i \in 1 .. j - 1 : Touches(R[i]) = {}
       /\ Touches(R[j]) \cap Settings \subseteq Borrowed

\* What the except block does to a cell.
Covers(e, c) ==
  \/ e.do = "drop" /\ e.cell = c
  \/ e.do = "verify" /\ c \in e.cell

Covered(R, C) ==
  \A j \in 1 .. Len(R) : R[j].on = "clean" /\ R[j].do \notin {"skip", "drop"} =>
    \A i \in 1 .. j : \A c \in Touches(R[i]) \ Borrowed :
      /\ c \in Settings => Home(c) = "doc"
      /\ \E k \in 1 .. Len(C) : Covers(C[k], c)
Grounded(R, C) ==
  \A j \in 1 .. Len(R) : R[j].on = "clean" /\ R[j].do \notin {"skip", "drop"} =>
    \A k \in 1 .. Len(C) : C[k].do = "drop" =>
      \E i \in 1 .. j - 1 : R[i].do = "bind" /\ R[i].reg = C[k].reg

\* The predecessor is read before what it is needed for is touched.
Remembered(R) ==
  \A j \in 1 .. Len(R) : R[j].do = "remember" =>
    /\ \E i \in 1 .. j - 1 : R[i].do = "bind" /\ R[i].reg = "doc"
    /\ \A i \in 1 .. j - 1 : \A c \in Touches(R[i]) : c \notin {"f1", "f2", "style", "plot"}
Restored(R, C) ==
  (\E k \in 1 .. Len(C) : C[k].do \in {"restore", "verify"}) =>
    \A j \in 1 .. Len(R) : R[j].on \in {"clean", "suspect"} /\ R[j].do # "skip" =>
      \E i \in 1 .. j - 1 : R[i].do = "remember"

\* What a method is not for is undone; what it is for is made or compared.
Undone(R, P) ==
  \A j \in 1 .. Len(R) : \A c \in Touches(R[j]) \ P :
    \E k \in j + 1 .. Len(R) : c \in Undoes(R[k])
Made(R, P) ==
  \A c \in P \cap Objects : c \notin {"region", "region2"} /\ \E j \in 1 .. Len(R) :
    c \in Touches(R[j]) /\ \A k \in j + 1 .. Len(R) : c \notin Undoes(R[k])
Seen(R, P) ==
  method \notin Unread => \A c \in P \cap Settings : \E j \in 1 .. Len(R) :
    \/ R[j].do = "check" /\ c \in R[j].cell
    \/ R[j].do = "gone" /\ c = "p1"

\* What is compared has been set.
Compared(R) ==
  \A j \in 1 .. Len(R) : R[j].do = "check" => \A c \in R[j].cell :
    \E i \in 1 .. j - 1 : c = R[i].cell /\ R[i].do \in {"set", "command"}

\* What some kinds of steps rely on.
GoneReady(R) ==
  \A j \in 1 .. Len(R) : R[j].do = "gone" =>
    /\ \E i \in 1 .. j - 1 : R[i].do = "bind" /\ R[i].reg = "doc"
    /\ \E i \in 1 .. j - 1 : R[i].do = "bind" /\ R[i].reg = "source"
    /\ \E i \in 1 .. j - 1 : R[i].do = "set" /\ R[i].cell = "p1"
CommandReady(R) ==
  \A j \in 1 .. Len(R) : R[j].do = "command" => \A i \in 1 .. j - 1 : R[i].do \notin {"command", "check"}
SameReady(R) ==
  method = "screenshot" => \A j \in 1 .. Len(R) :
    /\ R[j].do \in {"bind", "use", "remember", "same"}
    /\ R[j].do = "same" => \E i \in 1 .. j - 1 : R[i].do = "remember"
BackReady(R) ==
  /\ \A j \in 1 .. Len(R) - 1 : R[j].do = "back" => R[j + 1].do \in {"back", "skip"}
  /\ \A j \in 1 .. Len(R) : R[j].do = "back" => \A i \in 1 .. j :
       Touches(R[i]) \subseteq Borrowed \cup IF R[j].on = "raise" THEN {} ELSE {"viewport"}

\* What some except blocks have.
Cleanups(C) ==
  /\ method = "fromProfile" => \A k \in 1 .. Len(C) : C[k].do \in {"drop", "skip"}
  /\ method = "visualStyle" => Len(C) # 0 /\ C[Len(C)].do = "verify" /\ C[Len(C)].cell = {"style"}

Sound(R, C, P) ==
  /\ Typed(R, C)
  /\ BindsFirst(R)
  /\ InPlace(R)
  /\ Early(R, P)
  /\ Covered(R, C)
  /\ Grounded(R, C)
  /\ Remembered(R)
  /\ Restored(R, C)
  /\ Undone(R, P)
  /\ Made(R, P)
  /\ Seen(R, P)
  /\ Compared(R)
  /\ GoneReady(R)
  /\ CommandReady(R)
  /\ SameReady(R)
  /\ BackReady(R)
  /\ Cleanups(C)

-----------------------------------------------------------------------------
(* Each method's recipe, except block and purpose are sound                *)

USE DEF Skip, Given, Layer, Bind, Use, Make, Set, Check, Remember, Drop, DropOrRaise, Restore, VerifyRestore, GiveBack, Fence,
    Step, Handle, TheSettings, Touches, Undoes, Objects, Settings

LEMMA CurveIsSound == ASSUME method = "curve", args \in BOOLEAN PROVE Sound(Recipe, Cleanup, Purpose)
<1> USE DEF Curve
<1>1. Recipe = Curve /\ Cleanup = <<Drop("object", "space", Handle)>> /\ Purpose = {"object"}
  BY DEF Recipe, Cleanup, Purpose, Reads
<1>2. /\ \A c \in Settings : Home(c) = "doc"
      /\ \A c \in Objects : Home(c) = "space"
  BY DEF Home
<1>3. Typed(Curve, <<Drop("object", "space", Handle)>>)
  <2>1. Len(Curve) \in 1 .. 19 /\ \A i \in 1 .. Len(Curve) : StepOK(Curve[i])
    BY <1>2, SMTT(60) DEF StepOK, Registers, Borrowed
  <2>2. <<Drop("object", "space", Handle)>> \in Seq({<<Drop("object", "space", Handle)>>[k] : k \in 1 .. Len(<<Drop("object", "space", Handle)>>)})
    BY SMTT(60)
  <2>3. \A i \in 1 .. Len(<<Drop("object", "space", Handle)>>) : CleanStep(<<Drop("object", "space", Handle)>>[i])
    BY <1>2, SMTT(60) DEF CleanStep, Registers, Borrowed, Escapes
  <2> QED BY <2>1, <2>2, <2>3 DEF Typed
<1>4. BindsFirst(Curve)
  BY SMTT(60) DEF BindsFirst
<1>5. Early(Curve, {"object"})
  BY SMTT(60) DEF Early, Reporting, Borrowed
<1>6. InPlace(Curve)
  BY <1>2, SMTT(60) DEF InPlace
<1>7. Covered(Curve, <<Drop("object", "space", Handle)>>)
  BY <1>2, SMTT(60) DEF Covered, Covers, Borrowed
<1>8. Grounded(Curve, <<Drop("object", "space", Handle)>>)
  BY SMTT(60) DEF Grounded
<1>9. Remembered(Curve)
  BY SMTT(60) DEF Remembered
<1>10. Restored(Curve, <<Drop("object", "space", Handle)>>)
  BY SMTT(60) DEF Restored
<1>11. Undone(Curve, {"object"})
  BY SMTT(60) DEF Undone
<1>12. Made(Curve, {"object"})
  BY SMTT(60) DEF Made
<1>13. Seen(Curve, {"object"})
  BY SMTT(60) DEF Seen, Unread
<1>14. Compared(Curve)
  BY SMTT(60) DEF Compared
<1>15. GoneReady(Curve) /\ CommandReady(Curve) /\ SameReady(Curve) /\ BackReady(Curve) /\ Cleanups(<<Drop("object", "space", Handle)>>)
  BY SMTT(60) DEF GoneReady, CommandReady, SameReady, BackReady, Cleanups, Borrowed
<1> QED BY <1>1, <1>3, <1>4, <1>5, <1>6, <1>7, <1>8, <1>9, <1>10, <1>11, <1>12, <1>13, <1>14, <1>15 DEF Sound

LEMMA ShapedIsSound == ASSUME method = "shaped", args \in BOOLEAN PROVE Sound(Recipe, Cleanup, Purpose)
<1> USE DEF Shaped
<1>1. Recipe = Shaped /\ Cleanup = <<Drop("object", "space", Handle)>> /\ Purpose = {"object"}
  BY DEF Recipe, Cleanup, Purpose, Reads
<1>2. /\ \A c \in Settings : Home(c) = "doc"
      /\ \A c \in Objects : Home(c) = "space"
  BY DEF Home
<1>3. Typed(Shaped, <<Drop("object", "space", Handle)>>)
  <2>1. Len(Shaped) \in 1 .. 19 /\ \A i \in 1 .. Len(Shaped) : StepOK(Shaped[i])
    BY <1>2, SMTT(60) DEF StepOK, Registers, Borrowed
  <2>2. <<Drop("object", "space", Handle)>> \in Seq({<<Drop("object", "space", Handle)>>[k] : k \in 1 .. Len(<<Drop("object", "space", Handle)>>)})
    BY SMTT(60)
  <2>3. \A i \in 1 .. Len(<<Drop("object", "space", Handle)>>) : CleanStep(<<Drop("object", "space", Handle)>>[i])
    BY <1>2, SMTT(60) DEF CleanStep, Registers, Borrowed, Escapes
  <2> QED BY <2>1, <2>2, <2>3 DEF Typed
<1>4. BindsFirst(Shaped)
  BY SMTT(60) DEF BindsFirst
<1>5. Early(Shaped, {"object"})
  BY SMTT(60) DEF Early, Reporting, Borrowed
<1>6. InPlace(Shaped)
  BY <1>2, SMTT(60) DEF InPlace
<1>7. Covered(Shaped, <<Drop("object", "space", Handle)>>)
  BY <1>2, SMTT(60) DEF Covered, Covers, Borrowed
<1>8. Grounded(Shaped, <<Drop("object", "space", Handle)>>)
  BY SMTT(60) DEF Grounded
<1>9. Remembered(Shaped)
  BY SMTT(60) DEF Remembered
<1>10. Restored(Shaped, <<Drop("object", "space", Handle)>>)
  BY SMTT(60) DEF Restored
<1>11. Undone(Shaped, {"object"})
  BY SMTT(60) DEF Undone
<1>12. Made(Shaped, {"object"})
  BY SMTT(60) DEF Made
<1>13. Seen(Shaped, {"object"})
  BY SMTT(60) DEF Seen, Unread
<1>14. Compared(Shaped)
  BY SMTT(60) DEF Compared
<1>15. GoneReady(Shaped) /\ CommandReady(Shaped) /\ SameReady(Shaped) /\ BackReady(Shaped) /\ Cleanups(<<Drop("object", "space", Handle)>>)
  BY SMTT(60) DEF GoneReady, CommandReady, SameReady, BackReady, Cleanups, Borrowed
<1> QED BY <1>1, <1>3, <1>4, <1>5, <1>6, <1>7, <1>8, <1>9, <1>10, <1>11, <1>12, <1>13, <1>14, <1>15 DEF Sound

LEMMA DimensionIsSound == ASSUME method = "dimension", args \in BOOLEAN PROVE Sound(Recipe, Cleanup, Purpose)
<1> USE DEF Dimension
<1>1. Recipe = Dimension /\ Cleanup = <<Drop("object", "space", Handle)>> /\ Purpose = {"object"}
  BY DEF Recipe, Cleanup, Purpose, Reads
<1>2. /\ \A c \in Settings : Home(c) = "doc"
      /\ \A c \in Objects : Home(c) = "space"
  BY DEF Home
<1>3. Typed(Dimension, <<Drop("object", "space", Handle)>>)
  <2>1. Len(Dimension) \in 1 .. 19 /\ \A i \in 1 .. Len(Dimension) : StepOK(Dimension[i])
    BY <1>2, SMTT(60) DEF StepOK, Registers, Borrowed
  <2>2. <<Drop("object", "space", Handle)>> \in Seq({<<Drop("object", "space", Handle)>>[k] : k \in 1 .. Len(<<Drop("object", "space", Handle)>>)})
    BY SMTT(60)
  <2>3. \A i \in 1 .. Len(<<Drop("object", "space", Handle)>>) : CleanStep(<<Drop("object", "space", Handle)>>[i])
    BY <1>2, SMTT(60) DEF CleanStep, Registers, Borrowed, Escapes
  <2> QED BY <2>1, <2>2, <2>3 DEF Typed
<1>4. BindsFirst(Dimension)
  BY SMTT(60) DEF BindsFirst
<1>5. Early(Dimension, {"object"})
  BY SMTT(60) DEF Early, Reporting, Borrowed
<1>6. InPlace(Dimension)
  BY <1>2, SMTT(60) DEF InPlace
<1>7. Covered(Dimension, <<Drop("object", "space", Handle)>>)
  BY <1>2, SMTT(60) DEF Covered, Covers, Borrowed
<1>8. Grounded(Dimension, <<Drop("object", "space", Handle)>>)
  BY SMTT(60) DEF Grounded
<1>9. Remembered(Dimension)
  BY SMTT(60) DEF Remembered
<1>10. Restored(Dimension, <<Drop("object", "space", Handle)>>)
  BY SMTT(60) DEF Restored
<1>11. Undone(Dimension, {"object"})
  BY SMTT(60) DEF Undone
<1>12. Made(Dimension, {"object"})
  BY SMTT(60) DEF Made
<1>13. Seen(Dimension, {"object"})
  BY SMTT(60) DEF Seen, Unread
<1>14. Compared(Dimension)
  BY SMTT(60) DEF Compared
<1>15. GoneReady(Dimension) /\ CommandReady(Dimension) /\ SameReady(Dimension) /\ BackReady(Dimension) /\ Cleanups(<<Drop("object", "space", Handle)>>)
  BY SMTT(60) DEF GoneReady, CommandReady, SameReady, BackReady, Cleanups, Borrowed
<1> QED BY <1>1, <1>3, <1>4, <1>5, <1>6, <1>7, <1>8, <1>9, <1>10, <1>11, <1>12, <1>13, <1>14, <1>15 DEF Sound

LEMMA BlockInsertIsSound == ASSUME method = "blockInsert", args \in BOOLEAN PROVE Sound(Recipe, Cleanup, Purpose)
<1> USE DEF BlockInsert
<1>1. Recipe = BlockInsert /\ Cleanup = <<Drop("object", "space", Handle)>> /\ Purpose = {"object"}
  BY DEF Recipe, Cleanup, Purpose, Reads
<1>2. /\ \A c \in Settings : Home(c) = "doc"
      /\ \A c \in Objects : Home(c) = "space"
  BY DEF Home
<1>3. Typed(BlockInsert, <<Drop("object", "space", Handle)>>)
  <2>1. Len(BlockInsert) \in 1 .. 19 /\ \A i \in 1 .. Len(BlockInsert) : StepOK(BlockInsert[i])
    BY <1>2, SMTT(60) DEF StepOK, Registers, Borrowed
  <2>2. <<Drop("object", "space", Handle)>> \in Seq({<<Drop("object", "space", Handle)>>[k] : k \in 1 .. Len(<<Drop("object", "space", Handle)>>)})
    BY SMTT(60)
  <2>3. \A i \in 1 .. Len(<<Drop("object", "space", Handle)>>) : CleanStep(<<Drop("object", "space", Handle)>>[i])
    BY <1>2, SMTT(60) DEF CleanStep, Registers, Borrowed, Escapes
  <2> QED BY <2>1, <2>2, <2>3 DEF Typed
<1>4. BindsFirst(BlockInsert)
  BY SMTT(60) DEF BindsFirst
<1>5. Early(BlockInsert, {"object"})
  BY SMTT(60) DEF Early, Reporting, Borrowed
<1>6. InPlace(BlockInsert)
  BY <1>2, SMTT(60) DEF InPlace
<1>7. Covered(BlockInsert, <<Drop("object", "space", Handle)>>)
  BY <1>2, SMTT(60) DEF Covered, Covers, Borrowed
<1>8. Grounded(BlockInsert, <<Drop("object", "space", Handle)>>)
  BY SMTT(60) DEF Grounded
<1>9. Remembered(BlockInsert)
  BY SMTT(60) DEF Remembered
<1>10. Restored(BlockInsert, <<Drop("object", "space", Handle)>>)
  BY SMTT(60) DEF Restored
<1>11. Undone(BlockInsert, {"object"})
  BY SMTT(60) DEF Undone
<1>12. Made(BlockInsert, {"object"})
  BY SMTT(60) DEF Made
<1>13. Seen(BlockInsert, {"object"})
  BY SMTT(60) DEF Seen, Unread
<1>14. Compared(BlockInsert)
  BY SMTT(60) DEF Compared
<1>15. GoneReady(BlockInsert) /\ CommandReady(BlockInsert) /\ SameReady(BlockInsert) /\ BackReady(BlockInsert) /\ Cleanups(<<Drop("object", "space", Handle)>>)
  BY SMTT(60) DEF GoneReady, CommandReady, SameReady, BackReady, Cleanups, Borrowed
<1> QED BY <1>1, <1>3, <1>4, <1>5, <1>6, <1>7, <1>8, <1>9, <1>10, <1>11, <1>12, <1>13, <1>14, <1>15 DEF Sound

LEMMA Polyline3dIsSound == ASSUME method = "polyline3d", args \in BOOLEAN PROVE Sound(Recipe, Cleanup, Purpose)
<1> USE DEF Polyline3d
<1>1. Recipe = Polyline3d /\ Cleanup = <<Drop("object", "space", Handle)>> /\ Purpose = {"object"}
  BY DEF Recipe, Cleanup, Purpose, Reads
<1>2. /\ \A c \in Settings : Home(c) = "doc"
      /\ \A c \in Objects : Home(c) = "space"
  BY DEF Home
<1>3. Typed(Polyline3d, <<Drop("object", "space", Handle)>>)
  <2>1. Len(Polyline3d) \in 1 .. 19 /\ \A i \in 1 .. Len(Polyline3d) : StepOK(Polyline3d[i])
    BY <1>2, SMTT(60) DEF StepOK, Registers, Borrowed
  <2>2. <<Drop("object", "space", Handle)>> \in Seq({<<Drop("object", "space", Handle)>>[k] : k \in 1 .. Len(<<Drop("object", "space", Handle)>>)})
    BY SMTT(60)
  <2>3. \A i \in 1 .. Len(<<Drop("object", "space", Handle)>>) : CleanStep(<<Drop("object", "space", Handle)>>[i])
    BY <1>2, SMTT(60) DEF CleanStep, Registers, Borrowed, Escapes
  <2> QED BY <2>1, <2>2, <2>3 DEF Typed
<1>4. BindsFirst(Polyline3d)
  BY SMTT(60) DEF BindsFirst
<1>5. Early(Polyline3d, {"object"})
  BY SMTT(60) DEF Early, Reporting, Borrowed
<1>6. InPlace(Polyline3d)
  BY <1>2, SMTT(60) DEF InPlace
<1>7. Covered(Polyline3d, <<Drop("object", "space", Handle)>>)
  BY <1>2, SMTT(60) DEF Covered, Covers, Borrowed
<1>8. Grounded(Polyline3d, <<Drop("object", "space", Handle)>>)
  BY SMTT(60) DEF Grounded
<1>9. Remembered(Polyline3d)
  BY SMTT(60) DEF Remembered
<1>10. Restored(Polyline3d, <<Drop("object", "space", Handle)>>)
  BY SMTT(60) DEF Restored
<1>11. Undone(Polyline3d, {"object"})
  BY SMTT(60) DEF Undone
<1>12. Made(Polyline3d, {"object"})
  BY SMTT(60) DEF Made
<1>13. Seen(Polyline3d, {"object"})
  BY SMTT(60) DEF Seen, Unread
<1>14. Compared(Polyline3d)
  BY SMTT(60) DEF Compared
<1>15. GoneReady(Polyline3d) /\ CommandReady(Polyline3d) /\ SameReady(Polyline3d) /\ BackReady(Polyline3d) /\ Cleanups(<<Drop("object", "space", Handle)>>)
  BY SMTT(60) DEF GoneReady, CommandReady, SameReady, BackReady, Cleanups, Borrowed
<1> QED BY <1>1, <1>3, <1>4, <1>5, <1>6, <1>7, <1>8, <1>9, <1>10, <1>11, <1>12, <1>13, <1>14, <1>15 DEF Sound

LEMMA SolidIsSound == ASSUME method = "solid", args \in BOOLEAN PROVE Sound(Recipe, Cleanup, Purpose)
<1> USE DEF Solid, SolidCleanup
<1>1. Recipe = Solid /\ Cleanup = SolidCleanup /\ Purpose = {"object"}
  BY DEF Recipe, Cleanup, Purpose, Reads
<1>2. /\ \A c \in Settings : Home(c) = "doc"
      /\ \A c \in Objects : Home(c) = "doc"
  BY DEF Home
<1>3. Typed(Solid, SolidCleanup)
  <2>1. Len(Solid) \in 1 .. 19 /\ \A i \in 1 .. Len(Solid) : StepOK(Solid[i])
    BY <1>2, SMTT(60) DEF StepOK, Registers, Borrowed
  <2>2. SolidCleanup \in Seq({SolidCleanup[k] : k \in 1 .. Len(SolidCleanup)})
    BY SMTT(60)
  <2>3. \A i \in 1 .. Len(SolidCleanup) : CleanStep(SolidCleanup[i])
    BY <1>2, SMTT(60) DEF CleanStep, Registers, Borrowed, Escapes
  <2> QED BY <2>1, <2>2, <2>3 DEF Typed
<1>4. BindsFirst(Solid)
  BY SMTT(60) DEF BindsFirst
<1>5. Early(Solid, {"object"})
  BY SMTT(60) DEF Early, Reporting, Borrowed
<1>6. InPlace(Solid)
  BY <1>2, SMTT(60) DEF InPlace
<1>7. Covered(Solid, SolidCleanup)
  BY <1>2, SMTT(60) DEF Covered, Covers, Borrowed
<1>8. Grounded(Solid, SolidCleanup)
  BY SMTT(60) DEF Grounded
<1>9. Remembered(Solid)
  BY SMTT(60) DEF Remembered
<1>10. Restored(Solid, SolidCleanup)
  BY SMTT(60) DEF Restored
<1>11. Undone(Solid, {"object"})
  BY SMTT(60) DEF Undone
<1>12. Made(Solid, {"object"})
  BY SMTT(60) DEF Made
<1>13. Seen(Solid, {"object"})
  BY SMTT(60) DEF Seen, Unread
<1>14. Compared(Solid)
  BY SMTT(60) DEF Compared
<1>15. GoneReady(Solid) /\ CommandReady(Solid) /\ SameReady(Solid) /\ BackReady(Solid) /\ Cleanups(SolidCleanup)
  BY SMTT(60) DEF GoneReady, CommandReady, SameReady, BackReady, Cleanups, Borrowed
<1> QED BY <1>1, <1>3, <1>4, <1>5, <1>6, <1>7, <1>8, <1>9, <1>10, <1>11, <1>12, <1>13, <1>14, <1>15 DEF Sound

LEMMA CopyIsSound == ASSUME method = "copy", args \in BOOLEAN PROVE Sound(Recipe, Cleanup, Purpose)
<1> USE DEF Copy
<1>1. Recipe = Copy /\ Cleanup = <<Drop("object", "doc", Handle)>> /\ Purpose = {"object"}
  BY DEF Recipe, Cleanup, Purpose, Reads
<1>2. /\ \A c \in Settings : Home(c) = "doc"
      /\ \A c \in Objects : Home(c) = "source"
  BY DEF Home
<1>3. Typed(Copy, <<Drop("object", "doc", Handle)>>)
  <2>1. Len(Copy) \in 1 .. 19 /\ \A i \in 1 .. Len(Copy) : StepOK(Copy[i])
    BY <1>2, SMTT(60) DEF StepOK, Registers, Borrowed
  <2>2. <<Drop("object", "doc", Handle)>> \in Seq({<<Drop("object", "doc", Handle)>>[k] : k \in 1 .. Len(<<Drop("object", "doc", Handle)>>)})
    BY SMTT(60)
  <2>3. \A i \in 1 .. Len(<<Drop("object", "doc", Handle)>>) : CleanStep(<<Drop("object", "doc", Handle)>>[i])
    BY <1>2, SMTT(60) DEF CleanStep, Registers, Borrowed, Escapes
  <2> QED BY <2>1, <2>2, <2>3 DEF Typed
<1>4. BindsFirst(Copy)
  BY SMTT(60) DEF BindsFirst
<1>5. Early(Copy, {"object"})
  BY SMTT(60) DEF Early, Reporting, Borrowed
<1>6. InPlace(Copy)
  BY <1>2, SMTT(60) DEF InPlace
<1>7. Covered(Copy, <<Drop("object", "doc", Handle)>>)
  BY <1>2, SMTT(60) DEF Covered, Covers, Borrowed
<1>8. Grounded(Copy, <<Drop("object", "doc", Handle)>>)
  BY SMTT(60) DEF Grounded
<1>9. Remembered(Copy)
  BY SMTT(60) DEF Remembered
<1>10. Restored(Copy, <<Drop("object", "doc", Handle)>>)
  BY SMTT(60) DEF Restored
<1>11. Undone(Copy, {"object"})
  BY SMTT(60) DEF Undone
<1>12. Made(Copy, {"object"})
  BY SMTT(60) DEF Made
<1>13. Seen(Copy, {"object"})
  BY SMTT(60) DEF Seen, Unread
<1>14. Compared(Copy)
  BY SMTT(60) DEF Compared
<1>15. GoneReady(Copy) /\ CommandReady(Copy) /\ SameReady(Copy) /\ BackReady(Copy) /\ Cleanups(<<Drop("object", "doc", Handle)>>)
  BY SMTT(60) DEF GoneReady, CommandReady, SameReady, BackReady, Cleanups, Borrowed
<1> QED BY <1>1, <1>3, <1>4, <1>5, <1>6, <1>7, <1>8, <1>9, <1>10, <1>11, <1>12, <1>13, <1>14, <1>15 DEF Sound

LEMMA MirrorIsSound == ASSUME method = "mirror", args \in BOOLEAN PROVE Sound(Recipe, Cleanup, Purpose)
<1> USE DEF Mirror
<1>1. Recipe = Mirror /\ Cleanup = <<Drop("object", "doc", Handle)>> /\ Purpose = {"object"}
  BY DEF Recipe, Cleanup, Purpose, Reads
<1>2. /\ \A c \in Settings : Home(c) = "doc"
      /\ \A c \in Objects : Home(c) = "source"
  BY DEF Home
<1>3. Typed(Mirror, <<Drop("object", "doc", Handle)>>)
  <2>1. Len(Mirror) \in 1 .. 19 /\ \A i \in 1 .. Len(Mirror) : StepOK(Mirror[i])
    BY <1>2, SMTT(60) DEF StepOK, Registers, Borrowed
  <2>2. <<Drop("object", "doc", Handle)>> \in Seq({<<Drop("object", "doc", Handle)>>[k] : k \in 1 .. Len(<<Drop("object", "doc", Handle)>>)})
    BY SMTT(60)
  <2>3. \A i \in 1 .. Len(<<Drop("object", "doc", Handle)>>) : CleanStep(<<Drop("object", "doc", Handle)>>[i])
    BY <1>2, SMTT(60) DEF CleanStep, Registers, Borrowed, Escapes
  <2> QED BY <2>1, <2>2, <2>3 DEF Typed
<1>4. BindsFirst(Mirror)
  BY SMTT(60) DEF BindsFirst
<1>5. Early(Mirror, {"object"})
  BY SMTT(60) DEF Early, Reporting, Borrowed
<1>6. InPlace(Mirror)
  BY <1>2, SMTT(60) DEF InPlace
<1>7. Covered(Mirror, <<Drop("object", "doc", Handle)>>)
  BY <1>2, SMTT(60) DEF Covered, Covers, Borrowed
<1>8. Grounded(Mirror, <<Drop("object", "doc", Handle)>>)
  BY SMTT(60) DEF Grounded
<1>9. Remembered(Mirror)
  BY SMTT(60) DEF Remembered
<1>10. Restored(Mirror, <<Drop("object", "doc", Handle)>>)
  BY SMTT(60) DEF Restored
<1>11. Undone(Mirror, {"object"})
  BY SMTT(60) DEF Undone
<1>12. Made(Mirror, {"object"})
  BY SMTT(60) DEF Made
<1>13. Seen(Mirror, {"object"})
  BY SMTT(60) DEF Seen, Unread
<1>14. Compared(Mirror)
  BY SMTT(60) DEF Compared
<1>15. GoneReady(Mirror) /\ CommandReady(Mirror) /\ SameReady(Mirror) /\ BackReady(Mirror) /\ Cleanups(<<Drop("object", "doc", Handle)>>)
  BY SMTT(60) DEF GoneReady, CommandReady, SameReady, BackReady, Cleanups, Borrowed
<1> QED BY <1>1, <1>3, <1>4, <1>5, <1>6, <1>7, <1>8, <1>9, <1>10, <1>11, <1>12, <1>13, <1>14, <1>15 DEF Sound

LEMMA BlockCreateIsSound == ASSUME method = "blockCreate", args \in BOOLEAN PROVE Sound(Recipe, Cleanup, Purpose)
<1> USE DEF BlockCreate
<1>1. Recipe = BlockCreate /\ Cleanup = <<Drop("definition", "doc", {})>> /\ Purpose = {"definition"}
  BY DEF Recipe, Cleanup, Purpose, Reads
<1>2. /\ \A c \in Settings : Home(c) = "doc"
      /\ \A c \in Objects : Home(c) = "doc"
  BY DEF Home
<1>3. Typed(BlockCreate, <<Drop("definition", "doc", {})>>)
  <2>1. Len(BlockCreate) \in 1 .. 19 /\ \A i \in 1 .. Len(BlockCreate) : StepOK(BlockCreate[i])
    BY <1>2, SMTT(60) DEF StepOK, Registers, Borrowed
  <2>2. <<Drop("definition", "doc", {})>> \in Seq({<<Drop("definition", "doc", {})>>[k] : k \in 1 .. Len(<<Drop("definition", "doc", {})>>)})
    BY SMTT(60)
  <2>3. \A i \in 1 .. Len(<<Drop("definition", "doc", {})>>) : CleanStep(<<Drop("definition", "doc", {})>>[i])
    BY <1>2, SMTT(60) DEF CleanStep, Registers, Borrowed, Escapes
  <2> QED BY <2>1, <2>2, <2>3 DEF Typed
<1>4. BindsFirst(BlockCreate)
  BY SMTT(60) DEF BindsFirst
<1>5. Early(BlockCreate, {"definition"})
  BY SMTT(60) DEF Early, Reporting, Borrowed
<1>6. InPlace(BlockCreate)
  BY <1>2, SMTT(60) DEF InPlace
<1>7. Covered(BlockCreate, <<Drop("definition", "doc", {})>>)
  BY <1>2, SMTT(60) DEF Covered, Covers, Borrowed
<1>8. Grounded(BlockCreate, <<Drop("definition", "doc", {})>>)
  BY SMTT(60) DEF Grounded
<1>9. Remembered(BlockCreate)
  BY SMTT(60) DEF Remembered
<1>10. Restored(BlockCreate, <<Drop("definition", "doc", {})>>)
  BY SMTT(60) DEF Restored
<1>11. Undone(BlockCreate, {"definition"})
  BY SMTT(60) DEF Undone
<1>12. Made(BlockCreate, {"definition"})
  BY SMTT(60) DEF Made
<1>13. Seen(BlockCreate, {"definition"})
  BY SMTT(60) DEF Seen, Unread
<1>14. Compared(BlockCreate)
  BY SMTT(60) DEF Compared
<1>15. GoneReady(BlockCreate) /\ CommandReady(BlockCreate) /\ SameReady(BlockCreate) /\ BackReady(BlockCreate) /\ Cleanups(<<Drop("definition", "doc", {})>>)
  BY SMTT(60) DEF GoneReady, CommandReady, SameReady, BackReady, Cleanups, Borrowed
<1> QED BY <1>1, <1>3, <1>4, <1>5, <1>6, <1>7, <1>8, <1>9, <1>10, <1>11, <1>12, <1>13, <1>14, <1>15 DEF Sound

LEMMA LayerCreateIsSound == ASSUME method = "layerCreate", args \in BOOLEAN PROVE Sound(Recipe, Cleanup, Purpose)
<1> USE DEF LayerCreate
<1>1. Recipe = LayerCreate /\ Cleanup = <<Drop("definition", "doc", {})>> /\ Purpose = {"definition"}
  BY DEF Recipe, Cleanup, Purpose, Reads
<1>2. /\ \A c \in Settings : Home(c) = "doc"
      /\ \A c \in Objects : Home(c) = "doc"
  BY DEF Home
<1>3. Typed(LayerCreate, <<Drop("definition", "doc", {})>>)
  <2>1. Len(LayerCreate) \in 1 .. 19 /\ \A i \in 1 .. Len(LayerCreate) : StepOK(LayerCreate[i])
    BY <1>2, SMTT(60) DEF StepOK, Registers, Borrowed
  <2>2. <<Drop("definition", "doc", {})>> \in Seq({<<Drop("definition", "doc", {})>>[k] : k \in 1 .. Len(<<Drop("definition", "doc", {})>>)})
    BY SMTT(60)
  <2>3. \A i \in 1 .. Len(<<Drop("definition", "doc", {})>>) : CleanStep(<<Drop("definition", "doc", {})>>[i])
    BY <1>2, SMTT(60) DEF CleanStep, Registers, Borrowed, Escapes
  <2> QED BY <2>1, <2>2, <2>3 DEF Typed
<1>4. BindsFirst(LayerCreate)
  BY SMTT(60) DEF BindsFirst
<1>5. Early(LayerCreate, {"definition"})
  BY SMTT(60) DEF Early, Reporting, Borrowed
<1>6. InPlace(LayerCreate)
  BY <1>2, SMTT(60) DEF InPlace
<1>7. Covered(LayerCreate, <<Drop("definition", "doc", {})>>)
  BY <1>2, SMTT(60) DEF Covered, Covers, Borrowed
<1>8. Grounded(LayerCreate, <<Drop("definition", "doc", {})>>)
  BY SMTT(60) DEF Grounded
<1>9. Remembered(LayerCreate)
  BY SMTT(60) DEF Remembered
<1>10. Restored(LayerCreate, <<Drop("definition", "doc", {})>>)
  BY SMTT(60) DEF Restored
<1>11. Undone(LayerCreate, {"definition"})
  BY SMTT(60) DEF Undone
<1>12. Made(LayerCreate, {"definition"})
  BY SMTT(60) DEF Made
<1>13. Seen(LayerCreate, {"definition"})
  BY SMTT(60) DEF Seen, Unread
<1>14. Compared(LayerCreate)
  BY SMTT(60) DEF Compared
<1>15. GoneReady(LayerCreate) /\ CommandReady(LayerCreate) /\ SameReady(LayerCreate) /\ BackReady(LayerCreate) /\ Cleanups(<<Drop("definition", "doc", {})>>)
  BY SMTT(60) DEF GoneReady, CommandReady, SameReady, BackReady, Cleanups, Borrowed
<1> QED BY <1>1, <1>3, <1>4, <1>5, <1>6, <1>7, <1>8, <1>9, <1>10, <1>11, <1>12, <1>13, <1>14, <1>15 DEF Sound

LEMMA HatchIsSound == ASSUME method = "hatch", args \in BOOLEAN PROVE Sound(Recipe, Cleanup, Purpose)
<1> USE DEF Hatch, HatchCleanup
<1>1. Recipe = Hatch /\ Cleanup = HatchCleanup /\ Purpose = {"hatch"}
  BY DEF Recipe, Cleanup, Purpose, Reads
<1>2. /\ \A c \in Settings : Home(c) = "doc"
      /\ \A c \in Objects : Home(c) = "space"
  BY DEF Home
<1>3. Typed(Hatch, HatchCleanup)
  <2>1. Len(Hatch) \in 1 .. 19 /\ \A i \in 1 .. Len(Hatch) : StepOK(Hatch[i])
    BY <1>2, SMTT(60) DEF StepOK, Registers, Borrowed
  <2>2. HatchCleanup \in Seq({HatchCleanup[k] : k \in 1 .. Len(HatchCleanup)})
    BY SMTT(60)
  <2>3. \A i \in 1 .. Len(HatchCleanup) : CleanStep(HatchCleanup[i])
    BY <1>2, SMTT(60) DEF CleanStep, Registers, Borrowed, Escapes
  <2> QED BY <2>1, <2>2, <2>3 DEF Typed
<1>4. BindsFirst(Hatch)
  BY SMTT(60) DEF BindsFirst
<1>5. Early(Hatch, {"hatch"})
  BY SMTT(60) DEF Early, Reporting, Borrowed
<1>6. InPlace(Hatch)
  BY <1>2, SMTT(60) DEF InPlace
<1>7. Covered(Hatch, HatchCleanup)
  BY <1>2, SMTT(60) DEF Covered, Covers, Borrowed
<1>8. Grounded(Hatch, HatchCleanup)
  BY SMTT(60) DEF Grounded
<1>9. Remembered(Hatch)
  BY SMTT(60) DEF Remembered
<1>10. Restored(Hatch, HatchCleanup)
  BY SMTT(60) DEF Restored
<1>11. Undone(Hatch, {"hatch"})
  BY SMTT(60) DEF Undone
<1>12. Made(Hatch, {"hatch"})
  BY SMTT(60) DEF Made
<1>13. Seen(Hatch, {"hatch"})
  BY SMTT(60) DEF Seen, Unread
<1>14. Compared(Hatch)
  BY SMTT(60) DEF Compared
<1>15. GoneReady(Hatch) /\ CommandReady(Hatch) /\ SameReady(Hatch) /\ BackReady(Hatch) /\ Cleanups(HatchCleanup)
  BY SMTT(60) DEF GoneReady, CommandReady, SameReady, BackReady, Cleanups, Borrowed
<1> QED BY <1>1, <1>3, <1>4, <1>5, <1>6, <1>7, <1>8, <1>9, <1>10, <1>11, <1>12, <1>13, <1>14, <1>15 DEF Sound

LEMMA FromRegionIsSound == ASSUME method = "fromRegion", args \in BOOLEAN PROVE Sound(Recipe, Cleanup, Purpose)
<1> USE DEF FromRegion, SolidCleanup
<1>1. Recipe = FromRegion /\ Cleanup = SolidCleanup /\ Purpose = {"object"}
  BY DEF Recipe, Cleanup, Purpose, Reads
<1>2. /\ \A c \in Settings : Home(c) = "doc"
      /\ \A c \in Objects : Home(c) = "doc"
  BY DEF Home
<1>3. Typed(FromRegion, SolidCleanup)
  <2>1. Len(FromRegion) \in 1 .. 19 /\ \A i \in 1 .. Len(FromRegion) : StepOK(FromRegion[i])
    BY <1>2, SMTT(60) DEF StepOK, Registers, Borrowed
  <2>2. SolidCleanup \in Seq({SolidCleanup[k] : k \in 1 .. Len(SolidCleanup)})
    BY SMTT(60)
  <2>3. \A i \in 1 .. Len(SolidCleanup) : CleanStep(SolidCleanup[i])
    BY <1>2, SMTT(60) DEF CleanStep, Registers, Borrowed, Escapes
  <2> QED BY <2>1, <2>2, <2>3 DEF Typed
<1>4. BindsFirst(FromRegion)
  BY SMTT(60) DEF BindsFirst
<1>5. Early(FromRegion, {"object"})
  BY SMTT(60) DEF Early, Reporting, Borrowed
<1>6. InPlace(FromRegion)
  BY <1>2, SMTT(60) DEF InPlace
<1>7. Covered(FromRegion, SolidCleanup)
  BY <1>2, SMTT(60) DEF Covered, Covers, Borrowed
<1>8. Grounded(FromRegion, SolidCleanup)
  BY SMTT(60) DEF Grounded
<1>9. Remembered(FromRegion)
  BY SMTT(60) DEF Remembered
<1>10. Restored(FromRegion, SolidCleanup)
  BY SMTT(60) DEF Restored
<1>11. Undone(FromRegion, {"object"})
  BY SMTT(60) DEF Undone
<1>12. Made(FromRegion, {"object"})
  BY SMTT(60) DEF Made
<1>13. Seen(FromRegion, {"object"})
  BY SMTT(60) DEF Seen, Unread
<1>14. Compared(FromRegion)
  BY SMTT(60) DEF Compared
<1>15. GoneReady(FromRegion) /\ CommandReady(FromRegion) /\ SameReady(FromRegion) /\ BackReady(FromRegion) /\ Cleanups(SolidCleanup)
  BY SMTT(60) DEF GoneReady, CommandReady, SameReady, BackReady, Cleanups, Borrowed
<1> QED BY <1>1, <1>3, <1>4, <1>5, <1>6, <1>7, <1>8, <1>9, <1>10, <1>11, <1>12, <1>13, <1>14, <1>15 DEF Sound

LEMMA FromProfileIsSound == ASSUME method = "fromProfile", args \in BOOLEAN PROVE Sound(Recipe, Cleanup, Purpose)
<1> USE DEF FromProfile, SolidCleanup
<1>1. Recipe = FromProfile /\ Cleanup = SolidCleanup /\ Purpose = {"object"}
  BY DEF Recipe, Cleanup, Purpose, Reads
<1>2. /\ \A c \in Settings : Home(c) = "doc"
      /\ \A c \in Objects : Home(c) = "doc"
  BY DEF Home
<1>3. Typed(FromProfile, SolidCleanup)
  <2>1. Len(FromProfile) \in 1 .. 19 /\ \A i \in 1 .. Len(FromProfile) : StepOK(FromProfile[i])
    BY <1>2, SMTT(60) DEF StepOK, Registers, Borrowed
  <2>2. SolidCleanup \in Seq({SolidCleanup[k] : k \in 1 .. Len(SolidCleanup)})
    BY SMTT(60)
  <2>3. \A i \in 1 .. Len(SolidCleanup) : CleanStep(SolidCleanup[i])
    BY <1>2, SMTT(60) DEF CleanStep, Registers, Borrowed, Escapes
  <2> QED BY <2>1, <2>2, <2>3 DEF Typed
<1>4. BindsFirst(FromProfile)
  BY SMTT(60) DEF BindsFirst
<1>5. Early(FromProfile, {"object"})
  BY SMTT(60) DEF Early, Reporting, Borrowed
<1>6. InPlace(FromProfile)
  BY <1>2, SMTT(60) DEF InPlace
<1>7. Covered(FromProfile, SolidCleanup)
  BY <1>2, SMTT(60) DEF Covered, Covers, Borrowed
<1>8. Grounded(FromProfile, SolidCleanup)
  BY SMTT(60) DEF Grounded
<1>9. Remembered(FromProfile)
  BY SMTT(60) DEF Remembered
<1>10. Restored(FromProfile, SolidCleanup)
  BY SMTT(60) DEF Restored
<1>11. Undone(FromProfile, {"object"})
  BY SMTT(60) DEF Undone
<1>12. Made(FromProfile, {"object"})
  BY SMTT(60) DEF Made
<1>13. Seen(FromProfile, {"object"})
  BY SMTT(60) DEF Seen, Unread
<1>14. Compared(FromProfile)
  BY SMTT(60) DEF Compared
<1>15. GoneReady(FromProfile) /\ CommandReady(FromProfile) /\ SameReady(FromProfile) /\ BackReady(FromProfile) /\ Cleanups(SolidCleanup)
  BY SMTT(60) DEF GoneReady, CommandReady, SameReady, BackReady, Cleanups, Borrowed
<1> QED BY <1>1, <1>3, <1>4, <1>5, <1>6, <1>7, <1>8, <1>9, <1>10, <1>11, <1>12, <1>13, <1>14, <1>15 DEF Sound

LEMMA XrefAttachIsSound == ASSUME method = "xrefAttach", args \in BOOLEAN PROVE Sound(Recipe, Cleanup, Purpose)
<1> USE DEF XrefAttach, XrefCleanup
<1>1. Recipe = XrefAttach /\ Cleanup = XrefCleanup /\ Purpose = {"object", "definition"}
  BY DEF Recipe, Cleanup, Purpose, Reads
<1>2. /\ \A c \in Settings : Home(c) = "doc"
      /\ \A c \in Objects : Home(c) = "space"
  BY DEF Home
<1>3. Typed(XrefAttach, XrefCleanup)
  <2>1. Len(XrefAttach) \in 1 .. 19 /\ \A i \in 1 .. Len(XrefAttach) : StepOK(XrefAttach[i])
    BY <1>2, SMTT(60) DEF StepOK, Registers, Borrowed
  <2>2. XrefCleanup \in Seq({XrefCleanup[k] : k \in 1 .. Len(XrefCleanup)})
    BY SMTT(60)
  <2>3. \A i \in 1 .. Len(XrefCleanup) : CleanStep(XrefCleanup[i])
    BY <1>2, SMTT(60) DEF CleanStep, Registers, Borrowed, Escapes
  <2> QED BY <2>1, <2>2, <2>3 DEF Typed
<1>4. BindsFirst(XrefAttach)
  BY SMTT(60) DEF BindsFirst
<1>5. Early(XrefAttach, {"object", "definition"})
  BY SMTT(60) DEF Early, Reporting, Borrowed
<1>6. InPlace(XrefAttach)
  BY <1>2, SMTT(60) DEF InPlace
<1>7. Covered(XrefAttach, XrefCleanup)
  BY <1>2, SMTT(60) DEF Covered, Covers, Borrowed
<1>8. Grounded(XrefAttach, XrefCleanup)
  BY SMTT(60) DEF Grounded
<1>9. Remembered(XrefAttach)
  BY SMTT(60) DEF Remembered
<1>10. Restored(XrefAttach, XrefCleanup)
  BY SMTT(60) DEF Restored
<1>11. Undone(XrefAttach, {"object", "definition"})
  BY SMTT(60) DEF Undone
<1>12. Made(XrefAttach, {"object", "definition"})
  BY SMTT(60) DEF Made
<1>13. Seen(XrefAttach, {"object", "definition"})
  BY SMTT(60) DEF Seen, Unread
<1>14. Compared(XrefAttach)
  BY SMTT(60) DEF Compared
<1>15. GoneReady(XrefAttach) /\ CommandReady(XrefAttach) /\ SameReady(XrefAttach) /\ BackReady(XrefAttach) /\ Cleanups(XrefCleanup)
  BY SMTT(60) DEF GoneReady, CommandReady, SameReady, BackReady, Cleanups, Borrowed
<1> QED BY <1>1, <1>3, <1>4, <1>5, <1>6, <1>7, <1>8, <1>9, <1>10, <1>11, <1>12, <1>13, <1>14, <1>15 DEF Sound

LEMMA UnitsIsSound == ASSUME method = "units", args \in BOOLEAN PROVE Sound(Recipe, Cleanup, Purpose)
<1> USE DEF Units, SettingsCleanup
<1>1. Recipe = Units /\ Cleanup = SettingsCleanup /\ Purpose = TheSettings
  BY DEF Recipe, Cleanup, Purpose, Reads
<1>2. /\ \A c \in Settings : Home(c) = "doc"
      /\ \A c \in Objects : Home(c) = "doc"
  BY DEF Home
<1>3. Typed(Units, SettingsCleanup)
  <2>1. Len(Units) \in 1 .. 19 /\ \A i \in 1 .. Len(Units) : StepOK(Units[i])
    BY <1>2, SMTT(60) DEF StepOK, Registers, Borrowed
  <2>2. SettingsCleanup \in Seq({SettingsCleanup[k] : k \in 1 .. Len(SettingsCleanup)})
    BY SMTT(60)
  <2>3. \A i \in 1 .. Len(SettingsCleanup) : CleanStep(SettingsCleanup[i])
    BY <1>2, SMTT(60) DEF CleanStep, Registers, Borrowed, Escapes
  <2> QED BY <2>1, <2>2, <2>3 DEF Typed
<1>4. BindsFirst(Units)
  BY SMTT(60) DEF BindsFirst
<1>5. Early(Units, TheSettings)
  BY SMTT(60) DEF Early, Reporting, Borrowed
<1>6. InPlace(Units)
  BY <1>2, SMTT(60) DEF InPlace
<1>7. Covered(Units, SettingsCleanup)
  BY <1>2, SMTT(60) DEF Covered, Covers, Borrowed
<1>8. Grounded(Units, SettingsCleanup)
  BY SMTT(60) DEF Grounded
<1>9. Remembered(Units)
  BY SMTT(60) DEF Remembered
<1>10. Restored(Units, SettingsCleanup)
  BY SMTT(60) DEF Restored
<1>11. Undone(Units, TheSettings)
  BY SMTT(60) DEF Undone
<1>12. Made(Units, TheSettings)
  BY SMTT(60) DEF Made
<1>13. Seen(Units, TheSettings)
  BY SMTT(60) DEF Seen, Unread
<1>14. Compared(Units)
  BY SMTT(60) DEF Compared
<1>15. GoneReady(Units) /\ CommandReady(Units) /\ SameReady(Units) /\ BackReady(Units) /\ Cleanups(SettingsCleanup)
  BY SMTT(60) DEF GoneReady, CommandReady, SameReady, BackReady, Cleanups, Borrowed
<1> QED BY <1>1, <1>3, <1>4, <1>5, <1>6, <1>7, <1>8, <1>9, <1>10, <1>11, <1>12, <1>13, <1>14, <1>15 DEF Sound

LEMMA LayerStateIsSound == ASSUME method = "layerState", args \in BOOLEAN PROVE Sound(Recipe, Cleanup, Purpose)
<1> USE DEF LayerState, SettingsCleanup
<1>1. Recipe = LayerState /\ Cleanup = SettingsCleanup /\ Purpose = TheSettings
  BY DEF Recipe, Cleanup, Purpose, Reads
<1>2. /\ \A c \in Settings : Home(c) = "doc"
      /\ \A c \in Objects : Home(c) = "doc"
  BY DEF Home
<1>3. Typed(LayerState, SettingsCleanup)
  <2>1. Len(LayerState) \in 1 .. 19 /\ \A i \in 1 .. Len(LayerState) : StepOK(LayerState[i])
    BY <1>2, SMTT(60) DEF StepOK, Registers, Borrowed
  <2>2. SettingsCleanup \in Seq({SettingsCleanup[k] : k \in 1 .. Len(SettingsCleanup)})
    BY SMTT(60)
  <2>3. \A i \in 1 .. Len(SettingsCleanup) : CleanStep(SettingsCleanup[i])
    BY <1>2, SMTT(60) DEF CleanStep, Registers, Borrowed, Escapes
  <2> QED BY <2>1, <2>2, <2>3 DEF Typed
<1>4. BindsFirst(LayerState)
  BY SMTT(60) DEF BindsFirst
<1>5. Early(LayerState, TheSettings)
  BY SMTT(60) DEF Early, Reporting, Borrowed
<1>6. InPlace(LayerState)
  BY <1>2, SMTT(60) DEF InPlace
<1>7. Covered(LayerState, SettingsCleanup)
  BY <1>2, SMTT(60) DEF Covered, Covers, Borrowed
<1>8. Grounded(LayerState, SettingsCleanup)
  BY SMTT(60) DEF Grounded
<1>9. Remembered(LayerState)
  BY SMTT(60) DEF Remembered
<1>10. Restored(LayerState, SettingsCleanup)
  BY SMTT(60) DEF Restored
<1>11. Undone(LayerState, TheSettings)
  BY SMTT(60) DEF Undone
<1>12. Made(LayerState, TheSettings)
  BY SMTT(60) DEF Made
<1>13. Seen(LayerState, TheSettings)
  BY SMTT(60) DEF Seen, Unread
<1>14. Compared(LayerState)
  BY SMTT(60) DEF Compared
<1>15. GoneReady(LayerState) /\ CommandReady(LayerState) /\ SameReady(LayerState) /\ BackReady(LayerState) /\ Cleanups(SettingsCleanup)
  BY SMTT(60) DEF GoneReady, CommandReady, SameReady, BackReady, Cleanups, Borrowed
<1> QED BY <1>1, <1>3, <1>4, <1>5, <1>6, <1>7, <1>8, <1>9, <1>10, <1>11, <1>12, <1>13, <1>14, <1>15 DEF Sound

LEMMA VisualStyleIsSound == ASSUME method = "visualStyle", args \in BOOLEAN PROVE Sound(Recipe, Cleanup, Purpose)
<1> USE DEF VisualStyle, StyleCleanup
<1>1. Recipe = VisualStyle /\ Cleanup = StyleCleanup /\ Purpose = {"style"}
  BY DEF Recipe, Cleanup, Purpose, Reads
<1>2. /\ \A c \in Settings : Home(c) = "doc"
      /\ \A c \in Objects : Home(c) = "doc"
  BY DEF Home
<1>3. Typed(VisualStyle, StyleCleanup)
  <2>1. Len(VisualStyle) \in 1 .. 19 /\ \A i \in 1 .. Len(VisualStyle) : StepOK(VisualStyle[i])
    BY <1>2, SMTT(60) DEF StepOK, Registers, Borrowed
  <2>2. StyleCleanup \in Seq({StyleCleanup[k] : k \in 1 .. Len(StyleCleanup)})
    BY SMTT(60)
  <2>3. \A i \in 1 .. Len(StyleCleanup) : CleanStep(StyleCleanup[i])
    BY <1>2, SMTT(60) DEF CleanStep, Registers, Borrowed, Escapes
  <2> QED BY <2>1, <2>2, <2>3 DEF Typed
<1>4. BindsFirst(VisualStyle)
  BY SMTT(60) DEF BindsFirst
<1>5. Early(VisualStyle, {"style"})
  BY SMTT(60) DEF Early, Reporting, Borrowed
<1>6. InPlace(VisualStyle)
  BY <1>2, SMTT(60) DEF InPlace
<1>7. Covered(VisualStyle, StyleCleanup)
  BY <1>2, SMTT(60) DEF Covered, Covers, Borrowed
<1>8. Grounded(VisualStyle, StyleCleanup)
  BY SMTT(60) DEF Grounded
<1>9. Remembered(VisualStyle)
  BY SMTT(60) DEF Remembered
<1>10. Restored(VisualStyle, StyleCleanup)
  BY SMTT(60) DEF Restored
<1>11. Undone(VisualStyle, {"style"})
  BY SMTT(60) DEF Undone
<1>12. Made(VisualStyle, {"style"})
  BY SMTT(60) DEF Made
<1>13. Seen(VisualStyle, {"style"})
  BY SMTT(60) DEF Seen, Unread
<1>14. Compared(VisualStyle)
  BY SMTT(60) DEF Compared
<1>15. GoneReady(VisualStyle)
  BY SMTT(60) DEF GoneReady
<1>16. CommandReady(VisualStyle)
  BY SMTT(60) DEF CommandReady
<1>17. SameReady(VisualStyle)
  BY SMTT(60) DEF SameReady
<1>18. BackReady(VisualStyle)
  BY SMTT(60) DEF BackReady, Borrowed
<1>19. Cleanups(StyleCleanup)
  BY SMTT(60) DEF Cleanups
<1> QED BY <1>1, <1>3, <1>4, <1>5, <1>6, <1>7, <1>8, <1>9, <1>10, <1>11, <1>12, <1>13, <1>14, <1>15, <1>16, <1>17, <1>18, <1>19 DEF Sound

LEMMA ExportPdfIsSound == ASSUME method = "exportPdf", args \in BOOLEAN PROVE Sound(Recipe, Cleanup, Purpose)
<1> USE DEF ExportPdf, PdfCleanup
<1>1. Recipe = ExportPdf /\ Cleanup = PdfCleanup /\ Purpose = {}
  BY DEF Recipe, Cleanup, Purpose, Reads
<1>2. /\ \A c \in Settings : Home(c) = "doc"
      /\ \A c \in Objects : Home(c) = "doc"
  BY DEF Home
<1>3. Typed(ExportPdf, PdfCleanup)
  <2>1. Len(ExportPdf) \in 1 .. 19 /\ \A i \in 1 .. Len(ExportPdf) : StepOK(ExportPdf[i])
    BY <1>2, SMTT(60) DEF StepOK, Registers, Borrowed
  <2>2. PdfCleanup \in Seq({PdfCleanup[k] : k \in 1 .. Len(PdfCleanup)})
    BY SMTT(60)
  <2>3. \A i \in 1 .. Len(PdfCleanup) : CleanStep(PdfCleanup[i])
    BY <1>2, SMTT(60) DEF CleanStep, Registers, Borrowed, Escapes
  <2> QED BY <2>1, <2>2, <2>3 DEF Typed
<1>4. BindsFirst(ExportPdf)
  BY SMTT(60) DEF BindsFirst
<1>5. Early(ExportPdf, {})
  BY SMTT(60) DEF Early, Reporting, Borrowed
<1>6. InPlace(ExportPdf)
  BY <1>2, SMTT(60) DEF InPlace
<1>7. Covered(ExportPdf, PdfCleanup)
  BY <1>2, SMTT(60) DEF Covered, Covers, Borrowed
<1>8. Grounded(ExportPdf, PdfCleanup)
  BY SMTT(60) DEF Grounded
<1>9. Remembered(ExportPdf)
  BY SMTT(60) DEF Remembered
<1>10. Restored(ExportPdf, PdfCleanup)
  BY SMTT(60) DEF Restored
<1>11. Undone(ExportPdf, {})
  BY SMTT(60) DEF Undone
<1>12. Made(ExportPdf, {})
  BY SMTT(60) DEF Made
<1>13. Seen(ExportPdf, {})
  BY SMTT(60) DEF Seen, Unread
<1>14. Compared(ExportPdf)
  BY SMTT(60) DEF Compared
<1>15. GoneReady(ExportPdf) /\ CommandReady(ExportPdf) /\ SameReady(ExportPdf) /\ Cleanups(PdfCleanup)
  BY SMTT(60) DEF GoneReady, CommandReady, SameReady, Cleanups
<1>16. BackReady(ExportPdf)
  BY SMTT(60) DEF BackReady, Borrowed
<1> QED BY <1>1, <1>3, <1>4, <1>5, <1>6, <1>7, <1>8, <1>9, <1>10, <1>11, <1>12, <1>13, <1>14, <1>15, <1>16 DEF Sound

LEMMA ViewportCreateIsSound == ASSUME method = "viewportCreate", args \in BOOLEAN PROVE Sound(Recipe, Cleanup, Purpose)
<1> USE DEF ViewportCreate, ViewportCleanup
<1>1. Recipe = ViewportCreate /\ Cleanup = ViewportCleanup /\ Purpose = {"viewport"}
  BY DEF Recipe, Cleanup, Purpose, Reads
<1>2. /\ \A c \in Settings : Home(c) = "doc"
      /\ \A c \in Objects : Home(c) = "doc"
  BY DEF Home
<1>3. Typed(ViewportCreate, ViewportCleanup)
  <2>1. Len(ViewportCreate) \in 1 .. 19 /\ \A i \in 1 .. Len(ViewportCreate) : StepOK(ViewportCreate[i])
    BY <1>2, SMTT(60) DEF StepOK, Registers, Borrowed
  <2>2. ViewportCleanup \in Seq({ViewportCleanup[k] : k \in 1 .. Len(ViewportCleanup)})
    BY SMTT(60)
  <2>3. \A i \in 1 .. Len(ViewportCleanup) : CleanStep(ViewportCleanup[i])
    BY <1>2, SMTT(60) DEF CleanStep, Registers, Borrowed, Escapes
  <2> QED BY <2>1, <2>2, <2>3 DEF Typed
<1>4. BindsFirst(ViewportCreate)
  BY SMTT(60) DEF BindsFirst
<1>5. Early(ViewportCreate, {"viewport"})
  BY SMTT(60) DEF Early, Reporting, Borrowed
<1>6. InPlace(ViewportCreate)
  BY <1>2, SMTT(60) DEF InPlace
<1>7. Covered(ViewportCreate, ViewportCleanup)
  BY <1>2, SMTT(60) DEF Covered, Covers, Borrowed
<1>8. Grounded(ViewportCreate, ViewportCleanup)
  BY SMTT(60) DEF Grounded
<1>9. Remembered(ViewportCreate)
  BY SMTT(60) DEF Remembered
<1>10. Restored(ViewportCreate, ViewportCleanup)
  BY SMTT(60) DEF Restored
<1>11. Undone(ViewportCreate, {"viewport"})
  BY SMTT(60) DEF Undone
<1>12. Made(ViewportCreate, {"viewport"})
  BY SMTT(60) DEF Made
<1>13. Seen(ViewportCreate, {"viewport"})
  BY SMTT(60) DEF Seen, Unread
<1>14. Compared(ViewportCreate)
  BY SMTT(60) DEF Compared
<1>15. GoneReady(ViewportCreate) /\ CommandReady(ViewportCreate) /\ SameReady(ViewportCreate) /\ Cleanups(ViewportCleanup)
  BY SMTT(60) DEF GoneReady, CommandReady, SameReady, Cleanups
<1>16. BackReady(ViewportCreate)
  BY SMTT(60) DEF BackReady, Borrowed
<1> QED BY <1>1, <1>3, <1>4, <1>5, <1>6, <1>7, <1>8, <1>9, <1>10, <1>11, <1>12, <1>13, <1>14, <1>15, <1>16 DEF Sound

LEMMA ViewportDeleteIsSound == ASSUME method = "viewportDelete", args \in BOOLEAN PROVE Sound(Recipe, Cleanup, Purpose)
<1> USE DEF ViewportDelete
<1>1. Recipe = ViewportDelete /\ Cleanup = <<>> /\ Purpose = {}
  BY DEF Recipe, Cleanup, Purpose, Reads
<1>2. /\ \A c \in Settings : Home(c) = "doc"
      /\ \A c \in Objects : Home(c) = "doc"
  BY DEF Home
<1>3. Typed(ViewportDelete, <<>>)
  <2>1. Len(ViewportDelete) \in 1 .. 19 /\ \A i \in 1 .. Len(ViewportDelete) : StepOK(ViewportDelete[i])
    BY <1>2, SMTT(60) DEF StepOK, Registers, Borrowed
  <2> QED BY <2>1 DEF Typed
<1>4. BindsFirst(ViewportDelete)
  BY SMTT(60) DEF BindsFirst
<1>5. Early(ViewportDelete, {})
  BY SMTT(60) DEF Early, Reporting, Borrowed
<1>6. InPlace(ViewportDelete)
  BY <1>2, SMTT(60) DEF InPlace
<1>7. Covered(ViewportDelete, <<>>)
  BY <1>2, SMTT(60) DEF Covered, Covers, Borrowed
<1>8. Grounded(ViewportDelete, <<>>)
  BY SMTT(60) DEF Grounded
<1>9. Remembered(ViewportDelete)
  BY SMTT(60) DEF Remembered
<1>10. Restored(ViewportDelete, <<>>)
  BY SMTT(60) DEF Restored
<1>11. Undone(ViewportDelete, {})
  BY SMTT(60) DEF Undone
<1>12. Made(ViewportDelete, {})
  BY SMTT(60) DEF Made
<1>13. Seen(ViewportDelete, {})
  BY SMTT(60) DEF Seen, Unread
<1>14. Compared(ViewportDelete)
  BY SMTT(60) DEF Compared
<1>15. GoneReady(ViewportDelete) /\ CommandReady(ViewportDelete) /\ SameReady(ViewportDelete) /\ BackReady(ViewportDelete) /\ Cleanups(<<>>)
  BY SMTT(60) DEF GoneReady, CommandReady, SameReady, BackReady, Cleanups, Borrowed
<1> QED BY <1>1, <1>3, <1>4, <1>5, <1>6, <1>7, <1>8, <1>9, <1>10, <1>11, <1>12, <1>13, <1>14, <1>15 DEF Sound

LEMMA ViewportForceIsSound == ASSUME method = "viewportForce", args \in BOOLEAN PROVE Sound(Recipe, Cleanup, Purpose)
<1> USE DEF ViewportDelete
<1>1. Recipe = ViewportDelete /\ Cleanup = <<>> /\ Purpose = {}
  BY DEF Recipe, Cleanup, Purpose, Reads
<1>2. /\ \A c \in Settings : Home(c) = "doc"
      /\ \A c \in Objects : Home(c) = "doc"
  BY DEF Home
<1>3. Typed(ViewportDelete, <<>>)
  <2>1. Len(ViewportDelete) \in 1 .. 19 /\ \A i \in 1 .. Len(ViewportDelete) : StepOK(ViewportDelete[i])
    BY <1>2, SMTT(60) DEF StepOK, Registers, Borrowed
  <2> QED BY <2>1 DEF Typed
<1>4. BindsFirst(ViewportDelete)
  BY SMTT(60) DEF BindsFirst
<1>5. Early(ViewportDelete, {})
  BY SMTT(60) DEF Early, Reporting, Borrowed
<1>6. InPlace(ViewportDelete)
  BY <1>2, SMTT(60) DEF InPlace
<1>7. Covered(ViewportDelete, <<>>)
  BY <1>2, SMTT(60) DEF Covered, Covers, Borrowed
<1>8. Grounded(ViewportDelete, <<>>)
  BY SMTT(60) DEF Grounded
<1>9. Remembered(ViewportDelete)
  BY SMTT(60) DEF Remembered
<1>10. Restored(ViewportDelete, <<>>)
  BY SMTT(60) DEF Restored
<1>11. Undone(ViewportDelete, {})
  BY SMTT(60) DEF Undone
<1>12. Made(ViewportDelete, {})
  BY SMTT(60) DEF Made
<1>13. Seen(ViewportDelete, {})
  BY SMTT(60) DEF Seen, Unread
<1>14. Compared(ViewportDelete)
  BY SMTT(60) DEF Compared
<1>15. GoneReady(ViewportDelete) /\ CommandReady(ViewportDelete) /\ SameReady(ViewportDelete) /\ BackReady(ViewportDelete) /\ Cleanups(<<>>)
  BY SMTT(60) DEF GoneReady, CommandReady, SameReady, BackReady, Cleanups, Borrowed
<1> QED BY <1>1, <1>3, <1>4, <1>5, <1>6, <1>7, <1>8, <1>9, <1>10, <1>11, <1>12, <1>13, <1>14, <1>15 DEF Sound

LEMMA SaveIsSound == ASSUME method = "save", args \in BOOLEAN PROVE Sound(Recipe, Cleanup, Purpose)
<1> USE DEF Save
<1>1. Recipe = Save /\ Cleanup = <<>> /\ Purpose = {"file"}
  BY DEF Recipe, Cleanup, Purpose, Reads
<1>2. /\ \A c \in Settings : Home(c) = "doc"
      /\ \A c \in Objects : Home(c) = "doc"
  BY DEF Home
<1>3. Typed(Save, <<>>)
  <2>1. Len(Save) \in 1 .. 19 /\ \A i \in 1 .. Len(Save) : StepOK(Save[i])
    <3>1. StepOK(Save[1])
      BY <1>2, SMTT(60) DEF StepOK, Registers, Borrowed
    <3>2. StepOK(Save[2])
      BY <1>2, SMTT(60) DEF StepOK, Registers, Borrowed
    <3>3. StepOK(Save[3])
      BY <1>2, SMTT(60) DEF StepOK, Registers, Borrowed
    <3>4. StepOK(Save[4])
      BY <1>2, SMTT(60) DEF StepOK, Registers, Borrowed
    <3>5. StepOK(Save[5])
      BY <1>2, SMTT(60) DEF StepOK, Registers, Borrowed
    <3>6. StepOK(Save[6])
      BY <1>2, SMTT(60) DEF StepOK, Registers, Borrowed
    <3>7. Len(Save) = 6
      OBVIOUS
    <3> HIDE DEF Save
    <3> QED BY <3>1, <3>2, <3>3, <3>4, <3>5, <3>6, <3>7
  <2>2. /\ <<>> \in Seq({<<>>[k] : k \in 1 .. Len(<<>>)})
        /\ \A j \in 1 .. Len(<<>>) : CleanStep(<<>>[j])
    OBVIOUS
  <2> HIDE DEF Save
  <2> QED BY <2>1, <2>2 DEF Typed
<1>4. BindsFirst(Save)
  BY SMTT(60) DEF BindsFirst
<1>5. Early(Save, {"file"})
  BY SMTT(60) DEF Early, Reporting, Borrowed
<1>6. InPlace(Save)
  BY <1>2, SMTT(60) DEF InPlace
<1>7. Covered(Save, <<>>)
  BY <1>2, SMTT(60) DEF Covered, Covers, Borrowed
<1>8. Grounded(Save, <<>>)
  BY SMTT(60) DEF Grounded
<1>9. Remembered(Save)
  BY SMTT(60) DEF Remembered
<1>10. Restored(Save, <<>>)
  BY SMTT(60) DEF Restored
<1>11. Undone(Save, {"file"})
  BY SMTT(60) DEF Undone
<1>12. Made(Save, {"file"})
  BY SMTT(60) DEF Made
<1>13. Seen(Save, {"file"})
  BY SMTT(60) DEF Seen, Unread
<1>14. Compared(Save)
  BY SMTT(60) DEF Compared
<1>15. GoneReady(Save) /\ CommandReady(Save) /\ SameReady(Save) /\ BackReady(Save) /\ Cleanups(<<>>)
  BY SMTT(60) DEF GoneReady, CommandReady, SameReady, BackReady, Cleanups, Borrowed
<1> QED BY <1>1, <1>3, <1>4, <1>5, <1>6, <1>7, <1>8, <1>9, <1>10, <1>11, <1>12, <1>13, <1>14, <1>15 DEF Sound

LEMMA BooleanIsSound == ASSUME method = "boolean", args \in BOOLEAN PROVE Sound(Recipe, Cleanup, Purpose)
<1> USE DEF Boolean
<1>1. Recipe = Boolean /\ Cleanup = <<>> /\ Purpose = {"p1"}
  BY DEF Recipe, Cleanup, Purpose, Reads
<1>2. /\ \A c \in Settings : Home(c) = "source"
      /\ \A c \in Objects : Home(c) = "doc"
  BY DEF Home
<1>3. Typed(Boolean, <<>>)
  <2>1. Len(Boolean) \in 1 .. 19 /\ \A i \in 1 .. Len(Boolean) : StepOK(Boolean[i])
    BY <1>2, SMTT(60) DEF StepOK, Registers, Borrowed
  <2> QED BY <2>1 DEF Typed
<1>4. BindsFirst(Boolean)
  BY SMTT(60) DEF BindsFirst
<1>5. Early(Boolean, {"p1"})
  BY SMTT(60) DEF Early, Reporting, Borrowed
<1>6. InPlace(Boolean)
  BY <1>2, SMTT(60) DEF InPlace
<1>7. Covered(Boolean, <<>>)
  BY <1>2, SMTT(60) DEF Covered, Covers, Borrowed
<1>8. Grounded(Boolean, <<>>)
  BY SMTT(60) DEF Grounded
<1>9. Remembered(Boolean)
  BY SMTT(60) DEF Remembered
<1>10. Restored(Boolean, <<>>)
  BY SMTT(60) DEF Restored
<1>11. Undone(Boolean, {"p1"})
  BY SMTT(60) DEF Undone
<1>12. Made(Boolean, {"p1"})
  BY SMTT(60) DEF Made
<1>13. Seen(Boolean, {"p1"})
  BY SMTT(60) DEF Seen, Unread
<1>14. Compared(Boolean)
  BY SMTT(60) DEF Compared
<1>15. GoneReady(Boolean) /\ CommandReady(Boolean) /\ SameReady(Boolean) /\ BackReady(Boolean) /\ Cleanups(<<>>)
  BY SMTT(60) DEF GoneReady, CommandReady, SameReady, BackReady, Cleanups, Borrowed
<1> QED BY <1>1, <1>3, <1>4, <1>5, <1>6, <1>7, <1>8, <1>9, <1>10, <1>11, <1>12, <1>13, <1>14, <1>15 DEF Sound

LEMMA XrefLoadIsSound == ASSUME method = "xrefLoad", args \in BOOLEAN PROVE Sound(Recipe, Cleanup, Purpose)
<1> USE DEF XrefLoad
<1>1. Recipe = XrefLoad /\ Cleanup = <<>> /\ Purpose = {"p1"}
  BY DEF Recipe, Cleanup, Purpose, Reads
<1>2. /\ \A c \in Settings : Home(c) = "source"
      /\ \A c \in Objects : Home(c) = "doc"
  BY DEF Home
<1>3. Typed(XrefLoad, <<>>)
  <2>1. Len(XrefLoad) \in 1 .. 19 /\ \A i \in 1 .. Len(XrefLoad) : StepOK(XrefLoad[i])
    BY <1>2, SMTT(60) DEF StepOK, Registers, Borrowed
  <2> QED BY <2>1 DEF Typed
<1>4. BindsFirst(XrefLoad)
  BY SMTT(60) DEF BindsFirst
<1>5. Early(XrefLoad, {"p1"})
  BY SMTT(60) DEF Early, Reporting, Borrowed
<1>6. InPlace(XrefLoad)
  BY <1>2, SMTT(60) DEF InPlace
<1>7. Covered(XrefLoad, <<>>)
  BY <1>2, SMTT(60) DEF Covered, Covers, Borrowed
<1>8. Grounded(XrefLoad, <<>>)
  BY SMTT(60) DEF Grounded
<1>9. Remembered(XrefLoad)
  BY SMTT(60) DEF Remembered
<1>10. Restored(XrefLoad, <<>>)
  BY SMTT(60) DEF Restored
<1>11. Undone(XrefLoad, {"p1"})
  BY SMTT(60) DEF Undone
<1>12. Made(XrefLoad, {"p1"})
  BY SMTT(60) DEF Made
<1>13. Seen(XrefLoad, {"p1"})
  BY SMTT(60) DEF Seen, Unread
<1>14. Compared(XrefLoad)
  BY SMTT(60) DEF Compared
<1>15. GoneReady(XrefLoad) /\ CommandReady(XrefLoad) /\ SameReady(XrefLoad) /\ BackReady(XrefLoad) /\ Cleanups(<<>>)
  BY SMTT(60) DEF GoneReady, CommandReady, SameReady, BackReady, Cleanups, Borrowed
<1> QED BY <1>1, <1>3, <1>4, <1>5, <1>6, <1>7, <1>8, <1>9, <1>10, <1>11, <1>12, <1>13, <1>14, <1>15 DEF Sound

LEMMA SetPropertiesIsSound == ASSUME method = "setProperties", args \in BOOLEAN PROVE Sound(Recipe, Cleanup, Purpose)
<1> USE DEF SetProperties
<1>1. Recipe = SetProperties /\ Cleanup = <<>> /\ Purpose = (IF args THEN {"p1", "p2"} ELSE {"p1"})
  BY DEF Recipe, Cleanup, Purpose, Reads
<1>2. /\ \A c \in Settings : Home(c) = "source"
      /\ \A c \in Objects : Home(c) = "doc"
  BY DEF Home
<1>3. Typed(SetProperties, <<>>)
  <2>1. Len(SetProperties) \in 1 .. 19 /\ \A i \in 1 .. Len(SetProperties) : StepOK(SetProperties[i])
    BY <1>2, SMTT(60) DEF StepOK, Registers, Borrowed
  <2> QED BY <2>1 DEF Typed
<1>4. BindsFirst(SetProperties)
  BY SMTT(60) DEF BindsFirst
<1>5. Early(SetProperties, (IF args THEN {"p1", "p2"} ELSE {"p1"}))
  BY SMTT(60) DEF Early, Reporting, Borrowed
<1>6. InPlace(SetProperties)
  BY <1>2, SMTT(60) DEF InPlace
<1>7. Covered(SetProperties, <<>>)
  BY <1>2, SMTT(60) DEF Covered, Covers, Borrowed
<1>8. Grounded(SetProperties, <<>>)
  BY SMTT(60) DEF Grounded
<1>9. Remembered(SetProperties)
  BY SMTT(60) DEF Remembered
<1>10. Restored(SetProperties, <<>>)
  BY SMTT(60) DEF Restored
<1>11. Undone(SetProperties, (IF args THEN {"p1", "p2"} ELSE {"p1"}))
  BY SMTT(60) DEF Undone
<1>12. Made(SetProperties, (IF args THEN {"p1", "p2"} ELSE {"p1"}))
  BY SMTT(60) DEF Made
<1>13. Seen(SetProperties, (IF args THEN {"p1", "p2"} ELSE {"p1"}))
  BY SMTT(60) DEF Seen, Unread
<1>14. Compared(SetProperties)
  BY SMTT(60) DEF Compared
<1>15. GoneReady(SetProperties) /\ CommandReady(SetProperties) /\ SameReady(SetProperties) /\ BackReady(SetProperties) /\ Cleanups(<<>>)
  BY SMTT(60) DEF GoneReady, CommandReady, SameReady, BackReady, Cleanups, Borrowed
<1> QED BY <1>1, <1>3, <1>4, <1>5, <1>6, <1>7, <1>8, <1>9, <1>10, <1>11, <1>12, <1>13, <1>14, <1>15 DEF Sound

LEMMA TransformIsSound == ASSUME method = "transform", args \in BOOLEAN PROVE Sound(Recipe, Cleanup, Purpose)
<1> USE DEF Transform
<1>1. Recipe = Transform /\ Cleanup = <<>> /\ Purpose = {"p1"}
  BY DEF Recipe, Cleanup, Purpose, Reads
<1>2. /\ \A c \in Settings : Home(c) = "source"
      /\ \A c \in Objects : Home(c) = "doc"
  BY DEF Home
<1>3. Typed(Transform, <<>>)
  <2>1. Len(Transform) \in 1 .. 19 /\ \A i \in 1 .. Len(Transform) : StepOK(Transform[i])
    BY <1>2, SMTT(60) DEF StepOK, Registers, Borrowed
  <2> QED BY <2>1 DEF Typed
<1>4. BindsFirst(Transform) /\ Early(Transform, {"p1"})
  BY SMTT(60) DEF BindsFirst, Early, Reporting, Borrowed
<1>5. InPlace(Transform)
  BY <1>2, SMTT(60) DEF InPlace
<1>6. Covered(Transform, <<>>)
  BY <1>2, SMTT(60) DEF Covered, Covers, Borrowed
<1>7. Grounded(Transform, <<>>)
  BY SMTT(60) DEF Grounded
<1>8. Remembered(Transform) /\ Restored(Transform, <<>>)
  BY SMTT(60) DEF Remembered, Restored
<1>9. Undone(Transform, {"p1"}) /\ Made(Transform, {"p1"}) /\ Seen(Transform, {"p1"}) /\ Compared(Transform)
  BY SMTT(60) DEF Undone, Made, Seen, Compared, Unread
<1>10. GoneReady(Transform) /\ CommandReady(Transform) /\ SameReady(Transform) /\ BackReady(Transform) /\ Cleanups(<<>>)
  BY SMTT(60) DEF GoneReady, CommandReady, SameReady, BackReady, Cleanups, Borrowed
<1> QED BY <1>1, <1>3, <1>4, <1>5, <1>6, <1>7, <1>8, <1>9, <1>10 DEF Sound

LEMMA SolidTransformIsSound == ASSUME method = "solidTransform", args \in BOOLEAN PROVE Sound(Recipe, Cleanup, Purpose)
<1> USE DEF SolidTransform
<1>1. Recipe = SolidTransform /\ Cleanup = <<>> /\ Purpose = {"p1"}
  BY DEF Recipe, Cleanup, Purpose, Reads
<1>2. /\ \A c \in Settings : Home(c) = "source"
      /\ \A c \in Objects : Home(c) = "doc"
  BY DEF Home
<1>3. Typed(SolidTransform, <<>>)
  <2>1. Len(SolidTransform) \in 1 .. 19 /\ \A i \in 1 .. Len(SolidTransform) : StepOK(SolidTransform[i])
    BY <1>2, SMTT(60) DEF StepOK, Registers, Borrowed
  <2> QED BY <2>1 DEF Typed
<1>4. BindsFirst(SolidTransform) /\ Early(SolidTransform, {"p1"})
  BY SMTT(60) DEF BindsFirst, Early, Reporting, Borrowed
<1>5. InPlace(SolidTransform)
  BY <1>2, SMTT(60) DEF InPlace
<1>6. Covered(SolidTransform, <<>>)
  BY <1>2, SMTT(60) DEF Covered, Covers, Borrowed
<1>7. Grounded(SolidTransform, <<>>)
  BY SMTT(60) DEF Grounded
<1>8. Remembered(SolidTransform) /\ Restored(SolidTransform, <<>>)
  BY SMTT(60) DEF Remembered, Restored
<1>9. Undone(SolidTransform, {"p1"}) /\ Made(SolidTransform, {"p1"}) /\ Seen(SolidTransform, {"p1"}) /\ Compared(SolidTransform)
  BY SMTT(60) DEF Undone, Made, Seen, Compared, Unread
<1>10. GoneReady(SolidTransform) /\ CommandReady(SolidTransform) /\ SameReady(SolidTransform) /\ BackReady(SolidTransform) /\ Cleanups(<<>>)
  BY SMTT(60) DEF GoneReady, CommandReady, SameReady, BackReady, Cleanups, Borrowed
<1> QED BY <1>1, <1>3, <1>4, <1>5, <1>6, <1>7, <1>8, <1>9, <1>10 DEF Sound

LEMMA ViewportSetIsSound == ASSUME method = "viewportSet", args \in BOOLEAN PROVE Sound(Recipe, Cleanup, Purpose)
<1> USE DEF ViewportSet
<1>1. Recipe = ViewportSet /\ Cleanup = <<>> /\ Purpose = {"p1"}
  BY DEF Recipe, Cleanup, Purpose, Reads
<1>2. /\ \A c \in Settings : Home(c) = "doc"
      /\ \A c \in Objects : Home(c) = "doc"
  BY DEF Home
<1>3. Typed(ViewportSet, <<>>)
  <2>1. Len(ViewportSet) \in 1 .. 19 /\ \A i \in 1 .. Len(ViewportSet) : StepOK(ViewportSet[i])
    BY <1>2, SMTT(60) DEF StepOK, Registers, Borrowed
  <2> QED BY <2>1 DEF Typed
<1>4. BindsFirst(ViewportSet) /\ Early(ViewportSet, {"p1"})
  BY SMTT(60) DEF BindsFirst, Early, Reporting, Borrowed
<1>5. InPlace(ViewportSet)
  BY <1>2, SMTT(60) DEF InPlace
<1>6. Covered(ViewportSet, <<>>)
  BY <1>2, SMTT(60) DEF Covered, Covers, Borrowed
<1>7. Grounded(ViewportSet, <<>>)
  BY SMTT(60) DEF Grounded
<1>8. Remembered(ViewportSet) /\ Restored(ViewportSet, <<>>)
  BY SMTT(60) DEF Remembered, Restored
<1>9. Undone(ViewportSet, {"p1"}) /\ Made(ViewportSet, {"p1"}) /\ Seen(ViewportSet, {"p1"}) /\ Compared(ViewportSet)
  BY SMTT(60) DEF Undone, Made, Seen, Compared, Unread
<1>10. GoneReady(ViewportSet) /\ CommandReady(ViewportSet) /\ SameReady(ViewportSet) /\ BackReady(ViewportSet) /\ Cleanups(<<>>)
  BY SMTT(60) DEF GoneReady, CommandReady, SameReady, BackReady, Cleanups, Borrowed
<1> QED BY <1>1, <1>3, <1>4, <1>5, <1>6, <1>7, <1>8, <1>9, <1>10 DEF Sound

LEMMA SetCurrentIsSound == ASSUME method = "setCurrent", args \in BOOLEAN PROVE Sound(Recipe, Cleanup, Purpose)
<1> USE DEF SetCurrent
<1>1. Recipe = SetCurrent /\ Cleanup = <<>> /\ Purpose = {"p1"}
  BY DEF Recipe, Cleanup, Purpose, Reads
<1>2. /\ \A c \in Settings : Home(c) = "doc"
      /\ \A c \in Objects : Home(c) = "doc"
  BY DEF Home
<1>3. Typed(SetCurrent, <<>>)
  <2>1. Len(SetCurrent) \in 1 .. 19 /\ \A i \in 1 .. Len(SetCurrent) : StepOK(SetCurrent[i])
    BY <1>2, SMTT(60) DEF StepOK, Registers, Borrowed
  <2> QED BY <2>1 DEF Typed
<1>4. BindsFirst(SetCurrent) /\ Early(SetCurrent, {"p1"})
  BY SMTT(60) DEF BindsFirst, Early, Reporting, Borrowed
<1>5. InPlace(SetCurrent)
  BY <1>2, SMTT(60) DEF InPlace
<1>6. Covered(SetCurrent, <<>>)
  BY <1>2, SMTT(60) DEF Covered, Covers, Borrowed
<1>7. Grounded(SetCurrent, <<>>)
  BY SMTT(60) DEF Grounded
<1>8. Remembered(SetCurrent) /\ Restored(SetCurrent, <<>>)
  BY SMTT(60) DEF Remembered, Restored
<1>9. Undone(SetCurrent, {"p1"}) /\ Made(SetCurrent, {"p1"}) /\ Seen(SetCurrent, {"p1"}) /\ Compared(SetCurrent)
  BY SMTT(60) DEF Undone, Made, Seen, Compared, Unread
<1>10. GoneReady(SetCurrent) /\ CommandReady(SetCurrent) /\ SameReady(SetCurrent) /\ BackReady(SetCurrent) /\ Cleanups(<<>>)
  BY SMTT(60) DEF GoneReady, CommandReady, SameReady, BackReady, Cleanups, Borrowed
<1> QED BY <1>1, <1>3, <1>4, <1>5, <1>6, <1>7, <1>8, <1>9, <1>10 DEF Sound

LEMMA DirectionIsSound == ASSUME method = "direction", args \in BOOLEAN PROVE Sound(Recipe, Cleanup, Purpose)
<1> USE DEF Direction
<1>1. Recipe = Direction /\ Cleanup = <<>> /\ Purpose = {"p1", "p2"}
  BY DEF Recipe, Cleanup, Purpose, Reads
<1>2. /\ \A c \in Settings : Home(c) = "doc"
      /\ \A c \in Objects : Home(c) = "doc"
  BY DEF Home
<1>3. Typed(Direction, <<>>)
  <2>1. Len(Direction) \in 1 .. 19 /\ \A i \in 1 .. Len(Direction) : StepOK(Direction[i])
    BY <1>2, SMTT(60) DEF StepOK, Registers, Borrowed
  <2> QED BY <2>1 DEF Typed
<1>4. BindsFirst(Direction)
  BY SMTT(60) DEF BindsFirst
<1>5. Early(Direction, {"p1", "p2"})
  BY SMTT(60) DEF Early, Reporting, Borrowed
<1>6. InPlace(Direction)
  BY <1>2, SMTT(60) DEF InPlace
<1>7. Covered(Direction, <<>>)
  BY <1>2, SMTT(60) DEF Covered, Covers, Borrowed
<1>8. Grounded(Direction, <<>>)
  BY SMTT(60) DEF Grounded
<1>9. Remembered(Direction)
  BY SMTT(60) DEF Remembered
<1>10. Restored(Direction, <<>>)
  BY SMTT(60) DEF Restored
<1>11. Undone(Direction, {"p1", "p2"})
  BY SMTT(60) DEF Undone
<1>12. Made(Direction, {"p1", "p2"})
  BY SMTT(60) DEF Made
<1>13. Seen(Direction, {"p1", "p2"})
  BY SMTT(60) DEF Seen, Unread
<1>14. Compared(Direction)
  BY SMTT(60) DEF Compared
<1>15. GoneReady(Direction) /\ CommandReady(Direction) /\ SameReady(Direction) /\ BackReady(Direction) /\ Cleanups(<<>>)
  BY SMTT(60) DEF GoneReady, CommandReady, SameReady, BackReady, Cleanups, Borrowed
<1> QED BY <1>1, <1>3, <1>4, <1>5, <1>6, <1>7, <1>8, <1>9, <1>10, <1>11, <1>12, <1>13, <1>14, <1>15 DEF Sound

LEMMA OpenIsSound == ASSUME method = "open", args \in BOOLEAN PROVE Sound(Recipe, Cleanup, Purpose)
<1> USE DEF Open
<1>1. Recipe = Open /\ Cleanup = <<>> /\ Purpose = {}
  BY DEF Recipe, Cleanup, Purpose, Reads
<1>2. /\ \A c \in Settings : Home(c) = "doc"
      /\ \A c \in Objects : Home(c) = "doc"
  BY DEF Home
<1>3. Typed(Open, <<>>)
  <2>1. Len(Open) \in 1 .. 19 /\ \A i \in 1 .. Len(Open) : StepOK(Open[i])
    BY <1>2, SMTT(60) DEF StepOK, Registers, Borrowed
  <2> QED BY <2>1 DEF Typed
<1>4. BindsFirst(Open) /\ Early(Open, {})
  BY SMTT(60) DEF BindsFirst, Early, Reporting, Borrowed
<1>5. InPlace(Open)
  BY <1>2, SMTT(60) DEF InPlace
<1>6. Covered(Open, <<>>)
  BY <1>2, SMTT(60) DEF Covered, Covers, Borrowed
<1>7. Grounded(Open, <<>>)
  BY SMTT(60) DEF Grounded
<1>8. Remembered(Open) /\ Restored(Open, <<>>)
  BY SMTT(60) DEF Remembered, Restored
<1>9. Undone(Open, {}) /\ Made(Open, {}) /\ Seen(Open, {}) /\ Compared(Open)
  BY SMTT(60) DEF Undone, Made, Seen, Compared, Unread
<1>10. GoneReady(Open) /\ CommandReady(Open) /\ SameReady(Open) /\ BackReady(Open) /\ Cleanups(<<>>)
  BY SMTT(60) DEF GoneReady, CommandReady, SameReady, BackReady, Cleanups, Borrowed
<1> QED BY <1>1, <1>3, <1>4, <1>5, <1>6, <1>7, <1>8, <1>9, <1>10 DEF Sound

LEMMA UnverifiedIsSound == ASSUME method = "unverified", args \in BOOLEAN PROVE Sound(Recipe, Cleanup, Purpose)
<1> USE DEF Unverified
<1>1. Recipe = Unverified /\ Cleanup = <<>> /\ Purpose = {"p1"}
  BY DEF Recipe, Cleanup, Purpose, Reads
<1>2. /\ \A c \in Settings : Home(c) = "source"
      /\ \A c \in Objects : Home(c) = "doc"
  BY DEF Home
<1>3. Typed(Unverified, <<>>)
  <2>1. Len(Unverified) \in 1 .. 19 /\ \A i \in 1 .. Len(Unverified) : StepOK(Unverified[i])
    BY <1>2, SMTT(60) DEF StepOK, Registers, Borrowed
  <2> QED BY <2>1 DEF Typed
<1>4. BindsFirst(Unverified) /\ Early(Unverified, {"p1"})
  BY SMTT(60) DEF BindsFirst, Early, Reporting, Borrowed
<1>5. InPlace(Unverified)
  BY <1>2, SMTT(60) DEF InPlace
<1>6. Covered(Unverified, <<>>)
  BY <1>2, SMTT(60) DEF Covered, Covers, Borrowed
<1>7. Grounded(Unverified, <<>>)
  BY SMTT(60) DEF Grounded
<1>8. Remembered(Unverified) /\ Restored(Unverified, <<>>)
  BY SMTT(60) DEF Remembered, Restored
<1>9. Undone(Unverified, {"p1"}) /\ Made(Unverified, {"p1"}) /\ Seen(Unverified, {"p1"}) /\ Compared(Unverified)
  BY SMTT(60) DEF Undone, Made, Seen, Compared, Unread
<1>10. GoneReady(Unverified) /\ CommandReady(Unverified) /\ SameReady(Unverified) /\ BackReady(Unverified) /\ Cleanups(<<>>)
  BY SMTT(60) DEF GoneReady, CommandReady, SameReady, BackReady, Cleanups, Borrowed
<1> QED BY <1>1, <1>3, <1>4, <1>5, <1>6, <1>7, <1>8, <1>9, <1>10 DEF Sound

LEMMA XrefDetachIsSound == ASSUME method = "xrefDetach", args \in BOOLEAN PROVE Sound(Recipe, Cleanup, Purpose)
<1> USE DEF XrefDetach
<1>1. Recipe = XrefDetach /\ Cleanup = <<>> /\ Purpose = {"p1"}
  BY DEF Recipe, Cleanup, Purpose, Reads
<1>2. /\ \A c \in Settings : Home(c) = "source"
      /\ \A c \in Objects : Home(c) = "doc"
  BY DEF Home
<1>3. Typed(XrefDetach, <<>>)
  <2>1. Len(XrefDetach) \in 1 .. 19 /\ \A i \in 1 .. Len(XrefDetach) : StepOK(XrefDetach[i])
    BY <1>2, SMTT(60) DEF StepOK, Registers, Borrowed
  <2> QED BY <2>1 DEF Typed
<1>4. BindsFirst(XrefDetach)
  BY SMTT(60) DEF BindsFirst
<1>5. Early(XrefDetach, {"p1"})
  BY SMTT(60) DEF Early, Reporting, Borrowed
<1>6. InPlace(XrefDetach)
  BY <1>2, SMTT(60) DEF InPlace
<1>7. Covered(XrefDetach, <<>>)
  BY <1>2, SMTT(60) DEF Covered, Covers, Borrowed
<1>8. Grounded(XrefDetach, <<>>)
  BY SMTT(60) DEF Grounded
<1>9. Remembered(XrefDetach)
  BY SMTT(60) DEF Remembered
<1>10. Restored(XrefDetach, <<>>)
  BY SMTT(60) DEF Restored
<1>11. Undone(XrefDetach, {"p1"})
  BY SMTT(60) DEF Undone
<1>12. Made(XrefDetach, {"p1"})
  BY SMTT(60) DEF Made
<1>13. Seen(XrefDetach, {"p1"})
  BY SMTT(60) DEF Seen, Unread
<1>14. Compared(XrefDetach)
  BY SMTT(60) DEF Compared
<1>15. GoneReady(XrefDetach) /\ CommandReady(XrefDetach) /\ SameReady(XrefDetach) /\ BackReady(XrefDetach) /\ Cleanups(<<>>)
  BY SMTT(60) DEF GoneReady, CommandReady, SameReady, BackReady, Cleanups, Borrowed
<1> QED BY <1>1, <1>3, <1>4, <1>5, <1>6, <1>7, <1>8, <1>9, <1>10, <1>11, <1>12, <1>13, <1>14, <1>15 DEF Sound

LEMMA ReadIsSound == ASSUME method = "read", args \in BOOLEAN PROVE Sound(Recipe, Cleanup, Purpose)
<1> USE DEF Read
<1>1. Recipe = Read /\ Cleanup = <<>> /\ Purpose = {}
  BY DEF Recipe, Cleanup, Purpose, Reads
<1>2. /\ \A c \in Settings : Home(c) = "doc"
      /\ \A c \in Objects : Home(c) = "doc"
  BY DEF Home
<1>3. Typed(Read, <<>>)
  <2>1. Len(Read) \in 1 .. 19 /\ \A i \in 1 .. Len(Read) : StepOK(Read[i])
    BY <1>2, SMTT(60) DEF StepOK, Registers, Borrowed
  <2> QED BY <2>1 DEF Typed
<1>4. BindsFirst(Read) /\ Early(Read, {})
  BY SMTT(60) DEF BindsFirst, Early, Reporting, Borrowed
<1>5. InPlace(Read)
  BY <1>2, SMTT(60) DEF InPlace
<1>6. Covered(Read, <<>>)
  BY <1>2, SMTT(60) DEF Covered, Covers, Borrowed
<1>7. Grounded(Read, <<>>)
  BY SMTT(60) DEF Grounded
<1>8. Remembered(Read) /\ Restored(Read, <<>>)
  BY SMTT(60) DEF Remembered, Restored
<1>9. Undone(Read, {}) /\ Made(Read, {}) /\ Seen(Read, {}) /\ Compared(Read)
  BY SMTT(60) DEF Undone, Made, Seen, Compared, Unread
<1>10. GoneReady(Read) /\ CommandReady(Read) /\ SameReady(Read) /\ BackReady(Read) /\ Cleanups(<<>>)
  BY SMTT(60) DEF GoneReady, CommandReady, SameReady, BackReady, Cleanups, Borrowed
<1> QED BY <1>1, <1>3, <1>4, <1>5, <1>6, <1>7, <1>8, <1>9, <1>10 DEF Sound

LEMMA PairIsSound == ASSUME method = "pair", args \in BOOLEAN PROVE Sound(Recipe, Cleanup, Purpose)
<1> USE DEF Pair
<1>1. Recipe = Pair /\ Cleanup = <<>> /\ Purpose = {}
  BY DEF Recipe, Cleanup, Purpose, Reads
<1>2. /\ \A c \in Settings : Home(c) = "doc"
      /\ \A c \in Objects : Home(c) = "doc"
  BY DEF Home
<1>3. Typed(Pair, <<>>)
  <2>1. Len(Pair) \in 1 .. 19 /\ \A i \in 1 .. Len(Pair) : StepOK(Pair[i])
    BY <1>2, SMTT(60) DEF StepOK, Registers, Borrowed
  <2> QED BY <2>1 DEF Typed
<1>4. BindsFirst(Pair) /\ Early(Pair, {})
  BY SMTT(60) DEF BindsFirst, Early, Reporting, Borrowed
<1>5. InPlace(Pair)
  BY <1>2, SMTT(60) DEF InPlace
<1>6. Covered(Pair, <<>>)
  BY <1>2, SMTT(60) DEF Covered, Covers, Borrowed
<1>7. Grounded(Pair, <<>>)
  BY SMTT(60) DEF Grounded
<1>8. Remembered(Pair) /\ Restored(Pair, <<>>)
  BY SMTT(60) DEF Remembered, Restored
<1>9. Undone(Pair, {}) /\ Made(Pair, {}) /\ Seen(Pair, {}) /\ Compared(Pair)
  BY SMTT(60) DEF Undone, Made, Seen, Compared, Unread
<1>10. GoneReady(Pair) /\ CommandReady(Pair) /\ SameReady(Pair) /\ BackReady(Pair) /\ Cleanups(<<>>)
  BY SMTT(60) DEF GoneReady, CommandReady, SameReady, BackReady, Cleanups, Borrowed
<1> QED BY <1>1, <1>3, <1>4, <1>5, <1>6, <1>7, <1>8, <1>9, <1>10 DEF Sound

LEMMA ScreenshotIsSound == ASSUME method = "screenshot", args \in BOOLEAN PROVE Sound(Recipe, Cleanup, Purpose)
<1> USE DEF Screenshot
<1>1. Recipe = Screenshot /\ Cleanup = <<>> /\ Purpose = {}
  BY DEF Recipe, Cleanup, Purpose, Reads
<1>2. /\ \A c \in Settings : Home(c) = "doc"
      /\ \A c \in Objects : Home(c) = "doc"
  BY DEF Home
<1>3. Typed(Screenshot, <<>>)
  <2>1. Len(Screenshot) \in 1 .. 19 /\ \A i \in 1 .. Len(Screenshot) : StepOK(Screenshot[i])
    BY <1>2, SMTT(60) DEF StepOK, Registers, Borrowed
  <2> QED BY <2>1 DEF Typed
<1>4. BindsFirst(Screenshot) /\ Early(Screenshot, {})
  BY SMTT(60) DEF BindsFirst, Early, Reporting, Borrowed
<1>5. InPlace(Screenshot)
  BY <1>2, SMTT(60) DEF InPlace
<1>6. Covered(Screenshot, <<>>)
  BY <1>2, SMTT(60) DEF Covered, Covers, Borrowed
<1>7. Grounded(Screenshot, <<>>)
  BY SMTT(60) DEF Grounded
<1>8. Remembered(Screenshot) /\ Restored(Screenshot, <<>>)
  BY SMTT(60) DEF Remembered, Restored
<1>9. Undone(Screenshot, {}) /\ Made(Screenshot, {}) /\ Seen(Screenshot, {}) /\ Compared(Screenshot)
  BY SMTT(60) DEF Undone, Made, Seen, Compared, Unread
<1>10. GoneReady(Screenshot) /\ CommandReady(Screenshot) /\ SameReady(Screenshot) /\ BackReady(Screenshot) /\ Cleanups(<<>>)
  BY SMTT(60) DEF GoneReady, CommandReady, SameReady, BackReady, Cleanups, Borrowed
<1> QED BY <1>1, <1>3, <1>4, <1>5, <1>6, <1>7, <1>8, <1>9, <1>10 DEF Sound

HIDE DEF Skip, Given, Layer, Bind, Use, Make, Set, Check, Remember, Drop, DropOrRaise, Restore, VerifyRestore, GiveBack, Fence,
    Step, Handle, TheSettings, Touches, Undoes, Objects, Settings

\* The recipes of all methods are sound.
LEMMA RecipesAreSound == ASSUME method \in AllMethods, args \in BOOLEAN PROVE Sound(Recipe, Cleanup, Purpose)
  BY CurveIsSound, ShapedIsSound, DimensionIsSound, BlockInsertIsSound, Polyline3dIsSound, SolidIsSound,
    CopyIsSound, MirrorIsSound, BlockCreateIsSound, LayerCreateIsSound, HatchIsSound, FromRegionIsSound,
    FromProfileIsSound, XrefAttachIsSound, UnitsIsSound, LayerStateIsSound, VisualStyleIsSound,
    ExportPdfIsSound, ViewportCreateIsSound, ViewportDeleteIsSound, ViewportForceIsSound, SaveIsSound,
    BooleanIsSound, XrefLoadIsSound, SetPropertiesIsSound, TransformIsSound, SolidTransformIsSound,
    ViewportSetIsSound, SetCurrentIsSound, DirectionIsSound, OpenIsSound, UnverifiedIsSound,
    XrefDetachIsSound, ReadIsSound, PairIsSound, ScreenshotIsSound, Zenon DEF AllMethods, Reads

-----------------------------------------------------------------------------
(* The state and the recipe                                                *)

\* The recipe, its except block and its purpose depend on the method and its arguments only.
LEMMA SameRecipe ==
  ASSUME method' = method, args' = args
  PROVE  /\ Recipe' = Recipe /\ Cleanup' = Cleanup /\ Purpose' = Purpose
         /\ \A c : Home(c)' = Home(c)
<1> USE DEF Skip, Given, Layer, TheSettings, Handle
<1>1. Recipe' = Recipe
  BY DEF Recipe, Curve, Shaped, Dimension, BlockInsert, Polyline3d, Solid, Copy, Mirror, BlockCreate, LayerCreate, Hatch,
    FromRegion, FromProfile, XrefAttach, Units, LayerState, VisualStyle, ExportPdf, ViewportCreate, ViewportDelete, Save,
    Boolean, XrefLoad, SetProperties, Transform, SolidTransform, ViewportSet, SetCurrent, Direction, Open, Unverified,
    XrefDetach, Read, Pair, Screenshot
<1>2. Cleanup' = Cleanup
  BY DEF Cleanup, SolidCleanup, HatchCleanup, XrefCleanup, SettingsCleanup, StyleCleanup, PdfCleanup, ViewportCleanup
<1>3. Purpose' = Purpose
  BY DEF Purpose
<1>4. \A c : Home(c)' = Home(c)
  BY DEF Home
<1> QED BY <1>1, <1>2, <1>3, <1>4

SureOf(s, c) == s.do = "check" /\ c \in s.cell

\* What stands depends on the method, its arguments and the place in the recipe only.
LEMMA StandingStays ==
  ASSUME method' = method, args' = args, at' = at
  PROVE  Standing(at)' = Standing(at) /\ Sure(at)' = Sure(at)
  BY SameRecipe DEF Standing, Sure, Touches, Undoes

\* What stands, and what has been compared, after one more step.
LEMMA StandingGoes ==
  ASSUME method' = method, args' = args, at' = at + 1, at \in 1 .. Len(Recipe), Len(Recipe) \in Nat
  PROVE  /\ Standing(at)' = (Standing(at) \ Undoes(Recipe[at])) \cup (Touches(Recipe[at]) \cap Cells)
         /\ Sure(at)' = Sure(at) \cup {c \in Settings : SureOf(Recipe[at], c)}
<1>1. Recipe' = Recipe
  BY SameRecipe
<1>2. 1 .. (at + 1) - 1 = 1 .. at /\ \A i \in 1 .. at : i \in 1 .. at - 1 \/ i = at
  OBVIOUS
<1>3. Standing(at)' = {c \in Cells : \E i \in 1 .. at : /\ c \in Touches(Recipe[i])
                                                      /\ \A k \in i + 1 .. at : c \notin Undoes(Recipe[k])}
  BY <1>1, <1>2 DEF Standing, Touches, Undoes
<1>4. ASSUME NEW c \in Cells
      PROVE  c \in Standing(at)' <=> c \in (Standing(at) \ Undoes(Recipe[at])) \cup Touches(Recipe[at])
  <2>1. ASSUME c \in Standing(at)'
        PROVE  c \in (Standing(at) \ Undoes(Recipe[at])) \cup Touches(Recipe[at])
    <3>1. PICK i \in 1 .. at : /\ c \in Touches(Recipe[i])
                               /\ \A k \in i + 1 .. at : c \notin Undoes(Recipe[k])
      BY <1>3, <2>1
    <3>2. CASE i = at
      BY <3>1, <3>2
    <3>3. CASE i \in 1 .. at - 1
      <4>1. c \notin Undoes(Recipe[at])
        BY <3>1, <3>3
      <4>2. \A k \in i + 1 .. at - 1 : c \notin Undoes(Recipe[k])
        BY <3>1, <3>3
      <4> QED BY <3>1, <3>3, <4>1, <4>2 DEF Standing
    <3> QED BY <1>2, <3>2, <3>3
  <2>2. ASSUME c \in Touches(Recipe[at])
        PROVE  c \in Standing(at)'
    <3>1. \A k \in at + 1 .. at : c \notin Undoes(Recipe[k])
      OBVIOUS
    <3> QED BY <1>3, <2>2, <3>1
  <2>3. ASSUME c \in Standing(at), c \notin Undoes(Recipe[at])
        PROVE  c \in Standing(at)'
    <3>1. PICK i \in 1 .. at - 1 : /\ c \in Touches(Recipe[i])
                                   /\ \A k \in i + 1 .. at - 1 : c \notin Undoes(Recipe[k])
      BY <2>3 DEF Standing
    <3>2. i \in 1 .. at /\ \A k \in i + 1 .. at : c \notin Undoes(Recipe[k])
      BY <1>2, <2>3, <3>1
    <3> QED BY <1>3, <3>1, <3>2
  <2> QED BY <2>1, <2>2, <2>3
<1>5. Standing(at)' \subseteq Cells /\ Standing(at) \subseteq Cells
  BY <1>3 DEF Standing
<1>6. Sure(at)' = {c \in Settings :
                     \E i \in 1 .. at : Recipe[i].do = "check" /\ c \in Recipe[i].cell}
  BY <1>1, <1>2, Zenon DEF Sure
<1>7. ASSUME NEW c \in Settings
      PROVE  c \in Sure(at)' <=> c \in Sure(at) \/ SureOf(Recipe[at], c)
  <2>1. c \in Sure(at)' <=> \E i \in 1 .. at : SureOf(Recipe[i], c)
    BY <1>6 DEF SureOf
  <2>2. c \in Sure(at) <=> \E i \in 1 .. at - 1 : SureOf(Recipe[i], c)
    BY DEF Sure, SureOf
  <2> QED BY <1>2, <2>1, <2>2
<1>8. Sure(at)' \subseteq Settings /\ Sure(at) \subseteq Settings
  BY <1>6 DEF Sure
<1> QED BY <1>4, <1>5, <1>7, <1>8

\* While a call runs, its recipe is sound.
LEMMA Running ==
  ASSUME IInv, told = "none"
  PROVE  /\ Sound(Recipe, Cleanup, Purpose)
         /\ method \in AllMethods /\ args \in BOOLEAN
         /\ Len(Recipe) \in 1 .. 19 /\ \A i \in 1 .. Len(Recipe) : StepOK(Recipe[i])
         /\ at \in 0 .. Len(Recipe) + 1
         /\ at # 0 => todo = <<>> /\ ~escaped
<1>1. method \in AllMethods /\ args \in BOOLEAN /\ at \in 0 .. 20 /\ (at # 0 => todo = <<>> /\ ~escaped)
  BY DEF IInv, AlarmInv, TypeOK
<1>2. Sound(Recipe, Cleanup, Purpose)
  BY <1>1, RecipesAreSound
<1>3. Len(Recipe) \in 1 .. 19 /\ \A i \in 1 .. Len(Recipe) : StepOK(Recipe[i])
  BY <1>2 DEF Sound, Typed
<1>4. at # 0 => at <= Len(Recipe) + 1
  BY <1>1 DEF IInv, DirtInv
<1> QED BY <1>1, <1>2, <1>3, <1>4

\* What a step touches and takes away.
LEMMA StepCells ==
  ASSUME NEW s, StepOK(s)
  PROVE  /\ Touches(s) \subseteq Cells /\ Undoes(s) \subseteq Objects \cup Borrowed
         /\ s.do = "bind" => Touches(s) = {} /\ Undoes(s) = {}
         /\ "style" \in Touches(s) => s.do = "command"
         /\ s.do \in {"skip", "bind", "use", "check", "remember", "open", "gone", "same"} => Touches(s) = {} /\ Undoes(s) = {}
         /\ \A c : SureOf(s, c) => c \in Settings \ Borrowed /\ (c = "style" => method = "visualStyle")
<1> USE DEF Touches, Undoes, StepOK, Cells, Objects, Settings, Borrowed
<1>1. Touches(s) \subseteq Cells
  OBVIOUS
<1>2. Undoes(s) \subseteq Objects \cup Borrowed
  OBVIOUS
<1>3. \A c : SureOf(s, c) => c \in Settings \ Borrowed /\ (c = "style" => method = "visualStyle")
  BY DEF SureOf
<1>4. s.do \in {"skip", "bind", "use", "check", "remember", "open", "gone", "same"} => Touches(s) = {} /\ Undoes(s) = {}
  OBVIOUS
<1>5. "style" \in Touches(s) => s.do = "command"
  OBVIOUS
<1> QED BY <1>1, <1>2, <1>3, <1>4, <1>5

\* A drawing is got before something is done to it.
LEMMA Bound ==
  ASSUME IInv, told = "none", NEW i \in 1 .. Len(Recipe), i <= at, NEW c \in Touches(Recipe[i])
  PROVE  At(c) \in Docs /\ Recipe[i].reg = Home(c) /\ c \in Cells
<1>1. /\ Sound(Recipe, Cleanup, Purpose) /\ Len(Recipe) \in 1 .. 19 /\ at \in 1 .. Len(Recipe) + 1 /\ StepOK(Recipe[i])
  BY Running
<1>2. Recipe[i].do \notin {"bind", "use", "skip"} /\ c \in Cells
  BY <1>1, StepCells
<1>3. PICK j \in 1 .. Len(Recipe) : Recipe[j].do = "bind" /\ Recipe[j].reg = Home(c)
  BY <1>1 DEF Sound, InPlace
<1>4. Recipe[i].reg = Home(c)
  BY <1>1 DEF Sound, InPlace
<1>5. ~(i \in 1 .. j - 1)
  BY <1>1, <1>2, <1>3 DEF Sound, BindsFirst
<1>6. j # i
  BY <1>2, <1>3
<1>7. j \in 1 .. at - 1
  BY <1>1, <1>5, <1>6
<1>8. reg[Home(c)] # Nil
  BY <1>1, <1>3, <1>7 DEF IInv, DirtInv
<1>9. StepOK(Recipe[j])
  BY <1>1 DEF Sound, Typed
<1>10. Home(c) \in Registers
  BY <1>3, <1>9 DEF StepOK
<1> QED BY <1>2, <1>4, <1>8, <1>10 DEF IInv, TypeOK, At

-----------------------------------------------------------------------------
(* A step of a recipe that goes on                                         *)

Advances ==
  /\ told = "none" /\ at \in 1 .. Len(Recipe) /\ at' = at + 1 /\ Of.do # "bind"
  /\ UNCHANGED <<inTransaction, script, method, args, told, roamed, reg, scope, integrity, todo, bad, escaped>>
  /\ active' = active \/ method = "open"
  /\ hit => hit'

\* What it does to the drawings is what it touches and what it takes away.
Keeps ==
  /\ \A d \in Docs, c \in Cells : drawing'[d][c] = "new" =>
       \/ drawing[d][c] = "new" /\ (c \notin Undoes(Of) \/ (c \in Borrowed /\ hit'))
       \/ c \in Touches(Of) /\ d = reg[Of.reg]
  /\ \A d \in Docs, c \in Cells : drawing'[d][c] # "stray"
  /\ \A d \in Docs, c \in Objects : drawing'[d][c] = "new" => made'[c] = d
  /\ \A c \in Objects : made'[c] # Nil =>
       \/ made'[c] = made[c] /\ c \notin Undoes(Of) /\ (c = "profile" \/ drawing'[made[c]][c] = drawing[made[c]][c])
       \/ c \in Touches(Of) /\ made'[c] = reg[Of.reg] /\ drawing'[made'[c]][c] = "new"
  /\ \A c \in Objects \ {"region", "region2"} :
       c \in Touches(Of) \/ (made[c] # Nil /\ c \notin Undoes(Of)) => made'[c] # Nil
  /\ \A d \in Docs, c \in Settings \ Borrowed : drawing'[d][c] \in {drawing[d][c], "new"}

\* What it has seen, set and read.
Knows ==
  /\ Of.do = "check" => \A c \in Of.cell : drawing'[At(c)][c] = "new"
  /\ Of.do = "gone" => reg.doc # reg.source \/ drawing'[reg.source].p1 = "new"
  /\ Of.do = "set" /\ Of.cell \notin Borrowed /\ ~hit' => drawing'[reg[Of.reg]][Of.cell] = "new"
  /\ Of.do # "remember" => pred' = pred
  /\ Of.do = "remember" =>
       /\ pred' # Nil /\ \A c \in {"f1", "f2", "style"} : pred'[c] \notin {"new", "stray"}
       /\ \A c \in Settings \ {"style"} : drawing[reg.doc][c] = pred'[c]

\* A drawing is got before anything is touched.
LEMMA Unbound ==
  ASSUME IInv, told = "none", at \in 1 .. Len(Recipe), Of.do = "bind"
  PROVE  \A i \in 1 .. at - 1 : Touches(Recipe[i]) = {} /\ Recipe[i].do \in {"bind", "use", "skip"}
<1>1. Sound(Recipe, Cleanup, Purpose) /\ Len(Recipe) \in 1 .. 19 /\ \A i \in 1 .. Len(Recipe) : StepOK(Recipe[i])
  BY Running
<1>2. \A i \in 1 .. at - 1 : Recipe[i].do \in {"bind", "use", "skip"}
  BY <1>1 DEF Sound, BindsFirst, Of
<1>3. \A i \in 1 .. at - 1 : i \in 1 .. Len(Recipe)
  BY <1>1
<1> QED BY <1>1, <1>2, <1>3, StepCells

\* A step that goes on keeps DirtInv.
LEMMA AdvanceDirt ==
  ASSUME IInv, Advances, Keeps
  PROVE  DirtInv'
<1> DEFINE Rec == Recipe
<1>1. /\ Len(Rec) \in 1 .. 19 /\ StepOK(Of) /\ Of = Rec[at] /\ at \in 1 .. Len(Rec)
      /\ Recipe' = Rec /\ \A c : Home(c)' = Home(c)
  BY Running, SameRecipe DEF Advances, Of
<1>2. Standing(at)' = (Standing(at) \ Undoes(Of)) \cup (Touches(Of) \cap Cells)
  BY <1>1, StandingGoes DEF Advances
<1>3. at' <= Len(Rec) + 1 /\ 1 .. at' - 1 = 1 .. at /\ at' > 0 /\ 1 .. at - 1 \subseteq 1 .. at
  BY <1>1 DEF Advances
<1>4. told' = "none" /\ reg' = reg
  BY DEF Advances
<1>5. ASSUME NEW i \in 1 .. at, Rec[i].do = "bind"
      PROVE  reg[Rec[i].reg] # Nil
  BY <1>1, <1>5 DEF Advances, IInv, DirtInv
<1>6. ASSUME NEW d \in Docs, NEW c \in Cells, drawing'[d][c] = "new"
      PROVE  (c \in Standing(at)' \/ (c \in Borrowed /\ hit')) /\ d = At(c) /\ (c \in Objects => made'[c] = d)
  <2>1. c \in Objects => made'[c] = d
    BY <1>6 DEF Keeps
  <2>2. CASE drawing[d][c] = "new" /\ (c \notin Undoes(Of) \/ (c \in Borrowed /\ hit'))
    <3>1. (c \in Standing(at) \/ (c \in Borrowed /\ hit)) /\ d = At(c)
      BY <1>1, <2>2, <1>4 DEF IInv, DirtInv, Advances
    <3>2. hit => hit'
      BY DEF Advances
    <3> QED BY <1>2, <2>1, <2>2, <3>1, <3>2
  <2>3. CASE c \in Touches(Of) /\ d = reg[Of.reg]
    <3>1. Of.reg = Home(c)
      BY <1>1, <2>3, Bound DEF Advances
    <3> QED BY <1>2, <2>1, <2>3, <3>1 DEF At
  <2> QED BY <1>6, <2>2, <2>3 DEF Keeps
<1>7. \A c : At(c)' = At(c)
  BY <1>1, <1>4 DEF At
<1>8. \A d \in Docs, c \in Cells : drawing'[d][c] # "stray"
  BY DEF Keeps
<1>9. at' <= Len(Recipe') + 1
  BY <1>1, <1>3
<1>10. \A i \in 1 .. at' - 1 : Recipe'[i].do = "bind" => reg'[Recipe'[i].reg] # Nil
  BY <1>1, <1>3, <1>4, <1>5
<1>11. \A d \in Docs, c \in Cells : drawing'[d][c] = "new" =>
         (c \in Standing(at)' \/ (c \in Borrowed /\ hit')) /\ d = At(c)' /\ (c \in Objects => made'[c] = d)
  BY <1>6, <1>7
<1>12. ASSUME NEW d \in Docs, NEW c \in Cells, drawing'[d][c] = "new"
       PROVE  \E i \in 1 .. at : c \in Touches(Rec[i])
  <2>1. CASE drawing[d][c] = "new"
    <3>1. PICK i \in 1 .. at - 1 : c \in Touches(Rec[i])
      BY <1>1, <2>1 DEF IInv, DirtInv, Advances
    <3> QED BY <1>3, <3>1
  <2>2. CASE c \in Touches(Of)
    <3>1. at \in 1 .. at
      BY <1>1
    <3> QED BY <1>1, <2>2, <3>1
  <2> QED BY <1>12, <2>1, <2>2 DEF Keeps
<1>13. \A d \in Docs, c \in Cells : drawing'[d][c] = "new" => \E i \in 1 .. at' - 1 : c \in Touches(Recipe'[i])
  BY <1>1, <1>3, <1>12
<1> QED BY <1>8, <1>9, <1>10, <1>11, <1>13 DEF DirtInv, Standing, At, Borrowed, Touches

\* What a step has compared is in a drawing that has been got.
LEMMA SeenBound ==
  ASSUME IInv, told = "none", NEW i \in 1 .. Len(Recipe), i <= at, NEW c, SureOf(Recipe[i], c)
  PROVE  c \in Settings \ Borrowed /\ At(c) \in Docs /\ (c = "style" => method = "visualStyle")
<1>1. /\ Sound(Recipe, Cleanup, Purpose) /\ Len(Recipe) \in 1 .. 19
      /\ \A k \in 1 .. Len(Recipe) : StepOK(Recipe[k])
  BY Running
<1>2. c \in Settings \ Borrowed /\ (c = "style" => method = "visualStyle")
  BY <1>1, StepCells
<1>4. CASE Recipe[i].do = "check" /\ c \in Recipe[i].cell
  <2>1. PICK j \in 1 .. i - 1 : c = Recipe[j].cell /\ Recipe[j].do \in {"set", "command"}
    BY <1>1, <1>4 DEF Sound, Compared
  <2>2. j \in 1 .. Len(Recipe) /\ j <= at /\ c \in Touches(Recipe[j])
    BY <1>1, <2>1, Running DEF Touches
  <2> QED BY <1>2, <2>2, Bound
<1> QED BY <1>2, <1>4 DEF SureOf

\* The same for all the steps so far.
LEMMA SureBound ==
  ASSUME IInv, told = "none", at \in 1 .. Len(Recipe) + 1, NEW c \in Sure(at)
  PROVE  c \in Settings \ Borrowed /\ At(c) \in Docs /\ (c = "style" => method = "visualStyle")
<1>1. PICK i \in 1 .. at - 1 : SureOf(Recipe[i], c)
  BY DEF Sure, SureOf
<1>2. i \in 1 .. Len(Recipe) /\ i <= at
  BY Running
<1> QED BY <1>1, <1>2, SeenBound

\* A step that goes on keeps GainInv,
LEMMA AdvanceGain ==
  ASSUME IInv, Advances, Keeps, Knows
  PROVE  GainInv'
<1> DEFINE Rec == Recipe
<1>1. /\ Len(Rec) \in 1 .. 19 /\ StepOK(Of) /\ Of = Rec[at] /\ at \in 1 .. Len(Rec) /\ Sound(Recipe, Cleanup, Purpose)
      /\ Recipe' = Rec /\ \A c : Home(c)' = Home(c)
  BY Running, SameRecipe DEF Advances, Of
<1>2. /\ Standing(at)' = (Standing(at) \ Undoes(Of)) \cup (Touches(Of) \cap Cells)
      /\ Sure(at)' = Sure(at) \cup {c \in Settings : SureOf(Of, c)}
  BY <1>1, StandingGoes DEF Advances
<1>3. 1 .. at' - 1 = 1 .. at /\ at' > 0 /\ (\A i \in 1 .. at : i \in 1 .. at - 1 \/ i = at)
  BY <1>1 DEF Advances
<1>4. told' = "none" /\ reg' = reg /\ at \in 1 .. at
  BY <1>1 DEF Advances
<1>5. \A c : At(c)' = At(c)
  BY <1>1, <1>4 DEF At
<1>6. \A c \in Touches(Of) : At(c) = reg[Of.reg] /\ At(c) \in Docs /\ c \in Cells
  BY <1>1, Bound DEF Advances, At
<1>7. /\ drawing \in [Docs -> [Cells -> Values]] /\ made \in [Objects -> Docs \cup {Nil}] /\ Nil \notin Docs
      /\ reg \in [Registers -> Docs \cup {Nil}]
  BY NilAssumption DEF IInv, TypeOK
<1>8. Objects \subseteq Cells /\ Settings \subseteq Cells
  BY DEF Cells
<1>9. GainInv
  BY DEF IInv
<1>10. ASSUME NEW c \in Objects, made'[c] # Nil
       PROVE  c \in Standing(at)' /\ made'[c] = At(c) /\ (c # "profile" => drawing'[made'[c]][c] = "new")
  <2>1. CASE made'[c] = made[c] /\ c \notin Undoes(Of) /\ (c = "profile" \/ drawing'[made[c]][c] = drawing[made[c]][c])
    <3>1. c \in Standing(at) /\ made[c] = At(c) /\ (c # "profile" => drawing[made[c]][c] = "new")
      BY <1>1, <1>9, <1>10, <2>1 DEF GainInv, Advances
    <3> QED BY <1>2, <2>1, <3>1
  <2>2. CASE c \in Touches(Of) /\ made'[c] = reg[Of.reg] /\ drawing'[made'[c]][c] = "new"
    BY <1>2, <1>6, <2>2
  <2> QED BY <1>10, <2>1, <2>2 DEF Keeps
<1>11. ASSUME NEW c \in (Standing(at)' \cap Objects) \ {"region", "region2"}
       PROVE  made'[c] # Nil
  <2>1. CASE c \in Touches(Of)
    BY <2>1 DEF Keeps
  <2>2. CASE c \in Standing(at) /\ c \notin Undoes(Of)
    <3>1. made[c] # Nil
      BY <1>1, <1>9, <2>2 DEF GainInv, Advances
    <3> QED BY <2>2, <3>1 DEF Keeps
  <2> QED BY <1>2, <2>1, <2>2
<1>12. ASSUME NEW c \in Sure(at)'
       PROVE  drawing'[At(c)][c] \in {"new", "user"}
  <2>1. CASE c \in Sure(at)
    <3>1. drawing[At(c)][c] \in {"new", "user"}
      BY <1>1, <1>9, <2>1 DEF GainInv, Advances
    <3>2. c \in Settings \ Borrowed /\ At(c) \in Docs
      BY <1>1, <2>1, SureBound DEF Advances
    <3> QED BY <3>1, <3>2 DEF Keeps
  <2>3. CASE Of.do = "check" /\ c \in Of.cell
    BY <2>3 DEF Knows
  <2> QED BY <1>2, <2>1, <2>3 DEF SureOf
<1>13. ASSUME NEW i \in 1 .. at, Rec[i].do = "gone"
       PROVE  reg.doc # reg.source \/ drawing'[reg.source].p1 = "new"
  <2>1. CASE i = at
    BY <1>1, <1>13, <2>1 DEF Knows
  <2>2. CASE i \in 1 .. at - 1
    <3>1. reg.doc # reg.source \/ drawing[reg.source].p1 = "new"
      BY <1>1, <1>9, <1>13, <2>2 DEF GainInv, Advances
    <3>2. PICK j \in 1 .. i - 1 : Rec[j].do = "bind" /\ Rec[j].reg = "source"
      BY <1>1, <1>13, <2>2 DEF Sound, GoneReady
    <3>3. j \in 1 .. at - 1
      BY <1>1, <2>2
    <3>4. reg.source \in Docs
      BY <1>1, <1>7, <3>2, <3>3 DEF IInv, DirtInv, Advances, Registers
    <3> QED BY <3>1, <3>4 DEF Keeps, Settings, Borrowed
  <2> QED BY <1>3, <2>1, <2>2
<1>14. \A c \in Objects : made'[c] # Nil => c \in Standing(at)' /\ made'[c] = At(c)' /\ (c # "profile" => drawing'[made'[c]][c] = "new")
  BY <1>5, <1>10
<1>15. \A c \in Sure(at)' : drawing'[At(c)'][c] \in {"new", "user"}
  BY <1>5, <1>12
<1>16. \A i \in 1 .. at' - 1 : Recipe'[i].do = "gone" => reg'.doc # reg'.source \/ drawing'[reg'.source].p1 = "new"
  BY <1>1, <1>3, <1>4, <1>13
<1> QED BY <1>11, <1>14, <1>15, <1>16 DEF GainInv, Standing, Sure, At

\* PredInv,
LEMMA AdvancePred ==
  ASSUME IInv, Advances, Knows
  PROVE  PredInv'
<1>1. /\ at \in Nat /\ 1 .. at' - 1 = 1 .. at /\ (\A i \in 1 .. at : i \in 1 .. at - 1 \/ i = at)
      /\ told' = "none" /\ Recipe' = Recipe /\ Of = Recipe[at] /\ PredInv
  BY Running, SameRecipe DEF Advances, Of, IInv
<1>2. CASE Of.do = "remember"
  BY <1>1, <1>2 DEF Knows, PredInv
<1>3. CASE Of.do # "remember"
  <2>1. pred' = pred
    BY <1>3 DEF Knows
  <2>2. \A i \in 1 .. at : Recipe[i].do = "remember" => pred # Nil
    BY <1>1, <1>3 DEF PredInv, Advances
  <2> QED BY <1>1, <2>1, <2>2 DEF PredInv, Advances
<1> QED BY <1>2, <1>3

\* No command is sent.
LEMMA AdvanceQueue ==
  ASSUME IInv, Advances, pending' = pending, Of.do # "command"
  PROVE  QueueInv'
<1>1. /\ at \in Nat /\ at # 0 /\ StepOK(Of) /\ Of = Recipe[at] /\ Len(Recipe) \in 1 .. 19
      /\ Standing(at)' = (Standing(at) \ Undoes(Of)) \cup (Touches(Of) \cap Cells)
  BY Running, StandingGoes DEF Advances, Of
<1>2. "style" \notin Undoes(Of)
  BY <1>1, StepCells DEF Objects, Borrowed
<1>3. "style" \in Standing(at) => "style" \in Standing(at)'
  BY <1>1, <1>2
<1>4. QueueInv /\ script' = script /\ method' = method /\ reg' = reg /\ told = "none" /\ at > 0
  BY <1>1 DEF IInv, Advances
<1>5. ASSUME NEW d \in Docs, NEW i \in 1 .. Len(pending[d])
      PROVE  /\ pending[d][i] >= Len(script)
             /\ pending[d][i] = Len(script) =>
                  method = "visualStyle" /\ d = reg.doc /\ i = Len(pending[d]) /\ "style" \in Standing(at)'
  BY <1>3, <1>4 DEF QueueInv
<1> QED BY <1>4, <1>5 DEF QueueInv, Standing

\* StyleInv,
LEMMA AdvanceStyle ==
  ASSUME IInv, Advances, Keeps, Knows, pending' = pending, Of.do # "command"
  PROVE  StyleInv'
<1>1. /\ at \in Nat /\ at # 0 /\ StepOK(Of) /\ Of = Recipe[at] /\ Len(Recipe) \in 1 .. 19
      /\ Sure(at)' = Sure(at) \cup {c \in Settings : SureOf(Of, c)}
  BY Running, StandingGoes DEF Advances, Of
<1>2. "style" \notin Touches(Of)
  BY <1>1, StepCells
<1>3. "style" \in Cells /\ drawing \in [Docs -> [Cells -> Values]]
  BY DEF Cells, Settings, IInv, TypeOK
<1>4. \A d \in Docs : drawing'[d].style = "new" => drawing[d].style = "new"
  BY <1>2, <1>3 DEF Keeps
<1>5. StyleInv /\ method' = method /\ reg' = reg /\ told = "none" /\ told' = told /\ at > 0
  BY <1>1 DEF IInv, Advances
<1>6. ASSUME method = "visualStyle", "style" \in Sure(at)'
      PROVE  pending[reg.doc] = <<>>
  <2>1. CASE "style" \in Sure(at)
    BY <1>5, <1>6, <2>1 DEF StyleInv
  <2>2. CASE SureOf(Of, "style")
    <3>1. Of.do = "check" /\ "style" \in Of.cell
      BY <1>1, <2>2 DEF SureOf, StepOK
    <3>2. drawing'[At("style")].style = "new"
      BY <3>1 DEF Knows
    <3>3. At("style") \in Docs
      BY <1>1, <1>5, <2>2, SeenBound DEF Advances
    <3> QED BY <1>4, <1>5, <1>6, <3>2, <3>3 DEF StyleInv
  <2> QED BY <1>1, <1>6, <2>1, <2>2
<1>7. ASSUME method = "visualStyle", NEW d \in Docs, drawing'[d].style = "new"
      PROVE  pending[reg.doc] = <<>>
  BY <1>4, <1>5, <1>7 DEF StyleInv
<1> QED BY <1>5, <1>6, <1>7 DEF StyleInv, Sure

\* and CalmInv.
LEMMA AdvanceCalm ==
  ASSUME IInv, Advances, Keeps, Knows, pending' = pending, Of.do # "command",
         method = "screenshot" => drawing' = drawing
  PROVE  CalmInv'
<1>1. /\ at \in Nat /\ at # 0 /\ StepOK(Of) /\ Of = Recipe[at] /\ Len(Recipe) \in 1 .. 19 /\ Sound(Recipe, Cleanup, Purpose)
      /\ \A i \in 1 .. Len(Recipe) : StepOK(Recipe[i])
      /\ Standing(at)' = (Standing(at) \ Undoes(Of)) \cup (Touches(Of) \cap Cells)
      /\ Recipe' = Recipe /\ \A c : Home(c)' = Home(c)
  BY Running, StandingGoes, SameRecipe DEF Advances, Of
<1>2. 1 .. at' - 1 = 1 .. at /\ at' > 0 /\ (\A i \in 1 .. at : i \in 1 .. at - 1 \/ i = at)
  BY <1>1 DEF Advances
<1>3. told = "none" /\ reg' = reg /\ script' = script /\ method' = method /\ CalmInv /\ at > 0
  BY <1>1 DEF Advances, IInv
<1>4. drawing \in [Docs -> [Cells -> Values]] /\ reg \in [Registers -> Docs \cup {Nil}] /\ Settings \subseteq Cells
  BY DEF IInv, TypeOK, Cells
<1> SUFFICES ASSUME ~hit'
             PROVE  Calm'
  BY DEF CalmInv, Calm
<1>5. ~hit
  BY DEF Advances
<1>6. \A c : At(c)' = At(c)
  BY <1>1, <1>3 DEF At
<1>7. ASSUME NEW i \in 1 .. at, Recipe[i].do = "set", Recipe[i].cell \notin Borrowed
      PROVE  drawing'[At(Recipe[i].cell)][Recipe[i].cell] = "new"
  <2> DEFINE c == Recipe[i].cell
  <2>1. i \in 1 .. Len(Recipe) /\ i <= at
    BY <1>1, Running DEF Advances
  <2>2. c \in Touches(Recipe[i])
    BY <1>7 DEF Touches
  <2>3. At(c) \in Docs /\ reg[Recipe[i].reg] = At(c)
    BY <1>3, <2>1, <2>2, Bound DEF At
  <2>4. c \in Settings \ Borrowed
    BY <1>1, <1>7, <2>1 DEF StepOK, Settings
  <2>5. CASE i = at
    BY <1>1, <1>7, <2>3, <2>5 DEF Knows
  <2>6. CASE i \in 1 .. at - 1
    <3>1. drawing[At(c)][c] = "new"
      BY <1>3, <1>5, <1>7, <2>6 DEF CalmInv, Calm
    <3> QED BY <2>3, <2>4, <3>1 DEF Keeps
  <2> QED BY <1>2, <2>5, <2>6
<1>8. ASSUME method = "screenshot", NEW i \in 1 .. at, Recipe[i].do = "remember", NEW c \in Settings \ {"style"}
      PROVE  drawing'[reg.doc][c] = pred'[c]
  <2>1. CASE Of.do = "remember"
    BY <1>8, <2>1 DEF Knows
  <2>2. CASE Of.do # "remember"
    <3>1. i \in 1 .. at - 1
      BY <1>1, <1>2, <1>8, <2>2
    <3>2. drawing[reg.doc][c] = pred[c]
      BY <1>3, <1>5, <1>8, <3>1 DEF CalmInv, Calm
    <3> QED BY <1>8, <2>2, <3>2 DEF Knows
  <2> QED BY <2>1, <2>2
<1>9. ASSUME method = "visualStyle", "style" \in Standing(at)'
      PROVE  \/ pending[reg.doc] # <<>> /\ pending[reg.doc][Len(pending[reg.doc])] = Len(script)
             \/ pending[reg.doc] = <<>> /\ drawing'[reg.doc].style = "new"
  <2>1. "style" \notin Touches(Of)
    BY <1>1, StepCells
  <2>2. "style" \in Standing(at)
    BY <1>1, <1>9, <2>1
  <2>3. \/ pending[reg.doc] # <<>> /\ pending[reg.doc][Len(pending[reg.doc])] = Len(script)
        \/ pending[reg.doc] = <<>> /\ drawing[reg.doc].style = "new"
    BY <1>3, <1>5, <1>9, <2>2 DEF CalmInv, Calm
  <2>4. PICK i \in 1 .. at - 1 : "style" \in Touches(Recipe[i])
    BY <2>2 DEF Standing
  <2>5. i \in 1 .. Len(Recipe) /\ i <= at
    BY <1>1, Running DEF Advances
  <2>6. At("style") \in Docs
    BY <2>4, <2>5, Bound DEF Advances
  <2>7. Home("style") = "doc"
    BY <1>9 DEF Home, Settings
  <2> QED BY <2>3, <2>6, <2>7 DEF Keeps, Settings, Borrowed, At
<1>10. at' # 0
  BY <1>1 DEF Advances
<1>11. \A i \in 1 .. at' - 1 : Recipe'[i].do = "set" /\ Recipe'[i].cell \notin Borrowed => drawing'[At(Recipe[i].cell)'][Recipe'[i].cell] = "new"
  BY <1>1, <1>2, <1>6, <1>7
<1>12. \A i \in 1 .. at' - 1 : method' = "screenshot" /\ Recipe'[i].do = "remember" =>
          \A c \in Settings \ {"style"} : drawing'[reg'.doc][c] = pred'[c]
  BY <1>1, <1>2, <1>3, <1>8
<1>13. method' = "visualStyle" /\ at' > 0 /\ "style" \in Standing(at)' =>
         \/ pending'[reg'.doc] # <<>> /\ pending'[reg'.doc][Len(pending'[reg'.doc])] = Len(script')
         \/ pending'[reg'.doc] = <<>> /\ drawing'[reg'.doc].style = "new"
  BY <1>3, <1>9
<1> QED BY <1>10, <1>11, <1>12, <1>13 DEF Calm, At, Standing, Borrowed

\* PlaceInv is kept while the registers, the user and the queues stay.
LEMMA PlaceStays ==
  ASSUME IInv, TypeOK', UNCHANGED <<inTransaction, method, roamed, reg, scope>>, active' = active \/ method = "open",
         \A d \in Docs : pending[d] = <<>> => pending'[d] = <<>> \/ d = reg.doc
  PROVE  PlaceInv'
<1>1. PlaceInv /\ Nil \notin Docs
  BY NilAssumption DEF IInv
<1>2. ASSUME inTransaction, NEW d \in Docs \ {scope}
      PROVE  pending'[d] = <<>>
  BY <1>1, <1>2 DEF PlaceInv, Registers
<1> QED BY <1>1, <1>2 DEF PlaceInv

\* What only concerns calls that have ended.
LEMMA NotAnswered ==
  ASSUME told' = "none"
  PROVE  OkInv' /\ NothingLeftBehind'
BY DEF OkInv, NothingLeftBehind

\* What a step touches in a transaction is in its drawing.
LEMMA AdvanceInPlace ==
  ASSUME IInv, Advances, Keeps
  PROVE  StaysInTransaction'
<1>1. \A c \in Touches(Of) : Of.reg = Home(c)
  BY Running, Bound DEF Advances, Of
<1>2. \A c : Home(c) \in Registers
  BY DEF Home, Registers
<1>3. PlaceInv /\ StaysInTransaction /\ Nil \notin Docs
  BY NilAssumption DEF IInv
<1>4. ASSUME inTransaction, method # "visualStyle", NEW d \in Docs, d # scope, NEW c \in Cells
      PROVE  drawing'[d][c] \notin {"new", "stray"}
  <2>1. drawing[d][c] # "new"
    BY <1>3, <1>4 DEF StaysInTransaction
  <2>2. c \in Touches(Of) => d # reg[Of.reg]
    BY <1>1, <1>2, <1>3, <1>4 DEF PlaceInv
  <2> QED BY <2>1, <2>2 DEF Keeps
<1> QED BY <1>4 DEF StaysInTransaction, Advances

\* A step that goes on keeps the inductive invariant.
LEMMA AdvanceKeeps ==
  ASSUME IInv, Advances, Keeps, Knows, TypeOK', pending' = pending, Of.do # "command",
         method = "screenshot" => drawing' = drawing
  PROVE  IInv'
<1>1. DirtInv' /\ GainInv' /\ PredInv' /\ StaysInTransaction'
  BY AdvanceDirt, AdvanceGain, AdvancePred, AdvanceInPlace
<1>2. QueueInv' /\ StyleInv' /\ CalmInv'
  BY AdvanceQueue, AdvanceStyle, AdvanceCalm
<1>3. PlaceInv'
  BY PlaceStays DEF Advances
<1>4. OkInv' /\ NothingLeftBehind'
  BY NotAnswered DEF Advances
<1>5. CleanupInv'
  BY Running DEF CleanupInv, Advances
<1>6. AlarmInv'
  BY DEF AlarmInv, IInv, Advances, TypeOK
<1> QED BY <1>1, <1>2, <1>3, <1>4, <1>5, <1>6 DEF IInv
-----------------------------------------------------------------------------
(* A step of a recipe that fails                                           *)

Failing ==
  /\ told = "none" /\ at \in 1 .. Len(Recipe) /\ at' = 0
  /\ UNCHANGED <<inTransaction, script, method, args, told, roamed, reg, scope, pred>>
  /\ \A d \in Docs : pending[d] = <<>> => pending'[d] = <<>> \/ d = reg.doc
  /\ active' = active \/ method = "open"
  /\ hit => hit'

\* A step that fails keeps the inductive invariant.
LEMMA FailKeeps ==
  ASSUME IInv, Failing, TypeOK', CleanupInv', StaysInTransaction', QueueInv', integrity' => hit',
         hit' \/ (method = "fromProfile" /\ \A j \in 1 .. Len(todo') : todo'[j].do \in {"drop", "skip"})
  PROVE  IInv'
<1>1. DirtInv' /\ GainInv'
  BY DEF DirtInv, GainInv, Failing
<1>2. PredInv'
  BY DEF PredInv, IInv, Failing
<1>3. QueueInv'
  OBVIOUS
<1>4. StyleInv'
  BY DEF StyleInv, Failing
<1>5. CalmInv'
  BY DEF CalmInv, Calm, Failing
<1>6. PlaceInv'
  BY PlaceStays DEF Failing
<1>7. OkInv' /\ NothingLeftBehind'
  BY NotAnswered DEF Failing
<1>8. AlarmInv'
  BY DEF AlarmInv, IInv, Failing
<1> QED BY <1>1, <1>2, <1>3, <1>4, <1>5, <1>6, <1>7, <1>8 DEF IInv

\* What the except block finds.
Found ==
  /\ made' = made
  /\ \A d \in Docs, c \in Cells : drawing'[d][c] = "new" =>
       drawing[d][c] = "new" \/ (c \in Touches(Of) \cap Settings /\ d = reg[Of.reg])
  /\ \A d \in Docs, c \in Cells : drawing'[d][c] # "stray"

\* The entries of a cleanup depend on the method and its arguments only.
LEMMA EntriesStay ==
  ASSUME method' = method, args' = args
  PROVE  Entries' = Entries
BY SameRecipe DEF Entries

\* The except block covers what the steps up to the one that fails have touched.
LEMMA HandlersCover ==
  ASSUME IInv, told = "none", at \in 1 .. Len(Recipe), Of.on = "clean", Of.do \notin {"skip", "drop"},
         NEW i \in 1 .. at, NEW c \in Touches(Recipe[i]) \ Borrowed, NEW d \in Docs, d = At(c), c \in Objects => made[c] = d
  PROVE  \E k \in 1 .. Len(Cleanup) : Handles(Cleanup[k], d, c)
<1>1. /\ Len(Recipe) \in 1 .. 19 /\ StepOK(Of) /\ Of = Recipe[at] /\ Sound(Recipe, Cleanup, Purpose)
      /\ \A k \in 1 .. Len(Recipe) : StepOK(Recipe[k])
  BY Running DEF Of
<1>2. c \in Settings => Home(c) = "doc"
  BY <1>1 DEF Sound, Covered
<1>3. PICK k \in 1 .. Len(Cleanup) : Covers(Cleanup[k], c)
  BY <1>1 DEF Sound, Covered
<1>4. c \in Cells /\ StepOK(Recipe[i]) /\ CleanStep(Cleanup[k])
  BY <1>1, StepCells DEF Sound, Typed
<1>5. CASE Cleanup[k].do = "drop" /\ Cleanup[k].cell = c
  BY <1>4, <1>5 DEF Handles, CleanStep
<1>6. CASE Cleanup[k].do = "verify" /\ c \in Cleanup[k].cell
  <2>1. c \in Settings
    BY <1>4, <1>6 DEF CleanStep, Settings
  <2> QED BY <1>2, <1>6, <2>1 DEF Handles, At
<1> QED BY <1>3, <1>5, <1>6 DEF Covers

\* Only what is in the drawing that was got for it is deleted.
LEMMA HandlersGrounded ==
  ASSUME IInv, told = "none", at \in 1 .. Len(Recipe), Of.on = "clean", Of.do \notin {"skip", "drop"}, ~Excused,
         NEW k \in 1 .. Len(Cleanup), Cleanup[k].do = "drop", made[Cleanup[k].cell] # Nil
  PROVE  reg[Cleanup[k].reg] = made[Cleanup[k].cell]
<1> DEFINE e == Cleanup[k]
<1>1. /\ Len(Recipe) \in 1 .. 19 /\ Of = Recipe[at] /\ Sound(Recipe, Cleanup, Purpose)
  BY Running DEF Of
<1>2. PICK i \in 1 .. at - 1 : Recipe[i].do = "bind" /\ Recipe[i].reg = e.reg
  BY <1>1 DEF Sound, Grounded
<1>3. reg[e.reg] # Nil
  BY <1>1, <1>2 DEF IInv, DirtInv
<1>4. e.cell \in Objects /\ e.reg \in Registers /\ (e.reg = Home(e.cell) \/ method \in {"copy", "mirror", "xrefAttach"})
  BY <1>1 DEF Sound, Typed, CleanStep
<1>5. made[e.cell] = reg[Home(e.cell)] /\ Home(e.cell) \in Registers
  BY <1>1, <1>4 DEF IInv, GainInv, At, Home, Registers
<1>6. ASSUME method \in {"copy", "mirror", "xrefAttach"}
      PROVE  reg[e.reg] = reg[Home(e.cell)]
  <2>1. inTransaction \/ ~roamed
    BY <1>6 DEF Excused, Wandering
  <2>2. inTransaction \in BOOLEAN
    BY DEF IInv, TypeOK
  <2> QED BY <1>3, <1>4, <1>5, <1>6, <2>1, <2>2 DEF IInv, PlaceInv
<1> QED BY <1>4, <1>5, <1>6

\* An except block consists of entries.
LEMMA CleanupEntries ==
  ASSUME Sound(Recipe, Cleanup, Purpose)
  PROVE  Cleanup \in Seq(Entries)
<1> DEFINE S == {Cleanup[k] : k \in 1 .. Len(Cleanup)}
<1>1. Cleanup \in Seq(S)
  BY DEF Sound, Typed
<1>2. S \subseteq Entries
  BY DEF Entries
<1> HIDE DEF S
<1> QED BY <1>1, <1>2

\* What restores a setting knows the drawing and what was there.
LEMMA RestoresKnow ==
  ASSUME IInv, told = "none", at \in 1 .. Len(Recipe), Of.on \in {"clean", "suspect"}, Of.do # "skip",
         NEW k \in 1 .. Len(Cleanup), Cleanup[k].do \in {"restore", "verify"}
  PROVE  pred # Nil /\ reg.doc # Nil
<1>1. /\ Len(Recipe) \in 1 .. 19 /\ Of = Recipe[at] /\ Sound(Recipe, Cleanup, Purpose)
  BY Running DEF Of
<1>2. PICK i \in 1 .. at - 1 : Recipe[i].do = "remember"
  BY <1>1 DEF Sound, Restored
<1>3. i \in 1 .. Len(Recipe)
  BY <1>1
<1>4. PICK j \in 1 .. i - 1 : Recipe[j].do = "bind" /\ Recipe[j].reg = "doc"
  BY <1>1, <1>2, <1>3 DEF Sound, Remembered
<1>5. j \in 1 .. at - 1
  BY <1>1, <1>4
<1>6. reg["doc"] # Nil
  BY <1>1, <1>4, <1>5 DEF IInv, DirtInv
<1> QED BY <1>1, <1>2, <1>6 DEF IInv, PredInv

\* What a step that fails leaves is handled by what is left of the call.
LEMMA FailedCleanup ==
  ASSUME IInv, Failing, Fails, Found, Of.do \notin {"drop", "back", "skip"}
  PROVE  CleanupInv'
<1> DEFINE Rec == Recipe
           C == Cleanup
<1>1. /\ Len(Rec) \in 1 .. 19 /\ StepOK(Of) /\ Of = Rec[at] /\ at \in 1 .. Len(Rec) /\ Sound(Rec, C, Purpose)
      /\ \A i \in 1 .. Len(Rec) : StepOK(Rec[i])
      /\ Rec' = Rec /\ C' = C /\ (\A c : Home(c)' = Home(c)) /\ told = "none" /\ at > 0
  BY Running, SameRecipe DEF Failing, Of
<1>2. Entries' = Entries
  BY EntriesStay DEF Failing
<1>3. Excused \/ Of.on \in {"halt", "suspect"} => Excused'
  BY DEF Excused, Fails, Quarantined, Failing, Wandering
<1>4. ASSUME NEW d \in Docs, NEW c \in Cells, drawing'[d][c] = "new"
      PROVE  \/ c \in Borrowed
             \/ \E i \in 1 .. at : /\ c \in Touches(Rec[i]) /\ d = At(c) /\ (c \in Objects => made[c] = d)
                                   /\ (i = at => c \in Settings)
  <2>1. CASE drawing[d][c] = "new"
    <3>1. (c \in Standing(at) \/ c \in Borrowed) /\ d = At(c) /\ (c \in Objects => made[c] = d)
      BY <1>1, <2>1 DEF IInv, DirtInv
    <3>2. CASE c \in Standing(at)
      <4>1. PICK i \in 1 .. at - 1 : c \in Touches(Rec[i])
        BY <3>2 DEF Standing
      <4>2. i \in 1 .. at /\ i # at
        BY <1>1, <4>1
      <4> QED BY <3>1, <4>1, <4>2
    <3> QED BY <3>1, <3>2
  <2>2. CASE c \in Touches(Of) \cap Settings /\ d = reg[Of.reg]
    <3>1. Of.reg = Home(c)
      BY <1>1, <2>2, Bound
    <3>2. c \notin Objects
      BY <2>2 DEF Objects, Settings
    <3>3. at \in 1 .. at
      BY <1>1
    <3> QED BY <1>1, <2>2, <3>1, <3>2, <3>3 DEF At
  <2> QED BY <1>4, <2>1, <2>2 DEF Found
<1>8. Unguarded' = Unguarded /\ Escapes' = Escapes /\ Borrowed \subseteq Unguarded
  BY SameRecipe DEF Unguarded, Escapes, Fails, Failing, Reporting
<1>9. method \in Reporting => Purpose \subseteq Unguarded
  BY DEF Unguarded
<1>5. CASE Of.on = "halt"
  <2>1. todo' = <<>> /\ Excused'
    BY <1>3, <1>5 DEF Fails
  <2> QED BY <1>2, <2>1 DEF CleanupInv
<1>6. CASE Of.on = "raise"
  <2>1. todo' = <<>>
    BY <1>6 DEF Fails
  <2>2. ASSUME NEW d \in Docs, NEW c \in Cells, drawing'[d][c] = "new"
        PROVE  c \in Unguarded
    <3>1. CASE method \in Reporting /\ \A i \in 1 .. at : Touches(Rec[i]) \subseteq Purpose
      BY <1>4, <1>8, <1>9, <2>2, <3>1
    <3>2. CASE /\ \A i \in 1 .. at - 1 : Touches(Rec[i]) = {}
               /\ Touches(Rec[at]) \cap Settings \subseteq Borrowed
      <4>1. ASSUME NEW i \in 1 .. at, c \in Touches(Rec[i]), i = at => c \in Settings
            PROVE  c \in Borrowed
        <5>1. i \in 1 .. at - 1 \/ i = at
          BY <1>1
        <5> QED BY <3>2, <4>1, <5>1
      <4> QED BY <1>4, <1>8, <2>2, <4>1
    <3> QED BY <1>1, <1>6, <3>1, <3>2 DEF Sound, Early
  <2>3. \A d \in Docs, c \in Cells : drawing'[d][c] = "new" => c \in Unguarded'
    BY <1>8, <2>2
  <2> QED BY <2>1, <2>3 DEF CleanupInv, Found
<1>7. CASE Of.on \in {"clean", "suspect"}
  <2>1. todo' = C
    BY <1>7 DEF Fails
  <2>2. C \in Seq(Entries)
    BY <1>1, CleanupEntries
  <2>3. ASSUME NEW k \in 1 .. Len(C), C[k].do \in {"restore", "verify"}
        PROVE  pred # Nil /\ reg.doc # Nil
    BY <1>1, <1>7, <2>3, RestoresKnow
  <2>4. method = "visualStyle" => C # <<>> /\ C[Len(C)].do = "verify" /\ C[Len(C)].cell = {"style"}
    BY <1>1 DEF Sound, Cleanups
  <2>5. ASSUME ~Excused'
        PROVE  /\ \A d \in Docs, c \in Cells : drawing'[d][c] = "new" => c \in Unguarded \/ \E j \in 1 .. Len(C) : Handles(C[j], d, c)
               /\ \A j \in 1 .. Len(C) : C[j].do = "drop" /\ made[C[j].cell] # Nil => reg[C[j].reg] = made[C[j].cell]
    <3>1. Of.on = "clean" /\ ~Excused
      BY <1>3, <1>7, <2>5
    <3>2. ASSUME NEW d \in Docs, NEW c \in Cells, drawing'[d][c] = "new", c \notin Borrowed
          PROVE  \E j \in 1 .. Len(C) : Handles(C[j], d, c)
      BY <1>1, <1>4, <3>1, <3>2, HandlersCover
    <3>3. \A j \in 1 .. Len(C) : C[j].do = "drop" /\ made[C[j].cell] # Nil => reg[C[j].reg] = made[C[j].cell]
      BY <1>1, <3>1, HandlersGrounded
    <3> QED BY <1>8, <3>2, <3>3
  <2>6. \A e, d, c : Handles(e, d, c)' = Handles(e, d, c)
    BY DEF Handles, Failing, Found
  <2>7. \A j \in 1 .. Len(C) : C[j].do = "drop" /\ "collection" \in C[j].reads => C[j].cell \in Escapes' /\ C[j].on # "raise"
    BY <1>1, <1>8 DEF Sound, Typed, CleanStep
  <2> QED BY <1>2, <1>8, <2>1, <2>2, <2>3, <2>4, <2>5, <2>6, <2>7 DEF CleanupInv, Found, Failing
<1> QED BY <1>1, <1>5, <1>6, <1>7 DEF StepOK

-----------------------------------------------------------------------------
(* The steps one by one                                                    *)

\* What is known of the step that is due.
LEMMA StepOf ==
  ASSUME IInv, told = "none", at \in 1 .. Len(Recipe)
  PROVE  /\ StepOK(Of) /\ Of = Recipe[at] /\ Len(Recipe) \in 1 .. 19 /\ at # 0 /\ at \in Nat
         /\ todo = <<>> /\ ~escaped /\ TypeOK /\ Nil \notin Docs /\ Sound(Recipe, Cleanup, Purpose)
         /\ \A c \in Touches(Of) : reg[Of.reg] \in Docs /\ reg[Of.reg] = At(c) /\ Of.reg = Home(c) /\ c \in Cells
<1>1. /\ StepOK(Of) /\ Of = Recipe[at] /\ Len(Recipe) \in 1 .. 19 /\ at # 0 /\ at \in Nat
      /\ todo = <<>> /\ ~escaped /\ Sound(Recipe, Cleanup, Purpose)
  BY Running DEF Of
<1>2. TypeOK /\ Nil \notin Docs
  BY NilAssumption DEF IInv
<1>3. \A c \in Touches(Of) : reg[Of.reg] \in Docs /\ reg[Of.reg] = At(c) /\ Of.reg = Home(c) /\ c \in Cells
  BY <1>1, Bound DEF At
<1> QED BY <1>1, <1>2, <1>3

\* A step that goes on keeps the types.
LEMMA GoneOnType ==
  ASSUME IInv, Advances, TypeOK, UNCHANGED <<switches, edits>>, active' \in Docs,
         drawing' \in [Docs -> [Cells -> Values]], made' \in [Objects -> Docs \cup {Nil}], pending' \in [Docs -> Seq(Nat)],
         created' \in BOOLEAN, hit' \in BOOLEAN, pred' = Nil \/ pred' \in [Settings -> Values]
  PROVE  TypeOK'
<1>1. at' = at + 1 /\ at \in 1 .. Len(Recipe) /\ Len(Recipe) \in 1 .. 19 /\ todo = <<>> /\ ~escaped
  BY StepOf DEF Advances
<1>2. at' \in 0 .. 20
  <2>1. \A L \in 1 .. 19 : \A a \in 1 .. L : a + 1 \in 0 .. 20
    OBVIOUS
  <2> QED BY <1>1, <2>1
<1>3. todo' = <<>> /\ ~escaped'
  BY <1>1 DEF Advances
<1> QED BY <1>2, <1>3 DEF TypeOK, Advances

\* A step that fails keeps the types.
LEMMA FailedType ==
  ASSUME IInv, Failing, TypeOK, UNCHANGED <<switches, edits, made, bad>>, active' \in Docs, {escaped', integrity', created', hit'} \subseteq BOOLEAN,
         pending' \in [Docs -> Seq(Nat)],
         drawing' \in [Docs -> [Cells -> Values]]
  PROVE  TypeOK'
BY DEF TypeOK, Failing

\* A step that fails without effect.
LEMMA FailsQuietly ==
  ASSUME IInv, told = "none", at \in 1 .. Len(Recipe), Fails, UNCHANGED <<drawing, made, reg, scope, pending>>,
         UNCHANGED <<inTransaction, script, method, args, told, roamed, switches, edits>>, active' \in Docs,
         active' = active \/ method = "open", Of.do \notin {"drop", "back", "skip"},
         hit' \in BOOLEAN, hit => hit', hit' \/ (method = "fromProfile" /\ Of.on = "clean")
  PROVE  IInv'
<1>1. Failing /\ TypeOK /\ ~escaped /\ Sound(Recipe, Cleanup, Purpose) /\ AlarmInv
  BY StepOf DEF Failing, Fails, IInv
<1>2. Found
  BY StepOf DEF Found, IInv, DirtInv
<1>3. CleanupInv'
  BY <1>1, <1>2, FailedCleanup
<1>4. {escaped', integrity', created', hit'} \subseteq BOOLEAN
  BY <1>1 DEF Fails, Quarantined, TypeOK
<1>5. TypeOK'
  BY <1>1, <1>4, FailedType DEF Fails, TypeOK
<1>8. QueueInv'
  BY DEF QueueInv, IInv, Fails
<1>6. StaysInTransaction'
  BY DEF StaysInTransaction, IInv
<1>7. hit' \/ (~integrity' /\ method = "fromProfile" /\ \A j \in 1 .. Len(todo') : todo'[j].do \in {"drop", "skip"})
  BY <1>1 DEF Fails, Sound, Cleanups, Quarantined, AlarmInv
<1> QED BY <1>1, <1>3, <1>5, <1>6, <1>7, <1>8, FailKeeps

\* A step that goes on without effect on the drawings.
LEMMA GoesOnQuietly ==
  ASSUME IInv, told = "none", at \in 1 .. Len(Recipe), GoesOn, UNCHANGED <<drawing, made, reg, scope, pending>>,
         UNCHANGED <<inTransaction, script, method, args, told, roamed, switches, edits>>, active' \in Docs,
         active' = active \/ method = "open",
         Of.do \in {"skip", "use", "remember", "check", "open", "gone", "same"}, Knows,
         created' \in BOOLEAN, hit' \in BOOLEAN, hit => hit', pred' = Nil \/ pred' \in [Settings -> Values]
  PROVE  IInv'
<1>1. Advances /\ TypeOK
  BY StepOf DEF Advances, GoesOn
<1>2. Touches(Of) = {} /\ Undoes(Of) = {}
  BY StepOf, StepCells
<1>3. Keeps
  <2>1. drawing' = drawing /\ made' = made /\ at > 0
    BY StepOf
  <2>2. /\ \A d \in Docs, c \in Cells : drawing[d][c] = "new" => (c \in Objects => made[c] = d)
        /\ \A d \in Docs, c \in Cells : drawing[d][c] # "stray"
    BY <2>1 DEF IInv, DirtInv
  <2>3. Objects \subseteq Cells
    BY DEF Cells
  <2> QED BY <1>2, <2>1, <2>2, <2>3 DEF Keeps
<1>4. TypeOK'
  BY <1>1, GoneOnType DEF TypeOK
<1> QED BY <1>1, <1>3, <1>4, AdvanceKeeps

LEMMA SkipKeeps == ASSUME IInv, SkipStep PROVE IInv'
<1>1. Knows
  BY DEF Knows, SkipStep, Now, Of
<1>2. Of.do = "skip" /\ TypeOK
  BY DEF IInv, SkipStep, Now, Of
<1> QED BY <1>1, <1>2, GoesOnQuietly DEF SkipStep, Now, Still, userVars, TypeOK

LEMMA UseKeeps == ASSUME IInv, UseStep PROVE IInv'
<1>1. told = "none" /\ at \in 1 .. Len(Recipe) /\ Of.do = "use" /\ TypeOK /\ hit \in BOOLEAN /\ created \in BOOLEAN
  BY DEF IInv, UseStep, Now, Of, TypeOK
<1>2. CASE GoesOn /\ UNCHANGED <<pred, created, hit>>
  <2>1. Knows
    BY <1>1, <1>2 DEF Knows
  <2> QED BY <1>1, <1>2, <2>1, GoesOnQuietly DEF UseStep, Still, userVars, TypeOK
<1>3. CASE Fails /\ hit' = TRUE
  BY <1>1, <1>3, FailsQuietly DEF UseStep, Still, userVars, TypeOK
<1> QED BY <1>2, <1>3 DEF UseStep

LEMMA OpenKeeps == ASSUME IInv, OpenStep PROVE IInv'
<1>1. /\ told = "none" /\ at \in 1 .. Len(Recipe) /\ Of.do = "open" /\ TypeOK /\ hit \in BOOLEAN /\ created \in BOOLEAN
      /\ active' \in Docs
  BY DEF IInv, OpenStep, Now, Of, TypeOK
<1>2. method = "open"
  BY <1>1, StepOf DEF StepOK
<1>3. CASE GoesOn /\ UNCHANGED <<pred, created, hit>>
  <2>1. Knows
    BY <1>1, <1>3 DEF Knows
  <2> QED BY <1>1, <1>2, <1>3, <2>1, GoesOnQuietly DEF OpenStep, TypeOK
<1>4. CASE Fails /\ hit' = TRUE
  BY <1>1, <1>2, <1>4, FailsQuietly DEF OpenStep, TypeOK
<1> QED BY <1>3, <1>4 DEF OpenStep

LEMMA OneKeeps == ASSUME IInv, OneStep PROVE IInv'
<1>1. told = "none" /\ at \in 1 .. Len(Recipe) /\ Of.do = "one" /\ TypeOK /\ hit \in BOOLEAN /\ created \in BOOLEAN /\ active \in Docs
  BY DEF IInv, OneStep, Now, Of, TypeOK
<1>2. method = "fromProfile" /\ Of.on = "clean" /\ Touches(Of) = {} /\ Undoes(Of) = {"region2"} /\ at # 0
  BY <1>1, StepOf DEF StepOK, Touches, Undoes
<1>3. CASE Fails
  BY <1>1, <1>2, <1>3, FailsQuietly DEF OneStep, Still, userVars
<1>4. CASE made.region2 = Nil /\ GoesOn /\ UNCHANGED <<pred, created>>
  <2>1. Knows
    BY <1>1, <1>4 DEF Knows
  <2>2. Advances
    BY <1>1, <1>4 DEF Advances, GoesOn, OneStep, Still, userVars
  <2>3. drawing' = drawing /\ made' = made /\ UNCHANGED <<active, switches, edits, pending, hit, pred, created>>
    BY <1>4 DEF OneStep, Still, userVars
  <2>4. TypeOK'
    BY <1>1, <2>2, <2>3, GoneOnType DEF TypeOK
  <2>5. /\ \A d \in Docs, c \in Cells : drawing[d][c] = "new" => (c \in Objects => made[c] = d)
        /\ \A d \in Docs, c \in Cells : drawing[d][c] # "stray"
    BY <1>1, <1>2 DEF IInv, DirtInv
  <2>6. Objects \subseteq Cells /\ "region2" \in Objects /\ Nil \notin Docs /\ made["region2"] = Nil /\ "region2" \notin Settings
    BY <1>4, NilAssumption DEF Cells, Objects, Settings
  <2>7. Keeps
    BY <1>2, <2>3, <2>5, <2>6 DEF Keeps
  <2> QED BY <1>1, <1>2, <2>1, <2>2, <2>3, <2>4, <2>7, AdvanceKeeps
<1> QED BY <1>3, <1>4 DEF OneStep

LEMMA SameKeeps == ASSUME IInv, SameStep PROVE IInv'
<1>1. /\ told = "none" /\ at \in 1 .. Len(Recipe) /\ Of.do = "same" /\ TypeOK /\ hit \in BOOLEAN /\ created \in BOOLEAN
      /\ active \in Docs
  BY DEF IInv, SameStep, Now, Of, TypeOK
<1>2. CASE GoesOn /\ UNCHANGED <<pred, created>>
  <2>1. Knows
    BY <1>1, <1>2 DEF Knows
  <2> QED BY <1>1, <1>2, <2>1, GoesOnQuietly DEF SameStep, Still, userVars, TypeOK
<1>3. CASE Fails /\ \E c \in Settings \ {"style"} : drawing[reg.doc][c] # pred[c]
  <2>1. method = "screenshot" /\ Of = Recipe[at] /\ at # 0 /\ Sound(Recipe, Cleanup, Purpose)
    BY <1>1, StepOf DEF StepOK
  <2>2. PICK i \in 1 .. at - 1 : Recipe[i].do = "remember"
    BY <1>1, <2>1 DEF Sound, SameReady
  <2>3. hit
    BY <1>1, <1>3, <2>1, <2>2 DEF IInv, CalmInv, Calm
  <2> QED BY <1>1, <1>3, <2>3, FailsQuietly DEF SameStep, Still, userVars
<1> QED BY <1>2, <1>3 DEF SameStep

LEMMA RememberKeeps == ASSUME IInv, RememberStep PROVE IInv'
<1>1. /\ told = "none" /\ at \in 1 .. Len(Recipe) /\ Of.do = "remember" /\ TypeOK /\ hit \in BOOLEAN /\ created \in BOOLEAN
      /\ active \in Docs
  BY DEF IInv, RememberStep, Now, Of, TypeOK
<1>2. CASE Fails /\ hit' = TRUE
  BY <1>1, <1>2, FailsQuietly DEF RememberStep, Still, userVars
<1>3. CASE pred' = [c \in Settings |-> drawing[Seat(c, "doc")][c]] /\ at' = at + 1 /\ UNCHANGED <<integrity, created, todo, bad, escaped, hit>>
  <2>1. /\ Of = Recipe[at] /\ at # 0 /\ at \in Nat /\ Sound(Recipe, Cleanup, Purpose) /\ Nil \notin Docs /\ Len(Recipe) \in 1 .. 19
    BY <1>1, StepOf
  <2>2. PICK i \in 1 .. at - 1 : Recipe[i].do = "bind" /\ Recipe[i].reg = "doc"
    BY <1>1, <2>1 DEF Sound, Remembered
  <2>3. reg["doc"] \in Docs
    BY <1>1, <2>1, <2>2 DEF IInv, DirtInv, TypeOK, Registers
  <2>4. \A c \in Settings : Seat(c, "doc") \in Docs /\ (c # "style" => Seat(c, "doc") = reg.doc)
    BY <1>1, <2>3 DEF Seat
  <2>5. drawing \in [Docs -> [Cells -> Values]] /\ Settings \subseteq Cells /\ {"f1", "f2", "style"} \subseteq Settings
    BY <1>1 DEF TypeOK, Cells, Settings
  <2>6. pred' \in [Settings -> Values]
    BY <1>3, <2>4, <2>5
  <2>7. pred' # Nil
    BY <2>6, NilAssumption
  <2>8. ASSUME NEW c \in {"f1", "f2", "style"}
        PROVE  pred'[c] \notin {"new", "stray"}
    <3>1. c \notin Standing(at)
      BY <1>1, <2>1 DEF Standing, Sound, Remembered
    <3>2. pred'[c] = drawing[Seat(c, "doc")][c] /\ Seat(c, "doc") \in Docs /\ c \in Cells
      BY <1>3, <2>4, <2>5
    <3> QED BY <1>1, <2>1, <3>1, <3>2 DEF IInv, DirtInv, Borrowed
  <2>9. \A c \in Settings \ {"style"} : drawing[reg.doc][c] = pred'[c]
    BY <1>3, <2>4
  <2>10. Knows
    BY <1>1, <2>7, <2>8, <2>9 DEF Knows
  <2>11. GoesOn
    BY <1>3 DEF GoesOn
  <2> QED BY <1>1, <1>3, <2>6, <2>10, <2>11, GoesOnQuietly DEF RememberStep, Still, userVars
<1> QED BY <1>2, <1>3 DEF RememberStep

\* As long as the user stays, all the drawings that were got are one.
LEMMA OneDrawing ==
  ASSUME IInv, told = "none", ~roamed, method # "open", at \in 1 .. Len(Recipe) + 1,
         NEW i \in 1 .. at - 1, Recipe[i].do = "bind"
  PROVE  Recipe[i].reg \in Registers /\ reg[Recipe[i].reg] = active
<1>1. Len(Recipe) \in 1 .. 19 /\ \A k \in 1 .. Len(Recipe) : StepOK(Recipe[k])
  BY Running
<1>2. i \in 1 .. Len(Recipe)
  BY <1>1
<1>3. Recipe[i].reg \in Registers
  BY <1>1, <1>2 DEF StepOK
<1>4. reg[Recipe[i].reg] # Nil
  BY <1>1 DEF IInv, DirtInv
<1> QED BY <1>3, <1>4 DEF IInv, PlaceInv

LEMMA GoneKeeps == ASSUME IInv, GoneStep PROVE IInv'
<1>1. /\ told = "none" /\ at \in 1 .. Len(Recipe) /\ Of.do = "gone" /\ TypeOK /\ hit \in BOOLEAN /\ created \in BOOLEAN
      /\ active \in Docs
  BY DEF IInv, GoneStep, Now, Of, TypeOK
<1>2. CASE (reg.doc # reg.source \/ drawing[reg.doc].p1 = "new") /\ GoesOn /\ UNCHANGED <<pred, created, hit>>
  <2>1. Knows
    BY <1>1, <1>2 DEF Knows, GoneStep
  <2> QED BY <1>1, <1>2, <2>1, GoesOnQuietly DEF GoneStep, Still, userVars, TypeOK
<1>3. CASE drawing[reg.doc].p1 # "new" /\ Fails /\ UNCHANGED hit
  <2>1. /\ method = "xrefDetach" /\ Of = Recipe[at] /\ at # 0 /\ at \in Nat /\ Sound(Recipe, Cleanup, Purpose)
        /\ Len(Recipe) \in 1 .. 19
    BY <1>1, StepOf DEF StepOK
  <2>2. PICK i \in 1 .. at - 1 : Recipe[i].do = "bind" /\ Recipe[i].reg = "doc"
    BY <1>1, <2>1 DEF Sound, GoneReady
  <2>3. PICK j \in 1 .. at - 1 : Recipe[j].do = "bind" /\ Recipe[j].reg = "source"
    BY <1>1, <2>1 DEF Sound, GoneReady
  <2>4. PICK k \in 1 .. at - 1 : Recipe[k].do = "set" /\ Recipe[k].cell = "p1"
    BY <1>1, <2>1 DEF Sound, GoneReady
  <2>5. ASSUME ~hit
        PROVE  FALSE
    <3>1. ~roamed
      BY <2>5 DEF IInv, AlarmInv
    <3>2. at \in 1 .. Len(Recipe) + 1
      BY <1>1, <2>1
    <3>3. reg["doc"] = active /\ reg["source"] = active
      BY <1>1, <2>1, <2>2, <2>3, <3>1, <3>2, OneDrawing
    <3>4. drawing[At("p1")]["p1"] = "new"
      BY <1>1, <2>4, <2>5 DEF IInv, CalmInv, Calm, Borrowed
    <3>5. At("p1") = reg["source"]
      BY <2>1 DEF At, Home, Settings
    <3> QED BY <1>3, <3>3, <3>4, <3>5
  <2> QED BY <1>1, <1>3, <2>5, FailsQuietly DEF GoneStep, Still, userVars
<1> QED BY <1>2, <1>3 DEF GoneStep

LEMMA CheckKeeps == ASSUME IInv, CheckStep PROVE IInv'
<1>1. /\ told = "none" /\ at \in 1 .. Len(Recipe) /\ Of.do = "check" /\ TypeOK /\ hit \in BOOLEAN /\ created \in BOOLEAN
      /\ active \in Docs
  BY DEF IInv, CheckStep, Now, Of, TypeOK
<1>2. /\ Of = Recipe[at] /\ at # 0 /\ at \in Nat /\ Sound(Recipe, Cleanup, Purpose) /\ Len(Recipe) \in 1 .. 19 /\ StepOK(Of)
  BY <1>1, StepOf
<1>3. ASSUME NEW c \in Of.cell
      PROVE  /\ c \in Cells /\ Of.reg = Home(c) /\ At(c) \in Docs
             /\ c = "style" => method = "visualStyle"
             /\ c # "style" => Seat(c, Of.reg) = At(c)
             /\ c = "style" => Seat(c, Of.reg) = active
  <2>1. SureOf(Recipe[at], c)
    BY <1>1, <1>2 DEF SureOf
  <2>2. c \in Settings \ Borrowed /\ At(c) \in Docs /\ (c = "style" => method = "visualStyle")
    BY <1>1, <2>1, SeenBound, <1>2
  <2>3. Of.reg = Home(c)
    BY <1>1, <1>2 DEF StepOK
  <2> QED BY <2>2, <2>3 DEF Seat, At, Cells
<1>4. CASE (\A c \in Of.cell : drawing[Seat(c, Of.reg)][c] = "new") /\ GoesOn /\ UNCHANGED <<pred, created, hit>>
  <2>1. ASSUME NEW c \in Of.cell
        PROVE  drawing[At(c)][c] = "new"
    <3>1. Seat(c, Of.reg) \in Docs /\ drawing[Seat(c, Of.reg)][c] = "new"
      BY <1>1, <1>3, <1>4
    <3> QED BY <1>1, <1>2, <1>3, <3>1 DEF IInv, DirtInv
  <2>2. Knows
    BY <1>1, <1>4, <2>1 DEF Knows, CheckStep
  <2> QED BY <1>1, <1>4, <2>2, GoesOnQuietly DEF CheckStep, Still, userVars, TypeOK
<1>5. CASE /\ \E c \in Of.cell : drawing[Seat(c, Of.reg)][c] # "new"
           /\ Fails /\ hit' = (hit \/ \E d \in Docs : pending[d] # <<>>)
  <2>1. PICK c \in Of.cell : drawing[Seat(c, Of.reg)][c] # "new"
    BY <1>5
  <2>2. ASSUME ~hit, \A d \in Docs : pending[d] = <<>>
        PROVE  FALSE
    <3>1. PICK i \in 1 .. at - 1 : c = Recipe[i].cell /\ Recipe[i].do \in {"set", "command"}
      BY <1>1, <1>2 DEF Sound, Compared
    <3>2. i \in 1 .. Len(Recipe) /\ i <= at
      BY <1>1, <1>2
    <3>3. StepOK(Recipe[i]) /\ \A k \in 1 .. Len(Recipe) : StepOK(Recipe[k])
      BY <1>1, <3>2, Running
    <3>4. CASE c # "style"
      <4>1. Recipe[i].do = "set"
        BY <3>1, <3>3, <3>4 DEF StepOK
      <4>2. c \notin Borrowed
        BY <1>1, <1>2 DEF StepOK
      <4>3. drawing[At(c)][c] = "new"
        BY <1>1, <2>2, <3>1, <4>1, <4>2 DEF IInv, CalmInv, Calm
      <4> QED BY <1>3, <2>1, <3>4, <4>3
    <3>5. CASE c = "style"
      <4>1. method = "visualStyle" /\ Home("style") = "doc"
        BY <1>3, <3>5 DEF Home, Settings
      <4>2. "style" \in Touches(Recipe[i])
        BY <3>1, <3>5 DEF Touches
      <4>3. \A k \in i + 1 .. at - 1 : "style" \notin Undoes(Recipe[k])
        BY <1>1, <1>2, <3>2, <3>3, StepCells DEF Objects, Borrowed
      <4>4. "style" \in Standing(at)
        BY <4>2, <4>3 DEF Standing, Cells, Settings
      <4>5. reg.doc \in Docs
        BY <1>3, <3>5, <4>1 DEF At
      <4>6. drawing[reg.doc].style = "new"
        BY <1>1, <1>2, <2>2, <4>1, <4>4, <4>5 DEF IInv, CalmInv, Calm
      <4>7. ~roamed
        BY <2>2 DEF IInv, AlarmInv
      <4>8. reg.doc = active
        BY <4>1, <4>5, <4>7, NilAssumption DEF IInv, PlaceInv, Registers
      <4> QED BY <1>3, <2>1, <3>5, <4>6, <4>8
    <3> QED BY <3>4, <3>5
  <2>3. hit' = TRUE
    BY <1>1, <1>5, <2>2
  <2> QED BY <1>1, <1>5, <2>3, FailsQuietly DEF CheckStep, Still, userVars
<1> QED BY <1>4, <1>5 DEF CheckStep

\* What is dirty while the recipe runs.
LEMMA DirtOf ==
  ASSUME IInv, told = "none", at \in 1 .. Len(Recipe)
  PROVE  /\ drawing \in [Docs -> [Cells -> Values]] /\ made \in [Objects -> Docs \cup {Nil}] /\ pending \in [Docs -> Seq(Nat)]
         /\ \A d \in Docs, c \in Cells : drawing[d][c] = "new" => d = At(c) /\ (c \in Objects => made[c] = d)
         /\ \A d \in Docs, c \in Cells : drawing[d][c] # "stray"
         /\ \A c \in Objects : made[c] # Nil => made[c] \in Docs /\ made[c] = At(c)
         /\ \A c \in Objects : made[c] # Nil /\ c # "profile" => drawing[made[c]][c] = "new"
         /\ Objects \subseteq Cells /\ Settings \subseteq Cells /\ Nil \notin Docs /\ Objects \cap Settings = {}
         /\ {"none", "old", "new"} \subseteq Values
<1>1. at > 0
  OBVIOUS
<1>2. drawing \in [Docs -> [Cells -> Values]] /\ made \in [Objects -> Docs \cup {Nil}] /\ pending \in [Docs -> Seq(Nat)]
  BY DEF IInv, TypeOK
<1>3. /\ \A d \in Docs, c \in Cells : drawing[d][c] = "new" => d = At(c) /\ (c \in Objects => made[c] = d)
      /\ \A d \in Docs, c \in Cells : drawing[d][c] # "stray"
  BY <1>1 DEF IInv, DirtInv
<1>4. /\ \A c \in Objects : made[c] # Nil => made[c] \in Docs /\ made[c] = At(c)
      /\ \A c \in Objects : made[c] # Nil /\ c # "profile" => drawing[made[c]][c] = "new"
  BY <1>1, <1>2 DEF IInv, GainInv
<1>5. /\ Objects \subseteq Cells /\ Settings \subseteq Cells /\ Nil \notin Docs /\ Objects \cap Settings = {}
      /\ {"none", "old", "new"} \subseteq Values
  BY NilAssumption DEF Cells, Objects, Settings, Values
<1> QED BY <1>2, <1>3, <1>4, <1>5

Adds(d0, A) ==
  /\ \A d \in Docs, c \in Cells : d = d0 /\ c \in A => drawing'[d][c] = "new"
  /\ \A d \in Docs, c \in Cells : ~(d = d0 /\ c \in A) =>
       drawing'[d][c] = drawing[d][c] \/ (c = "profile" /\ drawing'[d][c] = "none")
  /\ \A c \in Objects : made'[c] = IF c \in A THEN d0 ELSE made[c]

LEMMA AddsKeep ==
  ASSUME IInv, told = "none", at \in 1 .. Len(Recipe), Undoes(Of) = {},
         NEW d0 \in Docs, d0 = reg[Of.reg], NEW A, A \subseteq Touches(Of), Touches(Of) \cap Objects \subseteq A \cup {"region", "region2"},
         Adds(d0, A)
  PROVE  Keeps
<1>1. /\ \A d \in Docs, c \in Cells : drawing[d][c] = "new" => d = At(c) /\ (c \in Objects => made[c] = d)
      /\ \A d \in Docs, c \in Cells : drawing[d][c] # "stray"
      /\ \A c \in Objects : made[c] # Nil => made[c] \in Docs /\ made[c] = At(c)
      /\ \A c \in Objects : made[c] # Nil /\ c # "profile" => drawing[made[c]][c] = "new"
      /\ Objects \subseteq Cells /\ Settings \subseteq Cells /\ Nil \notin Docs /\ Objects \cap Settings = {}
  BY DirtOf
<1>2. \A c \in A : d0 = At(c)
  BY StepOf
<1>3. "profile" \notin Settings
  BY DEF Settings
<1>4. \A d \in Docs, c \in Cells : drawing'[d][c] = "new" =>
       \/ drawing[d][c] = "new" /\ (c \notin Undoes(Of) \/ (c \in Borrowed /\ hit'))
       \/ c \in Touches(Of) /\ d = reg[Of.reg]
  BY DEF Adds
<1>5. \A d \in Docs, c \in Cells : drawing'[d][c] # "stray"
  BY <1>1 DEF Adds
<1>6. \A d \in Docs, c \in Objects : drawing'[d][c] = "new" => made'[c] = d
  BY <1>1, <1>2 DEF Adds
<1>7. ASSUME NEW c \in Objects, made'[c] # Nil
      PROVE  \/ made'[c] = made[c] /\ c \notin Undoes(Of) /\ (c = "profile" \/ drawing'[made[c]][c] = drawing[made[c]][c])
             \/ c \in Touches(Of) /\ made'[c] = reg[Of.reg] /\ drawing'[made'[c]][c] = "new"
  <2>1. CASE c \in A
    BY <1>1, <2>1 DEF Adds
  <2>2. CASE c \notin A
    BY <1>1, <1>7, <2>2 DEF Adds
  <2> QED BY <2>1, <2>2
<1>8. \A c \in Objects \ {"region", "region2"} :
       c \in Touches(Of) \/ (made[c] # Nil /\ c \notin Undoes(Of)) => made'[c] # Nil
  BY <1>1 DEF Adds
<1>9. \A d \in Docs, c \in Settings \ Borrowed : drawing'[d][c] \in {drawing[d][c], "new"}
  BY <1>1, <1>3 DEF Adds
<1> QED BY <1>4, <1>5, <1>6, <1>7, <1>8, <1>9 DEF Keeps

LEMMA MakeKeeps == ASSUME IInv, MakeStep PROVE IInv'
<1>1. /\ told = "none" /\ at \in 1 .. Len(Recipe) /\ Of.do = "make" /\ TypeOK /\ hit \in BOOLEAN /\ created \in BOOLEAN
      /\ active \in Docs
  BY DEF IInv, MakeStep, Now, Of, TypeOK
<1>2. CASE Fails /\ hit' = TRUE /\ UNCHANGED <<drawing, made>>
  BY <1>1, <1>2, FailsQuietly DEF MakeStep, Still, userVars
<1>3. CASE /\ Put(reg[Of.reg], Of.cell, "new") /\ made' = [made EXCEPT ![Of.cell] = reg[Of.reg]]
           /\ GoesOn /\ UNCHANGED <<pred, created, hit>>
  <2> DEFINE c0 == Of.cell
             d0 == reg[Of.reg]
  <2>1. c0 \in Objects \ {"region2"} /\ method # "screenshot"
    BY <1>1, StepOf DEF StepOK, Sound, SameReady
  <2>2. Touches(Of) = {c0} /\ Undoes(Of) = {}
    BY <1>1 DEF Touches, Undoes
  <2>3. d0 \in Docs /\ d0 = At(c0)
    BY <1>1, <2>2, StepOf
  <2>4. /\ Advances /\ Knows
        /\ UNCHANGED <<active, switches, edits, pending>>
    BY <1>1, <1>3 DEF Advances, Knows, GoesOn, MakeStep, Still, userVars
  <2>5. drawing' = [drawing EXCEPT ![d0][c0] = "new"] /\ made' = [made EXCEPT ![c0] = d0]
    BY <1>3 DEF Put
  <2> HIDE DEF c0, d0
  <2>6. /\ drawing' \in [Docs -> [Cells -> Values]] /\ made' \in [Objects -> Docs \cup {Nil}]
        /\ \A d \in Docs, c \in Cells : drawing'[d][c] = IF d = d0 /\ c = c0 THEN "new" ELSE drawing[d][c]
        /\ \A c \in Objects : made'[c] = IF c = c0 THEN d0 ELSE made[c]
    BY <1>1, <2>1, <2>3, <2>5, DirtOf
  <2>7. Keeps
    <3>1. Touches(Of) = {c0} /\ Undoes(Of) = {} /\ d0 = reg[Of.reg]
      BY <2>2 DEF d0
    <3>2. Adds(d0, {c0})
      BY <2>6 DEF Adds
    <3> QED BY <1>1, <2>3, <3>1, <3>2, AddsKeep
  <2>8. TypeOK'
    BY <1>1, <1>3, <2>4, <2>6, GoneOnType DEF TypeOK
  <2> QED BY <1>1, <2>1, <2>4, <2>7, <2>8, AdvanceKeeps
<1> QED BY <1>2, <1>3 DEF MakeStep

LEMMA AttachKeeps == ASSUME IInv, AttachStep PROVE IInv'
<1>1. /\ told = "none" /\ at \in 1 .. Len(Recipe) /\ Of.do = "attach" /\ TypeOK /\ hit \in BOOLEAN /\ created \in BOOLEAN
      /\ active \in Docs
  BY DEF IInv, AttachStep, Now, Of, TypeOK
<1>2. CASE Fails /\ hit' = TRUE /\ UNCHANGED <<drawing, made>>
  BY <1>1, <1>2, FailsQuietly DEF AttachStep, Still, userVars
<1> DEFINE d0 == reg[Of.reg]
<1>3. CASE /\ drawing' = [drawing EXCEPT ![d0].object = "new", ![d0].definition = "new"]
           /\ made' = [made EXCEPT !.object = d0, !.definition = d0]
           /\ GoesOn /\ UNCHANGED <<pred, created, hit>>
  <2>1. method # "screenshot"
    BY <1>1, StepOf DEF Sound, SameReady
  <2>2. Touches(Of) = {"object", "definition"} /\ Undoes(Of) = {}
    BY <1>1 DEF Touches, Undoes
  <2>3. d0 \in Docs /\ d0 = At("object") /\ d0 = At("definition")
    BY <1>1, <2>2, StepOf
  <2>4. /\ Advances /\ Knows
        /\ UNCHANGED <<active, switches, edits, pending>>
    BY <1>1, <1>3 DEF Advances, Knows, GoesOn, AttachStep, Still, userVars
  <2>5. "object" \in Objects /\ "definition" \in Objects
    BY DEF Objects
  <2> HIDE DEF d0
  <2>6. /\ drawing' \in [Docs -> [Cells -> Values]] /\ made' \in [Objects -> Docs \cup {Nil}]
        /\ \A d \in Docs, c \in Cells : drawing'[d][c] = IF d = d0 /\ c \in {"object", "definition"} THEN "new" ELSE drawing[d][c]
        /\ \A c \in Objects : made'[c] = IF c \in {"object", "definition"} THEN d0 ELSE made[c]
    <3>1. drawing' = [drawing EXCEPT ![d0] = [@ EXCEPT !["object"] = "new", !["definition"] = "new"]]
      BY <1>3 DEF d0
    <3>2. made' = [made EXCEPT !["object"] = d0, !["definition"] = d0]
      BY <1>3 DEF d0
    <3>3. drawing \in [Docs -> [Cells -> Values]] /\ made \in [Objects -> Docs \cup {Nil}] /\ "new" \in Values
          /\ "object" \in Cells /\ "definition" \in Cells
      BY <1>1, <2>5, DirtOf
    <3>4. /\ drawing' \in [Docs -> [Cells -> Values]]
          /\ \A d \in Docs, c \in Cells : drawing'[d][c] = IF d = d0 /\ c \in {"object", "definition"} THEN "new" ELSE drawing[d][c]
      BY <2>3, <3>1, <3>3
    <3>5. /\ made' \in [Objects -> Docs \cup {Nil}]
          /\ \A c \in Objects : made'[c] = IF c \in {"object", "definition"} THEN d0 ELSE made[c]
      BY <2>3, <2>5, <3>2, <3>3
    <3> QED BY <3>4, <3>5
  <2>7. Keeps
    <3>1. Touches(Of) = {"object", "definition"} /\ Undoes(Of) = {} /\ d0 = reg[Of.reg]
      BY <2>2 DEF d0
    <3>2. Adds(d0, {"object", "definition"})
      BY <2>6 DEF Adds
    <3> QED BY <1>1, <2>3, <3>1, <3>2, AddsKeep
  <2>8. TypeOK'
    BY <1>1, <1>3, <2>4, <2>6, GoneOnType DEF TypeOK
  <2> QED BY <1>1, <2>1, <2>4, <2>7, <2>8, AdvanceKeeps
<1> QED BY <1>2, <1>3 DEF AttachStep

LEMMA RegionsKeep == ASSUME IInv, RegionsStep PROVE IInv'
<1>1. /\ told = "none" /\ at \in 1 .. Len(Recipe) /\ Of.do = "regions" /\ TypeOK /\ hit \in BOOLEAN /\ created \in BOOLEAN
      /\ active \in Docs
  BY DEF IInv, RegionsStep, Now, Of, TypeOK
<1>2. CASE Fails /\ hit' = TRUE /\ UNCHANGED <<drawing, made>>
  BY <1>1, <1>2, FailsQuietly DEF RegionsStep, Still, userVars
<1>3. ASSUME NEW R \in {{}, {"region"}, {"region", "region2"}}, NEW consumed \in BOOLEAN,
             drawing' = [drawing EXCEPT ![reg.doc] = [c \in Cells |->
                           IF c \in R THEN "new" ELSE IF c = "profile" /\ consumed THEN "none" ELSE @[c]]],
             made' = [c \in Objects |-> IF c \in R THEN reg.doc ELSE made[c]],
             GoesOn, UNCHANGED <<pred, created, hit>>
      PROVE  IInv'
  <2>1. method # "screenshot" /\ Of.reg = "doc"
    BY <1>1, StepOf DEF Sound, SameReady, StepOK
  <2>2. Touches(Of) = {"region", "region2"} /\ Undoes(Of) = {}
    BY <1>1 DEF Touches, Undoes
  <2>3. reg.doc \in Docs /\ reg.doc = At("region") /\ reg.doc = At("region2")
    BY <1>1, <2>1, <2>2, StepOf
  <2>4. /\ Advances /\ Knows
        /\ UNCHANGED <<active, switches, edits, pending>>
    BY <1>1, <1>3 DEF Advances, Knows, GoesOn, RegionsStep, Still, userVars
  <2>5. {"region", "region2", "profile"} \subseteq Objects /\ R \subseteq {"region", "region2"}
    BY DEF Objects
  <2>6. /\ drawing' \in [Docs -> [Cells -> Values]] /\ made' \in [Objects -> Docs \cup {Nil}]
        /\ \A d \in Docs, c \in Cells : drawing'[d][c] =
             IF d # reg.doc THEN drawing[d][c]
             ELSE IF c \in R THEN "new" ELSE IF c = "profile" /\ consumed THEN "none" ELSE drawing[d][c]
        /\ \A c \in Objects : made'[c] = IF c \in R THEN reg.doc ELSE made[c]
    BY <1>1, <1>3, <2>3, <2>5, DirtOf
  <2>7. Keeps
    <3>1. Adds(reg.doc, R)
      BY <2>3, <2>5, <2>6, DirtOf, <1>1 DEF Adds
    <3>2. reg.doc = reg[Of.reg]
      BY <2>1
    <3> QED BY <1>1, <2>2, <2>3, <2>5, <3>1, <3>2, AddsKeep
  <2>8. TypeOK'
    BY <1>1, <1>3, <2>4, <2>6, GoneOnType DEF TypeOK
  <2> QED BY <1>1, <2>1, <2>4, <2>7, <2>8, AdvanceKeeps
<1> QED BY <1>2, <1>3 DEF RegionsStep

LEMMA ChangeKeeps == ASSUME IInv, ChangeStep PROVE IInv'
<1> DEFINE c0 == Of.cell
           d0 == reg[Of.reg]
<1>1. /\ told = "none" /\ at \in 1 .. Len(Recipe) /\ Of.do = "set" /\ TypeOK /\ hit \in BOOLEAN /\ created \in BOOLEAN
      /\ active \in Docs
  BY DEF IInv, ChangeStep, Now, Of, TypeOK
<1>2. c0 \in Settings /\ c0 \notin Objects /\ method # "screenshot"
  BY <1>1, StepOf DEF StepOK, Sound, SameReady, Settings, Objects
<1>3. Touches(Of) = {c0} /\ Undoes(Of) = {}
  BY <1>1 DEF Touches, Undoes
<1>4. d0 \in Docs /\ d0 = At(c0) /\ Of.reg = Home(c0) /\ c0 \in Cells
  BY <1>1, <1>3, StepOf
<1>5. ASSUME Put(d0, c0, "new")
      PROVE  /\ drawing' \in [Docs -> [Cells -> Values]]
             /\ \A d \in Docs, c \in Cells : drawing'[d][c] = IF d = d0 /\ c = c0 THEN "new" ELSE drawing[d][c]
  <2>1. drawing' = [drawing EXCEPT ![d0][c0] = "new"]
    BY <1>5 DEF Put
  <2> HIDE DEF c0, d0
  <2> QED BY <1>1, <1>4, <2>1, DirtOf
<1>6. ASSUME GoesOn, UNCHANGED <<pred, created>>, hit' \in BOOLEAN, hit => hit',
             \/ Put(d0, c0, "new")
             \/ hit' = TRUE /\ drawing' = drawing
      PROVE  IInv'
  <2>1. Advances /\ UNCHANGED <<active, switches, edits, pending, made>>
    BY <1>1, <1>6 DEF Advances, GoesOn, ChangeStep, Still, userVars
  <2>2. drawing' \in [Docs -> [Cells -> Values]]
    BY <1>1, <1>5, <1>6, DirtOf
  <2>3. TypeOK'
    BY <1>1, <1>6, <2>1, <2>2, GoneOnType DEF TypeOK
  <2>4. Keeps
    <3>1. CASE Put(d0, c0, "new")
      <4>1. Adds(d0, {c0})
        BY <1>2, <1>5, <2>1, <3>1 DEF Adds
      <4> QED BY <1>1, <1>2, <1>3, <1>4, <4>1, AddsKeep
    <3>2. CASE drawing' = drawing
      <4>1. Adds(d0, {})
        BY <2>1, <3>2 DEF Adds
      <4> QED BY <1>1, <1>2, <1>3, <1>4, <4>1, AddsKeep
    <3> QED BY <1>6, <3>1, <3>2
  <2>5. Put(d0, c0, "new") => drawing'[d0][c0] = "new"
    BY <1>4, <1>5
  <2>6. Knows
    BY <1>1, <1>6, <2>5 DEF Knows
  <2> QED BY <1>1, <1>2, <2>1, <2>3, <2>4, <2>6, AdvanceKeeps
<1>7. ASSUME Fails, hit' = TRUE, drawing' = drawing \/ Put(d0, c0, "new")
      PROVE  IInv'
  <2>1. Failing /\ UNCHANGED <<active, switches, edits, made, bad, pending>>
    BY <1>1, <1>7 DEF Failing, Fails, ChangeStep, Still, userVars
  <2>2. drawing' \in [Docs -> [Cells -> Values]]
    BY <1>1, <1>5, <1>7, DirtOf
  <2>3. Found
    <3>1. c0 \in Touches(Of) \cap Settings
      BY <1>2, <1>3
    <3>2. \A d \in Docs, c \in Cells : drawing'[d][c] = drawing[d][c] \/ (d = d0 /\ c = c0 /\ drawing'[d][c] = "new")
      BY <1>5, <1>7
    <3>3. \A d \in Docs, c \in Cells : drawing[d][c] # "stray"
      BY <1>1, DirtOf
    <3> QED BY <2>1, <3>1, <3>2, <3>3 DEF Found
  <2>4. CleanupInv'
    BY <1>1, <1>7, <2>1, <2>3, FailedCleanup
  <2>5. {escaped', integrity', created', hit'} \subseteq BOOLEAN
    BY <1>1, <1>7 DEF Fails, Quarantined, TypeOK
  <2>6. TypeOK'
    BY <1>1, <2>1, <2>2, <2>5, FailedType DEF TypeOK
  <2>8. QueueInv'
    BY <2>1 DEF QueueInv, IInv, Failing
  <2>7. StaysInTransaction'
    <3>1. ASSUME inTransaction
          PROVE  d0 = scope
      BY <1>4, <3>1, NilAssumption DEF IInv, PlaceInv, Home, Registers
    <3>2. UNCHANGED <<inTransaction, method, scope>>
      BY <2>1 DEF Failing
    <3>3. \A d \in Docs, c \in Cells : drawing'[d][c] \in {"new", "stray"} => drawing[d][c] \in {"new", "stray"} \/ d = d0
      BY <1>5, <1>7
    <3> QED BY <3>1, <3>2, <3>3 DEF StaysInTransaction, IInv
  <2> QED BY <1>7, <2>1, <2>4, <2>6, <2>7, <2>8, FailKeeps
<1> QED BY <1>1, <1>6, <1>7 DEF ChangeStep

\* A call sends one command, before which nothing of it is in the style's place.
LEMMA CommandQueues ==
  ASSUME IInv, told = "none", at \in 1 .. Len(Recipe), Of.do = "command", Queued
  PROVE  /\ reg.doc \in Docs /\ reg.doc = At("style") /\ method = "visualStyle" /\ Touches(Of) = {"style"} /\ Undoes(Of) = {}
         /\ pending' \in [Docs -> Seq(Nat)] /\ pending \in [Docs -> Seq(Nat)] /\ Len(script) \in Nat
         /\ \A d \in Docs : pending'[d] = IF d = reg.doc THEN Append(pending[d], Len(script)) ELSE pending[d]
         /\ \A d \in Docs : \A i \in 1 .. Len(pending'[d]) :
              /\ pending'[d][i] >= Len(script)
              /\ pending'[d][i] = Len(script) => d = reg.doc /\ i = Len(pending'[d])
         /\ "style" \notin Sure(at) /\ \A d \in Docs : drawing[d].style # "new"
<1>1. /\ method = "visualStyle" /\ Of.cell = "style" /\ Of = Recipe[at] /\ Of.reg = "doc" /\ at \in Nat /\ at # 0
      /\ Sound(Recipe, Cleanup, Purpose) /\ Len(Recipe) \in 1 .. 19 /\ \A i \in 1 .. Len(Recipe) : StepOK(Recipe[i])
  BY StepOf, Running DEF StepOK
<1>2. Touches(Of) = {"style"} /\ Undoes(Of) = {}
  BY <1>1 DEF Touches, Undoes
<1>3. reg.doc \in Docs /\ reg.doc = At("style")
  BY <1>1, <1>2, StepOf
<1>4. script \in Seq(AllMethods) /\ Len(script) \in Nat /\ pending \in [Docs -> Seq(Nat)]
  BY DEF IInv, TypeOK
<1>5. /\ pending' \in [Docs -> Seq(Nat)]
      /\ \A d \in Docs : pending'[d] = IF d = reg.doc THEN Append(pending[d], Len(script)) ELSE pending[d]
  BY <1>3, <1>4 DEF Queued
<1>6. \A i \in 1 .. at - 1 : i \in 1 .. Len(Recipe) /\ Recipe[i].do \notin {"command", "check"}
  BY <1>1 DEF Sound, CommandReady
<1>7. "style" \notin Standing(at)
  BY <1>1, <1>6, StepCells DEF Standing
<1>8. "style" \notin Sure(at)
  BY <1>1, <1>6 DEF Sure
<1>9. \A d \in Docs : drawing[d].style # "new"
  <2>1. "style" \in Cells /\ "style" \notin Borrowed
    BY DEF Cells, Settings, Borrowed
  <2> QED BY <1>1, <1>7, <2>1 DEF IInv, DirtInv
<1>10. ASSUME NEW d \in Docs, NEW i \in 1 .. Len(pending[d])
       PROVE  pending[d][i] > Len(script) /\ pending[d][i] \in Nat
  <2>1. pending[d][i] \in Nat /\ pending[d][i] >= Len(script) /\ pending[d][i] # Len(script)
    BY <1>1, <1>4, <1>7 DEF QueueInv, IInv
  <2> QED BY <1>4, <2>1
<1>11. ASSUME NEW i \in 1 .. Len(pending'[reg.doc])
       PROVE  /\ pending'[reg.doc][i] >= Len(script)
              /\ pending'[reg.doc][i] = Len(script) => i = Len(pending'[reg.doc])
  <2>1. pending'[reg.doc] = Append(pending[reg.doc], Len(script)) /\ pending[reg.doc] \in Seq(Nat)
    BY <1>3, <1>4, <1>5
  <2>2. CASE i = Len(pending[reg.doc]) + 1
    BY <1>4, <2>1, <2>2
  <2>3. CASE i \in 1 .. Len(pending[reg.doc])
    <3>1. pending'[reg.doc][i] = pending[reg.doc][i]
      BY <2>1, <2>3
    <3> QED BY <1>3, <1>4, <1>10, <2>3, <3>1
  <2> QED BY <2>1, <2>2, <2>3
<1>12. ASSUME NEW d \in Docs, NEW i \in 1 .. Len(pending'[d])
       PROVE  /\ pending'[d][i] >= Len(script)
              /\ pending'[d][i] = Len(script) => d = reg.doc /\ i = Len(pending'[d])
  <2>1. CASE d = reg.doc
    BY <1>11, <2>1
  <2>2. CASE d # reg.doc
    BY <1>4, <1>5, <1>10, <2>2
  <2> QED BY <2>1, <2>2
<1> QED BY <1>1, <1>2, <1>3, <1>4, <1>5, <1>8, <1>9, <1>12

LEMMA CommandKeeps == ASSUME IInv, CommandStep PROVE IInv'
<1>1. /\ told = "none" /\ at \in 1 .. Len(Recipe) /\ Of.do = "command" /\ TypeOK /\ hit \in BOOLEAN /\ created \in BOOLEAN
      /\ active \in Docs
  BY DEF IInv, CommandStep, Now, Of, TypeOK
<1>2. CASE Fails /\ hit' = TRUE /\ UNCHANGED pending
  BY <1>1, <1>2, FailsQuietly DEF CommandStep, Still, userVars
<1>4. CASE Fails /\ hit' = TRUE /\ Queued
  <2>1. /\ Failing /\ Found /\ UNCHANGED <<active, switches, edits, drawing, made, bad>>
        /\ pending' \in [Docs -> Seq(Nat)]
    BY <1>1, <1>4, CommandQueues, DirtOf DEF Failing, Fails, Found, CommandStep, Still, userVars
  <2>2. CleanupInv'
    BY <1>1, <1>4, <2>1, FailedCleanup
  <2>3. {escaped', integrity', created', hit'} \subseteq BOOLEAN
    BY <1>1, <1>4 DEF Fails, Quarantined, TypeOK
  <2>4. TypeOK'
    BY <1>1, <2>1, <2>3, FailedType DEF TypeOK
  <2>5. StaysInTransaction'
    BY <2>1 DEF StaysInTransaction, IInv, Failing
  <2>6. QueueInv'
    BY <1>1, <1>4, <2>1, CommandQueues DEF QueueInv, Failing
  <2> QED BY <1>4, <2>1, <2>2, <2>4, <2>5, <2>6, FailKeeps
<1>3. CASE Queued /\ GoesOn /\ UNCHANGED <<pred, created, hit>>
  <2>1. /\ method = "visualStyle" /\ Of = Recipe[at] /\ Of.reg = "doc" /\ at \in Nat /\ at # 0
        /\ Len(Recipe) \in 1 .. 19 /\ \A i \in 1 .. Len(Recipe) : StepOK(Recipe[i])
    BY <1>1, StepOf, Running DEF StepOK
  <2>2. /\ reg.doc \in Docs /\ reg.doc = At("style") /\ Touches(Of) = {"style"} /\ Undoes(Of) = {}
        /\ pending' \in [Docs -> Seq(Nat)] /\ pending \in [Docs -> Seq(Nat)] /\ Len(script) \in Nat
        /\ \A d \in Docs : pending'[d] = IF d = reg.doc THEN Append(pending[d], Len(script)) ELSE pending[d]
        /\ "style" \notin Sure(at) /\ \A d \in Docs : drawing[d].style # "new"
    BY <1>1, <1>3, CommandQueues
  <2>4. Advances /\ Knows /\ UNCHANGED <<active, switches, edits, drawing, made>>
    BY <1>1, <1>3 DEF Advances, Knows, GoesOn, CommandStep, Still, userVars
  <2>5. Adds(reg.doc, {})
    BY <2>4 DEF Adds
  <2>6. Keeps
    BY <1>1, <2>1, <2>2, <2>5, AddsKeep DEF Objects
  <2>7. DirtInv' /\ GainInv' /\ PredInv' /\ StaysInTransaction'
    BY <2>4, <2>6, AdvanceDirt, AdvanceGain, AdvancePred, AdvanceInPlace
  <2>10. TypeOK'
    BY <1>1, <1>3, <2>2, <2>4, GoneOnType, DirtOf DEF TypeOK
  <2>14. /\ Standing(at)' = Standing(at) \cup {"style"}
         /\ Sure(at)' = Sure(at) \cup {c \in Settings : SureOf(Of, c)}
    BY <2>1, <2>2, <2>4, <1>1, StandingGoes DEF Advances, Cells, Settings
  <2>15. "style" \notin Sure(at)'
    BY <1>1, <2>2, <2>14 DEF SureOf
  <2>16. told' = "none" /\ reg' = reg /\ script' = script /\ method' = method /\ at' > 0
    BY <1>1, <2>1, <2>4 DEF Advances
  <2>17. QueueInv'
    <3>1. "style" \in Standing(at)'
      BY <2>14
    <3>2. ASSUME NEW d \in Docs, NEW i \in 1 .. Len(pending'[d])
          PROVE  /\ pending'[d][i] >= Len(script)
                 /\ pending'[d][i] = Len(script) => d = reg.doc /\ i = Len(pending'[d])
      BY <1>1, <1>3, CommandQueues
    <3> QED BY <2>1, <2>16, <3>1, <3>2 DEF QueueInv
  <2>18. StyleInv'
    BY <2>2, <2>4, <2>15, <2>16 DEF StyleInv
  <2>19. CalmInv'
    <3>1. /\ Recipe' = Recipe /\ (\A c : At(c)' = At(c)) /\ 1 .. at' - 1 = 1 .. at
          /\ (\A i \in 1 .. at : i \in 1 .. at - 1 \/ i = at)
      BY <2>1, <2>4, <2>16, SameRecipe DEF Advances, At
    <3>2. ASSUME ~hit, NEW i \in 1 .. at, Recipe[i].do = "set", Recipe[i].cell \notin Borrowed
          PROVE  drawing[At(Recipe[i].cell)][Recipe[i].cell] = "new"
      BY <1>1, <2>1, <3>1, <3>2 DEF CalmInv, Calm, IInv
    <3>3. pending'[reg.doc] # <<>> /\ pending'[reg.doc][Len(pending'[reg.doc])] = Len(script)
      <4>1. pending'[reg.doc] = Append(pending[reg.doc], Len(script)) /\ pending[reg.doc] \in Seq(Nat)
        BY <2>2
      <4>2. \A s \in Seq(Nat), n \in Nat : Len(Append(s, n)) = Len(s) + 1 /\ Append(s, n)[Len(s) + 1] = n /\ Len(s) \in Nat
        OBVIOUS
      <4>3. Len(pending'[reg.doc]) # 0
        BY <2>2, <4>1, <4>2
      <4> QED BY <2>2, <4>1, <4>2, <4>3
    <3>4. ASSUME ~hit
          PROVE  Calm'
      <4>1. at' # 0 /\ method' # "screenshot"
        BY <2>1, <2>16
      <4>2. \A i \in 1 .. at' - 1 : Recipe'[i].do = "set" /\ Recipe'[i].cell \notin Borrowed =>
              drawing'[At(Recipe[i].cell)'][Recipe'[i].cell] = "new"
        BY <2>4, <3>1, <3>2, <3>4
      <4>3. pending'[reg'.doc] # <<>> /\ pending'[reg'.doc][Len(pending'[reg'.doc])] = Len(script')
        BY <2>16, <3>3
      <4> QED BY <4>1, <4>2, <4>3 DEF Calm, At, Standing, Borrowed
    <3> QED BY <1>3, <3>4 DEF CalmInv
  <2>20. PlaceInv'
    <3>1. \A d \in Docs : pending[d] = <<>> => pending'[d] = <<>> \/ d = reg.doc
      BY <2>2
    <3> QED BY <2>4, <2>10, <3>1, PlaceStays DEF Advances
  <2>21. OkInv' /\ NothingLeftBehind'
    BY <2>16, NotAnswered
  <2>22. CleanupInv'
    BY <2>16 DEF CleanupInv
  <2>23. AlarmInv'
    BY <1>3, <2>4 DEF AlarmInv, IInv, Advances
  <2> QED BY <2>7, <2>10, <2>17, <2>18, <2>19, <2>20, <2>21, <2>22, <2>23 DEF IInv
<1> QED BY <1>2, <1>3, <1>4 DEF CommandStep

LEMMA BindKeeps == ASSUME IInv, BindStep PROVE IInv'
<1>1. /\ told = "none" /\ at \in 1 .. Len(Recipe) /\ Of.do = "bind" /\ TypeOK /\ hit \in BOOLEAN /\ created \in BOOLEAN
      /\ active \in Docs
  BY DEF IInv, BindStep, Now, Of, TypeOK
<1>2. CASE Fails /\ hit' = TRUE /\ UNCHANGED <<reg, scope>>
  BY <1>1, <1>2, FailsQuietly DEF BindStep, Still, userVars
<1>3. CASE /\ inTransaction => scope \in {Nil, active}
           /\ reg' = [reg EXCEPT ![Of.reg] = active] /\ scope' = active /\ created' = (created /\ scope = active)
           /\ GoesOn /\ UNCHANGED <<pred, hit>>
  <2>1. /\ UNCHANGED <<drawing, made, pending, inTransaction, script, method, args, told, active, roamed, switches, edits>>
        /\ at' = at + 1 /\ UNCHANGED <<integrity, todo, bad, escaped, pred, hit>>
    BY <1>3 DEF BindStep, GoesOn, Still, userVars
  <2>2. /\ Of = Recipe[at] /\ Of.reg \in Registers /\ at \in Nat /\ at # 0 /\ Nil \notin Docs /\ Len(Recipe) \in 1 .. 19
        /\ \A i \in 1 .. Len(Recipe) : StepOK(Recipe[i])
    BY <1>1, StepOf, Running DEF StepOK
  <2>3. \A i \in 1 .. at : Touches(Recipe[i]) = {} /\ Recipe[i].do \in {"bind", "use", "skip"}
    BY <1>1, <2>2, Unbound DEF Touches
  <2>4. /\ Recipe' = Recipe /\ 1 .. at' - 1 = 1 .. at /\ at' > 0 /\ at' <= Len(Recipe) + 1
        /\ \A i \in 1 .. at : i \in 1 .. at - 1 \/ i = at
    BY <1>1, <2>1, <2>2, SameRecipe
  <2>5. Standing(at) = {} /\ Standing(at)' = {}
    <3> DEFINE S(i) == Touches(Recipe[i]) = {}
    <3>3. at \in 1 .. at /\ 1 .. at - 1 \subseteq 1 .. at
      BY <2>2
    <3>4. \A i \in 1 .. at : S(i)
      BY <2>3
    <3> HIDE DEF S
    <3>5. S(at) /\ \A i \in 1 .. at - 1 : S(i)
      BY <3>3, <3>4
    <3>1. Standing(at) = {}
      BY <3>5 DEF Standing, S
    <3>2. Touches(Recipe[at]) = {}
      BY <3>5 DEF S
    <3> QED BY <1>1, <2>1, <2>2, <3>1, <3>2, StandingGoes
  <2>6. Sure(at)' = {}
    BY <2>3, <2>4 DEF Sure
  <2>7. /\ \A d \in Docs, c \in Cells : drawing[d][c] \notin {"new", "stray"}
        /\ \A c \in Objects : made[c] = Nil
    <3>1. /\ \A d \in Docs, c \in Cells : drawing[d][c] = "new" => \E i \in 1 .. at - 1 : c \in Touches(Recipe[i])
          /\ \A d \in Docs, c \in Cells : drawing[d][c] # "stray"
      BY <1>1, <2>2 DEF IInv, DirtInv
    <3>2. \A i \in 1 .. at - 1 : Touches(Recipe[i]) = {}
      BY <1>1, Unbound
    <3>3. \A c \in Objects : made[c] = Nil
      BY <1>1, <2>2, <2>5 DEF IInv, GainInv
    <3>4. \A d \in Docs, c \in Cells : drawing[d][c] # "new"
      BY <3>1, <3>2, Zenon
    <3> QED BY <3>1, <3>3, <3>4
  <2>8. reg \in [Registers -> Docs \cup {Nil}] /\ \A r \in Registers : reg'[r] = IF r = Of.reg THEN active ELSE reg[r]
    BY <1>1, <1>3, <2>2 DEF TypeOK
  <2>9. TypeOK'
    <3>1. at' \in 0 .. 20 /\ reg' \in [Registers -> Docs \cup {Nil}] /\ scope' \in Docs \cup {Nil} /\ created' \in BOOLEAN
      <4>1. \A L \in 1 .. 19 : \A a \in 1 .. L : a + 1 \in 0 .. 20
        OBVIOUS
      <4> QED BY <1>1, <1>3, <2>1, <2>2, <2>8, <4>1
    <3>2. todo = <<>> /\ ~escaped
      BY <1>1, StepOf
    <3> QED BY <1>1, <2>1, <3>1, <3>2 DEF TypeOK
  <2>10. PlaceInv'
    <3>1. inTransaction => active = scope
      BY <1>3, <2>2 DEF PlaceInv, IInv
    <3> QED BY <1>1, <1>3, <2>1, <2>8, <3>1 DEF PlaceInv, IInv
  <2>11. DirtInv'
    <3>1. ASSUME NEW i \in 1 .. at, Recipe[i].do = "bind"
          PROVE  reg'[Recipe[i].reg] # Nil
      <4>1. i \in 1 .. Len(Recipe)
        BY <1>1, <2>2
      <4>2. Recipe[i].reg \in Registers
        BY <2>2, <3>1, <4>1 DEF StepOK
      <4>3. CASE i = at
        BY <1>1, <2>2, <2>8, <4>2, <4>3
      <4>4. CASE i \in 1 .. at - 1
        <5>1. reg[Recipe[i].reg] # Nil
          BY <1>1, <2>2, <3>1, <4>4 DEF IInv, DirtInv
        <5> QED BY <1>1, <2>2, <2>8, <4>2, <5>1
      <4> QED BY <2>4, <4>3, <4>4
    <3> QED BY <2>1, <2>4, <2>7, <3>1 DEF DirtInv
  <2>12. GainInv'
    <3>1. \A i \in 1 .. at' - 1 : Recipe'[i].do # "gone"
      BY <2>3, <2>4
    <3> QED BY <2>1, <2>5, <2>6, <2>7, <3>1 DEF GainInv
  <2>13. PredInv'
    <3>1. \A i \in 1 .. at' - 1 : Recipe'[i].do # "remember"
      BY <2>3, <2>4
    <3> QED BY <1>1, <2>1, <3>1 DEF PredInv, IInv
  <2>14. QueueInv'
    BY <1>1, <2>1, <2>2, <2>5 DEF QueueInv, IInv
  <2>15. StyleInv'
    <3>1. "style" \in Cells
      BY DEF Cells, Settings
    <3> QED BY <1>1, <2>1, <2>6, <2>7, <3>1 DEF StyleInv
  <2>16. CalmInv'
    <3>1. \A i \in 1 .. at' - 1 : Recipe'[i].do \notin {"set", "remember"}
      BY <2>3, <2>4
    <3> QED BY <2>4, <2>5, <3>1 DEF CalmInv, Calm
  <2>17. OkInv' /\ NothingLeftBehind'
    BY <1>1, <2>1, NotAnswered
  <2>18. CleanupInv'
    BY <2>4 DEF CleanupInv
  <2>19. AlarmInv'
    BY <2>1 DEF AlarmInv, IInv
  <2>20. StaysInTransaction'
    BY <2>1, <2>7 DEF StaysInTransaction
  <2> QED BY <2>9, <2>10, <2>11, <2>12, <2>13, <2>14, <2>15, <2>16, <2>17, <2>18, <2>19, <2>20 DEF IInv
<1> QED BY <1>2, <1>3 DEF BindStep

\* What a call may leave depends on its method and on what has escaped.
LEMMA UnguardedStays ==
  ASSUME method' = method, args' = args
  PROVE  /\ Escapes' = Escapes
         /\ escaped' = escaped => Unguarded' = Unguarded
         /\ (escaped => escaped') => Unguarded \subseteq Unguarded'
BY SameRecipe DEF Escapes, Unguarded, Reporting, Borrowed

LEMMA DropKeeps == ASSUME IInv, DropStep PROVE IInv'
<1> DEFINE c0 == Of.cell
           d0 == IF made[c0] = Nil THEN reg[Of.reg] ELSE made[c0]
<1>1. /\ told = "none" /\ at \in 1 .. Len(Recipe) /\ Of.do = "drop" /\ TypeOK /\ hit \in BOOLEAN /\ created \in BOOLEAN
      /\ active \in Docs /\ integrity \in BOOLEAN
  BY DEF IInv, DropStep, Now, Of, TypeOK
<1>2. /\ c0 \in Objects \ {"region2"} /\ method # "screenshot" /\ Of.on = "clean" /\ Of.reg = Home(c0)
      /\ ~escaped /\ Sound(Recipe, Cleanup, Purpose)
  BY <1>1, StepOf DEF StepOK, Sound, SameReady
<1>3. Touches(Of) = {} /\ Undoes(Of) = {c0}
  BY <1>1 DEF Touches, Undoes
<1>4. made' = [made EXCEPT ![c0] = Nil]
  BY DEF DropStep, Dropped
<1>5. /\ made' \in [Objects -> Docs \cup {Nil}]
      /\ \A c \in Objects : made'[c] = IF c = c0 THEN Nil ELSE made[c]
  BY <1>1, <1>2, <1>4, DirtOf
<1>6. Gone(Of) = [drawing EXCEPT ![d0][c0] = "none"]
  BY DEF Gone
<1>7. /\ Gone(Of) \in [Docs -> [Cells -> Values]]
      /\ \A d \in Docs, c \in Cells : Gone(Of)[d][c] = IF d = d0 /\ c = c0 THEN "none" ELSE drawing[d][c]
  <2> HIDE DEF c0, d0
  <2>1. c0 \in Cells /\ "none" \in Values /\ drawing \in [Docs -> [Cells -> Values]]
    BY <1>1, <1>2, DirtOf
  <2>2. CASE d0 \in Docs
    BY <1>6, <2>1, <2>2
  <2>3. CASE d0 \notin Docs
    BY <1>6, <2>1, <2>3
  <2> QED BY <2>2, <2>3
<1>8. CASE Removes(Of, "verified") /\ GoesOn /\ UNCHANGED <<pred, created>>
  <2>1. made[c0] \in {Nil, reg[Of.reg]}
    BY <1>1, <1>2, DirtOf DEF At
  <2>2. drawing' = Gone(Of) /\ hit' = hit
    BY <1>8, <2>1 DEF Removes, ReadsBack
  <2>3. Advances /\ Knows /\ UNCHANGED <<active, switches, edits, pending>>
    BY <1>1, <1>8, <2>2 DEF Advances, Knows, GoesOn, DropStep, Still, userVars
  <2>4. TypeOK'
    BY <1>1, <1>5, <1>7, <1>8, <2>2, <2>3, GoneOnType DEF TypeOK
  <2>5. Keeps
    <3>1. \A d \in Docs, c \in Cells : drawing'[d][c] = IF d = d0 /\ c = c0 THEN "none" ELSE drawing[d][c]
      BY <1>7, <2>2
    <3>2. /\ \A d \in Docs, c \in Cells : drawing[d][c] = "new" => (c \in Objects => made[c] = d)
          /\ \A d \in Docs, c \in Cells : drawing[d][c] # "stray"
          /\ \A c \in Objects : made[c] # Nil => made[c] \in Docs
          /\ Objects \subseteq Cells /\ Settings \subseteq Cells /\ Nil \notin Docs /\ Objects \cap Settings = {}
      BY <1>1, DirtOf
    <3>3. \A d \in Docs, c \in Cells : drawing'[d][c] = "new" => drawing[d][c] = "new" /\ c # c0
      BY <1>2, <3>1, <3>2
    <3>4. \A c \in Objects : made'[c] # Nil => made'[c] = made[c] /\ c # c0 /\ drawing'[made[c]][c] = drawing[made[c]][c]
      BY <1>5, <3>1, <3>2
    <3>5. \A d \in Docs, c \in Settings : drawing'[d][c] = drawing[d][c]
      BY <1>2, <3>1, <3>2
    <3>6. \A d \in Docs, c \in Cells : drawing'[d][c] # "stray"
      BY <3>1, <3>2
    <3> QED BY <1>3, <1>5, <3>2, <3>3, <3>4, <3>5, <3>6 DEF Keeps
  <2> QED BY <1>1, <1>2, <2>3, <2>4, <2>5, AdvanceKeeps
<1>9. CASE Removes(Of, "doubtful") /\ Quarantined(TRUE) /\ at' = 0 /\ todo' = Cleanup /\ UNCHANGED <<pred, bad, escaped>>
  <2>1. hit' = TRUE /\ drawing' \in {drawing, Gone(Of)}
    BY <1>9 DEF Removes, ReadsBack
  <2>2. Failing /\ UNCHANGED <<active, switches, edits, bad, pending, escaped>> /\ integrity' = TRUE
    BY <1>1, <1>9, <2>1 DEF Failing, DropStep, Still, userVars, Quarantined
  <2>3. drawing' \in [Docs -> [Cells -> Values]]
    BY <1>1, <1>7, <2>1, DirtOf
  <2>4. TypeOK'
    <3>1. {escaped', integrity', created', hit'} \subseteq BOOLEAN
      BY <1>1, <1>9, <2>1 DEF Quarantined, TypeOK
    <3> QED BY <1>1, <1>5, <2>2, <2>3, <3>1 DEF TypeOK, Failing
  <2>5. CleanupInv'
    <3>1. Cleanup \in Seq(Entries) /\ Entries' = Entries /\ Excused'
      BY <1>2, <2>2, CleanupEntries, EntriesStay DEF Failing, Excused
    <3>2. method = "visualStyle" => Cleanup # <<>> /\ Cleanup[Len(Cleanup)].do = "verify" /\ Cleanup[Len(Cleanup)].cell = {"style"}
      BY <1>2 DEF Sound, Cleanups
    <3>3. \A k \in 1 .. Len(Cleanup) : Cleanup[k].do \in {"restore", "verify"} => pred # Nil /\ reg.doc # Nil
      BY <1>1, <1>2, RestoresKnow
    <3>4. \A k \in 1 .. Len(Cleanup) : Cleanup[k].do = "drop" /\ "collection" \in Cleanup[k].reads =>
            Cleanup[k].cell \in Escapes' /\ Cleanup[k].on # "raise"
      BY <1>2, <2>2, UnguardedStays DEF Failing, Sound, Typed, CleanStep
    <3> QED BY <1>9, <2>2, <3>1, <3>2, <3>3, <3>4 DEF CleanupInv, Failing
  <2>7. QueueInv'
    BY <2>2 DEF QueueInv, IInv, Failing
  <2>6. StaysInTransaction'
    <3>1. \A d \in Docs, c \in Cells : drawing'[d][c] \in {"new", "stray"} => drawing[d][c] \in {"new", "stray"}
      BY <1>7, <2>1
    <3> QED BY <2>2, <3>1 DEF StaysInTransaction, IInv, Failing
  <2> QED BY <2>1, <2>2, <2>4, <2>5, <2>6, <2>7, FailKeeps
<1> QED BY <1>8, <1>9 DEF DropStep

LEMMA BackKeeps == ASSUME IInv, BackStep PROVE IInv'
<1> DEFINE c0 == Of.cell
<1>1. /\ told = "none" /\ at \in 1 .. Len(Recipe) /\ Of.do = "back" /\ TypeOK /\ hit \in BOOLEAN /\ created \in BOOLEAN
      /\ active \in Docs /\ integrity \in BOOLEAN
  BY DEF IInv, BackStep, Now, Of, TypeOK
<1>2. /\ c0 \in Borrowed /\ method \in {"exportPdf", "viewportCreate"} /\ Of.on \in {"raise", "halt"} /\ Home(c0) = "doc"
      /\ Of.on = "halt" => method = "viewportCreate"
      /\ ~escaped /\ Sound(Recipe, Cleanup, Purpose) /\ todo = <<>> /\ Of = Recipe[at] /\ at \in Nat /\ at # 0
      /\ Len(Recipe) \in 1 .. 19
  BY <1>1, StepOf DEF StepOK
<1>3. Touches(Of) = {} /\ Undoes(Of) = {c0}
  BY <1>1 DEF Touches, Undoes
<1>4. c0 \in Settings /\ c0 \notin Objects /\ c0 \in Cells
  BY <1>2 DEF Settings, Objects, Cells, Borrowed
<1>5. UNCHANGED <<inTransaction, script, method, args, told, active, roamed, switches, edits, reg, scope, made, pending, pred, bad, created, integrity, escaped>>
  BY DEF BackStep, Still, userVars
<1>8. ASSUME UNCHANGED drawing \/ Put(reg.doc, c0, "old")
      PROVE  /\ drawing' \in [Docs -> [Cells -> Values]]
             /\ \A d \in Docs, c \in Cells : drawing'[d][c] = drawing[d][c] \/ (c = c0 /\ drawing'[d][c] = "old")
  <2>1. drawing \in [Docs -> [Cells -> Values]] /\ "old" \in Values
    BY <1>1, DirtOf
  <2>2. drawing' = drawing \/ drawing' = [drawing EXCEPT ![reg.doc][c0] = "old"]
    BY <1>8 DEF Put
  <2> HIDE DEF c0
  <2> QED BY <1>4, <2>1, <2>2
<1>6. CASE /\ at' = at + 1 /\ UNCHANGED todo
           /\ \/ Put(reg.doc, c0, "old") /\ hit' = hit
              \/ hit' = TRUE /\ UNCHANGED drawing
  <2>1. /\ drawing' \in [Docs -> [Cells -> Values]]
        /\ \A d \in Docs, c \in Cells : drawing'[d][c] = drawing[d][c] \/ (c = c0 /\ drawing'[d][c] = "old")
    BY <1>6, <1>8
  <2>2. hit' = TRUE \/ \A d \in Docs : drawing'[d][c0] # "new"
    <3>1. CASE Put(reg.doc, c0, "old")
      <4>1. drawing' = [drawing EXCEPT ![reg.doc][c0] = "old"] /\ drawing \in [Docs -> [Cells -> Values]]
        BY <1>1, <3>1, DirtOf DEF Put
      <4>2. \A d \in Docs : drawing[d][c0] = "new" => d = reg.doc
        BY <1>1, <1>2, <1>4, DirtOf DEF At
      <4> HIDE DEF c0
      <4> QED BY <1>4, <4>1, <4>2
    <3> QED BY <1>6, <3>1
  <2>3. Advances /\ Knows
    BY <1>1, <1>5, <1>6 DEF Advances, Knows
  <2>4. TypeOK'
    BY <1>1, <1>5, <1>6, <2>1, <2>3, GoneOnType DEF TypeOK
  <2>5. Keeps
    <3>1. /\ \A d \in Docs, c \in Cells : drawing[d][c] = "new" => (c \in Objects => made[c] = d)
          /\ \A d \in Docs, c \in Cells : drawing[d][c] # "stray"
          /\ \A c \in Objects : made[c] # Nil => made[c] \in Docs
          /\ Objects \subseteq Cells /\ Settings \subseteq Cells
      BY <1>1, DirtOf
    <3>2. \A d \in Docs, c \in Cells : drawing'[d][c] = "new" => drawing[d][c] = "new" /\ (c # c0 \/ hit' = TRUE)
      BY <2>1, <2>2
    <3>3. \A c \in Objects : made[c] # Nil => c # c0 /\ drawing'[made[c]][c] = drawing[made[c]][c]
      BY <1>4, <2>1, <3>1
    <3>4. \A d \in Docs, c \in Settings \ Borrowed : drawing'[d][c] = drawing[d][c]
      BY <1>2, <2>1, <3>1
    <3>5. \A d \in Docs, c \in Cells : drawing'[d][c] # "stray"
      BY <2>1, <3>1
    <3> QED BY <1>2, <1>3, <1>5, <3>1, <3>2, <3>3, <3>4, <3>5 DEF Keeps
  <2> QED BY <1>1, <1>2, <1>5, <2>3, <2>4, <2>5, AdvanceKeeps
<1>7. CASE /\ at' = 0 /\ hit' = TRUE /\ (UNCHANGED drawing \/ Put(reg.doc, c0, "old"))
           /\ todo' = IF Of.on = "raise" THEN (IF at < Len(Recipe) THEN <<Recipe[at + 1]>> ELSE <<>>)
                      ELSE <<DropOrRaise("viewport", "doc", {"collection", "handle"}), Fence>>
  <2>1. Failing
    BY <1>1, <1>5, <1>7 DEF Failing
  <2>8. /\ drawing' \in [Docs -> [Cells -> Values]]
        /\ \A d \in Docs, c \in Cells : drawing'[d][c] = drawing[d][c] \/ (c = c0 /\ drawing'[d][c] = "old")
    BY <1>7, <1>8
  <2>2. TypeOK'
    BY <1>1, <1>5, <1>7, <2>1, <2>8, FailedType DEF TypeOK
  <2>3. StaysInTransaction'
    BY <1>5, <2>8 DEF StaysInTransaction, IInv
  <2>4. Entries' = Entries
    BY <1>5, EntriesStay
  <2>7. method' # "visualStyle"
    BY <1>2, <1>5
  <2>9. QueueInv'
    BY <2>1, <1>5 DEF QueueInv, IInv, Failing
  <2>10. Unguarded' = Unguarded /\ Escapes' = Escapes /\ Borrowed \subseteq Unguarded
    BY <1>5, UnguardedStays DEF Unguarded
  <2>11. \A d \in Docs, c \in Cells : drawing'[d][c] # "stray"
    <3>1. \A d \in Docs, c \in Cells : drawing[d][c] # "stray"
      BY <1>1, DirtOf
    <3> QED BY <2>8, <3>1
  <2>12. ASSUME NEW d \in Docs, NEW c \in Cells, drawing'[d][c] = "new"
         PROVE  c \in Unguarded' \/ (c = "viewport" /\ Of.on = "halt" /\ made[c] = d)
    <3>1. drawing[d][c] = "new"
      BY <2>8, <2>12
    <3>2. (c \in Standing(at) \/ c \in Borrowed) /\ (c \in Objects => made[c] = d)
      BY <1>1, <1>2, <3>1 DEF IInv, DirtInv
    <3>3. CASE c \in Standing(at)
      <4>1. PICK i \in 1 .. at - 1 : c \in Touches(Recipe[i])
        BY <3>3 DEF Standing
      <4>2. i \in 1 .. at
        BY <1>2, <4>1
      <4>3. c \in Borrowed \cup IF Of.on = "raise" THEN {} ELSE {"viewport"}
        BY <1>1, <1>2, <4>1, <4>2 DEF Sound, BackReady
      <4>4. "viewport" \in Objects
        BY DEF Objects
      <4> QED BY <1>2, <2>10, <3>2, <4>3, <4>4
    <3> QED BY <2>10, <3>2, <3>3
  <2>5. CASE Of.on = "raise"
    <3>1. todo' \in Seq(Entries') /\ \A j \in 1 .. Len(todo') : todo'[j].do \in {"back", "skip"}
      <4>2. CASE at < Len(Recipe)
        <5>1. at \in 1 .. Len(Recipe) - 1 /\ at + 1 \in 1 .. Len(Recipe)
          BY <1>2, <4>2
        <5>2. Recipe[at + 1].do \in {"back", "skip"}
          BY <1>1, <1>2, <5>1 DEF Sound, BackReady
        <5>3. Recipe[at + 1] \in Entries
          BY <5>1, <5>2 DEF Entries
        <5>4. todo' = <<Recipe[at + 1]>>
          BY <1>7, <2>5, <4>2
        <5>5. todo' \in Seq(Entries) /\ \A j \in 1 .. Len(todo') : todo'[j].do \in {"back", "skip"}
          BY <5>2, <5>3, <5>4
        <5>6. todo' \in Seq(Entries')
          BY <2>4, <5>5
        <5> QED BY <5>5, <5>6
      <4>3. CASE ~(at < Len(Recipe))
        <5>1. todo' = <<>>
          BY <1>7, <2>5, <4>3
        <5> QED BY <5>1
      <4> QED BY <4>2, <4>3
    <3>2. \A d \in Docs, c \in Cells : drawing'[d][c] = "new" => c \in Unguarded'
      BY <2>5, <2>12
    <3>4. CleanupInv'
      BY <2>7, <2>11, <3>1, <3>2 DEF CleanupInv
    <3> QED BY <1>7, <1>5, <2>1, <2>2, <2>3, <2>9, <3>4, FailKeeps
  <2>6. CASE Of.on = "halt"
    <3> DEFINE e == DropOrRaise("viewport", "doc", {"collection", "handle"})
    <3>1. todo' = <<e, Fence>>
      BY <1>7, <2>6
    <3>2. e \in Entries /\ Fence \in Entries
      BY DEF Entries
    <3>3. e.do = "drop" /\ e.cell = "viewport" /\ e.reg = "doc" /\ Fence.do = "fence"
      BY DEF DropOrRaise, Fence, Step
    <3> HIDE DEF e
    <3>4. todo' \in Seq(Entries) /\ Len(todo') = 2 /\ todo'[1] = e /\ todo'[2] = Fence
      BY <3>1, <3>2
    <3>12. \A j \in 1 .. Len(todo') : j = 1 \/ j = 2
      BY <3>4
    <3>5. \A j \in 1 .. Len(todo') : todo'[j].do \notin {"restore", "verify"}
      BY <3>3, <3>4, <3>12
    <3>6. \A d \in Docs, c \in Cells : drawing'[d][c] = "new" => c \in Unguarded' \/ Handles(todo[1], d, c)'
      BY <1>5, <2>12, <3>3, <3>4 DEF Handles
    <3>7. made["viewport"] # Nil => reg["doc"] = made["viewport"]
      BY <1>1, <1>2, DirtOf DEF At, Home, Objects, Settings
    <3>8. \A j \in 1 .. Len(todo') : todo'[j].do = "drop" /\ made'[todo'[j].cell] # Nil => reg'[todo'[j].reg] = made'[todo'[j].cell]
      BY <1>5, <3>3, <3>4, <3>7, <3>12
    <3>9. \A j \in 1 .. Len(todo') : todo'[j].do = "drop" /\ "collection" \in todo'[j].reads =>
            /\ todo'[j].cell \in Escapes'
            /\ todo'[j].on = "raise" => \A k \in 1 .. Len(todo') : k = j \/ todo'[k].do = "fence"
      <4>1. "viewport" \in Escapes
        BY <1>2, <2>6 DEF Escapes
      <4> QED BY <2>10, <3>3, <3>4, <3>12, <4>1
    <3>10. 1 \in 1 .. Len(todo') /\ todo' \in Seq(Entries')
      BY <2>4, <3>4
    <3>13. \A d \in Docs, c \in Cells : drawing'[d][c] = "new" => c \in Unguarded' \/ \E j \in 1 .. Len(todo') : Handles(todo[j], d, c)'
      BY <3>6, <3>10 DEF Handles
    <3>11. CleanupInv'
      BY <2>7, <2>11, <3>5, <3>8, <3>9, <3>10, <3>13 DEF CleanupInv, Handles
    <3> QED BY <1>5, <1>7, <2>1, <2>2, <2>3, <2>9, <3>11, FailKeeps
  <2> QED BY <1>2, <2>5, <2>6
<1> QED BY <1>6, <1>7 DEF BackStep

-----------------------------------------------------------------------------
(* The except and finally blocks                                           *)

EntryOK(e) ==
  /\ e.do \in {"skip", "fence", "drop", "restore", "verify", "back"}
  /\ e.do = "drop" => e.cell \in Objects
  /\ e.do = "restore" => e.cell \in {"f1", "f2", "style"} /\ (e.cell = "style" => method = "visualStyle")
  /\ e.do = "verify" => e.cell \subseteq {"f1", "f2", "style"} /\ ("style" \in e.cell => method = "visualStyle")
  /\ e.do = "back" => e.cell \in Borrowed /\ e.on \in {"raise", "halt"}

LEMMA EntriesOK ==
  ASSUME IInv, told = "none", NEW e \in Entries
  PROVE  EntryOK(e)
<1>1. Sound(Recipe, Cleanup, Purpose) /\ \A i \in 1 .. Len(Recipe) : StepOK(Recipe[i])
  BY Running
<1>2. CASE \E k \in 1 .. Len(Cleanup) : e = Cleanup[k]
  <2>1. CleanStep(e)
    BY <1>1, <1>2 DEF Sound, Typed
  <2> QED BY <2>1 DEF CleanStep, EntryOK
<1>3. CASE \E k \in 1 .. Len(Recipe) : e = Recipe[k] /\ Recipe[k].do \in {"back", "skip"}
  <2>1. StepOK(e) /\ e.do \in {"back", "skip"}
    BY <1>1, <1>3
  <2> QED BY <2>1 DEF StepOK, EntryOK
<1>4. CASE e = Fence
  BY <1>4 DEF Fence, Step, EntryOK
<1>5. CASE e = DropOrRaise("viewport", "doc", {"collection", "handle"})
  BY <1>5 DEF DropOrRaise, EntryOK, Objects
<1> QED BY <1>2, <1>3, <1>4, <1>5 DEF Entries

\* The first of the blocks is done.
UnwindStill ==
  /\ told = "none" /\ at = 0 /\ todo # <<>>
  /\ UNCHANGED <<reg, scope, pending, pred, at, inTransaction, script, method, args, told, active, roamed, switches, edits>>
  /\ hit => hit'
  /\ integrity => integrity'
  /\ escaped => escaped'
  /\ todo' = Tail(todo) \/ todo' = <<>>

\* What is dirty now was so before, and the block has not taken care of it unless
\* it is Unguarded; all of that is when the block ends the cleanup.
Cleans ==
  /\ \A d \in Docs, c \in Cells : drawing'[d][c] = "new" =>
       drawing[d][c] = "new" /\ (Handles(Head(todo), d, c) \/ todo' # Tail(todo) => c \in Unguarded')
  /\ \A d \in Docs, c \in Cells : drawing[d][c] # "stray" => drawing'[d][c] # "stray"
  /\ \A c \in Objects : made'[c] \in {made[c], Nil}
  /\ \A d \in Docs, c \in Objects : drawing'[d][c] = "new" /\ made[c] = d => made'[c] = d \/ c \in Unguarded'

\* An entry that takes away what it handles keeps the inductive invariant.
LEMMA UnwindKeeps ==
  ASSUME IInv, UnwindStill, TypeOK', StaysInTransaction', integrity' => hit', ~Excused' => Cleans
  PROVE  IInv'
<1>1. /\ todo \in Seq(Entries) /\ told = "none" /\ at = 0 /\ todo # <<>> /\ CleanupInv
      /\ Entries' = Entries
  BY EntriesStay DEF IInv, CleanupInv, UnwindStill
<1>2. \A j \in 1 .. Len(todo) : todo[j] \in Entries /\ EntryOK(todo[j])
  BY <1>1, EntriesOK
<1>3. /\ Tail(todo) \in Seq(Entries) /\ Len(Tail(todo)) = Len(todo) - 1 /\ Len(todo) \in Nat /\ Len(todo) # 0
      /\ Head(todo) = todo[1]
      /\ \A j \in 1 .. Len(Tail(todo)) : Tail(todo)[j] = todo[j + 1] /\ j + 1 \in 1 .. Len(todo)
  BY <1>1
<1>4. Excused => Excused'
  BY DEF Excused, UnwindStill, Wandering
<1>5. Escapes' = Escapes /\ Unguarded \subseteq Unguarded'
  BY UnguardedStays DEF UnwindStill
<1>7. CleanupInv'
  <2>5. CASE todo' = <<>> /\ todo' # Tail(todo)
    <3>1. ~Excused' => /\ \A d \in Docs, c \in Cells : drawing'[d][c] = "new" => c \in Unguarded'
                       /\ \A d \in Docs, c \in Cells : drawing'[d][c] # "stray"
      BY <1>1, <1>4, <2>5 DEF CleanupInv, Cleans
    <3> QED BY <1>1, <2>5, <3>1 DEF CleanupInv
  <2>6. CASE todo' = Tail(todo)
    <3>1. todo' \in Seq(Entries')
      BY <1>1, <1>3, <2>6
    <3>2. \A j \in 1 .. Len(todo') : todo'[j].do \in {"restore", "verify"} => pred' # Nil /\ reg'.doc # Nil
      BY <1>1, <1>3, <2>6 DEF CleanupInv, UnwindStill
    <3>3. ASSUME method' = "visualStyle", todo' # <<>>
          PROVE  todo'[Len(todo')].do = "verify" /\ todo'[Len(todo')].cell = {"style"}
      <4>1. Len(todo') \in 1 .. Len(Tail(todo))
        BY <1>3, <2>6, <3>3
      <4>2. todo'[Len(todo')] = todo[Len(todo)]
        BY <1>3, <2>6, <4>1
      <4> QED BY <1>1, <3>3, <4>2 DEF CleanupInv, UnwindStill
    <3>4. ASSUME ~Excused'
          PROVE  /\ \A d \in Docs, c \in Cells : drawing'[d][c] = "new" =>
                      c \in Unguarded' \/ \E j \in 1 .. Len(todo') : Handles(todo[j], d, c)'
                 /\ \A d \in Docs, c \in Cells : drawing'[d][c] # "stray"
                 /\ \A j \in 1 .. Len(todo') : todo'[j].do = "drop" /\ made'[todo'[j].cell] # Nil =>
                      reg'[todo'[j].reg] = made'[todo'[j].cell]
      <4>1. Cleans /\ ~Excused
        BY <1>4, <3>4
      <4>2. ASSUME NEW d \in Docs, NEW c \in Cells, drawing'[d][c] = "new"
            PROVE  c \in Unguarded' \/ \E j \in 1 .. Len(todo') : Handles(todo[j], d, c)'
        <5> SUFFICES ASSUME c \notin Unguarded'
                     PROVE  \E j \in 1 .. Len(todo') : Handles(todo[j], d, c)'
          OBVIOUS
        <5>1. drawing[d][c] = "new" /\ ~Handles(todo[1], d, c) /\ c \notin Unguarded
          BY <1>3, <1>5, <4>1, <4>2 DEF Cleans
        <5>2. PICK j \in 1 .. Len(todo) : Handles(todo[j], d, c)
          BY <1>1, <4>1, <5>1 DEF CleanupInv
        <5>3. j # 1
          BY <5>1, <5>2
        <5>4. j - 1 \in 1 .. Len(todo') /\ todo'[j - 1] = todo[j]
          BY <1>3, <2>6, <5>3
        <5>5. Handles(todo[j - 1], d, c)'
          <6>1. todo[j].do = "drop" => todo[j].cell \in Objects
            BY <1>2 DEF EntryOK
          <6>2. todo[j].do = "drop" /\ todo[j].cell = c /\ made[c] = d => made'[c] = d
            BY <4>1, <4>2, <6>1 DEF Cleans
          <6> QED BY <5>2, <5>4, <6>2 DEF Handles, UnwindStill
        <5> QED BY <5>4, <5>5
      <4>3. \A d \in Docs, c \in Cells : drawing'[d][c] # "stray"
        BY <1>1, <4>1 DEF CleanupInv, Cleans
      <4>4. ASSUME NEW j \in 1 .. Len(todo'), todo'[j].do = "drop", made'[todo'[j].cell] # Nil
            PROVE  reg'[todo'[j].reg] = made'[todo'[j].cell]
        <5>1. todo'[j] = todo[j + 1] /\ j + 1 \in 1 .. Len(todo)
          BY <1>3, <2>6
        <5>2. todo[j + 1].cell \in Objects
          BY <1>2, <4>4, <5>1 DEF EntryOK
        <5>3. made'[todo[j + 1].cell] = made[todo[j + 1].cell]
          BY <4>1, <4>4, <5>1, <5>2 DEF Cleans
        <5> QED BY <1>1, <4>1, <4>4, <5>1, <5>3 DEF CleanupInv, UnwindStill
      <4> QED BY <4>2, <4>3, <4>4
    <3>5. ASSUME NEW j \in 1 .. Len(todo'), todo'[j].do = "drop", "collection" \in todo'[j].reads
          PROVE  /\ todo'[j].cell \in Escapes'
                 /\ todo'[j].on = "raise" => \A k \in 1 .. Len(todo') : k = j \/ todo'[k].do = "fence"
      <4>1. /\ todo'[j] = todo[j + 1] /\ j + 1 \in 1 .. Len(todo)
            /\ \A k \in 1 .. Len(todo') : todo'[k] = todo[k + 1] /\ k + 1 \in 1 .. Len(todo) /\ (k # j => k + 1 # j + 1)
        BY <1>3, <2>6
      <4> QED BY <1>1, <1>5, <3>5, <4>1 DEF CleanupInv
    <3> QED BY <3>1, <3>2, <3>3, <3>4, <3>5 DEF CleanupInv
  <2> QED BY <2>5, <2>6 DEF UnwindStill
<1>8. DirtInv' /\ GainInv'
  BY <1>1 DEF DirtInv, GainInv, UnwindStill
<1>9. PredInv'
  <2>1. PredInv /\ 1 .. at - 1 = {}
    BY <1>1 DEF IInv
  <2> QED BY <1>1, <2>1 DEF PredInv, UnwindStill
<1>10. QueueInv'
  BY <1>1 DEF QueueInv, IInv, UnwindStill
<1>11. StyleInv'
  BY <1>1 DEF StyleInv, UnwindStill
<1>12. CalmInv'
  <2>1. \A j \in 1 .. Len(todo') : \E k \in 1 .. Len(todo) : todo'[j] = todo[k]
    BY <1>3 DEF UnwindStill
  <2>2. 1 .. at - 1 = {} /\ CalmInv /\ at' = 0 /\ method' = method /\ 1 .. at' - 1 = {} /\ told' = told
    BY <1>1 DEF IInv, UnwindStill
  <2>3. ~hit' => ~hit
    BY DEF UnwindStill
  <2> QED BY <1>1, <2>1, <2>2, <2>3 DEF CalmInv, Calm
<1>13. PlaceInv'
  BY PlaceStays DEF UnwindStill
<1>14. OkInv' /\ NothingLeftBehind'
  BY <1>1, NotAnswered DEF UnwindStill
<1>15. AlarmInv'
  BY DEF AlarmInv, IInv, UnwindStill
<1> QED BY <1>7, <1>8, <1>9, <1>10, <1>11, <1>12, <1>13, <1>14, <1>15 DEF IInv

\* What is known of the entry that is due.
LEMMA HeadOK ==
  ASSUME IInv, told = "none", at = 0, todo # <<>>
  PROVE  /\ EntryOK(Head(todo)) /\ TypeOK /\ Nil \notin Docs /\ Head(todo) = todo[1] /\ 1 \in 1 .. Len(todo) /\ CleanupInv
         /\ drawing \in [Docs -> [Cells -> Values]] /\ made \in [Objects -> Docs \cup {Nil}]
         /\ Objects \subseteq Cells /\ Settings \subseteq Cells /\ Objects \cap Settings = {} /\ {"none", "old"} \subseteq Values
<1>1. todo \in Seq(Entries) /\ CleanupInv
  BY DEF IInv, CleanupInv
<1>2. Head(todo) = todo[1] /\ 1 \in 1 .. Len(todo) /\ Head(todo) \in Entries
  BY <1>1
<1>3. EntryOK(Head(todo))
  BY <1>2, EntriesOK
<1> QED BY <1>1, <1>2, <1>3, NilAssumption DEF IInv, TypeOK, Cells, Objects, Settings, Values

LEMMA CleanSkipKeeps == ASSUME IInv, CleanSkip PROVE IInv'
<1>1. /\ UNCHANGED <<drawing, at, reg, scope, made, pending, pred, bad, escaped, integrity, created, hit, inTransaction, script, method, args, told>>
      /\ UNCHANGED <<active, roamed, switches, edits>> /\ todo' = Tail(todo)
      /\ told = "none" /\ at = 0 /\ todo # <<>> /\ Needless(Head(todo))
  BY DEF CleanSkip, Still, userVars
<1>2. UnwindStill
  BY <1>1 DEF UnwindStill
<1>3. TypeOK'
  BY <1>1, HeadOK DEF TypeOK
<1>4. StaysInTransaction'
  BY <1>1 DEF StaysInTransaction, IInv
<1>5. \A d \in Docs, c \in Cells : ~Handles(Head(todo), d, c)
  BY <1>1, HeadOK DEF Needless, Handles
<1>6. Cleans
  BY <1>1, <1>5 DEF Cleans
<1>7. integrity' => hit'
  BY <1>1 DEF IInv, AlarmInv
<1> QED BY <1>2, <1>3, <1>4, <1>6, <1>7, UnwindKeeps

LEMMA CleanDropKeeps == ASSUME IInv, CleanDrop PROVE IInv'
<1> DEFINE e == Head(todo)
           d0 == IF made[e.cell] = Nil THEN reg[e.reg] ELSE made[e.cell]
<1>1. /\ told = "none" /\ at = 0 /\ todo # <<>> /\ e.do = "drop" /\ made[e.cell] # Nil
      /\ UNCHANGED <<at, reg, scope, pending, pred, bad, inTransaction, script, method, args, told, active, roamed, switches, edits>>
      /\ made' = [made EXCEPT ![e.cell] = Nil]
  BY DEF CleanDrop, Unwinds, Needless, Still, userVars, Dropped, It
<1>2. /\ e.cell \in Objects /\ e.cell \in Cells /\ d0 \in Docs /\ TypeOK /\ d0 = made[e.cell]
      /\ hit \in BOOLEAN /\ integrity \in BOOLEAN /\ created \in BOOLEAN /\ escaped \in BOOLEAN
  BY <1>1, HeadOK DEF EntryOK, TypeOK
<1>3. PICK result \in {"verified", "doubtful", "escapes"} :
        /\ Removes(e, result)
        /\ Quarantined(result = "doubtful")
        /\ escaped' = (escaped \/ result = "escapes")
        /\ todo' = IF result # "verified" /\ e.on = "raise" THEN <<>> ELSE Tail(todo)
  BY DEF CleanDrop, It
<1>4. Gone(e) = [drawing EXCEPT ![d0][e.cell] = "none"]
  BY DEF Gone
<1>5. /\ Gone(e) \in [Docs -> [Cells -> Values]]
      /\ \A d \in Docs, c \in Cells : Gone(e)[d][c] = IF d = d0 /\ c = e.cell THEN "none" ELSE drawing[d][c]
  <2>1. e.cell \in Cells /\ d0 \in Docs /\ "none" \in Values /\ drawing \in [Docs -> [Cells -> Values]]
    BY <1>1, <1>2, HeadOK
  <2> HIDE DEF e, d0
  <2> QED BY <1>4, <2>1
<1>6. drawing' \in {drawing, Gone(e)} /\ (result # "verified" => hit' = TRUE) /\ (hit => hit') /\ hit' \in BOOLEAN
  <2>1. CASE hit' = TRUE /\ drawing' \in {drawing, Gone(e)}
    BY <2>1
  <2>2. CASE result = "verified" /\ hit' = hit /\ drawing' = Gone(e)
    BY <1>2, <2>2
  <2>3. Removes(e, result)
    BY <1>3
  <2> HIDE DEF e
  <2> QED BY <2>1, <2>2, <2>3 DEF Removes, ReadsBack
<1>7. result = "doubtful" => Excused'
  BY <1>3 DEF Quarantined, Excused
<1>8. UnwindStill
  BY <1>1, <1>3, <1>6, <1>7 DEF UnwindStill, Quarantined
<1>9. TypeOK'
  <2>1. drawing' \in [Docs -> [Cells -> Values]]
    BY <1>1, <1>5, <1>6, HeadOK
  <2>2. made' \in [Objects -> Docs \cup {Nil}]
    BY <1>1, <1>2, HeadOK
  <2>3. {escaped', integrity', created', hit'} \subseteq BOOLEAN
    BY <1>2, <1>3, <1>6 DEF Quarantined
  <2> QED BY <1>1, <1>2, <2>1, <2>2, <2>3 DEF TypeOK
<1>10. StaysInTransaction'
  <2>1. \A d \in Docs, c \in Cells : drawing'[d][c] \in {"new", "stray"} => drawing[d][c] \in {"new", "stray"}
    BY <1>5, <1>6
  <2> QED BY <1>1, <2>1 DEF StaysInTransaction, IInv
<1>11. integrity' => hit'
  BY <1>3, <1>6 DEF IInv, AlarmInv, Quarantined
<1>12. ASSUME ~Excused'
       PROVE  Cleans
  <2>1. result # "doubtful" /\ ~Excused
    BY <1>7, <1>8, <1>12 DEF Excused, UnwindStill, Wandering
  <2>2. reg[e.reg] = made[e.cell]
    BY <1>1, <2>1, HeadOK DEF CleanupInv
  <2>4. \A c \in Objects : made'[c] = IF c = e.cell THEN Nil ELSE made[c]
    BY <1>1, HeadOK
  <2>6. \A d \in Docs, c \in Cells : Handles(e, d, c) => d = d0 /\ c = e.cell
    BY <1>1, <1>2 DEF Handles
  <2>9. CASE result = "verified"
    <3>1. drawing' = Gone(e) /\ todo' = Tail(todo)
      BY <1>3, <2>2, <2>9 DEF Removes, ReadsBack
    <3>2. \A d \in Docs, c \in Cells : drawing'[d][c] = IF d = d0 /\ c = e.cell THEN "none" ELSE drawing[d][c]
      BY <1>5, <3>1
    <3>3. \A d \in Docs, c \in Cells : drawing'[d][c] = "new" => drawing[d][c] = "new" /\ ~(d = d0 /\ c = e.cell)
      BY <3>2
    <3>4. \A d \in Docs, c \in Objects : drawing'[d][c] = "new" /\ made[c] = d => made'[c] = d
      <4>1. Objects \subseteq Cells
        BY DEF Cells
      <4> QED BY <1>2, <2>4, <3>3, <4>1
    <3> QED BY <2>4, <2>6, <3>1, <3>2, <3>3, <3>4 DEF Cleans
  \* What the read that fails was for is left alone, and it is the last there is.
  <2>10. CASE result = "escapes"
    <3>1. drawing' = drawing /\ "collection" \in e.reads /\ escaped' = TRUE
      BY <1>2, <1>3, <2>10 DEF Removes, ReadsBack
    <3>2. e.cell \in Escapes /\ (e.on = "raise" => \A k \in 1 .. Len(todo) : k = 1 \/ todo[k].do = "fence")
      BY <1>1, <3>1, HeadOK DEF CleanupInv
    <3>3. e.cell \in Unguarded' /\ Unguarded \subseteq Unguarded'
      <4>1. Escapes' = Escapes /\ Unguarded \subseteq Unguarded'
        BY <1>1, <3>1, UnguardedStays
      <4> QED BY <3>1, <3>2, <4>1 DEF Unguarded
    <3>4. ASSUME todo' # Tail(todo), NEW d \in Docs, NEW c \in Cells, drawing[d][c] = "new"
          PROVE  c \in Unguarded'
      <4>1. e.on = "raise"
        BY <1>3, <3>4
      <4>2. c \in Unguarded \/ \E j \in 1 .. Len(todo) : Handles(todo[j], d, c)
        BY <1>1, <2>1, <3>4, HeadOK DEF CleanupInv
      <4>3. ASSUME NEW j \in 1 .. Len(todo), Handles(todo[j], d, c)
            PROVE  j = 1
        BY <3>2, <4>1, <4>3 DEF Handles
      <4>4. e = todo[1]
        BY <1>1, HeadOK
      <4> QED BY <2>6, <3>3, <4>2, <4>3, <4>4
    <3> QED BY <2>4, <2>6, <3>1, <3>3, <3>4 DEF Cleans
  <2> QED BY <2>1, <2>9, <2>10
<1> QED BY <1>8, <1>9, <1>10, <1>11, <1>12, UnwindKeeps

LEMMA FenceKeeps == ASSUME IInv, FenceStep PROVE IInv'
<1>1. /\ UNCHANGED <<drawing, at, reg, scope, made, pending, pred, bad, escaped, hit, inTransaction, script, method, args, told>>
      /\ UNCHANGED <<active, roamed, switches, edits>> /\ todo' = Tail(todo)
      /\ told = "none" /\ at = 0 /\ todo # <<>> /\ Head(todo).do = "fence" /\ integrity' = TRUE /\ created' \in BOOLEAN
  BY DEF FenceStep, Unwinds, Still, userVars, Quarantined
<1>2. UnwindStill /\ Excused'
  BY <1>1 DEF UnwindStill, Excused
<1>3. TypeOK'
  BY <1>1, HeadOK DEF TypeOK
<1>4. StaysInTransaction'
  BY <1>1 DEF StaysInTransaction, IInv
<1>5. hit
  <2>1. Head(todo).do \notin {"drop", "skip"} /\ Head(todo) = todo[1] /\ 1 \in 1 .. Len(todo)
    BY <1>1, HeadOK
  <2> QED BY <1>1, <2>1 DEF IInv, CalmInv, Calm
<1> QED BY <1>1, <1>2, <1>3, <1>4, <1>5, UnwindKeeps

LEMMA CleanBackKeeps == ASSUME IInv, CleanBack PROVE IInv'
<1> DEFINE e == Head(todo)
<1>1. /\ UNCHANGED <<at, reg, scope, made, pending, pred, bad, escaped, inTransaction, script, method, args, told>>
      /\ UNCHANGED <<active, roamed, switches, edits>> /\ todo' = Tail(todo)
      /\ told = "none" /\ at = 0 /\ todo # <<>> /\ e.do = "back"
  BY DEF CleanBack, Unwinds, Still, userVars
<1>2. e.cell \in Cells /\ e.cell \notin Objects /\ TypeOK
  BY <1>1, HeadOK DEF EntryOK, Cells, Settings, Objects, Borrowed
<1>3. hit \in BOOLEAN /\ integrity \in BOOLEAN /\ created \in BOOLEAN
  BY <1>2 DEF TypeOK
<1>4. /\ UNCHANGED drawing \/ Put(reg.doc, e.cell, "old")
      /\ hit' \in BOOLEAN /\ integrity' \in BOOLEAN /\ created' \in BOOLEAN
      /\ hit => hit'
      /\ integrity => integrity'
      /\ integrity' => integrity \/ hit'
  <2>1. CASE Put(reg.doc, It.cell, "old") /\ UNCHANGED <<integrity, created, hit>>
    BY <1>3, <2>1 DEF It
  <2>2. CASE hit' = TRUE /\ UNCHANGED <<drawing, integrity, created>>
    BY <1>3, <2>2
  <2>3. CASE hit' = TRUE /\ Quarantined(It.on = "halt") /\ (UNCHANGED drawing \/ Put(reg.doc, It.cell, "old"))
    <3>1. integrity' = (integrity \/ It.on = "halt") /\ created' = (created /\ ~(It.on = "halt"))
      BY <2>3 DEF Quarantined
    <3>2. integrity' \in BOOLEAN /\ created' \in BOOLEAN /\ (integrity => integrity')
      BY <1>3, <3>1
    <3> QED BY <2>3, <3>2 DEF It
  <2> QED BY <2>1, <2>2, <2>3 DEF CleanBack
<1>5. /\ drawing' \in [Docs -> [Cells -> Values]]
      /\ \A d \in Docs, c \in Cells : drawing'[d][c] \in {drawing[d][c], "old"}
  <2>1. drawing' = drawing \/ drawing' = [drawing EXCEPT ![reg.doc][e.cell] = "old"]
    BY <1>4 DEF Put
  <2>2. e.cell \in Cells /\ "old" \in Values /\ drawing \in [Docs -> [Cells -> Values]]
    BY <1>1, <1>2, HeadOK
  <2> HIDE DEF e
  <2> QED BY <2>1, <2>2
<1>6. UnwindStill
  BY <1>1, <1>4 DEF UnwindStill
<1>7. TypeOK'
  BY <1>1, <1>2, <1>4, <1>5 DEF TypeOK
<1>8. StaysInTransaction'
  BY <1>1, <1>5 DEF StaysInTransaction, IInv
<1>9. Cleans
  <2>1. \A d \in Docs, c \in Cells : ~Handles(e, d, c)
    BY <1>1 DEF Handles
  <2>2. \A d \in Docs, c \in Cells : drawing'[d][c] = "new" => drawing[d][c] = "new"
    BY <1>5
  <2>3. \A d \in Docs, c \in Cells : drawing[d][c] # "stray" => drawing'[d][c] # "stray"
    BY <1>5
  <2> QED BY <1>1, <2>1, <2>2, <2>3 DEF Cleans
<1>10. integrity' => hit'
  BY <1>4 DEF IInv, AlarmInv
<1> QED BY <1>6, <1>7, <1>8, <1>9, <1>10, UnwindKeeps

LEMMA VerifyKeeps == ASSUME IInv, VerifyStep PROVE IInv'
<1> DEFINE e == Head(todo)
<1>1. /\ UNCHANGED <<drawing, at, reg, scope, made, pending, pred, bad, escaped, inTransaction, script, method, args, told>>
      /\ UNCHANGED <<active, roamed, switches, edits>> /\ todo' = Tail(todo)
      /\ told = "none" /\ at = 0 /\ todo # <<>> /\ e.do = "verify"
  BY DEF VerifyStep, Unwinds, Still, userVars
<1>2. PICK readable \in BOOLEAN :
        /\ Quarantined(bad \/ ~readable \/ \E c \in e.cell : drawing[Seat(c, "doc")][c] \notin {pred[c], "stray"})
        /\ hit' = (hit \/ ~readable)
  BY DEF VerifyStep, It
<1>3. /\ e.cell \subseteq {"f1", "f2", "style"} /\ ("style" \in e.cell => method = "visualStyle") /\ TypeOK
      /\ hit \in BOOLEAN /\ integrity \in BOOLEAN /\ created \in BOOLEAN /\ bad \in BOOLEAN
      /\ pred # Nil /\ reg.doc # Nil
  BY <1>1, HeadOK DEF EntryOK, TypeOK, CleanupInv
<1>4. hit
  <2>1. Head(todo).do \notin {"drop", "skip"} /\ Head(todo) = todo[1] /\ 1 \in 1 .. Len(todo)
    BY <1>1, HeadOK
  <2> QED BY <1>1, <2>1 DEF IInv, CalmInv, Calm
<1>5. hit' = TRUE
  BY <1>2, <1>3, <1>4
<1>6. integrity' \in BOOLEAN /\ created' \in BOOLEAN /\ (integrity => integrity')
  BY <1>2, <1>3 DEF Quarantined
<1>7. UnwindStill
  BY <1>1, <1>5, <1>6 DEF UnwindStill
<1>8. TypeOK'
  BY <1>1, <1>3, <1>5, <1>6 DEF TypeOK
<1>9. StaysInTransaction'
  BY <1>1 DEF StaysInTransaction, IInv
<1>10. ASSUME ~Excused'
       PROVE  Cleans
  <2>1. ~Excused /\ ~integrity'
    BY <1>7, <1>10 DEF Excused, UnwindStill, Wandering
  <2>2. \A c \in e.cell : drawing[Seat(c, "doc")][c] \in {pred[c], "stray"}
    BY <1>2, <2>1 DEF Quarantined
  <2>3. ASSUME NEW c \in e.cell
        PROVE  drawing[reg.doc][c] # "new"
    <3>1. pred[c] # "new"
      BY <1>1, <1>3, <2>3 DEF IInv, PredInv
    <3>2. Seat(c, "doc") = reg.doc
      <4>1. CASE c = "style"
        <5>1. ~roamed
          BY <1>3, <2>1, <2>3, <4>1 DEF Excused, Wandering
        <5>2. reg.doc = active
          BY <1>3, <2>3, <4>1, <5>1 DEF IInv, PlaceInv, Registers
        <5> QED BY <4>1, <5>2 DEF Seat
      <4>2. CASE c # "style"
        BY <4>2 DEF Seat
      <4> QED BY <4>1, <4>2
    <3> QED BY <2>2, <3>1, <3>2
  <2>4. \A d \in Docs, c \in Cells : Handles(e, d, c) => d = reg.doc /\ c \in e.cell
    BY <1>1 DEF Handles
  <2> QED BY <1>1, <2>3, <2>4 DEF Cleans
<1> QED BY <1>5, <1>7, <1>8, <1>9, <1>10, UnwindKeeps

LEMMA RestoreKeeps == ASSUME IInv, RestoreStep PROVE IInv'
<1> DEFINE e == Head(todo)
           c0 == e.cell
           d0 == Seat(c0, "doc")
           v == IF d0 = reg.doc THEN pred[c0] ELSE "stray"
<1>1. /\ UNCHANGED <<at, reg, scope, made, pending, pred, integrity, created, escaped, inTransaction, script, method, args, told>>
      /\ UNCHANGED <<active, roamed, switches, edits>> /\ todo' = Tail(todo)
      /\ told = "none" /\ at = 0 /\ todo # <<>> /\ e.do = "restore"
  BY DEF RestoreStep, Unwinds, Still, userVars
<1>2. /\ c0 \in {"f1", "f2", "style"} /\ (c0 = "style" => method = "visualStyle") /\ TypeOK /\ c0 \in Settings /\ c0 \in Cells
      /\ hit \in BOOLEAN /\ integrity \in BOOLEAN /\ created \in BOOLEAN /\ bad \in BOOLEAN
      /\ pred # Nil /\ reg.doc # Nil /\ c0 \notin Objects
  BY <1>1, HeadOK DEF EntryOK, TypeOK, CleanupInv, Cells, Settings, Objects
<1>3. d0 \in Docs
  <2>1. reg \in [Registers -> Docs \cup {Nil}] /\ active \in Docs /\ "doc" \in Registers
    BY <1>2 DEF TypeOK, Registers
  <2> QED BY <1>2, <2>1 DEF Seat
<1>4. v \in Values /\ v # "new"
  <2>1. pred \in [Settings -> Values] /\ pred[c0] \notin {"new", "stray"}
    BY <1>1, <1>2 DEF TypeOK, IInv, PredInv
  <2>2. "stray" \in Values /\ "stray" # "new"
    BY DEF Values
  <2>3. pred[c0] \in Values
    BY <1>2, <2>1
  <2> QED BY <2>1, <2>2, <2>3
<1>5. /\ drawing' \in {drawing, [drawing EXCEPT ![d0][c0] = v]}
      /\ bad' = bad \/ bad' = TRUE
      /\ hit' = hit \/ hit' = TRUE
  <2> HIDE DEF d0, v, c0
  <2>1. \/ UNCHANGED <<drawing, bad, hit>>
        \/ Put(d0, c0, v) /\ UNCHANGED <<bad, hit>>
        \/ UNCHANGED <<drawing, bad>> /\ hit' = TRUE
        \/ bad' = TRUE /\ hit' = TRUE /\ drawing' \in {drawing, [drawing EXCEPT ![d0][c0] = v]}
    BY DEF RestoreStep, It, d0, v, c0
  <2> QED BY <2>1 DEF Put
<1>6. /\ drawing' \in [Docs -> [Cells -> Values]]
      /\ \A d \in Docs, c \in Cells : drawing'[d][c] \in {drawing[d][c], v}
      /\ \A d \in Docs, c \in Cells : drawing'[d][c] # drawing[d][c] => d = d0 /\ c = c0
  <2>1. drawing \in [Docs -> [Cells -> Values]] /\ c0 \in Cells /\ d0 \in Docs /\ v \in Values
    BY <1>2, <1>3, <1>4 DEF TypeOK
  <2> HIDE DEF d0, v, c0, e
  <2>2. CASE drawing' = drawing
    BY <2>1, <2>2
  <2>3. CASE drawing' = [drawing EXCEPT ![d0][c0] = v]
    BY <2>1, <2>3
  <2> QED BY <1>5, <2>2, <2>3
<1>7. UnwindStill
  BY <1>1, <1>5 DEF UnwindStill
<1>8. TypeOK'
  <2>1. {bad', hit'} \subseteq BOOLEAN
    BY <1>2, <1>5
  <2> QED BY <1>1, <1>2, <1>6, <2>1 DEF TypeOK
\* The style is not set in another drawing but by visual_style_set.
<1>9. v = "stray" => c0 = "style"
  <2>1. pred[c0] # "stray"
    BY <1>1, <1>2 DEF IInv, PredInv
  <2> QED BY <2>1 DEF Seat
<1>10. StaysInTransaction'
  <2>1. method # "visualStyle" => v \notin {"new", "stray"}
    BY <1>2, <1>4, <1>9
  <2>2. ASSUME inTransaction, method # "visualStyle", NEW d \in Docs, d # scope, NEW c \in Cells
        PROVE  drawing'[d][c] \notin {"new", "stray"}
    <3>1. drawing[d][c] \notin {"new", "stray"}
      BY <2>2 DEF StaysInTransaction, IInv
    <3> HIDE DEF v, d0, c0
    <3> QED BY <1>6, <2>1, <2>2, <3>1
  <2> QED BY <1>1, <2>2 DEF StaysInTransaction
<1>11. integrity' => hit'
  <2>1. integrity' = integrity /\ (integrity => hit)
    BY <1>1 DEF IInv, AlarmInv
  <2>2. CASE hit' = hit
    BY <2>1, <2>2
  <2>3. CASE hit' = TRUE
    BY <2>3
  <2> QED BY <1>5, <2>2, <2>3
<1>12. ASSUME ~Excused'
       PROVE  Cleans
  <2>1. ~Excused
    BY <1>7, <1>12 DEF Excused, UnwindStill, Wandering
  <2>2. v # "stray"
    <3>1. ASSUME c0 = "style"
          PROVE  d0 = reg.doc
      <4>1. ~roamed /\ method = "visualStyle"
        BY <1>2, <2>1, <3>1 DEF Excused, Wandering
      <4>2. reg.doc = active
        BY <1>2, <4>1 DEF IInv, PlaceInv, Registers
      <4> QED BY <3>1, <4>2 DEF Seat
    <3>2. pred[c0] # "stray"
      BY <1>1, <1>2 DEF IInv, PredInv
    <3> QED BY <1>9, <3>1, <3>2
  <2>3. \A d \in Docs, c \in Cells : ~Handles(e, d, c)
    BY <1>1 DEF Handles
  <2> HIDE DEF v, d0, c0
  <2>4. \A d \in Docs, c \in Cells : drawing'[d][c] = "new" => drawing[d][c] = "new"
    BY <1>4, <1>6
  <2>5. \A d \in Docs, c \in Cells : drawing[d][c] # "stray" => drawing'[d][c] # "stray"
    BY <1>6, <2>2
  <2> QED BY <1>1, <2>3, <2>4, <2>5 DEF Cleans
<1> QED BY <1>7, <1>8, <1>10, <1>11, <1>12, UnwindKeeps

-----------------------------------------------------------------------------
(* The answer                                                              *)

LEMMA AnsweredKeeps == ASSUME IInv, Answered PROVE IInv'
<1>1. /\ told = "none"
      /\ UNCHANGED <<drawing, inTransaction, integrity, script, active, roamed, switches, edits, pending, hit>>
      /\ UNCHANGED <<method, args, at, reg, made, pred, todo, bad, escaped>>
  BY DEF Answered, userVars
<1>2. /\ Sound(Recipe, Cleanup, Purpose) /\ Len(Recipe) \in 1 .. 19 /\ TypeOK
      /\ \A i \in 1 .. Len(Recipe) : StepOK(Recipe[i])
      /\ at \in 0 .. Len(Recipe) + 1
      /\ Recipe' = Recipe /\ Purpose' = Purpose /\ \A c : Home(c)' = Home(c)
      /\ method \in AllMethods
  BY <1>1, Running, SameRecipe DEF IInv
<1>3. told' \in {"ok", "error"}
  BY DEF Answered
<1>4. TypeOK' /\ scope' \in {scope, Nil} /\ (method # "open" => scope' = scope)
  <2>1. created' \in BOOLEAN /\ scope' \in {scope, Nil} /\ (method # "open" => scope' = scope)
    BY <1>2 DEF Answered, TypeOK
  <2> QED BY <1>1, <1>2, <1>3, <2>1 DEF TypeOK
<1>5. PlaceInv'
  BY <1>1, <1>4 DEF IInv, PlaceInv
<1>6. DirtInv' /\ GainInv' /\ PredInv' /\ CalmInv' /\ CleanupInv'
  BY <1>3 DEF DirtInv, GainInv, PredInv, CalmInv, CleanupInv
<1>7. QueueInv'
  BY <1>1, <1>3 DEF QueueInv, IInv
<1>8. AlarmInv'
  BY <1>1, <1>2 DEF AlarmInv, IInv
<1>9. StaysInTransaction'
  BY <1>1, <1>4 DEF StaysInTransaction, IInv, PlaceInv
<1>10. NothingLeftBehind'
  <2>1. ASSUME told' = "error", ~integrity, method \in Wandering => ~roamed,
               NEW c \in Cells, NEW d \in Docs, drawing[d][c] \in {"new", "stray"}
        PROVE  c \in Unguarded
    <3>1. at = 0 /\ todo = <<>> /\ Len(todo) = 0
      BY <2>1 DEF Answered
    <3>2. ~Excused
      BY <2>1 DEF Excused
    <3>3. drawing[d][c] = "new" => c \in Unguarded \/ \E j \in 1 .. 0 : Handles(todo[j], d, c)
      BY <1>1, <3>1, <3>2 DEF IInv, CleanupInv
    <3>4. drawing[d][c] # "stray"
      BY <1>1, <3>1, <3>2 DEF IInv, CleanupInv
    <3> QED BY <2>1, <3>3, <3>4
  <2>2. Wandering' = Wandering /\ Unguarded' = Unguarded
    BY <1>1, UnguardedStays DEF Wandering
  <2>3. ASSUME told' = "error", ~integrity', method \in Wandering => ~roamed
        PROVE  Left \subseteq Unguarded
    BY <1>1, <2>1, <2>3 DEF Left
  <2> QED BY <1>1, <2>2, <2>3 DEF NothingLeftBehind, Left
<1>11. ASSUME told' = "ok"
       PROVE  StyleInv' /\ OkInv'
  <2>1. at = Len(Recipe) + 1 /\ at > 0
    BY <1>2, <1>3, <1>11 DEF Answered
  <2>2. 1 .. at - 1 = 1 .. Len(Recipe) /\ at \in 1 .. Len(Recipe) + 1
    BY <1>2, <2>1
  <2>3. \A c \in Standing(at) : c \in Purpose
    <3>1. ASSUME NEW c \in Standing(at)
          PROVE  c \in Purpose
      <4>1. PICK i \in 1 .. Len(Recipe) : c \in Touches(Recipe[i]) /\ \A k \in i + 1 .. Len(Recipe) : c \notin Undoes(Recipe[k])
        BY <2>1, <2>2 DEF Standing
      <4> QED BY <1>2, <4>1 DEF Sound, Undone
    <3> QED BY <3>1
  <2>4. ASSUME NEW c \in Cells, NEW d \in Docs, Dirty(d, c)
        PROVE  (c \in Purpose \/ (c \in Borrowed /\ hit)) /\ d = At(c)
    BY <1>1, <2>1, <2>3, <2>4 DEF IInv, DirtInv, Dirty
  <2>5. ASSUME NEW c \in Objects, c \in Purpose
        PROVE  At(c) \in Docs /\ drawing[At(c)][c] = "new"
    <3>1. c \notin {"region", "region2", "profile"}
      BY <1>2, <2>5 DEF Sound, Made, Purpose, TheSettings
    <3>2. PICK j \in 1 .. Len(Recipe) : c \in Touches(Recipe[j]) /\ \A k \in j + 1 .. Len(Recipe) : c \notin Undoes(Recipe[k])
      BY <1>2, <2>5 DEF Sound, Made
    <3>3. c \in Standing(at)
      BY <2>1, <2>2, <3>2 DEF Standing, Cells
    <3>4. made[c] # Nil
      BY <1>1, <2>1, <2>5, <3>1, <3>3 DEF IInv, GainInv
    <3> QED BY <1>1, <1>2, <2>1, <2>5, <3>1, <3>4 DEF IInv, GainInv, TypeOK
  <2>6. ASSUME NEW c \in Settings, c \in Purpose, method \notin Unread, method = "xrefDetach" => inTransaction \/ ~roamed
        PROVE  At(c) \in Docs /\ drawing[At(c)][c] \in {"new", "user"}
    <3>1. PICK j \in 1 .. Len(Recipe) : SureOf(Recipe[j], c) \/ (Recipe[j].do = "gone" /\ c = "p1")
      BY <1>2, <2>6 DEF Sound, Seen, SureOf
    <3>2. CASE SureOf(Recipe[j], c)
      <4>2. c \in Sure(at)
        BY <2>1, <2>2, <2>6, <3>2 DEF Sure, SureOf
      <4>3. At(c) \in Docs
        BY <1>1, <2>2, <4>2, SureBound
      <4> QED BY <1>1, <2>1, <4>2, <4>3 DEF IInv, GainInv
    <3>3. CASE Recipe[j].do = "gone" /\ c = "p1"
      <4>1. method = "xrefDetach"
        BY <1>2, <3>3 DEF StepOK
      <4>2. PICK k \in 1 .. j - 1 : Recipe[k].do = "bind" /\ Recipe[k].reg = "doc"
        BY <1>2, <3>3 DEF Sound, GoneReady
      <4>3. PICK l \in 1 .. j - 1 : Recipe[l].do = "bind" /\ Recipe[l].reg = "source"
        BY <1>2, <3>3 DEF Sound, GoneReady
      <4>4. k \in 1 .. at - 1 /\ l \in 1 .. at - 1 /\ j \in 1 .. at - 1
        BY <1>2, <2>1
      <4>5. reg["doc"] # Nil /\ reg["source"] # Nil
        BY <1>1, <2>1, <4>2, <4>3, <4>4 DEF IInv, DirtInv
      <4>6. reg["doc"] = reg["source"]
        <5>1. inTransaction \/ ~roamed
          BY <2>6, <4>1
        <5> QED BY <4>1, <4>5, <5>1 DEF IInv, PlaceInv, Registers
      <4>7. drawing[reg["source"]]["p1"] = "new"
        BY <1>1, <2>1, <3>3, <4>4, <4>6 DEF IInv, GainInv
      <4>8. At("p1") = reg["source"]
        BY <4>1 DEF At, Home, Settings
      <4>9. reg["source"] \in Docs
        BY <1>2, <4>5 DEF TypeOK, Registers
      <4> QED BY <3>3, <4>7, <4>8, <4>9
    <3> QED BY <3>1, <3>2, <3>3
  <2>7. OkInv'
    <3>1. ASSUME method = "xrefDetach" => inTransaction \/ ~roamed, NEW c \in Cells, c \in Purpose, method \notin Unread
          PROVE  At(c) \in Docs /\ drawing[At(c)][c] \in {"new", "user"}
      BY <2>5, <2>6, <3>1 DEF Cells
    <3>2. \A c : At(c)' = At(c)
      BY <1>1, <1>2 DEF At
    <3>3. \A d, c : Dirty(d, c)' = Dirty(d, c)
      BY <1>1 DEF Dirty
    <3> QED BY <1>1, <1>2, <2>4, <3>1, <3>2, <3>3 DEF OkInv, At, Dirty
  <2>8. StyleInv'
    <3>1. ASSUME method = "visualStyle"
          PROVE  pending[reg.doc] = <<>>
      <4>1. "style" \in Purpose /\ "style" \in Settings /\ method \notin Unread
        BY <3>1 DEF Purpose, Settings, Reads, Unread
      <4>2. PICK j \in 1 .. Len(Recipe) : SureOf(Recipe[j], "style")
        BY <1>2, <4>1 DEF Sound, Seen, SureOf
      <4>3. "style" \in Sure(at)
        BY <2>1, <2>2, <4>1, <4>2 DEF Sure, SureOf
      <4> QED BY <1>1, <2>1, <3>1, <4>3 DEF IInv, StyleInv
    <3> QED BY <1>1, <1>11, <3>1 DEF StyleInv
  <2> QED BY <2>7, <2>8
<1>12. ASSUME told' # "ok"
       PROVE  StyleInv' /\ OkInv'
  BY <1>3, <1>12 DEF StyleInv, OkInv
<1> QED BY <1>4, <1>5, <1>6, <1>7, <1>8, <1>9, <1>10, <1>11, <1>12 DEF IInv

-----------------------------------------------------------------------------
(* AutoCAD and its user                                                    *)

\* Outside of the call.
Outside ==
  /\ UNCHANGED <<inTransaction, scope, created, integrity, script, method, args, at, reg, made, pred, todo, bad, escaped, told>>
  /\ roamed => roamed'
  /\ hit => hit'
  /\ \A d \in Docs, c \in Cells \ {"f1", "style"} : drawing'[d][c] = drawing[d][c]
  /\ \A d \in Docs, c \in Cells : drawing'[d][c] = "new" => drawing[d][c] = "new" \/
       /\ c = "style" /\ told = "none" /\ method = "visualStyle" /\ d = reg.doc
       /\ IF at = 0 THEN todo # <<>> ELSE "style" \in Standing(at)
  /\ \A d \in Docs, c \in Cells : drawing'[d][c] = "stray" => drawing[d][c] = "stray"
  /\ \A d \in Docs, c \in Cells :
       drawing[d][c] \in {"new", "user"} /\ (told = "none" => at # 0 /\ c \in Sure(at)) /\ (told = "ok" => c \in Purpose /\ method \notin Unread) /\ d = At(c)
       /\ told \in {"none", "ok"} => drawing'[d][c] \in {"new", "user"}

\* A step of AutoCAD or its user keeps the inductive invariant.
LEMMA OutsideKeeps ==
  ASSUME IInv, Outside, TypeOK', PlaceInv', QueueInv', StyleInv', CalmInv', roamed' => hit'
  PROVE  IInv'
<1>1. /\ drawing \in [Docs -> [Cells -> Values]] /\ TypeOK
      /\ Objects \subseteq Cells \ {"f1", "style"} /\ "p1" \in Cells \ {"f1", "style"} /\ "style" \notin Objects
      /\ "style" \in Settings /\ Settings \subseteq Cells
  BY DEF IInv, TypeOK, Cells, Objects, Settings
<1>2. /\ Recipe' = Recipe /\ Purpose' = Purpose /\ Cleanup' = Cleanup /\ (\A c : Home(c)' = Home(c))
      /\ Standing(at)' = Standing(at) /\ Sure(at)' = Sure(at) /\ Entries' = Entries
  BY SameRecipe, StandingStays, EntriesStay DEF Outside
<1>3. \A c : At(c)' = At(c)
  BY <1>2 DEF At, Outside
<1>4. method = "visualStyle" => At("style") = reg.doc
  BY <1>1 DEF At, Home
<1>5. DirtInv'
  <2>1. told = "none" /\ at > 0 => at \in Nat /\ at # 0
    BY <1>1 DEF TypeOK
  <2>2. ASSUME told = "none", at > 0, NEW d \in Docs, NEW c \in Cells, drawing'[d][c] = "new"
        PROVE  /\ (c \in Standing(at) \/ (c \in Borrowed /\ hit')) /\ d = At(c) /\ (c \in Objects => made[c] = d)
               /\ \E i \in 1 .. at - 1 : c \in Touches(Recipe[i])
    <3>1. CASE drawing[d][c] = "new"
      BY <2>2, <3>1 DEF Outside, IInv, DirtInv
    <3>2. CASE c = "style" /\ d = reg.doc /\ method = "visualStyle" /\ "style" \in Standing(at)
      BY <1>1, <1>4, <3>2 DEF Standing
    <3> QED BY <2>1, <2>2, <3>1, <3>2 DEF Outside
  <2>3. told = "none" /\ at > 0 => \A d \in Docs, c \in Cells : drawing'[d][c] # "stray"
    BY DEF Outside, IInv, DirtInv
  <2>4. told = "none" /\ at > 0 => at = 1 \/ at <= Len(Recipe) + 1
    BY DEF IInv, DirtInv
  <2>5. told = "none" /\ at > 0 => \A i \in 1 .. at - 1 : Recipe[i].do = "bind" => reg[Recipe[i].reg] # Nil
    BY DEF IInv, DirtInv
  <2>6. UNCHANGED <<told, at, reg, made>>
    BY DEF Outside
  <2>7. Borrowed' = Borrowed /\ \A s : Touches(s)' = Touches(s)
    BY DEF Touches, Borrowed
  <2> QED BY <1>2, <1>3, <2>2, <2>3, <2>4, <2>5, <2>6, <2>7 DEF DirtInv
<1>6. GainInv'
  <2>1. UNCHANGED <<told, at, reg, made>>
    BY DEF Outside
  <2>2. ASSUME told = "none", at > 0, NEW c \in Objects, made[c] # Nil
        PROVE  c \in Standing(at) /\ made[c] = At(c) /\ (c # "profile" => drawing'[made[c]][c] = "new")
    <3>1. made[c] \in Docs
      BY <1>1, <2>2 DEF TypeOK
    <3> QED BY <1>1, <2>2, <3>1 DEF Outside, IInv, GainInv
  <2>3. told = "none" /\ at > 0 => \A c \in (Standing(at) \cap Objects) \ {"region", "region2"} : made[c] # Nil
    BY DEF IInv, GainInv
  <2>4. ASSUME told = "none", at > 0, NEW c \in Sure(at)
        PROVE  drawing'[At(c)][c] \in {"new", "user"}
    <3>1. at \in 1 .. Len(Recipe) + 1 /\ at # 0
      BY <2>4, Running
    <3>2. At(c) \in Docs /\ c \in Cells
      BY <1>1, <2>4, <3>1, SureBound
    <3>3. drawing[At(c)][c] \in {"new", "user"}
      BY <2>4 DEF IInv, GainInv
    <3> QED BY <2>4, <3>1, <3>2, <3>3 DEF Outside
  <2>5. ASSUME told = "none", at > 0, NEW i \in 1 .. at - 1, Recipe[i].do = "gone"
        PROVE  reg.doc # reg.source \/ drawing'[reg.source].p1 = "new"
    <3>1. at \in 1 .. Len(Recipe) + 1 /\ Sound(Recipe, Cleanup, Purpose) /\ Len(Recipe) \in Nat
      BY <2>5, Running
    <3>2. i \in 1 .. Len(Recipe)
      BY <3>1
    <3>3. PICK j \in 1 .. i - 1 : Recipe[j].do = "bind" /\ Recipe[j].reg = "source"
      BY <2>5, <3>1, <3>2 DEF Sound, GoneReady
    <3>4. j \in 1 .. at - 1
      BY <3>1, <3>3
    <3>5. reg["source"] # Nil
      BY <2>5, <3>3, <3>4 DEF IInv, DirtInv
    <3>6. reg["source"] \in Docs
      BY <1>1, <3>5 DEF TypeOK, Registers
    <3>7. reg.doc # reg.source \/ drawing[reg.source].p1 = "new"
      BY <2>5 DEF IInv, GainInv
    <3> QED BY <1>1, <3>6, <3>7 DEF Outside
  <2> QED BY <1>2, <1>3, <2>1, <2>2, <2>3, <2>4, <2>5 DEF GainInv
<1>7. PredInv'
  BY <1>2 DEF Outside, IInv, PredInv
<1>8. CleanupInv'
  <2>1. Excused => Excused'
    BY DEF Excused, Outside, Wandering
  <2>2. UNCHANGED <<told, at, todo, pred, reg, made, method>>
    BY DEF Outside
  <2>3. \A e, d, c : Handles(e, d, c)' = Handles(e, d, c)
    BY <2>2 DEF Handles
  <2> SUFFICES ASSUME told = "none", at = 0
               PROVE  CleanupInv'
    BY <2>2 DEF CleanupInv
  <2>4. CleanupInv /\ todo \in Seq(Entries)
    BY DEF IInv, CleanupInv
  <2>5. ASSUME ~Excused, NEW d \in Docs, NEW c \in Cells, drawing'[d][c] = "new"
        PROVE  c \in Unguarded \/ \E j \in 1 .. Len(todo) : Handles(todo[j], d, c)
    <3>1. CASE drawing[d][c] = "new"
      BY <2>4, <2>5, <3>1 DEF CleanupInv
    <3>2. CASE c = "style" /\ method = "visualStyle" /\ d = reg.doc /\ todo # <<>>
      <4>1. todo[Len(todo)].do = "verify" /\ todo[Len(todo)].cell = {"style"} /\ Len(todo) \in 1 .. Len(todo)
        BY <2>4, <3>2 DEF CleanupInv
      <4> QED BY <3>2, <4>1 DEF Handles
    <3> QED BY <2>5, <3>1, <3>2 DEF Outside
  <2>6. ASSUME ~Excused, NEW d \in Docs, NEW c \in Cells
        PROVE  drawing'[d][c] # "stray"
    BY <2>4, <2>6 DEF CleanupInv, Outside
  <2>7. todo' \in Seq(Entries')
    BY <1>2, <2>2, <2>4
  <2>8. /\ \A j \in 1 .. Len(todo') : todo'[j].do \in {"restore", "verify"} => pred' # Nil /\ reg'.doc # Nil
        /\ method' = "visualStyle" /\ todo' # <<>> => todo'[Len(todo')].do = "verify" /\ todo'[Len(todo')].cell = {"style"}
    BY <2>2, <2>4 DEF CleanupInv
  <2>9. ASSUME ~Excused
        PROVE  \A j \in 1 .. Len(todo') : todo'[j].do = "drop" /\ made'[todo'[j].cell] # Nil => reg'[todo'[j].reg] = made'[todo'[j].cell]
    BY <2>2, <2>4, <2>9 DEF CleanupInv
  <2>11. Unguarded' = Unguarded /\ Escapes' = Escapes
    BY UnguardedStays DEF Outside
  <2>10. ~Excused => \A d \in Docs, c \in Cells : drawing'[d][c] = "new" =>
                        c \in Unguarded' \/ \E j \in 1 .. Len(todo') : Handles(todo[j], d, c)'
    BY <2>2, <2>3, <2>5, <2>11 DEF Handles
  <2>12. \A j \in 1 .. Len(todo') : todo'[j].do = "drop" /\ "collection" \in todo'[j].reads =>
           /\ todo'[j].cell \in Escapes'
           /\ todo'[j].on = "raise" => \A k \in 1 .. Len(todo') : k = j \/ todo'[k].do = "fence"
    BY <2>2, <2>4, <2>11 DEF CleanupInv
  <2> QED BY <2>1, <2>6, <2>7, <2>8, <2>9, <2>10, <2>12 DEF CleanupInv
<1>9. OkInv'
  <2> SUFFICES ASSUME told' = "ok", ~integrity', method' = "xrefDetach" => inTransaction' \/ ~roamed'
               PROVE  (\A c \in Cells : /\ \A d \in Docs : Dirty(d, c) => (c \in Purpose \/ (c \in Borrowed /\ hit)) /\ d = At(c)
                                        /\ c \in Purpose /\ method \notin Unread => At(c) \in Docs /\ drawing[At(c)][c] \in {"new", "user"})'
    BY DEF OkInv
  <2>1. told = "ok" /\ told' = told
    BY DEF Outside
  <2>2. /\ \A c \in Cells : /\ \A d \in Docs : Dirty(d, c) => (c \in Purpose \/ (c \in Borrowed /\ hit)) /\ d = At(c)
                            /\ c \in Purpose /\ method \notin Unread => At(c) \in Docs /\ drawing[At(c)][c] \in {"new", "user"}
    BY <2>1 DEF IInv, OkInv, Outside
  <2>3. \A d \in Docs, c \in Cells : Dirty(d, c)' => Dirty(d, c)
    BY <2>1 DEF Dirty, Outside
  <2>4. \A c \in Cells : c \in Purpose /\ method \notin Unread => drawing'[At(c)][c] \in {"new", "user"}
    BY <2>1, <2>2 DEF Outside
  <2>5. (hit => hit') /\ method' = method /\ Borrowed' = Borrowed /\ Unread' = Unread
    BY DEF Outside, Borrowed, Unread
  <2> QED BY <1>2, <1>3, <2>2, <2>3, <2>4, <2>5 DEF Dirty, At
<1>10. NothingLeftBehind'
  <2>1. told = "error" => \A d \in Docs, c \in Cells : drawing'[d][c] \in {"new", "stray"} => drawing[d][c] \in {"new", "stray"}
    BY DEF Outside
  <2>2. told = "error" => Left' \subseteq Left
    BY <2>1 DEF Left
  <2>3. Unguarded' = Unguarded /\ Wandering' = Wandering
    BY UnguardedStays DEF Wandering, Outside
  <2> QED BY <2>2, <2>3 DEF NothingLeftBehind, IInv, Outside
<1>11. StaysInTransaction'
  <2>1. method # "visualStyle" => \A d \in Docs, c \in Cells : drawing'[d][c] \in {"new", "stray"} => drawing[d][c] \in {"new", "stray"}
    BY DEF Outside
  <2> QED BY <2>1 DEF StaysInTransaction, IInv, Outside
<1>12. AlarmInv'
  BY DEF AlarmInv, IInv, Outside
<1> QED BY <1>5, <1>6, <1>7, <1>8, <1>9, <1>10, <1>11, <1>12 DEF IInv

LEMMA UserSwitchesKeeps == ASSUME IInv, UserSwitches PROVE IInv'
<1>1. /\ UNCHANGED <<drawing, inTransaction, scope, created, integrity, script, method, args, at, reg, made, pred, todo, bad>>
      /\ UNCHANGED <<escaped, told, pending>>
      /\ roamed' = TRUE /\ hit' = TRUE /\ active' \in Docs /\ switches' \in 0 .. MaxSwitches /\ edits' = edits
  BY BoundsAssumption DEF UserSwitches, callVars, IInv, TypeOK
<1>2. Outside
  BY <1>1 DEF Outside
<1>3. TypeOK'
  BY <1>1 DEF IInv, TypeOK
<1>4. PlaceInv'
  BY <1>1 DEF IInv, PlaceInv
<1>5. QueueInv' /\ StyleInv'
  BY <1>1, StandingStays DEF IInv, QueueInv, StyleInv
<1>6. CalmInv'
  BY <1>1 DEF CalmInv
<1> QED BY <1>1, <1>2, <1>3, <1>4, <1>5, <1>6, OutsideKeeps

LEMMA UserEditsKeeps == ASSUME IInv, UserEdits PROVE IInv'
<1>1. /\ UNCHANGED <<inTransaction, scope, created, integrity, script, method, args, at, reg, made, pred, todo, bad>>
      /\ UNCHANGED <<escaped, told, pending, active, roamed, switches>>
      /\ hit' = TRUE /\ edits' \in 0 .. MaxEdits
  BY BoundsAssumption DEF UserEdits, callVars, IInv, TypeOK
<1>2. /\ drawing \in [Docs -> [Cells -> Values]] /\ active \in Docs /\ TypeOK
      /\ "f1" \in Cells /\ "style" \in Cells /\ "user" \in Values
  BY DEF IInv, TypeOK, Cells, Settings, Values
<1>3. PICK c0 \in UserSettings : drawing' = [drawing EXCEPT ![active][c0] = "user"]
  BY DEF UserEdits, Put
<1>4. c0 \in Cells /\ c0 \in {"f1", "style"}
  BY <1>2 DEF UserSettings
<1>5. \A d \in Docs, c \in Cells : drawing'[d][c] = IF d = active /\ c = c0 THEN "user" ELSE drawing[d][c]
  BY <1>2, <1>3, <1>4
<1>6. Outside
  BY <1>1, <1>4, <1>5 DEF Outside
<1>7. TypeOK'
  <2>1. drawing' \in [Docs -> [Cells -> Values]]
    BY <1>2, <1>3, <1>4
  <2> QED BY <1>1, <1>2, <2>1 DEF TypeOK
<1>8. PlaceInv'
  BY <1>1 DEF IInv, PlaceInv
<1>9. QueueInv'
  BY <1>1, StandingStays DEF IInv, QueueInv
<1>10. StyleInv'
  <2>1. \A d \in Docs : drawing'[d].style = "new" => drawing[d].style = "new"
    BY <1>2, <1>5
  <2>2. Sure(at)' = Sure(at)
    BY <1>1, StandingStays
  <2> QED BY <1>1, <2>1, <2>2 DEF IInv, StyleInv
<1>11. CalmInv'
  BY <1>1 DEF CalmInv
<1>12. roamed' => hit'
  BY <1>1
<1> QED BY <1>6, <1>7, <1>8, <1>9, <1>10, <1>11, <1>12, OutsideKeeps

\* A command that is new runs when the drawing's queue holds nothing else.
LEMMA CadRunsKeeps == ASSUME IInv, CadRunsCommand PROVE IInv'
<1>1. /\ UNCHANGED <<inTransaction, scope, created, integrity, script, method, args, at, reg, made, pred, todo, bad>>
      /\ UNCHANGED <<escaped, told, active, roamed, switches, edits>>
  BY DEF CadRunsCommand, callVars, userVars
<1>2. /\ drawing \in [Docs -> [Cells -> Values]] /\ TypeOK /\ pending \in [Docs -> Seq(Nat)]
      /\ "style" \in Cells /\ {"new", "late"} \subseteq Values /\ hit \in BOOLEAN /\ script \in Seq(AllMethods)
      /\ at \in 0 .. 20
  BY DEF IInv, TypeOK, Cells, Settings, Values
<1> DEFINE New(d) == told = "none" /\ (at > 0 \/ todo # <<>>) /\ Head(pending[d]) = Len(script)
<1>3. PICK d0 \in Docs :
        /\ pending[d0] # <<>> /\ pending' = [pending EXCEPT ![d0] = Tail(@)]
        /\ \/ hit' = hit /\ drawing' = [drawing EXCEPT ![d0]["style"] = IF New(d0) THEN "new" ELSE "late"]
           \/ hit' = TRUE /\ drawing' = drawing
  BY DEF CadRunsCommand, Put
<1> DEFINE v == IF New(d0) THEN "new" ELSE "late"
           Q == pending[d0]
<1>4. /\ Q \in Seq(Nat) /\ Q # <<>> /\ Len(Q) \in Nat \ {0} /\ Head(Q) = Q[1] /\ Tail(Q) \in Seq(Nat)
      /\ Len(Tail(Q)) = Len(Q) - 1 /\ \A i \in 1 .. Len(Q) - 1 : Tail(Q)[i] = Q[i + 1]
  BY <1>2, <1>3
<1>19. \A s \in Seq(Nat) : Len(s) = 0 <=> s = <<>>
  OBVIOUS
<1>5. pending' \in [Docs -> Seq(Nat)] /\ pending'[d0] = Tail(Q) /\ \A d \in Docs \ {d0} : pending'[d] = pending[d]
  BY <1>2, <1>3, <1>4
<1>6. New(d0) => /\ method = "visualStyle" /\ d0 = reg.doc /\ Len(Q) = 1
                 /\ (told = "none" /\ at > 0 => "style" \in Standing(at))
  <2>1. 1 \in 1 .. Len(pending[d0])
    BY <1>4
  <2>2. pending[d0][1] = Len(script) =>
          /\ method = "visualStyle" /\ d0 = reg.doc /\ 1 = Len(pending[d0])
          /\ (told = "none" /\ at > 0 => "style" \in Standing(at))
    BY <2>1 DEF IInv, QueueInv
  <2>3. New(d0) => pending[d0][1] = Len(script)
    BY <1>4
  <2> QED BY <2>2, <2>3
<1>7. method = "visualStyle" => At("style") = reg.doc
  BY DEF At, Home, Settings
<1>8. v \in {"new", "late"} /\ (v = "new" <=> New(d0))
  OBVIOUS
<1> HIDE DEF v, New, Q
<1>9. \A d \in Docs, c \in Cells : drawing'[d][c] = drawing[d][c] \/ (drawing'[d][c] = v /\ d = d0 /\ c = "style")
  <2>1. CASE drawing' = drawing
    BY <2>1
  <2>2. CASE drawing' = [drawing EXCEPT ![d0]["style"] = v]
    BY <1>2, <2>2
  <2> QED BY <1>3, <2>1, <2>2 DEF v
<1>10. /\ told = "ok" /\ method = "visualStyle" => d0 # reg.doc
       /\ told = "none" /\ at > 0 /\ method = "visualStyle" /\ ("style" \in Sure(at) \/ \E d \in Docs : drawing[d].style = "new") => d0 # reg.doc
  BY <1>3 DEF IInv, StyleInv
<1>11. Outside
  <2>1. hit => hit'
    BY <1>3
  <2>2. ASSUME NEW d \in Docs, NEW c \in Cells, drawing'[d][c] = "new", drawing[d][c] # "new"
        PROVE  /\ c = "style" /\ told = "none" /\ method = "visualStyle" /\ d = reg.doc
               /\ IF at = 0 THEN todo # <<>> ELSE "style" \in Standing(at)
    <3>1. v = "new" /\ d = d0 /\ c = "style"
      BY <1>9, <2>2
    <3>2. New(d0)
      BY <1>8, <3>1
    <3> QED BY <1>2, <1>6, <3>1, <3>2 DEF New
  <2>3. \A d \in Docs, c \in Cells : drawing'[d][c] = "stray" => drawing[d][c] = "stray"
    BY <1>8, <1>9
  <2>4. ASSUME NEW d \in Docs, NEW c \in Cells, drawing[d][c] \in {"new", "user"}, told = "none" => at # 0 /\ c \in Sure(at),
               told = "ok" => c \in Purpose /\ method \notin Unread, d = At(c), told \in {"none", "ok"}
        PROVE  drawing'[d][c] \in {"new", "user"}
    <3>1. ASSUME c = "style", d = d0
          PROVE  FALSE
      <4>1. CASE told = "none"
        <5>1. at \in 1 .. Len(Recipe) + 1
          BY <2>4, <4>1, Running
        <5>2. method = "visualStyle"
          BY <2>4, <3>1, <4>1, <5>1, SureBound
        <5> QED BY <1>2, <1>7, <1>10, <2>4, <3>1, <4>1, <5>2
      <4>2. CASE told = "ok"
        <5>1. method = "visualStyle"
          BY <2>4, <3>1, <4>2 DEF Purpose, Reads, TheSettings
        <5> QED BY <1>7, <1>10, <2>4, <3>1, <4>2, <5>1
      <4> QED BY <2>4, <4>1, <4>2
    <3> QED BY <1>9, <2>4, <3>1
  <2> QED BY <1>1, <1>9, <2>1, <2>2, <2>3, <2>4 DEF Outside
<1>12. TypeOK'
  <2>1. drawing' \in [Docs -> [Cells -> Values]]
    <3>1. CASE drawing' = drawing
      BY <1>2, <3>1
    <3>2. CASE drawing' = [drawing EXCEPT ![d0]["style"] = v]
      BY <1>2, <1>8, <3>2
    <3> QED BY <1>3, <3>1, <3>2 DEF v
  <2>2. hit' \in BOOLEAN
    BY <1>2, <1>3
  <2> QED BY <1>1, <1>2, <1>5, <2>1, <2>2 DEF TypeOK
<1>13. PlaceInv'
  BY <1>1, <1>3, <1>5 DEF IInv, PlaceInv
<1>14. Standing(at)' = Standing(at) /\ Sure(at)' = Sure(at) /\ Recipe' = Recipe /\ \A c : At(c)' = At(c)
  BY <1>1, StandingStays, SameRecipe DEF At
<1>15. QueueInv'
  <2>1. ASSUME NEW d \in Docs, NEW i \in 1 .. Len(pending'[d])
        PROVE  \E k \in 1 .. Len(pending[d]) : pending'[d][i] = pending[d][k] /\ (k = Len(pending[d]) => i = Len(pending'[d]))
    <3>1. CASE d = d0
      <4>1. i \in 1 .. Len(Q) - 1 /\ i + 1 \in 1 .. Len(Q) /\ (i + 1 = Len(Q) => i = Len(Tail(Q)))
        <5>1. \A L \in Nat \ {0} : \A n \in 1 .. L - 1 : n + 1 \in 1 .. L /\ (n + 1 = L => n = L - 1)
          OBVIOUS
        <5>2. i \in 1 .. Len(Q) - 1
          BY <1>4, <1>5, <3>1
        <5> QED BY <1>4, <5>1, <5>2
      <4> QED BY <1>4, <1>5, <3>1, <4>1 DEF Q
    <3>2. CASE d # d0
      BY <1>5, <3>2
    <3> QED BY <3>1, <3>2
  <2> QED BY <1>1, <1>14, <2>1 DEF IInv, QueueInv
<1>16. StyleInv'
  <2> SUFFICES ASSUME method = "visualStyle"
               PROVE  StyleInv'
    BY <1>1 DEF StyleInv
  <2>1. ASSUME told = "ok"
        PROVE  pending'[reg.doc] = <<>>
    <3>1. pending[reg.doc] = <<>> /\ reg.doc # d0
      BY <1>10, <2>1 DEF IInv, StyleInv
    <3> QED BY <1>2, <1>3, <3>1
  <2>2. ASSUME told = "none", at > 0, "style" \in Sure(at) \/ \E d \in Docs : drawing'[d].style = "new"
        PROVE  pending'[reg.doc] = <<>>
    <3>1. CASE "style" \in Sure(at) \/ \E d \in Docs : drawing[d].style = "new"
      <4>1. pending[reg.doc] = <<>> /\ reg.doc # d0
        BY <1>10, <2>2, <3>1 DEF IInv, StyleInv
      <4> QED BY <1>2, <1>3, <4>1
    <3>2. CASE v = "new"
      <4>1. New(d0)
        BY <1>8, <3>2
      <4>2. d0 = reg.doc /\ Len(Q) = 1
        BY <1>6, <4>1
      <4>3. Len(Tail(Q)) = 0
        BY <1>4, <4>2
      <4>4. Tail(Q) = <<>>
        BY <1>4, <1>19, <4>3
      <4> QED BY <1>5, <4>2, <4>4
    <3> QED BY <1>2, <1>9, <2>2, <3>1, <3>2
  <2> QED BY <1>1, <1>14, <2>1, <2>2 DEF StyleInv
<1>17. CalmInv'
  <2> SUFFICES ASSUME told = "none", ~hit'
               PROVE  Calm'
    BY <1>1 DEF CalmInv
  <2>1. ~hit /\ Calm /\ drawing' = [drawing EXCEPT ![d0]["style"] = v]
    BY <1>2, <1>3 DEF IInv, CalmInv, v
  <2>2. /\ Sound(Recipe, Cleanup, Purpose) /\ Len(Recipe) \in 1 .. 19 /\ at \in 0 .. Len(Recipe) + 1
        /\ \A i \in 1 .. Len(Recipe) : StepOK(Recipe[i])
    BY Running
  <2>3. \A d \in Docs, c \in Cells \ {"style"} : drawing'[d][c] = drawing[d][c]
    BY <1>9
  <2>4. \A i \in 1 .. at - 1 : i \in 1 .. Len(Recipe) /\ i <= at /\ i < at
    BY <2>2
  <2>5. ASSUME NEW i \in 1 .. at - 1, Recipe[i].do = "set", Recipe[i].cell \notin Borrowed
        PROVE  drawing'[At(Recipe[i].cell)][Recipe[i].cell] = "new"
    <3>1. Recipe[i].cell \in Touches(Recipe[i]) /\ Recipe[i].cell \in Cells \ {"style"}
      BY <2>2, <2>4, <2>5 DEF Touches, StepOK, Cells, Settings
    <3>2. At(Recipe[i].cell) \in Docs
      BY <2>4, <3>1, Bound
    <3>3. drawing[At(Recipe[i].cell)][Recipe[i].cell] = "new"
      BY <2>1, <2>5 DEF Calm
    <3> QED BY <2>3, <3>1, <3>2, <3>3
  <2>6. ASSUME NEW i \in 1 .. at - 1, method = "screenshot", Recipe[i].do = "remember", NEW c \in Settings \ {"style"}
        PROVE  drawing'[reg.doc][c] = pred[c]
    <3>1. PICK j \in 1 .. i - 1 : Recipe[j].do = "bind" /\ Recipe[j].reg = "doc"
      BY <2>2, <2>4, <2>6 DEF Sound, Remembered
    <3>2. j \in 1 .. at - 1 /\ at > 0
      BY <2>2
    <3>3. reg["doc"] # Nil
      BY <3>1, <3>2 DEF IInv, DirtInv
    <3>4. reg["doc"] \in Docs
      BY <1>2, <3>3 DEF TypeOK, Registers
    <3>5. drawing[reg.doc][c] = pred[c]
      BY <2>1, <2>6 DEF Calm
    <3> QED BY <2>3, <3>4, <3>5 DEF Cells
  <2>7. ASSUME method = "visualStyle", at > 0, "style" \in Standing(at)
        PROVE  \/ pending'[reg.doc] # <<>> /\ pending'[reg.doc][Len(pending'[reg.doc])] = Len(script)
               \/ pending'[reg.doc] = <<>> /\ drawing'[reg.doc].style = "new"
    <3>1. PICK i \in 1 .. at - 1 : "style" \in Touches(Recipe[i])
      BY <2>7 DEF Standing
    <3>2. reg.doc \in Docs
      BY <1>7, <2>4, <2>7, <3>1, Bound
    <3>3. \/ pending[reg.doc] # <<>> /\ pending[reg.doc][Len(pending[reg.doc])] = Len(script)
          \/ pending[reg.doc] = <<>> /\ drawing[reg.doc].style = "new"
      BY <2>1, <2>7 DEF Calm
    <3>4. CASE reg.doc # d0
      <4>1. drawing'[reg.doc].style = drawing[reg.doc].style
        BY <1>2, <2>1, <3>2, <3>4
      <4> QED BY <1>5, <3>2, <3>3, <3>4, <4>1
    <3>5. CASE reg.doc = d0
      <4>1. Q[Len(Q)] = Len(script)
        BY <1>3, <3>3, <3>5 DEF Q
      <4>2. CASE Len(Q) = 1
        <5>1. New(d0)
          BY <1>4, <2>7, <4>1, <4>2 DEF New, Q
        <5>2. drawing'[reg.doc].style = "new"
          BY <1>2, <1>8, <2>1, <3>5, <5>1
        <5>3. pending'[reg.doc] = <<>>
          BY <1>4, <1>5, <3>5, <4>2
        <5> QED BY <5>2, <5>3
      <4>3. CASE Len(Q) # 1
        <5>1. Len(Q) - 1 \in 1 .. Len(Q) - 1 /\ (Len(Q) - 1) + 1 = Len(Q)
          BY <1>4, <4>3
        <5>2. Tail(Q)[Len(Q) - 1] = Q[(Len(Q) - 1) + 1]
          BY <1>4, <5>1
        <5>3. Tail(Q)[Len(Tail(Q))] = Len(script)
          BY <1>4, <4>1, <5>1, <5>2
        <5>4. Len(<<>>) = 0 /\ Len(Tail(Q)) # 0
          BY <1>4, <4>3
        <5> QED BY <1>5, <3>5, <5>3, <5>4, Zenon
      <4> QED BY <4>2, <4>3
    <3> QED BY <3>4, <3>5
  <2>8. at = 0 => method = "fromProfile" /\ \A j \in 1 .. Len(todo) : todo[j].do \in {"drop", "skip"}
    BY <2>1 DEF Calm
  <2> QED BY <1>1, <1>14, <2>5, <2>6, <2>7, <2>8 DEF Calm, Borrowed
<1>18. roamed' => hit'
  <2>1. roamed' = roamed /\ (roamed => hit)
    BY <1>1 DEF IInv, AlarmInv
  <2>2. CASE hit' = hit
    BY <2>1, <2>2
  <2>3. CASE hit' = TRUE
    BY <2>3
  <2> QED BY <1>3, <2>2, <2>3
<1> QED BY <1>11, <1>12, <1>13, <1>15, <1>16, <1>17, <1>18, OutsideKeeps

-----------------------------------------------------------------------------
(* The next call                                                           *)

\* Before the first step of a recipe nothing stands and nothing has been seen.
LEMMA Beginning ==
  ASSUME at' = 1
  PROVE  Standing(at)' = {} /\ Sure(at)' = {} /\ 1 .. at' - 1 = {}
<1>1. 1 .. at' - 1 = {}
  OBVIOUS
<1>2. Standing(at)' = {}
  BY <1>1 DEF Standing
<1>3. Sure(at)' = {}
  BY <1>1 DEF Sure
<1> QED BY <1>1, <1>2, <1>3

LEMMA CallKeeps == ASSUME IInv, Call PROVE IInv'
<1>1. /\ told # "none" /\ script # <<>> /\ method' = Head(script) /\ script' = Tail(script) /\ args' \in BOOLEAN
      /\ Head(script) = "open" => ~inTransaction
      /\ at' = 1 /\ reg' = [r \in Registers |-> Nil] /\ made' = Things /\ pred' = Nil /\ todo' = <<>>
      /\ bad' = FALSE /\ escaped' = FALSE /\ told' = "none" /\ roamed' = FALSE
      /\ drawing' = [d \in Docs |-> [c \in Cells |-> IF drawing[d][c] \in {"new", "stray"} THEN "ours" ELSE drawing[d][c]]]
      /\ UNCHANGED <<inTransaction, scope, created, integrity, pending, hit, active, switches, edits>>
  BY DEF Call
<1>2. TypeOK /\ script \in Seq(AllMethods) /\ drawing \in [Docs -> [Cells -> Values]] /\ pending \in [Docs -> Seq(Nat)]
  BY DEF IInv, TypeOK
<1>3. /\ method' \in AllMethods /\ script' \in Seq(AllMethods)
      /\ Len(script) \in Nat \ {0} /\ Len(script') = Len(script) - 1
  BY <1>1, <1>2
<1>4. \A d \in Docs, c \in Cells : drawing'[d][c] \in Values \ {"new", "stray"}
  BY <1>1, <1>2 DEF Values
<1>5. "style" \in Cells
  BY DEF Cells, Settings
<1>6. Standing(at)' = {} /\ Sure(at)' = {} /\ 1 .. at' - 1 = {} /\ at' # 0
  BY <1>1, Beginning
<1>7. TypeOK'
  <2>1. drawing' \in [Docs -> [Cells -> Values]]
    BY <1>1, <1>4
  <2>2. reg' \in [Registers -> Docs \cup {Nil}] /\ made' \in [Objects -> Docs \cup {Nil}]
    BY <1>1 DEF Things
  <2>3. at' \in 0 .. 20 /\ todo' = <<>> /\ ~escaped'
    BY <1>1
  <2> QED BY <1>1, <1>2, <1>3, <2>1, <2>2, <2>3 DEF TypeOK
<1>8. PlaceInv'
  <2>1. inTransaction' => /\ method' # "open" /\ scope' \in Docs /\ \A d \in Docs \ {scope'} : pending'[d] = <<>>
    BY <1>1 DEF IInv, PlaceInv
  <2>2. \A r \in Registers : reg'[r] = Nil
    BY <1>1
  <2> QED BY <2>1, <2>2 DEF PlaceInv
<1>9. DirtInv'
  BY <1>1, <1>4, <1>6 DEF DirtInv
<1>10. GainInv'
  <2>1. \A c \in Objects : made'[c] = Nil
    BY <1>1 DEF Things
  <2> QED BY <1>6, <2>1 DEF GainInv
<1>11. PredInv'
  BY <1>1, <1>6 DEF PredInv
<1>12. QueueInv'
  <2> SUFFICES ASSUME NEW d \in Docs, NEW i \in 1 .. Len(pending[d])
               PROVE  pending[d][i] >= Len(script') /\ pending[d][i] # Len(script')
    BY <1>1 DEF QueueInv
  <2>1. pending[d][i] \in Nat
    BY <1>2
  <2>2. pending[d][i] >= Len(script)
    BY DEF IInv, QueueInv
  <2> QED BY <1>3, <2>1, <2>2
<1>13. StyleInv'
  <2>1. \A d \in Docs : drawing'[d].style # "new"
    BY <1>4, <1>5
  <2>2. told' = "none" /\ Sure(at)' = {}
    BY <1>1, <1>6
  <2> QED BY <2>1, <2>2 DEF StyleInv
<1>14. CalmInv'
  BY <1>6 DEF CalmInv, Calm
<1>15. CleanupInv'
  BY <1>6 DEF CleanupInv
<1>16. OkInv' /\ NothingLeftBehind'
  BY <1>1 DEF OkInv, NothingLeftBehind
<1>17. StaysInTransaction'
  BY <1>4 DEF StaysInTransaction
<1>18. AlarmInv'
  BY <1>1, <1>3 DEF IInv, AlarmInv
<1> QED BY <1>7, <1>8, <1>9, <1>10, <1>11, <1>12, <1>13, <1>14, <1>15, <1>16, <1>17, <1>18 DEF IInv

LEMMA InitKeeps == ASSUME Init PROVE IInv
<1>1. /\ active \in Docs /\ inTransaction \in BOOLEAN /\ scope = active
      /\ created = FALSE /\ integrity = FALSE /\ script \in Scripts
      /\ method = Nil /\ args = FALSE /\ at = 0 /\ reg = [r \in Registers |-> Nil] /\ made = Things
      /\ pred = Nil /\ todo = <<>> /\ bad = FALSE /\ escaped = FALSE /\ told = "idle"
      /\ pending = [d \in Docs |-> <<>>] /\ hit = FALSE /\ roamed = FALSE /\ switches = 0 /\ edits = 0
  BY DEF Init
<1>2. script \in Seq(AllMethods) /\ switches \in 0 .. MaxSwitches /\ edits \in 0 .. MaxEdits
  BY <1>1, ScriptsAssumption, BoundsAssumption
<1>3. drawing \in [Docs -> [Cells -> {"old", "none"}]]
  BY DEF Init
<1>4. \A d \in Docs, c \in Cells : drawing[d][c] \in Values \ {"new", "stray"}
  BY <1>3 DEF Values
<1>5. "style" \in Cells
  BY DEF Cells, Settings
<1>6. TypeOK
  <2>1. drawing \in [Docs -> [Cells -> Values]]
    BY <1>3, <1>4
  <2>2. reg \in [Registers -> Docs \cup {Nil}] /\ made \in [Objects -> Docs \cup {Nil}] /\ pending \in [Docs -> Seq(Nat)]
    BY <1>1 DEF Things
  <2>3. {inTransaction, created, integrity, args, bad, escaped, hit, roamed} \subseteq BOOLEAN
    BY <1>1
  <2>4. scope \in Docs \cup {Nil} /\ method \in AllMethods \cup {Nil} /\ at \in 0 .. 20 /\ at = 0 /\ (pred = Nil \/ pred \in [Settings -> Values])
    BY <1>1
  <2>5. told \in {"idle", "none", "ok", "error"}
    BY <1>1
  <2> QED BY <1>1, <1>2, <2>1, <2>2, <2>3, <2>4, <2>5 DEF TypeOK
<1>7. PlaceInv
  <2>1. \A r \in Registers : reg[r] = Nil
    BY <1>1
  <2>2. \A d \in Docs : pending[d] = <<>>
    BY <1>1
  <2>3. method # "open"
    BY <1>1, NilAssumption DEF AllMethods
  <2> QED BY <1>1, <2>1, <2>2, <2>3 DEF PlaceInv
<1>8. QueueInv
  <2>1. \A d \in Docs : 1 .. Len(pending[d]) = {}
    BY <1>1
  <2> QED BY <2>1 DEF QueueInv
<1>9. DirtInv /\ GainInv /\ PredInv /\ StyleInv /\ CalmInv /\ CleanupInv /\ OkInv /\ NothingLeftBehind
  BY <1>1 DEF DirtInv, GainInv, PredInv, StyleInv, CalmInv, CleanupInv, OkInv, NothingLeftBehind
<1>10. StaysInTransaction
  BY <1>4 DEF StaysInTransaction
<1>11. AlarmInv
  BY <1>1 DEF AlarmInv
<1> QED BY <1>6, <1>7, <1>8, <1>9, <1>10, <1>11 DEF IInv

LEMMA StutterKeeps == ASSUME IInv, UNCHANGED vars PROVE IInv'
<1> USE DEF vars, callVars, userVars
<1>1. Recipe' = Recipe /\ Purpose' = Purpose /\ Cleanup' = Cleanup /\ \A c : Home(c)' = Home(c)
  BY SameRecipe
<1>8. Escapes' = Escapes /\ Unguarded' = Unguarded
  BY UnguardedStays
<1>2. Standing(at)' = Standing(at) /\ Sure(at)' = Sure(at)
  BY StandingStays
<1>3. TypeOK' /\ PlaceInv' /\ DirtInv' /\ GainInv' /\ PredInv'
  BY <1>1, <1>2 DEF IInv, TypeOK, PlaceInv, DirtInv, GainInv, PredInv, At, Borrowed, Touches
<1>4. QueueInv' /\ StyleInv' /\ AlarmInv'
  BY <1>2 DEF IInv, QueueInv, StyleInv, AlarmInv
<1>5. CalmInv'
  BY <1>1, <1>2 DEF IInv, CalmInv, Calm, At, Borrowed
<1>6. CleanupInv'
  BY <1>1, <1>8, EntriesStay DEF IInv, CleanupInv, Handles, Excused, Wandering
<1>7. OkInv' /\ NothingLeftBehind' /\ StaysInTransaction'
  BY <1>1, <1>8 DEF IInv, OkInv, NothingLeftBehind, StaysInTransaction, Dirty, At, Left, Wandering, Borrowed, Unread
<1> QED BY <1>3, <1>4, <1>5, <1>6, <1>7 DEF IInv

\* The state invariant is kept by every step.
LEMMA NextKeeps == ASSUME IInv, Next PROVE IInv'
<1>1. CASE Recipes
  BY <1>1, BindKeeps, SkipKeeps, UseKeeps, MakeKeeps, AttachKeeps, RegionsKeep, OneKeeps, ChangeKeeps, RememberKeeps,
     CheckKeeps, CommandKeeps, DropKeeps, BackKeeps, OpenKeeps, GoneKeeps, SameKeeps, Zenon DEF Recipes
<1>2. CASE Unwinding
  BY <1>2, CleanSkipKeeps, CleanDropKeeps, RestoreKeeps, VerifyKeeps, CleanBackKeeps, FenceKeeps, Zenon DEF Unwinding
<1> QED BY <1>1, <1>2, CallKeeps, AnsweredKeeps, CadRunsKeeps, UserSwitchesKeeps, UserEditsKeeps, Zenon DEF Next

-----------------------------------------------------------------------------
(* The theorems                                                            *)

\* The inductive invariant: what each step of a recipe may have left is known, and
\* an exception at any step leads to what undoes or quarantines it, but for what
\* Unguarded names; any change may have had an effect and fail, or have none.
THEOREM InductiveInvariant == Spec => []IInv
<1>1. Init => IInv
  BY InitKeeps
<1>2. IInv /\ [Next]_vars => IInv'
  BY NextKeeps, StutterKeeps
<1> QED BY <1>1, <1>2, PTL DEF Spec

\* A call that is answered with an error has left nothing of it in any drawing but
\* what Unguarded names, or the backend is quarantined: for every method but the
\* Wandering ones of a user who goes to another drawing, wherever it fails,
\* exceptions of the except blocks included, whatever Delete and Set pretended.
THEOREM FailureLeavesNothing == Spec => []NothingLeftBehind
<1>1. IInv => NothingLeftBehind
  BY DEF IInv
<1> QED BY <1>1, InductiveInvariant, PTL

\* A call that is answered with ok has changed what it is for and nothing else, in
\* one drawing, and has left none of its temporary objects; a borrowed setting is
\* left only if an assignment lied or the user was at work.  Unless the method is
\* Unread it has done what it is for, although every assignment may do nothing.
THEOREM SuccessIsTrue == Spec => []SuccessIsReal
<1>1. ASSUME IInv PROVE SuccessIsReal
  <2> SUFFICES ASSUME told = "ok", ~integrity, method = "xrefDetach" => inTransaction \/ ~roamed
               PROVE  /\ Left \subseteq Purpose \cup (IF hit THEN Borrowed ELSE {})
                      /\ \A c \in Purpose :
                           /\ \A d, e \in Docs : drawing[d][c] = "new" /\ drawing[e][c] = "new" => d = e
                           /\ method \notin Unread => \E d \in Docs : drawing[d][c] \in {"new", "user"}
    BY DEF SuccessIsReal
  <2>1. \A c \in Cells :
          /\ \A d \in Docs : Dirty(d, c) => (c \in Purpose \/ (c \in Borrowed /\ hit)) /\ d = At(c)
          /\ c \in Purpose /\ method \notin Unread => At(c) \in Docs /\ drawing[At(c)][c] \in {"new", "user"}
    BY <1>1 DEF IInv, OkInv
  <2>2. Left \subseteq Purpose \cup (IF hit THEN Borrowed ELSE {})
    BY <2>1 DEF Left, Dirty
  <2>3. Purpose \subseteq Cells
    BY <1>1 DEF Purpose, TheSettings, Cells, Objects, Settings
  <2>4. ASSUME NEW c \in Purpose
        PROVE  /\ \A d, e \in Docs : drawing[d][c] = "new" /\ drawing[e][c] = "new" => d = e
               /\ method \notin Unread => \E d \in Docs : drawing[d][c] \in {"new", "user"}
    BY <2>1, <2>3 DEF Dirty
  <2> QED BY <2>2, <2>4
<1>2. IInv => SuccessIsReal
  BY <1>1
<1> QED BY <1>2, InductiveInvariant, PTL

\* In a transaction a call leaves nothing in another drawing than the
\* transaction's, even if the user goes there.
THEOREM TransactionIsKept == Spec => []StaysInTransaction
<1>1. IInv => StaysInTransaction
  BY DEF IInv
<1> QED BY <1>1, InductiveInvariant, PTL

\* As long as COM calls do what they say and the user leaves the drawing alone
\* nothing is quarantined.
THEOREM AlarmIsReal == Spec => []NoFalseAlarm
<1>1. IInv => NoFalseAlarm
  BY DEF IInv, AlarmInv, NoFalseAlarm
<1> QED BY <1>1, InductiveInvariant, PTL
=============================================================================
