------------------------- MODULE EzdxfBackendProofs -------------------------
(* Proofs about EzdxfBackend, for every number of calls, whatever they ask for
   and the drawing is made of: first the lock and the quarantine, then the types
   (what each operation makes of a drawing), then the history, the file and the
   bindings, the refinement of the tape and the references in the drawing.  *)
EXTENDS EzdxfBackend, SequenceTheorems, TLAPS

LEMMA InitInv == Init => IInv
<1> SUFFICES ASSUME Init PROVE IInv
  OBVIOUS
<1>1. /\ quarantined = FALSE /\ uncertain = Nil /\ lock = Nil
      /\ req = [c \in Calls |-> Nil] /\ phase = [c \in Calls |-> "idle"] /\ work = [c \in Calls |-> "none"]
  BY DEF Init
<1>2. LaneTypeOK
  BY <1>1 DEF LaneTypeOK
<1>3. ASSUME NEW c \in Calls PROVE phase[c] = "idle" /\ work[c] = "none" /\ lock # c
  BY <1>1, BackendAssumption
<1>4. LaneInv
  BY <1>3 DEF LaneInv, Busy
<1> QED BY <1>2, <1>4 DEF IInv

\* A worker moves on by itself: the lock, the quarantine and the coroutines are
\* as before.
LEMMA WorkerMoves ==
  ASSUME NEW c \in Calls, Worker(c)
  PROVE  /\ UNCHANGED <<guardVars, callVars>>
         /\ Busy(c)
         /\ \E w \in {"ran", "done"} : work' = [work EXCEPT ![c] = w]
<1> USE DEF WorkerFrame, Finish, Busy
<1>1. CASE Raise(c) BY <1>1 DEF Raise
<1>2. CASE Read(c) BY <1>2 DEF Read
<1>3. CASE Load(c) BY <1>3 DEF Load
<1>4. CASE Write(c) BY <1>4 DEF Write
<1>5. CASE Render(c) BY <1>5 DEF Render
<1>6. CASE Publish(c) BY <1>6 DEF Publish
<1>7. CASE Edit(c) BY <1>7 DEF Edit
<1>8. CASE Record(c) BY <1>8 DEF Record
<1>9. CASE Snapshot(c) BY <1>9 DEF Snapshot
<1>10. CASE Push(c) BY <1>10 DEF Push
<1>11. CASE Commit(c) BY <1>11 DEF Commit
<1>12. CASE Rollback(c) BY <1>12 DEF Rollback
<1>13. CASE Undo(c) BY <1>13 DEF Undo
<1>14. CASE Redo(c) BY <1>14 DEF Redo
<1> QED
  BY <1>1, <1>2, <1>3, <1>4, <1>5, <1>6, <1>7, <1>8, <1>9, <1>10, <1>11, <1>12, <1>13, <1>14 DEF Worker

LEMMA WorkerInv ==
  ASSUME IInv, NEW c \in Calls, Worker(c)
  PROVE  IInv'
<1>1. PICK w \in {"ran", "done"} : work' = [work EXCEPT ![c] = w]
  BY WorkerMoves
<1>2. UNCHANGED <<lock, quarantined, uncertain, req, phase>> /\ Busy(c)
  BY WorkerMoves DEF guardVars, callVars
<1>3. LaneTypeOK'
  BY <1>1, <1>2 DEF IInv, LaneTypeOK
<1>4. LaneInv'
  <2> SUFFICES ASSUME NEW d \in Calls
               PROVE  /\ phase[d] = "inside" <=> lock = d
                      /\ phase[d] = "waiting" => work'[d] = "none"
                      /\ phase[d] = "inside" => IF Rebinds(req[d]) THEN uncertain = Nil ELSE ~quarantined
                      /\ Busy(d)' /\ Sensitive(req[d]) /\ phase[d] # "inside" => quarantined /\ uncertain = d
    BY <1>2 DEF LaneInv, Busy, Rebinds, Sensitive
  <2>1. Busy(d)' => Busy(d)
    BY <1>1, <1>2 DEF Busy, IInv, LaneTypeOK
  <2>2. phase[d] = "waiting" => work'[d] = "none"
    BY <1>1, <1>2 DEF Busy, IInv, LaneTypeOK, LaneInv
  <2> QED BY <2>1, <2>2 DEF IInv, LaneInv
<1> QED BY <1>3, <1>4 DEF IInv
-----------------------------------------------------------------------------
(* The coroutine of a call *)

LEMMA InvokeInv ==
  ASSUME IInv, NEW c \in Calls, NEW r \in Requests, Invoke(c, r)
  PROVE  IInv'
<1>1. /\ phase[c] = "idle" /\ work[c] \in {"none", "done"}
      /\ req' = [req EXCEPT ![c] = r] /\ work' = [work EXCEPT ![c] = "none"]
      /\ \E p \in {"idle", "waiting"} : phase' = [phase EXCEPT ![c] = p]
      /\ UNCHANGED <<lock, quarantined, uncertain>>
  BY DEF Invoke, guardVars
<1>2. LaneTypeOK'
  BY <1>1 DEF IInv, LaneTypeOK
<1>3. LaneInv'
  BY <1>1 DEF IInv, LaneTypeOK, LaneInv, Busy, Rebinds, Sensitive
<1> QED BY <1>2, <1>3 DEF IInv

\* A worker that is uncertain and not done stays uncertain.
LEMMA ReapedBusy ==
  ASSUME LaneTypeOK, NEW d \in Calls, Busy(d), uncertain = d
  PROVE  Reaped = d
BY BackendAssumption DEF Reaped, Busy, LaneTypeOK

LEMMA EnterInv ==
  ASSUME IInv, NEW c \in Calls, Enter(c)
  PROVE  IInv'
<1> USE DEF IInv
<1>1. /\ phase[c] = "waiting" /\ lock = Nil /\ work[c] = "none"
      /\ uncertain' = Reaped /\ Reaped \in Calls \cup {Nil}
      /\ UNCHANGED <<quarantined, req>>
  BY DEF Enter, LaneInv, Reaped, LaneTypeOK
<1>2. \A d \in Calls : phase[d] # "inside"
  BY <1>1, BackendAssumption DEF LaneInv
<1>3. CASE /\ phase' = [phase EXCEPT ![c] = "idle"] /\ UNCHANGED <<lock, work>>
  <2>1. LaneTypeOK'
    BY <1>1, <1>3 DEF LaneTypeOK
  <2>2. LaneInv'
    <3> SUFFICES ASSUME NEW d \in Calls
                 PROVE  /\ phase'[d] = "inside" <=> lock' = d
                        /\ phase'[d] = "waiting" => work'[d] = "none"
                        /\ phase'[d] # "inside"
                        /\ Busy(d)' /\ Sensitive(req[d]) => quarantined /\ uncertain' = d
      BY <1>1 DEF LaneInv, Busy, Sensitive
    <3>1. phase'[d] # "inside" /\ lock' # d
      BY <1>1, <1>2, <1>3, BackendAssumption DEF LaneTypeOK
    <3>2. phase'[d] = "waiting" => work'[d] = "none"
      BY <1>3 DEF LaneTypeOK, LaneInv
    <3>3. Busy(d)' /\ Sensitive(req[d]) => quarantined /\ uncertain' = d
      BY <1>1, <1>2, <1>3, ReapedBusy DEF LaneInv, Busy
    <3> QED BY <3>1, <3>2, <3>3
  <2> QED BY <2>1, <2>2
<1>4. CASE /\ ~(Rebinds(req[c]) /\ Reaped # Nil) /\ ~(quarantined /\ ~Rebinds(req[c]))
           /\ lock' = c /\ phase' = [phase EXCEPT ![c] = "inside"]
           /\ work' = [work EXCEPT ![c] = "started"]
  <2>1. LaneTypeOK'
    BY <1>1, <1>4 DEF LaneTypeOK
  <2>2. LaneInv'
    <3> SUFFICES ASSUME NEW d \in Calls
                 PROVE  /\ phase'[d] = "inside" <=> lock' = d
                        /\ phase'[d] = "waiting" => work'[d] = "none"
                        /\ phase'[d] = "inside" => IF Rebinds(req[d]) THEN uncertain' = Nil ELSE ~quarantined
                        /\ Busy(d)' /\ Sensitive(req[d]) /\ phase'[d] # "inside" => quarantined /\ uncertain' = d
      BY <1>1 DEF LaneInv, Busy, Rebinds, Sensitive
    <3>1. CASE d = c
      BY <1>1, <1>4, <3>1 DEF LaneTypeOK
    <3>2. CASE d # c
      <4>1. phase'[d] = phase[d] /\ work'[d] = work[d] /\ phase[d] # "inside" /\ lock' # d
        BY <1>2, <1>4, <3>2 DEF LaneTypeOK
      <4>2. Busy(d)' /\ Sensitive(req[d]) => quarantined /\ uncertain' = d
        BY <1>1, <4>1, ReapedBusy DEF LaneInv, Busy
      <4> QED BY <4>1, <4>2 DEF LaneInv
    <3> QED BY <3>1, <3>2
  <2> QED BY <2>1, <2>2
<1> QED BY <1>3, <1>4 DEF Enter, Answer

LEMMA ReturnInv ==
  ASSUME IInv, NEW c \in Calls, Return(c)
  PROVE  IInv'
<1> USE DEF IInv
<1>1. /\ phase[c] = "inside" /\ work[c] = "done" /\ lock = c
      /\ lock' = Nil /\ phase' = [phase EXCEPT ![c] = "idle"]
      /\ UNCHANGED <<uncertain, req, work>>
  BY DEF Return, Answer, workVars, LaneInv
<1>2. quarantined' = quarantined \/ (Rebinds(req[c]) /\ quarantined' = FALSE)
  BY DEF Return, Bind
<1>3. LaneTypeOK'
  BY <1>1, <1>2 DEF LaneTypeOK
<1>4. LaneInv'
  <2> SUFFICES ASSUME NEW d \in Calls
               PROVE  /\ phase'[d] # "inside" /\ lock' # d
                      /\ phase'[d] = "waiting" => work[d] = "none"
                      /\ Busy(d) /\ Sensitive(req[d]) => quarantined' /\ uncertain = d
    BY <1>1 DEF LaneInv, Busy, Rebinds, Sensitive
  <2>1. phase'[d] # "inside" /\ lock' # d
    BY <1>1, BackendAssumption DEF LaneTypeOK, LaneInv
  <2>2. phase'[d] = "waiting" => work[d] = "none"
    BY <1>1 DEF LaneTypeOK, LaneInv
  <2>3. ASSUME Busy(d), Sensitive(req[d])
        PROVE  quarantined' /\ uncertain = d
    <3>1. phase[d] # "inside"
      BY <1>1, <2>3 DEF LaneInv, Busy
    <3>2. quarantined /\ uncertain = d
      BY <2>3, <3>1 DEF LaneInv
    <3>3. ~Rebinds(req[c])
      BY <1>1, <3>2, BackendAssumption DEF LaneInv
    <3> QED BY <1>2, <3>2, <3>3
  <2> QED BY <2>1, <2>2, <2>3
<1> QED BY <1>3, <1>4

\* The lock is given up while the worker may run on: only a call that was let in
\* without a quarantine can bring one about.
LEMMA AbandonInv ==
  ASSUME IInv, NEW c \in Calls, NEW told, Abandon(c, told)
  PROVE  IInv'
<1> USE DEF IInv
<1>1. /\ phase[c] = "inside" /\ lock = c /\ lock' = Nil
      /\ phase' = [phase EXCEPT ![c] = "idle"]
      /\ UNCHANGED <<req, work>>
      /\ IF Sensitive(req[c]) THEN quarantined' = TRUE /\ uncertain' = c ELSE UNCHANGED <<quarantined, uncertain>>
  BY DEF Abandon, Answer, workVars, LaneInv
<1>2. LaneTypeOK'
  BY <1>1 DEF LaneTypeOK
<1>3. LaneInv'
  <2> SUFFICES ASSUME NEW d \in Calls
               PROVE  /\ phase'[d] # "inside" /\ lock' # d
                      /\ phase'[d] = "waiting" => work[d] = "none"
                      /\ Busy(d) /\ Sensitive(req[d]) => quarantined' /\ uncertain' = d
    BY <1>1 DEF LaneInv, Busy, Rebinds, Sensitive
  <2>1. phase'[d] # "inside" /\ lock' # d
    BY <1>1, BackendAssumption DEF LaneTypeOK, LaneInv
  <2>2. phase'[d] = "waiting" => work[d] = "none"
    BY <1>1 DEF LaneTypeOK, LaneInv
  <2>3. ASSUME Busy(d), Sensitive(req[d])
        PROVE  quarantined' /\ uncertain' = d
    <3>1. CASE d = c
      BY <1>1, <2>3, <3>1
    <3>2. CASE d # c
      <4>1. quarantined /\ uncertain = d
        BY <1>1, <2>3, <3>2 DEF LaneInv
      <4>2. ~Sensitive(req[c])
        BY <1>1, <4>1 DEF LaneInv, Rebinds, Sensitive
      <4> QED BY <1>1, <4>1, <4>2
    <3> QED BY <3>1, <3>2
  <2> QED BY <2>1, <2>2, <2>3
<1> QED BY <1>2, <1>3

LEMMA CancelWaitingInv ==
  ASSUME IInv, NEW c \in Calls, CancelWaiting(c)
  PROVE  IInv'
<1>1. /\ phase[c] = "waiting" /\ phase' = [phase EXCEPT ![c] = "idle"]
      /\ UNCHANGED <<lock, quarantined, uncertain, req, work>>
  BY DEF CancelWaiting, Answer, guardVars, workVars
<1>2. LaneTypeOK'
  BY <1>1 DEF IInv, LaneTypeOK
<1>3. LaneInv'
  BY <1>1 DEF IInv, LaneTypeOK, LaneInv, Busy, Rebinds, Sensitive
<1> QED BY <1>2, <1>3 DEF IInv

LEMMA StepInv == IInv /\ [Next]_vars => IInv'
<1> SUFFICES ASSUME IInv, [Next]_vars PROVE IInv'
  OBVIOUS
<1>1. CASE UNCHANGED vars
  <2>1. UNCHANGED <<lock, quarantined, uncertain, req, phase, work>>
    BY <1>1 DEF vars, guardVars, callVars, workVars
  <2> QED BY <2>1 DEF IInv, LaneTypeOK, LaneInv, Busy, Rebinds, Sensitive
<1>2. ASSUME NEW c \in Calls, NEW r \in Requests, Invoke(c, r) PROVE IInv'
  BY <1>2, InvokeInv
<1>3. ASSUME NEW c \in Calls, Coroutine(c) PROVE IInv'
  <2>1. CASE Enter(c) BY <2>1, EnterInv
  <2>2. CASE Return(c) BY <2>2, ReturnInv
  <2>3. CASE Timeout(c) BY <2>3, AbandonInv DEF Timeout
  <2> QED BY <1>3, <2>1, <2>2, <2>3 DEF Coroutine
<1>4. ASSUME NEW c \in Calls, CancelInside(c) PROVE IInv'
  BY <1>4, AbandonInv DEF CancelInside
<1>5. ASSUME NEW c \in Calls, CancelWaiting(c) PROVE IInv'
  BY <1>5, CancelWaitingInv
<1>6. ASSUME NEW c \in Calls, Worker(c) PROVE IInv'
  BY <1>6, WorkerInv
<1> QED BY <1>1, <1>2, <1>3, <1>4, <1>5, <1>6 DEF Next

\* The lock and the quarantine of _run fit together in every state.
THEOREM InductiveInvariant == Spec => []IInv
<1> QED BY InitInv, StepInv, PTL DEF Spec

LEMMA InvImpliesOneMutator == IInv => OneMutator
<1> SUFFICES ASSUME IInv PROVE OneMutator
  OBVIOUS
<1>1. ASSUME NEW c \in Calls, NEW d \in Calls, Busy(c), Busy(d), Sensitive(req[c]), Sensitive(req[d])
      PROVE  c = d
  BY <1>1 DEF IInv, LaneInv, Rebinds, Sensitive
<1>2. ASSUME NEW c \in Calls, Busy(c), Sensitive(req[c]), lock # c
      PROVE  quarantined /\ uncertain = c /\ lock = Nil
  <2>1. quarantined /\ uncertain = c
    BY <1>2 DEF IInv, LaneInv
  <2>2. ASSUME NEW d \in Calls, lock = d PROVE FALSE
    <3>1. Rebinds(req[d])
      BY <2>1, <2>2 DEF IInv, LaneInv
    <3> QED BY <2>1, <2>2, <3>1, BackendAssumption DEF IInv, LaneInv
  <2> QED BY <2>1, <2>2 DEF IInv, LaneTypeOK
<1> QED BY <1>1, <1>2 DEF OneMutator

\* One worker at most may be changing the drawing or its file, abandoned ones
\* included, for every number of calls, timeouts and cancellations.
THEOREM SingleMutator == Spec => []OneMutator
<1> QED BY InductiveInvariant, InvImpliesOneMutator, PTL
-----------------------------------------------------------------------------
(* What an operation makes of a drawing is a drawing, of the same binding *)

Same(d, x) == x \in Drawing /\ x.binding = d.binding
Keeps(d, o) == Same(d, o.d) /\ o.ok \in BOOLEAN

LEMMA SameKeeps ==
  ASSUME NEW d, NEW x, Same(d, x)
  PROVE  Keeps(d, Returns(x)) /\ Keeps(d, Raises(x))
BY DEF Keeps, Returns, Raises

LEMMA SameItself ==
  ASSUME NEW d \in Drawing
  PROVE  Keeps(d, Raises(d))
BY SameKeeps DEF Same

LEMMA AddSame ==
  ASSUME NEW d \in Drawing, d.seed <= MaxHandle, NEW e \in Entity
  PROVE  Same(d, Add(d, e))
<1>1. d.seed \in Handles /\ d.seed + 1 \in 1 .. (MaxHandle + 1)
  BY DrawingAssumption DEF Drawing, Handles
<1> QED BY <1>1 DEF Same, Add, Drawing

LEMMA NewEntity ==
  ASSUME NEW d \in Drawing, NEW n \in Names
  PROVE  Plain(d, n) \in Entity /\ \A b \in BlockNames : [Plain(d, n) EXCEPT !.block = b] \in Entity
BY DEF Plain, Entity, Drawing

LEMMA RequestedLayer ==
  ASSUME NEW d \in Drawing, NEW n \in Names \cup {Nil}
  PROVE  Requested(d, n) \in Names
BY DEF Requested, Drawing

LEMMA Created ==
  ASSUME NEW d \in Drawing, d.seed <= MaxHandle, NEW n \in Names \cup {Nil},
         NEW o \in CreateEntity(d, n) \cup CreateComposite(d, n)
  PROVE  Keeps(d, o)
<1>1. Plain(d, Requested(d, n)) \in Entity /\ Plain(d, Zero) \in Entity
  BY NewEntity, RequestedLayer, DrawingAssumption
<1> QED BY <1>1, AddSame, SameKeeps, SameItself DEF CreateEntity, CreateComposite

LEMMA Inserted ==
  ASSUME NEW d \in Drawing, d.seed <= MaxHandle, NEW n \in Names \cup {Nil}, NEW b \in BlockNames,
         NEW o \in BlockInsert(d, b, n)
  PROVE  Keeps(d, o)
<1>1. [Plain(d, Requested(d, n)) EXCEPT !.block = b] \in Entity
  BY NewEntity, RequestedLayer
<1> QED BY <1>1, AddSame, SameKeeps, SameItself DEF BlockInsert

LEMMA PropertiesSet ==
  ASSUME NEW d \in Drawing, NEW h \in Handles, NEW n \in Names, NEW o \in SetProperties(d, h, n)
  PROVE  Keeps(d, o)
<1>1. HasEntity(d, h) => Same(d, [d EXCEPT !.ents[h].layer = n])
  BY DEF Same, HasEntity, Drawing, Entity
<1> QED BY <1>1, SameKeeps, SameItself DEF SetProperties

LEMMA EntityChanged ==
  ASSUME NEW d \in Drawing, NEW h \in Handles, NEW o \in DeleteEntity(d, h) \cup TransformEntity(d, h)
  PROVE  Keeps(d, o)
<1>1. HasEntity(d, h) => Same(d, [d EXCEPT !.ents[h].moved = ~@])
  <2>1. (~d.ents[h].moved) \in BOOLEAN
    OBVIOUS
  <2>2. ASSUME NEW m \in BOOLEAN, HasEntity(d, h) PROVE Same(d, [d EXCEPT !.ents[h].moved = m])
    BY <2>2 DEF Same, HasEntity, Drawing, Entity
  <2> QED BY <2>1, <2>2, Zenon
<1>2. Same(d, [d EXCEPT !.ents[h] = Nil])
  BY DEF Same, Drawing
<1> QED BY <1>1, <1>2, SameKeeps, SameItself DEF DeleteEntity, TransformEntity

LEMMA Copied ==
  ASSUME NEW d \in Drawing, d.seed <= MaxHandle, NEW h \in Handles, NEW o \in CopyEntity(d, h)
  PROVE  Keeps(d, o)
<1>1. HasEntity(d, h) => [d.ents[h] EXCEPT !.space = d.space, !.moved = ~@] \in Entity
  BY DEF HasEntity, Drawing, Entity
<1> QED BY <1>1, AddSame, SameKeeps, SameItself DEF CopyEntity

LEMMA LayerSet ==
  ASSUME NEW l \in Layer, NEW ch \in LayerChanges
  PROVE  WithState(l, ch) \in Layer
<1>1. ch.to \in BOOLEAN /\ l.on \in BOOLEAN /\ l.frozen \in BOOLEAN /\ l.locked \in BOOLEAN
  BY DEF LayerChanges, Layer
<1>2. ASSUME NEW a \in BOOLEAN, NEW b \in BOOLEAN, NEW c \in BOOLEAN
      PROVE  [l EXCEPT !.on = a, !.frozen = b, !.locked = c] \in Layer
  BY DEF Layer
<1>3. /\ (IF ch.field = "on" THEN ch.to ELSE l.on) \in BOOLEAN
      /\ (IF ch.field = "frozen" THEN ch.to ELSE l.frozen) \in BOOLEAN
      /\ (IF ch.field = "locked" THEN ch.to ELSE l.locked) \in BOOLEAN
  BY <1>1, Zenon
<1> QED BY <1>2, <1>3, Zenon DEF WithState

LEMMA LayerMade ==
  ASSUME NEW d \in Drawing, NEW n \in Names, NEW o \in LayerCreate(d, n) \cup LayerSetCurrent(d, n)
  PROVE  Keeps(d, o)
<1>1. Same(d, [d EXCEPT !.layers[Fold[n]] = NewLayer(n)])
  BY DrawingAssumption DEF Same, NewLayer, Layer, Drawing
<1>2. Same(d, [d EXCEPT !.current = n])
  BY DEF Same, Drawing
<1> QED BY <1>1, <1>2, SameKeeps, SameItself DEF LayerCreate, LayerSetCurrent

LEMMA LayerChanged ==
  ASSUME NEW d \in Drawing, NEW n \in Names, NEW ch \in LayerChanges, NEW l, NEW o \in LayerUpdateState(d, n, ch, l)
  PROVE  Keeps(d, o)
<1> DEFINE new == [d EXCEPT !.layers[Fold[n]] = WithState(@, ch)]
<1>1. ASSUME HasLayer(d, n) PROVE Same(d, new)
  <2>1. Fold[n] \in Names /\ d.layers[Fold[n]] \in Layer
    BY <1>1, DrawingAssumption DEF HasLayer, Drawing
  <2>2. ASSUME NEW m \in Layer PROVE Same(d, [d EXCEPT !.layers[Fold[n]] = m])
    BY <2>1 DEF Same, Drawing
  <2> QED BY <2>1, <2>2, LayerSet
<1>2. o = Raises(d) \/ (HasLayer(d, n) /\ o \in {Returns(new), Raises(new)})
  BY DEF LayerUpdateState
<1> HIDE DEF new
<1> QED BY <1>1, <1>2, SameKeeps, SameItself

LEMMA BlockOfKept ==
  ASSUME NEW d \in Drawing, NEW H \in SUBSET Handles, \A h \in H : HasEntity(d, h)
  PROVE  BlockOf(d, H) \in Block
<1>1. \A h \in H : d.ents[h] \in Entity
  BY DEF HasEntity, Drawing
<1> QED BY <1>1 DEF BlockOf, Block, Entity

LEMMA BlockMade ==
  ASSUME NEW d \in Drawing, NEW b \in BlockNames, NEW H \in SUBSET Handles, NEW o \in BlockCreate(d, b, H)
  PROVE  Keeps(d, o)
<1>1. ASSUME NEW G \in SUBSET H, \A h \in H : HasEntity(d, h)
      PROVE  Same(d, [d EXCEPT !.blocks[b] = BlockOf(d, G)])
  <2>1. BlockOf(d, G) \in Block
    BY <1>1, BlockOfKept
  <2> QED BY <2>1 DEF Same, Drawing
<1>2. CASE o = Raises(d)
  BY <1>2, SameItself
<1>3. CASE o # Raises(d)
  <2>1. \A h \in H : HasEntity(d, h)
    BY <1>3 DEF BlockCreate
  <2>2. PICK G \in SUBSET H : o \in {Returns([d EXCEPT !.blocks[b] = BlockOf(d, G)]), Raises([d EXCEPT !.blocks[b] = BlockOf(d, G)])}
    BY <1>3 DEF BlockCreate
  <2> QED BY <2>1, <2>2, <1>1, SameKeeps
<1> QED BY <1>2, <1>3

LEMMA LayoutChanged ==
  ASSUME NEW d \in Drawing, NEW l \in Layouts \cup {Model}, NEW o \in LayoutSetCurrent(d, l)
  PROVE  Keeps(d, o)
<1>1. Same(d, [d EXCEPT !.space = l])
  BY DEF Same, Drawing
<1> QED BY <1>1, SameKeeps, SameItself DEF LayoutSetCurrent

LEMMA DocumentChanged ==
  ASSUME NEW d \in Drawing, NEW e, e.kind = "units" => e.metric \in BOOLEAN,
         NEW o, \/ e.kind = "units" /\ o \in ConfigureUnits(d, e.metric)
                \/ o \in Audit(d) \cup Purge(d)
  PROVE  Keeps(d, o)
<1>1. e.kind = "units" => Same(d, [d EXCEPT !.metric = e.metric])
  BY DEF Same, Drawing
<1>2. Same(d, [d EXCEPT !.flawed = FALSE])
  BY DEF Same, Drawing
<1>3. ASSUME NEW rest \in Drawing, rest.binding = d.binding
      PROVE  Same(d, [rest EXCEPT !.layers =
                [n \in Names |-> IF d.layers[n] # Nil /\ d.layers[n].name \in UsedLayers(rest) THEN d.layers[n] ELSE Nil]])
  BY <1>3 DEF Same, Drawing
<1>4. Same(d, [d EXCEPT !.blocks = [b \in BlockNames |-> IF b \in UsedBlocks(d) THEN d.blocks[b] ELSE Nil]])
  BY DEF Same, Drawing
<1>5. CASE o \in Purge(d)
  BY <1>3, <1>4, <1>5, SameKeeps DEF Purge, Same
<1>6. CASE o \in Audit(d)
  BY <1>2, <1>6, SameKeeps DEF Audit
<1>7. CASE e.kind = "units" /\ o \in ConfigureUnits(d, e.metric)
  BY <1>1, <1>7, SameKeeps DEF ConfigureUnits
<1> QED BY <1>5, <1>6, <1>7

LEMMA LayoutMade ==
  ASSUME NEW d \in Drawing, NEW l \in Layouts, NEW o \in LayoutCreate(d, l)
  PROVE  Keeps(d, o)
<1>1. Same(d, [d EXCEPT !.layouts = @ \cup {l}])
  BY DEF Same, Drawing
<1> QED BY <1>1, SameKeeps, SameItself DEF LayoutCreate

\* What each kind of edit carries, and the operation it is.
LEMMA EditKinds ==
  ASSUME NEW d, NEW e \in Edits
  PROVE  \/ /\ e.kind = "create" /\ e.layer \in Names \cup {Nil} /\ Outcomes(e, d) = CreateEntity(d, e.layer)
         \/ /\ e.kind = "composite" /\ e.layer \in Names \cup {Nil} /\ Outcomes(e, d) = CreateComposite(d, e.layer)
         \/ /\ e.kind = "block_insert" /\ e.block \in BlockNames /\ e.layer \in Names \cup {Nil}
            /\ Outcomes(e, d) = BlockInsert(d, e.block, e.layer)
         \/ /\ e.kind = "properties" /\ e.ent \in Handles /\ e.layer \in Names
            /\ Outcomes(e, d) = SetProperties(d, e.ent, e.layer)
         \/ e.kind = "delete" /\ e.ent \in Handles /\ Outcomes(e, d) = DeleteEntity(d, e.ent)
         \/ e.kind = "transform" /\ e.ent \in Handles /\ Outcomes(e, d) = TransformEntity(d, e.ent)
         \/ e.kind = "copy" /\ e.ent \in Handles /\ Outcomes(e, d) = CopyEntity(d, e.ent)
         \/ e.kind = "layer_create" /\ e.layer \in Names /\ Outcomes(e, d) = LayerCreate(d, e.layer)
         \/ e.kind = "layer_set_current" /\ e.layer \in Names /\ Outcomes(e, d) = LayerSetCurrent(d, e.layer)
         \/ /\ e.kind = "layer_update" /\ e.layer \in Names /\ e.change \in LayerChanges /\ e.linetypeExists \in BOOLEAN
            /\ Outcomes(e, d) = LayerUpdateState(d, e.layer, e.change, e.linetypeExists)
         \/ /\ e.kind = "block_create" /\ e.block \in BlockNames /\ e.ents \subseteq Handles
            /\ Outcomes(e, d) = BlockCreate(d, e.block, e.ents)
         \/ e.kind = "layout_create" /\ e.layout \in Layouts /\ Outcomes(e, d) = LayoutCreate(d, e.layout)
         \/ /\ e.kind = "layout_set_current" /\ e.layout \in Layouts \cup {Model}
            /\ Outcomes(e, d) = LayoutSetCurrent(d, e.layout)
         \/ e.kind = "units" /\ e.metric \in BOOLEAN /\ Outcomes(e, d) = ConfigureUnits(d, e.metric)
         \/ e.kind = "audit" /\ Outcomes(e, d) = Audit(d)
         \/ e.kind = "purge" /\ Outcomes(e, d) = Purge(d)
BY DEF Edits, Outcomes

LEMMA OutcomeKeeps ==
  ASSUME NEW d \in Drawing, NEW e \in Edits, Creates(e) => d.seed <= MaxHandle, NEW o \in Outcomes(e, d)
  PROVE  Keeps(d, o)
<1>1. CASE e.kind \in {"create", "composite", "block_insert", "copy"}
  <2>1. d.seed <= MaxHandle
    BY <1>1 DEF Creates
  <2>2. CASE e.kind \in {"create", "composite"} BY <2>1, <2>2, EditKinds, Created
  <2>3. CASE e.kind = "block_insert" BY <2>1, <2>3, EditKinds, Inserted
  <2>4. CASE e.kind = "copy" BY <2>1, <2>4, EditKinds, Copied
  <2> QED BY <1>1, <2>2, <2>3, <2>4
<1>2. CASE e.kind = "properties" BY <1>2, EditKinds, PropertiesSet
<1>3. CASE e.kind \in {"delete", "transform"} BY <1>3, EditKinds, EntityChanged
<1>4. CASE e.kind \in {"layer_create", "layer_set_current"} BY <1>4, EditKinds, LayerMade
<1>5. CASE e.kind = "layer_update" BY <1>5, EditKinds, LayerChanged
<1>6. CASE e.kind = "block_create" BY <1>6, EditKinds, BlockMade
<1>7. CASE e.kind = "layout_create" BY <1>7, EditKinds, LayoutMade
<1>8. CASE e.kind = "layout_set_current" BY <1>8, EditKinds, LayoutChanged
<1>9. CASE e.kind \in {"units", "audit", "purge"} BY <1>9, EditKinds, DocumentChanged
<1> QED BY <1>1, <1>2, <1>3, <1>4, <1>5, <1>6, <1>7, <1>8, <1>9, EditKinds
-----------------------------------------------------------------------------
(* Stacks of snapshots *)

LEMMA FrontKept ==
  ASSUME NEW S, NEW s \in Seq(S), s # <<>>
  PROVE  /\ Front(s) \in Seq(S) /\ Len(Front(s)) = Len(s) - 1
         /\ \A i \in 1 .. Len(s) - 1 : Front(s)[i] = s[i]
         /\ Last(s) \in S /\ Len(s) \in Nat \ {0}
<1>1. PICK k \in Nat \ {0} : Len(s) = k /\ \A i \in 1 .. k : s[i] \in S
  BY EmptySeq, LenProperties, ElementOfSeq
<1> DEFINE t == SubSeq(s, 1, k - 1)
<1>2. /\ t \in Seq(S)
      /\ Len(t) = IF 1 <= k - 1 THEN k - 1 - 1 + 1 ELSE 0
      /\ \A i \in 1 .. k - 1 - 1 + 1 : t[i] = s[1 + i - 1]
  <2>1. \A i \in 1 .. k - 1 : s[i] \in S
    BY <1>1
  <2> QED BY <2>1, SubSeqProperties
<1> HIDE DEF t
<1>3. PICK m : m = Len(t) /\ m = IF 1 <= k - 1 THEN k - 1 - 1 + 1 ELSE 0
  BY <1>2
<1>4. m = k - 1
  BY <1>3
<1>5. ASSUME NEW i \in 1 .. k - 1 PROVE t[i] = s[i]
  <2>1. i \in 1 .. k - 1 - 1 + 1 /\ 1 + i - 1 = i
    OBVIOUS
  <2> QED BY <1>2, <2>1
<1>6. Front(s) = t /\ Last(s) \in S
  BY <1>1 DEF Front, Last, t
<1> QED BY <1>1, <1>2, <1>3, <1>4, <1>5, <1>6

LEMMA FrontLonger ==
  ASSUME NEW S, NEW s \in Seq(S), Len(s) >= 2
  PROVE  Front(s) # <<>>
<1>1. PICK k : k = Len(s) /\ k \in Nat /\ k >= 2
  BY LenProperties
<1>2. s # <<>>
  BY <1>1, EmptySeq
<1>3. PICK m : m = Len(Front(s)) /\ m = k - 1
  BY <1>1, <1>2, FrontKept
<1>4. m # 0
  BY <1>1, <1>3
<1> QED BY <1>3, <1>4, EmptySeq

LEMMA AppendKept ==
  ASSUME NEW S, NEW s \in Seq(S), NEW e \in S
  PROVE  /\ Append(s, e) \in Seq(S) /\ Append(s, e) # <<>> /\ Last(Append(s, e)) = e
         /\ Len(Append(s, e)) = Len(s) + 1
BY AppendProperties DEF Last

LEMMA NewestKept ==
  ASSUME NEW S, NEW s \in Seq(S), s # <<>>, NEW n \in Nat \ {0}
  PROVE  /\ Newest(s, n) \in Seq(S) /\ Newest(s, n) # <<>> /\ Last(Newest(s, n)) = Last(s)
         /\ \A i \in 1 .. Len(Newest(s, n)) : \E j \in 1 .. Len(s) : Newest(s, n)[i] = s[j]
<1>1. Len(s) \in Nat \ {0} /\ \A i \in 1 .. Len(s) : s[i] \in S
  BY EmptySeq, LenProperties, ElementOfSeq
<1>2. CASE Len(s) <= n
  BY <1>1, <1>2 DEF Newest
<1>3. CASE ~(Len(s) <= n)
  <2> DEFINE t == SubSeq(s, Len(s) - n + 1, Len(s))
  <2>1. Len(s) - n + 1 \in 1 .. Len(s)
    BY <1>1, <1>3
  <2>2. t \in Seq(S) /\ Len(t) = n /\ \A i \in 1 .. n : t[i] = s[Len(s) - n + i]
    <3>1. \A i \in Len(s) - n + 1 .. Len(s) : s[i] \in S
      BY <1>1, <2>1
    <3>2. /\ t \in Seq(S) /\ Len(t) = Len(s) - (Len(s) - n + 1) + 1
          /\ \A i \in 1 .. Len(s) - (Len(s) - n + 1) + 1 : t[i] = s[Len(s) - n + 1 + i - 1]
      BY <1>1, <2>1, <3>1, SubSeqProperties
    <3>3. Len(s) - (Len(s) - n + 1) + 1 = n /\ \A i \in 1 .. n : Len(s) - n + 1 + i - 1 = Len(s) - n + i
      BY <1>1
    <3> QED BY <3>2, <3>3
  <2>3. Newest(s, n) = t
    BY <1>3 DEF Newest
  <2> HIDE DEF t
  <2>4. \A i \in 1 .. n : Len(s) - n + i \in 1 .. Len(s)
    BY <1>1, <1>3
  <2>5. t # <<>>
    BY <2>2, EmptySeq
  <2>6. Last(t) = Last(s)
    BY <1>1, <2>2 DEF Last
  <2>7. \A i \in 1 .. Len(t) : \E j \in 1 .. Len(s) : t[i] = s[j]
    BY <2>2, <2>4
  <2> QED BY <2>2, <2>3, <2>5, <2>6, <2>7
<1> QED BY <1>2, <1>3
-----------------------------------------------------------------------------
(* The types *)

LEMMA RequestKinds ==
  ASSUME scenario \in Scenarios, NEW r \in Requests
  PROVE  /\ Records(r) => r \in Edits
         /\ r.kind = "open" => r.path \in Paths
         /\ r.kind = "save" => r.path \in Paths \cup {Nil}
<1>1. /\ scenario.requests \subseteq Control /\ scenario.edits \subseteq Edits
  BY BackendAssumption DEF Scenario
<1>2. CASE r \in scenario.edits
  <2>1. r \in Edits
    BY <1>1, <1>2
  <2>2. r.kind \notin {"open", "save"}
    BY <2>1, EditKinds
  <2> QED BY <2>1, <2>2
<1>3. CASE r \in [kind : scenario.requests \ {"open", "save"}]
  BY <1>1, <1>3 DEF Records
<1>4. CASE r \in [kind : {"open"}, path : Paths] \cup [kind : {"save"}, path : Paths \cup {Nil}]
  BY <1>4 DEF Records, Control
<1> QED BY <1>2, <1>3, <1>4 DEF Requests

LEMMA EmptyIsDrawing == EmptyDrawing \in Drawing
<1>1. NewLayer(Zero) \in Layer
  BY DrawingAssumption DEF NewLayer, Layer
<1>2. 1 \in 1 .. (MaxHandle + 1)
  BY DrawingAssumption
<1> QED BY <1>1, <1>2, DrawingAssumption DEF EmptyDrawing, Drawing

LEMMA Rebound ==
  ASSUME NEW d \in Drawing, NEW b \in Nat
  PROVE  [d EXCEPT !.binding = b] \in Drawing /\ [d EXCEPT !.binding = b].binding = b
BY DEF Drawing

LEMMA InitTypes == Init => TypeOK /\ CallInv
<1> SUFFICES ASSUME Init PROVE TypeOK /\ CallInv
  OBVIOUS
<1>1. scenario \in Scenario
  BY BackendAssumption DEF Init
<1>2. scenario.budget \in Nat /\ scenario.disk \subseteq Drawing
  BY <1>1 DEF Scenario
<1>3. LaneTypeOK
  BY InitInv DEF IInv
<1>4. TypeOK
  BY <1>2, <1>3, EmptySeq DEF Init, TypeOK
<1>5. CallInv
  BY DEF Init, CallInv, Busy
<1> QED BY <1>4, <1>5

LEMMA RecordTypes ==
  ASSUME TypeOK, NEW d \in Drawing, RecordMutation(d)
  PROVE  /\ undo' \in Seq(Drawing) /\ undo' # <<>> /\ Last(undo') = d /\ redo' = <<>> /\ redo' \in Seq(Drawing)
         /\ dirty' = TRUE /\ half' \subseteq {"history", "disk"}
<1>1. UndoDepth + 1 \in Nat \ {0}
  BY BackendAssumption
<1>2. /\ Append(undo, d) \in Seq(Drawing) /\ Append(undo, d) # <<>> /\ Last(Append(undo, d)) = d
  BY AppendKept DEF TypeOK
<1> QED BY <1>1, <1>2, NewestKept, EmptySeq DEF RecordMutation, TypeOK

\* A worker that is half done, and a call under way, by what CallInv says of them.
LEMMA CallFacts ==
  ASSUME IInv, TypeOK, CallInv, NEW c \in Calls
  PROVE  /\ Busy(c) \/ phase[c] # "idle" =>
               /\ req[c] \in Requests
               /\ req[c].kind \in {"open", "save"} => target[c] \in Paths
               /\ Records(req[c]) => req[c] \in Edits
         /\ work[c] = "started" => Busy(c)
         /\ work[c] = "ran" => Busy(c) /\ doc \in Drawing /\ held[c] \in Drawing
         /\ doc # Nil => doc \in Drawing
BY RequestKinds DEF CallInv, TypeOK, Busy

\* What a worker does to the bound drawing, its history and the files.
LEMMA WorkerTypes ==
  ASSUME IInv, TypeOK, CallInv, NEW c \in Calls, Worker(c)
  PROVE  /\ doc' \in Drawing \cup {Nil} /\ dirty' \in BOOLEAN /\ generation' \in Nat
         /\ undo' \in Seq(Drawing) /\ redo' \in Seq(Drawing) /\ txs' \in Seq(Drawing)
         /\ files' \in [Paths -> Drawing \cup {Nil}] /\ pdf' \in Drawing \cup {Nil}
         /\ held' \in [Calls -> Drawing \cup {Nil}] /\ raised' \in [Calls -> BOOLEAN]
         /\ half' \subseteq {"history", "disk"}
         /\ UNCHANGED <<docPath, seen>>
         /\ doc # Nil => doc' # Nil
<1> USE DEF Finish, docVars, histVars, diskVars, TypeOK
<1>1. CASE Raise(c) \/ Read(c) BY <1>1 DEF Raise, Read
<1>3. CASE Load(c)
  <2>1. Busy(c) BY <1>3 DEF Load, Busy
  <2>2. req[c].kind = "new" \/ (req[c].kind = "open" /\ target[c] \in Paths)
    BY <1>3, <2>1, CallFacts DEF Load, Rebinds
  <2>3. (IF req[c].kind = "new" THEN EmptyDrawing ELSE files[target[c]]) \in Drawing \cup {Nil}
    BY <2>2, EmptyIsDrawing
  <2> QED BY <1>3, <2>3 DEF Load
<1>4. CASE Write(c)
  <2>1. Busy(c) /\ req[c].kind = "save" /\ doc # Nil BY <1>4 DEF Write, Busy
  <2>2. target[c] \in Paths /\ [doc EXCEPT !.binding = 0] \in Drawing
    BY <2>1, CallFacts, Rebound
  <2>3. /\ files' \in [Paths -> Drawing \cup {Nil}]
        /\ raised' \in [Calls -> BOOLEAN] /\ half' \subseteq {"history", "disk"}
    <3>1. \/ UNCHANGED files
          \/ \E d \in Drawing \cup {Nil} : files' = [files EXCEPT ![target[c]] = d]
      BY <1>4, <2>2 DEF Write
    <3>2. files' \in [Paths -> Drawing \cup {Nil}]
      BY <3>1
    <3>3. \E b \in BOOLEAN : raised' = [raised EXCEPT ![c] = b]
      BY <1>4 DEF Write
    <3>4. half' = half \/ half' = half \cup {"disk"}
      BY <1>4 DEF Write
    <3> QED BY <3>2, <3>3, <3>4
  <2> QED BY <1>4, <2>3 DEF Write
<1>5. CASE Render(c) BY <1>5 DEF Render
<1>6. CASE Publish(c) BY <1>6 DEF Publish
<1>7. CASE Edit(c)
  <2>1. Busy(c) /\ Records(req[c]) /\ doc # Nil BY <1>7 DEF Edit, Busy
  <2>2. req[c] \in Edits /\ doc \in Drawing
    BY <2>1, CallFacts
  <2>3. PICK o \in Outcomes(req[c], doc) :
          /\ doc' = o.d
          /\ IF o.ok THEN work' = [work EXCEPT ![c] = "ran"] /\ UNCHANGED <<raised, half>>
             ELSE Finish(c, TRUE) /\ half' = IF o.d = doc THEN half ELSE half \cup {"history", "disk"}
    BY <1>7 DEF Edit
  <2>4. doc' \in Drawing /\ doc' # Nil
    BY <1>7, <2>2, <2>3, OutcomeKeeps, DrawingAssumption DEF Edit, Keeps, Same
  <2>5. raised' \in [Calls -> BOOLEAN] /\ half' \subseteq {"history", "disk"}
    BY <2>3
  <2> QED BY <1>7, <2>4, <2>5 DEF Edit
<1>8. CASE Record(c)
  <2>1. doc \in Drawing BY <1>8, CallFacts DEF Record
  <2>2. CASE seen[c] = generation
    BY <1>8, <2>1, <2>2, RecordTypes DEF Record
  <2>3. CASE seen[c] # generation
    BY <1>8, <2>3 DEF Record
  <2> QED BY <2>2, <2>3
<1>9. CASE Snapshot(c) BY <1>9 DEF Snapshot
<1>10. CASE Push(c)
  <2>1. held[c] \in Drawing BY <1>10, CallFacts DEF Push
  <2> QED BY <1>10, <2>1, AppendKept DEF Push
<1>11. CASE Commit(c) BY <1>11, FrontKept DEF Commit
<1>12. CASE Rollback(c)
  <2>1. Last(txs) \in Drawing /\ Front(txs) \in Seq(Drawing)
    BY <1>12, FrontKept DEF Rollback
  <2>2. RecordMutation(Last(txs)) /\ doc' = Last(txs) /\ generation' \in Nat /\ txs' \in Seq(Drawing)
    BY <1>12, <2>1 DEF Rollback, Restore
  <2>3. /\ undo' \in Seq(Drawing) /\ redo' \in Seq(Drawing) /\ dirty' \in BOOLEAN
        /\ half' \subseteq {"history", "disk"}
    BY <2>1, <2>2, RecordTypes
  <2> QED BY <1>12, <2>1, <2>2, <2>3, DrawingAssumption DEF Rollback
<1>13. CASE Undo(c)
  <2>1. undo # <<>> /\ Len(undo) \in Nat \ {0}
    BY <1>13, EmptySeq DEF Undo
  <2>2. /\ undo' = Front(undo) /\ Front(undo) \in Seq(Drawing) /\ Last(undo) \in Drawing
        /\ Front(undo) # <<>>
    <3>1. /\ Front(undo) \in Seq(Drawing) /\ Last(undo) \in Drawing /\ Len(Front(undo)) = Len(undo) - 1
      BY <2>1, FrontKept
    <3>3. Front(undo) # <<>>
      BY <1>13, FrontLonger DEF Undo
    <3> QED BY <1>13, <3>1, <3>3 DEF Undo
  <2>3. redo' \in Seq(Drawing)
    BY <1>13, <2>2, AppendKept DEF Undo
  <2>4. doc' = Last(Front(undo))
    BY <1>13, <2>2 DEF Undo, Restore, Last
  <2>5. doc' \in Drawing
    BY <2>2, <2>4, FrontKept
  <2> QED BY <1>13, <2>2, <2>3, <2>5, DrawingAssumption DEF Undo, Restore
<1>14. CASE Redo(c)
  <2>1. Last(redo) \in Drawing /\ Front(redo) \in Seq(Drawing)
    BY <1>14, FrontKept DEF Redo
  <2>2. undo' \in Seq(Drawing)
    BY <1>14, <2>1, AppendKept DEF Redo
  <2> QED BY <1>14, <2>1, <2>2, DrawingAssumption DEF Redo, Restore
<1> QED
  BY <1>1, <1>3, <1>4, <1>5, <1>6, <1>7, <1>8, <1>9, <1>10, <1>11, <1>12, <1>13, <1>14 DEF Worker

LEMMA WorkerFrames ==
  ASSUME TypeOK, NEW c \in Calls, Worker(c)
  PROVE  /\ UNCHANGED <<guardVars, callVars, seen, answer, lateBegin, scenario, budget>>
         /\ \A d \in Calls \ {c} : held'[d] = held[d] /\ raised'[d] = raised[d]
<1> USE DEF WorkerFrame, Finish, TypeOK
<1>1. CASE Raise(c) BY <1>1 DEF Raise
<1>2. CASE Read(c) BY <1>2 DEF Read
<1>3. CASE Load(c) BY <1>3 DEF Load
<1>4. CASE Write(c)
  <2>1. raised' = raised \/ \E b \in BOOLEAN : raised' = [raised EXCEPT ![c] = b]
    BY <1>4 DEF Write
  <2>2. \A d \in Calls \ {c} : raised'[d] = raised[d]
    BY <2>1
  <2> QED BY <1>4, <2>2 DEF Write
<1>5. CASE Render(c) BY <1>5 DEF Render
<1>6. CASE Publish(c)
  <2>1. raised' = raised \/ \E b \in BOOLEAN : raised' = [raised EXCEPT ![c] = b]
    BY <1>6 DEF Publish
  <2>2. \A d \in Calls \ {c} : raised'[d] = raised[d]
    BY <2>1
  <2> QED BY <1>6, <2>2 DEF Publish
<1>7. CASE Edit(c)
  <2>1. raised' = raised \/ \E b \in BOOLEAN : raised' = [raised EXCEPT ![c] = b]
    BY <1>7 DEF Edit
  <2>2. \A d \in Calls \ {c} : raised'[d] = raised[d]
    BY <2>1
  <2> QED BY <1>7, <2>2 DEF Edit
<1>8. CASE Record(c) BY <1>8 DEF Record
<1>9. CASE Snapshot(c) BY <1>9 DEF Snapshot
<1>10. CASE Push(c) BY <1>10 DEF Push
<1>11. CASE Commit(c) BY <1>11 DEF Commit
<1>12. CASE Rollback(c) BY <1>12 DEF Rollback
<1>13. CASE Undo(c) BY <1>13 DEF Undo
<1>14. CASE Redo(c) BY <1>14 DEF Redo
<1> QED
  BY <1>1, <1>2, <1>3, <1>4, <1>5, <1>6, <1>7, <1>8, <1>9, <1>10, <1>11, <1>12, <1>13, <1>14 DEF Worker

\* A worker that has begun and is not done has taken hold of the drawing.
LEMMA WorkerHolds ==
  ASSUME TypeOK, NEW c \in Calls, Worker(c), work'[c] = "ran"
  PROVE  doc # Nil /\ held'[c] = doc
<1> USE DEF Finish, TypeOK, LaneTypeOK
<1>1. CASE Raise(c) \/ Read(c) \/ Load(c) \/ Publish(c) \/ Record(c) BY <1>1 DEF Raise, Read, Load, Publish, Record
<1>2. CASE Push(c) \/ Commit(c) \/ Rollback(c) \/ Undo(c) \/ Redo(c) BY <1>2 DEF Push, Commit, Rollback, Undo, Redo
<1>3. CASE Write(c) BY <1>3 DEF Write
<1>4. CASE Render(c) \/ Snapshot(c) \/ Edit(c) BY <1>4 DEF Render, Snapshot, Edit
<1> QED BY <1>1, <1>2, <1>3, <1>4 DEF Worker

LEMMA WorkerCalls ==
  ASSUME IInv, TypeOK, CallInv, NEW c \in Calls, Worker(c)
  PROVE  TypeOK' /\ CallInv'
<1>1. /\ UNCHANGED <<guardVars, callVars, answer, lateBegin, scenario, budget>>
      /\ UNCHANGED <<docPath, seen>>
      /\ \A d \in Calls \ {c} : held'[d] = held[d]
  BY WorkerFrames, WorkerTypes
<1>2. PICK w \in {"ran", "done"} : work' = [work EXCEPT ![c] = w]
  BY WorkerMoves
<1>3. TypeOK'
  <2>1. LaneTypeOK'
    BY WorkerInv DEF IInv
  <2> QED BY <1>1, <2>1, WorkerTypes DEF TypeOK, callVars
<1>4. ASSUME NEW d \in Calls
      PROVE  /\ phase'[d] # "idle" \/ Busy(d)' =>
                  /\ req'[d] \in Requests'
                  /\ req'[d].kind \in {"open", "save"} => target'[d] \in Paths
                  /\ req'[d].kind = "new" => target'[d] = Nil
             /\ work'[d] = "ran" => doc' # Nil /\ held'[d] # Nil
             /\ answer'[d] = "retryable" => phase'[d] = "idle" /\ ~Sensitive(req'[d])
  <2>1. Busy(d)' => Busy(d)
    BY <1>2, WorkerMoves DEF Busy, TypeOK, LaneTypeOK
  <2>2. Requests' = Requests /\ phase' = phase /\ req' = req /\ target' = target /\ answer' = answer
    BY <1>1 DEF Requests, callVars
  <2>3. work'[d] = "ran" => doc' # Nil /\ held'[d] # Nil
    <3>1. CASE d = c
      BY <3>1, WorkerHolds, WorkerTypes
    <3>2. CASE d # c
      BY <1>1, <1>2, <3>2, WorkerTypes DEF CallInv, TypeOK, LaneTypeOK
    <3> QED BY <3>1, <3>2
  <2> QED BY <2>1, <2>2, <2>3 DEF CallInv
<1>5. CallInv'
  BY <1>4 DEF CallInv, Sensitive
<1> QED BY <1>3, <1>5
-----------------------------------------------------------------------------
LEMMA InvokeCalls ==
  ASSUME IInv, TypeOK, CallInv, NEW c \in Calls, NEW r \in Requests, Invoke(c, r)
  PROVE  TypeOK' /\ CallInv'
<1> DEFINE path == IF r.kind = "open" THEN r.path
                   ELSE IF r.kind # "save" THEN Nil ELSE IF r.path # Nil THEN r.path ELSE docPath
           refused == r.kind \in {"open", "save"} /\ (path = Nil \/ (r.kind = "open" /\ files[path] = Nil))
<1>1. path \in Paths \cup {Nil}
  BY RequestKinds DEF TypeOK
<1>2. /\ req' = [req EXCEPT ![c] = r] /\ target' = [target EXCEPT ![c] = path]
      /\ phase' = [phase EXCEPT ![c] = IF refused THEN "idle" ELSE "waiting"]
      /\ answer' = [answer EXCEPT ![c] = IF refused THEN "error" ELSE "none"]
      /\ budget > 0 /\ budget' = budget - 1
      /\ work' = [work EXCEPT ![c] = "none"] /\ held' = [held EXCEPT ![c] = Nil]
      /\ raised' = [raised EXCEPT ![c] = FALSE] /\ seen' = [seen EXCEPT ![c] = 0]
      /\ UNCHANGED <<docVars, histVars, guardVars, diskVars, ghostVars, scenario>>
  BY DEF Invoke
<1>3. /\ r.kind \in {"open", "save"} => refused \/ path \in Paths
      /\ r.kind = "new" => path = Nil
  BY <1>1
<1> HIDE DEF path, refused
<1>4. TypeOK'
  <2>1. LaneTypeOK'
    BY InvokeInv DEF IInv
  <2>2. /\ target' \in [Calls -> Paths \cup {Nil}] /\ answer' \in [Calls -> {"none", "ok", "error", "refused", "retryable", "unknown", "cancelled"}]
        /\ held' \in [Calls -> Drawing \cup {Nil}] /\ seen' \in [Calls -> Nat \cup {-1}]
        /\ raised' \in [Calls -> BOOLEAN] /\ budget' \in Nat
    BY <1>1, <1>2 DEF TypeOK
  <2> QED BY <1>2, <2>1, <2>2 DEF TypeOK, docVars, histVars, diskVars, ghostVars
<1>5. ASSUME NEW d \in Calls
      PROVE  /\ phase'[d] # "idle" \/ Busy(d)' =>
                  /\ req'[d] \in Requests
                  /\ req'[d].kind \in {"open", "save"} => target'[d] \in Paths
                  /\ req'[d].kind = "new" => target'[d] = Nil
             /\ work'[d] = "ran" => doc # Nil /\ held'[d] # Nil
             /\ answer'[d] = "retryable" => phase'[d] = "idle" /\ ~Sensitive(req'[d])
  <2>1. CASE d = c
    BY <1>2, <1>3, <2>1 DEF TypeOK, LaneTypeOK, Busy
  <2>2. CASE d # c
    BY <1>2, <2>2 DEF TypeOK, LaneTypeOK, Busy, CallInv
  <2> QED BY <2>1, <2>2
<1>6. doc' = doc /\ Requests' = Requests
  BY <1>2 DEF docVars, Requests
<1> QED BY <1>4, <1>5, <1>6 DEF CallInv, Sensitive

\* An answer ends a call; what is left of it keeps to what CallInv says, if a
\* worker that was not told off is no reason to retry.
LEMMA AnswerCalls ==
  ASSUME TypeOK, CallInv, NEW c \in Calls,
         NEW a \in {"ok", "error", "refused", "retryable", "unknown", "cancelled"}, Answer(c, a),
         a = "retryable" => ~Sensitive(req[c]),
         UNCHANGED <<req, target, scenario, work, held>>, doc # Nil => doc' # Nil
  PROVE  /\ CallInv'
         /\ answer' \in [Calls -> {"none", "ok", "error", "refused", "retryable", "unknown", "cancelled"}]
<1>1. answer' = [answer EXCEPT ![c] = a] /\ phase' = [phase EXCEPT ![c] = "idle"] /\ Requests' = Requests
  BY DEF Answer, Requests
<1>2. ASSUME NEW d \in Calls
      PROVE  /\ phase'[d] # "idle" \/ Busy(d) =>
                  /\ req[d] \in Requests
                  /\ req[d].kind \in {"open", "save"} => target[d] \in Paths
                  /\ req[d].kind = "new" => target[d] = Nil
             /\ work[d] = "ran" => doc' # Nil /\ held[d] # Nil
             /\ answer'[d] = "retryable" => phase'[d] = "idle" /\ ~Sensitive(req[d])
  BY <1>1 DEF CallInv, TypeOK, LaneTypeOK
<1> QED BY <1>1, <1>2 DEF CallInv, Busy, Sensitive, TypeOK

LEMMA EnterCalls ==
  ASSUME IInv, TypeOK, CallInv, NEW c \in Calls, Enter(c)
  PROVE  TypeOK' /\ CallInv'
<1>1. /\ phase[c] = "waiting"
      /\ UNCHANGED <<docVars, histVars, diskVars, req, target, held, raised, ghostVars, scenario, budget>>
  BY DEF Enter
<1>2. LaneTypeOK'
  BY EnterInv DEF IInv
<1>3. CASE Answer(c, "refused") /\ UNCHANGED <<work, seen>>
  <2>1. CallInv' /\ answer' \in [Calls -> {"none", "ok", "error", "refused", "retryable", "unknown", "cancelled"}]
    BY <1>1, <1>3, AnswerCalls DEF docVars
  <2> QED BY <1>1, <1>2, <1>3, <2>1 DEF TypeOK, docVars, histVars, diskVars, ghostVars
<1>4. CASE /\ phase' = [phase EXCEPT ![c] = "inside"] /\ work' = [work EXCEPT ![c] = "started"]
           /\ seen' = [seen EXCEPT ![c] = IF doc = Nil THEN -1 ELSE generation]
           /\ UNCHANGED answer
  <2>1. seen' \in [Calls -> Nat \cup {-1}]
    BY <1>4 DEF TypeOK
  <2>2. TypeOK'
    BY <1>1, <1>2, <1>4, <2>1 DEF TypeOK, docVars, histVars, diskVars, ghostVars
  <2>3. ASSUME NEW d \in Calls
        PROVE  /\ phase'[d] # "idle" \/ Busy(d)' =>
                    /\ req[d] \in Requests
                    /\ req[d].kind \in {"open", "save"} => target[d] \in Paths
                    /\ req[d].kind = "new" => target[d] = Nil
               /\ work'[d] = "ran" => doc # Nil /\ held[d] # Nil
               /\ answer[d] = "retryable" => phase'[d] = "idle" /\ ~Sensitive(req[d])
    BY <1>1, <1>4 DEF CallInv, TypeOK, LaneTypeOK, Busy
  <2>4. Requests' = Requests /\ doc' = doc
    BY <1>1 DEF Requests, docVars
  <2> QED BY <1>1, <1>4, <2>2, <2>3, <2>4 DEF CallInv, Sensitive
<1> QED BY <1>3, <1>4 DEF Enter

\* A rebinding call that has not failed holds a drawing, as DoneInv says.
LEMMA ReturnCalls ==
  ASSUME IInv, TypeOK, CallInv, DoneInv, NEW c \in Calls, Return(c)
  PROVE  TypeOK' /\ CallInv'
<1>1. /\ phase[c] = "inside" /\ work[c] = "done"
      /\ \E a \in {"ok", "error"} : Answer(c, a)
      /\ UNCHANGED <<diskVars, req, target, workVars, lateBegin, scenario, budget>>
  BY DEF Return
<1>2. LaneTypeOK'
  BY ReturnInv DEF IInv
<1>3. /\ doc' \in Drawing \cup {Nil} /\ docPath' \in Paths \cup {Nil} /\ dirty' \in BOOLEAN /\ generation' \in Nat
      /\ undo' \in Seq(Drawing) /\ redo' \in Seq(Drawing) /\ txs' \in Seq(Drawing)
      /\ half' \subseteq {"history", "disk"}
      /\ doc # Nil => doc' # Nil
  <2>1. CASE Rebinds(req[c]) /\ ~raised[c] /\ Bind(c)
    <3>1. held[c] \in Drawing
      BY <1>1, <2>1 DEF DoneInv, TypeOK
    <3>2. generation' \in Nat /\ doc' = [held[c] EXCEPT !.binding = generation']
      BY <2>1 DEF Bind, TypeOK
    <3>3. doc' \in Drawing /\ doc' # Nil
      BY <3>1, <3>2, Rebound, DrawingAssumption
    <3>4. <<doc'>> \in Seq(Drawing)
      BY <3>3
    <3> QED BY <2>1, <3>2, <3>3, <3>4, EmptySeq DEF Bind, Rebase, TypeOK
  <2>2. CASE /\ docPath' = target[c] /\ dirty' = FALSE /\ half' = half \ {"disk"}
             /\ UNCHANGED <<doc, generation, histVars, quarantined>>
    BY <2>2 DEF TypeOK, histVars
  <2>3. CASE /\ IF raised[c] THEN UNCHANGED histVars ELSE DropRepeat(c)
             /\ UNCHANGED <<docVars, quarantined, half>>
    <3>1. /\ undo' = undo \/ (undo' = Front(undo) /\ Len(undo) >= 2)
          /\ UNCHANGED <<redo, txs>>
      <4>1. CASE raised[c] BY <2>3, <4>1 DEF histVars
      <4>2. CASE DropRepeat(c) BY <4>2, Zenon DEF DropRepeat, Front
      <4> QED BY <2>3, <4>1, <4>2
    <3>2. undo' \in Seq(Drawing)
      <4>1. CASE undo' = undo BY <4>1 DEF TypeOK
      <4>2. CASE undo' = Front(undo) /\ Len(undo) >= 2
        <5>1. undo # <<>>
          BY <4>2
        <5> QED BY <4>2, <5>1, FrontKept DEF TypeOK
      <4> QED BY <3>1, <4>1, <4>2
    <3> QED BY <2>3, <3>1, <3>2 DEF TypeOK, docVars
  <2> QED BY <2>1, <2>2, <2>3 DEF Return
<1>4. CallInv' /\ answer' \in [Calls -> {"none", "ok", "error", "refused", "retryable", "unknown", "cancelled"}]
  <2>1. UNCHANGED <<req, target, scenario, work, held>>
    BY <1>1 DEF workVars
  <2> QED BY <1>1, <1>3, <2>1, AnswerCalls
<1> QED BY <1>1, <1>2, <1>3, <1>4 DEF TypeOK, diskVars, workVars

LEMMA AbandonCalls ==
  ASSUME IInv, TypeOK, CallInv, NEW c \in Calls, NEW a \in {"unknown", "retryable", "cancelled"}, Abandon(c, a),
         a = "retryable" => ~Sensitive(req[c])
  PROVE  TypeOK' /\ CallInv'
<1>1. /\ Answer(c, a)
      /\ lateBegin' = (lateBegin \/ req[c].kind = "begin")
      /\ UNCHANGED <<docVars, histVars, diskVars, req, target, workVars, half, scenario, budget>>
  BY DEF Abandon
<1>2. LaneTypeOK'
  BY AbandonInv DEF IInv
<1>3. UNCHANGED <<req, target, scenario, work, held>> /\ doc' = doc
  BY <1>1 DEF workVars, docVars
<1>4. CallInv' /\ answer' \in [Calls -> {"none", "ok", "error", "refused", "retryable", "unknown", "cancelled"}]
  BY <1>1, <1>3, AnswerCalls
<1>5. lateBegin' \in BOOLEAN
  BY <1>1
<1> QED BY <1>1, <1>2, <1>4, <1>5 DEF TypeOK, docVars, histVars, diskVars, workVars

LEMMA CancelWaitingCalls ==
  ASSUME IInv, TypeOK, CallInv, NEW c \in Calls, CancelWaiting(c)
  PROVE  TypeOK' /\ CallInv'
<1>1. /\ Answer(c, "cancelled")
      /\ UNCHANGED <<docVars, histVars, guardVars, diskVars, req, target, workVars, ghostVars, scenario, budget>>
  BY DEF CancelWaiting
<1>2. LaneTypeOK'
  BY CancelWaitingInv DEF IInv
<1>3. UNCHANGED <<req, target, scenario, work, held>> /\ doc' = doc
  BY <1>1 DEF workVars, docVars
<1>4. CallInv' /\ answer' \in [Calls -> {"none", "ok", "error", "refused", "retryable", "unknown", "cancelled"}]
  BY <1>1, <1>3, AnswerCalls
<1> QED BY <1>1, <1>2, <1>4 DEF TypeOK, docVars, histVars, diskVars, workVars, ghostVars

LEMMA TypesStep ==
  ASSUME IInv, TypeOK, CallInv, DoneInv, Next
  PROVE  TypeOK' /\ CallInv'
<1>1. ASSUME NEW c \in Calls, Timeout(c) PROVE TypeOK' /\ CallInv'
  BY <1>1, AbandonCalls DEF Timeout
<1>2. ASSUME NEW c \in Calls, CancelInside(c) PROVE TypeOK' /\ CallInv'
  BY <1>2, AbandonCalls DEF CancelInside
<1> QED
  BY <1>1, <1>2, InvokeCalls, EnterCalls, ReturnCalls, CancelWaitingCalls, WorkerCalls DEF Next, Coroutine
-----------------------------------------------------------------------------
(* Who may change what *)

\* While a call is inside, no other worker may change the drawing or its file.
LEMMA InsideAlone ==
  ASSUME IInv, NEW c \in Calls, phase[c] = "inside", NEW d \in Calls \ {c}
  PROVE  phase[d] # "inside" /\ (Busy(d) => ~Sensitive(req[d]))
BY BackendAssumption DEF IInv, LaneInv

LEMMA MutatorAlone ==
  ASSUME IInv, NEW c \in Calls, Busy(c), Sensitive(req[c]), NEW d \in Calls, Busy(d), Sensitive(req[d])
  PROVE  d = c
BY InvImpliesOneMutator DEF OneMutator

\* A worker that is not integrity sensitive leaves the drawing, its undo history
\* and the files alone.
LEMMA InsensitiveWorker ==
  ASSUME NEW c \in Calls, Worker(c), ~Sensitive(req[c])
  PROVE  UNCHANGED <<docVars, undo, redo, files, quarantined, half>>
<1> USE DEF WorkerFrame, histVars, diskVars, guardVars, Sensitive, Records, Control
<1>1. CASE Raise(c) BY <1>1 DEF Raise
<1>2. CASE Read(c) BY <1>2 DEF Read
<1>3. CASE Load(c) BY <1>3 DEF Load
<1>4. CASE Write(c) BY <1>4 DEF Write
<1>5. CASE Render(c) BY <1>5 DEF Render
<1>6. CASE Publish(c) BY <1>6 DEF Publish
<1>7. CASE Edit(c) BY <1>7 DEF Edit
<1>8. CASE Record(c) BY <1>8 DEF Record
<1>9. CASE Snapshot(c) BY <1>9 DEF Snapshot
<1>10. CASE Push(c) BY <1>10 DEF Push
<1>11. CASE Commit(c) BY <1>11 DEF Commit
<1>12. CASE Rollback(c) BY <1>12 DEF Rollback
<1>13. CASE Undo(c) BY <1>13 DEF Undo
<1>14. CASE Redo(c) BY <1>14 DEF Redo
<1> QED
  BY <1>1, <1>2, <1>3, <1>4, <1>5, <1>6, <1>7, <1>8, <1>9, <1>10, <1>11, <1>12, <1>13, <1>14 DEF Worker
-----------------------------------------------------------------------------
(* The generation a worker was started in *)

LEMMA SeenStep ==
  ASSUME IInv, TypeOK, HistoryInv, Next
  PROVE  SeenInv'
<1> SUFFICES ASSUME NEW d \in Calls, Busy(d)', Sensitive(req'[d])
             PROVE  seen'[d] = IF doc' = Nil THEN -1 ELSE generation'
  BY DEF SeenInv, Sensitive
<1> USE DEF HistoryInv, docVars, histVars, workVars, callVars
\* The worker was there before the step, and nobody has bound or restored a drawing.
<1>1. ASSUME work'[d] = work[d], req'[d] = req[d], seen'[d] = seen[d], UNCHANGED <<doc, generation>>
      PROVE  seen'[d] = IF doc' = Nil THEN -1 ELSE generation'
  BY <1>1 DEF SeenInv, Busy, Sensitive
<1>2. ASSUME NEW c \in Calls, NEW r \in Requests, Invoke(c, r)
      PROVE  seen'[d] = IF doc' = Nil THEN -1 ELSE generation'
  <2>1. d # c
    BY <1>2 DEF Invoke, Busy, TypeOK, LaneTypeOK
  <2> QED BY <1>1, <1>2, <2>1 DEF Invoke
<1>3. ASSUME NEW c \in Calls, Enter(c)
      PROVE  seen'[d] = IF doc' = Nil THEN -1 ELSE generation'
  <2>1. /\ UNCHANGED <<doc, generation, req>>
        /\ \/ UNCHANGED <<work, seen>>
           \/ /\ work' = [work EXCEPT ![c] = "started"]
              /\ seen' = [seen EXCEPT ![c] = IF doc = Nil THEN -1 ELSE generation]
    BY <1>3 DEF Enter
  <2> QED BY <1>1, <2>1 DEF TypeOK, LaneTypeOK
<1>4. ASSUME NEW c \in Calls, Return(c)
      PROVE  seen'[d] = IF doc' = Nil THEN -1 ELSE generation'
  <2>1. phase[c] = "inside" /\ work[c] = "done" /\ UNCHANGED <<req, work, seen>>
    BY <1>4 DEF Return
  <2>2. Busy(d) /\ Sensitive(req[d]) /\ d # c
    BY <2>1 DEF Busy
  <2> QED BY <2>1, <2>2, InsideAlone
<1>5. ASSUME NEW c \in Calls, CancelWaiting(c) \/ CancelInside(c) \/ Timeout(c)
      PROVE  seen'[d] = IF doc' = Nil THEN -1 ELSE generation'
  BY <1>1, <1>5 DEF CancelWaiting, CancelInside, Timeout, Abandon
<1>6. ASSUME NEW c \in Calls, Worker(c)
      PROVE  seen'[d] = IF doc' = Nil THEN -1 ELSE generation'
  <2>1. UNCHANGED <<req, seen>> /\ Busy(c) /\ (doc # Nil => doc' # Nil)
    BY <1>6, WorkerMoves, WorkerFrames, WorkerTypes
  <2>2. PICK w \in {"ran", "done"} : work' = [work EXCEPT ![c] = w]
    BY <1>6, WorkerMoves
  <2>3. Busy(d) /\ Sensitive(req[d])
    BY <2>1, <2>2 DEF Busy, TypeOK, LaneTypeOK
  <2>4. seen[d] = IF doc = Nil THEN -1 ELSE generation
    BY <2>3 DEF SeenInv
  <2>5. (doc = Nil <=> doc' = Nil) /\ generation' = generation
    <3>1. CASE d # c
      <4>1. ~Sensitive(req[c])
        BY <2>1, <2>3, <3>1, MutatorAlone
      <4> QED BY <1>6, <4>1, InsensitiveWorker
    <3>2. CASE d = c
      <4>1. work'[c] = "ran"
        BY <2>2, <3>2 DEF Busy, TypeOK, LaneTypeOK
      <4>2. doc # Nil
        BY <1>6, <4>1, WorkerHolds
      <4>3. generation' = generation
        BY <1>6, <4>1 DEF Worker, Raise, Read, Load, Write, Render, Publish, Edit, Record, Snapshot, Push,
                          Commit, Rollback, Undo, Redo, Finish, TypeOK, LaneTypeOK
      <4> QED BY <2>1, <4>2, <4>3
    <3> QED BY <3>1, <3>2
  <2> QED BY <2>1, <2>4, <2>5
<1> QED BY <1>2, <1>3, <1>4, <1>5, <1>6 DEF Next, Coroutine
-----------------------------------------------------------------------------
(* What a worker has done, until its call goes on *)

\* Everything that can happen to one caller, its call and its worker.
Acts(c) ==
    (\E r \in Requests : Invoke(c, r)) \/ Coroutine(c) \/ CancelInside(c) \/ CancelWaiting(c) \/ Worker(c)

LEMMA NextActs == Next <=> \E c \in Calls : Acts(c)
BY DEF Next, Acts

\* What happens to one caller is of no account to the call and the worker of another.
LEMMA OwnState ==
  ASSUME TypeOK, NEW c \in Calls, Acts(c), NEW d \in Calls \ {c}
  PROVE  /\ req'[d] = req[d] /\ phase'[d] = phase[d] /\ target'[d] = target[d]
         /\ work'[d] = work[d] /\ seen'[d] = seen[d] /\ held'[d] = held[d] /\ raised'[d] = raised[d]
<1> USE DEF TypeOK, LaneTypeOK, workVars, Answer
<1>1. ASSUME NEW r \in Requests, Invoke(c, r)
      PROVE  /\ req'[d] = req[d] /\ phase'[d] = phase[d] /\ target'[d] = target[d]
             /\ work'[d] = work[d] /\ seen'[d] = seen[d] /\ held'[d] = held[d] /\ raised'[d] = raised[d]
  BY <1>1 DEF Invoke
<1>2. CASE Enter(c) BY <1>2 DEF Enter
<1>3. CASE Return(c)
  <2>1. /\ UNCHANGED <<req, target, work, seen, held, raised>>
        /\ phase' = [phase EXCEPT ![c] = "idle"]
    BY <1>3 DEF Return
  <2> QED BY <2>1
<1>4. CASE Timeout(c) \/ CancelInside(c) BY <1>4 DEF Timeout, CancelInside, Abandon
<1>5. CASE CancelWaiting(c) BY <1>5 DEF CancelWaiting
<1>6. CASE Worker(c)
  <2>1. UNCHANGED <<req, phase, target, seen>> /\ held'[d] = held[d] /\ raised'[d] = raised[d]
    BY <1>6, WorkerFrames DEF callVars
  <2>2. PICK w \in {"ran", "done"} : work' = [work EXCEPT ![c] = w]
    BY <1>6, WorkerMoves
  <2> QED BY <2>1, <2>2
<1> QED BY <1>1, <1>2, <1>3, <1>4, <1>5, <1>6 DEF Acts, Coroutine

\* Nobody touches the drawing, its undo history or the files while a call is
\* inside, but its own worker.
LEMMA InsideUndisturbed ==
  ASSUME IInv, TypeOK, NEW c \in Calls, phase[c] = "inside", NEW d \in Calls \ {c}, Acts(d)
  PROVE  UNCHANGED <<doc, docPath, dirty, generation, undo, redo, files, half, lock>>
<1> USE DEF docVars, histVars, diskVars, guardVars, ghostVars
<1>1. lock = c /\ phase[d] # "inside" /\ (Busy(d) => ~Sensitive(req[d]))
  BY InsideAlone DEF IInv, LaneInv
<1>2. CASE Worker(d)
  <2>1. ~Sensitive(req[d])
    BY <1>1, <1>2, WorkerMoves
  <2> QED BY <1>2, <2>1, InsensitiveWorker, WorkerMoves
<1>3. ASSUME NEW r \in Requests, Invoke(d, r) PROVE UNCHANGED <<doc, docPath, dirty, generation, undo, redo, files, half, lock>>
  BY <1>3 DEF Invoke
<1>4. ~Enter(d)
  BY <1>1, BackendAssumption DEF Enter
<1>5. ~Return(d) /\ ~Timeout(d) /\ ~CancelInside(d)
  BY <1>1 DEF Return, Timeout, CancelInside, Abandon
<1>6. CASE CancelWaiting(d) BY <1>6 DEF CancelWaiting
<1> QED BY <1>2, <1>3, <1>4, <1>5, <1>6 DEF Acts, Coroutine

LEMMA DoneStep ==
  ASSUME IInv, TypeOK, HistoryInv, Next
  PROVE  DoneInv'
<1> USE DEF HistoryInv
<1>1. PICK c \in Calls : Acts(c)
  BY NextActs
<1>2. SUFFICES ASSUME NEW d \in Calls, phase'[d] = "inside", work'[d] = "done", ~raised'[d]
               PROVE  /\ Rebinds(req'[d]) => held'[d] # Nil /\ held'[d].binding = 0
                      /\ req'[d].kind = "open" => files'[target'[d]] = held'[d]
                      /\ req'[d].kind = "save" => files'[target'[d]] = [doc' EXCEPT !.binding = 0]
                      /\ Records(req'[d]) => redo' = <<>>
  BY DEF DoneInv, Rebinds, Records
<1>3. CASE d # c
  <2>1. /\ req'[d] = req[d] /\ phase'[d] = phase[d] /\ target'[d] = target[d]
        /\ work'[d] = work[d] /\ held'[d] = held[d] /\ raised'[d] = raised[d]
    BY <1>1, <1>3, OwnState
  <2>2. UNCHANGED <<doc, files, redo>>
    BY <1>1, <1>2, <1>3, <2>1, InsideUndisturbed
  <2> QED BY <1>2, <2>1, <2>2 DEF DoneInv
<1>4. CASE d = c
  <2> USE DEF TypeOK, LaneTypeOK
  <2>1. ~ \E r \in Requests : Invoke(c, r)
    BY <1>2, <1>4 DEF Invoke
  <2>2. ~Enter(c) /\ ~Return(c) /\ ~Timeout(c) /\ ~CancelInside(c) /\ ~CancelWaiting(c)
    BY <1>2, <1>4 DEF Enter, Return, Timeout, CancelInside, CancelWaiting, Abandon, Answer
  <2>3. Worker(c)
    BY <1>1, <2>1, <2>2 DEF Acts, Coroutine
  <2>4. /\ req' = req /\ target' = target /\ Busy(c) /\ req[c] \in Requests
        /\ req[c].kind \in {"open", "save"} => target[c] \in Paths
    BY <2>3, WorkerFrames, WorkerMoves DEF callVars, CallInv
  <2>5. Rebinds(req[c]) => Load(c)
    BY <1>2, <1>4, <2>3 DEF Worker, Raise, Read, Write, Render, Publish, Edit, Record, Snapshot, Push,
                            Commit, Rollback, Undo, Redo, Finish, Rebinds, Records, Control
  <2>6. req[c].kind = "save" => Write(c)
    BY <1>2, <1>4, <2>3 DEF Worker, Raise, Read, Load, Render, Publish, Edit, Record, Snapshot, Push,
                            Commit, Rollback, Undo, Redo, Finish, Rebinds, Records, Control
  <2>7. Records(req[c]) => Record(c)
    BY <1>2, <1>4, <2>3 DEF Worker, Raise, Read, Load, Write, Render, Publish, Edit, Snapshot, Push,
                            Commit, Rollback, Undo, Redo, Finish, Rebinds, Records, Control
  <2>8. ASSUME Rebinds(req[c])
        PROVE  held'[c] # Nil /\ held'[c].binding = 0 /\ (req[c].kind = "open" => files'[target[c]] = held'[c])
    <3>1. held'[c] = IF req[c].kind = "new" THEN EmptyDrawing ELSE files[target[c]]
      BY <2>5, <2>8 DEF Load
    <3>2. UNCHANGED files /\ (req[c].kind = "open" => files[target[c]] # Nil)
      BY <2>5, <2>8 DEF Load, diskVars
    <3>3. EmptyDrawing # Nil /\ EmptyDrawing.binding = 0
      BY EmptyIsDrawing, DrawingAssumption DEF EmptyDrawing
    <3>4. CASE req[c].kind = "new"
      BY <3>1, <3>3, <3>4
    <3>5. CASE req[c].kind = "open"
      BY <2>4, <3>1, <3>2, <3>5 DEF BindingInv
    <3> QED BY <2>8, <3>4, <3>5 DEF Rebinds
  <2>9. ASSUME req[c].kind = "save"
        PROVE  files'[target[c]] = [doc' EXCEPT !.binding = 0]
    BY <1>2, <1>4, <2>4, <2>6, <2>9 DEF Write, Finish, docVars
  <2>10. ASSUME Records(req[c]) PROVE redo' = <<>>
    <3>1. work[c] = "ran" /\ doc # Nil
      BY <2>7, <2>10 DEF Record, CallInv
    <3>2. seen[c] = generation
      BY <2>10, <3>1 DEF SeenInv, Busy, Sensitive, Records, Control
    <3> QED BY <2>7, <2>10, <3>2 DEF Record, RecordMutation
  <2> QED BY <1>4, <2>4, <2>8, <2>9, <2>10 DEF Rebinds
<1> QED BY <1>3, <1>4
-----------------------------------------------------------------------------
(* What a step makes of the bound drawing, its history and the files *)

LEMMA UnrecordedChange ==
  ASSUME IInv, TypeOK, NEW c \in Calls, Acts(c)
  PROVE  (Unrecorded' <=> Unrecorded) \/ Edit(c) \/ Record(c)
<1> USE DEF TypeOK, LaneTypeOK, workVars
<1>1. SUFFICES ASSUME ~Edit(c), ~Record(c)
               PROVE  (work'[c] = "ran" /\ Records(req'[c])) <=> (work[c] = "ran" /\ Records(req[c]))
  BY OwnState DEF Unrecorded, Records
<1>2. ASSUME NEW r \in Requests, Invoke(c, r)
      PROVE  work'[c] # "ran" /\ work[c] # "ran"
  BY <1>2 DEF Invoke
<1>3. CASE Enter(c)
  <2>1. work[c] = "none" /\ work'[c] # "ran"
    BY <1>3 DEF Enter, IInv, LaneInv
  <2> QED BY <2>1
<1>4. CASE Return(c) \/ Timeout(c) \/ CancelInside(c) \/ CancelWaiting(c)
  BY <1>4 DEF Return, Timeout, CancelInside, Abandon, CancelWaiting
<1>5. CASE Worker(c)
  <2>1. req' = req
    BY <1>5, WorkerFrames DEF callVars
  <2>2. Records(req[c]) => work[c] # "ran" /\ work'[c] # "ran"
    BY <1>1, <1>5 DEF Worker, Raise, Read, Load, Write, Render, Publish, Snapshot, Push, Commit, Rollback, Undo, Redo,
                      Finish, Records, Control, Rebinds
  <2> QED BY <2>1, <2>2
<1> QED BY <1>2, <1>3, <1>4, <1>5 DEF Acts, Coroutine

LEMMA Effects ==
  ASSUME IInv, TypeOK, NEW c \in Calls, Acts(c)
  PROVE  \/ /\ UNCHANGED <<doc, docPath, dirty, generation, undo, redo, files, half>>
            /\ txs' = txs \/ Push(c) \/ Commit(c)
         \/ Return(c) /\ ~raised[c] /\ Rebinds(req[c]) /\ Bind(c)
         \/ /\ Return(c) /\ ~raised[c] /\ req[c].kind = "save"
            /\ docPath' = target[c] /\ dirty' = FALSE /\ half' = half \ {"disk"}
            /\ UNCHANGED <<doc, generation, undo, redo, txs, files>>
         \/ Return(c) /\ ~raised[c] /\ DropRepeat(c) /\ UNCHANGED <<doc, docPath, dirty, generation, half, files>>
         \/ Write(c) \/ Edit(c) \/ Record(c) \/ Rollback(c) \/ Undo(c) \/ Redo(c)
<1> USE DEF docVars, histVars, diskVars, ghostVars, guardVars, workVars
<1>1. ASSUME NEW r \in Requests, Invoke(c, r)
      PROVE  UNCHANGED <<doc, docPath, dirty, generation, undo, redo, files, half, txs>>
  BY <1>1 DEF Invoke
<1>2. CASE Enter(c) \/ Timeout(c) \/ CancelInside(c) \/ CancelWaiting(c)
  BY <1>2 DEF Enter, Timeout, CancelInside, Abandon, CancelWaiting
<1>3. CASE Return(c)
  <2>1. UNCHANGED files
    BY <1>3 DEF Return
  <2>2. \/ Rebinds(req[c]) /\ ~raised[c] /\ Bind(c)
        \/ /\ req[c].kind = "save" /\ ~raised[c]
           /\ docPath' = target[c] /\ dirty' = FALSE /\ half' = half \ {"disk"}
           /\ UNCHANGED <<doc, generation, undo, redo, txs>>
        \/ /\ IF raised[c] THEN UNCHANGED <<undo, redo, txs>> ELSE DropRepeat(c)
           /\ UNCHANGED <<doc, docPath, dirty, generation, half>>
    BY <1>3 DEF Return
  <2> HIDE DEF Return, Bind, DropRepeat
  <2> QED BY <1>3, <2>1, <2>2
<1>4. CASE Raise(c) \/ Read(c) \/ Load(c) \/ Render(c) \/ Publish(c) \/ Snapshot(c)
  BY <1>4 DEF Raise, Read, Load, Render, Publish, Snapshot
<1>5. CASE Push(c) \/ Commit(c)
  <2>1. UNCHANGED <<doc, docPath, dirty, generation, undo, redo, files, half>>
    BY <1>5 DEF Push, Commit
  <2> QED BY <1>5, <2>1
<1> QED BY <1>1, <1>2, <1>3, <1>4, <1>5 DEF Acts, Coroutine, Worker

\* The worker that edits is the only one that might be in the middle of an edit.
LEMMA EditsAlone ==
  ASSUME IInv, TypeOK, NEW c \in Calls, Busy(c), Sensitive(req[c])
  PROVE  Unrecorded => work[c] = "ran" /\ Records(req[c])
BY MutatorAlone DEF Unrecorded, Busy, Sensitive, Records, Control

LEMMA EditEffect ==
  ASSUME IInv, TypeOK, CallInv, NEW c \in Calls, Edit(c)
  PROVE  /\ doc \in Drawing /\ Same(doc, doc')
         /\ UNCHANGED <<docPath, dirty, generation, undo, redo, txs, files, pdf>>
         /\ ~Unrecorded
         /\ Unrecorded' \/ (doc' = doc /\ half' = half) \/ half' = half \cup {"history", "disk"}
<1>1. Busy(c) /\ Records(req[c]) /\ doc # Nil /\ work[c] = "started"
  BY DEF Edit, Busy
<1>2. req[c] \in Edits /\ doc \in Drawing
  BY <1>1, CallFacts
<1>3. PICK o \in Outcomes(req[c], doc) :
        /\ doc' = o.d
        /\ IF o.ok THEN work' = [work EXCEPT ![c] = "ran"] /\ UNCHANGED <<raised, half>>
           ELSE Finish(c, TRUE) /\ half' = IF o.d = doc THEN half ELSE half \cup {"history", "disk"}
  BY DEF Edit
<1>4. Same(doc, doc')
  BY <1>2, <1>3, OutcomeKeeps DEF Edit, Keeps
<1>5. ~Unrecorded
  BY <1>1, EditsAlone DEF Sensitive, Records, Control
<1>6. work' = [work EXCEPT ![c] = "ran"] => Unrecorded'
  BY <1>1 DEF Unrecorded, Edit, WorkerFrame, callVars, Records, TypeOK, LaneTypeOK
<1>7. UNCHANGED <<docPath, dirty, generation, undo, redo, txs, files, pdf>>
  BY DEF Edit, histVars, diskVars
<1> QED BY <1>2, <1>3, <1>4, <1>5, <1>6, <1>7

LEMMA RecordEffect ==
  ASSUME IInv, TypeOK, HistoryInv, NEW c \in Calls, Record(c)
  PROVE  doc \in Drawing /\ RecordMutation(doc) /\ ~Unrecorded' /\ UNCHANGED <<doc, txs, files>>
<1> USE DEF HistoryInv
<1>1. Busy(c) /\ Records(req[c]) /\ work[c] = "ran"
  BY DEF Record, Busy
<1>2. doc \in Drawing /\ Sensitive(req[c])
  BY <1>1, CallFacts DEF Sensitive, Records, Control
<1>3. seen[c] = generation
  BY <1>1, <1>2, DrawingAssumption DEF SeenInv
<1>4. ASSUME NEW d \in Calls PROVE ~(work'[d] = "ran" /\ Records(req'[d]))
  <2>1. req' = req /\ work' = [work EXCEPT ![c] = "done"]
    BY DEF Record, WorkerFrame, callVars, Finish
  <2>2. d # c => ~(work[d] = "ran" /\ Records(req[d]))
    BY <1>1, <1>2, MutatorAlone DEF Busy, Sensitive, Records, Control
  <2> QED BY <2>1, <2>2 DEF TypeOK, LaneTypeOK
<1> QED BY <1>2, <1>3, <1>4 DEF Record, Unrecorded, Records, diskVars
-----------------------------------------------------------------------------
(* The history *)

LEMMA RestoreEffect ==
  ASSUME TypeOK, NEW c \in Calls, Rollback(c) \/ Undo(c) \/ Redo(c)
  PROVE  /\ dirty' = TRUE /\ undo' # <<>> /\ Last(undo') = doc'
         /\ UNCHANGED <<docPath, files>>
<1> USE DEF TypeOK, diskVars
<1>1. CASE Rollback(c)
  <2>1. RecordMutation(Last(txs)) /\ doc' = Last(txs) /\ Last(txs) \in Drawing
    BY <1>1, FrontKept DEF Rollback, Restore
  <2> QED BY <1>1, <2>1, RecordTypes DEF Rollback
<1>2. CASE Undo(c)
  <2>1. undo' = Front(undo) /\ Front(undo) # <<>> /\ doc' = Last(undo')
    BY <1>2, FrontLonger DEF Undo, Restore
  <2> QED BY <1>2, <2>1 DEF Undo
<1>3. CASE Redo(c)
  <2>1. Last(redo) \in Drawing /\ undo' = Append(undo, Last(redo)) /\ doc' = Last(redo)
    BY <1>3, FrontKept DEF Redo, Restore
  <2> QED BY <1>3, <2>1, AppendKept DEF Redo
<1> QED BY <1>1, <1>2, <1>3

LEMMA DropEffect ==
  ASSUME TypeOK, NEW c \in Calls, DropRepeat(c), undo # <<>>
  PROVE  undo' # <<>> /\ Last(undo') = Last(undo) /\ UNCHANGED <<redo, txs>>
<1>1. CASE undo' = undo /\ UNCHANGED <<redo, txs>>
  BY <1>1
<1>2. CASE undo' = Front(undo) /\ Len(undo) >= 2 /\ undo[Len(undo)] = undo[Len(undo) - 1] /\ UNCHANGED <<redo, txs>>
  <2>1. PICK k \in Nat : k = Len(undo) /\ k >= 2
    BY <1>2, LenProperties DEF TypeOK
  <2>2. Len(Front(undo)) = k - 1 /\ Front(undo)[k - 1] = undo[k - 1]
    <3>1. Len(Front(undo)) = Len(undo) - 1 /\ \A i \in 1 .. Len(undo) - 1 : Front(undo)[i] = undo[i]
      BY FrontKept DEF TypeOK
    <3> QED BY <2>1, <3>1
  <2>3. Last(Front(undo)) = undo[k - 1] /\ Last(undo) = undo[k]
    BY <2>1, <2>2 DEF Last
  <2> QED BY <1>2, <2>1, <2>3, FrontLonger DEF TypeOK
<1> QED BY <1>1, <1>2 DEF DropRepeat, Front

LEMMA HonestStep ==
  ASSUME IInv, TypeOK, HistoryInv, Next
  PROVE  HistoryHonest'
<1> USE DEF HistoryInv
<1>1. PICK c \in Calls : Acts(c)
  BY NextActs
<1> SUFFICES ASSUME doc' # Nil, ~Unrecorded', "history" \notin half'
             PROVE  undo' # <<>> /\ Last(undo') = doc'
  BY DEF HistoryHonest
<1>2. CASE UNCHANGED <<doc, undo, half>> /\ ~Edit(c) /\ ~Record(c)
  BY <1>1, <1>2, UnrecordedChange DEF HistoryHonest
<1>3. CASE Return(c) /\ Bind(c)
  BY <1>3 DEF Bind, Rebase, Last
<1>4. CASE half' = half \ {"disk"} /\ UNCHANGED <<doc, undo>> /\ ~Edit(c) /\ ~Record(c)
  BY <1>1, <1>4, UnrecordedChange DEF HistoryHonest
<1>5. CASE DropRepeat(c) /\ UNCHANGED <<doc, half>> /\ ~Edit(c) /\ ~Record(c)
  BY <1>1, <1>5, UnrecordedChange, DropEffect DEF HistoryHonest
<1>6. CASE Write(c) /\ ~Edit(c) /\ ~Record(c)
  <2>1. UNCHANGED <<doc, undo>> /\ half \subseteq half'
    BY <1>6 DEF Write, docVars, histVars
  <2> QED BY <1>1, <1>6, <2>1, UnrecordedChange DEF HistoryHonest
<1>7. CASE Edit(c)
  BY <1>7, EditEffect, DrawingAssumption DEF HistoryHonest
<1>8. CASE Record(c)
  BY <1>8, RecordEffect, RecordTypes
<1>9. CASE Rollback(c) \/ Undo(c) \/ Redo(c)
  BY <1>9, RestoreEffect
<1> HIDE DEF HistoryInv
<1> QED BY <1>1, <1>2, <1>3, <1>4, <1>5, <1>6, <1>7, <1>8, <1>9, Effects

LEMMA ReboundTwice ==
  ASSUME NEW d \in Drawing, d.binding = 0, NEW b \in Nat
  PROVE  [[d EXCEPT !.binding = b] EXCEPT !.binding = 0] = d
BY DEF Drawing

LEMMA CleanStep ==
  ASSUME IInv, TypeOK, HistoryInv, Next
  PROVE  CleanMeansSaved'
<1> USE DEF HistoryInv
<1>1. PICK c \in Calls : Acts(c)
  BY NextActs
<1> SUFFICES ASSUME doc' # Nil, ~dirty', docPath' # Nil, ~Unrecorded', "disk" \notin half'
             PROVE  files'[docPath'] = [doc' EXCEPT !.binding = 0]
  BY DEF CleanMeansSaved
<1>2. CASE UNCHANGED <<doc, docPath, dirty, files, half>> /\ ~Edit(c) /\ ~Record(c)
  BY <1>1, <1>2, UnrecordedChange DEF CleanMeansSaved
<1>3. CASE Return(c) /\ ~raised[c] /\ Rebinds(req[c]) /\ Bind(c)
  <2>1. phase[c] = "inside" /\ work[c] = "done" /\ UNCHANGED files
    BY <1>3 DEF Return, diskVars
  <2>2. held[c] \in Drawing /\ held[c].binding = 0 /\ generation' \in Nat
    BY <1>3, <2>1 DEF DoneInv, TypeOK, Bind
  <2>3. docPath' = target[c] /\ doc' = [held[c] EXCEPT !.binding = generation']
    BY <1>3 DEF Bind
  <2>4. req[c].kind = "open"
    BY <1>3, <2>1, <2>3 DEF CallInv, Rebinds
  <2>5. files[target[c]] = held[c]
    BY <1>3, <2>1, <2>4 DEF DoneInv
  <2> QED BY <2>1, <2>2, <2>3, <2>5, ReboundTwice
<1>4. CASE /\ Return(c) /\ ~raised[c] /\ req[c].kind = "save"
           /\ docPath' = target[c] /\ UNCHANGED <<doc, files>>
  BY <1>4 DEF Return, DoneInv
<1>5. CASE Write(c)
  <2>1. UNCHANGED <<doc, docPath, dirty>> /\ ~Edit(c) /\ ~Record(c)
    BY <1>5 DEF Write, docVars, Edit, Record, Records, Control
  <2>2. "disk" \notin half
    BY <1>5 DEF Write
  <2>3. files[docPath] = [doc EXCEPT !.binding = 0]
    BY <1>1, <2>1, <2>2, UnrecordedChange DEF CleanMeansSaved
  <2>4. \/ UNCHANGED files
        \/ files' = [files EXCEPT ![target[c]] = [doc EXCEPT !.binding = 0]]
    BY <1>5 DEF Write
  <2>5. docPath \in Paths /\ files \in [Paths -> Drawing \cup {Nil}]
    BY <2>1 DEF TypeOK
  <2> DEFINE saved == [doc EXCEPT !.binding = 0]
  <2> HIDE DEF saved
  <2>6. files'[docPath] = saved
    BY <2>3, <2>4, <2>5 DEF saved
  <2> QED BY <2>1, <2>6 DEF saved
<1>7. CASE Edit(c)
  BY <1>7, EditEffect, DrawingAssumption DEF CleanMeansSaved
<1>8. CASE Record(c)
  BY <1>8, RecordEffect, RecordTypes
<1>9. CASE Rollback(c) \/ Undo(c) \/ Redo(c)
  BY <1>9, RestoreEffect
<1>10. CASE Return(c) /\ UNCHANGED <<doc, docPath, dirty, half, files>>
  BY <1>2, <1>10 DEF Return, Edit, Record, Busy
<1> HIDE DEF HistoryInv
<1>11. (Edit(c) \/ Record(c)) \/ (~Edit(c) /\ ~Record(c))
  OBVIOUS
<1> QED BY <1>1, <1>2, <1>3, <1>4, <1>5, <1>7, <1>8, <1>9, <1>10, <1>11, Effects
-----------------------------------------------------------------------------
(* The bindings *)

LEMMA RangeKept ==
  ASSUME NEW S, NEW s \in Seq(S)
  PROVE  /\ Range(s) \subseteq S
         /\ s # <<>> => Last(s) \in Range(s) /\ Range(Front(s)) \subseteq Range(s)
         /\ \A e \in S : /\ Range(Append(s, e)) \subseteq Range(s) \cup {e}
                        /\ \A n \in Nat \ {0} : Range(Newest(Append(s, e), n)) \subseteq Range(s) \cup {e}
<1>1. \A t \in Seq(S) : Range(t) = {t[i] : i \in 1 .. Len(t)} /\ Range(t) \subseteq S
  BY LenProperties, ElementOfSeq DEF Range
<1>2. ASSUME s # <<>> PROVE Last(s) \in Range(s) /\ Range(Front(s)) \subseteq Range(s)
  <2>1. PICK k \in Nat \ {0} : k = Len(s)
    BY <1>2, EmptySeq
  <2>2. Front(s) \in Seq(S) /\ Len(Front(s)) = k - 1 /\ \A i \in 1 .. k - 1 : Front(s)[i] = s[i]
    BY <1>2, <2>1, FrontKept
  <2>3. Range(Front(s)) = {Front(s)[i] : i \in 1 .. k - 1} /\ Range(s) = {s[i] : i \in 1 .. k}
    BY <1>1, <2>1, <2>2
  <2> QED BY <2>1, <2>2, <2>3 DEF Last
<1>3. ASSUME NEW e \in S PROVE Range(Append(s, e)) \subseteq Range(s) \cup {e}
  <2>1. PICK k \in Nat : k = Len(s)
    BY LenProperties
  <2>2. /\ Append(s, e) \in Seq(S) /\ Len(Append(s, e)) = k + 1
        /\ (\A i \in 1 .. k : Append(s, e)[i] = s[i]) /\ Append(s, e)[k + 1] = e
    BY <2>1, AppendProperties
  <2>3. Range(Append(s, e)) = {Append(s, e)[i] : i \in 1 .. k + 1} /\ Range(s) = {s[i] : i \in 1 .. k}
    BY <1>1, <2>1, <2>2
  <2>4. \A i \in 1 .. k + 1 : i \in 1 .. k \/ i = k + 1
    OBVIOUS
  <2> QED BY <2>2, <2>3, <2>4
<1>4. ASSUME NEW e \in S, NEW n \in Nat \ {0} PROVE Range(Newest(Append(s, e), n)) \subseteq Range(s) \cup {e}
  <2>1. PICK t : t = Append(s, e)
    OBVIOUS
  <2>2. t \in Seq(S) /\ t # <<>>
    BY <2>1, AppendKept
  <2>3. /\ Newest(t, n) \in Seq(S)
        /\ \A i \in 1 .. Len(Newest(t, n)) : \E j \in 1 .. Len(t) : Newest(t, n)[i] = t[j]
    BY <2>2, NewestKept
  <2>4. Range(Newest(t, n)) \subseteq Range(t)
    BY <1>1, <2>2, <2>3
  <2> QED BY <1>3, <2>1, <2>4
<1> QED BY <1>1, <1>2, <1>3, <1>4

Of(s, b) == \A d \in Range(s) : d.binding = b

LEMMA OfStacks ==
  ASSUME NEW s \in Seq(Drawing), NEW b, Of(s, b)
  PROVE  /\ s # <<>> => Last(s).binding = b /\ Of(Front(s), b)
         /\ \A d \in Drawing : d.binding = b =>
               Of(Append(s, d), b) /\ \A n \in Nat \ {0} : Of(Newest(Append(s, d), n), b)
BY RangeKept DEF Of

LEMMA OfEmpty == \A b : Of(<<>>, b)
BY DEF Of, Range

LEMMA SnapshotsOf ==
  SnapshotsOfThisDrawing <=>
     (~lateBegin => Of(undo, doc.binding) /\ Of(redo, doc.binding) /\ Of(txs, doc.binding))
BY DEF Of, SnapshotsOfThisDrawing

\* That a transaction_begin was abandoned is never forgotten.
LEMMA LateBegin ==
  ASSUME NEW c \in Calls, Acts(c), ~lateBegin'
  PROVE  ~lateBegin
<1> USE DEF ghostVars
<1>1. ASSUME NEW r \in Requests, Invoke(c, r) PROVE ~lateBegin BY <1>1 DEF Invoke
<1>2. CASE Enter(c) \/ Return(c) BY <1>2 DEF Enter, Return
<1>3. CASE Timeout(c) \/ CancelInside(c) \/ CancelWaiting(c)
  BY <1>3 DEF Timeout, CancelInside, CancelWaiting, Abandon
<1>4. CASE Worker(c)
  <2> USE DEF WorkerFrame
  <2>1. CASE Raise(c) \/ Read(c) \/ Load(c) \/ Write(c) \/ Render(c) \/ Publish(c) \/ Edit(c)
    BY <2>1 DEF Raise, Read, Load, Write, Render, Publish, Edit
  <2>2. CASE Record(c) \/ Snapshot(c) \/ Push(c) \/ Commit(c) \/ Rollback(c) \/ Undo(c) \/ Redo(c)
    BY <2>2 DEF Record, Snapshot, Push, Commit, Rollback, Undo, Redo
  <2> QED BY <1>4, <2>1, <2>2 DEF Worker
<1> QED BY <1>1, <1>2, <1>3, <1>4 DEF Acts, Coroutine

LEMMA SnapshotsStep ==
  ASSUME IInv, TypeOK, TypeOK', HistoryInv, Next, ~lateBegin'
  PROVE  Of(undo, doc.binding)' /\ Of(redo, doc.binding)' /\ Of(txs, doc.binding)'
<1> USE DEF HistoryInv
<1>1. PICK c \in Calls : Acts(c)
  BY NextActs
<1>2. ~lateBegin /\ Of(undo, doc.binding) /\ Of(redo, doc.binding) /\ Of(txs, doc.binding)
  BY <1>1, LateBegin, SnapshotsOf
<1> SUFFICES Of(undo', doc'.binding) /\ Of(redo', doc'.binding) /\ Of(txs', doc'.binding)
  BY DEF Of
<1>3. undo \in Seq(Drawing) /\ redo \in Seq(Drawing) /\ txs \in Seq(Drawing)
  BY DEF TypeOK
<1> HIDE DEF HistoryInv
<1>4. CASE UNCHANGED <<doc, undo, redo, txs>>
  BY <1>2, <1>4
<1>5. CASE UNCHANGED <<doc, undo, redo>> /\ (Push(c) \/ Commit(c))
  <2>1. CASE Push(c)
    <3>1. Busy(c) /\ req[c].kind = "begin" /\ work[c] = "ran"
      BY <2>1 DEF Push, Busy
    <3>2. held[c] \in Drawing /\ held[c].binding = doc.binding
      BY <1>2, <3>1, CallFacts DEF HistoryInv, BindingInv
    <3> QED BY <1>2, <1>3, <1>5, <2>1, <3>2, OfStacks DEF Push
  <2>2. CASE Commit(c)
    BY <1>2, <1>3, <1>5, <2>2, OfStacks DEF Commit
  <2> QED BY <1>5, <2>1, <2>2
<1>6. CASE Bind(c)
  <2>1. undo' = <<doc'>> /\ redo' = <<>> /\ txs' = <<>>
    BY <1>6 DEF Bind, Rebase
  <2>2. Of(<<doc'>>, doc'.binding)
    BY DEF Of, Range
  <2> QED BY <2>1, <2>2, OfEmpty
<1>7. CASE DropRepeat(c) /\ UNCHANGED doc
  <2>1. UNCHANGED <<redo, txs>> /\ (undo' = undo \/ (undo' = Front(undo) /\ Len(undo) >= 2))
    BY <1>7, Zenon DEF DropRepeat, Front
  <2> QED BY <1>2, <1>3, <1>7, <2>1, OfStacks
<1>8. CASE Edit(c)
  BY <1>2, <1>8, EditEffect DEF Same, HistoryInv
<1>9. CASE Record(c)
  <2>1. /\ doc \in Drawing /\ undo' = Newest(Append(undo, doc), UndoDepth + 1) /\ redo' = <<>>
        /\ UNCHANGED <<doc, txs>>
    BY <1>9, RecordEffect DEF RecordMutation
  <2>2. UndoDepth + 1 \in Nat \ {0}
    BY BackendAssumption
  <2>3. Of(undo', doc.binding)
    BY <1>2, <1>3, <2>1, <2>2, OfStacks
  <2> QED BY <1>2, <2>1, <2>3, OfEmpty
<1>10. CASE Write(c)
  BY <1>2, <1>10 DEF Write, docVars, histVars
<1>11. CASE Rollback(c)
  <2>1. /\ txs # <<>> /\ doc' = Last(txs) /\ undo' = Newest(Append(undo, Last(txs)), UndoDepth + 1)
        /\ redo' = <<>> /\ txs' = Front(txs)
    BY <1>11 DEF Rollback, Restore, RecordMutation
  <2>2. Last(txs) \in Drawing /\ Last(txs).binding = doc.binding
    BY <1>2, <1>3, <2>1, FrontKept, OfStacks
  <2>3. UndoDepth + 1 \in Nat \ {0}
    BY BackendAssumption
  <2> QED BY <1>2, <1>3, <2>1, <2>2, <2>3, OfStacks, OfEmpty
<1>12. CASE Undo(c)
  <2>1. /\ undo' = Front(undo) /\ redo' = Append(redo, Last(undo)) /\ doc' = Last(undo') /\ txs' = txs
        /\ Len(undo) >= 2 /\ undo # <<>>
    BY <1>12, EmptySeq DEF Undo, Restore
  <2>2. Last(undo) \in Drawing /\ Front(undo) \in Seq(Drawing) /\ Front(undo) # <<>>
    BY <1>3, <2>1, FrontKept, FrontLonger
  <2>3. Last(undo).binding = doc.binding /\ Of(Front(undo), doc.binding) /\ Last(Front(undo)).binding = doc.binding
    BY <1>2, <1>3, <2>1, <2>2, OfStacks
  <2> QED BY <1>2, <1>3, <2>1, <2>2, <2>3, OfStacks
<1>13. CASE Redo(c)
  <2>1. /\ redo # <<>> /\ redo' = Front(redo) /\ undo' = Append(undo, Last(redo)) /\ doc' = Last(redo) /\ txs' = txs
    BY <1>13 DEF Redo, Restore
  <2>2. Last(redo) \in Drawing /\ Last(redo).binding = doc.binding /\ Of(Front(redo), doc.binding)
    BY <1>2, <1>3, <2>1, FrontKept, OfStacks
  <2> QED BY <1>2, <1>3, <2>1, <2>2, OfStacks
<1> QED BY <1>1, <1>4, <1>5, <1>6, <1>7, <1>8, <1>9, <1>10, <1>11, <1>12, <1>13, Effects

LEMMA FilesStep ==
  ASSUME IInv, TypeOK, HistoryInv, Next, NEW p \in Paths, files'[p] # Nil
  PROVE  files'[p].binding = 0
<1>1. PICK c \in Calls : Acts(c)
  BY NextActs
<1>2. CASE UNCHANGED files
  BY <1>2 DEF HistoryInv, BindingInv
<1>3. CASE Write(c)
  <2>1. doc \in Drawing
    BY <1>3 DEF Write, TypeOK
  <2>2. PICK saved \in Drawing : saved = [doc EXCEPT !.binding = 0] /\ saved.binding = 0
    BY <2>1, Rebound
  <2>3. \/ UNCHANGED files
        \/ files' = [files EXCEPT ![target[c]] = saved]
        \/ files' = [files EXCEPT ![target[c]] = Nil]
    BY <1>3, <2>2 DEF Write
  <2> QED BY <2>2, <2>3 DEF HistoryInv, BindingInv, TypeOK
<1>4. CASE Edit(c) \/ Record(c) \/ Rollback(c) \/ Undo(c) \/ Redo(c)
  BY <1>2, <1>4 DEF Edit, Record, Rollback, Undo, Redo, diskVars
<1>5. CASE Return(c)
  BY <1>2, <1>5 DEF Return, diskVars
<1> QED BY <1>1, <1>2, <1>3, <1>4, <1>5, Effects

LEMMA StaysBound ==
  ASSUME IInv, TypeOK, HistoryInv, Next, doc' = Nil
  PROVE  doc = Nil /\ undo' = <<>> /\ redo' = <<>> /\ txs' = <<>>
<1>1. PICK c \in Calls : Acts(c)
  BY NextActs
<1>2. doc = Nil => undo = <<>> /\ redo = <<>> /\ txs = <<>>
  BY DEF HistoryInv, BindingInv
<1>3. CASE UNCHANGED <<doc, undo, redo>> /\ (txs' = txs \/ Push(c) \/ Commit(c))
  <2>1. Push(c) => doc # Nil
    BY DEF Push, HistoryInv, CallInv
  <2>2. Commit(c) => doc # Nil
    BY DEF Commit
  <2> QED BY <1>2, <1>3, <2>1, <2>2
<1>4. CASE Return(c) /\ ~raised[c] /\ Rebinds(req[c]) /\ Bind(c)
  <2>1. held[c] \in Drawing /\ generation' \in Nat
    BY <1>4 DEF Return, Bind, HistoryInv, DoneInv, TypeOK
  <2>2. doc' = [held[c] EXCEPT !.binding = generation']
    BY <1>4 DEF Bind
  <2> QED BY <2>1, <2>2, Rebound, DrawingAssumption
<1>5. CASE DropRepeat(c) /\ UNCHANGED doc
  <2>1. Len(<<>>) = 0
    BY EmptySeq
  <2>2. UNCHANGED <<redo, txs>> /\ (undo' = undo \/ Len(undo) >= 2)
    BY <1>5 DEF DropRepeat
  <2> QED BY <1>2, <1>5, <2>1, <2>2
<1>6. CASE UNCHANGED <<doc, undo, redo, txs>>
  BY <1>2, <1>6
<1>7. Write(c) => UNCHANGED <<doc, undo, redo, txs>>
  BY DEF Write, docVars, histVars
<1>8. Edit(c) \/ Record(c) => doc' # Nil
  BY EditEffect, RecordEffect, DrawingAssumption DEF Same, HistoryInv
<1>9. ASSUME Rollback(c) \/ Undo(c) \/ Redo(c) PROVE FALSE
  <2>1. Worker(c) /\ doc # Nil
    BY <1>9 DEF Worker, Rollback, Undo, Redo
  <2> QED BY <2>1, WorkerTypes DEF HistoryInv
<1> QED BY <1>1, <1>3, <1>4, <1>5, <1>6, <1>7, <1>8, <1>9, Effects

LEMMA BeginStep ==
  ASSUME IInv, TypeOK, HistoryInv, Next, NEW d \in Calls, Busy(d)', req'[d].kind = "begin", ~lateBegin'
  PROVE  phase'[d] = "inside" /\ (work'[d] = "ran" => held'[d].binding = doc'.binding)
<1> USE DEF TypeOK, LaneTypeOK
<1>1. PICK c \in Calls : Acts(c)
  BY NextActs
<1>2. ~lateBegin
  BY <1>1, LateBegin
<1>3. Busy(d) /\ req[d].kind = "begin" =>
        phase[d] = "inside" /\ (work[d] = "ran" => held[d].binding = doc.binding)
  BY <1>2 DEF HistoryInv, BindingInv
<1>4. CASE d # c
  <2>1. /\ req'[d] = req[d] /\ phase'[d] = phase[d] /\ work'[d] = work[d] /\ held'[d] = held[d]
    BY <1>1, <1>4, OwnState
  <2>2. phase[d] = "inside" /\ Busy(d)
    BY <1>3, <2>1 DEF Busy
  <2>3. doc' = doc
    BY <1>1, <1>4, <2>2, InsideUndisturbed
  <2> QED BY <1>3, <2>1, <2>2, <2>3
<1>5. CASE d = c
  <2>1. ~ \E r \in Requests : Invoke(c, r)
    BY <1>5 DEF Invoke, Busy
  <2>2. CASE Enter(c)
    BY <1>5, <2>2 DEF Enter, IInv, LaneInv, Busy
  <2>3. ~Return(c) /\ ~CancelWaiting(c)
    BY <1>5 DEF Return, CancelWaiting, workVars, IInv, LaneInv, Busy
  <2>4. ~Timeout(c) /\ ~CancelInside(c)
    BY <1>5 DEF Timeout, CancelInside, Abandon
  <2>5. CASE Worker(c)
    <3>1. req' = req /\ phase' = phase /\ Busy(c)
      BY <2>5, WorkerFrames, WorkerMoves DEF callVars
    <3>2. doc' = doc
      BY <1>5, <2>5, <3>1, InsensitiveWorker DEF Sensitive, docVars
    <3> QED BY <1>3, <1>5, <2>5, <3>1, <3>2, WorkerHolds
  <2> QED BY <1>1, <1>5, <2>1, <2>2, <2>3, <2>4, <2>5 DEF Acts, Coroutine
<1> QED BY <1>4, <1>5

LEMMA BindingStep ==
  ASSUME IInv, TypeOK, HistoryInv, Next
  PROVE  BindingInv'
BY FilesStep, StaysBound, BeginStep DEF BindingInv
-----------------------------------------------------------------------------
(* The theorems *)

LEMMA InitHistory == Init => HistoryInv
<1> SUFFICES ASSUME Init PROVE HistoryInv
  OBVIOUS
<1>1. CallInv /\ TypeOK
  BY InitTypes
<1>2. SeenInv /\ DoneInv /\ HistoryHonest /\ CleanMeansSaved
  BY DEF Init, SeenInv, DoneInv, HistoryHonest, CleanMeansSaved, Busy
<1>3. ASSUME NEW p \in Paths, files[p] # Nil PROVE files[p].binding = 0
  BY BackendAssumption DEF Init
<1>4. BindingInv
  BY <1>3 DEF Init, BindingInv, Busy
<1>5. SnapshotsOfThisDrawing
  BY <1>1, SnapshotsOf, OfEmpty DEF Init
<1> QED BY <1>1, <1>2, <1>4, <1>5 DEF HistoryInv

LEMMA HistoryStep == IInv /\ TypeOK /\ HistoryInv /\ [Next]_vars => TypeOK' /\ HistoryInv'
<1> SUFFICES ASSUME IInv, TypeOK, HistoryInv, [Next]_vars PROVE TypeOK' /\ HistoryInv'
  OBVIOUS
<1>1. CASE Next
  <2>1. TypeOK' /\ CallInv'
    BY <1>1, TypesStep DEF HistoryInv
  <2>2. SnapshotsOfThisDrawing'
    <3>1. ~lateBegin' => Of(undo, doc.binding)' /\ Of(redo, doc.binding)' /\ Of(txs, doc.binding)'
      BY <1>1, <2>1, SnapshotsStep
    <3>2. SnapshotsOfThisDrawing' <=>
            (~lateBegin' => Of(undo, doc.binding)' /\ Of(redo, doc.binding)' /\ Of(txs, doc.binding)')
      BY SnapshotsOf, PTL
    <3> QED BY <3>1, <3>2
  <2> QED BY <1>1, <2>1, <2>2, SeenStep, DoneStep, BindingStep, HonestStep, CleanStep DEF HistoryInv
<1>2. CASE UNCHANGED vars
  <2> USE <1>2 DEF vars, docVars, histVars, guardVars, diskVars, callVars, workVars, ghostVars
  <2>1. TypeOK'
    BY DEF TypeOK, LaneTypeOK
  <2>2. CallInv' /\ SeenInv' /\ DoneInv' /\ BindingInv'
    BY DEF HistoryInv, CallInv, SeenInv, DoneInv, BindingInv, Busy, Requests, Sensitive, Rebinds, Records
  <2>3. HistoryHonest' /\ CleanMeansSaved' /\ SnapshotsOfThisDrawing'
    BY DEF HistoryInv, HistoryHonest, CleanMeansSaved, SnapshotsOfThisDrawing, Unrecorded, Records
  <2> QED BY <2>1, <2>2, <2>3 DEF HistoryInv
<1> QED BY <1>1, <1>2

\* The types hold, and so does what calls, workers, files and snapshots keep to.
LEMMA WellKept == Spec => [](TypeOK /\ HistoryInv)
<1>1. Init => TypeOK /\ HistoryInv
  BY InitTypes, InitHistory
<1> QED BY <1>1, HistoryStep, InductiveInvariant, PTL DEF Spec

\* Between calls the newest undo snapshot is the drawing, unless a call that raised
\* has left something behind: nothing is done to a drawing that _record_mutation
\* misses, for every depth of the history.
THEOREM HistoryIsHonest == Spec => []HistoryHonest
<1>1. HistoryInv => HistoryHonest
  BY DEF HistoryInv
<1> QED BY <1>1, WellKept, PTL

\* A drawing that document_info reports as saved is the one in its file, for every
\* order of edits, saves, opens, abandoned saves and rollbacks.
THEOREM CleanIsSaved == Spec => []CleanMeansSaved
<1>1. HistoryInv => CleanMeansSaved
  BY DEF HistoryInv
<1> QED BY <1>1, WellKept, PTL

\* No undo, redo or rollback can bring another drawing under this one's path: the
\* snapshots are of the drawing that is bound, unless a begin was abandoned.
THEOREM OwnSnapshots == Spec => []SnapshotsOfThisDrawing
<1>1. HistoryInv => SnapshotsOfThisDrawing
  BY DEF HistoryInv
<1> QED BY <1>1, WellKept, PTL

LEMMA RetryableStep ==
  ASSUME IInv, TypeOK, CallInv, [Next]_vars,
         NEW c \in Calls, answer[c] = "retryable", work'[c] # work[c], req'[c] = req[c], phase'[c] = phase[c]
  PROVE  UNCHANGED <<docVars, undo, redo, files, quarantined>>
<1>1. phase[c] = "idle" /\ ~Sensitive(req[c])
  BY DEF CallInv
<1>2. Next
  BY DEF vars, workVars
<1>3. PICK d \in Calls : Acts(d)
  BY <1>2, NextActs
<1>4. d = c
  BY <1>3, OwnState
<1>5. ~Enter(c) /\ ~Return(c) /\ ~Timeout(c) /\ ~CancelInside(c) /\ ~CancelWaiting(c)
  BY <1>1 DEF Enter, Return, Timeout, CancelInside, CancelWaiting, Abandon
<1>6. ASSUME NEW r \in Requests, Invoke(c, r) PROVE UNCHANGED <<docVars, undo, redo, files, quarantined>>
  BY <1>6 DEF Invoke, histVars, diskVars, guardVars
<1>7. CASE Worker(c)
  BY <1>1, <1>7, InsensitiveWorker
<1> QED BY <1>3, <1>4, <1>5, <1>6, <1>7 DEF Acts, Coroutine

\* What was answered as a retryable timeout changes neither the drawing, nor its undo
\* history, nor a .dxf file when it happens after all.
THEOREM LateIsHarmless == Spec => RetryableIsHarmless
<1>1. IInv /\ TypeOK /\ HistoryInv /\ [Next]_vars =>
        [\A c \in Calls : answer[c] = "retryable" /\ work'[c] # work[c] /\ req'[c] = req[c] /\ phase'[c] = phase[c]
           => UNCHANGED <<docVars, undo, redo, files, quarantined>>]_vars
  BY RetryableStep DEF HistoryInv
<1> QED BY <1>1, WellKept, InductiveInvariant, PTL DEF Spec, RetryableIsHarmless
-----------------------------------------------------------------------------
(* Undo and redo are a tape *)

LEMMA ReverseKept ==
  ASSUME NEW S, NEW t \in Seq(S), NEW n, n = Len(t)
  PROVE  /\ n \in Nat /\ Reverse(t) \in Seq(S) /\ Len(Reverse(t)) = n
         /\ \A i \in 1 .. n : Reverse(t)[i] = t[(n - i) + 1] /\ t[(n - i) + 1] \in S
<1>1. n \in Nat /\ \A i \in 1 .. n : t[i] \in S
  BY LenProperties, ElementOfSeq
<1>2. \A i \in 1 .. n : (n - i) + 1 \in 1 .. n
  BY <1>1
<1>3. Reverse(t) = [i \in 1 .. n |-> t[(n - i) + 1]]
  BY DEF Reverse
<1>4. Reverse(t) \in [1 .. n -> S]
  BY <1>1, <1>2, <1>3
<1>5. Reverse(t) \in Seq(S)
  BY <1>1, <1>4, SeqDef
<1>6. PICK m \in Nat : m = Len(Reverse(t)) /\ DOMAIN Reverse(t) = 1 .. m
  BY <1>5, LenProperties
<1>7. 1 .. m = 1 .. n
  BY <1>4, <1>6
<1>8. m = n
  BY <1>1, <1>7
<1> QED BY <1>1, <1>2, <1>3, <1>5, <1>6, <1>8

\* A snapshot that moves from the end of one stack to that of the other stays
\* where it was on the tape.
LEMMA Shift ==
  ASSUME NEW S, NEW s \in Seq(S), s # <<>>, NEW t \in Seq(S)
  PROVE  Front(s) \o Reverse(Append(t, Last(s))) = s \o Reverse(t)
<1>1. PICK k \in Nat \ {0} : k = Len(s)
  BY EmptySeq
<1>2. PICK n \in Nat : n = Len(t)
  BY LenProperties
<1> DEFINE f == Front(s)
           a == Append(t, Last(s))
           ra == Reverse(a)
           rt == Reverse(t)
           x == f \o ra
           y == s \o rt
<1>3. f \in Seq(S) /\ Len(f) = k - 1 /\ \A i \in 1 .. k - 1 : f[i] = s[i]
  BY <1>1, FrontKept
<1>4. a \in Seq(S) /\ Len(a) = n + 1 /\ (\A i \in 1 .. n : a[i] = t[i]) /\ a[n + 1] = s[k]
  <2>1. Last(s) \in S /\ Last(s) = s[k]
    BY <1>1, FrontKept DEF Last
  <2>2. /\ a \in Seq(S) /\ Len(a) = Len(t) + 1 /\ (\A i \in 1 .. Len(t) : a[i] = t[i])
        /\ a[Len(t) + 1] = Last(s)
    BY <2>1, AppendProperties
  <2> QED BY <1>2, <2>1, <2>2
<1> HIDE DEF f, a
<1>5. ra \in Seq(S) /\ Len(ra) = n + 1 /\ \A i \in 1 .. n + 1 : ra[i] = a[((n + 1) - i) + 1]
  <2>1. PICK m \in Nat : m = Len(a) /\ m = n + 1
    BY <1>4
  <2>2. a \in Seq(S)
    BY <1>4
  <2>3. ra \in Seq(S) /\ Len(ra) = m /\ \A i \in 1 .. m : ra[i] = a[(m - i) + 1]
    <3>1. \A b \in Seq(S) : m = Len(b) => /\ Reverse(b) \in Seq(S) /\ Len(Reverse(b)) = m
                                           /\ \A i \in 1 .. m : Reverse(b)[i] = b[(m - i) + 1]
      BY <2>1, ReverseKept
    <3> QED BY <2>1, <2>2, <3>1
  <2> QED BY <2>1, <2>3
<1>6. rt \in Seq(S) /\ Len(rt) = n /\ \A i \in 1 .. n : rt[i] = t[(n - i) + 1]
  BY <1>2, ReverseKept
<1> HIDE DEF ra, rt
<1>7. /\ x \in Seq(S) /\ Len(x) = (k - 1) + (n + 1)
      /\ \A i \in 1 .. (k - 1) + (n + 1) : x[i] = IF i <= k - 1 THEN f[i] ELSE ra[i - (k - 1)]
  <2>1. /\ x \in Seq(S) /\ Len(x) = Len(f) + Len(ra)
        /\ \A i \in 1 .. Len(f) + Len(ra) : x[i] = IF i <= Len(f) THEN f[i] ELSE ra[i - Len(f)]
    BY <1>3, <1>5, ConcatProperties
  <2> QED BY <1>3, <1>5, <2>1
<1>8. /\ y \in Seq(S) /\ Len(y) = k + n
      /\ \A i \in 1 .. k + n : y[i] = IF i <= k THEN s[i] ELSE rt[i - k]
  <2>1. /\ y \in Seq(S) /\ Len(y) = Len(s) + Len(rt)
        /\ \A i \in 1 .. Len(s) + Len(rt) : y[i] = IF i <= Len(s) THEN s[i] ELSE rt[i - Len(s)]
    BY <1>6, ConcatProperties
  <2> QED BY <1>1, <1>6, <2>1
<1> HIDE DEF x, y
<1>9. (k - 1) + (n + 1) = k + n
  OBVIOUS
<1>10. ASSUME NEW i \in 1 .. k + n PROVE x[i] = y[i]
  <2>1. CASE i <= k - 1
    <3>1. i \in 1 .. k - 1 /\ i <= k
      BY <2>1
    <3>2. x[i] = f[i] /\ y[i] = s[i]
      BY <1>7, <1>8, <1>9, <2>1, <3>1
    <3> QED BY <1>3, <3>1, <3>2
  <2>2. CASE i = k
    <3>1. x[i] = ra[1]
      BY <1>7, <1>9, <2>2
    <3>2. ra[1] = a[n + 1]
      BY <1>5
    <3> QED BY <1>4, <1>8, <2>2, <3>1, <3>2
  <2>3. CASE i > k
    <3>1. /\ x[i] = ra[i - (k - 1)] /\ y[i] = rt[i - k]
          /\ i - (k - 1) \in 1 .. n + 1 /\ i - k \in 1 .. n
      BY <1>7, <1>8, <1>9, <2>3
    <3>2. /\ ra[i - (k - 1)] = a[((n + 1) - (i - (k - 1))) + 1]
          /\ rt[i - k] = t[(n - (i - k)) + 1]
      BY <1>5, <1>6, <3>1
    <3>3. ((n + 1) - (i - (k - 1))) + 1 = (n - (i - k)) + 1 /\ (n - (i - k)) + 1 \in 1 .. n
      BY <3>1
    <3> QED BY <1>4, <3>1, <3>2, <3>3
  <2> QED BY <2>1, <2>2, <2>3
<1>11. x = y
  BY <1>7, <1>8, <1>9, <1>10, SeqEqual
<1> QED BY <1>11 DEF x, y, f, a, ra, rt

LEMMA AppendBack ==
  ASSUME NEW S, NEW s \in Seq(S)
  PROVE  /\ s # <<>> => Append(Front(s), Last(s)) = s
         /\ \A e \in S : Front(Append(s, e)) = s
         /\ \A t \in Seq(S) : SubSeq(s \o t, 1, Len(s)) = s
         /\ s \o Reverse(<<>>) = s
<1>1. PICK k \in Nat : k = Len(s) /\ (s # <<>> => k # 0)
  BY LenProperties, EmptySeq
<1>2. ASSUME s # <<>> PROVE Append(Front(s), Last(s)) = s
  <2> DEFINE f == Front(s)
             a == Append(f, Last(s))
  <2>1. /\ f \in Seq(S) /\ Len(f) = k - 1 /\ (\A i \in 1 .. k - 1 : f[i] = s[i])
        /\ Last(s) \in S /\ Last(s) = s[k]
    BY <1>1, <1>2, FrontKept DEF Last
  <2> HIDE DEF f
  <2>2. /\ a \in Seq(S) /\ Len(a) = (k - 1) + 1
        /\ (\A i \in 1 .. k - 1 : a[i] = f[i]) /\ a[(k - 1) + 1] = s[k]
    <3>1. /\ a \in Seq(S) /\ Len(a) = Len(f) + 1
          /\ (\A i \in 1 .. Len(f) : a[i] = f[i]) /\ a[Len(f) + 1] = Last(s)
      BY <2>1, AppendProperties
    <3> QED BY <2>1, <3>1
  <2> HIDE DEF a
  <2>3. (k - 1) + 1 = k /\ \A i \in 1 .. k : i \in 1 .. k - 1 \/ i = k
    BY <1>1, <1>2
  <2>4. \A i \in 1 .. k : a[i] = s[i]
    BY <2>1, <2>2, <2>3
  <2>5. a = s
    BY <1>1, <2>2, <2>3, <2>4, SeqEqual
  <2> QED BY <2>5 DEF a, f
<1>3. ASSUME NEW e \in S PROVE Front(Append(s, e)) = s
  <2> DEFINE a == Append(s, e)
             f == Front(a)
  <2>1. a \in Seq(S) /\ a # <<>> /\ Len(a) = k + 1 /\ \A i \in 1 .. k : a[i] = s[i]
    <3>1. a \in Seq(S) /\ a # <<>> /\ Len(a) = Len(s) + 1 /\ \A i \in 1 .. Len(s) : a[i] = s[i]
      BY AppendProperties
    <3> QED BY <1>1, <3>1
  <2> HIDE DEF a
  <2>2. f \in Seq(S) /\ Len(f) = (k + 1) - 1 /\ \A i \in 1 .. (k + 1) - 1 : f[i] = a[i]
    <3>1. f \in Seq(S) /\ Len(f) = Len(a) - 1 /\ \A i \in 1 .. Len(a) - 1 : f[i] = a[i]
      BY <2>1, FrontKept
    <3> QED BY <2>1, <3>1
  <2> HIDE DEF f
  <2>3. (k + 1) - 1 = k
    BY <1>1
  <2>4. f = s
    BY <1>1, <2>1, <2>2, <2>3, SeqEqual
  <2> QED BY <2>4 DEF f, a
<1>4. ASSUME NEW t \in Seq(S) PROVE SubSeq(s \o t, 1, Len(s)) = s
  <2>1. CASE s = <<>>
    <3>1. Len(s) = 0
      BY <2>1, EmptySeq
    <3> QED BY <2>1, <3>1, SubSeqEmpty
  <2>2. CASE s # <<>>
    <3>1. 1 \in 1 .. Len(s) /\ Len(s) \in 1 .. Len(s)
      BY <1>1, <2>2
    <3> QED BY <3>1, SubSeqOfConcat1, SubSeqFull
  <2> QED BY <2>1, <2>2
<1>5. s \o Reverse(<<>>) = s
  <2>1. <<>> \in Seq(S) /\ Len(<<>>) = 0
    BY EmptySeq
  <2>2. Reverse(<<>>) \in Seq(S) /\ Len(Reverse(<<>>)) = 0
    BY <2>1, ReverseKept
  <2>3. Reverse(<<>>) = <<>>
    BY <2>2, EmptySeq
  <2> QED BY <2>3, ConcatEmptySeq
<1> QED BY <1>2, <1>3, <1>4, <1>5
-----------------------------------------------------------------------------
LEMMA TapeUndo ==
  ASSUME TypeOK, NEW c \in Calls, Undo(c)
  PROVE  Tape!MoveBack
<1>1. /\ undo \in Seq(Drawing) /\ redo \in Seq(Drawing) /\ Len(undo) >= 2 /\ undo # <<>>
      /\ undo' = Front(undo) /\ redo' = Append(redo, Last(undo))
  BY EmptySeq DEF TypeOK, Undo
<1>2. undo' \o Reverse(redo') = undo \o Reverse(redo)
  BY <1>1, Shift
<1>3. Len(undo') = Len(undo) - 1
  BY <1>1, FrontKept
<1> QED BY <1>1, <1>2, <1>3 DEF Tape!MoveBack

LEMMA TapeRedo ==
  ASSUME TypeOK, NEW c \in Calls, Redo(c)
  PROVE  Tape!MoveForward
<1>1. /\ undo \in Seq(Drawing) /\ redo \in Seq(Drawing) /\ redo # <<>>
      /\ redo' = Front(redo) /\ undo' = Append(undo, Last(redo))
  BY DEF TypeOK, Redo
<1>2. Last(redo) \in Drawing /\ Front(redo) \in Seq(Drawing)
  BY <1>1, FrontKept
<1> DEFINE u == Append(undo, Last(redo))
<1>3. /\ u \in Seq(Drawing) /\ u # <<>> /\ Last(u) = Last(redo) /\ Front(u) = undo
      /\ Len(u) = Len(undo) + 1
  BY <1>1, <1>2, AppendKept, AppendBack
<1>0. undo' = u
  BY <1>1
<1> HIDE DEF u
<1>4. Front(u) \o Reverse(Append(Front(redo), Last(u))) = u \o Reverse(Front(redo))
  BY <1>2, <1>3, Shift
<1>5. undo \o Reverse(redo) = undo' \o Reverse(redo')
  BY <1>0, <1>1, <1>3, <1>4, AppendBack
<1>6. Len(undo) < Len(undo \o Reverse(redo))
  <2>1. PICK k \in Nat : k = Len(undo)
    BY <1>1, LenProperties
  <2>2. PICK n \in Nat \ {0} : n = Len(redo)
    BY <1>1, EmptySeq
  <2>3. PICK r : r = Reverse(redo) /\ r \in Seq(Drawing) /\ Len(r) = n
    BY <1>1, <2>2, ReverseKept
  <2>4. Len(undo \o r) = k + n
    BY <1>1, <2>1, <2>3, ConcatProperties
  <2> QED BY <2>1, <2>3, <2>4
<1> QED BY <1>0, <1>3, <1>5, <1>6 DEF Tape!MoveForward

LEMMA TapeRecord ==
  ASSUME TypeOK, NEW d \in Drawing, RecordMutation(d)
  PROVE  Tape!TapeNext
<1>1. /\ undo \in Seq(Drawing) /\ redo \in Seq(Drawing) /\ redo' = <<>>
      /\ undo' = Newest(Append(undo, d), UndoDepth + 1)
      /\ undo' \in Seq(Drawing) /\ undo' # <<>> /\ Last(undo') = d
  BY RecordTypes DEF TypeOK, RecordMutation
<1>2. undo' \o Reverse(redo') = undo'
  BY <1>1, AppendBack
<1>3. Reverse(redo) \in Seq(Drawing)
  BY <1>1, ReverseKept
<1>4. SubSeq(undo \o Reverse(redo), 1, Len(undo)) = undo
  BY <1>1, <1>3, AppendBack
<1>5. d \in {undo'[i] : i \in DOMAIN undo'}
  <2>1. PICK k \in Nat \ {0} : k = Len(undo') /\ DOMAIN undo' = 1 .. k
    BY <1>1, EmptySeq, LenProperties
  <2> QED BY <1>1, <2>1 DEF Last
<1>6. Tape!Newest(Append(undo, d), UndoDepth + 1) = undo'
  BY <1>1 DEF Newest, Tape!Newest
<1>7. Tape!Record(d)
  BY <1>2, <1>4, <1>6 DEF Tape!Record
<1> QED BY <1>2, <1>5, <1>7 DEF Tape!TapeNext

LEMMA TapeRebase ==
  ASSUME undo' = <<doc'>>, redo' = <<>>, doc' \in Drawing
  PROVE  Tape!TapeNext
<1>1. <<doc'>> \in Seq(Drawing) /\ Len(<<doc'>>) = 1 /\ doc' \in {<<doc'>>[i] : i \in DOMAIN <<doc'>>}
  OBVIOUS
<1>2. undo' \o Reverse(redo') = <<doc'>>
  BY <1>1, AppendBack
<1>3. Tape!Rebase(doc')
  BY <1>1, <1>2 DEF Tape!Rebase
<1> QED BY <1>1, <1>2, <1>3 DEF Tape!TapeNext

LEMMA TapeDrop ==
  ASSUME TypeOK, NEW c \in Calls, DropRepeat(c), Records(req[c]) => redo = <<>>
  PROVE  [Tape!TapeNext]_Tape!tapeVars
<1>1. CASE UNCHANGED <<undo, redo>>
  BY <1>1 DEF Tape!tapeVars
<1>2. CASE ~UNCHANGED <<undo, redo>>
  <2>1. /\ req[c].kind \in {"audit", "purge"} /\ Len(undo) >= 2 /\ undo[Len(undo)] = undo[Len(undo) - 1]
        /\ undo' = Front(undo) /\ redo' = redo
    BY <1>2, Zenon DEF DropRepeat, Front
  <2>2. redo = <<>> /\ undo \in Seq(Drawing) /\ undo # <<>>
    BY <2>1, EmptySeq DEF Records, Control, TypeOK
  <2>3. undo \o Reverse(redo) = undo /\ undo' \o Reverse(redo') = undo' /\ Len(undo') = Len(undo) - 1
    BY <2>1, <2>2, AppendBack, FrontKept
  <2>4. Tape!DropRepeat
    BY <2>1, <2>3 DEF Tape!DropRepeat, Front
  <2> QED BY <2>4 DEF Tape!TapeNext
<1> QED BY <1>1, <1>2

LEMMA TapeStep == IInv /\ TypeOK /\ HistoryInv /\ [Next]_vars => [Tape!TapeNext]_Tape!tapeVars
<1> SUFFICES ASSUME IInv, TypeOK, HistoryInv, [Next]_vars PROVE [Tape!TapeNext]_Tape!tapeVars
  OBVIOUS
<1>1. UNCHANGED <<undo, redo>> => [Tape!TapeNext]_Tape!tapeVars
  BY DEF Tape!tapeVars
<1>2. CASE UNCHANGED vars
  BY <1>1, <1>2 DEF vars, histVars
<1>3. ASSUME NEW c \in Calls, Acts(c) PROVE [Tape!TapeNext]_Tape!tapeVars
  <2>1. CASE Return(c) /\ ~raised[c] /\ Rebinds(req[c]) /\ Bind(c)
    <3>1. held[c] \in Drawing /\ generation' \in Nat
      BY <2>1 DEF Return, Bind, HistoryInv, DoneInv, TypeOK
    <3>2. undo' = <<doc'>> /\ redo' = <<>> /\ doc' = [held[c] EXCEPT !.binding = generation']
      BY <2>1 DEF Bind, Rebase
    <3> QED BY <3>1, <3>2, Rebound, TapeRebase
  <2>2. CASE Return(c) /\ ~raised[c] /\ DropRepeat(c)
    BY <2>2, TapeDrop DEF Return, HistoryInv, DoneInv
  <2>3. CASE Record(c)
    BY <2>3, RecordEffect, TapeRecord
  <2>4. CASE Rollback(c)
    <3>1. RecordMutation(Last(txs)) /\ Last(txs) \in Drawing
      BY <2>4, FrontKept DEF Rollback, TypeOK
    <3> QED BY <3>1, TapeRecord
  <2>5. CASE Undo(c) \/ Redo(c)
    BY <2>5, TapeUndo, TapeRedo DEF Tape!TapeNext
  <2>6. Write(c) \/ Edit(c) => UNCHANGED <<undo, redo>>
    BY DEF Write, Edit, histVars
  <2> QED BY <1>1, <1>3, <2>1, <2>2, <2>3, <2>4, <2>5, <2>6, Effects
<1> QED BY <1>2, <1>3, NextActs

\* Undo and redo together are the abstract tape.
THEOREM ImplementsTape == Spec => TapeSpec
<1>1. Init => Tape!TapeInit
  <2>1. <<>> \in Seq(Drawing) /\ Len(<<>>) = 0
    BY EmptySeq
  <2>2. <<>> \o Reverse(<<>>) = <<>>
    BY <2>1, AppendBack
  <2> QED BY <2>1, <2>2 DEF Init, Tape!TapeInit
<1> QED BY <1>1, TapeStep, WellKept, InductiveInvariant, PTL DEF Spec, TapeSpec, Tape!TapeSpec
-----------------------------------------------------------------------------
(* What an operation makes of a sound drawing is sound *)

ExactNames == \A n \in Names : Fold[n] = n

LEMMA SoundFields ==
  ASSUME NEW d, Sound(d), NEW x, x.layers = d.layers, x.current = d.current, x.ents = d.ents, x.blocks = d.blocks
  PROVE  Sound(x)
BY DEF Sound, BlocksResolve, LayersResolve, LayersKeyed, HasLayer, HasBlock, HasEntity

LEMMA SoundEnts ==
  ASSUME NEW d, Sound(d), NEW x, x.layers = d.layers, x.current = d.current, x.blocks = d.blocks,
         \A h \in Handles : x.ents[h] # Nil =>
            HasLayer(d, x.ents[h].layer) /\ (x.ents[h].block # Nil => HasBlock(d, x.ents[h].block))
  PROVE  Sound(x)
BY DEF Sound, BlocksResolve, LayersResolve, LayersKeyed, HasLayer, HasBlock, HasEntity

LEMMA SoundLayers ==
  ASSUME NEW d \in Drawing, Sound(d), NEW x, x.ents = d.ents, x.blocks = d.blocks,
         HasLayer(d, x.current), LayersKeyed(x), \A n \in Names : HasLayer(d, n) => HasLayer(x, n), x.current \in Names
  PROVE  Sound(x)
<1>1. BlocksResolve(x)
  BY DEF Sound, BlocksResolve, HasBlock, HasEntity
<1>2. \A h \in Handles : HasEntity(d, h) => d.ents[h].layer \in Names
  BY DEF HasEntity, Drawing, Entity
<1>3. \A b \in BlockNames : HasBlock(d, b) => d.blocks[b].layers \subseteq Names
  BY DEF HasBlock, Drawing, Block
<1>4. LayersResolve(x)
  <2>1. HasLayer(x, Zero) /\ HasLayer(x, x.current)
    BY DrawingAssumption DEF Sound, LayersResolve
  <2>2. \A h \in Handles : HasEntity(x, h) => HasLayer(x, x.ents[h].layer)
    BY <1>2 DEF Sound, LayersResolve, HasEntity
  <2>3. \A b \in BlockNames : HasBlock(x, b) => \A n \in x.blocks[b].layers : HasLayer(x, n)
    BY <1>3 DEF Sound, LayersResolve, HasBlock
  <2> QED BY <2>1, <2>2, <2>3 DEF LayersResolve
<1> QED BY <1>1, <1>4 DEF Sound

LEMMA SoundBlocks ==
  ASSUME NEW d \in Drawing, Sound(d), NEW x, x.layers = d.layers, x.current = d.current, x.ents = d.ents,
         NEW b \in BlockNames, NEW B \in Block, x.blocks = [d.blocks EXCEPT ![b] = B],
         \A c \in B.blocks : HasBlock(d, c), \A n \in B.layers : HasLayer(d, n)
  PROVE  Sound(x)
<1>1. B # Nil /\ \A c \in BlockNames : x.blocks[c] = IF c = b THEN B ELSE d.blocks[c]
  BY DrawingAssumption DEF Drawing
<1>2. \A c \in BlockNames : HasBlock(d, c) => HasBlock(x, c) /\ d.blocks[c].blocks \subseteq BlockNames
  BY <1>1 DEF HasBlock, Drawing, Block
<1>3. \A h \in Handles : HasEntity(d, h) /\ d.ents[h].block # Nil => d.ents[h].block \in BlockNames
  BY DEF HasEntity, Drawing, Entity
<1>4. LayersResolve(x) /\ LayersKeyed(x)
  BY <1>1 DEF Sound, LayersResolve, LayersKeyed, HasLayer, HasBlock, HasEntity
<1>5. B.blocks \subseteq BlockNames
  BY DEF Block
<1>6. BlocksResolve(x)
  <2>1. \A h \in Handles : HasEntity(x, h) /\ x.ents[h].block # Nil => HasBlock(x, x.ents[h].block)
    BY <1>2, <1>3 DEF Sound, BlocksResolve, HasEntity
  <2>2. ASSUME NEW a \in BlockNames, HasBlock(x, a), NEW c \in x.blocks[a].blocks PROVE HasBlock(x, c)
    <3>1. CASE a = b
      BY <1>1, <1>2, <1>5, <2>2, <3>1
    <3>2. CASE a # b
      BY <1>1, <1>2, <2>2, <3>2 DEF Sound, BlocksResolve, HasBlock
    <3> QED BY <3>1, <3>2
  <2> QED BY <2>1, <2>2 DEF BlocksResolve
<1> QED BY <1>4, <1>6 DEF Sound

LEMMA SoundAdd ==
  ASSUME NEW d \in Drawing, Sound(d), d.seed <= MaxHandle,
         NEW e \in Entity, HasLayer(d, e.layer), e.block # Nil => HasBlock(d, e.block)
  PROVE  Sound(Add(d, e))
<1>1. d.seed \in Handles
  BY DrawingAssumption DEF Drawing, Handles
<1> DEFINE x == Add(d, e)
<1>2. x.layers = d.layers /\ x.current = d.current /\ x.blocks = d.blocks /\ x.ents = [d.ents EXCEPT ![d.seed] = e]
  BY DEF Add, Drawing
<1> HIDE DEF x
<1>3. ASSUME NEW h \in Handles, x.ents[h] # Nil
      PROVE  HasLayer(d, x.ents[h].layer) /\ (x.ents[h].block # Nil => HasBlock(d, x.ents[h].block))
  <2>1. CASE h = d.seed
    BY <1>1, <1>2, <2>1 DEF Drawing
  <2>2. CASE h # d.seed
    BY <1>2, <1>3, <2>2 DEF Drawing, Sound, BlocksResolve, LayersResolve, HasEntity
  <2> QED BY <2>1, <2>2
<1>4. Sound(x)
  BY <1>2, <1>3, SoundEnts
<1> QED BY <1>4 DEF x

LEMMA CreatedSound ==
  ASSUME NEW d \in Drawing, Sound(d), d.seed <= MaxHandle, NEW n \in Names \cup {Nil},
         NEW o \in CreateEntity(d, n) \cup CreateComposite(d, n)
  PROVE  Sound(o.d)
<1>1. Plain(d, Requested(d, n)) \in Entity /\ Plain(d, Zero) \in Entity
  BY NewEntity, RequestedLayer, DrawingAssumption
<1>2. \A m \in Names : Plain(d, m).layer = m /\ Plain(d, m).block = Nil
  BY DEF Plain
<1>3. HasLayer(d, Zero)
  BY DEF Sound, LayersResolve
<1>4. HasLayer(d, Requested(d, n)) => Sound(Add(d, Plain(d, Requested(d, n))))
  BY <1>1, <1>2, RequestedLayer, SoundAdd
<1>5. Sound(Add(d, Plain(d, Zero)))
  BY <1>1, <1>2, <1>3, DrawingAssumption, SoundAdd
<1> QED BY <1>4, <1>5 DEF CreateEntity, CreateComposite, Returns, Raises

LEMMA InsertedSound ==
  ASSUME NEW d \in Drawing, Sound(d), d.seed <= MaxHandle, NEW n \in Names \cup {Nil}, NEW b \in BlockNames,
         NEW o \in BlockInsert(d, b, n)
  PROVE  Sound(o.d)
<1> DEFINE e == [Plain(d, Requested(d, n)) EXCEPT !.block = b]
<1>1. e \in Entity /\ e.layer = Requested(d, n) /\ e.block = b
  BY NewEntity, RequestedLayer DEF Plain
<1> HIDE DEF e
<1>2. HasBlock(d, b) /\ HasLayer(d, Requested(d, n)) => Sound(Add(d, e))
  BY <1>1, SoundAdd
<1> QED BY <1>2 DEF BlockInsert, Returns, Raises, e

\* Entities that are changed in place keep to the blocks and the layers there are.
LEMMA SoundChange ==
  ASSUME NEW d \in Drawing, Sound(d), NEW h \in Handles, HasEntity(d, h),
         NEW e \in Entity \cup {Nil}, e # Nil => e.block = d.ents[h].block /\ HasLayer(d, e.layer),
         NEW x, x = [d EXCEPT !.ents[h] = e]
  PROVE  Sound(x)
<1>1. x.layers = d.layers /\ x.current = d.current /\ x.blocks = d.blocks /\ x.ents = [d.ents EXCEPT ![h] = e]
  BY DEF Drawing
<1>2. ASSUME NEW g \in Handles, x.ents[g] # Nil
      PROVE  HasLayer(d, x.ents[g].layer) /\ (x.ents[g].block # Nil => HasBlock(d, x.ents[g].block))
  <2>1. CASE g = h
    BY <1>1, <1>2, <2>1 DEF Drawing, Sound, BlocksResolve
  <2>2. CASE g # h
    BY <1>1, <1>2, <2>2 DEF Drawing, Sound, BlocksResolve, LayersResolve, HasEntity
  <2> QED BY <2>1, <2>2
<1> QED BY <1>1, <1>2, SoundEnts

LEMMA ChangedSound ==
  ASSUME NEW d \in Drawing, Sound(d), NEW h \in Handles, NEW n \in Names,
         NEW o \in SetProperties(d, h, n) \cup DeleteEntity(d, h) \cup TransformEntity(d, h)
  PROVE  Sound(o.d)
<1>1. CASE o.d = d
  BY <1>1
<1>2. CASE HasEntity(d, h) /\ HasLayer(d, n) /\ o.d = [d EXCEPT !.ents[h].layer = n]
  <2> DEFINE e == [d.ents[h] EXCEPT !.layer = n]
  <2>1. e \in Entity /\ e.block = d.ents[h].block /\ e.layer = n
    BY <1>2 DEF HasEntity, Drawing, Entity
  <2>2. o.d = [d EXCEPT !.ents[h] = e]
    BY <1>2, Zenon
  <2> HIDE DEF e
  <2> QED BY <1>2, <2>1, <2>2, SoundChange
<1>3. CASE HasEntity(d, h) /\ o.d = [d EXCEPT !.ents[h] = Nil]
  BY <1>3, SoundChange
<1>4. CASE HasEntity(d, h) /\ o.d = [d EXCEPT !.ents[h].moved = ~@]
  <2> DEFINE e == [d.ents[h] EXCEPT !.moved = ~@]
  <2>1. (~d.ents[h].moved) \in BOOLEAN
    OBVIOUS
  <2>2. ASSUME NEW m \in BOOLEAN
        PROVE  /\ [d.ents[h] EXCEPT !.moved = m] \in Entity
               /\ [d.ents[h] EXCEPT !.moved = m].block = d.ents[h].block
               /\ [d.ents[h] EXCEPT !.moved = m].layer = d.ents[h].layer
    BY <1>4 DEF HasEntity, Drawing, Entity
  <2>3. e \in Entity /\ e.block = d.ents[h].block /\ e.layer = d.ents[h].layer
    BY <2>1, <2>2, Zenon
  <2>4. o.d = [d EXCEPT !.ents[h] = e]
    BY <1>4, Zenon
  <2>5. HasLayer(d, d.ents[h].layer)
    BY <1>4 DEF Sound, LayersResolve
  <2> HIDE DEF e
  <2> QED BY <1>4, <2>3, <2>4, <2>5, SoundChange
<1> QED BY <1>1, <1>2, <1>3, <1>4 DEF SetProperties, DeleteEntity, TransformEntity, Returns, Raises

LEMMA CopiedSound ==
  ASSUME NEW d \in Drawing, Sound(d), d.seed <= MaxHandle, NEW h \in Handles, NEW o \in CopyEntity(d, h)
  PROVE  Sound(o.d)
<1> DEFINE e == [d.ents[h] EXCEPT !.space = d.space, !.moved = ~@]
<1>1. HasEntity(d, h) => e \in Entity /\ e.layer = d.ents[h].layer /\ e.block = d.ents[h].block
  BY DEF HasEntity, Drawing, Entity
<1>2. HasEntity(d, h) => HasLayer(d, d.ents[h].layer) /\ (d.ents[h].block # Nil => HasBlock(d, d.ents[h].block))
  BY DEF Sound, LayersResolve, BlocksResolve
<1> HIDE DEF e
<1>3. HasEntity(d, h) => Sound(Add(d, e))
  BY <1>1, <1>2, SoundAdd
<1> QED BY <1>3 DEF CopyEntity, Returns, Raises, e

LEMMA LayerMadeSound ==
  ASSUME NEW d \in Drawing, Sound(d), NEW n \in Names, NEW o \in LayerCreate(d, n) \cup LayerSetCurrent(d, n)
  PROVE  Sound(o.d)
<1>1. CASE o.d = d
  BY <1>1
<1>2. CASE HasLayer(d, n) /\ o.d = [d EXCEPT !.current = n]
  <2>1. o.d.ents = d.ents /\ o.d.blocks = d.blocks /\ o.d.layers = d.layers /\ o.d.current = n
    BY <1>2 DEF Drawing
  <2>2. LayersKeyed(o.d) /\ \A m \in Names : HasLayer(d, m) => HasLayer(o.d, m)
    BY <2>1 DEF Sound, LayersKeyed, HasLayer
  <2> QED BY <1>2, <2>1, <2>2, SoundLayers
<1>3. CASE ~HasLayer(d, n) /\ o.d = [d EXCEPT !.layers[Fold[n]] = NewLayer(n)]
  <2>1. Fold[n] \in Names
    BY DrawingAssumption
  <2>2. /\ o.d.ents = d.ents /\ o.d.blocks = d.blocks /\ o.d.current = d.current
        /\ o.d.layers = [d.layers EXCEPT ![Fold[n]] = NewLayer(n)]
    BY <1>3 DEF Drawing
  <2>3. NewLayer(n) \in Layer /\ NewLayer(n).name = n
    BY DEF NewLayer, Layer
  <2>4. \A m \in Names : o.d.layers[m] = IF m = Fold[n] THEN NewLayer(n) ELSE d.layers[m]
    BY <2>1, <2>2 DEF Drawing
  <2>5. LayersKeyed(o.d)
    BY <2>3, <2>4 DEF Sound, LayersKeyed
  <2>6. \A m \in Names : HasLayer(d, m) => HasLayer(o.d, m)
    BY <2>3, <2>4, DrawingAssumption DEF HasLayer
  <2>7. d.current \in Names /\ HasLayer(d, d.current)
    BY DEF Drawing, Sound, LayersResolve
  <2> QED BY <2>2, <2>5, <2>6, <2>7, SoundLayers
<1> QED BY <1>1, <1>2, <1>3 DEF LayerCreate, LayerSetCurrent, Returns, Raises

LEMMA LayerChangedSound ==
  ASSUME NEW d \in Drawing, Sound(d), NEW n \in Names, NEW ch \in LayerChanges, NEW l,
         NEW o \in LayerUpdateState(d, n, ch, l)
  PROVE  Sound(o.d)
<1> DEFINE new == [d EXCEPT !.layers[Fold[n]] = WithState(@, ch)]
<1>1. o = Raises(d) \/ (HasLayer(d, n) /\ o \in {Returns(new), Raises(new)})
  BY DEF LayerUpdateState
<1>2. ASSUME HasLayer(d, n) PROVE Sound(new)
  <2>1. Fold[n] \in Names /\ d.layers[Fold[n]] \in Layer
    BY <1>2, DrawingAssumption DEF HasLayer, Drawing
  <2>2. PICK m \in Layer : m = WithState(d.layers[Fold[n]], ch)
    BY <2>1, LayerSet
  <2>3. m.name = d.layers[Fold[n]].name
    BY <2>1, <2>2 DEF WithState, Layer
  <2>4. /\ new.ents = d.ents /\ new.blocks = d.blocks /\ new.current = d.current
        /\ new.layers = [d.layers EXCEPT ![Fold[n]] = m]
    BY <2>2 DEF Drawing
  <2> HIDE DEF new
  <2>5. \A k \in Names : new.layers[k] = IF k = Fold[n] THEN m ELSE d.layers[k]
    BY <2>1, <2>4 DEF Drawing
  <2>6. LayersKeyed(new)
    BY <1>2, <2>3, <2>5 DEF Sound, LayersKeyed, HasLayer
  <2>7. \A k \in Names : HasLayer(d, k) => HasLayer(new, k)
    BY <2>5, DrawingAssumption DEF HasLayer
  <2>8. d.current \in Names /\ HasLayer(d, d.current)
    BY DEF Drawing, Sound, LayersResolve
  <2> QED BY <2>4, <2>6, <2>7, <2>8, SoundLayers
<1> HIDE DEF new
<1> QED BY <1>1, <1>2 DEF Returns, Raises

LEMMA BlockMadeSound ==
  ASSUME NEW d \in Drawing, Sound(d), NEW b \in BlockNames, NEW H \in SUBSET Handles, NEW o \in BlockCreate(d, b, H)
  PROVE  Sound(o.d)
<1>1. ASSUME NEW G \in SUBSET H, \A h \in H : HasEntity(d, h)
      PROVE  Sound([d EXCEPT !.blocks[b] = BlockOf(d, G)])
  <2>1. BlockOf(d, G) \in Block
    BY <1>1, BlockOfKept
  <2>2. /\ \A c \in BlockOf(d, G).blocks : HasBlock(d, c)
        /\ \A n \in BlockOf(d, G).layers : HasLayer(d, n)
    BY <1>1 DEF BlockOf, Sound, BlocksResolve, LayersResolve
  <2>3. PICK x : x = [d EXCEPT !.blocks[b] = BlockOf(d, G)]
    OBVIOUS
  <2>4. /\ x.layers = d.layers /\ x.current = d.current /\ x.ents = d.ents
        /\ x.blocks = [d.blocks EXCEPT ![b] = BlockOf(d, G)]
    BY <2>3 DEF Drawing
  <2> QED BY <2>1, <2>2, <2>3, <2>4, SoundBlocks
<1>2. CASE o = Raises(d)
  BY <1>2 DEF Raises
<1>3. CASE o # Raises(d)
  <2>1. \A h \in H : HasEntity(d, h)
    BY <1>3 DEF BlockCreate
  <2>2. PICK G \in SUBSET H : o \in {Returns([d EXCEPT !.blocks[b] = BlockOf(d, G)]), Raises([d EXCEPT !.blocks[b] = BlockOf(d, G)])}
    BY <1>3 DEF BlockCreate
  <2>3. o.d = [d EXCEPT !.blocks[b] = BlockOf(d, G)]
    BY <2>2 DEF Returns, Raises
  <2> QED BY <2>1, <2>3, <1>1
<1> QED BY <1>2, <1>3

\* What purge keeps is what the rest refers to, where no two spellings name one layer.
LEMMA PurgedSound ==
  ASSUME ExactNames, NEW d \in Drawing, Sound(d), NEW o \in Purge(d)
  PROVE  Sound(o.d)
<1> DEFINE rest == [d EXCEPT !.blocks = [b \in BlockNames |-> IF b \in UsedBlocks(d) THEN d.blocks[b] ELSE Nil]]
           x == [rest EXCEPT !.layers =
                   [n \in Names |-> IF d.layers[n] # Nil /\ d.layers[n].name \in UsedLayers(rest) THEN d.layers[n] ELSE Nil]]
<1>1. o.d = x
  BY DEF Purge, Returns
<1>2. /\ rest.layers = d.layers /\ rest.current = d.current /\ rest.ents = d.ents
      /\ rest.blocks = [b \in BlockNames |-> IF b \in UsedBlocks(d) THEN d.blocks[b] ELSE Nil]
  BY DEF Drawing
<1>3. /\ x.current = d.current /\ x.ents = d.ents /\ x.blocks = rest.blocks
      /\ x.layers = [n \in Names |-> IF d.layers[n] # Nil /\ d.layers[n].name \in UsedLayers(rest) THEN d.layers[n] ELSE Nil]
  BY <1>2 DEF Drawing
<1> HIDE DEF rest, x
<1>4. \A n \in Names : d.layers[n] # Nil => d.layers[n].name = n
  <2>1. \A n \in Names : d.layers[n] # Nil => d.layers[n].name \in Names
    BY DEF Drawing, Layer
  <2> QED BY <2>1 DEF ExactNames, Sound, LayersKeyed
<1>5. ASSUME NEW n \in UsedLayers(rest), n \in Names, HasLayer(d, n) PROVE HasLayer(x, n)
  BY <1>3, <1>4, <1>5 DEF HasLayer, ExactNames
<1>6. LayersKeyed(x)
  BY <1>3 DEF Sound, LayersKeyed
<1>7. \A b \in BlockNames : HasBlock(x, b) <=> HasBlock(d, b) /\ b \in UsedBlocks(d)
  BY <1>2, <1>3 DEF HasBlock
<1>8. \A b \in BlockNames : HasBlock(x, b) => x.blocks[b] = d.blocks[b] /\ HasBlock(rest, b) /\ rest.blocks[b] = d.blocks[b]
  BY <1>2, <1>3 DEF HasBlock
<1>9. BlocksResolve(x)
  <2>1. ASSUME NEW h \in Handles, HasEntity(x, h), x.ents[h].block # Nil PROVE HasBlock(x, x.ents[h].block)
    <3>1. HasEntity(d, h) /\ d.ents[h].block # Nil /\ x.ents[h] = d.ents[h]
      BY <1>3, <2>1 DEF HasEntity
    <3>2. HasBlock(d, d.ents[h].block) /\ d.ents[h].block \in BlockNames
      BY <3>1 DEF Sound, BlocksResolve, HasEntity, Drawing, Entity
    <3>3. d.ents[h].block \in UsedBlocks(d)
      BY <3>1 DEF UsedBlocks, Live
    <3> QED BY <1>7, <3>1, <3>2, <3>3
  <2>2. ASSUME NEW b \in BlockNames, HasBlock(x, b), NEW c \in x.blocks[b].blocks PROVE HasBlock(x, c)
    <3>1. HasBlock(d, b) /\ c \in d.blocks[b].blocks
      BY <1>7, <1>8, <2>2
    <3>2. HasBlock(d, c) /\ c \in BlockNames
      BY <3>1 DEF Sound, BlocksResolve, HasBlock, Drawing, Block
    <3>3. c \in UsedBlocks(d)
      BY <3>1 DEF UsedBlocks
    <3> QED BY <1>7, <3>2, <3>3
  <2> QED BY <2>1, <2>2 DEF BlocksResolve
<1>10. LayersResolve(x)
  <2>1. HasLayer(x, Zero) /\ HasLayer(x, x.current)
    <3>1. Zero \in UsedLayers(rest) /\ d.current \in UsedLayers(rest) /\ d.current \in Names
      BY <1>2 DEF UsedLayers, Drawing
    <3>2. HasLayer(d, Zero) /\ HasLayer(d, d.current)
      BY DEF Sound, LayersResolve
    <3> QED BY <1>3, <1>5, <3>1, <3>2, DrawingAssumption
  <2>2. ASSUME NEW h \in Handles, HasEntity(x, h) PROVE HasLayer(x, x.ents[h].layer)
    <3>1. HasEntity(d, h) /\ x.ents[h] = d.ents[h] /\ rest.ents[h] = d.ents[h] /\ HasEntity(rest, h)
      BY <1>2, <1>3, <2>2 DEF HasEntity
    <3>2. HasLayer(d, d.ents[h].layer) /\ d.ents[h].layer \in Names
      BY <3>1 DEF Sound, LayersResolve, HasEntity, Drawing, Entity
    <3>3. d.ents[h].layer \in UsedLayers(rest)
      BY <3>1 DEF UsedLayers, Live
    <3> QED BY <1>5, <3>1, <3>2, <3>3
  <2>3. ASSUME NEW b \in BlockNames, HasBlock(x, b), NEW n \in x.blocks[b].layers PROVE HasLayer(x, n)
    <3>1. HasBlock(d, b) /\ n \in d.blocks[b].layers /\ HasBlock(rest, b) /\ n \in rest.blocks[b].layers
      BY <1>7, <1>8, <2>3
    <3>2. HasLayer(d, n) /\ n \in Names
      BY <3>1 DEF Sound, LayersResolve, HasBlock, Drawing, Block
    <3>3. n \in UsedLayers(rest)
      BY <3>1 DEF UsedLayers
    <3> QED BY <1>5, <3>2, <3>3
  <2> QED BY <2>1, <2>2, <2>3 DEF LayersResolve
<1> QED BY <1>1, <1>6, <1>9, <1>10 DEF Sound

LEMMA RestSound ==
  ASSUME NEW d \in Drawing, Sound(d), NEW e, NEW l,
         NEW o \in ConfigureUnits(d, e) \cup Audit(d) \cup LayoutCreate(d, l) \cup LayoutSetCurrent(d, l)
  PROVE  Sound(o.d)
<1>1. o.d.layers = d.layers /\ o.d.current = d.current /\ o.d.ents = d.ents /\ o.d.blocks = d.blocks
  BY DEF ConfigureUnits, Audit, LayoutCreate, LayoutSetCurrent, Returns, Raises, Drawing
<1> QED BY <1>1, SoundFields

LEMMA OutcomeSound ==
  ASSUME ExactNames, NEW d \in Drawing, Sound(d), NEW e \in Edits, Creates(e) => d.seed <= MaxHandle,
         NEW o \in Outcomes(e, d)
  PROVE  Sound(o.d)
<1>1. CASE e.kind \in {"create", "composite", "block_insert", "copy"}
  <2>1. d.seed <= MaxHandle
    BY <1>1 DEF Creates
  <2>2. CASE e.kind \in {"create", "composite"} BY <2>1, <2>2, EditKinds, CreatedSound
  <2>3. CASE e.kind = "block_insert" BY <2>1, <2>3, EditKinds, InsertedSound
  <2>4. CASE e.kind = "copy" BY <2>1, <2>4, EditKinds, CopiedSound
  <2> QED BY <1>1, <2>2, <2>3, <2>4
<1>2. CASE e.kind = "properties" BY <1>2, EditKinds, ChangedSound
<1>3. CASE e.kind \in {"delete", "transform"} BY <1>3, EditKinds, ChangedSound, DrawingAssumption
<1>4. CASE e.kind \in {"layer_create", "layer_set_current"} BY <1>4, EditKinds, LayerMadeSound
<1>5. CASE e.kind = "layer_update" BY <1>5, EditKinds, LayerChangedSound
<1>6. CASE e.kind = "block_create" BY <1>6, EditKinds, BlockMadeSound
<1>7. CASE e.kind \in {"layout_create", "layout_set_current", "units", "audit"} BY <1>7, EditKinds, RestSound
<1>8. CASE e.kind = "purge" BY <1>8, EditKinds, PurgedSound
<1> QED BY <1>1, <1>2, <1>3, <1>4, <1>5, <1>6, <1>7, <1>8, EditKinds
-----------------------------------------------------------------------------
(* Every drawing there is stays sound *)

Fine(d) == d # Nil => Sound(d)
AllFine(S) == \A d \in S : Fine(d)

LEMMA SoundParts ==
  SoundInv <=> /\ Fine(doc) /\ AllFine(Range(undo)) /\ AllFine(Range(redo)) /\ AllFine(Range(txs))
               /\ AllFine(Range(files)) /\ AllFine(Range(held))
BY DEF SoundInv, Fine, AllFine

LEMMA FineStacks ==
  ASSUME NEW s \in Seq(Drawing), AllFine(Range(s))
  PROVE  /\ s # <<>> => Fine(Last(s)) /\ AllFine(Range(Front(s)))
         /\ \A d \in Drawing : Fine(d) =>
               /\ AllFine(Range(Append(s, d)))
               /\ \A n \in Nat \ {0} : AllFine(Range(Newest(Append(s, d), n)))
BY RangeKept DEF AllFine

LEMMA FineEmpty == AllFine(Range(<<>>))
BY DEF AllFine, Range

\* A table of drawings, one for each path or each call.
LEMMA FineTable ==
  ASSUME NEW I, NEW D, NEW f \in [I -> D], AllFine(Range(f)), NEW i, NEW d, Fine(d)
  PROVE  AllFine(Range([f EXCEPT ![i] = d]))
BY DEF AllFine, Range

LEMMA FineRebound ==
  ASSUME NEW d \in Drawing, Fine(d), NEW b
  PROVE  Fine([d EXCEPT !.binding = b])
<1>1. PICK x : x = [d EXCEPT !.binding = b]
  OBVIOUS
<1>2. Sound(d) /\ x.layers = d.layers /\ x.current = d.current /\ x.ents = d.ents /\ x.blocks = d.blocks
  BY <1>1, DrawingAssumption DEF Fine, Drawing
<1> QED BY <1>1, <1>2, SoundFields DEF Fine

LEMMA EmptySound == Sound(EmptyDrawing)
<1>1. HasLayer(EmptyDrawing, Zero) /\ EmptyDrawing.current = Zero
  <2>1. NewLayer(Zero) \in Layer
    BY DrawingAssumption DEF NewLayer, Layer
  <2>2. Fold[Zero] = Zero /\ NewLayer(Zero) # Nil
    BY <2>1, DrawingAssumption
  <2> QED BY <2>2, DrawingAssumption DEF HasLayer, EmptyDrawing
<1>2. \A b \in BlockNames : ~HasBlock(EmptyDrawing, b)
  BY DEF HasBlock, EmptyDrawing
<1>3. \A h \in Handles : ~HasEntity(EmptyDrawing, h)
  BY DEF HasEntity, EmptyDrawing
<1>4. LayersKeyed(EmptyDrawing)
  BY DrawingAssumption DEF LayersKeyed, EmptyDrawing, NewLayer
<1> QED BY <1>1, <1>2, <1>3, <1>4 DEF Sound, BlocksResolve, LayersResolve

LEMMA FineHeld ==
  ASSUME IInv, TypeOK, TypeOK', HistoryInv, SoundInv, NEW c \in Calls, Acts(c)
  PROVE  AllFine(Range(held'))
<1> USE DEF TypeOK
<1>1. Fine(Nil) /\ Fine(doc) /\ AllFine(Range(files)) /\ AllFine(Range(held))
  BY SoundParts DEF Fine
<1>2. CASE UNCHANGED held
  BY <1>1, <1>2
<1>3. ASSUME NEW d, Fine(d), held' = [held EXCEPT ![c] = d] PROVE AllFine(Range(held'))
  <2>1. held \in [Calls -> Drawing \cup {Nil}]
    OBVIOUS
  <2> QED BY <1>1, <1>3, <2>1, FineTable
<1>4. ASSUME NEW r \in Requests, Invoke(c, r) PROVE AllFine(Range(held'))
  BY <1>1, <1>3, <1>4 DEF Invoke
<1>5. CASE Load(c)
  <2>1. Busy(c) /\ Rebinds(req[c])
    BY <1>5 DEF Load, Busy
  <2>2. req[c].kind = "open" => target[c] \in Paths
    BY <2>1 DEF HistoryInv, CallInv
  <2>3. Fine(IF req[c].kind = "new" THEN EmptyDrawing ELSE files[target[c]])
    BY <1>1, <2>1, <2>2, EmptySound DEF Fine, Rebinds, AllFine, Range
  <2> QED BY <1>3, <1>5, <2>3 DEF Load
<1>6. CASE Render(c) \/ Snapshot(c) \/ Edit(c)
  BY <1>1, <1>3, <1>6 DEF Render, Snapshot, Edit
<1>7. CASE Raise(c) \/ Read(c) \/ Write(c) \/ Publish(c) \/ Record(c) \/ Push(c) \/ Commit(c)
  BY <1>2, <1>7 DEF Raise, Read, Write, Publish, Record, Push, Commit
<1>8. CASE Rollback(c) \/ Undo(c) \/ Redo(c)
  BY <1>2, <1>8 DEF Rollback, Undo, Redo
<1>9. CASE Enter(c) \/ Return(c) \/ Timeout(c) \/ CancelInside(c) \/ CancelWaiting(c)
  BY <1>2, <1>9 DEF Enter, Return, Timeout, CancelInside, CancelWaiting, Abandon, workVars
<1> QED BY <1>4, <1>5, <1>6, <1>7, <1>8, <1>9 DEF Acts, Coroutine, Worker

LEMMA FineRecord ==
  ASSUME TypeOK, AllFine(Range(undo)), NEW d \in Drawing, Fine(d), RecordMutation(d)
  PROVE  AllFine(Range(undo')) /\ AllFine(Range(redo'))
<1>1. UndoDepth + 1 \in Nat \ {0} /\ undo \in Seq(Drawing)
  BY BackendAssumption DEF TypeOK
<1> QED BY <1>1, FineStacks, FineEmpty DEF RecordMutation

LEMMA FineRest ==
  ASSUME ExactNames, IInv, TypeOK, TypeOK', HistoryInv, SoundInv, NEW c \in Calls, Acts(c)
  PROVE  /\ Fine(doc') /\ AllFine(Range(undo')) /\ AllFine(Range(redo')) /\ AllFine(Range(txs'))
         /\ AllFine(Range(files'))
<1> DEFINE Goal == /\ Fine(doc') /\ AllFine(Range(undo')) /\ AllFine(Range(redo')) /\ AllFine(Range(txs'))
                   /\ AllFine(Range(files'))
<1>1. /\ Fine(doc) /\ AllFine(Range(undo)) /\ AllFine(Range(redo)) /\ AllFine(Range(txs))
      /\ AllFine(Range(files)) /\ AllFine(Range(held))
  BY SoundParts
<1>2. undo \in Seq(Drawing) /\ redo \in Seq(Drawing) /\ txs \in Seq(Drawing) /\ (doc # Nil => doc \in Drawing)
  BY DEF TypeOK
<1>3. CASE UNCHANGED <<doc, undo, redo, files>> /\ (txs' = txs \/ Push(c) \/ Commit(c))
  <2>1. CASE Push(c)
    <3>1. held[c] \in Drawing /\ Fine(held[c])
      BY <1>1, <2>1, CallFacts DEF Push, AllFine, Range, TypeOK, HistoryInv
    <3> QED BY <1>1, <1>2, <1>3, <2>1, <3>1, FineStacks DEF Push
  <2>2. CASE Commit(c)
    BY <1>1, <1>2, <1>3, <2>2, FineStacks DEF Commit
  <2> QED BY <1>1, <1>3, <2>1, <2>2
<1>4. CASE Return(c) /\ ~raised[c] /\ Rebinds(req[c]) /\ Bind(c)
  <2>1. held[c] \in Drawing /\ Fine(held[c]) /\ generation' \in Nat
    BY <1>1, <1>4 DEF Return, Bind, HistoryInv, DoneInv, TypeOK, AllFine, Range
  <2>2. /\ undo' = <<doc'>> /\ redo' = <<>> /\ txs' = <<>> /\ doc' = [held[c] EXCEPT !.binding = generation']
        /\ UNCHANGED files
    BY <1>4 DEF Bind, Rebase, Return, diskVars
  <2>3. Fine(doc')
    BY <2>1, <2>2, FineRebound
  <2>4. AllFine(Range(<<doc'>>))
    BY <2>3 DEF AllFine, Range
  <2> QED BY <1>1, <2>2, <2>3, <2>4, FineEmpty
<1>5. CASE DropRepeat(c) /\ UNCHANGED <<doc, files>>
  <2>1. UNCHANGED <<redo, txs>> /\ (undo' = undo \/ (undo' = Front(undo) /\ Len(undo) >= 2))
    BY <1>5, Zenon DEF DropRepeat, Front
  <2>2. Len(undo) >= 2 => undo # <<>>
    BY <1>2, EmptySeq
  <2> QED BY <1>1, <1>2, <1>5, <2>1, <2>2, FineStacks
<1>6. CASE UNCHANGED <<doc, undo, redo, txs, files>>
  BY <1>1, <1>6
<1>7. CASE Write(c)
  <2>1. UNCHANGED <<doc, undo, redo, txs>> /\ doc \in Drawing
    BY <1>2, <1>7 DEF Write, docVars, histVars
  <2>2. PICK saved : saved = [doc EXCEPT !.binding = 0] /\ Fine(saved) /\ Fine(Nil)
    BY <1>1, <2>1, FineRebound DEF Fine
  <2>3. \/ UNCHANGED files
        \/ \E d \in {saved, Nil} : files' = [files EXCEPT ![target[c]] = d]
    BY <1>7, <2>2 DEF Write
  <2>4. AllFine(Range(files'))
    <3>1. files \in [Paths -> Drawing \cup {Nil}]
      BY DEF TypeOK
    <3>2. ASSUME NEW d \in {saved, Nil} PROVE AllFine(Range([files EXCEPT ![target[c]] = d]))
      BY <1>1, <2>2, <3>1, FineTable
    <3> QED BY <1>1, <2>3, <3>2
  <2> QED BY <1>1, <2>1, <2>4
<1>8. CASE Edit(c)
  <2>1. Busy(c) /\ Records(req[c]) /\ doc \in Drawing /\ Sound(doc)
    BY <1>1, <1>2, <1>8 DEF Edit, Busy, Fine
  <2>2. req[c] \in Edits /\ (Creates(req[c]) => doc.seed <= MaxHandle)
    BY <1>8, <2>1, CallFacts DEF Edit, HistoryInv
  <2>3. PICK o \in Outcomes(req[c], doc) : doc' = o.d
    BY <1>8 DEF Edit
  <2>4. Fine(doc')
    BY <2>1, <2>2, <2>3, OutcomeSound DEF Fine
  <2> QED BY <1>1, <1>8, <2>4 DEF Edit, histVars, diskVars
<1>9. CASE Record(c)
  <2>1. doc \in Drawing /\ RecordMutation(doc) /\ UNCHANGED <<doc, txs, files>>
    BY <1>9, RecordEffect
  <2> QED BY <1>1, <2>1, FineRecord
<1>10. CASE Rollback(c)
  <2>1. /\ txs # <<>> /\ doc' = Last(txs) /\ RecordMutation(Last(txs)) /\ txs' = Front(txs) /\ UNCHANGED files
    BY <1>10 DEF Rollback, Restore, diskVars
  <2>2. Last(txs) \in Drawing /\ Fine(Last(txs)) /\ AllFine(Range(Front(txs)))
    BY <1>1, <1>2, <2>1, FrontKept, FineStacks
  <2> QED BY <1>1, <2>1, <2>2, FineRecord
<1>11. CASE Undo(c)
  <2>1. /\ undo' = Front(undo) /\ redo' = Append(redo, Last(undo)) /\ doc' = Last(undo') /\ UNCHANGED <<txs, files>>
        /\ Len(undo) >= 2 /\ undo # <<>>
    BY <1>11, EmptySeq DEF Undo, Restore, diskVars
  <2>2. /\ Last(undo) \in Drawing /\ Front(undo) \in Seq(Drawing) /\ Front(undo) # <<>>
        /\ Fine(Last(undo)) /\ AllFine(Range(Front(undo)))
    BY <1>1, <1>2, <2>1, FrontKept, FrontLonger, FineStacks
  <2> QED BY <1>1, <1>2, <2>1, <2>2, FineStacks
<1>12. CASE Redo(c)
  <2>1. /\ redo # <<>> /\ redo' = Front(redo) /\ undo' = Append(undo, Last(redo)) /\ doc' = Last(redo)
        /\ UNCHANGED <<txs, files>>
    BY <1>12 DEF Redo, Restore, diskVars
  <2>2. Last(redo) \in Drawing /\ Fine(Last(redo)) /\ AllFine(Range(Front(redo)))
    BY <1>1, <1>2, <2>1, FrontKept, FineStacks
  <2> QED BY <1>1, <1>2, <2>1, <2>2, FineStacks
<1> QED BY <1>3, <1>4, <1>5, <1>6, <1>7, <1>8, <1>9, <1>10, <1>11, <1>12, Effects

LEMMA SoundStep == ExactNames /\ IInv /\ TypeOK /\ TypeOK' /\ HistoryInv /\ SoundInv /\ [Next]_vars => SoundInv'
<1> SUFFICES ASSUME ExactNames, IInv, TypeOK, TypeOK', HistoryInv, SoundInv, [Next]_vars PROVE SoundInv'
  OBVIOUS
<1>1. CASE UNCHANGED vars
  <2>1. UNCHANGED <<doc, undo, redo, txs, files, held>>
    BY <1>1 DEF vars, docVars, histVars, diskVars, workVars
  <2> QED BY <2>1 DEF SoundInv
<1>2. ASSUME NEW c \in Calls, Acts(c) PROVE SoundInv'
  <2>1. /\ Fine(doc') /\ AllFine(Range(undo')) /\ AllFine(Range(redo')) /\ AllFine(Range(txs'))
        /\ AllFine(Range(files')) /\ AllFine(Range(held'))
    BY <1>2, FineRest, FineHeld
  <2> QED BY <2>1 DEF SoundInv, Fine, AllFine
<1> QED BY <1>1, <1>2, NextActs

LEMMA InitSound == Init => SoundInv
<1> SUFFICES ASSUME Init PROVE SoundInv
  OBVIOUS
<1>1. Fine(doc) /\ AllFine(Range(undo)) /\ AllFine(Range(redo)) /\ AllFine(Range(txs)) /\ AllFine(Range(held))
  BY FineEmpty DEF Init, Fine, AllFine, Range
<1>2. AllFine(Range(files))
  BY BackendAssumption DEF Init, Fine, AllFine, Range
<1> QED BY <1>1, <1>2, SoundParts

\* INSERTs refer to blocks and layers in use are in the table, through every edit,
\* undo and rollback, as long as no two spellings stand for one layer.
THEOREM ReferencesStay == ASSUME ExactNames PROVE Spec => []ReferencesResolve
<1>1. SoundInv /\ TypeOK => ReferencesResolve
  BY DEF SoundInv, ReferencesResolve, Sound
<1> QED BY <1>1, InitSound, SoundStep, WellKept, InductiveInvariant, PTL DEF Spec
=============================================================================
