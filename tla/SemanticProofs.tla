------------------------ MODULE SemanticProofs -------------------------
(* For every identity, coordinate, layer and document state: what
   validate_action_delta accepts, and that the executor's chain, its
   journal and what it knows stay true.                                    *)
EXTENDS SemanticExecutor, FiniteSetTheorems, TLAPS

LEMMA EntityParts ==
  ASSUME NEW e \in Entity
  PROVE  /\ e.geom.p \in Int /\ e.geom.q \in Int
         /\ e.geom = [p |-> e.geom.p, q |-> e.geom.q, n |-> e.geom.n]
         /\ Turned(e).geom = [p |-> e.geom.q, q |-> e.geom.p, n |-> e.geom.n]
BY PointAssumption DEF Entity, Geometry, Turned

LEMMA NormalForm ==
  ASSUME NEW e \in Entity
  PROVE  /\ e.type = "LINE" /\ e.geom.q < e.geom.p => NormalGeometry(e) = Turned(e).geom
         /\ ~(e.type = "LINE" /\ e.geom.q < e.geom.p) => NormalGeometry(e) = e.geom
BY EntityParts DEF NormalGeometry

\* Two geometries have one fingerprint exactly when they show the same shape.
LEMMA SameGeometryShows ==
  ASSUME NEW e \in Entity, NEW f \in Entity, SameGeometry(e, f)
  PROVE  Shows(e, f.type, f.geom) /\ Shows(f, e.type, e.geom)
<1>1. e.type = f.type /\ NormalGeometry(e) = NormalGeometry(f)
  BY DEF SameGeometry
<1>2. CASE e.type # "LINE"
  BY <1>1, <1>2, NormalForm DEF Shows
<1>3. CASE e.type = "LINE"
  <2>1. NormalGeometry(e) \in {e.geom, Turned(e).geom} /\ NormalGeometry(f) \in {f.geom, Turned(f).geom}
    BY NormalForm
  <2>2. /\ Turned(e).geom = [p |-> e.geom.q, q |-> e.geom.p, n |-> e.geom.n]
        /\ e.geom = [p |-> e.geom.p, q |-> e.geom.q, n |-> e.geom.n]
    BY EntityParts
  <2>3. /\ Turned(f).geom = [p |-> f.geom.q, q |-> f.geom.p, n |-> f.geom.n]
        /\ f.geom = [p |-> f.geom.p, q |-> f.geom.q, n |-> f.geom.n]
    BY EntityParts
  <2>4. e.geom = Turned(f).geom <=> f.geom = Turned(e).geom
    BY <2>2, <2>3
  <2>5. Turned(e).geom = Turned(f).geom => e.geom = f.geom
    BY <2>2, <2>3
  <2>6. e.geom = f.geom \/ f.geom = Turned(e).geom
    BY <1>1, <2>1, <2>4, <2>5
  <2> QED BY <1>1, <1>3, <2>4, <2>6 DEF Shows
<1> QED BY <1>2, <1>3

LEMMA ShowsSameGeometry ==
  ASSUME NEW e \in Entity, NEW f \in Entity, Shows(e, f.type, f.geom)
  PROVE  SameGeometry(e, f) /\ SameGeometry(f, e)
<1>1. CASE e.type = f.type /\ e.geom = f.geom
  BY <1>1, NormalForm, EntityParts DEF SameGeometry
<1>2. CASE e.type = "LINE" /\ e.type = f.type /\ Turned(e).geom = f.geom
  <2>1. f.geom.p = e.geom.q /\ f.geom.q = e.geom.p /\ f.geom.n = e.geom.n
    <3>1. Turned(e).geom = [p |-> e.geom.q, q |-> e.geom.p, n |-> e.geom.n]
      BY EntityParts
    <3> QED BY <1>2, <3>1
  <2>2. e.geom = [p |-> e.geom.p, q |-> e.geom.q, n |-> e.geom.n] /\ {e.geom.p, e.geom.q} \subseteq Int
    BY EntityParts
  <2>3. f.geom = [p |-> f.geom.p, q |-> f.geom.q, n |-> f.geom.n]
    BY EntityParts
  <2>4. CASE e.geom.q < e.geom.p
    <3>1. NormalGeometry(e) = f.geom /\ NormalGeometry(f) = f.geom
      BY <1>2, <2>1, <2>2, <2>4, NormalForm
    <3> QED BY <1>2, <3>1 DEF SameGeometry
  <2>5. CASE e.geom.p < e.geom.q
    <3>1. NormalGeometry(e) = e.geom /\ NormalGeometry(f) = e.geom
      BY <1>2, <2>1, <2>2, <2>3, <2>5, NormalForm, EntityParts
    <3> QED BY <1>2, <3>1 DEF SameGeometry
  <2>6. CASE e.geom.p = e.geom.q
    <3>1. NormalGeometry(e) = e.geom /\ NormalGeometry(f) = f.geom /\ e.geom = f.geom
      BY <1>2, <2>1, <2>2, <2>3, <2>6, NormalForm
    <3> QED BY <1>2, <3>1 DEF SameGeometry
  <2> QED BY <2>2, <2>4, <2>5, <2>6
<1> QED BY <1>1, <1>2 DEF Shows

-----------------------------------------------------------------------------
(* Accepted deltas *)

Context(a, b, s) ==
  Snapshot(b) /\ Snapshot(s) /\ Action(a) /\ OneTarget(a) /\ ValidateActionDelta(a, b, s)

\* What is neither created, deleted nor modified is what it was.
LEMMA RestUntouched ==
  ASSUME NEW a, NEW b, NEW s, Context(a, b, s), NEW pids,
         LET d == ComputeSemanticDelta(b, s) IN d.created \cup d.deleted \cup d.modified \subseteq pids
  PROVE  Untouched(b, s, pids)
<1>1. s.doc = b.doc
  BY DEF Context, ValidateActionDelta, DocumentInvariants
<1>2. DOMAIN s.ents \ pids = DOMAIN b.ents \ pids
  BY DEF ComputeSemanticDelta
<1>3. \A p \in DOMAIN b.ents \ pids : s.ents[p] = b.ents[p]
  BY <1>2 DEF ComputeSemanticDelta
<1> QED BY <1>1, <1>2, <1>3 DEF Untouched

\* The requested geometry says what an entity shows that has its fingerprint.
LEMMA RequestedShows ==
  ASSUME NEW a, Action(a), NEW e \in Entity, NEW old \in Entity, SameGeometry(e, Requested(a, old))
  PROVE  Shows(e, a.type, [a.geom EXCEPT !.n = IF a.verb = "update" /\ a.type = "CIRCLE" THEN old.geom.n ELSE 0])
<1> DEFINE g == [a.geom EXCEPT !.n = IF a.verb = "update" /\ a.type = "CIRCLE" THEN old.geom.n ELSE 0]
           f == [type |-> a.type, geom |-> g, layer |-> e.layer]
<1>1. a.geom \in Geometry /\ old.geom.n \in {0, 1} /\ a.type \in Type /\ e.layer \in Layer
  BY DEF Action, Entity, Geometry
<1>2. g \in Geometry
  BY <1>1 DEF Geometry
<1>3. f \in Entity /\ f.type = a.type /\ f.geom = g
  BY <1>1, <1>2 DEF Entity
<1>4. Requested(a, old) = [type |-> a.type, geom |-> g]
  BY DEF Requested
<1>5. SameGeometry(e, f)
  BY <1>4 DEF SameGeometry, NormalGeometry
<1> QED BY <1>3, <1>5, SameGeometryShows

LEMMA CreatePerformed ==
  ASSUME NEW a, NEW b, NEW s, Context(a, b, s), a.verb = "create"
  PROVE  Performed(a, b, s)
<1> DEFINE d == ComputeSemanticDelta(b, s)
<1>1. PICK p \in d.created : d.created = {p} /\ SameGeometry(s.ents[p], Requested(a, s.ents[p]))
  BY DEF Context, ValidateActionDelta, RequestedGeometry
<1>2. d.deleted = {} /\ d.modified = {}
  BY DEF Context, ValidateActionDelta, ExpectedOperationEffect
<1>3. p \in DOMAIN s.ents \ DOMAIN b.ents /\ s.ents[p] \in Entity
  BY <1>1 DEF ComputeSemanticDelta, Context, Snapshot
<1>4. Untouched(b, s, {p})
  BY <1>1, <1>2, RestUntouched
<1>5. Shows(s.ents[p], a.type, [a.geom EXCEPT !.n = 0])
  <2>1. Shows(s.ents[p], a.type,
              [a.geom EXCEPT !.n = IF a.verb = "update" /\ a.type = "CIRCLE" THEN s.ents[p].geom.n ELSE 0])
    BY <1>1, <1>3, RequestedShows DEF Context
  <2> QED BY <2>1
<1> QED BY <1>3, <1>4, <1>5 DEF Performed

LEMMA UpdatePerformed ==
  ASSUME NEW a, NEW b, NEW s, Context(a, b, s), a.verb = "update"
  PROVE  Performed(a, b, s)
<1> DEFINE d == ComputeSemanticDelta(b, s)
<1>1. PICK p \in Pid : a.targets = {p}
  BY DEF Context, OneTarget
<1>2. d.created = {} /\ d.deleted = {} /\ d.modified = {p}
  BY <1>1 DEF Context, ValidateActionDelta, ExpectedOperationEffect
<1>3. /\ p \in DOMAIN s.ents \cap DOMAIN b.ents /\ s.ents[p].layer = b.ents[p].layer
      /\ SameGeometry(s.ents[p], Requested(a, b.ents[p]))
  BY <1>1 DEF Context, ValidateActionDelta, RequestedGeometry, TargetEnvelope
<1>4. Untouched(b, s, {p})
  BY <1>2, RestUntouched
<1>5. Shows(s.ents[p], a.type, [a.geom EXCEPT !.n = IF a.type = "CIRCLE" THEN b.ents[p].geom.n ELSE 0])
  <2>1. s.ents[p] \in Entity /\ b.ents[p] \in Entity
    BY <1>3 DEF Context, Snapshot
  <2>2. Shows(s.ents[p], a.type,
              [a.geom EXCEPT !.n = IF a.verb = "update" /\ a.type = "CIRCLE" THEN b.ents[p].geom.n ELSE 0])
    BY <1>3, <2>1, RequestedShows DEF Context
  <2> QED BY <2>2
<1> QED BY <1>1, <1>3, <1>4, <1>5 DEF Performed

LEMMA DeletePerformed ==
  ASSUME NEW a, NEW b, NEW s, Context(a, b, s), a.verb = "delete"
  PROVE  Performed(a, b, s)
<1> DEFINE d == ComputeSemanticDelta(b, s)
<1>1. PICK p \in Pid : a.targets = {p}
  BY DEF Context, OneTarget
<1>2. d.created = {} /\ d.modified = {} /\ d.deleted = {p}
  BY <1>1 DEF Context, ValidateActionDelta, ExpectedOperationEffect
<1>3. p \in DOMAIN b.ents /\ p \notin DOMAIN s.ents
  BY <1>2 DEF ComputeSemanticDelta
<1>4. Untouched(b, s, {p})
  BY <1>2, RestUntouched
<1> QED BY <1>1, <1>3, <1>4 DEF Performed

-----------------------------------------------------------------------------
\* A step whose delta the executor has accepted did what was planned, whatever
\* else the user or AutoCAD did meanwhile: nothing else in the drawing changed.
THEOREM AcceptedIsPerformed ==
  ASSUME NEW a, NEW b, NEW s, Context(a, b, s)
  PROVE  Performed(a, b, s)
<1>1. a.verb \in {"create", "update", "delete"}
  BY DEF Context, Action, Verb
<1> QED BY <1>1, CreatePerformed, UpdatePerformed, DeletePerformed

\* Entities that are drawn over each other after an accepted step were both there
\* before it, where they are now.
THEOREM AcceptedDrawsNothingTwice ==
  ASSUME NEW a, NEW b, NEW s, Context(a, b, s)
  PROVE  NothingDrawnTwice(b, s)
<1> SUFFICES ASSUME NEW p \in DOMAIN s.ents, NEW q \in DOMAIN s.ents, p # q,
                    Shows(s.ents[p], s.ents[q].type, s.ents[q].geom)
             PROVE  /\ p \in DOMAIN b.ents /\ q \in DOMAIN b.ents
                    /\ Shows(b.ents[p], s.ents[p].type, s.ents[p].geom)
                    /\ Shows(b.ents[q], s.ents[q].type, s.ents[q].geom)
  BY DEF NothingDrawnTwice
<1>1. s.ents[p] \in Entity /\ s.ents[q] \in Entity
  BY DEF Context, Snapshot
<1>2. SameGeometry(s.ents[p], s.ents[q]) /\ SameGeometry(s.ents[q], s.ents[p])
  BY <1>1, ShowsSameGeometry
<1>3. /\ p \in DOMAIN b.ents /\ SameGeometry(s.ents[p], b.ents[p])
      /\ q \in DOMAIN b.ents /\ SameGeometry(s.ents[q], b.ents[q])
  BY <1>2 DEF Context, ValidateActionDelta, NewDuplicates
<1>4. b.ents[p] \in Entity /\ b.ents[q] \in Entity
  BY <1>3 DEF Context, Snapshot
<1> QED BY <1>1, <1>3, <1>4, SameGeometryShows

-----------------------------------------------------------------------------
(* What the bridge makes of a snapshot is a snapshot *)

LEMMA WithIsSnapshot ==
  ASSUME NEW d, Snapshot(d), NEW p \in Pid, NEW e \in Entity
  PROVE  Snapshot(With(d, p, e))
BY DEF Snapshot, With

LEMMA WithoutIsSnapshot ==
  ASSUME NEW d, Snapshot(d), NEW p
  PROVE  Snapshot(Without(d, p))
BY DEF Snapshot, Without

\* Another geometry, or another layer, of one entity.
LEMMA GeometryIsSnapshot ==
  ASSUME NEW d, Snapshot(d), NEW p \in DOMAIN d.ents, NEW g \in Geometry
  PROVE  Snapshot([d EXCEPT !.ents[p].geom = g])
<1>1. d.ents[p] \in Entity
  BY DEF Snapshot
<1>2. [d.ents[p] EXCEPT !.geom = g] \in Entity
  BY <1>1 DEF Entity
<1> QED BY <1>2 DEF Snapshot

LEMMA LayerIsSnapshot ==
  ASSUME NEW d, Snapshot(d), NEW p \in DOMAIN d.ents, NEW l \in Layer
  PROVE  Snapshot([d EXCEPT !.ents[p].layer = l])
<1>1. d.ents[p] \in Entity
  BY DEF Snapshot
<1>2. [d.ents[p] EXCEPT !.layer = l] \in Entity
  BY <1>1 DEF Entity
<1> QED BY <1>2 DEF Snapshot

LEMMA TurnedIsSnapshot ==
  ASSUME NEW d, Snapshot(d), NEW p \in DOMAIN d.ents
  PROVE  Snapshot([d EXCEPT !.ents[p] = Turned(@)])
<1>1. d.ents[p] \in Entity
  BY DEF Snapshot
<1>2. Turned(d.ents[p]) \in Entity
  BY <1>1 DEF Entity, Geometry, Turned
<1> QED BY <1>2 DEF Snapshot

LEMMA AppliedIsSnapshot ==
  ASSUME NEW d, Snapshot(d), NEW a, Action(a), NEW p \in Pid, a.verb # "create" => p \in DOMAIN d.ents
  PROVE  Snapshot(Applied(a, d, p))
<1>1. CASE a.verb = "create"
  <2>1. [type |-> a.type, layer |-> 0, geom |-> [a.geom EXCEPT !.n = 0]] \in Entity
    BY LayerAssumption DEF Action, Entity, Geometry
  <2> QED BY <1>1, <2>1, WithIsSnapshot DEF Applied
<1>2. CASE a.verb = "update"
  <2>1. d.ents[p] \in Entity
    BY <1>2 DEF Snapshot
  <2>2. Requested(a, d.ents[p]).geom \in Geometry
    BY <2>1 DEF Action, Requested, Entity, Geometry
  <2>3. [d.ents[p] EXCEPT !.geom = Requested(a, d.ents[p]).geom] \in Entity
    BY <2>1, <2>2 DEF Entity
  <2> QED BY <1>2, <2>3, WithIsSnapshot DEF Applied
<1>3. CASE a.verb \notin {"create", "update"}
  BY <1>3, WithoutIsSnapshot DEF Applied
<1> QED BY <1>1, <1>2, <1>3

LEMMA PersistedIsSnapshot ==
  ASSUME NEW d, Snapshot(d), NEW a, Action(a), NEW p \in Pid, a.verb # "create" => p \in DOMAIN d.ents,
         NEW e \in Persisted(a, d, p)
  PROVE  Snapshot(e)
<1> DEFINE exact == Applied(a, d, p)
<1>1. Snapshot(exact)
  BY AppliedIsSnapshot
<1>2. CASE e \in {exact, d}
  BY <1>1, <1>2
<1>3. CASE \E x \in DocState : e = [exact EXCEPT !.doc = x]
  BY <1>1, <1>3 DEF Snapshot
<1>4. CASE \E q \in DOMAIN exact.ents, l \in Layer : e = [exact EXCEPT !.ents[q].layer = l]
  BY <1>1, <1>4, LayerIsSnapshot
<1> QED BY <1>2, <1>3, <1>4 DEF Persisted

LEMMA InvertedIsSnapshot ==
  ASSUME NEW d, Snapshot(d), NEW cp, Checkpoint(cp)
  PROVE  Snapshot(Inverted(d, cp))
<1>1. cp.verb # "create" => cp.before.ents[cp.pid] \in Entity
  BY DEF Checkpoint, Snapshot
<1>2. CASE cp.verb = "create"
  BY <1>2, WithoutIsSnapshot DEF Inverted
<1>3. CASE cp.verb = "update"
  <2>1. cp.before.ents[cp.pid].geom \in Geometry
    BY <1>1, <1>3 DEF Entity
  <2>2. CASE cp.pid \in DOMAIN d.ents
    BY <1>3, <2>1, <2>2, GeometryIsSnapshot DEF Inverted
  <2> QED BY <1>3, <2>2 DEF Inverted
<1>4. CASE cp.verb \notin {"create", "update"}
  BY <1>1, <1>4, WithIsSnapshot DEF Inverted, Checkpoint
<1> QED BY <1>2, <1>3, <1>4

-----------------------------------------------------------------------------
(* The bridge *)

\* What a call may do to AutoCAD: nothing if it is for another runtime id (but for a
\* mutation); a checkpoint that is new is its own; one that goes has been restored or
\* finalized by its owner.
Claimed(c) == {<<cp.owner, Fp(cp.before)>> : cp \in c.cp}

Effect(req, c) ==
  /\ CadOK(c) /\ cad.rid <= c.rid
  /\ Claimed(c) \subseteq Claimed(cad) \cup (IF req.op = "mutate" THEN {<<req.owner, req.act.parent>>} ELSE {})
  /\ \A cp \in cad.cp : c.cp = {} => \/ Fp(c.drawing) = Fp(cp.before)
                                     \/ req.op = "finalize" /\ cp.owner = req.owner
  /\ req.op # "mutate" /\ req.rid # cad.rid => c = cad

LEMMA NoEffect == ASSUME CadOK(cad), NEW req PROVE Effect(req, cad)
BY DEF Effect, CadOK

LEMMA MutateEffect ==
  ASSUME CadOK(cad), NEW req, RequestOK(req), req.op = "mutate", NEW o \in Native(req)
  PROVE  /\ Effect(req, o.cad)
         /\ o.ans.outcome \in PreWrite \cup {"RECOVERY_PENDING"} => o.cad = cad
         /\ o.ans.outcome # "error"
<1> DEFINE a == req.act
           d == cad.drawing
           pids == IF a.verb = "create" THEN Pid \ cad.used ELSE a.targets
           Commit(p) == o \in Commits(a, p, req.owner)
<1>1. o \in Execute(a, req.owner)
  BY DEF Native
<1>2. Action(a)
  BY DEF RequestOK
<1>3. CASE \E x \in PreWrite \cup {"RECOVERY_PENDING", "ROLLED_BACK_VERIFIED"} : o \in Unchanged(x)
  <2>1. o.cad = cad /\ o.ans.outcome # "error"
    BY <1>3 DEF Unchanged, Outcome, PreWrite
  <2> QED BY <2>1, NoEffect
<1>4. ASSUME NEW p \in pids, Commit(p), Fp(d) = a.parent, cad.cp = {}, a.targets \subseteq DOMAIN d.ents
      PROVE  /\ Effect(req, o.cad) /\ o.ans.outcome \in {"COMMITTED_VERIFIED", "COMMIT_INTEGRITY_FAIL"}
  <2> DEFINE cp == NewCheckpoint(a, p, req.owner)
  <2>1. PICK e \in Persisted(a, d, p), x \in {"COMMITTED_VERIFIED", "COMMIT_INTEGRITY_FAIL"} :
           o.cad = Committed(e, cp) /\ o.ans.outcome = x
    BY <1>4 DEF Commits
  <2>2. p \in Pid /\ (a.verb # "create" => p \in DOMAIN d.ents)
    BY <1>2, <1>4 DEF Action
  <2>3. Snapshot(d)
    BY DEF CadOK
  <2>4. Snapshot(e)
    BY <1>2, <2>2, <2>3, PersistedIsSnapshot
  <2>5. Checkpoint(cp)
    BY <1>2, <2>2, <2>3 DEF Checkpoint, NewCheckpoint, RequestOK, Action
  <2>6. /\ DOMAIN o.cad = {"drawing", "rid", "cp", "used"} /\ o.cad.drawing = e /\ o.cad.rid = cad.rid
        /\ o.cad.used = cad.used \cup {p} /\ o.cad.cp \subseteq {cp}
    BY <1>4, <2>1 DEF CadOK, Committed, NewCheckpoint
  <2>7. CadOK(o.cad)
    BY <2>2, <2>4, <2>5, <2>6 DEF CadOK
  <2>8. Claimed(o.cad) \subseteq {<<req.owner, a.parent>>}
    BY <1>4, <2>6 DEF Claimed, NewCheckpoint
  <2> QED BY <1>4, <2>1, <2>6, <2>7, <2>8 DEF Effect, CadOK
<1>5. \/ \E x \in PreWrite \cup {"RECOVERY_PENDING", "ROLLED_BACK_VERIFIED"} : o \in Unchanged(x)
      \/ Fp(d) = a.parent /\ cad.cp = {} /\ a.targets \subseteq DOMAIN d.ents /\ \E p \in pids : Commit(p)
  BY <1>1 DEF Execute, PreWrite
<1> QED BY <1>3, <1>4, <1>5 DEF PreWrite, Unchanged, Outcome

LEMMA KeptIsIt ==
  ASSUME CadOK(cad), NEW req, Resolved(req)
  PROVE  Kept \in cad.cp /\ Checkpoint(Kept) /\ Kept.owner = req.owner /\ req.rid = cad.rid /\ cad.cp = {Kept}
<1>1. PICK cp \in cad.cp : cp.owner = req.owner
  BY DEF Resolved
<1>2. Kept \in cad.cp
  BY <1>1 DEF Kept
<1> QED BY <1>1, <1>2 DEF Resolved, CadOK

LEMMA FinalizeEffect ==
  ASSUME CadOK(cad), NEW req, RequestOK(req), req.op = "finalize", NEW o \in Native(req)
  PROVE  /\ Effect(req, o.cad) /\ o.cad.drawing = cad.drawing /\ o.ans.outcome # "error"
         /\ o.ans.outcome = "FINALIZED" => Fp(cad.drawing) = req.fp
<1>1. o \in FinalizeRecovery(req)
  BY DEF Native
<1>2. CASE o \in Unchanged("refused")
  BY <1>2, NoEffect DEF Unchanged, Outcome
<1>3. CASE Resolved(req) /\ Fp(cad.drawing) = req.fp /\ o = Outcome([cad EXCEPT !.cp = {}], "FINALIZED")
  <2>1. Kept.owner = req.owner /\ req.rid = cad.rid /\ cad.cp = {Kept}
    BY <1>3, KeptIsIt
  <2>2. o.cad = [cad EXCEPT !.cp = {}] /\ o.ans.outcome = "FINALIZED"
    BY <1>3 DEF Outcome
  <2>3. CadOK(o.cad) /\ o.cad.drawing = cad.drawing /\ o.cad.rid = cad.rid /\ o.cad.cp = {}
    BY <2>2 DEF CadOK
  <2>4. Claimed(o.cad) = {}
    BY <2>3 DEF Claimed
  <2>5. \A cp \in cad.cp : cp.owner = req.owner
    BY <2>1
  <2>6. Effect(req, o.cad)
    BY <2>1, <2>3, <2>4, <2>5 DEF Effect, CadOK
  <2> QED BY <1>3, <2>2, <2>3, <2>6
<1> QED BY <1>1, <1>2, <1>3 DEF FinalizeRecovery

LEMMA R1Effect ==
  ASSUME CadOK(cad), NEW req, RequestOK(req), req.op = "r1", NEW o \in Native(req)
  PROVE  Effect(req, o.cad) /\ o.ans.outcome # "error"
<1>1. o \in ResolveR1(req)
  BY DEF Native
<1>2. CASE o \in Unchanged("refused") \cup Unchanged("ROLLBACK_FAILED")
  BY <1>2, NoEffect DEF Unchanged, Outcome
<1> DEFINE d == Inverted(cad.drawing, Kept)
<1>3. CASE Resolved(req) /\ Fp(d) = Fp(Kept.before)
           /\ o = Outcome([cad EXCEPT !.drawing = d, !.cp = {}], "ROLLED_BACK_VERIFIED")
  <2>1. Checkpoint(Kept) /\ req.rid = cad.rid /\ cad.cp = {Kept}
    BY <1>3, KeptIsIt
  <2>2. Snapshot(d)
    BY <2>1, InvertedIsSnapshot DEF CadOK
  <2>3. o.cad = [cad EXCEPT !.drawing = d, !.cp = {}] /\ o.ans.outcome = "ROLLED_BACK_VERIFIED"
    BY <1>3 DEF Outcome
  <2>4. CadOK(o.cad) /\ o.cad.drawing = d /\ o.cad.rid = cad.rid /\ o.cad.cp = {}
    BY <2>2, <2>3 DEF CadOK
  <2>5. Claimed(o.cad) = {}
    BY <2>4 DEF Claimed
  <2> QED BY <1>3, <2>1, <2>3, <2>4, <2>5 DEF Effect, CadOK
<1>4. CASE Resolved(req) /\ o = Outcome([cad EXCEPT !.drawing = d], "ROLLBACK_FAILED")
  <2>1. Checkpoint(Kept) /\ req.rid = cad.rid /\ cad.cp = {Kept}
    BY <1>4, KeptIsIt
  <2>2. Snapshot(d)
    BY <2>1, InvertedIsSnapshot DEF CadOK
  <2>3. o.cad = [cad EXCEPT !.drawing = d] /\ o.ans.outcome = "ROLLBACK_FAILED"
    BY <1>4 DEF Outcome
  <2>4. CadOK(o.cad) /\ o.cad.rid = cad.rid /\ o.cad.cp = cad.cp
    BY <2>2, <2>3 DEF CadOK
  <2>5. Claimed(o.cad) = Claimed(cad)
    BY <2>4 DEF Claimed
  <2> QED BY <1>4, <2>1, <2>3, <2>4, <2>5 DEF Effect, CadOK
<1> QED BY <1>1, <1>2, <1>3, <1>4 DEF ResolveR1

LEMMA R2Effect ==
  ASSUME CadOK(cad), NEW req, RequestOK(req), req.op = "r2", NEW o \in Native(req)
  PROVE  /\ Effect(req, o.cad) /\ o.ans.outcome # "error"
         /\ o.ans.outcome = "ROLLED_BACK_VERIFIED" => cad.rid < o.cad.rid
<1>1. o \in ResolveR2(req)
  BY DEF Native
<1>2. CASE o \in Unchanged("refused") \cup Unchanged("ROLLBACK_FAILED")
  BY <1>2, NoEffect DEF Unchanged, Outcome
<1> DEFINE c == [cad EXCEPT !.drawing = Kept.before, !.rid = @ + 1]
<1>3. ASSUME Resolved(req), NEW cps \in {{}, cad.cp}, o.cad = [c EXCEPT !.cp = cps]
      PROVE  Effect(req, o.cad) /\ cad.rid < o.cad.rid
  <2>1. Checkpoint(Kept) /\ req.rid = cad.rid /\ cad.cp = {Kept}
    BY <1>3, KeptIsIt
  <2>2. o.cad.drawing = Kept.before /\ o.cad.rid = cad.rid + 1 /\ o.cad.cp = cps /\ o.cad.used = cad.used
        /\ DOMAIN o.cad = {"drawing", "rid", "cp", "used"}
    BY <1>3 DEF CadOK
  <2>3. CadOK(o.cad)
    BY <2>1, <2>2 DEF CadOK, Checkpoint
  <2>4. Claimed(o.cad) \subseteq Claimed(cad)
    BY <2>2 DEF Claimed
  <2> QED BY <2>1, <2>2, <2>3, <2>4 DEF Effect, CadOK
<1>4. CASE Resolved(req) /\ o \in {Outcome([c EXCEPT !.cp = {}], "ROLLED_BACK_VERIFIED"), Outcome(c, "ROLLBACK_FAILED")}
  <2>1. CASE o = Outcome([c EXCEPT !.cp = {}], "ROLLED_BACK_VERIFIED")
    <3>1. o.cad = [c EXCEPT !.cp = {}] /\ o.ans.outcome = "ROLLED_BACK_VERIFIED"
      BY <2>1 DEF Outcome
    <3> QED BY <1>3, <1>4, <3>1
  <2>2. CASE o = Outcome(c, "ROLLBACK_FAILED")
    <3>1. o.cad = c /\ o.ans.outcome = "ROLLBACK_FAILED"
      BY <2>2 DEF Outcome
    <3>2. c = [c EXCEPT !.cp = cad.cp]
      BY DEF CadOK
    <3>3. o.cad = [c EXCEPT !.cp = cad.cp]
      BY <3>1, <3>2
    <3>4. Effect(req, o.cad) /\ cad.rid < o.cad.rid
      BY <1>3, <1>4, <3>3
    <3> QED BY <3>1, <3>4
  <2> QED BY <1>4, <2>1, <2>2
<1> QED BY <1>1, <1>2, <1>4 DEF ResolveR2

LEMMA NativeEffect ==
  ASSUME CadOK(cad), NEW req, RequestOK(req), NEW o \in Native(req)
  PROVE  Effect(req, o.cad) /\ o.ans.outcome # "error"
BY MutateEffect, FinalizeEffect, R1Effect, R2Effect DEF RequestOK

LEMMA CallFacts ==
  ASSUME CadOK(cad), NEW req, RequestOK(req), NEW r \in Calls(req)
  PROVE  /\ Effect(req, r.cad) /\ r.late \subseteq late \cup {req} /\ r.loss \in {0, 1}
         /\ \/ r.ans.outcome = "error"
            \/ r.late = late /\ \E o \in Native(req) : r.cad = o.cad /\ r.ans = o.ans
<1>1. CASE \E o \in Native(req) : r = [cad |-> o.cad, ans |-> o.ans, late |-> late, loss |-> 0]
  BY <1>1, NativeEffect
<1>2. CASE \E o \in Native(req) : r = [cad |-> o.cad, ans |-> [outcome |-> "error"], late |-> late, loss |-> 1]
  BY <1>2, NativeEffect
<1>3. CASE r = [cad |-> cad, ans |-> [outcome |-> "error"], late |-> late \cup {req}, loss |-> 1]
  BY <1>3, NoEffect
<1> QED BY <1>1, <1>2, <1>3 DEF Calls

LEMMA AppendFacts ==
  ASSUME NEW events, NEW committed, NEW b \in {"no"} \cup Reasons, NEW j \in Appends(events, committed, b)
  PROVE  /\ j.journal \in {journal, journal \cup events} /\ j.fault \in {0, 1}
         /\ j.fault = 0 => j.journal = journal \cup events /\ j.blocked = b
         /\ j.fault = 1 => j.blocked \in Reasons
BY DEF Appends, Reasons

-----------------------------------------------------------------------------
(* What the executor's steps do: each ends the step, for good or not, or goes on *)

Same == Step' = Step /\ Run' = Run /\ counts' \in [Bound -> Nat]
Fails == pc' = "idle" /\ blocked' \in Reasons /\ result' \in {"committed", "rolled_back", "error"} /\ journal' = journal /\ Same
Succeeds(answer) == pc' = "idle" /\ blocked' = "no" /\ result' = answer /\ journal' = journal /\ Same
Continues(s) == pc' = s /\ UNCHANGED <<blocked, journal, result>> /\ Same
Asks(req) == RequestOK(req) /\ Effect(req, cad') /\ late' \subseteq late \cup {req}

LEMMA SpendFacts ==
  ASSUME counts \in [Bound -> Nat], NEW loss \in {0, 1}, NEW fault \in {0, 1}, Spend(loss, fault)
  PROVE  Same
<1>1. counts' = [counts EXCEPT !.losses = @ + loss, !.faults = @ + fault]
  BY DEF Spend
<1>2. \A k \in Bound : counts[k] \in Nat
  OBVIOUS
<1>3. counts["losses"] + loss \in Nat /\ counts["faults"] + fault \in Nat
  BY <1>2 DEF Bound
<1>4. DOMAIN counts' = Bound
  BY <1>1
<1>5. counts'["steps"] = counts["steps"] /\ counts'["deaths"] = counts["deaths"]
  BY <1>1 DEF Bound
<1>6. counts' \in [Bound -> Nat]
  BY <1>1, <1>3
<1> QED BY <1>5, <1>6 DEF Same, Step, Run

LEMMA EndFacts ==
  ASSUME counts \in [Bound -> Nat], NEW loss \in {0, 1}, NEW committed, NEW b \in {"no"} \cup Reasons,
         NEW answer \in {"committed", "rolled_back", "error"}, NEW j \in Appends({}, committed, b), Ends(loss, j, answer)
  PROVE  Fails \/ (b = "no" /\ Succeeds(answer))
<1>1. /\ j.journal = journal /\ j.fault \in {0, 1} /\ j.blocked \in {"no"} \cup Reasons
      /\ j.fault = 0 => j.blocked = b
      /\ j.fault = 1 => j.blocked \in Reasons
  <2>1. journal \cup {} = journal
    OBVIOUS
  <2>2. /\ j.journal \in {journal, journal \cup {}} /\ j.fault \in {0, 1}
        /\ j.fault = 0 => j.journal = journal \cup {} /\ j.blocked = b
        /\ j.fault = 1 => j.blocked \in Reasons
    BY AppendFacts
  <2> QED BY <2>1, <2>2
<1>2. Same
  BY <1>1, SpendFacts DEF Ends
<1> QED BY <1>1, <1>2 DEF Ends, Fails, Succeeds

LEMMA UncertainFacts ==
  ASSUME counts \in [Bound -> Nat], NEW loss \in {0, 1}, Uncertain(loss)
  PROVE  Fails
<1>1. PICK j \in Appends({}, TRUE, "STATE_UNCERTAIN") : Ends(loss, j, "error")
  BY DEF Uncertain
<1>2. "STATE_UNCERTAIN" \in {"no"} \cup Reasons /\ "STATE_UNCERTAIN" # "no" /\ "error" \in {"committed", "rolled_back", "error"}
  BY DEF Reasons
<1>3. Fails \/ ("STATE_UNCERTAIN" = "no" /\ Succeeds("error"))
  BY <1>1, <1>2, EndFacts
<1> QED BY <1>2, <1>3

LEMMA RollbackFailsFacts ==
  ASSUME counts \in [Bound -> Nat], NEW loss \in {0, 1}, RollbackFails(loss)
  PROVE  Fails
<1>1. PICK j \in Appends({}, TRUE, "ROLLBACK_FAILED") : Ends(loss, j, "error")
  BY DEF RollbackFails
<1>2. "ROLLBACK_FAILED" \in {"no"} \cup Reasons /\ "ROLLBACK_FAILED" # "no" /\ "error" \in {"committed", "rolled_back", "error"}
  BY DEF Reasons
<1>3. Fails \/ ("ROLLBACK_FAILED" = "no" /\ Succeeds("error"))
  BY <1>1, <1>2, EndFacts
<1> QED BY <1>2, <1>3

LEMMA GoOnFacts ==
  ASSUME counts \in [Bound -> Nat], NEW loss \in {0, 1}, NEW s, GoOn(s, loss)
  PROVE  Continues(s)
BY SpendFacts DEF GoOn, Continues

LEMMA RequestFacts ==
  ASSUME TypeOK, pc # "idle", NEW op \in {"mutate", "finalize", "r1", "r2"}, NEW rid \in Nat
  PROVE  RequestOK(Request(op, rid)) /\ Request(op, rid).op = op /\ Request(op, rid).rid = rid
BY DEF TypeOK, Request, RequestOK, Bound, Step, Run

LEMMA DispatchFacts ==
  ASSUME TypeOK, blocked = "no", Dispatch
  PROVE  /\ Asks(Request("mutate", runtime))
         /\ \/ Fails
            \/ Succeeds("error") /\ cad' = cad /\ late' = late
            \/ Continues("readback") /\ late' = late
<1> DEFINE req == Request("mutate", runtime)
<1>1. PICK r \in Calls(req) :
        /\ cad' = r.cad /\ late' = r.late
        /\ LET o == r.ans.outcome
           IN  IF Refused(o)
               THEN \E j \in Appends({}, FALSE, IF o = "STATE_DRIFT" THEN o ELSE "no") : Ends(r.loss, j, "error")
               ELSE IF o \in Receipts THEN GoOn("readback", r.loss) ELSE Uncertain(r.loss)
  BY DEF Dispatch
<1>2. RequestOK(req) /\ req.op = "mutate"
  BY RequestFacts DEF TypeOK, Dispatch
<1>3. CadOK(cad) /\ counts \in [Bound -> Nat]
  BY DEF TypeOK
<1> HIDE DEF req
<1>4. /\ Effect(req, r.cad) /\ r.late \subseteq late \cup {req} /\ r.loss \in {0, 1}
      /\ \/ r.ans.outcome = "error"
         \/ r.late = late /\ \E o \in Native(req) : r.cad = o.cad /\ r.ans = o.ans
  BY <1>2, <1>3, CallFacts
<1>5. Asks(req)
  BY <1>1, <1>2, <1>4 DEF Asks
<1>6. r.ans.outcome \in PreWrite => cad' = cad /\ late' = late
  BY <1>1, <1>2, <1>3, <1>4, MutateEffect DEF PreWrite
<1>7. CASE r.ans.outcome \in PreWrite
  <2> DEFINE b == IF r.ans.outcome = "STATE_DRIFT" THEN r.ans.outcome ELSE "no"
  <2>1. PICK j \in Appends({}, FALSE, b) : Ends(r.loss, j, "error")
    BY <1>1, <1>7 DEF Refused
  <2>2. b \in {"no"} \cup Reasons
    BY DEF Reasons
  <2>3. Fails \/ Succeeds("error")
    <3> HIDE DEF b
    <3> QED BY <1>3, <1>4, <2>1, <2>2, EndFacts
  <2> QED BY <1>5, <1>6, <1>7, <2>3 DEF req
<1>8. CASE r.ans.outcome \in Receipts
  <2>1. Continues("readback")
    BY <1>1, <1>3, <1>4, <1>8, GoOnFacts DEF Refused, PreWrite, Receipts
  <2> QED BY <1>1, <1>4, <1>5, <1>8, <2>1 DEF req, Receipts
<1>9. CASE r.ans.outcome \notin PreWrite \cup Receipts
  <2>1. Fails
    BY <1>1, <1>3, <1>4, <1>9, UncertainFacts DEF Refused
  <2> QED BY <1>5, <2>1 DEF req
<1> QED BY <1>7, <1>8, <1>9

LEMMA SnapshotsFacts ==
  ASSUME NEW rid, NEW s \in Snapshots(rid)
  PROVE  s.loss \in {0, 1} /\ (s.seen = {} \/ s.seen = {cad.drawing})
BY DEF Snapshots

LEMMA RecoverFacts ==
  ASSUME counts \in [Bound -> Nat], NEW loss \in {0, 1}, Recover(loss)
  PROVE  Fails \/ Continues("r1")
BY GoOnFacts, UncertainFacts DEF Recover

\* The step is on record, and in the chain unless the journal has failed.
Recorded == /\ after' = cad.drawing /\ Accepted(cad.drawing) /\ Same
            /\ \/ /\ entries' = Append(entries, Event.entry) /\ journal' = journal \cup {Event} /\ blocked' = "no"
                  /\ (pc' = "finalize" /\ result' = result) \/ (pc' = "idle" /\ result' = "committed")
               \/ /\ entries' = entries /\ journal' \in {journal, journal \cup {Event}} /\ blocked' \in Reasons
                  /\ pc' = "idle" /\ result' = "error"

LEMMA ReadBackFacts ==
  ASSUME TypeOK, blocked = "no", ReadBack
  PROVE  \/ Fails /\ UNCHANGED entries
         \/ Continues("r1") /\ UNCHANGED entries
         \/ Succeeds("rolled_back") /\ Fp(cad.drawing) = act.parent /\ UNCHANGED entries
         \/ Recorded /\ edited' = FALSE
<1>1. PICK s \in Snapshots(runtime) : ReadBackFails(s) \/ ReadBackRolledBack(s) \/ ReadBackCommitted(s)
  BY DEF ReadBack
<1>2. s.loss \in {0, 1} /\ counts \in [Bound -> Nat]
  BY SnapshotsFacts DEF TypeOK
<1>3. CASE ReadBackFails(s)
  BY <1>2, <1>3, UncertainFacts, RecoverFacts DEF ReadBackFails
<1>4. CASE ReadBackRolledBack(s)
  <2>1. CASE Fp(cad.drawing) = act.parent
    <3>1. PICK j \in Appends({}, FALSE, "no") : Ends(s.loss, j, "rolled_back")
      BY <1>4, <2>1 DEF ReadBackRolledBack
    <3>2. Fails \/ Succeeds("rolled_back")
      BY <1>2, <3>1, EndFacts
    <3> QED BY <1>4, <2>1, <3>2 DEF ReadBackRolledBack
  <2>2. CASE Fp(cad.drawing) # act.parent
    BY <1>2, <1>4, <2>2, UncertainFacts DEF ReadBackRolledBack
  <2> QED BY <2>1, <2>2
<1>5. CASE ReadBackCommitted(s)
  <2>1. CASE ~Accepted(cad.drawing)
    BY <1>2, <1>5, <2>1, RecoverFacts DEF ReadBackCommitted
  <2>2. CASE Accepted(cad.drawing)
    <3>1. PICK j \in Appends({Event}, TRUE, "no") :
            /\ entries' = IF j.fault = 0 THEN Append(entries, Event.entry) ELSE entries
            /\ IF j.fault = 0 /\ receipt.cp
               THEN pc' = "finalize" /\ Spend(s.loss, 0) /\ journal' = j.journal /\ UNCHANGED <<blocked, result>>
               ELSE Ends(s.loss, j, "committed")
      BY <1>5, <2>2 DEF ReadBackCommitted
    <3>2. /\ j.journal \in {journal, journal \cup {Event}} /\ j.fault \in {0, 1}
          /\ j.fault = 0 => j.journal = journal \cup {Event} /\ j.blocked = "no"
          /\ j.fault = 1 => j.blocked \in Reasons
      BY AppendFacts
    <3>3. Same
      BY <1>2, <3>1, <3>2, SpendFacts DEF Ends
    <3>4. after' = cad.drawing /\ edited' = FALSE
      BY <1>5 DEF ReadBackCommitted
    <3> QED BY <2>2, <3>1, <3>2, <3>3, <3>4 DEF Ends, Recorded
  <2> QED BY <2>1, <2>2
<1> QED BY <1>1, <1>3, <1>4, <1>5

LEMMA FinalizeFacts ==
  ASSUME TypeOK, blocked = "no", Finalize
  PROVE  /\ Asks(Request("finalize", runtime))
         /\ \/ Fails
            \/ Succeeds("committed") /\ late' = late /\ cad'.drawing = cad.drawing /\ Fp(cad.drawing) = Fp(after)
<1> DEFINE req == Request("finalize", runtime)
<1>1. PICK r \in Calls(req) :
        /\ cad' = r.cad /\ late' = r.late
        /\ IF r.ans.outcome = "FINALIZED"
           THEN Ends(r.loss, [journal |-> journal, blocked |-> "no", fault |-> 0], "committed")
           ELSE \E j \in Appends({}, TRUE, "RECOVERY_PENDING") : Ends(r.loss, j, "error")
  BY DEF Finalize
<1>2. RequestOK(req) /\ req.op = "finalize" /\ req.fp = Fp(after)
  BY RequestFacts DEF TypeOK, Finalize, Request
<1>3. CadOK(cad) /\ counts \in [Bound -> Nat]
  BY DEF TypeOK
<1> HIDE DEF req
<1>4. /\ Effect(req, r.cad) /\ r.late \subseteq late \cup {req} /\ r.loss \in {0, 1}
      /\ \/ r.ans.outcome = "error"
         \/ r.late = late /\ \E o \in Native(req) : r.cad = o.cad /\ r.ans = o.ans
  BY <1>2, <1>3, CallFacts
<1>5. Asks(req)
  BY <1>1, <1>2, <1>4 DEF Asks
<1>6. CASE r.ans.outcome = "FINALIZED"
  <2>1. late' = late /\ cad'.drawing = cad.drawing /\ Fp(cad.drawing) = Fp(after)
    BY <1>1, <1>2, <1>3, <1>4, <1>6, FinalizeEffect
  <2>2. Succeeds("committed")
    BY <1>1, <1>3, <1>4, <1>6, SpendFacts DEF Ends, Succeeds
  <2> QED BY <1>5, <2>1, <2>2 DEF req
<1>7. CASE r.ans.outcome # "FINALIZED"
  <2>1. Fails
    <3>1. PICK j \in Appends({}, TRUE, "RECOVERY_PENDING") : Ends(r.loss, j, "error")
      BY <1>1, <1>7
    <3>2. /\ "RECOVERY_PENDING" \in {"no"} \cup Reasons /\ "RECOVERY_PENDING" # "no"
          /\ "error" \in {"committed", "rolled_back", "error"}
      BY DEF Reasons
    <3>3. Fails \/ ("RECOVERY_PENDING" = "no" /\ Succeeds("error"))
      BY <1>3, <1>4, <3>1, <3>2, EndFacts
    <3> QED BY <3>2, <3>3
  <2> QED BY <1>5, <2>1 DEF req
<1> QED BY <1>6, <1>7

LEMMA R1Facts ==
  ASSUME TypeOK, blocked = "no", ResolveWithR1
  PROVE  /\ Asks(Request("r1", runtime))
         /\ (Continues("r1read") /\ late' = late) \/ Continues("r2")
<1> DEFINE req == Request("r1", runtime)
<1>1. PICK r \in Calls(req) :
        /\ cad' = r.cad /\ late' = r.late
        /\ GoOn(IF r.ans.outcome = "ROLLED_BACK_VERIFIED" THEN "r1read" ELSE "r2", r.loss)
  BY DEF ResolveWithR1
<1>2. RequestOK(req) /\ req.op = "r1"
  BY RequestFacts DEF TypeOK, ResolveWithR1
<1>3. CadOK(cad) /\ counts \in [Bound -> Nat]
  BY DEF TypeOK
<1> HIDE DEF req
<1>4. /\ Effect(req, r.cad) /\ r.late \subseteq late \cup {req} /\ r.loss \in {0, 1}
      /\ r.ans.outcome = "error" \/ r.late = late
  BY <1>2, <1>3, CallFacts
<1>5. Asks(req)
  BY <1>1, <1>2, <1>4 DEF Asks
<1>6. Continues(IF r.ans.outcome = "ROLLED_BACK_VERIFIED" THEN "r1read" ELSE "r2")
  BY <1>1, <1>3, <1>4, GoOnFacts
<1> QED BY <1>1, <1>4, <1>5, <1>6 DEF req

LEMMA R2Facts ==
  ASSUME TypeOK, blocked = "no", runtime <= cad.rid, ResolveWithR2
  PROVE  \E rid \in Nat :
            /\ rid <= cad.rid /\ Asks(Request("r2", rid)) /\ runtime' \in Nat
            /\ \/ Fails /\ runtime' = rid
               \/ Continues("r2read") /\ late' = late /\ runtime' = cad'.rid /\ cad.rid < cad'.rid
<1>0. PICK rid \in {runtime, cad.rid} : \E r \in Calls(Request("r2", rid)) :
        /\ cad' = r.cad /\ late' = r.late
        /\ IF r.ans.outcome = "ROLLED_BACK_VERIFIED"
           THEN GoOn("r2read", r.loss) /\ runtime' = r.cad.rid
           ELSE RollbackFails(r.loss) /\ runtime' = rid
  BY DEF ResolveWithR2
<1>1. PICK r \in Calls(Request("r2", rid)) :
        /\ cad' = r.cad /\ late' = r.late
        /\ IF r.ans.outcome = "ROLLED_BACK_VERIFIED"
           THEN GoOn("r2read", r.loss) /\ runtime' = r.cad.rid
           ELSE RollbackFails(r.loss) /\ runtime' = rid
  BY <1>0
<1> DEFINE req == Request("r2", rid)
<1>2. rid \in Nat /\ rid <= cad.rid
  BY DEF TypeOK, CadOK
<1>3. RequestOK(req) /\ req.op = "r2"
  BY <1>2, RequestFacts DEF TypeOK, ResolveWithR2
<1>4. CadOK(cad) /\ counts \in [Bound -> Nat]
  BY DEF TypeOK
<1>5. r \in Calls(req)
  OBVIOUS
<1> HIDE DEF req
<1>6. /\ Effect(req, r.cad) /\ r.late \subseteq late \cup {req} /\ r.loss \in {0, 1}
      /\ \/ r.ans.outcome = "error"
         \/ r.late = late /\ \E o \in Native(req) : r.cad = o.cad /\ r.ans = o.ans
  BY <1>3, <1>4, <1>5, CallFacts
<1>7. Asks(req) /\ cad'.rid \in Nat
  BY <1>1, <1>3, <1>6 DEF Asks, Effect, CadOK
<1>8. CASE r.ans.outcome = "ROLLED_BACK_VERIFIED"
  <2>1. late' = late /\ cad.rid < cad'.rid
    BY <1>1, <1>3, <1>4, <1>6, <1>8, R2Effect
  <2>2. Continues("r2read") /\ runtime' = cad'.rid
    BY <1>1, <1>4, <1>6, <1>8, GoOnFacts
  <2> QED BY <1>2, <1>7, <2>1, <2>2 DEF req
<1>9. CASE r.ans.outcome # "ROLLED_BACK_VERIFIED"
  <2>1. Fails /\ runtime' = rid
    BY <1>1, <1>4, <1>6, <1>9, RollbackFailsFacts
  <2> QED BY <1>2, <1>7, <2>1 DEF req
<1> QED BY <1>8, <1>9

LEMMA CheckRestoredFacts ==
  ASSUME TypeOK, blocked = "no", NEW s \in Snapshots(runtime), NEW next, CheckRestored(s, next)
  PROVE  /\ edited' \in BOOLEAN
         /\ \/ Fails
            \/ Succeeds("rolled_back") /\ Fp(cad.drawing) = Fp(before)
            \/ next = "r2" /\ Continues("r2")
<1>1. s.loss \in {0, 1} /\ counts \in [Bound -> Nat]
  BY SnapshotsFacts DEF TypeOK
<1>2. edited' \in BOOLEAN
  BY DEF CheckRestored, TypeOK
<1>3. CASE s.seen # {} /\ Restored(cad.drawing)
  <2>1. PICK j \in Appends({}, TRUE, "no") : Ends(s.loss, j, "rolled_back")
    BY <1>3 DEF CheckRestored
  <2>2. Fails \/ Succeeds("rolled_back")
    BY <1>1, <2>1, EndFacts
  <2> QED BY <1>2, <1>3, <2>2 DEF Restored
<1>4. CASE ~(s.seen # {} /\ Restored(cad.drawing))
  BY <1>1, <1>2, <1>4, GoOnFacts, RollbackFailsFacts DEF CheckRestored
<1> QED BY <1>3, <1>4

LEMMA UserFacts ==
  ASSUME CadOK(cad), UserEdits
  PROVE  /\ CadOK(cad') /\ cad.rid <= cad'.rid /\ Claimed(cad') \subseteq Claimed(cad) /\ (cad'.cp = {} => cad.cp = {})
         /\ edited' = (edited \/ Fp(cad'.drawing) # Fp(cad.drawing))
<1> DEFINE d == cad.drawing
           lines == {q \in DOMAIN d.ents : d.ents[q].type = "LINE"}
<1>1. CASE \E x \in DocState \ {d.doc} : cad' = [cad EXCEPT !.drawing.doc = x]
  <2>1. PICK x \in DocState : cad' = [cad EXCEPT !.drawing.doc = x]
    BY <1>1
  <2>2. Snapshot([d EXCEPT !.doc = x])
    BY DEF Snapshot, CadOK
  <2>3. /\ DOMAIN cad' = {"drawing", "rid", "cp", "used"} /\ cad'.drawing = [d EXCEPT !.doc = x]
        /\ cad'.rid = cad.rid /\ cad'.cp = cad.cp /\ cad'.used = cad.used
    BY <2>1 DEF CadOK
  <2> QED BY <2>2, <2>3 DEF CadOK, Claimed, UserEdits
<1>2. CASE \E p \in lines : cad' = [cad EXCEPT !.drawing.ents[p] = Turned(@)]
  <2>1. PICK p \in lines : cad' = [cad EXCEPT !.drawing.ents[p] = Turned(@)]
    BY <1>2
  <2>2. Snapshot([d EXCEPT !.ents[p] = Turned(@)])
    BY TurnedIsSnapshot DEF CadOK
  <2>3. /\ DOMAIN cad' = {"drawing", "rid", "cp", "used"} /\ cad'.drawing = [d EXCEPT !.ents[p] = Turned(@)]
        /\ cad'.rid = cad.rid /\ cad'.cp = cad.cp /\ cad'.used = cad.used
    BY <2>1 DEF CadOK
  <2> QED BY <2>2, <2>3 DEF CadOK, Claimed, UserEdits
<1>3. CASE cad' = [cad EXCEPT !.rid = @ + 1, !.cp = {[cp EXCEPT !.context = FALSE] : cp \in cad.cp}]
  <2> DEFINE Stale(cp) == [cp EXCEPT !.context = FALSE]
  <2>1. ASSUME NEW cp \in cad.cp
        PROVE  Checkpoint(Stale(cp)) /\ Stale(cp).owner = cp.owner /\ Stale(cp).before = cp.before
    BY DEF CadOK, Checkpoint
  <2>2. cad' = [cad EXCEPT !.rid = @ + 1, !.cp = {Stale(cp) : cp \in cad.cp}]
    BY <1>3
  <2> HIDE DEF Stale
  <2>3. /\ DOMAIN cad' = {"drawing", "rid", "cp", "used"} /\ cad'.drawing = d
        /\ cad'.rid = cad.rid + 1 /\ cad'.cp = {Stale(cp) : cp \in cad.cp} /\ cad'.used = cad.used
    BY <2>2 DEF CadOK
  <2>4. CadOK(cad')
    BY <2>1, <2>3 DEF CadOK
  <2>5. Claimed(cad') \subseteq Claimed(cad)
    BY <2>1, <2>3 DEF Claimed
  <2> QED BY <2>3, <2>4, <2>5 DEF CadOK, UserEdits
<1> QED BY <1>1, <1>2, <1>3 DEF UserEdits

LEMMA CountFacts ==
  ASSUME counts \in [Bound -> Nat], NEW k \in Bound, counts' = [counts EXCEPT ![k] = @ + 1]
  PROVE  /\ counts' \in [Bound -> Nat] /\ Step \in Nat /\ Run \in Nat
         /\ Step' = Step + (IF k = "steps" THEN 1 ELSE 0) /\ Run' = Run + (IF k = "deaths" THEN 1 ELSE 0)
BY DEF Bound, Step, Run

\* A call that was given up belongs to the process that lives, or it has none of its own.
LEMMA LateFacts ==
  ASSUME TypeOK, NEW req \in late, RunLate(req)
  PROVE  /\ Effect(req, cad') /\ CadOK(cad') /\ cad.rid <= cad'.rid /\ late' \subseteq late
         /\ edited' = (edited \/ (req.run # Run /\ cad' # cad))
         /\ UNCHANGED <<execVars, journal, result, counts>>
<1>1. PICK o \in Native(req) : cad' = o.cad
  BY DEF RunLate
<1>2. Effect(req, cad')
  BY <1>1, NativeEffect DEF TypeOK
<1> QED BY <1>2 DEF RunLate, Effect

\* The eleven kinds of steps.
LEMMA NextCases ==
  ASSUME [Next]_vars
  PROVE  /\ UNCHANGED scenario
         /\ \/ Dispatch \/ ReadBack \/ Finalize \/ ResolveWithR1 \/ ReadR1 \/ ResolveWithR2 \/ ReadR2
            \/ UserEdits \/ (\E req \in late : RunLate(req)) \/ Die \/ UNCHANGED vars
            \/ \E a \in scenario.plans, parent \in {Fp(cad.drawing)} \cup {entries[i].postState : i \in DOMAIN entries} :
                  Begin(a, parent)
BY DEF Next, Executor, Others, Caller, vars

LEMMA BeginFacts ==
  ASSUME TypeOK, NEW a \in scenario.plans, NEW parent, Begin(a, parent)
  PROVE  /\ Action(act') /\ OneTarget(act') /\ act'.parent = parent
         /\ counts' \in [Bound -> Nat] /\ Step' = Step + 1 /\ Run' = Run /\ Step \in Nat
<1>1. Action(a) /\ OneTarget(a)
  BY ExecutorAssumption DEF TypeOK
<1>2. Action(act') /\ OneTarget(act') /\ act'.parent = parent
  BY <1>1 DEF Begin, Action, OneTarget
<1>3. counts' = [counts EXCEPT !["steps"] = @ + 1] /\ "steps" \in Bound
  BY DEF Begin, Bound
<1>4. /\ counts' \in [Bound -> Nat] /\ Step \in Nat /\ Run \in Nat
      /\ Step' = Step + (IF "steps" = "steps" THEN 1 ELSE 0) /\ Run' = Run + (IF "steps" = "deaths" THEN 1 ELSE 0)
  BY <1>3, CountFacts DEF TypeOK
<1> QED BY <1>2, <1>4

LEMMA EventFacts ==
  ASSUME counts \in [Bound -> Nat]
  PROVE  /\ Event.run = Run /\ Event.step = Step /\ Run \in Nat /\ Step \in Nat
         /\ Event.entry = BuildStateChainEntry(entries, act, before, cad.drawing)
BY DEF Event, Run, Step, Bound

-----------------------------------------------------------------------------
(* Types *)

LEMMA StepType ==
  ASSUME TypeOK, pc # "idle", UNCHANGED <<scenario, act, before>>, edited' \in BOOLEAN, runtime' \in Nat,
         CadOK(cad'), \A r \in late' : RequestOK(r),
         \/ Fails
         \/ \E x \in {"committed", "rolled_back", "error"} : Succeeds(x)
         \/ \E s \in {"readback", "r1", "r1read", "r2", "r2read"} : Continues(s)
  PROVE  TypeOK'
<1>1. CASE Fails
  BY <1>1 DEF TypeOK, Fails, Same, Reasons
<1>2. CASE \E x \in {"committed", "rolled_back", "error"} : Succeeds(x)
  BY <1>2 DEF TypeOK, Succeeds, Same, Reasons
<1>3. CASE \E s \in {"readback", "r1", "r1read", "r2", "r2read"} : Continues(s)
  BY <1>3 DEF TypeOK, Continues, Same, Reasons
<1> QED BY <1>1, <1>2, <1>3

LEMMA TypeStep ==
  ASSUME TypeOK, KnowledgeInv, LateInv, [Next]_vars
  PROVE  TypeOK'
<1>1. pc # "idle" => blocked = "no"
  BY DEF KnowledgeInv
<1>2. runtime <= cad.rid
  BY DEF LateInv
<1>3. CadOK(cad) /\ (\A r \in late : RequestOK(r)) /\ edited \in BOOLEAN /\ runtime \in Nat /\ counts \in [Bound -> Nat]
  BY DEF TypeOK
<1>4. UNCHANGED scenario
  BY NextCases
<1>5. ASSUME NEW req, Asks(req) PROVE CadOK(cad') /\ \A r \in late' : RequestOK(r)
  BY <1>3, <1>5 DEF Asks, Effect
<1>6. CASE Dispatch
  <2>1. pc # "idle" /\ blocked = "no" /\ UNCHANGED <<act, before, runtime, edited>>
    BY <1>1, <1>6 DEF Dispatch
  <2> QED BY <1>3, <1>4, <1>5, <1>6, <2>1, DispatchFacts, StepType
<1>7. CASE ReadBack
  <2>1. pc # "idle" /\ blocked = "no" /\ UNCHANGED <<cad, late, act, before, runtime>>
    BY <1>1, <1>7 DEF ReadBack
  <2>2. edited' \in BOOLEAN
    BY <1>3, <1>7 DEF ReadBack, ReadBackFails, ReadBackRolledBack, ReadBackCommitted
  <2>3. CASE Recorded
    <3>1. /\ IsFiniteSet(journal') /\ \A e \in journal' : e.run \in Nat /\ e.step \in Nat
      BY <1>3, <2>3, EventFacts, FS_AddElement DEF Recorded, TypeOK
    <3> QED BY <1>4, <2>1, <2>2, <2>3, <3>1 DEF TypeOK, Recorded, Same, Reasons
  <2> QED BY <1>3, <1>4, <1>7, <2>1, <2>2, <2>3, ReadBackFacts, StepType
<1>8. CASE Finalize
  <2>1. pc # "idle" /\ blocked = "no" /\ UNCHANGED <<act, before, runtime, edited>>
    BY <1>1, <1>8 DEF Finalize
  <2> QED BY <1>3, <1>4, <1>5, <1>8, <2>1, FinalizeFacts, StepType
<1>9. CASE ResolveWithR1
  <2>1. pc # "idle" /\ blocked = "no" /\ UNCHANGED <<act, before, runtime, edited>>
    BY <1>1, <1>9 DEF ResolveWithR1
  <2> QED BY <1>3, <1>4, <1>5, <1>9, <2>1, R1Facts, StepType
<1>10. CASE ReadR1 \/ ReadR2
  <2>1. pc # "idle" /\ blocked = "no" /\ UNCHANGED <<cad, late, act, before, runtime>>
    BY <1>1, <1>10 DEF ReadR1, ReadR2
  <2>2. PICK s \in Snapshots(runtime), next \in {"r2", "end"} : CheckRestored(s, next)
    BY <1>10 DEF ReadR1, ReadR2
  <2>3. edited' \in BOOLEAN /\ (Fails \/ Succeeds("rolled_back") \/ Continues("r2"))
    BY <2>1, <2>2, CheckRestoredFacts
  <2> QED BY <1>3, <1>4, <2>1, <2>3, StepType
<1>11. CASE ResolveWithR2
  <2>1. pc # "idle" /\ blocked = "no" /\ UNCHANGED <<act, before, edited>>
    BY <1>1, <1>11 DEF ResolveWithR2
  <2>2. PICK rid \in Nat : /\ Asks(Request("r2", rid)) /\ runtime' \in Nat
                           /\ Fails \/ Continues("r2read")
    BY <1>2, <1>11, <2>1, R2Facts
  <2> QED BY <1>3, <1>4, <1>5, <2>1, <2>2, StepType
<1>12. CASE UserEdits
  <2>1. counts' = [counts EXCEPT !["edits"] = @ + 1] /\ "edits" \in Bound
    BY <1>12 DEF UserEdits, Bound
  <2>2. counts' \in [Bound -> Nat]
    BY <1>3, <2>1, CountFacts
  <2>3. CadOK(cad') /\ edited' \in BOOLEAN
    BY <1>3, <1>12, UserFacts
  <2> QED BY <1>4, <1>12, <2>2, <2>3 DEF TypeOK, UserEdits, execVars
<1>13. CASE \E req \in late : RunLate(req)
  <2>1. PICK req \in late : RunLate(req)
    BY <1>13
  <2>2. CadOK(cad') /\ late' \subseteq late /\ edited' \in BOOLEAN /\ UNCHANGED <<execVars, journal, result, counts>>
    BY <1>3, <2>1, LateFacts
  <2> QED BY <1>4, <2>2 DEF TypeOK, execVars
<1>14. CASE Die
  <2>1. counts' = [counts EXCEPT !["deaths"] = @ + 1] /\ "deaths" \in Bound
    BY <1>14 DEF Die, Bound
  <2>2. counts' \in [Bound -> Nat]
    BY <1>3, <2>1, CountFacts
  <2> QED BY <1>4, <1>14, <2>2 DEF TypeOK, Die
<1>15. ASSUME NEW a \in scenario.plans, NEW parent, Begin(a, parent) PROVE TypeOK'
  <2>1. Action(act') /\ OneTarget(act') /\ counts' \in [Bound -> Nat]
    BY <1>15, BeginFacts
  <2>2. /\ cad' = cad /\ late' = late /\ journal' = journal /\ runtime' = cad.rid /\ before' = cad.drawing /\ edited' = FALSE
        /\ \/ pc' = "dispatch" /\ UNCHANGED <<blocked, result>>
           \/ blocked' = "STATE_DRIFT" /\ result' = "error" /\ UNCHANGED pc
    BY <1>15 DEF Begin
  <2>3. Snapshot(before') /\ runtime' \in Nat
    BY <1>3, <2>2 DEF CadOK
  <2> QED BY <1>4, <2>1, <2>2, <2>3 DEF TypeOK, Reasons
<1>16. CASE UNCHANGED vars
  BY <1>16 DEF vars, execVars, TypeOK
<1> QED BY <1>6, <1>7, <1>8, <1>9, <1>10, <1>11, <1>12, <1>13, <1>14, <1>15, <1>16, NextCases

-----------------------------------------------------------------------------
(* The chain and the journal *)

\* Only a read-back extends chain and journal; a new process starts with an empty chain.
LEMMA HistoryCases ==
  ASSUME TypeOK, KnowledgeInv, LateInv, [Next]_vars
  PROVE  \/ UNCHANGED <<entries, journal>> /\ Run' = Run /\ (blocked = "no" \/ blocked' = blocked)
         \/ pc # "idle" /\ blocked = "no" /\ Recorded
         \/ entries' = <<>> /\ journal' = journal /\ Run' = Run + 1 /\ blocked' = "no"
<1> DEFINE Quiet == UNCHANGED <<entries, journal>> /\ Run' = Run /\ (blocked = "no" \/ blocked' = blocked)
<1>1. pc # "idle" => blocked = "no"
  BY DEF KnowledgeInv
<1>2. runtime <= cad.rid
  BY DEF LateInv
<1>3. CASE Dispatch
  <2>1. pc # "idle" /\ UNCHANGED entries
    BY <1>3 DEF Dispatch
  <2> QED BY <1>1, <1>3, <2>1, DispatchFacts DEF Fails, Succeeds, Continues, Same
<1>4. CASE ReadBack
  <2>1. pc # "idle"
    BY <1>4 DEF ReadBack
  <2> QED BY <1>1, <1>4, <2>1, ReadBackFacts DEF Fails, Succeeds, Continues, Same
<1>5. CASE Finalize
  <2>1. pc # "idle" /\ UNCHANGED entries
    BY <1>5 DEF Finalize
  <2> QED BY <1>1, <1>5, <2>1, FinalizeFacts DEF Fails, Succeeds, Same
<1>6. CASE ResolveWithR1
  <2>1. pc # "idle" /\ UNCHANGED entries
    BY <1>6 DEF ResolveWithR1
  <2> QED BY <1>1, <1>6, <2>1, R1Facts DEF Continues, Same
<1>7. CASE ReadR1 \/ ReadR2
  <2>1. pc # "idle" /\ UNCHANGED entries
    BY <1>7 DEF ReadR1, ReadR2
  <2>2. PICK s \in Snapshots(runtime), next \in {"r2", "end"} : CheckRestored(s, next)
    BY <1>7 DEF ReadR1, ReadR2
  <2>3. Fails \/ Succeeds("rolled_back") \/ Continues("r2")
    BY <1>1, <2>1, <2>2, CheckRestoredFacts
  <2> QED BY <1>1, <2>1, <2>3 DEF Fails, Succeeds, Continues, Same
<1>8. CASE ResolveWithR2
  <2>1. pc # "idle" /\ UNCHANGED entries
    BY <1>8 DEF ResolveWithR2
  <2>2. Fails \/ Continues("r2read")
    BY <1>1, <1>2, <1>8, <2>1, R2Facts
  <2> QED BY <1>1, <2>1, <2>2 DEF Fails, Continues, Same
<1>9. CASE UserEdits
  <2>1. counts' = [counts EXCEPT !["edits"] = @ + 1] /\ "edits" \in Bound /\ UNCHANGED <<entries, journal, blocked>>
    BY <1>9 DEF UserEdits, Bound, execVars
  <2>2. Run' = Run + (IF "edits" = "deaths" THEN 1 ELSE 0) /\ Run \in Nat
    BY <2>1, CountFacts DEF TypeOK
  <2> QED BY <2>1, <2>2
<1>10. CASE \E req \in late : RunLate(req)
  BY <1>10 DEF RunLate, execVars, Run
<1>11. CASE Die
  <2>1. counts' = [counts EXCEPT !["deaths"] = @ + 1] /\ "deaths" \in Bound
    BY <1>11 DEF Die, Bound
  <2>2. Run' = Run + (IF "deaths" = "deaths" THEN 1 ELSE 0)
    BY <2>1, CountFacts DEF TypeOK
  <2> QED BY <1>11, <2>2 DEF Die
<1>12. ASSUME NEW a \in scenario.plans, NEW parent, Begin(a, parent) PROVE Quiet
  BY <1>12, BeginFacts DEF Begin
<1>13. CASE UNCHANGED vars
  BY <1>13 DEF vars, execVars, Run
<1> QED BY <1>3, <1>4, <1>5, <1>6, <1>7, <1>8, <1>9, <1>10, <1>11, <1>12, <1>13, NextCases

LEMMA SeqMonotone ==
  ASSUME NEW S, NEW T, S \subseteq T, NEW s \in Seq(S)
  PROVE  s \in Seq(T)
<1>1. Len(s) \in Nat /\ s \in [1..Len(s) -> S]
  OBVIOUS
<1>2. s \in [1..Len(s) -> T]
  BY <1>1
<1> QED BY <1>1, <1>2

\* A verified chain is extended by an entry that was accepted.
LEMMA ChainGrows ==
  ASSUME TypeOK, ChainInv, pc # "idle", act.parent = Fp(before), Accepted(cad.drawing),
         entries' = Append(entries, Event.entry), journal' = journal \cup {Event}
  PROVE  ChainInv'
<1> DEFINE e == Event.entry
           all == {x.entry : x \in journal'}
           True(x) == /\ Snapshot(x.before) /\ Snapshot(x.after)
                      /\ Performed(x.action, x.before, x.after) /\ NothingDrawnTwice(x.before, x.after)
                      /\ x.action.parent = Fp(x.before) /\ x.parentState = Fp(x.before) /\ x.postState = Fp(x.after)
<1>1. e = BuildStateChainEntry(entries, act, before, cad.drawing)
  BY EventFacts DEF TypeOK
<1>2. /\ e.action = act /\ e.before = before /\ e.after = cad.drawing
      /\ e.parentState = Fp(before) /\ e.postState = Fp(cad.drawing)
  BY <1>1 DEF BuildStateChainEntry
<1>3. Context(act, before, cad.drawing)
  BY DEF TypeOK, CadOK, Accepted, Context
<1>4. True(e)
  BY <1>2, <1>3, AcceptedIsPerformed, AcceptedDrawsNothingTwice DEF Context
<1>5. entries \in Seq(all) /\ e \in all
  BY SeqMonotone DEF ChainInv
<1>6. \A i \in DOMAIN entries : True(entries[i])
  BY DEF ChainInv
<1> HIDE DEF e, all, True
<1>7. entries' \in Seq(all) /\ \A i \in DOMAIN entries' :
        (i \in DOMAIN entries /\ entries'[i] = entries[i]) \/ entries'[i] = e
  BY <1>5 DEF e
<1>8. \A i \in DOMAIN entries' : True(entries'[i])
  BY <1>4, <1>6, <1>7
<1>9. VerifyStateChain(entries')
  BY <1>1 DEF Accepted, e
<1> QED BY <1>7, <1>8, <1>9 DEF ChainInv, all, True

LEMMA ChainStep ==
  ASSUME TypeOK, ChainInv, KnowledgeInv, LateInv, [Next]_vars
  PROVE  ChainInv'
<1>1. CASE UNCHANGED <<entries, journal>>
  BY <1>1 DEF ChainInv
<1>2. CASE pc # "idle" /\ Recorded
  <2>1. CASE entries' = Append(entries, Event.entry) /\ journal' = journal \cup {Event}
    BY <1>2, <2>1, ChainGrows DEF Recorded, KnowledgeInv
  <2>2. CASE entries' = entries /\ journal \subseteq journal'
    <3>1. {e.entry : e \in journal} \subseteq {e.entry : e \in journal'}
      BY <2>2
    <3>2. entries \in Seq({e.entry : e \in journal'})
      BY <3>1, SeqMonotone DEF ChainInv
    <3> QED BY <2>2, <3>2 DEF ChainInv
  <2> QED BY <1>2, <2>1, <2>2 DEF Recorded
<1>3. CASE entries' = <<>>
  <2>1. DOMAIN entries' = {} /\ Len(entries') = 0 /\ entries' \in Seq({e.entry : e \in journal'})
    BY <1>3
  <2> QED BY <2>1 DEF ChainInv, VerifyStateChain
<1> QED BY <1>1, <1>2, <1>3, HistoryCases

\* What this process has written: every entry of the chain, and one more at most.
Here == {e \in journal : e.run = Run}
JournalInv ==
  /\ \A i \in DOMAIN entries : \E e \in Here : e.entry = entries[i]
  /\ Cardinality(Here) <= Len(entries) + (IF blocked = "no" THEN 0 ELSE 1)
  /\ \A e \in journal : e.run <= Run

LEMMA JournalStep ==
  ASSUME TypeOK, ChainInv, JournalInv, KnowledgeInv, LateInv, [Next]_vars
  PROVE  JournalInv'
<1>1. Len(entries) \in Nat /\ DOMAIN entries = 1..Len(entries)
  BY DEF ChainInv
<1>2. IsFiniteSet(Here) /\ Cardinality(Here) \in Nat
  BY FS_Subset, FS_CardinalityType DEF Here, TypeOK
<1>3. CASE UNCHANGED <<entries, journal>> /\ Run' = Run /\ (blocked = "no" \/ blocked' = blocked)
  <2>1. Here' = Here
    BY <1>3 DEF Here
  <2> QED BY <1>1, <1>2, <1>3, <2>1 DEF JournalInv
<1>4. CASE blocked = "no" /\ Recorded
  <2>1. Run' = Run /\ Event.run = Run /\ Run \in Nat
    BY <1>4, EventFacts DEF Recorded, Same, TypeOK
  <2>2. Here' = IF journal' = journal THEN Here ELSE Here \cup {Event}
    BY <1>4, <2>1 DEF Recorded, Here
  <2>3. Cardinality(Here \cup {Event}) <= Cardinality(Here) + 1 /\ Cardinality(Here \cup {Event}) \in Nat
    BY <1>2, FS_AddElement
  <2>4. \A e \in journal' : e.run <= Run'
    BY <1>4, <2>1 DEF Recorded, JournalInv
  <2>5. CASE entries' = Append(entries, Event.entry) /\ journal' = journal \cup {Event}
    <3>1. Len(entries') = Len(entries) + 1 /\ DOMAIN entries' = 1..(Len(entries) + 1)
          /\ entries'[Len(entries) + 1] = Event.entry /\ \A i \in DOMAIN entries : entries'[i] = entries[i]
      BY <1>1, <2>5 DEF ChainInv
    <3>2. Here' = Here \cup {Event}
      BY <2>1, <2>5 DEF Here
    <3>3. \A i \in DOMAIN entries' : \E e \in Here' : e.entry = entries'[i]
      BY <1>1, <3>1, <3>2 DEF JournalInv
    <3>4. Cardinality(Here') <= Len(entries')
      BY <1>1, <1>2, <1>4, <2>3, <3>1, <3>2 DEF JournalInv
    <3> QED BY <1>1, <1>2, <2>3, <2>4, <3>1, <3>2, <3>3, <3>4 DEF JournalInv
  <2>6. CASE entries' = entries /\ blocked' \in Reasons
    <3>1. Here \subseteq Here' /\ Cardinality(Here') <= Cardinality(Here) + 1
      BY <1>2, <2>2, <2>3
    <3>2. blocked' # "no"
      BY <2>6 DEF Reasons
    <3>3. Cardinality(Here') <= Len(entries') + 1
      BY <1>1, <1>2, <1>4, <2>2, <2>3, <2>6 DEF JournalInv
    <3> QED BY <2>4, <2>6, <3>1, <3>2, <3>3 DEF JournalInv
  <2> QED BY <1>4, <2>5, <2>6 DEF Recorded
<1>5. CASE entries' = <<>> /\ journal' = journal /\ Run' = Run + 1 /\ blocked' = "no"
  <2>1. Run \in Nat /\ \A e \in journal : e.run \in Nat
    BY EventFacts DEF TypeOK
  <2>2. Here' = {}
    BY <1>5, <2>1 DEF Here, JournalInv
  <2>3. Cardinality(Here') = 0 /\ Len(entries') = 0 /\ DOMAIN entries' = {}
    BY <1>5, <2>2, FS_EmptySet
  <2> QED BY <1>5, <2>1, <2>3 DEF JournalInv
<1> QED BY <1>3, <1>4, <1>5, HistoryCases

-----------------------------------------------------------------------------
(* What the executor knows *)

\* An executor that has a drawing in hand is not disturbed by a call it has given up.
LEMMA LateIsStale ==
  ASSUME TypeOK, LateInv, NEW req \in late, RunLate(req), blocked = "no", pc # "r2", ~edited'
  PROVE  ~edited /\ cad' = cad
<1>1. /\ Effect(req, cad') /\ edited' = (edited \/ (req.run # Run /\ cad' # cad))
  BY LateFacts
<1>2. CASE req.run = Run
  <2>1. req.op = "r1" /\ req.rid < cad.rid
    BY <1>2 DEF LateInv
  <2>2. req.rid # cad.rid
    BY <2>1 DEF TypeOK, CadOK, RequestOK
  <2> QED BY <1>1, <2>1, <2>2 DEF Effect
<1>3. CASE req.run # Run
  BY <1>1, <1>3
<1> QED BY <1>2, <1>3

Knowledge == KnowledgeInv /\ KnownState

\* A step that fails leaves a blocked executor, which claims nothing.
LEMMA BlockedKnows ==
  ASSUME pc' = "idle", blocked' \in Reasons
  PROVE  Knowledge'
BY DEF Knowledge, KnowledgeInv, KnownState, Reasons

\* As long as there is no answer, nothing is claimed of the drawing.
LEMMA ContinuesKnows ==
  ASSUME KnowledgeInv, pc \notin {"idle", "finalize"}, NEW s \in {"readback", "r1", "r1read", "r2", "r2read"}, Continues(s),
         UNCHANGED <<act, before, entries>>
  PROVE  Knowledge'
BY DEF Knowledge, KnowledgeInv, KnownState, Continues, LastEntry

LEMMA KnowledgeStep ==
  ASSUME TypeOK, ChainInv, Knowledge, LateInv, [Next]_vars
  PROVE  Knowledge'
<1> USE DEF Knowledge
<1>1. pc # "idle" => blocked = "no" /\ act.parent = Fp(before)
  BY DEF KnowledgeInv
<1>2. runtime <= cad.rid
  BY DEF LateInv
<1>3. CASE Dispatch
  <2>1. pc = "dispatch" /\ UNCHANGED <<act, before, after, entries, edited>>
    BY <1>3 DEF Dispatch
  <2>2. CASE Fails
    BY <2>2, BlockedKnows DEF Fails
  <2>3. CASE Succeeds("error") /\ cad' = cad
    BY <2>1, <2>3 DEF KnowledgeInv, KnownState, Succeeds, LastEntry
  <2>4. CASE Continues("readback")
    BY <2>1, <2>4, ContinuesKnows
  <2> QED BY <1>1, <1>3, <2>1, <2>2, <2>3, <2>4, DispatchFacts
<1>4. CASE ReadBack
  <2>1. pc = "readback" /\ UNCHANGED <<cad, act, before>>
    BY <1>4 DEF ReadBack
  <2>2. CASE Fails
    BY <2>2, BlockedKnows DEF Fails
  <2>3. CASE Continues("r1") /\ UNCHANGED entries
    BY <2>1, <2>3, ContinuesKnows
  <2>4. CASE Succeeds("rolled_back") /\ Fp(cad.drawing) = act.parent /\ UNCHANGED entries
    BY <1>1, <2>1, <2>4 DEF KnowledgeInv, KnownState, Succeeds, LastEntry
  <2>5. CASE Recorded
    <3>1. CASE blocked' \in Reasons
      BY <3>1, <2>5, BlockedKnows DEF Recorded, Reasons
    <3>2. CASE /\ entries' = Append(entries, Event.entry) /\ blocked' = "no"
               /\ (pc' = "finalize" /\ result' = result) \/ (pc' = "idle" /\ result' = "committed")
      <4>1. Event.entry.postState = Fp(cad.drawing)
        BY EventFacts DEF TypeOK, BuildStateChainEntry
      <4>2. entries' # <<>> /\ LastEntry' = Event.entry
        BY <3>2 DEF ChainInv, LastEntry
      <4>3. after' = cad.drawing
        BY <2>5 DEF Recorded
      <4> QED BY <1>1, <2>1, <3>2, <4>1, <4>2, <4>3 DEF KnowledgeInv, KnownState
    <3> QED BY <2>5, <3>1, <3>2 DEF Recorded
  <2> QED BY <1>1, <1>4, <2>1, <2>2, <2>3, <2>4, <2>5, ReadBackFacts
<1>5. CASE Finalize
  <2>1. pc = "finalize" /\ UNCHANGED <<act, before, after, entries, edited>>
    BY <1>5 DEF Finalize
  <2>2. CASE Fails
    BY <2>2, BlockedKnows DEF Fails
  <2>3. CASE Succeeds("committed") /\ cad'.drawing = cad.drawing /\ Fp(cad.drawing) = Fp(after)
    BY <2>1, <2>3 DEF KnowledgeInv, KnownState, Succeeds, LastEntry
  <2> QED BY <1>1, <1>5, <2>1, <2>2, <2>3, FinalizeFacts
<1>6. CASE ResolveWithR1
  <2>1. pc = "r1" /\ UNCHANGED <<act, before, entries>>
    BY <1>6 DEF ResolveWithR1
  <2>2. Continues("r1read") \/ Continues("r2")
    BY <1>1, <1>6, <2>1, R1Facts
  <2> QED BY <2>1, <2>2, ContinuesKnows
<1>7. CASE ReadR1 \/ ReadR2
  <2>1. pc \in {"r1read", "r2read"} /\ UNCHANGED <<cad, act, before, after, entries>>
    BY <1>7 DEF ReadR1, ReadR2
  <2>2. PICK s \in Snapshots(runtime), next \in {"r2", "end"} : CheckRestored(s, next)
    BY <1>7 DEF ReadR1, ReadR2
  <2>3. CASE Fails
    BY <2>3, BlockedKnows DEF Fails
  <2>4. CASE Succeeds("rolled_back") /\ Fp(cad.drawing) = Fp(before)
    BY <1>1, <2>1, <2>4 DEF KnowledgeInv, KnownState, Succeeds, LastEntry
  <2>5. CASE Continues("r2")
    BY <2>1, <2>5, ContinuesKnows
  <2> QED BY <1>1, <2>1, <2>2, <2>3, <2>4, <2>5, CheckRestoredFacts
<1>8. CASE ResolveWithR2
  <2>1. pc = "r2" /\ UNCHANGED <<act, before, entries>>
    BY <1>8 DEF ResolveWithR2
  <2>2. Fails \/ Continues("r2read")
    BY <1>1, <1>2, <1>8, <2>1, R2Facts
  <2>3. CASE Fails
    BY <2>3, BlockedKnows DEF Fails
  <2> QED BY <2>1, <2>2, <2>3, ContinuesKnows
<1>9. CASE UserEdits
  <2>1. UNCHANGED <<execVars, result>>
    BY <1>9 DEF UserEdits
  <2>2. ~edited' => ~edited /\ Fp(cad'.drawing) = Fp(cad.drawing)
    BY <1>9, UserFacts DEF TypeOK
  <2> QED BY <2>1, <2>2 DEF KnowledgeInv, KnownState, LastEntry, execVars
<1>10. CASE \E req \in late : RunLate(req)
  <2>1. PICK req \in late : RunLate(req)
    BY <1>10
  <2>2. UNCHANGED <<execVars, result>>
    BY <2>1, LateFacts
  <2>3. blocked = "no" /\ pc # "r2" /\ ~edited' => ~edited /\ cad' = cad
    BY <2>1, LateIsStale
  <2> QED BY <1>1, <2>2, <2>3 DEF KnowledgeInv, KnownState, LastEntry, execVars
<1>11. CASE Die
  BY <1>11 DEF Die, KnowledgeInv, KnownState
<1>12. ASSUME NEW a \in scenario.plans, NEW parent, Begin(a, parent) PROVE Knowledge'
  <2>1. /\ cad' = cad /\ before' = cad.drawing /\ entries' = entries /\ pc = "idle" /\ blocked = "no"
        /\ \/ Predecessor(Fp(cad.drawing)) /\ pc' = "dispatch" /\ UNCHANGED <<blocked, result>>
           \/ blocked' = "STATE_DRIFT" /\ UNCHANGED pc
    BY <1>12 DEF Begin
  <2>2. CASE blocked' = "STATE_DRIFT"
    BY <2>1, <2>2, BlockedKnows DEF Reasons
  <2>3. CASE Predecessor(Fp(cad.drawing)) /\ pc' = "dispatch" /\ UNCHANGED <<blocked, result>>
    BY <2>1, <2>3 DEF KnowledgeInv, KnownState, Predecessor, LastEntry
  <2> QED BY <2>1, <2>2, <2>3
<1>13. CASE UNCHANGED vars
  BY <1>13 DEF vars, execVars, KnowledgeInv, KnownState, LastEntry
<1> QED BY <1>3, <1>4, <1>5, <1>6, <1>7, <1>8, <1>9, <1>10, <1>11, <1>12, <1>13, NextCases

-----------------------------------------------------------------------------
(* Calls that were given up *)

LEMMA RequestIs ==
  ASSUME NEW op, NEW rid
  PROVE  LET r == Request(op, rid)
         IN  r.op = op /\ r.rid = rid /\ r.owner = Step /\ r.run = Run /\ (op = "mutate" => r.act = act)
BY DEF Request

\* A step of the executor keeps LateInv if what it adds to late stops it, or is R1.
LEMMA LateKept ==
  ASSUME TypeOK, LateInv, Run' = Run, runtime' \in Nat, runtime' <= cad'.rid, cad'.rid \in Nat, cad.rid <= cad'.rid, NEW req,
         late' \subseteq late \cup {req}, req.run = Run, req.rid \in Nat, req.rid <= cad.rid,
         \/ blocked' \in Reasons
         \/ blocked = "no" /\ pc # "r2" /\ late' \subseteq late
         \/ blocked = "no" /\ pc' = "r2" /\ req.op = "r1"
         \/ blocked = "no" /\ cad.rid < cad'.rid /\ late' \subseteq late
  PROVE  LateInv'
<1>1. cad.rid \in Nat /\ Run \in Nat
  BY EventFacts DEF TypeOK, CadOK
<1>2. ASSUME NEW r \in late
      PROVE  /\ r.run <= Run /\ r.rid <= cad.rid /\ r.rid \in Nat
             /\ r.run = Run => blocked # "no" \/ (r.op = "r1" /\ (pc = "r2" \/ r.rid < cad.rid))
  BY DEF LateInv, TypeOK, RequestOK
<1>3. ASSUME NEW r \in late' PROVE r.run <= Run' /\ r.rid <= cad'.rid
  BY <1>1, <1>2
<1>4. ASSUME NEW r \in late', r.run = Run'
      PROVE  blocked' # "no" \/ (r.op = "r1" /\ (pc' = "r2" \/ r.rid < cad'.rid))
  <2>1. CASE blocked' \in Reasons
    BY <2>1 DEF Reasons
  <2>2. CASE blocked = "no" /\ pc # "r2" /\ late' \subseteq late
    BY <1>1, <1>2, <1>4, <2>2
  <2>3. CASE blocked = "no" /\ pc' = "r2" /\ req.op = "r1"
    BY <1>2, <1>4, <2>3
  <2>4. CASE blocked = "no" /\ cad.rid < cad'.rid /\ late' \subseteq late
    BY <1>1, <1>2, <1>4, <2>4
  <2> QED BY <2>1, <2>2, <2>3, <2>4
<1> QED BY <1>3, <1>4 DEF LateInv

LEMMA LateStep ==
  ASSUME TypeOK, KnowledgeInv, LateInv, [Next]_vars
  PROVE  LateInv'
<1>1. pc # "idle" => blocked = "no"
  BY DEF KnowledgeInv
<1>2. runtime <= cad.rid /\ runtime \in Nat /\ CadOK(cad) /\ cad.rid \in Nat /\ Run \in Nat /\ counts \in [Bound -> Nat]
  BY EventFacts DEF LateInv, TypeOK, CadOK
<1>3. ASSUME NEW req, Asks(req) PROVE cad.rid <= cad'.rid /\ cad'.rid \in Nat /\ late' \subseteq late \cup {req}
  BY <1>3 DEF Asks, Effect, CadOK
<1>4. CASE Dispatch \/ Finalize
  <2>1. pc \in {"dispatch", "finalize"} /\ UNCHANGED runtime
    BY <1>4 DEF Dispatch, Finalize
  <2>2. PICK op \in {"mutate", "finalize"} : Asks(Request(op, runtime))
    BY <1>1, <1>4, <2>1, DispatchFacts, FinalizeFacts
  <2>3. Run' = Run /\ (blocked' \in Reasons \/ late' = late)
    BY <1>1, <1>4, <2>1, DispatchFacts, FinalizeFacts DEF Fails, Succeeds, Continues, Same
  <2> DEFINE req == Request(op, runtime)
  <2>4. req.run = Run /\ req.rid = runtime
    BY RequestIs
  <2> HIDE DEF req
  <2>5. cad.rid <= cad'.rid /\ cad'.rid \in Nat /\ late' \subseteq late \cup {req}
    BY <1>3, <2>2 DEF req
  <2>6. runtime' <= cad'.rid
    BY <1>2, <2>1, <2>5
  <2> QED BY <1>1, <1>2, <2>1, <2>3, <2>4, <2>5, <2>6, LateKept
<1>5. CASE ResolveWithR1
  <2>1. pc = "r1" /\ UNCHANGED runtime
    BY <1>5 DEF ResolveWithR1
  <2>2. Asks(Request("r1", runtime)) /\ Run' = Run /\ ((pc' = "r1read" /\ late' = late) \/ pc' = "r2")
    BY <1>1, <1>5, <2>1, R1Facts DEF Continues, Same
  <2> DEFINE req == Request("r1", runtime)
  <2>3. req.run = Run /\ req.rid = runtime /\ req.op = "r1"
    BY RequestIs
  <2> HIDE DEF req
  <2>4. cad.rid <= cad'.rid /\ cad'.rid \in Nat /\ late' \subseteq late \cup {req}
    BY <1>3, <2>2 DEF req
  <2>5. runtime' <= cad'.rid
    BY <1>2, <2>1, <2>4
  <2> QED BY <1>1, <1>2, <2>1, <2>2, <2>3, <2>4, <2>5, LateKept
<1>6. CASE ResolveWithR2
  <2>1. pc = "r2"
    BY <1>6 DEF ResolveWithR2
  <2>2. PICK rid \in Nat :
          /\ rid <= cad.rid /\ Asks(Request("r2", rid)) /\ runtime' \in Nat
          /\ \/ Fails /\ runtime' = rid
             \/ Continues("r2read") /\ late' = late /\ runtime' = cad'.rid /\ cad.rid < cad'.rid
    BY <1>1, <1>2, <1>6, <2>1, R2Facts
  <2> DEFINE req == Request("r2", rid)
  <2>3. req.run = Run /\ req.rid = rid
    BY RequestIs
  <2> HIDE DEF req
  <2>4. cad.rid <= cad'.rid /\ cad'.rid \in Nat /\ late' \subseteq late \cup {req}
    BY <1>3, <2>2 DEF req
  <2>5. runtime' <= cad'.rid /\ Run' = Run
    BY <1>2, <2>2, <2>4 DEF Fails, Continues, Same
  <2> QED BY <1>1, <1>2, <2>1, <2>2, <2>3, <2>4, <2>5, LateKept DEF Fails
<1>7. CASE ReadBack \/ ReadR1 \/ ReadR2
  <2>1. pc \notin {"idle", "r2"} /\ UNCHANGED <<cad, late, runtime>>
    BY <1>7 DEF ReadBack, ReadR1, ReadR2
  <2>2. Run' = Run
    <3>1. CASE ReadBack
      BY <1>1, <2>1, <3>1, ReadBackFacts DEF Fails, Succeeds, Continues, Recorded, Same
    <3>2. CASE ReadR1 \/ ReadR2
      <4>1. PICK s \in Snapshots(runtime), next \in {"r2", "end"} : CheckRestored(s, next)
        BY <3>2 DEF ReadR1, ReadR2
      <4> QED BY <1>1, <2>1, <4>1, CheckRestoredFacts DEF Fails, Succeeds, Continues, Same
    <3> QED BY <1>7, <3>1, <3>2
  <2> DEFINE req == [run |-> Run, rid |-> runtime, op |-> "r1"]
  <2>3. req.run = Run /\ req.rid = runtime
    OBVIOUS
  <2> HIDE DEF req
  <2>4. cad.rid <= cad'.rid /\ cad'.rid \in Nat
    BY <1>2, <2>1
  <2> QED BY <1>1, <1>2, <2>1, <2>2, <2>3, <2>4, LateKept
<1>8. CASE UserEdits
  <2>1. counts' = [counts EXCEPT !["edits"] = @ + 1] /\ "edits" \in Bound /\ UNCHANGED <<late, execVars>>
    BY <1>8 DEF UserEdits, Bound
  <2>2. Run' = Run + (IF "edits" = "deaths" THEN 1 ELSE 0)
    BY <1>2, <2>1, CountFacts
  <2>3. cad.rid <= cad'.rid /\ cad'.rid \in Nat
    BY <1>2, <1>8, UserFacts DEF CadOK
  <2> QED BY <1>2, <2>1, <2>2, <2>3 DEF LateInv, execVars, TypeOK, RequestOK
<1>9. CASE \E req \in late : RunLate(req)
  <2>1. PICK req \in late : RunLate(req)
    BY <1>9
  <2>2. cad.rid <= cad'.rid /\ cad'.rid \in Nat /\ late' \subseteq late /\ UNCHANGED <<execVars, counts>>
    BY <2>1, LateFacts DEF CadOK
  <2> QED BY <1>2, <2>2 DEF LateInv, execVars, TypeOK, RequestOK, Run
<1>10. CASE Die
  <2>1. counts' = [counts EXCEPT !["deaths"] = @ + 1] /\ "deaths" \in Bound
    BY <1>10 DEF Die, Bound
  <2>2. Run' = Run + (IF "deaths" = "deaths" THEN 1 ELSE 0)
    BY <1>2, <2>1, CountFacts
  <2>3. UNCHANGED <<cad, late, runtime>>
    BY <1>10 DEF Die
  <2> QED BY <1>2, <2>2, <2>3 DEF LateInv, TypeOK, RequestOK
<1>11. ASSUME NEW a \in scenario.plans, NEW parent, Begin(a, parent) PROVE LateInv'
  <2>1. Run' = Run
    BY <1>11, BeginFacts
  <2>2. /\ UNCHANGED <<cad, late>> /\ runtime' = cad.rid /\ blocked = "no" /\ pc = "idle"
    BY <1>11 DEF Begin
  <2> QED BY <1>2, <2>1, <2>2 DEF LateInv
<1>12. CASE UNCHANGED vars
  BY <1>12 DEF vars, execVars, LateInv, Run
<1> QED BY <1>4, <1>5, <1>6, <1>7, <1>8, <1>9, <1>10, <1>11, <1>12, NextCases

-----------------------------------------------------------------------------
(* Who speaks of a step *)

LateClaims == {<<r.owner, r.act.parent>> : r \in {r \in late : r.op = "mutate"}}
DiskClaims == {<<e.step, Fp(e.entry.before)>> : e \in journal}
OwnClaims == IF pc = "idle" THEN {} ELSE {<<Step, act.parent>>}

LEMMA ClaimsAre == Claims = Claimed(cad) \cup LateClaims \cup DiskClaims \cup OwnClaims
BY DEF Claims, Claimed, LateClaims, DiskClaims, OwnClaims

LEMMA ClaimsBecome == Claims' = Claimed(cad') \cup LateClaims' \cup DiskClaims' \cup OwnClaims'
BY DEF Claims, Claimed, LateClaims, DiskClaims, OwnClaims

\* Between two steps nobody says anything new.
LEMMA ClaimsKept ==
  ASSUME StepsInv, Step' = Step, Claims' \subseteq Claims, journal \subseteq journal',
         \A r \in late' : r.op = "finalize" => r \in late \/ (pc = "finalize" /\ r.owner = Step),
         pc' = "finalize" => pc = "finalize" \/ Event \in journal', Event.step = Step
  PROVE  StepsInv'
BY DEF StepsInv

\* One step of the executor, with the request it may have made.
LEMMA AskClaims ==
  ASSUME TypeOK, StepsInv, pc # "idle", UNCHANGED <<act, journal>>, Step' = Step, pc' # "finalize",
         NEW op \in {"mutate", "finalize", "r1", "r2"}, op = "finalize" => pc = "finalize", NEW rid \in Nat,
         Asks(Request(op, rid))
  PROVE  StepsInv'
<1> DEFINE req == Request(op, rid)
<1>1. req.op = op /\ req.owner = Step /\ (op = "mutate" => req.act = act)
  BY RequestIs
<1>2. Asks(req)
  OBVIOUS
<1> HIDE DEF req
<1>3. Claimed(cad') \subseteq Claimed(cad) \cup OwnClaims
  BY <1>1, <1>2 DEF Asks, Effect, OwnClaims
<1>4. late' \subseteq late \cup {req}
  BY <1>2 DEF Asks
<1>5. LateClaims' \subseteq LateClaims \cup OwnClaims
  BY <1>1, <1>4 DEF LateClaims, OwnClaims
<1>6. DiskClaims' = DiskClaims /\ OwnClaims' \subseteq OwnClaims
  BY DEF DiskClaims, OwnClaims
<1>8. Claims' \subseteq Claims
  BY <1>3, <1>5, <1>6, ClaimsAre, ClaimsBecome
<1>9. Event.step = Step
  BY EventFacts DEF TypeOK
<1> QED BY <1>1, <1>4, <1>8, <1>9, ClaimsKept

LEMMA StepsStep ==
  ASSUME TypeOK, KnowledgeInv, LateInv, StepsInv, [Next]_vars
  PROVE  StepsInv'
<1>1. pc # "idle" => blocked = "no" /\ act.parent = Fp(before)
  BY DEF KnowledgeInv
<1>2. runtime <= cad.rid /\ runtime \in Nat /\ Event.step = Step /\ counts \in [Bound -> Nat]
  BY EventFacts DEF LateInv, TypeOK
<1>3. CASE Dispatch
  <2>1. pc = "dispatch" /\ UNCHANGED act
    BY <1>3 DEF Dispatch
  <2>2. Asks(Request("mutate", runtime)) /\ journal' = journal /\ Step' = Step /\ pc' # "finalize"
    BY <1>1, <1>3, <2>1, DispatchFacts DEF Fails, Succeeds, Continues, Same
  <2> QED BY <1>2, <2>1, <2>2, AskClaims
<1>4. CASE Finalize
  <2>1. pc = "finalize" /\ UNCHANGED act
    BY <1>4 DEF Finalize
  <2>2. Asks(Request("finalize", runtime)) /\ journal' = journal /\ Step' = Step /\ pc' # "finalize"
    BY <1>1, <1>4, <2>1, FinalizeFacts DEF Fails, Succeeds, Same
  <2> QED BY <1>2, <2>1, <2>2, AskClaims
<1>5. CASE ResolveWithR1
  <2>1. pc = "r1" /\ UNCHANGED act
    BY <1>5 DEF ResolveWithR1
  <2>2. Asks(Request("r1", runtime)) /\ journal' = journal /\ Step' = Step /\ pc' # "finalize"
    BY <1>1, <1>5, <2>1, R1Facts DEF Continues, Same
  <2> QED BY <1>2, <2>1, <2>2, AskClaims
<1>6. CASE ResolveWithR2
  <2>1. pc = "r2" /\ UNCHANGED act
    BY <1>6 DEF ResolveWithR2
  <2>2. PICK rid \in Nat : Asks(Request("r2", rid)) /\ (Fails \/ Continues("r2read"))
    BY <1>1, <1>2, <1>6, <2>1, R2Facts
  <2>3. journal' = journal /\ Step' = Step /\ pc' # "finalize"
    BY <2>2 DEF Fails, Continues, Same
  <2> QED BY <2>1, <2>2, <2>3, AskClaims
<1>7. CASE ReadBack \/ ReadR1 \/ ReadR2
  <2>1. pc \notin {"idle", "finalize"} /\ UNCHANGED <<cad, late, act>>
    BY <1>7 DEF ReadBack, ReadR1, ReadR2
  <2>2. CASE Recorded
    <3>1. Step' = Step /\ journal' \in {journal, journal \cup {Event}} /\ (pc' = "finalize" => Event \in journal')
      BY <2>2 DEF Recorded, Same
    <3>2. Event.entry.before = before
      BY EventFacts DEF TypeOK, BuildStateChainEntry
    <3>3. DiskClaims' \subseteq DiskClaims \cup OwnClaims
      BY <1>1, <1>2, <2>1, <3>1, <3>2 DEF DiskClaims, OwnClaims
    <3>4. Claimed(cad') = Claimed(cad) /\ LateClaims' = LateClaims /\ OwnClaims' \subseteq OwnClaims
      BY <2>1, <3>1 DEF Claimed, LateClaims, OwnClaims
    <3>5. Claims' \subseteq Claims
      BY <3>3, <3>4, ClaimsAre, ClaimsBecome
    <3> QED BY <1>2, <2>1, <3>1, <3>5, ClaimsKept
  <2>3. CASE Fails \/ Succeeds("rolled_back") \/ Continues("r1") \/ Continues("r2")
    <3>1. Step' = Step /\ journal' = journal /\ pc' # "finalize"
      BY <2>3 DEF Fails, Succeeds, Continues, Same
    <3>2. Claims' \subseteq Claims
      BY <2>1, <3>1 DEF Claims
    <3> QED BY <1>2, <2>1, <3>1, <3>2, ClaimsKept
  <2>4. CASE ReadBack
    BY <1>1, <2>1, <2>2, <2>3, <2>4, ReadBackFacts
  <2>5. CASE ReadR1 \/ ReadR2
    <3>1. PICK s \in Snapshots(runtime), next \in {"r2", "end"} : CheckRestored(s, next)
      BY <2>5 DEF ReadR1, ReadR2
    <3> QED BY <1>1, <2>1, <2>3, <3>1, CheckRestoredFacts
  <2> QED BY <1>7, <2>4, <2>5
<1>8. CASE UserEdits
  <2>1. counts' = [counts EXCEPT !["edits"] = @ + 1] /\ "edits" \in Bound /\ UNCHANGED <<late, execVars, journal>>
    BY <1>8 DEF UserEdits, Bound
  <2>2. Step' = Step + (IF "edits" = "steps" THEN 1 ELSE 0) /\ Step \in Nat
    BY <1>2, <2>1, CountFacts
  <2>3. Claimed(cad') \subseteq Claimed(cad)
    BY <1>8, UserFacts DEF TypeOK, Claimed
  <2>4. LateClaims' = LateClaims /\ DiskClaims' = DiskClaims /\ OwnClaims' = OwnClaims
    BY <2>1, <2>2 DEF LateClaims, DiskClaims, OwnClaims, execVars
  <2>5. Claims' \subseteq Claims
    BY <2>3, <2>4, ClaimsAre, ClaimsBecome
  <2> QED BY <1>2, <2>1, <2>2, <2>5, ClaimsKept DEF execVars
<1>9. CASE \E req \in late : RunLate(req)
  <2>1. PICK req \in late : RunLate(req)
    BY <1>9
  <2>2. Effect(req, cad') /\ late' \subseteq late /\ UNCHANGED <<execVars, counts, journal>>
    BY <2>1, LateFacts
  <2>3. Claimed(cad') \subseteq Claimed(cad) \cup LateClaims
    BY <2>2 DEF Effect, LateClaims, Claimed
  <2>4. LateClaims' \subseteq LateClaims /\ DiskClaims' = DiskClaims /\ OwnClaims' = OwnClaims
    BY <2>2 DEF LateClaims, DiskClaims, OwnClaims, execVars, Step
  <2>5. Claims' \subseteq Claims
    BY <2>3, <2>4, ClaimsAre, ClaimsBecome
  <2> QED BY <1>2, <2>2, <2>5, ClaimsKept DEF execVars, Step
<1>10. CASE Die
  <2>1. counts' = [counts EXCEPT !["deaths"] = @ + 1] /\ "deaths" \in Bound /\ UNCHANGED <<cad, late, journal>> /\ pc' = "idle"
    BY <1>10 DEF Die, Bound
  <2>2. Step' = Step + (IF "deaths" = "steps" THEN 1 ELSE 0) /\ Step \in Nat
    BY <1>2, <2>1, CountFacts
  <2>3. Claims' \subseteq Claims
    BY <2>1 DEF Claims
  <2> QED BY <1>2, <2>1, <2>2, <2>3, ClaimsKept
<1>11. ASSUME NEW a \in scenario.plans, NEW parent, Begin(a, parent) PROVE StepsInv'
  <2>1. Step' = Step + 1 /\ Step \in Nat
    BY <1>11, BeginFacts
  <2>2. UNCHANGED <<cad, late, journal>> /\ pc = "idle" /\ pc' # "finalize"
    BY <1>11 DEF Begin
  <2>3. Claims' \subseteq Claims \cup {<<Step', act'.parent>>}
    BY <2>2 DEF Claims
  <2>4. \A x \in Claims : x[1] <= Step /\ x[1] \in Nat
    <3>1. \A cp \in cad.cp : cp.owner \in Nat
      BY DEF TypeOK, CadOK, Checkpoint
    <3>2. \A r \in late : r.owner \in Nat
      BY DEF TypeOK, RequestOK
    <3>3. \A e \in journal : e.step \in Nat
      BY DEF TypeOK
    <3> QED BY <2>1, <3>1, <3>2, <3>3 DEF Claims, StepsInv
  <2>5. ASSUME NEW x \in Claims' PROVE x[1] <= Step' /\ \A y \in Claims' : x[1] = y[1] => x[2] = y[2]
    BY <2>1, <2>3, <2>4 DEF StepsInv
  <2> QED BY <2>2, <2>5 DEF StepsInv
<1>12. CASE UNCHANGED vars
  BY <1>2, <1>12, ClaimsKept DEF vars, execVars, Claims, Step
<1> QED BY <1>3, <1>4, <1>5, <1>6, <1>7, <1>8, <1>9, <1>10, <1>11, <1>12, NextCases

-----------------------------------------------------------------------------
(* The invariant and what follows from it *)

LEMMA InvParts == IInv <=> TypeOK /\ JournalInv /\ ChainInv /\ Knowledge /\ LateInv /\ StepsInv
BY DEF IInv, JournalHasChain, JournalInv, Here, Knowledge

LEMMA InitInv == Init => IInv
<1> SUFFICES ASSUME Init PROVE IInv
  OBVIOUS
<1>1. /\ Snapshot(scenario.drawing) /\ scenario \in Scenarios
  BY ExecutorAssumption DEF Init
<1>2. TypeOK
  <2>1. CadOK(cad)
    BY <1>1 DEF Init, CadOK, Snapshot
  <2>2. counts \in [Bound -> Nat]
    BY DEF Init
  <2>3. IsFiniteSet(journal)
    BY FS_EmptySet DEF Init
  <2> QED BY <1>1, <2>1, <2>2, <2>3 DEF Init, TypeOK
<1>3. JournalInv
  <2>1. Here = {} /\ Cardinality({}) = 0 /\ Len(entries) = 0 /\ DOMAIN entries = {}
    BY FS_EmptySet DEF Init, Here
  <2> QED BY <2>1 DEF Init, JournalInv
<1>4. ChainInv
  <2>1. DOMAIN entries = {} /\ Len(entries) = 0 /\ entries \in Seq({e.entry : e \in journal})
    BY DEF Init
  <2> QED BY <2>1 DEF ChainInv, VerifyStateChain
<1>5. Knowledge
  BY DEF Init, Knowledge, KnowledgeInv, KnownState
<1>6. LateInv
  BY DEF Init, LateInv
<1>7. StepsInv
  <2>1. Claims = {}
    BY DEF Init, Claims
  <2> QED BY <2>1 DEF Init, StepsInv
<1> QED BY <1>2, <1>3, <1>4, <1>5, <1>6, <1>7, InvParts

LEMMA InvStep == IInv /\ [Next]_vars => IInv'
<1> SUFFICES ASSUME IInv, [Next]_vars PROVE IInv'
  OBVIOUS
<1>1. TypeOK /\ JournalInv /\ ChainInv /\ Knowledge /\ LateInv /\ StepsInv /\ KnowledgeInv
  BY InvParts DEF Knowledge
<1>2. TypeOK' /\ JournalInv' /\ ChainInv' /\ Knowledge' /\ LateInv' /\ StepsInv'
  BY <1>1, TypeStep, JournalStep, ChainStep, KnowledgeStep, LateStep, StepsStep
<1>3. IInv' <=> (TypeOK /\ JournalInv /\ ChainInv /\ Knowledge /\ LateInv /\ StepsInv)'
  BY InvParts, PTL
<1> QED BY <1>2, <1>3

\* What the executor remembers fits the drawing, the journal and the calls it has lost.
THEOREM InductiveInvariant == Spec => []IInv
BY InitInv, InvStep, PTL DEF Spec

\* Each entry of execute_step's chain is a step that did what was planned, in the state
\* it was planned for, and nothing else; the next entry starts where it has ended.
THEOREM ChainIsTrue == Spec => []ChainTellsTruth
<1>1. IInv => ChainTellsTruth
  <2> SUFFICES ASSUME IInv, NEW i \in DOMAIN entries, i > 1 PROVE Fp(entries[i].before) = Fp(entries[i - 1].after)
    BY DEF IInv, ChainInv, ChainTellsTruth
  <2>1. i \in 1..Len(entries) /\ i - 1 \in DOMAIN entries
    BY DEF IInv, ChainInv
  <2>2. entries[i].parentState = entries[i - 1].postState
    BY <2>1 DEF IInv, ChainInv, VerifyStateChain
  <2> QED BY <2>1, <2>2 DEF IInv, ChainInv
<1> QED BY <1>1, InductiveInvariant, PTL

\* An executor that goes on knows the drawing: no answer, lost call or late call leaves
\* it with a state that is not there.
THEOREM StateIsKnown == Spec => []KnownState
<1>1. IInv => KnownState
  BY DEF IInv
<1> QED BY <1>1, InductiveInvariant, PTL

\* _append_or_block: the chain in memory is in the journal, which is one step ahead at
\* most, and only of an executor that has stopped.
THEOREM ChainIsOnDisk == Spec => []JournalHasChain
<1>1. IInv => JournalHasChain
  BY DEF IInv
<1> QED BY <1>1, InductiveInvariant, PTL

\* Whatever AutoCAD runs, now or late, a checkpoint goes only when the drawing is back or
\* the step it belongs to is on record.
LEMMA EffectKeepsWayBack ==
  ASSUME StepsInv, TypeOK, NEW req, Effect(req, cad'), req.op = "finalize" => \E e \in journal : e.step = req.owner,
         NEW cp \in cad.cp, cad'.cp = {}
  PROVE  \/ Fp(cad'.drawing) = Fp(cp.before)
         \/ \E e \in journal : e.step = cp.owner /\ Fp(e.entry.before) = Fp(cp.before)
<1>1. CASE Fp(cad'.drawing) = Fp(cp.before)
  BY <1>1
<1>2. CASE req.op = "finalize" /\ cp.owner = req.owner
  <2>1. PICK e \in journal : e.step = cp.owner
    BY <1>2
  <2>2. <<e.step, Fp(e.entry.before)>> \in Claims /\ <<cp.owner, Fp(cp.before)>> \in Claims
    BY DEF Claims
  <2>3. Fp(e.entry.before) = Fp(cp.before)
    BY <2>1, <2>2 DEF StepsInv
  <2> QED BY <2>1, <2>3
<1> QED BY <1>1, <1>2 DEF Effect

LEMMA WayBackStep ==
  ASSUME IInv, Next, NEW cp \in cad.cp, cad'.cp = {}
  PROVE  \/ Fp(cad'.drawing) = Fp(cp.before)
         \/ \E e \in journal : e.step = cp.owner /\ Fp(e.entry.before) = Fp(cp.before)
<1>1. TypeOK /\ StepsInv /\ KnowledgeInv /\ LateInv /\ [Next]_vars
  BY InvParts DEF Knowledge
<1>2. pc # "idle" => blocked = "no"
  BY <1>1 DEF KnowledgeInv
<1>3. runtime <= cad.rid /\ CadOK(cad)
  BY <1>1 DEF LateInv, TypeOK
<1>4. ASSUME NEW op \in {"mutate", "r1", "r2", "finalize"}, NEW rid, Effect(Request(op, rid), cad'), op = "finalize" => pc = "finalize"
      PROVE  \/ Fp(cad'.drawing) = Fp(cp.before)
             \/ \E e \in journal : e.step = cp.owner /\ Fp(e.entry.before) = Fp(cp.before)
  <2> DEFINE req == Request(op, rid)
  <2>1. req.op = op /\ req.owner = Step
    BY RequestIs
  <2>2. req.op = "finalize" => \E e \in journal : e.step = req.owner
    BY <1>1, <1>4, <2>1 DEF StepsInv
  <2> HIDE DEF req
  <2>3. Effect(req, cad')
    BY <1>4 DEF req
  <2> QED BY <1>1, <2>2, <2>3, EffectKeepsWayBack
<1>5. CASE Dispatch
  BY <1>1, <1>2, <1>4, <1>5, DispatchFacts DEF Dispatch, Asks
<1>6. CASE Finalize
  BY <1>1, <1>2, <1>4, <1>6, FinalizeFacts DEF Finalize, Asks
<1>7. CASE ResolveWithR1
  BY <1>1, <1>2, <1>4, <1>7, R1Facts DEF ResolveWithR1, Asks
<1>8. CASE ResolveWithR2
  <2>1. \E rid \in Nat : Asks(Request("r2", rid))
    BY <1>1, <1>2, <1>3, <1>8, R2Facts DEF ResolveWithR2
  <2> QED BY <1>4, <2>1 DEF Asks
<1>9. CASE \E req \in late : RunLate(req)
  <2>1. PICK req \in late : RunLate(req)
    BY <1>9
  <2>2. Effect(req, cad') /\ (req.op = "finalize" => \E e \in journal : e.step = req.owner)
    BY <1>1, <2>1, LateFacts DEF StepsInv
  <2> QED BY <1>1, <2>2, EffectKeepsWayBack
<1>10. CASE UserEdits
  BY <1>3, <1>10, UserFacts
<1>11. CASE cad' = cad
  BY <1>11
<1>12. \/ Dispatch \/ Finalize \/ ResolveWithR1 \/ ResolveWithR2 \/ (\E req \in late : RunLate(req)) \/ UserEdits
       \/ cad' = cad
  BY <1>1, NextCases DEF ReadBack, ReadR1, ReadR2, Die, Begin, vars
<1> QED BY <1>5, <1>6, <1>7, <1>8, <1>9, <1>10, <1>11, <1>12

\* _recover_after_commit and the finalize: the way back to the state before a step is
\* given up only for a restored or a recorded state, also by calls that come late.
THEOREM WayBackStays == Spec => WayBackKept
<1> DEFINE Stays == \A cp \in cad.cp : cad'.cp = {} =>
                       \/ Fp(cad'.drawing) = Fp(cp.before)
                       \/ \E e \in journal : e.step = cp.owner /\ Fp(e.entry.before) = Fp(cp.before)
<1>1. IInv /\ [Next]_vars => [Stays]_vars
  BY WayBackStep
<1> QED BY <1>1, InductiveInvariant, PTL DEF Spec, WayBackKept
============================================================================
