--------------------------- MODULE SemanticDelta ---------------------------
(* The semantic model (semantic/): what a snapshot of a drawing is, when two of
   them have one fingerprint, what one typed action may change of it, and the
   chain of verified steps.  A fingerprint is the normal form it is computed
   from; quantization and hashing are left out.                            *)
EXTENDS Integers, Sequences

CONSTANTS Pid,       \* persistent entity identities
          Point,     \* coordinates: a set of integers
          Layer,     \* layer, style and hierarchy of an entity
          DocState   \* units, current space and styles of a document

ASSUME PointAssumption == Point \subseteq Int

Type == {"LINE", "CIRCLE", "LWPOLYLINE"}
Verb == {"create", "update", "delete"}

\* p and q: the two ends, or centre and radius, or the vertices; n = 0 for the
\* default normal, without bulges, widths or elevation.
Geometry == [p : Point, q : Point, n : {0, 1}]
Entity == [type : Type, geom : Geometry, layer : Layer]

\* A snapshot maps the pids of the drawing to their entities.
Snapshot(s) ==
    /\ DOMAIN s = {"ents", "doc"} /\ s.doc \in DocState
    /\ DOMAIN s.ents \subseteq Pid /\ \A p \in DOMAIN s.ents : s.ents[p] \in Entity

\* An action names its target, the geometry it asks for, the effects its plan
\* allows per verb, and the fingerprint of the state it was planned for.
Action(a) ==
    /\ a.verb \in Verb /\ a.type \in Type /\ a.geom \in Geometry
    /\ a.targets \subseteq Pid /\ (a.verb = "create" <=> a.targets = {})
    /\ a.allowed \in [Verb -> SUBSET Type]

\* _validate_action_shape refuses an update or a deletion of several.
OneTarget(a) == a.verb # "create" => \E p \in Pid : a.targets = {p}
-----------------------------------------------------------------------------
(* fingerprint.py *)

\* A line has no direction.
NormalGeometry(e) ==
    IF e.type = "LINE" /\ e.geom.q < e.geom.p
    THEN [p |-> e.geom.q, q |-> e.geom.p, n |-> e.geom.n] ELSE e.geom

Fp(s) == [s EXCEPT !.ents =
            [p \in DOMAIN s.ents |-> [s.ents[p] EXCEPT !.geom = NormalGeometry(s.ents[p])]]]
-----------------------------------------------------------------------------
(* delta.py *)

\* Entities are compared as they are: a line that is turned round is modified.
ComputeSemanticDelta(b, s) ==
    [created  |-> DOMAIN s.ents \ DOMAIN b.ents,
     deleted  |-> DOMAIN b.ents \ DOMAIN s.ents,
     modified |-> {p \in DOMAIN b.ents \cap DOMAIN s.ents : b.ents[p] # s.ents[p]}]

InScope(a, pids) == a.targets # {} => pids \subseteq a.targets

AllowedEffects(a, b, s, d) ==
    /\ \A p \in d.created : s.ents[p].type \in a.allowed["create"]
    /\ \A p \in d.modified : s.ents[p].type \in a.allowed["update"]
    /\ \A p \in d.deleted : b.ents[p].type \in a.allowed["delete"]
    /\ InScope(a, d.modified) /\ InScope(a, d.deleted)

ExpectedOperationEffect(a, d) ==
    /\ IF a.verb = "create" THEN \E p \in d.created : d.created = {p} ELSE d.created = {}
    /\ d.modified = IF a.verb = "update" THEN a.targets ELSE {}
    /\ d.deleted = IF a.verb = "delete" THEN a.targets ELSE {}

\* A circle keeps its normal; a polyline must have been a simple one.
Requested(a, old) ==
    [type |-> a.type,
     geom |-> [a.geom EXCEPT !.n = IF a.verb = "update" /\ a.type = "CIRCLE" THEN old.geom.n ELSE 0]]

SameGeometry(e, f) == e.type = f.type /\ NormalGeometry(e) = NormalGeometry(f)

RequestedGeometry(a, b, s, d) ==
    CASE a.verb = "create" -> \E p \in d.created : d.created = {p} /\ SameGeometry(s.ents[p], Requested(a, s.ents[p]))
      [] a.verb = "update" ->
            \A p \in a.targets :
                /\ p \in DOMAIN b.ents /\ p \in DOMAIN s.ents
                /\ SameGeometry(s.ents[p], Requested(a, b.ents[p]))
                /\ a.type = "LWPOLYLINE" => b.ents[p].geom.n = 0
      [] OTHER -> TRUE

\* Mutant: the envelope of the target is not compared.
MutantTargetEnvelope(a, b, s) == TRUE

TargetEnvelope(a, b, s) ==
    a.verb = "update" =>
        \A p \in a.targets : /\ p \in DOMAIN b.ents /\ p \in DOMAIN s.ents
                             /\ b.ents[p].type = s.ents[p].type /\ b.ents[p].layer = s.ents[p].layer

DocumentInvariants(b, s) == b.doc = s.doc

\* Entities that share their geometry with another one and did not have it before.
NewDuplicates(b, s) ==
    {p \in DOMAIN s.ents :
        /\ \E q \in DOMAIN s.ents \ {p} : SameGeometry(s.ents[p], s.ents[q])
        /\ ~(p \in DOMAIN b.ents /\ SameGeometry(s.ents[p], b.ents[p]))}

ValidateActionDelta(a, b, s) ==
    LET d == ComputeSemanticDelta(b, s)
    IN  /\ AllowedEffects(a, b, s, d)
        /\ ExpectedOperationEffect(a, d)
        /\ RequestedGeometry(a, b, s, d)
        /\ TargetEnvelope(a, b, s)
        /\ DocumentInvariants(b, s)
        /\ NewDuplicates(b, s) = {}
-----------------------------------------------------------------------------
(* state_chain.py: the digest of a step stands for its place in the chain.  *)

BuildStateChainEntry(entries, a, b, s) ==
    [parentStep |-> Len(entries), action |-> a, before |-> b, after |-> s,
     parentState |-> Fp(b), postState |-> Fp(s)]

VerifyStateChain(entries) ==
    \A i \in 1..Len(entries) :
        /\ entries[i].parentStep = i - 1
        /\ i > 1 => entries[i].parentState = entries[i - 1].postState
-----------------------------------------------------------------------------
(* What a verified step promises, said without a delta: the drawing is the one
   before it except for what was asked.                                    *)

Turned(e) == [e EXCEPT !.geom = [p |-> e.geom.q, q |-> e.geom.p, n |-> e.geom.n]]

Shows(e, type, geom) ==
    \/ e.type = type /\ e.geom = geom
    \/ type = "LINE" /\ e.type = type /\ Turned(e).geom = geom

Untouched(b, s, pids) ==
    /\ s.doc = b.doc
    /\ DOMAIN s.ents \ pids = DOMAIN b.ents \ pids
    /\ \A p \in DOMAIN b.ents \ pids : s.ents[p] = b.ents[p]

Performed(a, b, s) ==
    CASE a.verb = "create" ->
            \E p \in DOMAIN s.ents \ DOMAIN b.ents :
                Untouched(b, s, {p}) /\ Shows(s.ents[p], a.type, [a.geom EXCEPT !.n = 0])
      [] a.verb = "update" ->
            \E p \in DOMAIN s.ents \cap DOMAIN b.ents :
                /\ a.targets = {p} /\ Untouched(b, s, {p}) /\ s.ents[p].layer = b.ents[p].layer
                /\ Shows(s.ents[p], a.type,
                         [a.geom EXCEPT !.n = IF a.type = "CIRCLE" THEN b.ents[p].geom.n ELSE 0])
      [] OTHER -> \E p \in DOMAIN b.ents : a.targets = {p} /\ p \notin DOMAIN s.ents /\ Untouched(b, s, {p})

\* The later of two entities drawn over each other was not put there by the step.
NothingDrawnTwice(b, s) ==
    \A p, q \in DOMAIN s.ents :
        p # q /\ Shows(s.ents[p], s.ents[q].type, s.ents[q].geom) =>
            /\ p \in DOMAIN b.ents /\ q \in DOMAIN b.ents
            /\ Shows(b.ents[p], s.ents[p].type, s.ents[p].geom)
            /\ Shows(b.ents[q], s.ents[q].type, s.ents[q].geom)
=============================================================================
