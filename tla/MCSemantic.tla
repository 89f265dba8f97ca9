----------------------------- MODULE MCSemantic -----------------------------
(* Instances of SemanticExecutor for TLC. *)
EXTENDS SemanticExecutor, TLC

CONSTANTS p1, p2, p3

G(p, q, n) == [p |-> p, q |-> q, n |-> n]
Ent(type, g) == [type |-> type, geom |-> g, layer |-> 0]

OneLine == [ents |-> p1 :> Ent("LINE", G(2, 1, 0)), doc |-> 0]
LineAndCircle == [ents |-> p1 :> Ent("LINE", G(1, 1, 0)) @@ p2 :> Ent("CIRCLE", G(1, 2, 1)), doc |-> 0]
Curved == [ents |-> p1 :> Ent("LWPOLYLINE", G(1, 2, 1)), doc |-> 0]

Only(verb, type) == [v \in Verb |-> IF v = verb THEN {type} ELSE {}]
Plan(verb, type, targets, g) ==
    [verb |-> verb, type |-> type, targets |-> targets, geom |-> g, allowed |-> Only(verb, type)]

CreateLine == Plan("create", "LINE", {}, G(1, 2, 0))
UpdateLine == Plan("update", "LINE", {p1}, G(1, 2, 0))
UpdateCircle == Plan("update", "CIRCLE", {p2}, G(2, 2, 0))
UpdatePolyline == Plan("update", "LWPOLYLINE", {p1}, G(1, 1, 0))
DeleteLine == Plan("delete", "LINE", {p1}, G(1, 1, 0))
Unplanned == [Plan("create", "CIRCLE", {}, G(1, 2, 0)) EXCEPT !.allowed = [v \in Verb |-> {}]]

Scenario(d, recovers, plans, steps, edits, losses, faults, deaths) ==
    [drawing |-> d, recovers |-> recovers, plans |-> plans,
     max |-> [steps |-> steps, edits |-> edits, losses |-> losses, faults |-> faults, deaths |-> deaths]]

SomeScenarios ==
    {Scenario(OneLine, TRUE, {CreateLine, DeleteLine}, 2, 1, 1, 0, 0),
     Scenario(LineAndCircle, TRUE, {UpdateLine, UpdateCircle, Unplanned}, 2, 1, 0, 1, 0),
     Scenario(LineAndCircle, TRUE, {CreateLine, UpdateLine}, 1, 1, 2, 1, 0),
     Scenario(Curved, TRUE, {UpdatePolyline, CreateLine}, 2, 0, 1, 1, 1),
     Scenario(OneLine, FALSE, {CreateLine, UpdateLine, DeleteLine}, 2, 1, 1, 1, 0)}
=============================================================================
