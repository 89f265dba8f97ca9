---------------------------- MODULE EzdxfDrawing ----------------------------
(* The drawing of the headless DXF backend (backends/ezdxf_backend.py) and
   what each drawing operation makes of it. An operation is an operator from a
   drawing to the set of its possible outcomes [d, ok]: the drawing it leaves
   and whether it returned or raised. A drawing keeps what the operations look
   up or require of each other: layers with their state, entities with layer,
   space and block, blocks, layouts, header values. Geometry is one bit that a
   transformation flips. The library raises where its documentation allows.  *)
EXTENDS Integers, FiniteSets, Sequences

CONSTANTS Names,        \* layer names as clients spell them
          Fold,         \* [Names -> Names]: the key under which a table stores a name
          Zero,         \* the layer "0", which every drawing has
          BlockNames, Layouts,
          MaxHandle,    \* bound: entities created in one drawing
          Nil           \* "no such thing": layer, block, entity, drawing, path, call

Handles == 1..MaxHandle
Model == "Model"

Layer == [name : Names, on : BOOLEAN, frozen : BOOLEAN, locked : BOOLEAN]
Entity == [layer : Names, space : Layouts \cup {Model}, block : BlockNames \cup {Nil}, moved : BOOLEAN]
Block == [layers : SUBSET Names, blocks : SUBSET BlockNames]
Drawing ==
    [layers : [Names -> Layer \cup {Nil}], current : Names,
     layouts : SUBSET Layouts, space : Layouts \cup {Model},
     ents : [Handles -> Entity \cup {Nil}], seed : 1..(MaxHandle + 1),
     blocks : [BlockNames -> Block \cup {Nil}],
     metric : BOOLEAN, flawed : BOOLEAN, binding : Nat]

ASSUME DrawingAssumption ==
    /\ Zero \in Names
    /\ Fold \in [Names -> Names]
    /\ \A n \in Names : Fold[n] = Zero <=> n = Zero
    /\ MaxHandle \in Nat
    /\ Nil \notin Names /\ Nil \notin BlockNames /\ Nil \notin Layouts
    /\ Nil \notin Layer \cup Entity \cup Block \cup Drawing

NewLayer(n) == [name |-> n, on |-> TRUE, frozen |-> FALSE, locked |-> FALSE]

\* ezdxf.new: the layer "0", model space, nothing in it.
EmptyDrawing ==
    [layers |-> [n \in Names |-> IF n = Zero THEN NewLayer(Zero) ELSE Nil], current |-> Zero,
     layouts |-> {}, space |-> Model,
     ents |-> [h \in Handles |-> Nil], seed |-> 1,
     blocks |-> [b \in BlockNames |-> Nil],
     metric |-> TRUE, flawed |-> FALSE, binding |-> 0]

Returns(d) == [d |-> d, ok |-> TRUE]
Raises(d) == [d |-> d, ok |-> FALSE]
-----------------------------------------------------------------------------
\* Lookups. A table finds a name in any spelling; the drawing keeps spellings.
HasLayer(d, n) == d.layers[Fold[n]] # Nil
HasEntity(d, h) == d.ents[h] # Nil
HasBlock(d, b) == d.blocks[b] # Nil

\* _validate_layer: the layer asked for, else the current one.
Requested(d, n) == IF n = Nil THEN d.current ELSE n

Add(d, e) == [d EXCEPT !.ents[d.seed] = e, !.seed = @ + 1]

Plain(d, n) == [layer |-> n, space |-> d.space, block |-> Nil, moved |-> FALSE]

\* entity_create_line, _circle, _arc, _polyline, _text: the layer is checked,
\* the entity is added, its attributes are set.
CreateEntity(d, n) ==
    IF HasLayer(d, Requested(d, n)) THEN {Returns(Add(d, Plain(d, Requested(d, n))))} ELSE {Raises(d)}

\* hatch_create, dimension_*: the entity is added before its pattern, path or
\* rendering, which may raise; then it stays, on layer "0".
CreateComposite(d, n) ==
    IF HasLayer(d, Requested(d, n))
    THEN {Returns(Add(d, Plain(d, Requested(d, n)))), Raises(Add(d, Plain(d, Zero)))}
    ELSE {Raises(d)}

\* object_set_properties: everything is looked up before anything is set.
SetProperties(d, h, n) ==
    IF HasEntity(d, h) /\ HasLayer(d, n) THEN {Returns([d EXCEPT !.ents[h].layer = n])} ELSE {Raises(d)}

\* object_delete: only in the active space.
DeleteEntity(d, h) ==
    IF HasEntity(d, h) /\ d.ents[h].space = d.space THEN {Returns([d EXCEPT !.ents[h] = Nil])} ELSE {Raises(d)}

\* object_move, object_rotate, object_scale.
TransformEntity(d, h) ==
    IF HasEntity(d, h) THEN {Returns([d EXCEPT !.ents[h].moved = ~@])} ELSE {Raises(d)}

\* object_copy: the copy is added to the active space and moved.
CopyEntity(d, h) ==
    IF HasEntity(d, h)
    THEN {Returns(Add(d, [d.ents[h] EXCEPT !.space = d.space, !.moved = ~@]))}
    ELSE {Raises(d)}
-----------------------------------------------------------------------------
LayerCreate(d, n) ==
    IF HasLayer(d, n) THEN {Raises(d)} ELSE {Returns([d EXCEPT !.layers[Fold[n]] = NewLayer(n)])}

\* layer_set_current asks for existence only and keeps the caller's spelling.
LayerSetCurrent(d, n) ==
    IF HasLayer(d, n) THEN {Returns([d EXCEPT !.current = n])} ELSE {Raises(d)}

LayerChanges == [field : {"on", "frozen", "locked"}, to : BOOLEAN]

WithState(l, ch) ==
    [l EXCEPT !.on = IF ch.field = "on" THEN ch.to ELSE @,
              !.frozen = IF ch.field = "frozen" THEN ch.to ELSE @,
              !.locked = IF ch.field = "locked" THEN ch.to ELSE @]

\* layer_update_state: the state is set before the line type is looked up, and
\* a missing line type raises with the state already changed.
LayerUpdateState(d, n, ch, linetypeExists) ==
    LET new == [d EXCEPT !.layers[Fold[n]] = WithState(@, ch)]
        ofCurrent == Fold[n] = Fold[d.current]
                     /\ (ch = [field |-> "frozen", to |-> TRUE] \/ ch = [field |-> "on", to |-> FALSE])
    IN IF ~HasLayer(d, n) \/ ofCurrent THEN {Raises(d)}
       ELSE IF linetypeExists THEN {Returns(new)} ELSE {Raises(new)}

\* block_create: every entity is looked up before the block is made; a copy
\* the library refuses leaves the block with the copies made so far.
BlockOf(d, H) == [layers |-> {d.ents[h].layer : h \in H}, blocks |-> {d.ents[h].block : h \in H} \ {Nil}]

BlockCreate(d, b, H) ==
    IF HasBlock(d, b) \/ \E h \in H : ~HasEntity(d, h) THEN {Raises(d)}
    ELSE {Returns([d EXCEPT !.blocks[b] = BlockOf(d, H)])}
         \cup {Raises([d EXCEPT !.blocks[b] = BlockOf(d, G)]) : G \in SUBSET H \ {H}}

BlockInsert(d, b, n) ==
    IF HasBlock(d, b) /\ HasLayer(d, Requested(d, n))
    THEN {Returns(Add(d, [Plain(d, Requested(d, n)) EXCEPT !.block = b]))}
    ELSE {Raises(d)}
-----------------------------------------------------------------------------
LayoutCreate(d, l) ==
    IF l \in d.layouts THEN {Raises(d)} ELSE {Returns([d EXCEPT !.layouts = @ \cup {l}])}

LayoutSetCurrent(d, l) ==
    IF l \in d.layouts \cup {Model} THEN {Returns([d EXCEPT !.space = l])} ELSE {Raises(d)}

ConfigureUnits(d, metric) == {Returns([d EXCEPT !.metric = metric])}

\* drawing_audit: the library repairs what it finds.
Audit(d) == {Returns([d EXCEPT !.flawed = FALSE])}

\* drawing_purge: blocks that no INSERT anywhere refers to, then layers whose
\* own spelling is used by nothing that is left.
Live(d) == {d.ents[h] : h \in {h \in Handles : HasEntity(d, h)}}
UsedBlocks(d) ==
    {e.block : e \in Live(d)} \cup UNION {d.blocks[b].blocks : b \in {b \in BlockNames : HasBlock(d, b)}}
\* Mutant: layers used inside block definitions are not counted.
MutantUsedLayers(d) == {Zero, d.current} \cup {e.layer : e \in Live(d)}

UsedLayers(d) ==
    {Zero, d.current} \cup {e.layer : e \in Live(d)}
    \cup UNION {d.blocks[b].layers : b \in {b \in BlockNames : HasBlock(d, b)}}

Purge(d) ==
    LET rest == [d EXCEPT !.blocks = [b \in BlockNames |-> IF b \in UsedBlocks(d) THEN d.blocks[b] ELSE Nil]]
    IN {Returns([rest EXCEPT !.layers =
           [n \in Names |-> IF d.layers[n] # Nil /\ d.layers[n].name \in UsedLayers(rest) THEN d.layers[n] ELSE Nil]])}
-----------------------------------------------------------------------------
(* The mutating calls of a client, as data. *)
Edits ==
    [kind : {"create", "composite"}, layer : Names \cup {Nil}]
    \cup [kind : {"properties"}, ent : Handles, layer : Names]
    \cup [kind : {"delete", "transform", "copy"}, ent : Handles]
    \cup [kind : {"layer_create", "layer_set_current"}, layer : Names]
    \cup [kind : {"layer_update"}, layer : Names, change : LayerChanges, linetypeExists : BOOLEAN]
    \cup [kind : {"block_create"}, block : BlockNames, ents : SUBSET Handles \ {{}}]
    \cup [kind : {"block_insert"}, block : BlockNames, layer : Names \cup {Nil}]
    \cup [kind : {"layout_create"}, layout : Layouts]
    \cup [kind : {"layout_set_current"}, layout : Layouts \cup {Model}]
    \cup [kind : {"units"}, metric : BOOLEAN]
    \cup [kind : {"audit", "purge"}]

\* The edits that take a handle; the model stops before they run out.
Creates(e) == e.kind \in {"create", "composite", "copy", "block_insert"}

\* What an edit may make of a drawing.
Outcomes(e, d) ==
    CASE e.kind = "create" -> CreateEntity(d, e.layer)
      [] e.kind = "composite" -> CreateComposite(d, e.layer)
      [] e.kind = "properties" -> SetProperties(d, e.ent, e.layer)
      [] e.kind = "delete" -> DeleteEntity(d, e.ent)
      [] e.kind = "transform" -> TransformEntity(d, e.ent)
      [] e.kind = "copy" -> CopyEntity(d, e.ent)
      [] e.kind = "layer_create" -> LayerCreate(d, e.layer)
      [] e.kind = "layer_set_current" -> LayerSetCurrent(d, e.layer)
      [] e.kind = "layer_update" -> LayerUpdateState(d, e.layer, e.change, e.linetypeExists)
      [] e.kind = "block_create" -> BlockCreate(d, e.block, e.ents)
      [] e.kind = "block_insert" -> BlockInsert(d, e.block, e.layer)
      [] e.kind = "layout_create" -> LayoutCreate(d, e.layout)
      [] e.kind = "layout_set_current" -> LayoutSetCurrent(d, e.layout)
      [] e.kind = "units" -> ConfigureUnits(d, e.metric)
      [] e.kind = "audit" -> Audit(d)
      [] e.kind = "purge" -> Purge(d)
-----------------------------------------------------------------------------
\* Every INSERT, in a space or in a block, refers to a block of the drawing.
BlocksResolve(d) ==
    /\ \A h \in Handles : HasEntity(d, h) /\ d.ents[h].block # Nil => HasBlock(d, d.ents[h].block)
    /\ \A b \in BlockNames : HasBlock(d, b) => \A c \in d.blocks[b].blocks : HasBlock(d, c)

\* Every layer that the drawing, an entity or a block refers to is in the table.
LayersResolve(d) ==
    /\ HasLayer(d, Zero) /\ HasLayer(d, d.current)
    /\ \A h \in Handles : HasEntity(d, h) => HasLayer(d, d.ents[h].layer)
    /\ \A b \in BlockNames : HasBlock(d, b) => \A n \in d.blocks[b].layers : HasLayer(d, n)

\* The layer table keeps a layer under the key of its name.
LayersKeyed(d) == \A n \in Names : d.layers[n] # Nil => Fold[d.layers[n].name] = n

Sound(d) == BlocksResolve(d) /\ LayersResolve(d) /\ LayersKeyed(d)
=============================================================================
