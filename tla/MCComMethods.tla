---------------------------- MODULE MCComMethods ----------------------------
(* Instances of ComMethods for TLC. *)
EXTENDS ComMethods

EachMethod == {<<m>> : m \in AllMethods \ {"viewportDelete"}}
TwoViewportCalls == {<<"viewportCreate", "viewportDelete">>}
ThreeViewportCalls == {<<"viewportCreate", "read", "viewportDelete">>}
ReadAfterwards == {<<"hatch", "read">>}
SomeScripts == EachMethod \cup TwoViewportCalls \cup ThreeViewportCalls \cup ReadAfterwards
=============================================================================
