--------------------------- MODULE MCDynamicWatch ---------------------------
(* Instances of DynamicWatch for TLC. *)
EXTENDS DynamicWatch

\* Two objects of one kind, which share a handler, and one of another.
ThreeObjects == [k \in {"a1", "a2", "b1"} |-> IF k = "b1" THEN "b" ELSE "a"]
=============================================================================
