--------------------------- MODULE MCTableSession ---------------------------
(* Small instances of TableSession: two machines and the sessions submitted *)
(* on them.                                                                 *)
EXTENDS TableSession

CONSTANTS i1, i2

TargetsBoth == [s \in Session |-> {i1, i2}]
TargetsFirst == [s \in Session |-> {i1}]
TargetsApart == [s \in Session |-> IF s = 1 THEN {i1} ELSE {i2}]

=============================================================================
