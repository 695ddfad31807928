--------------------------- MODULE MCDiscardLedger ---------------------------
(* The two routes of a discard: instances for TLC. *)
EXTENDS DiscardLedger

CONSTANTS outer, inner, loose, other

\* One payload whose Drop discards another, two on their own that declare nothing.
MCPayloads == {outer, inner, loose, other}
MCDeclared == [p \in MCPayloads |-> IF p = outer THEN 3 ELSE IF p = inner THEN 1 ELSE 0]
MCStruct == [p \in MCPayloads |-> IF p = inner THEN 2 ELSE 1]
MCInner == [p \in MCPayloads |-> IF p = outer THEN {inner} ELSE {}]

On(target, lane) == [target |-> target, lane |-> lane]
EveryBuild == {On("wasm", FALSE), On("desktop", TRUE), On("desktop", FALSE), On("mobile", TRUE)}

=============================================================================
