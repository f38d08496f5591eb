--------------------------- MODULE MCStateStore ---------------------------
(* Three processes: p with --sync saves the states of two manifests from   *)
(* two goroutines, q and u save one of them each, u with --sync.  The      *)
(* names contain what RBAC names may, and look like escape sequences.      *)
EXTENDS StateStorage, TLC

CONSTANTS p, q, u, r, s, t, v, m, n

ProcessMap == [x \in {r, s, t, v} |-> CASE x = t -> q [] x = v -> u [] OTHER -> p]
FieldNames == {<<"a">>, <<"_", "x">>, <<"x", ":", "a">>, <<"_", "x", "5", "f">>}
TargetMap == [x \in {r, s, t, v} |-> IF x = s THEN n ELSE m]

(* Bytes of every class the code tells apart, and all that can be mistaken *)
(* for an escape sequence; "metadata" stands for eight plain bytes.        *)
PlainBytes == {"-", "x", "5", "f", "3", "a", "metadata"}
Digits == {"5", "f", "3", "a"}
HexOf == ("_" :> <<"5", "f">>) @@ (":" :> <<"3", "a">>)
Metadata == <<"metadata">>
=============================================================================
