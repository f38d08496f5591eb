---------------------------- MODULE MCManifests ----------------------------
(***************************************************************************)
(* Small manifest lists for the runs of the dependency graph modules.      *)
(***************************************************************************)
EXTENDS Integers, Sequences

CONSTANTS a, b, c, d, none

NameSet == {a, b, c, d}

Entry(n, deps) == [name |-> n, dependsOn |-> deps, tags |-> {}, tests |-> "none"]

(* Up to three manifests: missing, duplicate and unknown names, repeated   *)
(* entries, references to oneself and to the empty name.                   *)
Untidy ==
    LET deps == {<<>>, <<none>>}
                \cup {<<x>> : x \in {a, b, c}}
                \cup {<<x, y>> : x \in {a, b, c}, y \in {a, b, c}}
        entry == {Entry(n, s) : n \in {a, b, none}, s \in deps}
    IN  UNION {[1..n -> entry] : n \in 0..2}
        \cup {<<x, y, z>> : x \in entry, y \in entry,
                            z \in {Entry(c, s) : s \in deps}}

(* Four manifests with distinct names and any dependency sets: every graph *)
(* on four nodes, cycles of each length included.                          *)
Graphs4 ==
    LET inOrder(S) == (IF a \in S THEN <<a>> ELSE <<>>)
                      \o (IF b \in S THEN <<b>> ELSE <<>>)
                      \o (IF c \in S THEN <<c>> ELSE <<>>)
                      \o (IF d \in S THEN <<d>> ELSE <<>>)
        row(n) == {Entry(n, inOrder(S)) : S \in SUBSET (NameSet \ {n})}
    IN  {<<w, x, y, z>> : w \in row(a), x \in row(b), y \in row(c), z \in row(d)}

SmallInputs == Untidy \cup Graphs4
=============================================================================
