----------------------------- MODULE MCReports -----------------------------
(* Instances of Reports. *)
EXTENDS Reports, TLC

CONSTANTS A, B, x, y, z, c1, c2

Run(kind, prune, atomic) == [kind |-> kind, prune |-> prune, atomic |-> atomic]

ApplyAndSync == {Run("apply", FALSE, FALSE), Run("sync", FALSE, FALSE), Run("sync", TRUE, TRUE)}
ApplyOnly == {Run("apply", FALSE, FALSE)}

OneLayer == <<Manifests>>
TwoLayers == <<{A}, {B}>>
RendersOwn == [m \in Manifests |-> IF m = A THEN {x, y} ELSE {z}]
ContentSymmetry == Permutations(Contents)
=============================================================================
