-------------------------- MODULE MCManifestSync --------------------------
(* Instances of ManifestSync. *)
EXTENDS ManifestSync

CONSTANTS A, B, x, y

Run(kind, prune, atomic) == [kind |-> kind, prune |-> prune, atomic |-> atomic]

AllKinds == {Run("apply", FALSE, FALSE), Run("sync", FALSE, FALSE), Run("sync", TRUE, FALSE),
             Run("sync", TRUE, TRUE), Run("destroy", FALSE, FALSE)}
SyncKinds == {Run("sync", p, t) : p \in BOOLEAN, t \in BOOLEAN}

OneLayer == <<Manifests>>
RendersBoth == [m \in Manifests |-> {x, y}]
=============================================================================
