-------------------------- MODULE DependencyOrder --------------------------
(***************************************************************************)
(* runner.ResolveDependencyOrder (pkg/runner/dag.go): manifests are cut    *)
(* into layers that may be applied in parallel.  Without any dependsOn     *)
(* every manifest is a layer of its own, in declaration order; otherwise   *)
(* each iteration of Kahn's algorithm yields one layer.                    *)
(*                                                                         *)
(* A layer is the set of the indices of its manifests: the order inside a  *)
(* layer only decides in which order goroutines are spawned.               *)
(***************************************************************************)
EXTENDS ManifestGraph

VARIABLES
    inDegree,       \* in-degree per manifest, -1 once it is in a layer
    layers,         \* the layers found so far
    resolution      \* "none", "layering", "ok" (layers returned) or "error"

orderVars == <<manifests, inDegree, layers, resolution>>

Placed == UNION {layers[d] : d \in DOMAIN layers}

(* The manifests of the next layer. *)
Ready == {i \in DOMAIN manifests : inDegree[i] = 0}

OrderInit ==
    /\ manifests \in Inputs
    /\ inDegree = <<>>
    /\ layers = <<>>
    /\ resolution = "none"

(* No manifests, or no dependsOn anywhere: one layer per manifest. *)
ResolveSequential ==
    /\ resolution = "none"
    /\ ~HasAnyDependsOn(manifests)
    /\ layers' = [i \in 1..Len(manifests) |-> {i}]
    /\ resolution' = "ok"
    /\ UNCHANGED <<manifests, inDegree>>

(* The loop that builds inDegree returns at the first bad reference. *)
BuildInDegree ==
    /\ resolution = "none"
    /\ HasAnyDependsOn(manifests)
    /\ IF BadReference(manifests)
       THEN /\ resolution' = "error"
            /\ UNCHANGED inDegree
       ELSE /\ resolution' = "layering"
            /\ inDegree' = InitialInDegree(manifests)
    /\ UNCHANGED <<manifests, layers>>

(* Mutant: only one of the ready manifests goes into the layer. *)
NextLayerOneByOne ==
    /\ resolution = "layering"
    /\ Ready # {}
    /\ \E i \in Ready :
         /\ layers' = Append(layers, {i})
         /\ inDegree' = Release(manifests, inDegree, {i})
    /\ UNCHANGED <<manifests, resolution>>

(* One iteration of the loop "for processed < len(manifests)". *)
NextLayer ==
    /\ resolution = "layering"
    /\ Ready # {}
    /\ layers' = Append(layers, Ready)
    /\ inDegree' = Release(manifests, inDegree, Ready)
    /\ UNCHANGED <<manifests, resolution>>

(* The loop ends: either every manifest was processed or none is ready. *)
FinishLayering ==
    /\ resolution = "layering"
    /\ Ready = {}
    /\ resolution' = IF Placed = DOMAIN manifests THEN "ok" ELSE "error"
    /\ UNCHANGED <<manifests, inDegree, layers>>

Resolve == ResolveSequential \/ BuildInDegree \/ NextLayer \/ FinishLayering

(* The function has returned. *)
Resolved ==
    /\ resolution \in {"ok", "error"}
    /\ UNCHANGED orderVars

OrderNext == Resolve \/ Resolved

OrderSpec == OrderInit /\ [][OrderNext]_orderVars /\ WF_orderVars(Resolve)

-----------------------------------------------------------------------------
OrderTypeOK ==
    /\ manifests \in Seq(Manifest)
    /\ \/ inDegree = <<>>
       \/ inDegree \in [DOMAIN manifests -> Int]
    /\ layers \in Seq(SUBSET DOMAIN manifests)
    /\ resolution \in {"none", "layering", "ok", "error"}

(* A manifest enters a layer only when everything it depends on is in an   *)
(* earlier one: what the per-layer barrier of the runner relies on.        *)
LayersRespectDependsOn ==
    \A d \in DOMAIN layers : \A i \in layers[d] :
        \A j \in DependencyIdx(manifests, i) :
            \E e \in 1..(d - 1) : j \in layers[e]

(* No manifest is applied twice: the layers are pairwise disjoint. *)
LayersDisjoint ==
    \A d, e \in DOMAIN layers : d # e => layers[d] \cap layers[e] = {}

(* When layers are returned, no manifest was dropped from them. *)
NothingDropped == resolution = "ok" => Placed = DOMAIN manifests

(* The function succeeds exactly on the inputs without a bad reference and *)
(* without a cycle, repeated dependsOn entries and duplicate names          *)
(* included.                                                               *)
ResolvesExactlyAcyclic ==
    /\ resolution = "ok" => Resolvable(manifests)
    /\ resolution = "error" => ~Resolvable(manifests)

(* "Dependency depth" layering: in DAG mode a manifest of a later layer    *)
(* has a dependency in the layer just before, so it could not start        *)
(* earlier.                                                                *)
LayersAreEarliest ==
    HasAnyDependsOn(manifests) =>
        \A d \in DOMAIN layers : d > 1 =>
            \A i \in layers[d] :
                DependencyIdx(manifests, i) \cap layers[d - 1] # {}
=============================================================================
