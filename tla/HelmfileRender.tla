--------------------------- MODULE HelmfileRender ---------------------------
(***************************************************************************)
(* The rendering part of the helmfile manager: the releases of a manifest  *)
(* are rendered by an errgroup of limited size whose context is dropped,   *)
(* and all releases of all manifests share one discovery of the cluster's  *)
(* capabilities, under a sync.Once that keeps a failure as well.           *)
(***************************************************************************)
EXTENDS Integers, Sequences, FiniteSets

CONSTANTS
    Renderers,      \* goroutines of manifests of type helmfile
    Helmfile,       \* renderer -> [kubeVersion, releases]
    Repositories,   \* alias -> "http" or "oci": repositories[] of the helmfile
    HasCluster,     \* WithRESTConfig was given a config
    ReleaseRenderConcurrency

(* A chart is an oci:// URL, <alias>/<chart>, or a path (no alias). *)
Chart == [oci : BOOLEAN, alias : DOMAIN Repositories \cup {""}]

ASSUME HelmfileAssumption ==
    /\ \A g \in Renderers : Helmfile[g].kubeVersion \in {"", "valid", "invalid"}
                            /\ Helmfile[g].releases \in Seq(Chart)
    /\ \A alias \in DOMAIN Repositories : Repositories[alias] \in {"http", "oci"}
    /\ HasCluster \in BOOLEAN
    /\ ReleaseRenderConcurrency \in Nat \ {0}

VARIABLES
    caps,           \* discoveryOnce with cachedKubeVer and cachedAPIs
    rel             \* renderer -> release -> where its goroutine is

helmVars == <<caps, rel>>

(* What helm assumes without discovery. *)
DefaultCapabilities == [kube |-> "default", apis |-> "default"]

Discovery == [status : {"new", "version", "groups", "done"},
              by : {<<>>} \cup (Renderers \X Nat),
              found : [kube : {"default", "cluster"}, apis : {"default", "partial", "cluster"}]]

ReleaseState == [at : {"todo", "caps", "discover", "render", "ok", "err"},
                 kube : {"default", "cluster", "declared"}, apis : {"default", "partial", "cluster"}]

Releases(g) == DOMAIN Helmfile[g].releases

HelmInit ==
    /\ caps = [status |-> "new", by |-> <<>>, found |-> DefaultCapabilities]
    /\ rel = [g \in Renderers |->
                [r \in Releases(g) |-> [at |-> "todo", kube |-> "default", apis |-> "default"]]]

(* g.Go in a loop: in order, and blocked at the limit. *)
StartRelease(g, r) ==
    /\ rel[g][r].at = "todo"
    /\ \A q \in Releases(g) : q < r => rel[g][q].at # "todo"
    /\ Cardinality({q \in Releases(g) : rel[g][q].at \notin {"todo", "ok", "err"}})
         < ReleaseRenderConcurrency
    /\ rel' = [rel EXCEPT ![g][r].at = "caps"]
    /\ UNCHANGED caps

(* Mutant: a failed discovery is tried again by the next release. *)
DiscoveryPendingRetry ==
    caps.status = "new" \/ (caps.status = "done" /\ HasCluster /\ caps.found = DefaultCapabilities)

DiscoveryPending == caps.status = "new"

(* discoveryOnce.Do. *)
ClusterCapabilities(g, r) ==
    /\ rel[g][r].at = "caps"
    /\ \/ /\ DiscoveryPending /\ HasCluster
          /\ caps' = [caps EXCEPT !.status = "version", !.by = <<g, r>>]
          /\ rel' = [rel EXCEPT ![g][r].at = "discover"]
       \/ /\ DiscoveryPending /\ ~HasCluster
          /\ caps' = [caps EXCEPT !.status = "done"]
          /\ rel' = [rel EXCEPT ![g][r].at = "render"]
       \/ /\ ~DiscoveryPending /\ caps.status = "done"
          /\ rel' = [rel EXCEPT ![g][r].at = "render"]
          /\ UNCHANGED caps

(* ServerVersion: an error leaves the defaults in force for good. *)
ServerVersion(g, r) ==
    /\ caps.by = <<g, r>> /\ caps.status = "version"
    /\ \/ caps' = [caps EXCEPT !.status = "groups", !.found.kube = "cluster"] /\ UNCHANGED rel
       \/ /\ caps' = [caps EXCEPT !.status = "done"]
          /\ rel' = [rel EXCEPT ![g][r].at = "render"]

(* ServerGroupsAndResources: what part of the API groups answered is used. *)
ServerGroups(g, r) ==
    /\ caps.by = <<g, r>> /\ caps.status = "groups"
    /\ \E apis \in {"partial", "cluster"} :
         caps' = [caps EXCEPT !.status = "done", !.found.apis = apis]
    /\ rel' = [rel EXCEPT ![g][r].at = "render"]

RepositoryIsOCI(alias) == alias \in DOMAIN Repositories /\ Repositories[alias] = "oci"

ReleaseNeedsOCI(chart) == chart.oci \/ RepositoryIsOCI(chart.alias)

(* render creates one registry client if some release needs it. *)
RegistryClient(g) == \E r \in Releases(g) : ReleaseNeedsOCI(Helmfile[g].releases[r])

(* resolveChartPath: an OCI chart can only be pulled with the client. *)
ChartResolves(g, chart) ==
    chart.oci \/ RepositoryIsOCI(chart.alias) => RegistryClient(g)

(* The capabilities a release is rendered with: kubeVersion of the         *)
(* manifest takes precedence, the API versions are always the cluster's.   *)
ReleaseCapabilities(g) ==
    [kube |-> IF Helmfile[g].kubeVersion # "" THEN "declared" ELSE caps.found.kube,
     apis |-> caps.found.apis]

RenderRelease(g, r) ==
    /\ rel[g][r].at = "render"
    /\ Helmfile[g].kubeVersion # "invalid"
    /\ ChartResolves(g, Helmfile[g].releases[r])
    /\ rel' = [rel EXCEPT ![g][r] = [at |-> "ok", kube |-> ReleaseCapabilities(g).kube,
                                     apis |-> ReleaseCapabilities(g).apis]]
    /\ UNCHANGED caps

(* No chart is named, which is noticed before the discovery, or a chart, a *)
(* values file or the kubeVersion is bad; the siblings go on.              *)
ReleaseFails(g, r) ==
    /\ rel[g][r].at \in {"caps", "render"}
    /\ rel' = [rel EXCEPT ![g][r].at = "err"]
    /\ UNCHANGED caps

ReleaseStep(g, r) ==
    \/ StartRelease(g, r) \/ ClusterCapabilities(g, r) \/ ServerVersion(g, r) \/ ServerGroups(g, r)
    \/ RenderRelease(g, r) \/ ReleaseFails(g, r)

(* g.Wait. *)
AllReleases(g, places) == \A r \in Releases(g) : rel[g][r].at \in places

-----------------------------------------------------------------------------
HelmTypeOK ==
    /\ caps \in Discovery
    /\ rel \in [Renderers -> Seq(ReleaseState)]
    /\ \A g \in Renderers : DOMAIN rel[g] = Releases(g)

(* However the discovery went, all releases of all manifests of a run are  *)
(* rendered for the same cluster: the same API versions, and the same      *)
(* Kubernetes version unless the manifest declares one.  A run never mixes *)
(* discovered and default capabilities.                                    *)
SameCapabilities ==
    \A g, h \in Renderers : \A r \in Releases(g), s \in Releases(h) :
        rel[g][r].at = "ok" /\ rel[h][s].at = "ok" =>
            /\ rel[g][r].apis = rel[h][s].apis
            /\ \/ rel[g][r].kube = rel[h][s].kube
               \/ Helmfile[g].kubeVersion # "" \/ Helmfile[h].kubeVersion # ""
=============================================================================
