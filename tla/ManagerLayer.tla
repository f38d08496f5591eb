---------------------------- MODULE ManagerLayer ----------------------------
(***************************************************************************)
(* The managers of types genesissecret and helmfile at work in one         *)
(* process: every manifest of a layer has a goroutine, and the goroutines  *)
(* share the 1Password client (OpItemCache), the discovered capabilities   *)
(* (HelmfileRender), the provider registry and the cluster.  "apply" runs  *)
(* them in parallel, "build" and "destroy" one after the other.            *)
(*                                                                         *)
(* A fetched value is its source and that source's content.  A genesis-    *)
(* secret fetches its secrets in order, a helmfile its variables of type   *)
(* op.  What a helmfile manifest does with the rendered objects is         *)
(* ManifestSync's subject.                                                 *)
(***************************************************************************)
EXTENDS OpItemCache, HelmfileRender

CONSTANTS
    Layers,         \* layers to consider: caller -> [type, provider, needs, static, outputs]
    Providers,      \* spec.providers of tazuna.yaml: [name, type]
    Secrets,        \* names of Kubernetes Secrets
    Keys,           \* keys of secrets, names of variables
    Commands,
    None

(* A need: one item, and the keys its fields are mapped to.  The items of  *)
(* an envfile provider are all its one file.                               *)
Need == [item : Items, keys : SUBSET Keys]
Output == [stdout : BOOLEAN, secret : Secrets \cup {None}]
Value == [source : Items \cup {"static"}, content : Nat]
Data == [Keys -> Value \cup {None}]

ASSUME ManifestsAssumption ==
    /\ \A layer \in Layers : \A g \in Callers :
         /\ layer[g].type = IF g \in Renderers THEN "helmfile" ELSE "genesissecret"
         /\ layer[g].needs \in Seq(Need)
         /\ layer[g].static \subseteq Keys
         /\ layer[g].outputs \in Seq(Output)
    /\ Renderers \subseteq Callers /\ Commands \subseteq {"apply", "build", "destroy"}

ASSUME NoneAssumption == None \notin Value /\ None \notin Data

VARIABLES
    manifest,       \* caller -> the manifest it handles
    command,
    pc,             \* caller -> where its manager is
    step,           \* caller -> next need or output
    items,          \* caller -> items / vars collected
    live,           \* Secret -> its data, or None
    envfile         \* content of the file of the envfile provider

layerVars == <<manifest, command, pc, step, items, live, envfile>>
vars == <<opVars, helmVars, layerVars>>

NoData == [k \in Keys |-> None]

Init ==
    /\ OpInit /\ HelmInit
    /\ manifest \in Layers
    /\ command \in Commands
    /\ pc = [g \in Callers |-> "setup"]
    /\ step = [g \in Callers |-> 1]
    /\ items = [g \in Callers |-> NoData]
    /\ live \in {[s \in Secrets |-> None],
                 [s \in Secrets |-> [k \in Keys |-> [source |-> "static", content |-> 1]]]}
    /\ envfile = 0

Goto(g, place) == pc' = [pc EXCEPT ![g] = place]

-----------------------------------------------------------------------------
(***************************************************************************)
(* setupManagers and the provider registry.                                *)
(***************************************************************************)

(* Register refuses a name that is taken, registerProvider the reserved    *)
(* name and every type but envfile.                                        *)
RegistryBuilds ==
    /\ \A n \in DOMAIN Providers :
         Providers[n].name \notin {"", "default-op"} /\ Providers[n].type = "envfile"
    /\ \A m, n \in DOMAIN Providers : Providers[m].name = Providers[n].name => m = n

Registered == {"default-op"} \cup {Providers[n].name : n \in DOMAIN Providers}

SetupManagers ==
    /\ \A g \in Callers : pc[g] = "setup"
    /\ pc' = [g \in Callers |-> IF RegistryBuilds THEN "idle" ELSE "failed"]
    /\ UNCHANGED <<opVars, helmVars, manifest, command, step, items, live, envfile>>

ProviderName(g) == IF manifest[g].provider = "" THEN "default-op" ELSE manifest[g].provider

-----------------------------------------------------------------------------
(***************************************************************************)
(* Collecting the values.                                                  *)
(***************************************************************************)

Ended == {"done", "failed"}
Running(g) == pc[g] \notin Ended \cup {"setup", "idle"}

(* The file is read and the provider looked up; Destroy of a genesissecret *)
(* does without provider and values.                                       *)
Start(g) ==
    /\ pc[g] = "idle"
    /\ command # "apply" => \A h \in Callers : ~Running(h)
    /\ Goto(g, IF manifest[g].type = "helmfile" THEN "fetch"
               ELSE IF command = "destroy" THEN "outputs"
               ELSE IF ProviderName(g) \in Registered THEN "fetch" ELSE "failed")
    /\ UNCHANGED <<opVars, helmVars, manifest, command, step, items, live, envfile>>

Fetching(g) == pc[g] = "fetch" /\ step[g] <= Len(manifest[g].needs)
CurrentNeed(g) == manifest[g].needs[step[g]]
FromOp(g) == manifest[g].type = "helmfile" \/ ProviderName(g) = "default-op"

(* Mutant: values that are there already are kept. *)
MergeKeeping(m1, m2) == [k \in Keys |-> IF m1[k] # None THEN m1[k] ELSE m2[k]]

Merge(m1, m2) == [k \in Keys |-> IF m2[k] # None THEN m2[k] ELSE m1[k]]

(* mapTo, when every wanted field is there. *)
MapTo(need, content) ==
    [k \in Keys |-> IF k \in need.keys THEN [source |-> need.item, content |-> content] ELSE None]

StaticData(g) ==
    [k \in Keys |-> IF k \in manifest[g].static THEN [source |-> "static", content |-> 0] ELSE None]

Collected(g, content) ==
    /\ items' = [items EXCEPT ![g] = Merge(@, MapTo(CurrentNeed(g), content))]
    /\ step' = [step EXCEPT ![g] = @ + 1]

CallOp(g) ==
    /\ Fetching(g) /\ FromOp(g)
    /\ GetVaultItem(g, CurrentNeed(g).item)
    /\ UNCHANGED <<helmVars, layerVars>>

OpStep(g) ==
    /\ OnceDo(g) \/ FetchVaultItem(g)
    /\ UNCHANGED <<helmVars, layerVars>>

OpAnswers(g) ==
    /\ Fetching(g)
    /\ ReturnItem(g)
    /\ Collected(g, entry[call[g].id].content)
    /\ UNCHANGED <<helmVars, manifest, command, pc, live, envfile>>

(* A wanted field is missing in the item. *)
OpAnswersShort(g) ==
    /\ Fetching(g)
    /\ ReturnItem(g)
    /\ Goto(g, "failed")
    /\ UNCHANGED <<helmVars, manifest, command, step, items, live, envfile>>

OpFails(g) ==
    /\ Fetching(g)
    /\ ReturnError(g)
    /\ Goto(g, "failed")
    /\ UNCHANGED <<helmVars, manifest, command, step, items, live, envfile>>

(* EnvFileProvider.Fetch reads the file anew for every secret. *)
ReadEnvFile(g) ==
    /\ Fetching(g) /\ ~FromOp(g)
    /\ Collected(g, envfile)
    /\ UNCHANGED <<opVars, helmVars, manifest, command, pc, live, envfile>>

ReadEnvFileFails(g) ==
    /\ Fetching(g) /\ ~FromOp(g)
    /\ Goto(g, "failed")
    /\ UNCHANGED <<opVars, helmVars, manifest, command, step, items, live, envfile>>

(* All values are there: a helmfile is rendered (or its other variables    *)
(* and hints are in error); a genesissecret adds the static values; its    *)
(* Build renders the outputs and insists that there is one.                *)
Fetched(g) ==
    /\ pc[g] = "fetch" /\ ~Fetching(g)
    /\ step' = [step EXCEPT ![g] = 1]
    /\ IF manifest[g].type = "helmfile"
       THEN (Goto(g, "render") \/ Goto(g, "failed")) /\ UNCHANGED items
       ELSE /\ items' = [items EXCEPT ![g] = Merge(@, StaticData(g))]
            /\ Goto(g, IF command = "build" /\ Len(manifest[g].outputs) = 0 THEN "failed" ELSE "outputs")
    /\ UNCHANGED <<opVars, helmVars, manifest, command, live, envfile>>

-----------------------------------------------------------------------------
(***************************************************************************)
(* The outputs of a genesissecret.                                         *)
(***************************************************************************)

ClassifyOutput(o) ==
    IF o.stdout = (o.secret # None) THEN "invalid" ELSE IF o.stdout THEN "stdout" ELSE "secret"

CurrentOutput(g) == manifest[g].outputs[step[g]]
AtOutput(g) == pc[g] = "outputs" /\ step[g] <= Len(manifest[g].outputs)

(* stringData is merged into the data by the API server: keys that are no  *)
(* longer produced stay.                                                   *)
CreateOrUpdate(s, data) ==
    [live EXCEPT ![s] = Merge(IF live[s] = None THEN NoData ELSE live[s], data)]

HandleOutput(g) ==
    /\ AtOutput(g)
    /\ ClassifyOutput(CurrentOutput(g)) # "invalid"
    /\ live' = IF ClassifyOutput(CurrentOutput(g)) = "stdout" \/ command = "build" THEN live
               ELSE IF command = "destroy" THEN [live EXCEPT ![CurrentOutput(g).secret] = None]
               ELSE CreateOrUpdate(CurrentOutput(g).secret, items[g])
    /\ step' = [step EXCEPT ![g] = @ + 1]
    /\ UNCHANGED <<opVars, helmVars, manifest, command, pc, items, envfile>>

(* The output is invalid or the API call fails; earlier outputs stay. *)
OutputFails(g) ==
    /\ AtOutput(g)
    /\ Goto(g, "failed")
    /\ UNCHANGED <<opVars, helmVars, manifest, command, step, items, live, envfile>>

OutputsDone(g) ==
    /\ pc[g] = "outputs" /\ ~AtOutput(g)
    /\ Goto(g, "done")
    /\ UNCHANGED <<opVars, helmVars, manifest, command, step, items, live, envfile>>

-----------------------------------------------------------------------------
(***************************************************************************)
(* Rendering a helmfile.                                                   *)
(***************************************************************************)

Render(g) ==
    /\ g \in Renderers /\ pc[g] = "render"
    /\ \E r \in Releases(g) : ReleaseStep(g, r)
    /\ UNCHANGED <<opVars, layerVars>>

(* Mutant: the first error ends the wait. *)
RenderedEarly(g) ==
    /\ g \in Renderers /\ pc[g] = "render"
    /\ \/ AllReleases(g, {"ok"}) /\ Goto(g, "done")
       \/ (\E r \in Releases(g) : rel[g][r].at = "err") /\ Goto(g, "failed")
    /\ UNCHANGED <<opVars, helmVars, manifest, command, step, items, live, envfile>>

(* g.Wait, and the error if there is one. *)
Rendered(g) ==
    /\ g \in Renderers /\ pc[g] = "render"
    /\ AllReleases(g, {"ok", "err"})
    /\ Goto(g, IF AllReleases(g, {"ok"}) THEN "done" ELSE "failed")
    /\ UNCHANGED <<opVars, helmVars, manifest, command, step, items, live, envfile>>

ManagerStep(g) ==
    \/ Start(g) \/ CallOp(g) \/ OpStep(g) \/ OpAnswers(g) \/ OpAnswersShort(g) \/ OpFails(g)
    \/ ReadEnvFile(g) \/ ReadEnvFileFails(g) \/ Fetched(g)
    \/ HandleOutput(g) \/ OutputFails(g) \/ OutputsDone(g)
    \/ Render(g) \/ Rendered(g)

(* Somebody changes an item of the vault or the envfile. *)
RotateItem(i) == Rotate(i) /\ UNCHANGED <<helmVars, layerVars>>

EditEnvFile ==
    /\ envfile < MaxRotations
    /\ envfile' = envfile + 1
    /\ UNCHANGED <<opVars, helmVars, manifest, command, pc, step, items, live>>

Rest == (\A g \in Callers : pc[g] \in Ended) /\ UNCHANGED vars

Next ==
    \/ SetupManagers
    \/ \E g \in Callers : ManagerStep(g)
    \/ \E i \in Items : RotateItem(i)
    \/ EditEnvFile
    \/ Rest

(* The op command and API calls return; goroutines are scheduled. *)
Spec ==
    /\ Init /\ [][Next]_vars
    /\ WF_vars(SetupManagers) /\ \A g \in Callers : WF_vars(ManagerStep(g))

-----------------------------------------------------------------------------
TypeOK ==
    /\ OpTypeOK /\ HelmTypeOK
    /\ pc \in [Callers -> {"setup", "idle", "fetch", "outputs", "render"} \cup Ended]
    /\ step \in [Callers -> Nat]
    /\ items \in [Callers -> Data]
    /\ live \in [Secrets -> Data \cup {None}]

(* The sources of key k for manifest g: static wins, then the last secret. *)
DeclaredSource(g, k) ==
    LET js == {j \in DOMAIN manifest[g].needs : k \in manifest[g].needs[j].keys}
    IN  IF k \in manifest[g].static THEN "static"
        ELSE IF js = {} THEN None
        ELSE manifest[g].needs[CHOOSE j \in js : \A i \in js : i <= j].item

(* After an "apply" that succeeded, every Secret it declares has for every *)
(* declared key a value from the declared source, with static values and   *)
(* later secrets taking precedence; for 1Password it is the content all    *)
(* other goroutines got.                                                   *)
SecretsAsDeclared ==
    \A g \in Callers : manifest[g].type = "genesissecret" /\ command = "apply" /\ pc[g] = "done" =>
        \A n \in DOMAIN manifest[g].outputs : \A k \in Keys :
            LET target == manifest[g].outputs[n].secret
                source == DeclaredSource(g, k)
            IN  target # None /\ source # None =>
                    /\ live[target] # None /\ live[target][k] # None /\ live[target][k].source = source
                    /\ FromOp(g) /\ source # "static" =>
                         \E a \in DOMAIN entry :
                            /\ entry[a].item = source /\ entry[a].status = "ok"
                            /\ entry[a].content = live[target][k].content

(* No goroutine waits for ever for another one's call of op, or for a slot *)
(* of the errgroup, and none is left rendering when its manager returned.  *)
ManagersEnd ==
    <>[](/\ \A g \in Callers : pc[g] \in Ended
         /\ \A g \in Renderers : AllReleases(g, {"ok", "err"}) \/ AllReleases(g, {"todo"}))
=============================================================================
