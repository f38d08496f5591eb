---------------------------- MODULE ManifestSync ----------------------------
(***************************************************************************)
(* What a run does to the cluster and to the state ConfigMaps, object by   *)
(* object, over several runs of "tazuna apply", "tazuna apply --sync       *)
(* [--prune] [--atomic]" and "tazuna destroy": SyncManifest, ApplyManifest *)
(* with saveManifestState, the Apply and Destroy methods of the managers   *)
(* and DestroyResourcesOnCluster.  Between runs the declaration is edited; *)
(* at any time somebody else may change a live object, an API call may     *)
(* fail (before or after taking effect) and the process may die.           *)
(*                                                                         *)
(* A rendered object is identified in the cluster by group, kind,          *)
(* namespace and name ("object"); its state key also holds the apiVersion  *)
(* it is rendered with.  Its content stands for the content hash.  The     *)
(* manifest name in a state key is the index of "stored".                  *)
(***************************************************************************)
EXTENDS Integers, Sequences, FiniteSets

CONSTANTS
    Manifests,      \* manifest names
    Objects,        \* identities of cluster objects
    Versions,       \* apiVersions an object may be rendered with
    Contents,       \* contents (hashes) of objects
    None,           \* no object / no entry
    Renders,        \* manifest -> the objects it may render
    Immutable,      \* Jobs and Pods: updated by delete and create
    Genesis,        \* manifests of type genesissecret: always-sync
    Layers,         \* the layers of the manifests
    Kinds,          \* the kinds of run considered
    MaxRuns, MaxEdits, MaxDrifts   \* bounds on the environment

RunKinds == {"apply", "sync", "destroy"}

ASSUME ConstantsAssumption ==
    /\ None \notin Contents
    /\ Renders \in [Manifests -> SUBSET Objects]
    /\ Immutable \subseteq Objects
    /\ Genesis \subseteq Manifests
    /\ \A m \in Genesis : Renders[m] \cap Immutable = {}     \* they render Secrets
    /\ Layers \in Seq(SUBSET Manifests)
    /\ UNION {Layers[d] : d \in DOMAIN Layers} = Manifests
    /\ Kinds \subseteq [kind : RunKinds, prune : BOOLEAN, atomic : BOOLEAN]
    /\ MaxRuns \in Nat /\ MaxEdits \in Nat /\ MaxDrifts \in Nat

Key == Objects \X Versions
Entries == [Key -> Contents \cup {None}]
NoEntries == [k \in Key |-> None]
Rendering == [version : Versions, content : Contents]

(* What a manifest may render to. *)
Declarations(m) ==
    {d \in [Objects -> Rendering \cup {None}] : \A o \in Objects \ Renders[m] : d[o] = None}

VARIABLES
    declared,       \* the manifests in tazuna.yaml
    desired,        \* manifest -> what Build renders
    live,           \* object -> content in the cluster
    stored,         \* manifest -> entries of its state ConfigMap
    opts,           \* kind and options of the run
    outcome,        \* "running", "ok" or "failed"; "none": nothing run since an edit
    pc,             \* manifest -> where its goroutine is
    old,            \* manifest -> stateData read by store.Get
    todo,           \* manifest -> keys still to be processed
    entries,        \* manifest -> newEntries / currentEntries
    pending,        \* manifests in pendingSaves
    runs, edits, drifts,
    (* History variables, read by properties only. *)
    drifted,        \* objects changed by others since the run started
    unsaved,        \* <<m, o>>: m wrote object o and has not saved its entry since
    excused,        \* manifests whose state may be wrong for a known reason
    installed       \* objects tazuna has created and not given up

histVars == <<drifted, unsaved, excused, installed>>
worldVars == <<declared, desired, runs, edits, drifts>>
vars == <<declared, desired, live, stored, opts, outcome, pc, old, todo,
          entries, pending, runs, edits, drifts, drifted, unsaved, excused, installed>>

(* currentEntries of a rendering. *)
CurrentEntries(d) ==
    [k \in Key |-> IF d[k[1]] # None /\ d[k[1]].version = k[2]
                   THEN d[k[1]].content ELSE None]

Current(m) == CurrentEntries(desired[m])

Keys(e) == {k \in Key : e[k] # None}

Rendered(m) == {o \in Objects : desired[m][o] # None}

Init ==
    /\ declared = Manifests
    /\ desired \in {f \in [Manifests -> [Objects -> Rendering \cup {None}]] :
                      \A m \in Manifests : f[m] \in Declarations(m)}
    /\ live = [o \in Objects |-> None]
    /\ stored = [m \in Manifests |-> NoEntries]
    /\ opts \in Kinds
    /\ outcome = "none"
    /\ pc = [m \in Manifests |-> "idle"]
    /\ old = [m \in Manifests |-> NoEntries]
    /\ todo = [m \in Manifests |-> {}]
    /\ entries = [m \in Manifests |-> NoEntries]
    /\ pending = {}
    /\ runs = 0 /\ edits = 0 /\ drifts = 0
    /\ drifted = {} /\ unsaved = {} /\ excused = {} /\ installed = {}

-----------------------------------------------------------------------------
(***************************************************************************)
(* ComputeDiff and the order of its result.                                *)
(***************************************************************************)

DiffType(m, k) ==
    LET cur == Current(m)[k]
    IN  IF cur = None THEN (IF old[m][k] = None THEN "same" ELSE "removed")
        ELSE IF m \in Genesis THEN "always-sync"
        ELSE IF old[m][k] = None THEN "added"
        ELSE IF old[m][k] # cur THEN "modified" ELSE "same"

DiffTypeOrder(type) ==
    CASE type = "added" -> 0 [] type = "modified" -> 1
      [] type = "removed" -> 2 [] type = "always-sync" -> 3 [] OTHER -> 4

(* Mutant: an entry counts as changed only when it is new. *)
ComputeDiffAddedOnly(m, state) ==
    {k \in Key : Current(m)[k] # None /\ state[k] = None}

(* The keys of the diff. *)
ComputeDiff(m, state) ==
    {k \in Key :
        \/ Current(m)[k] = None /\ state[k] # None
        \/ Current(m)[k] # None /\ (m \in Genesis \/ state[k] # Current(m)[k])}

(* The entries the loop may process next: in sync mode those of the lowest *)
(* diff type; the order of equal types, and of rendered objects, is not    *)
(* fixed here.                                                             *)
NextEntries(m) ==
    {k \in todo[m] :
        opts.kind = "sync" =>
            \A j \in todo[m] :
                DiffTypeOrder(DiffType(m, k)) <= DiffTypeOrder(DiffType(m, j))}

-----------------------------------------------------------------------------
(***************************************************************************)
(* The run.                                                                *)
(***************************************************************************)

StartRun(o) ==
    /\ outcome # "running"
    /\ runs < MaxRuns
    /\ runs' = runs + 1
    /\ opts' = o
    /\ outcome' = "running"
    /\ pc' = [m \in Manifests |-> "idle"]
    /\ old' = [m \in Manifests |-> NoEntries]
    /\ todo' = [m \in Manifests |-> {}]
    /\ entries' = [m \in Manifests |-> NoEntries]
    /\ pending' = {}
    /\ drifted' = {}
    /\ UNCHANGED <<declared, desired, live, stored, edits, drifts, unsaved, excused, installed>>

Busy(m) == pc[m] \in {"working", "testing"}

(* apply starts a layer after the layers before it ended without an error; *)
(* destroy takes the manifests one by one and stops at the first error.    *)
MayStart(m) ==
    /\ outcome = "running"
    /\ m \in declared
    /\ pc[m] = "idle"
    /\ IF opts.kind = "destroy"
       THEN \A n \in Manifests : pc[n] \in {"idle", "done"}
       ELSE \E d \in DOMAIN Layers :
              /\ m \in Layers[d]
              /\ \A e \in 1..(d - 1) : \A n \in Layers[e] \cap declared : pc[n] = "done"

(* Render; with --sync read the state and compute the difference.  Without *)
(* a difference SyncManifest goes straight to the tests.                   *)
Begin(m) ==
    /\ MayStart(m)
    /\ old' = [old EXCEPT ![m] = stored[m]]
    /\ LET diff == IF opts.kind = "sync" THEN ComputeDiff(m, stored[m]) ELSE Keys(Current(m))
       IN  /\ todo' = [todo EXCEPT ![m] = diff]
           /\ pc' = [pc EXCEPT ![m] = IF opts.kind = "sync" /\ diff = {}
                                      THEN "testing" ELSE "working"]
    /\ entries' = [entries EXCEPT ![m] = IF opts.kind = "sync" THEN stored[m] ELSE NoEntries]
    /\ UNCHANGED <<worldVars, live, stored, opts, outcome, pending, histVars>>

(* Building, pulling or reading the state fails. *)
BeginFails(m) ==
    /\ MayStart(m)
    /\ pc' = [pc EXCEPT ![m] = "failed"]
    /\ UNCHANGED <<worldVars, live, stored, opts, outcome, old, todo, entries,
                   pending, histVars>>

Processing(m, k) == pc[m] = "working" /\ k \in NextEntries(m)

(* A step that makes object o have the given content. *)
Write(m, o, content) ==
    /\ live' = [live EXCEPT ![o] = content]
    /\ unsaved' = unsaved \cup {<<m, o>>}
    /\ installed' = IF content # None THEN installed \cup {o} ELSE installed
    /\ drifted' = drifted \ {o}

(* CreateOrUpdateForObject: server-side apply, or delete and create. *)
ApplyEntry(m, k) ==
    /\ Processing(m, k)
    /\ opts.kind # "destroy"
    /\ Current(m)[k] # None
    /\ Write(m, k[1], Current(m)[k])
    /\ entries' = [entries EXCEPT ![m][k] = Current(m)[k]]
    /\ todo' = [todo EXCEPT ![m] = @ \ {k}]
    /\ UNCHANGED <<worldVars, stored, opts, outcome, pc, old, pending, excused>>

(* Mutant: the key of a pruned object is not deleted from newEntries. *)
PruneEntryKeepsKey(m, k) ==
    /\ Processing(m, k)
    /\ opts.kind = "sync" /\ opts.prune
    /\ Current(m)[k] = None
    /\ Write(m, k[1], None)
    /\ todo' = [todo EXCEPT ![m] = @ \ {k}]
    /\ UNCHANGED <<worldVars, stored, opts, outcome, pc, old, entries, pending, excused>>

(* A removed entry with --prune: the object named by the key is deleted. *)
PruneEntry(m, k) ==
    /\ Processing(m, k)
    /\ opts.kind = "sync" /\ opts.prune
    /\ Current(m)[k] = None
    /\ Write(m, k[1], None)
    /\ entries' = [entries EXCEPT ![m][k] = None]
    /\ todo' = [todo EXCEPT ![m] = @ \ {k}]
    /\ UNCHANGED <<worldVars, stored, opts, outcome, pc, old, pending, excused>>

(* Mutant: a removed entry is dropped from the state although its object   *)
(* was not deleted.                                                        *)
KeepRemovedForgets(m, k) ==
    /\ Processing(m, k)
    /\ opts.kind = "sync" /\ ~opts.prune
    /\ Current(m)[k] = None
    /\ entries' = [entries EXCEPT ![m][k] = None]
    /\ todo' = [todo EXCEPT ![m] = @ \ {k}]
    /\ UNCHANGED <<worldVars, live, stored, opts, outcome, pc, old, pending, histVars>>

(* A removed entry without --prune is kept in the state. *)
KeepRemoved(m, k) ==
    /\ Processing(m, k)
    /\ opts.kind = "sync" /\ ~opts.prune
    /\ Current(m)[k] = None
    /\ todo' = [todo EXCEPT ![m] = @ \ {k}]
    /\ UNCHANGED <<worldVars, live, stored, opts, outcome, pc, old, entries,
                   pending, histVars>>

(* Manager.Destroy deletes every rendered object; the state is not read or *)
(* written.                                                                *)
DestroyEntry(m, k) ==
    /\ Processing(m, k)
    /\ opts.kind = "destroy"
    /\ Write(m, k[1], None)
    /\ excused' = excused \cup {m}
    /\ todo' = [todo EXCEPT ![m] = @ \ {k}]
    /\ UNCHANGED <<worldVars, stored, opts, outcome, pc, old, entries, pending>>

(* What a failed call may leave behind: nothing, the intended object or,   *)
(* for a Job or Pod, an object that was deleted and not created again.     *)
PartialEffects(m, k) ==
    LET goal == IF opts.kind = "destroy" THEN None ELSE Current(m)[k]
    IN  {goal} \cup (IF k[1] \in Immutable THEN {None} ELSE {})

(* Mutant: the error is logged and the loop goes on. *)
EntryFailsUnnoticed(m, k) ==
    /\ Processing(m, k)
    /\ opts.kind # "destroy" /\ Current(m)[k] # None
    /\ entries' = [entries EXCEPT ![m][k] = Current(m)[k]]
    /\ todo' = [todo EXCEPT ![m] = @ \ {k}]
    /\ UNCHANGED <<worldVars, live, stored, opts, outcome, pc, old, pending, histVars>>

(* The call fails without effect, or after part of it.  A plain apply that *)
(* loses an unchanged Job or Pod leaves a state that still lists it, as a  *)
(* destroy does.                                                           *)
EntryFails(m, k) ==
    /\ Processing(m, k)
    /\ opts.kind = "sync" /\ Current(m)[k] = None => opts.prune
    /\ \/ UNCHANGED <<live, histVars>>
       \/ /\ \E content \in PartialEffects(m, k) : Write(m, k[1], content)
          /\ excused' = IF opts.kind = "destroy" \/ (opts.kind = "apply" /\ k[1] \in Immutable)
                        THEN excused \cup {m} ELSE excused
    /\ pc' = [pc EXCEPT ![m] = "failed"]
    /\ UNCHANGED <<worldVars, stored, opts, outcome, old, todo, entries, pending>>

Processed(m) == pc[m] = "working" /\ todo[m] = {}

(* Waiting for readiness times out or, without --sync, a test fails. *)
NotReady(m) ==
    /\ Processed(m)
    /\ opts.kind # "destroy"
    /\ pc' = [pc EXCEPT ![m] = "failed"]
    /\ UNCHANGED <<worldVars, live, stored, opts, outcome, old, todo, entries,
                   pending, histVars>>

(* The objects whose entry is carried over although they are no longer     *)
(* rendered: removed entries without --prune.                              *)
Kept(m) == {o \in Objects : \E v \in Versions :
                entries[m][<<o, v>>] # None /\ Current(m)[<<o, v>>] = None}

(* The ConfigMap of m is updated.  A plain apply records only objects it   *)
(* has just applied and gives up those that are no longer rendered.        *)
Update(m) ==
    /\ stored' = [stored EXCEPT ![m] = entries[m]]
    /\ installed' = IF opts.kind = "apply"
                    THEN installed \ (Renders[m] \ {k[1] : k \in Keys(entries[m])}) ELSE installed

(* The state of m becomes what this run recorded; after a plain apply a    *)
(* wrong state is right again.                                             *)
StoreEntries(m) ==
    /\ Update(m)
    /\ unsaved' = {p \in unsaved : p[1] = m => p[2] \in Kept(m)}
    /\ excused' = IF opts.kind = "apply" /\ Rendered(m) \cap drifted = {}
                  THEN excused \ {m} ELSE excused

AfterSave == IF opts.kind = "sync" THEN "testing" ELSE "done"

SaveState(m) ==
    /\ Processed(m)
    /\ opts.kind # "destroy"
    /\ ~opts.atomic
    /\ StoreEntries(m)
    /\ pc' = [pc EXCEPT ![m] = AfterSave]
    /\ UNCHANGED <<worldVars, live, opts, outcome, old, todo, entries, pending, drifted>>

(* store.Save reports an error; the update may have been carried out. *)
SaveFails(m) ==
    /\ Processed(m)
    /\ opts.kind # "destroy"
    /\ ~opts.atomic
    /\ Update(m) \/ UNCHANGED <<stored, installed>>
    /\ pc' = [pc EXCEPT ![m] = "failed"]
    /\ UNCHANGED <<worldVars, live, opts, outcome, old, todo, entries, pending,
                   drifted, unsaved, excused>>

BufferState(m) ==
    /\ Processed(m)
    /\ opts.kind = "sync" /\ opts.atomic
    /\ pending' = pending \cup {m}
    /\ pc' = [pc EXCEPT ![m] = AfterSave]
    /\ UNCHANGED <<worldVars, live, stored, opts, outcome, old, todo, entries, histVars>>

(* The tests SyncManifest runs last. *)
TestsEnd(m) ==
    /\ pc[m] = "testing"
    /\ pc' \in {[pc EXCEPT ![m] = "done"], [pc EXCEPT ![m] = "failed"]}
    /\ UNCHANGED <<worldVars, live, stored, opts, outcome, old, todo, entries,
                   pending, histVars>>

DestroyDone(m) ==
    /\ Processed(m)
    /\ opts.kind = "destroy"
    /\ pc' = [pc EXCEPT ![m] = "done"]
    /\ UNCHANGED <<worldVars, live, stored, opts, outcome, old, todo, entries,
                   pending, histVars>>

AllDone == outcome = "running" /\ \A m \in declared : pc[m] = "done"

(* --atomic: the bulk save after the last layer. *)
SavePending(m) ==
    /\ AllDone
    /\ m \in pending
    /\ StoreEntries(m)
    /\ pending' = pending \ {m}
    /\ UNCHANGED <<worldVars, live, opts, outcome, pc, old, todo, entries, drifted>>

SavePendingFails(m) ==
    /\ AllDone
    /\ m \in pending
    /\ Update(m) \/ UNCHANGED <<stored, installed>>
    /\ outcome' = "failed"
    /\ UNCHANGED <<worldVars, live, opts, pc, old, todo, entries, pending,
                   drifted, unsaved, excused>>

RunSucceeds ==
    /\ AllDone
    /\ pending = {}
    /\ outcome' = "ok"
    /\ UNCHANGED <<worldVars, live, stored, opts, pc, old, todo, entries, pending, histVars>>

(* wg.Wait, then the errors of the layer end the run; spec.tests may fail. *)
RunFails ==
    /\ outcome = "running"
    /\ \A m \in Manifests : ~Busy(m) /\ ~MayStart(m)
    /\ \/ \E m \in Manifests : pc[m] = "failed"
       \/ AllDone /\ pending = {} /\ opts.kind # "destroy"
    /\ outcome' = "failed"
    /\ UNCHANGED <<worldVars, live, stored, opts, pc, old, todo, entries, pending, histVars>>

(* The process dies. *)
Crash ==
    /\ outcome = "running"
    /\ outcome' = "failed"
    /\ pc' = [m \in Manifests |-> "idle"]
    /\ UNCHANGED <<worldVars, live, stored, opts, old, todo, entries, pending, histVars>>

ManifestStep(m) ==
    \/ Begin(m) \/ BeginFails(m)
    \/ \E k \in todo[m] :
         \/ ApplyEntry(m, k) \/ PruneEntry(m, k) \/ KeepRemoved(m, k)
         \/ DestroyEntry(m, k) \/ EntryFails(m, k)
    \/ NotReady(m) \/ SaveState(m) \/ SaveFails(m) \/ BufferState(m)
    \/ TestsEnd(m) \/ DestroyDone(m)
    \/ SavePending(m) \/ SavePendingFails(m)

-----------------------------------------------------------------------------
(***************************************************************************)
(* The environment.                                                        *)
(***************************************************************************)

(* The files a manifest is rendered from change between two runs.  If an   *)
(* earlier attempt wrote one of the changed objects without saving the     *)
(* state, the next diff starts from a state that no longer describes it.   *)
Edit(m, d) ==
    /\ outcome # "running"
    /\ edits < MaxEdits
    /\ desired[m] # d
    /\ desired' = [desired EXCEPT ![m] = d]
    /\ edits' = edits + 1
    /\ excused' = IF \E o \in Objects : <<m, o>> \in unsaved /\ desired[m][o] # d[o]
                  THEN excused \cup {m} ELSE excused
    /\ outcome' = "none"
    /\ UNCHANGED <<declared, runs, drifts, live, stored, opts, pc, old,
                   todo, entries, pending, drifted, unsaved, installed>>

(* A manifest is taken out of tazuna.yaml: no run looks at it any more. *)
RemoveManifest(m) ==
    /\ outcome # "running"
    /\ edits < MaxEdits
    /\ m \in declared
    /\ declared' = declared \ {m}
    /\ edits' = edits + 1
    /\ outcome' = "none"
    /\ excused' = IF \E o \in Objects : <<m, o>> \in unsaved
                  THEN excused \cup {m} ELSE excused
    /\ UNCHANGED <<desired, runs, drifts, live, stored, opts, pc, old,
                   todo, entries, pending, drifted, unsaved, installed>>

(* Somebody else creates, changes or deletes a live object. *)
Drift(o, content) ==
    /\ drifts < MaxDrifts
    /\ content # live[o]
    /\ live' = [live EXCEPT ![o] = content]
    /\ drifts' = drifts + 1
    /\ drifted' = drifted \cup {o}
    /\ excused' = excused \cup {m \in Manifests : o \in Renders[m]}
    /\ installed' = installed \ {o}
    /\ UNCHANGED <<declared, desired, runs, edits, stored, opts, outcome, pc, old,
                   todo, entries, pending, unsaved>>

Environment ==
    \/ \E m \in Manifests : RemoveManifest(m) \/ \E d \in Declarations(m) : Edit(m, d)
    \/ \E o \in Objects : \E content \in Contents \cup {None} : Drift(o, content)

(* Nobody starts another run. *)
Rest == outcome # "running" /\ UNCHANGED vars

Next ==
    \/ \E o \in Kinds : StartRun(o)
    \/ \E m \in Manifests : ManifestStep(m)
    \/ RunSucceeds \/ RunFails \/ Crash
    \/ Environment
    \/ Rest

Spec == Init /\ [][Next]_vars

-----------------------------------------------------------------------------
TypeOK ==
    /\ declared \subseteq Manifests
    /\ desired \in [Manifests -> [Objects -> Rendering \cup {None}]]
    /\ live \in [Objects -> Contents \cup {None}]
    /\ stored \in [Manifests -> Entries]
    /\ opts \in [kind : RunKinds, prune : BOOLEAN, atomic : BOOLEAN]
    /\ outcome \in {"none", "running", "ok", "failed"}
    /\ pc \in [Manifests -> {"idle", "working", "testing", "done", "failed"}]
    /\ old \in [Manifests -> Entries]
    /\ todo \in [Manifests -> SUBSET Key]
    /\ entries \in [Manifests -> Entries]
    /\ pending \subseteq Manifests
    /\ runs \in Nat /\ edits \in Nat /\ drifts \in Nat
    /\ drifted \subseteq Objects
    /\ unsaved \subseteq Manifests \X Objects
    /\ excused \subseteq Manifests
    /\ installed \subseteq Objects

(* The state tells the truth: a recorded object is in the cluster with the *)
(* recorded content.  For an object that a run wrote without reaching its  *)
(* save this still holds where the entry equals the declaration, so that   *)
(* the next "apply --sync", which skips such entries, is right to do so.   *)
(* Excused are only outside changes, destroy, an interrupted re-creation   *)
(* by a plain apply, and an edit of objects written but not yet saved.     *)
StateTruthful ==
    \A m \in Manifests \ excused : \A k \in Key :
        stored[m][k] # None /\ (<<m, k[1]>> \in unsaved => stored[m][k] = Current(m)[k])
            => live[k[1]] = stored[m][k]

(* A run that reports success has left the declared objects in the cluster *)
(* with the declared content, also when it repeats a run that failed       *)
(* half-way or crashed.                                                    *)
SuccessMeansDeployed ==
    outcome = "ok" /\ opts.kind # "destroy" =>
        \A m \in declared \ excused : \A o \in Rendered(m) :
            live[o] = desired[m][o].content

(* After a successful run "state diff" has nothing to report (besides      *)
(* always-sync): every rendered object is recorded with its hash, and      *)
(* nothing else is, unless --sync ran without --prune.                     *)
SuccessRecordsDeclaration ==
    outcome = "ok" /\ opts.kind # "destroy" =>
        \A m \in declared : \A k \in Key :
            /\ Current(m)[k] # None => stored[m][k] = Current(m)[k]
            /\ Current(m)[k] = None /\ (opts.kind = "apply" \/ opts.prune) => stored[m][k] = None

(* Whenever a run has succeeded, a live object installed by tazuna is      *)
(* recorded in a state ConfigMap, unless a plain apply gave it up.         *)
SyncTracksInstalled ==
    outcome = "ok" /\ opts.kind # "destroy" =>
        \A o \in installed : live[o] # None =>
            \/ \E m \in excused : o \in Renders[m]
            \/ \E m \in Manifests : \E k \in Keys(stored[m]) : k[1] = o

-----------------------------------------------------------------------------
(***************************************************************************)
(* What the documentation says without the exceptions above.  Each of      *)
(* these is refuted by a run of its own.                                   *)
(***************************************************************************)

(* design-philosophy.md: "apply" closes the gap between declaration and    *)
(* cluster, so every successful run ends with the declared objects.        *)
ApplyConverges ==
    outcome = "ok" /\ opts.kind # "destroy" =>
        \A m \in declared : \A o \in Rendered(m) : live[o] = desired[m][o].content

(* apply.md: --prune deletes resources that are in the state and not in    *)
(* the result of Build, so it never deletes an object that a manifest of   *)
(* tazuna.yaml renders, under whatever apiVersion.                         *)
PruneSparesDeclared ==
    [][\A o \in Objects :
         /\ opts.kind = "sync" /\ pc' = pc /\ drifts' = drifts
         /\ live[o] # None /\ live'[o] = None
         => \A m \in declared : desired[m][o] = None]_vars
=============================================================================
