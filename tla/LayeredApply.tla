---------------------------- MODULE LayeredApply ----------------------------
(***************************************************************************)
(* One "tazuna apply": Runner.Apply and Runner.ApplyToCluster              *)
(* (pkg/runner/apply.go).  The options and names are checked, the layers   *)
(* are resolved (DependencyOrder), and layer after layer one goroutine per *)
(* selected manifest runs ApplyManifest or, with --sync, SyncManifest.     *)
(* The runner waits for the whole layer, collects the errors from a        *)
(* channel and stops after a layer with an error.  With --atomic the state *)
(* of all manifests is saved at the end.                                   *)
(*                                                                         *)
(* What a manifest renders to is abstracted here (ManifestSync models it): *)
(* a goroutine goes through the steps of its function, each of which may   *)
(* fail.  An API call that reports an error may still have taken effect.   *)
(* SIGINT/SIGTERM cancels the context, after which no API call succeeds;   *)
(* further signals change nothing (NotifyContext keeps catching them), but *)
(* SIGKILL or a crash ends the process wherever it is.                     *)
(***************************************************************************)
EXTENDS DependencyOrder

CONSTANTS
    OptionSet,      \* the values of ApplyOptions considered
    Filters,        \* the values of --tags considered (sets of tags)
    SpecTestKinds,  \* the kinds of spec.tests considered
    LostReplies     \* may a save that reports an error have been carried out?

ASSUME OptionsAssumption ==
    /\ OptionSet \subseteq [sync : BOOLEAN, prune : BOOLEAN, atomic : BOOLEAN]
    /\ Filters \subseteq SUBSET Tags
    /\ SpecTestKinds \subseteq TestKinds
    /\ LostReplies \in BOOLEAN

VARIABLES
    opts,           \* applyOpts
    filter,         \* t.tags
    specTests,      \* kind of tazuna.Spec.Tests
    run,            \* where Apply is
    layer,          \* the layer being applied, 0 before the first
    gor,            \* per manifest, where its goroutine is
    errCh,          \* number of errors in the buffered channel
    ctxDone,        \* the context was cancelled by a signal
    pendingSaves,   \* manifests whose state waits for the final save
    stored,         \* manifests whose state ConfigMap was written
    touched,        \* manifests that may have written to the cluster
    applied,        \* history: manifests whose objects were all applied
    tested          \* history: manifests whose tests passed

goVars == <<gor, errCh, pendingSaves, stored, touched, applied, tested>>
inputVars == <<opts, filter, specTests>>
vars == <<manifests, inDegree, layers, resolution,
          opts, filter, specTests, run, layer, ctxDone,
          gor, errCh, pendingSaves, stored, touched, applied, tested>>

Active == {"build", "apply", "test", "save"}
Ended == {"ok", "failed", "killed"}

(* The possible effects of a save of manifest i that reports an error. *)
AfterFailedSave(i) == IF LostReplies THEN {stored, stored \cup {i}} ELSE {stored}

(* matchesTags: an empty filter selects everything, else one common tag. *)
MatchesTags(m, tags) == tags = {} \/ m.tags \cap tags # {}

Selected == {i \in DOMAIN manifests : MatchesTags(manifests[i], filter)}

(* ValidateManifestNames: a name is required and must be unique.  (The     *)
(* members of Names are well-formed, short enough and not reserved.)       *)
ValidNames(ms) ==
    /\ \A i \in DOMAIN ms : ms[i].name # NoName
    /\ \A i, j \in DOMAIN ms : ms[i].name = ms[j].name => i = j

Strict == opts.sync \/ HasAnyDependsOn(manifests)

Accepted ==
    /\ opts.prune \/ opts.atomic => opts.sync
    /\ Strict => ValidNames(manifests)

Init ==
    /\ OrderInit
    /\ opts \in OptionSet
    /\ filter \in Filters
    /\ specTests \in SpecTestKinds
    /\ run = "checking"
    /\ layer = 0
    /\ gor = [i \in DOMAIN manifests |-> "idle"]
    /\ errCh = 0
    /\ ctxDone = FALSE
    /\ pendingSaves = {}
    /\ stored = {}
    /\ touched = {}
    /\ applied = {}
    /\ tested = {}

-----------------------------------------------------------------------------
(***************************************************************************)
(* Apply: checks before the cluster is touched.                            *)
(***************************************************************************)

(* The option guards and the strict name validation. *)
CheckApply ==
    /\ run = "checking"
    /\ run' = IF Accepted THEN "resolving" ELSE "failed"
    /\ UNCHANGED <<orderVars, inputVars, layer, ctxDone, goVars>>

(* An include cannot be read, or the expanded spec is invalid. *)
RejectSpec ==
    /\ run = "checking"
    /\ run' = "failed"
    /\ UNCHANGED <<orderVars, inputVars, layer, ctxDone, goVars>>

ResolveLayers ==
    /\ run = "resolving"
    /\ Resolve
    /\ UNCHANGED <<inputVars, run, layer, ctxDone, goVars>>

LayersResolved ==
    /\ run = "resolving"
    /\ resolution \in {"ok", "error"}
    /\ run' = IF resolution = "ok" THEN "layers" ELSE "failed"
    /\ UNCHANGED <<orderVars, inputVars, layer, ctxDone, goVars>>

-----------------------------------------------------------------------------
(***************************************************************************)
(* ApplyToCluster: the loop over the layers.                               *)
(***************************************************************************)

(* Mutant: the runner does not wait for the goroutines of the layer. *)
QuietNoWait == TRUE

(* wg.Wait() returns. *)
Quiet == \A i \in DOMAIN manifests : gor[i] \notin Active

FirstStep == IF opts.sync THEN "build" ELSE "apply"

(* Spawn one goroutine per selected manifest; errCh is made anew. *)
StartLayer ==
    /\ run = "layers"
    /\ Quiet /\ errCh = 0
    /\ layer < Len(layers)
    /\ layer' = layer + 1
    /\ gor' = [i \in DOMAIN manifests |->
                 IF i \in layers[layer + 1] \cap Selected THEN FirstStep ELSE gor[i]]
    /\ UNCHANGED <<orderVars, inputVars, run, ctxDone,
                   errCh, pendingSaves, stored, touched, applied, tested>>

(* Mutant: the first error ends the run while other goroutines work. *)
LayerFailedFast ==
    /\ run = "layers"
    /\ errCh > 0
    /\ run' = "failed"
    /\ UNCHANGED <<orderVars, inputVars, layer, ctxDone, goVars>>

(* wg.Wait, then errCh is drained and its errors end the run. *)
LayerFailed ==
    /\ run = "layers"
    /\ Quiet /\ errCh > 0
    /\ run' = "failed"
    /\ UNCHANGED <<orderVars, inputVars, layer, ctxDone, goVars>>

(* Mutant: the bulk save of --atomic is forgotten. *)
LayersDoneNoBulkSave ==
    /\ run = "layers"
    /\ Quiet /\ errCh = 0
    /\ layer = Len(layers)
    /\ run' = "specTests"
    /\ UNCHANGED <<orderVars, inputVars, layer, ctxDone, goVars>>

(* After the last layer: the bulk save of --atomic, then spec.tests. *)
LayersDone ==
    /\ run = "layers"
    /\ Quiet /\ errCh = 0
    /\ layer = Len(layers)
    /\ run' = IF opts.sync /\ opts.atomic THEN "saving" ELSE "specTests"
    /\ UNCHANGED <<orderVars, inputVars, layer, ctxDone, goVars>>

(* --atomic: the buffered states are saved one by one, in any order. *)
SavePending(i) ==
    /\ run = "saving"
    /\ i \in pendingSaves
    /\ ~ctxDone
    /\ stored' = stored \cup {i}
    /\ pendingSaves' = pendingSaves \ {i}
    /\ UNCHANGED <<orderVars, inputVars, run, layer, ctxDone,
                   gor, errCh, touched, applied, tested>>

SavePendingFails(i) ==
    /\ run = "saving"
    /\ i \in pendingSaves
    /\ run' = "failed"
    /\ stored' \in AfterFailedSave(i)
    /\ UNCHANGED <<orderVars, inputVars, layer, ctxDone,
                   gor, errCh, pendingSaves, touched, applied, tested>>

SavesDone ==
    /\ run = "saving"
    /\ pendingSaves = {}
    /\ run' = "specTests"
    /\ UNCHANGED <<orderVars, inputVars, layer, ctxDone, goVars>>

(* spec.tests: they pass, or one fails, times out or is cancelled. *)
SpecTestsPass ==
    /\ run = "specTests"
    /\ specTests = "none" \/ ~ctxDone
    /\ run' = "ok"
    /\ UNCHANGED <<orderVars, inputVars, layer, ctxDone, goVars>>

SpecTestsFail ==
    /\ run = "specTests"
    /\ specTests # "none"
    /\ run' = "failed"
    /\ UNCHANGED <<orderVars, inputVars, layer, ctxDone, goVars>>

-----------------------------------------------------------------------------
(***************************************************************************)
(* ApplyManifest: apply, test, save.  SyncManifest: build and compare; if  *)
(* there is a difference, apply it and save (or buffer) the new state;     *)
(* then test.                                                              *)
(***************************************************************************)

Goto(i, step) == gor' = [gor EXCEPT ![i] = step]

(* Build, store.Get and ComputeDiff; without a difference only the tests. *)
BuildAndDiff(i) ==
    /\ gor[i] = "build"
    /\ ~ctxDone
    /\ Goto(i, "apply") \/ Goto(i, "test")
    /\ UNCHANGED <<orderVars, inputVars, run, layer, ctxDone,
                   errCh, pendingSaves, stored, touched, applied, tested>>

(* Every object is applied, pruned and, where wait is set, ready.  This    *)
(* may still happen after a signal: entries that were removed and are not  *)
(* pruned, or a rendering without objects, need no API call.               *)
ApplyObjects(i) ==
    /\ gor[i] = "apply"
    /\ Goto(i, IF opts.sync THEN "save" ELSE "test")
    /\ touched' = touched \cup {i}
    /\ applied' = applied \cup {i}
    /\ UNCHANGED <<orderVars, inputVars, run, layer, ctxDone,
                   errCh, pendingSaves, stored, tested>>

TestPasses(i) ==
    /\ gor[i] = "test"
    /\ manifests[i].tests = "none" \/ ~ctxDone
    /\ Goto(i, IF opts.sync THEN "done" ELSE "save")
    /\ tested' = tested \cup {i}
    /\ UNCHANGED <<orderVars, inputVars, run, layer, ctxDone,
                   errCh, pendingSaves, stored, touched, applied>>

AfterSave == IF opts.sync THEN "test" ELSE "done"

(* Mutant: --atomic does not keep a goroutine from saving at once. *)
SaveStateAtOnce(i) ==
    /\ gor[i] = "save"
    /\ manifests[i].name = NoName \/ ~ctxDone
    /\ Goto(i, AfterSave)
    /\ stored' = IF manifests[i].name = NoName THEN stored ELSE stored \cup {i}
    /\ UNCHANGED <<orderVars, inputVars, run, layer, ctxDone,
                   errCh, pendingSaves, touched, applied, tested>>

(* store.Save of saveManifestState, skipped for a manifest without name,   *)
(* or of SyncManifest without --atomic.                                    *)
SaveState(i) ==
    /\ gor[i] = "save"
    /\ ~opts.atomic
    /\ manifests[i].name = NoName \/ ~ctxDone
    /\ Goto(i, AfterSave)
    /\ stored' = IF manifests[i].name = NoName THEN stored ELSE stored \cup {i}
    /\ UNCHANGED <<orderVars, inputVars, run, layer, ctxDone,
                   errCh, pendingSaves, touched, applied, tested>>

(* --atomic: pendingSaves is written under pendingSavesMu. *)
BufferState(i) ==
    /\ gor[i] = "save"
    /\ opts.atomic
    /\ Goto(i, AfterSave)
    /\ pendingSaves' = pendingSaves \cup {i}
    /\ UNCHANGED <<orderVars, inputVars, run, layer, ctxDone,
                   errCh, stored, touched, applied, tested>>

(* Mutant: room for one error only. *)
ErrChOfOne == 1

(* Capacity of errCh: make(chan error, len(layer)). *)
ErrChCapacity == Cardinality(layers[layer])

(* Mutant: a cancelled context does not end a test. *)
CanFailOutsideTests(i) ==
    \/ gor[i] \in {"build", "apply"}
    \/ gor[i] = "save" /\ ~opts.atomic /\ manifests[i].name # NoName

(* The steps that can return an error. *)
CanFail(i) ==
    \/ gor[i] \in {"build", "apply"}
    \/ gor[i] = "test" /\ manifests[i].tests # "none"
    \/ gor[i] = "save" /\ ~opts.atomic /\ manifests[i].name # NoName

(* A step fails and the goroutine ends by sending its error.  Objects      *)
(* before the failing one stay applied, and a save that reports an error   *)
(* may have reached the API server.                                        *)
StepFails(i) ==
    /\ CanFail(i)
    /\ errCh < ErrChCapacity
    /\ errCh' = errCh + 1
    /\ Goto(i, "failed")
    /\ touched' \in IF gor[i] = "apply" THEN {touched, touched \cup {i}} ELSE {touched}
    /\ stored' \in IF gor[i] = "save" THEN AfterFailedSave(i) ELSE {stored}
    /\ UNCHANGED <<orderVars, inputVars, run, layer, ctxDone,
                   pendingSaves, applied, tested>>

GoroutineStep(i) ==
    \/ BuildAndDiff(i) \/ ApplyObjects(i) \/ TestPasses(i)
    \/ SaveState(i) \/ BufferState(i) \/ StepFails(i)

-----------------------------------------------------------------------------
(* The first SIGINT or SIGTERM cancels the context (main.go). *)
Interrupt ==
    /\ run \notin Ended
    /\ ~ctxDone
    /\ ctxDone' = TRUE
    /\ UNCHANGED <<orderVars, inputVars, run, layer, goVars>>

(* SIGKILL or a crash: the goroutines vanish where they are. *)
Kill ==
    /\ run \notin Ended
    /\ run' = "killed"
    /\ gor' = [i \in DOMAIN manifests |-> IF gor[i] \in Active THEN "lost" ELSE gor[i]]
    /\ UNCHANGED <<orderVars, inputVars, layer, ctxDone,
                   errCh, pendingSaves, stored, touched, applied, tested>>

(* The process has exited. *)
Exited ==
    /\ run \in Ended
    /\ UNCHANGED vars

RunnerStep ==
    \/ CheckApply \/ RejectSpec \/ ResolveLayers \/ LayersResolved
    \/ StartLayer \/ LayerFailed \/ LayersDone
    \/ SavesDone \/ SpecTestsPass \/ SpecTestsFail
    \/ \E i \in DOMAIN manifests : SavePending(i) \/ SavePendingFails(i)

Next ==
    \/ RunnerStep
    \/ \E i \in DOMAIN manifests : GoroutineStep(i)
    \/ Interrupt
    \/ Kill
    \/ Exited

(***************************************************************************)
(* Fairness.  The runner and each goroutine keep running and API calls     *)
(* return.  Waiting for objects is bounded by default (300 s), but a test  *)
(* without timeoutSeconds polls until it succeeds or the context is        *)
(* cancelled: no progress is assumed of it before that.                    *)
(***************************************************************************)
Polling(kind) == kind = "untimed" /\ ~ctxDone

FairRunner == RunnerStep /\ ~(run = "specTests" /\ Polling(specTests))

FairGoroutine(i) ==
    GoroutineStep(i) /\ ~(gor[i] = "test" /\ Polling(manifests[i].tests))

MaxManifests == 4    \* no list of Inputs is longer (fairness is per index)

Spec == Init /\ [][Next]_vars

FairSpec ==
    /\ Spec
    /\ WF_vars(FairRunner)
    /\ \A i \in 1..MaxManifests :
         WF_vars(i \in DOMAIN manifests /\ FairGoroutine(i))

-----------------------------------------------------------------------------
TypeOK ==
    /\ OrderTypeOK
    /\ opts \in [sync : BOOLEAN, prune : BOOLEAN, atomic : BOOLEAN]
    /\ filter \subseteq Tags
    /\ specTests \in TestKinds
    /\ run \in {"checking", "resolving", "layers", "saving", "specTests"} \cup Ended
    /\ layer \in 0..Len(layers)
    /\ gor \in [DOMAIN manifests -> {"idle", "done", "failed", "lost"} \cup Active]
    /\ errCh \in Nat
    /\ ctxDone \in BOOLEAN
    /\ pendingSaves \subseteq DOMAIN manifests
    /\ stored \subseteq DOMAIN manifests
    /\ touched \subseteq DOMAIN manifests
    /\ applied \subseteq DOMAIN manifests
    /\ tested \subseteq DOMAIN manifests

(* dependsOn: when the goroutine of a manifest has been started, every     *)
(* manifest it depends on that the tag filter did not skip has finished    *)
(* without an error.                                                       *)
DependenciesFinished ==
    \A i \in DOMAIN manifests : gor[i] # "idle" =>
        \A j \in DependencyIdx(manifests, i) \cap Selected : gor[j] = "done"

(* depends-on.md: a bad reference or a cycle ends the run without touching *)
(* the cluster.  The same goes for --prune/--atomic without --sync and,    *)
(* where names matter, for missing or duplicate names.                     *)
NothingTouchedUnlessValid ==
    touched # {} \/ stored # {} => Accepted /\ Resolvable(manifests)

(* A failed goroutine does not stop its siblings, but no manifest of a     *)
(* later layer is ever started.                                            *)
NoLayerAfterFailure ==
    \A d, e \in DOMAIN layers : \A i \in layers[d], j \in layers[e] :
        gor[i] = "failed" /\ gor[j] # "idle" => e <= d

(* --atomic: no state ConfigMap is written before every selected manifest  *)
(* has been processed without an error.                                    *)
AtomicSavesLast ==
    opts.atomic /\ stored # {} => \A i \in Selected : gor[i] = "done"

(* A state that was (or may have been) written belongs to a manifest whose *)
(* objects were all applied; without --sync its tests passed as well.      *)
StoredAfterApply ==
    /\ stored \subseteq applied
    /\ ~opts.sync => stored \subseteq tested

(* Every write is justified by what came before it: by validation for the  *)
(* cluster, and by complete work for the states.                           *)
WritesAreJustified == NothingTouchedUnlessValid /\ AtomicSavesLast /\ StoredAfterApply

(* A run that reports success has finished and tested every selected       *)
(* manifest and has written every state it had to write: that of each      *)
(* named manifest without --sync, of each changed manifest with it.        *)
SuccessIsComplete ==
    run = "ok" =>
        \A i \in Selected :
            /\ gor[i] = "done"
            /\ i \in tested
            /\ manifests[i].name # NoName /\ i \in applied => i \in stored

(* Once Apply has returned no goroutine is left behind that could still    *)
(* write to the cluster or to a state ConfigMap.                           *)
NoWriteAfterReturn ==
    [][(run \in Ended) => UNCHANGED <<touched, stored>>]_vars

(* The graph the abstract scheduler sees: the selected manifests.          *)
Dag == INSTANCE DagSchedule WITH
    waitsFor <- [i \in Selected |-> DependencyIdx(manifests, i) \cap Selected],
    started  <- {i \in DOMAIN manifests : gor[i] # "idle"},
    finished <- {i \in DOMAIN manifests : gor[i] = "done"},
    failed   <- {i \in DOMAIN manifests : gor[i] = "failed"}

(* The layered runner implements the DAG schedule dependsOn promises.      *)
ImplementsDagSchedule == Dag!DagSpec

(* Every run ends by itself unless some test has no timeout; in particular *)
(* no goroutine blocks for ever on sending its error before wg.Wait().     *)
RunTerminates ==
    (specTests # "untimed" /\ \A i \in DOMAIN manifests : manifests[i].tests # "untimed")
        => <>(run \in Ended)

(* One SIGINT is enough to end a run, whatever it is waiting for.          *)
InterruptEndsRun == ctxDone ~> run \in Ended
=============================================================================
