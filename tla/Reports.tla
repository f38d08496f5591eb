------------------------------ MODULE Reports ------------------------------
(***************************************************************************)
(* The read-only commands over the state of ManifestSync: "plan" (Build    *)
(* against the cluster), "state diff" (Build against the state), "state    *)
(* drift" and "status" (the state against the cluster).  The reports an    *)
(* operator reads before a run are remembered until the run is over.       *)
(*                                                                         *)
(* The API server completes some kinds with default values; the content    *)
(* hash of such a live object is never that of the rendered one.  A        *)
(* manifest of type oras has no default namespace for the commands that    *)
(* call Build, only for the delegate's Apply: its objects are then looked  *)
(* up under keys without a namespace.                                      *)
(***************************************************************************)
EXTENDS ManifestSync

CONSTANTS
    Defaulted,      \* objects whose kind gets defaults from the API server
    Delegated       \* oras manifests whose delegate has a defaultNamespace

ASSUME ReportsAssumption == Defaulted \subseteq Objects /\ Delegated \subseteq Manifests

VARIABLE foretold   \* what plan and state diff said before the run

(* The entry found under the key that Build gives the object of key k. *)
GetDefaultNamespace(m) == m \notin Delegated
RecordedAs(m, k) == IF GetDefaultNamespace(m) THEN stored[m][k] ELSE None

(* Is the live object equal to a rendering with this content? *)
LiveEquals(o, content) == o \notin Defaulted /\ live[o] = content

-----------------------------------------------------------------------------
(* computePlanChangeForObject. *)
PlanChange(m, o) ==
    IF live[o] = None THEN "create"
    ELSE IF ~LiveEquals(o, desired[m][o].content) THEN "update" ELSE "none"

(* Mutant: objects that do not exist yet are left out. *)
PlanExisting(m) == {o \in Rendered(m) : m \notin Genesis /\ PlanChange(m, o) = "update"}

(* computePlanChanges of a manifest; genesissecret is skipped.  For a      *)
(* delegated manifest the Get without a namespace fails, and so does plan. *)
Plan(m) == {o \in Rendered(m) : m \notin Genesis /\ PlanChange(m, o) # "none"}

StateDiff(m) ==
    {[key |-> k, type |-> IF m \in Genesis THEN "always-sync"
                          ELSE IF RecordedAs(m, k) = None THEN "added" ELSE "modified"] :
        k \in {j \in Keys(Current(m)) : m \in Genesis \/ RecordedAs(m, j) # Current(m)[j]}}
    \cup {[key |-> k, type |-> "removed"] :
            k \in {j \in Keys(stored[m]) : Current(m)[j] = None \/ ~GetDefaultNamespace(m)}}

(* detectDriftForEntry. *)
DriftType(m, k) ==
    IF live[k[1]] = None THEN "live-missing"
    ELSE IF ~LiveEquals(k[1], stored[m][k]) THEN "live-drifted" ELSE "none"

(* Mutant: the live object is compared with the rendering. *)
StateDriftOfBuild(m) ==
    {k \in Keys(stored[m]) : m \notin Genesis /\ ~LiveEquals(k[1], Current(m)[k])}

(* detectDriftForManifest: entries of the state, genesissecret skipped. *)
StateDrift(m) == {k \in Keys(stored[m]) : m \notin Genesis /\ DriftType(m, k) # "none"}

-----------------------------------------------------------------------------
reportVars == <<vars, foretold>>

NothingForetold == [plan |-> {}, diff |-> {}]

(* The reports of the manifests in tazuna.yaml; none of the commands but   *)
(* plan looks at tags.                                                     *)
Report ==
    [plan |-> UNION {Plan(m) : m \in declared},
     diff |-> UNION {{e.key[1] : e \in StateDiff(m)} : m \in declared}]

ReportsInit == Init /\ foretold = NothingForetold

(* The operator looks at the reports, then starts the run. *)
ReportThenRun(o) == StartRun(o) /\ foretold' = Report

Proceed ==
    /\ \/ \E m \in Manifests : ManifestStep(m)
       \/ RunSucceeds \/ RunFails \/ Crash
       \/ Environment
    /\ UNCHANGED foretold

ReportsNext == (\E o \in Kinds : ReportThenRun(o)) \/ Proceed \/ (Rest /\ UNCHANGED foretold)

ReportsSpec == ReportsInit /\ [][ReportsNext]_reportVars

-----------------------------------------------------------------------------
ChangedByRun(o) == live'[o] # live[o] /\ drifts' = drifts

(* What an operator was shown is what happens: an apply changes no object  *)
(* that plan did not announce, and --sync, with or without --prune, none   *)
(* that state diff did not list.  Excepted are secrets of a genesissecret, *)
(* which plan skips, objects others changed meanwhile and a Job or Pod     *)
(* whose re-creation fails half-way.                                       *)
ReportsForetell ==
    [][\A o \in Objects : ChangedByRun(o) =>
         /\ opts.kind = "apply" => \/ o \in foretold.plan \cup drifted \cup Immutable
                                   \/ \E m \in Genesis : o \in Rendered(m)
         /\ opts.kind = "sync" => o \in foretold.diff]_reportVars

(* "state drift" gives no false alarm: after a successful apply it lists,  *)
(* for a manifest whose state nothing has spoiled, only objects with       *)
(* server-side defaults and objects a --prune deleted before it failed,    *)
(* whose entries a later --sync without --prune keeps.                     *)
DriftMeansTouched ==
    outcome = "ok" /\ opts.kind # "destroy" =>
        \A m \in declared \ excused : \A k \in StateDrift(m) :
            k[1] \in Defaulted \/ (<<m, k[1]>> \in unsaved /\ Current(m)[k] = None)

(* What an operator was shown is also all done: after a successful apply   *)
(* every rendered object is as declared, and after a successful --sync     *)
(* every object that state diff listed before, those it calls removed with *)
(* --prune only.  No manifest is excused here, whatever earlier runs,      *)
(* crashes and other people made of its state; only an object that others  *)
(* change while the run goes on, and that it does not write after that,    *)
(* may differ.  The command and the run collect what they compare in code  *)
(* of their own and at different times.                                    *)
AnnouncedIsDone ==
    outcome = "ok" =>
        \A m \in declared : \A o \in Renders[m] \ drifted :
            /\ opts.kind = "apply" /\ o \in Rendered(m) => live[o] = desired[m][o].content
            /\ opts.kind = "sync" /\ o \in foretold.diff /\ m \notin Delegated =>
                 IF o \in Rendered(m) THEN live[o] = desired[m][o].content
                 ELSE opts.prune => live[o] = None

(* apply.md: after an apply the state is what "state diff" starts from, so *)
(* without a change of the files there is nothing to report.               *)
ApplyLeavesNoDiff ==
    outcome = "ok" /\ opts.kind = "apply" => \A m \in declared \ Genesis : StateDiff(m) = {}
=============================================================================
