---------------------------- MODULE StateStore ----------------------------
(***************************************************************************)
(* state.ConfigMapStateStore (pkg/state/configmap.go, namespace.go), API   *)
(* call by API call.  Several tazuna processes work on one cluster; the    *)
(* goroutines of a process share its store: the mutex nsMu and the flag    *)
(* nsEnsured, which spares all but the first successful save the check     *)
(* that the namespace exists.  A ConfigMap carries a resource version, and *)
(* an update is refused unless it carries the current one.                 *)
(***************************************************************************)
EXTENDS Integers, FiniteSets

CONSTANTS
    Savers,        \* the goroutines that save a state, once each
    Processes,     \* the tazuna processes
    ProcessOf,     \* saver -> its process
    Target,        \* saver -> the manifest it saves the state of
    SyncProcesses, \* the processes started with --sync
    NoOne,         \* nobody holds the mutex
    MaxWipes       \* bound on deletions of the namespace

ASSUME StoreAssumption ==
    /\ ProcessOf \in [Savers -> Processes]
    /\ DOMAIN Target = Savers
    /\ SyncProcesses \subseteq Processes
    /\ NoOne \notin Savers
    /\ MaxWipes \in Nat

States == {Target[s] : s \in Savers}

VARIABLES
    namespace,     \* does the namespace exist?
    revision,      \* the API server's revision counter
    version,       \* state -> resource version, 0 if there is no ConfigMap
    data,          \* state -> entries, named after the saver they come from
    nsMu,          \* process -> the holder of the mutex
    nsEnsured,     \* process -> BOOLEAN
    pc,            \* saver -> where it is
    base,          \* saver -> the entries SyncManifest has read
    existing,      \* saver -> the version read by Save
    (* History variables, read by properties only. *)
    wipes,         \* how often the namespace was deleted
    faulted,       \* savers that met a failing API call
    wrote,         \* savers whose write was carried out
    stale,         \* savers that would overwrite what Save has not read
    ensures        \* process -> how often EnsureNamespace succeeded

apiVars == <<namespace, revision, version, data>>
histVars == <<wipes, faulted, wrote, stale, ensures>>
vars == <<namespace, revision, version, data, nsMu, nsEnsured, pc, base, existing,
          wipes, faulted, wrote, stale, ensures>>

SyncSavers == {s \in Savers : ProcessOf[s] \in SyncProcesses}
InEnsure == {"nsGet", "nsCreate"}
Ended == {"ok", "failed", "lost"}

Init ==
    /\ namespace \in BOOLEAN
    /\ revision = 0
    /\ version = [m \in States |-> 0]
    /\ data = [m \in States |-> {}]
    /\ nsMu = [p \in Processes |-> NoOne]
    /\ nsEnsured = [p \in Processes |-> FALSE]
    /\ pc = [s \in Savers |-> "start"]
    /\ base = [s \in Savers |-> {}]
    /\ existing = [s \in Savers |-> 0]
    /\ wipes = 0
    /\ faulted = {}
    /\ wrote = {}
    /\ stale = {}
    /\ ensures = [p \in Processes |-> 0]

Goto(s, step) == pc' = [pc EXCEPT ![s] = step]

(* The call at hand returns an error that says nothing about the objects.  *)
Fault(s) == faulted' = faulted \cup {s} /\ Goto(s, "failed")

(* Get before the diff; a missing ConfigMap is an empty state.  A process  *)
(* without --sync saves what it has applied and reads nothing.             *)
Get(s) ==
    /\ pc[s] = "start"
    /\ base' = [base EXCEPT ![s] = IF s \in SyncSavers THEN data[Target[s]] ELSE {}]
    /\ Goto(s, "lock")
    /\ UNCHANGED <<apiVars, nsMu, nsEnsured, existing, histVars>>

GetFails(s) ==
    /\ pc[s] = "start"
    /\ s \in SyncSavers
    /\ Fault(s)
    /\ UNCHANGED <<apiVars, nsMu, nsEnsured, base, existing, wipes, wrote, stale, ensures>>

-----------------------------------------------------------------------------
(***************************************************************************)
(* ensureNamespaceOnce and EnsureNamespace.                                *)
(***************************************************************************)

(* Mutant: the flag is read without taking the mutex. *)
LockUnheld(s) ==
    /\ pc[s] = "lock"
    /\ Goto(s, IF nsEnsured[ProcessOf[s]] THEN "cmGet" ELSE "nsGet")
    /\ UNCHANGED <<apiVars, nsMu, nsEnsured, base, existing, histVars>>

(* nsMu.Lock; the flag may spare the check. *)
Lock(s) ==
    /\ pc[s] = "lock"
    /\ nsMu[ProcessOf[s]] = NoOne
    /\ IF nsEnsured[ProcessOf[s]]
       THEN Goto(s, "cmGet") /\ UNCHANGED nsMu
       ELSE Goto(s, "nsGet") /\ nsMu' = [nsMu EXCEPT ![ProcessOf[s]] = s]
    /\ UNCHANGED <<apiVars, nsEnsured, base, existing, histVars>>

(* Mutant: the mutex stays locked. *)
UnlockForgotten(s) == nsMu' = nsMu

(* The deferred nsMu.Unlock, on every return. *)
Unlock(s) == nsMu' = [nsMu EXCEPT ![ProcessOf[s]] = NoOne]

(* EnsureNamespace returns without an error. *)
Ensured(s) ==
    /\ nsEnsured' = [nsEnsured EXCEPT ![ProcessOf[s]] = TRUE]
    /\ ensures' = [ensures EXCEPT ![ProcessOf[s]] = @ + 1]
    /\ Unlock(s)
    /\ Goto(s, "cmGet")

NamespaceFound(s) ==
    /\ pc[s] = "nsGet"
    /\ namespace
    /\ Ensured(s)
    /\ UNCHANGED <<apiVars, base, existing, wipes, faulted, wrote, stale>>

NamespaceMissing(s) ==
    /\ pc[s] = "nsGet"
    /\ ~namespace
    /\ Goto(s, "nsCreate")
    /\ UNCHANGED <<apiVars, nsMu, nsEnsured, base, existing, histVars>>

(* Mutant: AlreadyExists is returned as an error. *)
CreateNamespaceStrictly(s) ==
    /\ pc[s] = "nsCreate"
    /\ namespace' = TRUE
    /\ IF namespace
       THEN Goto(s, "failed") /\ Unlock(s) /\ UNCHANGED <<nsEnsured, ensures>>
       ELSE Ensured(s)
    /\ UNCHANGED <<revision, version, data, base, existing, wipes, faulted, wrote, stale>>

(* Created here, or AlreadyExists because another process was faster. *)
CreateNamespace(s) ==
    /\ pc[s] = "nsCreate"
    /\ namespace' = TRUE
    /\ Ensured(s)
    /\ UNCHANGED <<revision, version, data, base, existing, wipes, faulted, wrote, stale>>

(* Either call fails; the create may have been carried out.  The failure   *)
(* is not remembered: the next saver tries again.                          *)
EnsureFails(s) ==
    /\ pc[s] \in InEnsure
    /\ namespace' \in IF pc[s] = "nsCreate" THEN {namespace, TRUE} ELSE {namespace}
    /\ Unlock(s)
    /\ Fault(s)
    /\ UNCHANGED <<revision, version, data, nsEnsured, base, existing, wipes, wrote, stale, ensures>>

-----------------------------------------------------------------------------
(***************************************************************************)
(* Save: Get, then Update or Create.                                       *)
(***************************************************************************)

(* Mutant: the version is taken for that of the last update. *)
GetExistingPrevious(s) ==
    /\ pc[s] = "cmGet"
    /\ existing' = [existing EXCEPT ![s] = version[Target[s]] - 1]
    /\ Goto(s, IF version[Target[s]] = 0 THEN "create" ELSE "update")
    /\ UNCHANGED <<apiVars, nsMu, nsEnsured, base, histVars>>

GetExisting(s) ==
    /\ pc[s] = "cmGet"
    /\ existing' = [existing EXCEPT ![s] = version[Target[s]]]
    /\ Goto(s, IF version[Target[s]] = 0 THEN "create" ELSE "update")
    /\ UNCHANGED <<apiVars, nsMu, nsEnsured, base, histVars>>

GetExistingFails(s) ==
    /\ pc[s] = "cmGet"
    /\ Fault(s)
    /\ UNCHANGED <<apiVars, nsMu, nsEnsured, base, existing, wipes, wrote, stale, ensures>>

(* Mutant: the new entries are merged into the existing ones. *)
WriteMerging(s) ==
    /\ revision' = revision + 1
    /\ version' = [version EXCEPT ![Target[s]] = revision + 1]
    /\ data' = [data EXCEPT ![Target[s]] = @ \cup base[s] \cup {s}]
    /\ wrote' = wrote \cup {s}
    /\ stale' = stale \cup {t \in Savers \ {s} :
                               Target[t] = Target[s] /\ pc[t] \in {"update", "create"}}

(* The API server replaces the data by the new entries. *)
Write(s) ==
    /\ revision' = revision + 1
    /\ version' = [version EXCEPT ![Target[s]] = revision + 1]
    /\ data' = [data EXCEPT ![Target[s]] = base[s] \cup {s}]
    /\ wrote' = wrote \cup {s}
    /\ stale' = stale \cup {t \in Savers \ {s} :
                               Target[t] = Target[s] /\ pc[t] \in {"update", "create"}}

(* Mutant: the write is not conditional on the version that was read. *)
PermittedAlways(s) == namespace

(* The API server accepts the write: a create needs the namespace and no   *)
(* object, an update the version that was read.                            *)
Permitted(s) == namespace /\ version[Target[s]] = existing[s]

WriteConfigMap(s) ==
    /\ pc[s] \in {"update", "create"}
    /\ Permitted(s)
    /\ Write(s)
    /\ Goto(s, "ok")
    /\ UNCHANGED <<namespace, nsMu, nsEnsured, base, existing, wipes, faulted, ensures>>

(* Conflict, AlreadyExists or NotFound: the save is not tried again. *)
WriteRefused(s) ==
    /\ pc[s] \in {"update", "create"}
    /\ ~Permitted(s)
    /\ Goto(s, "failed")
    /\ UNCHANGED <<apiVars, nsMu, nsEnsured, base, existing, histVars>>

(* Another error, or the reply is lost after the write. *)
WriteFails(s) ==
    /\ pc[s] \in {"update", "create"}
    /\ \/ Permitted(s) /\ Write(s)
       \/ UNCHANGED <<revision, version, data, wrote, stale>>
    /\ Fault(s)
    /\ UNCHANGED <<namespace, nsMu, nsEnsured, base, existing, wipes, ensures>>

-----------------------------------------------------------------------------
(* A process dies; its mutex and its flag die with it. *)
Kill(p) ==
    /\ \E s \in Savers : ProcessOf[s] = p /\ pc[s] \notin Ended
    /\ pc' = [s \in Savers |-> IF ProcessOf[s] = p /\ pc[s] \notin Ended THEN "lost" ELSE pc[s]]
    /\ UNCHANGED <<apiVars, nsMu, nsEnsured, base, existing, histVars>>

(* Somebody deletes the namespace with everything in it. *)
DeleteNamespace ==
    /\ namespace
    /\ wipes < MaxWipes
    /\ wipes' = wipes + 1
    /\ namespace' = FALSE
    /\ version' = [m \in States |-> 0]
    /\ data' = [m \in States |-> {}]
    /\ stale' = {t \in stale : pc[t] # "create"} \cup {t \in Savers : pc[t] = "update"}
    /\ UNCHANGED <<revision, nsMu, nsEnsured, pc, base, existing, faulted, wrote, ensures>>

Step(s) ==
    \/ Get(s) \/ GetFails(s) \/ Lock(s)
    \/ NamespaceFound(s) \/ NamespaceMissing(s) \/ CreateNamespace(s) \/ EnsureFails(s)
    \/ GetExisting(s) \/ GetExistingFails(s)
    \/ WriteConfigMap(s) \/ WriteRefused(s) \/ WriteFails(s)

Done == (\A s \in Savers : pc[s] \in Ended) /\ UNCHANGED vars

Next ==
    \/ \E s \in Savers : Step(s)
    \/ \E p \in Processes : Kill(p)
    \/ DeleteNamespace
    \/ Done

Spec == Init /\ [][Next]_vars

(* API calls return and goroutines are scheduled. *)
FairSpec == Spec /\ \A s \in Savers : WF_vars(Step(s))

-----------------------------------------------------------------------------
TypeOK ==
    /\ namespace \in BOOLEAN
    /\ revision \in Nat
    /\ version \in [States -> Nat]
    /\ data \in [States -> SUBSET Savers]
    /\ nsMu \in [Processes -> Savers \cup {NoOne}]
    /\ nsEnsured \in [Processes -> BOOLEAN]
    /\ pc \in [Savers -> {"start", "lock", "cmGet", "update", "create"} \cup InEnsure \cup Ended]
    /\ base \in [Savers -> SUBSET Savers]
    /\ existing \in [Savers -> Nat]
    /\ wipes \in Nat
    /\ faulted \subseteq Savers
    /\ wrote \subseteq Savers
    /\ stale \subseteq Savers
    /\ ensures \in [Processes -> Nat]

(* The goroutines of a process check for the namespace one at a time and   *)
(* stop after the first success, however many fail before it.              *)
EnsuredOnce == \A p \in Processes : ensures[p] <= 1

(* A save fails only for a reason: a failing API call, a deleted namespace *)
(* or another writer of the same state.  Losing the race for the creation  *)
(* of the namespace is none.                                               *)
FailsForAReason ==
    \A s \in Savers : pc[s] = "failed" =>
        \/ s \in faulted
        \/ wipes > 0
        \/ \E t \in wrote \ {s} : Target[t] = Target[s]

(* A save never overwrites what it has not seen: once another process has  *)
(* changed or deleted the ConfigMap that Save has read, the save is        *)
(* refused.  (What SyncManifest had read for its diff may be older.)       *)
StaleWritersRefused == \A s \in stale : pc[s] # "ok"

(* Every save comes to an end; in particular the mutex is always released. *)
SavesEnd == \A s \in Savers : <>(pc[s] \in Ended)

Atomic == INSTANCE AtomicStore WITH
    status <- [s \in Savers |-> CASE pc[s] = "start" -> "idle"
                                  [] pc[s] \in Ended -> pc[s]
                                  [] OTHER -> "busy"]

(* What LayeredApply and ManifestSync rely on: a save is one step.         *)
ImplementsAtomicStore == Atomic!StoreSpec
=============================================================================
