--------------------------- MODULE ManifestGraph ---------------------------
(***************************************************************************)
(* The manifests of an expanded tazuna.yaml and the dependency graph that  *)
(* their dependsOn lists span, shared by the two implementations of Kahn's *)
(* algorithm in the code (runner.ResolveDependencyOrder and                *)
(* validator.ValidateDependsOn) and by the runner itself.                  *)
(***************************************************************************)
EXTENDS Integers, Sequences, FiniteSets

CONSTANTS
    Names,     \* the non-empty manifest names
    NoName,    \* the empty string: a manifest without a name
    Tags,      \* the tags of manifests[].tags and of --tags
    Inputs     \* the manifest lists considered

ASSUME NamesAssumption == NoName \notin Names

VARIABLE manifests      \* the argument of both algorithms

(***************************************************************************)
(* What the runner reads of a v1.Manifest.  The tests of a manifest are    *)
(* abstracted to whether there are any and, if so, whether each of them    *)
(* has timeoutSeconds > 0: an untimed test polls until it succeeds.        *)
(***************************************************************************)
TestKinds == {"none", "timed", "untimed"}

Manifest == [ name      : Names \cup {NoName},
              dependsOn : Seq(Names \cup {NoName}),
              tags      : SUBSET Tags,
              tests     : TestKinds ]

ASSUME InputsAssumption == Inputs \subseteq Seq(Manifest)

HasAnyDependsOn(ms) == \E i \in DOMAIN ms : ms[i].dependsOn # <<>>

(* The keys of the map idxByName: the empty name is never entered. *)
Declared(ms) == {ms[i].name : i \in DOMAIN ms} \ {NoName}

(* idxByName[n]: a later manifest of the same name overwrites an earlier. *)
IdxByName(ms, n) ==
    CHOOSE i \in DOMAIN ms :
        /\ ms[i].name = n
        /\ \A j \in DOMAIN ms : ms[j].name = n => j <= i

DepIdx(ms, i, k) == IdxByName(ms, ms[i].dependsOn[k])

(* A dependsOn entry that names its own manifest, or no manifest at all. *)
BadReference(ms) ==
    \E i \in DOMAIN ms : \E k \in DOMAIN ms[i].dependsOn :
        \/ ms[i].dependsOn[k] = ms[i].name
        \/ ms[i].dependsOn[k] \notin Declared(ms)

(* The indices manifest i depends on (an unknown name has none). *)
DependencyIdx(ms, i) ==
    {j \in DOMAIN ms : \E k \in DOMAIN ms[i].dependsOn :
        /\ ms[i].dependsOn[k] \in Declared(ms)
        /\ j = DepIdx(ms, i, k)}

(***************************************************************************)
(* Reference definition of an acyclic graph, independent of any            *)
(* algorithm: no non-empty set of manifests in which every member waits    *)
(* for another member.  (In a finite graph such a set exists exactly when  *)
(* there is a cycle.)                                                      *)
(***************************************************************************)
Deadlocked(ms, S) ==
    /\ S # {}
    /\ \A i \in S : DependencyIdx(ms, i) \cap S # {}

Acyclic(ms) == \A S \in SUBSET DOMAIN ms : ~Deadlocked(ms, S)

Resolvable(ms) == ~BadReference(ms) /\ Acyclic(ms)

(***************************************************************************)
(* The bookkeeping both algorithms share.  dependents[i] is a list with    *)
(* one entry per dependsOn entry, so a name listed twice counts twice in   *)
(* the in-degree and is decremented twice when the manifest is placed.     *)
(* "if inDegree[d] > 0" keeps placed manifests (-1) and ready ones (0).    *)
(***************************************************************************)
InitialInDegree(ms) == [i \in DOMAIN ms |-> Len(ms[i].dependsOn)]

Hits(ms, i, done) == {k \in DOMAIN ms[i].dependsOn : DepIdx(ms, i, k) \in done}

Lower(deg, n) ==
    IF deg <= 0 THEN deg
    ELSE IF deg >= n THEN deg - n ELSE 0

(* Mutants of Release: an in-degree drops to zero at the first hit;        *)
(* repeated entries are decremented once.                                  *)
ReleaseAtFirstHit(ms, deg, done) ==
    [i \in DOMAIN ms |->
        IF i \in done THEN -1 ELSE IF Hits(ms, i, done) # {} THEN 0 ELSE deg[i]]

ReleaseOncePerManifest(ms, deg, done) ==
    [i \in DOMAIN ms |->
        IF i \in done THEN -1
        ELSE Lower(deg[i], Cardinality({DepIdx(ms, i, k) : k \in Hits(ms, i, done)}))]

(* In-degrees after the manifests of "done" were taken out of the graph. *)
Release(ms, deg, done) ==
    [i \in DOMAIN ms |->
        IF i \in done THEN -1
        ELSE Lower(deg[i], Cardinality(Hits(ms, i, done)))]
=============================================================================
