---------------------------- MODULE DagSchedule ----------------------------
(***************************************************************************)
(* What dependsOn promises (docs/src/concepts/depends-on.md), without      *)
(* layers, channels or wait groups: a job may start once every job it      *)
(* waits for has finished, several may run at once, and after a failure    *)
(* nothing new is started while what runs is left to end.                  *)
(***************************************************************************)
VARIABLES
    waitsFor,      \* the graph: job -> the jobs that must be finished first
    started,
    finished,
    failed

dagVars == <<waitsFor, started, finished, failed>>

Jobs == DOMAIN waitsFor

DagInit == started = {} /\ finished = {} /\ failed = {}

(* Every job of S becomes runnable at the same moment. *)
Start(S) ==
    /\ S # {}
    /\ S \subseteq Jobs \ started
    /\ failed = {}
    /\ \A j \in S : waitsFor[j] \subseteq finished
    /\ started' = started \cup S
    /\ UNCHANGED <<waitsFor, finished, failed>>

Finish(j) ==
    /\ j \in started \ (finished \cup failed)
    /\ finished' = finished \cup {j}
    /\ UNCHANGED <<waitsFor, started, failed>>

Fail(j) ==
    /\ j \in started \ (finished \cup failed)
    /\ failed' = failed \cup {j}
    /\ UNCHANGED <<waitsFor, started, finished>>

DagNext ==
    \/ \E S \in SUBSET Jobs : Start(S)
    \/ \E j \in Jobs : Finish(j) \/ Fail(j)

DagSpec == DagInit /\ [][DagNext]_dagVars
=============================================================================
