------------------------- MODULE MCDependencyOrder -------------------------
(***************************************************************************)
(* "tazuna check" and then "tazuna apply" on the same file: the validator  *)
(* and the runner each walk the graph of the manifest lists of             *)
(* MCManifests.  Nothing makes a user run the check, so the runner         *)
(* resolves the order whatever the verdict was.                            *)
(***************************************************************************)
EXTENDS DependencyOrder, ValidateDependsOn, MCManifests

checkedFile == <<degree, cursor, progressed, processed, verdict>>
resolved == <<inDegree, layers, resolution>>
bothVars == <<manifests, checkedFile, resolved>>

BothInit == OrderInit /\ CheckInit

BothStep ==
    \/ Check /\ UNCHANGED resolved
    \/ Checked /\ Resolve

BothNext == BothStep \/ (Checked /\ Resolved)

BothSpec == BothInit /\ [][BothNext]_bothVars /\ WF_bothVars(BothStep)

(* Both loops end on every file, also on a cycle, on a reference to        *)
(* oneself and on repeated names.                                          *)
BothTerminate ==
    <>(verdict \in {"accept", "reject"} /\ resolution \in {"ok", "error"})
=============================================================================
