------------------------- MODULE ValidateDependsOn -------------------------
(***************************************************************************)
(* validator.ValidateDependsOn (pkg/validator/depends_on.go), the check    *)
(* "tazuna check" runs.  It is a second implementation of Kahn's           *)
(* algorithm: one pass walks over the manifests and takes a ready one out  *)
(* in place, so a manifest released early in a pass may be taken later in  *)
(* the same pass.  The pass variables progressed and processed are kept.   *)
(***************************************************************************)
EXTENDS ManifestGraph

VARIABLES
    degree,         \* inDegree
    cursor,         \* the index the pass visits next
    progressed,     \* did this pass take a manifest out?
    processed,      \* how many were taken out so far
    verdict         \* "none", "walking", "accept" or "reject"

checkVars == <<manifests, degree, cursor, progressed, processed, verdict>>

CheckInit ==
    /\ manifests \in Inputs
    /\ degree = <<>>
    /\ cursor = 1
    /\ progressed = FALSE
    /\ processed = 0
    /\ verdict = "none"

(* References first: all errors are collected, any of them rejects. *)
CheckReferences ==
    /\ verdict = "none"
    /\ IF manifests = <<>>
       THEN verdict' = "accept" /\ UNCHANGED degree
       ELSE IF BadReference(manifests)
            THEN verdict' = "reject" /\ UNCHANGED degree
            ELSE verdict' = "walking" /\ degree' = InitialInDegree(manifests)
    /\ UNCHANGED <<manifests, cursor, progressed, processed>>

(* One manifest of the pass "for i := range manifests". *)
Visit ==
    /\ verdict = "walking"
    /\ cursor <= Len(manifests)
    /\ cursor' = cursor + 1
    /\ IF degree[cursor] = 0
       THEN /\ degree' = Release(manifests, degree, {cursor})
            /\ processed' = processed + 1
            /\ progressed' = TRUE
       ELSE UNCHANGED <<degree, processed, progressed>>
    /\ UNCHANGED <<manifests, verdict>>

(* Mutant: only one pass is made. *)
EndPassOnce ==
    /\ verdict = "walking"
    /\ cursor > Len(manifests)
    /\ verdict' = IF processed = Len(manifests) THEN "accept" ELSE "reject"
    /\ UNCHANGED <<manifests, degree, cursor, progressed, processed>>

(* Mutant: passes are made until nothing is left, whether or not the last  *)
(* one took a manifest out.                                                *)
EndPassForever ==
    /\ verdict = "walking"
    /\ cursor > Len(manifests)
    /\ IF processed < Len(manifests)
       THEN cursor' = 1 /\ progressed' = FALSE /\ UNCHANGED verdict
       ELSE verdict' = "accept" /\ UNCHANGED <<cursor, progressed>>
    /\ UNCHANGED <<manifests, degree, processed>>

(* The end of a pass: another one, or the verdict. *)
EndPass ==
    /\ verdict = "walking"
    /\ cursor > Len(manifests)
    /\ IF progressed /\ processed < Len(manifests)
       THEN /\ cursor' = 1
            /\ progressed' = FALSE
            /\ UNCHANGED verdict
       ELSE /\ verdict' = IF processed = Len(manifests) THEN "accept" ELSE "reject"
            /\ UNCHANGED <<cursor, progressed>>
    /\ UNCHANGED <<manifests, degree, processed>>

Check == CheckReferences \/ Visit \/ EndPass

Checked ==
    /\ verdict \in {"accept", "reject"}
    /\ UNCHANGED checkVars

CheckNext == Check \/ Checked

CheckSpec == CheckInit /\ [][CheckNext]_checkVars /\ WF_checkVars(Check)

-----------------------------------------------------------------------------
CheckTypeOK ==
    /\ manifests \in Seq(Manifest)
    /\ \/ degree = <<>>
       \/ degree \in [DOMAIN manifests -> Int]
    /\ cursor \in 1..(Len(manifests) + 1)
    /\ progressed \in BOOLEAN
    /\ processed \in 0..Len(manifests)
    /\ verdict \in {"none", "walking", "accept", "reject"}

(* "tazuna check" accepts exactly the inputs for which the runner finds    *)
(* layers: the reference both implementations are held to is Resolvable.   *)
AcceptsExactlyResolvable ==
    /\ verdict = "accept" => Resolvable(manifests)
    /\ verdict = "reject" => ~Resolvable(manifests)
=============================================================================
