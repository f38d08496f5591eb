-------------------------- MODULE ResourceRollout --------------------------
(***************************************************************************)
(* What happens to the objects of one manifest in the cluster: the order   *)
(* they are put in, CreateOrUpdateForObject for each of them (server-side  *)
(* apply, or delete, wait and create for Jobs and Pods), WaitForReady, and *)
(* the polling loop of a test plugin.  Meanwhile controllers write status, *)
(* finalizers hold deletions up, other clients create and delete objects,  *)
(* API calls fail, deadlines pass and the run is interrupted.              *)
(***************************************************************************)
EXTENDS Integers, Sequences, SequencesExt, FiniteSets

CONSTANTS
    Renderings,     \* the sequences of YAML documents considered
    Tests,          \* the test plugins considered
    MaxOthers       \* bound on what other clients create and delete

(* The kind of a document is "" if it has none; "crd" is the name of the   *)
(* definition a custom resource needs.                                     *)
Kinds == {"CRD", "Job", "Pod", "Deployment", "StatefulSet", "DaemonSet", "Custom"}

ASSUME RolloutAssumption ==
    /\ \A docs \in Renderings : \A doc \in ToSet(docs) :
         /\ docs \in Seq(ToSet(docs)) /\ doc.kind \in Kinds \cup {"", "List"}
         /\ doc.items \in Seq(ToSet(doc.items)) /\ \A item \in ToSet(doc.items) : item.kind \in Kinds
    /\ Tests \subseteq [type : {"existNonExist", "waitUntil"}, target : STRING,
                        shouldExist : BOOLEAN, condition : {"ready", "invalid"},
                        success : Nat, failure : Nat, timeout : BOOLEAN]
    /\ MaxOthers \in Nat

-----------------------------------------------------------------------------
(* Empty documents and those without a kind are dropped, a List is opened. *)
Expand(doc) ==
    IF doc.kind = "" THEN <<>> ELSE IF doc.kind = "List" THEN doc.items ELSE <<doc>>

Decoded(docs) == FlattenSeq([i \in DOMAIN docs |-> Expand(docs[i])])

IsCRD(object) == object.kind = "CRD"

(* Those that are definitions, or those that are not, in their order. *)
Chosen(decoded, crds) ==
    FlattenSeq([i \in DOMAIN decoded |-> IF IsCRD(decoded[i]) = crds THEN <<decoded[i]>> ELSE <<>>])

(* Mutant: the order of the documents is kept. *)
ConvertManifestsUnsorted(docs) == Decoded(docs)

(* Definitions before everything else. *)
ConvertManifestsToObjects(docs) == Chosen(Decoded(docs), TRUE) \o Chosen(Decoded(docs), FALSE)

(* The status fields that are looked at. *)
NoStatus == [none |-> TRUE]
Statuses(kind) ==
    CASE kind \in {"Deployment", "StatefulSet", "DaemonSet"} ->
           {s \in [replicas : 0..1, ready : 0..1, available : 0..1] :
              s.available <= s.ready /\ s.ready <= s.replicas}
      [] kind = "Pod" -> [phase : {"Pending"}, ready : {"", "False"}]
                           \cup [phase : {"Running"}, ready : {"", "False", "True"}]
      [] kind = "CRD" -> {[established |-> TRUE]}
      [] OTHER -> {}

Gone == [exists |-> FALSE]
Present(fresh) == [exists |-> TRUE, status |-> NoStatus, deleting |-> FALSE, fresh |-> fresh]

VARIABLES
    objects,        \* what the manifest declares, in order
    wait,           \* wait: true
    live,           \* name -> the object in the cluster; fresh: made by this run
    pc,             \* where the run is
    idx,            \* the object it is at
    test,           \* the test plugin of the manifest
    history,        \* testFnHistory: TRUE for nil
    expired,        \* the deadline of the current phase has passed
    interrupted,    \* the context of the run is cancelled
    others,         \* what other clients have done
    (* History variables, read by properties only. *)
    applied,        \* positions of the objects applied or created by this run
    wasReady,       \* objects that have been ready since they were applied
    streak          \* the latest polls: how many in a row held, or did not

configVars == <<objects, wait, test>>
vars == <<objects, wait, test, live, pc, idx, history, expired, interrupted, others,
          applied, wasReady, streak>>

NoStreak == [held |-> 0, failed |-> 0]
Names == {objects[i].name : i \in DOMAIN objects}
Object(name) == CHOOSE o \in ToSet(objects) : o.name = name
Immutable(o) == o.kind \in {"Job", "Pod"}
FirstCall(i) == IF Immutable(objects[i]) THEN "get" ELSE "apply"

(* The test is about an object of the manifest, which so has one. *)
Init ==
    /\ objects \in {ConvertManifestsToObjects(docs) : docs \in Renderings}
    /\ test \in {t \in Tests : t.target \in Names}
    /\ wait \in BOOLEAN
    /\ live \in {[n \in Names |-> IF n \in old THEN Present(FALSE) ELSE Gone] : old \in SUBSET Names}
    /\ pc = FirstCall(1)
    /\ idx = 1
    /\ history = <<>>
    /\ expired = FALSE /\ interrupted = FALSE
    /\ others = 0
    /\ applied = {} /\ wasReady = {} /\ streak = NoStreak

-----------------------------------------------------------------------------
(***************************************************************************)
(* Readiness.                                                              *)
(***************************************************************************)

IsWorkloadReady(o, s) ==
    \/ o.replicas = "zero"
    \/ s # NoStatus /\ s.ready = s.replicas /\ s.available = s.replicas /\ s.replicas > 0

IsStatefulSetReady(o, s) ==
    o.replicas = "zero" \/ (s # NoStatus /\ s.ready = s.replicas /\ s.replicas > 0)

IsDaemonSetReady(s) == s # NoStatus /\ s.ready = s.replicas /\ s.replicas > 0

IsPodReady(s) == s # NoStatus /\ s.phase = "Running" /\ s.ready = "True"

IsReady(o, s) ==
    CASE o.kind = "Deployment" -> IsWorkloadReady(o, s)
      [] o.kind = "StatefulSet" -> IsStatefulSetReady(o, s)
      [] o.kind = "DaemonSet" -> IsDaemonSetReady(s)
      [] o.kind = "Pod" -> IsPodReady(s)
      [] OTHER -> TRUE

(* Mutant: an object that is not found has nothing to wait for. *)
IsResourceReadyIfMissing(l, n) == l[n].exists => IsReady(Object(n), l[n].status)

IsResourceReady(l, n) == l[n].exists /\ IsReady(Object(n), l[n].status)

(* The history variable that follows a change of the cluster. *)
Observe(except) ==
    wasReady' = (wasReady \ except)
                  \cup {n \in Names : live'[n].exists /\ IsReady(Object(n), live'[n].status)}

-----------------------------------------------------------------------------
(***************************************************************************)
(* CreateOrUpdateForObject.                                                *)
(***************************************************************************)

O == objects[idx]
L == live[O.name]
NotCancelled == ~interrupted

(* The next object, then the wait, then the test. *)
Advance ==
    /\ IF idx < Len(objects)
       THEN idx' = idx + 1 /\ pc' = FirstCall(idx + 1)
       ELSE idx' = 1 /\ pc' = IF wait THEN "wait" ELSE "test"
    /\ expired' = FALSE

Fail == pc' = "failed" /\ UNCHANGED <<idx, expired>>

(* A custom resource can be applied once its definition is established. *)
KindServed(o) == o.crd # "" => live[o.crd].exists /\ live[o.crd].status # NoStatus

(* c.Apply: the declared fields are set; status and a pending deletion of  *)
(* the object stay as they are.                                            *)
ServerSideApply ==
    /\ pc = "apply"
    /\ NotCancelled
    /\ KindServed(O)
    /\ live' = [live EXCEPT ![O.name] =
                  IF L.exists THEN [L EXCEPT !.fresh = TRUE] ELSE Present(TRUE)]
    /\ Advance
    /\ Observe({O.name})
    /\ applied' = applied \cup {idx}
    /\ UNCHANGED <<configVars, history, interrupted, others, streak>>

GetImmutable ==
    /\ pc = "get"
    /\ NotCancelled
    /\ pc' = IF L.exists THEN "delete" ELSE "create"
    /\ UNCHANGED <<live, idx, configVars, history, expired, interrupted, others, applied, wasReady, streak>>

(* Somebody else's deletion makes the call fail; otherwise the object is   *)
(* gone at once or, with a grace period or finalizer, later.               *)
DeleteImmutable ==
    /\ pc = "delete"
    /\ NotCancelled
    /\ IF L.exists
       THEN /\ live' \in {[live EXCEPT ![O.name] = Gone], [live EXCEPT ![O.name].deleting = TRUE]}
            /\ pc' = "gone"
            /\ UNCHANGED <<idx, expired>>
       ELSE Fail /\ UNCHANGED live
    /\ Observe({})
    /\ UNCHANGED <<configVars, history, interrupted, others, applied, streak>>

DeletionSeen == ~L.exists

(* A tick of waitForDeletion; while the object is there it waits on. *)
WaitForDeletion ==
    /\ pc = "gone"
    /\ ~interrupted /\ ~expired
    /\ DeletionSeen
    /\ pc' = "create"
    /\ UNCHANGED <<live, idx, configVars, history, expired, interrupted, others, applied, wasReady, streak>>

(* Mutant: "already exists" is taken for success. *)
CreateImmutableTolerant ==
    /\ pc = "create"
    /\ NotCancelled
    /\ live' = IF L.exists THEN live
               ELSE [live EXCEPT ![O.name] = Present(TRUE)]
    /\ Advance
    /\ Observe({O.name})
    /\ applied' = applied \cup {idx}
    /\ UNCHANGED <<configVars, history, interrupted, others, streak>>

CreateImmutable ==
    /\ pc = "create"
    /\ NotCancelled
    /\ IF L.exists
       THEN Fail /\ UNCHANGED <<live, applied>>
       ELSE live' = [live EXCEPT ![O.name] = Present(TRUE)] /\ Advance /\ applied' = applied \cup {idx}
    /\ Observe(IF L.exists THEN {} ELSE {O.name})
    /\ UNCHANGED <<configVars, history, interrupted, others, streak>>

(* A call returns an error. *)
CallFails ==
    /\ pc \in {"apply", "get", "delete", "gone", "create", "wait"}
    /\ Fail
    /\ UNCHANGED <<live, configVars, history, interrupted, others, applied, wasReady, streak>>

-----------------------------------------------------------------------------
(***************************************************************************)
(* WaitForReady and the deadlines.                                         *)
(***************************************************************************)

(* A tick of waitForResource; the objects are waited for one by one, under *)
(* one deadline, and one that is not ready is looked at again.             *)
WaitForReady ==
    /\ pc = "wait"
    /\ ~interrupted /\ ~expired
    /\ IsResourceReady(live, O.name)
    /\ IF idx < Len(objects) THEN idx' = idx + 1 /\ UNCHANGED pc ELSE idx' = 1 /\ pc' = "test"
    /\ UNCHANGED <<live, configVars, history, expired, interrupted, others, applied, wasReady, streak>>

(* Mutant: waiting for a deletion has no deadline. *)
HasDeadlineNotGone == pc = "wait" \/ (pc = "test" /\ test.timeout)

HasDeadline == pc \in {"gone", "wait"} \/ (pc = "test" /\ test.timeout)

Expire ==
    /\ HasDeadline
    /\ ~expired
    /\ expired' = TRUE
    /\ UNCHANGED <<live, pc, idx, configVars, history, interrupted, others, applied, wasReady, streak>>

ContextDone == expired \/ interrupted

(* select takes ctx.Done(). *)
GiveUp ==
    /\ pc \in {"gone", "wait", "test"}
    /\ ContextDone
    /\ Fail
    /\ UNCHANGED <<live, configVars, history, interrupted, others, applied, wasReady, streak>>

-----------------------------------------------------------------------------
(***************************************************************************)
(* The test plugins and their polling loop.                                *)
(***************************************************************************)

Target == live[test.target]

ExistNonExist(got) == IF test.shouldExist THEN got = "found" ELSE got = "notfound"

(* CompileCEL, once per expression. *)
Program(condition) == condition # "invalid"

(* A field that is not there is an evaluation error. *)
EvaluateCEL(condition, o) == o.status # NoStatus /\ IsReady(Object(test.target), o.status)

WaitUntil(got) ==
    /\ got = "found"
    /\ Program(test.condition)
    /\ EvaluateCEL(test.condition, Target)

Run(got) == IF test.type = "existNonExist" THEN ExistNonExist(got) ELSE WaitUntil(got)

MinSuccess == IF test.success = 0 THEN 1 ELSE test.success
MaxCount == IF MinSuccess > test.failure THEN MinSuccess ELSE test.failure

MaxHistory == MaxCount

(* Mutant: the history is never cut. *)
CutNever(h) == h

Cut(h) == IF Len(h) > MaxHistory THEN SubSeq(h, Len(h) - MaxHistory + 1, Len(h)) ELSE h

ConsecutiveReached(h, count, value) ==
    Len(h) >= count /\ \A i \in (Len(h) - count + 1)..Len(h) : h[i] = value

(* Mutant: a failure count that is not set is reached at once. *)
VerdictUnset(h) ==
    IF ConsecutiveReached(h, MinSuccess, TRUE) THEN "done"
    ELSE IF ConsecutiveReached(h, test.failure, FALSE) THEN "failed" ELSE "test"

Verdict(h) ==
    IF ConsecutiveReached(h, MinSuccess, TRUE) THEN "done"
    ELSE IF test.failure # 0 /\ ConsecutiveReached(h, test.failure, FALSE) THEN "failed" ELSE "test"

(* Whether the tested condition is true of the cluster. *)
Holds ==
    IF test.type = "existNonExist" THEN Target.exists = test.shouldExist
    ELSE Target.exists /\ test.condition # "invalid" /\ Target.status # NoStatus
         /\ IsReady(Object(test.target), Target.status)

Count(n) == IF n < MaxCount THEN n + 1 ELSE n

(* The timer fires; with a finished context the call can only fail. *)
Poll ==
    /\ pc = "test"
    /\ \E got \in {"error", IF ContextDone THEN "error"
                            ELSE IF Target.exists THEN "found" ELSE "notfound"} :
         /\ history' = Cut(Append(history, Run(got)))
         /\ streak' = IF got # "error" /\ Holds
                      THEN [held |-> Count(streak.held), failed |-> 0]
                      ELSE [held |-> 0, failed |-> Count(streak.failed)]
    /\ pc' = Verdict(history')
    /\ UNCHANGED <<live, idx, configVars, expired, interrupted, others, applied, wasReady>>

-----------------------------------------------------------------------------
(***************************************************************************)
(* Everybody else.                                                         *)
(***************************************************************************)

ControllerWritesStatus(n, s) ==
    /\ live[n].exists
    /\ live[n].status # s
    /\ live' = [live EXCEPT ![n].status = s]
    /\ Observe({})
    /\ UNCHANGED <<pc, idx, configVars, history, expired, interrupted, others, applied, streak>>

DeletionCompletes(n) ==
    /\ live[n].exists /\ live[n].deleting
    /\ live' = [live EXCEPT ![n] = Gone]
    /\ UNCHANGED <<pc, idx, configVars, history, expired, interrupted, others, applied, wasReady, streak>>

OtherClient(n) ==
    /\ others < MaxOthers
    /\ others' = others + 1
    /\ IF live[n].exists
       THEN live' \in {[live EXCEPT ![n] = Gone], [live EXCEPT ![n].deleting = TRUE]}
       ELSE live' = [live EXCEPT ![n] = Present(FALSE)]
    /\ Observe({})
    /\ UNCHANGED <<pc, idx, configVars, history, expired, interrupted, applied, streak>>

Interrupt ==
    /\ ~interrupted
    /\ pc \notin {"done", "failed"}
    /\ interrupted' = TRUE
    /\ UNCHANGED <<live, pc, idx, configVars, history, expired, others, applied, wasReady, streak>>

Ended == pc \in {"done", "failed"}

(* The cluster may come to rest, and so may the run. *)
Rest == (Ended \/ pc \in {"gone", "wait", "test"}) /\ UNCHANGED vars

Others ==
    \/ \E n \in Names : DeletionCompletes(n) \/ OtherClient(n)
                        \/ \E s \in Statuses(Object(n).kind) : ControllerWritesStatus(n, s)
    \/ Interrupt

Step ==
    \/ ServerSideApply \/ GetImmutable \/ DeleteImmutable \/ WaitForDeletion
    \/ CreateImmutable \/ CallFails \/ WaitForReady \/ GiveUp \/ Poll

Next == Step \/ Expire \/ (~Ended /\ Others) \/ Rest

(* The goroutine runs on, time passes, and select sees a finished context. *)
Fairness ==
    /\ WF_vars(Step /\ pc \notin {"test", "gone", "wait"})
    /\ WF_vars(WaitForDeletion) /\ WF_vars(WaitForReady) /\ WF_vars(Poll)
    /\ WF_vars(Expire) /\ WF_vars(GiveUp)

Spec == Init /\ [][Next]_vars /\ Fairness

-----------------------------------------------------------------------------
LiveObject(kind) ==
    {Gone} \cup [exists : {TRUE}, status : Statuses(kind) \cup {NoStatus},
                 deleting : BOOLEAN, fresh : BOOLEAN]

(* The history never outgrows what the two counts need. *)
TypeOK ==
    /\ \A n \in Names : live[n] \in LiveObject(Object(n).kind)
    /\ pc \in {"apply", "get", "delete", "gone", "create", "wait", "test", "done", "failed"}
    /\ idx \in DOMAIN objects
    /\ test \in Tests
    /\ history \in BoundedSeq(BOOLEAN, MaxCount)
    /\ expired \in BOOLEAN /\ interrupted \in BOOLEAN
    /\ others \in 0..MaxOthers
    /\ applied \subseteq DOMAIN objects /\ wasReady \subseteq Names

Recreating == {"get", "delete", "gone", "create"}

(* A Job or Pod counts as applied only when this run has created it: the   *)
(* object then in the cluster has the declared content, is not the one     *)
(* that was there before and is not about to disappear, although deletions *)
(* linger and others create and delete the object too.                     *)
RecreatedIsFresh ==
    [][(pc \in Recreating) /\ (pc' \notin Recreating \/ idx' # idx) /\ pc' # "failed" =>
         live'[O.name].exists /\ live'[O.name].fresh /\ ~live'[O.name].deleting]_vars

(* The wait ends well only if every object has been ready in the cluster   *)
(* at some moment since it was applied.  (Not all at the same moment: they *)
(* are looked at one after another.  And "ready" is what the status says,  *)
(* which may still be about the object as it was before.)                  *)
ReadyWasSeen ==
    /\ pc = "wait" => \A i \in 1..(idx - 1) : objects[i].name \in wasReady
    /\ wait /\ pc \in {"test", "done"} => Names \subseteq wasReady

(* A custom resource comes to the cluster only after every definition that *)
(* its manifest declares, wherever the documents stand: none is applied or *)
(* re-created before all definitions have been applied.  And nothing is    *)
(* waited for, tested or called done before all objects have been.         *)
AppliedInOrder ==
    /\ pc \in Recreating \cup {"apply"} /\ ~IsCRD(O) =>
         \A i \in DOMAIN objects : IsCRD(objects[i]) => i \in applied
    /\ pc \in {"wait", "test", "done"} => applied = DOMAIN objects

(* The condition has held in as many polls in a row as it has to, or has   *)
(* failed to in as many as end the test; 0 is no number of failures.       *)
Passed == streak.held >= MinSuccess
FailedTooOften == test.failure # 0 /\ streak.failed >= test.failure

(* The verdict of a test plugin is about the cluster, whatever part of the *)
(* history was cut away: the test passes with the poll that makes the      *)
(* condition have held for minConsecutiveSuccessCount polls in a row, not  *)
(* before and not after; it fails with the poll that makes it not have     *)
(* held, or not be answered, for minConsecutiveFailureCount polls, and for *)
(* no other reason than the end of its deadline or of the context.         *)
VerdictMatchesStreak ==
    [][pc = "test" =>
         /\ pc' = "done" <=> Passed'
         /\ FailedTooOften' => pc' = "failed"
         /\ pc' = "failed" => FailedTooOften' \/ ContextDone]_vars

(* A run whose test has a timeout ends, and so does an interrupted run: no *)
(* stuck finalizer, object that never gets ready or condition that never   *)
(* holds keeps it for ever.                                                *)
RolloutEnds == (test.timeout \/ interrupted) ~> Ended
=============================================================================
