------------------------- MODULE MCResourceRollout -------------------------
(* Manifests with a custom resource declared before its definition, with a   *)
(* Pod in a List, and with each kind of workload.                            *)
EXTENDS ResourceRollout

Doc(name, kind, crd, replicas) ==
    [name |-> name, kind |-> kind, crd |-> crd, replicas |-> replicas, items |-> <<>>]

Comment == Doc("", "", "", "")
Pod == Doc("p", "Pod", "", "")
Workload(kind) == Doc("w", kind, "", "some")

SomeRenderings ==
    { << Doc("r", "Custom", "c", ""), Comment, Doc("c", "CRD", "", "") >>,
      << [Doc("", "List", "", "") EXCEPT !.items = <<Pod, Workload("Deployment")>>] >>,
      << Workload("StatefulSet") >>, << Workload("DaemonSet") >>,
      << Doc("w", "Deployment", "", "zero"), Doc("p", "Job", "", "") >> }

T(type, target, should, cond, success, failure, timeout) ==
    [type |-> type, target |-> target, shouldExist |-> should, condition |-> cond,
     success |-> success, failure |-> failure, timeout |-> timeout]

SomeTests ==
    { T("existNonExist", "r", TRUE, "ready", 0, 2, FALSE),
      T("existNonExist", "p", FALSE, "ready", 2, 0, TRUE),
      T("waitUntil", "w", TRUE, "ready", 2, 3, TRUE),
      T("waitUntil", "p", TRUE, "invalid", 1, 0, TRUE) }
=============================================================================
