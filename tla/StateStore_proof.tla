-------------------------- MODULE StateStore_proof --------------------------
(***************************************************************************)
(* Proofs about StateStore, for any number of processes, goroutines and    *)
(* deletions of the namespace.                                             *)
(***************************************************************************)
EXTENDS StateStorage, SequenceLemmas, FiniteSetTheorems

-----------------------------------------------------------------------------
(***************************************************************************)
(* The inductive invariant.                                                *)
(***************************************************************************)

(* Who is inside EnsureNamespace holds the mutex of its process, and the   *)
(* flag of that process is not set yet.                                    *)
Exclusion ==
    \A s \in Savers : pc[s] \in InEnsure =>
        /\ nsMu[ProcessOf[s]] = s
        /\ ~nsEnsured[ProcessOf[s]]

(* The flag counts the successes. *)
Counting ==
    \A p \in Processes : ensures[p] = IF nsEnsured[p] THEN 1 ELSE 0

(* Versions come from the revision counter. *)
Revisions ==
    /\ \A m \in States : version[m] <= revision
    /\ \A s \in Savers : existing[s] <= revision
    /\ \A s \in Savers : pc[s] = "update" => existing[s] # 0
    /\ \A s \in Savers : pc[s] = "create" => existing[s] = 0

(* A stale saver holds a version that is not the current one. *)
Staleness ==
    \A s \in stale :
        /\ pc[s] \in {"update", "create", "failed", "lost"}
        /\ pc[s] \in {"update", "create"} => version[Target[s]] # existing[s]

IInv == TypeOK /\ Exclusion /\ Counting /\ Revisions /\ Staleness

(* Every saver has a process and a state. *)
LEMMA SaverTypes ==
    ASSUME NEW s \in Savers
    PROVE  ProcessOf[s] \in Processes /\ Target[s] \in States
BY StoreAssumption DEF States

-----------------------------------------------------------------------------
(* The invariant holds initially. *)
LEMMA InitInvariant == Init => IInv
BY StoreAssumption
   DEF Init, IInv, TypeOK, Exclusion, Counting, Revisions, Staleness, InEnsure, Ended

(* The steps of ensureNamespaceOnce. *)
LEMMA EnsureKeepsInvariant ==
    ASSUME IInv, NEW s \in Savers,
           \/ Get(s) \/ GetFails(s) \/ Lock(s)
           \/ NamespaceFound(s) \/ NamespaceMissing(s)
           \/ CreateNamespace(s) \/ EnsureFails(s)
    PROVE  IInv'
<1> USE SaverTypes, StoreAssumption
<1> USE DEF IInv, apiVars, histVars, Goto, InEnsure, Ended
<1>1. CASE Get(s)
  <2>1. TypeOK'
    BY <1>1 DEF Get, TypeOK
  <2>2. Exclusion' /\ Counting' /\ Revisions' /\ Staleness'
    BY <1>1 DEF Get, TypeOK, Exclusion, Counting, Revisions, Staleness
  <2> QED BY <2>1, <2>2
<1>2. CASE GetFails(s)
  <2>1. TypeOK'
    BY <1>2 DEF GetFails, Fault, TypeOK
  <2>2. Exclusion' /\ Counting' /\ Revisions' /\ Staleness'
    BY <1>2 DEF GetFails, Fault, TypeOK, Exclusion, Counting, Revisions, Staleness
  <2> QED BY <2>1, <2>2
<1>3. CASE Lock(s)
  <2>1. TypeOK'
    BY <1>3 DEF Lock, TypeOK
  <2>2. Exclusion'
    BY <1>3 DEF Lock, TypeOK, Exclusion
  <2>3. Counting' /\ Revisions' /\ Staleness'
    BY <1>3 DEF Lock, TypeOK, Counting, Revisions, Staleness
  <2> QED BY <2>1, <2>2, <2>3
<1>4. CASE NamespaceFound(s)
  <2>1. TypeOK'
    BY <1>4 DEF NamespaceFound, Ensured, Unlock, TypeOK
  <2>2. Exclusion'
    BY <1>4 DEF NamespaceFound, Ensured, Unlock, TypeOK, Exclusion
  <2>3. Counting'
    BY <1>4 DEF NamespaceFound, Ensured, TypeOK, Exclusion, Counting
  <2>4. Revisions' /\ Staleness'
    BY <1>4 DEF NamespaceFound, Ensured, TypeOK, Revisions, Staleness
  <2> QED BY <2>1, <2>2, <2>3, <2>4
<1>5. CASE NamespaceMissing(s)
  <2>1. TypeOK'
    BY <1>5 DEF NamespaceMissing, TypeOK
  <2>2. Exclusion' /\ Counting' /\ Revisions' /\ Staleness'
    BY <1>5 DEF NamespaceMissing, TypeOK, Exclusion, Counting, Revisions, Staleness
  <2> QED BY <2>1, <2>2
<1>6. CASE CreateNamespace(s)
  <2>1. TypeOK'
    BY <1>6 DEF CreateNamespace, Ensured, Unlock, TypeOK
  <2>2. Exclusion'
    BY <1>6 DEF CreateNamespace, Ensured, Unlock, TypeOK, Exclusion
  <2>3. Counting'
    BY <1>6 DEF CreateNamespace, Ensured, TypeOK, Exclusion, Counting
  <2>4. Revisions' /\ Staleness'
    BY <1>6 DEF CreateNamespace, Ensured, TypeOK, Revisions, Staleness
  <2> QED BY <2>1, <2>2, <2>3, <2>4
<1>7. CASE EnsureFails(s)
  <2>1. TypeOK'
    BY <1>7 DEF EnsureFails, Fault, Unlock, TypeOK
  <2>2. Exclusion'
    BY <1>7 DEF EnsureFails, Fault, Unlock, TypeOK, Exclusion
  <2>3. Counting' /\ Revisions' /\ Staleness'
    BY <1>7 DEF EnsureFails, Fault, TypeOK, Counting, Revisions, Staleness
  <2> QED BY <2>1, <2>2, <2>3
<1> QED BY <1>1, <1>2, <1>3, <1>4, <1>5, <1>6, <1>7

(* A write that is carried out: the new version is larger than every       *)
(* version anybody has read.                                               *)
LEMMA WriteKeepsInvariant ==
    ASSUME IInv, NEW s \in Savers, NEW step \in {"ok", "failed"},
           pc[s] \in {"update", "create"}, Permitted(s), Write(s), Goto(s, step),
           faulted' \subseteq Savers,
           UNCHANGED <<namespace, nsMu, nsEnsured, base, existing, wipes, ensures>>
    PROVE  IInv'
<1> USE SaverTypes, StoreAssumption
<1> USE DEF IInv, Goto, InEnsure, Ended
<1>1. TypeOK'
  BY DEF Write, TypeOK
<1>2. Exclusion' /\ Counting'
  BY DEF TypeOK, Exclusion, Counting
<1>3. Revisions'
  BY DEF Write, TypeOK, Revisions
<1>4. s \notin stale
  BY DEF Permitted, Staleness
<1>5. Staleness'
  <2> SUFFICES ASSUME NEW t \in stale'
               PROVE  /\ pc'[t] \in {"update", "create", "failed", "lost"}
                      /\ pc'[t] \in {"update", "create"} => version'[Target[t]] # existing'[t]
    BY DEF Staleness
  <2>1. t \in Savers /\ t # s /\ pc'[t] = pc[t]
    BY <1>4 DEF Write, TypeOK
  <2>2. CASE Target[t] = Target[s]
    <3>1. pc[t] \in {"update", "create", "failed", "lost"}
      BY <2>1 DEF Write, Staleness
    <3>2. version'[Target[t]] = revision + 1
      BY <2>2 DEF Write, TypeOK
    <3>3. existing'[t] <= revision /\ revision \in Nat /\ existing'[t] \in Nat
      BY <2>1 DEF TypeOK, Revisions
    <3> QED BY <2>1, <3>1, <3>2, <3>3
  <2>3. CASE Target[t] # Target[s]
    <3>1. t \in stale
      BY <2>3 DEF Write
    <3>2. version'[Target[t]] = version[Target[t]]
      BY <2>1, <2>3 DEF Write, TypeOK
    <3> QED BY <2>1, <3>1, <3>2 DEF Staleness
  <2> QED BY <2>2, <2>3
<1> QED BY <1>1, <1>2, <1>3, <1>5

(* The steps of Save. *)
LEMMA SaveKeepsInvariant ==
    ASSUME IInv, NEW s \in Savers,
           \/ GetExisting(s) \/ GetExistingFails(s)
           \/ WriteConfigMap(s) \/ WriteRefused(s) \/ WriteFails(s)
    PROVE  IInv'
<1> USE SaverTypes, StoreAssumption
<1>1. CASE GetExisting(s)
  <2> USE <1>1 DEF GetExisting, apiVars, histVars, Goto, InEnsure, Ended
  <2>1. TypeOK'
    BY DEF IInv, TypeOK
  <2>2. Exclusion' /\ Counting'
    BY DEF IInv, TypeOK, Exclusion, Counting
  <2>3. Revisions'
    BY DEF IInv, TypeOK, Revisions
  <2>4. Staleness'
    BY DEF IInv, TypeOK, Staleness
  <2> QED BY <2>1, <2>2, <2>3, <2>4 DEF IInv
<1>2. CASE GetExistingFails(s)
  <2> USE <1>2 DEF GetExistingFails, Fault, apiVars, Goto, InEnsure, Ended
  <2>1. TypeOK'
    BY DEF IInv, TypeOK
  <2>2. Exclusion' /\ Counting' /\ Revisions' /\ Staleness'
    BY DEF IInv, TypeOK, Exclusion, Counting, Revisions, Staleness
  <2> QED BY <2>1, <2>2 DEF IInv
<1>3. CASE WriteConfigMap(s)
  BY <1>3, WriteKeepsInvariant DEF WriteConfigMap, IInv, TypeOK
<1>4. CASE WriteRefused(s)
  <2> USE <1>4 DEF WriteRefused, apiVars, histVars, Goto, InEnsure, Ended
  <2>1. TypeOK'
    BY DEF IInv, TypeOK
  <2>2. Exclusion' /\ Counting' /\ Revisions' /\ Staleness'
    BY DEF IInv, TypeOK, Exclusion, Counting, Revisions, Staleness
  <2> QED BY <2>1, <2>2 DEF IInv
<1>5. CASE WriteFails(s)
  <2>1. CASE Permitted(s) /\ Write(s)
    BY <1>5, <2>1, WriteKeepsInvariant DEF WriteFails, Fault, IInv, TypeOK
  <2>2. CASE UNCHANGED <<revision, version, data, wrote, stale>>
    <3> USE <1>5, <2>2 DEF WriteFails, Fault, Goto, InEnsure, Ended
    <3>1. TypeOK'
      BY DEF IInv, TypeOK
    <3>2. Exclusion' /\ Counting' /\ Revisions' /\ Staleness'
      BY DEF IInv, TypeOK, Exclusion, Counting, Revisions, Staleness
    <3> QED BY <3>1, <3>2 DEF IInv
  <2> QED BY <1>5, <2>1, <2>2 DEF WriteFails
<1> QED BY <1>1, <1>2, <1>3, <1>4, <1>5

(* The environment. *)
LEMMA EnvironmentKeepsInvariant ==
    ASSUME IInv, DeleteNamespace \/ \E p \in Processes : Kill(p)
    PROVE  IInv'
<1> USE SaverTypes, StoreAssumption
<1>1. CASE DeleteNamespace
  <2> USE <1>1 DEF DeleteNamespace
  <2>1. TypeOK'
    <3>1. namespace' \in BOOLEAN
      OBVIOUS
    <3>2. stale' \subseteq Savers
      BY DEF IInv, TypeOK
    <3>3. wipes' \in Nat
      BY DEF IInv, TypeOK
    <3>4. version' \in [States -> Nat] /\ data' \in [States -> SUBSET Savers]
      OBVIOUS
    <3> QED BY <3>1, <3>2, <3>3, <3>4 DEF IInv, TypeOK
  <2>2. Exclusion' /\ Counting'
    BY DEF IInv, Exclusion, Counting
  <2>3. Revisions'
    BY DEF IInv, TypeOK, Revisions
  <2>4. Staleness'
    BY DEF IInv, TypeOK, Revisions, Staleness
  <2> QED BY <2>1, <2>2, <2>3, <2>4 DEF IInv
<1>2. CASE \E p \in Processes : Kill(p)
  <2> USE <1>2 DEF Kill, apiVars, histVars, InEnsure, Ended
  <2>1. TypeOK'
    BY DEF IInv, TypeOK
  <2>2. Exclusion' /\ Counting' /\ Revisions' /\ Staleness'
    BY DEF IInv, TypeOK, Exclusion, Counting, Revisions, Staleness
  <2> QED BY <2>1, <2>2 DEF IInv
<1> QED BY <1>1, <1>2

(* Every step keeps the invariant. *)
LEMMA NextKeepsInvariant == IInv /\ [Next]_vars => IInv'
<1> SUFFICES ASSUME IInv, [Next]_vars PROVE IInv'
  OBVIOUS
<1>1. CASE \E s \in Savers : Step(s)
  BY <1>1, EnsureKeepsInvariant, SaveKeepsInvariant DEF Step
<1>2. CASE DeleteNamespace \/ \E p \in Processes : Kill(p)
  BY <1>2, EnvironmentKeepsInvariant
<1>3. CASE UNCHANGED vars
  BY <1>3 DEF vars, IInv, TypeOK, Exclusion, Counting, Revisions, Staleness
<1> QED BY <1>1, <1>2, <1>3 DEF Next, Done

(* The invariant of the store. *)
THEOREM StoreInvariant == Spec => []IInv
BY InitInvariant, NextKeepsInvariant, PTL DEF Spec

(* The store is type-correct. *)
THEOREM StoreTypeCorrect == Spec => []TypeOK
<1>1. IInv => TypeOK
  BY DEF IInv
<1> QED BY <1>1, StoreInvariant, PTL

(* At most one goroutine of a process completes EnsureNamespace. *)
THEOREM NamespaceEnsuredOnce == Spec => []EnsuredOnce
<1>1. IInv => EnsuredOnce
  BY DEF IInv, TypeOK, Counting, EnsuredOnce
<1> QED BY <1>1, StoreInvariant, PTL

(* No acknowledged save has overwritten a ConfigMap that Save had not      *)
(* read, whatever other processes did in between.                          *)
THEOREM NoBlindOverwrite == Spec => []StaleWritersRefused
<1>1. IInv => StaleWritersRefused
  BY DEF IInv, Staleness, StaleWritersRefused
<1> QED BY <1>1, StoreInvariant, PTL

-----------------------------------------------------------------------------
(***************************************************************************)
(* Why a save fails.                                                       *)
(***************************************************************************)

(* Who is past the check has a namespace, until somebody deletes it; and   *)
(* the version that Save has read is current until another saver writes.   *)
RefusalsExplained ==
    /\ \A s \in Savers : pc[s] \in {"cmGet", "update", "create"} => nsEnsured[ProcessOf[s]]
    /\ \A p \in Processes : nsEnsured[p] => namespace \/ wipes > 0
    /\ \A s \in Savers : pc[s] \in {"update", "create"} /\ version[Target[s]] # existing[s] =>
         wipes > 0 \/ \E t \in wrote \ {s} : Target[t] = Target[s]

LEMMA NextExplained ==
    IInv /\ RefusalsExplained /\ FailsForAReason /\ [Next]_vars => RefusalsExplained' /\ FailsForAReason'
<1> SUFFICES ASSUME IInv, RefusalsExplained, FailsForAReason, [Next]_vars
             PROVE  RefusalsExplained' /\ FailsForAReason'
  OBVIOUS
<1> USE SaverTypes DEF IInv
<1>1. CASE \E s \in Savers : Get(s) \/ GetFails(s) \/ Lock(s) \/ NamespaceMissing(s) \/ GetExisting(s)
                             \/ GetExistingFails(s)
  <2>1. PICK s \in Savers : Get(s) \/ GetFails(s) \/ Lock(s) \/ NamespaceMissing(s) \/ GetExisting(s)
                            \/ GetExistingFails(s)
    BY <1>1
  <2>2. /\ UNCHANGED <<namespace, version, nsEnsured, wipes, wrote>> /\ faulted \subseteq faulted'
        /\ \A t \in Savers \ {s} : pc'[t] = pc[t] /\ existing'[t] = existing[t]
        /\ pc'[s] \in {"cmGet", "update", "create"} =>
             pc[s] \in {"cmGet", "update", "create"} \/ nsEnsured[ProcessOf[s]]
        /\ pc'[s] \in {"update", "create"} => version[Target[s]] = existing'[s]
        /\ pc'[s] = "failed" => s \in faulted'
    BY <2>1 DEF TypeOK, Get, GetFails, Lock, NamespaceMissing, GetExisting, GetExistingFails, Fault, Goto,
                apiVars, histVars
  <2>3. RefusalsExplained'
    BY <2>2 DEF RefusalsExplained
  <2>4. FailsForAReason'
    BY <2>2 DEF FailsForAReason
  <2> QED BY <2>3, <2>4
<1>2. CASE \E s \in Savers : NamespaceFound(s) \/ CreateNamespace(s) \/ EnsureFails(s)
  <2>1. PICK s \in Savers : NamespaceFound(s) \/ CreateNamespace(s) \/ EnsureFails(s)
    BY <1>2
  <2>2. /\ UNCHANGED <<version, wipes, wrote, existing>> /\ faulted \subseteq faulted'
        /\ namespace => namespace'
        /\ \A t \in Savers \ {s} : pc'[t] = pc[t]
        /\ \/ /\ pc'[s] = "cmGet" /\ namespace'
              /\ nsEnsured' = [nsEnsured EXCEPT ![ProcessOf[s]] = TRUE]
           \/ pc'[s] = "failed" /\ s \in faulted' /\ UNCHANGED nsEnsured
    BY <2>1 DEF TypeOK, NamespaceFound, CreateNamespace, EnsureFails, Ensured, Fault, Goto, apiVars
  <2>3. \A p \in Processes : nsEnsured[p] => nsEnsured'[p]
    BY <2>2 DEF TypeOK
  <2>4. RefusalsExplained'
    BY <2>2, <2>3 DEF RefusalsExplained, TypeOK
  <2>5. FailsForAReason'
    BY <2>2 DEF FailsForAReason
  <2> QED BY <2>4, <2>5
<1>3. ASSUME NEW s \in Savers, WriteConfigMap(s) \/ WriteFails(s) \/ WriteRefused(s)
      PROVE  RefusalsExplained' /\ FailsForAReason'
  <2>1. /\ UNCHANGED <<namespace, nsEnsured, wipes, existing>> /\ faulted \subseteq faulted'
        /\ \A t \in Savers \ {s} : pc'[t] = pc[t]
        /\ pc'[s] \in {"ok", "failed"} /\ pc[s] \in {"update", "create"}
        /\ pc'[s] = "failed" => s \in faulted' \/ (~Permitted(s) /\ UNCHANGED wrote)
    <3>1. pc[s] \in {"update", "create"} /\ UNCHANGED <<namespace, nsEnsured, wipes, existing>>
      BY <1>3 DEF WriteConfigMap, WriteFails, WriteRefused, apiVars, histVars
    <3>2. PICK to \in {"ok", "failed"} : pc' = [pc EXCEPT ![s] = to]
      BY <1>3 DEF WriteConfigMap, WriteFails, WriteRefused, Fault, Goto
    <3>3. pc'[s] = to /\ \A t \in Savers \ {s} : pc'[t] = pc[t]
      BY <3>2 DEF TypeOK
    <3>4. CASE WriteConfigMap(s)
      <4>1. pc'[s] = "ok" /\ faulted' = faulted
        BY <3>4 DEF WriteConfigMap, Goto, TypeOK
      <4> QED BY <3>1, <3>3, <4>1
    <3>5. CASE WriteFails(s)
      BY <3>1, <3>3, <3>5 DEF WriteFails, Fault
    <3>6. CASE WriteRefused(s)
      BY <3>1, <3>3, <3>6 DEF WriteRefused, histVars
    <3> QED BY <1>3, <3>4, <3>5, <3>6
  <2>2. \/ UNCHANGED <<version, wrote>>
        \/ wrote' = wrote \cup {s} /\ \E v : version' = [version EXCEPT ![Target[s]] = v]
    BY <1>3 DEF WriteConfigMap, WriteFails, WriteRefused, Write, apiVars, histVars
  <2>3. \A t \in Savers \ {s} : version'[Target[t]] # version[Target[t]] =>
           s \in wrote' \ {t} /\ Target[t] = Target[s]
    BY <2>2 DEF TypeOK
  <2>4. wrote \subseteq wrote'
    BY <2>2
  <2>5. RefusalsExplained'
    <3>1. ASSUME NEW t \in Savers, pc'[t] \in {"update", "create"}, version'[Target[t]] # existing'[t]
          PROVE  wipes > 0 \/ \E u \in wrote' \ {t} : Target[u] = Target[t]
      <4>1. t # s /\ pc[t] \in {"update", "create"} /\ existing'[t] = existing[t]
        BY <2>1, <3>1
      <4>2. CASE version'[Target[t]] # version[Target[t]]
        BY <2>3, <4>1, <4>2
      <4>3. CASE version'[Target[t]] = version[Target[t]]
        BY <2>4, <3>1, <4>1, <4>3 DEF RefusalsExplained
      <4> QED BY <4>2, <4>3
    <3> QED BY <2>1, <3>1 DEF RefusalsExplained
  <2>6. FailsForAReason'
    <3>1. ~Permitted(s) => wipes > 0 \/ \E t \in wrote \ {s} : Target[t] = Target[s]
      BY <2>1 DEF Permitted, RefusalsExplained
    <3> QED BY <2>1, <2>4, <3>1 DEF FailsForAReason
  <2> QED BY <2>5, <2>6
<1>4. CASE DeleteNamespace
  <2>1. wipes' > 0 /\ UNCHANGED <<pc, nsEnsured, faulted, wrote>>
    BY <1>4 DEF DeleteNamespace, TypeOK
  <2> QED BY <2>1 DEF RefusalsExplained, FailsForAReason
<1>5. CASE \E p \in Processes : Kill(p)
  BY <1>5 DEF Kill, apiVars, histVars, RefusalsExplained, FailsForAReason, TypeOK
<1>6. CASE UNCHANGED vars
  BY <1>6 DEF vars, RefusalsExplained, FailsForAReason
<1> QED BY <1>1, <1>2, <1>3, <1>4, <1>5, <1>6 DEF Next, Step, Done

(* A save fails only because an API call failed, the namespace was deleted *)
(* or another goroutine or process wrote the same state; the race for the  *)
(* namespace and the mutex alone never make it fail.                       *)
THEOREM SavesFailForAReason == Spec => []FailsForAReason
<1>1. Init => RefusalsExplained /\ FailsForAReason
  BY DEF Init, RefusalsExplained, FailsForAReason
<1> QED BY <1>1, InitInvariant, NextKeepsInvariant, NextExplained, PTL DEF Spec

-----------------------------------------------------------------------------
(***************************************************************************)
(* Refinement: the chain of API calls is an atomic save.                   *)
(***************************************************************************)

(* The status the abstract store sees. *)
Status == [s \in Savers |-> CASE pc[s] = "start" -> "idle"
                              [] pc[s] \in Ended -> pc[s]
                              [] OTHER -> "busy"]

Busy == {"lock", "cmGet", "update", "create"} \cup InEnsure

(* The status of a saver by its program counter. *)
LEMMA StatusOf ==
    ASSUME TypeOK, NEW s \in Savers
    PROVE  /\ pc[s] = "start" => Status[s] = "idle"
           /\ pc[s] \in Ended => Status[s] = pc[s]
           /\ pc[s] \in Busy => Status[s] = "busy"
           /\ pc[s] \in {"start"} \cup Ended \cup Busy
BY DEF TypeOK, Status, Busy, Ended, InEnsure

(* A step of one saver changes only its own status. *)
LEMMA StatusStep ==
    ASSUME TypeOK, TypeOK', NEW s \in Savers, NEW step, Goto(s, step)
    PROVE  Status' = [Status EXCEPT ![s] = Status'[s]] /\ pc'[s] = step
<1>1. pc'[s] = step /\ \A t \in Savers \ {s} : pc'[t] = pc[t]
  BY DEF Goto, TypeOK
<1>2. \A t \in Savers \ {s} : Status'[t] = Status[t]
  BY <1>1 DEF Status
<1>3. Status' = [t \in Savers |-> Status'[t]] /\ Status = [t \in Savers |-> Status[t]]
  BY DEF Status
<1> QED BY <1>1, <1>2, <1>3

(* Initial states map to initial states. *)
LEMMA InitRefines == Init => Atomic!StoreInit
BY DEF Init, Atomic!StoreInit, States, Ended

(* Steps that stay inside the chain of calls are invisible. *)
LEMMA InnerStepsStutter ==
    ASSUME TypeOK, TypeOK', NEW s \in Savers,
           \/ Lock(s) \/ NamespaceFound(s) \/ NamespaceMissing(s) \/ CreateNamespace(s)
           \/ GetExisting(s)
    PROVE  UNCHANGED <<data, base, Status>>
<1>1. pc[s] \in Busy /\ UNCHANGED <<data, base>>
  BY DEF Lock, NamespaceFound, NamespaceMissing, CreateNamespace, GetExisting, Ensured,
         Goto, apiVars, Busy, InEnsure
<1>2. PICK step \in Busy : Goto(s, step)
  BY DEF Lock, NamespaceFound, NamespaceMissing, CreateNamespace, GetExisting, Ensured,
         Goto, Busy, InEnsure
<1>3. Status'[s] = Status[s]
  <2>1. pc'[s] \in Busy
    BY <1>2, StatusStep
  <2>2. Status[s] = "busy"
    BY <1>1, StatusOf
  <2>3. Status'[s] = "busy"
    BY <2>1 DEF Status, Busy, Ended, InEnsure
  <2> QED BY <2>2, <2>3
<1>4. Status' = [Status EXCEPT ![s] = Status[s]]
  BY <1>2, <1>3, StatusStep
<1>5. Status' = Status
  BY <1>4 DEF Status
<1> QED BY <1>1, <1>5

(* The other steps of a saver, with the status it leaves. *)
LEMMA OuterSteps ==
    ASSUME TypeOK, TypeOK', NEW s \in Savers, NEW step \in Ended \cup {"lock"}, Goto(s, step)
    PROVE  Status' = [Status EXCEPT ![s] = IF step = "lock" THEN "busy" ELSE step]
<1>1. pc'[s] = step
  BY StatusStep
<1>2. Status'[s] = IF step = "lock" THEN "busy" ELSE step
  BY <1>1 DEF Status, Ended
<1> QED BY <1>2, StatusStep

(* The read of the state. *)
LEMMA GetRefines ==
    ASSUME TypeOK, TypeOK', NEW s \in Savers, Get(s)
    PROVE  Atomic!Read(s)
<1>1. Status[s] = "idle" /\ Goto(s, "lock")
  BY StatusOf DEF Get
<1>2. Status' = [Status EXCEPT ![s] = "busy"]
  BY <1>1, OuterSteps
<1>3. base' = [base EXCEPT ![s] = IF s \in SyncSavers THEN data[Target[s]] ELSE {}] /\ data' = data
  BY DEF Get, apiVars
<1> QED BY <1>1, <1>2, <1>3 DEF Atomic!Read, Status

(* The accepted write is the save. *)
LEMMA WriteRefines ==
    ASSUME TypeOK, TypeOK', NEW s \in Savers, WriteConfigMap(s)
    PROVE  Atomic!Save(s)
<1>1. Status[s] = "busy" /\ Goto(s, "ok")
  BY StatusOf DEF WriteConfigMap, Busy
<1>2. Status' = [Status EXCEPT ![s] = "ok"]
  BY <1>1, OuterSteps DEF Ended
<1>3. data' = [data EXCEPT ![Target[s]] = base[s] \cup {s}] /\ base' = base
  BY DEF WriteConfigMap, Write
<1> QED BY <1>1, <1>2, <1>3 DEF Atomic!Save, Atomic!Saved, Status

(* A save that reports an error has written everything or nothing. *)
LEMMA FailuresRefine ==
    ASSUME TypeOK, TypeOK', NEW s \in Savers,
           \/ GetFails(s) \/ EnsureFails(s) \/ GetExistingFails(s)
           \/ WriteRefused(s) \/ WriteFails(s)
    PROVE  Atomic!Fail(s)
<1>1. Goto(s, "failed") /\ base' = base /\ pc[s] \in {"start"} \cup Busy
  BY DEF GetFails, EnsureFails, GetExistingFails, WriteRefused, WriteFails, Fault, apiVars,
         Busy, InEnsure
<1>2. Status' = [Status EXCEPT ![s] = "failed"]
  BY <1>1, OuterSteps DEF Ended
<1>3. Status[s] \in {"idle", "busy"}
  BY <1>1, StatusOf
<1>4. \/ data' = data
      \/ /\ Status[s] = "busy"
         /\ data' = [data EXCEPT ![Target[s]] = base[s] \cup {s}]
  <2>1. CASE data' = data
    BY <2>1
  <2>2. CASE data' # data
    <3>1. WriteFails(s) /\ Write(s)
      BY <2>2 DEF GetFails, EnsureFails, GetExistingFails, WriteRefused, WriteFails, apiVars
    <3> QED BY <3>1, StatusOf DEF WriteFails, Write, Busy
  <2> QED BY <2>1, <2>2
<1>5. data' \in {data} \cup {[data EXCEPT ![Target[t]] = base[t] \cup {t}] :
                               t \in {s} \cap {u \in Savers : Status[u] = "busy"}}
  BY <1>4
<1> QED BY <1>1, <1>2, <1>3, <1>5 DEF Atomic!Fail, Atomic!Saved, Status

(* The death of a process. *)
LEMMA KillRefines ==
    ASSUME TypeOK, TypeOK', NEW p \in Processes, Kill(p)
    PROVE  Atomic!Die({s \in Savers : ProcessOf[s] = p})
<1> DEFINE S == {s \in Savers : ProcessOf[s] = p}
<1>1. UNCHANGED <<data, base>>
  BY DEF Kill, apiVars
<1>2. ASSUME NEW s \in Savers
      PROVE  Status'[s] = IF s \in S /\ Status[s] \in {"idle", "busy"} THEN "lost" ELSE Status[s]
  <2>1. pc'[s] = IF s \in S /\ pc[s] \notin Ended THEN "lost" ELSE pc[s]
    BY DEF Kill
  <2>2. Status'[s] = IF s \in S /\ pc[s] \notin Ended THEN "lost" ELSE Status[s]
    BY <2>1 DEF Status, Ended
  <2>3. Status[s] \in {"idle", "busy"} <=> pc[s] \notin Ended
    BY StatusOf DEF Ended, Busy, InEnsure
  <2> QED BY <2>2, <2>3
<1>3. Status' = [s \in Savers |-> Status'[s]]
  BY DEF Status
<1>4. Status' = [s \in Savers |->
                   IF s \in S /\ Status[s] \in {"idle", "busy"} THEN "lost" ELSE Status[s]]
  BY <1>2, <1>3
<1> QED BY <1>1, <1>4 DEF Atomic!Die, Status

(* The deletion of the namespace. *)
LEMMA DeletionRefines ==
    ASSUME TypeOK, DeleteNamespace
    PROVE  Atomic!Wipe
BY DEF TypeOK, DeleteNamespace, Atomic!Wipe

(* Every step of the store is a step of the atomic store or invisible. *)
LEMMA NextRefines ==
    ASSUME IInv, IInv', [Next]_vars
    PROVE  [Atomic!StoreNext]_Atomic!storeVars
<1>0. TypeOK /\ TypeOK'
  BY DEF IInv
<1>1. ASSUME NEW s \in Savers, Step(s)
      PROVE  Atomic!Read(s) \/ Atomic!Save(s) \/ Atomic!Fail(s) \/ UNCHANGED <<data, base, Status>>
  BY <1>0, <1>1, GetRefines, WriteRefines, FailuresRefine, InnerStepsStutter DEF Step
<1>2. CASE \E s \in Savers : Step(s)
  <2>1. PICK s \in Savers : Step(s)
    BY <1>2
  <2>2. CASE UNCHANGED <<data, base, Status>>
    BY <2>2 DEF Atomic!storeVars, Status
  <2>3. CASE Atomic!Read(s) \/ Atomic!Save(s) \/ Atomic!Fail(s)
    BY <2>3 DEF Atomic!StoreNext
  <2> QED BY <1>1, <2>1, <2>2, <2>3
<1>3. CASE \E p \in Processes : Kill(p)
  <2>1. PICK p \in Processes : Kill(p)
    BY <1>3
  <2>2. Atomic!Die({s \in Savers : ProcessOf[s] = p})
    BY <1>0, <2>1, KillRefines
  <2>3. {s \in Savers : ProcessOf[s] = p} \in SUBSET Savers
    OBVIOUS
  <2> QED BY <2>2, <2>3 DEF Atomic!StoreNext
<1>4. CASE DeleteNamespace
  BY <1>0, <1>4, DeletionRefines DEF Atomic!StoreNext
<1>5. CASE UNCHANGED vars
  BY <1>5 DEF vars, Atomic!storeVars
<1> QED BY <1>2, <1>3, <1>4, <1>5 DEF Next, Done

(* The chain of API calls implements the atomic store that the runner      *)
(* models build on.                                                        *)
THEOREM StoreRefinement == Spec => ImplementsAtomicStore
<1>1. Init => Atomic!StoreInit
  BY InitRefines
<1>2. IInv /\ IInv' /\ [Next]_vars => [Atomic!StoreNext]_Atomic!storeVars
  BY NextRefines
<1> QED BY <1>1, <1>2, StoreInvariant, PTL DEF Spec, ImplementsAtomicStore, Atomic!StoreSpec

-----------------------------------------------------------------------------
(***************************************************************************)
(* The codec.  Its functions are defined by recursion on the bytes of a    *)
(* string; what they compute for strings of any length is proved with the  *)
(* lemmas of SequenceLemmas, after the function is shown to exist.         *)
(***************************************************************************)

(* What the decoder appends for position i, given from for the positions   *)
(* after it.                                                               *)
Scan(k, from, i) ==
    IF i > Len(k) THEN <<>>
    ELSE IF k[i] # Escape THEN <<k[i]>> \o from[i + 1]
    ELSE IF i + 1 <= Len(k) /\ k[i + 1] = Escape THEN <<"/">> \o from[i + 2]
    ELSE IF i + 3 <= Len(k) /\ k[i + 1] = "x" /\ {k[i + 2], k[i + 3]} \subseteq HexDigits
         THEN <<ByteOf(<<k[i + 2], k[i + 3]>>)>> \o from[i + 4]
    ELSE <<Escape>> \o from[i + 1]

(* The decoder looks only at what it made of the positions after i.        *)
LEMMA ScanLooksAhead ==
    ASSUME NEW k, Len(k) \in Nat, NEW i \in 1..(Len(k) + 1), NEW g, NEW h,
           \A x \in (i + 1)..(Len(k) + 1) : g[x] = h[x]
    PROVE  Scan(k, g, i) = Scan(k, h, i)
<1>1. CASE i > Len(k)
  BY <1>1 DEF Scan
<1>2. CASE i <= Len(k)
  <2>1. g[i + 1] = h[i + 1]
    BY <1>2
  <2>2. i + 1 <= Len(k) => g[i + 2] = h[i + 2]
    OBVIOUS
  <2>3. i + 3 <= Len(k) => g[i + 4] = h[i + 4]
    OBVIOUS
  <2> QED BY <2>1, <2>2, <2>3, Zenon DEF Scan
<1> QED BY <1>1, <1>2

(* The recursive function by which DecodeStateKey is defined exists. *)
LEMMA DecodeScans ==
    ASSUME NEW k, Len(k) \in Nat
    PROVE  \E from : /\ DecodeStateKey(k) = from[1]
                     /\ \A i \in 1..(Len(k) + 1) : from[i] = Scan(k, from, i)
<1> DEFINE N == Len(k) + 1
           Body(g) == [i \in 1..N |-> Scan(k, g, i)]
           c == CHOOSE g : g = Body(g)
           D == {j \in 0..Len(k) : \E g : \A i \in (j + 1)..N : g[i] = Scan(k, g, i)}
<1>1. DecodeStateKey(k) = c[1]
  BY Zenon DEF DecodeStateKey, Scan
<1>2. Len(k) \in D
  <2> DEFINE g == [i \in 1..N |-> <<>>]
  <2>1. \A i \in (Len(k) + 1)..N : g[i] = <<>>
    OBVIOUS
  <2>2. \A i \in (Len(k) + 1)..N : i > Len(k)
    OBVIOUS
  <2> HIDE DEF g
  <2>3. \A i \in (Len(k) + 1)..N : g[i] = Scan(k, g, i)
    BY <2>1, <2>2, Zenon DEF Scan
  <2> QED BY <2>3
<1>3. ASSUME NEW j \in 1..Len(k), j \in D PROVE j - 1 \in D
  <2>1. PICK g : \A i \in (j + 1)..N : g[i] = Scan(k, g, i)
    BY <1>3
  <2> DEFINE new == Scan(k, g, j)
             h == [x \in 1..N |-> IF x = j THEN new ELSE g[x]]
  <2> HIDE DEF new
  <2>2. \A x \in 1..N : h[x] = IF x = j THEN new ELSE g[x]
    OBVIOUS
  <2> HIDE DEF h
  <2>3. ASSUME NEW i \in j..N PROVE h[i] = Scan(k, h, i)
    <3>1. i \in 1..N /\ \A x \in (i + 1)..N : h[x] = g[x]
      BY <2>2
    <3>2. Scan(k, h, i) = Scan(k, g, i)
      BY <3>1, ScanLooksAhead
    <3>3. i # j => i \in (j + 1)..N
      OBVIOUS
    <3> QED BY <2>1, <2>2, <3>1, <3>2, <3>3 DEF new
  <2>4. \A i \in (j - 1 + 1)..N : h[i] = Scan(k, h, i)
    BY <2>3
  <2> QED BY <2>4
<1>4. 0 \in D
  <2> HIDE DEF D
  <2>1. \A j \in 0..Len(k) : j \in D
    BY <1>2, <1>3, DownTo
  <2> QED BY <2>1
<1>5. PICK g : \A i \in 1..N : g[i] = Scan(k, g, i)
  BY <1>4
<1>6. c = Body(c)
  <2> DEFINE h == [i \in 1..N |-> g[i]]
  <2>1. \A i \in 1..N : h[i] = g[i]
    OBVIOUS
  <2>2. \A i \in 1..N : g[i] = Scan(k, h, i)
    <3> HIDE DEF h
    <3> TAKE i \in 1..N
    <3>1. \A x \in (i + 1)..N : g[x] = h[x]
      BY <2>1
    <3> QED BY <1>5, <3>1, ScanLooksAhead
  <2>3. h = Body(h)
    BY <2>2
  <2> HIDE DEF h, Body
  <2> QED BY <2>3
<1>7. \A i \in 1..N : c[i] = Scan(k, c, i)
  <2> HIDE DEF c
  <2> QED BY <1>6
<1> HIDE DEF c
<1> QED BY <1>1, <1>7

(* The characters of data keys. *)
Storable == Plain \cup {Escape}

(* An escape sequence is a tuple of four bytes.                            *)
LEMMA PairsConcat ==
    ASSUME NEW V, NEW a \in V, NEW b \in V, NEW c \in V, NEW d \in V
    PROVE  <<a, b>> \o <<c, d>> = <<a, b, c, d>>
<1> DEFINE u == <<a, b>>
           v == <<c, d>>
           w == <<a, b, c, d>>
<1>1. u \in Seq(V) /\ Len(u) = 2 /\ u[1] = a /\ u[2] = b
  OBVIOUS
<1>2. v \in Seq(V) /\ Len(v) = 2 /\ v[1] = c /\ v[2] = d
  OBVIOUS
<1>3. w \in Seq(V) /\ Len(w) = 4 /\ w[1] = a /\ w[2] = b /\ w[3] = c /\ w[4] = d
  OBVIOUS
<1> HIDE DEF u, v, w
<1>4. /\ u \o v \in Seq(V) /\ Len(u \o v) = 4
      /\ \A i \in 1..4 : (u \o v)[i] = IF i <= 2 THEN u[i] ELSE v[i - 2]
  <2>1. /\ u \o v \in Seq(V) /\ Len(u \o v) = Len(u) + Len(v)
        /\ \A i \in 1..(Len(u) + Len(v)) : (u \o v)[i] = IF i <= Len(u) THEN u[i] ELSE v[i - Len(u)]
    BY <1>1, <1>2, ConcatProperties, Zenon
  <2> QED BY <1>1, <1>2, <2>1
<1>5. \A i \in 1..4 : (u \o v)[i] = w[i]
  <2> TAKE i \in 1..4
  <2>1. CASE i = 1
    BY <1>1, <1>3, <1>4, <2>1
  <2>2. CASE i = 2
    BY <1>1, <1>3, <1>4, <2>2
  <2>3. CASE i = 3
    BY <1>2, <1>3, <1>4, <2>3
  <2>4. CASE i = 4
    BY <1>2, <1>3, <1>4, <2>4
  <2>5. i = 1 \/ i = 2 \/ i = 3 \/ i = 4
    OBVIOUS
  <2> QED BY <2>1, <2>2, <2>3, <2>4, <2>5
<1>6. u \o v = w
  BY <1>3, <1>4, <1>5, SeqEqual
<1> QED BY <1>6 DEF u, v, w

(* A byte is stored in one of three ways, which the first bytes tell apart. *)
LEMMA EncodedBytes ==
    ASSUME NEW c \in Alphabet
    PROVE  /\ EncodeByte(c) \in Seq(Storable)
           /\ \/ c = "/" /\ EncodeByte(c) = <<Escape, Escape>>
              \/ c \in Plain /\ c # Escape /\ EncodeByte(c) = <<c>>
              \/ \E a, b \in HexDigits :
                    EncodeByte(c) = <<Escape, "x", a, b>> /\ ByteOf(<<a, b>>) = c
<1>1. CASE c = "/"
  BY <1>1 DEF EncodeByte, Storable
<1>2. CASE c \in Plain
  <2>1. c # "/" /\ c # Escape
    BY <1>2, CodecAssumption
  <2> QED BY <1>2, <2>1 DEF EncodeByte, Storable
<1>3. CASE c # "/" /\ c \notin Plain
  <2>1. c \in DOMAIN Hex /\ Hex[c] \in HexDigits \X HexDigits
    BY <1>3, CodecAssumption DEF Alphabet
  <2>2. PICK a, b \in HexDigits : Hex[c] = <<a, b>>
    BY <2>1
  <2>3. EncodeByte(c) = <<Escape, "x">> \o <<a, b>>
    BY <1>3, <2>2 DEF EncodeByte
  <2>5. {Escape, "x", a, b} \subseteq Storable
    BY CodecAssumption DEF Storable
  <2>4. EncodeByte(c) = <<Escape, "x", a, b>>
    <3> DEFINE x == "x"
    <3>1. x \in Storable /\ Escape \in Storable /\ a \in Storable /\ b \in Storable
      BY <2>5
    <3> HIDE DEF x
    <3>2. <<Escape, x>> \o <<a, b>> = <<Escape, x, a, b>>
      BY <3>1, PairsConcat
    <3> QED BY <2>3, <3>2, Zenon DEF x
  <2>6. \A d \in DOMAIN Hex : Hex[d] = <<a, b>> => d = c
    BY <2>1, <2>2, CodecAssumption DEF IsInjective
  <2>7. <<a, b>> \in Range(Hex)
    BY <2>1, <2>2 DEF Range
  <2>8. ByteOf(<<a, b>>) = c
    BY <2>1, <2>2, <2>6, <2>7 DEF ByteOf
  <2> QED BY <2>4, <2>5, <2>8
<1> QED BY <1>1, <1>2, <1>3

(* The codes of the bytes of raw. *)
Codes(raw) == [i \in 1..Len(raw) |-> EncodeByte(raw[i])]

(* Where these codes are in the encoding of raw.                           *)
LEMMA EncodePlaces ==
    ASSUME NEW raw \in Seq(Alphabet)
    PROVE  \E f \in [0..Len(raw) -> Seq(Storable)] :
              EncodeStateKey(raw) = f[Len(raw)] /\ Placed(Len(raw), Codes(raw), f)
<1> DEFINE n == Len(raw)
           ss == Codes(raw)
           W == Seq(Storable)
<1>1. n \in Nat /\ DOMAIN raw = 1..n /\ \A i \in 1..n : raw[i] \in Alphabet
  OBVIOUS
<1>2. ss \in [1..n -> W]
  BY <1>1, EncodedBytes DEF Codes
<1>3. EncodeStateKey(raw) = FlattenSeq(ss)
  BY <1>1 DEF EncodeStateKey, Codes
<1>4. ss \in Seq(W) /\ Len(ss) = n
  <2> HIDE DEF W, ss, n
  <2> QED BY <1>1, <1>2
<1> HIDE DEF ss
<1>5. PICK f \in [0..n -> Seq(Storable)] : Concats(n, ss, f) /\ FlattenSeq(ss) = f[n]
  BY <1>4, FlattenConcats
<1>6. Placed(n, ss, f)
  <2> HIDE DEF n
  <2> QED BY <1>1, <1>2, <1>5, ConcatsPlaces
<1> QED BY <1>3, <1>5, <1>6 DEF ss

(* decodeStateKey undoes encodeStateKey for strings of any length, and the *)
(* encoding has only characters that a data key of a ConfigMap may have.   *)
THEOREM DecodeUndoesEncode ==
    ASSUME NEW raw \in Seq(Alphabet)
    PROVE  /\ DecodeStateKey(EncodeStateKey(raw)) = raw
           /\ EncodeStateKey(raw) \in Seq(Storable)
<1> DEFINE n == Len(raw)
           ss == Codes(raw)
           k == EncodeStateKey(raw)
<1>1. n \in Nat /\ DOMAIN raw = 1..n /\ \A i \in 1..n : raw[i] \in Alphabet
  OBVIOUS
<1>2. \A i \in 1..n : ss[i] = EncodeByte(raw[i])
  BY DEF Codes
<1> HIDE DEF ss
<1>5. PICK f \in [0..n -> Seq(Storable)] : k = f[n] /\ Placed(n, ss, f)
  BY EncodePlaces DEF ss
<1> HIDE DEF k
<1> DEFINE L(i) == Len(f[i])
<1>6. /\ \A i \in 0..n : L(i) \in Nat /\ L(i) <= Len(k)
      /\ \A i \in 1..n : L(i) = L(i - 1) + Len(ss[i])
      /\ \A i \in 1..n : \A p \in 1..Len(ss[i]) : k[L(i - 1) + p] = ss[i][p]
      /\ L(0) = 0 /\ L(n) = Len(k)
  BY <1>5 DEF Placed
<1> HIDE DEF L
<1>7. Len(k) \in Nat /\ k \in Seq(Storable)
  BY <1>1, <1>5
<1>8. PICK from : /\ DecodeStateKey(k) = from[1]
                  /\ \A i \in 1..(Len(k) + 1) : from[i] = Scan(k, from, i)
  BY <1>7, DecodeScans
<1> DEFINE D == {i \in 0..n : from[L(i) + 1] = SubSeq(raw, i + 1, n)}
<1>9. n \in D
  <2>1. SubSeq(raw, n + 1, n) = <<>>
    BY <1>1, SubSeqEmpty
  <2>2. from[Len(k) + 1] = Scan(k, from, Len(k) + 1) /\ Len(k) + 1 > Len(k)
    BY <1>7, <1>8
  <2>3. from[Len(k) + 1] = <<>>
    BY <2>2, Zenon DEF Scan
  <2>4. L(n) = Len(k) /\ n \in 0..n
    BY <1>1, <1>6
  <2>5. from[L(n) + 1] = SubSeq(raw, n + 1, n)
    BY <2>1, <2>3, <2>4
  <2> HIDE DEF n
  <2> QED BY <2>4, <2>5
<1>10. ASSUME NEW i \in 1..n, i \in D PROVE i - 1 \in D
  <2> DEFINE s == L(i - 1)
             b == EncodeByte(raw[i])
             rest == from[L(i) + 1]
  <2>1. s \in Nat /\ L(i) = s + Len(b) /\ L(i) <= Len(k) /\ \A p \in 1..Len(b) : k[s + p] = b[p]
    <3> HIDE DEF n, b
    <3>1. ss[i] = b
      BY <1>2 DEF b
    <3>2. i - 1 \in 0..n /\ i \in 0..n
      BY <1>1
    <3> QED BY <1>6, <3>1, <3>2
  <2>2. raw[i] \in Alphabet
    BY <1>1
  <2> HIDE DEF s
  <2>3. from[s + 1] = <<raw[i]>> \o rest
    <3>1. CASE raw[i] = "/" /\ b = <<Escape, Escape>>
      <4>1. Len(b) = 2 /\ b[1] = Escape /\ b[2] = Escape
        BY <3>1
      <4> HIDE DEF b
      <4>2. /\ s + 1 \in 1..(Len(k) + 1) /\ ~(s + 1 > Len(k)) /\ s + 1 + 1 <= Len(k)
            /\ k[s + 1] = Escape /\ k[s + 1 + 1] = Escape /\ s + 1 + 2 = L(i) + 1
        BY <1>7, <2>1, <4>1
      <4>3. from[s + 1] = <<"/">> \o from[s + 1 + 2]
        BY <1>8, <4>2, Zenon DEF Scan
      <4> QED BY <3>1, <4>2, <4>3
    <3>2. CASE raw[i] # Escape /\ b = <<raw[i]>>
      <4>1. Len(b) = 1 /\ b[1] = raw[i]
        BY <3>2
      <4> HIDE DEF b
      <4>2. /\ s + 1 \in 1..(Len(k) + 1) /\ ~(s + 1 > Len(k))
            /\ k[s + 1] = raw[i] /\ s + 1 + 1 = L(i) + 1
        BY <1>7, <2>1, <4>1
      <4>3. from[s + 1] = <<k[s + 1]>> \o from[s + 1 + 1]
        BY <1>8, <3>2, <4>2, Zenon DEF Scan
      <4> QED BY <4>2, <4>3
    <3>3. CASE \E c, d \in HexDigits : b = <<Escape, "x", c, d>> /\ ByteOf(<<c, d>>) = raw[i]
      <4>0. PICK c, d \in HexDigits : b = <<Escape, "x", c, d>> /\ ByteOf(<<c, d>>) = raw[i]
        BY <3>3, Zenon
      <4>1. Len(b) = 4 /\ b[1] = Escape /\ b[2] = "x" /\ b[3] = c /\ b[4] = d
        BY <4>0
      <4> HIDE DEF b
      <4>2. /\ s + 1 \in 1..(Len(k) + 1) /\ ~(s + 1 > Len(k)) /\ s + 1 + 3 <= Len(k)
            /\ k[s + 1] = Escape /\ k[s + 1 + 1] = "x" /\ k[s + 1 + 2] = c /\ k[s + 1 + 3] = d
            /\ s + 1 + 4 = L(i) + 1
        BY <1>7, <2>1, <4>1
      <4>3. k[s + 1 + 1] # Escape /\ {k[s + 1 + 2], k[s + 1 + 3]} \subseteq HexDigits
        <5>1. "x" # Escape
          BY CodecAssumption
        <5> QED BY <4>2, <5>1, Zenon
      <4>4. from[s + 1] = <<ByteOf(<<k[s + 1 + 2], k[s + 1 + 3]>>)>> \o from[s + 1 + 4]
        BY <1>8, <4>2, <4>3, Zenon DEF Scan
      <4> QED BY <4>0, <4>2, <4>4, Zenon
    <3> QED BY <2>2, <3>1, <3>2, <3>3, EncodedBytes
  <2>4. SubSeq(raw, i, n) = <<raw[i]>> \o SubSeq(raw, i + 1, n)
    BY <1>1, SubSeqRecursiveFirst
  <2>5. i - 1 \in 0..n /\ i - 1 + 1 = i
    BY <1>1
  <2> QED BY <1>10, <2>3, <2>4, <2>5 DEF s
<1>11. 0 \in D
  <2> HIDE DEF D
  <2>1. \A i \in 0..n : i \in D
    BY <1>1, <1>9, <1>10, DownTo
  <2> QED BY <1>1, <2>1
<1>12. from[1] = SubSeq(raw, 1, n)
  BY <1>6, <1>11
<1>13. SubSeq(raw, 1, n) = raw
  BY SubSeqFull
<1> QED BY <1>7, <1>8, <1>12, <1>13 DEF k

(* The metadataKey of configmap.go is the encoding of no string: after its *)
(* first byte, the escape character, comes a plain byte that is no "x".    *)
THEOREM MetadataKeyIsReserved ==
    ASSUME NEW raw \in Seq(Alphabet)
    PROVE  EncodeStateKey(raw) # MetadataKey
<1> DEFINE n == Len(raw)
           k == EncodeStateKey(raw)
           c == raw[1]
           b == EncodeByte(c)
<1>1. n \in Nat /\ (n # 0 => c \in Alphabet)
  OBVIOUS
<1>2. /\ Len(MetadataKey) >= 2
      /\ MetadataKey[1] = Escape
      /\ MetadataKey[2] \in Plain /\ MetadataKey[2] # "x" /\ MetadataKey[2] # Escape
  <2> DEFINE e == <<Escape>>
             m == MetadataName
             V == Plain \cup {Escape}
  <2>1. e \in Seq(V) /\ Len(e) = 1 /\ e[1] = Escape
    OBVIOUS
  <2>2. m \in Seq(Plain) /\ m # <<>> /\ m[1] # "x" /\ Escape \notin Plain
    BY CodecAssumption
  <2>3. m \in Seq(V) /\ Len(m) \in Nat /\ Len(m) >= 1 /\ m[1] \in Plain
    BY <2>2
  <2>4. MetadataKey = e \o m
    BY DEF MetadataKey
  <2> HIDE DEF e, m, V
  <2>5. Len(e \o m) = 1 + Len(m) /\ (e \o m)[1] = e[1] /\ (e \o m)[2] = m[1]
    <3>1. /\ Len(e \o m) = Len(e) + Len(m)
          /\ \A i \in 1..(Len(e) + Len(m)) : (e \o m)[i] = IF i <= Len(e) THEN e[i] ELSE m[i - Len(e)]
      BY <2>1, <2>3, ConcatProperties
    <3> QED BY <2>1, <2>3, <3>1
  <2> QED BY <2>1, <2>2, <2>3, <2>4, <2>5
<1>3. PICK f \in [0..n -> Seq(Storable)] : k = f[n] /\ Placed(n, Codes(raw), f)
  BY EncodePlaces
<1> SUFFICES k # MetadataKey
  OBVIOUS
<1> HIDE DEF k
<1>4. CASE n = 0
  <2> HIDE DEF n
  <2>1. Len(k) = 0
    BY <1>3, <1>4 DEF Placed
  <2> QED BY <1>2, <2>1
<1>5. CASE n # 0
  <2>1. 1 \in 1..n /\ Codes(raw)[1] = b
    BY <1>1, <1>5 DEF Codes
  <2>2. \A p \in 1..Len(b) : k[p] = b[p]
    <3> DEFINE ss == Codes(raw)
    <3> HIDE DEF n, ss, b
    <3>1. Len(f[0]) = 0 /\ \A p \in 1..Len(ss[1]) : k[Len(f[1 - 1]) + p] = ss[1][p]
      BY <1>3, <2>1, Zenon DEF Placed, ss
    <3>2. ss[1] = b
      BY <2>1 DEF ss
    <3>3. 1 - 1 = 0 /\ \A p \in 1..Len(b) : 0 + p = p
      OBVIOUS
    <3> QED BY <3>1, <3>2, <3>3
  <2>3. CASE c = "/" /\ b = <<Escape, Escape>>
    <3>1. Len(b) = 2 /\ b[2] = Escape
      BY <2>3
    <3> HIDE DEF b
    <3> QED BY <1>2, <2>2, <3>1
  <2>4. CASE c # Escape /\ b = <<c>>
    <3>1. Len(b) = 1 /\ b[1] = c
      BY <2>4
    <3> HIDE DEF b
    <3> QED BY <1>2, <2>2, <2>4, <3>1
  <2>5. CASE \E d, e \in HexDigits : b = <<Escape, "x", d, e>>
    <3>1. Len(b) = 4 /\ b[2] = "x"
      BY <2>5
    <3> HIDE DEF b
    <3> QED BY <1>2, <2>2, <3>1
  <2> QED BY <1>1, <1>5, <2>3, <2>4, <2>5, EncodedBytes
<1> QED BY <1>4, <1>5 DEF k

(* parseConfigMapData reads from a ConfigMap the entries that              *)
(* buildConfigMapData wrote, however many and under whatever keys.         *)
THEOREM EntriesSurvive ==
    ASSUME NEW keys \in SUBSET Seq(Alphabet), NEW H, NEW entries \in [keys -> H]
    PROVE  ParseConfigMapData(BuildConfigMapData(entries)) = entries
<1> DEFINE encoded == {EncodeStateKey(raw) : raw \in keys}
           built == BuildConfigMapData(entries)
<1>1. \A raw, other \in keys : EncodeStateKey(raw) = EncodeStateKey(other) => raw = other
  BY DecodeUndoesEncode
<1>2. MetadataKey \notin encoded
  BY MetadataKeyIsReserved
<1>3. DOMAIN entries = keys
  OBVIOUS
<1>4. DOMAIN built = encoded \cup {MetadataKey}
  BY <1>3 DEF BuildConfigMapData
<1>5. ASSUME NEW raw \in keys PROVE built[EncodeStateKey(raw)] = entries[raw]
  <2>1. (CHOOSE other \in keys : EncodeStateKey(other) = EncodeStateKey(raw)) = raw
    BY <1>1
  <2> QED BY <1>3, <2>1 DEF BuildConfigMapData
<1>6. DOMAIN built \ {MetadataKey} = encoded
  BY <1>2, <1>4
<1> HIDE DEF built
<1>7. {DecodeStateKey(k) : k \in encoded} = keys
  BY DecodeUndoesEncode
<1>8. ASSUME NEW raw \in keys
      PROVE  (CHOOSE k \in encoded : DecodeStateKey(k) = raw) = EncodeStateKey(raw)
  BY DecodeUndoesEncode
<1>9. ParseConfigMapData(built) =
        [raw \in keys |-> built[CHOOSE k \in encoded : DecodeStateKey(k) = raw]]
  <2> DEFINE Values(K) == [raw \in {DecodeStateKey(k) : k \in K} |->
                             built[CHOOSE k \in K : DecodeStateKey(k) = raw]]
             Over(T) == [raw \in T |-> built[CHOOSE k \in encoded : DecodeStateKey(k) = raw]]
  <2> HIDE DEF encoded
  <2>1. ParseConfigMapData(built) = Values(DOMAIN built \ {MetadataKey})
    BY Zenon DEF ParseConfigMapData
  <2>2. Values(encoded) = Over({DecodeStateKey(k) : k \in encoded})
    BY Zenon
  <2> HIDE DEF Values, Over
  <2>3. ParseConfigMapData(built) = Over(keys)
    BY <1>6, <1>7, <2>1, <2>2
  <2> QED BY <2>3 DEF Over
<1>10. \A raw \in keys : built[CHOOSE k \in encoded : DecodeStateKey(k) = raw] = entries[raw]
  <2> HIDE DEF encoded
  <2> QED BY <1>5, <1>8
<1>11. ParseConfigMapData(built) = [raw \in keys |-> entries[raw]]
  <2> HIDE DEF encoded
  <2> QED BY <1>9, <1>10
<1> QED BY <1>11 DEF built

-----------------------------------------------------------------------------
(* Numbers that grow from each to the next grow from any to any later one. *)
LEMMA Increasing ==
    ASSUME NEW m \in Nat, NEW c \in [1..m -> Nat], \A j \in 1..(m - 1) : c[j] < c[j + 1]
    PROVE  \A i, j \in 1..m : i < j => c[i] < c[j]
<1> TAKE i \in 1..m
<1> DEFINE D == {d \in 0..(m - i) : d = 0 \/ c[i] < c[i + d]}
<1>1. 0 \in D
  OBVIOUS
<1>2. ASSUME NEW d \in 0..(m - i - 1), d \in D PROVE d + 1 \in D
  <2>1. i + d \in 1..(m - 1) /\ i + d \in 1..m /\ i + (d + 1) = i + d + 1 /\ i + d + 1 \in 1..m
    OBVIOUS
  <2>2. c[i + d] < c[i + d + 1] /\ c[i + d] \in Nat /\ c[i + d + 1] \in Nat /\ c[i] \in Nat
    BY <2>1
  <2>3. c[i] <= c[i + d]
    <3>1. d = 0 => i + d = i
      OBVIOUS
    <3>2. d = 0 => c[i] = c[i + d]
      BY <3>1
    <3>3. d = 0 \/ c[i] < c[i + d]
      BY <1>2
    <3> DEFINE x == c[i]
               y == c[i + d]
    <3>4. x \in Nat /\ y \in Nat /\ (x = y \/ x < y)
      BY <2>2, <3>2, <3>3
    <3> HIDE DEF x, y
    <3>5. x <= y
      BY <3>4
    <3> QED BY <3>5 DEF x, y
  <2>4. c[i] < c[i + (d + 1)]
    BY <2>1, <2>2, <2>3
  <2> QED BY <2>1, <2>4
<1>3. \A d \in 0..(m - i) : d \in D
  <2> HIDE DEF D
  <2>1. m - i \in Nat
    OBVIOUS
  <2> QED BY <1>1, <1>2, <2>1, UpTo
<1> TAKE j \in 1..m
<1>4. i < j => j - i \in 0..(m - i) /\ j - i # 0 /\ i + (j - i) = j
  OBVIOUS
<1> QED BY <1>3, <1>4

(* The members of an increasing sequence are found by their rank. *)
LEMMA Ranks ==
    ASSUME NEW m \in Nat, NEW c \in [1..m -> Nat], \A j \in 1..(m - 1) : c[j] < c[j + 1]
    PROVE  /\ Cardinality(Range(c)) = m
           /\ \A j \in 1..m :
                (CHOOSE i \in Range(c) : Cardinality({h \in Range(c) : h <= i}) = j) = c[j]
<1> DEFINE C == Range(c)
           First(j) == {c[i] : i \in 1..j}
<1>0. C = {c[j] : j \in 1..m}
  BY DEF Range
<1> HIDE DEF C
<1>1. \A i, j \in 1..m : i < j => c[i] < c[j]
  BY Increasing
<1>2. \A j \in 0..m : IsFiniteSet(First(j)) /\ Cardinality(First(j)) = j
  <2> DEFINE D == {j \in 0..m : IsFiniteSet(First(j)) /\ Cardinality(First(j)) = j}
  <2>1. 0 \in D
    <3>1. First(0) = {}
      OBVIOUS
    <3> HIDE DEF First
    <3>2. IsFiniteSet(First(0)) /\ Cardinality(First(0)) = 0
      BY <3>1, FS_EmptySet
    <3> QED BY <3>2
  <2>2. ASSUME NEW j \in 0..(m - 1), j \in D PROVE j + 1 \in D
    <3>1. First(j + 1) = First(j) \cup {c[j + 1]}
      <4>1. 1..(j + 1) = 1..j \cup {j + 1}
        OBVIOUS
      <4> QED BY <4>1
    <3>2. c[j + 1] \notin First(j)
      <4>1. \A i \in 1..j : i \in 1..m /\ j + 1 \in 1..m /\ i < j + 1
        OBVIOUS
      <4>2. \A i \in 1..j : c[i] < c[j + 1] /\ c[j + 1] \in Nat
        BY <1>1, <4>1
      <4> QED BY <4>2
    <3> HIDE DEF First
    <3>3. IsFiniteSet(First(j)) /\ Cardinality(First(j)) = j
      BY <2>2
    <3>4. IsFiniteSet(First(j + 1)) /\ Cardinality(First(j + 1)) = j + 1
      <4> DEFINE S == First(j)
                 x == c[j + 1]
      <4> HIDE DEF S, x
      <4>1. IsFiniteSet(S) /\ Cardinality(S) = j /\ x \notin S
        BY <3>2, <3>3 DEF S, x
      <4>2. IsFiniteSet(S \cup {x}) /\ Cardinality(S \cup {x}) = j + 1
        BY <4>1, FS_AddElement
      <4> QED BY <3>1, <4>2 DEF S, x
    <3> QED BY <3>4
  <2> HIDE DEF D
  <2>3. \A j \in 0..m : j \in D
    BY <2>1, <2>2, UpTo
  <2> QED BY <2>3 DEF D
<1>3. \A j \in 1..m : {h \in C : h <= c[j]} = First(j)
  <2> TAKE j \in 1..m
  <2>1. \A i \in 1..m : c[i] <= c[j] <=> i <= j
    <3> TAKE i \in 1..m
    <3>1. c[i] \in Nat /\ c[j] \in Nat /\ (i < j => c[i] < c[j]) /\ (j < i => c[j] < c[i])
      BY <1>1
    <3>2. CASE i < j
      BY <3>1, <3>2
    <3>3. CASE i = j
      BY <3>1, <3>3
    <3>4. CASE j < i
      BY <3>1, <3>4
    <3> QED BY <3>2, <3>3, <3>4
  <2>2. \A i \in 1..j : i \in 1..m
    OBVIOUS
  <2> QED BY <1>0, <2>1, <2>2
<1>5. C = First(m)
  BY <1>0
<1> HIDE DEF First
<1>4. \A j \in 1..m : c[j] \in C /\ Cardinality({h \in C : h <= c[j]}) = j
  <2> TAKE j \in 1..m
  <2> DEFINE B == {h \in C : h <= c[j]}
  <2>1. c[j] \in C
    BY <1>0
  <2>2. B = First(j)
    BY <1>3
  <2> HIDE DEF B
  <2>3. Cardinality(B) = j
    BY <1>2, <2>2
  <2> QED BY <2>1, <2>3 DEF B
<1>7. Cardinality(C) = m
  BY <1>2, <1>5
<1>6. ASSUME NEW j \in 1..m
      PROVE  (CHOOSE i \in C : Cardinality({h \in C : h <= i}) = j) = c[j]
  <2>1. \A i \in C : Cardinality({h \in C : h <= i}) = j => i = c[j]
    BY <1>0, <1>4
  <2> QED BY <1>4, <2>1
<1> QED BY <1>6, <1>7 DEF C

(* In a text str that joins the m fields of F, c[j] is where the j-th      *)
(* slash is, and c[m] is behind the text.                                  *)
Joined(m, F, str, c) ==
    /\ c[0] = 0 /\ c[m] = Len(str) + 1
    /\ \A j \in 1..m : c[j] = c[j - 1] + Len(F[j]) + 1
    /\ \A j \in 1..m : \A p \in 1..Len(F[j]) : str[c[j - 1] + p] = F[j][p]
    /\ \A j \in 1..(m - 1) : str[c[j]] = "/"

(* Where the fields are in the text that joins them.                       *)
LEMMA JoinPlaces ==
    ASSUME NEW A, NEW m \in Nat \ {0}, NEW F \in [1..m -> Seq(A)]
    PROVE  /\ Join(F) \in Seq(A \cup {"/"})
           /\ \E c \in [0..m -> Nat] : Joined(m, F, Join(F), c)
<1> DEFINE V == A \cup {"/"}
           ss == [i \in 1..m |-> IF i = 1 THEN F[i] ELSE <<"/">> \o F[i]]
           W == Seq(V)
<1>1. Join(F) = FlattenSeq(ss)
  <2>1. DOMAIN F = 1..m
    OBVIOUS
  <2> QED BY <2>1 DEF Join
<1>2. ASSUME NEW i \in 1..m
      PROVE  /\ ss[i] \in W /\ Len(F[i]) \in Nat
             /\ i = 1 => ss[i] = F[i]
             /\ i # 1 => /\ Len(ss[i]) = Len(F[i]) + 1
                         /\ ss[i][1] = "/"
                         /\ \A p \in 1..Len(F[i]) : ss[i][1 + p] = F[i][p]
  <2> DEFINE s == <<"/">>
             b == F[i]
  <2>1. s \in Seq(V) /\ Len(s) = 1 /\ s[1] = "/"
    OBVIOUS
  <2>2. b \in Seq(A) /\ Len(b) \in Nat
    OBVIOUS
  <2>3. b \in Seq(V)
    BY <2>2, SeqMonotonic
  <2>4. ss[i] = IF i = 1 THEN b ELSE s \o b
    OBVIOUS
  <2> HIDE DEF s, b, ss, V
  <2>5. /\ s \o b \in Seq(V) /\ Len(s \o b) = Len(b) + 1
        /\ (s \o b)[1] = "/"
        /\ \A p \in 1..Len(b) : (s \o b)[1 + p] = b[p]
    <3>1. /\ s \o b \in Seq(V) /\ Len(s \o b) = Len(s) + Len(b)
          /\ \A p \in 1..(Len(s) + Len(b)) : (s \o b)[p] = IF p <= Len(s) THEN s[p] ELSE b[p - Len(s)]
      BY <2>1, <2>3, ConcatProperties
    <3> QED BY <2>1, <2>2, <3>1
  <2>6. /\ ss[i] \in Seq(V) /\ Len(b) \in Nat
        /\ i = 1 => ss[i] = b
        /\ i # 1 => /\ Len(ss[i]) = Len(b) + 1
                    /\ ss[i][1] = "/"
                    /\ \A p \in 1..Len(b) : ss[i][1 + p] = b[p]
    BY <2>2, <2>3, <2>4, <2>5
  <2> QED BY <2>6 DEF b
<1>3. ss \in [1..m -> W]
  BY <1>2
<1>4. ss \in Seq(W) /\ Len(ss) = m
  <2> HIDE DEF W, ss
  <2> QED BY <1>3
<1> HIDE DEF ss
<1>5. PICK f \in [0..m -> Seq(V)] : Concats(m, ss, f) /\ Join(F) = f[m]
  BY <1>1, <1>4, FlattenConcats
<1>6. Placed(m, ss, f)
  BY <1>3, <1>5, ConcatsPlaces
<1> DEFINE str == Join(F)
           L(i) == Len(f[i])
           c == [j \in 0..m |-> IF j = 0 THEN 0 ELSE L(j) + 1]
<1>7. str \in Seq(V)
  BY <1>5
<1> HIDE DEF str
<1>8. /\ L(0) = 0 /\ L(m) = Len(str)
      /\ \A i \in 0..m : L(i) \in Nat
      /\ \A i \in 1..m : L(i) = L(i - 1) + Len(ss[i])
      /\ \A i \in 1..m : \A p \in 1..Len(ss[i]) : str[L(i - 1) + p] = ss[i][p]
  BY <1>5, <1>6 DEF Placed, str
<1> HIDE DEF L
<1>9. c \in [0..m -> Nat] /\ c[0] = 0 /\ \A j \in 1..m : c[j] = L(j) + 1
  <2>1. \A j \in 0..m : L(j) \in Nat
    BY <1>8
  <2>2. \A j \in 1..m : j \in 0..m /\ j # 0
    OBVIOUS
  <2> QED BY <2>1, <2>2
<1> HIDE DEF c
<1>10. c[m] = Len(str) + 1
  BY <1>8, <1>9
<1>11. ASSUME NEW j \in 1..m
       PROVE  /\ c[j] = c[j - 1] + Len(F[j]) + 1
              /\ \A p \in 1..Len(F[j]) : str[c[j - 1] + p] = F[j][p]
              /\ j # 1 => str[c[j - 1]] = "/"
  <2>1. CASE j = 1
    <3>1. c[1] = L(1) + 1 /\ L(1) = L(1 - 1) + Len(F[1])
      BY <1>2, <1>8, <1>9, <2>1
    <3>2. \A p \in 1..Len(F[1]) : str[L(1 - 1) + p] = F[1][p]
      <4>1. \A p \in 1..Len(ss[j]) : str[L(j - 1) + p] = ss[j][p]
        BY <1>8, Zenon
      <4>2. ss[j] = F[j]
        BY <1>2, <2>1
      <4> QED BY <2>1, <4>1, <4>2, Zenon
    <3>3. 1 - 1 = 0 /\ c[0] = 0 /\ L(0) = 0
      BY <1>8, <1>9
    <3> QED BY <1>2, <2>1, <3>1, <3>2, <3>3
  <2>2. CASE j # 1
    <3>0. j - 1 \in 1..m /\ j - 1 \in 0..m
      BY <2>2
    <3>1. j - 1 \in 1..m /\ L(j - 1) \in Nat /\ c[j - 1] = L(j - 1) + 1
      BY <1>8, <1>9, <3>0, Zenon
    <3>8. \A p \in 1..Len(ss[j]) : str[L(j - 1) + p] = ss[j][p]
      BY <1>8, Zenon
    <3>2. Len(ss[j]) = Len(F[j]) + 1 /\ Len(F[j]) \in Nat /\ L(j) = L(j - 1) + Len(ss[j]) /\ c[j] = L(j) + 1
      BY <1>2, <1>8, <1>9, <2>2
    <3>3. \A p \in 1..Len(F[j]) : L(j - 1) + (1 + p) = c[j - 1] + p /\ 1 + p \in 1..Len(ss[j])
      BY <3>1, <3>2
    <3>4. \A p \in 1..Len(F[j]) : str[L(j - 1) + (1 + p)] = ss[j][1 + p]
      BY <3>3, <3>8
    <3>5. str[L(j - 1) + 1] = ss[j][1]
      BY <3>2, <3>8
    <3>6. \A p \in 1..Len(F[j]) : str[c[j - 1] + p] = F[j][p]
      BY <1>2, <2>2, <3>3, <3>4
    <3>7. str[c[j - 1]] = "/"
      BY <1>2, <2>2, <3>1, <3>5
    <3> QED BY <3>1, <3>2, <3>6, <3>7
  <2> QED BY <2>1, <2>2
<1>12. ASSUME NEW j \in 1..(m - 1) PROVE str[c[j]] = "/"
  <2> DEFINE i == j + 1
  <2>1. i \in 1..m /\ i # 1 /\ i - 1 = j
    OBVIOUS
  <2> HIDE DEF i
  <2>2. str[c[i - 1]] = "/"
    BY <1>11, <2>1
  <2> QED BY <2>1, <2>2
<1>13. Joined(m, F, str, c)
  BY <1>9, <1>10, <1>11, <1>12 DEF Joined
<1> QED BY <1>7, <1>9, <1>13 DEF str

(* The text has a slash exactly where two fields meet. *)
CutsAt(m, str, c) ==
    /\ \A j \in 1..(m - 1) : c[j] < c[j + 1]
    /\ {i \in 1..Len(str) : str[i] = "/"} = {c[j] : j \in 1..(m - 1)}

(* It does, since no field contains a slash.                               *)
LEMMA SlashesAreCuts ==
    ASSUME NEW A, "/" \notin A, NEW m \in Nat \ {0}, NEW F \in [1..m -> Seq(A)],
           NEW str, NEW c \in [0..m -> Nat], Joined(m, F, str, c), Len(str) \in Nat
    PROVE  CutsAt(m, str, c)
<1>1. ASSUME NEW j \in 1..m
      PROVE  /\ c[j - 1] \in Nat /\ c[j] \in Nat /\ Len(F[j]) \in Nat
             /\ c[j] = c[j - 1] + Len(F[j]) + 1
             /\ \A p \in 1..Len(F[j]) : str[c[j - 1] + p] = F[j][p] /\ F[j][p] \in A
  <2>1. j - 1 \in 0..m /\ j \in 0..m /\ F[j] \in Seq(A)
    OBVIOUS
  <2>2. /\ c[j] = c[j - 1] + Len(F[j]) + 1
        /\ \A p \in 1..Len(F[j]) : str[c[j - 1] + p] = F[j][p]
    BY Zenon DEF Joined
  <2>3. Len(F[j]) \in Nat /\ \A p \in 1..Len(F[j]) : F[j][p] \in A
    BY <2>1
  <2>4. c[j - 1] \in Nat /\ c[j] \in Nat
    BY <2>1
  <2> QED BY <2>2, <2>3, <2>4
<1>2. \A j \in 1..m : c[j - 1] < c[j]
  <2> TAKE j \in 1..m
  <2> DEFINE x == c[j - 1]
             y == c[j]
             l == Len(F[j])
  <2>1. x \in Nat /\ y \in Nat /\ l \in Nat /\ y = x + l + 1
    BY <1>1
  <2> HIDE DEF x, y, l
  <2>2. x < y
    BY <2>1
  <2> QED BY <2>2 DEF x, y
<1>3. \A j \in 1..(m - 1) : c[j] < c[j + 1]
  <2> TAKE j \in 1..(m - 1)
  <2> DEFINE i == j + 1
  <2>1. i \in 1..m /\ i - 1 = j
    OBVIOUS
  <2> HIDE DEF i
  <2>2. c[i - 1] < c[i]
    BY <1>2, <2>1
  <2> QED BY <2>1, <2>2 DEF i
<1>4. c[0] = 0 /\ c[m] = Len(str) + 1 /\ \A j \in 1..(m - 1) : str[c[j]] = "/"
  BY DEF Joined
<1>5. ASSUME NEW j \in 1..(m - 1) PROVE c[j] \in 1..Len(str) /\ str[c[j]] = "/"
  <2> DEFINE d == [i \in 1..m |-> c[i]]
  <2>1. d \in [1..m -> Nat] /\ \A i \in 1..m : d[i] = c[i]
    OBVIOUS
  <2>2. \A i \in 1..(m - 1) : d[i] < d[i + 1]
    BY <1>3
  <2> HIDE DEF d
  <2>3. \A i, h \in 1..m : i < h => d[i] < d[h]
    BY <2>1, <2>2, Increasing
  <2>4. j \in 1..m /\ m \in 1..m /\ j < m
    OBVIOUS
  <2>5. c[j] < c[m] /\ c[j] \in Nat /\ c[j - 1] < c[j] /\ c[j - 1] \in Nat
    BY <1>1, <1>2, <2>1, <2>3, <2>4
  <2> QED BY <1>4, <2>5
<1>6. ASSUME NEW p \in 1..Len(str), str[p] = "/" PROVE \E j \in 1..(m - 1) : p = c[j]
  <2> DEFINE T == {j \in 0..m : p < c[j]}
  <2>1. m \in T /\ T \in SUBSET Nat
    BY <1>4
  <2>2. PICK j \in T : \A i \in T : j <= i
    <3> HIDE DEF T
    <3> QED BY <2>1, LeastNatural
  <2>3. j \in 0..m /\ p < c[j]
    OBVIOUS
  <2>4. j # 0
    BY <1>4, <2>3
  <2>5. j \in 1..m /\ j - 1 \in 0..m /\ ~(j <= j - 1)
    BY <2>3, <2>4
  <2>6. ~(p < c[j - 1])
    BY <2>2, <2>5
  <2>7. /\ c[j - 1] \in Nat /\ c[j] \in Nat /\ Len(F[j]) \in Nat
        /\ c[j] = c[j - 1] + Len(F[j]) + 1
        /\ \A q \in 1..Len(F[j]) : str[c[j - 1] + q] = F[j][q] /\ F[j][q] \in A
    BY <1>1, <2>5
  <2>8. p = c[j - 1]
    <3> SUFFICES ASSUME p # c[j - 1] PROVE FALSE
      OBVIOUS
    <3> DEFINE q == p - c[j - 1]
    <3>1. q \in 1..Len(F[j]) /\ c[j - 1] + q = p
      <4> DEFINE x == c[j - 1]
                 y == c[j]
                 l == Len(F[j])
      <4>1. x \in Nat /\ y = x + l + 1 /\ l \in Nat /\ p < y /\ ~(p < x) /\ p # x
        BY <2>3, <2>6, <2>7
      <4> HIDE DEF x, y, l
      <4>2. p - x \in 1..l /\ x + (p - x) = p
        BY <4>1
      <4> QED BY <4>2 DEF x, l
    <3> HIDE DEF q
    <3>2. str[c[j - 1] + q] \in A
      BY <2>7, <3>1
    <3> QED BY <1>6, <3>1, <3>2
  <2>9. j # 1
    BY <1>4, <2>8
  <2>10. j - 1 \in 1..(m - 1)
    BY <2>5, <2>9
  <2> QED BY <2>8, <2>10
<1>7. {i \in 1..Len(str) : str[i] = "/"} = {c[j] : j \in 1..(m - 1)}
  <2> DEFINE I == 1..Len(str)
             J == 1..(m - 1)
             slash == "/"
  <2>1. (\A j \in J : c[j] \in I /\ str[c[j]] = slash) /\ \A p \in I : str[p] = slash => \E j \in J : p = c[j]
    BY <1>5, <1>6
  <2> HIDE DEF I, J, slash
  <2>2. {i \in I : str[i] = slash} = {c[j] : j \in J}
    BY <2>1
  <2> QED BY <2>2 DEF I, J, slash
<1> QED BY <1>3, <1>7 DEF CutsAt

(* Splitting undoes joining, unless there are more fields than parts. *)
LEMMA SplitUndoesJoin ==
    ASSUME NEW A, "/" \notin A, NEW m \in Nat \ {0}, NEW F \in [1..m -> Seq(A)],
           NEW n \in Nat, m <= n
    PROVE  SplitN(Join(F), n) = F
<1> DEFINE str == Join(F)
           slashes == {i \in DOMAIN str : str[i] = "/"}
           cut(j) == CHOOSE i \in slashes : Cardinality({h \in slashes : h <= i}) = j
           last == Min({Cardinality(slashes), n - 1}) + 1
           part(j) == SubSeq(str, IF j = 1 THEN 1 ELSE cut(j - 1) + 1,
                                  IF j = last THEN Len(str) ELSE cut(j) - 1)
<1>1. str \in Seq(A \cup {"/"})
  BY JoinPlaces
<1>2. PICK c \in [0..m -> Nat] : Joined(m, F, str, c)
  BY JoinPlaces
<1>3. SplitN(str, n) = [j \in 1..last |-> part(j)]
  BY DEF SplitN
<1> HIDE DEF str
<1>4. Len(str) \in Nat /\ DOMAIN str = 1..Len(str)
  BY <1>1
<1> DEFINE d == [j \in 1..(m - 1) |-> c[j]]
<1>5. slashes = {c[j] : j \in 1..(m - 1)} /\ \A j \in 1..(m - 1) : c[j] < c[j + 1]
  <2>1. CutsAt(m, str, c)
    BY <1>2, <1>4, SlashesAreCuts
  <2>2. slashes = {i \in 1..Len(str) : str[i] = "/"}
    BY <1>4
  <2> HIDE DEF slashes
  <2> QED BY <2>1, <2>2 DEF CutsAt
<1>6. /\ d \in [1..(m - 1) -> Nat] /\ \A j \in 1..(m - 1) : d[j] = c[j]
      /\ slashes = Range(d)
      /\ \A j \in 1..(m - 1 - 1) : d[j] < d[j + 1]
  <2>1. d \in [1..(m - 1) -> Nat] /\ DOMAIN d = 1..(m - 1) /\ \A j \in 1..(m - 1) : d[j] = c[j]
    OBVIOUS
  <2>2. \A j \in 1..(m - 1 - 1) : j \in 1..(m - 1) /\ j + 1 \in 1..(m - 1)
    OBVIOUS
  <2> HIDE DEF d, slashes
  <2>3. slashes = Range(d)
    BY <1>5, <2>1 DEF Range
  <2> QED BY <1>5, <2>1, <2>2, <2>3
<1> HIDE DEF slashes, d
<1>7. m - 1 \in Nat /\ Cardinality(slashes) = m - 1 /\ \A j \in 1..(m - 1) : cut(j) = c[j]
  <2>1. m - 1 \in Nat
    OBVIOUS
  <2>2. /\ Cardinality(Range(d)) = m - 1
        /\ \A j \in 1..(m - 1) :
             (CHOOSE i \in Range(d) : Cardinality({h \in Range(d) : h <= i}) = j) = d[j]
    BY <1>6, <2>1, Ranks
  <2> QED BY <1>6, <2>1, <2>2
<1>8. last = m
  <2>1. Min({m - 1, n - 1}) = m - 1
    BY DEF Min
  <2> QED BY <1>7, <2>1
<1> HIDE DEF last, cut
<1>9. ASSUME NEW j \in 1..m PROVE part(j) = F[j]
  <2>1. /\ c[j - 1] \in Nat /\ Len(F[j]) \in Nat /\ F[j] \in Seq(A)
        /\ c[j] = c[j - 1] + Len(F[j]) + 1
        /\ \A p \in 1..Len(F[j]) : str[c[j - 1] + p] = F[j][p]
    <3>1. j - 1 \in 0..m /\ F[j] \in Seq(A)
      OBVIOUS
    <3>2. /\ c[j] = c[j - 1] + Len(F[j]) + 1
          /\ \A p \in 1..Len(F[j]) : str[c[j - 1] + p] = F[j][p]
      BY <1>2, Zenon DEF Joined
    <3> QED BY <3>1, <3>2
  <2>2. c[0] = 0 /\ c[m] = Len(str) + 1
    BY <1>2 DEF Joined
  <2> DEFINE from == c[j - 1] + 1
             to == c[j] - 1
  <2>3. (IF j = 1 THEN 1 ELSE cut(j - 1) + 1) = from
    <3>1. CASE j = 1
      BY <2>2, <3>1
    <3>2. CASE j # 1
      <4>1. j - 1 \in 1..(m - 1)
        BY <3>2
      <4> QED BY <1>7, <3>2, <4>1
    <3> QED BY <3>1, <3>2
  <2>4. (IF j = last THEN Len(str) ELSE cut(j) - 1) = to
    <3>1. CASE j = m
      BY <1>4, <1>8, <2>2, <3>1
    <3>2. CASE j # m
      <4>1. j \in 1..(m - 1)
        BY <3>2
      <4> QED BY <1>7, <1>8, <3>2, <4>1
    <3> QED BY <3>1, <3>2
  <2>5. part(j) = SubSeq(str, from, to)
    BY <2>3, <2>4
  <2>6. /\ from \in Int /\ to \in Int /\ to - from + 1 = Len(F[j])
        /\ \A p \in 1..Len(F[j]) : from + p - 1 = c[j - 1] + p
        /\ \A i \in from..to : i - c[j - 1] \in 1..Len(F[j]) /\ c[j - 1] + (i - c[j - 1]) = i
    <3> DEFINE x == c[j - 1]
               y == c[j]
               l == Len(F[j])
    <3>1. x \in Nat /\ l \in Nat /\ y = x + l + 1
      BY <2>1
    <3> HIDE DEF x, y, l
    <3>2. /\ x + 1 \in Int /\ y - 1 \in Int /\ y - 1 - (x + 1) + 1 = l
          /\ \A p \in 1..l : x + 1 + p - 1 = x + p
          /\ \A i \in (x + 1)..(y - 1) : i - x \in 1..l /\ x + (i - x) = i
      BY <3>1
    <3> QED BY <3>2 DEF x, y, l
  <2>7. \A i \in from..to : str[i] \in A
    <3> HIDE DEF from, to
    <3> TAKE i \in from..to
    <3> DEFINE q == i - c[j - 1]
    <3>1. q \in 1..Len(F[j]) /\ c[j - 1] + q = i
      BY <2>6
    <3> HIDE DEF q
    <3>2. str[c[j - 1] + q] = F[j][q]
      BY <2>1, <3>1, Zenon
    <3>3. F[j][q] \in A
      <4> DEFINE G == F[j]
      <4>1. G \in Seq(A) /\ q \in 1..Len(G)
        BY <2>1, <3>1, Zenon
      <4> HIDE DEF G
      <4>2. G[q] \in A
        BY <4>1
      <4> QED BY <4>2 DEF G
    <3> QED BY <3>1, <3>2, <3>3, Zenon
  <2> HIDE DEF part, from, to
  <2>8. /\ SubSeq(str, from, to) \in Seq(A)
        /\ Len(SubSeq(str, from, to)) = IF from <= to THEN to - from + 1 ELSE 0
        /\ \A p \in 1..(to - from + 1) : SubSeq(str, from, to)[p] = str[from + p - 1]
    BY <2>6, <2>7, SubSeqProperties
  <2> DEFINE w == SubSeq(str, from, to)
  <2> HIDE DEF w
  <2>9. w \in Seq(A) /\ Len(w) = Len(F[j]) /\ \A p \in 1..Len(F[j]) : w[p] = F[j][p]
    <3> DEFINE l == Len(F[j])
    <3>1. l \in Nat /\ to - from + 1 = l /\ from \in Int /\ to \in Int
      BY <2>1, <2>6
    <3>2. w \in Seq(A) /\ Len(w) = IF from <= to THEN to - from + 1 ELSE 0
      BY <2>8 DEF w
    <3>3. ASSUME NEW p \in 1..l PROVE w[p] = F[j][p]
      <4>1. w[p] = str[from + p - 1]
        BY <2>8, <3>1 DEF w
      <4>2. from + p - 1 = c[j - 1] + p /\ str[c[j - 1] + p] = F[j][p]
        BY <2>1, <2>6
      <4> QED BY <4>1, <4>2
    <3> HIDE DEF l
    <3>4. Len(w) = l
      BY <3>1, <3>2
    <3> QED BY <3>2, <3>3, <3>4 DEF l
  <2>10. w = F[j]
    BY <2>1, <2>9, SeqEqual
  <2> QED BY <2>5, <2>10 DEF w
<1> HIDE DEF part
<1>10. SplitN(str, n) = [j \in 1..m |-> F[j]]
  BY <1>3, <1>8, <1>9
<1> QED BY <1>10 DEF str

-----------------------------------------------------------------------------
(* The fields of a key with and without the fifth, the namespace. *)
PartsFit(a, b, c, d, e, g) ==
    /\ SubSeq(<<a, b, c, d, e, g>>, 1, 4) \o <<g>> = <<a, b, c, d, g>>
    /\ SubSeq(<<a, b, c, d, g>>, 1, 4) \o <<e, g>> = <<a, b, c, d, e, g>>

(* Both have the same first four.                                          *)
LEMMA TupleParts ==
    ASSUME NEW a, NEW b, NEW c, NEW d, NEW e, NEW g
    PROVE  PartsFit(a, b, c, d, e, g)
<1> DEFINE W == {a, b, c, d, e, g}
           q == <<a, b, c, d>>
           k == <<a, b, c, d, e, g>>
           l == <<a, b, c, d, g>>
           x == <<g>>
           y == <<e, g>>
<1>1. q \in Seq(W) /\ Len(q) = 4 /\ q[1] = a /\ q[2] = b /\ q[3] = c /\ q[4] = d
  OBVIOUS
<1>2. k \in Seq(W) /\ Len(k) = 6 /\ k[1] = a /\ k[2] = b /\ k[3] = c /\ k[4] = d /\ k[5] = e /\ k[6] = g
  OBVIOUS
<1>3. l \in Seq(W) /\ Len(l) = 5 /\ l[1] = a /\ l[2] = b /\ l[3] = c /\ l[4] = d /\ l[5] = g
  OBVIOUS
<1>4. x \in Seq(W) /\ Len(x) = 1 /\ x[1] = g /\ y \in Seq(W) /\ Len(y) = 2 /\ y[1] = e /\ y[2] = g
  OBVIOUS
<1> HIDE DEF W, q, k, l, x, y
<1>5. ASSUME NEW s \in Seq(W), Len(s) >= 4, \A i \in 1..4 : s[i] = q[i]
      PROVE  SubSeq(s, 1, 4) = q
  <2> DEFINE u == SubSeq(s, 1, 4)
  <2>1. \A i \in 1..4 : s[i] \in W
    BY <1>5
  <2>2. u \in Seq(W) /\ Len(u) = 4 /\ \A i \in 1..4 : u[i] = s[i]
    <3>1. /\ SubSeq(s, 1, 4) \in Seq(W)
          /\ Len(SubSeq(s, 1, 4)) = IF 1 <= 4 THEN 4 - 1 + 1 ELSE 0
          /\ \A i \in 1..(4 - 1 + 1) : SubSeq(s, 1, 4)[i] = s[1 + i - 1]
      BY <2>1, SubSeqProperties
    <3> QED BY <3>1
  <2> HIDE DEF u
  <2>3. \A i \in 1..4 : u[i] = q[i]
    BY <1>5, <2>2
  <2>4. u = q
    BY <1>1, <2>2, <2>3, SeqEqual
  <2> QED BY <2>4 DEF u
<1>6. \A i \in 1..4 : i = 1 \/ i = 2 \/ i = 3 \/ i = 4
  OBVIOUS
<1>7. (\A i \in 1..4 : k[i] = q[i]) /\ \A i \in 1..4 : l[i] = q[i]
  BY <1>1, <1>2, <1>3, <1>6
<1>8. SubSeq(k, 1, 4) = q /\ SubSeq(l, 1, 4) = q
  <2>1. Len(k) >= 4 /\ Len(l) >= 4
    BY <1>2, <1>3
  <2> QED BY <1>2, <1>3, <1>5, <1>7, <2>1, Zenon
<1>9. /\ q \o x \in Seq(W) /\ Len(q \o x) = 5
      /\ \A i \in 1..5 : (q \o x)[i] = IF i <= 4 THEN q[i] ELSE x[i - 4]
  <2>1. /\ q \o x \in Seq(W) /\ Len(q \o x) = Len(q) + Len(x)
        /\ \A i \in 1..(Len(q) + Len(x)) : (q \o x)[i] = IF i <= Len(q) THEN q[i] ELSE x[i - Len(q)]
    BY <1>1, <1>4, ConcatProperties, Zenon
  <2> QED BY <1>1, <1>4, <2>1
<1>10. /\ q \o y \in Seq(W) /\ Len(q \o y) = 6
       /\ \A i \in 1..6 : (q \o y)[i] = IF i <= 4 THEN q[i] ELSE y[i - 4]
  <2>1. /\ q \o y \in Seq(W) /\ Len(q \o y) = Len(q) + Len(y)
        /\ \A i \in 1..(Len(q) + Len(y)) : (q \o y)[i] = IF i <= Len(q) THEN q[i] ELSE y[i - Len(q)]
    BY <1>1, <1>4, ConcatProperties, Zenon
  <2> QED BY <1>1, <1>4, <2>1
<1>11. \A i \in 1..5 : (q \o x)[i] = l[i]
  <2> TAKE i \in 1..5
  <2>1. CASE i = 5
    BY <1>3, <1>4, <1>9, <2>1
  <2>2. CASE i \in 1..4
    BY <1>7, <1>9, <2>2
  <2>3. i = 5 \/ i \in 1..4
    OBVIOUS
  <2> QED BY <2>1, <2>2, <2>3, Zenon
<1>12. \A i \in 1..6 : (q \o y)[i] = k[i]
  <2> TAKE i \in 1..6
  <2>1. CASE i = 5
    BY <1>2, <1>4, <1>10, <2>1
  <2>2. CASE i = 6
    <3>1. (q \o y)[i] = y[i - 4] /\ i - 4 = 2
      BY <1>10, <2>2
    <3> QED BY <1>2, <1>4, <2>2, <3>1, Zenon
  <2>3. CASE i \in 1..4
    <3>1. (q \o y)[i] = q[i]
      BY <1>10, <2>3
    <3> QED BY <1>7, <2>3, <3>1, Zenon
  <2>4. i = 5 \/ i = 6 \/ i \in 1..4
    OBVIOUS
  <2> QED BY <2>1, <2>2, <2>3, <2>4, Zenon
<1>13. q \o x = l
  BY <1>3, <1>9, <1>11, SeqEqual
<1>14. q \o y = k
  BY <1>2, <1>10, <1>12, SeqEqual
<1>15. SubSeq(k, 1, 4) \o x = l /\ SubSeq(l, 1, 4) \o y = k
  BY <1>8, <1>13, <1>14
<1> QED BY <1>15, Zenon DEF k, l, x, y, PartsFit

(* What ParseStateKey makes of a text of five and one of six parts.        *)
LEMMA ParsesFive ==
    ASSUME NEW str, NEW P, SplitN(str, 6) = P, Len(P) = 5
    PROVE  ParseStateKey(str) = SubSeq(P, 1, 4) \o <<<<>>, P[5]>>
<1> DEFINE l == Len(SplitN(str, 6))
           q == SubSeq(SplitN(str, 6), 1, 4) \o <<<<>>, SplitN(str, 6)[5]>>
<1>1. ParseStateKey(str) = CASE l = 5 -> q [] l = 6 -> SplitN(str, 6) [] OTHER -> <<>>
  BY Zenon DEF ParseStateKey
<1>2. l = 5 /\ q = SubSeq(P, 1, 4) \o <<<<>>, P[5]>>
  BY Zenon
<1> HIDE DEF l, q
<1>3. ParseStateKey(str) = q
  BY <1>1, <1>2
<1> QED BY <1>2, <1>3

(* A text of six parts is taken as it is.                                  *)
LEMMA ParsesSix ==
    ASSUME NEW str, NEW P, SplitN(str, 6) = P, Len(P) = 6
    PROVE  ParseStateKey(str) = P
  BY DEF ParseStateKey

(* ParseStateKey reads every StateKey back from its String, whatever its   *)
(* fields are, with and without a namespace and a group.                   *)
THEOREM ParseUndoesString ==
    ASSUME NEW key \in StateKeys
    PROVE  ParseStateKey(StateKeyString(key)) = key
<1> DEFINE A == Plain \cup DOMAIN Hex
           W == Seq(A)
<1>1. "/" \notin A
  BY CodecAssumption
<1>2. Names \subseteq W \ {<<>>} /\ <<>> \in W
  BY CodecAssumption, EmptySeq
<1> HIDE DEF A
<1>3. PICK a \in Names, b \in Names \cup {<<>>}, c \in Names, d \in Names,
           e \in Names \cup {<<>>}, g \in Names : key = <<a, b, c, d, e, g>>
  BY DEF StateKeys
<1>4. a \in W /\ b \in W /\ c \in W /\ d \in W /\ e \in W /\ g \in W
  BY <1>2
<1> HIDE DEF W
<1>5. key[5] = e /\ key[6] = g
  BY <1>3
<1>6. CASE e = <<>>
  <2> DEFINE F == <<a, b, c, d, g>>
  <2>1. F \in [1..5 -> W] /\ Len(F) = 5 /\ F[5] = g
    BY <1>4
  <2>2. SubSeq(key, 1, 4) \o <<g>> = F /\ SubSeq(F, 1, 4) \o <<e, g>> = key
    <3>0. PartsFit(a, b, c, d, e, g)
      BY TupleParts, Zenon
    <3>1. /\ SubSeq(<<a, b, c, d, e, g>>, 1, 4) \o <<g>> = <<a, b, c, d, g>>
          /\ SubSeq(<<a, b, c, d, g>>, 1, 4) \o <<e, g>> = <<a, b, c, d, e, g>>
      BY <3>0, Zenon DEF PartsFit
    <3> QED BY <1>3, <3>1, Zenon
  <2> HIDE DEF F
  <2>3. StateKeyString(key) = Join(F)
    BY <1>5, <1>6, <2>2 DEF StateKeyString
  <2>4. SplitN(Join(F), 6) = F
    <3>1. F \in [1..5 -> Seq(A)] /\ 5 \in Nat \ {0} /\ 6 \in Nat /\ 5 <= 6
      BY <2>1 DEF W
    <3> QED BY <1>1, <3>1, SplitUndoesJoin, Zenon
  <2>5. ParseStateKey(Join(F)) = SubSeq(F, 1, 4) \o <<<<>>, F[5]>>
    BY <2>1, <2>4, ParsesFive, Zenon
  <2> QED BY <1>6, <2>1, <2>2, <2>3, <2>5, Zenon
<1>7. CASE e # <<>>
  <2>1. key \in [1..6 -> W] /\ Len(key) = 6
    BY <1>3, <1>4
  <2>2. StateKeyString(key) = Join(key)
    BY <1>5, <1>7 DEF StateKeyString
  <2>3. SplitN(Join(key), 6) = key
    <3>1. key \in [1..6 -> Seq(A)] /\ 6 \in Nat \ {0} /\ 6 <= 6
      BY <2>1 DEF W
    <3>2. 6 \in Nat
      OBVIOUS
    <3> QED BY <1>1, <3>1, <3>2, SplitUndoesJoin, Zenon
  <2> QED BY <2>1, <2>2, <2>3, ParsesSix, Zenon
<1> QED BY <1>6, <1>7

-----------------------------------------------------------------------------
(* What key.go and configmap.go make of the entries of a state can be read *)
(* back without loss.                                                      *)
THEOREM CodecIsLossless == StoringIsLossless
<1>1. \A l \in Nat : Strings(l) \subseteq Seq(Alphabet)
  BY DEF Strings
<1>2. ASSUME NEW raw \in Strings(MaxLength)
      PROVE  /\ DecodeStateKey(EncodeStateKey(raw)) = raw
             /\ Range(EncodeStateKey(raw)) \subseteq Plain \cup {Escape}
  <2>1. raw \in Seq(Alphabet)
    BY <1>1, CodecAssumption
  <2>2. EncodeStateKey(raw) \in Seq(Storable) /\ DecodeStateKey(EncodeStateKey(raw)) = raw
    BY <2>1, DecodeUndoesEncode
  <2>3. Range(EncodeStateKey(raw)) \in SUBSET Storable
    BY <2>2, RangeOfSeq
  <2> QED BY <2>2, <2>3 DEF Storable
<1>3. ASSUME NEW a \in Strings(2), NEW b \in Strings(2)
      PROVE  LET entries == [raw \in {a, b} |-> IF raw = a THEN "one" ELSE "other"]
             IN  ParseConfigMapData(BuildConfigMapData(entries)) = entries
  <2> DEFINE entries == [raw \in {a, b} |-> IF raw = a THEN "one" ELSE "other"]
  <2>1. {a, b} \in SUBSET Seq(Alphabet)
    BY <1>1
  <2>2. entries \in [{a, b} -> {"one", "other"}]
    OBVIOUS
  <2> HIDE DEF entries
  <2>3. ParseConfigMapData(BuildConfigMapData(entries)) = entries
    BY <2>1, <2>2, EntriesSurvive
  <2> QED BY <2>3 DEF entries
<1> QED BY <1>2, <1>3, ParseUndoesString DEF StoringIsLossless

(* No save loses or renames an entry on its way into a ConfigMap and back. *)
THEOREM StatesSurvive == Spec => []StatesSurviveStorage
BY CodecIsLossless, PTL DEF StatesSurviveStorage
=============================================================================
