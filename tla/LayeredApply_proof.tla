------------------------- MODULE LayeredApply_proof -------------------------
(***************************************************************************)
(* Proofs about one "tazuna apply", for every manifest list, option, tag   *)
(* filter and interleaving: the safety invariants of LayeredApply hold,    *)
(* nothing is written once Apply has returned, and the layered runner      *)
(* implements the schedule dependsOn promises (DagSchedule).               *)
(*                                                                         *)
(* The invariants are not inductive on their own: that a dependency has    *)
(* finished follows from where the goroutines are relative to the current  *)
(* layer (Barrier), which in turn needs what the resolver guarantees       *)
(* (OrderIInv) and the order of the phases of a run (RunPhases).           *)
(***************************************************************************)
EXTENDS LayeredApply, DependencyOrder_proof

(* What holds when the run has got somewhere. *)
RunPhases ==
    /\ run \in {"checking", "resolving"} => layer = 0
    /\ run \notin {"checking", "failed", "killed"} => Accepted
    /\ run \in {"layers", "saving", "specTests", "ok"} => resolution = "ok"
    /\ layer > 0 => Accepted /\ resolution = "ok"
    /\ run = "saving" => opts.sync /\ opts.atomic

(* Exactly the selected manifests of the layers up to the current one have *)
(* been started, and those of the layers before it have finished.          *)
Barrier ==
    /\ \A i \in DOMAIN manifests : gor[i] # "idle" =>
         i \in Selected /\ \E d \in 1..layer : i \in layers[d]
    /\ \A d \in 1..layer : \A i \in layers[d] \cap Selected : gor[i] # "idle"
    /\ \A d \in 1..(layer - 1) : \A i \in layers[d] \cap Selected : gor[i] = "done"

(* Goroutines run only inside the loop over the layers; a failed one has   *)
(* left an error in the channel.                                           *)
Goroutines ==
    /\ errCh = 0 => \A i \in DOMAIN manifests : gor[i] # "failed"
    /\ run \notin Ended => \A i \in DOMAIN manifests : gor[i] # "lost"
    /\ \A i \in DOMAIN manifests : gor[i] \in Active => run = "layers"
    /\ run \in {"saving", "specTests", "ok"} => \A i \in Selected : gor[i] = "done"

(* What a goroutine has done when it is at a given step. *)
Progress(i) ==
    /\ gor[i] = "build" => opts.sync
    /\ gor[i] \in {"idle", "build", "apply"} => i \notin applied
    /\ gor[i] = "save" => i \in applied /\ (~opts.sync => i \in tested)
    /\ gor[i] = "test" /\ ~opts.sync => i \in applied
    /\ gor[i] = "done" => i \in tested
    /\ opts.sync /\ gor[i] \in {"test", "done"} /\ i \in applied
         => i \in stored \cup pendingSaves \/ manifests[i].name = NoName
    /\ ~opts.sync /\ gor[i] = "done" => i \in stored \/ manifests[i].name = NoName

Saves ==
    /\ touched # {} \/ stored # {} \/ pendingSaves # {} => layer > 0
    /\ stored \subseteq applied /\ pendingSaves \subseteq applied
    /\ ~opts.sync => stored \subseteq tested
    /\ ~opts.atomic => pendingSaves = {}
    /\ run \in {"specTests", "ok"} => pendingSaves = {}
    /\ opts.atomic /\ stored # {} => \A i \in Selected : gor[i] = "done"
    /\ \A i \in DOMAIN manifests : Progress(i)

IInv == TypeOK /\ OrderIInv /\ RunPhases /\ Barrier /\ Goroutines /\ Saves

-----------------------------------------------------------------------------
(* The inductive invariant implies every state property of the runs. *)
LEMMA IInvImplies ==
    ASSUME IInv
    PROVE  /\ DependenciesFinished
           /\ NothingTouchedUnlessValid
           /\ NoLayerAfterFailure
           /\ AtomicSavesLast
           /\ StoredAfterApply
           /\ SuccessIsComplete
<1>1. /\ layers \in Seq(SUBSET DOMAIN manifests) /\ DOMAIN layers = 1..Len(layers)
      /\ Len(layers) \in Nat /\ layer \in 0..Len(layers)
  BY DEF IInv, TypeOK, OrderTypeOK
<1>2. DependenciesFinished
  <2> SUFFICES ASSUME NEW i \in DOMAIN manifests, gor[i] # "idle",
                      NEW j \in DependencyIdx(manifests, i) \cap Selected
               PROVE  gor[j] = "done"
    BY DEF DependenciesFinished
  <2>1. PICK d \in 1..layer : i \in layers[d]
    BY DEF IInv, Barrier
  <2>2. PICK e \in 1..(d - 1) : j \in layers[e]
    BY <1>1, <2>1 DEF IInv, OrderIInv, LayersRespectDependsOn
  <2>3. e \in 1..(layer - 1)
    BY <1>1, <2>1, <2>2
  <2> QED BY <2>2, <2>3 DEF IInv, Barrier
<1>3. NothingTouchedUnlessValid
  BY DEF IInv, Saves, RunPhases, OrderIInv, ResolvesExactlyAcyclic, NothingTouchedUnlessValid
<1>4. NoLayerAfterFailure
  <2> SUFFICES ASSUME NEW d \in DOMAIN layers, NEW e \in DOMAIN layers,
                      NEW i \in layers[d], NEW j \in layers[e],
                      gor[i] = "failed", gor[j] # "idle"
               PROVE  e <= d
    BY DEF NoLayerAfterFailure
  <2>1. i \in DOMAIN manifests /\ j \in DOMAIN manifests
    BY <1>1
  <2>2. i \in Selected /\ (\E c \in 1..layer : j \in layers[c])
    BY <2>1 DEF IInv, Barrier
  <2>3. e \in 1..layer
    BY <1>1, <2>2 DEF IInv, OrderIInv, LayersDisjoint
  <2>4. d \notin 1..(layer - 1)
    BY <2>2 DEF IInv, Barrier
  <2> QED BY <1>1, <2>3, <2>4
<1>5. AtomicSavesLast /\ StoredAfterApply
  BY DEF IInv, Saves, AtomicSavesLast, StoredAfterApply
<1>6. SuccessIsComplete
  <2> SUFFICES ASSUME run = "ok", NEW i \in Selected
               PROVE  /\ gor[i] = "done" /\ i \in tested
                      /\ manifests[i].name # NoName /\ i \in applied => i \in stored
    BY DEF SuccessIsComplete
  <2>1. i \in DOMAIN manifests /\ gor[i] = "done" /\ pendingSaves = {}
    BY DEF IInv, Goroutines, Saves, Selected
  <2>2. Progress(i)
    BY <2>1 DEF IInv, Saves
  <2> QED BY <2>1, <2>2 DEF Progress
<1> QED BY <1>2, <1>3, <1>4, <1>5, <1>6

LEMMA InitIInv == Init => IInv
<1> SUFFICES ASSUME Init PROVE IInv
  OBVIOUS
<1>1. OrderIInv
  BY OrderInitIInv DEF Init
<1>2. Len(layers) = 0 /\ layer = 0 /\ errCh = 0
  BY DEF Init, OrderInit
<1>3. TypeOK
  <2>1. /\ opts \in [sync : BOOLEAN, prune : BOOLEAN, atomic : BOOLEAN]
        /\ filter \subseteq Tags /\ specTests \in TestKinds
    BY OptionsAssumption DEF Init
  <2>2. layer \in 0..Len(layers) /\ errCh \in Nat
    BY <1>2
  <2>3. /\ run \in {"checking", "resolving", "layers", "saving", "specTests"} \cup Ended
        /\ gor \in [DOMAIN manifests -> {"idle", "done", "failed", "lost"} \cup Active]
        /\ ctxDone \in BOOLEAN
        /\ pendingSaves \subseteq DOMAIN manifests /\ stored \subseteq DOMAIN manifests
        /\ touched \subseteq DOMAIN manifests /\ applied \subseteq DOMAIN manifests
        /\ tested \subseteq DOMAIN manifests
    BY DEF Init
  <2> QED BY <1>1, <2>1, <2>2, <2>3, Zenon DEF TypeOK, OrderIInv
<1>4. RunPhases
  BY <1>2 DEF Init, RunPhases
<1>5. Barrier
  BY <1>2 DEF Init, Barrier
<1>6. Goroutines /\ Saves
  BY <1>2 DEF Init, Goroutines, Saves, Progress, Active, Ended
<1> QED BY <1>1, <1>3, <1>4, <1>5, <1>6 DEF IInv

(* What does not depend on the goroutines stays as it is. *)
LEMMA Frame ==
    ASSUME IInv, UNCHANGED <<orderVars, inputVars>>
    PROVE  /\ OrderIInv' /\ Selected' = Selected /\ (Accepted' <=> Accepted)
           /\ manifests' = manifests /\ layers' = layers /\ resolution' = resolution
           /\ opts' = opts
<1>1. OrderIInv'
  BY OrderStepIInv DEF IInv, orderVars
<1> QED
  BY <1>1 DEF orderVars, inputVars, Selected, Accepted, Strict

(***************************************************************************)
(* Steps that only move the run itself.                                    *)
(***************************************************************************)
ControlStep ==
    \/ CheckApply \/ RejectSpec \/ LayersResolved \/ LayerFailed \/ LayersDone
    \/ SavesDone \/ SpecTestsPass \/ SpecTestsFail \/ Interrupt

LEMMA ControlStepIInv == IInv /\ ControlStep => IInv'
<1> SUFFICES ASSUME IInv, ControlStep PROVE IInv'
  OBVIOUS
<1>1. UNCHANGED <<orderVars, inputVars, layer, goVars>>
  BY DEF ControlStep, CheckApply, RejectSpec, LayersResolved, LayerFailed, LayersDone,
         SavesDone, SpecTestsPass, SpecTestsFail, Interrupt
<1>2. /\ OrderIInv' /\ Selected' = Selected /\ (Accepted' <=> Accepted)
      /\ manifests' = manifests /\ layers' = layers /\ resolution' = resolution
      /\ opts' = opts /\ layer' = layer
  BY <1>1, Frame
<1>3. /\ gor' = gor /\ errCh' = errCh /\ pendingSaves' = pendingSaves
      /\ stored' = stored /\ touched' = touched /\ applied' = applied /\ tested' = tested
  BY <1>1 DEF goVars
<1>4. Barrier'
  BY <1>2, <1>3 DEF IInv, Barrier
<1>5. ASSUME NEW i \in DOMAIN manifests PROVE Progress(i)'
  BY <1>2, <1>3, <1>5 DEF IInv, Saves, Progress
<1>6. ASSUME run' \in {"checking", "resolving", "layers", "saving", "specTests"} \cup Ended,
             ctxDone' \in BOOLEAN
      PROVE  TypeOK'
  BY <1>1, <1>2, <1>3, <1>6, Zenon DEF IInv, TypeOK, OrderIInv, inputVars
<1>7. ASSUME run' \in {"specTests", "ok"} => pendingSaves = {}
      PROVE  Saves'
  BY <1>2, <1>3, <1>5, <1>7 DEF IInv, Saves
<1>8. CASE CheckApply
  <2>1. /\ run = "checking" /\ ctxDone' = ctxDone
        /\ run' = IF Accepted THEN "resolving" ELSE "failed"
    BY <1>8 DEF CheckApply
  <2>2. TypeOK' /\ Saves'
    BY <1>6, <1>7, <2>1 DEF IInv, TypeOK, Ended
  <2>3. RunPhases' /\ Goroutines'
    BY <1>2, <1>3, <2>1 DEF IInv, RunPhases, Goroutines, Ended
  <2> QED BY <1>2, <1>4, <2>2, <2>3 DEF IInv
<1>9. CASE RejectSpec
  <2>1. run = "checking" /\ ctxDone' = ctxDone /\ run' = "failed"
    BY <1>9 DEF RejectSpec
  <2>2. TypeOK' /\ Saves'
    BY <1>6, <1>7, <2>1 DEF IInv, TypeOK, Ended
  <2>3. RunPhases' /\ Goroutines'
    BY <1>2, <1>3, <2>1 DEF IInv, RunPhases, Goroutines, Ended
  <2> QED BY <1>2, <1>4, <2>2, <2>3 DEF IInv
<1>10. CASE LayersResolved
  <2>1. /\ run = "resolving" /\ ctxDone' = ctxDone
        /\ run' = IF resolution = "ok" THEN "layers" ELSE "failed"
    BY <1>10 DEF LayersResolved
  <2>2. TypeOK' /\ Saves'
    BY <1>6, <1>7, <2>1 DEF IInv, TypeOK, Ended
  <2>3. RunPhases' /\ Goroutines'
    BY <1>2, <1>3, <2>1 DEF IInv, RunPhases, Goroutines, Ended
  <2> QED BY <1>2, <1>4, <2>2, <2>3 DEF IInv
<1>11. CASE LayerFailed
  <2>1. run = "layers" /\ ctxDone' = ctxDone /\ run' = "failed" /\ Quiet
    BY <1>11 DEF LayerFailed
  <2>2. TypeOK' /\ Saves'
    BY <1>6, <1>7, <2>1 DEF IInv, TypeOK, Ended
  <2>3. RunPhases' /\ Goroutines'
    BY <1>2, <1>3, <2>1 DEF IInv, RunPhases, Goroutines, Ended, Quiet
  <2> QED BY <1>2, <1>4, <2>2, <2>3 DEF IInv
<1>12. CASE LayersDone
  <2>1. /\ run = "layers" /\ ctxDone' = ctxDone /\ Quiet /\ errCh = 0
        /\ layer = Len(layers)
        /\ run' = IF opts.sync /\ opts.atomic THEN "saving" ELSE "specTests"
    BY <1>12 DEF LayersDone
  <2>2. ASSUME NEW i \in Selected PROVE gor[i] = "done"
    <3>1. i \in DOMAIN manifests
      BY DEF Selected
    <3>2. PICK d \in DOMAIN layers : i \in layers[d]
      BY <2>1, <3>1 DEF IInv, RunPhases, OrderIInv, NothingDropped, Placed
    <3>3. gor[i] # "idle"
      BY <2>1, <3>2 DEF IInv, Barrier, TypeOK, OrderTypeOK
    <3>4. gor[i] \in {"idle", "done", "failed", "lost"} \cup Active
      BY <3>1 DEF IInv, TypeOK
    <3> QED BY <2>1, <3>1, <3>3, <3>4 DEF IInv, Goroutines, Quiet, Ended
  <2>3. run' = "specTests" => pendingSaves = {}
    <3>1. Accepted
      BY <2>1 DEF IInv, RunPhases
    <3> QED BY <2>1, <3>1 DEF IInv, Saves, Accepted
  <2>4. TypeOK' /\ Saves'
    BY <1>6, <1>7, <2>1, <2>3 DEF IInv, TypeOK, Ended
  <2>5. RunPhases'
    BY <1>2, <2>1 DEF IInv, RunPhases
  <2>6. Goroutines'
    BY <1>2, <1>3, <2>1, <2>2 DEF IInv, Goroutines, Ended, Quiet
  <2> QED BY <1>2, <1>4, <2>4, <2>5, <2>6 DEF IInv
<1>13. CASE SavesDone
  <2>1. run = "saving" /\ ctxDone' = ctxDone /\ run' = "specTests" /\ pendingSaves = {}
    BY <1>13 DEF SavesDone
  <2>2. TypeOK' /\ Saves'
    BY <1>6, <1>7, <2>1 DEF IInv, TypeOK, Ended
  <2>3. RunPhases' /\ Goroutines'
    BY <1>2, <1>3, <2>1 DEF IInv, RunPhases, Goroutines, Ended
  <2> QED BY <1>2, <1>4, <2>2, <2>3 DEF IInv
<1>14. CASE SpecTestsPass \/ SpecTestsFail
  <2>1. run = "specTests" /\ ctxDone' = ctxDone /\ run' \in {"ok", "failed"}
    BY <1>14 DEF SpecTestsPass, SpecTestsFail
  <2>2. TypeOK'
    BY <1>6, <2>1 DEF IInv, TypeOK, Ended
  <2>3. Saves'
    BY <1>7, <2>1 DEF IInv, Saves
  <2>4. RunPhases' /\ Goroutines'
    BY <1>2, <1>3, <2>1 DEF IInv, RunPhases, Goroutines, Ended
  <2> QED BY <1>2, <1>4, <2>2, <2>3, <2>4 DEF IInv
<1>15. CASE Interrupt
  <2>1. ctxDone' = TRUE /\ run' = run
    BY <1>15 DEF Interrupt
  <2>2. TypeOK'
    BY <1>6, <2>1 DEF IInv, TypeOK
  <2>3. Saves'
    BY <1>7, <2>1 DEF IInv, Saves
  <2>4. RunPhases' /\ Goroutines'
    BY <1>2, <1>3, <2>1 DEF IInv, RunPhases, Goroutines
  <2> QED BY <1>2, <1>4, <2>2, <2>3, <2>4 DEF IInv
<1> QED
  BY <1>8, <1>9, <1>10, <1>11, <1>12, <1>13, <1>14, <1>15 DEF ControlStep

(* The resolver works before anything else has happened. *)
LEMMA ResolveStepIInv == IInv /\ ResolveLayers => IInv'
<1> SUFFICES ASSUME IInv, ResolveLayers PROVE IInv'
  OBVIOUS
<1>1. OrderIInv' /\ manifests' = manifests
  BY OrderStepIInv
  DEF IInv, ResolveLayers, OrderNext, Resolve, ResolveSequential, BuildInDegree, NextLayer,
      FinishLayering
<1>2. /\ run = "resolving" /\ run' = run /\ layer = 0 /\ layer' = 0 /\ ctxDone' = ctxDone
      /\ UNCHANGED inputVars
  BY DEF ResolveLayers, IInv, RunPhases
<1>3. /\ gor' = gor /\ errCh' = errCh /\ pendingSaves' = pendingSaves
      /\ stored' = stored /\ touched' = touched /\ applied' = applied /\ tested' = tested
  BY DEF ResolveLayers, goVars
<1>4. opts' = opts /\ Selected' = Selected /\ (Accepted' <=> Accepted)
  BY <1>1, <1>2 DEF inputVars, Selected, Accepted, Strict
<1>5. TypeOK'
  <2>1. layer' \in 0..Len(layers')
    <3>1. Len(layers') \in Nat
      BY <1>1 DEF OrderIInv, OrderTypeOK
    <3> QED BY <1>2, <3>1
  <2> QED BY <1>1, <1>2, <1>3, <2>1, Zenon DEF IInv, TypeOK, OrderIInv, inputVars
<1>6. RunPhases'
  BY <1>2, <1>4 DEF IInv, RunPhases
<1>7. Barrier'
  BY <1>1, <1>2, <1>3 DEF IInv, Barrier
<1>8. Goroutines'
  BY <1>1, <1>2, <1>3, <1>4 DEF IInv, Goroutines
<1>9. Saves'
  BY <1>1, <1>2, <1>3, <1>4 DEF IInv, Saves, Progress
<1> QED BY <1>1, <1>5, <1>6, <1>7, <1>8, <1>9 DEF IInv

(* Between two layers every manifest of the layers so far has finished. *)
LEMMA LayersFinished ==
    ASSUME IInv, run = "layers", Quiet, errCh = 0
    PROVE  \A d \in 1..layer : \A i \in layers[d] \cap Selected : gor[i] = "done"
<1> SUFFICES ASSUME NEW d \in 1..layer, NEW i \in layers[d] \cap Selected
             PROVE  gor[i] = "done"
  OBVIOUS
<1>1. i \in DOMAIN manifests /\ gor[i] # "idle"
  BY DEF IInv, Barrier, Selected
<1>2. gor[i] \in {"idle", "done", "failed", "lost"} \cup Active
  BY <1>1 DEF IInv, TypeOK
<1> QED BY <1>1, <1>2 DEF IInv, Goroutines, Quiet, Ended

LEMMA StartLayerIInv == IInv /\ StartLayer => IInv'
<1> SUFFICES ASSUME IInv, StartLayer PROVE IInv'
  OBVIOUS
<1> DEFINE new == layers[layer + 1] \cap Selected
<1>1. /\ run = "layers" /\ run' = run /\ Quiet /\ errCh = 0 /\ layer < Len(layers)
      /\ layer' = layer + 1
      /\ gor' = [i \in DOMAIN manifests |-> IF i \in new THEN FirstStep ELSE gor[i]]
      /\ UNCHANGED <<orderVars, inputVars, ctxDone, errCh, pendingSaves, stored, touched,
                     applied, tested>>
  BY DEF StartLayer
<1>2. /\ OrderIInv' /\ Selected' = Selected /\ (Accepted' <=> Accepted)
      /\ manifests' = manifests /\ layers' = layers /\ resolution' = resolution
      /\ opts' = opts
  BY <1>1, Frame
<1>3. /\ layers \in Seq(SUBSET DOMAIN manifests) /\ DOMAIN layers = 1..Len(layers)
      /\ Len(layers) \in Nat /\ layer \in 0..Len(layers)
      /\ layer + 1 \in DOMAIN layers
      /\ gor \in [DOMAIN manifests -> {"idle", "done", "failed", "lost"} \cup Active]
  BY <1>1 DEF IInv, TypeOK, OrderTypeOK
<1>4. new \subseteq DOMAIN manifests /\ FirstStep \in {"build", "apply"}
  BY <1>3 DEF FirstStep
<1>5. \A d \in 1..layer : layers[d] \cap new = {}
  BY <1>3 DEF IInv, OrderIInv, LayersDisjoint
<1>6. \A i \in new : gor[i] = "idle"
  BY <1>4, <1>5 DEF IInv, Barrier
<1>7. \A d \in 1..layer : \A i \in layers[d] \cap Selected : gor[i] = "done"
  BY <1>1, LayersFinished
<1>8. TypeOK'
  <2>1. layer' \in 0..Len(layers)
    BY <1>1, <1>3
  <2>2. gor' \in [DOMAIN manifests -> {"idle", "done", "failed", "lost"} \cup Active]
    BY <1>1, <1>3, <1>4 DEF Active
  <2> QED BY <1>1, <1>2, <2>1, <2>2, Zenon DEF IInv, TypeOK, OrderIInv, inputVars
<1>9. RunPhases'
  BY <1>1, <1>2 DEF IInv, RunPhases
<1>10. Barrier'
  <2>1. ASSUME NEW i \in DOMAIN manifests, gor'[i] # "idle"
        PROVE  i \in Selected /\ \E d \in 1..layer' : i \in layers[d]
    <3>1. CASE i \in new
      BY <1>1, <1>3, <3>1
    <3>2. CASE i \notin new
      <4>1. gor[i] # "idle"
        BY <1>1, <2>1, <3>2
      <4>2. PICK d \in 1..layer : i \in layers[d]
        BY <4>1 DEF IInv, Barrier
      <4>3. d \in 1..layer'
        BY <1>1, <1>3
      <4> QED BY <4>1, <4>2, <4>3 DEF IInv, Barrier
    <3> QED BY <3>1, <3>2
  <2>2. ASSUME NEW d \in 1..layer', NEW i \in layers[d] \cap Selected
        PROVE  gor'[i] # "idle" /\ (d \in 1..layer => gor'[i] = "done")
    <3>1. d \in 1..layer \/ d = layer + 1
      BY <1>1, <1>3
    <3>2. i \in DOMAIN manifests
      BY DEF Selected
    <3> QED BY <1>1, <1>4, <1>5, <1>7, <3>1, <3>2
  <2>3. 1..(layer' - 1) = 1..layer /\ 1..layer \subseteq 1..layer'
    BY <1>1, <1>3
  <2> QED BY <1>2, <2>1, <2>2, <2>3 DEF Barrier
<1>11. Goroutines'
  BY <1>1, <1>2, <1>4 DEF IInv, Goroutines, Ended
<1>12. Saves'
  <2>1. ASSUME NEW i \in DOMAIN manifests PROVE Progress(i)'
    <3>1. CASE i \in new
      <4>1. gor'[i] = FirstStep /\ i \notin applied
        BY <1>1, <1>6, <3>1 DEF IInv, Saves, Progress
      <4> QED BY <1>1, <1>2, <4>1 DEF Progress, FirstStep
    <3>2. CASE i \notin new
      BY <1>1, <1>2, <3>2 DEF IInv, Saves, Progress
    <3> QED BY <3>1, <3>2
  <2>2. opts.atomic /\ stored # {} => \A i \in Selected : gor'[i] = "done"
    BY <1>1, <1>6 DEF IInv, Saves, Selected
  <2>3. layer' > 0
    BY <1>1, <1>3
  <2> QED BY <1>1, <1>2, <2>1, <2>2, <2>3 DEF IInv, Saves
<1> QED BY <1>2, <1>8, <1>9, <1>10, <1>11, <1>12 DEF IInv

(***************************************************************************)
(* Steps of the goroutines.                                                *)
(***************************************************************************)

(* A goroutine that moves on stays where the barrier wants it. *)
LEMMA GoroutineFrame ==
    ASSUME IInv, NEW i \in DOMAIN manifests, gor[i] \in Active,
           NEW step \in {"done", "failed", "test", "save", "apply"}, Goto(i, step),
           UNCHANGED <<orderVars, inputVars, run, layer, ctxDone>>,
           errCh' \in Nat, step # "failed" => errCh' = errCh, step = "failed" => errCh' > 0
    PROVE  /\ OrderIInv' /\ RunPhases' /\ Barrier' /\ Goroutines'
           /\ run = "layers" /\ layer > 0 /\ Accepted /\ i \in Selected
           /\ Selected' = Selected /\ manifests' = manifests /\ opts' = opts
           /\ gor'[i] = step
           /\ \A j \in DOMAIN manifests : j # i => gor'[j] = gor[j]
           /\ gor' \in [DOMAIN manifests -> {"idle", "done", "failed", "lost"} \cup Active]
<1>1. /\ OrderIInv' /\ Selected' = Selected /\ (Accepted' <=> Accepted)
      /\ manifests' = manifests /\ layers' = layers /\ resolution' = resolution
      /\ opts' = opts
  BY Frame
<1>2. gor \in [DOMAIN manifests -> {"idle", "done", "failed", "lost"} \cup Active]
  BY DEF IInv, TypeOK
<1>3. /\ gor'[i] = step
      /\ \A j \in DOMAIN manifests : j # i => gor'[j] = gor[j]
      /\ gor' \in [DOMAIN manifests -> {"idle", "done", "failed", "lost"} \cup Active]
  BY <1>2 DEF Goto, Active
<1>4. gor[i] # "idle" /\ gor[i] # "done"
  BY DEF Active
<1>5. run = "layers" /\ i \in Selected /\ Accepted
  BY <1>4 DEF IInv, Goroutines, Barrier, RunPhases
<1>6. layer > 0
  <2>1. PICK d \in 1..layer : i \in layers[d]
    BY <1>4 DEF IInv, Barrier
  <2>2. layer \in Int
    BY DEF IInv, TypeOK, OrderTypeOK
  <2> QED BY <2>1, <2>2
<1>7. RunPhases'
  BY <1>1 DEF IInv, RunPhases
<1>8. Barrier'
  <2>1. \A j \in DOMAIN manifests : gor'[j] # "idle" => gor[j] # "idle"
    BY <1>3, <1>4
  <2>2. \A j \in DOMAIN manifests : gor[j] # "idle" => gor'[j] # "idle"
    BY <1>3
  <2>3. \A j \in DOMAIN manifests : gor[j] = "done" => gor'[j] = "done"
    BY <1>3, <1>4
  <2> QED BY <1>1, <2>1, <2>2, <2>3 DEF IInv, Barrier, Selected
<1>9. Goroutines'
  BY <1>1, <1>3, <1>5 DEF IInv, Goroutines, Ended
<1> QED BY <1>1, <1>3, <1>5, <1>6, <1>7, <1>8, <1>9

(* What a step of goroutine i has to show for the rest of the invariant.   *)
LEMMA GoroutineIInv ==
    ASSUME IInv, NEW i \in DOMAIN manifests, gor[i] \in Active,
           NEW step \in {"done", "failed", "test", "save", "apply"}, Goto(i, step),
           UNCHANGED <<orderVars, inputVars, run, layer, ctxDone>>,
           errCh' \in Nat, step # "failed" => errCh' = errCh, step = "failed" => errCh' > 0,
           touched' \in {touched, touched \cup {i}},
           applied' \in {applied, applied \cup {i}},
           tested' \in {tested, tested \cup {i}},
           stored' \in {stored, stored \cup {i}},
           pendingSaves' \in {pendingSaves, pendingSaves \cup {i}},
           i \in stored' \cup pendingSaves' => i \in applied',
           i \in stored' /\ ~opts.sync => i \in tested',
           opts.atomic => stored' = stored,
           ~opts.atomic => pendingSaves' = pendingSaves,
           Progress(i)'
    PROVE  IInv'
<1>1. /\ OrderIInv' /\ RunPhases' /\ Barrier' /\ Goroutines'
      /\ run = "layers" /\ layer > 0 /\ Accepted /\ i \in Selected
      /\ Selected' = Selected /\ manifests' = manifests /\ opts' = opts
      /\ gor'[i] = step
      /\ \A j \in DOMAIN manifests : j # i => gor'[j] = gor[j]
      /\ gor' \in [DOMAIN manifests -> {"idle", "done", "failed", "lost"} \cup Active]
  BY GoroutineFrame
<1>2. TypeOK'
  <2>1. /\ touched' \subseteq DOMAIN manifests /\ applied' \subseteq DOMAIN manifests
        /\ tested' \subseteq DOMAIN manifests /\ stored' \subseteq DOMAIN manifests
        /\ pendingSaves' \subseteq DOMAIN manifests
    BY DEF IInv, TypeOK
  <2>2. layers' = layers
    BY DEF orderVars
  <2> QED BY <1>1, <2>1, <2>2, Zenon DEF IInv, TypeOK, OrderIInv, inputVars
<1>3. ASSUME NEW j \in DOMAIN manifests PROVE Progress(j)'
  <2>1. CASE j # i
    <3>1. /\ gor'[j] = gor[j] /\ (j \in applied' <=> j \in applied)
          /\ (j \in tested' <=> j \in tested) /\ (j \in stored' <=> j \in stored)
          /\ (j \in pendingSaves' <=> j \in pendingSaves)
      BY <1>1, <2>1
    <3> QED BY <1>1, <3>1 DEF IInv, Saves, Progress
  <2> QED BY <2>1
<1>4. opts.atomic => stored = {}
  BY <1>1 DEF IInv, Saves, Active
<1>5. Saves'
  <2>1. layer' = layer /\ run' = run
    OBVIOUS
  <2>2. stored' \subseteq applied' /\ pendingSaves' \subseteq applied'
    BY DEF IInv, Saves
  <2>3. ~opts.sync => stored' \subseteq tested'
    BY DEF IInv, Saves
  <2>4. (~opts.atomic => pendingSaves' = {}) /\ (opts.atomic => stored' = {})
    BY <1>4 DEF IInv, Saves
  <2> QED BY <1>1, <1>3, <2>1, <2>2, <2>3, <2>4 DEF Saves
<1> QED BY <1>1, <1>2, <1>5 DEF IInv

LEMMA GoroutineStepIInv ==
    ASSUME IInv, NEW i \in DOMAIN manifests, GoroutineStep(i)
    PROVE  IInv'
<1>1. /\ UNCHANGED <<orderVars, inputVars, run, layer, ctxDone>>
      /\ manifests' = manifests /\ opts' = opts
  BY DEF GoroutineStep, BuildAndDiff, ApplyObjects, TestPasses, SaveState, BufferState,
         StepFails, orderVars, inputVars
<1>2. /\ gor \in [DOMAIN manifests -> {"idle", "done", "failed", "lost"} \cup Active]
      /\ errCh \in Nat
  BY DEF IInv, TypeOK
<1>3. Progress(i)
  BY DEF IInv, Saves
<1>4. gor[i] \in Active => Accepted
  BY DEF IInv, Goroutines, RunPhases
<1>5. CASE BuildAndDiff(i)
  <2>1. /\ gor[i] = "build" /\ (Goto(i, "apply") \/ Goto(i, "test"))
        /\ UNCHANGED <<errCh, pendingSaves, stored, touched, applied, tested>>
    BY <1>5 DEF BuildAndDiff
  <2>2. i \notin applied /\ i \notin stored /\ i \notin pendingSaves
    BY <1>3, <2>1 DEF Progress, IInv, Saves
  <2>3. ASSUME opts.sync PROVE Progress(i)'
    BY <1>1, <1>2, <2>1, <2>2, <2>3 DEF Progress, Goto
  <2>4. opts.sync
    BY <1>3, <2>1 DEF Progress
  <2> QED BY <1>1, <1>2, <2>1, <2>2, <2>3, <2>4, GoroutineIInv DEF Active
<1>6. CASE ApplyObjects(i)
  <2>1. /\ gor[i] = "apply" /\ Goto(i, IF opts.sync THEN "save" ELSE "test")
        /\ touched' = touched \cup {i} /\ applied' = applied \cup {i}
        /\ UNCHANGED <<errCh, pendingSaves, stored, tested>>
    BY <1>6 DEF ApplyObjects
  <2>2. i \notin stored
    BY <1>3, <2>1 DEF Progress, IInv, Saves
  <2>3. Progress(i)'
    BY <1>1, <1>2, <2>1 DEF Progress, Goto
  <2> QED BY <1>1, <1>2, <2>1, <2>2, <2>3, GoroutineIInv DEF Active
<1>7. CASE TestPasses(i)
  <2>1. /\ gor[i] = "test" /\ Goto(i, IF opts.sync THEN "done" ELSE "save")
        /\ tested' = tested \cup {i}
        /\ UNCHANGED <<errCh, pendingSaves, stored, touched, applied>>
    BY <1>7 DEF TestPasses
  <2>2. i \in stored \cup pendingSaves => i \in applied
    BY DEF IInv, Saves
  <2>3. Progress(i)'
    BY <1>1, <1>2, <1>3, <2>1 DEF Progress, Goto
  <2> QED BY <1>1, <1>2, <2>1, <2>2, <2>3, GoroutineIInv DEF Active
<1>8. CASE SaveState(i)
  <2>1. /\ gor[i] = "save" /\ ~opts.atomic /\ Goto(i, IF opts.sync THEN "test" ELSE "done")
        /\ stored' = IF manifests[i].name = NoName THEN stored ELSE stored \cup {i}
        /\ UNCHANGED <<errCh, pendingSaves, touched, applied, tested>>
    BY <1>8 DEF SaveState, AfterSave
  <2>2. i \in applied /\ (~opts.sync => i \in tested)
    BY <1>3, <2>1 DEF Progress
  <2>3. Progress(i)'
    BY <1>1, <1>2, <2>1, <2>2 DEF Progress, Goto
  <2> QED BY <1>1, <1>2, <2>1, <2>2, <2>3, GoroutineIInv DEF Active
<1>9. CASE BufferState(i)
  <2>1. /\ gor[i] = "save" /\ opts.atomic /\ Goto(i, IF opts.sync THEN "test" ELSE "done")
        /\ pendingSaves' = pendingSaves \cup {i}
        /\ UNCHANGED <<errCh, stored, touched, applied, tested>>
    BY <1>9 DEF BufferState, AfterSave
  <2>2. i \in applied /\ (~opts.sync => i \in tested) /\ opts.sync
    BY <1>3, <1>4, <2>1 DEF Progress, Active, Accepted
  <2>3. Progress(i)'
    BY <1>1, <1>2, <2>1, <2>2 DEF Progress, Goto
  <2> QED BY <1>1, <1>2, <2>1, <2>2, <2>3, GoroutineIInv DEF Active
<1>10. CASE StepFails(i)
  <2>1. /\ gor[i] \in Active /\ Goto(i, "failed") /\ errCh' = errCh + 1
        /\ touched' \in {touched, touched \cup {i}}
        /\ stored' \in {stored, stored \cup {i}}
        /\ stored' # stored => gor[i] = "save" /\ ~opts.atomic
        /\ UNCHANGED <<pendingSaves, applied, tested>>
    BY <1>10 DEF StepFails, CanFail, Active, AfterFailedSave
  <2>2. errCh' \in Nat /\ errCh' > 0
    BY <1>2, <2>1
  <2>3. Progress(i)'
    BY <1>1, <1>2, <2>1 DEF Progress, Goto
  <2>4. i \in stored' \cup pendingSaves' => i \in applied'
    BY <1>3, <2>1 DEF Progress, IInv, Saves
  <2>5. i \in stored' /\ ~opts.sync => i \in tested'
    BY <1>3, <2>1 DEF Progress, IInv, Saves
  <2> QED BY <1>1, <2>1, <2>2, <2>3, <2>4, <2>5, GoroutineIInv
<1> QED BY <1>5, <1>6, <1>7, <1>8, <1>9, <1>10 DEF GoroutineStep

(***************************************************************************)
(* The bulk save of --atomic, and the end of the process.                  *)
(***************************************************************************)
LEMMA BulkSaveIInv ==
    ASSUME IInv, NEW i \in DOMAIN manifests, SavePending(i) \/ SavePendingFails(i)
    PROVE  IInv'
<1>1. /\ run = "saving" /\ run' \in {"saving", "failed"} /\ i \in pendingSaves
      /\ stored' \in {stored, stored \cup {i}}
      /\ \/ stored' = stored \cup {i} /\ pendingSaves' = pendingSaves \ {i}
         \/ pendingSaves' = pendingSaves
      /\ UNCHANGED <<orderVars, inputVars, layer, ctxDone, gor, errCh, touched, applied, tested>>
  BY DEF SavePending, SavePendingFails, AfterFailedSave
<1>2. /\ OrderIInv' /\ Selected' = Selected /\ (Accepted' <=> Accepted)
      /\ manifests' = manifests /\ layers' = layers /\ resolution' = resolution
      /\ opts' = opts
  BY <1>1, Frame
<1>3. /\ stored' \cup pendingSaves' = stored \cup pendingSaves
      /\ pendingSaves' \subseteq pendingSaves /\ stored \subseteq stored'
      /\ stored' \subseteq DOMAIN manifests /\ pendingSaves' \subseteq DOMAIN manifests
  BY <1>1 DEF IInv, TypeOK
<1>4. opts.sync /\ opts.atomic /\ (\A j \in Selected : gor[j] = "done")
  BY <1>1 DEF IInv, RunPhases, Goroutines
<1>5. TypeOK'
  <2>1. run' \in {"checking", "resolving", "layers", "saving", "specTests"} \cup Ended
    BY <1>1 DEF Ended
  <2> QED BY <1>1, <1>2, <1>3, <2>1, Zenon DEF IInv, TypeOK, OrderIInv, inputVars
<1>6. RunPhases'
  BY <1>1, <1>2 DEF IInv, RunPhases
<1>7. Barrier'
  BY <1>1, <1>2 DEF IInv, Barrier
<1>8. Goroutines'
  BY <1>1, <1>2 DEF IInv, Goroutines, Ended
<1>9. Saves'
  <2>1. ASSUME NEW j \in DOMAIN manifests PROVE Progress(j)'
    BY <1>1, <1>2, <1>3, <1>4 DEF IInv, Saves, Progress
  <2>2. layer > 0
    BY <1>1 DEF IInv, Saves
  <2>3. stored' \subseteq applied' /\ pendingSaves' \subseteq applied'
    BY <1>1, <1>3 DEF IInv, Saves
  <2> QED BY <1>1, <1>2, <1>4, <2>1, <2>2, <2>3 DEF Saves
<1> QED BY <1>2, <1>5, <1>6, <1>7, <1>8, <1>9 DEF IInv

LEMMA KillIInv == IInv /\ Kill => IInv'
<1> SUFFICES ASSUME IInv, Kill PROVE IInv'
  OBVIOUS
<1>1. /\ run' = "killed"
      /\ gor' = [i \in DOMAIN manifests |-> IF gor[i] \in Active THEN "lost" ELSE gor[i]]
      /\ UNCHANGED <<orderVars, inputVars, layer, ctxDone,
                     errCh, pendingSaves, stored, touched, applied, tested>>
  BY DEF Kill
<1>2. /\ OrderIInv' /\ Selected' = Selected /\ (Accepted' <=> Accepted)
      /\ manifests' = manifests /\ layers' = layers /\ resolution' = resolution
      /\ opts' = opts
  BY <1>1, Frame
<1>3. /\ gor \in [DOMAIN manifests -> {"idle", "done", "failed", "lost"} \cup Active]
      /\ \A i \in DOMAIN manifests :
           /\ gor'[i] = gor[i] \/ (gor[i] \in Active /\ gor'[i] = "lost")
           /\ gor'[i] \notin Active
  <2>1. gor \in [DOMAIN manifests -> {"idle", "done", "failed", "lost"} \cup Active]
    BY DEF IInv, TypeOK
  <2>2. "lost" \notin Active
    BY DEF Active
  <2> QED BY <1>1, <2>1, <2>2
<1>4. TypeOK'
  <2>1. /\ run' \in {"checking", "resolving", "layers", "saving", "specTests"} \cup Ended
        /\ gor' \in [DOMAIN manifests -> {"idle", "done", "failed", "lost"} \cup Active]
    BY <1>1, <1>3 DEF Ended
  <2> QED BY <1>1, <1>2, <2>1, Zenon DEF IInv, TypeOK, OrderIInv, inputVars
<1>5. RunPhases'
  BY <1>1, <1>2 DEF IInv, RunPhases
<1>6. Barrier'
  BY <1>1, <1>2, <1>3 DEF IInv, Barrier, Active, Selected
<1>7. Goroutines'
  BY <1>1, <1>2, <1>3 DEF IInv, Goroutines, Ended, Active
<1>8. Saves'
  <2>1. ASSUME NEW i \in DOMAIN manifests PROVE Progress(i)'
    BY <1>1, <1>2, <1>3 DEF IInv, Saves, Progress
  <2>2. opts.atomic /\ stored # {} => \A i \in Selected : gor'[i] = "done"
    BY <1>3 DEF IInv, Saves, Active, Selected
  <2> QED BY <1>1, <1>2, <2>1, <2>2 DEF IInv, Saves
<1> QED BY <1>2, <1>4, <1>5, <1>6, <1>7, <1>8 DEF IInv

-----------------------------------------------------------------------------
(***************************************************************************)
(* The theorems.                                                           *)
(***************************************************************************)

(* Every step preserves the inductive invariant. *)
LEMMA StepIInv == IInv /\ [Next]_vars => IInv'
<1> SUFFICES ASSUME IInv, [Next]_vars PROVE IInv'
  OBVIOUS
<1>1. CASE UNCHANGED vars
  <2>1. /\ UNCHANGED <<orderVars, inputVars, run, layer, ctxDone, gor, errCh, pendingSaves>>
        /\ UNCHANGED <<stored, touched, applied, tested>>
    BY <1>1 DEF vars, orderVars, inputVars
  <2>2. /\ OrderIInv' /\ Selected' = Selected /\ (Accepted' <=> Accepted)
        /\ manifests' = manifests /\ layers' = layers /\ resolution' = resolution
        /\ opts' = opts
    BY <2>1, Frame
  <2>3. TypeOK'
    BY <2>1, <2>2, Zenon DEF IInv, TypeOK, OrderIInv, inputVars
  <2>4. RunPhases' /\ Barrier' /\ Goroutines' /\ Saves'
    BY <2>1, <2>2 DEF IInv, RunPhases, Barrier, Goroutines, Saves, Progress
  <2> QED BY <2>2, <2>3, <2>4 DEF IInv
<1>2. CASE RunnerStep
  BY <1>2, ControlStepIInv, ResolveStepIInv, StartLayerIInv, BulkSaveIInv
  DEF RunnerStep, ControlStep
<1>3. CASE \E i \in DOMAIN manifests : GoroutineStep(i)
  BY <1>3, GoroutineStepIInv
<1>4. CASE Interrupt
  BY <1>4, ControlStepIInv DEF ControlStep
<1>5. CASE Kill
  BY <1>5, KillIInv
<1> QED BY <1>1, <1>2, <1>3, <1>4, <1>5 DEF Next, Exited

(* The inductive invariant holds in every reachable state of a run. *)
THEOREM RunInvariant == Spec => []IInv
<1> QED BY InitIInv, StepIInv, PTL DEF Spec

(* Type correctness of the runner. *)
THEOREM TypeCorrect == Spec => []TypeOK
<1>1. IInv => TypeOK
  BY DEF IInv
<1> QED BY <1>1, RunInvariant, PTL

(* A manifest is started only after everything it depends on has finished, *)
(* and no later layer is started after a failure, for every manifest list  *)
(* and interleaving.                                                       *)
THEOREM OrderRespected == Spec => [](DependenciesFinished /\ NoLayerAfterFailure)
<1>1. IInv => DependenciesFinished /\ NoLayerAfterFailure
  BY IInvImplies
<1> QED BY <1>1, RunInvariant, PTL

(* The cluster is touched only for valid options, names and graphs, and    *)
(* state is written only as --atomic, apply and tests allow.               *)
THEOREM WritesJustified == Spec => []WritesAreJustified
<1>1. IInv => WritesAreJustified
  BY IInvImplies DEF WritesAreJustified
<1> QED BY <1>1, RunInvariant, PTL

(* A run that reports success has applied, tested and recorded all it had  *)
(* to, however its goroutines interleave.                                  *)
THEOREM SuccessComplete == Spec => []SuccessIsComplete
<1>1. IInv => SuccessIsComplete
  BY IInvImplies
<1> QED BY <1>1, RunInvariant, PTL

(* After Apply has returned, or the process is gone, nothing is written.   *)
THEOREM ReturnIsFinal == Spec => NoWriteAfterReturn
<1>1. ASSUME IInv, [Next]_vars, run \in Ended PROVE UNCHANGED <<touched, stored>>
  <2>1. run \notin {"checking", "resolving", "layers", "saving", "specTests"}
    BY <1>1 DEF Ended
  <2>2. \A i \in DOMAIN manifests : gor[i] \notin Active
    BY <1>1, <2>1 DEF IInv, Goroutines
  <2>3. CASE UNCHANGED vars
    BY <2>3 DEF vars
  <2>4. CASE RunnerStep
    BY <2>1, <2>4
    DEF RunnerStep, CheckApply, RejectSpec, ResolveLayers, LayersResolved, StartLayer,
        LayerFailed, LayersDone, SavesDone, SpecTestsPass, SpecTestsFail, SavePending,
        SavePendingFails
  <2>5. CASE \E i \in DOMAIN manifests : GoroutineStep(i)
    BY <2>2, <2>5
    DEF GoroutineStep, BuildAndDiff, ApplyObjects, TestPasses, SaveState, BufferState,
        StepFails, CanFail, Active
  <2>6. CASE Interrupt \/ Kill
    BY <1>1, <2>6 DEF Interrupt, Kill
  <2> QED BY <1>1, <2>3, <2>4, <2>5, <2>6 DEF Next, Exited
<1> QED BY <1>1, RunInvariant, PTL DEF Spec, NoWriteAfterReturn

(***************************************************************************)
(* Refinement.                                                             *)
(***************************************************************************)
Started == {i \in DOMAIN manifests : gor[i] # "idle"}
Finished == {i \in DOMAIN manifests : gor[i] = "done"}
Failed == {i \in DOMAIN manifests : gor[i] = "failed"}
WaitsFor == [i \in Selected |-> DependencyIdx(manifests, i) \cap Selected]

(* A step that neither starts nor ends a goroutine is invisible. *)
LEMMA DagStutter ==
    ASSUME UNCHANGED <<manifests, filter>>,
           Started' = Started, Finished' = Finished, Failed' = Failed
    PROVE  UNCHANGED Dag!dagVars
<1>1. WaitsFor' = WaitsFor
  BY DEF WaitsFor, Selected
<1> QED BY <1>1 DEF Dag!dagVars, Started, Finished, Failed, WaitsFor

(* Starting a layer starts its selected manifests in the abstract schedule *)
(* (none, if the tag filter skips the whole layer).                        *)
LEMMA StartLayerRefines ==
    ASSUME IInv, StartLayer
    PROVE  Dag!DagNext \/ UNCHANGED Dag!dagVars
<1> DEFINE new == layers[layer + 1] \cap Selected
<1>1. /\ run = "layers" /\ Quiet /\ errCh = 0 /\ layer < Len(layers)
      /\ gor' = [i \in DOMAIN manifests |-> IF i \in new THEN FirstStep ELSE gor[i]]
      /\ UNCHANGED <<orderVars, inputVars>> /\ UNCHANGED <<manifests, filter>>
  BY DEF StartLayer, orderVars, inputVars
<1>2. /\ layers \in Seq(SUBSET DOMAIN manifests) /\ DOMAIN layers = 1..Len(layers)
      /\ Len(layers) \in Nat /\ layer \in 0..Len(layers)
      /\ layer + 1 \in DOMAIN layers
  BY <1>1 DEF IInv, TypeOK, OrderTypeOK
<1>3. new \subseteq DOMAIN manifests /\ FirstStep \in {"build", "apply"}
  BY <1>2 DEF FirstStep
<1>4. \A d \in 1..layer : layers[d] \cap new = {}
  BY <1>2 DEF IInv, OrderIInv, LayersDisjoint
<1>5. \A i \in new : gor[i] = "idle"
  BY <1>3, <1>4 DEF IInv, Barrier
<1>6. \A d \in 1..layer : \A i \in layers[d] \cap Selected : gor[i] = "done"
  BY <1>1, LayersFinished
<1>7. /\ Started' = Started \cup new /\ Finished' = Finished /\ Failed' = Failed
      /\ Failed = {} /\ new \cap Started = {}
  BY <1>1, <1>3, <1>5 DEF Started, Finished, Failed, IInv, Goroutines
<1>8. ASSUME NEW i \in new PROVE WaitsFor[i] \subseteq Finished
  <2>1. ASSUME NEW j \in DependencyIdx(manifests, i), j \in Selected PROVE j \in Finished
    <3>1. PICK e \in 1..((layer + 1) - 1) : j \in layers[e]
      BY <1>2, <2>1 DEF IInv, OrderIInv, LayersRespectDependsOn
    <3>2. e \in 1..layer
      BY <1>2
    <3> QED BY <1>6, <2>1, <3>1, <3>2 DEF Finished, Selected
  <2> QED BY <2>1 DEF WaitsFor
<1>9. WaitsFor' = WaitsFor /\ DOMAIN WaitsFor = Selected
  BY <1>1 DEF WaitsFor, Selected
<1>10. CASE new = {}
  <2>1. Started' = Started
    BY <1>7, <1>10
  <2> QED BY <1>1, <1>7, <2>1, DagStutter
<1>11. CASE new # {}
  <2>1. PICK S : S = new
    OBVIOUS
  <2>2. S \subseteq Selected \ Started
    BY <1>7, <2>1
  <2>3. Dag!Start(S)
    <3> HIDE DEF new
    <3> QED
      BY <1>7, <1>8, <1>9, <1>11, <2>1, <2>2
      DEF Dag!Start, Dag!Jobs, Started, Finished, Failed, WaitsFor
  <2>4. S \in SUBSET Dag!Jobs
    BY <1>9, <2>2 DEF Dag!Jobs, WaitsFor
  <2> QED BY <2>3, <2>4 DEF Dag!DagNext
<1> QED BY <1>10, <1>11

(* A goroutine step is invisible unless the goroutine ends. *)
LEMMA GoroutineRefines ==
    ASSUME IInv, NEW i \in DOMAIN manifests, GoroutineStep(i)
    PROVE  Dag!DagNext \/ UNCHANGED Dag!dagVars
<1>1. /\ UNCHANGED <<manifests, filter>>
      /\ gor[i] \in Active
      /\ \E step \in {"done", "failed", "test", "save", "apply"} : Goto(i, step)
  BY DEF GoroutineStep, BuildAndDiff, ApplyObjects, TestPasses, SaveState, BufferState,
         StepFails, CanFail, AfterSave, Active, orderVars, inputVars
<1>2. PICK step \in {"done", "failed", "test", "save", "apply"} : Goto(i, step)
  BY <1>1
<1>3. /\ gor \in [DOMAIN manifests -> {"idle", "done", "failed", "lost"} \cup Active]
      /\ gor[i] \notin {"idle", "done", "failed"}
      /\ gor'[i] = step /\ \A j \in DOMAIN manifests : j # i => gor'[j] = gor[j]
  BY <1>1, <1>2 DEF IInv, TypeOK, Goto, Active
<1>4. i \in Selected /\ i \in Started /\ i \notin Finished /\ i \notin Failed
  BY <1>3 DEF IInv, Barrier, Started, Finished, Failed
<1>5. Started' = Started
  BY <1>1, <1>3 DEF Started
<1>6. Finished' = IF step = "done" THEN Finished \cup {i} ELSE Finished
  BY <1>1, <1>3 DEF Finished
<1>7. Failed' = IF step = "failed" THEN Failed \cup {i} ELSE Failed
  BY <1>1, <1>3 DEF Failed
<1>8. WaitsFor' = WaitsFor /\ DOMAIN WaitsFor = Selected
  BY <1>1 DEF WaitsFor, Selected
<1>9. CASE step = "done"
  <2>1. Dag!Finish(i)
    BY <1>4, <1>5, <1>6, <1>7, <1>8, <1>9 DEF Dag!Finish, Started, Finished, Failed, WaitsFor
  <2> QED BY <1>4, <1>8, <2>1 DEF Dag!DagNext, Dag!Jobs, WaitsFor
<1>10. CASE step = "failed"
  <2>1. Dag!Fail(i)
    BY <1>4, <1>5, <1>6, <1>7, <1>8, <1>10 DEF Dag!Fail, Started, Finished, Failed, WaitsFor
  <2> QED BY <1>4, <1>8, <2>1 DEF Dag!DagNext, Dag!Jobs, WaitsFor
<1>11. CASE step \in {"test", "save", "apply"}
  <2>1. Finished' = Finished /\ Failed' = Failed
    BY <1>6, <1>7, <1>11
  <2> QED BY <1>1, <1>5, <2>1, DagStutter
<1> QED BY <1>9, <1>10, <1>11

(* The layered runner implements the schedule that dependsOn promises, for *)
(* every manifest list, filter, option and interleaving, failures, signals *)
(* and kills included.                                                     *)
THEOREM Refinement == Spec => ImplementsDagSchedule
<1>1. Init => Dag!DagInit
  BY DEF Init, Dag!DagInit
<1>2. IInv /\ [Next]_vars => [Dag!DagNext]_(Dag!dagVars)
  <2> SUFFICES ASSUME IInv, [Next]_vars PROVE Dag!DagNext \/ UNCHANGED Dag!dagVars
    OBVIOUS
  <2>1. CASE UNCHANGED <<manifests, filter, gor>>
    BY <2>1, DagStutter DEF Started, Finished, Failed
  <2>2. CASE StartLayer
    BY <2>2, StartLayerRefines
  <2>3. CASE \E i \in DOMAIN manifests : GoroutineStep(i)
    BY <2>3, GoroutineRefines
  <2>4. CASE Kill
    <3>1. /\ UNCHANGED <<manifests, filter>>
          /\ gor' = [i \in DOMAIN manifests |-> IF gor[i] \in Active THEN "lost" ELSE gor[i]]
      BY <2>4 DEF Kill, orderVars, inputVars
    <3>2. Started' = Started /\ Finished' = Finished /\ Failed' = Failed
      BY <3>1 DEF Started, Finished, Failed, Active
    <3> QED BY <3>1, <3>2, DagStutter
  <2>5. CASE RunnerStep /\ ~StartLayer
    <3>1. UNCHANGED <<manifests, filter, gor>>
      BY <2>5
      DEF RunnerStep, CheckApply, RejectSpec, ResolveLayers, LayersResolved,
          LayerFailed, LayersDone, SavesDone, SpecTestsPass, SpecTestsFail, SavePending,
          SavePendingFails, Resolve, ResolveSequential, BuildInDegree, NextLayer,
          FinishLayering, orderVars, inputVars, goVars
    <3> QED BY <2>1, <3>1
  <2>6. CASE Interrupt \/ UNCHANGED vars
    BY <2>1, <2>6 DEF Interrupt, vars, orderVars, inputVars, goVars
  <2> QED BY <2>2, <2>3, <2>4, <2>5, <2>6 DEF Next, Exited
<1> QED BY <1>1, <1>2, RunInvariant, PTL DEF Spec, ImplementsDagSchedule, Dag!DagSpec
=============================================================================
