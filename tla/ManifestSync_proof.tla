------------------------ MODULE ManifestSync_proof ------------------------
(***************************************************************************)
(* Proofs about ManifestSync and Reports: for any number of runs, edits    *)
(* and outside changes, whatever fails, the state ConfigMaps tell the      *)
(* truth, success means deployed and recorded, and the reports foretell    *)
(* what a run does: nothing else, and all of it.                           *)
(*                                                                         *)
(* None of it is inductive alone.  That the entries a run is about to save *)
(* are true follows from where the manifest is in its run (RunProgress)    *)
(* and, for the entries it skips, from StateTruthful itself.               *)
(***************************************************************************)
EXTENDS Reports, TLAPS

(* Assumptions of the theorems.  Two manifests do not render the same      *)
(* object; an object is rendered with one apiVersion (with two of them     *)
(* --prune deletes a declared object, see the run prune_version).          *)
OwnObjects == \A m, n \in Manifests : m # n => Renders[m] \cap Renders[n] = {}
OneVersion == \A v, w \in Versions : v = w

(* Keys, entries and history concern rendered objects. *)
RenderedOnly ==
    /\ \A m \in Manifests : desired[m] \in Declarations(m)
    /\ \A m \in Manifests, k \in Key : k[1] \notin Renders[m] =>
         stored[m][k] = None /\ old[m][k] = None /\ entries[m][k] = None /\ k \notin todo[m]
    /\ \A p \in unsaved : p[2] \in Renders[p[1]]
    /\ \A o \in installed : \E m \in Manifests : o \in Renders[m]

(* Which manifests take part in a run, and which wait for the bulk save. *)
Control ==
    /\ outcome # "running" => \A m \in Manifests : ~Busy(m)
    /\ outcome = "running" =>
         /\ \A m \in Manifests : pc[m] # "idle" => m \in declared
         /\ pending # {} => opts.kind = "sync" /\ opts.atomic
         /\ \A m \in pending : pc[m] \in {"testing", "done", "failed"}

(* Until the save the state is the one that was read; what is still to be  *)
(* processed differs from it.                                              *)
WorkList(m) ==
    /\ pc[m] = "working" \/ m \in pending => old[m] = stored[m]
    /\ pc[m] \in {"testing", "done"} => todo[m] = {}
    /\ pc[m] = "working" => \A k \in todo[m] :
         IF opts.kind = "sync" THEN k \in ComputeDiff(m, old[m]) /\ entries[m][k] = old[m][k]
                               ELSE Current(m)[k] # None

(* A key that needs no more work has the entry that will be saved, and its *)
(* object is as the entry says.                                            *)
Handled(m, k) ==
    IF Current(m)[k] # None
    THEN /\ entries[m][k] = Current(m)[k]
         /\ m \notin excused \/ (opts.kind = "apply" /\ k[1] \notin drifted)
              => live[k[1]] = Current(m)[k]
    ELSE IF opts.kind = "sync" /\ ~opts.prune THEN entries[m][k] = old[m][k]
    ELSE /\ entries[m][k] = None
         /\ opts.kind = "sync" /\ old[m][k] # None /\ m \notin excused => live[k[1]] = None

(* A saved key. *)
Recorded(m, k) ==
    /\ Current(m)[k] # None => stored[m][k] = Current(m)[k]
    /\ Current(m)[k] = None /\ (opts.kind = "apply" \/ opts.prune) => stored[m][k] = None

ManifestProgress(m) ==
    /\ WorkList(m)
    /\ opts.kind # "destroy" /\ pc[m] \in {"working", "testing", "done"} =>
         /\ \A k \in Key \ todo[m] : Handled(m, k)
         /\ pc[m] # "working" /\ m \notin pending => \A k \in Key : Recorded(m, k)

RunProgress == outcome = "running" => \A m \in Manifests : ManifestProgress(m)

(* A live object installed by tazuna has an entry, or was written by a run *)
(* that did not reach its save and is still declared.                      *)
Tracked ==
    \A m \in Manifests \ excused : \A o \in Renders[m] \cap installed :
        live[o] # None =>
            \/ \E v \in Versions : stored[m][<<o, v>>] # None
            \/ <<m, o>> \in unsaved /\ desired[m][o] # None /\ m \in declared

SyncIInv ==
    /\ TypeOK /\ RenderedOnly /\ Control /\ RunProgress
    /\ StateTruthful /\ Tracked /\ SuccessMeansDeployed /\ SuccessRecordsDeclaration

-----------------------------------------------------------------------------
(***************************************************************************)
(* Types.                                                                  *)
(***************************************************************************)

LEMMA CurrentTyped ==
    ASSUME TypeOK, NEW m \in Manifests
    PROVE  Current(m) \in Entries
<1>1. ASSUME NEW k \in Key, desired[m][k[1]] # None, desired[m][k[1]].version = k[2]
      PROVE  desired[m][k[1]].content \in Contents
  BY <1>1 DEF TypeOK, Rendering, Key
<1> QED BY <1>1 DEF Current, CurrentEntries, Entries

LEMMA InitTyped == Init => TypeOK
BY ConstantsAssumption DEF Init, TypeOK, NoEntries, Entries

(* What a step that writes an object does to the types. *)
LEMMA WriteTyped ==
    ASSUME TypeOK, NEW m \in Manifests, NEW o \in Objects, NEW content \in Contents \cup {None},
           Write(m, o, content)
    PROVE  /\ live' \in [Objects -> Contents \cup {None}]
           /\ unsaved' \subseteq Manifests \X Objects
           /\ installed' \subseteq Objects
           /\ drifted' \subseteq Objects
BY DEF TypeOK, Write

LEMMA UpdateTyped ==
    ASSUME TypeOK, NEW m \in Manifests, Update(m)
    PROVE  stored' \in [Manifests -> Entries] /\ installed' \subseteq Objects
BY DEF TypeOK, Update

(* Replacing one entry of a manifest. *)
LEMMA EntryTyped ==
    ASSUME TypeOK, NEW m \in Manifests, NEW k \in Key, NEW c \in Contents \cup {None}
    PROVE  [entries EXCEPT ![m][k] = c] \in [Manifests -> Entries]
BY DEF TypeOK, Entries

LEMMA ManifestStepTyped ==
    ASSUME TypeOK, NEW m \in Manifests, ManifestStep(m)
    PROVE  TypeOK'
<1> USE DEF TypeOK
<1>1. CASE Begin(m)
  <2>1. Keys(Current(m)) \subseteq Key /\ ComputeDiff(m, stored[m]) \subseteq Key
    BY DEF Keys, ComputeDiff
  <2>2. NoEntries \in Entries
    BY DEF NoEntries, Entries
  <2> QED BY <1>1, <2>1, <2>2 DEF Begin, worldVars, histVars
<1>2. CASE BeginFails(m) \/ NotReady(m) \/ TestsEnd(m) \/ DestroyDone(m) \/ BufferState(m)
  BY <1>2 DEF BeginFails, NotReady, TestsEnd, DestroyDone, BufferState, AfterSave,
              worldVars, histVars
<1>3. ASSUME NEW k \in todo[m],
             ApplyEntry(m, k) \/ PruneEntry(m, k) \/ KeepRemoved(m, k)
               \/ DestroyEntry(m, k) \/ EntryFails(m, k)
      PROVE  TypeOK'
  <2>1. k \in Key /\ k[1] \in Objects
    BY DEF Key
  <2>2. Current(m)[k] \in Contents \cup {None}
    BY <2>1, CurrentTyped DEF Entries
  <2>3. todo' = [todo EXCEPT ![m] = @ \ {k}] => todo' \in [Manifests -> SUBSET Key]
    OBVIOUS
  <2>4. CASE ApplyEntry(m, k)
    <3>1. entries' \in [Manifests -> Entries]
      BY <2>1, <2>2, <2>4, EntryTyped DEF ApplyEntry
    <3> QED BY <2>1, <2>2, <2>3, <2>4, <3>1, WriteTyped DEF ApplyEntry, worldVars
  <2>5. CASE PruneEntry(m, k)
    <3>1. entries' \in [Manifests -> Entries]
      BY <2>1, <2>5, EntryTyped DEF PruneEntry
    <3> QED BY <2>1, <2>3, <2>5, <3>1, WriteTyped DEF PruneEntry, worldVars
  <2>6. CASE KeepRemoved(m, k)
    BY <2>3, <2>6 DEF KeepRemoved, worldVars, histVars
  <2>7. CASE DestroyEntry(m, k)
    BY <2>1, <2>3, <2>7, WriteTyped DEF DestroyEntry, worldVars
  <2>8. CASE EntryFails(m, k)
    <3>1. PartialEffects(m, k) \subseteq Contents \cup {None}
      BY <2>2 DEF PartialEffects
    <3>2. /\ live' \in [Objects -> Contents \cup {None}]
          /\ unsaved' \subseteq Manifests \X Objects
          /\ installed' \subseteq Objects /\ drifted' \subseteq Objects
          /\ excused' \subseteq Manifests
      BY <2>1, <2>8, <3>1, WriteTyped DEF EntryFails, histVars
    <3> QED BY <2>8, <3>2 DEF EntryFails, worldVars
  <2> QED BY <1>3, <2>4, <2>5, <2>6, <2>7, <2>8
<1>4. CASE SaveState(m) \/ SaveFails(m) \/ SavePending(m) \/ SavePendingFails(m)
  <2>1. stored' \in [Manifests -> Entries] /\ installed' \subseteq Objects
    BY <1>4, UpdateTyped DEF SaveState, SaveFails, SavePending, SavePendingFails, StoreEntries
  <2>2. unsaved' \subseteq Manifests \X Objects /\ excused' \subseteq Manifests
    BY <1>4 DEF SaveState, SaveFails, SavePending, SavePendingFails, StoreEntries
  <2> QED BY <1>4, <2>1, <2>2
        DEF SaveState, SaveFails, SavePending, SavePendingFails, AfterSave, worldVars
<1> QED BY <1>1, <1>2, <1>3, <1>4 DEF ManifestStep

LEMMA NextTyped == TypeOK /\ [Next]_vars => TypeOK'
<1> SUFFICES ASSUME TypeOK, [Next]_vars PROVE TypeOK'
  OBVIOUS
<1>1. ASSUME NEW o \in Kinds, StartRun(o)
      PROVE  TypeOK'
  <2>1. o \in [kind : RunKinds, prune : BOOLEAN, atomic : BOOLEAN] /\ NoEntries \in Entries
    BY ConstantsAssumption DEF NoEntries, Entries
  <2> QED BY <1>1, <2>1 DEF TypeOK, StartRun
<1>2. ASSUME NEW m \in Manifests, ManifestStep(m)
      PROVE  TypeOK'
  BY <1>2, ManifestStepTyped
<1>3. CASE RunSucceeds \/ RunFails \/ Crash
  BY <1>3 DEF TypeOK, RunSucceeds, RunFails, Crash, worldVars, histVars
<1>4. CASE Environment
  <2>1. ASSUME NEW m \in Manifests, RemoveManifest(m)
        PROVE  TypeOK'
    <3>1. excused' \subseteq Manifests
      BY <2>1 DEF TypeOK, RemoveManifest
    <3>2. /\ declared' = declared \ {m} /\ edits' = edits + 1 /\ outcome' = "none"
          /\ UNCHANGED <<desired, runs, drifts, live, stored, opts, pc, old,
                         todo, entries, pending, drifted, unsaved, installed>>
      BY <2>1 DEF RemoveManifest
    <3> QED BY <3>1, <3>2 DEF TypeOK
  <2>2. ASSUME NEW m \in Manifests, NEW d \in Declarations(m), Edit(m, d)
        PROVE  TypeOK'
    <3>1. excused' \subseteq Manifests
      BY <2>2 DEF TypeOK, Edit
    <3>2. desired' \in [Manifests -> [Objects -> Rendering \cup {None}]]
      BY <2>2 DEF TypeOK, Edit, Declarations
    <3>3. /\ edits' = edits + 1 /\ outcome' = "none"
          /\ UNCHANGED <<declared, runs, drifts, live, stored, opts, pc, old,
                         todo, entries, pending, drifted, unsaved, installed>>
      BY <2>2 DEF Edit
    <3> QED BY <3>1, <3>2, <3>3 DEF TypeOK
  <2>3. ASSUME NEW o \in Objects, NEW content \in Contents \cup {None}, Drift(o, content)
        PROVE  TypeOK'
    BY <2>3 DEF TypeOK, Drift
  <2> QED BY <1>4, <2>1, <2>2, <2>3 DEF Environment
<1>5. CASE UNCHANGED vars
  BY <1>5 DEF TypeOK, vars
<1> QED BY <1>1, <1>2, <1>3, <1>4, <1>5 DEF Next, Rest

(* The variables of ManifestSync keep their types. *)
THEOREM SyncTypeCorrect == Spec => []TypeOK
BY InitTyped, NextTyped, PTL DEF Spec

-----------------------------------------------------------------------------
(***************************************************************************)
(* What the steps of a run leave alone.                                    *)
(***************************************************************************)

LEMMA SameRendering ==
    ASSUME UNCHANGED desired, NEW m
    PROVE  UNCHANGED Current(m)
BY DEF Current

(* A goroutine touches only the variables of its manifest, the cluster and *)
(* the history.                                                            *)
LEMMA StepOfOneManifest ==
    ASSUME TypeOK, NEW m \in Manifests, ManifestStep(m)
    PROVE  /\ UNCHANGED <<declared, desired, runs, edits, drifts, opts>>
           /\ \A n \in Manifests \ {m} :
                /\ pc'[n] = pc[n] /\ old'[n] = old[n] /\ todo'[n] = todo[n]
                /\ entries'[n] = entries[n] /\ stored'[n] = stored[n]
                /\ n \in pending' <=> n \in pending
                /\ n \in excused' <=> n \in excused
<1> USE DEF TypeOK
<1>1. CASE Begin(m) \/ BeginFails(m) \/ NotReady(m) \/ TestsEnd(m) \/ DestroyDone(m) \/ BufferState(m)
  BY <1>1 DEF Begin, BeginFails, NotReady, TestsEnd, DestroyDone, BufferState, worldVars, histVars
<1>2. ASSUME NEW k \in todo[m],
             ApplyEntry(m, k) \/ PruneEntry(m, k) \/ KeepRemoved(m, k)
               \/ DestroyEntry(m, k) \/ EntryFails(m, k)
      PROVE  /\ UNCHANGED <<declared, desired, runs, edits, drifts, opts, stored, old, pending>>
             /\ \A n \in Manifests \ {m} :
                  /\ pc'[n] = pc[n] /\ todo'[n] = todo[n] /\ entries'[n] = entries[n]
                  /\ n \in excused' <=> n \in excused
  BY <1>2 DEF ApplyEntry, PruneEntry, KeepRemoved, DestroyEntry, EntryFails, worldVars, histVars
<1>3. CASE SaveState(m) \/ SaveFails(m) \/ SavePending(m) \/ SavePendingFails(m)
  BY <1>3 DEF SaveState, SaveFails, SavePending, SavePendingFails, StoreEntries, Update, worldVars
<1> QED BY <1>1, <1>2, <1>3 DEF ManifestStep

(* What a goroutine writes is an object of its manifest. *)
OwnWrites(m) ==
    /\ \A o \in Objects \ Renders[m] :
         /\ live'[o] = live[o]
         /\ o \in installed' <=> o \in installed
         /\ o \in drifted' <=> o \in drifted
    /\ \A p \in unsaved' : p \in unsaved \/ (p[1] = m /\ p[2] \in Renders[m])
    /\ \A p \in unsaved : p[1] # m => p \in unsaved'

LEMMA WritesOwnObject ==
    ASSUME TypeOK, RenderedOnly, NEW m \in Manifests, ManifestStep(m)
    PROVE  OwnWrites(m)
<1> USE DEF TypeOK, OwnWrites
<1>1. CASE Begin(m) \/ BeginFails(m) \/ NotReady(m) \/ TestsEnd(m) \/ DestroyDone(m) \/ BufferState(m)
  BY <1>1 DEF Begin, BeginFails, NotReady, TestsEnd, DestroyDone, BufferState, histVars
<1>2. ASSUME NEW k \in todo[m],
             ApplyEntry(m, k) \/ PruneEntry(m, k) \/ KeepRemoved(m, k)
               \/ DestroyEntry(m, k) \/ EntryFails(m, k)
      PROVE  \/ UNCHANGED <<live, unsaved, installed, drifted>>
             \/ \E content : Write(m, k[1], content)
  BY <1>2 DEF ApplyEntry, PruneEntry, KeepRemoved, DestroyEntry, EntryFails, histVars
<1>3. ASSUME NEW k \in todo[m], NEW content, Write(m, k[1], content)
      PROVE  OwnWrites(m)
  <2>1. k \in Key /\ k[1] \in Objects /\ k[1] \in Renders[m]
    BY DEF Key, RenderedOnly
  <2> QED BY <1>3, <2>1 DEF Write
<1>4. CASE SaveState(m) \/ SaveFails(m) \/ SavePending(m) \/ SavePendingFails(m)
  BY <1>4 DEF SaveState, SaveFails, SavePending, SavePendingFails, StoreEntries, Update
<1> QED BY <1>1, <1>2, <1>3, <1>4 DEF ManifestStep

(* Only rendered objects have a current entry. *)
LEMMA CurrentRendered ==
    ASSUME TypeOK, RenderedOnly, NEW m \in Manifests, NEW k \in Key, k[1] \notin Renders[m]
    PROVE  Current(m)[k] = None
<1>1. desired[m] \in Declarations(m) /\ k[1] \in Objects
  BY DEF RenderedOnly, Key
<1>2. desired[m][k[1]] = None
  BY <1>1 DEF Declarations
<1> QED BY <1>2 DEF Current, CurrentEntries

LEMMA InitRenderedOnly == Init => RenderedOnly
BY DEF Init, RenderedOnly, NoEntries

LEMMA ManifestStepKeepsRendered ==
    ASSUME TypeOK, RenderedOnly, NEW m \in Manifests, ManifestStep(m)
    PROVE  RenderedOnly'
<1>1. \A p \in unsaved' : p[2] \in Renders[p[1]]
  BY WritesOwnObject DEF RenderedOnly, OwnWrites
<1>2. \A o \in installed' : \E n \in Manifests : o \in Renders[n]
  BY WritesOwnObject, ManifestStepTyped DEF RenderedOnly, OwnWrites, TypeOK
<1>3. ASSUME NEW k \in Key, k[1] \notin Renders[m]
      PROVE  stored'[m][k] = None /\ old'[m][k] = None /\ entries'[m][k] = None /\ k \notin todo'[m]
  <2>1. /\ stored[m][k] = None /\ old[m][k] = None /\ entries[m][k] = None /\ k \notin todo[m]
        /\ Current(m)[k] = None
    BY <1>3, CurrentRendered DEF RenderedOnly
  <2>2. CASE Begin(m)
    <3>1. k \notin ComputeDiff(m, stored[m]) /\ k \notin Keys(Current(m)) /\ NoEntries[k] = None
      BY <2>1 DEF ComputeDiff, Keys, NoEntries
    <3> QED BY <2>1, <2>2, <3>1 DEF Begin, TypeOK
  <2>3. CASE BeginFails(m) \/ NotReady(m) \/ TestsEnd(m) \/ DestroyDone(m) \/ BufferState(m)
    BY <2>1, <2>3 DEF BeginFails, NotReady, TestsEnd, DestroyDone, BufferState
  <2>4. ASSUME NEW j \in todo[m],
               ApplyEntry(m, j) \/ PruneEntry(m, j) \/ KeepRemoved(m, j)
                 \/ DestroyEntry(m, j) \/ EntryFails(m, j)
        PROVE  stored'[m][k] = None /\ old'[m][k] = None /\ entries'[m][k] = None /\ k \notin todo'[m]
    <3>1. j # k /\ j \in Key
      BY <2>1 DEF TypeOK
    <3>2. UNCHANGED <<stored, old>>
      BY <2>4 DEF ApplyEntry, PruneEntry, KeepRemoved, DestroyEntry, EntryFails
    <3>3. k \notin todo'[m]
      BY <2>1, <2>4 DEF ApplyEntry, PruneEntry, KeepRemoved, DestroyEntry, EntryFails, TypeOK
    <3>4. \/ entries' = entries
          \/ \E c : entries' = [entries EXCEPT ![m][j] = c]
      BY <2>4 DEF ApplyEntry, PruneEntry, KeepRemoved, DestroyEntry, EntryFails
    <3>5. entries'[m][k] = None
      BY <2>1, <3>1, <3>4 DEF TypeOK, Entries
    <3> QED BY <2>1, <3>2, <3>3, <3>5
  <2>5. CASE SaveState(m) \/ SaveFails(m) \/ SavePending(m) \/ SavePendingFails(m)
    BY <2>1, <2>5 DEF SaveState, SaveFails, SavePending, SavePendingFails, StoreEntries, Update, TypeOK
  <2> QED BY <2>2, <2>3, <2>4, <2>5 DEF ManifestStep
<1>4. ASSUME NEW n \in Manifests, NEW k \in Key, k[1] \notin Renders[n]
      PROVE  stored'[n][k] = None /\ old'[n][k] = None /\ entries'[n][k] = None /\ k \notin todo'[n]
  BY <1>3, <1>4, StepOfOneManifest DEF RenderedOnly
<1>5. \A n \in Manifests : desired'[n] \in Declarations(n)
  BY StepOfOneManifest DEF RenderedOnly
<1> QED BY <1>1, <1>2, <1>4, <1>5 DEF RenderedOnly

LEMMA NextKeepsRendered == TypeOK /\ RenderedOnly /\ [Next]_vars => RenderedOnly'
<1> SUFFICES ASSUME TypeOK, RenderedOnly, [Next]_vars PROVE RenderedOnly'
  OBVIOUS
<1>1. ASSUME NEW o \in Kinds, StartRun(o)
      PROVE  RenderedOnly'
  BY <1>1 DEF RenderedOnly, StartRun, NoEntries
<1>2. ASSUME NEW m \in Manifests, ManifestStep(m)
      PROVE  RenderedOnly'
  BY <1>2, ManifestStepKeepsRendered
<1>3. CASE RunSucceeds \/ RunFails \/ Crash
  BY <1>3 DEF RenderedOnly, RunSucceeds, RunFails, Crash, worldVars, histVars
<1>4. CASE Environment
  <2>1. ASSUME NEW m \in Manifests, RemoveManifest(m)
        PROVE  RenderedOnly'
    BY <2>1 DEF RenderedOnly, RemoveManifest
  <2>2. ASSUME NEW m \in Manifests, NEW d \in Declarations(m), Edit(m, d)
        PROVE  RenderedOnly'
    <3>1. \A n \in Manifests : desired'[n] \in Declarations(n)
      BY <2>2 DEF RenderedOnly, Edit, TypeOK
    <3>2. UNCHANGED <<stored, old, todo, entries, unsaved, installed>>
      BY <2>2 DEF Edit
    <3> QED BY <3>1, <3>2 DEF RenderedOnly
  <2>3. ASSUME NEW o \in Objects, NEW content \in Contents \cup {None}, Drift(o, content)
        PROVE  RenderedOnly'
    BY <2>3 DEF RenderedOnly, Drift
  <2> QED BY <1>4, <2>1, <2>2, <2>3 DEF Environment
<1>5. CASE UNCHANGED vars
  BY <1>5 DEF RenderedOnly, vars
<1> QED BY <1>1, <1>2, <1>3, <1>4, <1>5 DEF Next, Rest

-----------------------------------------------------------------------------
(***************************************************************************)
(* Control.                                                                *)
(***************************************************************************)

LEMMA InitControl == Init => Control
BY DEF Init, Control, Busy

(* Steps of a goroutine are steps of a run. *)
LEMMA ManifestStepRuns ==
    ASSUME TypeOK, Control, NEW m \in Manifests, ManifestStep(m)
    PROVE  outcome = "running" /\ m \in declared
<1>1. pc[m] \in {"working", "testing"} => outcome = "running" /\ m \in declared
  BY DEF Control, Busy
<1>2. CASE Begin(m) \/ BeginFails(m)
  BY <1>2 DEF Begin, BeginFails, MayStart
<1>3. CASE \E k \in todo[m] :
             ApplyEntry(m, k) \/ PruneEntry(m, k) \/ KeepRemoved(m, k)
               \/ DestroyEntry(m, k) \/ EntryFails(m, k)
  BY <1>1, <1>3 DEF ApplyEntry, PruneEntry, KeepRemoved, DestroyEntry, EntryFails, Processing
<1>4. CASE NotReady(m) \/ SaveState(m) \/ SaveFails(m) \/ BufferState(m) \/ TestsEnd(m) \/ DestroyDone(m)
  BY <1>1, <1>4 DEF NotReady, SaveState, SaveFails, BufferState, TestsEnd, DestroyDone, Processed
<1>5. CASE SavePending(m) \/ SavePendingFails(m)
  BY <1>5 DEF SavePending, SavePendingFails, AllDone, Control
<1> QED BY <1>2, <1>3, <1>4, <1>5 DEF ManifestStep

LEMMA ManifestStepKeepsControl ==
    ASSUME TypeOK, Control, NEW m \in Manifests, ManifestStep(m)
    PROVE  Control'
<1>1. outcome = "running" /\ m \in declared
  BY ManifestStepRuns
<1>2. CASE SavePendingFails(m)
  <2>1. \A n \in Manifests : ~Busy(n)
    BY <1>1, <1>2 DEF SavePendingFails, AllDone, Control, Busy, TypeOK
  <2>2. UNCHANGED pc /\ outcome' = "failed"
    BY <1>2 DEF SavePendingFails
  <2> QED BY <2>1, <2>2 DEF Control, Busy
<1>3. CASE ~SavePendingFails(m)
  <2>1. outcome' = outcome /\ UNCHANGED <<declared, opts>>
    BY <1>3, StepOfOneManifest
        DEF ManifestStep, Begin, BeginFails, ApplyEntry, PruneEntry, KeepRemoved, DestroyEntry,
            EntryFails, NotReady, SaveState, SaveFails, BufferState, TestsEnd, DestroyDone, SavePending
  <2>2. m \in pending' => \/ m \in pending /\ (pc'[m] = pc[m] \/ pc'[m] \in {"testing", "done", "failed"})
                          \/ opts.kind = "sync" /\ opts.atomic /\ pc'[m] = "testing"
    <3>1. CASE Begin(m) \/ BeginFails(m)
      BY <3>1, <1>1 DEF Begin, BeginFails, MayStart, Control, TypeOK
    <3>2. CASE NotReady(m) \/ SaveState(m) \/ SaveFails(m) \/ BufferState(m) \/ TestsEnd(m) \/ DestroyDone(m)
      BY <3>2 DEF NotReady, SaveState, SaveFails, BufferState, TestsEnd, DestroyDone, AfterSave, TypeOK
    <3>3. CASE \E k \in todo[m] :
                 ApplyEntry(m, k) \/ PruneEntry(m, k) \/ KeepRemoved(m, k)
                   \/ DestroyEntry(m, k) \/ EntryFails(m, k)
      BY <3>3 DEF ApplyEntry, PruneEntry, KeepRemoved, DestroyEntry, EntryFails, TypeOK
    <3>4. CASE SavePending(m)
      BY <3>4 DEF SavePending
    <3> QED BY <1>3, <3>1, <3>2, <3>3, <3>4 DEF ManifestStep
  <2>3. \A n \in Manifests \ {m} : pc'[n] = pc[n] /\ (n \in pending' <=> n \in pending)
    BY StepOfOneManifest
  <2>4. \A n \in pending' : n \in Manifests
    BY ManifestStepTyped DEF TypeOK
  <2> QED BY <1>1, <2>1, <2>2, <2>3, <2>4 DEF Control
<1> QED BY <1>2, <1>3

LEMMA NextKeepsControl == TypeOK /\ Control /\ [Next]_vars => Control'
<1> SUFFICES ASSUME TypeOK, Control, [Next]_vars PROVE Control'
  OBVIOUS
<1>1. ASSUME NEW o \in Kinds, StartRun(o)
      PROVE  Control'
  BY <1>1 DEF Control, StartRun, TypeOK
<1>2. ASSUME NEW m \in Manifests, ManifestStep(m)
      PROVE  Control'
  BY <1>2, ManifestStepKeepsControl
<1>3. CASE RunSucceeds
  BY <1>3 DEF Control, RunSucceeds, AllDone, Busy, TypeOK
<1>4. CASE RunFails
  BY <1>4 DEF Control, RunFails, Busy
<1>5. CASE Crash
  BY <1>5 DEF Control, Crash, Busy
<1>6. CASE Environment
  BY <1>6 DEF Environment, RemoveManifest, Edit, Drift, Control, Busy
<1>7. CASE UNCHANGED vars
  BY <1>7 DEF vars, Control, Busy
<1> QED BY <1>1, <1>2, <1>3, <1>4, <1>5, <1>6, <1>7 DEF Next, Rest

-----------------------------------------------------------------------------
(***************************************************************************)
(* Keys and objects.                                                       *)
(***************************************************************************)

LEMMA SameKey ==
    ASSUME OneVersion, NEW k \in Key, NEW j \in Key, k[1] = j[1]
    PROVE  k = j
BY DEF OneVersion, Key

LEMMA CurrentOfObject ==
    ASSUME OneVersion, TypeOK, NEW m \in Manifests, NEW k \in Key
    PROVE  /\ Current(m)[k] # None <=> desired[m][k[1]] # None
           /\ Current(m)[k] # None => Current(m)[k] = desired[m][k[1]].content
<1>1. k[1] \in Objects /\ k[2] \in Versions
  BY DEF Key
<1>2. ASSUME desired[m][k[1]] # None
      PROVE  desired[m][k[1]].version = k[2] /\ desired[m][k[1]].content # None
  <2>1. desired[m][k[1]] \in Rendering
    BY <1>1, <1>2 DEF TypeOK
  <2> QED BY <1>1, <2>1, ConstantsAssumption DEF Rendering, OneVersion
<1> QED BY <1>2 DEF Current, CurrentEntries

(* A rendered object has its key. *)
LEMMA KeyOfRendered ==
    ASSUME TypeOK, NEW m \in Manifests, NEW o \in Rendered(m)
    PROVE  \E k \in Key : k[1] = o /\ Current(m)[k] # None /\ Current(m)[k] = desired[m][o].content
<1>1. o \in Objects /\ desired[m][o] # None
  BY DEF Rendered
<1>2. desired[m][o].version \in Versions /\ desired[m][o].content # None
  BY <1>1, ConstantsAssumption DEF TypeOK, Rendering
<1> DEFINE k == <<o, desired[m][o].version>>
<1>3. k \in Key /\ k[1] = o /\ k[2] = desired[m][o].version
  BY <1>1, <1>2 DEF Key
<1>4. Current(m)[k] = desired[m][o].content
  BY <1>1, <1>3 DEF Current, CurrentEntries
<1> QED BY <1>2, <1>3, <1>4

LEMMA OneRenderer ==
    ASSUME OwnObjects, NEW m \in Manifests, NEW n \in Manifests, m # n, NEW o \in Renders[n]
    PROVE  o \in Objects /\ o \notin Renders[m]
BY ConstantsAssumption DEF OwnObjects

-----------------------------------------------------------------------------
(***************************************************************************)
(* Progress of a run.                                                      *)
(***************************************************************************)

LEMMA InitProgress == Init => RunProgress
BY DEF Init, RunProgress

(* The other manifests do not notice a step. *)
LEMMA OthersProgress ==
    ASSUME OwnObjects, TypeOK, RenderedOnly, NEW m \in Manifests, ManifestStep(m),
           NEW n \in Manifests \ {m}, ManifestProgress(n)
    PROVE  ManifestProgress(n)'
<1>1. /\ UNCHANGED <<desired, opts>>
      /\ pc'[n] = pc[n] /\ old'[n] = old[n] /\ todo'[n] = todo[n]
      /\ entries'[n] = entries[n] /\ stored'[n] = stored[n]
      /\ n \in pending' <=> n \in pending
      /\ n \in excused' <=> n \in excused
  BY StepOfOneManifest
<1>2. UNCHANGED Current(n)
  BY <1>1, SameRendering
<1>3. WorkList(n)'
  <2>1. WorkList(n)
    BY DEF ManifestProgress
  <2> QED BY <1>1, <1>2, <2>1 DEF WorkList, ComputeDiff
<1>4. ASSUME NEW k \in Key, Handled(n, k)
      PROVE  Handled(n, k)'
  <2>1. CASE k[1] \in Renders[n]
    <3>1. k[1] \in Objects \ Renders[m]
      BY <2>1, OneRenderer
    <3>2. live'[k[1]] = live[k[1]] /\ (k[1] \in drifted' <=> k[1] \in drifted)
      BY <3>1, WritesOwnObject DEF OwnWrites
    <3> QED BY <1>1, <1>2, <1>4, <3>2 DEF Handled
  <2>2. CASE k[1] \notin Renders[n]
    <3>1. Current(n)[k] = None /\ old[n][k] = None
      BY <2>2, CurrentRendered DEF RenderedOnly
    <3> QED BY <1>1, <1>2, <1>4, <3>1 DEF Handled
  <2> QED BY <2>1, <2>2
<1>5. ASSUME NEW k \in Key, Recorded(n, k)
      PROVE  Recorded(n, k)'
  BY <1>1, <1>2, <1>5 DEF Recorded
<1> QED BY <1>1, <1>3, <1>4, <1>5 DEF ManifestProgress

LEMMA BeginProgress ==
    ASSUME TypeOK, Control, StateTruthful, NEW m \in Manifests, Begin(m)
    PROVE  ManifestProgress(m)'
<1>1. /\ outcome = "running" /\ pc[m] = "idle" /\ m \notin pending
      /\ UNCHANGED <<desired, opts, stored, live, excused, drifted, pending>>
      /\ old'[m] = stored[m]
  BY DEF Begin, MayStart, Control, worldVars, histVars, TypeOK
<1>2. UNCHANGED Current(m)
  BY <1>1, SameRendering
<1>3. CASE opts.kind = "sync"
  <2>1. /\ todo'[m] = ComputeDiff(m, stored[m]) /\ entries'[m] = stored[m]
        /\ pc'[m] \in {"testing", "working"} /\ (pc'[m] = "testing" <=> todo'[m] = {})
    BY <1>3 DEF Begin, TypeOK
  <2>2. WorkList(m)'
    <3>1. ComputeDiff(m, old[m])' = todo'[m]
      BY <1>1, <1>2, <2>1 DEF ComputeDiff
    <3>2. opts'.kind = "sync"
      BY <1>1, <1>3
    <3> QED BY <1>1, <2>1, <3>1, <3>2 DEF WorkList
  <2>3. ASSUME NEW k \in Key \ todo'[m]
        PROVE  Handled(m, k)' /\ Recorded(m, k)'
    <3>1. Current(m)[k] = stored[m][k]
      BY <2>1 DEF ComputeDiff
    <3>2. m \notin excused /\ stored[m][k] # None => live[k[1]] = stored[m][k]
      BY <3>1 DEF StateTruthful
    <3> QED BY <1>1, <1>2, <1>3, <2>1, <3>1, <3>2 DEF Handled, Recorded
  <2> QED BY <1>1, <2>1, <2>2, <2>3 DEF ManifestProgress
<1>4. CASE opts.kind # "sync"
  <2>1. /\ todo'[m] = Keys(Current(m)) /\ entries'[m] = NoEntries /\ pc'[m] = "working"
    BY <1>4 DEF Begin, TypeOK
  <2>2. WorkList(m)'
    BY <1>1, <1>2, <1>4, <2>1 DEF WorkList, Keys
  <2>3. ASSUME NEW k \in Key \ todo'[m]
        PROVE  Handled(m, k)'
    BY <1>1, <1>2, <1>4, <2>1 DEF Handled, Keys, NoEntries
  <2> QED BY <1>1, <2>1, <2>2, <2>3 DEF ManifestProgress
<1> QED BY <1>3, <1>4

(* Processing one key does not undo another. *)
LEMMA EntryProgress ==
    ASSUME OneVersion, TypeOK, Control, NEW m \in Manifests, ManifestProgress(m), NEW k \in todo[m],
           ApplyEntry(m, k) \/ PruneEntry(m, k) \/ KeepRemoved(m, k)
             \/ DestroyEntry(m, k) \/ EntryFails(m, k)
    PROVE  ManifestProgress(m)'
<1>1. /\ pc[m] = "working" /\ m \notin pending /\ k \in Key
      /\ UNCHANGED <<desired, opts, stored, old, pending>>
  BY DEF Processing, ApplyEntry, PruneEntry, KeepRemoved, DestroyEntry, EntryFails,
         worldVars, Control, Busy, TypeOK
<1>2. UNCHANGED Current(m)
  BY <1>1, SameRendering
<1>3. WorkList(m) /\ (opts.kind # "destroy" => \A j \in Key \ todo[m] : Handled(m, j))
  BY <1>1 DEF ManifestProgress
<1>4. CASE EntryFails(m, k)
  <2>1. pc'[m] = "failed"
    BY <1>4 DEF EntryFails, TypeOK
  <2> QED BY <1>1, <2>1 DEF ManifestProgress, WorkList
<1>5. CASE ~EntryFails(m, k)
  <2>1. pc'[m] = "working" /\ todo'[m] = todo[m] \ {k}
    BY <1>1, <1>5 DEF ApplyEntry, PruneEntry, KeepRemoved, DestroyEntry, TypeOK
  <2>2. \A j \in Key \ {k} : entries'[m][j] = entries[m][j]
    BY <1>5 DEF ApplyEntry, PruneEntry, KeepRemoved, DestroyEntry, TypeOK, Entries
  <2>3. WorkList(m)'
    BY <1>1, <1>2, <1>3, <2>1, <2>2 DEF WorkList, ComputeDiff, TypeOK
  <2>4. ASSUME opts.kind # "destroy", NEW j \in Key \ todo'[m]
        PROVE  Handled(m, j)'
    <3>1. ~DestroyEntry(m, k) /\ UNCHANGED excused
      BY <1>5, <2>4 DEF ApplyEntry, PruneEntry, KeepRemoved, DestroyEntry, histVars
    <3>2. CASE j # k
      <4>1. Handled(m, j) /\ j[1] # k[1] /\ j[1] \in Objects
        BY <1>1, <1>3, <2>1, <2>4, <3>2, SameKey DEF Key
      <4>2. live'[j[1]] = live[j[1]] /\ (j[1] \in drifted' <=> j[1] \in drifted)
        BY <1>5, <3>1, <4>1 DEF ApplyEntry, PruneEntry, KeepRemoved, Write, histVars, TypeOK
      <4> QED BY <1>1, <1>2, <2>2, <3>1, <3>2, <4>1, <4>2 DEF Handled
    <3>3. CASE j = k /\ ApplyEntry(m, k)
      <4>1. Current(m)[k] # None /\ entries'[m][k] = Current(m)[k] /\ live'[k[1]] = Current(m)[k]
        BY <1>1, <3>3 DEF ApplyEntry, Write, TypeOK, Entries, Key
      <4> QED BY <1>1, <1>2, <3>3, <4>1 DEF Handled
    <3>4. CASE j = k /\ PruneEntry(m, k)
      <4>1. /\ opts.kind = "sync" /\ opts.prune /\ Current(m)[k] = None
            /\ entries'[m][k] = None /\ live'[k[1]] = None
        BY <1>1, <3>4 DEF PruneEntry, Write, TypeOK, Entries, Key
      <4> QED BY <1>1, <1>2, <3>4, <4>1 DEF Handled
    <3>5. CASE j = k /\ KeepRemoved(m, k)
      <4>1. /\ opts.kind = "sync" /\ ~opts.prune /\ Current(m)[k] = None
            /\ UNCHANGED entries
        BY <3>5 DEF KeepRemoved
      <4>2. entries[m][k] = old[m][k]
        BY <1>1, <1>3, <4>1 DEF WorkList
      <4> QED BY <1>1, <1>2, <3>5, <4>1, <4>2 DEF Handled
    <3> QED BY <1>5, <3>1, <3>2, <3>3, <3>4, <3>5
  <2> QED BY <1>1, <2>1, <2>3, <2>4 DEF ManifestProgress
<1> QED BY <1>4, <1>5

(* Saving keeps what was handled, also when it makes the state right. *)
LEMMA SaveProgress ==
    ASSUME OneVersion, TypeOK, Control, NEW m \in Manifests, ManifestProgress(m),
           opts.kind # "destroy", todo[m] = {}, pc[m] \in {"working", "done"},
           StoreEntries(m), m \notin pending', pc'[m] \in {"testing", "done"},
           UNCHANGED <<desired, opts, live, old, todo, entries, drifted>>
    PROVE  ManifestProgress(m)'
<1>1. stored'[m] = entries[m]
  BY DEF StoreEntries, Update, TypeOK
<1>2. UNCHANGED Current(m)
  BY SameRendering
<1>3. ASSUME NEW k \in Key
      PROVE  Handled(m, k)' /\ Recorded(m, k)'
  <2>1. Handled(m, k)
    BY DEF ManifestProgress
  <2>2. Recorded(m, k)'
    BY <1>1, <1>2, <2>1, TypeOK DEF Handled, Recorded, TypeOK, RunKinds
  <2>3. m \in excused' \/ m \notin excused \/ (opts.kind = "apply" /\ Rendered(m) \cap drifted = {})
    BY DEF StoreEntries
  <2>4. Current(m)[k] # None => k[1] \in Rendered(m)
    BY CurrentOfObject DEF Rendered, Key
  <2>5. Handled(m, k)'
    BY <1>2, <2>1, <2>3, <2>4 DEF Handled
  <2> QED BY <2>2, <2>5
<1>4. WorkList(m)'
  BY DEF WorkList
<1> QED BY <1>3, <1>4 DEF ManifestProgress

LEMMA ManifestStepKeepsProgress ==
    ASSUME OneVersion, OwnObjects, TypeOK, RenderedOnly, Control, RunProgress, StateTruthful,
           NEW m \in Manifests, ManifestStep(m)
    PROVE  RunProgress'
<1>1. outcome = "running" /\ ManifestProgress(m)
  BY ManifestStepRuns DEF RunProgress
<1>2. \A n \in Manifests \ {m} : ManifestProgress(n)'
  BY <1>1, OthersProgress DEF RunProgress
<1>3. CASE SavePendingFails(m)
  BY <1>3 DEF SavePendingFails, RunProgress
<1>4. CASE ~SavePendingFails(m)
  <2> SUFFICES ManifestProgress(m)'
    BY <1>2 DEF RunProgress
  <2>1. CASE Begin(m)
    BY <2>1, BeginProgress
  <2>2. CASE BeginFails(m) \/ NotReady(m) \/ SaveFails(m)
    <3>1. pc'[m] = "failed" /\ m \notin pending /\ UNCHANGED pending
      BY <1>1, <2>2 DEF BeginFails, NotReady, SaveFails, MayStart, Processed, Control, TypeOK
    <3> QED BY <3>1 DEF ManifestProgress, WorkList
  <2>3. CASE \E k \in todo[m] :
               ApplyEntry(m, k) \/ PruneEntry(m, k) \/ KeepRemoved(m, k)
                 \/ DestroyEntry(m, k) \/ EntryFails(m, k)
    BY <1>1, <2>3, EntryProgress
  <2>4. CASE TestsEnd(m) \/ DestroyDone(m) \/ BufferState(m)
    <3>1. /\ UNCHANGED <<desired, live, stored, opts, old, todo, entries, excused, drifted>>
          /\ pc[m] \in {"working", "testing"} /\ pc'[m] \in {"testing", "done", "failed"}
          /\ pc[m] = "working" => todo[m] = {} /\ (opts.kind = "destroy" \/ m \in pending')
          /\ m \in pending => m \in pending'
          /\ m \in pending' => m \in pending \/ pc[m] = "working"
      BY <2>4 DEF TestsEnd, DestroyDone, BufferState, Processed, AfterSave, worldVars, histVars, TypeOK
    <3>2. UNCHANGED Current(m)
      BY <3>1, SameRendering
    <3>3. WorkList(m)'
      BY <1>1, <3>1 DEF ManifestProgress, WorkList
    <3>4. ASSUME NEW k \in Key, Handled(m, k)
          PROVE  Handled(m, k)'
      BY <3>1, <3>2, <3>4 DEF Handled
    <3>5. ASSUME NEW k \in Key, Recorded(m, k)
          PROVE  Recorded(m, k)'
      BY <3>1, <3>2, <3>5 DEF Recorded
    <3> QED BY <1>1, <3>1, <3>3, <3>4, <3>5 DEF ManifestProgress
  <2>5. CASE SaveState(m)
    <3>1. /\ opts.kind # "destroy" /\ todo[m] = {} /\ pc[m] = "working"
          /\ StoreEntries(m) /\ pc'[m] \in {"testing", "done"}
          /\ UNCHANGED <<desired, opts, live, old, todo, entries, drifted, pending>>
      BY <2>5 DEF SaveState, Processed, AfterSave, worldVars, TypeOK
    <3>2. m \notin pending'
      BY <1>1, <3>1 DEF Control
    <3> QED BY <1>1, <3>1, <3>2, SaveProgress
  <2>6. CASE SavePending(m)
    <3>1. /\ m \in pending /\ m \notin pending' /\ StoreEntries(m) /\ pc[m] = "done" /\ pc'[m] = "done"
          /\ UNCHANGED <<desired, opts, live, old, todo, entries, drifted>>
      BY <2>6, ManifestStepRuns DEF SavePending, AllDone, worldVars
    <3>2. opts.kind # "destroy" /\ todo[m] = {}
      BY <1>1, <3>1 DEF Control, ManifestProgress, WorkList
    <3> QED BY <1>1, <3>1, <3>2, SaveProgress
  <2> QED BY <1>4, <2>1, <2>2, <2>3, <2>4, <2>5, <2>6 DEF ManifestStep
<1> QED BY <1>3, <1>4

LEMMA NextKeepsProgress ==
    ASSUME OneVersion, OwnObjects, TypeOK, RenderedOnly, Control, RunProgress, StateTruthful,
           [Next]_vars
    PROVE  RunProgress'
<1>1. ASSUME NEW o \in Kinds, StartRun(o)
      PROVE  RunProgress'
  BY <1>1 DEF StartRun, RunProgress, ManifestProgress, WorkList
<1>2. ASSUME NEW m \in Manifests, ManifestStep(m)
      PROVE  RunProgress'
  BY <1>2, ManifestStepKeepsProgress
<1>3. CASE RunSucceeds \/ RunFails \/ Crash
  BY <1>3 DEF RunSucceeds, RunFails, Crash, RunProgress
<1>4. ASSUME NEW m \in Manifests, NEW d, RemoveManifest(m) \/ Edit(m, d)
      PROVE  RunProgress'
  BY <1>4 DEF RemoveManifest, Edit, RunProgress
<1>5. ASSUME NEW o \in Objects, NEW content, Drift(o, content), outcome = "running",
             NEW m \in Manifests
      PROVE  ManifestProgress(m)'
  <2>1. /\ UNCHANGED <<desired, stored, opts, pc, old, todo, entries, pending>>
        /\ drifted' = drifted \cup {o} /\ excused' = excused \cup {n \in Manifests : o \in Renders[n]}
        /\ \A p \in Objects \ {o} : live'[p] = live[p]
    BY <1>5 DEF Drift, TypeOK
  <2>2. UNCHANGED Current(m) /\ ManifestProgress(m)
    BY <1>5, <2>1, SameRendering DEF RunProgress
  <2>3. WorkList(m)'
    BY <2>1, <2>2 DEF ManifestProgress, WorkList, ComputeDiff
  <2>4. ASSUME NEW k \in Key, Handled(m, k)
        PROVE  Handled(m, k)'
    <3>1. Current(m)[k] # None \/ old[m][k] # None => k[1] \in Renders[m]
      BY CurrentRendered DEF RenderedOnly
    <3>2. k[1] \in Objects
      BY DEF Key
    <3>3. CASE k[1] = o
      BY <2>1, <2>2, <2>4, <3>1, <3>3 DEF Handled
    <3>4. CASE k[1] # o
      BY <2>1, <2>2, <2>4, <3>2, <3>4 DEF Handled
    <3> QED BY <3>3, <3>4
  <2>5. ASSUME NEW k \in Key, Recorded(m, k)
        PROVE  Recorded(m, k)'
    BY <2>1, <2>2, <2>5 DEF Recorded
  <2> QED BY <2>1, <2>2, <2>3, <2>4, <2>5 DEF ManifestProgress
<1>6. ASSUME NEW o \in Objects, NEW content, Drift(o, content)
      PROVE  RunProgress'
  BY <1>5, <1>6 DEF RunProgress, Drift
<1>7. CASE UNCHANGED vars
  <2>1. ASSUME NEW m \in Manifests, ManifestProgress(m)
        PROVE  ManifestProgress(m)'
    <3>1. UNCHANGED Current(m)
      BY <1>7, SameRendering DEF vars
    <3> QED BY <1>7, <2>1, <3>1
            DEF vars, ManifestProgress, WorkList, ComputeDiff, Handled, Recorded
  <2> QED BY <1>7, <2>1 DEF vars, RunProgress
<1> QED BY <1>1, <1>2, <1>3, <1>4, <1>6, <1>7 DEF Next, Rest, Environment

-----------------------------------------------------------------------------
(***************************************************************************)
(* The state tells the truth, and what was installed stays tracked.  Both  *)
(* are about one manifest at a time.                                       *)
(***************************************************************************)

TruthfulKey(m, k) ==
    stored[m][k] # None /\ (<<m, k[1]>> \in unsaved => stored[m][k] = Current(m)[k])
        => live[k[1]] = stored[m][k]

TrackedObject(m, o) ==
    o \in installed /\ live[o] # None =>
        \/ \E v \in Versions : stored[m][<<o, v>>] # None
        \/ <<m, o>> \in unsaved /\ desired[m][o] # None /\ m \in declared

Known(m) ==
    m \notin excused => /\ \A k \in Key : TruthfulKey(m, k)
                       /\ \A o \in Renders[m] : TrackedObject(m, o)

LEMMA KnownIsTruthfulAndTracked ==
    (\A m \in Manifests : Known(m)) <=> StateTruthful /\ Tracked
BY DEF Known, TruthfulKey, TrackedObject, StateTruthful, Tracked

LEMMA InitKnown == Init => StateTruthful /\ Tracked
BY DEF Init, StateTruthful, Tracked, NoEntries

(* A manifest about which nothing has changed. *)
LEMMA UntouchedKnown ==
    ASSUME TypeOK, RenderedOnly, NEW m \in Manifests, Known(m),
           stored'[m] = stored[m], Current(m)' = Current(m), m \in excused => m \in excused',
           desired'[m] = desired[m], m \in declared => m \in declared',
           \A o \in Renders[m] : /\ live'[o] = live[o]
                                 /\ o \in installed' => o \in installed
                                 /\ <<m, o>> \in unsaved' <=> <<m, o>> \in unsaved
    PROVE  Known(m)'
<1> SUFFICES ASSUME m \notin excused, m \notin excused'
             PROVE  /\ \A k \in Key : TruthfulKey(m, k)'
                    /\ \A o \in Renders[m] : TrackedObject(m, o)'
  BY DEF Known
<1>1. ASSUME NEW k \in Key
      PROVE  TruthfulKey(m, k)'
  <2>1. k[1] \in Renders[m] \/ stored[m][k] = None
    BY DEF RenderedOnly
  <2>2. TruthfulKey(m, k)
    BY DEF Known
  <2> QED BY <2>1, <2>2 DEF TruthfulKey
<1>2. ASSUME NEW o \in Renders[m]
      PROVE  TrackedObject(m, o)'
  <2>1. TrackedObject(m, o)
    BY DEF Known
  <2> QED BY <2>1 DEF TrackedObject
<1> QED BY <1>1, <1>2

LEMMA OthersKnown ==
    ASSUME OwnObjects, TypeOK, RenderedOnly, NEW m \in Manifests, ManifestStep(m),
           NEW n \in Manifests \ {m}, Known(n)
    PROVE  Known(n)'
<1>1. /\ UNCHANGED <<declared, desired>>
      /\ stored'[n] = stored[n] /\ (n \in excused' <=> n \in excused)
  BY StepOfOneManifest
<1>2. UNCHANGED Current(n)
  BY <1>1, SameRendering
<1>3. ASSUME NEW o \in Renders[n]
      PROVE  /\ live'[o] = live[o] /\ (o \in installed' => o \in installed)
             /\ <<n, o>> \in unsaved' <=> <<n, o>> \in unsaved
  BY OneRenderer, WritesOwnObject DEF OwnWrites
<1> QED BY <1>1, <1>2, <1>3, UntouchedKnown

(* Processing a key of manifest m. *)
LEMMA EntryKnown ==
    ASSUME OneVersion, TypeOK, RenderedOnly, Control, RunProgress, NEW m \in Manifests, Known(m),
           NEW k \in todo[m],
           ApplyEntry(m, k) \/ PruneEntry(m, k) \/ KeepRemoved(m, k)
             \/ DestroyEntry(m, k) \/ EntryFails(m, k)
    PROVE  Known(m)'
<1>1. /\ pc[m] = "working" /\ k \in Key /\ k[1] \in Objects
      /\ UNCHANGED <<declared, desired, stored>>
  BY DEF Processing, ApplyEntry, PruneEntry, KeepRemoved, DestroyEntry, EntryFails,
         worldVars, TypeOK, Key
<1>2. UNCHANGED Current(m)
  BY <1>1, SameRendering
<1>3. outcome = "running" /\ m \in declared
  BY <1>1 DEF Control, Busy
<1>4. WorkList(m) /\ old[m] = stored[m]
  BY <1>1, <1>3 DEF RunProgress, ManifestProgress, WorkList
<1>5. \/ UNCHANGED <<live, unsaved, excused, installed>>
      \/ m \in excused'
      \/ \E content : /\ Write(m, k[1], content) /\ UNCHANGED excused
                      /\ content = Current(m)[k] \/ (content = None /\ k \in ComputeDiff(m, old[m])
                                                     /\ k[1] \in Immutable)
  <2>1. CASE ApplyEntry(m, k) \/ PruneEntry(m, k)
    BY <2>1 DEF ApplyEntry, PruneEntry
  <2>2. CASE KeepRemoved(m, k) \/ DestroyEntry(m, k)
    BY <2>2 DEF KeepRemoved, DestroyEntry, histVars
  <2>3. CASE EntryFails(m, k)
    <3>1. CASE UNCHANGED <<live, histVars>>
      BY <3>1 DEF histVars
    <3>2. CASE opts.kind = "destroy" \/ (opts.kind = "apply" /\ k[1] \in Immutable)
      BY <2>3, <3>2 DEF EntryFails, histVars
    <3>3. ASSUME ~(opts.kind = "destroy" \/ (opts.kind = "apply" /\ k[1] \in Immutable)),
                 NEW content \in PartialEffects(m, k), Write(m, k[1], content), UNCHANGED excused
          PROVE  content = Current(m)[k] \/ (content = None /\ k \in ComputeDiff(m, old[m])
                                             /\ k[1] \in Immutable)
      <4>1. k[1] \in Immutable => opts.kind = "sync"
        BY <3>3 DEF TypeOK, RunKinds
      <4>2. opts.kind = "sync" => k \in ComputeDiff(m, old[m])
        BY <1>1, <1>4 DEF WorkList
      <4> QED BY <3>3, <4>1, <4>2 DEF PartialEffects
    <3> QED BY <2>3, <3>1, <3>2, <3>3 DEF EntryFails
  <2> QED BY <2>1, <2>2, <2>3
<1>6. CASE UNCHANGED <<live, unsaved, excused, installed>>
  BY <1>1, <1>2, <1>6, UntouchedKnown
<1>7. CASE m \in excused'
  BY <1>7 DEF Known
<1>8. ASSUME NEW content, Write(m, k[1], content), UNCHANGED excused,
             content = Current(m)[k] \/ (content = None /\ k \in ComputeDiff(m, old[m])
                                         /\ k[1] \in Immutable),
             m \notin excused
      PROVE  /\ \A j \in Key : TruthfulKey(m, j)'
             /\ \A o \in Renders[m] : TrackedObject(m, o)'
  <2>1. /\ live' = [live EXCEPT ![k[1]] = content] /\ live'[k[1]] = content
        /\ \A o \in Objects : <<m, o>> \in unsaved' <=> <<m, o>> \in unsaved \/ o = k[1]
        /\ \A o \in Objects \ {k[1]} : o \in installed' <=> o \in installed
    BY <1>1, <1>8 DEF Write, TypeOK
  <2>2. ASSUME NEW j \in Key
        PROVE  TruthfulKey(m, j)'
    <3>1. CASE j # k
      <4>1. j[1] # k[1] /\ j[1] \in Objects /\ TruthfulKey(m, j)
        BY <1>1, <1>8, <3>1, SameKey DEF Key, Known
      <4> QED BY <1>1, <1>2, <2>1, <4>1 DEF TruthfulKey, TypeOK
    <3>2. CASE j = k
      <4> SUFFICES ASSUME stored[m][k] # None, stored[m][k] = Current(m)[k]
                   PROVE  content = stored[m][k]
        BY <1>1, <1>2, <2>1, <3>2 DEF TruthfulKey
      <4>1. k[1] \in Renders[m]
        BY <1>1 DEF RenderedOnly
      <4>2. k \in ComputeDiff(m, old[m]) => m \in Genesis
        BY <1>4 DEF ComputeDiff
      <4>3. m \in Genesis => k[1] \notin Immutable
        BY <4>1, ConstantsAssumption
      <4> QED BY <1>8, <4>2, <4>3
    <3> QED BY <3>1, <3>2
  <2>3. ASSUME NEW o \in Renders[m]
        PROVE  TrackedObject(m, o)'
    <3>1. o \in Objects
      BY ConstantsAssumption
    <3>2. CASE o # k[1]
      <4>1. TrackedObject(m, o)
        BY <1>8 DEF Known
      <4> QED BY <1>1, <2>1, <3>1, <3>2, <4>1 DEF TrackedObject, TypeOK
    <3>3. CASE o = k[1]
      <4>1. content # None => desired[m][o] # None
        BY <1>1, <1>8, <3>3, CurrentOfObject
      <4> QED BY <1>1, <1>3, <2>1, <3>1, <3>3, <4>1 DEF TrackedObject
    <3> QED BY <3>2, <3>3
  <2> QED BY <2>2, <2>3
<1>9. ASSUME NEW content, Write(m, k[1], content), UNCHANGED excused,
             content = Current(m)[k] \/ (content = None /\ k \in ComputeDiff(m, old[m])
                                         /\ k[1] \in Immutable)
      PROVE  Known(m)'
  BY <1>8, <1>9 DEF Known
<1> QED BY <1>5, <1>6, <1>7, <1>9

(* A save, acknowledged or not. *)
Saving(m) ==
    /\ opts.kind # "destroy" /\ todo[m] = {} /\ old[m] = stored[m]
    /\ pc[m] \in {"working", "done"}
    /\ UNCHANGED <<declared, desired, live>>
    /\ StoreEntries(m) \/ (Update(m) /\ UNCHANGED <<unsaved, excused>>)

LEMMA SavesAreSaving ==
    ASSUME TypeOK, Control, RunProgress, NEW m \in Manifests,
           SaveState(m) \/ SaveFails(m) \/ SavePending(m) \/ SavePendingFails(m)
    PROVE  Saving(m) \/ UNCHANGED <<declared, desired, live, stored, installed, unsaved, excused>>
<1>1. ManifestStep(m) /\ outcome = "running" /\ WorkList(m)
  BY ManifestStepRuns DEF ManifestStep, RunProgress, ManifestProgress
<1>2. CASE SaveState(m) \/ SaveFails(m)
  <2>1. pc[m] = "working" /\ todo[m] = {} /\ old[m] = stored[m]
    BY <1>1, <1>2 DEF SaveState, SaveFails, Processed, WorkList
  <2> QED BY <1>2, <2>1 DEF SaveState, SaveFails, Saving, worldVars
<1>3. CASE SavePending(m) \/ SavePendingFails(m)
  <2>1. m \in pending /\ pc[m] = "done" /\ todo[m] = {} /\ old[m] = stored[m] /\ opts.kind = "sync"
    BY <1>1, <1>3, ManifestStepRuns DEF SavePending, SavePendingFails, AllDone, WorkList, Control
  <2> QED BY <1>3, <2>1 DEF SavePending, SavePendingFails, Saving, worldVars
<1> QED BY <1>2, <1>3

LEMMA SaveKnown ==
    ASSUME OneVersion, TypeOK, RenderedOnly, NEW m \in Manifests, Known(m),
           ManifestProgress(m), Saving(m)
    PROVE  Known(m)'
<1> SUFFICES ASSUME m \notin excused'
             PROVE  /\ \A k \in Key : TruthfulKey(m, k)'
                    /\ \A o \in Renders[m] : TrackedObject(m, o)'
  BY DEF Known
<1>1. /\ Update(m) /\ stored'[m] = entries[m]
      /\ UNCHANGED <<declared, desired, live>>
  BY DEF Saving, StoreEntries, Update, TypeOK
<1>2. UNCHANGED Current(m)
  BY <1>1, SameRendering
<1>3. \A k \in Key : Handled(m, k)
  BY DEF ManifestProgress, Saving
<1>4. m \notin excused \/ (opts.kind = "apply" /\ Rendered(m) \cap drifted = {})
  BY DEF Saving, StoreEntries
<1>5. ASSUME NEW k \in Key, Current(m)[k] # None
      PROVE  entries[m][k] = Current(m)[k] /\ live[k[1]] = Current(m)[k]
  <2>1. k[1] \in Rendered(m)
    BY <1>5, CurrentOfObject DEF Rendered, Key
  <2> QED BY <1>3, <1>4, <1>5, <2>1 DEF Handled
<1>6. ASSUME NEW k \in Key, Current(m)[k] = None, entries[m][k] # None
      PROVE  opts.kind = "sync" /\ ~opts.prune /\ entries[m][k] = stored[m][k]
  BY <1>3, <1>6 DEF Handled, Saving
<1>7. ASSUME NEW k \in Key
      PROVE  TruthfulKey(m, k)'
  <2>1. CASE Current(m)[k] # None
    BY <1>1, <1>2, <1>5, <2>1 DEF TruthfulKey
  <2>2. CASE Current(m)[k] = None /\ entries[m][k] # None
    <3>1. m \notin excused /\ entries[m][k] = stored[m][k]
      BY <1>4, <1>6, <2>2
    <3>2. TruthfulKey(m, k)
      BY <3>1 DEF Known
    <3>3. k[1] \in Kept(m)
      BY <2>2 DEF Kept, Key
    <3>4. k[1] \in Objects
      BY DEF Key
    <3>5. <<m, k[1]>> \in unsaved => <<m, k[1]>> \in unsaved'
      BY <3>3, <3>4 DEF Saving, StoreEntries
    <3> QED BY <1>1, <1>2, <2>2, <3>1, <3>2, <3>5 DEF TruthfulKey
  <2> QED BY <1>1, <2>1, <2>2 DEF TruthfulKey
<1>8. ASSUME NEW o \in Renders[m], o \in installed', live[o] # None
      PROVE  \E v \in Versions : entries[m][<<o, v>>] # None
  <2>1. CASE opts.kind = "apply"
    <3>1. o \in {k[1] : k \in Keys(entries[m])}
      BY <1>1, <1>8, <2>1 DEF Update
    <3>2. PICK k \in Keys(entries[m]) : k[1] = o
      BY <3>1
    <3> QED BY <3>2 DEF Keys, Key
  <2>2. CASE opts.kind # "apply"
    <3>1. o \in installed /\ m \notin excused /\ opts.kind = "sync" /\ o \in Objects
      BY <1>1, <1>4, <1>8, <2>2, ConstantsAssumption DEF Update, Saving, TypeOK, RunKinds
    <3>2. TrackedObject(m, o)
      BY <3>1 DEF Known
    <3>3. CASE desired[m][o] # None
      <4>1. o \in Rendered(m)
        BY <3>1, <3>3 DEF Rendered
      <4>2. PICK k \in Key : k[1] = o /\ Current(m)[k] # None
        BY <4>1, KeyOfRendered
      <4>3. k = <<o, k[2]>> /\ k[2] \in Versions
        BY <4>2 DEF Key
      <4> QED BY <1>5, <4>2, <4>3
    <3>4. CASE desired[m][o] = None
      <4>1. PICK v \in Versions : stored[m][<<o, v>>] # None
        BY <1>8, <3>1, <3>2, <3>4 DEF TrackedObject
      <4>2. <<o, v>> \in Key /\ <<o, v>>[1] = o
        BY <3>1 DEF Key
      <4>3. Current(m)[<<o, v>>] = None
        BY <3>4, <4>2, CurrentOfObject
      <4>4. Handled(m, <<o, v>>)
        BY <1>3, <4>2
      <4> QED BY <1>8, <3>1, <4>1, <4>2, <4>3, <4>4 DEF Handled, Saving
    <3> QED BY <3>3, <3>4
  <2> QED BY <2>1, <2>2
<1>9. ASSUME NEW o \in Renders[m]
      PROVE  TrackedObject(m, o)'
  BY <1>1, <1>8 DEF TrackedObject
<1> QED BY <1>7, <1>9

LEMMA ManifestStepKeepsKnown ==
    ASSUME OneVersion, OwnObjects, TypeOK, RenderedOnly, Control, RunProgress,
           \A n \in Manifests : Known(n), NEW m \in Manifests, ManifestStep(m)
    PROVE  \A n \in Manifests : Known(n)'
<1>1. \A n \in Manifests \ {m} : Known(n)'
  BY OthersKnown
<1>2. outcome = "running" /\ ManifestProgress(m)
  BY ManifestStepRuns DEF RunProgress
<1>3. CASE UNCHANGED <<declared, desired, live, stored, installed, unsaved, excused>>
  <2>1. UNCHANGED Current(m)
    BY <1>3, SameRendering
  <2>2. Known(m)'
    BY <1>3, <2>1, UntouchedKnown
  <2> QED BY <1>1, <2>2
<1>4. CASE Begin(m) \/ BeginFails(m) \/ NotReady(m) \/ TestsEnd(m) \/ DestroyDone(m) \/ BufferState(m)
  BY <1>3, <1>4 DEF Begin, BeginFails, NotReady, TestsEnd, DestroyDone, BufferState, worldVars, histVars
<1>5. CASE \E k \in todo[m] :
             ApplyEntry(m, k) \/ PruneEntry(m, k) \/ KeepRemoved(m, k)
               \/ DestroyEntry(m, k) \/ EntryFails(m, k)
  BY <1>1, <1>5, EntryKnown
<1>6. CASE SaveState(m) \/ SaveFails(m) \/ SavePending(m) \/ SavePendingFails(m)
  BY <1>1, <1>2, <1>3, <1>6, SavesAreSaving, SaveKnown
<1> QED BY <1>4, <1>5, <1>6 DEF ManifestStep

LEMMA EditKeepsKnown ==
    ASSUME TypeOK, RenderedOnly, \A n \in Manifests : Known(n),
           NEW m \in Manifests, NEW d, Edit(m, d), NEW n \in Manifests
    PROVE  Known(n)'
<1>1. UNCHANGED <<declared, live, stored, unsaved, installed>>
  BY DEF Edit
<1>2. CASE n # m
  <2>1. desired'[n] = desired[n] /\ (n \in excused => n \in excused')
    BY <1>2 DEF Edit, TypeOK
  <2>2. Current(n)' = Current(n)
    BY <2>1 DEF Current
  <2> QED BY <1>1, <2>1, <2>2, UntouchedKnown
<1>3. CASE n = m
  <2> SUFFICES ASSUME m \notin excused'
               PROVE  /\ \A k \in Key : TruthfulKey(m, k)'
                      /\ \A o \in Renders[m] : TrackedObject(m, o)'
    BY <1>3 DEF Known
  <2>1. m \notin excused /\ \A o \in Objects : <<m, o>> \in unsaved => desired'[m][o] = desired[m][o]
    BY DEF Edit, TypeOK
  <2>2. ASSUME NEW k \in Key
        PROVE  TruthfulKey(m, k)'
    <3>1. TruthfulKey(m, k) /\ k[1] \in Objects
      BY <2>1 DEF Known, Key
    <3>2. <<m, k[1]>> \in unsaved => Current(m)'[k] = Current(m)[k]
      BY <2>1, <3>1 DEF Current, CurrentEntries
    <3> QED BY <1>1, <3>1, <3>2 DEF TruthfulKey
  <2>3. ASSUME NEW o \in Renders[m]
        PROVE  TrackedObject(m, o)'
    <3>1. TrackedObject(m, o) /\ o \in Objects
      BY <2>1, ConstantsAssumption DEF Known
    <3> QED BY <1>1, <2>1, <3>1 DEF TrackedObject
  <2> QED BY <2>2, <2>3
<1> QED BY <1>2, <1>3

LEMMA RemoveManifestKeepsKnown ==
    ASSUME TypeOK, RenderedOnly, \A n \in Manifests : Known(n),
           NEW m \in Manifests, RemoveManifest(m), NEW n \in Manifests
    PROVE  Known(n)'
<1>1. UNCHANGED <<desired, live, stored, unsaved, installed>> /\ declared' = declared \ {m}
  BY DEF RemoveManifest
<1>2. UNCHANGED Current(n)
  BY <1>1, SameRendering
<1>3. n \in excused => n \in excused'
  BY DEF RemoveManifest
<1>4. CASE n # m
  BY <1>1, <1>2, <1>3, <1>4, UntouchedKnown
<1>5. CASE n = m
  <2> SUFFICES ASSUME m \notin excused'
               PROVE  /\ \A k \in Key : TruthfulKey(m, k)'
                      /\ \A o \in Renders[m] : TrackedObject(m, o)'
    BY <1>5 DEF Known
  <2>1. m \notin excused /\ \A o \in Objects : <<m, o>> \notin unsaved
    BY DEF RemoveManifest
  <2>2. \A o \in Renders[m] : o \in Objects
    BY ConstantsAssumption
  <2> QED BY <1>1, <1>2, <1>5, <2>1, <2>2 DEF Known, TruthfulKey, TrackedObject
<1> QED BY <1>4, <1>5

LEMMA DriftKeepsKnown ==
    ASSUME TypeOK, RenderedOnly, \A n \in Manifests : Known(n),
           NEW o \in Objects, NEW content, Drift(o, content), NEW n \in Manifests
    PROVE  Known(n)'
<1>1. /\ UNCHANGED <<declared, desired, stored, unsaved>>
      /\ excused' = excused \cup {m \in Manifests : o \in Renders[m]}
      /\ live' = [live EXCEPT ![o] = content] /\ installed' = installed \ {o}
  BY DEF Drift
<1>2. UNCHANGED Current(n)
  BY <1>1, SameRendering
<1>3. CASE o \in Renders[n]
  BY <1>1, <1>3 DEF Known
<1>4. CASE o \notin Renders[n]
  <2>1. \A p \in Renders[n] : p \in Objects /\ live'[p] = live[p]
    BY <1>1, <1>4, ConstantsAssumption DEF TypeOK
  <2> QED BY <1>1, <1>2, <2>1, UntouchedKnown
<1> QED BY <1>3, <1>4

LEMMA NextKeepsKnown ==
    ASSUME OneVersion, OwnObjects, TypeOK, RenderedOnly, Control, RunProgress,
           StateTruthful, Tracked, [Next]_vars
    PROVE  StateTruthful' /\ Tracked'
<1> SUFFICES \A n \in Manifests : Known(n)'
  BY DEF Known, TruthfulKey, TrackedObject, StateTruthful, Tracked
<1>1. \A n \in Manifests : Known(n)
  BY KnownIsTruthfulAndTracked
<1>2. CASE UNCHANGED <<declared, desired, live, stored, installed, unsaved, excused>>
  <2>1. ASSUME NEW n \in Manifests
        PROVE  Known(n)'
    <3>1. UNCHANGED Current(n)
      BY <1>2, SameRendering
    <3> QED BY <1>1, <1>2, <3>1, UntouchedKnown
  <2> QED BY <2>1
<1>3. CASE (\E o \in Kinds : StartRun(o)) \/ RunSucceeds \/ RunFails \/ Crash \/ Rest \/ UNCHANGED vars
  BY <1>2, <1>3 DEF StartRun, RunSucceeds, RunFails, Crash, Rest, vars, worldVars, histVars
<1>4. CASE \E m \in Manifests : ManifestStep(m)
  BY <1>1, <1>4, ManifestStepKeepsKnown
<1>5. CASE Environment
  BY <1>1, <1>5, EditKeepsKnown, RemoveManifestKeepsKnown, DriftKeepsKnown DEF Environment
<1> QED BY <1>3, <1>4, <1>5 DEF Next

-----------------------------------------------------------------------------
(***************************************************************************)
(* Success.                                                                *)
(***************************************************************************)

LEMMA ManifestStepIsNoSuccess ==
    ASSUME TypeOK, Control, NEW m \in Manifests, ManifestStep(m)
    PROVE  outcome' # "ok"
<1>1. outcome = "running"
  BY ManifestStepRuns
<1> QED
  BY <1>1 DEF ManifestStep, Begin, BeginFails, ApplyEntry, PruneEntry, KeepRemoved, DestroyEntry,
              EntryFails, NotReady, SaveState, SaveFails, BufferState, TestsEnd, DestroyDone,
              SavePending, SavePendingFails

LEMMA RunSucceedsWithSuccess ==
    ASSUME OneVersion, TypeOK, RunProgress, RunSucceeds
    PROVE  SuccessMeansDeployed' /\ SuccessRecordsDeclaration'
<1>1. /\ UNCHANGED <<declared, desired, live, stored, opts, excused>>
      /\ pending = {} /\ \A m \in declared : m \in Manifests /\ pc[m] = "done" /\ ManifestProgress(m)
  BY DEF RunSucceeds, AllDone, RunProgress, worldVars, histVars, TypeOK
<1> SUFFICES ASSUME opts.kind # "destroy", NEW m \in declared
             PROVE  /\ m \notin excused => \A o \in Rendered(m) : live[o] = desired[m][o].content
                    /\ \A k \in Key : Recorded(m, k)
  BY <1>1 DEF SuccessMeansDeployed, SuccessRecordsDeclaration, Recorded, Rendered, Current
<1>2. /\ m \in Manifests
      /\ \A k \in Key : Handled(m, k) /\ Recorded(m, k)
  BY <1>1 DEF ManifestProgress, WorkList
<1>3. ASSUME NEW o \in Rendered(m), m \notin excused
      PROVE  live[o] = desired[m][o].content
  <2>1. PICK k \in Key : k[1] = o /\ Current(m)[k] # None /\ Current(m)[k] = desired[m][o].content
    BY <1>2, KeyOfRendered
  <2> QED BY <1>2, <1>3, <2>1 DEF Handled
<1> QED BY <1>2, <1>3

LEMMA NextKeepsSuccess ==
    ASSUME OneVersion, TypeOK, RenderedOnly, Control, RunProgress, SuccessMeansDeployed, SuccessRecordsDeclaration,
           [Next]_vars
    PROVE  SuccessMeansDeployed' /\ SuccessRecordsDeclaration'
<1>1. CASE UNCHANGED vars
  BY <1>1 DEF vars, SuccessMeansDeployed, SuccessRecordsDeclaration, Rendered, Current
<1>2. CASE RunSucceeds
  BY <1>2, RunSucceedsWithSuccess
<1>3. CASE outcome' # "ok"
  BY <1>3 DEF SuccessMeansDeployed, SuccessRecordsDeclaration
<1>4. ASSUME NEW o \in Objects, NEW content, Drift(o, content)
      PROVE  SuccessMeansDeployed' /\ SuccessRecordsDeclaration'
  <2>1. /\ UNCHANGED <<declared, desired, stored, opts, outcome>>
        /\ excused' = excused \cup {m \in Manifests : o \in Renders[m]}
        /\ \A p \in Objects \ {o} : live'[p] = live[p]
    BY <1>4 DEF Drift, TypeOK
  <2>2. SuccessRecordsDeclaration'
    BY <2>1 DEF SuccessRecordsDeclaration, Current
  <2>3. ASSUME NEW m \in declared, m \notin excused', NEW p \in Rendered(m)
        PROVE  p # o /\ p \in Objects /\ m \notin excused
    BY <2>1, <2>3 DEF TypeOK, RenderedOnly, Declarations, Rendered
  <2>4. SuccessMeansDeployed'
    BY <2>1, <2>3 DEF SuccessMeansDeployed, Rendered
  <2> QED BY <2>2, <2>4
<1> QED BY <1>1, <1>2, <1>3, <1>4, ManifestStepIsNoSuccess
        DEF Next, Rest, StartRun, RunFails, Crash, Environment, RemoveManifest, Edit

-----------------------------------------------------------------------------
(***************************************************************************)
(* The invariant, and what follows from it.                                *)
(***************************************************************************)

LEMMA SyncInitInvariant == Init => SyncIInv
BY InitTyped, InitRenderedOnly, InitControl, InitProgress, InitKnown
   DEF SyncIInv, SuccessMeansDeployed, SuccessRecordsDeclaration, Init

LEMMA SyncNextKeepsInvariant ==
    ASSUME OneVersion, OwnObjects
    PROVE  SyncIInv /\ [Next]_vars => SyncIInv'
BY NextTyped, NextKeepsRendered, NextKeepsControl, NextKeepsProgress, NextKeepsKnown, NextKeepsSuccess
   DEF SyncIInv

(* What every run of tazuna leaves behind, crashed or not, keeps the       *)
(* cluster, the states and the declarations in step (see SyncIInv).        *)
THEOREM SyncInvariant ==
    ASSUME OneVersion, OwnObjects
    PROVE  Spec => []SyncIInv
BY SyncInitInvariant, SyncNextKeepsInvariant, PTL DEF Spec

(* Whatever fails, crashes or is repeated: a recorded object is in the     *)
(* cluster with the recorded content (SyncManifest, saveManifestState).    *)
THEOREM StateTellsTheTruth ==
    ASSUME OneVersion, OwnObjects
    PROVE  Spec => []StateTruthful
<1>1. SyncIInv => StateTruthful
  BY DEF SyncIInv
<1> QED BY <1>1, SyncInvariant, PTL

(* A run that reports success has deployed the declaration: also where it  *)
(* skips what the state says is there.                                     *)
THEOREM SuccessDeploys ==
    ASSUME OneVersion, OwnObjects
    PROVE  Spec => []SuccessMeansDeployed
<1>1. SyncIInv => SuccessMeansDeployed
  BY DEF SyncIInv
<1> QED BY <1>1, SyncInvariant, PTL

(* A successful run has recorded what is declared, and with --prune        *)
(* nothing else.                                                           *)
THEOREM SuccessRecords ==
    ASSUME OneVersion, OwnObjects
    PROVE  Spec => []SuccessRecordsDeclaration
<1>1. SyncIInv => SuccessRecordsDeclaration
  BY DEF SyncIInv
<1> QED BY <1>1, SyncInvariant, PTL

(* No live object that tazuna installed is forgotten by the states when a  *)
(* run succeeds.                                                           *)
THEOREM InstalledIsTracked ==
    ASSUME OneVersion, OwnObjects
    PROVE  Spec => []SyncTracksInstalled
<1>1. SyncIInv => SyncTracksInstalled
  <2> SUFFICES ASSUME SyncIInv, outcome = "ok", opts.kind # "destroy",
                      NEW o \in installed, live[o] # None,
                      \A m \in excused : o \notin Renders[m]
               PROVE  \E m \in Manifests : \E k \in Keys(stored[m]) : k[1] = o
    BY DEF SyncTracksInstalled
  <2>1. PICK m \in Manifests \ excused : o \in Renders[m]
    BY DEF SyncIInv, RenderedOnly
  <2>2. o \in Objects
    BY DEF SyncIInv, TypeOK
  <2>3. CASE \E v \in Versions : stored[m][<<o, v>>] # None
    <3>1. PICK v \in Versions : stored[m][<<o, v>>] # None
      BY <2>3
    <3>2. <<o, v>> \in Keys(stored[m]) /\ <<o, v>>[1] = o
      BY <2>2, <3>1 DEF Keys, Key
    <3> QED BY <3>2
  <2>4. CASE desired[m][o] # None /\ m \in declared
    <3>1. o \in Rendered(m)
      BY <2>2, <2>4 DEF Rendered
    <3>2. PICK k \in Key : k[1] = o /\ Current(m)[k] # None
      BY <3>1, KeyOfRendered DEF SyncIInv
    <3>3. stored[m][k] # None
      BY <2>4, <3>2 DEF SyncIInv, SuccessRecordsDeclaration
    <3> QED BY <3>2, <3>3 DEF Keys
  <2> QED BY <2>1, <2>3, <2>4 DEF SyncIInv, Tracked
<1> QED BY <1>1, SyncInvariant, PTL

-----------------------------------------------------------------------------
(***************************************************************************)
(* The reports.                                                            *)
(***************************************************************************)

(* What an apply will change was announced by plan: every other object is  *)
(* as declared since the run started.                                      *)
PlanShown ==
    outcome = "running" /\ opts.kind = "apply" =>
        \A m \in declared \ Genesis : \A o \in Rendered(m) :
            o \in foretold.plan \cup drifted \cup Immutable \/ live[o] = desired[m][o].content

(* What a --sync has still to process was announced by state diff.         *)
DiffShown ==
    outcome = "running" /\ opts.kind = "sync" =>
        \A m \in declared : \A k \in Key :
            k \in todo[m] \/ (pc[m] = "idle" /\ k \in ComputeDiff(m, stored[m]))
                => k[1] \in foretold.diff

(* A key that this --sync will still process, unless it fails before. *)
Open(m, k) ==
    \/ pc[m] = "failed"
    \/ pc[m] = "idle" /\ k \in ComputeDiff(m, stored[m])
    \/ pc[m] = "working" /\ k \in todo[m]

(* A key whose object is as this --sync has to leave it. *)
Settled(m, k) ==
    \/ k[1] \in drifted
    \/ IF Current(m)[k] # None THEN live[k[1]] = Current(m)[k] ELSE opts.prune => live[k[1]] = None

(* What state diff announced is still to be done or done.                  *)
ShownIsDone ==
    outcome = "running" /\ opts.kind = "sync" =>
        \A m \in declared \ Delegated : \A o \in Renders[m] \cap foretold.diff :
            \E k \in Key : k[1] = o /\ (Open(m, k) \/ Settled(m, k))

ReportsIInv == SyncIInv /\ PlanShown /\ DiffShown /\ ShownIsDone /\ AnnouncedIsDone

LEMMA ReportsStep == [ReportsNext]_reportVars => [Next]_vars
BY DEF ReportsNext, ReportThenRun, Proceed, Next, reportVars

(* plan and state diff leave out only what is as declared, or recorded as  *)
(* declared.                                                               *)
LEMMA ReportIsComplete ==
    ASSUME TypeOK
    PROVE  /\ \A m \in declared \ Genesis : \A o \in Rendered(m) :
                o \in Report.plan \/ live[o] = desired[m][o].content
           /\ \A m \in declared : \A k \in ComputeDiff(m, stored[m]) : k[1] \in Report.diff
<1>1. ASSUME NEW m \in declared \ Genesis, NEW o \in Rendered(m), live[o] # desired[m][o].content
      PROVE  o \in Report.plan
  <2>1. o \in Plan(m)
    BY <1>1 DEF Plan, PlanChange, LiveEquals
  <2> QED BY <1>1, <2>1 DEF Report
<1>2. ASSUME NEW m \in declared, NEW k \in ComputeDiff(m, stored[m])
      PROVE  k[1] \in Report.diff
  <2>1. \E e \in StateDiff(m) : e.key = k
    <3>1. CASE Current(m)[k] = None
      <4>1. k \in Keys(stored[m])
        BY <1>2, <3>1 DEF ComputeDiff, Keys
      <4> DEFINE entry == [key |-> k, type |-> "removed"]
      <4>2. entry \in StateDiff(m) /\ entry.key = k
        BY <3>1, <4>1 DEF StateDiff
      <4> QED BY <4>2
    <3>2. CASE Current(m)[k] # None
      <4>1. k \in Keys(Current(m)) /\ (m \in Genesis \/ RecordedAs(m, k) # Current(m)[k])
        BY <1>2, <3>2 DEF ComputeDiff, Keys, RecordedAs
      <4> DEFINE entry == [key |-> k, type |-> IF m \in Genesis THEN "always-sync"
                           ELSE IF RecordedAs(m, k) = None THEN "added" ELSE "modified"]
      <4>2. entry \in StateDiff(m) /\ entry.key = k
        BY <4>1 DEF StateDiff
      <4> QED BY <4>2
    <3> QED BY <3>1, <3>2
  <2> QED BY <1>2, <2>1 DEF Report
<1> QED BY <1>1, <1>2

LEMMA ReportsInitInvariant == ReportsInit => ReportsIInv
<1> SUFFICES ASSUME ReportsInit PROVE ReportsIInv
  OBVIOUS
<1>1. SyncIInv
  BY SyncInitInvariant DEF ReportsInit
<1>2. outcome = "none"
  BY DEF ReportsInit, Init
<1> QED BY <1>1, <1>2 DEF ReportsIInv, PlanShown, DiffShown, ShownIsDone, AnnouncedIsDone

LEMMA ReportThenRunShows ==
    ASSUME TypeOK, NEW o \in Kinds, ReportThenRun(o)
    PROVE  PlanShown' /\ DiffShown'
<1>1. /\ UNCHANGED <<declared, desired, live, stored>>
      /\ todo' = [m \in Manifests |-> {}] /\ foretold' = Report
  BY DEF ReportThenRun, StartRun
<1>2. \A m : Current(m)' = Current(m)
  BY <1>1, SameRendering
<1>3. PlanShown'
  BY <1>1, ReportIsComplete DEF PlanShown, Rendered
<1>4. DiffShown'
  BY <1>1, <1>2, ReportIsComplete DEF DiffShown, ComputeDiff, TypeOK
<1> QED BY <1>3, <1>4

(* What state diff lists of a manifest is what ComputeDiff finds. *)
LEMMA ReportIsDiff ==
    ASSUME OneVersion, OwnObjects, TypeOK, RenderedOnly,
           NEW m \in declared \ Delegated, NEW o \in Renders[m] \cap Report.diff
    PROVE  \E k \in ComputeDiff(m, stored[m]) : k[1] = o
<1>1. PICK n \in declared : \E e \in StateDiff(n) : e.key[1] = o
  BY DEF Report
<1>2. PICK e \in StateDiff(n) : e.key[1] = o
  BY <1>1
<1>3. m \in Manifests /\ n \in Manifests
  BY DEF TypeOK
<1>4. e.key \in Key /\ (Current(n)[e.key] # None \/ stored[n][e.key] # None)
  BY DEF StateDiff, Keys
<1>5. o \in Renders[n]
  BY <1>2, <1>3, <1>4, CurrentRendered DEF RenderedOnly
<1>6. n = m
  BY <1>3, <1>5 DEF OwnObjects
<1>7. e.key \in ComputeDiff(m, stored[m])
  BY <1>6 DEF StateDiff, Keys, RecordedAs, GetDefaultNamespace, ComputeDiff
<1> QED BY <1>2, <1>7

LEMMA ReportThenRunOpens ==
    ASSUME OneVersion, OwnObjects, TypeOK, RenderedOnly, NEW o \in Kinds, ReportThenRun(o)
    PROVE  ShownIsDone'
<1>1. /\ UNCHANGED <<declared, desired, stored>>
      /\ pc' = [m \in Manifests |-> "idle"] /\ foretold' = Report
  BY DEF ReportThenRun, StartRun
<1>2. \A m : Current(m)' = Current(m)
  BY <1>1, SameRendering
<1> SUFFICES ASSUME NEW m \in declared \ Delegated, NEW p \in Renders[m] \cap Report.diff
             PROVE  \E k \in Key : k[1] = p /\ Open(m, k)'
  BY <1>1 DEF ShownIsDone
<1>3. PICK k \in ComputeDiff(m, stored[m]) : k[1] = p
  BY ReportIsDiff
<1>4. k \in Key /\ k \in ComputeDiff(m, stored[m])'
  BY <1>1, <1>2 DEF ComputeDiff
<1>5. pc'[m] = "idle"
  BY <1>1 DEF TypeOK
<1> QED BY <1>3, <1>4, <1>5 DEF Open

(* A goroutine works on what was shown. *)
LEMMA ManifestStepKeepsShown ==
    ASSUME OneVersion, OwnObjects, ReportsIInv, NEW m \in Manifests, ManifestStep(m), UNCHANGED foretold
    PROVE  PlanShown' /\ DiffShown'
<1>1. TypeOK /\ RenderedOnly /\ Control /\ outcome = "running" /\ m \in declared
  BY ManifestStepRuns DEF ReportsIInv, SyncIInv
<1>2. /\ UNCHANGED <<declared, desired, opts>>
      /\ \A n \in Manifests \ {m} : pc'[n] = pc[n] /\ todo'[n] = todo[n] /\ stored'[n] = stored[n]
  BY <1>1, StepOfOneManifest
<1>3. \A n : Current(n)' = Current(n)
  BY <1>2, SameRendering
<1>4. ASSUME opts.kind = "sync", NEW n \in declared, NEW k \in Key,
             k \in todo'[n] \/ (pc'[n] = "idle" /\ k \in ComputeDiff(n, stored'[n]))
      PROVE  k \in todo[n] \/ (pc[n] = "idle" /\ k \in ComputeDiff(n, stored[n]))
  <2>1. CASE n # m
    BY <1>1, <1>2, <1>4, <2>1 DEF TypeOK
  <2>2. CASE n = m
    <3>1. CASE Begin(m)
      BY <1>1, <1>4, <2>2, <3>1 DEF Begin, MayStart, TypeOK
    <3>2. CASE \E j \in todo[m] :
                 ApplyEntry(m, j) \/ PruneEntry(m, j) \/ KeepRemoved(m, j)
                   \/ DestroyEntry(m, j) \/ EntryFails(m, j)
      BY <1>1, <1>4, <2>2, <3>2
         DEF ApplyEntry, PruneEntry, KeepRemoved, DestroyEntry, EntryFails, Processing, TypeOK
    <3>3. CASE BeginFails(m) \/ NotReady(m) \/ SaveState(m) \/ SaveFails(m) \/ BufferState(m)
                 \/ TestsEnd(m) \/ DestroyDone(m) \/ SavePending(m) \/ SavePendingFails(m)
      <4>1. UNCHANGED todo /\ pc'[m] # "idle"
        BY <1>1, <3>3 DEF BeginFails, NotReady, SaveState, SaveFails, BufferState, TestsEnd,
           DestroyDone, SavePending, SavePendingFails, AfterSave, AllDone, TypeOK
      <4> QED BY <1>4, <2>2, <4>1
    <3> QED BY <3>1, <3>2, <3>3 DEF ManifestStep
  <2> QED BY <2>1, <2>2
<1>5. DiffShown'
  <2>1. \A n, st : ComputeDiff(n, st)' = ComputeDiff(n, st')
    BY <1>3 DEF ComputeDiff
  <2> SUFFICES ASSUME opts.kind = "sync", NEW n \in declared, NEW k \in Key,
                      k \in todo'[n] \/ (pc'[n] = "idle" /\ k \in ComputeDiff(n, stored[n])')
               PROVE  k[1] \in foretold.diff
    BY <1>2 DEF DiffShown
  <2>2. k \in todo[n] \/ (pc[n] = "idle" /\ k \in ComputeDiff(n, stored[n]))
    BY <1>3, <1>4 DEF ComputeDiff
  <2> QED BY <1>1, <2>2 DEF ReportsIInv, DiffShown
<1>6. ASSUME opts.kind = "apply", NEW n \in declared \ Genesis, NEW o \in Rendered(n),
             o \notin foretold.plan \cup Immutable, o \notin drifted'
      PROVE  live'[o] = desired[n][o].content
  <2>1. n \in Manifests /\ o \in Objects /\ o \in Renders[n]
    BY <1>1 DEF TypeOK, RenderedOnly, Declarations, Rendered
  <2>2. CASE n # m
    <3>1. o \in Objects \ Renders[m]
      BY <2>1, <2>2, OneRenderer
    <3>2. live'[o] = live[o] /\ o \notin drifted
      BY <1>1, <1>6, <3>1, WritesOwnObject DEF OwnWrites
    <3> QED BY <1>1, <1>6, <3>2 DEF ReportsIInv, PlanShown
  <2>3. CASE n = m /\ live' = live /\ drifted' = drifted
    BY <1>1, <1>6, <2>3 DEF ReportsIInv, PlanShown
  <2>4. ASSUME n = m, NEW k \in todo[m], ApplyEntry(m, k) \/ EntryFails(m, k), ~UNCHANGED <<live, drifted>>
        PROVE  live'[o] = desired[n][o].content
    <3>1. k \in Key /\ k[1] \in Objects
      BY <1>1 DEF TypeOK, Key
    <3>2. PICK content : Write(m, k[1], content) /\ (k[1] \notin Immutable => content = Current(m)[k])
      BY <1>6, <2>4 DEF ApplyEntry, EntryFails, PartialEffects, histVars
    <3>3. CASE o = k[1]
      <4>1. Current(m)[k] = desired[m][o].content
        BY <1>1, <2>4, <3>1, <3>3, CurrentOfObject DEF Rendered
      <4> QED BY <1>1, <1>6, <2>1, <2>4, <3>2, <3>3, <4>1 DEF Write, TypeOK
    <3>4. CASE o # k[1]
      <4>1. live'[o] = live[o] /\ o \notin drifted
        BY <1>1, <1>6, <2>1, <3>2, <3>4 DEF Write, TypeOK
      <4> QED BY <1>1, <1>6, <2>4, <4>1 DEF ReportsIInv, PlanShown
    <3> QED BY <3>3, <3>4
  <2>5. \/ UNCHANGED <<live, drifted>>
        \/ \E k \in todo[m] : ApplyEntry(m, k) \/ EntryFails(m, k)
    BY <1>6 DEF ManifestStep, Begin, BeginFails, PruneEntry, KeepRemoved, DestroyEntry, NotReady,
       SaveState, SaveFails, BufferState, TestsEnd, DestroyDone, SavePending, SavePendingFails, histVars
  <2> QED BY <2>2, <2>3, <2>4, <2>5
<1>7. PlanShown'
  BY <1>2, <1>6 DEF PlanShown, Rendered
<1> QED BY <1>5, <1>7

(* A goroutine settles what it has processed. *)
LEMMA ManifestStepSettles ==
    ASSUME OneVersion, OwnObjects, TypeOK, RenderedOnly, Control, RunProgress, opts.kind = "sync",
           NEW m \in Manifests, ManifestStep(m), NEW k \in Key,
           Open(m, k) \/ Settled(m, k)
    PROVE  Open(m, k)' \/ Settled(m, k)'
<1>1. outcome = "running" /\ m \in declared /\ UNCHANGED <<desired, opts>>
  BY ManifestStepRuns, StepOfOneManifest
<1>2. Current(m)' = Current(m)
  BY <1>1, SameRendering
<1>3. CASE Begin(m)
  <2>1. UNCHANGED <<live, drifted, stored>> /\ pc[m] = "idle"
        /\ todo'[m] = ComputeDiff(m, stored[m])
        /\ (todo'[m] # {} => pc'[m] = "working")
    BY <1>3 DEF Begin, MayStart, histVars, TypeOK
  <2>2. CASE Settled(m, k)
    BY <1>1, <1>2, <2>1, <2>2 DEF Settled
  <2>3. CASE Open(m, k)
    BY <2>1, <2>3 DEF Open
  <2> QED BY <2>2, <2>3
<1>4. CASE BeginFails(m) \/ NotReady(m) \/ SaveFails(m) \/ \E j \in todo[m] : EntryFails(m, j)
  <2>1. pc'[m] = "failed"
    BY <1>4 DEF BeginFails, NotReady, SaveFails, EntryFails, TypeOK
  <2> QED BY <2>1 DEF Open
<1>5. CASE SaveState(m) \/ BufferState(m) \/ TestsEnd(m) \/ DestroyDone(m) \/ SavePending(m) \/ SavePendingFails(m)
  <2>1. pc[m] \in {"testing", "done"} \/ (pc[m] = "working" /\ todo[m] = {})
    BY <1>1, <1>5 DEF SaveState, BufferState, TestsEnd, DestroyDone, SavePending, SavePendingFails,
                      Processed, AllDone
  <2>2. Settled(m, k)
    BY <2>1 DEF Open
  <2>3. UNCHANGED <<live, drifted>>
    BY <1>5 DEF SaveState, BufferState, TestsEnd, DestroyDone, SavePending, SavePendingFails,
                StoreEntries, histVars
  <2> QED BY <1>1, <1>2, <2>2, <2>3 DEF Settled
<1>6. ASSUME NEW j \in todo[m], ApplyEntry(m, j) \/ PruneEntry(m, j) \/ KeepRemoved(m, j)
      PROVE  Open(m, k)' \/ Settled(m, k)'
  <2>1. j \in Key /\ j[1] \in Objects /\ k[1] \in Objects /\ pc[m] = "working" /\ pc'[m] = "working"
    BY <1>6 DEF TypeOK, Key, ApplyEntry, PruneEntry, KeepRemoved, Processing
  <2>2. CASE j = k
    <3>1. CASE ApplyEntry(m, j)
      <4>1. Current(m)[k] # None /\ live'[k[1]] = Current(m)[k]
        BY <2>1, <2>2, <3>1 DEF ApplyEntry, Write, TypeOK
      <4> QED BY <1>1, <1>2, <4>1 DEF Settled
    <3>2. CASE PruneEntry(m, j)
      <4>1. Current(m)[k] = None /\ live'[k[1]] = None
        BY <2>1, <2>2, <3>2 DEF PruneEntry, Write, TypeOK
      <4> QED BY <1>1, <1>2, <4>1 DEF Settled
    <3>3. CASE KeepRemoved(m, j)
      <4>1. Current(m)[k] = None /\ ~opts.prune
        BY <2>2, <3>3 DEF KeepRemoved
      <4> QED BY <1>1, <1>2, <4>1 DEF Settled
    <3> QED BY <1>6, <3>1, <3>2, <3>3
  <2>3. CASE j # k
    <3>1. j[1] # k[1]
      BY <2>1, <2>3, SameKey
    <3>2. live'[k[1]] = live[k[1]] /\ (k[1] \in drifted' <=> k[1] \in drifted)
      BY <1>6, <2>1, <3>1 DEF ApplyEntry, PruneEntry, KeepRemoved, Write, histVars, TypeOK
    <3>3. k \in todo[m] => k \in todo'[m]
      BY <1>6, <2>3 DEF ApplyEntry, PruneEntry, KeepRemoved, TypeOK
    <3>4. CASE Settled(m, k)
      BY <1>1, <1>2, <3>2, <3>4 DEF Settled
    <3>5. CASE Open(m, k)
      BY <2>1, <3>3, <3>5 DEF Open
    <3> QED BY <3>4, <3>5
  <2> QED BY <2>2, <2>3
<1>7. ~\E j \in todo[m] : DestroyEntry(m, j)
  BY DEF DestroyEntry
<1> QED BY <1>3, <1>4, <1>5, <1>6, <1>7 DEF ManifestStep

LEMMA ManifestStepKeepsDone ==
    ASSUME OneVersion, OwnObjects, ReportsIInv, NEW m \in Manifests, ManifestStep(m), UNCHANGED foretold
    PROVE  ShownIsDone'
<1>1. TypeOK /\ RenderedOnly /\ Control /\ RunProgress /\ outcome = "running"
  BY ManifestStepRuns DEF ReportsIInv, SyncIInv
<1>2. /\ UNCHANGED <<declared, desired, opts>>
      /\ \A n \in Manifests \ {m} : pc'[n] = pc[n] /\ todo'[n] = todo[n] /\ stored'[n] = stored[n]
  BY <1>1, StepOfOneManifest
<1>3. \A n : Current(n)' = Current(n)
  BY <1>2, SameRendering
<1> SUFFICES ASSUME opts.kind = "sync", NEW n \in declared \ Delegated,
                    NEW o \in Renders[n] \cap foretold.diff
             PROVE  \E k \in Key : k[1] = o /\ (Open(n, k)' \/ Settled(n, k)')
  BY <1>2 DEF ShownIsDone
<1>4. PICK k \in Key : k[1] = o /\ (Open(n, k) \/ Settled(n, k))
  BY <1>1 DEF ReportsIInv, ShownIsDone
<1>5. CASE n = m
  BY <1>1, <1>4, <1>5, ManifestStepSettles
<1>6. CASE n # m
  <2>1. n \in Manifests /\ k[1] \in Objects \ Renders[m]
    BY <1>1, <1>4, <1>6, OneRenderer DEF TypeOK
  <2>2. live'[k[1]] = live[k[1]] /\ (k[1] \in drifted' <=> k[1] \in drifted)
    BY <1>1, <2>1, WritesOwnObject DEF OwnWrites
  <2>3. pc'[n] = pc[n] /\ todo'[n] = todo[n] /\ ComputeDiff(n, stored[n])' = ComputeDiff(n, stored[n])
    BY <1>2, <1>3, <1>6, <2>1 DEF ComputeDiff
  <2>4. Open(n, k)' = Open(n, k)
    BY <2>3 DEF Open
  <2>5. Settled(n, k)' <=> Settled(n, k)
    BY <1>2, <1>3, <2>2 DEF Settled
  <2> QED BY <1>4, <2>4, <2>5
<1> QED BY <1>5, <1>6

(* A run that succeeds has nothing open. *)
LEMMA RunSucceedsDone ==
    ASSUME OneVersion, TypeOK, RunProgress, ShownIsDone, RunSucceeds, UNCHANGED foretold
    PROVE  AnnouncedIsDone'
<1>1. /\ UNCHANGED <<declared, desired, live, opts, drifted, foretold>>
      /\ outcome = "running"
      /\ \A m \in declared : m \in Manifests /\ pc[m] = "done" /\ ManifestProgress(m)
  BY DEF RunSucceeds, AllDone, RunProgress, worldVars, histVars, TypeOK
<1>2. ASSUME NEW m \in declared, NEW o \in Renders[m] \ drifted, opts.kind = "apply", o \in Rendered(m)
      PROVE  live[o] = desired[m][o].content
  <2>1. PICK k \in Key : k[1] = o /\ Current(m)[k] # None /\ Current(m)[k] = desired[m][o].content
    BY <1>1, <1>2, KeyOfRendered
  <2>2. Handled(m, k)
    BY <1>1, <1>2 DEF ManifestProgress, WorkList
  <2> QED BY <1>2, <2>1, <2>2 DEF Handled
<1>3. ASSUME NEW m \in declared, NEW o \in Renders[m] \ drifted,
             opts.kind = "sync", o \in foretold.diff, m \notin Delegated
      PROVE  IF o \in Rendered(m) THEN live[o] = desired[m][o].content
             ELSE opts.prune => live[o] = None
  <2>1. PICK k \in Key : k[1] = o /\ (Open(m, k) \/ Settled(m, k))
    BY <1>1, <1>3 DEF ShownIsDone
  <2>2. Settled(m, k)
    BY <1>1, <2>1 DEF Open
  <2>3. k[1] \in Objects /\ m \in Manifests
    BY <1>1 DEF Key
  <2>4. /\ Current(m)[k] # None <=> o \in Rendered(m)
        /\ Current(m)[k] # None => Current(m)[k] = desired[m][o].content
    BY <2>1, <2>3, CurrentOfObject DEF Rendered
  <2> QED BY <1>3, <2>1, <2>2, <2>4 DEF Settled
<1> QED BY <1>1, <1>2, <1>3 DEF AnnouncedIsDone, Rendered

LEMMA ReportsNextKeepsInvariant ==
    ASSUME OneVersion, OwnObjects
    PROVE  ReportsIInv /\ [ReportsNext]_reportVars => ReportsIInv'
<1> DEFINE Shown == PlanShown /\ DiffShown /\ ShownIsDone /\ AnnouncedIsDone
<1> SUFFICES ASSUME ReportsIInv, [ReportsNext]_reportVars PROVE ReportsIInv'
  OBVIOUS
<1>1. TypeOK /\ RenderedOnly /\ Control /\ RunProgress /\ SyncIInv'
  BY ReportsStep, SyncNextKeepsInvariant DEF ReportsIInv, SyncIInv
<1> SUFFICES Shown'
  BY <1>1 DEF ReportsIInv
<1>2. ASSUME NEW o \in Kinds, ReportThenRun(o)
      PROVE  Shown'
  <2>1. outcome' = "running"
    BY <1>2 DEF ReportThenRun, StartRun
  <2> QED BY <1>1, <1>2, <2>1, ReportThenRunShows, ReportThenRunOpens DEF AnnouncedIsDone
<1>3. ASSUME NEW m \in Manifests, ManifestStep(m), UNCHANGED foretold
      PROVE  Shown'
  <2>1. outcome' # "ok"
    BY <1>1, <1>3, ManifestStepIsNoSuccess
  <2> QED BY <1>3, <2>1, ManifestStepKeepsShown, ManifestStepKeepsDone DEF AnnouncedIsDone
<1>4. CASE RunSucceeds /\ UNCHANGED foretold
  <2>1. outcome' = "ok"
    BY <1>4 DEF RunSucceeds
  <2>2. AnnouncedIsDone'
    BY <1>1, <1>4, RunSucceedsDone DEF ReportsIInv
  <2> QED BY <2>1, <2>2 DEF PlanShown, DiffShown, ShownIsDone
<1>5. CASE outcome' \notin {"running", "ok"}
  BY <1>5 DEF PlanShown, DiffShown, ShownIsDone, AnnouncedIsDone
<1>6. ASSUME NEW o \in Objects, NEW content, Drift(o, content), UNCHANGED foretold
      PROVE  Shown'
  <2>1. /\ UNCHANGED <<declared, desired, outcome, opts, todo, pc, stored>>
        /\ drifted' = drifted \cup {o} /\ \A p \in Objects \ {o} : live'[p] = live[p]
    BY <1>1, <1>6 DEF Drift, TypeOK
  <2>2. \A m : Current(m)' = Current(m)
    BY <2>1, SameRendering
  <2>3. PlanShown'
    BY <1>6, <2>1 DEF ReportsIInv, PlanShown, Rendered
  <2>4. DiffShown'
    BY <1>6, <2>1, <2>2 DEF ReportsIInv, DiffShown, ComputeDiff
  <2>5. ASSUME NEW m, NEW k \in Key, Open(m, k) \/ Settled(m, k)
        PROVE  Open(m, k)' \/ Settled(m, k)'
    <3>1. ComputeDiff(m, stored[m])' = ComputeDiff(m, stored[m])
      BY <2>1, <2>2 DEF ComputeDiff
    <3>2. Open(m, k) => Open(m, k)'
      BY <2>1, <3>1 DEF Open
    <3>3. k[1] \in Objects
      BY DEF Key
    <3>4. Settled(m, k) => Settled(m, k)'
      BY <2>1, <2>2, <3>3 DEF Settled
    <3> QED BY <2>5, <3>2, <3>4
  <2>6. ShownIsDone'
    BY <1>6, <2>1, <2>5 DEF ReportsIInv, ShownIsDone
  <2>7. \A m \in declared : Renders[m] \subseteq Objects
    BY <1>1, ConstantsAssumption DEF TypeOK
  <2>8. AnnouncedIsDone'
    BY <1>6, <2>1, <2>7 DEF ReportsIInv, AnnouncedIsDone, Rendered
  <2> QED BY <2>3, <2>4, <2>6, <2>8
<1>7. CASE UNCHANGED vars /\ UNCHANGED foretold
  <2>1. \A m : Current(m)' = Current(m)
    BY <1>7, SameRendering DEF vars
  <2>2. PlanShown' /\ DiffShown' /\ AnnouncedIsDone'
    BY <1>7, <2>1 DEF vars, ReportsIInv, PlanShown, DiffShown, AnnouncedIsDone, Rendered, ComputeDiff
  <2>3. \A m, k : (Open(m, k)' <=> Open(m, k)) /\ (Settled(m, k)' <=> Settled(m, k))
    BY <1>7, <2>1 DEF vars, Open, Settled, ComputeDiff
  <2>4. ShownIsDone'
    BY <1>7, <2>3 DEF vars, ReportsIInv, ShownIsDone
  <2> QED BY <2>2, <2>4
<1> QED
  BY <1>2, <1>3, <1>4, <1>5, <1>6, <1>7
     DEF ReportsNext, Proceed, RunFails, Crash, Environment, RemoveManifest, Edit, Rest, reportVars

(* While a run that was foretold goes on, what was shown still bounds what *)
(* it may change (see ReportsIInv).                                        *)
THEOREM ReportsInvariant ==
    ASSUME OneVersion, OwnObjects
    PROVE  ReportsSpec => []ReportsIInv
BY ReportsInitInvariant, ReportsNextKeepsInvariant, PTL DEF ReportsSpec

(* What plan and state diff showed the operator is what the run does.      *)
THEOREM RunDoesWhatWasShown ==
    ASSUME OneVersion, OwnObjects
    PROVE  ReportsSpec => ReportsForetell
<1>1. ASSUME ReportsIInv, [ReportsNext]_reportVars, NEW o \in Objects, ChangedByRun(o)
      PROVE  /\ opts.kind = "apply" => \/ o \in foretold.plan \cup drifted \cup Immutable
                                       \/ \E m \in Genesis : o \in Rendered(m)
             /\ opts.kind = "sync" => o \in foretold.diff
  <2>1. TypeOK /\ RenderedOnly /\ Control /\ RunProgress
    BY <1>1 DEF ReportsIInv, SyncIInv
  <2>2. PICK m \in Manifests : ManifestStep(m)
    BY <1>1, <2>1, ReportsStep
       DEF Next, Rest, vars, StartRun, RunSucceeds, RunFails, Crash, Environment,
           RemoveManifest, Edit, Drift, TypeOK, ChangedByRun
  <2>3. PICK k \in todo[m] : ApplyEntry(m, k) \/ PruneEntry(m, k) \/ DestroyEntry(m, k) \/ EntryFails(m, k)
    BY <1>1, <2>2 DEF ChangedByRun, ManifestStep, Begin, BeginFails, NotReady, SaveState, SaveFails,
                      BufferState, TestsEnd, DestroyDone, SavePending, SavePendingFails, KeepRemoved
  <2>4. k \in Key /\ k[1] \in Objects /\ outcome = "running" /\ m \in declared /\ pc[m] = "working"
    BY <2>1, <2>2, <2>3, ManifestStepRuns
       DEF TypeOK, Key, ApplyEntry, PruneEntry, DestroyEntry, EntryFails, Processing
  <2>5. PICK content : /\ Write(m, k[1], content)
                       /\ opts.kind = "apply" /\ k[1] \notin Immutable => content = Current(m)[k]
    BY <1>1, <2>3, <2>4
       DEF ApplyEntry, PruneEntry, DestroyEntry, EntryFails, PartialEffects, ChangedByRun
  <2>6. o = k[1] /\ live'[o] = content
    BY <1>1, <2>1, <2>4, <2>5 DEF Write, ChangedByRun, TypeOK
  <2>7. ASSUME opts.kind = "apply"
        PROVE  \/ o \in foretold.plan \cup drifted \cup Immutable
               \/ \E n \in Genesis : o \in Rendered(n)
    <3>1. Current(m)[k] # None
      BY <2>1, <2>4, <2>7 DEF RunProgress, ManifestProgress, WorkList
    <3>2. o \in Rendered(m) /\ Current(m)[k] = desired[m][o].content
      BY <2>1, <2>4, <2>6, <3>1, CurrentOfObject DEF Rendered
    <3> QED BY <1>1, <2>4, <2>5, <2>6, <2>7, <3>2 DEF ReportsIInv, PlanShown, ChangedByRun
  <2>8. opts.kind = "sync" => o \in foretold.diff
    BY <1>1, <2>4, <2>6 DEF ReportsIInv, DiffShown
  <2> QED BY <2>7, <2>8
<1>2. ReportsIInv /\ [ReportsNext]_reportVars =>
        [\A o \in Objects : ChangedByRun(o) =>
           /\ opts.kind = "apply" => \/ o \in foretold.plan \cup drifted \cup Immutable
                                     \/ \E m \in Genesis : o \in Rendered(m)
           /\ opts.kind = "sync" => o \in foretold.diff]_reportVars
  BY <1>1
<1> QED BY <1>2, ReportsInvariant, PTL DEF ReportsSpec, ReportsForetell

(* state drift gives no false alarm after a successful apply.              *)
THEOREM DriftIsNoFalseAlarm ==
    ASSUME OneVersion, OwnObjects
    PROVE  ReportsSpec => []DriftMeansTouched
<1>1. SyncIInv => DriftMeansTouched
  <2> SUFFICES ASSUME SyncIInv, outcome = "ok", opts.kind # "destroy", NEW m \in declared \ excused,
                      NEW k \in StateDrift(m), k[1] \notin Defaulted
               PROVE  <<m, k[1]>> \in unsaved /\ Current(m)[k] = None
    BY DEF DriftMeansTouched
  <2>1. m \in Manifests /\ k \in Key /\ stored[m][k] # None
    BY DEF SyncIInv, TypeOK, StateDrift, Keys
  <2>2. live[k[1]] # stored[m][k]
    BY <2>1 DEF StateDrift, DriftType, LiveEquals
  <2>3. <<m, k[1]>> \in unsaved /\ stored[m][k] # Current(m)[k]
    BY <2>1, <2>2 DEF SyncIInv, StateTruthful
  <2> QED BY <2>1, <2>3 DEF SyncIInv, SuccessRecordsDeclaration
<1> QED BY <1>1, ReportsInvariant, PTL DEF ReportsIInv

(* All that was shown is done when a run succeeds: what state diff lists   *)
(* is what SyncManifest works off later, down to the last key, also when   *)
(* crashes, destroy or changes by others have spoiled the state.           *)
THEOREM RunDoesAllThatWasShown ==
    ASSUME OneVersion, OwnObjects
    PROVE  ReportsSpec => []AnnouncedIsDone
<1>1. ReportsIInv => AnnouncedIsDone
  BY DEF ReportsIInv
<1> QED BY <1>1, ReportsInvariant, PTL
=============================================================================
