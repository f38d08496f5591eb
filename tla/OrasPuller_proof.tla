-------------------------- MODULE OrasPuller_proof --------------------------
(***************************************************************************)
(* Proofs about OrasPuller, for any number of processes, pulls and moved   *)
(* tags, and whatever crashes: what a reference resolves to, the limits of *)
(* the extractor, and that a cached artifact is whole.                     *)
(***************************************************************************)
EXTENDS OrasPuller, TLAPS

-----------------------------------------------------------------------------
(***************************************************************************)
(* The inductive invariant.                                                *)
(***************************************************************************)
PullTypes ==
    /\ registry \in [Tags -> Digests]
    /\ refs \in [Tags -> Digests \cup {Absent}]
    /\ spec \in [Pulls -> Specs]
    /\ pc \in [Pulls -> Places]
    /\ dig \in [Pulls -> Digests \cup {Absent}]
    /\ served \in [Tags -> SUBSET Digests]
    /\ seen \in [Pulls -> SUBSET Digests]

(* The history of a tag contains what the registry says now, what the refs *)
(* mapping remembers and what any pull has seen of it.                     *)
HistoryComplete ==
    /\ \A t \in Tags : registry[t] \in served[t]
    /\ \A t \in Tags : refs[RefKey[t]] # Absent => refs[RefKey[t]] \in served[t]
    /\ \A p \in Pulls : ~IsDigest(p) => seen[p] \subseteq served[spec[p].ref]
    /\ \A p \in Pulls : ~IsDigest(p) /\ pc[p] \notin Ended \cup {"lookup"}
                            => registry[spec[p].ref] \in seen[p]

(* The digest a pull works with. *)
Rightful(p) == dig[p] \in IF NoCache(p) THEN seen[p] ELSE served[spec[p].ref]

DigestKnown ==
    \A p \in Pulls :
        /\ IsDigest(p) /\ pc[p] \notin {"lookup", "failed", "dead"} => dig[p] = spec[p].ref
        /\ ~IsDigest(p) /\ pc[p] = "check" /\ dig[p] # Absent => ~NoCache(p) /\ Rightful(p)
        /\ ~IsDigest(p) /\ pc[p] \notin {"lookup", "check", "resolve", "failed", "dead"}
              => Rightful(p)

PullIInv == PullTypes /\ HistoryComplete /\ DigestKnown

(* No two tags share a file under refs/. *)
OwnRefKeys == \A s, t \in Tags : RefKey[s] = RefKey[t] => s = t

LEMMA TagReference ==
    ASSUME PullTypes, NEW p \in Pulls, ~IsDigest(p)
    PROVE  spec[p].ref \in Tags
<1>1. spec[p] \in Specs
  BY DEF PullTypes
<1>2. spec[p].ref \in Tags \cup Digests
  BY <1>1, OrasAssumption
<1> QED BY <1>2 DEF IsDigest

LEMMA PullInitInvariant == Init => PullIInv
<1> SUFFICES ASSUME Init PROVE PullIInv
  OBVIOUS
<1> USE DEF Init
<1>1. PullTypes
  BY DEF PullTypes, Places
<1>2. HistoryComplete
  <2>1. \A t \in Tags : RefKey[t] \in Tags
    BY OrasAssumption
  <2> QED BY <1>1, <2>1, TagReference DEF HistoryComplete, PullTypes
<1>3. DigestKnown
  BY DEF DigestKnown
<1> QED BY <1>1, <1>2, <1>3 DEF PullIInv

-----------------------------------------------------------------------------
(* Where a pull may go without a new digest. *)
Forward(from, to) ==
    \/ to = from
    \/ to \in {"failed", "dead"}
    \/ from = "check" /\ to = "resolve"
    \/ /\ from \notin {"lookup", "check", "resolve"} \cup Ended
       /\ to \in Places \ {"lookup", "check", "resolve"}

(* A step that only moves pulls forward keeps the invariant. *)
LEMMA MovesKeepInvariant ==
    ASSUME PullIInv, UNCHANGED <<registry, refs, spec, opts, dig, served, seen>>,
           pc' \in [Pulls -> Places], \A p \in Pulls : Forward(pc[p], pc'[p])
    PROVE  PullIInv'
<1> USE DEF PullIInv
<1>1. PullTypes'
  BY DEF PullTypes
<1>2. \A p \in Pulls : /\ IsDigest(p)' <=> IsDigest(p)
                       /\ NoCache(p)' <=> NoCache(p)
                       /\ Rightful(p)' <=> Rightful(p)
  BY DEF IsDigest, NoCache, Rightful
<1>3. HistoryComplete'
  <2>1. \A p \in Pulls : pc'[p] \notin Ended \cup {"lookup"} => pc[p] \notin Ended \cup {"lookup"}
    BY DEF Forward, Ended, PullTypes, Places
  <2> QED BY <1>2, <2>1 DEF HistoryComplete
<1>4. DigestKnown'
  <2> SUFFICES ASSUME NEW p \in Pulls
               PROVE  /\ IsDigest(p) /\ pc'[p] \notin {"lookup", "failed", "dead"} => dig[p] = spec[p].ref
                      /\ ~IsDigest(p) /\ pc'[p] = "check" /\ dig[p] # Absent => ~NoCache(p) /\ Rightful(p)
                      /\ ~IsDigest(p) /\ pc'[p] \notin {"lookup", "check", "resolve", "failed", "dead"}
                            => Rightful(p)
    BY <1>2 DEF DigestKnown
  <2>1. Forward(pc[p], pc'[p])
    OBVIOUS
  <2> QED BY <2>1 DEF Forward, DigestKnown, Ended, Places
<1> QED BY <1>1, <1>3, <1>4

-----------------------------------------------------------------------------
LEMMA LookupKeepsInvariant ==
    ASSUME PullIInv, NEW p \in Pulls, Lookup(p)
    PROVE  PullIInv'
<1> USE DEF PullIInv
<1> DEFINE ref == spec[p].ref
<1>1. /\ pc' = [pc EXCEPT ![p] = "check"]
      /\ seen' = [seen EXCEPT ![p] = IF IsDigest(p) THEN {} ELSE {registry[ref]}]
      /\ dig' = [dig EXCEPT ![p] = IF IsDigest(p) THEN ref
                                   ELSE IF ~NoCache(p) THEN refs[RefKey[ref]] ELSE Absent]
      /\ UNCHANGED <<registry, refs, spec, opts, served>>
  BY DEF Lookup, Goto, MayUseCache, ReadRefMapping, cacheVars
<1>2. /\ IsDigest(p) => ref \in Digests
      /\ ~IsDigest(p) => /\ ref \in Tags /\ registry[ref] \in Digests /\ RefKey[ref] \in Tags
                         /\ refs[RefKey[ref]] \in Digests \cup {Absent}
  BY TagReference, OrasAssumption DEF IsDigest, PullTypes
<1>3. \A q \in Pulls : /\ IsDigest(q)' <=> IsDigest(q)
                       /\ NoCache(q)' <=> NoCache(q)
  BY <1>1 DEF IsDigest, NoCache
<1>4. /\ \A q \in Pulls : q # p => pc'[q] = pc[q] /\ dig'[q] = dig[q] /\ seen'[q] = seen[q]
      /\ pc'[p] = "check"
      /\ IsDigest(p) => dig'[p] = ref
      /\ ~IsDigest(p) => seen'[p] = {registry[ref]}
      /\ ~IsDigest(p) => dig'[p] = IF NoCache(p) THEN Absent ELSE refs[RefKey[ref]]
  BY <1>1 DEF PullTypes
<1>5. PullTypes'
  <2>1. pc' \in [Pulls -> Places]
    BY <1>1 DEF PullTypes, Places
  <2>2. dig' \in [Pulls -> Digests \cup {Absent}] /\ seen' \in [Pulls -> SUBSET Digests]
    BY <1>1, <1>2 DEF PullTypes
  <2> QED BY <1>1, <2>1, <2>2 DEF PullTypes
<1>6. HistoryComplete'
  BY <1>1, <1>2, <1>3, <1>4 DEF HistoryComplete
<1>7. \A q \in Pulls : q # p => (Rightful(q)' <=> Rightful(q))
  BY <1>1, <1>3, <1>4 DEF Rightful
<1>8. ~IsDigest(p) /\ dig'[p] # Absent => ~NoCache(p) /\ Rightful(p)'
  BY <1>1, <1>2, <1>3, <1>4 DEF Rightful, HistoryComplete
<1>9. DigestKnown'
  BY <1>1, <1>3, <1>4, <1>7, <1>8 DEF DigestKnown
<1> QED BY <1>5, <1>6, <1>9

LEMMA ResolveKeepsInvariant ==
    ASSUME PullIInv, NEW p \in Pulls, Resolve(p)
    PROVE  PullIInv'
<1> USE DEF PullIInv
<1> DEFINE ref == spec[p].ref
<1>1. /\ pc' = [pc EXCEPT ![p] = IF NoCache(p) THEN "remove" ELSE "recheck"]
      /\ dig' = [dig EXCEPT ![p] = IF IsDigest(p) THEN ref ELSE registry[ref]]
      /\ UNCHANGED <<registry, refs, spec, opts, served, seen>>
      /\ pc[p] = "resolve"
  BY DEF Resolve, Goto, cacheVars, history
<1>2. /\ IsDigest(p) => ref \in Digests
      /\ ~IsDigest(p) => ref \in Tags /\ registry[ref] \in Digests
  BY TagReference DEF IsDigest, PullTypes
<1>3. \A q \in Pulls : /\ IsDigest(q)' <=> IsDigest(q)
                       /\ NoCache(q)' <=> NoCache(q)
  BY <1>1 DEF IsDigest, NoCache
<1>4. /\ \A q \in Pulls : q # p => pc'[q] = pc[q] /\ dig'[q] = dig[q]
      /\ pc'[p] \in {"remove", "recheck"}
      /\ IsDigest(p) => dig'[p] = ref
      /\ ~IsDigest(p) => dig'[p] = registry[ref]
  BY <1>1 DEF PullTypes
<1>5. PullTypes'
  <2>1. pc' \in [Pulls -> Places]
    BY <1>1 DEF PullTypes, Places
  <2>2. dig' \in [Pulls -> Digests \cup {Absent}]
    BY <1>1, <1>2 DEF PullTypes
  <2> QED BY <1>1, <2>1, <2>2 DEF PullTypes
<1>6. HistoryComplete'
  BY <1>1, <1>3, <1>4 DEF HistoryComplete, Ended
<1>7. \A q \in Pulls : q # p => (Rightful(q)' <=> Rightful(q))
  BY <1>1, <1>3, <1>4 DEF Rightful
<1>8. ~IsDigest(p) => Rightful(p)'
  BY <1>1, <1>2, <1>3, <1>4 DEF Rightful, HistoryComplete, Ended
<1>9. DigestKnown'
  BY <1>1, <1>3, <1>4, <1>7, <1>8 DEF DigestKnown
<1> QED BY <1>5, <1>6, <1>9

LEMMA WriteRefMappingKeepsInvariant ==
    ASSUME PullIInv, OwnRefKeys, NEW p \in Pulls, ~IsDigest(p), WriteRefMapping(p)
    PROVE  PullIInv'
<1> USE DEF PullIInv
<1> DEFINE ref == spec[p].ref
<1>1. /\ pc[p] = "map" /\ pc' = [pc EXCEPT ![p] = "delegate"]
      /\ refs' = [refs EXCEPT ![RefKey[ref]] = dig[p]]
      /\ UNCHANGED <<registry, spec, opts, dig, served, seen>>
  BY DEF WriteRefMapping, Goto, history
<1>2. ref \in Tags /\ RefKey[ref] \in Tags
  BY TagReference, OrasAssumption
<1>3. dig[p] \in served[ref]
  BY <1>1 DEF DigestKnown, Rightful, HistoryComplete
<1>4. \A q \in Pulls : /\ IsDigest(q)' <=> IsDigest(q)
                       /\ NoCache(q)' <=> NoCache(q)
                       /\ Rightful(q)' <=> Rightful(q)
  BY <1>1 DEF IsDigest, NoCache, Rightful
<1>5. /\ \A q \in Pulls : q # p => pc'[q] = pc[q]
      /\ pc'[p] = "delegate"
  BY <1>1 DEF PullTypes
<1>6. PullTypes'
  <2>1. pc' \in [Pulls -> Places]
    BY <1>1 DEF PullTypes, Places
  <2>2. refs' \in [Tags -> Digests \cup {Absent}]
    BY <1>1, <1>2 DEF PullTypes
  <2> QED BY <1>1, <2>1, <2>2 DEF PullTypes
<1>7. HistoryComplete'
  <2>1. \A t \in Tags : refs'[RefKey[t]] # Absent => refs'[RefKey[t]] \in served[t]
    <3> SUFFICES ASSUME NEW t \in Tags, refs'[RefKey[t]] # Absent
                 PROVE  refs'[RefKey[t]] \in served[t]
      OBVIOUS
    <3>1. RefKey[t] \in Tags
      BY OrasAssumption
    <3>2. CASE t = ref
      BY <1>1, <1>2, <1>3, <3>2 DEF PullTypes
    <3>3. CASE t # ref
      <4>1. RefKey[t] # RefKey[ref]
        BY <1>2, <3>3 DEF OwnRefKeys
      <4>2. refs'[RefKey[t]] = refs[RefKey[t]]
        BY <1>1, <3>1, <4>1 DEF PullTypes
      <4> QED BY <4>2 DEF HistoryComplete
    <3> QED BY <3>2, <3>3
  <2> QED BY <1>1, <1>4, <1>5, <2>1 DEF HistoryComplete, Ended
<1>8. DigestKnown'
  BY <1>1, <1>4, <1>5 DEF DigestKnown
<1> QED BY <1>6, <1>7, <1>8

LEMMA RetagKeepsInvariant ==
    ASSUME PullIInv, NEW t \in Tags, NEW d \in Digests, Retag(t, d)
    PROVE  PullIInv'
<1> USE DEF PullIInv
<1>1. /\ registry' = [registry EXCEPT ![t] = d]
      /\ served' = [served EXCEPT ![t] = served[t] \cup {d}]
      /\ seen' = [p \in Pulls |-> IF spec[p].ref = t /\ pc[p] \notin Ended \cup {"lookup"}
                                  THEN seen[p] \cup {d} ELSE seen[p]]
      /\ UNCHANGED <<refs, spec, opts, pc, dig>>
  BY DEF Retag, cacheVars
<1>2. \A q \in Pulls : /\ IsDigest(q)' <=> IsDigest(q)
                       /\ NoCache(q)' <=> NoCache(q)
  BY <1>1 DEF IsDigest, NoCache
<1>3. PullTypes'
  BY <1>1 DEF PullTypes
<1>4. /\ \A u \in Tags : served[u] \subseteq served'[u]
      /\ d \in served'[t] /\ registry'[t] = d
      /\ \A u \in Tags : u # t => registry'[u] = registry[u]
      /\ \A p \in Pulls : seen[p] \subseteq seen'[p]
      /\ \A p \in Pulls : spec[p].ref # t => seen'[p] = seen[p]
      /\ \A p \in Pulls : spec[p].ref = t => seen'[p] \subseteq seen[p] \cup {d}
      /\ \A p \in Pulls : spec[p].ref = t /\ pc[p] \notin Ended \cup {"lookup"} => d \in seen'[p]
  BY <1>1 DEF PullTypes
<1>5. HistoryComplete'
  <2>1. \A u \in Tags : registry'[u] \in served'[u]
    BY <1>4 DEF HistoryComplete
  <2>2. \A u \in Tags : refs'[RefKey[u]] # Absent => refs'[RefKey[u]] \in served'[u]
    BY <1>1, <1>4 DEF HistoryComplete
  <2>3. \A p \in Pulls : ~IsDigest(p)' => seen'[p] \subseteq served'[spec'[p].ref]
    <3> SUFFICES ASSUME NEW p \in Pulls, ~IsDigest(p)
                 PROVE  seen'[p] \subseteq served'[spec[p].ref]
      BY <1>1, <1>2
    <3>1. spec[p].ref \in Tags /\ seen[p] \subseteq served[spec[p].ref]
      BY TagReference DEF HistoryComplete
    <3> QED BY <1>4, <3>1
  <2>4. \A p \in Pulls : ~IsDigest(p)' /\ pc'[p] \notin Ended \cup {"lookup"}
                             => registry'[spec'[p].ref] \in seen'[p]
    <3> SUFFICES ASSUME NEW p \in Pulls, ~IsDigest(p), pc[p] \notin Ended \cup {"lookup"}
                 PROVE  registry'[spec[p].ref] \in seen'[p]
      BY <1>1, <1>2
    <3>1. spec[p].ref \in Tags /\ registry[spec[p].ref] \in seen[p]
      BY TagReference DEF HistoryComplete
    <3> QED BY <1>4, <3>1
  <2> QED BY <2>1, <2>2, <2>3, <2>4 DEF HistoryComplete
<1>6. \A q \in Pulls : ~IsDigest(q) /\ Rightful(q) => Rightful(q)'
  BY <1>1, <1>2, <1>4, TagReference DEF Rightful
<1>7. DigestKnown'
  BY <1>1, <1>2, <1>6 DEF DigestKnown
<1> QED BY <1>3, <1>5, <1>7

-----------------------------------------------------------------------------
(* The steps that keep the digest. *)
LEMMA OtherStepsKeepInvariant ==
    ASSUME PullIInv, NEW p \in Pulls,
           \/ CheckCache(p) \/ OpenForRemoval(p) \/ RemoveFile(p) \/ RemoveDir(p)
           \/ Recheck(p) \/ Fetch(p) \/ ExtractEntry(p) \/ ExtractFails(p) \/ ExtractEnds(p)
           \/ Cleanup(p) \/ Rename(p) \/ AfterFailedRename(p)
           \/ PullFails(p) \/ PrepareDelegate(p) \/ DelegateReturns(p)
    PROVE  PullIInv'
<1> USE DEF PullIInv
<1>1. UNCHANGED <<registry, refs, spec, opts, dig, served, seen>>
  BY DEF CheckCache, OpenForRemoval, RemoveFile, RemoveDir, Recheck, Fetch, ExtractEntry,
         ExtractFails, ExtractEnds, Cleanup, Rename, AfterFailedRename, PullFails,
         PrepareDelegate, DelegateReturns, cacheVars, history
<1>2. CASE CheckCache(p) /\ MayUseCache(p) /\ dig[p] # Absent
  <2>1. PICK to \in {"delegate", "failed", "resolve"} : pc' = [pc EXCEPT ![p] = to] /\ pc[p] = "check"
    BY <1>2 DEF CheckCache, Goto
  <2>2. \A q \in Pulls : /\ IsDigest(q)' <=> IsDigest(q)
                         /\ NoCache(q)' <=> NoCache(q)
                         /\ Rightful(q)' <=> Rightful(q)
    BY <1>1 DEF IsDigest, NoCache, Rightful
  <2>3. pc'[p] = to /\ \A q \in Pulls : q # p => pc'[q] = pc[q]
    BY <2>1 DEF PullTypes
  <2>4. PullTypes'
    BY <1>1, <2>1 DEF PullTypes, Places, Ended
  <2>5. HistoryComplete'
    BY <1>1, <2>1, <2>2, <2>3 DEF HistoryComplete, Ended
  <2>6. DigestKnown'
    BY <1>1, <1>2, <2>1, <2>2, <2>3 DEF DigestKnown
  <2> QED BY <2>4, <2>5, <2>6
<1>3. CASE CheckCache(p) /\ ~(MayUseCache(p) /\ dig[p] # Absent)
  <2>1. PICK to \in {"failed", "resolve"} : pc' = [pc EXCEPT ![p] = to] /\ pc[p] = "check"
    BY <1>3 DEF CheckCache, Goto
  <2>2. pc' \in [Pulls -> Places] /\ \A q \in Pulls : Forward(pc[q], pc'[q])
    BY <2>1 DEF PullTypes, Places, Ended, Forward
  <2> QED BY <1>1, <2>2, MovesKeepInvariant
<1>4. CASE \/ OpenForRemoval(p) \/ RemoveFile(p) \/ RemoveDir(p)
           \/ Recheck(p) \/ Fetch(p) \/ ExtractEntry(p) \/ ExtractFails(p) \/ ExtractEnds(p)
           \/ Cleanup(p) \/ Rename(p) \/ AfterFailedRename(p) \/ PrepareDelegate(p)
           \/ DelegateReturns(p)
  <2>1. /\ pc[p] \notin {"lookup", "check", "resolve"} \cup Ended
        /\ \E to \in Places \ {"lookup", "check", "resolve"} : pc' = [pc EXCEPT ![p] = to]
    <3>1. CASE OpenForRemoval(p) \/ RemoveDir(p) \/ Recheck(p) \/ Fetch(p)
      BY <3>1 DEF OpenForRemoval, RemoveDir, Recheck, Fetch, Goto, Places, Ended
    <3>2. CASE ExtractEntry(p) \/ ExtractFails(p) \/ ExtractEnds(p) \/ Cleanup(p)
      BY <3>2 DEF ExtractEntry, ExtractFails, ExtractEnds, Extracting, Cleanup, Goto, Places, Ended
    <3>3. CASE Rename(p) \/ AfterFailedRename(p) \/ PrepareDelegate(p) \/ DelegateReturns(p)
      BY <3>3 DEF Rename, AfterFailedRename, AfterRename, PrepareDelegate, DelegateReturns, Goto,
                  Places, Ended
    <3>4. CASE RemoveFile(p)
      <4>1. pc' = [pc EXCEPT ![p] = "removing"] /\ pc[p] = "removing"
        BY <3>4 DEF RemoveFile, PullTypes
      <4> QED BY <4>1 DEF Places, Ended
    <3> QED BY <1>4, <3>1, <3>2, <3>3, <3>4
  <2>2. pc' \in [Pulls -> Places] /\ \A q \in Pulls : Forward(pc[q], pc'[q])
    BY <2>1 DEF PullTypes, Forward
  <2> QED BY <1>1, <2>2, MovesKeepInvariant
<1>5. CASE PullFails(p)
  <2>1. pc' = [pc EXCEPT ![p] = "failed"]
    BY <1>5 DEF PullFails, Goto
  <2>2. pc' \in [Pulls -> Places] /\ \A q \in Pulls : Forward(pc[q], pc'[q])
    BY <2>1 DEF PullTypes, Forward, Places, Ended
  <2> QED BY <1>1, <2>2, MovesKeepInvariant
<1> QED BY <1>2, <1>3, <1>4, <1>5

(* The mapping is written for tags only. *)
OnlyTagsMapped == \A p \in Pulls : pc[p] = "map" => ~IsDigest(p)

LEMMA CrashKeepsInvariant ==
    ASSUME PullIInv, NEW c \in Processes, Crash(c)
    PROVE  PullIInv'
<1>1. UNCHANGED <<registry, refs, spec, opts, dig, served, seen>>
  BY DEF Crash, cacheVars, history
<1>2. pc' \in [Pulls -> Places] /\ \A q \in Pulls : Forward(pc[q], pc'[q])
  BY DEF Crash, PullIInv, PullTypes, Forward, Places, Ended
<1> QED BY <1>1, <1>2, MovesKeepInvariant

LEMMA OnlyTagsMappedStep ==
    ASSUME PullIInv, OnlyTagsMapped, [Next]_vars
    PROVE  OnlyTagsMapped'
<1> SUFFICES ASSUME NEW p \in Pulls, pc'[p] = "map"
             PROVE  ~IsDigest(p)'
  BY DEF OnlyTagsMapped
<1>1. spec' = spec
  BY DEF Next, PullStep, Lookup, CheckCache, Resolve, OpenForRemoval, RemoveFile, RemoveDir, Recheck,
         Fetch, ExtractEntry, ExtractFails, ExtractEnds, Cleanup, Rename, AfterFailedRename,
         WriteRefMapping, PullFails, PrepareDelegate, DelegateReturns, Crash, Retag, Rest, vars
<1>2. CASE pc[p] = "map"
  BY <1>1, <1>2 DEF OnlyTagsMapped, IsDigest
<1>3. CASE pc[p] # "map"
  <2>1. PICK q \in Pulls : PullStep(q)
    BY <1>3 DEF Next, Crash, Retag, Rest, vars, PullIInv, PullTypes
  <2>2. Recheck(q) \/ Rename(q) \/ AfterFailedRename(q)
    BY <1>3, <2>1 DEF PullStep, Lookup, CheckCache, Resolve, OpenForRemoval, RemoveFile, RemoveDir,
         Fetch, ExtractEntry, ExtractFails, ExtractEnds, Cleanup, WriteRefMapping, PullFails,
         PrepareDelegate, DelegateReturns, Goto, PullIInv, PullTypes
  <2>3. p = q /\ ~IsDigest(p)
    BY <1>3, <2>2 DEF Recheck, Rename, AfterFailedRename, AfterRename, Goto, PullIInv, PullTypes
  <2> QED BY <1>1, <2>3 DEF IsDigest
<1> QED BY <1>2, <1>3

LEMMA PullStepInvariant ==
    ASSUME OwnRefKeys, PullIInv, OnlyTagsMapped, [Next]_vars
    PROVE  PullIInv'
<1>1. CASE \E p \in Pulls : Lookup(p)
  BY <1>1, LookupKeepsInvariant
<1>2. CASE \E p \in Pulls : Resolve(p)
  BY <1>2, ResolveKeepsInvariant
<1>3. CASE \E p \in Pulls : WriteRefMapping(p)
  <2>1. PICK p \in Pulls : WriteRefMapping(p)
    BY <1>3
  <2>2. ~IsDigest(p)
    BY <2>1 DEF WriteRefMapping, OnlyTagsMapped
  <2> QED BY <2>1, <2>2, WriteRefMappingKeepsInvariant
<1>4. CASE \E t \in Tags, d \in Digests : Retag(t, d)
  BY <1>4, RetagKeepsInvariant
<1>5. CASE \E c \in Processes : Crash(c)
  BY <1>5, CrashKeepsInvariant
<1>6. CASE UNCHANGED vars
  <2>1. UNCHANGED <<registry, refs, spec, opts, dig, served, seen>> /\ pc' = pc
    BY <1>6 DEF vars
  <2> QED BY <2>1, MovesKeepInvariant DEF Forward, PullIInv, PullTypes
<1>7. CASE \E p \in Pulls :
             \/ CheckCache(p) \/ OpenForRemoval(p) \/ RemoveFile(p) \/ RemoveDir(p)
             \/ Recheck(p) \/ Fetch(p) \/ ExtractEntry(p) \/ ExtractFails(p) \/ ExtractEnds(p)
             \/ Cleanup(p) \/ Rename(p) \/ AfterFailedRename(p)
             \/ PullFails(p) \/ PrepareDelegate(p) \/ DelegateReturns(p)
  BY <1>7, OtherStepsKeepInvariant
<1> QED BY <1>1, <1>2, <1>3, <1>4, <1>5, <1>6, <1>7 DEF Next, PullStep, Rest

(* For any number of processes and pulls, any crashes and any movement of  *)
(* tags, the delegate works on a digest the reference stands for, provided *)
(* that sanitizeRef gives every tag a mapping file of its own.             *)
THEOREM PullResultServed ==
    ASSUME OwnRefKeys
    PROVE  Spec => []ResultWasServed
<1>1. Init => PullIInv /\ OnlyTagsMapped
  BY PullInitInvariant DEF Init, OnlyTagsMapped
<1>2. PullIInv /\ OnlyTagsMapped /\ [Next]_vars => (PullIInv /\ OnlyTagsMapped)'
  BY OnlyTagsMappedStep, PullStepInvariant
<1>3. PullIInv => ResultWasServed
  BY DEF PullIInv, DigestKnown, Rightful, ResultWasServed
<1> QED BY <1>1, <1>2, <1>3, PTL DEF Spec
-----------------------------------------------------------------------------
(***************************************************************************)
(* The cache directory.                                                    *)
(***************************************************************************)
Extraction == [entries : 0..MaxEntries, bytes : 0..(MaxTotalBytes + 1)]
Directory == [by : Pulls, files : SUBSET (1..MaxEntries)]

CacheTypes ==
    /\ registry \in [Tags -> Digests]
    /\ refs \in [Tags -> Digests \cup {Absent}]
    /\ blobs \in [Digests -> Directory \cup {Absent}]
    /\ tmp \in [Pulls -> Extraction \cup {Absent}]
    /\ spec \in [Pulls -> Specs]
    /\ pc \in [Pulls -> Places]
    /\ dig \in [Pulls -> Digests \cup {Absent}]
    /\ victim \in [Pulls -> Pulls \cup {Absent}]
    /\ scarred \subseteq Pulls

(* Past the registry a pull knows its digest.                              *)
DigestResolved ==
    \A p \in Pulls : pc[p] \notin {"lookup", "check", "resolve"} \cup Ended => dig[p] \in Digests

(* The directory that a RemoveAll deletes files from is marked.            *)
RemovalsScar == \A p \in Pulls : pc[p] = "removing" => victim[p] \in scarred

(* The first n entries are acceptable, and their sizes add up to bytes.    *)
Accepted(d, n, bytes) ==
    /\ n \in 0..Len(Archive[d]) /\ n <= MaxEntries
    /\ \A i \in 1..n : EntryAllowed(Archive[d][i], i)
    /\ \E total \in RunningTotals(d, n) : total[n] = bytes

ExtractionSound ==
    \A p \in Pulls :
        /\ pc[p] \in {"extract", "rename", "renamed"} =>
             tmp[p] \in Extraction /\ Accepted(dig[p], tmp[p].entries, tmp[p].bytes)
        /\ pc[p] \in {"rename", "renamed"} => tmp[p].entries = Len(Archive[dig[p]])

CacheIInv == CacheTypes /\ DigestResolved /\ RemovalsScar /\ ExtractionSound /\ CacheIsWhole

LEMMA ArchiveTyped ==
    ASSUME NEW d \in Digests
    PROVE  /\ Len(Archive[d]) \in Nat /\ DOMAIN Archive[d] = 1..Len(Archive[d])
           /\ \A i \in 1..Len(Archive[d]) : Archive[d][i] \in Entry
           /\ MaxEntries \in Nat /\ MaxTotalBytes \in Nat
<1>1. Archive[d] \in Seq(Entry)
  BY OrasAssumption
<1> QED BY <1>1, OrasAssumption

LEMMA NothingAccepted ==
    ASSUME NEW d \in Digests
    PROVE  Accepted(d, 0, 0)
<1> DEFINE zero == [i \in 0..0 |-> 0]
<1>1. zero \in RunningTotals(d, 0) /\ zero[0] = 0
  BY ArchiveTyped DEF RunningTotals
<1> QED BY <1>1, ArchiveTyped DEF Accepted

(* An entry more.  What is copied is the whole file unless the limit is    *)
(* exceeded.                                                               *)
LEMMA AcceptedGrows ==
    ASSUME NEW d \in Digests, NEW n, NEW bytes, Accepted(d, n, bytes), n < Len(Archive[d]),
           EntryAllowed(Archive[d][n + 1], n + 1)
    PROVE  LET sum == bytes + CopiedBytes(Archive[d][n + 1], bytes)
           IN  /\ n + 1 \in 0..MaxEntries /\ sum \in 0..(MaxTotalBytes + 1)
               /\ sum <= MaxTotalBytes => Accepted(d, n + 1, sum)
<1> DEFINE entry == Archive[d][n + 1]
           sum == bytes + CopiedBytes(entry, bytes)
<1>1. /\ n \in 0..Len(Archive[d]) /\ n \in Nat /\ n + 1 \in 1..Len(Archive[d])
      /\ \A i \in 1..n : EntryAllowed(Archive[d][i], i)
  BY ArchiveTyped DEF Accepted
<1>2. PICK total \in RunningTotals(d, n) : total[n] = bytes
  BY DEF Accepted
<1>3. entry \in Entry /\ MaxTotalBytes \in Nat
  BY <1>1, ArchiveTyped
<1>4. /\ total \in [0..n -> 0..MaxTotalBytes] /\ total[0] = 0
      /\ \A i \in 1..n : total[i] = total[i - 1] + FileSize(Archive[d][i])
      /\ bytes \in 0..MaxTotalBytes
  BY <1>1, <1>2 DEF RunningTotals
<1>5. entry.size \in Nat
  BY <1>3 DEF Entry
<1>6. sum \in 0..(MaxTotalBytes + 1)
  BY <1>3, <1>4, <1>5 DEF CopiedBytes
<1>7. sum <= MaxTotalBytes => sum = bytes + FileSize(entry)
  BY <1>3, <1>4, <1>5 DEF CopiedBytes, FileSize
<1>8. n + 1 \in 0..MaxEntries
  BY <1>1, ArchiveTyped DEF EntryAllowed
<1>9. ASSUME sum <= MaxTotalBytes PROVE Accepted(d, n + 1, sum)
  <2> DEFINE more == [i \in 0..(n + 1) |-> IF i = n + 1 THEN sum ELSE total[i]]
  <2> HIDE DEF sum, entry
  <2>1. more \in [0..(n + 1) -> 0..MaxTotalBytes]
    BY <1>1, <1>3, <1>4, <1>6, <1>9
  <2>2. more[0] = 0 /\ more[n + 1] = sum
    BY <1>1, <1>4
  <2>3. ASSUME NEW i \in 1..(n + 1) PROVE more[i] = more[i - 1] + FileSize(Archive[d][i])
    <3>1. CASE i = n + 1
      <4>1. more[i] = sum /\ more[i - 1] = bytes
        BY <1>1, <1>2, <3>1
      <4> QED BY <1>7, <1>9, <3>1, <4>1 DEF entry
    <3>2. CASE i # n + 1
      <4>1. i \in 1..n /\ more[i] = total[i] /\ more[i - 1] = total[i - 1]
        BY <1>1, <3>2
      <4> QED BY <1>4, <4>1
    <3> QED BY <3>1, <3>2
  <2>4. more \in RunningTotals(d, n + 1)
    BY <2>1, <2>2, <2>3 DEF RunningTotals
  <2>5. \A i \in 1..(n + 1) : EntryAllowed(Archive[d][i], i)
    BY <1>1
  <2>6. n + 1 \in 0..Len(Archive[d]) /\ n + 1 <= MaxEntries
    BY <1>1, <1>8
  <2> QED BY <2>2, <2>4, <2>5, <2>6 DEF Accepted
<1> QED BY <1>6, <1>8, <1>9

LEMMA AcceptedIsGood ==
    ASSUME NEW d \in Digests, NEW bytes, Accepted(d, Len(Archive[d]), bytes)
    PROVE  GoodArchive(d)
BY ArchiveTyped DEF Accepted, GoodArchive, EntryAllowed, SafeJoin, LinkAllowed

(* A pull changes its own state only.                                      *)
LEMMA OwnState ==
    ASSUME CacheTypes, NEW p \in Pulls, PullStep(p)
    PROVE  /\ \A q \in Pulls \ {p} : pc'[q] = pc[q] /\ tmp'[q] = tmp[q] /\ dig'[q] = dig[q]
                                     /\ victim'[q] = victim[q]
           /\ UNCHANGED spec
<1>1. \A q \in Pulls \ {p} : pc'[q] = pc[q]
  BY DEF CacheTypes, PullStep, Lookup, CheckCache, Resolve, OpenForRemoval, RemoveFile, RemoveDir, Recheck,
         Fetch, ExtractEntry, ExtractFails, ExtractEnds, Cleanup, Rename, AfterFailedRename,
         WriteRefMapping, PullFails, PrepareDelegate, DelegateReturns, Goto
<1>2. \A q \in Pulls \ {p} : tmp'[q] = tmp[q]
  BY DEF CacheTypes, PullStep, Lookup, CheckCache, Resolve, OpenForRemoval, RemoveFile, RemoveDir, Recheck,
         Fetch, ExtractEntry, ExtractFails, ExtractEnds, Cleanup, Rename, AfterFailedRename,
         WriteRefMapping, PullFails, PrepareDelegate, DelegateReturns
<1>3. \A q \in Pulls \ {p} : dig'[q] = dig[q] /\ victim'[q] = victim[q]
  BY DEF CacheTypes, PullStep, Lookup, CheckCache, Resolve, OpenForRemoval, RemoveFile, RemoveDir, Recheck,
         Fetch, ExtractEntry, ExtractFails, ExtractEnds, Cleanup, Rename, AfterFailedRename,
         WriteRefMapping, PullFails, PrepareDelegate, DelegateReturns
<1>4. UNCHANGED spec
  BY DEF PullStep, Lookup, CheckCache, Resolve, OpenForRemoval, RemoveFile, RemoveDir, Recheck,
         Fetch, ExtractEntry, ExtractFails, ExtractEnds, Cleanup, Rename, AfterFailedRename,
         WriteRefMapping, PullFails, PrepareDelegate, DelegateReturns
<1> QED BY <1>1, <1>2, <1>3, <1>4

(* A step of the environment leaves the cache and the digests alone.       *)
LEMMA EnvironmentLeavesCache ==
    ASSUME CacheIInv, \/ \E c \in Processes : Crash(c)
                      \/ \E t \in Tags, d \in Digests : Retag(t, d)
                      \/ UNCHANGED vars
    PROVE  CacheIInv'
<1>1. /\ UNCHANGED <<refs, blobs, tmp, spec, dig, victim, scarred>>
      /\ registry' \in [Tags -> Digests]
      /\ pc' \in [Pulls -> Places] /\ \A p \in Pulls : pc'[p] \in {pc[p], "dead"}
  BY DEF CacheIInv, CacheTypes, Crash, Retag, vars, cacheVars, history, Places, Ended
<1>2. CacheTypes' /\ DigestResolved' /\ RemovalsScar'
  BY <1>1 DEF CacheIInv, CacheTypes, DigestResolved, RemovalsScar, Ended
<1>3. ExtractionSound'
  BY <1>1 DEF CacheIInv, ExtractionSound, Accepted, RunningTotals, EntryAllowed
<1>4. CacheIsWhole'
  BY <1>1 DEF CacheIInv, CacheIsWhole, DirExists, GoodArchive, RunningTotals
<1> QED BY <1>2, <1>3, <1>4 DEF CacheIInv

(* What a reference is, and what a directory or extraction that is there.  *)
LEMMA CacheTyped ==
    ASSUME CacheTypes, NEW p \in Pulls
    PROVE  /\ spec[p].ref \in Tags \cup Digests
           /\ ~IsDigest(p) => RefKey[spec[p].ref] \in Tags /\ registry[spec[p].ref] \in Digests
           /\ \A d \in Digests : DirExists(d) => blobs[d] \in Directory
<1>1. spec[p] \in Specs
  BY DEF CacheTypes
<1>2. spec[p].ref \in Tags \cup Digests
  BY <1>1, OrasAssumption
<1> QED BY <1>2, OrasAssumption DEF CacheTypes, IsDigest, DirExists

LEMMA PullTypesStep ==
    ASSUME CacheIInv, NEW p \in Pulls, PullStep(p)
    PROVE  CacheTypes'
<1> USE DEF CacheIInv
<1>1. registry' \in [Tags -> Digests] /\ spec' \in [Pulls -> Specs]
  BY DEF CacheTypes, PullStep, Lookup, CheckCache, Resolve, OpenForRemoval, RemoveFile, RemoveDir, Recheck,
         Fetch, ExtractEntry, ExtractFails, ExtractEnds, Cleanup, Rename, AfterFailedRename,
         WriteRefMapping, PullFails, PrepareDelegate, DelegateReturns
<1>2. refs' \in [Tags -> Digests \cup {Absent}]
  <2>1. CASE WriteRefMapping(p)
    <3>1. dig[p] \in Digests
      BY <2>1 DEF WriteRefMapping, DigestResolved, Ended
    <3> QED BY <2>1, <3>1 DEF WriteRefMapping, CacheTypes
  <2>2. CASE UNCHANGED refs
    BY <2>2 DEF CacheTypes
  <2> QED BY <2>1, <2>2
       DEF PullStep, Lookup, CheckCache, Resolve, OpenForRemoval, RemoveFile, RemoveDir, Recheck,
         Fetch, ExtractEntry, ExtractFails, ExtractEnds, Cleanup, Rename, AfterFailedRename,
         PullFails, PrepareDelegate, DelegateReturns, cacheVars
<1>3. blobs' \in [Digests -> Directory \cup {Absent}]
  <2>1. CASE RemoveFile(p)
    <3>1. dig[p] \in Digests /\ DirExists(dig[p])
      BY <2>1 DEF RemoveFile, DigestResolved, Ended
    <3>2. blobs[dig[p]] \in Directory
      BY <3>1, CacheTyped
    <3>3. PICK f \in blobs[dig[p]].files :
            blobs' = [blobs EXCEPT ![dig[p]] = [blobs[dig[p]] EXCEPT !.files = @ \ {f}]]
      BY <2>1 DEF RemoveFile
    <3>4. [blobs[dig[p]] EXCEPT !.files = @ \ {f}] \in Directory
      BY <3>2 DEF Directory
    <3> QED BY <3>3, <3>4 DEF CacheTypes
  <2>2. CASE RemoveDir(p)
    BY <2>2 DEF RemoveDir, CacheTypes
  <2>3. CASE Rename(p)
    <3>1. tmp[p] \in Extraction
      BY <2>3 DEF Rename, ExtractionSound
    <3>2. [by |-> p, files |-> 1..tmp[p].entries] \in Directory
      BY <3>1, OrasAssumption DEF Extraction, Directory
    <3> QED BY <2>3, <3>2 DEF Rename, CacheTypes
  <2>4. CASE UNCHANGED blobs
    BY <2>4 DEF CacheTypes
  <2> QED BY <2>1, <2>2, <2>3, <2>4
       DEF PullStep, Lookup, CheckCache, Resolve, OpenForRemoval, Recheck, WriteRefMapping,
         Fetch, ExtractEntry, ExtractFails, ExtractEnds, Cleanup, AfterFailedRename,
         PullFails, PrepareDelegate, DelegateReturns, cacheVars
<1>4. tmp' \in [Pulls -> Extraction \cup {Absent}]
  <2>1. CASE ExtractEntry(p)
    <3>1. /\ dig[p] \in Digests /\ Accepted(dig[p], tmp[p].entries, tmp[p].bytes)
          /\ tmp[p].entries < Len(Archive[dig[p]])
          /\ EntryAllowed(Archive[dig[p]][tmp[p].entries + 1], tmp[p].entries + 1)
      BY <2>1 DEF ExtractEntry, Extracting, DigestResolved, ExtractionSound, Ended
    <3>2. [entries |-> tmp[p].entries + 1,
           bytes |-> tmp[p].bytes + CopiedBytes(Archive[dig[p]][tmp[p].entries + 1], tmp[p].bytes)]
             \in Extraction
      BY <3>1, AcceptedGrows DEF Extraction
    <3> QED BY <2>1, <3>2 DEF ExtractEntry, CacheTypes
  <2>2. CASE Fetch(p)
    <3>1. [entries |-> 0, bytes |-> 0] \in Extraction
      BY OrasAssumption DEF Extraction
    <3> QED BY <2>2, <3>1 DEF Fetch, CacheTypes
  <2>3. CASE tmp' \in {tmp, [tmp EXCEPT ![p] = Absent]}
    BY <2>3 DEF CacheTypes
  <2> QED BY <2>1, <2>2, <2>3
       DEF PullStep, Lookup, CheckCache, Resolve, OpenForRemoval, RemoveFile, RemoveDir, Recheck,
         ExtractFails, ExtractEnds, Cleanup, Rename, AfterFailedRename,
         WriteRefMapping, PullFails, PrepareDelegate, DelegateReturns
<1>5. pc' \in [Pulls -> Places]
  <2>1. \E to \in Places : pc' = [pc EXCEPT ![p] = to]
    <3>1. CASE RemoveFile(p)
      <4>1. pc' = [pc EXCEPT ![p] = pc[p]] /\ pc[p] \in Places
        BY <3>1 DEF RemoveFile, CacheTypes
      <4> QED BY <4>1
    <3>2. CASE ~RemoveFile(p)
      BY <3>2 DEF PullStep, Lookup, CheckCache, Resolve, OpenForRemoval, RemoveDir, Recheck,
         Fetch, ExtractEntry, ExtractFails, ExtractEnds, Cleanup, Rename, AfterFailedRename, AfterRename,
         WriteRefMapping, PullFails, PrepareDelegate, DelegateReturns, Goto, Places, Ended
    <3> QED BY <3>1, <3>2
  <2> QED BY <2>1 DEF CacheTypes
<1>6. dig' \in [Pulls -> Digests \cup {Absent}]
  <2>1. CASE Lookup(p)
    BY <2>1, CacheTyped DEF Lookup, IsDigest, ReadRefMapping, CacheTypes
  <2>2. CASE Resolve(p)
    BY <2>2, CacheTyped DEF Resolve, IsDigest, CacheTypes
  <2>3. CASE UNCHANGED dig
    BY <2>3 DEF CacheTypes
  <2> QED BY <2>1, <2>2, <2>3
       DEF PullStep, CheckCache, OpenForRemoval, RemoveFile, RemoveDir, Recheck,
         Fetch, ExtractEntry, ExtractFails, ExtractEnds, Cleanup, Rename, AfterFailedRename,
         WriteRefMapping, PullFails, PrepareDelegate, DelegateReturns
<1>7. victim' \in [Pulls -> Pulls \cup {Absent}] /\ scarred' \subseteq Pulls
  <2>1. CASE OpenForRemoval(p)
    <3>1. dig[p] \in Digests
      BY <2>1 DEF OpenForRemoval, DigestResolved, Ended
    <3>2. DirExists(dig[p]) => blobs[dig[p]].by \in Pulls
      BY <3>1, CacheTyped DEF Directory
    <3> QED BY <2>1, <3>2 DEF OpenForRemoval, CacheTypes
  <2>2. CASE UNCHANGED <<victim, scarred>>
    BY <2>2 DEF CacheTypes
  <2> QED BY <2>1, <2>2
       DEF PullStep, Lookup, CheckCache, Resolve, RemoveFile, RemoveDir, Recheck,
         Fetch, ExtractEntry, ExtractFails, ExtractEnds, Cleanup, Rename, AfterFailedRename,
         WriteRefMapping, PullFails, PrepareDelegate, DelegateReturns, history
<1> QED BY <1>1, <1>2, <1>3, <1>4, <1>5, <1>6, <1>7 DEF CacheTypes

LEMMA DigestResolvedStep ==
    ASSUME CacheIInv, NEW p \in Pulls, PullStep(p)
    PROVE  DigestResolved'
<1> USE DEF CacheIInv
<1>1. pc'[p] \notin {"lookup", "check", "resolve"} \cup Ended => dig'[p] \in Digests
  <2>1. CASE Resolve(p)
    BY <2>1, CacheTyped DEF Resolve, IsDigest, CacheTypes
  <2>2. CASE Lookup(p)
    BY <2>2 DEF Lookup, Goto, CacheTypes
  <2>3. CASE CheckCache(p)
    BY <2>3 DEF CheckCache, Goto, CacheTypes, Ended
  <2>4. CASE ~(Resolve(p) \/ Lookup(p) \/ CheckCache(p))
    <3>1. \/ UNCHANGED dig /\ pc[p] \notin {"lookup", "check", "resolve"} \cup Ended
          \/ pc'[p] = "failed"
      BY <2>4 DEF PullStep, OpenForRemoval, RemoveFile, RemoveDir, Recheck,
         Fetch, ExtractEntry, ExtractFails, ExtractEnds, Extracting, Cleanup, Rename, AfterFailedRename,
         WriteRefMapping, PullFails, PrepareDelegate, DelegateReturns, Goto, Ended, CacheTypes
    <3> QED BY <3>1 DEF DigestResolved, Ended
  <2> QED BY <2>1, <2>2, <2>3, <2>4
<1>2. \A q \in Pulls \ {p} : pc'[q] = pc[q] /\ dig'[q] = dig[q]
  BY OwnState
<1> QED BY <1>1, <1>2 DEF DigestResolved

LEMMA RemovalsScarStep ==
    ASSUME CacheIInv, NEW p \in Pulls, PullStep(p)
    PROVE  RemovalsScar'
<1> USE DEF CacheIInv
<1>1. scarred \subseteq scarred'
  BY DEF PullStep, Lookup, CheckCache, Resolve, OpenForRemoval, RemoveFile, RemoveDir, Recheck,
         Fetch, ExtractEntry, ExtractFails, ExtractEnds, Cleanup, Rename, AfterFailedRename,
         WriteRefMapping, PullFails, PrepareDelegate, DelegateReturns, history
<1>2. pc'[p] = "removing" => victim'[p] \in scarred'
  <2>1. CASE OpenForRemoval(p)
    BY <2>1 DEF OpenForRemoval, Goto, CacheTypes
  <2>2. CASE RemoveFile(p)
    BY <2>2 DEF RemoveFile, RemovalsScar, history
  <2>3. CASE ~(OpenForRemoval(p) \/ RemoveFile(p))
    <3>1. pc'[p] # "removing"
      BY <2>3 DEF PullStep, Lookup, CheckCache, Resolve, RemoveDir, Recheck,
         Fetch, ExtractEntry, ExtractFails, ExtractEnds, Cleanup, Rename, AfterFailedRename, AfterRename,
         WriteRefMapping, PullFails, PrepareDelegate, DelegateReturns, Goto, CacheTypes
    <3> QED BY <3>1
  <2> QED BY <2>1, <2>2, <2>3
<1>3. \A q \in Pulls \ {p} : pc'[q] = pc[q] /\ victim'[q] = victim[q]
  BY OwnState
<1> QED BY <1>1, <1>2, <1>3 DEF RemovalsScar

LEMMA ExtractionSoundStep ==
    ASSUME CacheIInv, NEW p \in Pulls, PullStep(p)
    PROVE  ExtractionSound'
<1> USE DEF CacheIInv
<1> DEFINE Sound(place, made, d) ==
             /\ place \in {"extract", "rename", "renamed"} =>
                  made \in Extraction /\ Accepted(d, made.entries, made.bytes)
             /\ place \in {"rename", "renamed"} => made.entries = Len(Archive[d])
<1>1. \A q \in Pulls : Sound(pc[q], tmp[q], dig[q])
  BY DEF ExtractionSound
<1>2. Sound(pc'[p], tmp'[p], dig'[p])
  <2>1. CASE Fetch(p)
    <3>1. pc'[p] = "extract" /\ tmp'[p] = [entries |-> 0, bytes |-> 0] /\ dig' = dig /\ dig[p] \in Digests
      BY <2>1 DEF Fetch, Goto, CacheTypes, DigestResolved, Ended
    <3>2. tmp'[p] \in Extraction
      BY <3>1, OrasAssumption DEF Extraction
    <3> QED BY <3>1, <3>2, NothingAccepted
  <2>2. CASE ExtractEntry(p)
    <3> DEFINE entry == Archive[dig[p]][tmp[p].entries + 1]
               sum == tmp[p].bytes + CopiedBytes(entry, tmp[p].bytes)
    <3>1. /\ dig[p] \in Digests /\ Accepted(dig[p], tmp[p].entries, tmp[p].bytes)
          /\ tmp[p].entries < Len(Archive[dig[p]]) /\ EntryAllowed(entry, tmp[p].entries + 1)
          /\ tmp' = [tmp EXCEPT ![p] = [entries |-> tmp[p].entries + 1, bytes |-> sum]]
          /\ pc' = [pc EXCEPT ![p] = IF sum > MaxTotalBytes THEN "cleanup" ELSE "extract"]
          /\ dig' = dig
      BY <2>2 DEF ExtractEntry, Extracting, DigestResolved, ExtractionSound, Ended, Goto
    <3>2. /\ tmp[p].entries + 1 \in 0..MaxEntries /\ sum \in 0..(MaxTotalBytes + 1)
          /\ sum <= MaxTotalBytes => Accepted(dig[p], tmp[p].entries + 1, sum)
      BY <3>1, AcceptedGrows
    <3> HIDE DEF sum
    <3>3. /\ tmp'[p] = [entries |-> tmp[p].entries + 1, bytes |-> sum]
          /\ pc'[p] = IF sum > MaxTotalBytes THEN "cleanup" ELSE "extract"
      BY <3>1 DEF CacheTypes
    <3>4. tmp'[p] \in Extraction
      BY <3>2, <3>3 DEF Extraction
    <3>5. CASE sum > MaxTotalBytes
      BY <3>3, <3>5
    <3>6. CASE ~(sum > MaxTotalBytes)
      <4>1. sum <= MaxTotalBytes
        BY <3>2, <3>6, OrasAssumption
      <4> QED BY <3>1, <3>2, <3>3, <3>4, <3>6, <4>1
    <3> QED BY <3>5, <3>6
  <2>3. CASE ExtractEnds(p)
    <3>1. /\ pc[p] = "extract" /\ pc'[p] = "rename" /\ UNCHANGED <<tmp, dig>> /\ dig[p] \in Digests
          /\ ~(tmp[p].entries < Len(Archive[dig[p]]))
      BY <2>3 DEF ExtractEnds, Extracting, Goto, CacheTypes, DigestResolved, Ended
    <3>2. tmp[p].entries \in 0..Len(Archive[dig[p]])
      BY <1>1, <3>1 DEF Accepted
    <3>3. tmp[p].entries = Len(Archive[dig[p]])
      BY <3>1, <3>2, ArchiveTyped
    <3> QED BY <1>1, <3>1, <3>3
  <2>4. CASE Rename(p)
    <3>1. /\ pc[p] = "rename" /\ dig' = dig
          /\ (pc'[p] = "renamed" /\ tmp' = tmp) \/ pc'[p] \in {"delegate", "map"}
      BY <2>4 DEF Rename, AfterRename, Goto, CacheTypes
    <3> QED BY <1>1, <3>1
  <2>5. CASE ~(Fetch(p) \/ ExtractEntry(p) \/ ExtractEnds(p) \/ Rename(p))
    <3>1. pc'[p] \notin {"extract", "rename", "renamed"}
      BY <2>5 DEF PullStep, Lookup, CheckCache, Resolve, OpenForRemoval, RemoveFile, RemoveDir, Recheck,
         ExtractFails, Cleanup, AfterFailedRename, AfterRename,
         WriteRefMapping, PullFails, PrepareDelegate, DelegateReturns, Goto, CacheTypes
    <3> QED BY <3>1
  <2> QED BY <2>1, <2>2, <2>3, <2>4, <2>5
<1>3. \A q \in Pulls \ {p} : pc'[q] = pc[q] /\ tmp'[q] = tmp[q] /\ dig'[q] = dig[q]
  BY OwnState
<1>4. \A q \in Pulls : Sound(pc'[q], tmp'[q], dig'[q])
  BY <1>1, <1>2, <1>3
<1> QED BY <1>4 DEF ExtractionSound, Accepted, RunningTotals, EntryAllowed

LEMMA CacheIsWholeStep ==
    ASSUME CacheIInv, NEW p \in Pulls, PullStep(p)
    PROVE  CacheIsWhole'
<1> USE DEF CacheIInv
<1> SUFFICES ASSUME NEW d \in Digests, blobs'[d] # Absent, blobs'[d].by \notin scarred'
             PROVE  GoodArchive(d) /\ blobs'[d].files = DOMAIN Archive[d]
  BY DEF CacheIsWhole, DirExists, GoodArchive, RunningTotals
<1>1. scarred \subseteq scarred'
  BY DEF PullStep, Lookup, CheckCache, Resolve, OpenForRemoval, RemoveFile, RemoveDir, Recheck,
         Fetch, ExtractEntry, ExtractFails, ExtractEnds, Cleanup, Rename, AfterFailedRename,
         WriteRefMapping, PullFails, PrepareDelegate, DelegateReturns, history
<1>2. CASE blobs'[d] = blobs[d]
  BY <1>1, <1>2 DEF CacheIsWhole, DirExists
<1>3. CASE RemoveFile(p) /\ blobs'[d] # blobs[d]
  <2>1. d = dig[p] /\ blobs[d] \in Directory /\ blobs[d].by = victim[p] /\ victim[p] \in scarred
    BY <1>3, CacheTyped DEF RemoveFile, CacheTypes, RemovalsScar
  <2>2. blobs'[d].by = blobs[d].by
    BY <1>3, <2>1 DEF RemoveFile, Directory, CacheTypes
  <2> QED BY <1>1, <2>1, <2>2
<1>4. CASE RemoveDir(p) /\ blobs'[d] # blobs[d]
  BY <1>4 DEF RemoveDir, CacheTypes
<1>5. CASE Rename(p) /\ blobs'[d] # blobs[d]
  <2>1. /\ d = dig[p] /\ blobs'[d] = [by |-> p, files |-> 1..tmp[p].entries]
        /\ tmp[p].entries = Len(Archive[d]) /\ Accepted(d, tmp[p].entries, tmp[p].bytes)
    BY <1>5 DEF Rename, CacheTypes, ExtractionSound
  <2>2. GoodArchive(d)
    BY <2>1, AcceptedIsGood
  <2> QED BY <2>1, <2>2, ArchiveTyped
<1>6. RemoveFile(p) \/ RemoveDir(p) \/ Rename(p) \/ UNCHANGED blobs
  BY DEF PullStep, Lookup, CheckCache, Resolve, OpenForRemoval, Recheck,
         Fetch, ExtractEntry, ExtractFails, ExtractEnds, Cleanup, AfterFailedRename,
         WriteRefMapping, PullFails, PrepareDelegate, DelegateReturns, cacheVars
<1> QED BY <1>2, <1>3, <1>4, <1>5, <1>6

LEMMA CacheInvariant == Spec => []CacheIInv
<1>1. Init => CacheIInv
  <2> SUFFICES ASSUME Init PROVE CacheIInv
    OBVIOUS
  <2>1. CacheTypes
    BY DEF Init, CacheTypes, Places
  <2>2. DigestResolved /\ RemovalsScar /\ ExtractionSound /\ CacheIsWhole
    BY DEF Init, DigestResolved, RemovalsScar, ExtractionSound, CacheIsWhole, DirExists
  <2> QED BY <2>1, <2>2 DEF CacheIInv
<1>2. CacheIInv /\ [Next]_vars => CacheIInv'
  <2>1. ASSUME CacheIInv, NEW p \in Pulls, PullStep(p) PROVE CacheIInv'
    BY <2>1, PullTypesStep, DigestResolvedStep, RemovalsScarStep, ExtractionSoundStep, CacheIsWholeStep
       DEF CacheIInv
  <2> QED BY <2>1, EnvironmentLeavesCache DEF Next, Rest
<1> QED BY <1>1, <1>2, PTL DEF Spec

(* The state of the pulls, the cache and the extractions is what it is     *)
(* meant to be: no extraction is above the limits by more than the byte    *)
(* that shows it.                                                          *)
THEOREM PullTypeCorrect == Spec => []TypeOK
<1>1. CacheIInv => TypeOK
  BY DEF CacheIInv, CacheTypes, TypeOK, Extraction, Directory
<1> QED BY <1>1, CacheInvariant, PTL

(* For any number of processes and pulls and whatever fails or crashes,    *)
(* what is under blobs/ and no RemoveAll has been at is a complete,        *)
(* acceptable artifact.                                                    *)
THEOREM CachedArtifactsAreWhole == Spec => []CacheIsWhole
<1>1. CacheIInv => CacheIsWhole
  BY DEF CacheIInv
<1> QED BY <1>1, CacheInvariant, PTL
=============================================================================
