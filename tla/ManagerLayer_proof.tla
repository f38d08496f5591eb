------------------------- MODULE ManagerLayer_proof -------------------------
(***************************************************************************)
(* Proofs about the managers of a process, the 1Password client and the    *)
(* discovery of capabilities they share, for any number of goroutines,     *)
(* manifests, items, releases and changes of the vault: first about the    *)
(* item cache alone, then about the discovery, then that both keep their   *)
(* guarantees among the managers, and what an apply leaves in the Secrets. *)
(***************************************************************************)
EXTENDS ManagerLayer, WellFoundedInduction, TLAPS

-----------------------------------------------------------------------------
(***************************************************************************)
(* The item cache.                                                         *)
(***************************************************************************)

(* Only failed entries leave the cache: every other entry is still the one *)
(* its item is looked up with.                                             *)
OnlyErrorsEvicted ==
    \A a \in DOMAIN entry : entry[a].status # "err" => cache[entry[a].item] = a

CachedUnderItsItem == \A i \in Items : cache[i] # 0 => entry[cache[i]].item = i

(* The command of an entry is run by one caller, before anyone returns. *)
OneFetcher ==
    /\ \A g \in Callers : call[g].at = "op" => entry[call[g].id].status = "running"
    /\ \A g \in Callers : call[g].at = "return" => entry[call[g].id].status \in {"ok", "err"}
    /\ \A g, h \in Callers :
         call[g].at = "op" /\ call[h].at = "op" /\ call[g].id = call[h].id => g = h

OpIInv == OpTypeOK /\ OnlyErrorsEvicted /\ CachedUnderItsItem /\ OneFetcher /\ ErrorsNotKept

(* The fields of an entry, and of the entries made so far. *)
LEMMA EntryFields ==
    ASSUME NEW x \in Entry
    PROVE  /\ x.item \in Items /\ x.status \in {"new", "running", "ok", "err"} /\ x.content \in Nat
           /\ \A st \in {"running", "err"} : [x EXCEPT !.status = st] \in Entry
           /\ \A c \in Nat : [x EXCEPT !.status = "ok", !.content = c] \in Entry
BY DEF Entry

LEMMA EntriesTyped ==
    ASSUME OpTypeOK
    PROVE  /\ Len(entry) \in Nat /\ DOMAIN entry = 1..Len(entry)
           /\ \A a \in DOMAIN entry : entry[a] \in Entry
           /\ \A i \in Items : cache[i] \in Nat /\ (cache[i] # 0 => cache[i] \in DOMAIN entry)
BY DEF OpTypeOK

(* Replacing one member of a sequence. *)
LEMMA ReplacedMember ==
    ASSUME NEW S, NEW q \in Seq(S), NEW n \in DOMAIN q, NEW x \in S
    PROVE  LET r == [q EXCEPT ![n] = x]
           IN  r \in Seq(S) /\ Len(r) = Len(q) /\ DOMAIN r = DOMAIN q
OBVIOUS

LEMMA OpInitInvariant == OpInit => OpIInv
BY DEF OpInit, OpIInv, OpTypeOK, OnlyErrorsEvicted, CachedUnderItsItem, OneFetcher,
       ErrorsNotKept, NoCall

(* Looking an item up keeps the invariant. *)
LEMMA LookupKeepsInvariant ==
    ASSUME OpIInv, NEW g \in Callers, NEW i \in Items, GetVaultItem(g, i)
    PROVE  OpIInv'
<1> USE DEF OpIInv
<1>1. CASE cache[i] # 0
  <2>1. /\ call' = [call EXCEPT ![g] = [at |-> "once", id |-> cache[i]]]
        /\ call[g].at = "none"
        /\ UNCHANGED <<cache, entry, vault>>
        /\ cache[i] \in Nat /\ cache[i] \in DOMAIN entry
    BY <1>1, EntriesTyped DEF GetVaultItem
  <2>2. OpTypeOK'
    BY <2>1 DEF OpTypeOK
  <2>3. OnlyErrorsEvicted' /\ CachedUnderItsItem'
    BY <2>1 DEF OnlyErrorsEvicted, CachedUnderItsItem
  <2>4. OneFetcher'
    BY <2>1 DEF OneFetcher, OpTypeOK
  <2>5. ErrorsNotKept'
    BY <2>1 DEF ErrorsNotKept, OpTypeOK
  <2> QED BY <2>2, <2>3, <2>4, <2>5
<1>2. CASE cache[i] = 0
  <2> DEFINE new == [item |-> i, status |-> "new", content |-> 0]
             n == Len(entry) + 1
  <2>1. /\ new \in Entry
        /\ entry' = Append(entry, new)
        /\ entry' \in Seq(Entry) /\ Len(entry') = n /\ n \in Nat /\ DOMAIN entry' = 1..n
        /\ entry'[n] = new
        /\ \A a \in DOMAIN entry : a \in DOMAIN entry' /\ entry'[a] = entry[a] /\ a # n
        /\ \A a \in DOMAIN entry' : a \in DOMAIN entry \/ a = n
        /\ DOMAIN entry = 1..Len(entry)
    <3>1. new \in Entry
      BY DEF Entry
    <3>2. entry' = Append(entry, new)
      BY <1>2 DEF GetVaultItem
    <3>3. entry \in Seq(Entry)
      BY DEF OpTypeOK
    <3> HIDE DEF new
    <3> QED BY <3>1, <3>2, <3>3
  <2>2. /\ cache' = [cache EXCEPT ![i] = n]
        /\ call' = [call EXCEPT ![g] = [at |-> "once", id |-> n]]
        /\ vault' = vault
    BY <1>2 DEF GetVaultItem
  <2> HIDE DEF new, n
  <2>3. OpTypeOK'
    <3>1. n \in DOMAIN entry'
      BY <2>1 DEF n, OpTypeOK
    <3>2. \A j \in Items : cache'[j] \in 0..Len(entry')
      BY <2>1, <2>2 DEF n, OpTypeOK
    <3>3. \A h \in Callers : call'[h].at # "none" => call'[h].id \in DOMAIN entry'
      BY <2>1, <2>2, <3>1 DEF OpTypeOK
    <3> QED BY <2>1, <2>2, <3>2, <3>3 DEF OpTypeOK
  <2>4. OnlyErrorsEvicted'
    <3>1. \A a \in DOMAIN entry : entry[a].status # "err" => entry[a].item # i
      BY <1>2, <2>1 DEF OnlyErrorsEvicted, OpTypeOK
    <3>2. \A a \in DOMAIN entry : entry[a].item \in Items
      BY EntriesTyped, EntryFields
    <3>3. new.item = i
      BY DEF new
    <3> QED BY <2>1, <2>2, <3>1, <3>2, <3>3 DEF OnlyErrorsEvicted, OpTypeOK
  <2>5. CachedUnderItsItem'
    <3>1. \A j \in Items : cache[j] # 0 => cache[j] \in DOMAIN entry
      BY <2>1 DEF OpTypeOK
    <3>2. new.item = i
      BY DEF new
    <3> QED BY <2>1, <2>2, <3>1, <3>2 DEF CachedUnderItsItem, OpTypeOK
  <2>6. OneFetcher'
    BY <2>1, <2>2 DEF OneFetcher, OpTypeOK
  <2>7. ErrorsNotKept'
    <3>1. \A j \in Items : cache[j] # 0 => cache[j] \in DOMAIN entry
      BY <2>1 DEF OpTypeOK
    <3>2. new.status = "new"
      BY DEF new
    <3>3. call[g].at = "none"
      BY DEF GetVaultItem
    <3>4. SUFFICES ASSUME NEW j \in Items, cache'[j] # 0, entry'[cache'[j]].status = "err"
                   PROVE  \E h \in Callers : call'[h] = [at |-> "return", id |-> cache'[j]]
      BY DEF ErrorsNotKept
    <3>5. j # i /\ cache'[j] = cache[j]
      BY <2>1, <2>2, <3>2, <3>4 DEF OpTypeOK
    <3>6. PICK h \in Callers : call[h] = [at |-> "return", id |-> cache[j]]
      BY <2>1, <3>1, <3>4, <3>5 DEF ErrorsNotKept
    <3> QED BY <2>2, <3>3, <3>5, <3>6 DEF OpTypeOK
  <2> QED BY <2>3, <2>4, <2>5, <2>6, <2>7
<1>3. cache[i] \in Nat
  BY DEF OpTypeOK
<1> QED BY <1>1, <1>2

(* Running the command, or waiting for it, keeps the invariant. *)
LEMMA FetchKeepsInvariant ==
    ASSUME OpIInv, NEW g \in Callers, OnceDo(g) \/ FetchVaultItem(g)
    PROVE  OpIInv'
<1> DEFINE id == call[g].id
<1> USE DEF OpIInv
<1>1. /\ id \in DOMAIN entry
      /\ entry[id] \in Entry
      /\ DOMAIN entry = 1..Len(entry)
  <2>1. id \in DOMAIN entry
    BY DEF OpTypeOK, OnceDo, FetchVaultItem
  <2> QED BY <2>1, EntriesTyped
<1>2. CASE OnceDo(g) /\ entry[id].status = "new"
  <2>1. /\ entry' = [entry EXCEPT ![id].status = "running"]
        /\ call' = [call EXCEPT ![g].at = "op"]
        /\ UNCHANGED <<cache, vault>>
        /\ call[g].at = "once"
    BY <1>2 DEF OnceDo
  <2>2. entry' \in Seq(Entry) /\ Len(entry') = Len(entry) /\ DOMAIN entry' = DOMAIN entry
    <3>1. [entry[id] EXCEPT !.status = "running"] \in Entry /\ entry \in Seq(Entry)
      BY <1>1, EntryFields DEF OpTypeOK
    <3>2. entry' = [entry EXCEPT ![id] = [entry[id] EXCEPT !.status = "running"]]
      BY <2>1
    <3> QED BY <1>1, <3>1, <3>2, ReplacedMember
  <2>3. OpTypeOK'
    BY <2>1, <2>2 DEF OpTypeOK
  <2>4. OnlyErrorsEvicted' /\ CachedUnderItsItem'
    BY <1>1, <1>2, <2>1, <2>2 DEF OnlyErrorsEvicted, CachedUnderItsItem, OpTypeOK
  <2>5. OneFetcher'
    BY <1>1, <1>2, <2>1, <2>2 DEF OneFetcher, OpTypeOK
  <2>6. ErrorsNotKept'
    BY <1>1, <1>2, <2>1, <2>2 DEF ErrorsNotKept, OpTypeOK
  <2> QED BY <2>3, <2>4, <2>5, <2>6
<1>3. CASE OnceDo(g) /\ entry[id].status # "new"
  <2>1. /\ call' = [call EXCEPT ![g].at = "return"]
        /\ UNCHANGED <<cache, vault, entry>>
        /\ call[g].at = "once"
        /\ entry[id].status \in {"ok", "err"}
    BY <1>1, <1>3, EntryFields DEF OnceDo
  <2>2. OpTypeOK' /\ OnlyErrorsEvicted' /\ CachedUnderItsItem'
    BY <2>1 DEF OpTypeOK, OnlyErrorsEvicted, CachedUnderItsItem
  <2>3. OneFetcher' /\ ErrorsNotKept'
    BY <2>1 DEF OneFetcher, ErrorsNotKept, OpTypeOK
  <2> QED BY <2>2, <2>3
<1>4. CASE FetchVaultItem(g)
  <2>1. /\ call' = [call EXCEPT ![g].at = "return"]
        /\ UNCHANGED <<cache, vault>>
        /\ call[g].at = "op"
        /\ vault[entry[id].item] \in Nat
    BY <1>1, <1>4, EntryFields DEF FetchVaultItem, OpTypeOK
  <2>2. PICK x \in Entry : /\ entry' = [entry EXCEPT ![id] = x]
                          /\ x.item = entry[id].item /\ x.status \in {"ok", "err"}
    <3> DEFINE ok == [entry[id] EXCEPT !.status = "ok", !.content = vault[entry[id].item]]
               err == [entry[id] EXCEPT !.status = "err"]
    <3>1. \/ entry' = [entry EXCEPT ![id] = ok]
          \/ entry' = [entry EXCEPT ![id] = err]
      BY <1>4 DEF FetchVaultItem
    <3>2. ok \in Entry /\ err \in Entry
      BY <1>1, <2>1, EntryFields
    <3>3. ok.item = entry[id].item /\ err.item = entry[id].item /\ ok.status = "ok" /\ err.status = "err"
      BY <1>1 DEF Entry
    <3> QED BY <3>1, <3>2, <3>3
  <2>3. entry' \in Seq(Entry) /\ Len(entry') = Len(entry) /\ DOMAIN entry' = DOMAIN entry
    BY <1>1, <2>2, ReplacedMember DEF OpTypeOK
  <2>4. /\ \A a \in DOMAIN entry : a # id => entry'[a] = entry[a]
        /\ entry'[id].item = entry[id].item
        /\ entry'[id].status \in {"ok", "err"}
    BY <1>1, <2>2
  <2>5. entry[id].status = "running" /\ cache[entry[id].item] = id
    BY <1>1, <2>1 DEF OneFetcher, OnlyErrorsEvicted
  <2>6. OpTypeOK'
    BY <2>1, <2>3 DEF OpTypeOK
  <2>7. OnlyErrorsEvicted' /\ CachedUnderItsItem'
    BY <1>1, <2>1, <2>3, <2>4, <2>5, EntriesTyped DEF OnlyErrorsEvicted, CachedUnderItsItem
  <2>8. OneFetcher'
    BY <1>1, <2>1, <2>3, <2>4, <2>5 DEF OneFetcher, OpTypeOK
  <2>9. ErrorsNotKept'
    <3>1. call'[g] = [at |-> "return", id |-> id]
      BY <2>1 DEF OpTypeOK
    <3>2. SUFFICES ASSUME NEW j \in Items, cache[j] # 0, entry'[cache[j]].status = "err"
                   PROVE  \E h \in Callers : call'[h] = [at |-> "return", id |-> cache[j]]
      BY <2>1 DEF ErrorsNotKept
    <3>3. CASE cache[j] = id
      BY <3>1, <3>3
    <3>4. CASE cache[j] # id
      <4>1. entry[cache[j]].status = "err"
        BY <2>4, <3>2, <3>4, EntriesTyped
      <4>2. PICK h \in Callers : call[h] = [at |-> "return", id |-> cache[j]]
        BY <3>2, <4>1 DEF ErrorsNotKept
      <4> QED BY <2>1, <4>2 DEF OpTypeOK
    <3> QED BY <3>3, <3>4
  <2> QED BY <2>6, <2>7, <2>8, <2>9
<1> QED BY <1>2, <1>3, <1>4

(* Returning an item or an error keeps the invariant. *)
LEMMA ReturnKeepsInvariant ==
    ASSUME OpIInv, NEW g \in Callers, ReturnItem(g) \/ ReturnError(g)
    PROVE  OpIInv'
<1> DEFINE id == call[g].id
           j == entry[id].item
<1> USE DEF OpIInv
<1>1. /\ id \in DOMAIN entry
      /\ entry[id] \in Entry /\ j \in Items
      /\ call' = [call EXCEPT ![g] = NoCall]
      /\ call[g].at = "return"
      /\ UNCHANGED <<entry, vault>>
  <2>1. /\ call[g].at = "return"
        /\ call' = [call EXCEPT ![g] = NoCall]
        /\ UNCHANGED <<entry, vault>>
    BY DEF ReturnItem, ReturnError, Returning
  <2>2. id \in DOMAIN entry
    BY <2>1 DEF OpTypeOK
  <2> QED BY <2>1, <2>2, EntriesTyped, EntryFields
<1>2. \/ cache' = cache /\ entry[id].status = "ok"
      \/ cache' = [cache EXCEPT ![j] = IF cache[j] = id THEN 0 ELSE cache[j]]
         /\ entry[id].status = "err"
  BY DEF ReturnItem, ReturnError, Returning, Evict
<1>3. /\ \A i \in Items : cache'[i] = cache[i] \/ (cache'[i] = 0 /\ cache[i] = id)
      /\ entry[id].status = "err" => \A i \in Items : cache'[i] # 0 => cache'[i] # id
      /\ entry[id].status = "ok" => cache' = cache
      /\ cache' \in [Items -> Nat]
  <2>1. \A i \in Items : cache[i] = id => i = j
    BY <1>1 DEF CachedUnderItsItem, OpTypeOK
  <2>2. CASE cache' = cache /\ entry[id].status = "ok"
    BY <2>2 DEF OpTypeOK
  <2>3. CASE /\ cache' = [cache EXCEPT ![j] = IF cache[j] = id THEN 0 ELSE cache[j]]
             /\ entry[id].status = "err"
    <3>1. cache \in [Items -> Nat]
      BY DEF OpTypeOK
    <3> HIDE DEF id, j
    <3> QED BY <1>1, <2>1, <2>3, <3>1
  <2> QED BY <1>2, <2>2, <2>3
<1>4. OpTypeOK'
  <2>1. /\ call \in [Callers -> [at : {"none", "once", "op", "return"}, id : Nat]]
        /\ \A h \in Callers : call[h].at # "none" => call[h].id \in DOMAIN entry
        /\ vault \in [Items -> Nat] /\ entry \in Seq(Entry)
        /\ \A i \in Items : cache[i] \in 0..Len(entry)
    BY DEF OpTypeOK
  <2>2. call' \in [Callers -> [at : {"none", "once", "op", "return"}, id : Nat]]
    BY <1>1, <2>1 DEF NoCall
  <2>3. \A h \in Callers : call'[h].at # "none" => call'[h].id \in DOMAIN entry
    BY <1>1, <2>1 DEF NoCall
  <2>4. \A i \in Items : cache'[i] \in 0..Len(entry)
    <3> DEFINE l == Len(entry)
    <3>1. l \in Nat
      BY <2>1
    <3> HIDE DEF l
    <3>2. \A i \in Items : cache[i] \in 0..l
      BY <2>1 DEF l
    <3>3. \A i \in Items : cache'[i] \in 0..l
      BY <1>3, <3>1, <3>2
    <3> QED BY <3>3 DEF l
  <2> QED BY <1>1, <1>3, <2>1, <2>2, <2>3, <2>4 DEF OpTypeOK
<1>5. OnlyErrorsEvicted'
  <2>1. SUFFICES ASSUME NEW a \in DOMAIN entry, entry[a].status # "err"
                 PROVE  cache'[entry[a].item] = a
    BY <1>1 DEF OnlyErrorsEvicted
  <2>2. cache[entry[a].item] = a /\ entry[a].item \in Items
    BY <2>1, EntriesTyped, EntryFields DEF OnlyErrorsEvicted
  <2>3. cache'[entry[a].item] # a => a = id
    BY <1>3, <2>2
  <2> QED BY <1>1, <1>2, <2>1, <2>2, <2>3
<1>6. CachedUnderItsItem'
  BY <1>1, <1>3 DEF CachedUnderItsItem
<1>7. OneFetcher'
  BY <1>1 DEF OneFetcher, NoCall, OpTypeOK
<1>8. ErrorsNotKept'
  <2>1. SUFFICES ASSUME NEW i \in Items, cache'[i] # 0, entry[cache'[i]].status = "err"
                 PROVE  \E h \in Callers : call'[h] = [at |-> "return", id |-> cache'[i]]
    BY <1>1 DEF ErrorsNotKept
  <2>2. cache'[i] = cache[i]
    BY <1>3, <2>1
  <2>3. PICK h \in Callers : call[h] = [at |-> "return", id |-> cache[i]]
    BY <2>1, <2>2 DEF ErrorsNotKept
  <2>4. h # g
    BY <1>1, <1>2, <1>3, <2>1, <2>2, <2>3
  <2> QED BY <1>1, <2>2, <2>3, <2>4 DEF OpTypeOK
<1> QED BY <1>4, <1>5, <1>6, <1>7, <1>8

LEMMA OpStepInvariant == OpIInv /\ [OpNext]_opVars => OpIInv'
<1> SUFFICES ASSUME OpIInv, [OpNext]_opVars PROVE OpIInv'
  OBVIOUS
<1>1. CASE UNCHANGED opVars
  BY <1>1 DEF opVars, OpIInv, OpTypeOK, OnlyErrorsEvicted, CachedUnderItsItem, OneFetcher, ErrorsNotKept
<1>2. CASE \E g \in Callers : \E i \in Items : GetVaultItem(g, i)
  BY <1>2, LookupKeepsInvariant
<1>3. CASE \E g \in Callers : OnceDo(g) \/ FetchVaultItem(g)
  BY <1>3, FetchKeepsInvariant
<1>4. CASE \E g \in Callers : ReturnItem(g) \/ ReturnError(g)
  BY <1>4, ReturnKeepsInvariant
<1>5. CASE \E i \in Items : Rotate(i)
  BY <1>5 DEF Rotate, OpIInv, OpTypeOK, OnlyErrorsEvicted, CachedUnderItsItem, OneFetcher, ErrorsNotKept
<1> QED BY <1>1, <1>2, <1>3, <1>4, <1>5 DEF OpNext

LEMMA OpIInvImplies == OpIInv => OneContentPerItem /\ ErrorsNotKept
<1>1. OpIInv => OneContentPerItem
  <2> SUFFICES ASSUME OpIInv, NEW a \in DOMAIN entry, NEW b \in DOMAIN entry,
                      entry[a].item = entry[b].item, entry[a].status = "ok", entry[b].status = "ok"
               PROVE  a = b
    BY DEF OneContentPerItem
  <2>1. cache[entry[a].item] = a
    BY DEF OpIInv, OnlyErrorsEvicted
  <2>2. cache[entry[b].item] = b
    BY DEF OpIInv, OnlyErrorsEvicted
  <2> QED BY <2>1, <2>2
<1> QED BY <1>1 DEF OpIInv

(* For any number of goroutines, items, failures and changes of the vault, *)
(* all calls of one run see one content of an item, and a failed fetch is  *)
(* never kept: GetVaultItem's eviction under itemMu is right.              *)
THEOREM ItemCacheCorrect == OpSpec => [](OneContentPerItem /\ ErrorsNotKept)
<1>1. OpSpec => []OpIInv
  BY OpInitInvariant, OpStepInvariant, PTL DEF OpSpec
<1> QED BY <1>1, OpIInvImplies, PTL

-----------------------------------------------------------------------------
(***************************************************************************)
(* The discovery.  A release is rendered only after the discovery is over, *)
(* and with what it found.                                                 *)
(***************************************************************************)
RenderedAsFound ==
    \A g \in Renderers : \A r \in Releases(g) :
        /\ rel[g][r].at \in {"render", "ok"} => caps.status = "done"
        /\ rel[g][r].at = "ok" => /\ rel[g][r].kube = ReleaseCapabilities(g).kube
                                  /\ rel[g][r].apis = ReleaseCapabilities(g).apis

HelmIInv == HelmTypeOK /\ RenderedAsFound

LEMMA HelmInitInvariant == HelmInit => HelmIInv
<1> SUFFICES ASSUME HelmInit PROVE HelmIInv
  OBVIOUS
<1> DEFINE todo == [at |-> "todo", kube |-> "default", apis |-> "default"]
<1>1. todo \in ReleaseState
  BY DEF ReleaseState
<1>2. rel = [g \in Renderers |-> [r \in Releases(g) |-> todo]]
  BY DEF HelmInit
<1>3. caps \in Discovery
  BY DEF HelmInit, Discovery, DefaultCapabilities
<1>4. todo.at = "todo"
  OBVIOUS
<1> HIDE DEF todo
<1>5. ASSUME NEW g \in Renderers
      PROVE  rel[g] \in Seq(ReleaseState) /\ DOMAIN rel[g] = Releases(g)
  <2>1. rel[g] = [r \in Releases(g) |-> todo]
    BY <1>2
  <2>2. Helmfile[g].releases \in Seq(Chart)
    BY HelmfileAssumption
  <2>3. Releases(g) = 1..Len(Helmfile[g].releases) /\ Len(Helmfile[g].releases) \in Nat
    BY <2>2 DEF Releases
  <2> QED BY <1>1, <2>1, <2>3
<1>6. HelmTypeOK
  BY <1>2, <1>3, <1>5 DEF HelmTypeOK
<1>7. RenderedAsFound
  BY <1>2, <1>4 DEF RenderedAsFound
<1> QED BY <1>6, <1>7 DEF HelmIInv

(* Changing the state of one release. *)
LEMMA ReleaseChanged ==
    ASSUME HelmTypeOK, NEW g \in Renderers, NEW r \in Releases(g), NEW x \in ReleaseState,
           rel' = [rel EXCEPT ![g][r] = x]
    PROVE  /\ rel' \in [Renderers -> Seq(ReleaseState)]
           /\ \A h \in Renderers : DOMAIN rel'[h] = Releases(h)
           /\ rel'[g][r] = x
           /\ \A h \in Renderers : \A s \in Releases(h) :
                h # g \/ s # r => rel'[h][s] = rel[h][s]
<1>1. rel[g] \in Seq(ReleaseState) /\ DOMAIN rel[g] = Releases(g)
  BY DEF HelmTypeOK
<1> DEFINE new == [rel[g] EXCEPT ![r] = x]
<1>2. new \in Seq(ReleaseState) /\ DOMAIN new = Releases(g)
  BY <1>1, ReplacedMember
<1>3. new[r] = x /\ \A s \in Releases(g) : s # r => new[s] = rel[g][s]
  BY <1>1
<1>4. rel' = [rel EXCEPT ![g] = new]
  OBVIOUS
<1> HIDE DEF new
<1> QED BY <1>2, <1>3, <1>4 DEF HelmTypeOK

LEMMA ReleaseFields ==
    ASSUME NEW x \in ReleaseState
    PROVE  \A at \in {"todo", "caps", "discover", "render", "ok", "err"} :
             [x EXCEPT !.at = at] \in ReleaseState /\ [x EXCEPT !.at = at].at = at
BY DEF ReleaseState

(* The new position of a release, when nothing else of it changes. *)
LEMMA ReleaseMoved ==
    ASSUME HelmTypeOK, NEW g \in Renderers, NEW r \in Releases(g),
           NEW at \in {"todo", "caps", "discover", "render", "ok", "err"},
           rel' = [rel EXCEPT ![g][r].at = at]
    PROVE  /\ rel' \in [Renderers -> Seq(ReleaseState)]
           /\ \A h \in Renderers : DOMAIN rel'[h] = Releases(h)
           /\ rel'[g][r].at = at
           /\ \A h \in Renderers : \A s \in Releases(h) :
                h # g \/ s # r => rel'[h][s] = rel[h][s]
<1> DEFINE x == [rel[g][r] EXCEPT !.at = at]
<1>1. rel[g][r] \in ReleaseState
  BY DEF HelmTypeOK
<1>2. x \in ReleaseState /\ x.at = at
  BY <1>1, ReleaseFields
<1> DEFINE new == [rel[g] EXCEPT ![r] = x]
<1>3. rel' = [rel EXCEPT ![g] = new]
  OBVIOUS
<1> HIDE DEF x
<1>4. rel[g] \in Seq(ReleaseState) /\ DOMAIN rel[g] = Releases(g)
  BY DEF HelmTypeOK
<1>5. new \in Seq(ReleaseState) /\ DOMAIN new = Releases(g)
  BY <1>2, <1>4, ReplacedMember
<1>6. new[r] = x /\ \A s \in Releases(g) : s # r => new[s] = rel[g][s]
  BY <1>4
<1> HIDE DEF new
<1> QED BY <1>2, <1>3, <1>5, <1>6 DEF HelmTypeOK

(* The discovery stays well-typed when one of its fields is filled in. *)
LEMMA DiscoveryFields ==
    ASSUME NEW x \in Discovery, NEW found \in {"partial", "cluster"},
           NEW st \in {"groups", "done"}
    PROVE  /\ [x EXCEPT !.status = st] \in Discovery
           /\ [x EXCEPT !.status = st, !.found.kube = "cluster"] \in Discovery
           /\ [x EXCEPT !.status = st, !.found.apis = found] \in Discovery
<1> DEFINE F == [kube : {"default", "cluster"}, apis : {"default", "partial", "cluster"}]
<1>1. x.found \in F
  BY DEF Discovery
<1>2. [x.found EXCEPT !.kube = "cluster"] \in F /\ [x.found EXCEPT !.apis = found] \in F
  BY <1>1
<1>3. ASSUME NEW f \in F PROVE [x EXCEPT !.status = st, !.found = f] \in Discovery
  BY <1>3 DEF Discovery
<1>4. [x EXCEPT !.status = st] \in Discovery
  BY DEF Discovery
<1> HIDE DEF F
<1> QED BY <1>2, <1>3, <1>4

LEMMA CapabilitiesKept ==
    ASSUME caps' = caps, NEW h \in Renderers
    PROVE  ReleaseCapabilities(h)' = ReleaseCapabilities(h)
BY DEF ReleaseCapabilities

(* No step of a release disturbs what the others were rendered with. *)
LEMMA HelmStepInvariant ==
    ASSUME HelmIInv, NEW g \in Renderers, NEW r \in Releases(g), ReleaseStep(g, r)
    PROVE  HelmIInv'
<1> USE DEF HelmIInv
<1>0. /\ caps \in Discovery
      /\ <<g, r>> \in Renderers \X Nat
  <2>1. Helmfile[g].releases \in Seq(Chart)
    BY HelmfileAssumption
  <2>2. r \in Nat
    BY <2>1 DEF Releases
  <2> QED BY <2>2 DEF HelmTypeOK
<1>1. CASE StartRelease(g, r) \/ ReleaseFails(g, r)
  <2>1. PICK at \in {"caps", "err"} : rel' = [rel EXCEPT ![g][r].at = at] /\ caps' = caps
    <3>1. CASE StartRelease(g, r)
      BY <3>1 DEF StartRelease
    <3>2. CASE ReleaseFails(g, r)
      BY <3>2 DEF ReleaseFails
    <3> QED BY <1>1, <3>1, <3>2
  <2>2. HelmTypeOK'
    BY <2>1, ReleaseMoved DEF HelmTypeOK
  <2>3. RenderedAsFound'
    BY <2>1, ReleaseMoved, CapabilitiesKept DEF RenderedAsFound
  <2> QED BY <2>2, <2>3
<1>2. CASE ClusterCapabilities(g, r) /\ caps.status # "done"
  <2>1. /\ \E at \in {"discover", "render"} : rel' = [rel EXCEPT ![g][r].at = at]
                                              /\ (at = "render" => caps'.status = "done")
        /\ caps' \in Discovery
    BY <1>0, <1>2 DEF ClusterCapabilities, DiscoveryPending, Discovery
  <2>2. PICK at \in {"discover", "render"} : rel' = [rel EXCEPT ![g][r].at = at]
                                             /\ (at = "render" => caps'.status = "done")
    BY <2>1
  <2>3. HelmTypeOK'
    BY <2>1, <2>2, ReleaseMoved DEF HelmTypeOK
  <2>4. RenderedAsFound'
    BY <1>2, <2>2, ReleaseMoved DEF RenderedAsFound
  <2> QED BY <2>3, <2>4
<1>3. CASE ClusterCapabilities(g, r) /\ caps.status = "done"
  <2>1. rel' = [rel EXCEPT ![g][r].at = "render"] /\ caps' = caps
    BY <1>3 DEF ClusterCapabilities, DiscoveryPending
  <2>2. HelmTypeOK'
    BY <2>1, ReleaseMoved DEF HelmTypeOK
  <2>3. RenderedAsFound'
    BY <1>3, <2>1, ReleaseMoved, CapabilitiesKept DEF RenderedAsFound
  <2> QED BY <2>2, <2>3
<1>4. CASE ServerVersion(g, r) \/ ServerGroups(g, r)
  <2>1. caps.status # "done"
    BY <1>4 DEF ServerVersion, ServerGroups
  <2>2. caps' \in Discovery
    <3>1. CASE ServerVersion(g, r)
      BY <1>0, <3>1, DiscoveryFields DEF ServerVersion
    <3>2. CASE ServerGroups(g, r)
      BY <1>0, <3>2, DiscoveryFields DEF ServerGroups
    <3> QED BY <1>4, <3>1, <3>2
  <2>3. CASE rel' = rel
    BY <2>1, <2>2, <2>3 DEF HelmTypeOK, RenderedAsFound
  <2>4. CASE rel' = [rel EXCEPT ![g][r].at = "render"] /\ caps'.status = "done"
    <3>1. HelmTypeOK'
      BY <2>2, <2>4, ReleaseMoved DEF HelmTypeOK
    <3>2. RenderedAsFound'
      BY <2>1, <2>4, ReleaseMoved DEF RenderedAsFound
    <3> QED BY <3>1, <3>2
  <2>5. rel' = rel \/ (rel' = [rel EXCEPT ![g][r].at = "render"] /\ caps'.status = "done")
    BY <1>0, <1>4 DEF ServerVersion, ServerGroups, Discovery
  <2> QED BY <2>3, <2>4, <2>5
<1>5. CASE RenderRelease(g, r)
  <2> DEFINE x == [at |-> "ok", kube |-> ReleaseCapabilities(g).kube, apis |-> ReleaseCapabilities(g).apis]
  <2>1. rel' = [rel EXCEPT ![g][r] = x] /\ caps' = caps /\ caps.status = "done"
    BY <1>5 DEF RenderRelease, RenderedAsFound
  <2>2. x \in ReleaseState
    BY <1>0 DEF ReleaseState, ReleaseCapabilities, Discovery
  <2>3. /\ x.at = "ok" /\ x.kube = ReleaseCapabilities(g).kube
        /\ x.apis = ReleaseCapabilities(g).apis
    OBVIOUS
  <2> HIDE DEF x
  <2>4. HelmTypeOK'
    BY <2>1, <2>2, ReleaseChanged DEF HelmTypeOK
  <2>5. RenderedAsFound'
    BY <2>1, <2>2, <2>3, ReleaseChanged, CapabilitiesKept DEF RenderedAsFound
  <2> QED BY <2>4, <2>5
<1> QED BY <1>1, <1>2, <1>3, <1>4, <1>5 DEF ReleaseStep

LEMMA HelmIInvImplies == HelmIInv => SameCapabilities
BY DEF HelmIInv, RenderedAsFound, SameCapabilities, ReleaseCapabilities

-----------------------------------------------------------------------------
(***************************************************************************)
(* The managers.  They call the client only for items their manifests      *)
(* name, and touch neither its cache nor the discovery otherwise.          *)
(***************************************************************************)
Asking == manifest \in Layers /\ step \in [Callers -> Nat \ {0}]

LayerIInv == OpIInv /\ HelmIInv /\ Asking

LEMMA CallsClient ==
    ASSUME LayerIInv, Next
    PROVE  [OpNext]_opVars
<1>1. CASE \E g \in Callers : CallOp(g)
  <2>1. PICK g \in Callers : CallOp(g)
    BY <1>1
  <2>2. manifest[g].needs \in Seq(Need) /\ step[g] \in Nat \ {0}
        /\ step[g] <= Len(manifest[g].needs)
    BY <2>1, ManifestsAssumption DEF CallOp, Fetching, LayerIInv, Asking
  <2>3. CurrentNeed(g) \in Need
    BY <2>2 DEF CurrentNeed
  <2>4. CurrentNeed(g).item \in Items
    BY <2>3 DEF Need
  <2> QED BY <2>1, <2>4 DEF CallOp, OpNext
<1>2. CASE \E g \in Callers : OpStep(g) \/ OpAnswers(g) \/ OpAnswersShort(g) \/ OpFails(g)
  BY <1>2 DEF OpStep, OpAnswers, OpAnswersShort, OpFails, OpNext
<1>3. CASE \E i \in Items : RotateItem(i)
  BY <1>3 DEF RotateItem, OpNext
<1>4. CASE SetupManagers \/ EditEnvFile \/ Rest
  BY <1>4 DEF SetupManagers, EditEnvFile, Rest, vars
<1>5. CASE \E g \in Callers : \/ Start(g) \/ ReadEnvFile(g) \/ ReadEnvFileFails(g) \/ Fetched(g)
                              \/ HandleOutput(g) \/ OutputFails(g) \/ OutputsDone(g)
                              \/ Render(g) \/ Rendered(g)
  BY <1>5 DEF Start, ReadEnvFile, ReadEnvFileFails, Fetched, HandleOutput, OutputFails,
              OutputsDone, Render, Rendered
<1> QED BY <1>1, <1>2, <1>3, <1>4, <1>5 DEF Next, ManagerStep

LEMMA StepsReleases ==
    ASSUME Next
    PROVE  \/ \E g \in Renderers : \E r \in Releases(g) : ReleaseStep(g, r)
           \/ UNCHANGED helmVars
<1>1. CASE \E g \in Callers : Render(g)
  BY <1>1 DEF Render
<1>2. CASE \/ SetupManagers \/ EditEnvFile \/ Rest
           \/ \E i \in Items : RotateItem(i)
  BY <1>2 DEF SetupManagers, EditEnvFile, Rest, RotateItem, vars
<1>3. CASE \E g \in Callers : \/ Start(g) \/ CallOp(g) \/ OpStep(g) \/ OpAnswers(g)
                              \/ OpAnswersShort(g) \/ OpFails(g) \/ ReadEnvFile(g)
                              \/ ReadEnvFileFails(g) \/ Fetched(g) \/ HandleOutput(g)
                              \/ OutputFails(g) \/ OutputsDone(g) \/ Rendered(g)
  BY <1>3 DEF Start, CallOp, OpStep, OpAnswers, OpAnswersShort, OpFails, ReadEnvFile,
              ReadEnvFileFails, Fetched, HandleOutput, OutputFails, OutputsDone, Rendered
<1> QED BY <1>1, <1>2, <1>3 DEF Next, ManagerStep

LEMMA KeepsAsking ==
    ASSUME Asking, Next
    PROVE  Asking'
<1>1. CASE \/ SetupManagers \/ EditEnvFile \/ Rest
           \/ \E i \in Items : RotateItem(i)
  BY <1>1 DEF SetupManagers, EditEnvFile, Rest, RotateItem, vars, layerVars, Asking
<1>2. CASE \E g \in Callers : \/ Start(g) \/ CallOp(g) \/ OpStep(g) \/ OpAnswersShort(g)
                              \/ OpFails(g) \/ ReadEnvFileFails(g) \/ OutputFails(g)
                              \/ OutputsDone(g) \/ Render(g) \/ Rendered(g)
  BY <1>2 DEF Start, CallOp, OpStep, OpAnswersShort, OpFails, ReadEnvFileFails, OutputFails,
              OutputsDone, Render, Rendered, layerVars, Asking
<1>3. CASE \E g \in Callers : OpAnswers(g) \/ ReadEnvFile(g) \/ HandleOutput(g)
  <2>1. PICK g \in Callers : manifest' = manifest /\ step' = [step EXCEPT ![g] = step[g] + 1]
    BY <1>3 DEF OpAnswers, ReadEnvFile, HandleOutput, Collected
  <2> QED BY <2>1 DEF Asking
<1>4. CASE \E g \in Callers : Fetched(g)
  <2>1. PICK g \in Callers : manifest' = manifest /\ step' = [step EXCEPT ![g] = 1]
    BY <1>4 DEF Fetched
  <2> QED BY <2>1 DEF Asking
<1> QED BY <1>1, <1>2, <1>3, <1>4 DEF Next, ManagerStep

LEMMA LayerInitInvariant == Init => LayerIInv
<1> SUFFICES ASSUME Init PROVE LayerIInv
  OBVIOUS
<1>1. OpIInv /\ HelmIInv
  BY OpInitInvariant, HelmInitInvariant DEF Init
<1>2. Asking
  BY DEF Init, Asking
<1> QED BY <1>1, <1>2 DEF LayerIInv

LEMMA LayerStepInvariant == LayerIInv /\ [Next]_vars => LayerIInv'
<1> SUFFICES ASSUME LayerIInv, [Next]_vars PROVE LayerIInv'
  OBVIOUS
<1>1. CASE UNCHANGED vars
  <2>1. UNCHANGED opVars /\ UNCHANGED helmVars /\ UNCHANGED layerVars
    BY <1>1 DEF vars
  <2>2. OpIInv'
    BY <2>1, OpStepInvariant DEF LayerIInv
  <2>3. HelmIInv'
    BY <2>1 DEF LayerIInv, helmVars, HelmIInv, HelmTypeOK, RenderedAsFound, ReleaseCapabilities
  <2>4. Asking'
    BY <2>1 DEF LayerIInv, layerVars, Asking
  <2> QED BY <2>2, <2>3, <2>4 DEF LayerIInv
<1>2. CASE Next
  <2>1. OpIInv'
    BY <1>2, CallsClient, OpStepInvariant DEF LayerIInv
  <2>2. HelmIInv'
    <3>1. CASE \E g \in Renderers : \E r \in Releases(g) : ReleaseStep(g, r)
      BY <3>1, HelmStepInvariant DEF LayerIInv
    <3>2. CASE UNCHANGED helmVars
      BY <3>2 DEF LayerIInv, helmVars, HelmIInv, HelmTypeOK, RenderedAsFound, ReleaseCapabilities
    <3> QED BY <1>2, <3>1, <3>2, StepsReleases
  <2>3. Asking'
    BY <1>2, KeepsAsking DEF LayerIInv
  <2> QED BY <2>1, <2>2, <2>3 DEF LayerIInv
<1> QED BY <1>1, <1>2

LEMMA LayerInvariant == Spec => []LayerIInv
BY LayerInitInvariant, LayerStepInvariant, PTL DEF Spec

(* The guarantees of the 1Password client hold of the managers that share  *)
(* it, whatever else they do meanwhile.                                    *)
THEOREM ManagersShareItems == Spec => [](OneContentPerItem /\ ErrorsNotKept)
<1>1. LayerIInv => OneContentPerItem /\ ErrorsNotKept
  BY OpIInvImplies DEF LayerIInv
<1> QED BY <1>1, LayerInvariant, PTL

(* All releases of a run are rendered for the same capabilities, however   *)
(* many helmfiles and releases there are and however the discovery ends.   *)
THEOREM ReleasesShareCapabilities == Spec => []SameCapabilities
<1>1. LayerIInv => SameCapabilities
  BY HelmIInvImplies DEF LayerIInv
<1> QED BY <1>1, LayerInvariant, PTL

-----------------------------------------------------------------------------
(***************************************************************************)
(* The Secrets of a genesissecret.                                         *)
(***************************************************************************)

(* Manifest g produces key k.                                              *)
Produces(layer, g, k) ==
    k \in layer[g].static \/ \E j \in DOMAIN layer[g].needs : k \in layer[g].needs[j].keys

(* Two manifests may fill one Secret, but not the same key of it.          *)
OwnKeys ==
    \A layer \in Layers : \A g, h \in Callers : \A m \in DOMAIN layer[g].outputs :
        \A n \in DOMAIN layer[h].outputs :
            g # h /\ layer[g].outputs[m].secret = layer[h].outputs[n].secret
              /\ layer[g].outputs[m].secret # None
                => \A k \in Keys : ~(Produces(layer, g, k) /\ Produces(layer, h, k))

(* Of the first n needs of g, the j-th is the last with key k.             *)
LastNeed(g, k, n, j) ==
    /\ j \in 1..n /\ k \in manifest[g].needs[j].keys
    /\ \A i \in 1..n : k \in manifest[g].needs[i].keys => i <= j

(* A value from 1Password is one that the cache still has.                 *)
Genuine(g, value) ==
    FromOp(g) => \E a \in DOMAIN entry : /\ entry[a].item = value.source /\ entry[a].status = "ok"
                                         /\ entry[a].content = value.content

Good(g, k, source) == items[g][k] # None /\ items[g][k].source = source /\ Genuine(g, items[g][k])

CollectedUpTo(g, n) ==
    \A k \in Keys : \A j \in 1..n : LastNeed(g, k, n, j) => Good(g, k, manifest[g].needs[j].item)

Complete(g) ==
    \A k \in Keys :
        /\ k \in manifest[g].static => items[g][k] # None /\ items[g][k].source = "static"
        /\ k \notin manifest[g].static =>
             \A j \in 1..Len(manifest[g].needs) :
                 LastNeed(g, k, Len(manifest[g].needs), j) => Good(g, k, manifest[g].needs[j].item)

(* The first n outputs of g are in the cluster.                            *)
Written(g, n) ==
    \A m \in DOMAIN manifest[g].outputs :
        m <= n /\ manifest[g].outputs[m].secret # None =>
            \A k \in Keys : items[g][k] # None =>
                /\ live[manifest[g].outputs[m].secret] # None
                /\ live[manifest[g].outputs[m].secret][k] = items[g][k]

Applying(g) == manifest[g].type = "genesissecret" /\ command = "apply"

Progress(g) ==
    /\ pc[g] \in {"setup", "idle"} => step[g] = 1 /\ items[g] = NoData
    /\ pc[g] = "fetch" => step[g] <= Len(manifest[g].needs) + 1 /\ CollectedUpTo(g, step[g] - 1)
    /\ Applying(g) /\ pc[g] \in {"outputs", "done"} => Complete(g)
    /\ Applying(g) /\ pc[g] = "outputs" => Written(g, step[g] - 1)
    /\ Applying(g) /\ pc[g] = "done" => Written(g, Len(manifest[g].outputs))
    /\ \A k \in Keys : items[g][k] # None => Produces(manifest, g, k)

(* A call of the client is for the present need of its caller.             *)
CallMatches ==
    \A g \in Callers : call[g].at # "none" =>
        Fetching(g) /\ FromOp(g) /\ entry[call[g].id].item = CurrentNeed(g).item

LayerTypes ==
    /\ manifest \in Layers
    /\ pc \in [Callers -> {"setup", "idle", "fetch", "outputs", "render"} \cup Ended]
    /\ step \in [Callers -> Nat \ {0}]
    /\ items \in [Callers -> Data]
    /\ live \in [Secrets -> Data \cup {None}]
    /\ envfile \in Nat

SecretsIInv == OpIInv /\ LayerTypes /\ CallMatches /\ \A g \in Callers : Progress(g)

LEMMA NeedsTyped ==
    ASSUME LayerTypes, NEW g \in Callers
    PROVE  /\ Len(manifest[g].needs) \in Nat /\ DOMAIN manifest[g].needs = 1..Len(manifest[g].needs)
           /\ \A j \in 1..Len(manifest[g].needs) : manifest[g].needs[j].item \in Items
           /\ Len(manifest[g].outputs) \in Nat /\ DOMAIN manifest[g].outputs = 1..Len(manifest[g].outputs)
           /\ \A n \in DOMAIN manifest[g].outputs :
                /\ manifest[g].outputs[n].stdout \in BOOLEAN
                /\ manifest[g].outputs[n].secret \in Secrets \cup {None}
           /\ step[g] \in Nat \ {0}
<1>1. manifest[g].needs \in Seq(Need) /\ manifest[g].outputs \in Seq(Output)
  BY ManifestsAssumption DEF LayerTypes
<1>2. \A x \in Need : x.item \in Items
  BY DEF Need
<1>3. \A x \in Output : x.stdout \in BOOLEAN /\ x.secret \in Secrets \cup {None}
  BY DEF Output
<1> QED BY <1>1, <1>2, <1>3 DEF LayerTypes

(* A set of numbers up to n that is not empty has a largest one.           *)
LEMMA LargestExists ==
    ASSUME NEW n \in Nat, NEW S \in SUBSET (1..n), S # {}
    PROVE  \E j \in S : \A i \in S : i <= j
<1> DEFINE R == {ss \in Nat \X Nat : ss[1] < ss[2]}
           T == {x \in Nat : n - x \in S}
<1>1. IsWellFoundedOn(R, Nat)
  BY NatLessThanWellFounded DEF OpToRel
<1>2. \A i \in S : n - i \in T /\ n - (n - i) = i
  OBVIOUS
<1>3. T \subseteq Nat /\ T # {}
  BY <1>2
<1>4. PICK x \in T : \A y \in T : ~(<<y, x>> \in R)
  <2> HIDE DEF R, T
  <2> QED BY <1>1, <1>3, WFMin
<1>5. \A y \in T : ~(y < x)
  BY <1>4
<1>6. n - x \in S
  BY <1>4
<1>7. \A i \in S : i <= n - x
  BY <1>2, <1>5
<1> QED BY <1>6, <1>7

(* What is collected.                                                      *)
LEMMA MergedKeys ==
    ASSUME NEW m1 \in Data, NEW m2 \in Data
    PROVE  /\ Merge(m1, m2) \in Data
           /\ \A k \in Keys : Merge(m1, m2)[k] = IF m2[k] # None THEN m2[k] ELSE m1[k]
BY DEF Merge, Data

LEMMA MappedKeys ==
    ASSUME NEW need, need.item \in Items, NEW content \in Nat
    PROVE  /\ MapTo(need, content) \in Data
           /\ \A k \in Keys : k \in need.keys =>
                /\ MapTo(need, content)[k] # None
                /\ MapTo(need, content)[k].source = need.item
                /\ MapTo(need, content)[k].content = content
           /\ \A k \in Keys : k \notin need.keys => MapTo(need, content)[k] = None
<1>1. [source |-> need.item, content |-> content] \in Value
  BY DEF Value
<1> QED BY <1>1, NoneAssumption DEF MapTo, Data

LEMMA StaticKeys ==
    ASSUME NEW g
    PROVE  /\ StaticData(g) \in Data
           /\ \A k \in Keys : k \in manifest[g].static =>
                StaticData(g)[k] # None /\ StaticData(g)[k].source = "static"
           /\ \A k \in Keys : k \notin manifest[g].static => StaticData(g)[k] = None
<1>1. [source |-> "static", content |-> 0] \in Value
  BY DEF Value
<1> QED BY <1>1, NoneAssumption DEF StaticData, Data

(* Entries of the cache keep their items, and their contents once there.   *)
LEMMA EntriesPersist ==
    ASSUME OpIInv, [OpNext]_opVars, NEW a \in DOMAIN entry
    PROVE  /\ a \in DOMAIN entry' /\ entry'[a].item = entry[a].item
           /\ entry[a].status = "ok" => entry'[a] = entry[a]
<1> USE DEF OpIInv
<1>1. entry[a] \in Entry /\ entry \in Seq(Entry)
  BY DEF OpTypeOK
<1>2. CASE UNCHANGED entry
  BY <1>2
<1>3. ASSUME NEW x, entry' = Append(entry, x) PROVE a \in DOMAIN entry' /\ entry'[a] = entry[a]
  BY <1>1, <1>3
<1>4. CASE \E g \in Callers : \E i \in Items : GetVaultItem(g, i)
  BY <1>2, <1>3, <1>4 DEF GetVaultItem
<1>5. ASSUME NEW g \in Callers, OnceDo(g), entry' # entry
      PROVE  /\ a \in DOMAIN entry' /\ entry'[a].item = entry[a].item
             /\ entry[a].status = "ok" => entry'[a] = entry[a]
  <2>1. /\ entry' = [entry EXCEPT ![call[g].id].status = "running"]
        /\ entry[call[g].id].status = "new"
    BY <1>5 DEF OnceDo
  <2> QED BY <1>1, <2>1 DEF Entry
<1>6. ASSUME NEW g \in Callers, FetchVaultItem(g)
      PROVE  /\ a \in DOMAIN entry' /\ entry'[a].item = entry[a].item
             /\ entry[a].status = "ok" => entry'[a] = entry[a]
  <2>1. entry[call[g].id].status = "running"
    BY <1>6 DEF FetchVaultItem, OneFetcher
  <2>2. DOMAIN entry' = DOMAIN entry /\ (a # call[g].id => entry'[a] = entry[a])
        /\ entry'[a].item = entry[a].item
    BY <1>1, <1>6 DEF FetchVaultItem, Entry
  <2> QED BY <2>1, <2>2
<1>7. CASE \E g \in Callers : ReturnItem(g) \/ ReturnError(g)
  BY <1>2, <1>7 DEF ReturnItem, ReturnError
<1>8. CASE \E i \in Items : Rotate(i)
  BY <1>2, <1>8 DEF Rotate
<1>9. CASE UNCHANGED opVars
  BY <1>2, <1>9 DEF opVars
<1> QED BY <1>2, <1>4, <1>5, <1>6, <1>7, <1>8, <1>9 DEF OpNext

LEMMA SameProvider ==
    ASSUME UNCHANGED manifest, NEW g
    PROVE  FromOp(g)' <=> FromOp(g)
BY DEF FromOp, ProviderName

LEMMA GenuineKept ==
    ASSUME OpIInv, [OpNext]_opVars, UNCHANGED manifest, NEW g \in Callers, NEW value, Genuine(g, value)
    PROVE  Genuine(g, value)'
<1>1. FromOp(g)' <=> FromOp(g)
  BY SameProvider
<1> QED BY <1>1, EntriesPersist DEF Genuine

(* What a manager has collected and completed stays so while the others    *)
(* use the client.                                                         *)
LEMMA CollectedKept ==
    ASSUME OpIInv, [OpNext]_opVars, UNCHANGED manifest, NEW h \in Callers, items'[h] = items[h]
    PROVE  /\ \A n \in Nat : CollectedUpTo(h, n) => CollectedUpTo(h, n)'
           /\ Complete(h) => Complete(h)'
<1>1. \A k \in Keys : \A source : Good(h, k, source) => Good(h, k, source)'
  <2> SUFFICES ASSUME NEW k \in Keys, NEW source, Good(h, k, source)
               PROVE  Good(h, k, source)'
    OBVIOUS
  <2> DEFINE v == items[h][k]
  <2>1. v # None /\ v.source = source /\ Genuine(h, v)
    BY DEF Good
  <2>2. v' = v
    OBVIOUS
  <2>3. FromOp(h)' <=> FromOp(h)
    BY SameProvider
  <2>4. Genuine(h, v)'
    BY <2>1, <2>2, <2>3, EntriesPersist DEF Genuine
  <2> QED BY <2>1, <2>2, <2>4 DEF Good
<1>2. \A k \in Keys : \A n \in Nat : \A j : LastNeed(h, k, n, j)' <=> LastNeed(h, k, n, j)
  BY DEF LastNeed
<1>3. \A n \in Nat : CollectedUpTo(h, n) => CollectedUpTo(h, n)'
  BY <1>1, <1>2 DEF CollectedUpTo
<1>4. Complete(h) => Complete(h)'
  BY <1>1 DEF Complete, LastNeed
<1> QED BY <1>3, <1>4

(* A step of g is about g only. *)
LEMMA OthersUntouched ==
    ASSUME OpIInv, LayerTypes, NEW g \in Callers, ManagerStep(g)
    PROVE  /\ UNCHANGED <<manifest, command, envfile>>
           /\ \A h \in Callers \ {g} : /\ pc'[h] = pc[h] /\ step'[h] = step[h]
                                       /\ items'[h] = items[h] /\ call'[h] = call[h]
<1> USE DEF LayerTypes, OpIInv, OpTypeOK
<1>1. CASE CallOp(g) \/ OpStep(g)
  BY <1>1 DEF CallOp, OpStep, GetVaultItem, OnceDo, FetchVaultItem, layerVars
<1>2. CASE OpAnswers(g) \/ OpAnswersShort(g) \/ OpFails(g)
  BY <1>2 DEF OpAnswers, OpAnswersShort, OpFails, ReturnItem, ReturnError, Collected, Goto
<1>3. CASE ReadEnvFile(g) \/ ReadEnvFileFails(g) \/ Fetched(g) \/ Start(g)
  BY <1>3 DEF ReadEnvFile, ReadEnvFileFails, Fetched, Start, Collected, Goto, opVars
<1>4. CASE HandleOutput(g) \/ OutputFails(g) \/ OutputsDone(g) \/ Rendered(g) \/ Render(g)
  BY <1>4 DEF HandleOutput, OutputFails, OutputsDone, Rendered, Render, Goto, opVars, layerVars
<1> QED BY <1>1, <1>2, <1>3, <1>4 DEF ManagerStep

(* Only an output changes the cluster, and on an apply it keeps what other *)
(* manifests wrote there.                                                  *)
LEMMA OutputMerges ==
    ASSUME LayerTypes, NEW g \in Callers, HandleOutput(g), command = "apply"
    PROVE  /\ CurrentOutput(g).secret # None =>
                /\ live'[CurrentOutput(g).secret] # None
                /\ \A k \in Keys : items[g][k] # None =>
                     live'[CurrentOutput(g).secret][k] = items[g][k]
           /\ \A s \in Secrets : live[s] # None =>
                /\ live'[s] # None
                /\ \A k \in Keys : live'[s][k] # live[s][k] =>
                     CurrentOutput(g).secret = s /\ s # None /\ items[g][k] # None
           /\ live' \in [Secrets -> Data \cup {None}]
<1> DEFINE o == CurrentOutput(g)
           old == IF live[o.secret] = None THEN NoData ELSE live[o.secret]
<1>1. o.stdout \in BOOLEAN /\ o.secret \in Secrets \cup {None}
  BY NeedsTyped DEF HandleOutput, AtOutput, CurrentOutput
<1>2. items[g] \in Data /\ live \in [Secrets -> Data \cup {None}]
  BY DEF LayerTypes
<1>3. CASE o.secret = None
  <2>1. live' = live
    BY <1>1, <1>3 DEF HandleOutput, ClassifyOutput
  <2> QED BY <1>2, <1>3, <2>1
<1>4. CASE o.secret # None
  <2>1. live' = [live EXCEPT ![o.secret] = Merge(old, items[g])] /\ o.secret \in Secrets
    BY <1>1, <1>4 DEF HandleOutput, ClassifyOutput, CreateOrUpdate
  <2>2. old \in Data
    BY <1>2, <2>1 DEF Data, NoData
  <2>3. /\ Merge(old, items[g]) \in Data
        /\ \A k \in Keys : Merge(old, items[g])[k] = IF items[g][k] # None THEN items[g][k] ELSE old[k]
    BY <1>2, <2>2, MergedKeys
  <2>4. Merge(old, items[g]) # None
    BY <2>3, NoneAssumption
  <2>5. live[o.secret] # None => old = live[o.secret]
    OBVIOUS
  <2> HIDE DEF o, old
  <2>6. live'[o.secret] = Merge(old, items[g]) /\ \A s \in Secrets : s # o.secret => live'[s] = live[s]
    BY <1>2, <2>1
  <2>7. \A s \in Secrets : live[s] # None =>
                /\ live'[s] # None
                /\ \A k \in Keys : live'[s][k] # live[s][k] =>
                     o.secret = s /\ s # None /\ items[g][k] # None
    BY <1>4, <2>3, <2>4, <2>5, <2>6
  <2>8. live' \in [Secrets -> Data \cup {None}]
    BY <1>2, <2>1, <2>3
  <2> QED BY <2>3, <2>4, <2>6, <2>7, <2>8 DEF o
<1> QED BY <1>3, <1>4

LEMMA LiveKept ==
    ASSUME NEW g \in Callers, ManagerStep(g)
    PROVE  live' = live \/ HandleOutput(g)
BY DEF ManagerStep, Start, CallOp, OpStep, OpAnswers, OpAnswersShort, OpFails, ReadEnvFile,
       ReadEnvFileFails, Fetched, OutputFails, OutputsDone, Rendered, Render, layerVars

(* What h wrote on an apply survives a step of any other manager. *)
LEMMA WrittenKept ==
    ASSUME OwnKeys, OpIInv, LayerTypes, \A x \in Callers : Progress(x),
           NEW g \in Callers, ManagerStep(g), NEW h \in Callers, h # g, Applying(h),
           NEW n \in Nat, Written(h, n)
    PROVE  Written(h, n)'
<1>1. manifest' = manifest /\ items'[h] = items[h]
  BY OthersUntouched
<1>2. CASE live' = live
  BY <1>1, <1>2 DEF Written
<1>3. CASE HandleOutput(g)
  <2> SUFFICES ASSUME NEW m \in DOMAIN manifest[h].outputs, m <= n,
                      manifest[h].outputs[m].secret # None,
                      NEW k \in Keys, items[h][k] # None
               PROVE  /\ live'[manifest[h].outputs[m].secret] # None
                      /\ live'[manifest[h].outputs[m].secret][k] = items[h][k]
    BY <1>1 DEF Written
  <2> DEFINE s == manifest[h].outputs[m].secret
  <2>1. s \in Secrets /\ live[s] # None /\ live[s][k] = items[h][k]
    BY NeedsTyped DEF Written
  <2>2. command = "apply"
    BY DEF Applying
  <2>3. live'[s] # None /\ (live'[s][k] # live[s][k] => CurrentOutput(g).secret = s /\ items[g][k] # None)
    BY <1>3, <2>1, <2>2, OutputMerges
  <2>4. ASSUME CurrentOutput(g).secret = s, items[g][k] # None PROVE FALSE
    <3>1. Produces(manifest, g, k) /\ Produces(manifest, h, k)
      BY <2>4 DEF Progress
    <3>2. step[g] \in DOMAIN manifest[g].outputs
      BY <1>3, NeedsTyped DEF HandleOutput, AtOutput
    <3>3. manifest[g].outputs[step[g]].secret = s
      BY <2>4 DEF CurrentOutput
    <3> QED BY <3>1, <3>2, <3>3 DEF OwnKeys, LayerTypes
  <2> QED BY <2>1, <2>3, <2>4
<1> QED BY <1>2, <1>3, LiveKept

(* Collecting the present need of g: its keys get the values of its item,  *)
(* whatever earlier needs put there.                                       *)
LEMMA CollectingAdvances ==
    ASSUME OpIInv, [OpNext]_opVars, LayerTypes, NEW g \in Callers, Fetching(g),
           CollectedUpTo(g, step[g] - 1), UNCHANGED <<manifest, entry>>,
           NEW content \in Nat, Collected(g, content),
           FromOp(g) => \E a \in DOMAIN entry : /\ entry[a].item = CurrentNeed(g).item
                                                /\ entry[a].status = "ok"
                                                /\ entry[a].content = content
    PROVE  /\ step'[g] = step[g] + 1
           /\ CollectedUpTo(g, step[g] - 1)'
           /\ items'[g] \in Data
           /\ \A k \in Keys : items'[g][k] # None => items[g][k] # None \/ k \in CurrentNeed(g).keys
<1> DEFINE need == CurrentNeed(g)
           new == MapTo(need, content)
<1>0. PICK n \in Nat : n = step[g]
  BY NeedsTyped
<1>1. n \in 1..Len(manifest[g].needs) /\ n \in Nat /\ need.item \in Items
      /\ need = manifest[g].needs[n]
  BY <1>0, NeedsTyped DEF Fetching, CurrentNeed
<1>2. /\ new \in Data
      /\ \A k \in Keys : k \in need.keys =>
           /\ new[k] # None /\ new[k].source = need.item /\ new[k].content = content
      /\ \A k \in Keys : k \notin need.keys => new[k] = None
  BY <1>1, MappedKeys
<1>3. items[g] \in Data
  BY DEF LayerTypes
<1>4. items'[g] = Merge(items[g], new) /\ step'[g] = n + 1
  BY <1>0 DEF Collected, LayerTypes
<1> HIDE DEF new
<1>5. /\ items'[g] \in Data
      /\ \A k \in Keys : items'[g][k] = IF new[k] # None THEN new[k] ELSE items[g][k]
  BY <1>2, <1>3, <1>4, MergedKeys
<1>6. ASSUME NEW k \in Keys, NEW j \in 1..n, LastNeed(g, k, n, j)
      PROVE  Good(g, k, manifest[g].needs[j].item)'
  <2>1. FromOp(g)' <=> FromOp(g)
    BY SameProvider
  <2>2. CASE k \in need.keys
    <3>1. j = n
      BY <1>1, <1>6, <2>2 DEF LastNeed
    <3>2. items'[g][k] = new[k]
      BY <1>2, <1>5, <2>2
    <3>3. Genuine(g, items[g][k])'
      BY <1>2, <2>1, <2>2, <3>2 DEF Genuine
    <3> QED BY <1>1, <1>2, <2>2, <3>1, <3>2, <3>3 DEF Good
  <2>3. CASE k \notin need.keys
    <3>1. j # n /\ j \in 1..(n - 1) /\ LastNeed(g, k, n - 1, j)
      BY <1>1, <1>6, <2>3 DEF LastNeed
    <3>2. Good(g, k, manifest[g].needs[j].item)
      BY <1>0, <3>1 DEF CollectedUpTo
    <3>3. items'[g][k] = items[g][k]
      BY <1>2, <1>5, <2>3
    <3>4. Genuine(g, items[g][k])'
      BY <2>1, <3>2, <3>3 DEF Genuine, Good
    <3> QED BY <3>2, <3>3, <3>4 DEF Good
  <2> QED BY <2>2, <2>3
<1>7. \A k \in Keys : \A j \in 1..n : LastNeed(g, k, n, j)' <=> LastNeed(g, k, n, j)
  BY DEF LastNeed
<1>8. step'[g] - 1 = n
  BY <1>4
<1>9. CollectedUpTo(g, step[g] - 1)'
  BY <1>6, <1>7, <1>8 DEF CollectedUpTo
<1> QED BY <1>0, <1>2, <1>4, <1>5, <1>9

(* What a call in progress looks like. *)
LEMMA CallTyped ==
    ASSUME OpIInv, NEW g \in Callers, call[g].at # "none"
    PROVE  /\ call[g].id \in DOMAIN entry
           /\ entry[call[g].id].item \in Items
           /\ entry[call[g].id].content \in Nat
<1>1. call[g].id \in DOMAIN entry
  BY DEF OpIInv, OpTypeOK
<1>2. entry[call[g].id] \in Entry
  BY <1>1, EntriesTyped DEF OpIInv
<1> QED BY <1>1, <1>2 DEF Entry

(* The answers of the client and of the file, as values that are collected. *)
LEMMA AnswerCollected ==
    ASSUME OpIInv, [OpNext]_opVars, LayerTypes, CallMatches, NEW g \in Callers, Progress(g),
           OpAnswers(g) \/ ReadEnvFile(g)
    PROVE  /\ Fetching(g) /\ step'[g] = step[g] + 1
           /\ CollectedUpTo(g, step[g] - 1)'
           /\ items'[g] \in Data /\ items' = [items EXCEPT ![g] = items'[g]]
           /\ \A k \in Keys : items'[g][k] # None => items[g][k] # None \/ k \in CurrentNeed(g).keys
<1>1. Fetching(g) /\ UNCHANGED <<manifest, entry>> /\ CollectedUpTo(g, step[g] - 1)
  BY DEF OpAnswers, ReadEnvFile, ReturnItem, opVars, Fetching, Progress
<1>2. ASSUME NEW content \in Nat, Collected(g, content)
      PROVE  items' = [items EXCEPT ![g] = items'[g]]
  BY <1>2 DEF Collected, LayerTypes
<1>3. CASE OpAnswers(g)
  <2>1. call[g].at = "return" /\ entry[call[g].id].status = "ok"
    BY <1>3 DEF OpAnswers, ReturnItem, Returning
  <2>2. entry[call[g].id].item = CurrentNeed(g).item
    BY <2>1 DEF CallMatches
  <2>3. call[g].id \in DOMAIN entry /\ entry[call[g].id].content \in Nat
    BY <2>1, CallTyped
  <2>4. Collected(g, entry[call[g].id].content)
    BY <1>3 DEF OpAnswers
  <2>5. \E a \in DOMAIN entry : /\ entry[a].item = CurrentNeed(g).item
                                /\ entry[a].status = "ok"
                                /\ entry[a].content = entry[call[g].id].content
    BY <2>1, <2>2, <2>3
  <2> QED BY <1>1, <1>2, <2>3, <2>4, <2>5, CollectingAdvances
<1>4. CASE ReadEnvFile(g)
  <2>1. Collected(g, envfile) /\ ~FromOp(g) /\ envfile \in Nat
    BY <1>4 DEF ReadEnvFile, LayerTypes
  <2> QED BY <1>1, <1>2, <2>1, CollectingAdvances
<1> QED BY <1>3, <1>4

LEMMA KeepsLayerTypes ==
    ASSUME OpIInv, [OpNext]_opVars, LayerTypes, CallMatches, NEW g \in Callers, Progress(g),
           ManagerStep(g)
    PROVE  LayerTypes'
<1>1. CASE OpAnswers(g) \/ ReadEnvFile(g)
  <2>1. items'[g] \in Data /\ items' = [items EXCEPT ![g] = items'[g]]
    BY <1>1, AnswerCollected
  <2>2. items' \in [Callers -> Data]
    BY <2>1 DEF LayerTypes
  <2>3. step' = [step EXCEPT ![g] = @ + 1] /\ UNCHANGED <<manifest, pc, live, envfile>>
    BY <1>1 DEF OpAnswers, ReadEnvFile, Collected
  <2> QED BY <2>2, <2>3 DEF LayerTypes
<1>2. CASE Fetched(g)
  <2>1. StaticData(g) \in Data
    BY StaticKeys
  <2>2. Merge(items[g], StaticData(g)) \in Data
    BY <2>1, MergedKeys DEF LayerTypes
  <2>3. items' \in [Callers -> Data]
    BY <1>2, <2>2 DEF Fetched, LayerTypes
  <2>4. step' \in [Callers -> Nat \ {0}] /\ UNCHANGED <<manifest, live, envfile>>
    BY <1>2 DEF Fetched, LayerTypes
  <2>5. pc' \in [Callers -> {"setup", "idle", "fetch", "outputs", "render"} \cup Ended]
    BY <1>2 DEF Fetched, Goto, Ended, LayerTypes
  <2> QED BY <2>3, <2>4, <2>5 DEF LayerTypes
<1>3. CASE HandleOutput(g)
  <2>1. step' = [step EXCEPT ![g] = @ + 1] /\ UNCHANGED <<manifest, pc, items, envfile>>
    BY <1>3 DEF HandleOutput
  <2>2. live' \in [Secrets -> Data \cup {None}]
    <3>1. CASE command = "apply"
      BY <1>3, <3>1, OutputMerges
    <3>2. CASE command # "apply"
      <4>1. \/ live' = live
            \/ live' = [live EXCEPT ![CurrentOutput(g).secret] = None]
            \/ live' = CreateOrUpdate(CurrentOutput(g).secret, items[g])
        BY <1>3 DEF HandleOutput
      <4>2. CASE live' = CreateOrUpdate(CurrentOutput(g).secret, items[g])
        <5>1. items[g] \in Data /\ NoData \in Data /\ live \in [Secrets -> Data \cup {None}]
          BY DEF LayerTypes, NoData, Data
        <5>2. CASE CurrentOutput(g).secret \in Secrets
          <6> DEFINE old == IF live[CurrentOutput(g).secret] = None THEN NoData
                            ELSE live[CurrentOutput(g).secret]
          <6>1. old \in Data
            BY <5>1, <5>2
          <6>2. Merge(old, items[g]) \in Data
            BY <5>1, <6>1, MergedKeys
          <6> QED BY <4>2, <5>1, <6>2 DEF CreateOrUpdate
        <5>3. CASE CurrentOutput(g).secret \notin Secrets
          BY <4>2, <5>1, <5>3 DEF CreateOrUpdate
        <5> QED BY <5>2, <5>3
      <4> QED BY <4>1, <4>2 DEF LayerTypes
    <3> QED BY <3>1, <3>2
  <2> QED BY <2>1, <2>2 DEF LayerTypes
<1>4. CASE CallOp(g) \/ OpStep(g) \/ Render(g)
  BY <1>4 DEF CallOp, OpStep, Render, layerVars, LayerTypes
<1>5. CASE \/ Start(g) \/ OpAnswersShort(g) \/ OpFails(g) \/ ReadEnvFileFails(g)
           \/ OutputFails(g) \/ OutputsDone(g) \/ Rendered(g)
  <2>1. UNCHANGED <<manifest, step, items, live, envfile>>
    BY <1>5 DEF Start, OpAnswersShort, OpFails, ReadEnvFileFails, OutputFails, OutputsDone, Rendered
  <2>2. \E place \in {"fetch", "outputs"} \cup Ended : pc' = [pc EXCEPT ![g] = place]
    BY <1>5 DEF Start, OpAnswersShort, OpFails, ReadEnvFileFails, OutputFails, OutputsDone,
                Rendered, Goto, Ended
  <2>3. pc' \in [Callers -> {"setup", "idle", "fetch", "outputs", "render"} \cup Ended]
    BY <2>2 DEF LayerTypes
  <2> QED BY <2>1, <2>3 DEF LayerTypes
<1> QED BY <1>1, <1>2, <1>3, <1>4, <1>5 DEF ManagerStep

LEMMA KeepsCallMatches ==
    ASSUME OpIInv, [OpNext]_opVars, LayerTypes, CallMatches, NEW g \in Callers, ManagerStep(g)
    PROVE  CallMatches'
<1>1. UNCHANGED manifest
  BY OthersUntouched
<1>2. ASSUME NEW h \in Callers, call'[h].at # "none", call[h].at # "none", call'[h].id = call[h].id,
             pc'[h] = pc[h], step'[h] = step[h]
      PROVE  (Fetching(h) /\ FromOp(h) /\ entry[call[h].id].item = CurrentNeed(h).item)'
  <2>1. Fetching(h) /\ FromOp(h) /\ entry[call[h].id].item = CurrentNeed(h).item
    BY <1>2 DEF CallMatches
  <2>2. entry'[call[h].id].item = entry[call[h].id].item
    BY <1>2, CallTyped, EntriesPersist
  <2>3. FromOp(h)'
    BY <1>1, <2>1, SameProvider
  <2> QED BY <1>1, <1>2, <2>1, <2>2, <2>3 DEF Fetching, CurrentNeed
<1>3. ASSUME NEW h \in Callers, h # g, call'[h].at # "none"
      PROVE  (Fetching(h) /\ FromOp(h) /\ entry[call[h].id].item = CurrentNeed(h).item)'
  BY <1>2, <1>3, OthersUntouched
<1>4. ASSUME call'[g].at # "none"
      PROVE  (Fetching(g) /\ FromOp(g) /\ entry[call[g].id].item = CurrentNeed(g).item)'
  <2> USE DEF OpIInv, OpTypeOK
  <2>1. CASE CallOp(g)
    <3> DEFINE i == CurrentNeed(g).item
    <3>1. /\ Fetching(g) /\ FromOp(g) /\ GetVaultItem(g, i) /\ UNCHANGED layerVars
      BY <2>1 DEF CallOp
    <3>2. i \in Items
      BY <3>1, NeedsTyped DEF Fetching, CurrentNeed
    <3> HIDE DEF i
    <3>3. entry'[call'[g].id].item = i
      <4>1. CASE cache[i] # 0
        <5>1. entry' = entry /\ call'[g].id = cache[i]
          BY <3>1, <4>1 DEF GetVaultItem
        <5> QED BY <3>2, <4>1, <5>1 DEF CachedUnderItsItem
      <4>2. CASE cache[i] = 0
        <5>1. /\ entry' = Append(entry, [item |-> i, status |-> "new", content |-> 0])
              /\ call'[g].id = Len(entry) + 1
          BY <3>1, <4>2 DEF GetVaultItem
        <5> QED BY <5>1
      <4> QED BY <4>1, <4>2
    <3>4. FromOp(g)'
      BY <1>1, <3>1, SameProvider
    <3>5. UNCHANGED <<pc, step, manifest>>
      BY <3>1 DEF layerVars
    <3> QED BY <3>1, <3>3, <3>4, <3>5 DEF Fetching, CurrentNeed, i
  <2>2. CASE OpStep(g)
    <3>1. call[g].at # "none" /\ call'[g].id = call[g].id /\ UNCHANGED <<pc, step>>
      BY <2>2 DEF OpStep, OnceDo, FetchVaultItem, layerVars
    <3> QED BY <1>2, <1>4, <3>1
  <2>3. CASE OpAnswers(g) \/ OpAnswersShort(g) \/ OpFails(g)
    BY <1>4, <2>3 DEF OpAnswers, OpAnswersShort, OpFails, ReturnItem, ReturnError, NoCall
  <2>4. CASE \/ Start(g) \/ ReadEnvFile(g) \/ ReadEnvFileFails(g) \/ Fetched(g)
             \/ HandleOutput(g) \/ OutputFails(g) \/ OutputsDone(g) \/ Render(g) \/ Rendered(g)
    <3>1. UNCHANGED opVars /\ (~Fetching(g) \/ ~FromOp(g))
      BY <2>4 DEF Start, ReadEnvFile, ReadEnvFileFails, Fetched, HandleOutput, OutputFails,
                  OutputsDone, Render, Rendered, AtOutput, Fetching
    <3>2. call' = call
      BY <3>1 DEF opVars
    <3> QED BY <1>4, <3>1, <3>2 DEF CallMatches
  <2> QED BY <2>1, <2>2, <2>3, <2>4 DEF ManagerStep
<1> QED BY <1>3, <1>4 DEF CallMatches

(* A manager's step keeps its own progress. *)
LEMMA OwnProgress ==
    ASSUME SecretsIInv, [OpNext]_opVars, NEW g \in Callers, ManagerStep(g)
    PROVE  Progress(g)'
<1> USE DEF SecretsIInv
<1>0. Progress(g) /\ UNCHANGED <<manifest, command>>
  BY OthersUntouched
<1>1. CASE Start(g)
  <2>1. pc[g] = "idle" /\ UNCHANGED <<step, items, live>> /\ step[g] = 1 /\ items[g] = NoData
    BY <1>0, <1>1 DEF Start, Progress
  <2>2. \/ pc'[g] \in {"fetch", "failed"}
        \/ pc'[g] = "outputs" /\ command # "apply"
    BY <1>1 DEF Start, Goto, LayerTypes
  <2>3. \A k \in Keys : items'[g][k] = None
    BY <2>1 DEF NoData
  <2>4. CollectedUpTo(g, step[g] - 1)'
    BY <2>1 DEF CollectedUpTo
  <2>5. step'[g] <= Len(manifest[g].needs) + 1
    BY <2>1, NeedsTyped
  <2> QED BY <1>0, <2>1, <2>2, <2>3, <2>4, <2>5 DEF Progress, Applying
<1>2. CASE CallOp(g) \/ OpStep(g) \/ Render(g)
  <2>1. UNCHANGED <<pc, step, items, live>>
    BY <1>2 DEF CallOp, OpStep, Render, layerVars
  <2>2. step[g] - 1 \in Nat
    BY DEF LayerTypes
  <2>3. /\ CollectedUpTo(g, step[g] - 1) => CollectedUpTo(g, step[g] - 1)'
        /\ Complete(g) => Complete(g)'
    BY <1>0, <2>1, <2>2, CollectedKept
  <2>4. /\ Written(g, step[g] - 1) => Written(g, step[g] - 1)'
        /\ Written(g, Len(manifest[g].outputs)) => Written(g, Len(manifest[g].outputs))'
    BY <1>0, <2>1 DEF Written
  <2> QED BY <1>0, <2>1, <2>3, <2>4 DEF Progress, Applying, Produces
<1>3. CASE OpAnswers(g) \/ ReadEnvFile(g)
  <2>1. /\ Fetching(g) /\ step'[g] = step[g] + 1
        /\ CollectedUpTo(g, step[g] - 1)'
        /\ \A k \in Keys : items'[g][k] # None => items[g][k] # None \/ k \in CurrentNeed(g).keys
    BY <1>0, <1>3, AnswerCollected
  <2>2. pc'[g] = "fetch"
    BY <1>3, <2>1 DEF OpAnswers, ReadEnvFile, Fetching
  <2>3. step'[g] <= Len(manifest[g].needs) + 1 /\ step[g] \in DOMAIN manifest[g].needs
    BY <2>1, NeedsTyped DEF Fetching
  <2>4. \A k \in Keys : items'[g][k] # None => Produces(manifest, g, k)
    BY <1>0, <2>1, <2>3 DEF Progress, Produces, CurrentNeed
  <2> QED BY <1>0, <2>1, <2>2, <2>3, <2>4 DEF Progress, Produces
<1>4. CASE OpAnswersShort(g) \/ OpFails(g) \/ ReadEnvFileFails(g) \/ OutputFails(g)
  <2>1. pc'[g] = "failed" /\ UNCHANGED items
    BY <1>4 DEF OpAnswersShort, OpFails, ReadEnvFileFails, OutputFails, Goto, LayerTypes
  <2> QED BY <1>0, <2>1 DEF Progress, Produces
<1>5. CASE Fetched(g)
  <2>1. pc[g] = "fetch" /\ step[g] = Len(manifest[g].needs) + 1 /\ step'[g] = 1
    <3>1. pc[g] = "fetch" /\ ~(step[g] <= Len(manifest[g].needs))
      BY <1>5 DEF Fetched, Fetching
    <3>2. step'[g] = 1
      BY <1>5 DEF Fetched, LayerTypes
    <3>3. step[g] <= Len(manifest[g].needs) + 1
      BY <1>0, <3>1 DEF Progress
    <3>4. step[g] \in Nat /\ Len(manifest[g].needs) \in Nat
      BY NeedsTyped
    <3> QED BY <3>1, <3>2, <3>3, <3>4
  <2>2. CASE manifest[g].type = "helmfile"
    <3>1. pc'[g] \in {"render", "failed"} /\ UNCHANGED items
      BY <1>5, <2>2 DEF Fetched, Goto, LayerTypes
    <3> QED BY <1>0, <2>2, <3>1 DEF Progress, Produces, Applying
  <2>3. CASE manifest[g].type # "helmfile"
    <3> DEFINE static == StaticData(g)
    <3>1. pc'[g] \in {"outputs", "failed"} /\ items'[g] = Merge(items[g], static)
      BY <1>5, <2>3 DEF Fetched, Goto, LayerTypes
    <3>2. /\ static \in Data
          /\ \A k \in Keys : k \in manifest[g].static => static[k] # None /\ static[k].source = "static"
          /\ \A k \in Keys : k \notin manifest[g].static => static[k] = None
      BY StaticKeys
    <3> HIDE DEF static
    <3>3. \A k \in Keys : items'[g][k] = IF static[k] # None THEN static[k] ELSE items[g][k]
      BY <3>1, <3>2, MergedKeys DEF LayerTypes
    <3>4. \A k \in Keys : items'[g][k] # None => Produces(manifest, g, k)
      BY <1>0, <3>2, <3>3 DEF Progress, Produces
    <3>5. Complete(g)'
      <4>1. ASSUME NEW k \in Keys, k \notin manifest[g].static,
                   NEW j \in 1..Len(manifest[g].needs), LastNeed(g, k, Len(manifest[g].needs), j)
            PROVE  Good(g, k, manifest[g].needs[j].item)'
        <5>1. step[g] - 1 = Len(manifest[g].needs)
          BY <2>1, NeedsTyped
        <5>2. CollectedUpTo(g, step[g] - 1)
          BY <1>0, <2>1 DEF Progress
        <5>3. Good(g, k, manifest[g].needs[j].item)
          BY <4>1, <5>1, <5>2 DEF CollectedUpTo
        <5>4. items'[g][k] = items[g][k] /\ UNCHANGED entry
          BY <1>5, <3>2, <3>3, <4>1 DEF Fetched, opVars
        <5>5. FromOp(g)' <=> FromOp(g)
          BY <1>0, SameProvider
        <5>6. Genuine(g, items[g][k])'
          BY <5>3, <5>4, <5>5 DEF Good, Genuine
        <5> QED BY <1>0, <5>3, <5>4, <5>6 DEF Good
      <4>2. \A k \in Keys : \A j \in 1..Len(manifest[g].needs) :
              LastNeed(g, k, Len(manifest[g].needs), j)' <=> LastNeed(g, k, Len(manifest[g].needs), j)
        BY <1>0 DEF LastNeed
      <4> QED BY <1>0, <3>2, <3>3, <4>1, <4>2 DEF Complete
    <3>6. Written(g, step[g] - 1)'
      BY <1>0, <2>1, NeedsTyped DEF Written
    <3> QED BY <1>0, <3>1, <3>4, <3>5, <3>6 DEF Progress, Applying, Produces
  <2> QED BY <2>2, <2>3
<1>6. CASE HandleOutput(g)
  <2>1. /\ pc[g] = "outputs" /\ UNCHANGED <<pc, items, entry>> /\ step'[g] = step[g] + 1
        /\ step[g] \in Nat
    BY <1>6 DEF HandleOutput, AtOutput, opVars, LayerTypes
  <2>2. Complete(g) => Complete(g)'
    BY <1>0, <2>1, CollectedKept
  <2>3. Applying(g) => Written(g, step[g] - 1)'
    <3> SUFFICES ASSUME Applying(g), NEW m \in DOMAIN manifest[g].outputs, m <= step[g],
                        manifest[g].outputs[m].secret # None,
                        NEW k \in Keys, items[g][k] # None
                 PROVE  /\ live'[manifest[g].outputs[m].secret] # None
                        /\ live'[manifest[g].outputs[m].secret][k] = items[g][k]
      BY <1>0, <2>1 DEF Written
    <3> DEFINE s == manifest[g].outputs[m].secret
    <3>1. command = "apply" /\ s \in Secrets /\ m \in Nat
      BY NeedsTyped DEF Applying
    <3>2. CASE s = CurrentOutput(g).secret
      BY <1>6, <3>1, <3>2, OutputMerges
    <3>3. CASE s # CurrentOutput(g).secret
      <4>1. m <= step[g] - 1
        BY <2>1, <3>1, <3>3 DEF CurrentOutput
      <4>2. live[s] # None /\ live[s][k] = items[g][k]
        BY <1>0, <2>1, <4>1 DEF Progress, Written
      <4> QED BY <1>6, <3>1, <3>3, <4>2, OutputMerges
    <3> QED BY <3>2, <3>3
  <2> QED BY <1>0, <2>1, <2>2, <2>3 DEF Progress, Applying, Produces
<1>7. CASE OutputsDone(g)
  <2>1. /\ pc[g] = "outputs" /\ pc'[g] = "done" /\ UNCHANGED <<items, live, entry>>
        /\ step[g] - 1 >= Len(manifest[g].outputs) /\ step[g] \in Nat
    BY <1>7, NeedsTyped DEF OutputsDone, AtOutput, Goto, opVars, LayerTypes
  <2>2. Complete(g) => Complete(g)'
    BY <1>0, <2>1, CollectedKept
  <2>3. Written(g, step[g] - 1) => Written(g, Len(manifest[g].outputs))'
    BY <1>0, <2>1, NeedsTyped DEF Written
  <2> QED BY <1>0, <2>1, <2>2, <2>3 DEF Progress, Applying, Produces
<1>8. CASE Rendered(g)
  <2>1. pc'[g] \in Ended /\ UNCHANGED items
    BY <1>8 DEF Rendered, Goto, LayerTypes, Ended
  <2>2. ~Applying(g)
    BY <1>8, ManifestsAssumption DEF Rendered, Applying, LayerTypes
  <2> QED BY <1>0, <2>1, <2>2 DEF Progress, Applying, Produces, Ended
<1> QED BY <1>1, <1>2, <1>3, <1>4, <1>5, <1>6, <1>7, <1>8 DEF ManagerStep

LEMMA OthersProgress ==
    ASSUME OwnKeys, SecretsIInv, [OpNext]_opVars, NEW g \in Callers, ManagerStep(g),
           NEW h \in Callers, h # g
    PROVE  Progress(h)'
<1> USE DEF SecretsIInv
<1>1. /\ UNCHANGED <<manifest, command>>
      /\ pc'[h] = pc[h] /\ step'[h] = step[h] /\ items'[h] = items[h]
      /\ Progress(h) /\ step[h] - 1 \in Nat /\ Len(manifest[h].outputs) \in Nat
  BY OthersUntouched, NeedsTyped DEF LayerTypes
<1>2. /\ CollectedUpTo(h, step[h] - 1) => CollectedUpTo(h, step[h] - 1)'
      /\ Complete(h) => Complete(h)'
  <2>1. PICK n \in Nat : n = step[h] - 1
    BY <1>1
  <2>2. CollectedUpTo(h, n) => CollectedUpTo(h, n)'
    BY <1>1, CollectedKept
  <2> QED BY <1>1, <2>1, <2>2, CollectedKept DEF CollectedUpTo
<1>3. ASSUME NEW n \in Nat, Applying(h), Written(h, n) PROVE Written(h, n)'
  BY <1>3, WrittenKept
<1>4. /\ Applying(h) /\ Written(h, step[h] - 1) => Written(h, step[h] - 1)'
      /\ Applying(h) /\ Written(h, Len(manifest[h].outputs)) => Written(h, Len(manifest[h].outputs))'
  BY <1>1, <1>3 DEF Written
<1> QED BY <1>1, <1>2, <1>4 DEF Progress, Applying, Produces

(* Steps of the vault and the file leave what the managers have alone. *)
LEMMA IdleKeepsSecrets ==
    ASSUME SecretsIInv, [OpNext]_opVars, envfile' \in Nat,
           UNCHANGED <<manifest, command, pc, step, items, live, call, entry>>
    PROVE  LayerTypes' /\ CallMatches' /\ \A g \in Callers : Progress(g)'
<1> USE DEF SecretsIInv
<1>1. LayerTypes'
  BY DEF LayerTypes
<1>2. CallMatches'
  <2>1. \A g \in Callers : FromOp(g)' <=> FromOp(g)
    BY SameProvider
  <2> QED BY <2>1 DEF CallMatches, Fetching, CurrentNeed
<1>3. ASSUME NEW g \in Callers PROVE Progress(g)'
  <2>1. \A value : Genuine(g, value) => Genuine(g, value)'
    BY SameProvider DEF Genuine
  <2>2. Progress(g)
    OBVIOUS
  <2>3. /\ CollectedUpTo(g, step[g] - 1) => CollectedUpTo(g, step[g] - 1)'
        /\ Complete(g) => Complete(g)'
    BY <2>1 DEF CollectedUpTo, Complete, Good, LastNeed
  <2>4. /\ Written(g, step[g] - 1) => Written(g, step[g] - 1)'
        /\ Written(g, Len(manifest[g].outputs)) => Written(g, Len(manifest[g].outputs))'
    BY DEF Written
  <2> QED BY <2>2, <2>3, <2>4 DEF Progress, Applying, Produces
<1> QED BY <1>1, <1>2, <1>3

LEMMA SecretsInit == Init => SecretsIInv
<1> SUFFICES ASSUME Init PROVE SecretsIInv
  OBVIOUS
<1>1. OpIInv /\ CallMatches
  BY OpInitInvariant DEF Init, OpInit, CallMatches, NoCall
<1>2. NoData \in Data
  BY DEF NoData, Data
<1>3. live \in [Secrets -> Data \cup {None}]
  <2>1. [k \in Keys |-> [source |-> "static", content |-> 1]] \in Data
    BY DEF Data, Value
  <2> QED BY <2>1 DEF Init
<1>4. LayerTypes
  BY <1>2, <1>3 DEF Init, LayerTypes
<1>5. ASSUME NEW g \in Callers PROVE Progress(g)
  <2>1. pc[g] = "setup" /\ step[g] = 1 /\ items[g] = NoData
    BY DEF Init
  <2> QED BY <2>1 DEF Progress, NoData
<1> QED BY <1>1, <1>4, <1>5 DEF SecretsIInv

LEMMA SecretsStep ==
    ASSUME OwnKeys, LayerIInv, SecretsIInv, [Next]_vars
    PROVE  SecretsIInv'
<1> USE DEF SecretsIInv
<1>1. [OpNext]_opVars
  BY CallsClient DEF vars
<1>2. OpIInv'
  BY <1>1, OpStepInvariant
<1>3. CASE \E g \in Callers : ManagerStep(g)
  <2>1. PICK g \in Callers : ManagerStep(g)
    BY <1>3
  <2>2. LayerTypes' /\ CallMatches'
    BY <1>1, <2>1, KeepsLayerTypes, KeepsCallMatches
  <2>3. \A h \in Callers : Progress(h)'
    BY <1>1, <2>1, OwnProgress, OthersProgress
  <2> QED BY <1>2, <2>2, <2>3
<1>4. CASE \E i \in Items : RotateItem(i)
  <2>1. UNCHANGED <<layerVars, call, entry>>
    BY <1>4 DEF RotateItem, Rotate
  <2>2. UNCHANGED <<manifest, command, pc, step, items, live, envfile, call, entry>>
    BY <2>1 DEF layerVars
  <2>3. envfile' \in Nat
    BY <2>2 DEF LayerTypes
  <2> QED BY <1>1, <1>2, <2>2, <2>3, IdleKeepsSecrets
<1>5. CASE EditEnvFile \/ Rest \/ UNCHANGED vars
  <2>1. /\ UNCHANGED <<manifest, command, pc, step, items, live, call, entry>>
        /\ envfile' \in Nat
    BY <1>5 DEF EditEnvFile, Rest, vars, opVars, layerVars, LayerTypes
  <2> QED BY <1>1, <1>2, <2>1, IdleKeepsSecrets
<1>6. CASE SetupManagers
  <2>1. /\ UNCHANGED <<manifest, command, step, items, live, envfile, call, entry>>
        /\ \A g \in Callers : pc[g] = "setup"
        /\ pc' \in [Callers -> {"idle", "failed"}]
    BY <1>6 DEF SetupManagers, opVars
  <2>2. LayerTypes'
    BY <2>1 DEF LayerTypes, Ended
  <2>3. CallMatches'
    BY <2>1 DEF CallMatches, Fetching
  <2>4. ASSUME NEW g \in Callers PROVE Progress(g)'
    <3>1. pc'[g] \in {"idle", "failed"} /\ step[g] = 1 /\ items[g] = NoData
      BY <2>1 DEF Progress
    <3> QED BY <2>1, <3>1 DEF Progress, NoData
  <2> QED BY <1>2, <2>2, <2>3, <2>4
<1> QED BY <1>3, <1>4, <1>5, <1>6 DEF Next

LEMMA SecretsInvariant == ASSUME OwnKeys PROVE Spec => [](LayerIInv /\ SecretsIInv)
<1>1. Init => LayerIInv /\ SecretsIInv
  BY LayerInitInvariant, SecretsInit
<1>2. LayerIInv /\ SecretsIInv /\ [Next]_vars => (LayerIInv /\ SecretsIInv)'
  BY LayerStepInvariant, SecretsStep
<1> QED BY <1>1, <1>2, PTL DEF Spec

(* The declared source of a key that is not static is its last need's.     *)
LEMMA SourceOfLastNeed ==
    ASSUME LayerTypes, NEW g \in Callers, NEW k \in Keys,
           k \notin manifest[g].static, DeclaredSource(g, k) # None
    PROVE  \E j \in 1..Len(manifest[g].needs) :
              /\ LastNeed(g, k, Len(manifest[g].needs), j)
              /\ DeclaredSource(g, k) = manifest[g].needs[j].item
<1> DEFINE n == Len(manifest[g].needs)
           S == {j \in DOMAIN manifest[g].needs : k \in manifest[g].needs[j].keys}
           last == CHOOSE j \in S : \A i \in S : i <= j
<1>1. n \in Nat /\ DOMAIN manifest[g].needs = 1..n
  BY NeedsTyped
<1>2. S # {} /\ DeclaredSource(g, k) = manifest[g].needs[last].item
  BY DEF DeclaredSource
<1>3. \E j \in S : \A i \in S : i <= j
  BY <1>1, <1>2, LargestExists
<1>4. last \in S /\ \A i \in S : i <= last
  BY <1>3
<1>5. last \in 1..n /\ LastNeed(g, k, n, last)
  BY <1>1, <1>4 DEF LastNeed
<1> QED BY <1>2, <1>5

LEMMA SecretsIInvImplies == SecretsIInv => SecretsAsDeclared
<1> SUFFICES ASSUME SecretsIInv, NEW g \in Callers,
                    manifest[g].type = "genesissecret", command = "apply", pc[g] = "done",
                    NEW m \in DOMAIN manifest[g].outputs, NEW k \in Keys,
                    manifest[g].outputs[m].secret # None, DeclaredSource(g, k) # None
             PROVE  LET target == manifest[g].outputs[m].secret
                        source == DeclaredSource(g, k)
                    IN  /\ live[target] # None /\ live[target][k] # None
                        /\ live[target][k].source = source
                        /\ FromOp(g) /\ source # "static" =>
                             \E a \in DOMAIN entry :
                                /\ entry[a].item = source /\ entry[a].status = "ok"
                                /\ entry[a].content = live[target][k].content
  BY DEF SecretsAsDeclared
<1> DEFINE target == manifest[g].outputs[m].secret
           source == DeclaredSource(g, k)
<1>1. Complete(g) /\ Written(g, Len(manifest[g].outputs))
  BY DEF SecretsIInv, Progress, Applying
<1>2. m <= Len(manifest[g].outputs)
  BY NeedsTyped DEF SecretsIInv
<1>3. items[g][k] # None => live[target] # None /\ live[target][k] = items[g][k]
  BY <1>1, <1>2 DEF Written
<1>4. CASE k \in manifest[g].static
  <2>1. source = "static"
    BY <1>4 DEF DeclaredSource
  <2>2. items[g][k] # None /\ items[g][k].source = "static"
    BY <1>1, <1>4 DEF Complete
  <2> QED BY <1>3, <2>1, <2>2
<1>5. CASE k \notin manifest[g].static
  <2>1. PICK j \in 1..Len(manifest[g].needs) :
              /\ LastNeed(g, k, Len(manifest[g].needs), j)
              /\ source = manifest[g].needs[j].item
    BY <1>5, SourceOfLastNeed DEF SecretsIInv
  <2>2. Good(g, k, source)
    BY <1>1, <1>5, <2>1 DEF Complete
  <2>3. items[g][k] # None /\ items[g][k].source = source /\ Genuine(g, items[g][k])
    BY <2>2 DEF Good
  <2> QED BY <1>3, <2>3 DEF Genuine
<1> QED BY <1>4, <1>5

(* Whatever the goroutines of a layer do to each other, to the client and  *)
(* to the Secrets they share, an apply that succeeded left the declared    *)
(* value of every key, if no two manifests fill the same key of a Secret.  *)
THEOREM SecretsHoldDeclaredValues == ASSUME OwnKeys PROVE Spec => []SecretsAsDeclared
BY SecretsInvariant, SecretsIInvImplies, PTL
=============================================================================
