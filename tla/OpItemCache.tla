---------------------------- MODULE OpItemCache ----------------------------
(***************************************************************************)
(* CommandClient.GetVaultItem: the items read with the 1Password command   *)
(* "op" are memoised per vault and item for the life of the process.       *)
(* Concurrent calls for one item share one cache entry, whose sync.Once    *)
(* runs the command; a failure is handed to all of them and then evicted.  *)
(* An entry is its index in "entry", as the code compares pointers; an     *)
(* item's content is the number of times it has been changed.              *)
(***************************************************************************)
EXTENDS Integers, Sequences

CONSTANTS
    Callers,        \* goroutines that share the client
    Items,          \* vault/item pairs
    MaxRotations    \* bound on changes in the vault

ASSUME RotationsAssumption == MaxRotations \in Nat

VARIABLES
    cache,          \* itemCache: item -> index of its entry, 0 for none
    entry,          \* all itemCacheEntry values made so far
    call,           \* caller -> where it is in GetVaultItem
    vault           \* item -> its content in 1Password

opVars == <<cache, entry, call, vault>>

Entry == [item : Items, status : {"new", "running", "ok", "err"}, content : Nat]
NoCall == [at |-> "none", id |-> 0]

OpInit ==
    /\ cache = [i \in Items |-> 0]
    /\ entry = <<>>
    /\ call = [g \in Callers |-> NoCall]
    /\ vault = [i \in Items |-> 0]

(* Under itemMu: find or create the entry. *)
GetVaultItem(g, i) ==
    /\ call[g].at = "none"
    /\ IF cache[i] # 0
       THEN call' = [call EXCEPT ![g] = [at |-> "once", id |-> cache[i]]] /\ UNCHANGED <<cache, entry>>
       ELSE /\ entry' = Append(entry, [item |-> i, status |-> "new", content |-> 0])
            /\ cache' = [cache EXCEPT ![i] = Len(entry) + 1]
            /\ call' = [call EXCEPT ![g] = [at |-> "once", id |-> Len(entry) + 1]]
    /\ UNCHANGED vault

(* once.Do: the first caller runs the command, the others wait for it. *)
OnceDo(g) ==
    LET id == call[g].id
    IN  /\ call[g].at = "once"
        /\ entry[id].status # "running"
        /\ IF entry[id].status = "new"
           THEN entry' = [entry EXCEPT ![id].status = "running"] /\ call' = [call EXCEPT ![g].at = "op"]
           ELSE call' = [call EXCEPT ![g].at = "return"] /\ UNCHANGED entry
        /\ UNCHANGED <<cache, vault>>

(* fetchVaultItem: the command delivers the item, or fails. *)
FetchVaultItem(g) ==
    LET id == call[g].id
    IN  /\ call[g].at = "op"
        /\ \/ entry' = [entry EXCEPT ![id].status = "ok", ![id].content = vault[entry[id].item]]
           \/ entry' = [entry EXCEPT ![id].status = "err"]
        /\ call' = [call EXCEPT ![g].at = "return"]
        /\ UNCHANGED <<cache, vault>>

Returning(g, status) == call[g].at = "return" /\ entry[call[g].id].status = status

ReturnItem(g) ==
    /\ Returning(g, "ok")
    /\ call' = [call EXCEPT ![g] = NoCall]
    /\ UNCHANGED <<cache, entry, vault>>

(* Mutants: whatever entry the item has now is evicted; none is. *)
EvictAnyEntry(id) == [cache EXCEPT ![entry[id].item] = 0]
EvictNothing(id) == cache

(* Under itemMu: the failed entry is evicted if it is still the item's. *)
Evict(id) == [cache EXCEPT ![entry[id].item] = IF @ = id THEN 0 ELSE @]

ReturnError(g) ==
    /\ Returning(g, "err")
    /\ cache' = Evict(call[g].id)
    /\ call' = [call EXCEPT ![g] = NoCall]
    /\ UNCHANGED <<entry, vault>>

(* Somebody changes an item in 1Password. *)
Rotate(i) ==
    /\ vault[i] < MaxRotations
    /\ vault' = [vault EXCEPT ![i] = @ + 1]
    /\ UNCHANGED <<cache, entry, call>>

OpNext ==
    \/ \E g \in Callers :
         \/ \E i \in Items : GetVaultItem(g, i)
         \/ OnceDo(g) \/ FetchVaultItem(g) \/ ReturnItem(g) \/ ReturnError(g)
    \/ \E i \in Items : Rotate(i)

OpSpec == OpInit /\ [][OpNext]_opVars

-----------------------------------------------------------------------------
OpTypeOK ==
    /\ cache \in [Items -> Nat]
    /\ \A i \in Items : cache[i] \in 0..Len(entry)
    /\ entry \in Seq(Entry)
    /\ call \in [Callers -> [at : {"none", "once", "op", "return"}, id : Nat]]
    /\ \A g \in Callers : call[g].at # "none" => call[g].id \in DOMAIN entry
    /\ vault \in [Items -> Nat]

(* Whoever asks for an item in one run, and whenever, sees the same        *)
(* content of it, although the vault changes, calls fail and failed        *)
(* entries are evicted by several callers in any order.                    *)
OneContentPerItem ==
    \A a, b \in DOMAIN entry :
        entry[a].item = entry[b].item /\ entry[a].status = "ok" /\ entry[b].status = "ok" => a = b

(* "Errors are not cached": a failed entry is in the cache only until the  *)
(* first of its callers returns, and there always is one about to; a call  *)
(* made after that runs the command again.                                 *)
ErrorsNotKept ==
    \A i \in Items :
        cache[i] # 0 /\ entry[cache[i]].status = "err" =>
            \E g \in Callers : call[g] = [at |-> "return", id |-> cache[i]]
=============================================================================
