---------------------------- MODULE AtomicStore ----------------------------
(***************************************************************************)
(* What the runner models take a state store to be: reading a state and    *)
(* saving one are single steps; a save that reports an error may have been *)
(* carried out; a process may die; somebody may delete everything.         *)
(***************************************************************************)
CONSTANTS
    Savers,        \* the goroutines that save a state, once each
    Target,        \* saver -> the manifest it saves the state of
    SyncSavers     \* the savers that add to the state they read before

VARIABLES
    data,          \* manifest -> the entries of its state
    base,          \* saver -> the entries it has read
    status         \* saver -> "idle", "busy", "ok", "failed" or "lost"

storeVars == <<data, base, status>>

StoreInit ==
    /\ data = [m \in {Target[s] : s \in Savers} |-> {}]
    /\ base = [s \in Savers |-> {}]
    /\ status = [s \in Savers |-> "idle"]

(* The entry a saver contributes is named after it. *)
Saved(s) == [data EXCEPT ![Target[s]] = base[s] \cup {s}]

Read(s) ==
    /\ status[s] = "idle"
    /\ status' = [status EXCEPT ![s] = "busy"]
    /\ base' = [base EXCEPT ![s] = IF s \in SyncSavers THEN data[Target[s]] ELSE {}]
    /\ UNCHANGED data

Save(s) ==
    /\ status[s] = "busy"
    /\ status' = [status EXCEPT ![s] = "ok"]
    /\ data' = Saved(s)
    /\ UNCHANGED base

Fail(s) ==
    /\ status[s] \in {"idle", "busy"}
    /\ status' = [status EXCEPT ![s] = "failed"]
    /\ data' \in {data} \cup {Saved(t) : t \in {s} \cap {u \in Savers : status[u] = "busy"}}
    /\ UNCHANGED base

(* The process of the savers S dies. *)
Die(S) ==
    /\ status' = [s \in Savers |->
                    IF s \in S /\ status[s] \in {"idle", "busy"} THEN "lost" ELSE status[s]]
    /\ UNCHANGED <<data, base>>

Wipe ==
    /\ data' = [m \in DOMAIN data |-> {}]
    /\ UNCHANGED <<base, status>>

StoreNext ==
    \/ \E s \in Savers : Read(s) \/ Save(s) \/ Fail(s)
    \/ \E S \in SUBSET Savers : Die(S)
    \/ Wipe

StoreSpec == StoreInit /\ [][StoreNext]_storeVars
=============================================================================
