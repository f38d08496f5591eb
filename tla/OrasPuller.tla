----------------------------- MODULE OrasPuller -----------------------------
(***************************************************************************)
(* The manager of type oras: cachingPuller.Pull, the extractor and the     *)
(* hand-over to the helmfile or kustomize manager.  The goroutines of a    *)
(* layer, and other tazuna processes, share one cache directory:           *)
(* blobs/<digest> holds extracted artifacts and refs/<reference> remembers *)
(* which digest a tag had.  Every access to the file system and to the     *)
(* registry is a step of its own; RemoveAll deletes file by file.          *)
(*                                                                         *)
(* The files of an artifact are the indices of its tar entries.  A         *)
(* directory remembers which pull created it, as an inode would.           *)
(***************************************************************************)
EXTENDS Integers, Sequences, FiniteSets

CONSTANTS
    Processes,
    Pulls,          \* one goroutine of one process that handles one manifest
    Proc,           \* pull -> its process
    Tags,           \* references by tag
    Digests,        \* references by digest, and what tags resolve to
    RefKey,         \* sanitizeRef: tag -> name of its file under refs/
    Specs,          \* manifests of type oras
    Options,        \* --no-cache and --offline of a process
    Archive,        \* digest -> the entries of its only layer
    MaxEntries, MaxTotalBytes,      \* limits of the extractor
    Absent,
    MaxRetags, MaxCrashes           \* bounds on the environment

Entry == [kind : {"dir", "file", "link", "other"},
          name : {"inside", "absolute", "escapes"},
          link : {"inside", "absolute", "escapes"},
          size : Nat]

ASSUME OrasAssumption ==
    /\ Proc \in [Pulls -> Processes]
    /\ RefKey \in [Tags -> Tags]
    /\ Tags \cap Digests = {}
    /\ Specs \subseteq [ref : Tags \cup Digests, target : {"inside", "escapes"},
                        delegate : {"helmfile", "kustomize", "other"}]
    /\ Options \subseteq {o \in [noCache : BOOLEAN, offline : BOOLEAN] : ~(o.noCache /\ o.offline)}
    /\ Archive \in [Digests -> Seq(Entry)]
    /\ MaxEntries \in Nat /\ MaxTotalBytes \in Nat
    /\ MaxRetags \in Nat /\ MaxCrashes \in Nat

VARIABLES
    registry,       \* tag -> digest
    refs,           \* refs/<key> -> digest
    blobs,          \* blobs/<digest>: its creator and its files
    tmp,            \* pull -> its directory extract-*: entries and bytes written
    spec, opts,     \* pull -> its manifest, process -> its flags
    pc,
    dig,            \* pull -> resolvedDigest
    victim,         \* pull -> the directory its RemoveAll has opened
    retags, crashes,
    (* History variables, read by properties only. *)
    served,         \* tag -> digests it has had
    seen,           \* pull -> digests its tag has had since the pull began
    scarred         \* directories a RemoveAll has begun to delete

cacheVars == <<refs, blobs>>
history == <<served, seen, scarred>>
vars == <<registry, refs, blobs, tmp, spec, opts, pc, dig, victim, retags, crashes,
          served, seen, scarred>>

Ended == {"done", "failed", "dead"}
NoCache(p) == opts[Proc[p]].noCache
Offline(p) == opts[Proc[p]].offline
IsDigest(p) == spec[p].ref \in Digests
DirExists(d) == blobs[d] # Absent

Init ==
    /\ registry \in [Tags -> Digests]
    /\ refs = [k \in Tags |-> Absent]
    /\ blobs = [d \in Digests |-> Absent]
    /\ tmp = [p \in Pulls |-> Absent]
    /\ spec \in [Pulls -> Specs]
    /\ opts \in [Processes -> Options]
    /\ pc = [p \in Pulls |-> "lookup"]
    /\ dig = [p \in Pulls |-> Absent]
    /\ victim = [p \in Pulls |-> Absent]
    /\ retags = 0 /\ crashes = 0
    /\ served = [t \in Tags |-> {registry[t]}]
    /\ seen = [p \in Pulls |-> {}]
    /\ scarred = {}

-----------------------------------------------------------------------------
(***************************************************************************)
(* Pull, up to the point where the registry has to deliver the artifact.   *)
(***************************************************************************)

Goto(p, place) == pc' = [pc EXCEPT ![p] = place]

(* Mutant: --no-cache does not reach the puller. *)
MayUseCacheAlways(p) == TRUE

MayUseCache(p) == ~NoCache(p)

ReadRefMapping(t) == refs[RefKey[t]]

(* The digest before the registry is asked: that of the reference, or what *)
(* the tag resolved to earlier.                                            *)
Lookup(p) ==
    /\ pc[p] = "lookup"
    /\ dig' = [dig EXCEPT ![p] =
                 IF IsDigest(p) THEN spec[p].ref
                 ELSE IF MayUseCache(p) THEN ReadRefMapping(spec[p].ref) ELSE Absent]
    /\ seen' = [seen EXCEPT ![p] = IF IsDigest(p) THEN {} ELSE {registry[spec[p].ref]}]
    /\ Goto(p, "check")
    /\ UNCHANGED <<registry, cacheVars, tmp, spec, opts, victim, retags, crashes, served, scarred>>

(* The cache hit without access to the registry; a miss ends --offline. *)
CheckCache(p) ==
    /\ pc[p] = "check"
    /\ IF MayUseCache(p) /\ dig[p] # Absent /\ DirExists(dig[p])
       THEN Goto(p, "delegate")
       ELSE Goto(p, IF Offline(p) THEN "failed" ELSE "resolve")
    /\ UNCHANGED <<registry, cacheVars, tmp, spec, opts, dig, victim, retags, crashes, history>>

Resolve(p) ==
    /\ pc[p] = "resolve"
    /\ dig' = [dig EXCEPT ![p] = IF IsDigest(p) THEN spec[p].ref ELSE registry[spec[p].ref]]
    /\ Goto(p, IF NoCache(p) THEN "remove" ELSE "recheck")
    /\ UNCHANGED <<registry, cacheVars, tmp, spec, opts, victim, retags, crashes, history>>

(* RemoveAll opens the directory, ... *)
OpenForRemoval(p) ==
    /\ pc[p] = "remove"
    /\ victim' = [victim EXCEPT ![p] = IF DirExists(dig[p]) THEN blobs[dig[p]].by ELSE Absent]
    /\ scarred' = IF DirExists(dig[p]) THEN scarred \cup {blobs[dig[p]].by} ELSE scarred
    /\ Goto(p, IF DirExists(dig[p]) THEN "removing" ELSE "fetch")
    /\ UNCHANGED <<registry, cacheVars, tmp, spec, opts, dig, retags, crashes, served, seen>>

(* ... deletes its files one by one, ... *)
RemoveFile(p) ==
    /\ pc[p] = "removing"
    /\ DirExists(dig[p]) /\ blobs[dig[p]].by = victim[p]
    /\ \E f \in blobs[dig[p]].files : blobs' = [blobs EXCEPT ![dig[p]].files = @ \ {f}]
    /\ UNCHANGED <<registry, refs, tmp, spec, opts, pc, dig, victim, retags, crashes, history>>

(* ... and then the directory by its path, which fails if another pull has *)
(* put a new directory there.                                              *)
RemoveDir(p) ==
    /\ pc[p] = "removing"
    /\ DirExists(dig[p]) /\ blobs[dig[p]].by = victim[p] => blobs[dig[p]].files = {}
    /\ IF DirExists(dig[p]) /\ blobs[dig[p]].files # {}
       THEN Goto(p, "failed") /\ UNCHANGED blobs
       ELSE Goto(p, "fetch") /\ blobs' = [blobs EXCEPT ![dig[p]] = Absent]
    /\ UNCHANGED <<registry, refs, tmp, spec, opts, dig, victim, retags, crashes, history>>

(* The cache hit after the tag was resolved. *)
Recheck(p) ==
    /\ pc[p] = "recheck"
    /\ Goto(p, IF ~DirExists(dig[p]) THEN "fetch" ELSE IF IsDigest(p) THEN "delegate" ELSE "map")
    /\ UNCHANGED <<registry, cacheVars, tmp, spec, opts, dig, victim, retags, crashes, history>>

(* The manifest and its single layer are fetched; MkdirTemp. *)
Fetch(p) ==
    /\ pc[p] = "fetch"
    /\ tmp' = [tmp EXCEPT ![p] = [entries |-> 0, bytes |-> 0]]
    /\ Goto(p, "extract")
    /\ UNCHANGED <<registry, cacheVars, spec, opts, dig, victim, retags, crashes, history>>

-----------------------------------------------------------------------------
(***************************************************************************)
(* ExtractWithLimits.                                                      *)
(***************************************************************************)

SafeJoin(entry) == entry.name = "inside"

(* What a link entry must satisfy, next to the name every entry needs. *)
LinkAllowed(entry) == entry.kind = "link" => entry.link = "inside"

(* Mutant: the whole file is copied before the size is compared. *)
CopiedBytesUnlimited(entry, total) == IF entry.kind = "file" THEN entry.size ELSE 0

(* Bytes written for an entry: the reader stops one byte after the limit.  *)
CopiedBytes(entry, total) ==
    LET remaining == IF MaxTotalBytes > total THEN MaxTotalBytes - total ELSE 0
    IN  IF entry.kind # "file" THEN 0
        ELSE IF entry.size > remaining + 1 THEN remaining + 1 ELSE entry.size

(* The checks before an entry is written. *)
EntryAllowed(entry, count) ==
    count <= MaxEntries /\ SafeJoin(entry) /\ entry.kind # "other" /\ LinkAllowed(entry)

Extracting(p) == pc[p] = "extract" /\ tmp[p].entries < Len(Archive[dig[p]])

(* One entry is written and is within the limits. *)
ExtractEntry(p) ==
    /\ Extracting(p)
    /\ LET count == tmp[p].entries + 1
           entry == Archive[dig[p]][count]
           total == tmp[p].bytes + CopiedBytes(entry, tmp[p].bytes)
       IN  /\ EntryAllowed(entry, count)
           /\ tmp' = [tmp EXCEPT ![p] = [entries |-> count, bytes |-> total]]
           /\ Goto(p, IF total > MaxTotalBytes THEN "cleanup" ELSE "extract")
    /\ UNCHANGED <<registry, cacheVars, spec, opts, dig, victim, retags, crashes, history>>

(* An entry is refused, or the stream or the file system fails. *)
ExtractFails(p) ==
    /\ pc[p] = "extract"
    /\ Goto(p, "cleanup")
    /\ UNCHANGED <<registry, cacheVars, tmp, spec, opts, dig, victim, retags, crashes, history>>

ExtractEnds(p) ==
    /\ pc[p] = "extract"
    /\ ~Extracting(p)
    /\ Goto(p, "rename")
    /\ UNCHANGED <<registry, cacheVars, tmp, spec, opts, dig, victim, retags, crashes, history>>

(* Mutant: the temporary directory stays behind. *)
CleanupForgotten(p) ==
    /\ pc[p] = "cleanup"
    /\ Goto(p, "failed")
    /\ UNCHANGED <<registry, cacheVars, tmp, spec, opts, dig, victim, retags, crashes, history>>

(* cleanup() and the error return. *)
Cleanup(p) ==
    /\ pc[p] = "cleanup"
    /\ tmp' = [tmp EXCEPT ![p] = Absent]
    /\ Goto(p, "failed")
    /\ UNCHANGED <<registry, cacheVars, spec, opts, dig, victim, retags, crashes, history>>

-----------------------------------------------------------------------------
(***************************************************************************)
(* The end of Pull.                                                        *)
(***************************************************************************)

AfterRename(p) == IF IsDigest(p) THEN "delegate" ELSE "map"

(* Mutant: the layer is extracted into its final place. *)
RenameInPlace(p) ==
    /\ pc[p] \in {"extract", "rename"}
    /\ blobs' = [blobs EXCEPT ![dig[p]] = [by |-> p, files |-> 1..tmp[p].entries]]
    /\ tmp' = IF pc[p] = "rename" THEN [tmp EXCEPT ![p] = Absent] ELSE tmp
    /\ pc' = IF pc[p] = "rename" THEN [pc EXCEPT ![p] = AfterRename(p)] ELSE pc
    /\ UNCHANGED <<registry, refs, spec, opts, dig, victim, retags, crashes, history>>

(* os.Rename: refused when the target is there. *)
Rename(p) ==
    /\ pc[p] = "rename"
    /\ IF DirExists(dig[p])
       THEN Goto(p, "renamed") /\ UNCHANGED <<blobs, tmp>>
       ELSE /\ blobs' = [blobs EXCEPT ![dig[p]] = [by |-> p, files |-> 1..tmp[p].entries]]
            /\ tmp' = [tmp EXCEPT ![p] = Absent]
            /\ Goto(p, AfterRename(p))
    /\ UNCHANGED <<registry, refs, spec, opts, dig, victim, retags, crashes, history>>

(* The rename failed: is there a directory of another pull? *)
AfterFailedRename(p) ==
    /\ pc[p] = "renamed"
    /\ IF DirExists(dig[p])
       THEN Goto(p, AfterRename(p)) /\ tmp' = [tmp EXCEPT ![p] = Absent]
       ELSE Goto(p, "cleanup") /\ UNCHANGED tmp
    /\ UNCHANGED <<registry, cacheVars, spec, opts, dig, victim, retags, crashes, history>>

(* A temporary file renamed over the mapping. *)
WriteRefMapping(p) ==
    /\ pc[p] = "map"
    /\ refs' = [refs EXCEPT ![RefKey[spec[p].ref]] = dig[p]]
    /\ Goto(p, "delegate")
    /\ UNCHANGED <<registry, blobs, tmp, spec, opts, dig, victim, retags, crashes, history>>

(* An error return with nothing to clean up: no cache directory, a bad     *)
(* reference, the registry, credentials, more than one layer, file system. *)
PullFails(p) ==
    /\ pc[p] \in {"lookup", "resolve", "remove", "removing", "fetch", "map"}
    /\ Goto(p, "failed")
    /\ UNCHANGED <<registry, cacheVars, tmp, spec, opts, dig, victim, retags, crashes, history>>

(* buildDelegateManifest and selectDelegate. *)
PrepareDelegate(p) ==
    /\ pc[p] = "delegate"
    /\ Goto(p, IF spec[p].target = "inside" /\ spec[p].delegate # "other" THEN "using" ELSE "failed")
    /\ UNCHANGED <<registry, cacheVars, tmp, spec, opts, dig, victim, retags, crashes, history>>

(* Apply, Destroy or Build of the delegate, which reads the directory. *)
DelegateReturns(p) ==
    /\ pc[p] = "using"
    /\ Goto(p, "done") \/ Goto(p, "failed")
    /\ UNCHANGED <<registry, cacheVars, tmp, spec, opts, dig, victim, retags, crashes, history>>

PullStep(p) ==
    \/ Lookup(p) \/ CheckCache(p) \/ Resolve(p)
    \/ OpenForRemoval(p) \/ RemoveFile(p) \/ RemoveDir(p)
    \/ Recheck(p) \/ Fetch(p)
    \/ ExtractEntry(p) \/ ExtractFails(p) \/ ExtractEnds(p) \/ Cleanup(p)
    \/ Rename(p) \/ AfterFailedRename(p) \/ WriteRefMapping(p)
    \/ PullFails(p) \/ PrepareDelegate(p) \/ DelegateReturns(p)

-----------------------------------------------------------------------------
(* A process dies: its temporary directories stay. *)
Crash(c) ==
    /\ crashes < MaxCrashes
    /\ \E p \in Pulls : Proc[p] = c /\ pc[p] \notin Ended
    /\ pc' = [p \in Pulls |-> IF Proc[p] = c /\ pc[p] \notin Ended THEN "dead" ELSE pc[p]]
    /\ crashes' = crashes + 1
    /\ UNCHANGED <<registry, cacheVars, tmp, spec, opts, dig, victim, retags, history>>

(* A tag is moved in the registry. *)
Retag(t, d) ==
    /\ retags < MaxRetags
    /\ registry[t] # d
    /\ registry' = [registry EXCEPT ![t] = d]
    /\ retags' = retags + 1
    /\ served' = [served EXCEPT ![t] = @ \cup {d}]
    /\ seen' = [p \in Pulls |-> IF spec[p].ref = t /\ pc[p] \notin Ended \cup {"lookup"}
                                THEN seen[p] \cup {d} ELSE seen[p]]
    /\ UNCHANGED <<cacheVars, tmp, spec, opts, pc, dig, victim, crashes, scarred>>

AllEnded == \A p \in Pulls : pc[p] \in Ended
Rest == AllEnded /\ UNCHANGED vars

Next ==
    \/ \E p \in Pulls : PullStep(p)
    \/ \E c \in Processes : Crash(c)
    \/ \E t \in Tags, d \in Digests : Retag(t, d)
    \/ Rest

(* File system and registry calls return; nothing obliges a crash or a     *)
(* change of the registry.                                                 *)
Spec == Init /\ [][Next]_vars /\ \A p \in Pulls : WF_vars(PullStep(p))

-----------------------------------------------------------------------------
Places == {"lookup", "check", "resolve", "remove", "removing", "recheck", "fetch", "extract",
           "cleanup", "rename", "renamed", "map", "delegate", "using"} \cup Ended

TypeOK ==
    /\ registry \in [Tags -> Digests]
    /\ refs \in [Tags -> Digests \cup {Absent}]
    /\ \A d \in Digests : blobs[d] = Absent
                            \/ blobs[d] \in [by : Pulls, files : SUBSET (1..MaxEntries)]
    /\ \A p \in Pulls : tmp[p] = Absent
                            \/ tmp[p] \in [entries : 0..MaxEntries, bytes : 0..(MaxTotalBytes + 1)]
    /\ pc \in [Pulls -> Places]
    /\ dig \in [Pulls -> Digests \cup {Absent}]
    /\ scarred \subseteq Pulls

FileSize(entry) == IF entry.kind = "file" THEN entry.size ELSE 0

(* The sums of the sizes of the first 0, 1, ..., n entries, if none is     *)
(* beyond the limit; there are none otherwise.                             *)
RunningTotals(d, n) ==
    {total \in [0..n -> 0..MaxTotalBytes] :
       total[0] = 0 /\ \A i \in 1..n : total[i] = total[i - 1] + FileSize(Archive[d][i])}

(* What oras.md says an artifact may contain, of the whole archive. *)
GoodArchive(d) ==
    /\ Len(Archive[d]) <= MaxEntries
    /\ RunningTotals(d, Len(Archive[d])) # {}
    /\ \A i \in DOMAIN Archive[d] :
         /\ Archive[d][i].kind # "other"
         /\ Archive[d][i].name = "inside"
         /\ Archive[d][i].kind = "link" => Archive[d][i].link = "inside"

(* A directory under blobs/, whoever put it there and whatever failed or   *)
(* crashed, is the complete extraction of an acceptable archive, unless a  *)
(* RemoveAll of some --no-cache pull has been at it.  So a cache hit, and  *)
(* the loser of a rename, may trust the mere existence of the directory.   *)
CacheIsWhole ==
    \A d \in Digests :
        DirExists(d) /\ blobs[d].by \notin scarred =>
            GoodArchive(d) /\ blobs[d].files = DOMAIN Archive[d]

(* The delegate works on what the reference stands for: the digest itself, *)
(* a digest the tag has had at some time or, with --no-cache, one it has   *)
(* had since the pull began.                                               *)
ResultWasServed ==
    \A p \in Pulls : pc[p] \in {"delegate", "using", "done"} =>
        IF IsDigest(p) THEN dig[p] = spec[p].ref
        ELSE dig[p] \in IF NoCache(p) THEN seen[p] ELSE served[spec[p].ref]

(* Every pull ends, and of its temporary directory nothing is left unless  *)
(* the process died.                                                       *)
PullsEndClean ==
    \A p \in Pulls : <>[](pc[p] \in Ended /\ (tmp[p] # Absent => pc[p] = "dead"))

(* oras.md: the delegate's path is the local path of the pulled artifact;  *)
(* it is there in full as long as the delegate reads it.                   *)
DelegateReadsWholeArtifact ==
    \A p \in Pulls : pc[p] = "using" =>
        DirExists(dig[p]) /\ blobs[dig[p]].files = DOMAIN Archive[dig[p]]
=============================================================================
