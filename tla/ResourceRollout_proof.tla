----------------------- MODULE ResourceRollout_proof -----------------------
(***************************************************************************)
(* Proofs about ResourceRollout, for every manifest, test plugin and       *)
(* interference: the types, the order in which objects are applied, the    *)
(* re-creation of Jobs and Pods, the wait for readiness and the verdict of *)
(* a test.                                                                 *)
(*                                                                         *)
(* The order is right because the objects are sorted when they are         *)
(* converted (ObjectsConverted) and the run leaves none of those before    *)
(* the one it is at unapplied (AppliedUpToHere).                           *)
(* The wait is right because the history variable wasReady misses no       *)
(* moment at which an object is ready (ReadinessObserved).  The verdict is *)
(* right because the part of the history that is kept always shows how     *)
(* long the present streak is, up to the larger of the two counts          *)
(* (HistoryShowsStreak).                                                   *)
(***************************************************************************)
EXTENDS ResourceRollout, SequenceLemmas

(* What Init chooses and nothing changes; live is about the names. *)
Configured ==
    /\ Len(objects) \in Nat \ {0} /\ DOMAIN objects = 1..Len(objects)
    /\ wait \in BOOLEAN
    /\ test.target \in Names
    /\ live \in [Names -> UNION {LiveObject(Object(n).kind) : n \in Names}]

ReadinessObserved ==
    pc \in {"wait", "test", "done"} =>
        \A n \in Names : live[n].exists /\ IsReady(Object(n), live[n].status) => n \in wasReady

(* The last "count" results have the value, and not one more, as far as    *)
(* the history goes back.                                                  *)
TailIs(h, count, value) ==
    /\ count \in 0..Len(h)
    /\ \A j \in 0..(count - 1) : h[Len(h) - j] = value
    /\ count < MaxCount /\ count < Len(h) => h[Len(h) - count] # value

HistoryShowsStreak ==
    /\ streak.held \in 0..MaxCount /\ streak.failed \in 0..MaxCount
    /\ TailIs(history, streak.held, TRUE)
    /\ TailIs(history, streak.failed, FALSE)
    /\ pc \notin {"test", "done", "failed"} => history = <<>> /\ streak = NoStreak

(* A test that is polling has not seen what would have ended it.           *)
Undecided == pc = "test" => ~Passed /\ ~FailedTooOften

Shown == HistoryShowsStreak /\ Undecided

-----------------------------------------------------------------------------
(***************************************************************************)
(* Types.                                                                  *)
(***************************************************************************)

LEMMA CountsTyped ==
    ASSUME test \in Tests
    PROVE  /\ MinSuccess \in Nat \ {0} /\ test.failure \in Nat
           /\ MaxCount \in Nat \ {0} /\ MinSuccess <= MaxCount /\ test.failure <= MaxCount
           /\ test.shouldExist \in BOOLEAN /\ test.type \in {"existNonExist", "waitUntil"}
<1>1. /\ test.success \in Nat /\ test.failure \in Nat
      /\ test.shouldExist \in BOOLEAN /\ test.type \in {"existNonExist", "waitUntil"}
  BY RolloutAssumption
<1>2. MinSuccess \in Nat \ {0}
  BY <1>1 DEF MinSuccess
<1> QED BY <1>1, <1>2 DEF MaxCount

LEMMA LiveTyped ==
    ASSUME NEW kind
    PROVE  /\ Gone \in LiveObject(kind)
           /\ \A fresh \in BOOLEAN : Present(fresh) \in LiveObject(kind)
           /\ \A l \in LiveObject(kind) :
                /\ l.exists \in BOOLEAN
                /\ l.exists => /\ l.deleting \in BOOLEAN
                               /\ [l EXCEPT !.fresh = TRUE] \in LiveObject(kind)
                               /\ [l EXCEPT !.deleting = TRUE] \in LiveObject(kind)
                               /\ \A s \in Statuses(kind) : [l EXCEPT !.status = s] \in LiveObject(kind)
<1> DEFINE there == [exists : {TRUE}, status : Statuses(kind) \cup {NoStatus},
                     deleting : BOOLEAN, fresh : BOOLEAN]
<1>1. LiveObject(kind) = {Gone} \cup there
  BY DEF LiveObject
<1>2. \A fresh \in BOOLEAN : Present(fresh) \in there
  BY DEF Present
<1>3. ASSUME NEW l \in there
      PROVE  /\ l.exists = TRUE /\ l.deleting \in BOOLEAN
             /\ [l EXCEPT !.fresh = TRUE] \in there
             /\ [l EXCEPT !.deleting = TRUE] \in there
             /\ \A s \in Statuses(kind) : [l EXCEPT !.status = s] \in there
  OBVIOUS
<1>4. Gone.exists = FALSE
  BY DEF Gone
<1> HIDE DEF there
<1> QED BY <1>1, <1>2, <1>3, <1>4

LEMMA IdxTyped ==
    ASSUME TypeOK, Configured
    PROVE  /\ idx \in 1..Len(objects) /\ 1 \in DOMAIN objects
           /\ idx < Len(objects) => idx + 1 \in DOMAIN objects
           /\ O.name \in Names
BY DEF TypeOK, Configured, O, Names

(* Changing one live object within its type. *)
LEMMA LiveChanges ==
    ASSUME TypeOK, Configured, NEW n \in Names, NEW l \in LiveObject(Object(n).kind),
           live' = [live EXCEPT ![n] = l], UNCHANGED objects
    PROVE  /\ \A m \in Names : live'[m] \in LiveObject(Object(m).kind)
           /\ live' \in [Names -> UNION {LiveObject(Object(m).kind) : m \in Names}]
<1>1. \A m \in Names : live'[m] \in LiveObject(Object(m).kind)
  BY DEF TypeOK, Configured
<1>2. live' = [m \in Names |-> live'[m]]
  BY DEF Configured
<1> QED BY <1>1, <1>2

(* The history that is kept. *)
LEMMA CutKeepsTail ==
    ASSUME NEW h \in Seq(BOOLEAN), NEW v \in BOOLEAN, MaxCount \in Nat \ {0}, Len(h) <= MaxCount
    PROVE  LET c == Cut(Append(h, v))
               size == IF Len(h) < MaxCount THEN Len(h) + 1 ELSE MaxCount
           IN  /\ c \in Seq(BOOLEAN) /\ Len(c) = size
               /\ c[size] = v
               /\ \A j \in 1..(size - 1) : c[size - j] = h[Len(h) + 1 - j]
<1> DEFINE a == Append(h, v)
<1>1. /\ a \in Seq(BOOLEAN) /\ Len(a) = Len(h) + 1 /\ Len(h) \in Nat
      /\ a[Len(h) + 1] = v /\ \A i \in 1..Len(h) : a[i] = h[i]
  OBVIOUS
<1> HIDE DEF a
<1>2. CASE Len(h) < MaxCount
  <2>1. Cut(a) = a
    BY <1>1, <1>2 DEF Cut, MaxHistory
  <2> QED BY <1>1, <1>2, <2>1 DEF a
<1>3. CASE Len(h) = MaxCount
  <2> DEFINE c == SubSeq(a, 2, Len(h) + 1)
  <2>1. Cut(a) = c
    BY <1>1, <1>3 DEF Cut, MaxHistory
  <2>2. c \in Seq(BOOLEAN) /\ Len(c) = Len(h) /\ \A i \in 1..Len(h) : c[i] = a[i + 1]
    BY <1>1
  <2> HIDE DEF c
  <2> QED BY <1>1, <1>3, <2>1, <2>2 DEF a
<1> QED BY <1>2, <1>3

-----------------------------------------------------------------------------
(***************************************************************************)
(* The order of the objects.                                               *)
(***************************************************************************)

(* What the documents declare. *)
Declared(docs) == UNION {ToSet(Expand(docs[i])) : i \in DOMAIN docs}

(* Definitions precede the objects that may need them.                     *)
SortedByKind(os) ==
    \A i, j \in DOMAIN os : IsCRD(os[i]) /\ ~IsCRD(os[j]) => i < j

(* Choosing keeps the definitions, or everything else, and nothing more.   *)
LEMMA ChosenMembers ==
    ASSUME NEW W, NEW os \in Seq(W), NEW crds \in BOOLEAN
    PROVE  /\ Chosen(os, crds) \in Seq(W)
           /\ ToSet(Chosen(os, crds)) = {o \in ToSet(os) : IsCRD(o) = crds}
<1> DEFINE n == Len(os)
           parts == [i \in 1..n |-> IF IsCRD(os[i]) = crds THEN <<os[i]>> ELSE <<>>]
<1>1. n \in Nat /\ DOMAIN os = 1..n /\ \A i \in 1..n : os[i] \in W
  OBVIOUS
<1>2. Chosen(os, crds) = FlattenSeq(parts)
  BY <1>1, Zenon DEF Chosen
<1>3. parts \in Seq(Seq(W)) /\ DOMAIN parts = 1..n
  <2> DEFINE V == Seq(W)
             part(i) == IF IsCRD(os[i]) = crds THEN <<os[i]>> ELSE <<>>
  <2>1. \A i \in 1..n : part(i) \in V
    BY <1>1
  <2> HIDE DEF n, V, part
  <2>2. [i \in 1..n |-> part(i)] \in Seq(V) /\ DOMAIN [i \in 1..n |-> part(i)] = 1..n
    BY <1>1, <2>1, IsASeq
  <2> QED BY <2>2 DEF part, V
<1>4. \A i \in 1..n : ToSet(parts[i]) = IF IsCRD(os[i]) = crds THEN {os[i]} ELSE {}
  <2> TAKE i \in 1..n
  <2>1. parts[i] = IF IsCRD(os[i]) = crds THEN <<os[i]>> ELSE <<>>
    OBVIOUS
  <2>2. ToSet(<<os[i]>>) = {os[i]} /\ ToSet(<<>>) = {}
    BY DEF ToSet
  <2> QED BY <2>1, <2>2
<1>5. ToSet(os) = {os[i] : i \in 1..n}
  BY <1>1, Zenon DEF ToSet
<1> HIDE DEF n, parts
<1>6. FlattenSeq(parts) \in Seq(W) /\ ToSet(FlattenSeq(parts)) = UNION {ToSet(parts[i]) : i \in 1..n}
  BY <1>3, FlattenMembers
<1>7. UNION {ToSet(parts[i]) : i \in 1..n} = {o \in ToSet(os) : IsCRD(o) = crds}
  BY <1>4, <1>5
<1> QED BY <1>2, <1>6, <1>7

(* What ConvertManifestsToObjects returns is what the documents declare,   *)
(* items of Lists included and nothing dropped, with the definitions of    *)
(* custom resources before everything else, for documents of any number.   *)
THEOREM ObjectsConverted ==
    ASSUME NEW docs \in Renderings
    PROVE  LET os == ConvertManifestsToObjects(docs)
           IN  os \in Seq(Declared(docs)) /\ ToSet(os) = Declared(docs) /\ SortedByKind(os)
<1> DEFINE W == Declared(docs)
           parts == [i \in DOMAIN docs |-> Expand(docs[i])]
           all == Decoded(docs)
           a == Chosen(all, TRUE)
           b == Chosen(all, FALSE)
<1>1. PICK n \in Nat : DOMAIN docs = 1..n
  <2>1. CASE ToSet(docs) # {}
    <3>1. docs \in Seq(ToSet(docs))
      BY <2>1, RolloutAssumption
    <3> QED BY <3>1
  <2>2. CASE ToSet(docs) = {}
    <3>1. DOMAIN docs = {}
      BY <2>2 DEF ToSet
    <3> QED BY <3>1
  <2> QED BY <2>1, <2>2
<1>2. \A i \in 1..n : parts[i] \in Seq(W) /\ parts[i] = Expand(docs[i])
  <2> TAKE i \in 1..n
  <2> DEFINE doc == docs[i]
  <2>1. doc \in ToSet(docs)
    BY <1>1 DEF ToSet
  <2>2. doc.items \in Seq(ToSet(doc.items))
    BY <2>1, RolloutAssumption
  <2> HIDE DEF doc
  <2>3. Expand(doc) \in Seq(ToSet(Expand(doc)))
    <3>1. <<doc>> \in Seq(ToSet(<<doc>>)) /\ <<>> \in Seq(ToSet(<<>>))
      BY DEF ToSet
    <3> QED BY <2>2, <3>1, Zenon DEF Expand
  <2>4. ToSet(Expand(doc)) \subseteq W
    BY <1>1 DEF Declared, doc
  <2>5. Expand(doc) \in Seq(W)
    <3> DEFINE e == Expand(doc)
               T == ToSet(e)
    <3> HIDE DEF e, T, W
    <3>1. e \in Seq(T) /\ T \subseteq W
      BY <2>3, <2>4 DEF e, T
    <3>2. e \in Seq(W)
      BY <3>1
    <3> QED BY <3>2 DEF e
  <2> QED BY <1>1, <2>5 DEF doc
<1>3. parts \in Seq(Seq(W)) /\ DOMAIN parts = 1..n
  <2> DEFINE V == Seq(W)
             part(i) == Expand(docs[i])
  <2>1. \A i \in 1..n : part(i) \in V
    BY <1>1, <1>2
  <2> HIDE DEF V, part
  <2>2. [i \in 1..n |-> part(i)] \in Seq(V) /\ DOMAIN [i \in 1..n |-> part(i)] = 1..n
    BY <2>1, IsASeq
  <2> QED BY <1>1, <2>2 DEF part, V
<1>4. all = FlattenSeq(parts)
  BY Zenon DEF Decoded
<1>5. UNION {ToSet(parts[i]) : i \in 1..n} = W
  BY <1>1, <1>2 DEF Declared
<1> HIDE DEF parts, W
<1>6. all \in Seq(W) /\ ToSet(all) = W
  <2>1. FlattenSeq(parts) \in Seq(W) /\ ToSet(FlattenSeq(parts)) = UNION {ToSet(parts[i]) : i \in 1..n}
    BY <1>3, FlattenMembers
  <2> QED BY <1>4, <1>5, <2>1
<1> HIDE DEF all
<1>7. /\ a \in Seq(W) /\ ToSet(a) = {o \in W : IsCRD(o) = TRUE}
      /\ b \in Seq(W) /\ ToSet(b) = {o \in W : IsCRD(o) = FALSE}
  BY <1>6, ChosenMembers
<1>8. ConvertManifestsToObjects(docs) = a \o b
  BY Zenon DEF ConvertManifestsToObjects, all
<1> HIDE DEF a, b
<1> DEFINE os == a \o b
           l == Len(a)
           m == Len(b)
<1>9. /\ os \in Seq(W) /\ Len(os) = l + m
      /\ \A i \in 1..(l + m) : os[i] = IF i <= l THEN a[i] ELSE b[i - l]
  BY <1>7, ConcatProperties, Zenon
<1>10. /\ l \in Nat /\ m \in Nat /\ DOMAIN os = 1..(l + m) /\ DOMAIN a = 1..l /\ DOMAIN b = 1..m
  BY <1>7, <1>9
<1>11. (\A i \in 1..l : IsCRD(a[i])) /\ \A i \in 1..m : ~IsCRD(b[i])
  <2>1. (\A i \in 1..l : a[i] \in ToSet(a)) /\ \A i \in 1..m : b[i] \in ToSet(b)
    BY <1>10, Zenon DEF ToSet
  <2> QED BY <1>7, <2>1
<1>12. (\A i \in 1..l : i \in 1..(l + m) /\ os[i] = a[i]) /\ \A i \in 1..m : l + i \in 1..(l + m) /\ os[l + i] = b[i]
  <2> HIDE DEF l, m, os
  <2>1. \A i \in 1..l : i \in 1..(l + m) /\ i <= l
    BY <1>10
  <2>2. \A i \in 1..m : l + i \in 1..(l + m) /\ ~(l + i <= l) /\ l + i - l = i
    BY <1>10
  <2>3. \A i \in 1..l : os[i] = a[i]
    BY <1>9, <2>1, Zenon
  <2>4. ASSUME NEW i \in 1..m PROVE os[l + i] = b[i]
    <3>1. l + i \in 1..(l + m)
      BY <2>2
    <3>2. ~(l + i <= l)
      BY <2>2
    <3>3. l + i - l = i
      BY <2>2
    <3>4. \A x \in 1..(l + m) : ~(x <= l) => os[x] = b[x - l]
      BY <1>9, Zenon
    <3>5. os[l + i] = b[l + i - l]
      BY <1>10, <3>1, <3>2, <3>4
    <3> QED BY <3>3, <3>5, Zenon
  <2> QED BY <2>1, <2>2, <2>3, <2>4, Zenon
<1>13. \A i \in 1..(l + m) : (i \in 1..l /\ os[i] = a[i]) \/ (i > l /\ i - l \in 1..m /\ os[i] = b[i - l])
  <2> HIDE DEF l, m, os
  <2> TAKE i \in 1..(l + m)
  <2>1. CASE i <= l
    <3>1. i \in 1..l
      BY <1>10, <2>1
    <3> QED BY <1>9, <2>1, <3>1, Zenon
  <2>2. CASE ~(i <= l)
    <3>1. i > l /\ i - l \in 1..m
      BY <1>10, <2>2
    <3> QED BY <1>9, <2>2, <3>1, Zenon
  <2> QED BY <2>1, <2>2, Zenon
<1> HIDE DEF os, l, m
<1>14. ToSet(os) = W
  <2>1. /\ ToSet(os) = {os[i] : i \in 1..(l + m)}
        /\ ToSet(a) = {a[i] : i \in 1..l} /\ ToSet(b) = {b[i] : i \in 1..m}
    BY <1>10, Zenon DEF ToSet
  <2>2. W = ToSet(a) \cup ToSet(b)
    BY <1>7 DEF IsCRD
  <2>3. ASSUME NEW o \in ToSet(os) PROVE o \in W
    <3>1. PICK i \in 1..(l + m) : o = os[i]
      BY <2>1
    <3> QED BY <1>13, <2>1, <2>2, <3>1
  <2>4. ASSUME NEW o \in W PROVE o \in ToSet(os)
    <3>1. CASE o \in ToSet(a)
      BY <1>12, <2>1, <3>1
    <3>2. CASE o \in ToSet(b)
      BY <1>12, <2>1, <3>2
    <3> QED BY <2>2, <3>1, <3>2
  <2> QED BY <2>3, <2>4
<1>15. SortedByKind(os)
  <2> SUFFICES ASSUME NEW i \in 1..(l + m), NEW j \in 1..(l + m), IsCRD(os[i]), ~IsCRD(os[j])
               PROVE  i < j
    BY <1>10 DEF SortedByKind
  <2>1. i \in 1..l
    BY <1>11, <1>13
  <2>2. ~(j \in 1..l)
    BY <1>11, <1>12
  <2> QED BY <1>10, <2>1, <2>2
<1> QED BY <1>8, <1>9, <1>14, <1>15 DEF os, W

(* The objects applied are those of one rendering. *)
LEMMA InitObjects == Init => objects \in Seq(ToSet(objects)) /\ SortedByKind(objects)
<1> SUFFICES ASSUME Init PROVE objects \in Seq(ToSet(objects)) /\ SortedByKind(objects)
  OBVIOUS
<1>1. PICK docs \in Renderings : objects = ConvertManifestsToObjects(docs)
  BY DEF Init
<1> QED BY <1>1, ObjectsConverted

LEMMA InitTyped == Init => TypeOK /\ Configured
<1> SUFFICES ASSUME Init PROVE TypeOK /\ Configured
  OBVIOUS
<1>1. objects \in Seq(ToSet(objects))
  BY InitObjects
<1>3. test \in Tests /\ test.target \in Names /\ wait \in BOOLEAN
  BY DEF Init
<1>2. Len(objects) \in Nat \ {0} /\ DOMAIN objects = 1..Len(objects)
  <2>1. Len(objects) \in Nat /\ DOMAIN objects = 1..Len(objects)
    BY <1>1
  <2>2. DOMAIN objects # {}
    BY <1>3 DEF Names
  <2> QED BY <2>1, <2>2
<1>4. /\ \A n \in Names : live[n] \in LiveObject(Object(n).kind)
      /\ live = [n \in Names |-> live[n]]
  <2>1. PICK there \in SUBSET Names : live = [n \in Names |-> IF n \in there THEN Present(FALSE) ELSE Gone]
    BY DEF Init
  <2> QED BY <2>1, LiveTyped
<1>5. live \in [Names -> UNION {LiveObject(Object(n).kind) : n \in Names}]
  BY <1>4
<1>6. history \in BoundedSeq(BOOLEAN, MaxCount)
  BY <1>3, CountsTyped DEF Init, BoundedSeq, SeqOf
<1>7. pc \in {"apply", "get"} /\ idx = 1 /\ others = 0 /\ applied = {} /\ wasReady = {}
      /\ expired = FALSE /\ interrupted = FALSE
  BY DEF Init, FirstCall
<1>8. Configured
  BY <1>2, <1>3, <1>5 DEF Configured
<1>9. 1 \in DOMAIN objects /\ 0 \in 0..MaxOthers
  <2>1. MaxOthers \in Nat
    BY RolloutAssumption
  <2>2. 1 \in DOMAIN objects
    BY <1>2
  <2> QED BY <2>1, <2>2
<1>10. TypeOK
  BY <1>3, <1>4, <1>6, <1>7, <1>9 DEF TypeOK
<1> QED BY <1>8, <1>10

(* What Observe records are names. *)
LEMMA ObserveTyped ==
    ASSUME TypeOK, NEW S, Observe(S), UNCHANGED objects
    PROVE  wasReady' \subseteq Names
BY DEF TypeOK, Observe

LEMMA AdvanceTyped ==
    ASSUME TypeOK, Configured, Advance
    PROVE  /\ idx' \in DOMAIN objects /\ expired' \in BOOLEAN
           /\ pc' \in {"apply", "get", "wait", "test"}
BY IdxTyped DEF Advance, FirstCall

(* The results of a poll. *)
LEMMA PollTyped ==
    ASSUME TypeOK, Poll
    PROVE  /\ history' \in BoundedSeq(BOOLEAN, MaxCount)
           /\ pc' \in {"test", "done", "failed"}
<1>1. PICK got : history' = Cut(Append(history, Run(got)))
  BY DEF Poll
<1>2. Run(got) \in BOOLEAN
  BY DEF Run, ExistNonExist, WaitUntil
<1>3. MaxCount \in Nat \ {0}
  BY CountsTyped DEF TypeOK
<1>4. history \in Seq(BOOLEAN) /\ Len(history) <= MaxCount
  BY <1>3 DEF TypeOK, BoundedSeq, SeqOf
<1>5. history' \in Seq(BOOLEAN) /\ Len(history') <= MaxCount
  BY <1>1, <1>2, <1>3, <1>4, CutKeepsTail
<1>6. Len(history') \in 0..MaxCount /\ history' \in [1..Len(history') -> BOOLEAN]
  BY <1>3, <1>5
<1> QED BY <1>6 DEF BoundedSeq, SeqOf, Poll, Verdict

LEMMA NextTyped == TypeOK /\ Configured /\ [Next]_vars => TypeOK' /\ Configured'
<1> SUFFICES ASSUME TypeOK, Configured, [Next]_vars PROVE TypeOK' /\ Configured'
  OBVIOUS
<1>1. UNCHANGED <<objects, wait, test>>
  BY DEF Next, Step, ServerSideApply, GetImmutable, DeleteImmutable, WaitForDeletion, CreateImmutable,
         CallFails, WaitForReady, GiveUp, Poll, Expire, Others, DeletionCompletes, OtherClient,
         ControllerWritesStatus, Interrupt, Rest, configVars, vars
<1>2. MaxCount' = MaxCount /\ Names' = Names /\ \A n : Object(n)' = Object(n)
  BY <1>1 DEF MaxCount, MinSuccess, Names, Object
<1>3. ASSUME NEW n \in Names, NEW l \in LiveObject(Object(n).kind), live' = [live EXCEPT ![n] = l]
      PROVE  /\ \A m \in Names : live'[m] \in LiveObject(Object(m).kind)
             /\ live' \in [Names -> UNION {LiveObject(Object(m).kind) : m \in Names}]
  BY <1>1, <1>3, LiveChanges
<1>4. /\ \A m \in Names : live'[m] \in LiveObject(Object(m).kind)
      /\ live' \in [Names -> UNION {LiveObject(Object(m).kind) : m \in Names}]
  <2>1. CASE ServerSideApply
    <3>1. \E l \in LiveObject(Object(O.name).kind) : live' = [live EXCEPT ![O.name] = l]
      BY <2>1, LiveTyped, IdxTyped DEF ServerSideApply, L, TypeOK
    <3> QED BY <1>3, <3>1, IdxTyped
  <2>2. CASE CreateImmutable \/ DeleteImmutable
    <3>1. L.exists => [L EXCEPT !.deleting = TRUE] \in LiveObject(Object(O.name).kind)
      BY LiveTyped, IdxTyped DEF L, TypeOK
    <3>2. [live EXCEPT ![O.name].deleting = TRUE] = [live EXCEPT ![O.name] = [L EXCEPT !.deleting = TRUE]]
      BY DEF L
    <3>3. \/ live' = live
          \/ \E l \in LiveObject(Object(O.name).kind) : live' = [live EXCEPT ![O.name] = l]
      BY <2>2, <3>1, <3>2, LiveTyped DEF CreateImmutable, DeleteImmutable
    <3> QED BY <1>3, <3>3, IdxTyped DEF TypeOK, Configured
  <2>3. ASSUME NEW n \in Names, DeletionCompletes(n) \/ OtherClient(n)
        PROVE  \E l \in LiveObject(Object(n).kind) : live' = [live EXCEPT ![n] = l]
    <3>1. live[n].exists => [live[n] EXCEPT !.deleting = TRUE] \in LiveObject(Object(n).kind)
      BY LiveTyped DEF TypeOK
    <3>2. [live EXCEPT ![n].deleting = TRUE] = [live EXCEPT ![n] = [live[n] EXCEPT !.deleting = TRUE]]
      OBVIOUS
    <3> QED BY <2>3, <3>1, <3>2, LiveTyped DEF DeletionCompletes, OtherClient
  <2>4. ASSUME NEW n \in Names, NEW s \in Statuses(Object(n).kind), ControllerWritesStatus(n, s)
        PROVE  \E l \in LiveObject(Object(n).kind) : live' = [live EXCEPT ![n] = l]
    <3>1. [live[n] EXCEPT !.status = s] \in LiveObject(Object(n).kind)
      BY <2>4, LiveTyped DEF TypeOK, ControllerWritesStatus
    <3> QED BY <2>4, <3>1 DEF ControllerWritesStatus
  <2>5. CASE live' = live
    BY <2>5 DEF TypeOK, Configured
  <2> QED BY <1>3, <2>1, <2>2, <2>3, <2>4, <2>5
          DEF Next, Step, GetImmutable, WaitForDeletion, CallFails, WaitForReady, GiveUp, Poll, Expire,
              Others, Interrupt, Rest, vars
<1>5. Configured'
  BY <1>1, <1>2, <1>4 DEF Configured
<1>6. wasReady' \subseteq Names
  BY <1>1, ObserveTyped
     DEF Next, Step, ServerSideApply, GetImmutable, DeleteImmutable, WaitForDeletion, CreateImmutable,
         CallFails, WaitForReady, GiveUp, Poll, Expire, Others, DeletionCompletes, OtherClient,
         ControllerWritesStatus, Interrupt, Rest, vars, TypeOK
<1>7. applied' \subseteq DOMAIN objects
  <2>1. applied' = applied \/ applied' = applied \cup {idx}
    BY DEF Next, Step, ServerSideApply, GetImmutable, DeleteImmutable, WaitForDeletion, CreateImmutable,
           CallFails, WaitForReady, GiveUp, Poll, Expire, Others, DeletionCompletes, OtherClient,
           ControllerWritesStatus, Interrupt, Rest, vars
  <2> QED BY <2>1 DEF TypeOK
<1>8. history' \in BoundedSeq(BOOLEAN, MaxCount)
  <2>1. CASE Poll
    BY <2>1, PollTyped
  <2>2. CASE UNCHANGED history
    BY <2>2 DEF TypeOK
  <2> QED BY <2>1, <2>2
     DEF Next, Step, ServerSideApply, GetImmutable, DeleteImmutable, WaitForDeletion, CreateImmutable,
         CallFails, WaitForReady, GiveUp, Expire, Others, DeletionCompletes, OtherClient,
         ControllerWritesStatus, Interrupt, Rest, vars
<1>9. /\ pc' \in {"apply", "get", "delete", "gone", "create", "wait", "test", "done", "failed"}
      /\ idx' \in DOMAIN objects
      /\ expired' \in BOOLEAN
  <2>1. CASE ServerSideApply \/ CreateImmutable \/ DeleteImmutable
    BY <2>1, AdvanceTyped DEF ServerSideApply, CreateImmutable, DeleteImmutable, Fail, TypeOK
  <2>2. CASE GetImmutable \/ WaitForDeletion \/ CallFails \/ WaitForReady \/ GiveUp
    BY <2>2, IdxTyped DEF GetImmutable, WaitForDeletion, CallFails, WaitForReady, GiveUp, Fail, TypeOK
  <2>3. CASE Poll
    BY <2>3, PollTyped DEF Poll, TypeOK
  <2>4. CASE Expire \/ Others \/ Rest \/ UNCHANGED vars
    BY <2>4 DEF Expire, Others, DeletionCompletes, OtherClient, ControllerWritesStatus, Interrupt,
                Rest, vars, TypeOK
  <2> QED BY <2>1, <2>2, <2>3, <2>4 DEF Next, Step
<1>10. interrupted' \in BOOLEAN /\ others' \in 0..MaxOthers
  <2>1. /\ interrupted' = interrupted \/ interrupted' = TRUE
        /\ others' = others \/ (others < MaxOthers /\ others' = others + 1)
    BY DEF Next, Step, ServerSideApply, GetImmutable, DeleteImmutable, WaitForDeletion, CreateImmutable,
           CallFails, WaitForReady, GiveUp, Poll, Expire, Others, DeletionCompletes, OtherClient,
           ControllerWritesStatus, Interrupt, Rest, vars
  <2>2. others \in 0..MaxOthers /\ interrupted \in BOOLEAN /\ MaxOthers \in Nat
    BY RolloutAssumption DEF TypeOK
  <2>3. interrupted' \in BOOLEAN
    BY <2>1, <2>2
  <2>4. others' \in 0..MaxOthers
    BY <2>1, <2>2
  <2> QED BY <2>3, <2>4
<1> QED BY <1>1, <1>2, <1>4, <1>5, <1>6, <1>7, <1>8, <1>9, <1>10 DEF TypeOK

(* The variables keep their types; the history is as long as the larger of *)
(* the two counts at most.                                                 *)
THEOREM RolloutTypeCorrect == Spec => []TypeOK
BY InitTyped, NextTyped, PTL DEF Spec

-----------------------------------------------------------------------------
(***************************************************************************)
(* The order in which objects are applied.                                 *)
(***************************************************************************)

(* While objects are applied, those before the present one have been;      *)
(* later, all have been.                                                   *)
AppliedUpToHere ==
    /\ pc \in Recreating \cup {"apply"} => 1..(idx - 1) \subseteq applied
    /\ pc \in {"wait", "test", "done"} => applied = DOMAIN objects

LEMMA ObjectsFixed == [Next]_vars => UNCHANGED objects
BY DEF Next, Step, ServerSideApply, GetImmutable, DeleteImmutable, WaitForDeletion, CreateImmutable,
       CallFails, WaitForReady, GiveUp, Poll, Expire, Others, DeletionCompletes, OtherClient,
       ControllerWritesStatus, Interrupt, Rest, vars, configVars

LEMMA NextApplied ==
    TypeOK /\ Configured /\ AppliedUpToHere /\ [Next]_vars => AppliedUpToHere'
<1> SUFFICES ASSUME TypeOK, Configured, AppliedUpToHere, [Next]_vars PROVE AppliedUpToHere'
  OBVIOUS
<1>1. UNCHANGED objects /\ Len(objects) \in Nat \ {0} /\ DOMAIN objects = 1..Len(objects)
  BY ObjectsFixed DEF Configured
<1>2. idx \in 1..Len(objects) /\ applied \subseteq 1..Len(objects)
  BY <1>1 DEF TypeOK
<1>3. CASE Advance /\ applied' = applied \cup {idx} /\ pc \in {"apply", "create"}
  <2>1. 1..idx \subseteq applied'
    BY <1>2, <1>3 DEF AppliedUpToHere, Recreating
  <2>2. CASE idx < Len(objects)
    <3>1. idx' = idx + 1 /\ pc' \in {"apply", "get"}
      BY <1>3, <2>2 DEF Advance, FirstCall
    <3>2. 1..(idx' - 1) \subseteq applied'
      BY <1>2, <2>1, <3>1
    <3> QED BY <3>1, <3>2 DEF AppliedUpToHere
  <2>3. CASE ~(idx < Len(objects))
    <3>1. pc' \in {"wait", "test"}
      BY <1>3, <2>3 DEF Advance
    <3>2. idx = Len(objects)
      <4> DEFINE n == Len(objects)
      <4>1. n \in Nat /\ idx \in 1..n /\ ~(idx < n)
        BY <1>1, <1>2, <2>3, Zenon
      <4> HIDE DEF n
      <4>2. idx = n
        BY <4>1
      <4> QED BY <4>2 DEF n
    <3>3. applied' = 1..Len(objects)
      BY <1>2, <1>3, <2>1, <3>2
    <3> QED BY <1>1, <3>1, <3>3 DEF AppliedUpToHere, Recreating
  <2> QED BY <2>2, <2>3
<1>4. CASE pc' = "failed"
  BY <1>4 DEF AppliedUpToHere, Recreating
<1>5. CASE GetImmutable \/ DeleteImmutable \/ WaitForDeletion
  BY <1>1, <1>4, <1>5 DEF GetImmutable, DeleteImmutable, WaitForDeletion, Fail, AppliedUpToHere, Recreating
<1>6. CASE WaitForReady
  BY <1>1, <1>6 DEF WaitForReady, AppliedUpToHere, Recreating
<1>7. CASE Poll
  BY <1>1, <1>7, PollTyped DEF Poll, AppliedUpToHere, Recreating
<1>8. CASE UNCHANGED <<pc, idx, applied>>
  BY <1>1, <1>8 DEF AppliedUpToHere
<1>9. CASE ServerSideApply \/ CreateImmutable
  BY <1>3, <1>4, <1>9 DEF ServerSideApply, CreateImmutable, Fail
<1> QED BY <1>4, <1>5, <1>6, <1>7, <1>8, <1>9
        DEF Next, Step, CallFails, GiveUp, Fail, Expire, Others, DeletionCompletes, OtherClient,
            ControllerWritesStatus, Interrupt, Rest, vars

(* A custom resource, or anything else that is no definition, is applied   *)
(* or re-created only after every definition of its manifest has been, and *)
(* waiting, tests and success come after all objects: for documents in any *)
(* order, and whatever fails or interferes on the way.                     *)
THEOREM DefinitionsFirst == Spec => []AppliedInOrder
<1>1. Init => SortedByKind(objects) /\ AppliedUpToHere
  <2> SUFFICES ASSUME Init PROVE SortedByKind(objects) /\ AppliedUpToHere
    OBVIOUS
  <2>1. pc \in {"apply", "get"} /\ 1..(idx - 1) = {}
    BY DEF Init, FirstCall
  <2> QED BY <2>1, InitObjects DEF AppliedUpToHere
<1>2. SortedByKind(objects) /\ [Next]_vars => SortedByKind(objects)'
  BY ObjectsFixed DEF SortedByKind, IsCRD
<1>3. TypeOK /\ Configured /\ SortedByKind(objects) /\ AppliedUpToHere => AppliedInOrder
  <2> SUFFICES ASSUME TypeOK, Configured, SortedByKind(objects), AppliedUpToHere,
                      pc \in Recreating \cup {"apply"}, ~IsCRD(O),
                      NEW i \in DOMAIN objects, IsCRD(objects[i])
               PROVE  i \in applied
    BY DEF AppliedInOrder, AppliedUpToHere
  <2>1. i < idx
    BY DEF SortedByKind, TypeOK, O
  <2>2. i \in 1..(idx - 1)
    BY <2>1, IdxTyped DEF Configured
  <2> QED BY <2>2 DEF AppliedUpToHere
<1> QED BY <1>1, <1>2, <1>3, InitTyped, NextTyped, NextApplied, PTL DEF Spec

-----------------------------------------------------------------------------
(***************************************************************************)
(* Re-creation.                                                            *)
(***************************************************************************)

(* A Job or Pod is left for the next object, or for what follows them all, *)
(* only by the step that creates it.                                       *)
THEOREM RecreatedObjectsAreFresh == Spec => RecreatedIsFresh
<1> DEFINE Fresh == pc \in Recreating /\ (pc' \notin Recreating \/ idx' # idx) /\ pc' # "failed" =>
                      live'[O.name].exists /\ live'[O.name].fresh /\ ~live'[O.name].deleting
<1>1. TypeOK /\ Configured /\ [Next]_vars => [Fresh]_vars
  <2> SUFFICES ASSUME TypeOK, Configured, [Next]_vars,
                      pc \in Recreating, pc' \notin Recreating \/ idx' # idx, pc' # "failed"
               PROVE  live'[O.name].exists /\ live'[O.name].fresh /\ ~live'[O.name].deleting
    OBVIOUS
  <2>1. CreateImmutable
    BY DEF Next, Step, ServerSideApply, GetImmutable, DeleteImmutable, WaitForDeletion, CallFails,
           WaitForReady, GiveUp, Poll, Expire, Others, DeletionCompletes, OtherClient,
           ControllerWritesStatus, Interrupt, Rest, vars, Fail, Recreating
  <2>2. live' = [live EXCEPT ![O.name] = Present(TRUE)]
    BY <2>1 DEF CreateImmutable, Fail
  <2>3. live'[O.name] = Present(TRUE)
    BY <2>2, IdxTyped DEF Configured
  <2> QED BY <2>3 DEF Present
<1> QED BY <1>1, InitTyped, NextTyped, PTL DEF Spec, RecreatedIsFresh

-----------------------------------------------------------------------------
(***************************************************************************)
(* The wait for readiness.                                                 *)
(***************************************************************************)

LEMMA NextReadiness ==
    TypeOK /\ Configured /\ ReadinessObserved /\ ReadyWasSeen /\ [Next]_vars
      => ReadinessObserved' /\ ReadyWasSeen'
<1> SUFFICES ASSUME TypeOK, Configured, ReadinessObserved, ReadyWasSeen, [Next]_vars
             PROVE  ReadinessObserved' /\ ReadyWasSeen'
  OBVIOUS
<1>1. UNCHANGED <<objects, wait, test>>
  BY DEF Next, Step, ServerSideApply, GetImmutable, DeleteImmutable, WaitForDeletion, CreateImmutable,
         CallFails, WaitForReady, GiveUp, Poll, Expire, Others, DeletionCompletes, OtherClient,
         ControllerWritesStatus, Interrupt, Rest, configVars, vars
<1>2. Names' = Names /\ (\A n : Object(n)' = Object(n)) /\ Len(objects) \in Nat \ {0}
  BY <1>1 DEF Names, Object, Configured
<1>3. ASSUME NEW S, Observe(S)
      PROVE  \A n \in Names : live'[n].exists /\ IsReady(Object(n), live'[n].status) => n \in wasReady'
  BY <1>3 DEF Observe
<1>4. CASE ServerSideApply \/ CreateImmutable \/ DeleteImmutable
  <2>1. ReadinessObserved'
    BY <1>2, <1>3, <1>4 DEF ServerSideApply, CreateImmutable, DeleteImmutable, ReadinessObserved
  <2>2. pc' \in {"apply", "get", "gone", "failed"} \/ (idx' = 1 /\ pc' = IF wait THEN "wait" ELSE "test")
    BY <1>4 DEF ServerSideApply, CreateImmutable, DeleteImmutable, Fail, Advance, FirstCall
  <2>3. ReadyWasSeen'
    BY <1>1, <2>2 DEF ReadyWasSeen, Configured
  <2> QED BY <2>1, <2>3
<1>5. CASE WaitForReady
  <2>1. O.name \in wasReady /\ UNCHANGED <<live, wasReady>> /\ pc = "wait"
    BY <1>5, IdxTyped DEF WaitForReady, IsResourceReady, ReadinessObserved
  <2>2. ReadinessObserved'
    BY <1>2, <1>5, <2>1 DEF WaitForReady, ReadinessObserved
  <2>3. \A i \in 1..idx : objects[i].name \in wasReady
    BY <2>1, IdxTyped DEF ReadyWasSeen, O
  <2>4. CASE idx < Len(objects)
    <3>1. idx' = idx + 1 /\ pc' = "wait"
      BY <1>5, <2>1, <2>4 DEF WaitForReady
    <3> QED BY <1>1, <2>1, <2>2, <2>3, <3>1, IdxTyped DEF ReadyWasSeen
  <2>5. CASE ~(idx < Len(objects))
    <3>1. idx = Len(objects) /\ pc' = "test"
      <4> DEFINE n == Len(objects)
      <4>1. n \in Nat /\ idx \in 1..n /\ ~(idx < n)
        BY <1>2, <2>5, IdxTyped, Zenon
      <4> HIDE DEF n
      <4>2. idx = n
        BY <4>1
      <4>3. pc' = "test"
        BY <1>5, <2>5, Zenon DEF WaitForReady
      <4> QED BY <4>2, <4>3 DEF n
    <3>2. Names \subseteq wasReady
      BY <2>3, <3>1 DEF Names, Configured
    <3> QED BY <1>1, <1>2, <2>1, <2>2, <3>1, <3>2 DEF ReadyWasSeen
  <2> QED BY <2>4, <2>5
<1>6. CASE GetImmutable \/ WaitForDeletion \/ CallFails \/ GiveUp
  BY <1>6 DEF GetImmutable, WaitForDeletion, CallFails, GiveUp, Fail, ReadinessObserved, ReadyWasSeen
<1>7. CASE Poll
  <2>1. pc = "test" /\ pc' \in {"test", "done", "failed"} /\ UNCHANGED <<live, wasReady, idx>>
    BY <1>7, PollTyped DEF Poll
  <2> QED BY <1>1, <1>2, <2>1 DEF ReadinessObserved, ReadyWasSeen
<1>8. CASE \E n \in Names : DeletionCompletes(n)
  <2>1. PICK n \in Names : DeletionCompletes(n)
    BY <1>8
  <2>2. live' = [live EXCEPT ![n] = Gone] /\ UNCHANGED <<pc, idx, wasReady>>
    BY <2>1 DEF DeletionCompletes
  <2>3. \A m \in Names : live'[m].exists => live'[m] = live[m]
    BY <2>2 DEF Gone, Configured
  <2> QED BY <1>1, <1>2, <2>2, <2>3 DEF ReadinessObserved, ReadyWasSeen
<1>9. ASSUME NEW n \in Names, OtherClient(n) \/ \E s \in Statuses(Object(n).kind) : ControllerWritesStatus(n, s)
      PROVE  ReadinessObserved' /\ ReadyWasSeen'
  <2>1. Observe({}) /\ UNCHANGED <<pc, idx>>
    BY <1>9 DEF OtherClient, ControllerWritesStatus
  <2>2. wasReady \subseteq wasReady'
    BY <2>1 DEF Observe
  <2> QED BY <1>1, <1>2, <1>3, <2>1, <2>2 DEF ReadinessObserved, ReadyWasSeen
<1>10. CASE Expire \/ Interrupt \/ UNCHANGED vars
  BY <1>1, <1>2, <1>10 DEF Expire, Interrupt, vars, ReadinessObserved, ReadyWasSeen
<1> QED BY <1>4, <1>5, <1>6, <1>7, <1>8, <1>9, <1>10 DEF Next, Step, Others, Rest

(* A wait that ended well has seen every object ready.                     *)
THEOREM WaitSawReadiness == Spec => []ReadyWasSeen
<1>1. Init => ReadinessObserved /\ ReadyWasSeen
  BY DEF Init, ReadinessObserved, ReadyWasSeen, FirstCall
<1> QED BY <1>1, InitTyped, NextTyped, NextReadiness, PTL DEF Spec
-----------------------------------------------------------------------------
(***************************************************************************)
(* The verdict of a test.                                                  *)
(***************************************************************************)

(* A poll succeeds exactly when it was answered and the condition is true  *)
(* of the cluster at that moment.                                          *)
LEMMA PollIsTruthful ==
    ASSUME test \in Tests, Target.exists \in BOOLEAN,
           NEW got \in {"error", IF ContextDone THEN "error"
                                 ELSE IF Target.exists THEN "found" ELSE "notfound"}
    PROVE  Run(got) \in BOOLEAN /\ (Run(got) <=> got # "error" /\ Holds)
<1>1. CASE test.type = "existNonExist"
  BY <1>1, CountsTyped DEF Run, ExistNonExist, Holds
<1>2. CASE test.type # "existNonExist"
  BY <1>2 DEF Run, WaitUntil, Program, EvaluateCEL, Holds
<1> QED BY <1>1, <1>2

(* What is kept of the history shows the streak after one more result.     *)
LEMMA TailGrows ==
    ASSUME NEW h \in Seq(BOOLEAN), MaxCount \in Nat \ {0}, Len(h) <= MaxCount,
           NEW v \in BOOLEAN, NEW w \in BOOLEAN, NEW count, TailIs(h, count, w)
    PROVE  TailIs(Cut(Append(h, v)), IF v = w THEN Count(count) ELSE 0, w)
<1> DEFINE c == Cut(Append(h, v))
           size == IF Len(h) < MaxCount THEN Len(h) + 1 ELSE MaxCount
           k == IF v = w THEN Count(count) ELSE 0
<1>1. c \in Seq(BOOLEAN) /\ Len(c) = size /\ c[size] = v
      /\ \A j \in 1..(size - 1) : c[size - j] = h[Len(h) + 1 - j]
  BY CutKeepsTail
<1>2. /\ count \in 0..Len(h)
      /\ \A j \in 0..(count - 1) : h[Len(h) - j] = w
      /\ count < MaxCount /\ count < Len(h) => h[Len(h) - count] # w
  BY DEF TailIs
<1>3. Len(h) \in Nat /\ size \in 1..MaxCount
  OBVIOUS
<1> HIDE DEF c
<1>4. CASE v = w
  <2>1. k \in 0..size /\ k <= count + 1 /\ (k < MaxCount => k = count + 1)
    BY <1>2, <1>3, <1>4 DEF Count
  <2>2. ASSUME NEW j \in 0..(k - 1) PROVE c[size - j] = w
    <3>1. CASE j = 0
      BY <1>1, <1>3, <1>4, <3>1
    <3>2. CASE j # 0
      <4>1. j \in 1..(size - 1) /\ j - 1 \in 0..(count - 1)
        BY <1>2, <1>3, <2>1, <3>2
      <4>2. h[Len(h) - (j - 1)] = w
        BY <1>2, <4>1
      <4>3. Len(h) - (j - 1) = Len(h) + 1 - j
        BY <1>3, <4>1
      <4> QED BY <1>1, <4>1, <4>2, <4>3
    <3> QED BY <3>1, <3>2
  <2>3. ASSUME k < MaxCount, k < size PROVE c[size - k] # w
    <3>1. k = count + 1 /\ k \in 1..(size - 1) /\ count < Len(h) /\ count < MaxCount
      BY <1>2, <1>3, <2>1, <2>3
    <3>2. Len(h) + 1 - k = Len(h) - count
      BY <1>2, <1>3, <3>1
    <3> QED BY <1>1, <1>2, <3>1, <3>2
  <2> QED BY <1>1, <2>1, <2>2, <2>3 DEF TailIs, c
<1>5. CASE v # w
  <2>1. k = 0
    BY <1>5
  <2>2. c[size - 0] # w
    BY <1>1, <1>3, <1>5
  <2>3. k < MaxCount /\ k < size => c[size - k] # w
    BY <2>1, <2>2
  <2>4. \A j \in 0..(k - 1) : c[size - j] = w
    BY <2>1
  <2> QED BY <1>1, <1>3, <2>1, <2>3, <2>4 DEF TailIs, c
<1> QED BY <1>4, <1>5

(* Counting in what is kept of the history is counting the streak.         *)
LEMMA CountedIsStreak ==
    ASSUME NEW h \in Seq(BOOLEAN), MaxCount \in Nat, Len(h) <= MaxCount,
           NEW w \in BOOLEAN, NEW count, TailIs(h, count, w), NEW n \in 1..MaxCount
    PROVE  ConsecutiveReached(h, n, w) <=> count >= n
<1>1. /\ count \in 0..Len(h) /\ Len(h) \in Nat
      /\ \A j \in 0..(count - 1) : h[Len(h) - j] = w
      /\ count < MaxCount /\ count < Len(h) => h[Len(h) - count] # w
  BY DEF TailIs
<1>2. ASSUME count >= n PROVE ConsecutiveReached(h, n, w)
  <2>1. ASSUME NEW i \in (Len(h) - n + 1)..Len(h) PROVE h[i] = w
    <3>1. Len(h) - i \in 0..(count - 1) /\ Len(h) - (Len(h) - i) = i
      BY <1>1, <1>2
    <3> QED BY <1>1, <3>1
  <2> QED BY <1>1, <1>2, <2>1 DEF ConsecutiveReached
<1>3. ASSUME ConsecutiveReached(h, n, w), ~(count >= n) PROVE FALSE
  <2>1. Len(h) >= n /\ h[Len(h) - count] # w
    BY <1>1, <1>3 DEF ConsecutiveReached
  <2>2. Len(h) - count \in (Len(h) - n + 1)..Len(h)
    BY <1>1, <1>3, <2>1
  <2> QED BY <1>3, <2>1, <2>2 DEF ConsecutiveReached
<1> QED BY <1>2, <1>3

(* A poll ends the test exactly when it makes one of the streaks long      *)
(* enough.                                                                 *)
LEMMA PollShows ==
    TypeOK /\ Configured /\ HistoryShowsStreak /\ Poll =>
        /\ HistoryShowsStreak'
        /\ pc' = "done" <=> Passed'
        /\ pc' = "failed" <=> FailedTooOften'
<1> SUFFICES ASSUME TypeOK, Configured, HistoryShowsStreak, Poll
             PROVE  /\ HistoryShowsStreak'
                    /\ pc' = "done" <=> Passed'
                    /\ pc' = "failed" <=> FailedTooOften'
  OBVIOUS
<1>1. /\ MaxCount \in Nat \ {0} /\ MinSuccess \in 1..MaxCount /\ test.failure \in 0..MaxCount
      /\ MaxCount' = MaxCount /\ MinSuccess' = MinSuccess /\ test' = test
  BY CountsTyped DEF TypeOK, Poll, configVars, MaxCount, MinSuccess
<1>2. history \in Seq(BOOLEAN) /\ Len(history) <= MaxCount
  BY <1>1 DEF TypeOK, BoundedSeq, SeqOf
<1>3. PICK got \in {"error", IF ContextDone THEN "error"
                             ELSE IF Target.exists THEN "found" ELSE "notfound"} :
         /\ history' = Cut(Append(history, Run(got)))
         /\ streak' = IF got # "error" /\ Holds
                      THEN [held |-> Count(streak.held), failed |-> 0]
                      ELSE [held |-> 0, failed |-> Count(streak.failed)]
  BY DEF Poll
<1> DEFINE v == Run(got)
<1>4. v \in BOOLEAN /\ (v <=> got # "error" /\ Holds)
  <2>1. Target.exists \in BOOLEAN
    BY LiveTyped DEF TypeOK, Target, Configured
  <2> QED BY <2>1, PollIsTruthful DEF TypeOK
<1>5. /\ streak.held \in 0..MaxCount /\ TailIs(history, streak.held, TRUE)
      /\ streak.failed \in 0..MaxCount /\ TailIs(history, streak.failed, FALSE)
  BY DEF HistoryShowsStreak
<1> HIDE DEF v
<1>6. /\ streak'.held = IF v = TRUE THEN Count(streak.held) ELSE 0
      /\ streak'.failed = IF v = FALSE THEN Count(streak.failed) ELSE 0
  BY <1>3, <1>4
<1>7. history' = Cut(Append(history, v))
  BY <1>3 DEF v
<1>8. TailIs(history', streak'.held, TRUE)
  BY <1>1, <1>2, <1>4, <1>5, <1>6, <1>7, TailGrows
<1>9. TailIs(history', streak'.failed, FALSE)
  BY <1>1, <1>2, <1>4, <1>5, <1>6, <1>7, TailGrows
<1>10. streak'.held \in 0..MaxCount /\ streak'.failed \in 0..MaxCount
  BY <1>1, <1>5, <1>6 DEF Count
<1>11. history' \in Seq(BOOLEAN) /\ Len(history') <= MaxCount
  BY <1>1, <1>2, <1>4, <1>7, CutKeepsTail
<1>12. ConsecutiveReached(history', MinSuccess, TRUE) <=> streak'.held >= MinSuccess
  BY <1>1, <1>8, <1>11, CountedIsStreak
<1>13. test.failure # 0 => (ConsecutiveReached(history', test.failure, FALSE) <=> streak'.failed >= test.failure)
  <2>1. SUFFICES ASSUME test.failure # 0
                 PROVE  ConsecutiveReached(history', test.failure, FALSE) <=> streak'.failed >= test.failure
    OBVIOUS
  <2>2. test.failure \in 1..MaxCount
    BY <1>1, <2>1
  <2> QED BY <1>1, <1>9, <1>11, <2>2, CountedIsStreak
<1>14. pc' = Verdict(history') /\ pc' \in {"test", "done", "failed"}
  BY DEF Poll, Verdict
<1>15. HistoryShowsStreak'
  BY <1>1, <1>8, <1>9, <1>10, <1>14 DEF HistoryShowsStreak, TailIs
<1>16. Passed' <=> ConsecutiveReached(history', MinSuccess, TRUE)
  BY <1>1, <1>12 DEF Passed
<1>17. FailedTooOften' <=> test.failure # 0 /\ ConsecutiveReached(history', test.failure, FALSE)
  BY <1>1, <1>13 DEF FailedTooOften
<1>18. ~(Passed' /\ FailedTooOften')
  <2>1. streak'.held = 0 \/ streak'.failed = 0
    BY <1>4, <1>6
  <2> QED BY <1>1, <2>1 DEF Passed, FailedTooOften
<1>19. /\ pc' = "done" <=> Passed'
       /\ pc' = "failed" <=> ~Passed' /\ FailedTooOften'
  BY <1>14, <1>16, <1>17, Zenon DEF Verdict
<1> QED BY <1>15, <1>18, <1>19

(* What VerdictMatchesStreak says of a step.                               *)
VerdictStep ==
    pc = "test" =>
        /\ pc' = "done" <=> Passed'
        /\ FailedTooOften' => pc' = "failed"
        /\ pc' = "failed" => FailedTooOften' \/ ContextDone

LEMMA NextShows ==
    TypeOK /\ Configured /\ Shown /\ [Next]_vars => Shown' /\ [VerdictStep]_vars
<1> SUFFICES ASSUME TypeOK, Configured, Shown, [Next]_vars PROVE Shown' /\ VerdictStep
  OBVIOUS
<1>1. CASE Poll
  <2>1. /\ HistoryShowsStreak'
        /\ pc' = "done" <=> Passed'
        /\ pc' = "failed" <=> FailedTooOften'
    BY <1>1, PollShows DEF Shown
  <2> QED BY <2>1 DEF Shown, Undecided, VerdictStep
<1>2. CASE ~Poll
  <2>1. UNCHANGED <<test, history, streak>>
    BY <1>2 DEF Next, Step, ServerSideApply, GetImmutable, DeleteImmutable, WaitForDeletion, CreateImmutable,
           CallFails, WaitForReady, GiveUp, Expire, Others, DeletionCompletes, OtherClient,
           ControllerWritesStatus, Interrupt, Rest, configVars, vars
  <2>2. /\ pc \in {"test", "done", "failed"} => pc' \in {pc, "failed"}
        /\ pc' # "done" \/ pc = "done"
        /\ pc = "test" => pc' = "test" \/ ContextDone
    BY <1>2 DEF Next, Step, ServerSideApply, GetImmutable, DeleteImmutable, WaitForDeletion, CreateImmutable,
           CallFails, WaitForReady, GiveUp, Expire, Others, DeletionCompletes, OtherClient,
           ControllerWritesStatus, Interrupt, Rest, vars, Fail, Advance, FirstCall
  <2>3. MaxCount' = MaxCount /\ MinSuccess' = MinSuccess /\ MinSuccess \in Nat \ {0} /\ test.failure \in Nat
    BY <2>1, CountsTyped DEF MaxCount, MinSuccess, TypeOK
  <2>4. HistoryShowsStreak'
    BY <2>1, <2>2, <2>3 DEF Shown, HistoryShowsStreak, TailIs, TypeOK
  <2>5. Passed' = Passed /\ FailedTooOften' = FailedTooOften
    BY <2>1, <2>3 DEF Passed, FailedTooOften
  <2>6. Undecided'
    <3>1. CASE pc = "test"
      BY <2>5, <3>1 DEF Shown, Undecided
    <3>2. CASE pc' = "test" /\ pc # "test"
      <4>1. streak = NoStreak
        BY <2>2, <3>2 DEF Shown, HistoryShowsStreak
      <4>2. ~Passed /\ ~FailedTooOften
        BY <2>3, <4>1 DEF Passed, FailedTooOften, NoStreak
      <4> QED BY <2>5, <4>2 DEF Undecided
    <3> QED BY <3>1, <3>2 DEF Undecided
  <2>7. VerdictStep
    BY <2>2, <2>5 DEF Shown, Undecided, VerdictStep
  <2> QED BY <2>4, <2>6, <2>7 DEF Shown
<1> QED BY <1>1, <1>2

(* A test passes with the poll that completes the successes in a row it    *)
(* needs, fails with the poll that completes as many failures as end it    *)
(* (never if that number is 0), and otherwise polls on until its deadline  *)
(* or its context ends, whatever was cut from the history.                 *)
THEOREM VerdictIsAboutTheCluster == Spec => VerdictMatchesStreak
<1>1. Init => Shown
  <2> SUFFICES ASSUME Init PROVE Shown
    OBVIOUS
  <2>1. /\ history = <<>> /\ streak = NoStreak /\ pc \in {"apply", "get"} /\ MaxCount \in Nat
    BY CountsTyped DEF Init, FirstCall
  <2> QED BY <2>1 DEF Shown, HistoryShowsStreak, Undecided, NoStreak, TailIs
<1> QED BY <1>1, InitTyped, NextTyped, NextShows, PTL DEF Spec, VerdictMatchesStreak, VerdictStep
=============================================================================
