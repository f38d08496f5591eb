----------------------- MODULE DependencyOrder_proof ------------------------
(***************************************************************************)
(* Proofs about the dependency graph, for every list of manifests.  About  *)
(* runner.ResolveDependencyOrder: the layers respect dependsOn and are     *)
(* disjoint, nothing is dropped, and the function succeeds exactly on      *)
(* resolvable input.  About validator.ValidateDependsOn: its in-place      *)
(* passes accept exactly the lists the runner resolves.                    *)
(***************************************************************************)
EXTENDS DependencyOrder, ValidateDependsOn, FiniteSetTheorems, WellFoundedInduction, TLAPS

(***************************************************************************)
(* The graph: lemmas that both implementations of Kahn's algorithm rest    *)
(* on. The key is InDegrees: an in-degree counts the dependsOn entries     *)
(* that wait for a manifest which is not placed yet, repeated entries      *)
(* included, and Release keeps it so.                                      *)
(***************************************************************************)

(* The positions of i's dependsOn list that still wait for their manifest. *)
WaitingFor(ms, i, placed) ==
    {k \in DOMAIN ms[i].dependsOn : DepIdx(ms, i, k) \notin placed}

InDegrees(ms, placed) ==
    [i \in DOMAIN ms |->
        IF i \in placed THEN -1 ELSE Cardinality(WaitingFor(ms, i, placed))]

(* A non-empty set of natural numbers has a least element. *)
LEMMA LeastNatural ==
    ASSUME NEW D \in SUBSET Nat, D # {}
    PROVE  \E x \in D : \A y \in D : x <= y
<1> DEFINE R == {ss \in Nat \X Nat : ss[1] < ss[2]}
<1>1. IsWellFoundedOn(R, Nat)
  BY NatLessThanWellFounded DEF OpToRel
<1>2. PICK x \in D : \A y \in D : ~(<<y, x>> \in R)
  <2> HIDE DEF R
  <2> QED BY <1>1, WFMin
<1>3. \A y \in D : ~(y < x)
  BY <1>2
<1> QED BY <1>3

(* A non-empty set of indices of a list has a greatest element. *)
LEMMA GreatestIndex ==
    ASSUME NEW n \in Nat, NEW T \in SUBSET (1..n), T # {}
    PROVE  \E i \in T : \A j \in T : j <= i
<1> DEFINE D == {x \in Nat : n - x \in T}
<1>1. PICK t \in T : TRUE
  OBVIOUS
<1>2. n - (n - t) = t /\ n - t \in Nat
  OBVIOUS
<1>3. n - t \in D
  BY <1>2
<1>4. PICK x \in D : \A y \in D : x <= y
  BY <1>3, LeastNatural
<1>5. n - x \in T /\ x \in Nat
  BY <1>4
<1>6. ASSUME NEW j \in T PROVE j <= n - x
  <2>1. n - j \in Nat /\ n - (n - j) = j
    OBVIOUS
  <2>2. n - j \in D
    BY <2>1
  <2>3. x <= n - j
    BY <1>4, <2>2
  <2> QED BY <1>5, <2>1, <2>3
<1> QED BY <1>5, <1>6

(* idxByName finds a manifest of the given name. *)
LEMMA IdxByNameDeclared ==
    ASSUME NEW ms \in Seq(Manifest), NEW n \in Declared(ms)
    PROVE  IdxByName(ms, n) \in DOMAIN ms /\ ms[IdxByName(ms, n)].name = n
<1> DEFINE T == {i \in DOMAIN ms : ms[i].name = n}
<1>1. T \in SUBSET (1..Len(ms)) /\ T # {} /\ Len(ms) \in Nat
  BY DEF Declared
<1>2. PICK i \in T : \A j \in T : j <= i
  <2> HIDE DEF T
  <2> QED BY <1>1, GreatestIndex
<1> QED BY <1>2 DEF IdxByName

(* Without a bad reference each entry leads to a manifest of the list.     *)
LEMMA DepIdxInDomain ==
    ASSUME NEW ms \in Seq(Manifest), ~BadReference(ms),
           NEW i \in DOMAIN ms, NEW k \in DOMAIN ms[i].dependsOn
    PROVE  DepIdx(ms, i, k) \in DependencyIdx(ms, i)
<1>1. ms[i].dependsOn[k] \in Declared(ms)
  BY DEF BadReference
<1> QED BY <1>1, IdxByNameDeclared DEF DepIdx, DependencyIdx

(* Sets of positions of a dependsOn list are finite. *)
LEMMA PositionsFinite ==
    ASSUME NEW ms \in Seq(Manifest), NEW i \in DOMAIN ms,
           NEW K \in SUBSET DOMAIN ms[i].dependsOn
    PROVE  IsFiniteSet(K) /\ Cardinality(K) \in Nat
<1>1. ms[i].dependsOn \in Seq(Names \cup {NoName})
  <2>1. ms[i] \in Manifest
    OBVIOUS
  <2> QED BY <2>1 DEF Manifest
<1>2. DOMAIN ms[i].dependsOn = 1..Len(ms[i].dependsOn) /\ Len(ms[i].dependsOn) \in Nat
  BY <1>1
<1>3. IsFiniteSet(DOMAIN ms[i].dependsOn)
  BY <1>2, FS_Interval
<1>4. IsFiniteSet(K)
  BY <1>3, FS_Subset
<1> QED BY <1>4, FS_CardinalityType

(* Taking a finite part out of a finite set. *)
LEMMA CardinalityMinus ==
    ASSUME NEW S, IsFiniteSet(S), NEW T \in SUBSET S
    PROVE  Cardinality(S \ T) = Cardinality(S) - Cardinality(T)
<1>1. IsFiniteSet(T) /\ S \cap T = T
  BY FS_Subset
<1> QED BY <1>1, FS_Difference, FS_CardinalityType

(* Without dependsOn nothing depends on anything. *)
LEMMA NoDependencies ==
    ASSUME NEW ms \in Seq(Manifest), ~HasAnyDependsOn(ms)
    PROVE  /\ \A i \in DOMAIN ms : DependencyIdx(ms, i) = {}
           /\ Resolvable(ms)
<1>1. \A i \in DOMAIN ms : DOMAIN ms[i].dependsOn = {}
  BY DEF HasAnyDependsOn
<1>2. \A i \in DOMAIN ms : DependencyIdx(ms, i) = {}
  BY <1>1 DEF DependencyIdx
<1>3. ~BadReference(ms)
  BY <1>1 DEF BadReference
<1>4. Acyclic(ms)
  BY <1>2 DEF Acyclic, Deadlocked
<1> QED BY <1>2, <1>3, <1>4 DEF Resolvable

(* Every in-degree is an integer. *)
LEMMA InDegreesType ==
    ASSUME NEW ms \in Seq(Manifest), NEW placed
    PROVE  InDegrees(ms, placed) \in [DOMAIN ms -> Int]
<1>1. \A i \in DOMAIN ms : WaitingFor(ms, i, placed) \in SUBSET DOMAIN ms[i].dependsOn
  BY DEF WaitingFor
<1>2. \A i \in DOMAIN ms : Cardinality(WaitingFor(ms, i, placed)) \in Nat
  BY <1>1, PositionsFinite
<1> QED BY <1>2 DEF InDegrees

(* In-degree zero: not placed, and everything it depends on is. *)
LEMMA ZeroInDegree ==
    ASSUME NEW ms \in Seq(Manifest), NEW placed,
           NEW i \in DOMAIN ms, InDegrees(ms, placed)[i] = 0
    PROVE  i \notin placed /\ DependencyIdx(ms, i) \subseteq placed
<1>1. i \notin placed /\ Cardinality(WaitingFor(ms, i, placed)) = 0
  BY DEF InDegrees
<1>2. WaitingFor(ms, i, placed) \in SUBSET DOMAIN ms[i].dependsOn
  BY DEF WaitingFor
<1>3. WaitingFor(ms, i, placed) = {}
  BY <1>1, <1>2, PositionsFinite, FS_EmptySet
<1>4. ASSUME NEW j \in DependencyIdx(ms, i) PROVE j \in placed
  <2>1. PICK k \in DOMAIN ms[i].dependsOn : j = DepIdx(ms, i, k)
    BY DEF DependencyIdx
  <2> QED BY <1>3, <2>1 DEF WaitingFor
<1> QED BY <1>1, <1>4

(* Not placed and not of in-degree zero: it waits for a manifest.          *)
LEMMA NonzeroInDegree ==
    ASSUME NEW ms \in Seq(Manifest), NEW placed, ~BadReference(ms),
           NEW i \in DOMAIN ms, i \notin placed, InDegrees(ms, placed)[i] # 0
    PROVE  \E j \in DependencyIdx(ms, i) : j \in DOMAIN ms /\ j \notin placed
<1>1. Cardinality(WaitingFor(ms, i, placed)) # 0
  BY DEF InDegrees
<1>2. PICK k \in DOMAIN ms[i].dependsOn : DepIdx(ms, i, k) \notin placed
  BY <1>1, FS_EmptySet DEF WaitingFor
<1>3. DepIdx(ms, i, k) \in DependencyIdx(ms, i)
  BY DepIdxInDomain
<1> QED BY <1>2, <1>3 DEF DependencyIdx

(* Before anything is placed the in-degrees are the list lengths. *)
LEMMA InitialInDegrees ==
    ASSUME NEW ms \in Seq(Manifest)
    PROVE  InitialInDegree(ms) = InDegrees(ms, {})
<1>1. ASSUME NEW i \in DOMAIN ms
      PROVE  Len(ms[i].dependsOn) = Cardinality(WaitingFor(ms, i, {}))
  <2>1. ms[i] \in Manifest
    OBVIOUS
  <2>2. /\ Len(ms[i].dependsOn) \in Nat
        /\ DOMAIN ms[i].dependsOn = 1..Len(ms[i].dependsOn)
    BY <2>1 DEF Manifest
  <2>3. WaitingFor(ms, i, {}) = 1..Len(ms[i].dependsOn)
    BY <2>2 DEF WaitingFor
  <2>4. ASSUME NEW n \in Nat PROVE Cardinality(1..n) = n
    BY FS_Interval
  <2> QED BY <2>2, <2>3, <2>4
<1> QED BY <1>1 DEF InitialInDegree, InDegrees

(* Releasing ready manifests turns the in-degrees into those of the larger *)
(* placed set: what dependents, "inDegree[d] > 0" and -1 are for.          *)
LEMMA ReleaseInDegrees ==
    ASSUME NEW ms \in Seq(Manifest), NEW placed, NEW done \in SUBSET DOMAIN ms,
           \A i \in done : InDegrees(ms, placed)[i] = 0
    PROVE  Release(ms, InDegrees(ms, placed), done) = InDegrees(ms, placed \cup done)
<1> DEFINE deg == InDegrees(ms, placed)
           W(i) == WaitingFor(ms, i, placed)
           H(i) == Hits(ms, i, done)
<1>1. \A i \in done : i \notin placed
  BY ZeroInDegree
<1>2. ASSUME NEW i \in DOMAIN ms
      PROVE  Release(ms, deg, done)[i] = InDegrees(ms, placed \cup done)[i]
  <2>1. Release(ms, deg, done)[i] = IF i \in done THEN -1 ELSE Lower(deg[i], Cardinality(H(i)))
    BY DEF Release
  <2>2. CASE i \in done
    BY <2>1, <2>2 DEF InDegrees
  <2>3. CASE i \in placed
    <3>1. i \notin done /\ deg[i] = -1
      BY <1>1, <2>3 DEF InDegrees
    <3> QED BY <2>1, <2>3, <3>1 DEF InDegrees, Lower
  <2>4. CASE i \notin done /\ i \notin placed
    <3>1. H(i) \in SUBSET W(i) /\ WaitingFor(ms, i, placed \cup done) = W(i) \ H(i)
      BY <1>1 DEF Hits, WaitingFor
    <3>2. IsFiniteSet(W(i)) /\ Cardinality(W(i)) \in Nat
      BY PositionsFinite DEF WaitingFor
    <3>3. Cardinality(H(i)) \in Nat /\ Cardinality(H(i)) <= Cardinality(W(i))
      BY <3>1, <3>2, FS_Subset, FS_CardinalityType
    <3>4. Cardinality(W(i) \ H(i)) = Cardinality(W(i)) - Cardinality(H(i))
      BY <3>1, <3>2, CardinalityMinus
    <3>5. deg[i] = Cardinality(W(i))
      BY <2>4 DEF InDegrees
    <3>6. Lower(deg[i], Cardinality(H(i))) = Cardinality(W(i)) - Cardinality(H(i))
      BY <3>2, <3>3, <3>5 DEF Lower
    <3>7. InDegrees(ms, placed \cup done)[i] = Cardinality(W(i)) - Cardinality(H(i))
      BY <2>4, <3>1, <3>4 DEF InDegrees
    <3> QED BY <2>1, <2>4, <3>6, <3>7
  <2> QED BY <2>2, <2>3, <2>4
<1> QED BY <1>2 DEF Release, InDegrees

(* No deadlocked set loses a member when ready manifests are placed. *)
LEMMA DeadlocksStayUnplaced ==
    ASSUME NEW ms \in Seq(Manifest), NEW placed, NEW done \in SUBSET DOMAIN ms,
           \A i \in done : InDegrees(ms, placed)[i] = 0,
           NEW S \in SUBSET DOMAIN ms, Deadlocked(ms, S), S \cap placed = {}
    PROVE  S \cap (placed \cup done) = {}
<1> SUFFICES ASSUME NEW i \in S, i \in done PROVE FALSE
  OBVIOUS
<1>1. DependencyIdx(ms, i) \subseteq placed
  BY ZeroInDegree
<1> QED BY <1>1 DEF Deadlocked

(* If nothing is ready and something is not placed, there is a cycle.      *)
LEMMA StuckMeansDeadlock ==
    ASSUME NEW ms \in Seq(Manifest), ~BadReference(ms), NEW placed \in SUBSET DOMAIN ms,
           placed # DOMAIN ms, \A i \in DOMAIN ms : InDegrees(ms, placed)[i] # 0
    PROVE  ~Resolvable(ms)
<1> DEFINE S == DOMAIN ms \ placed
<1>1. S # {} /\ S \in SUBSET DOMAIN ms
  OBVIOUS
<1>2. ASSUME NEW i \in S PROVE DependencyIdx(ms, i) \cap S # {}
  BY NonzeroInDegree
<1>3. Deadlocked(ms, S)
  BY <1>1, <1>2 DEF Deadlocked
<1> HIDE DEF S
<1> QED BY <1>1, <1>3 DEF Resolvable, Acyclic

(* If everything could be placed, there is no cycle. *)
LEMMA PlacedMeansAcyclic ==
    ASSUME NEW ms \in Seq(Manifest), ~BadReference(ms),
           \A S \in SUBSET DOMAIN ms : Deadlocked(ms, S) => S \cap DOMAIN ms = {}
    PROVE  Resolvable(ms)
<1>1. Acyclic(ms)
  BY DEF Acyclic, Deadlocked
<1> QED BY <1>1 DEF Resolvable

-----------------------------------------------------------------------------
(***************************************************************************)
(* The layers. Inductive are: the in-degrees are those of the placed       *)
(* manifests (DegreesCount), no set of manifests waiting for each other    *)
(* ever loses a member to a layer (DeadlocksUntouched), and what is ready  *)
(* was released by the last layer (ReadyJustReleased).                     *)
(***************************************************************************)
DegreesCount ==
    resolution = "layering" => inDegree = InDegrees(manifests, Placed)

DeadlocksUntouched ==
    \A S \in SUBSET DOMAIN manifests :
        Deadlocked(manifests, S) => S \cap Placed = {}

(* Layers exist only for input that passed the reference check. *)
Phases ==
    /\ resolution = "none" => layers = <<>>
    /\ resolution = "layering" => ~BadReference(manifests)

(* What is ready after a layer was released by that layer. *)
ReadyJustReleased ==
    resolution = "layering" /\ layers # <<>> =>
        \A i \in Ready : DependencyIdx(manifests, i) \cap layers[Len(layers)] # {}

OrderIInv ==
    /\ OrderTypeOK
    /\ Phases
    /\ DegreesCount
    /\ DeadlocksUntouched
    /\ LayersRespectDependsOn
    /\ LayersDisjoint
    /\ NothingDropped
    /\ ResolvesExactlyAcyclic
    /\ ReadyJustReleased
    /\ LayersAreEarliest

-----------------------------------------------------------------------------
(***************************************************************************)
(* The inductive invariant.                                                *)
(***************************************************************************)

(* While layering, what is ready is not placed yet and waits for nothing.  *)
LEMMA ReadyFacts ==
    ASSUME OrderIInv, resolution = "layering"
    PROVE  /\ Ready \in SUBSET DOMAIN manifests
           /\ \A i \in Ready : InDegrees(manifests, Placed)[i] = 0
           /\ Ready \cap Placed = {}
           /\ \A i \in Ready : DependencyIdx(manifests, i) \subseteq Placed
<1>1. /\ manifests \in Seq(Manifest) /\ Ready \in SUBSET DOMAIN manifests
      /\ \A i \in Ready : InDegrees(manifests, Placed)[i] = 0
  BY DEF OrderIInv, OrderTypeOK, DegreesCount, Ready
<1> QED BY <1>1, ZeroInDegree

(* Appending a layer adds its members to Placed. *)
LEMMA PlacedNext ==
    ASSUME OrderTypeOK, NextLayer
    PROVE  /\ Placed' = Placed \cup Ready
           /\ Len(layers') = Len(layers) + 1
           /\ layers'[Len(layers) + 1] = Ready
           /\ \A d \in DOMAIN layers : layers'[d] = layers[d]
           /\ DOMAIN layers' = DOMAIN layers \cup {Len(layers) + 1}
<1>1. layers \in Seq(SUBSET DOMAIN manifests) /\ layers' = Append(layers, Ready)
  BY DEF OrderTypeOK, NextLayer
<1>2. Ready \in SUBSET DOMAIN manifests
  BY DEF Ready
<1>3. /\ Len(layers') = Len(layers) + 1
      /\ layers'[Len(layers) + 1] = Ready
      /\ \A d \in DOMAIN layers : layers'[d] = layers[d]
      /\ DOMAIN layers' = DOMAIN layers \cup {Len(layers) + 1}
  BY <1>1, <1>2
<1> QED BY <1>3 DEF Placed

LEMMA OrderInitIInv == OrderInit => OrderIInv
<1> SUFFICES ASSUME OrderInit PROVE OrderIInv
  OBVIOUS
<1> USE DEF OrderInit
<1>1. manifests \in Seq(Manifest)
  BY InputsAssumption
<1>2. layers = <<>> /\ DOMAIN layers = {} /\ Placed = {}
  BY DEF Placed
<1>3. layers \in Seq(SUBSET DOMAIN manifests)
  BY <1>2
<1>4. OrderTypeOK
  BY <1>1, <1>3 DEF OrderTypeOK
<1>5. DeadlocksUntouched
  BY <1>2 DEF DeadlocksUntouched
<1>6. LayersRespectDependsOn /\ LayersDisjoint /\ LayersAreEarliest
  BY <1>2 DEF LayersRespectDependsOn, LayersDisjoint, LayersAreEarliest
<1> QED
  BY <1>2, <1>4, <1>5, <1>6
  DEF OrderIInv, Phases, DegreesCount, NothingDropped, ResolvesExactlyAcyclic,
      ReadyJustReleased

LEMMA SequentialStep == OrderIInv /\ ResolveSequential => OrderIInv'
<1> SUFFICES ASSUME OrderIInv, ResolveSequential PROVE OrderIInv'
  OBVIOUS
<1> DEFINE n == Len(manifests)
<1>1. /\ manifests \in Seq(Manifest) /\ manifests' = manifests /\ inDegree' = inDegree
      /\ ~HasAnyDependsOn(manifests) /\ resolution' = "ok"
      /\ layers' = [i \in 1..n |-> {i}]
      /\ n \in Nat /\ DOMAIN manifests = 1..n
  BY DEF OrderIInv, OrderTypeOK, ResolveSequential
<1>2. layers' \in Seq(SUBSET DOMAIN manifests) /\ DOMAIN layers' = DOMAIN manifests
  BY <1>1
<1>3. OrderTypeOK'
  BY <1>1, <1>2 DEF OrderIInv, OrderTypeOK
<1>4. Placed' = DOMAIN manifests
  BY <1>1, <1>2 DEF Placed
<1>5. (\A i \in DOMAIN manifests : DependencyIdx(manifests, i) = {}) /\ Resolvable(manifests)
  BY <1>1, NoDependencies
<1>6. LayersRespectDependsOn'
  BY <1>1, <1>2, <1>5 DEF LayersRespectDependsOn
<1>7. LayersDisjoint'
  BY <1>1, <1>2 DEF LayersDisjoint
<1>8. DeadlocksUntouched'
  BY <1>1, <1>5 DEF DeadlocksUntouched, Resolvable, Acyclic
<1>9. NothingDropped' /\ ResolvesExactlyAcyclic' /\ Phases' /\ DegreesCount'
      /\ ReadyJustReleased' /\ LayersAreEarliest'
  BY <1>1, <1>4, <1>5
  DEF NothingDropped, ResolvesExactlyAcyclic, Phases, DegreesCount, ReadyJustReleased,
      LayersAreEarliest
<1> QED BY <1>3, <1>6, <1>7, <1>8, <1>9 DEF OrderIInv

LEMMA BuildStep == OrderIInv /\ BuildInDegree => OrderIInv'
<1> SUFFICES ASSUME OrderIInv, BuildInDegree PROVE OrderIInv'
  OBVIOUS
<1>1. /\ manifests \in Seq(Manifest) /\ manifests' = manifests
      /\ layers' = layers /\ layers = <<>> /\ DOMAIN layers = {}
  BY DEF OrderIInv, OrderTypeOK, Phases, BuildInDegree
<1>2. Placed' = {}
  BY <1>1 DEF Placed
<1>3. DeadlocksUntouched' /\ LayersRespectDependsOn' /\ LayersDisjoint'
      /\ LayersAreEarliest' /\ ReadyJustReleased'
  BY <1>1, <1>2
  DEF DeadlocksUntouched, LayersRespectDependsOn, LayersDisjoint, LayersAreEarliest,
      ReadyJustReleased
<1>4. CASE BadReference(manifests)
  <2>1. resolution' = "error" /\ inDegree' = inDegree
    BY <1>4 DEF BuildInDegree
  <2>2. OrderTypeOK'
    BY <1>1, <2>1 DEF OrderIInv, OrderTypeOK
  <2> QED
    BY <1>1, <1>3, <1>4, <2>1, <2>2
    DEF OrderIInv, Phases, DegreesCount, NothingDropped, ResolvesExactlyAcyclic, Resolvable
<1>5. CASE ~BadReference(manifests)
  <2>1. resolution' = "layering" /\ inDegree' = InitialInDegree(manifests)
    BY <1>5 DEF BuildInDegree
  <2>2. inDegree' = InDegrees(manifests, {})
    BY <1>1, <2>1, InitialInDegrees
  <2>4. OrderTypeOK'
    BY <1>1, <2>1, <2>2, InDegreesType DEF OrderIInv, OrderTypeOK
  <2>5. DegreesCount'
    BY <1>1, <1>2, <2>2 DEF DegreesCount
  <2> QED
    BY <1>1, <1>3, <1>5, <2>1, <2>4, <2>5
    DEF OrderIInv, Phases, NothingDropped, ResolvesExactlyAcyclic
<1> QED BY <1>4, <1>5

LEMMA NextLayerStep == OrderIInv /\ NextLayer => OrderIInv'
<1> SUFFICES ASSUME OrderIInv, NextLayer PROVE OrderIInv'
  OBVIOUS
<1> DEFINE n == Len(layers)
<1>1. /\ manifests \in Seq(Manifest) /\ manifests' = manifests
      /\ resolution = "layering" /\ resolution' = "layering"
      /\ ~BadReference(manifests)
      /\ layers \in Seq(SUBSET DOMAIN manifests)
      /\ layers' = Append(layers, Ready)
      /\ n \in Nat /\ DOMAIN layers = 1..n
  BY DEF OrderIInv, OrderTypeOK, Phases, NextLayer
<1>2. /\ Ready \in SUBSET DOMAIN manifests
      /\ \A i \in Ready : InDegrees(manifests, Placed)[i] = 0
      /\ Ready \cap Placed = {}
      /\ \A i \in Ready : DependencyIdx(manifests, i) \subseteq Placed
  BY <1>1, ReadyFacts
<1>3. /\ Placed' = Placed \cup Ready
      /\ Len(layers') = n + 1
      /\ layers'[n + 1] = Ready
      /\ \A d \in DOMAIN layers : layers'[d] = layers[d]
      /\ DOMAIN layers' = DOMAIN layers \cup {n + 1}
  BY PlacedNext DEF OrderIInv
<1>4. inDegree' = InDegrees(manifests, Placed')
  <2>1. inDegree' = Release(manifests, InDegrees(manifests, Placed), Ready)
    BY <1>1 DEF OrderIInv, DegreesCount, NextLayer
  <2> QED BY <1>1, <1>2, <1>3, <2>1, ReleaseInDegrees
<1>5. OrderTypeOK'
  <2>1. layers' \in Seq(SUBSET DOMAIN manifests)
    BY <1>1, <1>2
  <2>2. inDegree' \in [DOMAIN manifests -> Int]
    BY <1>1, <1>4, InDegreesType
  <2> QED BY <1>1, <2>1, <2>2 DEF OrderTypeOK
<1>6. DeadlocksUntouched'
  <2> SUFFICES ASSUME NEW S \in SUBSET DOMAIN manifests, Deadlocked(manifests, S)
               PROVE  S \cap (Placed \cup Ready) = {}
    BY <1>1, <1>3 DEF DeadlocksUntouched
  <2>1. S \cap Placed = {}
    BY DEF OrderIInv, DeadlocksUntouched
  <2> QED BY <1>1, <1>2, <2>1, DeadlocksStayUnplaced
<1>7. LayersRespectDependsOn'
  <2> SUFFICES ASSUME NEW d \in DOMAIN layers', NEW i \in layers'[d],
                      NEW j \in DependencyIdx(manifests, i)
               PROVE  \E e \in 1..(d - 1) : j \in layers'[e]
    BY <1>1 DEF LayersRespectDependsOn
  <2>1. CASE d = n + 1
    <3>1. j \in Placed
      BY <1>2, <1>3, <2>1
    <3>2. PICK e \in DOMAIN layers : j \in layers[e]
      BY <3>1 DEF Placed
    <3> QED BY <1>1, <1>3, <2>1, <3>2
  <2>2. CASE d \in DOMAIN layers
    <3>1. PICK e \in 1..(d - 1) : j \in layers[e]
      BY <1>3, <2>2 DEF OrderIInv, LayersRespectDependsOn
    <3>2. e \in DOMAIN layers
      BY <1>1, <2>2
    <3> QED BY <1>3, <3>1, <3>2
  <2> QED BY <1>3, <2>1, <2>2
<1>8. LayersDisjoint'
  <2>1. \A d \in DOMAIN layers : layers[d] \cap Ready = {}
    BY <1>2 DEF Placed
  <2> QED BY <1>3, <2>1 DEF OrderIInv, LayersDisjoint
<1>9. LayersAreEarliest'
  <2> SUFFICES ASSUME HasAnyDependsOn(manifests),
                      NEW d \in DOMAIN layers', d > 1, NEW i \in layers'[d]
               PROVE  DependencyIdx(manifests, i) \cap layers'[d - 1] # {}
    BY <1>1 DEF LayersAreEarliest
  <2>1. CASE d = n + 1
    <3>1. layers # <<>> /\ n \in DOMAIN layers
      BY <1>1, <2>1
    <3>2. DependencyIdx(manifests, i) \cap layers[n] # {}
      BY <1>1, <1>3, <2>1, <3>1 DEF OrderIInv, ReadyJustReleased
    <3> QED BY <1>1, <1>3, <2>1, <3>1, <3>2
  <2>2. CASE d \in DOMAIN layers
    <3>1. d - 1 \in DOMAIN layers
      BY <1>1, <2>2
    <3> QED BY <1>3, <2>2, <3>1 DEF OrderIInv, LayersAreEarliest
  <2> QED BY <1>3, <2>1, <2>2
<1>10. ReadyJustReleased'
  <2> SUFFICES ASSUME NEW i \in Ready'
               PROVE  DependencyIdx(manifests, i) \cap layers'[Len(layers')] # {}
    BY <1>1 DEF ReadyJustReleased
  <2>1. i \in DOMAIN manifests /\ InDegrees(manifests, Placed')[i] = 0
    BY <1>1, <1>4 DEF Ready
  <2>2. i \notin Placed' /\ DependencyIdx(manifests, i) \subseteq Placed'
    BY <1>1, <2>1, ZeroInDegree
  <2>3. i \notin Placed /\ InDegrees(manifests, Placed)[i] # 0
    BY <1>1, <1>3, <2>1, <2>2 DEF OrderIInv, DegreesCount, Ready
  <2>4. PICK j \in DependencyIdx(manifests, i) : j \notin Placed
    BY <1>1, <2>1, <2>3, NonzeroInDegree
  <2> QED BY <1>3, <2>2, <2>4
<1> QED
  BY <1>1, <1>4, <1>5, <1>6, <1>7, <1>8, <1>9, <1>10
  DEF OrderIInv, Phases, DegreesCount, NothingDropped, ResolvesExactlyAcyclic

LEMMA FinishStep == OrderIInv /\ FinishLayering => OrderIInv'
<1> SUFFICES ASSUME OrderIInv, FinishLayering PROVE OrderIInv'
  OBVIOUS
<1>1. /\ manifests \in Seq(Manifest) /\ UNCHANGED <<manifests, inDegree, layers>>
      /\ resolution = "layering" /\ Ready = {} /\ ~BadReference(manifests)
      /\ resolution' = IF Placed = DOMAIN manifests THEN "ok" ELSE "error"
  BY DEF OrderIInv, OrderTypeOK, Phases, FinishLayering
<1>2. OrderTypeOK'
  BY <1>1 DEF OrderIInv, OrderTypeOK
<1>3. Placed' = Placed
  BY <1>1 DEF Placed
<1>4. /\ DeadlocksUntouched' /\ LayersRespectDependsOn' /\ LayersDisjoint'
      /\ LayersAreEarliest'
  BY <1>1, <1>3
  DEF OrderIInv, DeadlocksUntouched, LayersRespectDependsOn, LayersDisjoint, LayersAreEarliest
<1>5. Phases' /\ DegreesCount' /\ ReadyJustReleased' /\ NothingDropped'
  BY <1>1, <1>3 DEF Phases, DegreesCount, ReadyJustReleased, NothingDropped
<1>6. ASSUME Placed = DOMAIN manifests PROVE Resolvable(manifests)
  BY <1>1, <1>6, PlacedMeansAcyclic DEF OrderIInv, DeadlocksUntouched
<1>7. ASSUME Placed # DOMAIN manifests PROVE ~Resolvable(manifests)
  <2>1. Placed \in SUBSET DOMAIN manifests
    BY DEF OrderIInv, OrderTypeOK, Placed
  <2>2. \A i \in DOMAIN manifests : InDegrees(manifests, Placed)[i] # 0
    BY <1>1 DEF OrderIInv, DegreesCount, Ready
  <2> QED BY <1>1, <1>7, <2>1, <2>2, StuckMeansDeadlock
<1>8. ResolvesExactlyAcyclic'
  BY <1>1, <1>6, <1>7 DEF ResolvesExactlyAcyclic
<1> QED BY <1>2, <1>4, <1>5, <1>8 DEF OrderIInv

(* No step of the resolver breaks the inductive invariant. *)
LEMMA OrderStepIInv == OrderIInv /\ [OrderNext]_orderVars => OrderIInv'
<1>1. OrderIInv /\ UNCHANGED orderVars => OrderIInv'
  BY DEF orderVars, OrderIInv, OrderTypeOK, Phases, DegreesCount, DeadlocksUntouched,
         LayersRespectDependsOn, LayersDisjoint, NothingDropped, ResolvesExactlyAcyclic,
         ReadyJustReleased, LayersAreEarliest, Placed, Ready
<1> QED
  BY <1>1, SequentialStep, BuildStep, NextLayerStep, FinishStep
  DEF OrderNext, Resolve, Resolved

(* The inductive invariant holds in every reachable state of the resolver. *)
THEOREM OrderInvariant == OrderSpec => []OrderIInv
<1> QED BY OrderInitIInv, OrderStepIInv, PTL DEF OrderSpec

(* Type correctness of runner.ResolveDependencyOrder. *)
THEOREM OrderTypeCorrect == OrderSpec => []OrderTypeOK
<1>1. OrderIInv => OrderTypeOK
  BY DEF OrderIInv
<1> QED BY <1>1, OrderInvariant, PTL

(* Every manifest is in a later layer than everything it depends on, and   *)
(* in no second layer.                                                     *)
THEOREM LayersCorrect == OrderSpec => [](LayersRespectDependsOn /\ LayersDisjoint)
<1>1. OrderIInv => LayersRespectDependsOn /\ LayersDisjoint
  BY DEF OrderIInv
<1> QED BY <1>1, OrderInvariant, PTL

(* With dependsOn no manifest is in a later layer than its dependencies    *)
(* require: nothing that could run in parallel waits.                      *)
THEOREM LayersEarliest == OrderSpec => []LayersAreEarliest
<1>1. OrderIInv => LayersAreEarliest
  BY DEF OrderIInv
<1> QED BY <1>1, OrderInvariant, PTL

(* Layers are returned exactly for input without a bad reference or cycle, *)
(* and they contain every manifest.                                        *)
THEOREM ResolutionCorrect ==
    OrderSpec => [](ResolvesExactlyAcyclic /\ NothingDropped)
<1>1. OrderIInv => ResolvesExactlyAcyclic /\ NothingDropped
  BY DEF OrderIInv
<1> QED BY <1>1, OrderInvariant, PTL
-----------------------------------------------------------------------------
(***************************************************************************)
(* "tazuna check" accepts exactly the resolvable manifest lists.           *)
(***************************************************************************)

(* The manifests taken out so far. *)
TakenOut == {i \in DOMAIN manifests : degree[i] = -1}

(* While walking, the degrees are those of the manifests taken out, which  *)
(* processed counts, and a pass without progress has met no ready one.     *)
Walking ==
    verdict = "walking" =>
        /\ ~BadReference(manifests)
        /\ degree = InDegrees(manifests, TakenOut)
        /\ processed = Cardinality(TakenOut)
        /\ ~progressed => \A i \in 1..(cursor - 1) : degree[i] # 0
        /\ \A S \in SUBSET DOMAIN manifests :
             Deadlocked(manifests, S) => S \cap TakenOut = {}

Unstarted == verdict = "none" => cursor = 1 /\ ~progressed /\ processed = 0

CheckIInv == CheckTypeOK /\ Walking /\ Unstarted /\ AcceptsExactlyResolvable

-----------------------------------------------------------------------------
(* The set of indices of a list is finite and as large as the list. *)
LEMMA IndicesFinite ==
    ASSUME NEW ms \in Seq(Manifest)
    PROVE  IsFiniteSet(DOMAIN ms) /\ Cardinality(DOMAIN ms) = Len(ms)
<1>1. DOMAIN ms = 1..Len(ms) /\ Len(ms) \in Nat
  OBVIOUS
<1>2. ASSUME NEW n \in Nat PROVE IsFiniteSet(1..n) /\ Cardinality(1..n) = n
  BY FS_Interval
<1> QED BY <1>1, <1>2

(* A manifest has degree -1 exactly when it was taken out. *)
LEMMA MinusOneIsPlaced ==
    ASSUME NEW ms \in Seq(Manifest), NEW placed \in SUBSET DOMAIN ms
    PROVE  {i \in DOMAIN ms : InDegrees(ms, placed)[i] = -1} = placed
<1>1. \A i \in DOMAIN ms : WaitingFor(ms, i, placed) \in SUBSET DOMAIN ms[i].dependsOn
  BY DEF WaitingFor
<1>2. \A i \in DOMAIN ms : Cardinality(WaitingFor(ms, i, placed)) \in Nat
  BY <1>1, PositionsFinite
<1> QED BY <1>2 DEF InDegrees

LEMMA CheckInitIInv == CheckInit => CheckIInv
<1> SUFFICES ASSUME CheckInit PROVE CheckIInv
  OBVIOUS
<1>1. manifests \in Seq(Manifest) /\ Len(manifests) \in Nat
  BY InputsAssumption DEF CheckInit
<1>2. cursor \in 1..(Len(manifests) + 1) /\ processed \in 0..Len(manifests)
  BY <1>1 DEF CheckInit
<1> QED
  BY <1>1, <1>2, Zenon DEF CheckInit, CheckIInv, CheckTypeOK, Walking, Unstarted, AcceptsExactlyResolvable

LEMMA ReferencesStep == CheckIInv /\ CheckReferences => CheckIInv'
<1> SUFFICES ASSUME CheckIInv, CheckReferences PROVE CheckIInv'
  OBVIOUS
<1>1. /\ manifests \in Seq(Manifest) /\ verdict = "none"
      /\ UNCHANGED <<manifests, cursor, progressed, processed>>
      /\ cursor = 1 /\ ~progressed /\ processed = 0
  BY DEF CheckIInv, CheckTypeOK, Unstarted, CheckReferences
<1>2. CASE manifests = <<>>
  <2>1. verdict' = "accept" /\ degree' = degree
    BY <1>2 DEF CheckReferences
  <2>2. Resolvable(manifests)
    <3>1. ~HasAnyDependsOn(manifests)
      BY <1>2 DEF HasAnyDependsOn
    <3> QED BY <1>1, <3>1, NoDependencies
  <2> QED
    BY <1>1, <2>1, <2>2
    DEF CheckIInv, CheckTypeOK, Walking, Unstarted, AcceptsExactlyResolvable
<1>3. CASE manifests # <<>> /\ BadReference(manifests)
  <2>1. verdict' = "reject" /\ degree' = degree
    BY <1>3 DEF CheckReferences
  <2> QED
    BY <1>1, <1>3, <2>1
    DEF CheckIInv, CheckTypeOK, Walking, Unstarted, AcceptsExactlyResolvable, Resolvable
<1>4. CASE manifests # <<>> /\ ~BadReference(manifests)
  <2>1. verdict' = "walking" /\ degree' = InDegrees(manifests, {})
    BY <1>1, <1>4, InitialInDegrees DEF CheckReferences
  <2>2. TakenOut' = {}
    BY <1>1, <2>1, MinusOneIsPlaced DEF TakenOut
  <2>3. CheckTypeOK'
    BY <1>1, <2>1, InDegreesType DEF CheckIInv, CheckTypeOK
  <2>4. Walking'
    BY <1>1, <1>4, <2>1, <2>2, FS_EmptySet DEF Walking
  <2> QED
    BY <1>1, <2>1, <2>3, <2>4 DEF CheckIInv, Unstarted, AcceptsExactlyResolvable
<1> QED BY <1>2, <1>3, <1>4

LEMMA VisitStep == CheckIInv /\ Visit => CheckIInv'
<1> SUFFICES ASSUME CheckIInv, Visit PROVE CheckIInv'
  OBVIOUS
<1>1. /\ manifests \in Seq(Manifest) /\ manifests' = manifests
      /\ Len(manifests) \in Nat /\ DOMAIN manifests = 1..Len(manifests)
      /\ verdict = "walking" /\ verdict' = "walking"
      /\ cursor \in DOMAIN manifests /\ cursor' = cursor + 1
      /\ TakenOut \in SUBSET DOMAIN manifests
  BY DEF CheckIInv, CheckTypeOK, Visit, TakenOut
<1>2. /\ ~BadReference(manifests)
      /\ degree = InDegrees(manifests, TakenOut)
      /\ processed = Cardinality(TakenOut)
      /\ ~progressed => \A i \in 1..(cursor - 1) : degree[i] # 0
      /\ \A S \in SUBSET DOMAIN manifests :
           Deadlocked(manifests, S) => S \cap TakenOut = {}
  BY <1>1 DEF CheckIInv, Walking
<1>3. CASE degree[cursor] = 0
  <2>1. /\ degree' = Release(manifests, degree, {cursor})
        /\ processed' = processed + 1 /\ progressed' = TRUE
    BY <1>3 DEF Visit
  <2>2. degree' = InDegrees(manifests, TakenOut \cup {cursor})
    BY <1>1, <1>2, <1>3, <2>1, ReleaseInDegrees
  <2>3. TakenOut' = TakenOut \cup {cursor}
    BY <1>1, <2>2, MinusOneIsPlaced DEF TakenOut
  <2>4. cursor \notin TakenOut
    BY <1>1, <1>2, <1>3, ZeroInDegree
  <2>5. IsFiniteSet(TakenOut) /\ IsFiniteSet(TakenOut')
    BY <1>1, <2>3, IndicesFinite, FS_Subset
  <2>6. processed' = Cardinality(TakenOut')
    BY <1>2, <2>1, <2>3, <2>4, <2>5, FS_AddElement
  <2>7. processed' \in 0..Len(manifests)
    <3>1. Cardinality(TakenOut') \in Nat
      BY <2>5, FS_CardinalityType
    <3>2. TakenOut' \in SUBSET DOMAIN manifests
      BY <1>1, <2>3
    <3>3. Cardinality(TakenOut') <= Len(manifests)
      BY <1>1, <3>2, IndicesFinite, FS_Subset
    <3> QED BY <1>1, <2>6, <3>1, <3>3
  <2>8. \A S \in SUBSET DOMAIN manifests :
           Deadlocked(manifests, S) => S \cap TakenOut' = {}
    <3>1. /\ {cursor} \in SUBSET DOMAIN manifests
          /\ \A i \in {cursor} : InDegrees(manifests, TakenOut)[i] = 0
      BY <1>1, <1>2, <1>3
    <3> QED BY <1>1, <1>2, <2>3, <3>1, DeadlocksStayUnplaced
  <2>9. degree' \in [DOMAIN manifests -> Int]
    BY <1>1, <2>2, InDegreesType
  <2>10. CheckTypeOK'
    <3>1. cursor' \in 1..(Len(manifests) + 1)
      BY <1>1
    <3> QED BY <1>1, <2>1, <2>7, <2>9, <3>1, Zenon DEF CheckTypeOK
  <2>11. Walking'
    BY <1>1, <1>2, <2>1, <2>2, <2>3, <2>6, <2>8 DEF Walking
  <2> QED
    BY <1>1, <2>10, <2>11 DEF CheckIInv, Unstarted, AcceptsExactlyResolvable
<1>4. CASE degree[cursor] # 0
  <2>1. UNCHANGED <<degree, processed, progressed>>
    BY <1>4 DEF Visit
  <2>2. TakenOut' = TakenOut
    BY <1>1, <2>1 DEF TakenOut
  <2>3. ~progressed => \A i \in 1..(cursor' - 1) : degree[i] # 0
    BY <1>1, <1>2, <1>4
  <2>4. CheckTypeOK'
    BY <1>1, <2>1 DEF CheckIInv, CheckTypeOK
  <2>5. Walking'
    BY <1>1, <1>2, <2>1, <2>2, <2>3 DEF Walking
  <2> QED
    BY <1>1, <2>4, <2>5 DEF CheckIInv, Unstarted, AcceptsExactlyResolvable
<1> QED BY <1>3, <1>4

LEMMA EndPassStep == CheckIInv /\ EndPass => CheckIInv'
<1> SUFFICES ASSUME CheckIInv, EndPass PROVE CheckIInv'
  OBVIOUS
<1>1. /\ manifests \in Seq(Manifest) /\ UNCHANGED <<manifests, degree, processed>>
      /\ Len(manifests) \in Nat /\ DOMAIN manifests = 1..Len(manifests)
      /\ verdict = "walking" /\ cursor = Len(manifests) + 1
      /\ TakenOut \in SUBSET DOMAIN manifests /\ TakenOut' = TakenOut
      /\ processed \in 0..Len(manifests) /\ progressed \in BOOLEAN
  BY DEF CheckIInv, CheckTypeOK, EndPass, TakenOut
<1>2. /\ ~BadReference(manifests)
      /\ degree = InDegrees(manifests, TakenOut)
      /\ processed = Cardinality(TakenOut)
      /\ ~progressed => \A i \in 1..(cursor - 1) : degree[i] # 0
      /\ \A S \in SUBSET DOMAIN manifests :
           Deadlocked(manifests, S) => S \cap TakenOut = {}
  BY <1>1 DEF CheckIInv, Walking
<1>3. CASE progressed /\ processed < Len(manifests)
  <2>1. cursor' = 1 /\ progressed' = FALSE /\ verdict' = "walking"
    BY <1>1, <1>3 DEF EndPass
  <2>2. CheckTypeOK'
    <3>1. cursor' \in 1..(Len(manifests) + 1)
      BY <1>1, <2>1
    <3> QED BY <1>1, <2>1, <3>1, Zenon DEF CheckIInv, CheckTypeOK
  <2>3. Walking'
    BY <1>1, <1>2, <2>1 DEF Walking
  <2> QED
    BY <1>1, <2>1, <2>2, <2>3 DEF CheckIInv, Unstarted, AcceptsExactlyResolvable
<1>4. CASE ~(progressed /\ processed < Len(manifests))
  <2>1. /\ UNCHANGED <<cursor, progressed>>
        /\ verdict' = IF processed = Len(manifests) THEN "accept" ELSE "reject"
    BY <1>1, <1>4 DEF EndPass
  <2>2. CheckTypeOK'
    BY <1>1, <2>1 DEF CheckIInv, CheckTypeOK
  <2>3. ASSUME processed = Len(manifests) PROVE Resolvable(manifests)
    <3>1. TakenOut = DOMAIN manifests
      BY <1>1, <1>2, <2>3, IndicesFinite, FS_Subset
    <3> QED BY <1>1, <1>2, <3>1, PlacedMeansAcyclic
  <2>4. ASSUME processed # Len(manifests) PROVE ~Resolvable(manifests)
    <3>1. TakenOut # DOMAIN manifests
      BY <1>1, <1>2, <2>4, IndicesFinite
    <3>2. processed < Len(manifests)
      <4>1. processed \in 0..Len(manifests) /\ Len(manifests) \in Nat
        BY <1>1, Zenon
      <4> DEFINE n == Len(manifests)
      <4> HIDE DEF n
      <4>2. processed \in 0..n /\ n \in Nat /\ processed # n
        BY <2>4, <4>1 DEF n
      <4>3. processed < n
        BY <4>2
      <4> QED BY <4>3 DEF n
    <3>3. ~progressed
      BY <1>4, <3>2, Zenon
    <3>4. \A i \in DOMAIN manifests : InDegrees(manifests, TakenOut)[i] # 0
      BY <1>1, <1>2, <3>3
    <3> QED BY <1>1, <1>2, <3>1, <3>4, StuckMeansDeadlock
  <2> QED
    BY <1>1, <2>1, <2>2, <2>3, <2>4
    DEF CheckIInv, Walking, Unstarted, AcceptsExactlyResolvable
<1> QED BY <1>3, <1>4

(* The inductive invariant of the check. *)
THEOREM CheckInvariant == CheckSpec => []CheckIInv
<1>1. CheckIInv /\ UNCHANGED checkVars => CheckIInv'
  BY DEF checkVars, CheckIInv, CheckTypeOK, Walking, Unstarted, AcceptsExactlyResolvable, TakenOut
<1>2. CheckIInv /\ [CheckNext]_checkVars => CheckIInv'
  BY <1>1, ReferencesStep, VisitStep, EndPassStep DEF CheckNext, Check, Checked
<1> QED BY <1>2, CheckInitIInv, PTL DEF CheckSpec

(* "tazuna check" accepts a manifest list exactly when it is resolvable:   *)
(* when the runner finds layers for it (ResolvesExactlyAcyclic).           *)
THEOREM CheckCorrect == CheckSpec => [](CheckTypeOK /\ AcceptsExactlyResolvable)
<1>1. CheckIInv => CheckTypeOK /\ AcceptsExactlyResolvable
  BY DEF CheckIInv
<1> QED BY <1>1, CheckInvariant, PTL
=============================================================================
