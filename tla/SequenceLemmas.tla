--------------------------- MODULE SequenceLemmas ---------------------------
(***************************************************************************)
(* What a recursive function computes for every number and every length,   *)
(* as far as the proofs of the components need it.  Induction is done by   *)
(* taking the least number for which a claim would fail; a recursive       *)
(* function f == CHOOSE g : g = ... is first shown to exist.  The function *)
(* is that of FlattenSeq in the community module SequencesExt.             *)
(***************************************************************************)
EXTENDS Integers, Sequences, SequencesExt, SequenceTheorems, WellFoundedInduction, TLAPS

(* A non-empty set of natural numbers has a least element. *)
LEMMA LeastNatural ==
    ASSUME NEW D \in SUBSET Nat, D # {}
    PROVE  \E x \in D : \A y \in D : x <= y
<1> DEFINE R == {ss \in Nat \X Nat : ss[1] < ss[2]}
<1>1. IsWellFoundedOn(R, Nat)
  BY NatLessThanWellFounded DEF OpToRel
<1>2. PICK x \in D : \A y \in D : ~(<<y, x>> \in R)
  <2> HIDE DEF R
  <2> QED BY <1>1, WFMin
<1>3. \A y \in D : ~(y < x)
  BY <1>2
<1> QED BY <1>3

(* A set that has 0 and, with a number below n, the next one, has 0..n. *)
LEMMA UpTo ==
    ASSUME NEW n \in Nat, NEW D, 0 \in D, \A j \in 0..(n - 1) : j \in D => j + 1 \in D
    PROVE  \A j \in 0..n : j \in D
<1> DEFINE T == {j \in 0..n : j \notin D}
<1> SUFFICES ASSUME T # {} PROVE FALSE
  OBVIOUS
<1>1. T \in SUBSET Nat
  OBVIOUS
<1>2. PICK x \in T : \A y \in T : x <= y
  <2> HIDE DEF T
  <2> QED BY <1>1, LeastNatural
<1>3. x # 0 /\ x - 1 \in 0..(n - 1)
  OBVIOUS
<1>4. x - 1 \notin T
  BY <1>2, <1>3
<1>5. x - 1 \in D
  BY <1>3, <1>4
<1> QED BY <1>3, <1>5

(* A set that has n and, with a positive number up to n, the one before it, *)
(* has 0..n.                                                               *)
LEMMA DownTo ==
    ASSUME NEW n \in Nat, NEW D, n \in D, \A j \in 1..n : j \in D => j - 1 \in D
    PROVE  \A j \in 0..n : j \in D
<1> DEFINE E == {j \in Nat : j <= n => n - j \in D}
<1>1. 0 \in E
  OBVIOUS
<1>2. ASSUME NEW j \in 0..(n - 1), j \in E PROVE j + 1 \in E
  <2>1. n - j \in 1..n /\ n - j - 1 = n - (j + 1) /\ n - j \in D
    BY <1>2
  <2> QED BY <2>1
<1>3. \A j \in 0..n : j \in E
  <2> HIDE DEF E
  <2> QED BY <1>1, <1>2, UpTo
<1> TAKE j \in 0..n
<1>4. n - j \in 0..n /\ n - (n - j) = j
  OBVIOUS
<1>5. n - j \in E
  BY <1>3, <1>4
<1> QED BY <1>4, <1>5

-----------------------------------------------------------------------------
(* f gives the concatenation of the first i of the n members of ss. *)
Concats(n, ss, f) ==
    /\ f[0] = <<>>
    /\ \A i \in 1..n : f[i] = f[i - 1] \o ss[i]

(* The recursive function by which FlattenSeq is defined exists. *)
LEMMA ConcatsExist ==
    ASSUME NEW W, NEW n \in Nat, NEW ss \in [1..n -> W],
           <<>> \in W, \A a, b \in W : a \o b \in W
    PROVE  \E f \in [0..n -> W] : Concats(n, ss, f)
<1> DEFINE Cat(a, b) == a \o b
           Upto(g, j) == g[0] = <<>> /\ \A i \in 1..j : g[i] = Cat(g[i - 1], ss[i])
           D == {j \in 0..n : \E g \in [0..n -> W] : Upto(g, j)}
<1>0. \A a, b \in W : Cat(a, b) \in W
  OBVIOUS
<1> HIDE DEF Cat
<1>1. 0 \in D
  <2> DEFINE g == [j \in 0..n |-> <<>>]
  <2>1. g \in [0..n -> W] /\ Upto(g, 0)
    OBVIOUS
  <2> HIDE DEF g, Upto
  <2> QED BY <2>1
<1>2. ASSUME NEW j \in 0..(n - 1), j \in D PROVE j + 1 \in D
  <2>1. PICK g \in [0..n -> W] : Upto(g, j)
    BY <1>2
  <2>2. j \in 0..n /\ j + 1 \in 1..n /\ Cat(g[j], ss[j + 1]) \in W
    BY <1>0
  <2> DEFINE h == [g EXCEPT ![j + 1] = Cat(g[j], ss[j + 1])]
  <2>3. h \in [0..n -> W]
    BY <2>2
  <2>4. Upto(h, j + 1)
    BY <2>1, <2>2
  <2> HIDE DEF h, Upto
  <2> QED BY <2>2, <2>3, <2>4
<1>3. n \in D
  <2> HIDE DEF D
  <2>1. \A j \in 0..n : j \in D
    BY <1>1, <1>2, UpTo
  <2> QED BY <2>1
<1>4. PICK f \in [0..n -> W] : Upto(f, n)
  BY <1>3
<1> QED BY <1>4 DEF Cat, Concats

(* FlattenSeq is the last of these concatenations. *)
LEMMA FlattenConcats ==
    ASSUME NEW S, NEW ss \in Seq(Seq(S))
    PROVE  \E f \in [0..Len(ss) -> Seq(S)] :
              Concats(Len(ss), ss, f) /\ FlattenSeq(ss) = f[Len(ss)]
<1> DEFINE W == Seq(S)
           n == Len(ss)
           Body(g) == [i \in 1..n |-> IF i = 1 THEN ss[i] ELSE g[i - 1] \o ss[i]]
           c == CHOOSE g : g = Body(g)
<1>1. n \in Nat /\ ss \in [1..n -> W] /\ DOMAIN ss = 1..n
  <2> HIDE DEF W
  <2>1. ss \in Seq(W)
    BY DEF W
  <2> QED BY <2>1, LenProperties
<1>2. <<>> \in W /\ (\A a, b \in W : a \o b \in W) /\ \A a \in W : <<>> \o a = a
  BY EmptySeq, ConcatProperties, ConcatEmptySeq
<1>3. FlattenSeq(ss) = IF n = 0 THEN ss ELSE c[n]
  BY Zenon DEF FlattenSeq
<1>4. n = 0 => ss = <<>>
  BY <1>1
<1> HIDE DEF W, n
<1>5. PICK f \in [0..n -> W] : Concats(n, ss, f)
  BY <1>1, <1>2, ConcatsExist
<1>6. \A i \in 1..n : f[i] = IF i = 1 THEN ss[i] ELSE f[i - 1] \o ss[i]
  <2> TAKE i \in 1..n
  <2>1. f[i] = f[i - 1] \o ss[i] /\ f[0] = <<>> /\ ss[i] \in W
    BY <1>1, <1>5 DEF Concats
  <2>2. i = 1 => f[i] = <<>> \o ss[i]
    <3>1. i = 1 => i - 1 = 0
      OBVIOUS
    <3> QED BY <2>1, <3>1, Zenon
  <2> QED BY <1>2, <2>1, <2>2
<1>7. c = Body(c)
  <2> DEFINE g == [i \in 1..n |-> f[i]]
  <2>1. \A i \in 1..n : g[i] = f[i]
    OBVIOUS
  <2>2. \A i \in 1..n : f[i] = IF i = 1 THEN ss[i] ELSE g[i - 1] \o ss[i]
    <3> HIDE DEF g
    <3> TAKE i \in 1..n
    <3>1. i # 1 => i - 1 \in 1..n
      BY <1>1
    <3> QED BY <1>6, <2>1, <3>1
  <2>3. g = Body(g)
    <3> DEFINE e(i) == IF i = 1 THEN ss[i] ELSE g[i - 1] \o ss[i]
    <3>1. \A i \in 1..n : f[i] = e(i)
      BY <2>2
    <3> HIDE DEF e
    <3>2. [i \in 1..n |-> f[i]] = [i \in 1..n |-> e(i)]
      BY <3>1
    <3> QED BY <3>2 DEF e
  <2> HIDE DEF g, Body
  <2> QED BY <2>3
<1>8. \A i \in 1..n : c[i] = IF i = 1 THEN ss[i] ELSE c[i - 1] \o ss[i]
  <2> HIDE DEF c
  <2> QED BY <1>7
<1> HIDE DEF c
<1>9. \A j \in 0..n : j \in {i \in 0..n : i = 0 \/ c[i] = f[i]}
  <2> DEFINE E == {i \in 0..n : i = 0 \/ c[i] = f[i]}
  <2>1. 0 \in E
    BY <1>1
  <2>2. ASSUME NEW j \in 0..(n - 1), j \in E PROVE j + 1 \in E
    <3>1. j + 1 \in 1..n /\ j + 1 \in 0..n /\ j + 1 - 1 = j /\ (j + 1 = 1 <=> j = 0)
      BY <1>1
    <3>2. c[j + 1] = f[j + 1]
      BY <1>6, <1>8, <2>2, <3>1
    <3> QED BY <3>1, <3>2
  <2> HIDE DEF E
  <2>3. \A j \in 0..n : j \in E
    BY <1>1, <2>1, <2>2, UpTo
  <2> QED BY <2>3 DEF E
<1>10. FlattenSeq(ss) = f[n]
  <2>1. CASE n = 0
    BY <1>3, <1>4, <1>5, <2>1 DEF Concats
  <2>2. CASE n # 0
    BY <1>1, <1>3, <1>9, <2>2
  <2> QED BY <2>1, <2>2
<1> QED BY <1>5, <1>10 DEF W, n

(* Where the members of ss are in their concatenation f[n]. *)
Placed(n, ss, f) ==
    /\ Len(f[0]) = 0
    /\ \A i \in 0..n :
         /\ Len(f[i]) \in Nat
         /\ Len(f[i]) <= Len(f[n])
         /\ \A p \in 1..Len(f[i]) : f[n][p] = f[i][p]
    /\ \A i \in 1..n :
         /\ Len(f[i]) = Len(f[i - 1]) + Len(ss[i])
         /\ \A p \in 1..Len(ss[i]) : f[n][Len(f[i - 1]) + p] = ss[i][p]

(* The concatenations of the members begin one another.                    *)
LEMMA ConcatsPlaces ==
    ASSUME NEW S, NEW n \in Nat, NEW ss \in [1..n -> Seq(S)],
           NEW f \in [0..n -> Seq(S)], Concats(n, ss, f)
    PROVE  Placed(n, ss, f)
<1> DEFINE L(i) == Len(f[i])
           D == {i \in 0..n : L(i) <= L(n) /\ \A p \in 1..L(i) : f[n][p] = f[i][p]}
<1>1. \A i \in 0..n : L(i) \in Nat
  OBVIOUS
<1>2. ASSUME NEW i \in 1..n
      PROVE  /\ i - 1 \in 0..n /\ i \in 0..n
             /\ Len(ss[i]) \in Nat
             /\ L(i) = L(i - 1) + Len(ss[i])
             /\ \A p \in 1..L(i - 1) : f[i][p] = f[i - 1][p]
             /\ \A p \in 1..Len(ss[i]) : f[i][L(i - 1) + p] = ss[i][p]
  <2>1. i - 1 \in 0..n /\ i \in 0..n
    OBVIOUS
  <2>2. f[i - 1] \in Seq(S) /\ ss[i] \in Seq(S) /\ f[i] = f[i - 1] \o ss[i]
    BY <2>1 DEF Concats
  <2> DEFINE a == f[i - 1]
             b == ss[i]
             c == f[i]
  <2> HIDE DEF a, b, c
  <2>3. a \in Seq(S) /\ b \in Seq(S) /\ c = a \o b
    BY <2>2 DEF a, b, c
  <2>4. Len(a) \in Nat /\ Len(b) \in Nat /\ Len(c) = Len(a) + Len(b)
    BY <2>3
  <2>5. \A p \in 1..Len(a) : c[p] = a[p]
    BY <2>3, <2>4
  <2>6. \A p \in 1..Len(b) : c[Len(a) + p] = b[p]
    BY <2>3, <2>4
  <2> QED BY <2>1, <2>4, <2>5, <2>6 DEF a, b, c
<1>3. n \in D
  BY <1>1
<1>4. ASSUME NEW i \in 1..n, i \in D PROVE i - 1 \in D
  <2> HIDE DEF L
  <2>1. L(i - 1) <= L(i) /\ L(i) <= L(n)
    BY <1>1, <1>2, <1>4
  <2>2. \A p \in 1..L(i - 1) : f[n][p] = f[i - 1][p]
    BY <1>1, <1>2, <1>4, <2>1
  <2> QED BY <1>1, <1>2, <2>1, <2>2
<1>5. \A i \in 0..n : i \in D
  <2> HIDE DEF D
  <2> QED BY <1>3, <1>4, DownTo
<1>6. ASSUME NEW i \in 1..n PROVE \A p \in 1..Len(ss[i]) : f[n][L(i - 1) + p] = ss[i][p]
  <2> HIDE DEF L
  <2> TAKE p \in 1..Len(ss[i])
  <2>1. L(i - 1) + p \in 1..L(i)
    BY <1>1, <1>2
  <2> QED BY <1>2, <1>5, <2>1
<1>7. L(0) = 0
  BY DEF Concats
<1> QED BY <1>1, <1>2, <1>5, <1>6, <1>7 DEF Placed

(* A concatenation has the members of the sequences concatenated.          *)
LEMMA FlattenMembers ==
    ASSUME NEW S, NEW ss \in Seq(Seq(S))
    PROVE  /\ FlattenSeq(ss) \in Seq(S)
           /\ ToSet(FlattenSeq(ss)) = UNION {ToSet(ss[i]) : i \in DOMAIN ss}
<1> DEFINE n == Len(ss)
           all == FlattenSeq(ss)
<1>1. n \in Nat /\ DOMAIN ss = 1..n /\ ss \in [1..n -> Seq(S)]
  <2> DEFINE W == Seq(S)
  <2>1. ss \in Seq(W)
    OBVIOUS
  <2> HIDE DEF W
  <2>2. n \in Nat /\ DOMAIN ss = 1..n /\ ss \in [1..n -> W]
    BY <2>1, LenProperties
  <2> QED BY <2>2 DEF W
<1> HIDE DEF n
<1>2. PICK f \in [0..n -> Seq(S)] : Concats(n, ss, f) /\ all = f[n]
  BY FlattenConcats DEF n
<1>3. Placed(n, ss, f)
  BY <1>1, <1>2, ConcatsPlaces
<1> HIDE DEF all
<1> DEFINE l(i) == Len(f[i])
           m(i) == Len(ss[i])
<1>4. /\ l(0) = 0
      /\ \A i \in 0..n : l(i) \in Nat /\ l(i) <= l(n)
      /\ \A i \in 1..n : l(i) = l(i - 1) + m(i) /\ \A p \in 1..m(i) : f[n][l(i - 1) + p] = ss[i][p]
  BY <1>3, Zenon DEF Placed
<1>5. all \in Seq(S) /\ DOMAIN all = 1..l(n) /\ \A p \in 1..l(n) : all[p] = f[n][p]
  <2>1. n \in 0..n
    BY <1>1
  <2>2. all \in Seq(S) /\ Len(all) = l(n)
    BY <1>2, <2>1, Zenon
  <2>3. DOMAIN all = 1..Len(all)
    BY <2>2
  <2> QED BY <1>2, <2>2, <2>3, Zenon
<1>6. \A i \in 1..n : m(i) \in Nat /\ DOMAIN ss[i] = 1..m(i)
  <2> TAKE i \in 1..n
  <2> DEFINE s == ss[i]
  <2>1. s \in Seq(S)
    BY <1>1, Zenon
  <2> HIDE DEF s
  <2>2. Len(s) \in Nat /\ DOMAIN s = 1..Len(s)
    BY <2>1, LenProperties
  <2> QED BY <2>2 DEF s
<1> HIDE DEF l, m
<1>7. ASSUME NEW i \in 1..n, NEW p \in 1..m(i) PROVE \E q \in 1..l(n) : all[q] = ss[i][p]
  <2>1. /\ i - 1 \in 0..n /\ i \in 0..n /\ l(i - 1) \in Nat /\ m(i) \in Nat
        /\ l(i) <= l(n) /\ l(i) \in Nat /\ l(n) \in Nat /\ l(i) = l(i - 1) + m(i)
    <3>1. i - 1 \in 0..n /\ i \in 0..n /\ n \in 0..n
      BY <1>1
    <3> QED BY <1>4, <1>6, <3>1, Zenon
  <2>2. l(i - 1) + p \in 1..l(n)
    BY <2>1
  <2>3. all[l(i - 1) + p] = ss[i][p]
    BY <1>4, <1>5, <2>2, Zenon
  <2> QED BY <2>2, <2>3
<1>8. ASSUME NEW q \in 1..l(n) PROVE \E i \in 1..n : \E p \in 1..m(i) : all[q] = ss[i][p]
  <2> DEFINE D == {i \in 0..n : q <= l(i)}
  <2>1. D \in SUBSET Nat /\ n \in D
    BY <1>1, <1>4
  <2>2. PICK i \in D : \A j \in D : i <= j
    <3> HIDE DEF D
    <3> QED BY <2>1, LeastNatural
  <2>3. i \in 0..n /\ q <= l(i)
    OBVIOUS
  <2>4. i # 0
    BY <1>4, <2>3
  <2>5. i \in 1..n /\ i - 1 \in 0..n /\ ~(i <= i - 1)
    BY <1>1, <2>3, <2>4
  <2>6. ~(q <= l(i - 1))
    BY <2>2, <2>5
  <2>7. l(i) = l(i - 1) + m(i) /\ l(i - 1) \in Nat /\ m(i) \in Nat
    BY <1>4, <1>6, <2>5, Zenon
  <2> DEFINE p == q - l(i - 1)
  <2>8. p \in 1..m(i) /\ l(i - 1) + p = q
    <3> DEFINE x == l(i - 1)
               y == l(i)
               z == m(i)
    <3>1. q \in Int /\ x \in Nat /\ z \in Nat /\ y = x + z /\ q <= y /\ ~(q <= x)
      BY <2>3, <2>6, <2>7
    <3> HIDE DEF x, y, z
    <3>2. q - x \in 1..z /\ x + (q - x) = q
      BY <3>1
    <3> QED BY <3>2 DEF x, z
  <2> HIDE DEF p
  <2>9. all[q] = ss[i][p]
    BY <1>4, <1>5, <2>5, <2>8, Zenon
  <2> QED BY <2>5, <2>8, <2>9
<1>9. ToSet(all) = UNION {ToSet(ss[i]) : i \in 1..n}
  <2>1. ToSet(all) = {all[q] : q \in 1..l(n)}
    BY <1>5, Zenon DEF ToSet
  <2>2. \A i \in 1..n : ToSet(ss[i]) = {ss[i][p] : p \in 1..m(i)}
    BY <1>6, Zenon DEF ToSet
  <2> DEFINE I == 1..n
             Q == 1..l(n)
             P(i) == 1..m(i)
             x(q) == all[q]
             y(i, p) == ss[i][p]
  <2>3. (\A i \in I : \A p \in P(i) : \E q \in Q : x(q) = y(i, p))
        /\ \A q \in Q : \E i \in I : \E p \in P(i) : x(q) = y(i, p)
    BY <1>7, <1>8, Zenon
  <2>4. ToSet(all) = {x(q) : q \in Q} /\ \A i \in I : ToSet(ss[i]) = {y(i, p) : p \in P(i)}
    BY <2>1, <2>2, Zenon
  <2> DEFINE T(i) == ToSet(ss[i])
  <2>5. \A i \in I : T(i) = {y(i, p) : p \in P(i)}
    BY <2>4, Zenon
  <2> HIDE DEF I, Q, P, x, y, T
  <2>6. ToSet(all) = UNION {T(i) : i \in I}
    <3>1. ASSUME NEW o \in ToSet(all) PROVE o \in UNION {T(i) : i \in I}
      <4>1. PICK q \in Q : o = x(q)
        BY <2>4
      <4>2. PICK i \in I : \E p \in P(i) : x(q) = y(i, p)
        BY <2>3
      <4>3. o \in T(i)
        BY <2>5, <4>1, <4>2
      <4> QED BY <4>3
    <3>2. ASSUME NEW o \in UNION {T(i) : i \in I} PROVE o \in ToSet(all)
      <4>1. PICK i \in I : o \in T(i)
        OBVIOUS
      <4>2. PICK p \in P(i) : o = y(i, p)
        BY <2>5, <4>1
      <4> QED BY <2>3, <2>4, <4>2
    <3> QED BY <3>1, <3>2
  <2> QED BY <2>6 DEF I, T
<1> QED BY <1>1, <1>5, <1>9 DEF all
=============================================================================
