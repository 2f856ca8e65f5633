----------------------------- MODULE DataProofs -----------------------------
(***************************************************************************)
(* What the proofs of several components need of numbers, finite sets and  *)
(* sequences, and of the operators of the community modules that are       *)
(* recursive functions: a sum over a finite set, the flattening of a       *)
(* sequence, the elements of a set in some order.  The induction theorems  *)
(* of the library take an operator; here induction is stated of a set of   *)
(* numbers or of sets, and proved from the least number of a set.          *)
(***************************************************************************)
EXTENDS Integers, Sequences, FiniteSets, SequencesExt, FiniteSetsExt, FiniteSetTheorems, SequenceTheorems, WellFoundedInduction, TLAPS

-----------------------------------------------------------------------------
(* Numbers, and the sets and sequences made of them. *)

LEMMA LeastNumber ==
  ASSUME NEW T, T \subseteq Nat, T # {}
  PROVE  \E x \in T : \A y \in T : x <= y
<1> DEFINE R == OpToRel(<, Nat)
<1>1. IsWellFoundedOn(R, Nat)  BY NatLessThanWellFounded
<1> HIDE DEF R
<1>2. \E x \in T : \A y \in T : ~ (<<y, x>> \in R)  BY <1>1, WFMin
<1>3. \A x, y \in T : x <= y \/ <<y, x>> \in R  BY DEF R, OpToRel
<1> QED  BY <1>2, <1>3

LEMMA NumberInduction ==
  ASSUME NEW Q, 0 \in Q, \A n \in Nat : n \in Q => n + 1 \in Q
  PROVE  \A n \in Nat : n \in Q
<1> DEFINE T == Nat \ Q
<1> SUFFICES ASSUME T # {} PROVE FALSE  OBVIOUS
<1>1. PICK x \in T : \A y \in T : x <= y
  <2>1. T \subseteq Nat  OBVIOUS
  <2> HIDE DEF T
  <2> QED  BY <2>1, LeastNumber
<1>2. x # 0  BY <1>1
<1>3. x - 1 \in Nat /\ x - 1 \notin T  BY <1>1, <1>2
<1> QED  BY <1>1, <1>3

\* Whatever the empty set has, and keeps when an element is added, has S.
LEMMA SetInduction ==
  ASSUME NEW S, IsFiniteSet(S), NEW Q, {} \in Q,
         \A T \in SUBSET S, x \in S : T \in Q /\ x \notin T => T \cup {x} \in Q
  PROVE  S \in Q
<1> DEFINE N == {n \in Nat : \A T \in SUBSET S : Cardinality(T) = n => T \in Q}
<1>1. 0 \in N
  <2> SUFFICES ASSUME NEW T \in SUBSET S, Cardinality(T) = 0 PROVE T \in Q  OBVIOUS
  <2>1. T = {}  BY FS_Subset, FS_EmptySet
  <2> QED  BY <2>1
<1>2. ASSUME NEW n \in Nat, n \in N PROVE n + 1 \in N
  <2> SUFFICES ASSUME NEW T \in SUBSET S, Cardinality(T) = n + 1 PROVE T \in Q  OBVIOUS
  <2>1. IsFiniteSet(T)  BY FS_Subset
  <2>2. T # {}
    <3>1. Cardinality({}) = 0 /\ Cardinality(T) # 0  BY FS_EmptySet
    <3> QED  BY <3>1
  <2>3. PICK x \in T : TRUE  BY <2>2
  <2>4. Cardinality(T \ {x}) = n
    <3>1. Cardinality(T \ {x}) = Cardinality(T) - 1  BY <2>1, <2>3, FS_RemoveElement
    <3> HIDE DEF N
    <3> QED  BY <3>1
  <2>5. T \ {x} \in Q  BY <1>2, <2>4
  <2>6. T = (T \ {x}) \cup {x} /\ x \notin T \ {x} /\ T \ {x} \in SUBSET S /\ x \in S  BY <2>3
  <2> HIDE DEF N
  <2> QED  BY <2>5, <2>6
<1> HIDE DEF N
<1>3. \A n \in Nat : n \in N  BY <1>1, <1>2, NumberInduction
<1>4. Cardinality(S) \in Nat  BY FS_CardinalityType
<1> QED  BY <1>3, <1>4 DEF N

-----------------------------------------------------------------------------
(* Sums.                                                                   *)

\* s sums f over the finite subsets of S.
Sums(s, f, S) ==
    /\ s \in [SUBSET S -> Nat]
    /\ s[{}] = 0
    /\ \A T \in SUBSET S, x \in S : x \notin T => s[T \cup {x}] = f[x] + s[T]

\* The way the folds of the community modules go through a set.
Picked(T) == CHOOSE x \in T : TRUE
Folds(s, f, S) == s = [T \in SUBSET S |-> IF T = {} THEN 0 ELSE f[Picked(T)] + s[T \ {Picked(T)}]]

LEMMA FoldExists ==
  ASSUME NEW S, IsFiniteSet(S), NEW f \in [S -> Nat]
  PROVE  \E s \in [SUBSET S -> Nat] : Folds(s, f, S)
<1> DEFINE Small(n) == {T \in SUBSET S : Cardinality(T) <= n}
<1> DEFINE Good(s, n) == /\ s \in [SUBSET S -> Nat]
                         /\ \A T \in Small(n) : s[T] = IF T = {} THEN 0 ELSE f[Picked(T)] + s[T \ {Picked(T)}]
<1> DEFINE N == {n \in Nat : \E s : Good(s, n)}
<1>1. 0 \in N
  <2> DEFINE s == [T \in SUBSET S |-> 0]
  <2>1. \A T \in Small(0) : T = {}  BY FS_Subset, FS_EmptySet, FS_CardinalityType
  <2>2. Good(s, 0)  BY <2>1
  <2> QED  BY <2>2
<1>2. ASSUME NEW n \in Nat, n \in N PROVE n + 1 \in N
  <2>1. PICK s : Good(s, n)  BY <1>2
  <2> DEFINE r == [T \in SUBSET S |-> IF T \in Small(n) THEN s[T]
                                      ELSE f[Picked(T)] + s[T \ {Picked(T)}]]
  <2>2. ASSUME NEW T \in SUBSET S, T # {} PROVE Picked(T) \in T  BY <2>2 DEF Picked
  <2>3. ASSUME NEW T \in SUBSET S, T # {}
        PROVE  /\ IsFiniteSet(T) /\ Cardinality(T) \in Nat
               /\ T \ {Picked(T)} \in SUBSET S /\ Cardinality(T \ {Picked(T)}) = Cardinality(T) - 1
    BY <2>2, <2>3, FS_Subset, FS_RemoveElement, FS_CardinalityType
  <2>4. \A T \in SUBSET S : T \notin Small(n) => T # {}  BY FS_EmptySet
  <2>5. r \in [SUBSET S -> Nat]
    <3> SUFFICES ASSUME NEW T \in SUBSET S
                 PROVE  (IF T \in Small(n) THEN s[T] ELSE f[Picked(T)] + s[T \ {Picked(T)}]) \in Nat
      OBVIOUS
    <3>1. CASE T \in Small(n)  BY <2>1, <3>1
    <3>2. CASE T \notin Small(n)
      <4>1. T # {} /\ Picked(T) \in S /\ T \ {Picked(T)} \in SUBSET S  BY <2>2, <2>4, <3>2
      <4>2. f[Picked(T)] \in Nat /\ s[T \ {Picked(T)}] \in Nat  BY <2>1, <4>1
      <4> QED  BY <3>2, <4>2
    <3> QED  BY <3>1, <3>2
  <2>6. ASSUME NEW T \in Small(n + 1)
        PROVE  r[T] = IF T = {} THEN 0 ELSE f[Picked(T)] + r[T \ {Picked(T)}]
    <3>1. CASE T = {}
      <4>1. T \in Small(n)  BY <3>1, FS_EmptySet
      <4> QED  BY <2>1, <3>1, <4>1
    <3>2. CASE T # {}
      <4>1. T \ {Picked(T)} \in Small(n)
        <5>1. T \in SUBSET S /\ Cardinality(T) <= n + 1  OBVIOUS
        <5>2. /\ Cardinality(T) \in Nat /\ T \ {Picked(T)} \in SUBSET S
              /\ Cardinality(T \ {Picked(T)}) = Cardinality(T) - 1
          BY <2>3, <3>2, <5>1
        <5> HIDE DEF r, Good
        <5> QED  BY <5>1, <5>2
      <4>2. r[T \ {Picked(T)}] = s[T \ {Picked(T)}]  BY <4>1
      <4>3. r[T] = f[Picked(T)] + s[T \ {Picked(T)}]  BY <2>1, <3>2
      <4> QED  BY <3>2, <4>2, <4>3
    <3> QED  BY <3>1, <3>2
  <2>7. Good(r, n + 1)  BY <2>5, <2>6
  <2> HIDE DEF r, Good
  <2> QED  BY <2>7
<1>3. Cardinality(S) \in N
  <2> HIDE DEF N
  <2>1. \A n \in Nat : n \in N  BY <1>1, <1>2, NumberInduction
  <2> QED  BY <2>1, FS_CardinalityType
<1>4. PICK s : Good(s, Cardinality(S))  BY <1>3
<1>5. \A T \in SUBSET S : T \in Small(Cardinality(S))  BY FS_Subset
<1> QED  BY <1>4, <1>5 DEF Folds

\* It does not matter in which order.
LEMMA FoldsSum ==
  ASSUME NEW S, IsFiniteSet(S), NEW f \in [S -> Nat], NEW s \in [SUBSET S -> Nat], Folds(s, f, S)
  PROVE  Sums(s, f, S)
<1>1. s[{}] = 0  BY DEF Folds
<1>2. ASSUME NEW T \in SUBSET S, T # {}
      PROVE  Picked(T) \in T /\ s[T] = f[Picked(T)] + s[T \ {Picked(T)}]
  BY <1>2 DEF Folds, Picked
<1> DEFINE N == {n \in Nat : \A T \in SUBSET S : Cardinality(T) = n =>
                                \A x \in T : s[T] = f[x] + s[T \ {x}]}
<1>3. 0 \in N
  <2> SUFFICES ASSUME NEW T \in SUBSET S, Cardinality(T) = 0 PROVE T = {}  OBVIOUS
  <2> QED  BY FS_Subset, FS_EmptySet
<1>4. ASSUME NEW n \in Nat, n \in N PROVE n + 1 \in N
  <2> SUFFICES ASSUME NEW T \in SUBSET S, Cardinality(T) = n + 1, NEW x \in T PROVE s[T] = f[x] + s[T \ {x}]
    OBVIOUS
  <2> DEFINE p == Picked(T)
  <2>1. p \in T /\ s[T] = f[p] + s[T \ {p}]  BY <1>2
  <2> HIDE DEF p
  <2>2. CASE x = p  BY <2>1, <2>2
  <2>3. CASE x # p
    <3> HIDE DEF N
    <3>a. IsFiniteSet(T)  BY FS_Subset
    <3>e. \A y \in T : Cardinality(T \ {y}) = Cardinality(T) - 1  BY <3>a, FS_RemoveElement
    <3>f. Cardinality(T) - 1 = n  OBVIOUS
    <3>b. Cardinality(T \ {p}) = n  BY <2>1, <3>e, <3>f
    <3>c. Cardinality(T \ {x}) = n  BY <3>e, <3>f
    <3>1. Cardinality(T \ {p}) = n /\ Cardinality(T \ {x}) = n  BY <3>b, <3>c
    <3>d. T \ {p} \in SUBSET S /\ T \ {x} \in SUBSET S /\ x \in T \ {p} /\ p \in T \ {x}  BY <2>1, <2>3
    <3> USE DEF N
    <3>2. s[T \ {p}] = f[x] + s[(T \ {p}) \ {x}]  BY <1>4, <3>1, <3>d
    <3>3. s[T \ {x}] = f[p] + s[(T \ {x}) \ {p}]  BY <1>4, <3>1, <3>d
    <3>4. (T \ {p}) \ {x} = (T \ {x}) \ {p}  OBVIOUS
    <3>5. f[x] \in Nat /\ f[p] \in Nat /\ s[(T \ {x}) \ {p}] \in Nat  BY <2>1
    <3> HIDE DEF N
    <3> DEFINE a == s[(T \ {x}) \ {p}]
    <3>6. s[T] = f[p] + (f[x] + a) /\ s[T \ {x}] = f[p] + a /\ a \in Nat  BY <2>1, <3>2, <3>3, <3>4, <3>5
    <3> HIDE DEF a
    <3> QED  BY <3>5, <3>6
  <2> QED  BY <2>2, <2>3
<1> HIDE DEF N
<1>5. \A n \in Nat : n \in N  BY <1>3, <1>4, NumberInduction
<1>6. ASSUME NEW T \in SUBSET S, NEW x \in S, x \notin T
      PROVE  s[T \cup {x}] = f[x] + s[T]
  <2>1. T \cup {x} \in SUBSET S /\ (T \cup {x}) \ {x} = T  BY <1>6
  <2>2. Cardinality(T \cup {x}) \in Nat  BY <2>1, FS_Subset, FS_CardinalityType
  <2>3. Cardinality(T \cup {x}) \in N  BY <1>5, <2>2
  <2> QED  BY <2>1, <2>3 DEF N
<1> QED  BY <1>1, <1>6 DEF Sums

LEMMA FoldsAgree ==
  ASSUME NEW S, IsFiniteSet(S), NEW f \in [S -> Nat], NEW s \in [SUBSET S -> Nat], NEW h, Folds(s, f, S), Folds(h, f, S)
  PROVE  h = s
<1>1. /\ DOMAIN h = SUBSET S
      /\ \A T \in SUBSET S : h[T] = IF T = {} THEN 0 ELSE f[Picked(T)] + h[T \ {Picked(T)}]
      /\ \A T \in SUBSET S : s[T] = IF T = {} THEN 0 ELSE f[Picked(T)] + s[T \ {Picked(T)}]
      /\ h = [T \in SUBSET S |-> h[T]]
  BY DEF Folds
<1> DEFINE N == {n \in Nat : \A T \in SUBSET S : Cardinality(T) = n => h[T] = s[T]}
<1>2. \A T \in SUBSET S : IsFiniteSet(T) /\ Cardinality(T) \in Nat /\ (Cardinality(T) = 0 <=> T = {})
  BY FS_Subset, FS_CardinalityType, FS_EmptySet
<1>3. 0 \in N  BY <1>1, <1>2
<1>4. ASSUME NEW n \in Nat, n \in N PROVE n + 1 \in N
  <2> SUFFICES ASSUME NEW T \in SUBSET S, Cardinality(T) = n + 1 PROVE h[T] = s[T]  OBVIOUS
  <2>1. T # {}  BY <1>2
  <2>2. Picked(T) \in T  BY <2>1 DEF Picked
  <2> DEFINE e == Picked(T)
  <2>3. T \ {e} \in SUBSET S /\ Cardinality(T \ {e}) = n
    <3>1. IsFiniteSet(T) /\ e \in T  BY <1>2, <2>2
    <3> HIDE DEF e
    <3>2. Cardinality(T \ {e}) = Cardinality(T) - 1  BY <3>1, FS_RemoveElement
    <3> QED  BY <3>2
  <2> QED  BY <1>1, <1>4, <2>1, <2>3
<1> HIDE DEF N
<1>5. \A n \in Nat : n \in N  BY <1>3, <1>4, NumberInduction
<1>6. \A T \in SUBSET S : h[T] = s[T]  BY <1>2, <1>5 DEF N
<1> QED  BY <1>1, <1>6

\* A sum is at least each of its terms.
LEMMA PartOfSum ==
  ASSUME NEW S, NEW f \in [S -> Nat], NEW s, Sums(s, f, S), NEW x \in S
  PROVE  s[S] \in Nat /\ f[x] <= s[S]
<1>1. S \ {x} \in SUBSET S /\ x \notin S \ {x} /\ (S \ {x}) \cup {x} = S  OBVIOUS
<1>2. s[S] = f[x] + s[S \ {x}] /\ s[S \ {x}] \in Nat  BY <1>1 DEF Sums
<1> QED  BY <1>2

-----------------------------------------------------------------------------
(* Flattening.                                                             *)

\* Where the elements of f, which is made of the first m sequences of s, come from.
Precedes(a, b) == a[1] < b[1] \/ (a[1] = b[1] /\ a[2] < b[2])
PlacesIn(place, f, s, m) ==
    /\ place \in [1 .. Len(f) -> Nat \X Nat]
    /\ \A p \in 1 .. Len(f) : /\ place[p][1] \in 1 .. m
                              /\ place[p][2] \in 1 .. Len(s[place[p][1]])
                              /\ f[p] = s[place[p][1]][place[p][2]]
    /\ \A p, q \in 1 .. Len(f) : p < q => Precedes(place[p], place[q])
    /\ \A j \in 1 .. m : \A k \in 1 .. Len(s[j]) : \E p \in 1 .. Len(f) : place[p] = <<j, k>>

Flattens(f, s) == f = [i \in 1 .. Len(s) |-> IF i = 1 THEN s[i] ELSE f[i - 1] \o s[i]]

LEMMA FlattenExists ==
  ASSUME NEW A, NEW s \in Seq(Seq(A)), s # <<>>
  PROVE  \E f \in [1 .. Len(s) -> Seq(A)] : Flattens(f, s)
<1> DEFINE n == Len(s)
<1> DEFINE Good(f, m) == /\ f \in [1 .. n -> Seq(A)]
                         /\ \A i \in 1 .. n : i <= m => f[i] = IF i = 1 THEN s[i] ELSE f[i - 1] \o s[i]
<1> DEFINE N == {m \in Nat : \E f : Good(f, m)}
<1>0. n \in Nat /\ \A i \in 1 .. n : s[i] \in Seq(A)  OBVIOUS
<1> HIDE DEF n
<1>1. 0 \in N
  <2> DEFINE f == [i \in 1 .. n |-> s[i]]
  <2>1. Good(f, 0)  BY <1>0
  <2> QED  BY <2>1
<1>2. ASSUME NEW m \in Nat, m \in N PROVE m + 1 \in N
  <2>1. PICK f : Good(f, m)  BY <1>2
  <2> DEFINE g == [i \in 1 .. n |-> IF i <= m THEN f[i] ELSE IF i = 1 THEN s[i] ELSE f[i - 1] \o s[i]]
  <2>2. g \in [1 .. n -> Seq(A)]
    <3> SUFFICES ASSUME NEW i \in 1 .. n
                 PROVE  (IF i <= m THEN f[i] ELSE IF i = 1 THEN s[i] ELSE f[i - 1] \o s[i]) \in Seq(A)
      OBVIOUS
    <3>1. f[i] \in Seq(A) /\ s[i] \in Seq(A)  BY <1>0, <2>1
    <3>2. i # 1 => f[i - 1] \in Seq(A)  BY <1>0, <2>1
    <3>3. i # 1 => f[i - 1] \o s[i] \in Seq(A)  BY <3>1, <3>2
    <3> QED  BY <3>1, <3>3
  <2>3. ASSUME NEW i \in 1 .. n, i <= m + 1
        PROVE  g[i] = IF i = 1 THEN s[i] ELSE g[i - 1] \o s[i]
    <3>1. i # 1 => i - 1 \in 1 .. n /\ i - 1 <= m  BY <1>0, <2>3
    <3>2. i # 1 => g[i - 1] = f[i - 1]  BY <3>1
    <3>3. i <= m => f[i] = IF i = 1 THEN s[i] ELSE f[i - 1] \o s[i]  BY <2>1
    <3>4. g[i] = IF i = 1 THEN s[i] ELSE f[i - 1] \o s[i]  BY <3>3
    <3> QED  BY <3>2, <3>4
  <2>4. Good(g, m + 1)  BY <2>2, <2>3
  <2> HIDE DEF g, Good
  <2> QED  BY <2>4
<1> HIDE DEF N
<1>3. \A m \in Nat : m \in N  BY <1>1, <1>2, NumberInduction
<1>4. PICK f : Good(f, n)  BY <1>0, <1>3 DEF N
<1>5. f = [i \in 1 .. n |-> IF i = 1 THEN s[i] ELSE f[i - 1] \o s[i]]
  <2>1. \A i \in 1 .. n : f[i] = IF i = 1 THEN s[i] ELSE f[i - 1] \o s[i]
    <3>1. \A i \in 1 .. n : i <= n  BY <1>0
    <3> QED  BY <1>4, <3>1
  <2>2. f = [i \in 1 .. n |-> f[i]]  BY <1>4
  <2> QED  BY <2>1, <2>2
<1> QED  BY <1>4, <1>5 DEF Flattens, n

LEMMA FlattenIs ==
  ASSUME NEW A, NEW s \in Seq(Seq(A)), s # <<>>
  PROVE  \E f \in [1 .. Len(s) -> Seq(A)] : Flattens(f, s) /\ FlattenSeq(s) = f[Len(s)]
<1> DEFINE P(f) == Flattens(f, s)
<1>1. PICK g \in [1 .. Len(s) -> Seq(A)] : P(g)  BY FlattenExists
<1>2. P(CHOOSE f : P(f))
  <2> HIDE DEF P
  <2> QED  BY <1>1
<1> DEFINE h == CHOOSE f : P(f)
<1>3. FlattenSeq(s) = h[Len(s)]  BY DEF FlattenSeq, Flattens
<1>4. h = g
  <2>1. Len(s) \in Nat  OBVIOUS
  <2>0. Flattens(h, s)  BY <1>2
  <2> HIDE DEF h
  <2>2. \A i \in 1 .. Len(s) : g[i] = IF i = 1 THEN s[i] ELSE g[i - 1] \o s[i]  BY <1>1 DEF Flattens
  <2>3. \A i \in 1 .. Len(s) : h[i] = IF i = 1 THEN s[i] ELSE h[i - 1] \o s[i]  BY <2>0 DEF Flattens
  <2> DEFINE N == {m \in Nat : m \in 1 .. Len(s) => g[m] = h[m]}
  <2>4. 0 \in N  OBVIOUS
  <2>5. ASSUME NEW m \in Nat, m \in N PROVE m + 1 \in N
    <3> SUFFICES ASSUME m + 1 \in 1 .. Len(s) PROVE g[m + 1] = h[m + 1]  OBVIOUS
    <3>1. CASE m = 0
      <4>1. m + 1 = 1 /\ 1 \in 1 .. Len(s)  BY <3>1
      <4>2. g[1] = s[1] /\ h[1] = s[1]  BY <2>2, <2>3, <4>1
      <4> QED  BY <4>1, <4>2
    <3>2. CASE m # 0
      <4>1. m \in 1 .. Len(s) /\ (m + 1) - 1 = m /\ m + 1 # 1  BY <2>1, <3>2
      <4>2. g[m] = h[m]  BY <2>5, <4>1
      <4>3. g[m + 1] = g[m] \o s[m + 1]  BY <2>2, <4>1
      <4>4. h[m + 1] = h[m] \o s[m + 1]  BY <2>3, <4>1
      <4> QED  BY <4>2, <4>3, <4>4
    <3> QED  BY <3>1, <3>2
  <2> HIDE DEF N
  <2>6. \A m \in Nat : m \in N  BY <2>4, <2>5, NumberInduction
  <2>7. \A m \in 1 .. Len(s) : g[m] = h[m]  BY <2>1, <2>6 DEF N
  <2>8. g = [m \in 1 .. Len(s) |-> g[m]] /\ h = [m \in 1 .. Len(s) |-> h[m]]
    <3>1. g = [m \in 1 .. Len(s) |-> g[m]]  OBVIOUS
    <3>2. h = [m \in 1 .. Len(s) |-> h[m]]  BY ONLY <2>0 DEF Flattens
    <3> QED  BY <3>1, <3>2
  <2> QED  BY <2>7, <2>8
<1> QED  BY <1>1, <1>3, <1>4

LEMMA OneFlattened ==
  ASSUME NEW A, NEW s \in Seq(Seq(A)), s # <<>>
  PROVE  \E place : PlacesIn(place, s[1], s, 1)
<1> DEFINE f == s[1]
           place == [p \in 1 .. Len(f) |-> <<1, p>>]
<1>1. f \in Seq(A) /\ Len(f) \in Nat
  <2>1. 1 \in 1 .. Len(s)  OBVIOUS
  <2> QED  BY <2>1
<1> HIDE DEF f
<1>2. place \in [1 .. Len(f) -> Nat \X Nat]  BY <1>1
<1>3. \A p \in 1 .. Len(f) : place[p] = <<1, p>>  OBVIOUS
<1> HIDE DEF place
<1>4. \A p \in 1 .. Len(f) : place[p][1] = 1 /\ place[p][2] = p  BY <1>3
<1>5. \A p, q \in 1 .. Len(f) : p < q => Precedes(place[p], place[q])  BY <1>4 DEF Precedes
<1>6. \A j \in 1 .. 1 : \A k \in 1 .. Len(s[j]) : \E p \in 1 .. Len(f) : place[p] = <<j, k>>
  <2>1. \A k \in 1 .. Len(f) : \E p \in 1 .. Len(f) : place[p] = <<1, k>>  BY <1>3
  <2>2. \A j \in 1 .. 1 : j = 1  OBVIOUS
  <2>3. s[1] = f  BY DEF f
  <2> QED  BY ONLY <2>1, <2>2, <2>3
<1>7. \A p \in 1 .. Len(f) : /\ place[p][1] \in 1 .. 1
                             /\ place[p][2] \in 1 .. Len(s[place[p][1]])
                             /\ f[p] = s[place[p][1]][place[p][2]]
  BY <1>4 DEF f
<1>8. PlacesIn(place, f, s, 1)  BY <1>2, <1>5, <1>6, <1>7 DEF PlacesIn
<1> QED  BY <1>8 DEF f

LEMMA OneMoreFlattened ==
  ASSUME NEW A, NEW s \in Seq(Seq(A)), NEW f \in Seq(A), NEW m \in Nat, m + 1 \in 1 .. Len(s),
         NEW place, PlacesIn(place, f, s, m)
  PROVE  \E new : PlacesIn(new, f \o s[m + 1], s, m + 1)
<1> DEFINE last == s[m + 1]
           whole == f \o last
           new == [p \in 1 .. Len(whole) |-> IF p <= Len(f) THEN place[p] ELSE <<m + 1, p - Len(f)>>]
<1>1. last \in Seq(A) /\ Len(last) \in Nat /\ Len(f) \in Nat  OBVIOUS
<1> HIDE DEF last
<1>2. /\ Len(whole) = Len(f) + Len(last)
      /\ \A p \in 1 .. Len(f) : whole[p] = f[p]
      /\ \A p \in 1 .. Len(whole) : p > Len(f) => p - Len(f) \in 1 .. Len(last) /\ whole[p] = last[p - Len(f)]
  BY <1>1
<1> HIDE DEF whole
<1>3. ASSUME NEW p \in 1 .. Len(f)
      PROVE  p \in 1 .. Len(whole) /\ new[p] = place[p] /\ place[p] \in Nat \X Nat /\ place[p][1] <= m
  <2>1. p \in 1 .. Len(whole) /\ p <= Len(f)  BY <1>1, <1>2
  <2>2. place[p] \in Nat \X Nat /\ place[p][1] \in 1 .. m  BY DEF PlacesIn
  <2> QED  BY <2>1, <2>2
<1>4. ASSUME NEW p \in 1 .. Len(whole), ~(p <= Len(f)) PROVE new[p] = <<m + 1, p - Len(f)>>  BY <1>4
<1>5. new \in [1 .. Len(whole) -> Nat \X Nat]
  <2>1. ASSUME NEW p \in 1 .. Len(whole) PROVE new[p] \in Nat \X Nat
    <3>1. CASE p <= Len(f)
      <4>1. p \in 1 .. Len(f)  BY <1>1, <1>2, <3>1
      <4> QED  BY <1>3, <4>1
    <3>2. CASE ~(p <= Len(f))
      <4>1. p - Len(f) \in Nat  BY <1>1, <1>2, <3>2
      <4> QED  BY <1>4, <3>2, <4>1
    <3> QED  BY <3>1, <3>2
  <2> QED  BY <2>1
<1>d. DOMAIN new = 1 .. Len(whole)  OBVIOUS
<1> HIDE DEF new
<1>6. ASSUME NEW p \in 1 .. Len(whole)
      PROVE  /\ new[p][1] \in 1 .. (m + 1)
             /\ new[p][2] \in 1 .. Len(s[new[p][1]])
             /\ whole[p] = s[new[p][1]][new[p][2]]
  <2>1. CASE p <= Len(f)
    <3>1. p \in 1 .. Len(f)  BY <1>1, <1>2, <2>1
    <3>2. new[p] = place[p] /\ whole[p] = f[p]  BY <1>2, <1>3, <3>1
    <3>3. place[p][1] \in 1 .. m /\ place[p][2] \in 1 .. Len(s[place[p][1]]) /\ f[p] = s[place[p][1]][place[p][2]]
      BY <3>1 DEF PlacesIn
    <3>4. place[p][1] \in 1 .. (m + 1)  BY <3>3
    <3> QED  BY <3>2, <3>3, <3>4
  <2>2. CASE ~(p <= Len(f))
    <3>1. new[p][1] = m + 1 /\ new[p][2] = p - Len(f)  BY <1>4, <2>2
    <3>2. p - Len(f) \in 1 .. Len(last) /\ whole[p] = last[p - Len(f)]  BY <1>1, <1>2, <2>2
    <3> QED  BY <3>1, <3>2 DEF last
  <2> QED  BY <2>1, <2>2
<1>7. ASSUME NEW p \in 1 .. Len(whole), NEW q \in 1 .. Len(whole), p < q
      PROVE  Precedes(new[p], new[q])
  <2>1. CASE q <= Len(f)
    <3>1. p \in 1 .. Len(f) /\ q \in 1 .. Len(f)  BY <1>1, <1>2, <1>7, <2>1
    <3>2. Precedes(place[p], place[q])  BY <1>7, <3>1 DEF PlacesIn
    <3> QED  BY <1>3, <3>1, <3>2
  <2>2. CASE ~(q <= Len(f)) /\ p <= Len(f)
    <3>1. p \in 1 .. Len(f)  BY <1>1, <1>2, <2>2
    <3>2. new[p][1] <= m /\ new[p][1] \in Nat  BY <1>3, <3>1
    <3>3. new[q][1] = m + 1  BY <1>4, <2>2
    <3> QED  BY <3>2, <3>3 DEF Precedes
  <2>3. CASE ~(p <= Len(f))
    <3>1. ~(q <= Len(f))  BY <1>1, <1>2, <1>7, <2>3
    <3>2. /\ new[p][1] = m + 1 /\ new[p][2] = p - Len(f)
          /\ new[q][1] = m + 1 /\ new[q][2] = q - Len(f)
      BY <1>4, <2>3, <3>1
    <3>3. p - Len(f) < q - Len(f)  BY <1>1, <1>2, <1>7
    <3> QED  BY <3>2, <3>3 DEF Precedes
  <2> QED  BY <2>1, <2>2, <2>3
<1>8. ASSUME NEW j \in 1 .. (m + 1), NEW k \in 1 .. Len(s[j])
      PROVE  \E p \in 1 .. Len(whole) : new[p] = <<j, k>>
  <2>1. CASE j <= m
    <3>1. j \in 1 .. m  BY <2>1
    <3>2. PICK p \in 1 .. Len(f) : place[p] = <<j, k>>  BY <3>1 DEF PlacesIn
    <3> QED  BY <1>3, <3>2
  <2>2. CASE ~(j <= m)
    <3>1. j = m + 1 /\ k \in 1 .. Len(last)  BY <2>2 DEF last
    <3>2. k + Len(f) \in 1 .. Len(whole) /\ ~(k + Len(f) <= Len(f)) /\ (k + Len(f)) - Len(f) = k
      BY <1>1, <1>2, <3>1
    <3> QED  BY <1>4, <3>1, <3>2
  <2> QED  BY <2>1, <2>2
<1>9. \A p, q \in 1 .. Len(whole) : p < q => Precedes(new[p], new[q])  BY <1>7
<1>10. PlacesIn(new, whole, s, m + 1)  BY <1>5, <1>6, <1>8, <1>9 DEF PlacesIn
<1> QED  BY <1>10 DEF whole, last

\* The flattening of sequences goes through each of them, one after the other.
LEMMA FlattenPlaces ==
  ASSUME NEW A, NEW s \in Seq(Seq(A))
  PROVE  FlattenSeq(s) \in Seq(A) /\ \E place : PlacesIn(place, FlattenSeq(s), s, Len(s))
<1>1. CASE s = <<>>
  <2>1. FlattenSeq(s) = <<>> /\ Len(s) = 0  BY <1>1 DEF FlattenSeq
  <2> DEFINE place == [p \in 1 .. 0 |-> <<0, 0>>]
  <2>2. PlacesIn(place, <<>>, s, 0)  BY DEF PlacesIn, Precedes
  <2> QED  BY <2>1, <2>2
<1>2. CASE s # <<>>
  <2>1. PICK f \in [1 .. Len(s) -> Seq(A)] : Flattens(f, s) /\ FlattenSeq(s) = f[Len(s)]  BY <1>2, FlattenIs
  <2>2. Len(s) \in Nat \ {0} /\ 1 \in 1 .. Len(s) /\ Len(s) \in 1 .. Len(s)  BY <1>2
  <2>3. \A i \in 1 .. Len(s) : f[i] = IF i = 1 THEN s[i] ELSE f[i - 1] \o s[i]  BY <2>1 DEF Flattens
  <2> DEFINE N == {m \in Nat : m \in 1 .. Len(s) => \E place : PlacesIn(place, f[m], s, m)}
  <2>4. 0 \in N  OBVIOUS
  <2>5. ASSUME NEW m \in Nat, m \in N PROVE m + 1 \in N
    <3> SUFFICES ASSUME m + 1 \in 1 .. Len(s) PROVE \E place : PlacesIn(place, f[m + 1], s, m + 1)  OBVIOUS
    <3>1. CASE m = 0
      <4>1. m + 1 = 1  BY <3>1
      <4>2. f[1] = s[1]  BY <2>2, <2>3
      <4>3. \E place : PlacesIn(place, s[1], s, 1)  BY <1>2, OneFlattened
      <4> QED  BY <4>1, <4>2, <4>3
    <3>2. CASE m # 0
      <4>1. m \in 1 .. Len(s) /\ (m + 1) - 1 = m /\ m + 1 # 1  BY <2>2, <3>2
      <4>2. PICK place : PlacesIn(place, f[m], s, m)  BY <2>5, <4>1
      <4>3. f[m + 1] = f[m] \o s[m + 1]  BY <2>3, <4>1
      <4>4. f[m] \in Seq(A)  BY <2>1, <4>1
      <4> HIDE DEF N
      <4> QED  BY <4>2, <4>3, <4>4, OneMoreFlattened
    <3> QED  BY <3>1, <3>2
  <2> HIDE DEF N
  <2>6. \A m \in Nat : m \in N  BY <2>4, <2>5, NumberInduction
  <2>7. \E place : PlacesIn(place, f[Len(s)], s, Len(s))  BY <2>2, <2>6 DEF N
  <2> QED  BY <2>1, <2>2, <2>7
<1> QED  BY <1>1, <1>2

-----------------------------------------------------------------------------
(* The elements of a set, in some order.                                   *)

LEMMA SetInOrder ==
  ASSUME NEW S, IsFiniteSet(S)
  PROVE  /\ SetToSeq(S) \in Seq(S)
         /\ Len(SetToSeq(S)) = Cardinality(S)
         /\ \A j, k \in 1 .. Len(SetToSeq(S)) : SetToSeq(S)[j] = SetToSeq(S)[k] => j = k
         /\ \A x \in S : \E j \in 1 .. Len(SetToSeq(S)) : SetToSeq(S)[j] = x
<1> DEFINE n == Cardinality(S)
<1>1. n \in Nat  BY FS_CardinalityType
<1>2. PICK f \in Bijection(1 .. n, S) : TRUE
  <2>1. ExistsBijection(1 .. n, S)  BY FS_CardinalityType
  <2> QED  BY <2>1 DEF ExistsBijection
<1>3. f \in [1 .. n -> S] /\ IsInjective(f)  BY <1>2 DEF Bijection, Injection, IsInjective
<1>4. SetToSeq(S) \in [1 .. n -> S] /\ IsInjective(SetToSeq(S))  BY <1>3 DEF SetToSeq
<1>5. SetToSeq(S) \in Seq(S) /\ Len(SetToSeq(S)) = n  BY <1>1, <1>4
<1>6. SetToSeq(S) \in Surjection(1 .. n, S)
  <2>1. SetToSeq(S) \in Injection(1 .. n, S)  BY <1>4 DEF Injection, IsInjective
  <2>2. IsFiniteSet(1 .. n) /\ Cardinality(1 .. n) = n  BY <1>1, FS_Interval
  <2> QED  BY <2>1, <2>2, FS_Injection
<1> QED  BY <1>1, <1>4, <1>5, <1>6 DEF IsInjective, Surjection

-----------------------------------------------------------------------------
(* Places that move: a place is a stage, 1 to 5, and a number in it, and the
   maps say of a place after a step which it was before it. *)

Shift == [p \in Nat \X Nat |-> IF p[1] \in {3, 4} THEN <<p[1], p[2] + 1>> ELSE p]

LEMMA ShiftIs ==
  /\ Shift \in [Nat \X Nat -> Nat \X Nat]
  /\ \A s, k \in Nat : /\ Shift[<<s, k>>][1] = s
                       /\ Shift[<<s, k>>][2] = IF s \in {3, 4} THEN k + 1 ELSE k
<1>1. ASSUME NEW s \in Nat, NEW k \in Nat
      PROVE  Shift[<<s, k>>] = <<s, IF s \in {3, 4} THEN k + 1 ELSE k>>
  BY DEF Shift
<1>2. Shift \in [Nat \X Nat -> Nat \X Nat]  BY DEF Shift
<1> QED  BY <1>1, <1>2

\* A message of the channel is queued, behind those before it.
ToQueue(c) == [p \in Nat \X Nat |-> IF p = <<2, c + 1>> THEN <<3, 1>> ELSE Shift[p]]

LEMMA ToQueueIs ==
  ASSUME NEW c \in Nat
  PROVE  /\ ToQueue(c) \in [Nat \X Nat -> Nat \X Nat]
         /\ \A s, k \in Nat :
              /\ s = 2 /\ k = c + 1 => ToQueue(c)[<<s, k>>][1] = 3 /\ ToQueue(c)[<<s, k>>][2] = 1
              /\ ~(s = 2 /\ k = c + 1) => /\ ToQueue(c)[<<s, k>>][1] = s
                                         /\ ToQueue(c)[<<s, k>>][2] = IF s \in {3, 4} THEN k + 1 ELSE k
<1>1. ASSUME NEW s \in Nat, NEW k \in Nat
      PROVE  ToQueue(c)[<<s, k>>] = IF s = 2 /\ k = c + 1 THEN <<3, 1>> ELSE Shift[<<s, k>>]
  BY DEF ToQueue
<1>2. ToQueue(c) \in [Nat \X Nat -> Nat \X Nat]  BY ShiftIs DEF ToQueue
<1>3. ASSUME NEW s \in Nat, NEW k \in Nat
      PROVE  /\ s = 2 /\ k = c + 1 => ToQueue(c)[<<s, k>>][1] = 3 /\ ToQueue(c)[<<s, k>>][2] = 1
             /\ ~(s = 2 /\ k = c + 1) => /\ ToQueue(c)[<<s, k>>][1] = s
                                         /\ ToQueue(c)[<<s, k>>][2] = IF s \in {3, 4} THEN k + 1 ELSE k
  <2>1. CASE s = 2 /\ k = c + 1
    <3>1. ToQueue(c)[<<s, k>>] = <<3, 1>>  BY <1>1, <2>1
    <3> QED  BY <2>1, <3>1
  <2>2. CASE ~(s = 2 /\ k = c + 1)
    <3>1. ToQueue(c)[<<s, k>>] = Shift[<<s, k>>]  BY <1>1, <2>2
    <3> QED  BY <2>2, <3>1, ShiftIs
  <2> QED  BY <2>1, <2>2
<1> QED  BY <1>2, <1>3

\* A message that waited to be sent is: those before it were.
ToTasks(c) == [p \in Nat \X Nat |-> IF p = <<3, c>> THEN <<4, 1>> ELSE Shift[p]]

LEMMA ToTasksIs ==
  ASSUME NEW c \in Nat
  PROVE  /\ ToTasks(c) \in [Nat \X Nat -> Nat \X Nat]
         /\ \A s, k \in Nat :
              /\ s = 3 /\ k = c => ToTasks(c)[<<s, k>>][1] = 4 /\ ToTasks(c)[<<s, k>>][2] = 1
              /\ ~(s = 3 /\ k = c) => /\ ToTasks(c)[<<s, k>>][1] = s
                                     /\ ToTasks(c)[<<s, k>>][2] = IF s \in {3, 4} THEN k + 1 ELSE k
<1>1. ASSUME NEW s \in Nat, NEW k \in Nat
      PROVE  ToTasks(c)[<<s, k>>] = IF s = 3 /\ k = c THEN <<4, 1>> ELSE Shift[<<s, k>>]
  BY DEF ToTasks
<1>2. ToTasks(c) \in [Nat \X Nat -> Nat \X Nat]  BY ShiftIs DEF ToTasks
<1>3. ASSUME NEW s \in Nat, NEW k \in Nat
      PROVE  /\ s = 3 /\ k = c => ToTasks(c)[<<s, k>>][1] = 4 /\ ToTasks(c)[<<s, k>>][2] = 1
             /\ ~(s = 3 /\ k = c) => /\ ToTasks(c)[<<s, k>>][1] = s
                                     /\ ToTasks(c)[<<s, k>>][2] = IF s \in {3, 4} THEN k + 1 ELSE k
  <2>1. CASE s = 3 /\ k = c
    <3>1. ToTasks(c)[<<s, k>>] = <<4, 1>>  BY <1>1, <2>1
    <3> QED  BY <2>1, <3>1
  <2>2. CASE ~(s = 3 /\ k = c)
    <3>1. ToTasks(c)[<<s, k>>] = Shift[<<s, k>>]  BY <1>1, <2>2
    <3> QED  BY <2>2, <3>1, ShiftIs
  <2> QED  BY <2>1, <2>2
<1> QED  BY <1>2, <1>3

\* A queue is flushed from its place c on.
ToFlushed(c) == [p \in Nat \X Nat |-> IF p[1] = 1 /\ p[2] > c THEN <<2, p[2] - c>> ELSE p]

LEMMA ToFlushedIs ==
  ASSUME NEW c \in Nat
  PROVE  /\ ToFlushed(c) \in [Nat \X Nat -> Nat \X Nat]
         /\ \A s, k \in Nat :
              /\ s = 1 /\ k > c => ToFlushed(c)[<<s, k>>][1] = 2 /\ ToFlushed(c)[<<s, k>>][2] = k - c
              /\ ~(s = 1 /\ k > c) => ToFlushed(c)[<<s, k>>][1] = s /\ ToFlushed(c)[<<s, k>>][2] = k
<1>1. ASSUME NEW s \in Nat, NEW k \in Nat
      PROVE  ToFlushed(c)[<<s, k>>] = IF s = 1 /\ k > c THEN <<2, k - c>> ELSE <<s, k>>
  BY DEF ToFlushed
<1>2. ToFlushed(c) \in [Nat \X Nat -> Nat \X Nat]
  <2>1. ASSUME NEW p \in Nat \X Nat PROVE (IF p[1] = 1 /\ p[2] > c THEN <<2, p[2] - c>> ELSE p) \in Nat \X Nat
    <3>1. CASE p[1] = 1 /\ p[2] > c
      <4>1. p[2] - c \in Nat  BY <3>1
      <4> QED  BY <3>1, <4>1
    <3>2. CASE ~(p[1] = 1 /\ p[2] > c)  BY <3>2
    <3> QED  BY <3>1, <3>2
  <2> QED  BY <2>1 DEF ToFlushed
<1>3. ASSUME NEW s \in Nat, NEW k \in Nat
      PROVE  /\ s = 1 /\ k > c => ToFlushed(c)[<<s, k>>][1] = 2 /\ ToFlushed(c)[<<s, k>>][2] = k - c
             /\ ~(s = 1 /\ k > c) => ToFlushed(c)[<<s, k>>][1] = s /\ ToFlushed(c)[<<s, k>>][2] = k
  <2>1. CASE s = 1 /\ k > c
    <3>1. ToFlushed(c)[<<s, k>>] = <<2, k - c>>  BY <1>1, <2>1
    <3> QED  BY <2>1, <3>1
  <2>2. CASE ~(s = 1 /\ k > c)
    <3>1. ToFlushed(c)[<<s, k>>] = <<s, k>>  BY <1>1, <2>2
    <3> QED  BY <2>2, <3>1
  <2> QED  BY <2>1, <2>2
<1> QED  BY <1>2, <1>3

\* The sends that waited, f of them, are resumed.
ToResumed(c, f, place) ==
    [p \in Nat \X Nat |-> IF p[1] = 4 /\ p[2] - c \in 1 .. f THEN <<5, place[p[2] - c]>> ELSE p]

LEMMA ToResumedIs ==
  ASSUME NEW c \in Nat, NEW f \in Nat, NEW place \in [1 .. f -> Nat]
  PROVE  /\ ToResumed(c, f, place) \in [Nat \X Nat -> Nat \X Nat]
         /\ \A s, k \in Nat :
              /\ s = 4 /\ k - c \in 1 .. f =>
                   ToResumed(c, f, place)[<<s, k>>][1] = 5 /\ ToResumed(c, f, place)[<<s, k>>][2] = place[k - c]
              /\ ~(s = 4 /\ k - c \in 1 .. f) =>
                   ToResumed(c, f, place)[<<s, k>>][1] = s /\ ToResumed(c, f, place)[<<s, k>>][2] = k
<1>1. ASSUME NEW s \in Nat, NEW k \in Nat
      PROVE  ToResumed(c, f, place)[<<s, k>>] = IF s = 4 /\ k - c \in 1 .. f THEN <<5, place[k - c]>> ELSE <<s, k>>
  BY DEF ToResumed
<1>2. ToResumed(c, f, place) \in [Nat \X Nat -> Nat \X Nat]
  <2>1. ASSUME NEW p \in Nat \X Nat
        PROVE  (IF p[1] = 4 /\ p[2] - c \in 1 .. f THEN <<5, place[p[2] - c]>> ELSE p) \in Nat \X Nat
    <3>1. CASE p[1] = 4 /\ p[2] - c \in 1 .. f
      <4>1. place[p[2] - c] \in Nat  BY <3>1
      <4> QED  BY <3>1, <4>1
    <3>2. CASE ~(p[1] = 4 /\ p[2] - c \in 1 .. f)  BY <3>2
    <3> QED  BY <3>1, <3>2
  <2> QED  BY <2>1 DEF ToResumed
<1>3. ASSUME NEW s \in Nat, NEW k \in Nat
      PROVE  /\ s = 4 /\ k - c \in 1 .. f =>
                  ToResumed(c, f, place)[<<s, k>>][1] = 5 /\ ToResumed(c, f, place)[<<s, k>>][2] = place[k - c]
             /\ ~(s = 4 /\ k - c \in 1 .. f) =>
                  ToResumed(c, f, place)[<<s, k>>][1] = s /\ ToResumed(c, f, place)[<<s, k>>][2] = k
  <2>1. CASE s = 4 /\ k - c \in 1 .. f
    <3>1. ToResumed(c, f, place)[<<s, k>>] = <<5, place[k - c]>>  BY <1>1, <2>1
    <3> QED  BY <2>1, <3>1
  <2>2. CASE ~(s = 4 /\ k - c \in 1 .. f)
    <3>1. ToResumed(c, f, place)[<<s, k>>] = <<s, k>>  BY <1>1, <2>2
    <3> QED  BY <2>2, <3>1
  <2> QED  BY <2>1, <2>2
<1> QED  BY <1>2, <1>3

-----------------------------------------------------------------------------
(* The first numbers, and sequences cut in two. *)

\* m is the first numbers.
First(m) == \A k \in 1 .. Len(m) : m[k] = k

LEMMA FirstIs ==
  ASSUME NEW m \in Seq(Nat)
  PROVE  m = [k \in 1 .. Len(m) |-> k] <=> First(m)
<1>1. m = [k \in 1 .. Len(m) |-> m[k]]  OBVIOUS
<1> QED  BY <1>1 DEF First

LEMMA FirstPrefix ==
  ASSUME NEW a \in Seq(Nat), NEW b \in Seq(Nat), First(a \o b)
  PROVE  First(a) /\ Len(a) <= Len(a \o b) /\ Len(a) \in Nat /\ Len(a \o b) \in Nat
<1>1. Len(a \o b) = Len(a) + Len(b) /\ Len(a) \in Nat /\ Len(b) \in Nat
      /\ \A k \in 1 .. Len(a) : (a \o b)[k] = a[k]
  OBVIOUS
<1> QED  BY <1>1 DEF First

LEMMA FirstNext ==
  ASSUME NEW m \in Seq(Nat), NEW n \in Nat, First(m), Len(m) = n
  PROVE  First(Append(m, n + 1)) /\ Len(Append(m, n + 1)) = n + 1
<1>1. Len(Append(m, n + 1)) = n + 1 /\ Append(m, n + 1)[n + 1] = n + 1
      /\ \A k \in 1 .. Len(m) : Append(m, n + 1)[k] = m[k]
  OBVIOUS
<1> QED  BY <1>1 DEF First

LEMMA NoneIsFirst == First(<<>>) /\ Len(<<>>) = 0
  BY DEF First

LEMMA ConcatIs ==
  ASSUME NEW A, NEW a \in Seq(A), NEW b \in Seq(A)
  PROVE  /\ a \o b \in Seq(A)
         /\ Len(a \o b) = Len(a) + Len(b) /\ Len(a) \in Nat /\ Len(b) \in Nat
         /\ \A k \in Nat : k \in 1 .. Len(a) => (a \o b)[k] = a[k]
         /\ \A k \in Nat : k \in 1 .. Len(b) => (a \o b)[Len(a) + k] = b[k]
  OBVIOUS

LEMMA MoveHead ==
  ASSUME NEW a \in Seq(Nat), NEW b \in Seq(Nat), b # <<>>
  PROVE  Append(a, Head(b)) \o Tail(b) = a \o b
  OBVIOUS

LEMMA JoinThree ==
  ASSUME NEW a \in Seq(Nat), NEW b \in Seq(Nat), NEW c \in Seq(Nat)
  PROVE  (a \o b) \o c = a \o (b \o c)
  OBVIOUS

LEMMA TailFirst ==
  ASSUME NEW b \in Seq(Nat), NEW c \in Seq(Nat), b # <<>>
  PROVE  Tail(b) \o c = Tail(b \o c) /\ b \o c # <<>>
<1>1. b = <<Head(b)>> \o Tail(b) /\ Head(b) \in Nat /\ Tail(b) \in Seq(Nat)  OBVIOUS
<1> QED  BY SMTT(20)

LEMMA JoinNone ==
  ASSUME NEW a \in Seq(Nat)
  PROVE  <<>> \o a = a /\ a \o <<>> = a
  OBVIOUS

LEMMA SeqWithin ==
  ASSUME NEW A, NEW B, NEW s \in Seq(A), \A k \in 1 .. Len(s) : s[k] \in B
  PROVE  s \in Seq(B)
<1>1. Len(s) \in Nat /\ s \in [1 .. Len(s) -> A]  OBVIOUS
<1>2. s \in [1 .. Len(s) -> B]  BY <1>1
<1> QED  BY <1>1, <1>2

\* What a listener is given of a queue, and what nobody hears.
SplitsInto(q, kind, A, a, b) ==
    /\ q = a \o b
    /\ a = IF kind = "once" /\ q # <<>> THEN <<Head(q)>> ELSE q
    /\ ToSet(b) = IF kind = "once" /\ q # <<>> THEN ToSet(Tail(q)) ELSE {}
    /\ ToSet(b) \in SUBSET A
    /\ \A n \in ToSet(b) : \E k \in Nat : k \in 1 .. Len(b) /\ n = b[k]
    /\ \A k \in Nat : k \in 1 .. Len(b) => b[k] \in ToSet(b)

LEMMA Splits ==
  ASSUME NEW A, NEW q \in Seq(A), NEW kind
  PROVE  \E a, b \in Seq(A) : SplitsInto(q, kind, A, a, b)
<1>1. ASSUME NEW b \in Seq(A)
      PROVE  /\ ToSet(b) \in SUBSET A
             /\ \A n \in ToSet(b) : \E k \in Nat : k \in 1 .. Len(b) /\ n = b[k]
             /\ \A k \in Nat : k \in 1 .. Len(b) => b[k] \in ToSet(b)
  <2>1. DOMAIN b = 1 .. Len(b) /\ \A k \in 1 .. Len(b) : b[k] \in A  OBVIOUS
  <2> QED  BY <2>1 DEF ToSet
<1>2. CASE kind = "once" /\ q # <<>>
  <2>1. <<Head(q)>> \in Seq(A) /\ Tail(q) \in Seq(A) /\ q = <<Head(q)>> \o Tail(q)
    <3>1. Head(q) \in A /\ Tail(q) \in Seq(A)  BY <1>2
    <3>2. <<Head(q)>> \in Seq(A)  BY <3>1
    <3>3. q = <<Head(q)>> \o Tail(q)  BY <1>2, <3>1
    <3> QED  BY <3>1, <3>2, <3>3
  <2> DEFINE a == <<Head(q)>>
             b == Tail(q)
  <2>2. a \in Seq(A) /\ b \in Seq(A) /\ q = a \o b  BY <2>1
  <2>3. a = IF kind = "once" /\ q # <<>> THEN <<Head(q)>> ELSE q  BY <1>2
  <2>4. ToSet(b) = IF kind = "once" /\ q # <<>> THEN ToSet(Tail(q)) ELSE {}  BY <1>2
  <2> HIDE DEF a, b
  <2> QED  BY <1>1, <2>2, <2>3, <2>4 DEF SplitsInto
<1>3. CASE ~(kind = "once" /\ q # <<>>)
  <2> DEFINE b == <<>>
  <2>1. b \in Seq(A) /\ q = q \o b  OBVIOUS
  <2>2. ToSet(b) = {}  BY DEF ToSet
  <2> HIDE DEF b
  <2>3. /\ q = IF kind = "once" /\ q # <<>> THEN <<Head(q)>> ELSE q
        /\ ToSet(b) = IF kind = "once" /\ q # <<>> THEN ToSet(Tail(q)) ELSE {}
    BY <1>3, <2>2
  <2> QED  BY <1>1, <2>1, <2>3 DEF SplitsInto
<1> QED  BY <1>2, <1>3

=============================================================================
