------------------------- MODULE SubsequenceProofs -------------------------
(***************************************************************************)
(* What the other proofs keep needing about lists: filtering one           *)
(* (Subsequence) keeps the order and the elements, joining several         *)
(* (FlattenSeq) keeps both as well.  The library has theorems about        *)
(* neither.                                                                *)
(***************************************************************************)
EXTENDS Subsequences, SequencesExt, FiniteSetTheorems, TLAPS

(* Every non-empty set of naturals has a least element: what follows by    *)
(* induction in this project, follows from the least counterexample.       *)
LEMMA NatLeast ==
  ASSUME NEW T, T \subseteq Nat, T # {}
  PROVE  \E n \in T : \A m \in T : n <= m
<1> DEFINE R == {ss \in Nat \X Nat : ss[1] < ss[2]}
<1>1. IsWellFoundedOn(R, Nat)
  BY NatLessThanWellFounded DEF OpToRel
<1> HIDE DEF R
<1>2. \E x \in T : \A y \in T : ~(<<y, x>> \in R)
  BY <1>1, WFMin
<1>3. \A x, y \in Nat : ~(<<y, x>> \in R) => x <= y
  BY DEF R
<1>4. QED
  BY <1>2, <1>3

(* Elements of a typed list, and of one with an element more.              *)
LEMMA SeqElement ==
  ASSUME NEW S, NEW s \in Seq(S), NEW i \in DOMAIN s
  PROVE  s[i] \in S /\ Len(s) \in Nat /\ DOMAIN s = 1 .. Len(s)
OBVIOUS

(* Append.                                                                 *)
LEMMA SeqAppend ==
  ASSUME NEW S, NEW s \in Seq(S), NEW x \in S
  PROVE  /\ Append(s, x) \in Seq(S)
         /\ Len(s) \in Nat /\ DOMAIN s = 1 .. Len(s)
         /\ Len(Append(s, x)) = Len(s) + 1 /\ DOMAIN Append(s, x) = 1 .. Len(s) + 1
         /\ \A i \in 1 .. Len(s) + 1 : Append(s, x)[i] = IF i = Len(s) + 1 THEN x ELSE s[i]
OBVIOUS

(* The least and the greatest of a set of positions.                       *)
LEMMA MinOfPositions ==
  ASSUME NEW T, T \subseteq Nat, T # {}
  PROVE  Min(T) \in T /\ \A m \in T : Min(T) <= m
BY NatLeast DEF Min

(* The greatest.                                                           *)
LEMMA MaxOfPositions ==
  ASSUME NEW N \in Nat, NEW T, T \subseteq 1 .. N, T # {}
  PROVE  Max(T) \in T /\ \A m \in T : m <= Max(T)
<1> DEFINE U == {N - m : m \in T}
<1>1. U \subseteq Nat /\ U # {}
  <2>1. \A m \in T : m \in 1 .. N /\ N - m \in Nat
    OBVIOUS
  <2>2. QED
    BY <2>1
<1>2. PICK u \in U : \A v \in U : u <= v
  BY <1>1, NatLeast
<1>3. PICK n \in T : u = N - n
  OBVIOUS
<1>4. \A m \in T : m <= n
  <2> SUFFICES ASSUME NEW m \in T PROVE m <= n
    OBVIOUS
  <2>1. N - m \in U /\ m \in Int /\ n \in Int
    OBVIOUS
  <2>2. QED
    BY <1>2, <1>3, <2>1
<1>5. \E x \in T : \A y \in T : x >= y
  <2>1. \A y \in T : y \in Int
    OBVIOUS
  <2>2. QED
    BY <1>4, <2>1
<1>6. Max(T) \in T /\ \A y \in T : Max(T) >= y
  BY <1>5 DEF Max
<1>7. \A y \in T : y \in Int
  OBVIOUS
<1>8. QED
  BY <1>6, <1>7

(* The positions of a set of them, counted: Place goes up through all of   *)
(* them.                                                                   *)
LEMMA Places ==
  ASSUME NEW N \in Nat, NEW I \in SUBSET (1 .. N)
  PROVE  /\ IsFiniteSet(I)
         /\ Cardinality(I) \in 0 .. N
         /\ \A n \in 1 .. Cardinality(I) : Place(I, n) \in I
         /\ \A i \in I : \E n \in 1 .. Cardinality(I) : Place(I, n) = i
         /\ \A m, n \in 1 .. Cardinality(I) : m < n => Place(I, m) < Place(I, n)
<1> DEFINE Upto(i) == {j \in I : j <= i}
           R == 1 .. Cardinality(I)
           rank == [i \in I |-> Cardinality(Upto(i))]
<1>0. \A i \in I : i \in Int
  OBVIOUS
<1>1. IsFiniteSet(I) /\ Cardinality(I) \in 0 .. N
  <2>1. IsFiniteSet(1 .. N) /\ Cardinality(1 .. N) = N
    BY FS_Interval
  <2>2. IsFiniteSet(I) /\ Cardinality(I) <= N
    BY <2>1, FS_Subset
  <2>3. QED
    BY <2>2, FS_CardinalityType
<1>2. ASSUME NEW i \in I
      PROVE  IsFiniteSet(Upto(i)) /\ Cardinality(Upto(i)) \in R
  <2>1. IsFiniteSet(Upto(i)) /\ Cardinality(Upto(i)) <= Cardinality(I)
    BY <1>1, FS_Subset
  <2>2. Cardinality(Upto(i)) \in Nat
    BY <2>1, FS_CardinalityType
  <2>3. Upto(i) # {}
    OBVIOUS
  <2>4. Cardinality(Upto(i)) # 0
    BY <2>1, <2>3, FS_EmptySet
  <2>5. QED
    BY <1>1, <2>1, <2>2, <2>4
<1>3. ASSUME NEW i \in I, NEW k \in I, i < k
      PROVE  Cardinality(Upto(i)) < Cardinality(Upto(k))
  <2>1. Upto(i) \in SUBSET Upto(k) /\ Upto(i) # Upto(k)
    <3>1. k \in Upto(k) /\ k \notin Upto(i)
      BY <1>3
    <3>2. Upto(i) \in SUBSET Upto(k)
      <4> SUFFICES ASSUME NEW j \in I, j <= i PROVE j <= k
        OBVIOUS
      <4>1. i \in Int /\ j \in Int /\ k \in Int
        BY <1>0
      <4>2. QED
        BY <1>3, <4>1
    <3>3. QED
      BY <3>1, <3>2
  <2>2. Cardinality(Upto(i)) <= Cardinality(Upto(k)) /\ Cardinality(Upto(i)) # Cardinality(Upto(k))
    BY <1>2, <2>1, FS_Subset
  <2>3. QED
    BY <1>1, <1>2, <2>2
<1> HIDE DEF Upto
<1>4. rank \in [I -> R] /\ \A i \in I : rank[i] = Cardinality(Upto(i))
  BY <1>2
<1>5. rank \in Injection(I, R)
  <2>1. \A i, k \in I : rank[i] = rank[k] => i = k
    BY <1>1, <1>2, <1>3, <1>4
  <2>2. QED
    BY <1>4, <2>1 DEF Injection, IsInjective
<1>6. IsFiniteSet(R) /\ Cardinality(R) = Cardinality(I)
  BY <1>1, FS_Interval
<1>7. rank \in Surjection(I, R)
  BY <1>1, <1>5, <1>6, FS_Injection
<1>8. \A n \in R : \E i \in I : rank[i] = n
  BY <1>7 DEF Surjection
<1>9. \A n \in R : Place(I, n) \in I /\ rank[Place(I, n)] = n
  <2> SUFFICES ASSUME NEW n \in R PROVE Place(I, n) \in I /\ rank[Place(I, n)] = n
    OBVIOUS
  <2>1. \E i \in I : Cardinality(Upto(i)) = n
    BY <1>4, <1>8
  <2>2. Place(I, n) \in I /\ Cardinality(Upto(Place(I, n))) = n
    BY <2>1 DEF Place, Upto
  <2>3. QED
    BY <1>4, <2>2
<1>10. \A i \in I : \E n \in R : Place(I, n) = i
  <2> SUFFICES ASSUME NEW i \in I PROVE Place(I, rank[i]) = i /\ rank[i] \in R
    OBVIOUS
  <2>1. rank[i] \in R
    BY <1>4
  <2>2. Place(I, rank[i]) \in I /\ rank[Place(I, rank[i])] = rank[i]
    BY <1>9, <2>1
  <2>3. QED
    BY <1>5, <2>1, <2>2 DEF Injection, IsInjective
<1>11. \A m, n \in R : m < n => Place(I, m) < Place(I, n)
  <2> SUFFICES ASSUME NEW m \in R, NEW n \in R, m < n, ~(Place(I, m) < Place(I, n)) PROVE FALSE
    OBVIOUS
  <2>1. Place(I, m) \in I /\ Place(I, n) \in I /\ rank[Place(I, m)] = m /\ rank[Place(I, n)] = n
    BY <1>9
  <2>2. Place(I, n) = Place(I, m) \/ Place(I, n) < Place(I, m)
    <3>1. Place(I, m) \in Int /\ Place(I, n) \in Int
      BY <1>0, <2>1
    <3>2. QED
      BY <3>1
  <2>3. CASE Place(I, n) = Place(I, m)
    BY <2>1, <2>3
  <2>4. CASE Place(I, n) < Place(I, m)
    <3>1. rank[Place(I, n)] < rank[Place(I, m)]
      BY <1>3, <1>4, <2>1, <2>4
    <3>2. QED
      BY <1>1, <2>1, <3>1
  <2>5. QED
    BY <2>2, <2>3, <2>4
<1>12. QED
  BY <1>1, <1>9, <1>10, <1>11

(* e goes up through all positions of I.                                   *)
Enumerates(e, L, I) ==
  /\ e \in [1 .. L -> I]
  /\ \A m, n \in 1 .. L : m < n => e[m] < e[n]
  /\ \A i \in I : \E n \in 1 .. L : e[n] = i

(* Only Place does.                                                        *)
LEMMA EnumeratedOnce ==
  ASSUME NEW I \in SUBSET Int, NEW L \in Nat, NEW e, Enumerates(e, L, I)
  PROVE  /\ Cardinality(I) = L
         /\ \A n \in 1 .. L : Place(I, n) = e[n]
<1> USE DEF Enumerates
<1>0. \A i \in I : i \in Int
  OBVIOUS
<1>0a. \A n \in 1 .. L : e[n] \in I /\ e[n] \in Int
  BY <1>0
<1>1. ASSUME NEW n \in 1 .. L
      PROVE  Cardinality({j \in I : j <= e[n]}) = n
  <2> DEFINE T == {j \in I : j <= e[n]}
             f == [m \in 1 .. n |-> e[m]]
  <2>1. f \in [1 .. n -> T]
    <3>1. ASSUME NEW m \in 1 .. n
          PROVE  e[m] \in I /\ e[m] <= e[n]
      <4>1. m \in 1 .. L /\ (m < n \/ m = n)
        OBVIOUS
      <4>2. m < n => e[m] < e[n]
        BY <4>1
      <4>3. e[m] \in I /\ e[m] \in Int /\ e[n] \in Int
        BY <1>0a, <4>1
      <4>4. QED
        BY <4>1, <4>2, <4>3
    <3>2. QED
      BY <3>1
  <2>2. \A m, k \in 1 .. n : f[m] = f[k] => m = k
    <3> SUFFICES ASSUME NEW m \in 1 .. n, NEW k \in 1 .. n, e[m] = e[k], m # k PROVE FALSE
      OBVIOUS
    <3>1. m \in 1 .. L /\ k \in 1 .. L
      OBVIOUS
    <3>2. (m < k => e[m] < e[k]) /\ (k < m => e[k] < e[m])
      BY <3>1
    <3>3. e[m] \in Int /\ e[k] \in Int
      BY <1>0a, <3>1
    <3>4. QED
      BY <3>1, <3>2, <3>3
  <2>3. \A j \in T : \E m \in 1 .. n : f[m] = j
    <3> SUFFICES ASSUME NEW j \in T PROVE \E m \in 1 .. n : e[m] = j
      OBVIOUS
    <3>1. PICK m \in 1 .. L : e[m] = j
      OBVIOUS
    <3>2. m <= n
      <4>1. n < m => e[n] < e[m]
        OBVIOUS
      <4>2. e[m] \in Int /\ e[n] \in Int /\ e[m] <= e[n]
        BY <1>0, <3>1
      <4>3. QED
        BY <4>1, <4>2
    <3>3. QED
      BY <3>1, <3>2
  <2>4. f \in Bijection(1 .. n, T)
    BY <2>1, <2>2, <2>3 DEF Bijection, Injection, Surjection, IsInjective
  <2>5. ExistsBijection(1 .. n, T)
    BY <2>4 DEF ExistsBijection
  <2>6. QED
    BY <2>5, FS_CountingElements
<1>2. Cardinality(I) = L
  <2>1. CASE L = 0
    <3>1. I = {}
      BY <2>1
    <3>2. QED
      BY <2>1, <3>1, FS_EmptySet
  <2>2. CASE L # 0
    <3>1. \A j \in I : j <= e[L]
      <4> SUFFICES ASSUME NEW j \in I PROVE j <= e[L]
        OBVIOUS
      <4>1. PICK m \in 1 .. L : e[m] = j
        OBVIOUS
      <4>2. L \in 1 .. L /\ (m < L => e[m] < e[L])
        BY <2>2
      <4>3. e[m] \in Int /\ e[L] \in Int
        BY <1>0, <4>2
      <4>4. QED
        BY <4>1, <4>2, <4>3
    <3>2. {j \in I : j <= e[L]} = I
      BY <3>1
    <3>3. QED
      BY <1>1, <2>2, <3>2
  <2>3. QED
    BY <2>1, <2>2
<1>3. ASSUME NEW n \in 1 .. L
      PROVE  Place(I, n) = e[n]
  <2> DEFINE rank(i) == Cardinality({j \in I : j <= i})
  <2>1. \A i \in I : rank(i) = n => i = e[n]
    <3> SUFFICES ASSUME NEW i \in I, rank(i) = n PROVE i = e[n]
      OBVIOUS
    <3>1. PICK m \in 1 .. L : e[m] = i
      OBVIOUS
    <3>2. rank(i) = m
      BY <1>1, <3>1
    <3>3. QED
      BY <3>1, <3>2
  <2>2. e[n] \in I /\ rank(e[n]) = n
    BY <1>1
  <2>3. QED
    BY <2>1, <2>2 DEF Place
<1>4. QED
  BY <1>2, <1>3

(* What a filter leaves: a list of the same kind, with the elements at the *)
(* positions kept, each of them, in their order.                           *)
LEMMA SubsequenceElements ==
  ASSUME NEW S, NEW s \in Seq(S), NEW I \in SUBSET (DOMAIN s)
  PROVE  /\ Subsequence(s, I) \in Seq(S)
         /\ DOMAIN Subsequence(s, I) = 1 .. Cardinality(I)
         /\ Len(Subsequence(s, I)) = Cardinality(I)
         /\ Cardinality(I) \in 0 .. Len(s)
         /\ ToSet(Subsequence(s, I)) = {s[i] : i \in I}
         /\ \A n \in 1 .. Cardinality(I) : Place(I, n) \in I /\ Subsequence(s, I)[n] = s[Place(I, n)]
         /\ \A i \in I : \E n \in 1 .. Cardinality(I) : Place(I, n) = i
         /\ \A m, n \in 1 .. Cardinality(I) : m < n => Place(I, m) < Place(I, n)
<1>1. Len(s) \in Nat /\ DOMAIN s = 1 .. Len(s) /\ \A i \in DOMAIN s : s[i] \in S
  OBVIOUS
<1>2. /\ Cardinality(I) \in 0 .. Len(s)
      /\ \A n \in 1 .. Cardinality(I) : Place(I, n) \in I
      /\ \A i \in I : \E n \in 1 .. Cardinality(I) : Place(I, n) = i
      /\ \A m, n \in 1 .. Cardinality(I) : m < n => Place(I, m) < Place(I, n)
  BY <1>1, Places
<1>3. /\ DOMAIN Subsequence(s, I) = 1 .. Cardinality(I)
      /\ \A n \in 1 .. Cardinality(I) : Subsequence(s, I)[n] = s[Place(I, n)]
  BY DEF Subsequence
<1>4. Subsequence(s, I) \in Seq(S) /\ Len(Subsequence(s, I)) = Cardinality(I)
  <2>1. \A n \in 1 .. Cardinality(I) : s[Place(I, n)] \in S
    BY <1>1, <1>2
  <2>2. Subsequence(s, I) \in [1 .. Cardinality(I) -> S]
    BY <2>1 DEF Subsequence
  <2>3. QED
    BY <1>2, <2>2
<1>5. ToSet(Subsequence(s, I)) = {s[i] : i \in I}
  <2>1. ToSet(Subsequence(s, I)) = {Subsequence(s, I)[n] : n \in 1 .. Cardinality(I)}
    BY <1>3 DEF ToSet
  <2>2. \A n \in 1 .. Cardinality(I) : \E i \in I : Subsequence(s, I)[n] = s[i]
    BY <1>2, <1>3
  <2>3. \A i \in I : \E n \in 1 .. Cardinality(I) : Subsequence(s, I)[n] = s[i]
    BY <1>2, <1>3
  <2>4. QED
    BY <2>1, <2>2, <2>3
<1>6. QED
  BY <1>2, <1>3, <1>4, <1>5

(* A list that holds the elements at the positions of I in their order is  *)
(* the subsequence.                                                        *)
LEMMA SubsequenceIs ==
  ASSUME NEW S, NEW s \in Seq(S), NEW I \in SUBSET (DOMAIN s), NEW t \in Seq(S),
         NEW e, Enumerates(e, Len(t), I), \A n \in DOMAIN t : t[n] = s[e[n]]
  PROVE  Subsequence(s, I) = t
<1>1. DOMAIN s = 1 .. Len(s) /\ Len(s) \in Nat /\ DOMAIN t = 1 .. Len(t) /\ Len(t) \in Nat
  OBVIOUS
<1>2. Cardinality(I) = Len(t) /\ \A n \in 1 .. Len(t) : Place(I, n) = e[n]
  <2>1. I \in SUBSET Int
    BY <1>1
  <2>2. QED
    BY <1>1, <2>1, EnumeratedOnce
<1>3. Subsequence(s, I) = [n \in 1 .. Len(t) |-> t[n]]
  BY <1>1, <1>2 DEF Subsequence
<1>4. QED
  BY <1>1, <1>3

(* Filtering everything in changes nothing.                                *)
LEMMA SubsequenceAll ==
  ASSUME NEW S, NEW s \in Seq(S)
  PROVE  Subsequence(s, DOMAIN s) = s
<1> DEFINE e == [n \in 1 .. Len(s) |-> n]
<1>1. DOMAIN s = 1 .. Len(s) /\ Len(s) \in Nat
  OBVIOUS
<1>2. Enumerates(e, Len(s), DOMAIN s)
  BY <1>1 DEF Enumerates
<1>3. \A n \in DOMAIN s : s[n] = s[e[n]]
  BY <1>1
<1> HIDE DEF e
<1>4. QED
  BY <1>2, <1>3, SubsequenceIs

(* Of two lists joined, the first is what stands in front.                 *)
LEMMA SubsequenceFront ==
  ASSUME NEW S, NEW a \in Seq(S), NEW b \in Seq(S)
  PROVE  Subsequence(a \o b, 1 .. Len(a)) = a
<1> DEFINE e == [n \in 1 .. Len(a) |-> n]
<1>1. /\ a \o b \in Seq(S) /\ Len(a) \in Nat /\ Len(b) \in Nat
      /\ DOMAIN (a \o b) = 1 .. Len(a) + Len(b) /\ DOMAIN a = 1 .. Len(a)
      /\ \A n \in DOMAIN a : (a \o b)[n] = a[n]
  OBVIOUS
<1>2. Enumerates(e, Len(a), 1 .. Len(a)) /\ \A n \in DOMAIN a : e[n] = n
  BY <1>1 DEF Enumerates
<1>3. PICK c \in Seq(S) : c = a \o b
  BY <1>1
<1>4. 1 .. Len(a) \in SUBSET (DOMAIN c) /\ \A n \in DOMAIN a : a[n] = c[e[n]]
  BY <1>1, <1>2, <1>3
<1> HIDE DEF e
<1>5. Subsequence(c, 1 .. Len(a)) = a
  BY <1>2, <1>4, SubsequenceIs
<1>6. QED
  BY <1>3, <1>5

\* The places I of s hold every element of s that is in G.
Keeps(s, I, G) == \A i \in DOMAIN s : s[i] \in G => i \in I

(* Filtering keeps the first element of G, if it keeps them all.           *)
LEMMA FirstOfSubsequence ==
  ASSUME NEW S, NEW s \in Seq(S), NEW I \in SUBSET (DOMAIN s), NEW G,
         Keeps(s, I, G),
         NEW t, t = Subsequence(s, I)
  PROVE  /\ {n \in DOMAIN t : t[n] \in G} = {} <=> {i \in DOMAIN s : s[i] \in G} = {}
         /\ {i \in DOMAIN s : s[i] \in G} # {} =>
              t[Min({n \in DOMAIN t : t[n] \in G})] = s[Min({i \in DOMAIN s : s[i] \in G})]
<1>1. /\ DOMAIN s \subseteq Nat /\ Cardinality(I) \in Nat
      /\ DOMAIN t = 1 .. Cardinality(I)
      /\ \A n \in DOMAIN t : Place(I, n) \in I /\ t[n] = s[Place(I, n)]
      /\ \A i \in I : \E n \in DOMAIN t : Place(I, n) = i
      /\ \A m, n \in DOMAIN t : m < n => Place(I, m) < Place(I, n)
  <2>1. s \in Seq(S) /\ I \in SUBSET (DOMAIN s) /\ t = Subsequence(s, I)
    OBVIOUS
  <2>2. Cardinality(I) \in 0 .. Len(s) /\ Len(s) \in Nat /\ DOMAIN s = 1 .. Len(s)
    BY <2>1, SubsequenceElements
  <2>3. DOMAIN s \subseteq Nat /\ Cardinality(I) \in Nat
    BY <2>2
  <2>4. QED
    BY <2>1, <2>3, SubsequenceElements
<1>2. PICK T, U : T = {i \in DOMAIN s : s[i] \in G} /\ U = {n \in DOMAIN t : t[n] \in G}
  OBVIOUS
<1>3. T \subseteq Nat /\ U \subseteq Nat /\ T \subseteq I
  BY <1>1, <1>2 DEF Keeps
<1>4. \A n \in U : Place(I, n) \in T
  BY <1>1, <1>2
<1>5. \A i \in T : \E n \in U : Place(I, n) = i
  BY <1>1, <1>2, <1>3
<1>6. ASSUME T # {} PROVE t[Min(U)] = s[Min(T)]
  <2>1. U # {}
    BY <1>5, <1>6
  <2>2. Min(T) \in T /\ \A m \in T : Min(T) <= m
    BY <1>3, <1>6, MinOfPositions
  <2>3. Min(U) \in U /\ \A m \in U : Min(U) <= m
    BY <1>3, <2>1, MinOfPositions
  <2>4. PICK n \in U : Place(I, n) = Min(T)
    BY <1>5, <2>2
  <2>5. Min(T) <= Place(I, Min(U)) /\ Min(U) <= n
    BY <1>4, <2>2, <2>3
  <2>6. Min(U) = n
    <3>1. Min(U) \in Nat /\ n \in Nat /\ Min(T) \in Nat /\ Place(I, Min(U)) \in Nat
      BY <1>3, <1>4, <2>2, <2>3
    <3>2. Min(U) < n => Place(I, Min(U)) < Place(I, n)
      BY <1>1, <1>2, <2>3
    <3>3. QED
      BY <2>4, <2>5, <3>1, <3>2
  <2>7. QED
    BY <1>1, <1>2, <2>3, <2>4, <2>6
<1>7. U = {} <=> T = {}
  BY <1>4, <1>5
<1>8. QED
  BY <1>2, <1>6, <1>7

(* Elements of two lists joined.                                           *)
LEMMA JoinElements ==
  ASSUME NEW S, NEW a \in Seq(S), NEW b \in Seq(S)
  PROVE  /\ a \o b \in Seq(S) /\ Len(a) \in Nat /\ Len(b) \in Nat
         /\ DOMAIN (a \o b) = 1 .. Len(a) + Len(b)
         /\ DOMAIN a = 1 .. Len(a) /\ DOMAIN b = 1 .. Len(b)
         /\ \A n \in DOMAIN a : (a \o b)[n] = a[n]
         /\ \A n \in DOMAIN b : (a \o b)[Len(a) + n] = b[n] /\ Len(a) + n \in DOMAIN (a \o b)
         /\ \A n \in DOMAIN (a \o b) : n \in DOMAIN a \/ n - Len(a) \in DOMAIN b
         /\ ToSet(a \o b) = ToSet(a) \union ToSet(b)
<1>1. /\ a \o b \in Seq(S) /\ Len(a) \in Nat /\ Len(b) \in Nat
      /\ DOMAIN (a \o b) = 1 .. Len(a) + Len(b)
      /\ DOMAIN a = 1 .. Len(a) /\ DOMAIN b = 1 .. Len(b)
      /\ \A n \in DOMAIN a : (a \o b)[n] = a[n]
      /\ \A n \in DOMAIN b : (a \o b)[Len(a) + n] = b[n] /\ Len(a) + n \in DOMAIN (a \o b)
  OBVIOUS
<1>2. \A n \in DOMAIN (a \o b) : n \in DOMAIN a \/ n - Len(a) \in DOMAIN b
  BY <1>1
<1>3. \A n \in DOMAIN (a \o b) : (a \o b)[n] \in ToSet(a) \union ToSet(b)
  <2> SUFFICES ASSUME NEW n \in DOMAIN (a \o b) PROVE (a \o b)[n] \in ToSet(a) \union ToSet(b)
    OBVIOUS
  <2>1. CASE n \in DOMAIN a
    BY <1>1, <2>1 DEF ToSet
  <2>2. CASE n - Len(a) \in DOMAIN b
    <3>1. n = Len(a) + (n - Len(a))
      BY <1>1
    <3>2. (a \o b)[n] = b[n - Len(a)]
      BY <1>1, <2>2, <3>1
    <3>3. QED
      BY <2>2, <3>2 DEF ToSet
  <2>3. QED
    BY <1>2, <2>1, <2>2
<1>4. (\A n \in DOMAIN a : a[n] \in ToSet(a \o b)) /\ (\A n \in DOMAIN b : b[n] \in ToSet(a \o b))
  <2>1. \A n \in DOMAIN a : n \in DOMAIN (a \o b)
    BY <1>1
  <2>2. QED
    BY <1>1, <2>1 DEF ToSet
<1>5. QED
  BY <1>1, <1>2, <1>3, <1>4 DEF ToSet

----------------------------------------------------------------------------
(* Flattening: a list of lists joined to one.                              *)

(* h holds what is joined of the first 1, 2, ... n lists.                  *)
Joins(h, seqs, n) == \A i \in 1 .. n : h[i] = IF i = 1 THEN seqs[i] ELSE h[i - 1] \o seqs[i]

(* There are such h: FlattenSeq is defined by one.                         *)
LEMMA JoinsExist ==
  ASSUME NEW S, NEW seqs \in Seq(Seq(S)), NEW n \in 1 .. Len(seqs)
  PROVE  \E h \in [1 .. n -> Seq(S)] : Joins(h, seqs, n)
<1> DEFINE Bad == {m \in 1 .. Len(seqs) : ~\E h \in [1 .. m -> Seq(S)] : Joins(h, seqs, m)}
<1>0. \A i \in 1 .. Len(seqs) : seqs[i] \in Seq(S)
  OBVIOUS
<1>1. Bad = {}
  <2> SUFFICES ASSUME Bad # {} PROVE FALSE
    OBVIOUS
  <2>1. PICK m \in Bad : \A q \in Bad : m <= q
    <3>1. Bad \subseteq Nat
      OBVIOUS
    <3>2. QED
      BY <3>1, NatLeast
  <2>2. CASE m = 1
    <3>1. [i \in 1 .. 1 |-> seqs[1]] \in [1 .. 1 -> Seq(S)] /\ Joins([i \in 1 .. 1 |-> seqs[1]], seqs, 1)
      BY <1>0, <2>2 DEF Joins
    <3>2. QED
      BY <2>2, <3>1
  <2>3. CASE m # 1
    <3>1. m - 1 \in 1 .. Len(seqs) /\ m \in 1 .. Len(seqs) /\ ~(m <= m - 1)
      BY <2>3
    <3>2. PICK h \in [1 .. m - 1 -> Seq(S)] : Joins(h, seqs, m - 1)
      BY <2>1, <3>1
    <3> DEFINE g == [i \in 1 .. m |-> IF i = m THEN h[m - 1] \o seqs[m] ELSE h[i]]
    <3>3. \A i \in 1 .. m : g[i] \in Seq(S)
      <4> SUFFICES ASSUME NEW i \in 1 .. m PROVE g[i] \in Seq(S)
        OBVIOUS
      <4>1. CASE i = m
        <5>1. h[m - 1] \in Seq(S) /\ seqs[m] \in Seq(S)
          BY <1>0, <2>3, <3>1
        <5>2. h[m - 1] \o seqs[m] \in Seq(S)
          BY <5>1
        <5>3. QED
          BY <4>1, <5>2
      <4>2. CASE i # m
        BY <4>2
      <4>3. QED
        BY <4>1, <4>2
    <3>4. Joins(g, seqs, m)
      <4> SUFFICES ASSUME NEW i \in 1 .. m
                   PROVE  g[i] = IF i = 1 THEN seqs[i] ELSE g[i - 1] \o seqs[i]
        BY DEF Joins
      <4>1. CASE i = m
        <5>1. m - 1 \in 1 .. m /\ m - 1 # m
          BY <3>1
        <5>2. g[m - 1] = h[m - 1]
          BY <5>1
        <5>3. QED
          BY <2>3, <4>1, <5>2
      <4>2. CASE i # m
        <5>1. i \in 1 .. m - 1 /\ (i # 1 => i - 1 \in 1 .. m /\ i - 1 # m)
          BY <3>1, <4>2
        <5>2. h[i] = IF i = 1 THEN seqs[i] ELSE h[i - 1] \o seqs[i]
          BY <3>2, <5>1 DEF Joins
        <5>3. QED
          BY <4>2, <5>1, <5>2
      <4>3. QED
        BY <4>1, <4>2
    <3>5. g \in [1 .. m -> Seq(S)]
      BY <3>3
    <3>6. QED
      BY <2>1, <3>4, <3>5
  <2>4. QED
    BY <2>2, <2>3
<1>2. QED
  BY <1>1

(* F lists the elements of the first n lists: each element of F stands in  *)
(* the list src names for it, those of an earlier list come first, and no  *)
(* element of a list is left out.                                          *)
Lists(src, F, seqs, n) ==
  /\ \A j, k \in DOMAIN F : j <= k => src[j] <= src[k]
  /\ \A j \in DOMAIN F : \E k \in DOMAIN seqs[src[j]] : F[j] = seqs[src[j]][k]
  /\ \A i \in 1 .. n : \A k \in DOMAIN seqs[i] : \E j \in DOMAIN F : src[j] = i /\ F[j] = seqs[i][k]

(* One list more, joined to those before.                                  *)
LEMMA ListsOneMore ==
  ASSUME NEW S, NEW seqs \in Seq(Seq(S)), NEW n \in 1 .. Len(seqs), n # 1,
         NEW F \in Seq(S), NEW src \in [DOMAIN F -> 1 .. n - 1], Lists(src, F, seqs, n - 1)
  PROVE  \E srcs \in [DOMAIN (F \o seqs[n]) -> 1 .. n] : Lists(srcs, F \o seqs[n], seqs, n)
<1> DEFINE G == F \o seqs[n]
           srcs == [j \in DOMAIN G |-> IF j <= Len(F) THEN src[j] ELSE n]
<1>1. seqs[n] \in Seq(S) /\ n \in Nat /\ Len(F) \in Nat /\ DOMAIN F = 1 .. Len(F)
  OBVIOUS
<1>2. /\ DOMAIN G = 1 .. Len(F) + Len(seqs[n])
      /\ \A j \in DOMAIN G : G[j] = IF j <= Len(F) THEN F[j] ELSE seqs[n][j - Len(F)]
      /\ DOMAIN seqs[n] = 1 .. Len(seqs[n]) /\ Len(seqs[n]) \in Nat
  BY <1>1
<1> HIDE DEF G
<1>3. \A j \in DOMAIN G : j <= Len(F) => j \in DOMAIN F /\ src[j] \in 1 .. n - 1 /\ srcs[j] = src[j] /\ G[j] = F[j]
  BY <1>1, <1>2
<1>4. \A j \in DOMAIN G : ~(j <= Len(F)) =>
        j - Len(F) \in DOMAIN seqs[n] /\ srcs[j] = n /\ G[j] = seqs[n][j - Len(F)]
  BY <1>1, <1>2
<1>5. srcs \in [DOMAIN G -> 1 .. n]
  BY <1>1, <1>3, <1>4
<1> HIDE DEF srcs
<1>6. Lists(srcs, G, seqs, n)
  <2>1. ASSUME NEW j \in DOMAIN G, NEW k \in DOMAIN G, j <= k
        PROVE  srcs[j] <= srcs[k]
    <3>0. j \in Int /\ k \in Int
      BY <1>2
    <3>1. CASE k <= Len(F)
      <4>1. j <= Len(F)
        BY <1>1, <2>1, <3>0, <3>1
      <4>2. j \in DOMAIN F /\ k \in DOMAIN F /\ srcs[j] = src[j] /\ srcs[k] = src[k]
        BY <1>3, <3>1, <4>1
      <4>3. QED
        BY <2>1, <4>2 DEF Lists
    <3>2. CASE ~(k <= Len(F))
      <4>1. srcs[k] = n /\ srcs[j] \in 1 .. n
        BY <1>4, <1>5, <3>2
      <4>2. QED
        BY <1>1, <4>1
    <3>3. QED
      BY <3>1, <3>2
  <2>2. ASSUME NEW j \in DOMAIN G
        PROVE  \E k \in DOMAIN seqs[srcs[j]] : G[j] = seqs[srcs[j]][k]
    <3>1. CASE j <= Len(F)
      BY <1>3, <3>1 DEF Lists
    <3>2. CASE ~(j <= Len(F))
      BY <1>4, <3>2
    <3>3. QED
      BY <3>1, <3>2
  <2>3. ASSUME NEW i \in 1 .. n, NEW k \in DOMAIN seqs[i]
        PROVE  \E j \in DOMAIN G : srcs[j] = i /\ G[j] = seqs[i][k]
    <3>1. CASE i = n
      <4>1. k \in Int /\ Len(F) + k \in DOMAIN G /\ ~(Len(F) + k <= Len(F)) /\ Len(F) + k - Len(F) = k
        BY <1>1, <1>2, <3>1
      <4>2. srcs[Len(F) + k] = n /\ G[Len(F) + k] = seqs[n][k]
        BY <1>4, <4>1
      <4>3. QED
        BY <3>1, <4>1, <4>2
    <3>2. CASE i # n
      <4>1. i \in 1 .. n - 1
        BY <1>1, <3>2
      <4>2. PICK j \in DOMAIN F : src[j] = i /\ F[j] = seqs[i][k]
        BY <4>1 DEF Lists
      <4>3. j \in DOMAIN G /\ j <= Len(F)
        BY <1>1, <1>2
      <4>4. QED
        BY <1>3, <4>2, <4>3
    <3>3. QED
      BY <3>1, <3>2
  <2>4. QED
    BY <2>1, <2>2, <2>3 DEF Lists
<1>7. QED
  BY <1>5, <1>6 DEF G

(* What FlattenSeq gives.                                                  *)
LEMMA Flattened ==
  ASSUME NEW S, NEW seqs \in Seq(Seq(S))
  PROVE  /\ FlattenSeq(seqs) \in Seq(S)
         /\ \E src \in [DOMAIN FlattenSeq(seqs) -> DOMAIN seqs] :
              Lists(src, FlattenSeq(seqs), seqs, Len(seqs))
<1>0. Len(seqs) \in Nat /\ DOMAIN seqs = 1 .. Len(seqs) /\ \A i \in 1 .. Len(seqs) : seqs[i] \in Seq(S)
  OBVIOUS
<1>1. CASE Len(seqs) = 0
  <2>1. seqs = <<>> /\ FlattenSeq(seqs) = <<>>
    BY <1>0, <1>1 DEF FlattenSeq
  <2>2. <<>> \in Seq(S) /\ Lists(<<>>, <<>>, <<>>, 0) /\ <<>> \in [DOMAIN <<>> -> DOMAIN <<>>]
    BY DEF Lists
  <2>3. QED
    BY <1>1, <2>1, <2>2
<1>2. CASE Len(seqs) # 0
  <2> DEFINE Rec(h) == h = [i \in 1 .. Len(seqs) |-> IF i = 1 THEN seqs[i] ELSE h[i - 1] \o seqs[i]]
             f == CHOOSE h : Rec(h)
  <2>1. \E h : Rec(h)
    <3>1. Len(seqs) \in 1 .. Len(seqs)
      BY <1>0, <1>2
    <3>2. PICK h \in [1 .. Len(seqs) -> Seq(S)] : Joins(h, seqs, Len(seqs))
      BY <3>1, JoinsExist
    <3>3. Rec(h)
      BY <3>2 DEF Joins
    <3>4. QED
      BY <3>3
  <2>2. Rec(f)
    BY <2>1
  <2>3. FlattenSeq(seqs) = f[Len(seqs)]
    BY <1>2 DEF FlattenSeq
  <2>4. \A i \in 1 .. Len(seqs) : f[i] = IF i = 1 THEN seqs[i] ELSE f[i - 1] \o seqs[i]
    BY <2>2
  <2> HIDE DEF f
  <2> DEFINE Good(n) == f[n] \in Seq(S) /\ \E src \in [DOMAIN f[n] -> 1 .. n] : Lists(src, f[n], seqs, n)
             Bad == {n \in 1 .. Len(seqs) : ~Good(n)}
  <2>5. Bad = {}
    <3> SUFFICES ASSUME Bad # {} PROVE FALSE
      OBVIOUS
    <3>1. PICK m \in Bad : \A q \in Bad : m <= q
      <4>1. Bad \subseteq Nat
        OBVIOUS
      <4>2. QED
        BY <4>1, NatLeast
    <3>2. m \in 1 .. Len(seqs) /\ ~Good(m)
      OBVIOUS
    <3>3. CASE m = 1
      <4>1. f[1] = seqs[1] /\ f[1] \in Seq(S)
        BY <1>0, <2>4, <3>2, <3>3
      <4>2. [j \in DOMAIN f[1] |-> 1] \in [DOMAIN f[1] -> 1 .. 1]
        OBVIOUS
      <4>3. Lists([j \in DOMAIN f[1] |-> 1], f[1], seqs, 1)
        <5> DEFINE ones == [j \in DOMAIN f[1] |-> 1]
        <5>1. \A j \in DOMAIN f[1] : ones[j] = 1
          OBVIOUS
        <5> HIDE DEF ones, Bad, Good
        <5>2. \A j, k \in DOMAIN f[1] : j <= k => ones[j] <= ones[k]
          BY <5>1
        <5>3. \A j \in DOMAIN f[1] : \E k \in DOMAIN seqs[ones[j]] : f[1][j] = seqs[ones[j]][k]
          BY <4>1, <5>1
        <5>4. \A i \in 1 .. 1 : \A k \in DOMAIN seqs[i] : \E j \in DOMAIN f[1] : ones[j] = i /\ f[1][j] = seqs[i][k]
          BY <4>1, <5>1
        <5>5. Lists(ones, f[1], seqs, 1)
          BY <5>2, <5>3, <5>4 DEF Lists
        <5>6. QED
          BY <5>5 DEF ones
      <4>4. QED
        BY <3>2, <3>3, <4>1, <4>2, <4>3
    <3>4. CASE m # 1
      <4>1. m - 1 \in 1 .. Len(seqs) /\ ~(m <= m - 1)
        BY <3>2, <3>4
      <4>2. Good(m - 1)
        BY <3>1, <4>1
      <4>3. f[m] = f[m - 1] \o seqs[m] /\ seqs[m] \in Seq(S)
        BY <1>0, <2>4, <3>2, <3>4
      <4>4. f[m - 1] \in Seq(S) /\ f[m] \in Seq(S)
        BY <4>2, <4>3
      <4>5. \E srcs \in [DOMAIN f[m] -> 1 .. m] : Lists(srcs, f[m], seqs, m)
        <5> HIDE DEF Bad
        <5>1. PICK src \in [DOMAIN f[m - 1] -> 1 .. m - 1] : Lists(src, f[m - 1], seqs, m - 1)
          BY <4>2
        <5>2. \E srcs \in [DOMAIN (f[m - 1] \o seqs[m]) -> 1 .. m] : Lists(srcs, f[m - 1] \o seqs[m], seqs, m)
          BY <3>2, <3>4, <4>4, <5>1, ListsOneMore
        <5>3. QED
          BY <4>3, <5>2
      <4>6. QED
        BY <3>2, <4>4, <4>5
    <3>5. QED
      BY <3>3, <3>4
  <2>6. Good(Len(seqs))
    BY <1>0, <1>2, <2>5
  <2>7. QED
    BY <1>0, <2>3, <2>6
<1>3. QED
  BY <1>1, <1>2
=============================================================================
