-------------------------- MODULE ListProofs -----------------------------
(***************************************************************************)
(* What Lists promises: the elements picked are those at the positions,    *)
(* each once and in order, and totals add up.  With them, what lists that  *)
(* are joined, filtered or sorted hold, and induction and recursion up to  *)
(* a bound, for sets and functions where the library has them for          *)
(* operators.                                                              *)
(***************************************************************************)
EXTENDS Lists, Integers, SequencesExt, FiniteSetTheorems, FunctionTheorems, SequenceTheorems, WellFoundedInduction, TLAPS

(* Positions are counted from 1 without gaps, in order.                    *)
LEMMA NthCounts ==
  ASSUME NEW m \in Nat, NEW K \in SUBSET (1 .. m)
  PROVE  /\ Cardinality(K) \in Nat
         /\ \A n \in 1 .. Cardinality(K) : Nth(K, n) \in K
         /\ \A n1, n2 \in 1 .. Cardinality(K) : n1 < n2 => Nth(K, n1) < Nth(K, n2)
         /\ \A k \in K : \E n \in 1 .. Cardinality(K) : Nth(K, n) = k
<1> DEFINE upto(k) == {j \in K : j <= k}
           rank(k) == Cardinality(upto(k))
           r == [k \in K |-> rank(k)]
           c == Cardinality(K)
<1>1. IsFiniteSet(K)
  <2>1. IsFiniteSet(1 .. m)
    BY FS_Interval
  <2>2. QED
    BY <2>1, FS_Subset
<1>2. c \in Nat
  BY <1>1, FS_CardinalityType
<1>3. \A k \in K : k \in Nat
  OBVIOUS
<1>4. ASSUME NEW k \in K
      PROVE  rank(k) \in 1 .. c
  <2>1. upto(k) \subseteq K /\ k \in upto(k)
    BY <1>3
  <2>2. IsFiniteSet(upto(k)) /\ Cardinality(upto(k)) <= c
    BY <1>1, <2>1, FS_Subset
  <2>3. Cardinality(upto(k)) \in Nat /\ Cardinality(upto(k)) # 0
    BY <2>1, <2>2, FS_CardinalityType, FS_EmptySet
  <2> HIDE DEF upto, c
  <2>4. QED
    BY <1>2, <2>2, <2>3
<1>5. ASSUME NEW j \in K, NEW k \in K, j < k
      PROVE  rank(j) < rank(k)
  <2>0. /\ j \in Nat /\ k \in Nat
        /\ \A i \in K : i <= j => i <= k
    BY <1>3, <1>5
  <2>1. upto(j) \subseteq upto(k) /\ k \in upto(k) /\ k \notin upto(j)
    <3>1. k <= k /\ ~ (k <= j)
      BY <1>5, <2>0
    <3>2. upto(j) \subseteq upto(k)
      BY <2>0
    <3>3. QED
      BY <3>1, <3>2
  <2>2. IsFiniteSet(upto(k))
    BY <1>1, FS_Subset
  <2>3. Cardinality(upto(j)) <= Cardinality(upto(k)) /\ Cardinality(upto(j)) # Cardinality(upto(k))
    BY <2>1, <2>2, FS_Subset
  <2>4. Cardinality(upto(j)) \in Nat /\ Cardinality(upto(k)) \in Nat
    BY <2>1, <2>2, FS_Subset, FS_CardinalityType
  <2> HIDE DEF upto
  <2>5. QED
    BY <2>3, <2>4
<1> HIDE DEF rank, c, upto
<1>6. r \in Injection(K, 1 .. c)
  <2>1. r \in [K -> 1 .. c]
    BY <1>4
  <2>2. \A j, k \in K : r[j] = r[k] => j = k
    <3>1. SUFFICES ASSUME NEW j \in K, NEW k \in K, r[j] = r[k], j # k
                   PROVE  FALSE
      OBVIOUS
    <3>2. rank(j) = rank(k) /\ rank(j) \in Nat
      BY <1>4, <3>1
    <3>3. j < k \/ k < j
      BY <1>3, <3>1
    <3>4. QED
      BY <1>5, <3>2, <3>3
  <2>3. QED
    BY <2>1, <2>2, Fun_IsInj
<1>7. \A t \in 1 .. c : \E k \in K : r[k] = t
  <2>1. IsFiniteSet(1 .. c) /\ Cardinality(1 .. c) = c
    BY <1>2, FS_Interval
  <2>2. Cardinality(K) = Cardinality(1 .. c)
    BY <2>1 DEF c
  <2> HIDE DEF r
  <2>3. r \in Surjection(K, 1 .. c)
    BY <1>6, <2>1, <2>2, FS_Injection
  <2>4. QED
    BY <2>3, Fun_SurjectionProperties
<1>8. ASSUME NEW n \in 1 .. c
      PROVE  Nth(K, n) \in K /\ rank(Nth(K, n)) = n
  <2>1. PICK k \in K : r[k] = n
    BY <1>7
  <2>2. Cardinality({j \in K : j <= k}) = n
    BY <2>1 DEF rank, upto
  <2>3. Nth(K, n) \in K /\ Cardinality({j \in K : j <= Nth(K, n)}) = n
    BY <2>2 DEF Nth
  <2>4. QED
    BY <2>3 DEF rank, upto
<1>9. ASSUME NEW n1 \in 1 .. c, NEW n2 \in 1 .. c, n1 < n2
      PROVE  Nth(K, n1) < Nth(K, n2)
  <2>1. Nth(K, n1) \in Nat /\ Nth(K, n2) \in Nat
    BY <1>3, <1>8
  <2>2. /\ Nth(K, n1) \in K /\ rank(Nth(K, n1)) = n1
        /\ Nth(K, n2) \in K /\ rank(Nth(K, n2)) = n2
    BY <1>8
  <2>3. ~ (Nth(K, n2) < Nth(K, n1)) /\ Nth(K, n1) # Nth(K, n2)
    <3>1. n1 \in Nat /\ n2 \in Nat
      OBVIOUS
    <3>2. Nth(K, n2) < Nth(K, n1) => n2 < n1
      BY <1>5, <2>2
    <3>3. QED
      BY <1>9, <2>2, <3>1, <3>2
  <2>4. QED
    BY <2>1, <2>3
<1>10. ASSUME NEW k \in K
       PROVE  \E n \in 1 .. c : Nth(K, n) = k
  <2>1. rank(k) \in 1 .. c
    BY <1>4
  <2>2. Nth(K, rank(k)) \in K /\ rank(Nth(K, rank(k))) = rank(k)
    BY <1>8, <2>1
  <2>3. Nth(K, rank(k)) = k
    <3>1. r[Nth(K, rank(k))] = r[k]
      BY <2>2
    <3>2. \A i, j \in K : r[i] = r[j] => i = j
      BY <1>6, Fun_InjectionProperties
    <3>3. QED
      BY <2>2, <3>1, <3>2
  <2>4. QED
    BY <2>1, <2>3
<1>11. QED
  BY <1>2, <1>8, <1>9, <1>10 DEF c

(* What is collected is a sequence of the elements at the positions.       *)
LEMMA PickedElements ==
  ASSUME NEW S, NEW s \in Seq(S), NEW K \in SUBSET (DOMAIN s)
  PROVE  /\ Cardinality(K) \in Nat
         /\ Picked(s, K) \in Seq(S)
         /\ Len(Picked(s, K)) = Cardinality(K)
         /\ {Picked(s, K)[n] : n \in DOMAIN Picked(s, K)} = {s[k] : k \in K}
<1> DEFINE c == Cardinality(K)
<1>1. Len(s) \in Nat /\ K \subseteq 1 .. Len(s) /\ s \in [1 .. Len(s) -> S]
  OBVIOUS
<1>2. /\ c \in Nat
      /\ \A n \in 1 .. c : Nth(K, n) \in K
      /\ \A k \in K : \E n \in 1 .. c : Nth(K, n) = k
  BY <1>1, NthCounts
<1> HIDE DEF c
<1>3. Picked(s, K) = [n \in 1 .. c |-> s[Nth(K, n)]]
  BY DEF Picked, c
<1>4. Picked(s, K) \in [1 .. c -> S]
  BY <1>1, <1>2, <1>3
<1>5. Picked(s, K) \in Seq(S) /\ Len(Picked(s, K)) = c /\ DOMAIN Picked(s, K) = 1 .. c
  BY <1>2, <1>4
<1>6. {Picked(s, K)[n] : n \in 1 .. c} = {s[k] : k \in K}
  BY <1>2, <1>3
<1>7. QED
  BY <1>2, <1>5, <1>6 DEF c

(* What is kept of a list is what of it is in the set.                     *)
LEMMA KeptElements ==
  ASSUME NEW T, NEW s \in Seq(T), NEW S
  PROVE  /\ Kept(s, S) \in Seq(T)
         /\ \A x : (\E n \in DOMAIN Kept(s, S) : Kept(s, S)[n] = x) <=> x \in S /\ \E k \in DOMAIN s : s[k] = x
<1> DEFINE K == {k \in DOMAIN s : s[k] \in S}
<1>1. Picked(s, K) \in Seq(T) /\ {Picked(s, K)[n] : n \in DOMAIN Picked(s, K)} = {s[k] : k \in K}
  <2>1. K \in SUBSET (DOMAIN s)
    OBVIOUS
  <2> HIDE DEF K
  <2>2. QED
    BY <2>1, PickedElements
<1>2. QED
  BY <1>1 DEF Kept

LEMMA AscendingOrder ==
  ASSUME NEW m \in Nat, NEW K \in SUBSET (1 .. m)
  PROVE  /\ Ascending(K) \in Seq(K)
         /\ \A n1, n2 \in DOMAIN Ascending(K) : n1 < n2 => Ascending(K)[n1] < Ascending(K)[n2]
         /\ \A k \in K : \E n \in DOMAIN Ascending(K) : Ascending(K)[n] = k
<1> DEFINE c == Cardinality(K)
<1>1. /\ c \in Nat
      /\ \A n \in 1 .. c : Nth(K, n) \in K
      /\ \A n1, n2 \in 1 .. c : n1 < n2 => Nth(K, n1) < Nth(K, n2)
      /\ \A k \in K : \E n \in 1 .. c : Nth(K, n) = k
  BY NthCounts
<1> HIDE DEF c
<1>2. Ascending(K) = [n \in 1 .. c |-> Nth(K, n)]
  BY DEF Ascending, c
<1>3. Ascending(K) \in [1 .. c -> K] /\ DOMAIN Ascending(K) = 1 .. c
  BY <1>1, <1>2
<1>4. Ascending(K) \in Seq(K)
  BY <1>1, <1>3
<1>5. QED
  BY <1>1, <1>2, <1>3, <1>4

-----------------------------------------------------------------------------
(* Induction and recursion up to a bound.                                  *)

(* A set of naturals that is not empty has a smallest element.             *)
LEMMA LeastElement ==
  ASSUME NEW S \in SUBSET Nat, S # {}
  PROVE  \E m \in S : \A i \in S : m <= i
<1>1. PICK m \in S : \A i \in S : ~ (<<i, m>> \in OpToRel(<, Nat))
  BY NatLessThanWellFounded, WFMin
<1>2. \A i \in S : m <= i
  <2>1. TAKE i \in S
  <2>2. <<i, m>> \in Nat \X Nat /\ ~ (i < m)
    BY <1>1 DEF OpToRel
  <2>3. QED
    BY <2>2
<1>3. QED
  BY <1>2

(* What holds of 0 and is handed on holds up to the bound.                 *)
LEMMA Induction ==
  ASSUME NEW N \in Nat, NEW P, 0 \in P, \A n \in 1 .. N : n - 1 \in P => n \in P
  PROVE  \A n \in 0 .. N : n \in P
<1> DEFINE F == {n \in 0 .. N : n \notin P}
<1>1. SUFFICES ASSUME F # {}
               PROVE  FALSE
  OBVIOUS
<1>2. PICK m \in F : \A i \in F : m <= i
  <2>1. F \in SUBSET Nat
    OBVIOUS
  <2>2. QED
    BY <1>1, <2>1, LeastElement
<1>3. m # 0 /\ m \in 0 .. N /\ m \notin P
  OBVIOUS
<1>4. m \in 1 .. N /\ m - 1 \in 0 .. N /\ ~ (m <= m - 1)
  BY <1>3
<1>5. m - 1 \in P
  BY <1>2, <1>4
<1>6. QED
  BY <1>3, <1>4, <1>5

(* f goes N steps from a base.                                             *)
Iterates(f, N, base, step) == f[0] = base /\ \A n \in 1 .. N : f[n] = step[<<f[n - 1], n>>]

(* A function that is defined from its previous value exists.              *)
LEMMA Recursion ==
  ASSUME NEW N \in Nat, NEW D, NEW base \in D, NEW step \in [D \X (1 .. N) -> D]
  PROVE  \E f \in [0 .. N -> D] : Iterates(f, N, base, step)
<1> DEFINE Upto(m, f) == f[0] = base /\ \A n \in 1 .. m : f[n] = step[<<f[n - 1], n>>]
           P == {m \in 0 .. N : \E f \in [0 .. m -> D] : Upto(m, f)}
<1>1. 0 \in P
  <2>1. [n \in 0 .. 0 |-> base] \in [0 .. 0 -> D] /\ Upto(0, [n \in 0 .. 0 |-> base])
    OBVIOUS
  <2> HIDE DEF Upto
  <2>2. QED
    BY <2>1
<1>2. ASSUME NEW m \in 1 .. N, m - 1 \in P
      PROVE  m \in P
  <2>1. PICK f \in [0 .. m - 1 -> D] : Upto(m - 1, f)
    BY <1>2
  <2> DEFINE g == [n \in 0 .. m |-> IF n = m THEN step[<<f[m - 1], m>>] ELSE f[n]]
  <2>2. m - 1 \in 0 .. m - 1 /\ (\A n \in 0 .. m : n = m \/ n \in 0 .. m - 1)
    OBVIOUS
  <2>3. step[<<f[m - 1], m>>] \in D
    BY <2>2
  <2>4. g \in [0 .. m -> D]
    BY <2>2, <2>3
  <2>5. g[0] = base
    <3>1. 0 \in 0 .. m /\ 0 # m
      OBVIOUS
    <3>2. QED
      BY <2>1, <3>1
  <2>6. ASSUME NEW n \in 1 .. m
        PROVE  g[n] = step[<<g[n - 1], n>>]
    <3>1. n \in 0 .. m /\ n - 1 \in 0 .. m /\ n - 1 # m /\ (n = m \/ n \in 1 .. m - 1)
      OBVIOUS
    <3>2. g[n - 1] = f[n - 1]
      BY <3>1
    <3>3. CASE n = m
      BY <3>1, <3>2, <3>3
    <3>4. CASE n \in 1 .. m - 1
      <4>1. n # m
        BY <3>4
      <4>2. f[n] = step[<<f[n - 1], n>>]
        BY <2>1, <3>4
      <4>3. QED
        BY <3>1, <3>2, <4>1, <4>2
    <3>5. QED
      BY <3>1, <3>3, <3>4
  <2>7. Upto(m, g)
    BY <2>5, <2>6
  <2> HIDE DEF g, Upto
  <2>8. QED
    BY <2>4, <2>7
<1> HIDE DEF P
<1>3. N \in P
  <2>1. \A n \in 0 .. N : n \in P
    BY <1>1, <1>2, Induction
  <2>2. QED
    BY <2>1
<1>4. PICK f \in [0 .. N -> D] : Upto(N, f)
  BY <1>3 DEF P
<1>5. QED
  BY <1>4 DEF Iterates

(* Totals.                                                                 *)

LEMMA PositionsAreFinite ==
  ASSUME NEW n \in Nat
  PROVE  IsFiniteSet(1 .. n) /\ Cardinality(1 .. n) = n
BY FS_Interval

(* What has no element in common is counted apart.                         *)
LEMMA CountedApart ==
  ASSUME NEW S, NEW T, IsFiniteSet(S), IsFiniteSet(T), S \cap T = {}
  PROVE  Cardinality(S \cup T) = Cardinality(S) + Cardinality(T)
<1>1. Cardinality(S \cap T) = 0
  BY FS_EmptySet
<1>2. Cardinality(S) \in Nat /\ Cardinality(T) \in Nat
  BY FS_CardinalityType
<1>3. Cardinality(S \cup T) = Cardinality(S) + Cardinality(T) - Cardinality(S \cap T)
  BY FS_Union
<1>4. QED
  BY <1>1, <1>2, <1>3

LEMMA UnitsAreFinite ==
  ASSUME NEW S, IsFiniteSet(S), NEW f \in [S -> Nat]
  PROVE  IsFiniteSet(Units(f)) /\ Total(f) \in Nat
<1> DEFINE E(x) == {x} \X (1 .. f[x])
           T == {E(x) : x \in S}
           g == [x \in S |-> E(x)]
<1>1. g \in Surjection(S, T)
  BY Fun_IsSurj
<1>2. IsFiniteSet(T)
  BY <1>1, FS_Surjection
<1>3. \A t \in T : IsFiniteSet(t)
  <2>1. ASSUME NEW x \in S
        PROVE  IsFiniteSet(E(x))
    <3>1. f[x] \in Nat
      OBVIOUS
    <3>2. IsFiniteSet({x}) /\ IsFiniteSet(1 .. f[x])
      BY <3>1, PositionsAreFinite, FS_Singleton
    <3>3. QED
      BY <3>2, FS_Product
  <2>2. QED
    BY <2>1
<1>4. IsFiniteSet(UNION T)
  BY <1>2, <1>3, FS_UNION
<1>5. QED
  BY <1>4, FS_CardinalityType DEF Units, Total

(* h is f on S and g on T, two finite sets that share nothing.              *)
Splits(h, f, g, S, T) ==
  /\ IsFiniteSet(S) /\ IsFiniteSet(T) /\ S \cap T = {}
  /\ f \in [S -> Nat] /\ g \in [T -> Nat] /\ h \in [S \cup T -> Nat]
  /\ \A x \in S : h[x] = f[x]
  /\ \A x \in T : h[x] = g[x]

(* A total splits with its domain.                                         *)
LEMMA TotalSplits ==
  ASSUME NEW h, NEW f, NEW g, NEW S, NEW T, Splits(h, f, g, S, T)
  PROVE  Total(h) = Total(f) + Total(g)
<1> USE DEF Splits
<1>1. Units(f) \cap Units(g) = {}
  <2>1. \A u \in Units(f) : u[1] \in S
    BY DEF Units
  <2>2. \A u \in Units(g) : u[1] \in T
    BY DEF Units
  <2>3. QED
    BY <2>1, <2>2
<1>2. Units(h) = Units(f) \cup Units(g)
  <2>1. \A u : u \in Units(h) <=> \E x \in S \cup T : u \in {x} \X (1 .. h[x])
    BY DEF Units
  <2>2. \A u : u \in Units(f) <=> \E x \in S : u \in {x} \X (1 .. f[x])
    BY DEF Units
  <2>3. \A u : u \in Units(g) <=> \E x \in T : u \in {x} \X (1 .. g[x])
    BY DEF Units
  <2>4. \A x \in S : {x} \X (1 .. h[x]) = {x} \X (1 .. f[x])
    OBVIOUS
  <2>5. \A x \in T : {x} \X (1 .. h[x]) = {x} \X (1 .. g[x])
    OBVIOUS
  <2>6. QED
    BY <2>1, <2>2, <2>3, <2>4, <2>5
<1>3. IsFiniteSet(Units(f)) /\ IsFiniteSet(Units(g)) /\ Total(f) \in Nat /\ Total(g) \in Nat
  BY UnitsAreFinite
<1>4. Cardinality(Units(f) \cap Units(g)) = 0
  BY <1>1, FS_EmptySet
<1>5. Cardinality(Units(h)) = Cardinality(Units(f)) + Cardinality(Units(g)) - Cardinality(Units(f) \cap Units(g))
  BY <1>2, <1>3, FS_Union
<1>6. QED
  BY <1>3, <1>4, <1>5 DEF Total

LEMMA TotalOfOne ==
  ASSUME NEW x, NEW n \in Nat, NEW f, f = [y \in {x} |-> n]
  PROVE  Total(f) = n
<1>1. Units(f) = {x} \X (1 .. n)
  BY DEF Units
<1>2. IsFiniteSet({x}) /\ IsFiniteSet(1 .. n) /\ Cardinality({x}) = 1 /\ Cardinality(1 .. n) = n
  BY PositionsAreFinite, FS_Singleton
<1>3. Cardinality({x} \X (1 .. n)) = 1 * n
  BY <1>2, FS_Product
<1>4. Total(f) = Cardinality({x} \X (1 .. n))
  BY <1>1 DEF Total
<1>5. QED
  BY <1>3, <1>4

LEMMA TotalOfNone == Total(<<>>) = 0
<1>1. Units(<<>>) = {}
  BY DEF Units
<1>2. QED
  BY <1>1, FS_EmptySet DEF Total

(* One number more, that much more.                                        *)
LEMMA TotalAppend ==
  ASSUME NEW s \in Seq(Nat), NEW n \in Nat
  PROVE  Total(s) \in Nat /\ Total(Append(s, n)) = Total(s) + n
<1> DEFINE m == Len(s)
           g == [i \in {m + 1} |-> n]
           h == Append(s, n)
<1>1. m \in Nat /\ s \in [1 .. m -> Nat] /\ g \in [{m + 1} -> Nat]
  OBVIOUS
<1>2. h \in [1 .. m + 1 -> Nat] /\ (\A i \in 1 .. m : h[i] = s[i]) /\ h[m + 1] = n
  <2>1. /\ h \in Seq(Nat) /\ Len(h) = m + 1
        /\ (\A i \in 1 .. m : h[i] = s[i]) /\ h[m + 1] = n
    BY AppendProperties
  <2> HIDE DEF h, m
  <2>2. h \in [1 .. Len(h) -> Nat]
    BY <2>1
  <2>3. QED
    BY <2>1, <2>2
<1>3. IsFiniteSet(1 .. m) /\ IsFiniteSet({m + 1})
  BY <1>1, PositionsAreFinite, FS_Singleton
<1>4. 1 .. m + 1 = (1 .. m) \cup {m + 1} /\ (1 .. m) \cap {m + 1} = {}
  BY <1>1
<1>5. Total(g) = n
  BY TotalOfOne
<1>6. \A i \in {m + 1} : h[i] = g[i]
  BY <1>2
<1> HIDE DEF g, h, m
<1>7. Total(h) = Total(s) + Total(g)
  <2>1. h \in [(1 .. m) \cup {m + 1} -> Nat]
    BY <1>2, <1>4
  <2>2. Splits(h, s, g, 1 .. m, {m + 1})
    BY <1>1, <1>2, <1>3, <1>4, <1>6, <2>1 DEF Splits
  <2>3. QED
    BY <2>2, TotalSplits
<1>8. Total(s) \in Nat
  BY <1>1, <1>3, UnitsAreFinite
<1>9. QED
  BY <1>5, <1>7, <1>8 DEF h

(* The elements of a list: all of them, the first and the last.            *)
LEMMA ElementsOf ==
  ASSUME NEW T, NEW s \in Seq(T)
  PROVE  /\ ToSet(s) \subseteq T
         /\ s \in Seq(ToSet(s))
         /\ (s = <<>> <=> ToSet(s) = {})
         /\ (s # <<>> => s[1] \in ToSet(s) /\ Last(s) \in ToSet(s) /\ Len(s) \in Nat \ {0} /\ Last(s) = s[Len(s)])
<1>1. Len(s) \in Nat /\ DOMAIN s = 1 .. Len(s) /\ s \in [1 .. Len(s) -> T]
  OBVIOUS
<1>2. s \in [1 .. Len(s) -> ToSet(s)]
  BY <1>1 DEF ToSet
<1>3. s \in Seq(ToSet(s))
  BY <1>1, <1>2
<1>4. s = <<>> <=> Len(s) = 0
  OBVIOUS
<1>5. Len(s) # 0 => 1 \in DOMAIN s /\ Len(s) \in DOMAIN s
  BY <1>1
<1>6. \A i \in DOMAIN s : s[i] \in ToSet(s)
  BY DEF ToSet
<1>7. s = <<>> => ToSet(s) = {}
  BY DEF ToSet
<1>8. s # <<>> => s[1] \in ToSet(s) /\ Last(s) \in ToSet(s) /\ Len(s) \in Nat \ {0} /\ Last(s) = s[Len(s)]
  BY <1>1, <1>4, <1>5, <1>6 DEF Last
<1>9. ToSet(s) \subseteq T
  BY <1>1 DEF ToSet
<1>10. QED
  BY <1>3, <1>7, <1>8, <1>9

(* Two lists, one after the other.                                         *)
LEMMA JoinedElements ==
  ASSUME NEW T, NEW s \in Seq(T), NEW t \in Seq(T)
  PROVE  s \o t \in Seq(T) /\ ToSet(s \o t) = ToSet(s) \cup ToSet(t)
<1>1. /\ s \o t \in Seq(T) /\ Len(s \o t) = Len(s) + Len(t) /\ Len(s) \in Nat /\ Len(t) \in Nat
      /\ \A i \in 1 .. Len(s) + Len(t) : (s \o t)[i] = IF i <= Len(s) THEN s[i] ELSE t[i - Len(s)]
  BY ConcatProperties
<1> DEFINE u == s \o t
<1>2. DOMAIN u = 1 .. Len(s) + Len(t) /\ DOMAIN s = 1 .. Len(s) /\ DOMAIN t = 1 .. Len(t)
  BY <1>1
<1> HIDE DEF u
<1>3. ASSUME NEW i \in DOMAIN u
      PROVE  u[i] \in ToSet(s) \cup ToSet(t)
  <2>1. CASE i <= Len(s)
    BY <1>1, <1>2, <2>1 DEF ToSet, u
  <2>2. CASE ~ (i <= Len(s))
    <3>1. i - Len(s) \in DOMAIN t /\ u[i] = t[i - Len(s)]
      BY <1>1, <1>2, <2>2 DEF u
    <3>2. QED
      BY <3>1 DEF ToSet
  <2>3. QED
    BY <2>1, <2>2
<1>4. ASSUME NEW i \in DOMAIN s
      PROVE  s[i] \in ToSet(u)
  <2>1. i \in DOMAIN u /\ u[i] = s[i]
    BY <1>1, <1>2 DEF u
  <2>2. QED
    BY <2>1 DEF ToSet
<1>5. ASSUME NEW i \in DOMAIN t
      PROVE  t[i] \in ToSet(u)
  <2>1. i + Len(s) \in DOMAIN u /\ u[i + Len(s)] = t[i]
    BY <1>1, <1>2 DEF u
  <2>2. QED
    BY <2>1 DEF ToSet
<1>6. QED
  BY <1>1, <1>3, <1>4, <1>5 DEF ToSet, u

(* A list has finitely many elements.                                      *)
LEMMA ElementsAreFinite ==
  ASSUME NEW T, NEW s \in Seq(T)
  PROVE  IsFiniteSet(ToSet(s))
<1>1. Len(s) \in Nat /\ DOMAIN s = 1 .. Len(s)
  OBVIOUS
<1>2. IsFiniteSet(1 .. Len(s))
  BY <1>1, FS_Interval
<1> DEFINE f == [i \in 1 .. Len(s) |-> s[i]]
<1>3. f \in Surjection(1 .. Len(s), ToSet(s))
  BY <1>1, Fun_IsSurj DEF ToSet
<1>4. QED
  BY <1>2, <1>3, FS_Surjection

LEMMA KeptSet ==
  ASSUME NEW T, NEW s \in Seq(T), NEW S
  PROVE  Kept(s, S) \in Seq(T) /\ ToSet(Kept(s, S)) = ToSet(s) \cap S
<1>1. Kept(s, S) \in Seq(T)
  BY KeptElements
<1>2. \A x : (\E n \in DOMAIN Kept(s, S) : Kept(s, S)[n] = x) <=> x \in S /\ \E k \in DOMAIN s : s[k] = x
  BY KeptElements
<1>3. QED
  BY <1>1, <1>2 DEF ToSet

(* Lists that say nothing twice.                                           *)
Once(s, S) == s \in Seq(S) /\ IsInjective(s)

(* Two such lists of different elements, one after the other.              *)
LEMMA OnceJoined ==
  ASSUME NEW S, NEW T, S \cap T = {}, NEW s, NEW t, Once(s, S), Once(t, T)
  PROVE  Once(s \o t, S \cup T)
<1> DEFINE u == s \o t
<1>1. s \in Seq(S \cup T) /\ t \in Seq(S \cup T) /\ s \in Seq(S) /\ t \in Seq(T)
  BY DEF Once
<1>2. /\ u \in Seq(S \cup T) /\ Len(u) = Len(s) + Len(t)
      /\ \A i \in 1 .. Len(s) + Len(t) : u[i] = IF i <= Len(s) THEN s[i] ELSE t[i - Len(s)]
  BY <1>1, ConcatProperties
<1> HIDE DEF u
<1>3. Len(s) \in Nat /\ Len(t) \in Nat /\ DOMAIN s = 1 .. Len(s) /\ DOMAIN t = 1 .. Len(t)
      /\ DOMAIN u = 1 .. Len(s) + Len(t)
  BY <1>1, <1>2
<1>4. \A i \in DOMAIN s : s[i] \in S
  BY <1>1
<1>5. \A i \in DOMAIN t : t[i] \in T
  BY <1>1
<1>6. ASSUME NEW i \in DOMAIN u, NEW j \in DOMAIN u, u[i] = u[j]
      PROVE  i = j
  <2>1. CASE i <= Len(s) /\ j <= Len(s)
    <3>1. i \in DOMAIN s /\ j \in DOMAIN s /\ s[i] = s[j]
      BY <1>2, <1>3, <1>6, <2>1
    <3>2. QED
      BY <3>1 DEF Once, IsInjective
  <2>2. CASE ~ (i <= Len(s)) /\ ~ (j <= Len(s))
    <3>1. i - Len(s) \in DOMAIN t /\ j - Len(s) \in DOMAIN t /\ t[i - Len(s)] = t[j - Len(s)]
      BY <1>2, <1>3, <1>6, <2>2
    <3>2. i - Len(s) = j - Len(s)
      BY <3>1 DEF Once, IsInjective
    <3>3. QED
      BY <1>3, <3>2
  <2>3. CASE i <= Len(s) /\ ~ (j <= Len(s))
    <3>1. i \in DOMAIN s /\ j - Len(s) \in DOMAIN t /\ s[i] = t[j - Len(s)]
      BY <1>2, <1>3, <1>6, <2>3
    <3>2. QED
      BY <1>4, <1>5, <3>1
  <2>4. CASE ~ (i <= Len(s)) /\ j <= Len(s)
    <3>1. j \in DOMAIN s /\ i - Len(s) \in DOMAIN t /\ s[j] = t[i - Len(s)]
      BY <1>2, <1>3, <1>6, <2>4
    <3>2. QED
      BY <1>4, <1>5, <3>1
  <2>5. QED
    BY <2>1, <2>2, <2>3, <2>4
<1>7. IsInjective(u)
  BY <1>6 DEF IsInjective
<1>8. QED
  BY <1>2, <1>7 DEF Once, u

(* Total orders, as sets of pairs.                                         *)
Ordered(R, S) ==
  /\ \A a, b \in S : <<a, b>> \in R => <<b, a>> \notin R
  /\ \A a, b \in S : a # b => <<a, b>> \in R \/ <<b, a>> \in R
  /\ \A a, b, c \in S : <<a, b>> \in R /\ <<b, c>> \in R => <<a, c>> \in R

Preceding(R, S, c) == {d \in S : <<d, c>> \in R}
PlaceIn(R, S, c) == Cardinality(Preceding(R, S, c)) + 1

(* In a finite order every place is taken once, in order.                  *)
LEMMA PlacesAreTaken ==
  ASSUME NEW S, IsFiniteSet(S), NEW R, Ordered(R, S)
  PROVE  /\ Cardinality(S) \in Nat
         /\ \A c \in S : PlaceIn(R, S, c) \in 1 .. Cardinality(S)
         /\ \A a, b \in S : <<a, b>> \in R => PlaceIn(R, S, a) < PlaceIn(R, S, b)
         /\ \A n \in 1 .. Cardinality(S) : \E c \in S : PlaceIn(R, S, c) = n
<1> DEFINE p == [c \in S |-> PlaceIn(R, S, c)]
           m == Cardinality(S)
<1>1. m \in Nat
  BY FS_CardinalityType
<1>2. ASSUME NEW c \in S
      PROVE  /\ IsFiniteSet(Preceding(R, S, c)) /\ Cardinality(Preceding(R, S, c)) \in Nat
             /\ PlaceIn(R, S, c) \in 1 .. m
  <2>1. Preceding(R, S, c) \subseteq S /\ c \notin Preceding(R, S, c)
    BY DEF Preceding, Ordered
  <2>2. /\ IsFiniteSet(Preceding(R, S, c)) /\ Cardinality(Preceding(R, S, c)) <= m
        /\ (Cardinality(Preceding(R, S, c)) = m => Preceding(R, S, c) = S)
    BY <2>1, FS_Subset
  <2>3. Cardinality(Preceding(R, S, c)) \in Nat /\ Cardinality(Preceding(R, S, c)) # m
    BY <2>1, <2>2, FS_CardinalityType
  <2> HIDE DEF m
  <2>4. QED
    BY <1>1, <2>2, <2>3 DEF PlaceIn
<1>3. ASSUME NEW a \in S, NEW b \in S, <<a, b>> \in R
      PROVE  PlaceIn(R, S, a) < PlaceIn(R, S, b)
  <2>1. Preceding(R, S, a) \subseteq Preceding(R, S, b) /\ a \in Preceding(R, S, b) /\ a \notin Preceding(R, S, a)
    BY <1>3 DEF Preceding, Ordered
  <2>2. /\ Cardinality(Preceding(R, S, a)) <= Cardinality(Preceding(R, S, b))
        /\ Cardinality(Preceding(R, S, a)) # Cardinality(Preceding(R, S, b))
    BY <1>2, <2>1, FS_Subset
  <2>3. QED
    BY <1>2, <2>2 DEF PlaceIn
<1>4. p \in Injection(S, 1 .. m)
  <2>1. p \in [S -> 1 .. m]
    BY <1>2
  <2>2. ASSUME NEW a \in S, NEW b \in S, p[a] = p[b], a # b
        PROVE  FALSE
    <3>1. <<a, b>> \in R \/ <<b, a>> \in R
      BY <2>2 DEF Ordered
    <3>2. PlaceIn(R, S, a) = PlaceIn(R, S, b) /\ PlaceIn(R, S, a) \in Nat
      BY <1>2, <2>2
    <3>3. QED
      BY <1>3, <3>1, <3>2
  <2>3. QED
    BY <2>1, <2>2, Fun_IsInj
<1>5. \A n \in 1 .. m : \E c \in S : p[c] = n
  <2>1. IsFiniteSet(1 .. m) /\ Cardinality(1 .. m) = m
    BY <1>1, FS_Interval
  <2>2. Cardinality(S) = Cardinality(1 .. m)
    BY <2>1 DEF m
  <2> HIDE DEF p
  <2>3. p \in Surjection(S, 1 .. m)
    BY <1>4, <2>1, <2>2, FS_Injection
  <2>4. QED
    BY <2>3, Fun_SurjectionProperties
<1>6. QED
  BY <1>1, <1>2, <1>3, <1>5

(* A list of the elements by their places.                                 *)
Sorted(s, R, S) ==
  /\ s = [n \in 1 .. Cardinality(S) |-> s[n]]
  /\ \A n \in 1 .. Cardinality(S) : s[n] \in S /\ PlaceIn(R, S, s[n]) = n

(* Such a list has every element once, in order.                           *)
LEMMA SortedElements ==
  ASSUME NEW S, IsFiniteSet(S), NEW R, Ordered(R, S), NEW s, Sorted(s, R, S)
  PROVE  /\ Cardinality(S) \in Nat
         /\ s \in Seq(S) /\ Len(s) = Cardinality(S)
         /\ ToSet(s) = S
         /\ \A n, m \in DOMAIN s : n < m => <<s[n], s[m]>> \in R
<1> DEFINE k == Cardinality(S)
<1>1. /\ k \in Nat
      /\ \A c \in S : PlaceIn(R, S, c) \in 1 .. k
      /\ \A a, b \in S : <<a, b>> \in R => PlaceIn(R, S, a) < PlaceIn(R, S, b)
      /\ \A n \in 1 .. k : \E c \in S : PlaceIn(R, S, c) = n
  BY PlacesAreTaken
<1> HIDE DEF k
<1>2. s = [n \in 1 .. k |-> s[n]]
  BY DEF Sorted, k
<1>3. ASSUME NEW n \in 1 .. k
      PROVE  s[n] \in S /\ PlaceIn(R, S, s[n]) = n
  BY DEF Sorted, k
<1>4. DOMAIN s = 1 .. k /\ s \in [1 .. k -> S]
  BY <1>2, <1>3
<1>5. s \in Seq(S) /\ Len(s) = k
  BY <1>1, <1>4
<1>6. ASSUME NEW a \in S, NEW b \in S, PlaceIn(R, S, a) = PlaceIn(R, S, b)
      PROVE  a = b
  <2>1. a # b => <<a, b>> \in R \/ <<b, a>> \in R
    BY DEF Ordered
  <2>2. PlaceIn(R, S, a) \in Nat /\ PlaceIn(R, S, b) \in Nat
    BY <1>1
  <2>3. QED
    BY <1>1, <1>6, <2>1, <2>2
<1>7. ASSUME NEW c \in S
      PROVE  c \in ToSet(s)
  <2>1. PlaceIn(R, S, c) \in 1 .. k
    BY <1>1
  <2>2. s[PlaceIn(R, S, c)] = c
    BY <1>3, <1>6, <2>1
  <2>3. QED
    BY <1>4, <2>1, <2>2 DEF ToSet
<1>8. ASSUME NEW n \in 1 .. k, NEW m \in 1 .. k, n < m
      PROVE  <<s[n], s[m]>> \in R
  <2>1. s[n] # s[m] /\ ~ (<<s[m], s[n]>> \in R)
    <3>1. n \in Nat /\ m \in Nat
      OBVIOUS
    <3>2. QED
      BY <1>1, <1>3, <1>8, <3>1
  <2>2. QED
    BY <1>3, <2>1 DEF Ordered
<1>9. ToSet(s) = S
  BY <1>3, <1>4, <1>7 DEF ToSet
<1>10. QED
  BY <1>1, <1>4, <1>5, <1>8, <1>9 DEF k
==============================================================================
