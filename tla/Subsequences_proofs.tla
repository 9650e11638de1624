--------------------------- MODULE Subsequences_proofs ---------------------------
(***************************************************************************)
(* What Array.prototype.filter leaves of a list: the elements kept and no  *)
(* others, each once, in the order they had.                               *)
(***************************************************************************)
EXTENDS Subsequences, FiniteSetTheorems, TLAPS

Positions(K) == IsFiniteSet(K) /\ K \subseteq Nat

LEMMA PositionsOf ==
  ASSUME NEW n \in Nat, NEW K, K \subseteq 1 .. n
  PROVE  Positions(K) /\ Cardinality(K) \in 0 .. n
<1>1. IsFiniteSet(1 .. n) /\ Cardinality(1 .. n) = n
  BY FS_Interval
<1>2. IsFiniteSet(K) /\ Cardinality(K) <= n
  BY <1>1, FS_Subset
<1>3. Cardinality(K) \in Nat
  BY <1>2, FS_CardinalityType
<1> QED
  BY <1>2, <1>3 DEF Positions

LEMMA Subpositions ==
  ASSUME NEW K, Positions(K), NEW T, T \subseteq K
  PROVE  /\ IsFiniteSet(T) /\ Cardinality(T) \in Nat
         /\ Cardinality(T) <= Cardinality(K)
         /\ Cardinality(T) = Cardinality(K) => T = K
<1>1. IsFiniteSet(K) /\ T \in SUBSET K
  BY DEF Positions
<1>2. IsFiniteSet(T) /\ Cardinality(T) <= Cardinality(K)
      /\ (Cardinality(K) = Cardinality(T) => K = T)
  BY <1>1, FS_Subset
<1> QED
  BY <1>2, FS_CardinalityType

\* The positions kept have ranks up to their number.
LEMMA RankTyped ==
  ASSUME NEW K, Positions(K), NEW i \in K
  PROVE  Rank(K, i) \in 1 .. Cardinality(K) /\ Cardinality(K) \in Nat
<1> DEFINE below == {j \in K : j <= i}
<1>1. below \subseteq K /\ i \in below /\ Rank(K, i) = Cardinality(below)
  BY DEF Positions, Rank
<1> HIDE DEF below
<1>2. /\ IsFiniteSet(below) /\ Cardinality(below) \in Nat
      /\ Cardinality(below) <= Cardinality(K)
  BY <1>1, Subpositions
<1>3. Cardinality(below) # 0
  BY <1>1, <1>2, FS_EmptySet
<1>4. Cardinality(K) \in Nat
  BY FS_CardinalityType DEF Positions
<1> QED
  BY <1>1, <1>2, <1>3, <1>4

\* A later position has a greater rank.
LEMMA RankGrows ==
  ASSUME NEW K, Positions(K), NEW i \in K, NEW j \in K, i < j
  PROVE  Rank(K, i) < Rank(K, j)
<1> DEFINE before == {a \in K : a <= i}
           upto == {a \in K : a <= j}
<1>1. i \in Nat /\ j \in Nat /\ \A a \in K : a \in Nat
  BY DEF Positions
<1>2. j \in upto /\ j \notin before
  BY <1>1
<1>3. before \subseteq upto
  <2>1. \A a \in K : a <= i => a <= j
    BY <1>1
  <2> QED
    BY <2>1
<1>4. upto \subseteq K /\ Positions(upto)
  <2>1. upto \subseteq K
    OBVIOUS
  <2> HIDE DEF upto
  <2> QED
    BY <2>1, Subpositions DEF Positions
<1>5. Rank(K, i) = Cardinality(before) /\ Rank(K, j) = Cardinality(upto)
  BY DEF Rank
<1> HIDE DEF before, upto
<1>6. /\ Cardinality(before) \in Nat /\ Cardinality(upto) \in Nat
      /\ Cardinality(before) <= Cardinality(upto)
      /\ Cardinality(before) # Cardinality(upto)
  BY <1>2, <1>3, <1>4, Subpositions
<1> QED
  BY <1>5, <1>6

\* No two positions have the same rank.
LEMMA RanksDiffer ==
  ASSUME NEW K, Positions(K), NEW i \in K, NEW j \in K,
         Rank(K, i) = Rank(K, j)
  PROVE  i = j
<1>1. i \in Nat /\ j \in Nat /\ Rank(K, i) \in Nat
  <2>1. Rank(K, i) \in 1 .. Cardinality(K) /\ Cardinality(K) \in Nat
    BY RankTyped
  <2> QED
    BY <2>1 DEF Positions
<1>2. ~(i < j)
  BY <1>1, RankGrows
<1>3. ~(j < i)
  BY <1>1, RankGrows
<1> QED
  BY <1>1, <1>2, <1>3

\* And so every rank is taken.
LEMMA RanksTaken ==
  ASSUME NEW K, Positions(K), NEW k \in 1 .. Cardinality(K)
  PROVE  \E i \in K : Rank(K, i) = k
<1> DEFINE m == Cardinality(K)
           rank == [i \in K |-> Rank(K, i)]
<1>1. m \in Nat /\ IsFiniteSet(K)
  BY FS_CardinalityType DEF Positions
<1>2. IsFiniteSet(1 .. m) /\ Cardinality(1 .. m) = m
  BY <1>1, FS_Interval
<1>3. rank \in Injection(K, 1 .. m)
  <2>1. rank \in [K -> 1 .. m]
    BY RankTyped
  <2>2. \A i, j \in K : rank[i] = rank[j] => i = j
    BY RanksDiffer
  <2> QED
    BY <2>1, <2>2 DEF Injection, IsInjective
<1>4. rank \in Surjection(K, 1 .. m)
  BY <1>1, <1>2, <1>3, FS_Injection
<1> QED
  BY <1>4 DEF Surjection

\* The list kept is as long as there are positions kept.
LEMMA KeptLength ==
  ASSUME NEW s, NEW K, Positions(K)
  PROVE  /\ Cardinality(K) \in Nat
         /\ DOMAIN KeepAt(s, K) = 1 .. Cardinality(K)
         /\ Len(KeepAt(s, K)) = Cardinality(K)
<1>1. Cardinality(K) \in Nat
  BY FS_CardinalityType DEF Positions
<1> QED
  BY <1>1 DEF KeepAt

\* It holds at each of its positions what the list had at the one of that rank.
LEMMA KeptFrom ==
  ASSUME NEW s, NEW K, Positions(K), NEW k \in 1 .. Cardinality(K)
  PROVE  \E i \in K : Rank(K, i) = k /\ KeepAt(s, K)[k] = s[i]
<1> DEFINE i == CHOOSE i \in K : Rank(K, i) = k
<1>1. i \in K /\ Rank(K, i) = k
  BY RanksTaken
<1>2. KeepAt(s, K)[k] = s[i]
  BY DEF KeepAt
<1> QED
  BY <1>1, <1>2

\* And what the list had at a position kept it holds at its rank.
LEMMA KeptAt ==
  ASSUME NEW s, NEW K, Positions(K), NEW i \in K
  PROVE  Rank(K, i) \in 1 .. Cardinality(K) /\ KeepAt(s, K)[Rank(K, i)] = s[i]
<1>1. Rank(K, i) \in 1 .. Cardinality(K)
  BY RankTyped
<1>2. \E j \in K : /\ Rank(K, j) = Rank(K, i)
                   /\ KeepAt(s, K)[Rank(K, i)] = s[j]
  BY <1>1, KeptFrom
<1>3. \A j \in K : Rank(K, j) = Rank(K, i) => i = j
  BY RanksDiffer
<1> QED
  BY <1>1, <1>2, <1>3

\* Filtering a list keeps the type of its elements.
LEMMA KeptTyped ==
  ASSUME NEW S, NEW s \in Seq(S), NEW K, K \subseteq DOMAIN s
  PROVE  KeepAt(s, K) \in Seq(S) /\ Len(KeepAt(s, K)) <= Len(s)
<1>1. Len(s) \in Nat /\ K \subseteq 1 .. Len(s) /\ \A i \in K : s[i] \in S
  OBVIOUS
<1>2. Positions(K) /\ Cardinality(K) \in 0 .. Len(s)
  BY <1>1, PositionsOf
<1>3. Len(KeepAt(s, K)) = Cardinality(K)
  BY <1>2, KeptLength
<1>4. ASSUME NEW k \in 1 .. Cardinality(K) PROVE KeepAt(s, K)[k] \in S
  <2>1. \E i \in K : Rank(K, i) = k /\ KeepAt(s, K)[k] = s[i]
    BY <1>2, KeptFrom
  <2> QED
    BY <1>1, <2>1
<1>5. KeepAt(s, K) = [k \in 1 .. Cardinality(K) |-> KeepAt(s, K)[k]]
  BY DEF KeepAt
<1> HIDE DEF KeepAt
<1>6. KeepAt(s, K) \in [1 .. Cardinality(K) -> S]
  BY <1>4, <1>5
<1> QED
  BY <1>2, <1>3, <1>6

\* The first of some positions.
LEMMA FirstPosition ==
  ASSUME NEW K, Positions(K), K # {}
  PROVE  \E i \in K : \A j \in K : i <= j
<1>1. PICK a \in K : TRUE
  OBVIOUS
<1>2. 1 \in 1 .. Cardinality(K)
  BY RankTyped
<1>3. PICK i \in K : Rank(K, i) = 1
  BY <1>2, RanksTaken
<1>4. ASSUME NEW j \in K PROVE i <= j
  <2>1. i \in Nat /\ j \in Nat
    BY DEF Positions
  <2>2. Rank(K, j) \in 1 .. Cardinality(K) /\ Cardinality(K) \in Nat
    BY RankTyped
  <2>3. ~(j < i)
    BY <1>3, <2>2, RankGrows
  <2> QED
    BY <2>1, <2>3
<1> QED
  BY <1>4

\* Where nothing is filtered out every element keeps its place.
LEMMA AllKept ==
  ASSUME NEW n \in Nat, NEW K, K \subseteq 1 .. n, Cardinality(K) = n,
         NEW k \in K
  PROVE  Rank(K, k) = k
<1>1. Positions(1 .. n) /\ Cardinality(1 .. n) = n
  BY FS_Interval DEF Positions
<1>2. K = 1 .. n
  BY <1>1, Subpositions
<1>3. {j \in K : j <= k} = 1 .. k
  BY <1>2
<1>4. Cardinality(1 .. k) = k
  BY <1>2, FS_Interval
<1> QED
  BY <1>3, <1>4 DEF Rank

\* The elements kept stand in the order they had.
THEOREM KeptInOrder ==
  ASSUME NEW s, NEW K, Positions(K),
         NEW k \in 1 .. Cardinality(K), NEW l \in 1 .. Cardinality(K), k < l
  PROVE  \E i, j \in K : /\ i < j
                         /\ KeepAt(s, K)[k] = s[i] /\ KeepAt(s, K)[l] = s[j]
<1>1. PICK i \in K : Rank(K, i) = k /\ KeepAt(s, K)[k] = s[i]
  BY KeptFrom
<1>2. PICK j \in K : Rank(K, j) = l /\ KeepAt(s, K)[l] = s[j]
  BY KeptFrom
<1>3. i < j
  <2>1. i \in Nat /\ j \in Nat /\ k \in Nat /\ l \in Nat
    BY DEF Positions
  <2>2. j < i => l < k
    BY <1>1, <1>2, RankGrows
  <2>3. i # j
    BY <1>1, <1>2
  <2> QED
    BY <2>1, <2>2, <2>3
<1> QED
  BY <1>1, <1>2, <1>3
=============================================================================
