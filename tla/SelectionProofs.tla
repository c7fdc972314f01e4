-------------------------- MODULE SelectionProofs --------------------------
(***************************************************************************)
(* What filtering a list keeps of it, for every list.                      *)
(***************************************************************************)
EXTENDS Selection, FiniteSetTheorems, TLAPS

\* A position has one place, and each place one position.
LEMMA RanksAreExact ==
    ASSUME NEW n \in Nat, NEW K \in SUBSET (1 .. n)
    PROVE  /\ Cardinality(K) \in Nat
           /\ \A i \in K : Rank(i, K) \in 1 .. Cardinality(K)
           /\ \A i, j \in K : Rank(i, K) = Rank(j, K) => i = j
           /\ \A k \in 1 .. Cardinality(K) : \E i \in K : Rank(i, K) = k
<1> DEFINE upto(i) == {j \in K : j <= i}
           size    == Cardinality(K)
           rank    == [i \in K |-> Rank(i, K)]
<1>0. \A i \in K : i \in Nat OBVIOUS
<1>1. IsFiniteSet(K) /\ size \in Nat
  <2>1. IsFiniteSet(1 .. n) BY FS_Interval
  <2> QED BY <2>1, FS_Subset, FS_CardinalityType
<1>2. \A i \in K : IsFiniteSet(upto(i)) /\ Rank(i, K) = Cardinality(upto(i))
                   /\ Rank(i, K) \in 0 .. size
  <2> SUFFICES ASSUME NEW i \in K
               PROVE  /\ IsFiniteSet(upto(i)) /\ Rank(i, K) = Cardinality(upto(i))
                      /\ Rank(i, K) \in 0 .. size
    OBVIOUS
  <2>1. upto(i) \in SUBSET K /\ Rank(i, K) = Cardinality(upto(i)) BY DEF Rank
  <2> HIDE DEF upto
  <2>2. IsFiniteSet(upto(i)) /\ Cardinality(upto(i)) <= size BY <1>1, <2>1, FS_Subset
  <2>3. Cardinality(upto(i)) \in Nat BY <2>2, FS_CardinalityType
  <2> QED BY <1>1, <2>1, <2>2, <2>3
<1>3. \A i, j \in K : i < j => Rank(i, K) < Rank(j, K)
  <2> SUFFICES ASSUME NEW i \in K, NEW j \in K, i < j PROVE Rank(i, K) < Rank(j, K) OBVIOUS
  <2>1. i \in Nat /\ j \in Nat /\ ~ (j <= i) /\ j <= j BY <1>0
  <2>2. \A k \in upto(i) : k \in K /\ k <= j BY <1>0, <2>1
  <2>3. upto(i) \in SUBSET upto(j) /\ j \in upto(j) /\ j \notin upto(i) BY <2>1, <2>2
  <2>4. /\ IsFiniteSet(upto(j)) /\ Rank(i, K) = Cardinality(upto(i))
        /\ Rank(j, K) = Cardinality(upto(j)) /\ Rank(i, K) \in Nat /\ Rank(j, K) \in Nat
    BY <1>2
  <2> HIDE DEF upto
  <2>5. /\ Cardinality(upto(i)) <= Cardinality(upto(j))
        /\ Cardinality(upto(j)) = Cardinality(upto(i)) => upto(j) = upto(i)
    BY <2>3, <2>4, FS_Subset
  <2> QED BY <2>3, <2>4, <2>5
<1>4. \A i \in K : Rank(i, K) \in 1 .. size
  <2> SUFFICES ASSUME NEW i \in K PROVE Rank(i, K) \in 1 .. size OBVIOUS
  <2>1. i \in upto(i) BY <1>0
  <2> HIDE DEF upto, size
  <2>2. Rank(i, K) # 0 BY <1>2, <2>1, FS_EmptySet
  <2> QED BY <1>1, <1>2, <2>2
<1>5. \A i, j \in K : Rank(i, K) = Rank(j, K) => i = j
  <2> SUFFICES ASSUME NEW i \in K, NEW j \in K, Rank(i, K) = Rank(j, K), i # j PROVE FALSE
    OBVIOUS
  <2>1. i < j \/ j < i BY <1>0
  <2>2. Rank(i, K) \in Nat /\ Rank(j, K) \in Nat BY <1>1, <1>4
  <2> QED BY <1>3, <2>1, <2>2
<1>6. rank \in Injection(K, 1 .. size)
  <2>1. rank \in [K -> 1 .. size] BY <1>4
  <2>2. \A i, j \in K : rank[i] = rank[j] => i = j BY <1>5
  <2> QED BY <2>1, <2>2 DEF Injection, IsInjective
<1>7. IsFiniteSet(1 .. size) /\ Cardinality(1 .. size) = size
  <2> HIDE DEF size
  <2>1. 1 \in Int /\ size \in Int BY <1>1
  <2>2. /\ IsFiniteSet(1 .. size)
        /\ Cardinality(1 .. size) = IF 1 > size THEN 0 ELSE size - 1 + 1
    BY <2>1, FS_Interval
  <2> QED BY <1>1, <2>2
<1>8. rank \in Surjection(K, 1 .. size)
  <2> HIDE DEF rank
  <2>1. Cardinality(K) = Cardinality(1 .. size) BY <1>7
  <2> QED BY <1>6, <1>7, <2>1, FS_Injection
<1>9. \A k \in 1 .. size : \E i \in K : Rank(i, K) = k BY <1>8 DEF Surjection
<1> QED BY <1>1, <1>4, <1>5, <1>9

\* A filter keeps the chosen elements, all of them and no others.
LEMMA PickedElements ==
    ASSUME NEW S, NEW s \in Seq(S), NEW K \in SUBSET DOMAIN s
    PROVE  /\ Picked(s, K) \in Seq(S)
           /\ DOMAIN Picked(s, K) = 1 .. Cardinality(K) /\ Cardinality(K) \in Nat
           /\ \A k \in DOMAIN Picked(s, K) : \E i \in K : Rank(i, K) = k /\ Picked(s, K)[k] = s[i]
           /\ \A i \in K : /\ Rank(i, K) \in DOMAIN Picked(s, K)
                           /\ Picked(s, K)[Rank(i, K)] = s[i]
<1> DEFINE at(k) == CHOOSE i \in K : Rank(i, K) = k
           size  == Cardinality(K)
<1>1. Len(s) \in Nat /\ DOMAIN s = 1 .. Len(s) /\ \A i \in DOMAIN s : s[i] \in S OBVIOUS
<1>2. /\ size \in Nat
      /\ \A i \in K : Rank(i, K) \in 1 .. size
      /\ \A i, j \in K : Rank(i, K) = Rank(j, K) => i = j
      /\ \A k \in 1 .. size : \E i \in K : Rank(i, K) = k
  BY <1>1, RanksAreExact
<1>3. Picked(s, K) = [k \in 1 .. size |-> s[at(k)]] BY DEF Picked
<1>4. \A k \in 1 .. size : at(k) \in K /\ Rank(at(k), K) = k BY <1>2
<1>5. \A i \in K : at(Rank(i, K)) = i BY <1>2, <1>4
<1> HIDE DEF at, size
<1>6. Picked(s, K) \in Seq(S) BY <1>1, <1>2, <1>3, <1>4
<1> QED BY <1>2, <1>3, <1>4, <1>5, <1>6 DEF size

\* Where a list is cut in two, its filtered halves make it up again.
LEMMA PickedHalves ==
    ASSUME NEW S, NEW s \in Seq(S), NEW K \in SUBSET DOMAIN s, NEW R,
           R = DOMAIN s \ K, \A i \in K, j \in R : i < j
    PROVE  Picked(s, K) \o Picked(s, R) = s
<1> DEFINE n == Len(s)
           m == Cardinality(K)
<1>1. n \in Nat /\ DOMAIN s = 1 .. n OBVIOUS
<1>2. K \in SUBSET (1 .. n) /\ m \in Nat BY <1>1, RanksAreExact
<1>3. \A i \in K : 1 .. i \subseteq K
  <2> SUFFICES ASSUME NEW i \in K, NEW j \in 1 .. i, j \notin K PROVE FALSE OBVIOUS
  <2>1. i \in Nat /\ j \in R BY <1>1
  <2> QED BY <1>1, <2>1
<1>4. \A i \in K : Rank(i, K) = i
  <2> SUFFICES ASSUME NEW i \in K PROVE Rank(i, K) = i OBVIOUS
  <2>1. i \in Nat \ {0} BY <1>1
  <2>2. {j \in K : j <= i} = 1 .. i BY <1>1, <1>3, <2>1
  <2>3. Cardinality(1 .. i) = i BY <2>1, FS_Interval
  <2> QED BY <2>2, <2>3 DEF Rank
<1>5. K = 1 .. m
  <2>1. \A i \in K : Rank(i, K) \in 1 .. m BY <1>1, <1>2, RanksAreExact
  <2>2. \A k \in 1 .. m : \E i \in K : Rank(i, K) = k BY <1>1, <1>2, RanksAreExact
  <2> HIDE DEF m
  <2> QED BY <1>4, <2>1, <2>2
<1> HIDE DEF n, m
<1>6. m <= n BY <1>1, <1>2, <1>5
<1>7. R = m + 1 .. n BY <1>1, <1>2, <1>5, <1>6
<1>8. Cardinality(R) = n - m
  <2>1. m + 1 \in Int /\ n \in Int BY <1>1, <1>2
  <2>2. Cardinality(m + 1 .. n) = IF m + 1 > n THEN 0 ELSE n - (m + 1) + 1 BY <2>1, FS_Interval
  <2>3. n \in Nat /\ m \in Nat /\ m <= n BY <1>1, <1>2, <1>6
  <2>4. (IF m + 1 > n THEN 0 ELSE n - (m + 1) + 1) = n - m BY <2>3
  <2> QED BY <1>7, <2>2, <2>4
<1>9. \A i \in R : Rank(i, R) = i - m
  <2> SUFFICES ASSUME NEW i \in R PROVE Rank(i, R) = i - m OBVIOUS
  <2>1. i \in Nat /\ m + 1 <= i /\ i <= n BY <1>1, <1>2, <1>7
  <2>2. {j \in R : j <= i} = m + 1 .. i BY <1>1, <1>2, <1>7, <2>1
  <2>3. Cardinality(m + 1 .. i) = i - m BY <1>2, <2>1, FS_Interval
  <2> QED BY <2>2, <2>3 DEF Rank
<1> DEFINE front == Picked(s, K)
           back  == Picked(s, R)
<1>10. front \in Seq(S) /\ Len(front) = m /\ \A i \in 1 .. m : front[i] = s[i]
  <2>1. /\ front \in Seq(S) /\ DOMAIN front = 1 .. m
        /\ \A i \in K : front[Rank(i, K)] = s[i]
    BY PickedElements DEF m
  <2> HIDE DEF front
  <2> QED BY <1>2, <1>4, <1>5, <2>1
<1>11. back \in Seq(S) /\ Len(back) = n - m /\ \A i \in R : back[i - m] = s[i]
  <2>1. R \in SUBSET DOMAIN s OBVIOUS
  <2>2. /\ back \in Seq(S) /\ DOMAIN back = 1 .. n - m
        /\ \A i \in R : back[Rank(i, R)] = s[i]
    BY <1>8, <2>1, PickedElements
  <2> HIDE DEF back
  <2>3. n - m \in Nat BY <1>1, <1>2, <1>6
  <2>4. Len(back) = n - m BY <2>2, <2>3
  <2>5. \A i \in R : back[i - m] = s[i] BY <1>9, <2>2
  <2> QED BY <2>2, <2>4, <2>5
<1> HIDE DEF front, back
<1>12. front \o back \in Seq(S) /\ Len(front \o back) = n
  BY <1>1, <1>2, <1>6, <1>10, <1>11
<1>13. \A i \in 1 .. n : (front \o back)[i] = s[i]
  <2> SUFFICES ASSUME NEW i \in 1 .. n PROVE (front \o back)[i] = s[i] OBVIOUS
  <2>1. CASE i <= m
    <3>1. i \in 1 .. Len(front) BY <1>1, <1>2, <1>10, <2>1
    <3>2. (front \o back)[i] = front[i] BY <1>10, <1>11, <3>1
    <3> QED BY <1>10, <3>1, <3>2
  <2>2. CASE i > m
    <3>1. i \in R /\ i - m \in 1 .. n - m BY <1>1, <1>2, <1>7, <2>2
    <3>2. (front \o back)[i] = back[i - m] BY <1>1, <1>2, <1>10, <1>11, <2>2
    <3> QED BY <1>11, <3>1, <3>2
  <2>3. i \in Nat /\ m \in Nat BY <1>1, <1>2
  <2>4. i <= m \/ i > m BY <2>3
  <2> QED BY <2>1, <2>2, <2>4
<1>14. s \in Seq(S) /\ Len(s) = n BY DEF n
<1>15. front \o back = s
  <2> DEFINE both == front \o back
  <2>1. both \in Seq(S) /\ Len(both) = n /\ \A i \in 1 .. n : both[i] = s[i] BY <1>12, <1>13
  <2> HIDE DEF both, front, back
  <2>2. DOMAIN both = 1 .. n /\ DOMAIN s = 1 .. n BY <1>1, <2>1
  <2>3. both = [i \in 1 .. n |-> both[i]] /\ s = [i \in 1 .. n |-> s[i]] BY <2>1, <2>2
  <2>4. both = s BY <2>1, <2>3
  <2> QED BY <2>4 DEF both
<1> QED BY <1>15 DEF front, back
=============================================================================
