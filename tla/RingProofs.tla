----------------------------- MODULE RingProofs -----------------------------
(***************************************************************************)
(* The hash ring, for every set of shards, number of virtual nodes and     *)
(* hash function, and every sequence of joins and removals.  The ring is a *)
(* list, and its loops and its sort make lists by taking positions in some *)
(* order; the proofs are about what is in the list, so each of these is    *)
(* first given as a bijection between places and positions.  Then: the     *)
(* search finds the nearest hash of the list; the invariant says which     *)
(* hashes are in the list and whose they are; routing follows.             *)
(***************************************************************************)
EXTENDS Parts, Sequences, SequenceTheorems, FiniteSetTheorems, WellFoundedInduction, TLAPS

(* A set of numbers has a least one.                                       *)
LEMMA Least ==
  ASSUME NEW T \in SUBSET Nat, T # {}
  PROVE  \E n \in T : \A m \in T : n <= m
<1>1. PICK n \in T : \A m \in T : ~(<<m, n>> \in OpToRel(<, Nat))
  BY WFMin, NatLessThanWellFounded
<1>2. ASSUME NEW m \in T
      PROVE  n <= m
  <2>1. m \in Nat /\ n \in Nat
    OBVIOUS
  <2>2. ~(m < n)
    BY <1>1, <2>1 DEF OpToRel
  <2> QED
    BY <2>1, <2>2
<1> QED
  BY <1>2

-----------------------------------------------------------------------------
(* The ring.  Its lists are made by taking positions in some order, that   *)
(* is, by a bijection between the places of the new list and positions.    *)

LEMMA SameCardinality ==
  ASSUME NEW S
  PROVE  Ring!Cardinality(S) = Cardinality(S)
BY DEF Ring!Cardinality, Cardinality

(* The elements of a finite set come, in a total order, in the places that *)
(* are the numbers of elements that do not follow them.                    *)
LEMMA Ranked ==
  ASSUME NEW D, IsFiniteSet(D), NEW R,
         \A i \in D : <<i, i>> \in R,
         \A i, j \in D : <<i, j>> \in R \/ <<j, i>> \in R,
         \A i, j \in D : <<i, j>> \in R /\ <<j, i>> \in R => i = j,
         \A i, j, k \in D : <<i, j>> \in R /\ <<j, k>> \in R => <<i, k>> \in R
  PROVE  LET order == [n \in 1..Cardinality(D) |->
                         CHOOSE i \in D : Cardinality({j \in D : <<j, i>> \in R}) = n]
         IN /\ Cardinality(D) \in Nat
            /\ order \in [1..Cardinality(D) -> D]
            /\ \A i \in D : \E n \in 1..Cardinality(D) : order[n] = i
            /\ \A m, n \in 1..Cardinality(D) :
                 m < n => <<order[m], order[n]>> \in R /\ order[m] # order[n]
<1> DEFINE below(i) == {j \in D : <<j, i>> \in R}
           rank == [i \in D |-> Cardinality(below(i))]
           order == [n \in 1..Cardinality(D) |->
                       CHOOSE i \in D : Cardinality({j \in D : <<j, i>> \in R}) = n]
<1>1. Cardinality(D) \in Nat
  BY FS_CardinalityType
<1>2. ASSUME NEW i \in D
      PROVE  /\ IsFiniteSet(below(i)) /\ rank[i] = Cardinality(below(i))
             /\ rank[i] \in 1..Cardinality(D)
  <2>1. below(i) \in SUBSET D /\ i \in below(i)
    OBVIOUS
  <2>2. IsFiniteSet(below(i)) /\ Cardinality(below(i)) <= Cardinality(D)
    BY <2>1, FS_Subset
  <2>3. Cardinality(below(i)) \in Nat /\ Cardinality(below(i)) # 0
    BY <2>1, <2>2, FS_CardinalityType, FS_EmptySet
  <2> QED
    BY <1>1, <2>2, <2>3
<1> HIDE DEF rank
<1>3. ASSUME NEW i \in D, NEW j \in D, <<i, j>> \in R, i # j
      PROVE  rank[i] < rank[j]
  <2>1. below(i) \in SUBSET below(j) /\ j \in below(j) /\ j \notin below(i)
    BY <1>3
  <2>2. Cardinality(below(i)) <= Cardinality(below(j))
    BY <1>2, <2>1, FS_Subset
  <2>3. Cardinality(below(i)) # Cardinality(below(j))
    BY <1>2, <2>1, FS_Subset
  <2>4. rank[i] = Cardinality(below(i)) /\ rank[j] = Cardinality(below(j))
    BY <1>2
  <2>5. rank[i] \in 1..Cardinality(D) /\ rank[j] \in 1..Cardinality(D)
    BY <1>2
  <2> HIDE DEF below
  <2> QED
    BY <1>1, <2>2, <2>3, <2>4, <2>5
<1> HIDE DEF below
<1>4. ASSUME NEW i \in D, NEW j \in D, rank[i] = rank[j]
      PROVE  i = j
  <2>1. rank[i] \in Nat /\ rank[j] \in Nat
    BY <1>1, <1>2
  <2>2. ~(rank[i] < rank[j]) /\ ~(rank[j] < rank[i])
    BY <1>4, <2>1
  <2> QED
    BY <1>3, <2>2
<1>5. rank \in Injection(D, 1..Cardinality(D))
  <2>1. rank \in [D -> 1..Cardinality(D)]
    BY <1>2 DEF rank
  <2> QED
    BY <1>4, <2>1 DEF Injection, IsInjective
<1>6. IsFiniteSet(1..Cardinality(D)) /\ Cardinality(1..Cardinality(D)) = Cardinality(D)
  BY <1>1, FS_Interval
<1>7. rank \in Surjection(D, 1..Cardinality(D))
  BY <1>5, <1>6, FS_Injection
<1>8. \A n \in 1..Cardinality(D) : order[n] \in D /\ rank[order[n]] = n
  <2>1. ASSUME NEW n \in 1..Cardinality(D)
        PROVE  \E i \in D : Cardinality({j \in D : <<j, i>> \in R}) = n
    BY <1>2, <1>7 DEF Surjection, below
  <2>2. ASSUME NEW n \in 1..Cardinality(D)
        PROVE  /\ order[n] \in D
               /\ Cardinality({j \in D : <<j, order[n]>> \in R}) = n
    BY <2>1
  <2> HIDE DEF order
  <2> QED
    BY <1>2, <2>2 DEF below
<1>9. order \in [1..Cardinality(D) -> D]
  BY <1>8
<1> HIDE DEF order
<1>10. ASSUME NEW i \in D
       PROVE  rank[i] \in 1..Cardinality(D) /\ order[rank[i]] = i
  <2>1. rank[i] \in 1..Cardinality(D)
    BY <1>2
  <2>2. order[rank[i]] \in D /\ rank[order[rank[i]]] = rank[i]
    BY <1>8, <2>1
  <2> QED
    BY <1>4, <2>1, <2>2
<1>11. ASSUME NEW m \in 1..Cardinality(D), NEW n \in 1..Cardinality(D), m < n
       PROVE  <<order[m], order[n]>> \in R /\ order[m] # order[n]
  <2>1. order[m] \in D /\ order[n] \in D /\ rank[order[m]] = m /\ rank[order[n]] = n
    BY <1>8
  <2>2. order[m] # order[n] /\ ~(n < m)
    BY <1>1, <1>11, <2>1
  <2>3. <<order[n], order[m]>> \notin R
    BY <1>3, <2>1, <2>2
  <2> QED
    BY <2>1, <2>2, <2>3
<1> QED
  BY <1>1, <1>9, <1>10, <1>11 DEF order

(* The places of the elements of a loop's result.                          *)
LEMMA KeepIs ==
  ASSUME NEW s, NEW N \in Nat, NEW kept \in SUBSET (1..N)
  PROVE  /\ Cardinality(kept) \in Nat
         /\ \E order \in [1..Cardinality(kept) -> kept] :
              /\ Ring!Keep(s, kept) = [n \in 1..Cardinality(kept) |-> s[order[n]]]
              /\ \A i \in kept : \E n \in 1..Cardinality(kept) : order[n] = i
              /\ \A m, n \in 1..Cardinality(kept) : m < n => order[m] < order[n]
<1> DEFINE R == {p \in kept \X kept : p[1] <= p[2]}
           order == [n \in 1..Cardinality(kept) |->
                       CHOOSE i \in kept : Cardinality({j \in kept : <<j, i>> \in R}) = n]
<1>1. IsFiniteSet(kept)
  <2>1. IsFiniteSet(1..N)
    BY FS_Interval
  <2> QED
    BY <2>1, FS_Subset
<1>2. \A i, j \in kept : <<i, j>> \in R <=> i <= j
  OBVIOUS
<1>3. \A i \in kept : i \in Nat
  OBVIOUS
<1> HIDE DEF R, order
<1>4. /\ Cardinality(kept) \in Nat
      /\ order \in [1..Cardinality(kept) -> kept]
      /\ \A i \in kept : \E n \in 1..Cardinality(kept) : order[n] = i
      /\ \A m, n \in 1..Cardinality(kept) :
           m < n => <<order[m], order[n]>> \in R /\ order[m] # order[n]
  <2>1. ASSUME NEW i \in kept, NEW j \in kept, NEW k \in kept
        PROVE  /\ i <= i /\ (i <= j \/ j <= i)
               /\ i <= j /\ j <= i => i = j
               /\ i <= j /\ j <= k => i <= k
    <3>1. i \in Nat /\ j \in Nat /\ k \in Nat
      BY <1>3
    <3> QED
      BY <3>1
  <2>2. /\ \A i \in kept : <<i, i>> \in R
        /\ \A i, j \in kept : <<i, j>> \in R \/ <<j, i>> \in R
        /\ \A i, j \in kept : <<i, j>> \in R /\ <<j, i>> \in R => i = j
        /\ \A i, j, k \in kept :
             <<i, j>> \in R /\ <<j, k>> \in R => <<i, k>> \in R
    BY <1>2, <2>1, Zenon
  <2> QED
    BY <1>1, <2>2, Ranked DEF order
<1>5. ASSUME NEW n \in 1..Cardinality(kept)
      PROVE  order[n] = CHOOSE i \in kept : Cardinality({j \in kept : j <= i}) = n
  <2>1. ASSUME NEW i \in kept
        PROVE  {j \in kept : <<j, i>> \in R} = {j \in kept : j <= i}
    BY <1>2
  <2>2. \A i \in kept : Cardinality({j \in kept : <<j, i>> \in R}) = n
                          <=> Cardinality({j \in kept : j <= i}) = n
    BY <2>1
  <2>3. (CHOOSE i \in kept : Cardinality({j \in kept : <<j, i>> \in R}) = n)
          = CHOOSE i \in kept : Cardinality({j \in kept : j <= i}) = n
    BY <2>2
  <2> QED
    BY <2>3 DEF order
<1>6. Ring!Keep(s, kept) = [n \in 1..Cardinality(kept) |-> s[order[n]]]
  <2>1. \A i : Ring!Cardinality({j \in kept : j <= i}) = Cardinality({j \in kept : j <= i})
    BY SameCardinality
  <2>2. Ring!Cardinality(kept) = Cardinality(kept)
    BY SameCardinality
  <2>3. ASSUME NEW n
        PROVE  (CHOOSE i \in kept : Ring!Cardinality({j \in kept : j <= i}) = n)
               = CHOOSE i \in kept : Cardinality({j \in kept : j <= i}) = n
    <3>1. \A i \in kept : Ring!Cardinality({j \in kept : j <= i}) = n
                         <=> Cardinality({j \in kept : j <= i}) = n
      BY <2>1
    <3> QED
      BY <3>1
  <2>4. Ring!Keep(s, kept)
          = [n \in 1..Ring!Cardinality(kept) |->
               s[CHOOSE i \in kept : Ring!Cardinality({j \in kept : j <= i}) = n]]
    BY DEF Ring!Keep
  <2>5. \A n \in 1..Cardinality(kept) :
          order[n] = CHOOSE i \in kept : Ring!Cardinality({j \in kept : j <= i}) = n
    BY <1>5, <2>3
  <2> QED
    BY <2>2, <2>4, <2>5
<1>7. \A m, n \in 1..Cardinality(kept) : m < n => order[m] < order[n]
  <2>1. ASSUME NEW m \in 1..Cardinality(kept), NEW n \in 1..Cardinality(kept), m < n
        PROVE  order[m] < order[n]
    <3>1. order[m] \in kept /\ order[n] \in kept
      BY <1>4
    <3>2. order[m] <= order[n] /\ order[m] # order[n]
      BY <1>2, <1>4, <2>1, <3>1
    <3>3. order[m] \in Nat /\ order[n] \in Nat
      BY <1>3, <3>1
    <3> QED
      BY <3>2, <3>3
  <2> QED
    BY <2>1
<1> QED
  BY <1>4, <1>6, <1>7

(* A sorted list is an ascending rearrangement.                            *)
LEMMA SortedIs ==
  ASSUME NEW N \in Nat, NEW s \in [1..N -> Nat]
  PROVE  \E order \in [1..N -> 1..N] :
           /\ Ring!Sorted(s) = [n \in 1..N |-> s[order[n]]]
           /\ \A i \in 1..N : \E n \in 1..N : order[n] = i
           /\ \A m, n \in 1..N :
                m < n => s[order[m]] <= s[order[n]] /\ order[m] # order[n]
<1> DEFINE D == 1..N
           R == {p \in D \X D : \/ s[p[1]] < s[p[2]]
                                \/ s[p[1]] = s[p[2]] /\ p[1] <= p[2]}
           order == [n \in 1..Cardinality(D) |->
                       CHOOSE i \in D : Cardinality({j \in D : <<j, i>> \in R}) = n]
<1>1. IsFiniteSet(D) /\ Cardinality(D) = N
  BY FS_Interval
<1>2. \A i, j \in D : <<i, j>> \in R <=> s[i] < s[j] \/ (s[i] = s[j] /\ i <= j)
  OBVIOUS
<1>3. \A i \in D : i \in Nat /\ s[i] \in Nat
  OBVIOUS
<1>4. DOMAIN s = D
  OBVIOUS
<1> HIDE DEF R, order, D
<1>5. /\ order \in [1..Cardinality(D) -> D]
      /\ \A i \in D : \E n \in 1..Cardinality(D) : order[n] = i
      /\ \A m, n \in 1..Cardinality(D) :
           m < n => <<order[m], order[n]>> \in R /\ order[m] # order[n]
  <2> DEFINE follows(i, j) == s[i] < s[j] \/ (s[i] = s[j] /\ i <= j)
  <2>1. ASSUME NEW i \in D, NEW j \in D, NEW k \in D
        PROVE  /\ follows(i, i) /\ (follows(i, j) \/ follows(j, i))
               /\ follows(i, j) /\ follows(j, i) => i = j
               /\ follows(i, j) /\ follows(j, k) => follows(i, k)
    <3>1. i \in Nat /\ j \in Nat /\ k \in Nat
      BY <1>3
    <3>2. s[i] \in Nat /\ s[j] \in Nat /\ s[k] \in Nat
      BY <1>3
    <3> QED
      BY <3>1, <3>2
  <2>2. \A i, j \in D : <<i, j>> \in R <=> follows(i, j)
    BY <1>2
  <2> HIDE DEF follows
  <2>3. /\ \A i \in D : <<i, i>> \in R
        /\ \A i, j \in D : <<i, j>> \in R \/ <<j, i>> \in R
        /\ \A i, j \in D : <<i, j>> \in R /\ <<j, i>> \in R => i = j
        /\ \A i, j, k \in D :
             <<i, j>> \in R /\ <<j, k>> \in R => <<i, k>> \in R
    BY <2>1, <2>2, Zenon
  <2> QED
    BY <1>1, <2>3, Ranked DEF order
<1>6. ASSUME NEW n \in D
      PROVE  order[n] = CHOOSE i \in D :
                          Cardinality({j \in D : s[j] < s[i] \/ (s[j] = s[i] /\ j <= i)}) = n
  <2>1. ASSUME NEW i \in D
        PROVE  {j \in D : <<j, i>> \in R}
                 = {j \in D : s[j] < s[i] \/ (s[j] = s[i] /\ j <= i)}
    BY <1>2
  <2>2. \A i \in D :
          Cardinality({j \in D : <<j, i>> \in R}) = n
            <=> Cardinality({j \in D : s[j] < s[i] \/ (s[j] = s[i] /\ j <= i)}) = n
    BY <2>1
  <2>3. (CHOOSE i \in D : Cardinality({j \in D : <<j, i>> \in R}) = n)
          = CHOOSE i \in D :
              Cardinality({j \in D : s[j] < s[i] \/ (s[j] = s[i] /\ j <= i)}) = n
    BY <2>2
  <2>4. n \in 1..Cardinality(D)
    BY <1>1 DEF D
  <2> QED
    BY <2>3, <2>4 DEF order
<1>7. Ring!Sorted(s) = [n \in D |-> s[order[n]]]
  <2>1. \A i : Ring!Cardinality({j \in D : s[j] < s[i] \/ (s[j] = s[i] /\ j <= i)})
               = Cardinality({j \in D : s[j] < s[i] \/ (s[j] = s[i] /\ j <= i)})
    BY SameCardinality
  <2>2. ASSUME NEW n
        PROVE  (CHOOSE i \in D : Ring!Cardinality({j \in D :
                   s[j] < s[i] \/ (s[j] = s[i] /\ j <= i)}) = n)
               = CHOOSE i \in D : Cardinality({j \in D :
                   s[j] < s[i] \/ (s[j] = s[i] /\ j <= i)}) = n
    <3>1. \A i \in D :
            Ring!Cardinality({j \in D : s[j] < s[i] \/ (s[j] = s[i] /\ j <= i)}) = n
              <=> Cardinality({j \in D : s[j] < s[i] \/ (s[j] = s[i] /\ j <= i)}) = n
      BY <2>1
    <3> QED
      BY <3>1
  <2>3. \A n \in D : order[n] = CHOOSE i \in D : Ring!Cardinality({j \in D :
                                  s[j] < s[i] \/ (s[j] = s[i] /\ j <= i)}) = n
    BY <1>6, <2>2
  <2>4. Ring!Sorted(s)
          = [n \in D |->
               s[CHOOSE i \in D : Ring!Cardinality({j \in D :
                   s[j] < s[i] \/ (s[j] = s[i] /\ j <= i)}) = n]]
    BY <1>4 DEF Ring!Sorted
  <2> QED
    BY <2>3, <2>4
<1>8. 1..Cardinality(D) = D
  BY <1>1 DEF D
<1>9. ASSUME NEW m \in D, NEW n \in D, m < n
      PROVE  s[order[m]] <= s[order[n]] /\ order[m] # order[n]
  <2>1. order[m] \in D /\ order[n] \in D
    BY <1>5, <1>8
  <2>2. <<order[m], order[n]>> \in R /\ order[m] # order[n]
    BY <1>5, <1>8, <1>9
  <2>3. s[order[m]] \in Nat /\ s[order[n]] \in Nat
    BY <1>3, <2>1
  <2>4. s[order[m]] < s[order[n]] \/ s[order[m]] = s[order[n]]
    BY <1>2, <2>1, <2>2
  <2> QED
    BY <2>2, <2>3, <2>4
<1> QED
  BY <1>5, <1>7, <1>8, <1>9 DEF D

LEMMA HashesAreNumbers ==
  /\ HashSpace \in Nat \ {0}
  /\ \A h \in Ring!Hashes : h \in Nat /\ h < HashSpace
  /\ \A h \in Nat : h < HashSpace => h \in Ring!Hashes
BY PartsAssumption DEF Ring!Hashes

Ascends(r) == \A i, j \in DOMAIN r : i < j => r[i] <= r[j]

(* Distances tell hashes apart.                                            *)
LEMMA DistanceTells ==
  ASSUME NEW hash \in Ring!Hashes, NEW g \in Ring!Hashes, NEW h \in Ring!Hashes
  PROVE  /\ Ring!Distance(hash, h) \in Nat
         /\ Ring!Distance(hash, g) = Ring!Distance(hash, h) => g = h
<1>1. HashSpace \in Nat /\ hash \in Nat /\ g \in Nat /\ h \in Nat
      /\ hash < HashSpace /\ g < HashSpace /\ h < HashSpace
  BY HashesAreNumbers
<1> QED
  BY <1>1 DEF Ring!Distance

(* Where the search starts: the hashes before it are below hash, and those *)
(* from there on are not, unless all are below.                            *)
LEMMA StartIs ==
  ASSUME NEW L \in Nat \ {0}, NEW r \in [1..L -> Ring!Hashes], Ascends(r),
         NEW hash \in Ring!Hashes
  PROVE  LET above == {i \in 1..L : r[i] >= hash}
             k == IF above = {} THEN 1 ELSE CHOOSE i \in above : \A j \in above : i <= j
         IN /\ k \in 1..L
            /\ \/ k = 1 /\ \A i \in 1..L : r[i] < hash
               \/ \A i \in 1..L : (i < k => r[i] < hash) /\ (k <= i => hash <= r[i])
<1> DEFINE above == {i \in 1..L : r[i] >= hash}
           k == IF above = {} THEN 1 ELSE CHOOSE i \in above : \A j \in above : i <= j
<1>1. hash \in Nat /\ \A i \in 1..L : r[i] \in Nat
  BY HashesAreNumbers
<1>2. CASE above = {}
  <2>1. \A i \in 1..L : r[i] < hash
    BY <1>1, <1>2
  <2> QED
    BY <1>2, <2>1
<1>3. CASE above # {}
  <2>1. above \in SUBSET Nat
    OBVIOUS
  <2>2. \E i \in above : \A j \in above : i <= j
    <3> HIDE DEF above
    <3> QED
      BY <1>3, <2>1, Least
  <2>3. k \in above /\ \A j \in above : k <= j
    <3> HIDE DEF above
    <3> QED
      BY <1>3, <2>2
  <2> HIDE DEF k
  <2>4. k \in 1..L /\ hash <= r[k]
    BY <1>1, <2>3
  <2>5. ASSUME NEW i \in 1..L
        PROVE  (i < k => r[i] < hash) /\ (k <= i => hash <= r[i])
    <3>1. CASE i < k
      <4>1. i \notin above
        BY <2>3, <2>4, <3>1
      <4> QED
        BY <1>1, <2>4, <3>1, <4>1
    <3>2. CASE k <= i
      <4>1. k < i \/ k = i
        BY <2>4, <3>2
      <4>2. r[k] <= r[i]
        BY <1>1, <2>4, <4>1 DEF Ascends
      <4>3. hash <= r[i]
        BY <1>1, <2>4, <4>2
      <4> QED
        BY <2>4, <3>2, <4>3
    <3> QED
      BY <2>4, <3>1, <3>2
  <2> QED
    BY <2>4, <2>5 DEF k
<1> QED
  BY <1>2, <1>3

LEMMA Modulo ==
  ASSUME NEW L \in Nat \ {0}, NEW a \in Nat, a < 2 * L
  PROVE  a % L = IF a < L THEN a ELSE a - L
<1>1. CASE a < L
  BY <1>1
<1>2. CASE L <= a
  <2>1. a - L \in Nat /\ a - L < L
    BY <1>2
  <2> QED
    BY <1>2, <2>1
<1> QED
  BY <1>1, <1>2

(* Going round from there, every place is passed once and the distance     *)
(* never falls.                                                            *)
LEMMA RoundIs ==
  ASSUME NEW L \in Nat \ {0}, NEW r \in [1..L -> Ring!Hashes], Ascends(r),
         NEW hash \in Ring!Hashes, NEW k \in 1..L,
         \/ k = 1 /\ \A i \in 1..L : r[i] < hash
         \/ \A i \in 1..L : (i < k => r[i] < hash) /\ (k <= i => hash <= r[i])
  PROVE  LET place(i) == ((k + i - 2) % L) + 1
         IN /\ place(1) = k
            /\ \A i \in 1..L : place(i) \in 1..L
            /\ \A p \in 1..L : \E i \in 1..L : place(i) = p
            /\ \A i, j \in 1..L : i < j =>
                 Ring!Distance(hash, r[place(i)]) <= Ring!Distance(hash, r[place(j)])
<1> DEFINE place(i) == ((k + i - 2) % L) + 1
<1>1. ASSUME NEW i \in 1..L
      PROVE  place(i) = IF (k + i) - 1 <= L THEN (k + i) - 1 ELSE ((k + i) - 1) - L
  <2> DEFINE a == k + i - 2
  <2>1. a \in Nat /\ a < 2 * L
    OBVIOUS
  <2>2. place(i) = (a % L) + 1
    OBVIOUS
  <2>3. a < L <=> (k + i) - 1 <= L
    OBVIOUS
  <2>4. a + 1 = (k + i) - 1 /\ (a - L) + 1 = ((k + i) - 1) - L
    OBVIOUS
  <2> HIDE DEF a, place
  <2>5. a % L = IF a < L THEN a ELSE a - L
    BY <2>1, Modulo
  <2> QED
    BY <2>2, <2>3, <2>4, <2>5
<1> HIDE DEF place
<1>2. place(1) = k
  BY <1>1
<1>3. ASSUME NEW i \in 1..L
      PROVE  place(i) \in 1..L
  BY <1>1
<1>4. ASSUME NEW p \in 1..L
      PROVE  \E i \in 1..L : place(i) = p
  <2>1. CASE k <= p
    <3>1. PICK i \in 1..L : i = (p - k) + 1
      BY <2>1
    <3>2. place(i) = p
      BY <1>1, <2>1, <3>1
    <3> QED
      BY <3>2
  <2>2. CASE p < k
    <3>1. PICK i \in 1..L : i = ((p - k) + 1) + L
      BY <2>2
    <3>2. place(i) = p
      BY <1>1, <2>2, <3>1
    <3> QED
      BY <3>2
  <2> QED
    BY <2>1, <2>2
<1>5. ASSUME NEW i \in 1..L, NEW j \in 1..L, i < j
      PROVE  Ring!Distance(hash, r[place(i)]) <= Ring!Distance(hash, r[place(j)])
  <2>1. /\ HashSpace \in Nat /\ hash \in Nat
        /\ r[place(i)] \in Nat /\ r[place(j)] \in Nat
        /\ r[place(i)] < HashSpace /\ r[place(j)] < HashSpace
    BY <1>3, HashesAreNumbers
  <2>2. place(i) \in 1..L /\ place(j) \in 1..L
    BY <1>3
  <2>3. place(i) < place(j) => r[place(i)] <= r[place(j)]
    BY <2>2 DEF Ascends
  <2>4. \/ k <= place(i) /\ place(i) < place(j)
        \/ place(i) < place(j) /\ place(j) < k
        \/ k <= place(i) /\ place(j) < k
    BY <1>1, <1>5
  <2>5. CASE k = 1 /\ \A n \in 1..L : r[n] < hash
    <3>1. r[place(i)] < hash /\ r[place(j)] < hash
      BY <2>2, <2>5
    <3>2. r[place(i)] <= r[place(j)]
      BY <2>2, <2>3, <2>4, <2>5
    <3> QED
      BY <2>1, <3>1, <3>2 DEF Ring!Distance
  <2>6. CASE \A n \in 1..L : (n < k => r[n] < hash) /\ (k <= n => hash <= r[n])
    <3>1. /\ place(i) < k => r[place(i)] < hash
          /\ k <= place(i) => hash <= r[place(i)]
          /\ place(j) < k => r[place(j)] < hash
          /\ k <= place(j) => hash <= r[place(j)]
      BY <2>2, <2>6
    <3>2. \/ hash <= r[place(i)] /\ hash <= r[place(j)] /\ r[place(i)] <= r[place(j)]
          \/ r[place(i)] < hash /\ r[place(j)] < hash /\ r[place(i)] <= r[place(j)]
          \/ hash <= r[place(i)] /\ r[place(j)] < hash
      BY <2>2, <2>3, <2>4, <3>1
    <3> QED
      BY <2>1, <3>2 DEF Ring!Distance
  <2> QED
    BY <2>5, <2>6
<1> QED
  BY <1>2, <1>3, <1>4, <1>5 DEF place

Placed == shardSet \X (1..VirtualNodes)

(* A hash that no two virtual nodes share is in the ring exactly once if   *)
(* its virtual node is, and not at all otherwise; the map names its shard. *)
RingInv ==
  /\ Ring!TypeOK
  /\ Ascends(ring)
  /\ \A h \in Ring!Hashes \ Ring!Colliding(hashOf) :
       /\ \A i, j \in DOMAIN ring : ring[i] = h /\ ring[j] = h => i = j
       /\ \A x \in Placed : hashOf[x] = h =>
            nodeMap[h] = x[1] /\ \E i \in DOMAIN ring : ring[i] = h
       /\ \A i \in DOMAIN ring : ring[i] = h => \E x \in Placed : hashOf[x] = h

(* Two virtual nodes with one hash are a collision.                        *)
LEMMA SharedIsColliding ==
  ASSUME hashOf \in Ring!AnyHash, NEW x \in Shards \X (1..VirtualNodes),
         NEW y \in Shards \X (1..VirtualNodes), hashOf[x] = hashOf[y], x # y
  PROVE  hashOf[x] \in Ring!Colliding(hashOf)
BY DEF Ring!AnyHash, Ring!Colliding

LEMMA RingInit == PartsInit => RingInv
<1> SUFFICES ASSUME PartsInit
             PROVE  RingInv
  OBVIOUS
<1>1. /\ hashOf \in HashFunctions /\ ring = <<>> /\ shardSet = {}
      /\ nodeMap = [h \in Ring!Hashes |-> Nobody]
  BY DEF PartsInit, Ring!Init
<1>2. Ring!TypeOK
  BY <1>1, PartsAssumption DEF Ring!TypeOK, Ring!AnyHash, Ring!Hashes
<1>3. DOMAIN ring = {} /\ Placed = {}
  BY <1>1 DEF Placed
<1> QED
  BY <1>2, <1>3 DEF RingInv, Ascends

(* What the ring is after a shard is added.                                *)
LEMMA AddedIs ==
  ASSUME Ring!TypeOK, NEW s \in Shards, Ring!AddShard(s)
  PROVE  /\ ring' \in Seq(Ring!Hashes)
         /\ Ascends(ring')
         /\ \A i \in DOMAIN ring' : \/ \E j \in DOMAIN ring : ring[j] = ring'[i]
                                    \/ \E v \in 1..VirtualNodes : hashOf[<<s, v>>] = ring'[i]
         /\ \A j \in DOMAIN ring : \E i \in DOMAIN ring' : ring'[i] = ring[j]
         /\ \A v \in 1..VirtualNodes : \E i \in DOMAIN ring' : ring'[i] = hashOf[<<s, v>>]
         /\ \A h \in Ring!Hashes :
              /\ \A i, j \in DOMAIN ring : ring[i] = h /\ ring[j] = h => i = j
              /\ \A i, j \in 1..VirtualNodes :
                   hashOf[<<s, i>>] = h /\ hashOf[<<s, j>>] = h => i = j
              /\ ~((\E i \in DOMAIN ring : ring[i] = h)
                   /\ \E v \in 1..VirtualNodes : hashOf[<<s, v>>] = h)
              => \A i, j \in DOMAIN ring' : ring'[i] = h /\ ring'[j] = h => i = j
<1> DEFINE M == Len(ring)
           N == M + VirtualNodes
           both == ring \o Ring!VirtualHashes(s)
<1>1. /\ M \in Nat /\ VirtualNodes \in Nat \ {0} /\ N \in Nat /\ DOMAIN ring = 1..M
      /\ \A i \in 1..M : ring[i] \in Ring!Hashes
      /\ \A v \in 1..VirtualNodes : hashOf[<<s, v>>] \in Ring!Hashes
  <2>1. ring \in Seq(Ring!Hashes)
    BY DEF Ring!TypeOK
  <2>2. \A v \in 1..VirtualNodes : <<s, v>> \in Shards \X (1..VirtualNodes)
    OBVIOUS
  <2>3. hashOf \in [Shards \X (1..VirtualNodes) -> Ring!Hashes]
    BY DEF Ring!TypeOK, Ring!AnyHash
  <2>4. \A v \in 1..VirtualNodes : hashOf[<<s, v>>] \in Ring!Hashes
    BY <2>2, <2>3
  <2> QED
    BY <2>1, <2>4, PartsAssumption
<1>2. /\ DOMAIN both = 1..N /\ both = [i \in 1..N |-> both[i]]
      /\ \A i \in 1..M : both[i] = ring[i]
      /\ \A i \in 1..N : M < i => both[i] = hashOf[<<s, i - M>>] /\ i - M \in 1..VirtualNodes
  <2> DEFINE vh == Ring!VirtualHashes(s)
  <2>1. vh \in Seq(Ring!Hashes) /\ Len(vh) = VirtualNodes
        /\ \A v \in 1..VirtualNodes : vh[v] = hashOf[<<s, v>>]
    <3>1. vh = [v \in 1..VirtualNodes |-> hashOf[<<s, v>>]]
      BY DEF Ring!VirtualHashes
    <3>2. VirtualNodes \in Nat /\ \A v \in 1..VirtualNodes : hashOf[<<s, v>>] \in Ring!Hashes
      BY <1>1
    <3> HIDE DEF vh, both
    <3> QED
      BY <3>1, <3>2
  <2>2. ring \in Seq(Ring!Hashes)
    BY DEF Ring!TypeOK
  <2> HIDE DEF vh
  <2>3. Len(both) = N /\ \A i \in 1..N : both[i] = IF i <= M THEN ring[i] ELSE vh[i - M]
    BY <2>1, <2>2 DEF vh
  <2>4. DOMAIN both = 1..N /\ both = [i \in 1..N |-> both[i]]
    <3>1. both \in Seq(Ring!Hashes)
      BY <2>1, <2>2 DEF vh
    <3> HIDE DEF both
    <3> QED
      BY <2>3, <3>1
  <2>5. ASSUME NEW i \in 1..N, M < i
        PROVE  i - M \in 1..VirtualNodes /\ ~(i <= M)
    BY <1>1, <2>5
  <2>6. \A i \in 1..M : i \in 1..N /\ i <= M
    BY <1>1
  <2> HIDE DEF M, N, both
  <2> QED
    BY <2>1, <2>3, <2>4, <2>5, <2>6
<1> HIDE DEF both, N, M
<1>3. \A v \in 1..VirtualNodes : both[M + v] = hashOf[<<s, v>>] /\ M + v \in 1..N
  <2>1. ASSUME NEW v \in 1..VirtualNodes
        PROVE  M + v \in 1..N /\ M < M + v /\ (M + v) - M = v
    BY <1>1 DEF N
  <2> QED
    BY <1>2, <2>1
<1>4. both \in [1..N -> Nat]
  <2>1. ASSUME NEW i \in 1..N
        PROVE  both[i] \in Nat
    <3>1. CASE i \in 1..M
      BY <1>1, <1>2, <3>1, HashesAreNumbers
    <3>2. CASE i \notin 1..M
      <4>1. M < i
        BY <1>1, <3>2
      <4> QED
        BY <1>1, <1>2, <4>1, HashesAreNumbers
    <3> QED
      BY <3>1, <3>2
  <2> QED
    BY <1>2, <2>1
<1>5. PICK order \in [1..N -> 1..N] :
        /\ Ring!Sorted(both) = [n \in 1..N |-> both[order[n]]]
        /\ \A i \in 1..N : \E n \in 1..N : order[n] = i
        /\ \A m, n \in 1..N : m < n => both[order[m]] <= both[order[n]]
                                       /\ order[m] # order[n]
  BY <1>1, <1>4, SortedIs
<1>6. /\ ring' = [n \in 1..N |-> both[order[n]]]
      /\ DOMAIN ring' = 1..N
      /\ \A n \in 1..N : ring'[n] = both[order[n]] /\ order[n] \in 1..N
  BY <1>5 DEF Ring!AddShard, both
<1> HIDE DEF both
<1>7. \A i \in 1..N : \/ i \in 1..M /\ both[i] = ring[i]
                      \/ M < i /\ i - M \in 1..VirtualNodes /\ both[i] = hashOf[<<s, i - M>>]
  <2>1. \A i \in 1..N : i \in 1..M \/ M < i
    BY <1>1
  <2> QED
    BY <1>2, <2>1
<1>8. ring' \in Seq(Ring!Hashes)
  <2>1. \A n \in 1..N : both[order[n]] \in Ring!Hashes
    BY <1>1, <1>6, <1>7
  <2> QED
    BY <1>1, <1>6, <2>1
<1>9. Ascends(ring')
  BY <1>5, <1>6 DEF Ascends
<1>10. \A i \in DOMAIN ring' : \/ \E j \in DOMAIN ring : ring[j] = ring'[i]
                               \/ \E v \in 1..VirtualNodes : hashOf[<<s, v>>] = ring'[i]
  BY <1>1, <1>6, <1>7
<1>11. \A i \in 1..N : \E n \in DOMAIN ring' : ring'[n] = both[i]
  BY <1>5, <1>6
<1>12. \A j \in DOMAIN ring : \E i \in DOMAIN ring' : ring'[i] = ring[j]
  <2>1. \A j \in 1..M : j \in 1..N
    BY <1>1 DEF N
  <2> QED
    BY <1>1, <1>2, <1>11, <2>1
<1>13. \A v \in 1..VirtualNodes : \E i \in DOMAIN ring' : ring'[i] = hashOf[<<s, v>>]
  BY <1>3, <1>11
<1>14. ASSUME NEW h \in Ring!Hashes,
              \A i, j \in DOMAIN ring : ring[i] = h /\ ring[j] = h => i = j,
              \A i, j \in 1..VirtualNodes :
                hashOf[<<s, i>>] = h /\ hashOf[<<s, j>>] = h => i = j,
              ~((\E i \in DOMAIN ring : ring[i] = h)
                /\ \E v \in 1..VirtualNodes : hashOf[<<s, v>>] = h),
              NEW i \in DOMAIN ring', NEW j \in DOMAIN ring',
              ring'[i] = h, ring'[j] = h
       PROVE  i = j
  <2>1. \A m, n \in 1..N : both[m] = h /\ both[n] = h => m = n
    <3>1. SUFFICES ASSUME NEW m \in 1..N, NEW n \in 1..N, both[m] = h, both[n] = h
                   PROVE  m = n
      OBVIOUS
    <3>2. CASE m \in 1..M /\ n \in 1..M
      BY <1>1, <1>2, <1>14, <3>1, <3>2
    <3>3. CASE M < m /\ M < n
      <4>1. m - M = n - M
        BY <1>2, <1>14, <3>1, <3>3
      <4> QED
        BY <1>1, <4>1
    <3>4. ~(m \in 1..M /\ M < n) /\ ~(n \in 1..M /\ M < m)
      <4>1. ~(\E a \in 1..M : ring[a] = h) \/ ~(\E v \in 1..VirtualNodes : hashOf[<<s, v>>] = h)
        BY <1>1, <1>14
      <4>2. \A a \in 1..N : /\ a \in 1..M => both[a] = ring[a]
                            /\ M < a => both[a] = hashOf[<<s, a - M>>]
                                        /\ a - M \in 1..VirtualNodes
        BY <1>2
      <4> QED
        BY <3>1, <4>1, <4>2, Zenon
    <3> QED
      BY <1>7, <3>2, <3>3, <3>4
  <2>2. order[i] = order[j]
    BY <1>6, <1>14, <2>1
  <2>3. i \in 1..N /\ j \in 1..N
    BY <1>6
  <2>4. ~(i < j) /\ ~(j < i)
    BY <1>5, <2>2, <2>3
  <2> QED
    BY <1>1, <2>3, <2>4
<1> QED
  BY <1>8, <1>9, <1>10, <1>12, <1>13, <1>14

(* What the ring is after a shard is removed.                              *)
LEMMA RemovedIs ==
  ASSUME Ring!TypeOK, Ascends(ring), NEW s \in Shards, Ring!RemoveShard(s)
  PROVE  /\ ring' \in Seq(Ring!Hashes)
         /\ Ascends(ring')
         /\ \A i \in DOMAIN ring' : \E j \in DOMAIN ring : ring[j] = ring'[i]
         /\ \A j \in DOMAIN ring : nodeMap[ring[j]] # s =>
              \E i \in DOMAIN ring' : ring'[i] = ring[j]
         /\ \A h \in Ring!Hashes :
              (\A i, j \in DOMAIN ring : ring[i] = h /\ ring[j] = h => i = j) =>
                /\ \A i, j \in DOMAIN ring' : ring'[i] = h /\ ring'[j] = h => i = j
                /\ nodeMap[h] = s => \A i \in DOMAIN ring' : ring'[i] # h
<1> DEFINE N == Len(ring)
           first(i) == \A j \in 1..(i - 1) : ring[j] # ring[i]
           kept == {i \in DOMAIN ring : ~(nodeMap[ring[i]] = s /\ first(i))}
           left == Cardinality(kept)
<1>1. /\ N \in Nat /\ DOMAIN ring = 1..N
      /\ \A i \in 1..N : ring[i] \in Ring!Hashes
  BY DEF Ring!TypeOK
<1>2. \A i \in 1..N : ring[i] \in Nat
  BY <1>1, HashesAreNumbers
<1>3. /\ kept \in SUBSET (1..N)
      /\ \A i \in 1..N : nodeMap[ring[i]] # s => i \in kept
      /\ \A i \in kept : nodeMap[ring[i]] = s => ~first(i)
      /\ ring' = Ring!Keep(ring, kept)
  BY <1>1 DEF Ring!RemoveShard
<1>4. \A i \in 1..N : ~first(i) => \E j \in 1..N : j # i /\ ring[j] = ring[i]
  <2>1. \A i \in 1..N : \A j \in 1..(i - 1) : j \in 1..N /\ j # i
    BY <1>1
  <2> QED
    BY <2>1
<1> HIDE DEF first, kept, N
<1>5. PICK order \in [1..left -> kept] :
        /\ Ring!Keep(ring, kept) = [n \in 1..left |-> ring[order[n]]]
        /\ \A i \in kept : \E n \in 1..left : order[n] = i
        /\ \A m, n \in 1..left : m < n => order[m] < order[n]
  BY <1>1, <1>3, KeepIs
<1>6. left \in Nat
  BY <1>1, <1>3, KeepIs
<1> HIDE DEF left
<1>7. /\ ring' = [n \in 1..left |-> ring[order[n]]]
      /\ DOMAIN ring' = 1..left
      /\ \A n \in 1..left : ring'[n] = ring[order[n]] /\ order[n] \in kept /\ order[n] \in 1..N
  <2>1. \A n \in 1..left : order[n] \in kept
    BY <1>5
  <2> QED
    BY <1>3, <1>5, <2>1
<1>8. ring' \in Seq(Ring!Hashes)
  <2>1. \A n \in 1..left : ring[order[n]] \in Ring!Hashes
    BY <1>1, <1>7
  <2> QED
    BY <1>6, <1>7, <2>1
<1>9. Ascends(ring')
  <2>1. ASSUME NEW m \in 1..left, NEW n \in 1..left, m < n
        PROVE  ring'[m] <= ring'[n]
    <3>1. order[m] < order[n] /\ order[m] \in DOMAIN ring /\ order[n] \in DOMAIN ring
      BY <1>1, <1>5, <1>7, <2>1
    <3>2. ring[order[m]] <= ring[order[n]]
      BY <3>1 DEF Ascends
    <3> QED
      BY <1>7, <3>2
  <2> QED
    BY <1>7, <2>1 DEF Ascends
<1>10. \A i \in DOMAIN ring' : \E j \in DOMAIN ring : ring[j] = ring'[i]
  BY <1>1, <1>7
<1>11. \A j \in DOMAIN ring : nodeMap[ring[j]] # s =>
         \E i \in DOMAIN ring' : ring'[i] = ring[j]
  BY <1>1, <1>3, <1>5, <1>7
<1>12. ASSUME NEW h \in Ring!Hashes,
              \A i, j \in DOMAIN ring : ring[i] = h /\ ring[j] = h => i = j
       PROVE  /\ \A i, j \in DOMAIN ring' : ring'[i] = h /\ ring'[j] = h => i = j
              /\ nodeMap[h] = s => \A i \in DOMAIN ring' : ring'[i] # h
  <2>1. ASSUME NEW i \in DOMAIN ring', NEW j \in DOMAIN ring', ring'[i] = h, ring'[j] = h
        PROVE  i = j
    <3>1. i \in 1..left /\ j \in 1..left /\ order[i] = order[j] /\ order[i] \in 1..N
      BY <1>1, <1>7, <1>12, <2>1
    <3>2. ~(order[i] < order[j]) /\ ~(order[j] < order[i])
      BY <1>1, <3>1
    <3> QED
      BY <1>5, <1>6, <3>1, <3>2
  <2>2. ASSUME nodeMap[h] = s, NEW i \in DOMAIN ring', ring'[i] = h
        PROVE  FALSE
    <3>1. order[i] \in kept /\ order[i] \in 1..N /\ ring[order[i]] = h
      BY <1>7, <2>2
    <3>2. ~first(order[i])
      BY <1>3, <2>2, <3>1
    <3> QED
      BY <1>1, <1>4, <1>12, <3>1, <3>2
  <2> QED
    BY <2>1, <2>2
<1> QED
  BY <1>8, <1>9, <1>10, <1>11, <1>12

LEMMA AddedMap ==
  ASSUME NEW s \in Shards, Ring!AddShard(s)
  PROVE  \A h \in Ring!Hashes :
           nodeMap'[h] = IF \E v \in 1..VirtualNodes : hashOf[<<s, v>>] = h
                         THEN s ELSE nodeMap[h]
<1>1. \A h : h \in Ring!ToSet(Ring!VirtualHashes(s))
                 <=> \E v \in 1..VirtualNodes : hashOf[<<s, v>>] = h
  BY DEF Ring!ToSet, Ring!VirtualHashes
<1>2. nodeMap' = [h \in Ring!Hashes |->
                      IF h \in Ring!ToSet(Ring!VirtualHashes(s)) THEN s ELSE nodeMap[h]]
  BY DEF Ring!AddShard
<1> QED
  BY <1>1, <1>2

LEMMA AddStep ==
  ASSUME RingInv, NEW s \in Shards, Ring!AddShard(s)
  PROVE  RingInv'
<1>1. /\ Ring!TypeOK /\ Ascends(ring) /\ hashOf \in Ring!AnyHash
      /\ shardSet \in SUBSET Shards /\ s \notin shardSet
      /\ nodeMap \in [Ring!Hashes -> Shards \cup {Nobody}]
      /\ hashOf' = hashOf /\ shardSet' = shardSet \cup {s}
  BY DEF RingInv, Ring!TypeOK, Ring!AddShard
<1>2. \A h \in Ring!Hashes :
        nodeMap'[h] = IF \E v \in 1..VirtualNodes : hashOf[<<s, v>>] = h THEN s ELSE nodeMap[h]
  BY AddedMap
<1>3. nodeMap' \in [Ring!Hashes -> Shards \cup {Nobody}]
  <2>1. \A h \in Ring!Hashes : nodeMap[h] \in Shards \cup {Nobody}
    BY <1>1
  <2> QED
    BY <2>1 DEF Ring!AddShard
<1>4. ring' \in Seq(Ring!Hashes) /\ Ascends(ring')
  BY <1>1, AddedIs
<1>5. Ring!TypeOK'
  <2>1. shardSet' \in SUBSET Shards
    BY <1>1
  <2> QED
    BY <1>1, <1>3, <1>4, <2>1 DEF Ring!TypeOK, Ring!AnyHash, Ring!Hashes
<1>6. Ring!Colliding(hashOf)' = Ring!Colliding(hashOf)
  BY <1>1
<1>7. /\ \A x : x \in Placed <=> x \in shardSet \X (1..VirtualNodes)
      /\ \A x : x \in Placed' <=> x \in (shardSet \cup {s}) \X (1..VirtualNodes)
  BY <1>1 DEF Placed
<1>8. \A x \in Placed : x \in Shards \X (1..VirtualNodes) /\ x[1] \in shardSet
  BY <1>1, <1>7
<1>9. \A v \in 1..VirtualNodes :
        <<s, v>> \in Shards \X (1..VirtualNodes) /\ <<s, v>> \in Placed'
        /\ <<s, v>>[1] = s
  BY <1>7
<1>10. \A x \in Placed' : x \in Placed \/ \E v \in 1..VirtualNodes : x = <<s, v>>
  BY <1>7
<1>11. \A x \in Placed : x \in Placed'
  BY <1>7
<1>12. ASSUME NEW h \in Ring!Hashes \ Ring!Colliding(hashOf)
       PROVE  /\ \A i, j \in DOMAIN ring' : ring'[i] = h /\ ring'[j] = h => i = j
              /\ \A x \in Placed' : hashOf[x] = h =>
                   nodeMap'[h] = x[1] /\ \E i \in DOMAIN ring' : ring'[i] = h
              /\ \A i \in DOMAIN ring' : ring'[i] = h => \E x \in Placed' : hashOf[x] = h
  <2>1. \A x, y \in Shards \X (1..VirtualNodes) : hashOf[x] = h /\ hashOf[y] = h => x = y
    BY <1>1, SharedIsColliding
  <2>2. /\ \A i, j \in DOMAIN ring : ring[i] = h /\ ring[j] = h => i = j
        /\ \A x \in Placed : hashOf[x] = h =>
             nodeMap[h] = x[1] /\ \E i \in DOMAIN ring : ring[i] = h
        /\ \A i \in DOMAIN ring : ring[i] = h => \E x \in Placed : hashOf[x] = h
    BY DEF RingInv
  <2>3. \A i, j \in 1..VirtualNodes :
          hashOf[<<s, i>>] = h /\ hashOf[<<s, j>>] = h => i = j
    <3>1. \A i, j \in 1..VirtualNodes : <<s, i>> = <<s, j>> => i = j
      OBVIOUS
    <3> QED
      BY <1>9, <2>1, <3>1
  <2>4. ~((\E x \in Placed : hashOf[x] = h) /\ \E v \in 1..VirtualNodes : hashOf[<<s, v>>] = h)
    BY <1>1, <1>8, <1>9, <2>1
  <2>5. \A i, j \in DOMAIN ring' : ring'[i] = h /\ ring'[j] = h => i = j
    BY <1>1, <2>2, <2>3, <2>4, AddedIs
  <2>6. ASSUME NEW x \in Placed', hashOf[x] = h
        PROVE  nodeMap'[h] = x[1] /\ \E i \in DOMAIN ring' : ring'[i] = h
    <3>1. CASE x \in Placed
      <4>1. nodeMap'[h] = x[1]
        BY <1>2, <2>2, <2>4, <2>6, <3>1
      <4>2. \E i \in DOMAIN ring' : ring'[i] = h
        BY <1>1, <2>2, <2>6, <3>1, AddedIs
      <4> QED
        BY <4>1, <4>2
    <3>2. CASE \E v \in 1..VirtualNodes : x = <<s, v>>
      <4>1. PICK v \in 1..VirtualNodes : x = <<s, v>>
        BY <3>2
      <4>2. hashOf[<<s, v>>] = h /\ x[1] = s
        BY <2>6, <4>1
      <4>3. nodeMap'[h] = s
        BY <1>2, <4>2
      <4>4. \E i \in DOMAIN ring' : ring'[i] = h
        BY <1>1, <4>2, AddedIs
      <4> QED
        BY <4>2, <4>3, <4>4
    <3> QED
      BY <1>10, <3>1, <3>2
  <2>7. ASSUME NEW i \in DOMAIN ring', ring'[i] = h
        PROVE  \E x \in Placed' : hashOf[x] = h
    <3>1. \/ \E j \in DOMAIN ring : ring[j] = h
          \/ \E v \in 1..VirtualNodes : hashOf[<<s, v>>] = h
      <4>1. \A n \in DOMAIN ring' :
              \/ \E j \in DOMAIN ring : ring[j] = ring'[n]
              \/ \E v \in 1..VirtualNodes : hashOf[<<s, v>>] = ring'[n]
        BY <1>1, AddedIs
      <4> QED
        BY <2>7, <4>1
    <3> QED
      BY <1>9, <1>11, <2>2, <3>1
  <2> QED
    BY <2>5, <2>6, <2>7
<1>13. Ring!Hashes' = Ring!Hashes
  BY DEF Ring!Hashes
<1> QED
  BY <1>1, <1>4, <1>5, <1>6, <1>12, <1>13 DEF RingInv

LEMMA RemoveStep ==
  ASSUME RingInv, NEW s \in Shards, Ring!RemoveShard(s)
  PROVE  RingInv'
<1>1. /\ Ring!TypeOK /\ Ascends(ring) /\ hashOf \in Ring!AnyHash
      /\ shardSet \in SUBSET Shards
      /\ nodeMap \in [Ring!Hashes -> Shards \cup {Nobody}]
      /\ hashOf' = hashOf /\ shardSet' = shardSet \ {s}
  BY DEF RingInv, Ring!TypeOK, Ring!RemoveShard
<1>2. nodeMap' = [h \in Ring!Hashes |-> IF nodeMap[h] = s THEN Nobody ELSE nodeMap[h]]
  BY DEF Ring!RemoveShard
<1>3. nodeMap' \in [Ring!Hashes -> Shards \cup {Nobody}]
  BY <1>1, <1>2
<1>4. ring' \in Seq(Ring!Hashes) /\ Ascends(ring')
  BY <1>1, RemovedIs
<1>5. Ring!TypeOK'
  <2>1. shardSet' \in SUBSET Shards
    BY <1>1
  <2> QED
    BY <1>1, <1>3, <1>4, <2>1 DEF Ring!TypeOK, Ring!AnyHash, Ring!Hashes
<1>6. Ring!Colliding(hashOf)' = Ring!Colliding(hashOf) /\ Ring!Hashes' = Ring!Hashes
  BY <1>1 DEF Ring!Hashes
<1>7. \A x : x \in Placed' <=> x \in Placed /\ x[1] # s
  BY <1>1 DEF Placed
<1>8. ASSUME NEW h \in Ring!Hashes \ Ring!Colliding(hashOf)
      PROVE  /\ \A i, j \in DOMAIN ring' : ring'[i] = h /\ ring'[j] = h => i = j
             /\ \A x \in Placed' : hashOf[x] = h =>
                  nodeMap'[h] = x[1] /\ \E i \in DOMAIN ring' : ring'[i] = h
             /\ \A i \in DOMAIN ring' : ring'[i] = h => \E x \in Placed' : hashOf[x] = h
  <2>1. /\ \A i, j \in DOMAIN ring : ring[i] = h /\ ring[j] = h => i = j
        /\ \A x \in Placed : hashOf[x] = h =>
             nodeMap[h] = x[1] /\ \E i \in DOMAIN ring : ring[i] = h
        /\ \A i \in DOMAIN ring : ring[i] = h => \E x \in Placed : hashOf[x] = h
    BY DEF RingInv
  <2>2. \A i, j \in DOMAIN ring' : ring'[i] = h /\ ring'[j] = h => i = j
    BY <1>1, <2>1, RemovedIs
  <2>3. ASSUME NEW x \in Placed', hashOf[x] = h
        PROVE  nodeMap'[h] = x[1] /\ \E i \in DOMAIN ring' : ring'[i] = h
    <3>1. x \in Placed /\ x[1] # s
      BY <1>7
    <3>2. nodeMap[h] = x[1] /\ \E i \in DOMAIN ring : ring[i] = h
      BY <2>1, <2>3, <3>1
    <3>3. nodeMap'[h] = x[1]
      BY <1>2, <3>1, <3>2
    <3>4. \E i \in DOMAIN ring' : ring'[i] = h
      BY <1>1, <3>1, <3>2, RemovedIs
    <3> QED
      BY <3>3, <3>4
  <2>4. ASSUME NEW i \in DOMAIN ring', ring'[i] = h
        PROVE  \E x \in Placed' : hashOf[x] = h
    <3>1. \E j \in DOMAIN ring : ring[j] = h
      BY <1>1, <2>4, RemovedIs
    <3>2. PICK x \in Placed : hashOf[x] = h /\ nodeMap[h] = x[1]
      BY <2>1, <3>1
    <3>3. nodeMap[h] # s
      BY <1>1, <2>1, <2>4, RemovedIs
    <3> QED
      BY <1>7, <3>2, <3>3
  <2> QED
    BY <2>2, <2>3, <2>4
<1> QED
  BY <1>1, <1>4, <1>5, <1>6, <1>8 DEF RingInv

LEMMA RingStep == RingInv /\ [Ring!Next]_ringVars => RingInv'
<1> SUFFICES ASSUME RingInv, [Ring!Next]_ringVars
             PROVE  RingInv'
  OBVIOUS
<1>1. CASE Ring!Next
  BY <1>1, AddStep, RemoveStep DEF Ring!Next
<1>2. CASE UNCHANGED ringVars
  <2>1. ring' = ring /\ hashOf' = hashOf /\ nodeMap' = nodeMap /\ shardSet' = shardSet
    BY <1>2 DEF ringVars
  <2> QED
    BY <2>1 DEF RingInv, Ring!TypeOK, Ascends, Placed
<1> QED
  BY <1>1, <1>2

(* The search finds a hash of the list nearest to hash.                    *)
LEMMA NearestIs ==
  ASSUME NEW r \in Seq(Ring!Hashes), Ascends(r), r # <<>>, NEW hash \in Ring!Hashes
  PROVE  LET above == {i \in 1..Len(r) : r[i] >= hash}
             k == IF above = {} THEN 1 ELSE CHOOSE i \in above : \A j \in above : i <= j
         IN /\ k \in DOMAIN r
            /\ \A i \in DOMAIN r : Ring!Distance(hash, r[k]) <= Ring!Distance(hash, r[i])
<1> DEFINE L == Len(r)
           above == {i \in 1..L : r[i] >= hash}
           k == IF above = {} THEN 1 ELSE CHOOSE i \in above : \A j \in above : i <= j
           place(i) == ((k + i - 2) % L) + 1
<1>1. L \in Nat \ {0} /\ DOMAIN r = 1..L /\ r \in [1..L -> Ring!Hashes]
  OBVIOUS
<1> HIDE DEF L
<1>2. /\ k \in 1..L
      /\ \/ k = 1 /\ \A i \in 1..L : r[i] < hash
         \/ \A i \in 1..L : (i < k => r[i] < hash) /\ (k <= i => hash <= r[i])
  BY <1>1, StartIs
<1> HIDE DEF k
<1>3. /\ place(1) = k
      /\ \A i \in 1..L : place(i) \in 1..L
      /\ \A p \in 1..L : \E i \in 1..L : place(i) = p
      /\ \A i, j \in 1..L : i < j =>
           Ring!Distance(hash, r[place(i)]) <= Ring!Distance(hash, r[place(j)])
  BY <1>1, <1>2, RoundIs
<1> HIDE DEF place
<1>4. ASSUME NEW p \in 1..L
      PROVE  Ring!Distance(hash, r[k]) <= Ring!Distance(hash, r[p])
  <2>1. PICK i \in 1..L : place(i) = p
    BY <1>3
  <2>2. CASE i = 1
    <3>1. p = k /\ r[k] \in Ring!Hashes
      BY <1>1, <1>2, <1>3, <2>1, <2>2
    <3>2. Ring!Distance(hash, r[k]) \in Nat
      BY <3>1, DistanceTells
    <3> QED
      BY <3>1, <3>2
  <2>3. CASE i # 1
    <3>1. 1 \in 1..L /\ 1 < i
      BY <1>1, <2>3
    <3> QED
      BY <1>3, <2>1, <3>1
  <2> QED
    BY <2>2, <2>3
<1> QED
  BY <1>1, <1>2, <1>4 DEF k, L

LEMMA RoutesToNearest ==
  ASSUME ring \in Seq(Ring!Hashes), Ascends(ring), NEW hash \in Ring!Hashes
  PROVE  /\ ring = <<>> => Ring!GetShardForKey(hash) = Nobody
         /\ ring # <<>> => \E k \in DOMAIN ring :
              /\ Ring!GetShardForKey(hash) = nodeMap[ring[k]]
              /\ \A i \in DOMAIN ring :
                   Ring!Distance(hash, ring[k]) <= Ring!Distance(hash, ring[i])
<1>1. CASE ring = <<>>
  BY <1>1 DEF Ring!GetShardForKey
<1>2. CASE ring # <<>>
  <2>1. /\ Ring!Search(hash) \in DOMAIN ring
        /\ \A i \in DOMAIN ring :
             Ring!Distance(hash, ring[Ring!Search(hash)]) <= Ring!Distance(hash, ring[i])
    BY <1>2, NearestIs DEF Ring!Search
  <2>2. Ring!GetShardForKey(hash) = nodeMap[ring[Ring!Search(hash)]]
    BY <1>2 DEF Ring!GetShardForKey
  <2> QED
    BY <1>2, <2>1, <2>2
<1> QED
  BY <1>1, <1>2

LEMMA RoutesToNearestNext ==
  ASSUME ring' \in Seq(Ring!Hashes), Ascends(ring'), NEW hash \in Ring!Hashes
  PROVE  /\ ring' = <<>> => Ring!GetShardForKey(hash)' = Nobody
         /\ ring' # <<>> => \E k \in DOMAIN ring' :
              /\ Ring!GetShardForKey(hash)' = nodeMap'[ring'[k]]
              /\ \A i \in DOMAIN ring' :
                   Ring!Distance(hash, ring'[k]) <= Ring!Distance(hash, ring'[i])
<1>1. CASE ring' = <<>>
  BY <1>1 DEF Ring!GetShardForKey
<1>2. CASE ring' # <<>>
  <2>1. /\ Ring!Search(hash)' \in DOMAIN ring'
        /\ \A i \in DOMAIN ring' :
             Ring!Distance(hash, ring'[Ring!Search(hash)']) <= Ring!Distance(hash, ring'[i])
    BY <1>2, NearestIs DEF Ring!Search
  <2>2. Ring!GetShardForKey(hash)' = nodeMap'[ring'[Ring!Search(hash)']]
    BY <1>2 DEF Ring!GetShardForKey
  <2> QED
    BY <1>2, <2>1, <2>2
<1> QED
  BY <1>1, <1>2

(* Two nearest hashes are one.                                             *)
LEMMA NearestIsOne ==
  ASSUME NEW hash \in Ring!Hashes, NEW g \in Ring!Hashes, NEW h \in Ring!Hashes,
         Ring!Distance(hash, g) <= Ring!Distance(hash, h),
         Ring!Distance(hash, h) <= Ring!Distance(hash, g)
  PROVE  g = h
<1>1. Ring!Distance(hash, g) \in Nat /\ Ring!Distance(hash, h) \in Nat
  BY DistanceTells
<1>2. Ring!Distance(hash, g) = Ring!Distance(hash, h)
  BY <1>1
<1> QED
  BY <1>2, DistanceTells

(* A key that moves when a shard is added moves to it: what is nearest now *)
(* and was there before was nearest before.                                *)
LEMMA AddMoves ==
  ASSUME RingInv, NEW s \in Shards, Ring!AddShard(s), NEW hash \in Ring!Hashes,
         Ring!GetShardForKey(hash)' # Ring!GetShardForKey(hash)
  PROVE  Ring!GetShardForKey(hash)' \in shardSet' \ shardSet
<1>1. /\ Ring!TypeOK /\ ring \in Seq(Ring!Hashes) /\ Ascends(ring)
      /\ s \notin shardSet /\ shardSet' = shardSet \cup {s}
  BY DEF RingInv, Ring!TypeOK, Ring!AddShard
<1>2. /\ ring' \in Seq(Ring!Hashes)
      /\ Ascends(ring')
      /\ \A i \in DOMAIN ring' : \/ \E j \in DOMAIN ring : ring[j] = ring'[i]
                                 \/ \E v \in 1..VirtualNodes : hashOf[<<s, v>>] = ring'[i]
      /\ \A j \in DOMAIN ring : \E i \in DOMAIN ring' : ring'[i] = ring[j]
      /\ \A v \in 1..VirtualNodes : \E i \in DOMAIN ring' : ring'[i] = hashOf[<<s, v>>]
  BY <1>1, AddedIs
<1>3. \A h \in Ring!Hashes :
        nodeMap'[h] = IF \E v \in 1..VirtualNodes : hashOf[<<s, v>>] = h THEN s ELSE nodeMap[h]
  BY AddedMap
<1>4. ring' # <<>>
  <2>1. 1 \in 1..VirtualNodes
    BY PartsAssumption
  <2>2. PICK i \in DOMAIN ring' : ring'[i] = hashOf[<<s, 1>>]
    BY <1>2, <2>1
  <2> QED
    BY <2>2
<1>5. PICK k \in DOMAIN ring' :
        /\ Ring!GetShardForKey(hash)' = nodeMap'[ring'[k]]
        /\ \A i \in DOMAIN ring' :
             Ring!Distance(hash, ring'[k]) <= Ring!Distance(hash, ring'[i])
  BY <1>2, <1>4, RoutesToNearestNext
<1>6. ring'[k] \in Ring!Hashes
  BY <1>2
<1>7. CASE \E v \in 1..VirtualNodes : hashOf[<<s, v>>] = ring'[k]
  BY <1>1, <1>3, <1>5, <1>6, <1>7
<1>8. CASE ~\E v \in 1..VirtualNodes : hashOf[<<s, v>>] = ring'[k]
  <2>1. PICK j \in DOMAIN ring : ring[j] = ring'[k]
    BY <1>2, <1>8
  <2>2. ring # <<>>
    BY <2>1
  <2>3. PICK n \in DOMAIN ring :
          /\ Ring!GetShardForKey(hash) = nodeMap[ring[n]]
          /\ \A i \in DOMAIN ring :
               Ring!Distance(hash, ring[n]) <= Ring!Distance(hash, ring[i])
    BY <1>1, <2>2, RoutesToNearest
  <2>4. ring[n] \in Ring!Hashes
    BY <1>1
  <2>5. Ring!Distance(hash, ring[n]) <= Ring!Distance(hash, ring'[k])
    BY <2>1, <2>3
  <2>6. Ring!Distance(hash, ring'[k]) <= Ring!Distance(hash, ring[n])
    BY <1>2, <1>5
  <2>7. ring[n] = ring'[k]
    BY <1>6, <2>4, <2>5, <2>6, NearestIsOne
  <2> QED
    BY <1>3, <1>5, <1>6, <1>8, <2>3, <2>7
<1> QED
  BY <1>7, <1>8

(* A key that moves when a shard is removed was on it.                     *)
LEMMA RemoveMoves ==
  ASSUME RingInv, NEW s \in Shards, Ring!RemoveShard(s), NEW hash \in Ring!Hashes,
         Ring!GetShardForKey(hash)' # Ring!GetShardForKey(hash)
  PROVE  Ring!GetShardForKey(hash) \in shardSet \ shardSet'
<1>1. /\ Ring!TypeOK /\ ring \in Seq(Ring!Hashes) /\ Ascends(ring)
      /\ s \in shardSet /\ shardSet' = shardSet \ {s}
      /\ nodeMap' = [h \in Ring!Hashes |-> IF nodeMap[h] = s THEN Nobody ELSE nodeMap[h]]
  BY DEF RingInv, Ring!TypeOK, Ring!RemoveShard
<1>2. /\ ring' \in Seq(Ring!Hashes)
      /\ Ascends(ring')
      /\ \A i \in DOMAIN ring' : \E j \in DOMAIN ring : ring[j] = ring'[i]
      /\ \A j \in DOMAIN ring : nodeMap[ring[j]] # s =>
           \E i \in DOMAIN ring' : ring'[i] = ring[j]
  BY <1>1, RemovedIs
<1>3. ring # <<>>
  <2>1. CASE ring = <<>>
    <3>1. DOMAIN ring = {}
      BY <2>1
    <3>2. DOMAIN ring' = {}
      BY <1>2, <3>1
    <3>3. ring' = <<>>
      BY <1>2, <3>2
    <3> QED
      BY <1>1, <1>2, <2>1, <3>3, RoutesToNearest, RoutesToNearestNext
  <2> QED
    BY <2>1
<1>4. PICK n \in DOMAIN ring :
        /\ Ring!GetShardForKey(hash) = nodeMap[ring[n]]
        /\ \A i \in DOMAIN ring :
             Ring!Distance(hash, ring[n]) <= Ring!Distance(hash, ring[i])
  BY <1>1, <1>3, RoutesToNearest
<1>5. ring[n] \in Ring!Hashes
  BY <1>1
<1>6. CASE nodeMap[ring[n]] = s
  BY <1>1, <1>4, <1>6
<1>7. CASE nodeMap[ring[n]] # s
  <2>1. PICK m \in DOMAIN ring' : ring'[m] = ring[n]
    BY <1>2, <1>7
  <2>2. ring' # <<>>
    BY <2>1
  <2>3. PICK k \in DOMAIN ring' :
          /\ Ring!GetShardForKey(hash)' = nodeMap'[ring'[k]]
          /\ \A i \in DOMAIN ring' :
               Ring!Distance(hash, ring'[k]) <= Ring!Distance(hash, ring'[i])
    BY <1>2, <2>2, RoutesToNearestNext
  <2>4. ring'[k] \in Ring!Hashes
    BY <1>2
  <2>5. Ring!Distance(hash, ring'[k]) <= Ring!Distance(hash, ring[n])
    BY <2>1, <2>3
  <2>6. Ring!Distance(hash, ring[n]) <= Ring!Distance(hash, ring'[k])
    BY <1>2, <1>4
  <2>7. ring'[k] = ring[n]
    BY <1>5, <2>4, <2>5, <2>6, NearestIsOne
  <2> QED
    BY <1>1, <1>5, <1>7, <1>4, <2>3, <2>7
<1> QED
  BY <1>6, <1>7

LEMMA SuccessorIs ==
  ASSUME NEW members, members # {}, NEW hash,
         NEW x \in members \X (1..VirtualNodes),
         \A y \in members \X (1..VirtualNodes) :
           Ring!Distance(hash, hashOf[x]) <= Ring!Distance(hash, hashOf[y]),
         \A z \in members \X (1..VirtualNodes) :
           (\A y \in members \X (1..VirtualNodes) :
              Ring!Distance(hash, hashOf[z]) <= Ring!Distance(hash, hashOf[y])) => z = x
  PROVE  Ring!Successor(members, hash) = x[1]
BY DEF Ring!Successor

LEMMA RingRoutes == RingInv => RoutesByMembership
<1> DEFINE shared == Ring!Colliding(hashOf)
<1> SUFFICES ASSUME RingInv, NEW hash \in Ring!Hashes, Ring!Untouched(hash, shared)
             PROVE  Ring!GetShardForKey(hash) = Ring!Successor(shardSet, hash)
  BY DEF RoutesByMembership, Ring!RoutesByMembership
<1>1. /\ Ring!TypeOK /\ ring \in Seq(Ring!Hashes) /\ Ascends(ring)
      /\ shardSet \in SUBSET Shards /\ hashOf \in Ring!AnyHash
      /\ hashOf \in [Shards \X (1..VirtualNodes) -> Ring!Hashes]
  BY DEF RingInv, Ring!TypeOK, Ring!AnyHash
<1>2. \A x \in Placed : x \in Shards \X (1..VirtualNodes) /\ hashOf[x] \in Ring!Hashes
  BY <1>1 DEF Placed
<1>3. \A i \in DOMAIN ring : ring[i] \in Ring!Hashes
  BY <1>1
<1>4. \A h \in Ring!Hashes \ shared :
        /\ \A x \in Placed : hashOf[x] = h =>
             nodeMap[h] = x[1] /\ \E i \in DOMAIN ring : ring[i] = h
        /\ \A i \in DOMAIN ring : ring[i] = h => \E x \in Placed : hashOf[x] = h
  BY DEF RingInv
<1>5. \A x \in Shards \X (1..VirtualNodes), y \in Shards \X (1..VirtualNodes) :
        hashOf[x] = hashOf[y] /\ x # y => hashOf[x] \in shared
  BY <1>1, SharedIsColliding
<1>6. \/ shared = {}
      \/ \E x \in Placed : \A h \in shared :
           Ring!Distance(hash, hashOf[x]) < Ring!Distance(hash, h)
  BY DEF Ring!Untouched, Placed
<1>7. shared \in SUBSET Ring!Hashes
  BY DEF Ring!Colliding
<1> HIDE DEF shared
<1>8. CASE shardSet = {}
  <2>1. Placed = {}
    BY <1>8 DEF Placed
  <2>2. shared = {}
    BY <1>6, <2>1
  <2>3. DOMAIN ring = {}
    BY <1>3, <1>4, <2>1, <2>2
  <2>4. ring = <<>>
    BY <1>1, <2>3
  <2> QED
    BY <1>1, <1>8, <2>4, RoutesToNearest DEF Ring!Successor
<1>9. CASE shardSet # {}
  <2>1. PICK x \in Placed : \A h \in shared :
               Ring!Distance(hash, hashOf[x]) < Ring!Distance(hash, h)
    <3>1. PICK s \in shardSet : TRUE
      BY <1>9
    <3>2. <<s, 1>> \in Placed
      BY <3>1, PartsAssumption DEF Placed
    <3> QED
      BY <1>6, <3>2
  <2>2. hashOf[x] \in Ring!Hashes \ shared
    <3>1. Ring!Distance(hash, hashOf[x]) \in Nat
      BY <1>2, DistanceTells
    <3>2. ~(Ring!Distance(hash, hashOf[x]) < Ring!Distance(hash, hashOf[x]))
      BY <3>1
    <3> QED
      BY <1>2, <2>1, <3>2
  <2>3. PICK a \in DOMAIN ring : ring[a] = hashOf[x]
    BY <1>4, <2>2
  <2>4. ring # <<>>
    BY <2>3
  <2>5. PICK k \in DOMAIN ring :
          /\ Ring!GetShardForKey(hash) = nodeMap[ring[k]]
          /\ \A i \in DOMAIN ring :
               Ring!Distance(hash, ring[k]) <= Ring!Distance(hash, ring[i])
    BY <1>1, <2>4, RoutesToNearest
  <2>6. Ring!Distance(hash, ring[k]) <= Ring!Distance(hash, hashOf[x])
    BY <2>3, <2>5
  <2>7. \A h \in Ring!Hashes : Ring!Distance(hash, h) \in Nat
    BY DistanceTells
  <2>8. ring[k] \notin shared
    <3>1. Ring!Distance(hash, ring[k]) \in Nat /\ Ring!Distance(hash, hashOf[x]) \in Nat
      BY <1>2, <1>3, <2>7
    <3>2. ~(Ring!Distance(hash, hashOf[x]) < Ring!Distance(hash, ring[k]))
      BY <2>6, <3>1
    <3> QED
      BY <2>1, <3>2
  <2>9. PICK z \in Placed : hashOf[z] = ring[k] /\ nodeMap[ring[k]] = z[1]
    BY <1>3, <1>4, <2>8
  <2>10. ASSUME NEW w \in Placed
         PROVE  Ring!Distance(hash, ring[k]) <= Ring!Distance(hash, hashOf[w])
    <3>1. CASE hashOf[w] \in shared
      <4>1. Ring!Distance(hash, hashOf[x]) < Ring!Distance(hash, hashOf[w])
        BY <2>1, <3>1
      <4>2. /\ Ring!Distance(hash, hashOf[x]) \in Nat
            /\ Ring!Distance(hash, hashOf[w]) \in Nat
            /\ Ring!Distance(hash, ring[k]) \in Nat
        BY <1>2, <1>3, <2>7
      <4> QED
        BY <2>6, <4>1, <4>2
    <3>2. CASE hashOf[w] \notin shared
      <4>1. \E i \in DOMAIN ring : ring[i] = hashOf[w]
        BY <1>2, <1>4, <3>2
      <4> QED
        BY <2>5, <4>1
    <3> QED
      BY <3>1, <3>2
  <2>11. ASSUME NEW w \in Placed, \A y \in Placed :
                  Ring!Distance(hash, hashOf[w]) <= Ring!Distance(hash, hashOf[y])
         PROVE  w = z
    <3>1. hashOf[w] = hashOf[z]
      <4>1. /\ Ring!Distance(hash, hashOf[w]) <= Ring!Distance(hash, hashOf[z])
            /\ Ring!Distance(hash, hashOf[z]) <= Ring!Distance(hash, hashOf[w])
        BY <2>9, <2>10, <2>11
      <4>2. hashOf[w] \in Ring!Hashes /\ hashOf[z] \in Ring!Hashes
        BY <1>2
      <4> QED
        BY <4>1, <4>2, NearestIsOne
    <3> QED
      BY <1>2, <1>5, <2>8, <2>9, <3>1
  <2>12. Ring!Successor(shardSet, hash) = z[1]
    <3>1. \A y \in Placed : Ring!Distance(hash, hashOf[z]) <= Ring!Distance(hash, hashOf[y])
      BY <2>9, <2>10
    <3> QED
      BY <1>9, <2>11, <3>1, SuccessorIs DEF Placed
  <2> QED
    BY <2>5, <2>9, <2>12
<1> QED
  BY <1>8, <1>9

(* Without a collision, the virtual nodes placed and the entries of the    *)
(* ring are the same, and the map tells whose each is.                     *)
LEMMA EntriesAreNodes ==
  ASSUME RingInv, Ring!Colliding(hashOf) = {}
  PROVE  /\ \A i \in DOMAIN ring : /\ ring[i] \in Ring!Hashes
                                   /\ \E x \in Placed : hashOf[x] = ring[i] /\ nodeMap[ring[i]] = x[1]
         /\ \A x \in Placed : /\ hashOf[x] \in Ring!Hashes
                              /\ \E i \in DOMAIN ring : ring[i] = hashOf[x]
                              /\ nodeMap[hashOf[x]] = x[1]
         /\ \A x, y \in Placed : hashOf[x] = hashOf[y] => x = y
<1>1. /\ ring \in Seq(Ring!Hashes) /\ shardSet \in SUBSET Shards /\ hashOf \in Ring!AnyHash
      /\ hashOf \in [Shards \X (1..VirtualNodes) -> Ring!Hashes]
  BY DEF RingInv, Ring!TypeOK, Ring!AnyHash
<1>2. \A x \in Placed : x \in Shards \X (1..VirtualNodes) /\ hashOf[x] \in Ring!Hashes
  BY <1>1 DEF Placed
<1>3. \A i \in DOMAIN ring : ring[i] \in Ring!Hashes
  BY <1>1
<1>4. \A h \in Ring!Hashes :
        /\ \A x \in Placed : hashOf[x] = h =>
             nodeMap[h] = x[1] /\ \E i \in DOMAIN ring : ring[i] = h
        /\ \A i \in DOMAIN ring : ring[i] = h => \E x \in Placed : hashOf[x] = h
  BY DEF RingInv
<1>5. \A x \in Shards \X (1..VirtualNodes), y \in Shards \X (1..VirtualNodes) :
        hashOf[x] = hashOf[y] => x = y
  BY <1>1, SharedIsColliding
<1>6. \A i \in DOMAIN ring : \E x \in Placed : hashOf[x] = ring[i] /\ nodeMap[ring[i]] = x[1]
  BY <1>3, <1>4
<1>7. \A x \in Placed : nodeMap[hashOf[x]] = x[1] /\ \E i \in DOMAIN ring : ring[i] = hashOf[x]
  BY <1>2, <1>4
<1> QED
  BY <1>2, <1>3, <1>5, <1>6, <1>7

(* Without a collision, the shards met going round are the members, each   *)
(* once, and each is the successor of hash among those not met before.     *)
LEMMA MetIs ==
  ASSUME RingInv, Ring!Colliding(hashOf) = {}, shardSet # {}, NEW hash \in Ring!Hashes
  PROVE  /\ Cardinality(shardSet) \in Nat
         /\ Ring!Met(hash) \in [1..Cardinality(shardSet) -> shardSet]
         /\ \A n \in 1..Cardinality(shardSet) :
              Ring!Successor(shardSet \ {Ring!Met(hash)[j] : j \in 1..(n - 1)}, hash)
                = Ring!Met(hash)[n]
<1> DEFINE L == Len(ring)
           k == Ring!Search(hash)
           place(i) == ((k + i - 2) % L) + 1
           round == [i \in DOMAIN ring |-> nodeMap[ring[place(i)]]]
           K == {i \in DOMAIN ring : \A j \in 1..(i - 1) : round[j] # round[i]}
           c == Cardinality(K)
           met == Ring!Met(hash)
<1>1. /\ ring \in Seq(Ring!Hashes) /\ Ascends(ring) /\ shardSet \in SUBSET Shards
      /\ L \in Nat /\ DOMAIN ring = 1..L /\ ring \in [1..L -> Ring!Hashes]
  BY DEF RingInv, Ring!TypeOK
<1>2. /\ \A i \in DOMAIN ring : /\ ring[i] \in Ring!Hashes
                                /\ \E x \in Placed : hashOf[x] = ring[i] /\ nodeMap[ring[i]] = x[1]
      /\ \A x \in Placed : /\ hashOf[x] \in Ring!Hashes
                           /\ \E i \in DOMAIN ring : ring[i] = hashOf[x]
                           /\ nodeMap[hashOf[x]] = x[1]
      /\ \A x, y \in Placed : hashOf[x] = hashOf[y] => x = y
  BY EntriesAreNodes
<1>3. \A s \in shardSet : <<s, 1>> \in Placed /\ <<s, 1>>[1] = s
  BY PartsAssumption DEF Placed
<1>4. L \in Nat \ {0}
  <2>1. PICK s \in shardSet : TRUE
    OBVIOUS
  <2>2. PICK i \in DOMAIN ring : ring[i] = hashOf[<<s, 1>>]
    BY <1>2, <1>3, <2>1
  <2> QED
    BY <1>1, <2>2
<1>5. /\ k \in 1..L
      /\ \/ k = 1 /\ \A i \in 1..L : ring[i] < hash
         \/ \A i \in 1..L : (i < k => ring[i] < hash) /\ (k <= i => hash <= ring[i])
  BY <1>1, <1>4, StartIs DEF Ring!Search
<1> HIDE DEF L, k, round, K, met
<1>6. /\ place(1) = k
      /\ \A i \in 1..L : place(i) \in 1..L
      /\ \A p \in 1..L : \E i \in 1..L : place(i) = p
      /\ \A i, j \in 1..L : i < j =>
           Ring!Distance(hash, ring[place(i)]) <= Ring!Distance(hash, ring[place(j)])
  BY <1>1, <1>4, <1>5, RoundIs
<1>7. /\ met = Ring!Keep(round, K)
      /\ K \in SUBSET (1..L)
      /\ \A i \in 1..L : round[i] = nodeMap[ring[place(i)]]
  BY <1>1 DEF Ring!Met, k, round, K, met, L
<1>8. /\ \A i \in K : \A j \in 1..(i - 1) : round[j] # round[i]
      /\ \A i \in 1..L : i \notin K => \E j \in 1..(i - 1) : round[j] = round[i]
  BY <1>1 DEF K
<1> HIDE DEF place
<1>9. PICK order \in [1..c -> K] :
        /\ Ring!Keep(round, K) = [n \in 1..c |-> round[order[n]]]
        /\ \A i \in K : \E n \in 1..c : order[n] = i
        /\ \A m, n \in 1..c : m < n => order[m] < order[n]
  <2>1. L \in Nat /\ K \in SUBSET (1..L)
    BY <1>1, <1>7
  <2> QED
    BY <2>1, KeepIs
<1>10. c \in Nat
  <2>1. L \in Nat /\ K \in SUBSET (1..L)
    BY <1>1, <1>7
  <2> QED
    BY <2>1, KeepIs
<1> HIDE DEF c
<1>11. /\ met = [n \in 1..c |-> round[order[n]]]
       /\ \A n \in 1..c : met[n] = round[order[n]] /\ order[n] \in K /\ order[n] \in 1..L
  <2>1. \A n \in 1..c : order[n] \in K
    BY <1>9
  <2> QED
    BY <1>7, <1>9, <2>1
(* What is met at each place, and where each virtual node is met.          *)
<1>12. \A i \in 1..L : \E x \in Placed : hashOf[x] = ring[place(i)] /\ round[i] = x[1]
  <2>1. SUFFICES ASSUME NEW i \in 1..L
                 PROVE  \E x \in Placed : hashOf[x] = ring[place(i)] /\ round[i] = x[1]
    OBVIOUS
  <2>2. place(i) \in DOMAIN ring /\ round[i] = nodeMap[ring[place(i)]]
    BY <1>1, <1>6, <1>7
  <2> QED
    BY <1>2, <2>2
<1>13. \A x \in Placed : \E i \in 1..L : ring[place(i)] = hashOf[x] /\ round[i] = x[1]
  <2>1. SUFFICES ASSUME NEW x \in Placed
                 PROVE  \E i \in 1..L : ring[place(i)] = hashOf[x] /\ round[i] = x[1]
    OBVIOUS
  <2>2. PICK p \in 1..L : ring[p] = hashOf[x]
    BY <1>1, <1>2
  <2>3. PICK i \in 1..L : place(i) = p
    BY <1>6
  <2>4. round[i] = x[1]
    BY <1>2, <1>7, <2>2, <2>3
  <2> QED
    BY <2>2, <2>3, <2>4
<1>14. \A x \in Placed : x[1] \in shardSet
  BY DEF Placed
<1>15. ASSUME NEW i \in 1..L
       PROVE  \E n \in 1..c : order[n] <= i /\ met[n] = round[i]
  <2> DEFINE T == {j \in 1..L : round[j] = round[i]}
  <2>1. T \in SUBSET Nat /\ i \in T
    BY <1>1
  <2>2. PICK j \in T : \A m \in T : j <= m
    <3> HIDE DEF T
    <3> QED
      BY <2>1, Least
  <2>3. j \in 1..L /\ round[j] = round[i] /\ j <= i
    BY <2>1, <2>2
  <2>4. j \in K
    <3>1. \A m \in 1..(j - 1) : m \in 1..L /\ ~(j <= m)
      BY <1>1, <2>3
    <3>2. \A m \in 1..(j - 1) : round[m] # round[j]
      BY <2>2, <2>3, <3>1
    <3> QED
      BY <1>8, <2>3, <3>2
  <2>5. PICK n \in 1..c : order[n] = j
    BY <1>9, <2>4
  <2> QED
    BY <1>11, <2>3, <2>5
<1>16. met \in [1..c -> shardSet]
  <2>1. \A n \in 1..c : round[order[n]] \in shardSet
    BY <1>11, <1>12, <1>14
  <2> QED
    BY <1>11, <2>1
<1>17. ASSUME NEW m \in 1..c, NEW n \in 1..c, m < n
       PROVE  met[m] # met[n]
  <2>1. order[m] < order[n] /\ order[m] \in 1..L /\ order[n] \in K /\ order[n] \in 1..L
    BY <1>9, <1>11, <1>17
  <2>2. order[m] \in 1..(order[n] - 1)
    BY <1>1, <2>1
  <2> QED
    BY <1>8, <1>11, <2>1, <2>2
<1>18. \A s \in shardSet : \E n \in 1..c : met[n] = s
  <2>1. SUFFICES ASSUME NEW s \in shardSet
                 PROVE  \E n \in 1..c : met[n] = s
    OBVIOUS
  <2>2. PICK i \in 1..L : round[i] = s
    BY <1>3, <1>13
  <2> QED
    BY <1>15, <2>2
<1>19. Cardinality(shardSet) = c /\ IsFiniteSet(shardSet)
  <2>1. \A m, n \in 1..c : met[m] = met[n] => m = n
    <3>1. ASSUME NEW m \in 1..c, NEW n \in 1..c, met[m] = met[n]
          PROVE  m = n
      <4>1. ~(m < n) /\ ~(n < m)
        BY <1>17, <3>1
      <4> QED
        BY <1>10, <4>1
    <3> QED
      BY <3>1
  <2>2. met \in Bijection(1..c, shardSet)
    BY <1>16, <1>18, <2>1 DEF Bijection, Injection, Surjection, IsInjective
  <2>3. ExistsBijection(1..c, shardSet)
    BY <2>2 DEF ExistsBijection
  <2>4. IsFiniteSet(1..c) /\ Cardinality(1..c) = c
    BY <1>10, FS_Interval
  <2> QED
    BY <2>3, <2>4, FS_Bijection
<1>20. ASSUME NEW n \in 1..c
       PROVE  Ring!Successor(shardSet \ {met[j] : j \in 1..(n - 1)}, hash) = met[n]
  <2> DEFINE members == shardSet \ {met[j] : j \in 1..(n - 1)}
             theirs == members \X (1..VirtualNodes)
  <2>1. \A j \in 1..(n - 1) : j \in 1..c /\ j < n
    BY <1>10
  <2>2. met[n] \in members
    BY <1>16, <1>17, <2>1
  <2>3. PICK x \in Placed : hashOf[x] = ring[place(order[n])] /\ met[n] = x[1]
    BY <1>11, <1>12
  <2>4. x \in theirs
    BY <2>2, <2>3 DEF Placed
  <2>5. \A y \in theirs : y \in Placed /\ y[1] \in members
    BY DEF Placed
  <2>6. ASSUME NEW y \in theirs
        PROVE  Ring!Distance(hash, hashOf[x]) <= Ring!Distance(hash, hashOf[y])
    <3>1. PICK i \in 1..L : ring[place(i)] = hashOf[y] /\ round[i] = y[1]
      BY <1>13, <2>5
    <3>2. PICK m \in 1..c : order[m] <= i /\ met[m] = y[1]
      BY <1>15, <3>1
    <3>3. ~(m < n)
      <4>1. m < n => m \in 1..(n - 1)
        BY <1>10
      <4> QED
        BY <2>5, <3>2, <4>1
    <3>4. order[n] <= i /\ order[n] \in 1..L
      <4>1. m = n \/ n < m
        BY <1>10, <3>3
      <4>2. n < m => order[n] < order[m]
        BY <1>9
      <4>3. order[n] \in 1..L /\ order[m] \in 1..L
        BY <1>11
      <4> QED
        BY <1>1, <3>2, <4>1, <4>2, <4>3
    <3>5. CASE order[n] = i
      <4>1. hashOf[y] = hashOf[x] /\ hashOf[x] \in Ring!Hashes
        BY <1>2, <2>3, <3>1, <3>5
      <4>2. Ring!Distance(hash, hashOf[x]) \in Nat
        BY <4>1, DistanceTells
      <4> QED
        BY <4>1, <4>2
    <3>6. CASE order[n] # i
      <4>1. order[n] < i
        BY <1>1, <3>4, <3>6
      <4> QED
        BY <1>6, <2>3, <3>1, <3>4, <4>1
    <3> QED
      BY <3>5, <3>6
  <2>7. ASSUME NEW z \in theirs, \A y \in theirs :
                 Ring!Distance(hash, hashOf[z]) <= Ring!Distance(hash, hashOf[y])
        PROVE  z = x
    <3>1. /\ Ring!Distance(hash, hashOf[z]) <= Ring!Distance(hash, hashOf[x])
          /\ Ring!Distance(hash, hashOf[x]) <= Ring!Distance(hash, hashOf[z])
      BY <2>4, <2>6, <2>7
    <3>2. z \in Placed /\ hashOf[z] \in Ring!Hashes /\ hashOf[x] \in Ring!Hashes
      BY <1>2, <2>5
    <3>3. hashOf[z] = hashOf[x]
      BY <3>1, <3>2, NearestIsOne
    <3> QED
      BY <1>2, <3>2, <3>3
  <2>8. members # {}
    BY <2>2
  <2>9. Ring!Successor(members, hash) = x[1]
    <3> HIDE DEF members
    <3> QED
      BY <2>4, <2>6, <2>7, <2>8, SuccessorIs
  <2> QED
    BY <2>3, <2>9
<1> QED
  BY <1>10, <1>16, <1>19, <1>20 DEF met

LEMMA RingReplicas == RingInv => ReplicasInOrder
<1> SUFFICES ASSUME RingInv, Ring!Colliding(hashOf) = {}, NEW hash \in Ring!Hashes,
                    NEW n \in 0..Ring!Cardinality(Shards)
             PROVE  /\ Len(Ring!GetNShards(hash, n)) =
                         (IF n > Ring!Cardinality(shardSet) THEN Ring!Cardinality(shardSet) ELSE n)
                    /\ \A i \in 1..Len(Ring!GetNShards(hash, n)) :
                         Ring!GetNShards(hash, n)[i] =
                           Ring!Successor(shardSet \ {Ring!GetNShards(hash, n)[j] : j \in 1..(i - 1)}, hash)
  BY DEF ReplicasInOrder, Ring!ReplicasInOrder
<1> DEFINE size == Cardinality(shardSet)
           m == IF n > size THEN size ELSE n
           found == Ring!GetNShards(hash, n)
           met == Ring!Met(hash)
<1>1. Ring!Cardinality(shardSet) = size
  BY SameCardinality
<1>2. n \in Nat
  <2>1. Cardinality(Shards) \in Nat
    BY PartsAssumption, FS_CardinalityType
  <2> QED
    BY <2>1, SameCardinality
<1>3. CASE shardSet = {}
  <2>1. size = 0 /\ found = <<>>
    BY <1>3, FS_EmptySet DEF Ring!GetNShards
  <2>2. Len(found) = 0
    BY <2>1
  <2>3. m = 0
    BY <1>2, <2>1
  <2> QED
    BY <1>1, <1>2, <2>2, <2>3
<1>4. CASE shardSet # {}
  <2>1. /\ size \in Nat
        /\ met \in [1..size -> shardSet]
        /\ \A i \in 1..size :
             Ring!Successor(shardSet \ {met[j] : j \in 1..(i - 1)}, hash) = met[i]
    BY <1>4, MetIs
  <2>2. found = SubSeq(met, 1, m)
    BY <1>1, <1>4 DEF Ring!GetNShards
  <2>3. m \in Nat /\ m <= size
    BY <1>2, <2>1
  <2> HIDE DEF m, size, met, found
  <2>4. Len(found) = m /\ \A i \in 1..m : found[i] = met[i]
    <3>1. met \in Seq(shardSet) /\ Len(met) = size
      BY <2>1
    <3> QED
      BY <2>1, <2>2, <2>3, <3>1
  <2>5. ASSUME NEW i \in 1..m
        PROVE  found[i] = Ring!Successor(shardSet \ {found[j] : j \in 1..(i - 1)}, hash)
    <3>1. \A j \in 1..(i - 1) : j \in 1..m
      BY <2>3
    <3>2. {found[j] : j \in 1..(i - 1)} = {met[j] : j \in 1..(i - 1)}
      BY <2>4, <3>1
    <3>3. i \in 1..size
      BY <2>1, <2>3
    <3> QED
      BY <2>1, <2>4, <3>2, <3>3
  <2> QED
    BY <1>1, <2>4, <2>5 DEF found, m
<1> QED
  BY <1>3, <1>4

LEMMA RingRuns == PartsSpec => []RingInv
<1>1. [PartsNext]_partsVars => [Ring!Next]_ringVars
  BY DEF PartsNext, partsVars
<1> QED
  BY <1>1, RingInit, RingStep, PTL DEF PartsSpec

(* hash_ring.go AddShard and RemoveShard: whatever the hash function and   *)
(* the history of joins and removals, the ring is sorted, and a hash that  *)
(* no two virtual nodes share is in it once, mapped to its shard, exactly  *)
(* while the shard is a member.                                            *)
THEOREM RingMatchesMembers == PartsSpec => []RingInv
BY RingRuns

(* hash_ring.go GetShardForKey: routing depends on the members alone.      *)
THEOREM RingRoutesByMembership == PartsSpec => []RoutesByMembership
BY RingRuns, RingRoutes, PTL

(* hash_ring.go GetNShards: without a collision it names the successors,   *)
(* in order.                                                               *)
THEOREM RingReplicasInOrder == PartsSpec => []ReplicasInOrder
BY RingRuns, RingReplicas, PTL

(* hash_ring.go: a shard that joins takes over keys, one that leaves gives *)
(* up its own, and no other key moves, collisions or not.                  *)
THEOREM RingMovesOnlyItsKeys == PartsSpec => MovesOnlyItsKeys
<1> DEFINE Moves == \A hash \in Ring!Hashes :
                      Ring!GetShardForKey(hash)' # Ring!GetShardForKey(hash) =>
                        \/ Ring!GetShardForKey(hash)' \in shardSet' \ shardSet
                        \/ Ring!GetShardForKey(hash) \in shardSet \ shardSet'
<1>1. [PartsNext]_partsVars => [Ring!Next]_(Ring!vars)
  BY DEF PartsNext, partsVars, ringVars, Ring!vars
<1>2. RingInv /\ Ring!Next => Moves
  BY AddMoves, RemoveMoves DEF Ring!Next
<1>3. RingInv /\ [Ring!Next]_(Ring!vars) => [Moves]_(Ring!vars)
  BY <1>2
<1> QED
  BY <1>1, <1>3, RingRuns, PTL DEF PartsSpec, MovesOnlyItsKeys, Ring!MovesOnlyItsKeys
=============================================================================
