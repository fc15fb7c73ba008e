------------------------- MODULE SubsequenceProofs -------------------------
(***************************************************************************)
(* What Subsequences takes out of a sequence, for any sequence and places: *)
(* the places, enumerated in their order.                                  *)
(***************************************************************************)
EXTENDS Subsequences, FiniteSetTheorems, SequenceTheorems,
        WellFoundedInduction, TLAPS

-----------------------------------------------------------------------------
(* Ranks. *)

\* A set of naturals that is not empty has a least element.
LEMMA Smallest ==
  ASSUME NEW T, T \subseteq Nat, T # {}
  PROVE  \E x \in T : \A y \in T : x <= y
<1> DEFINE R == {ss \in Nat \X Nat : ss[1] < ss[2]}
<1>1. IsWellFoundedOn(R, Nat)
  BY NatLessThanWellFounded, Zenon DEF OpToRel
<1>2. \A x, y \in Nat : y < x => <<y, x>> \in R
  OBVIOUS
<1> HIDE DEF R
<1>3. PICK x \in T : \A y \in T : ~(<<y, x>> \in R)
  BY <1>1, WFMin
<1>4. \A y \in T : ~(y < x)
  BY <1>2, <1>3
<1> QED
  BY <1>4

\* Ranks count finite sets.
LEMMA RankType ==
  ASSUME NEW n \in Nat, NEW places, \A j \in places : j \in 1..n
  PROVE  /\ IsFiniteSet(places) /\ Cardinality(places) \in 0..n
         /\ \A i : IsFiniteSet({j \in places : j <= i})
         /\ \A i : Rank(places, i) \in 0..Cardinality(places)
<1>1. IsFiniteSet(1..n) /\ Cardinality(1..n) = n
  BY FS_Interval
<1>2. IsFiniteSet(places) /\ Cardinality(places) \in Nat /\ Cardinality(places) <= n
  <2>1. places \subseteq 1..n
    OBVIOUS
  <2> QED
    BY <1>1, <2>1, FS_Subset, FS_CardinalityType
<1>3. ASSUME NEW i
      PROVE  /\ IsFiniteSet({j \in places : j <= i})
             /\ Rank(places, i) \in 0..Cardinality(places)
  <2> DEFINE S == {j \in places : j <= i}
  <2>1. S \subseteq places
    OBVIOUS
  <2> HIDE DEF S
  <2>2. IsFiniteSet(S) /\ Cardinality(S) \in Nat /\ Cardinality(S) <= Cardinality(places)
    BY <1>2, <2>1, FS_Subset, FS_CardinalityType
  <2>3. IsFiniteSet(S) /\ Cardinality(S) \in 0..Cardinality(places)
    BY <1>2, <2>2
  <2> QED
    BY <2>3 DEF S, Rank
<1>4. Cardinality(places) \in 0..n
  BY <1>2
<1> QED
  BY <1>2, <1>3, <1>4, Zenon

\* A place counts itself.
LEMMA RankStep ==
  ASSUME NEW n \in Nat, NEW places, \A j \in places : j \in 1..n, NEW m \in 1..n
  PROVE  Rank(places, m) = IF m \in places THEN Rank(places, m - 1) + 1
                           ELSE Rank(places, m - 1)
<1> DEFINE S == {j \in places : j <= m - 1}
           T == {j \in places : j <= m}
<1>1. IsFiniteSet(S) /\ m \notin S
  BY RankType
<1>2. CASE m \in places
  <2>1. T = S \cup {m}
    <3>1. \A j \in places : j <= m <=> j <= m - 1 \/ j = m
      OBVIOUS
    <3> QED
      BY <1>2, <3>1
  <2> HIDE DEF S, T
  <2>2. Cardinality(T) = Cardinality(S) + 1
    BY <1>1, <2>1, FS_AddElement
  <2> QED
    BY <1>2, <2>2 DEF Rank, S, T
<1>3. CASE m \notin places
  <2>1. T = S
    BY <1>3
  <2> QED
    BY <1>3, <2>1 DEF Rank
<1> QED
  BY <1>2, <1>3

\* Later places have higher ranks.
LEMMA RankGrows ==
  ASSUME NEW n \in Nat, NEW places, \A j \in places : j \in 1..n,
         NEW i \in places, NEW j \in places, i < j
  PROVE  Rank(places, i) < Rank(places, j)
<1> DEFINE S == {k \in places : k <= i}
           T == {k \in places : k <= j - 1}
<1>0. i \in Nat /\ j \in Nat /\ j \in 1..n
  OBVIOUS
<1>1. S \subseteq T
  <2>1. \A k \in places : k <= i => k <= j - 1
    BY <1>0
  <2> QED
    BY <2>1
<1>6. IsFiniteSet(T)
  BY RankType
<1>2. Cardinality(S) <= Cardinality(T)
  BY <1>1, <1>6, FS_Subset
<1>3. Rank(places, i) <= Rank(places, j - 1)
  BY <1>2 DEF Rank
<1>4. Rank(places, j) = Rank(places, j - 1) + 1
  BY <1>0, RankStep
<1>5. Rank(places, i) \in Nat /\ Rank(places, j - 1) \in Nat
  BY RankType
<1> QED
  BY <1>3, <1>4, <1>5

\* Every rank is some place's.
LEMMA RankOnto ==
  ASSUME NEW n \in Nat, NEW places, \A j \in places : j \in 1..n, NEW k \in 1..Cardinality(places)
  PROVE  \E i \in places : Rank(places, i) = k
<1> DEFINE T == {m \in 0..n : Rank(places, m) >= k}
<1>0. Cardinality(places) \in Nat /\ k \in Nat /\ k > 0 /\ \A m : Rank(places, m) \in Nat
  BY RankType
<1>1. n \in T
  <2>1. {j \in places : j <= n} = places
    OBVIOUS
  <2> QED
    BY <1>0, <2>1 DEF Rank
<1>2. PICK m \in T : \A y \in T : m <= y
  <2>1. T \subseteq Nat /\ T # {}
    BY <1>1
  <2> QED
    BY <2>1, Smallest
<1>3. m # 0
  <2>1. {j \in places : j <= 0} = {}
    OBVIOUS
  <2>2. Rank(places, 0) = 0
    BY <2>1, FS_EmptySet DEF Rank
  <2> QED
    BY <1>0, <2>2
<1>4. m \in 1..n /\ m - 1 \in 0..n /\ m - 1 \notin T
  BY <1>2, <1>3
<1>5. Rank(places, m - 1) < k /\ Rank(places, m) >= k
  BY <1>0, <1>4
<1>6. m \in places /\ Rank(places, m) = Rank(places, m - 1) + 1
  BY <1>0, <1>4, <1>5, RankStep
<1> QED
  BY <1>0, <1>5, <1>6

-----------------------------------------------------------------------------
(* Enumerating the places. *)

\* The entries at some places are read along an enumeration of the places,
\* each of them once and in their order.
LEMMA PlacesInOrder ==
  ASSUME NEW S, NEW s \in Seq(S), NEW places, \A j \in places : j \in 1..Len(s)
  PROVE  \E at \in [1..Cardinality(places) -> places] :
           /\ AtPlaces(s, places) = [k \in 1..Cardinality(places) |-> s[at[k]]]
           /\ \A k, l \in 1..Cardinality(places) : k < l => at[k] < at[l]
           /\ \A i \in places : \E k \in 1..Cardinality(places) : at[k] = i
<1>1. PICK n : n = Len(s)
  OBVIOUS
<1>2. (\A i \in places : i \in 1..n) /\ n \in Nat
  BY <1>1
<1>3. PICK c : c = Cardinality(places)
  OBVIOUS
<1>4. c \in 0..n
  BY <1>2, <1>3, RankType
<1>5. PICK at : at = [k \in 1..c |-> CHOOSE i \in places : Rank(places, i) = k]
  OBVIOUS
<1>6. ASSUME NEW k \in 1..c
      PROVE  at[k] \in places /\ Rank(places, at[k]) = k
  BY <1>2, <1>3, <1>5, RankOnto
<1>7. at \in [1..c -> places]
  BY <1>5, <1>6
<1>8. ASSUME NEW i \in places
      PROVE  \E k \in 1..c : at[k] = i
  <2>1. PICK r : r = Rank(places, i)
    OBVIOUS
  <2>2. r \in 1..c
    <3>1. i \in 1..n /\ Rank(places, i - 1) \in Nat /\ r \in 0..c
      BY <1>2, <1>3, <2>1, RankType
    <3>2. r = Rank(places, i - 1) + 1
      BY <1>2, <2>1, <3>1, RankStep
    <3> QED
      BY <3>1, <3>2
  <2>3. PICK a : a = at[r]
    OBVIOUS
  <2>4. a \in places /\ Rank(places, a) = r /\ a \in Nat /\ i \in Nat /\ r \in Nat
    BY <1>2, <1>6, <2>2, <2>3
  <2>5. a < i => r < r
    BY <1>2, <2>1, <2>4, RankGrows
  <2>6. i < a => r < r
    BY <1>2, <2>1, <2>4, RankGrows
  <2> QED
    BY <2>2, <2>3, <2>4, <2>5, <2>6
<1>9. ASSUME NEW k \in 1..c, NEW l \in 1..c, k < l
      PROVE  at[k] < at[l]
  <2>1. PICK a : a = at[k]
    OBVIOUS
  <2>2. PICK b : b = at[l]
    OBVIOUS
  <2>3. a \in places /\ Rank(places, a) = k /\ b \in places /\ Rank(places, b) = l
    BY <1>6, <2>1, <2>2
  <2>4. a \in Nat /\ b \in Nat
    BY <1>2, <2>3
  <2>5. a # b /\ ~(b < a)
    BY <1>2, <1>9, <2>3, RankGrows
  <2> QED
    BY <2>1, <2>2, <2>4, <2>5
<1>10. AtPlaces(s, places) = [k \in 1..c |-> s[at[k]]]
  BY <1>3, <1>5 DEF AtPlaces
<1> QED
  BY <1>3, <1>7, <1>8, <1>9, <1>10

\* Taking entries of a sequence without repetition repeats none, and keeps
\* all that were to be kept.
LEMMA RetainedOnce ==
  ASSUME NEW S, NEW s \in Seq(S), NEW keep,
         \A i, j \in 1..Len(s) : s[i] = s[j] => i = j
  PROVE  /\ Retained(s, keep) \in Seq(S)
         /\ \A k, l \in 1..Len(Retained(s, keep)) :
               Retained(s, keep)[k] = Retained(s, keep)[l] => k = l
         /\ \A x : (\E k \in 1..Len(Retained(s, keep)) : Retained(s, keep)[k] = x)
                  <=> x \in keep /\ \E i \in 1..Len(s) : s[i] = x
<1>1. PICK places : places = {i \in DOMAIN s : s[i] \in keep}
  OBVIOUS
<1>2. /\ Len(s) \in Nat /\ DOMAIN s = 1..Len(s)
      /\ \A i \in places : i \in 1..Len(s)
  BY <1>1
<1>3. PICK c : c = Cardinality(places)
  OBVIOUS
<1>4. c \in Nat
  BY <1>2, <1>3, RankType
<1>5. PICK at \in [1..c -> places] :
           /\ AtPlaces(s, places) = [k \in 1..c |-> s[at[k]]]
           /\ \A k, l \in 1..c : k < l => at[k] < at[l]
           /\ \A i \in places : \E k \in 1..c : at[k] = i
  BY <1>2, <1>3, PlacesInOrder
<1>6. PICK r : r = Retained(s, keep)
  OBVIOUS
<1>7. r = [k \in 1..c |-> s[at[k]]]
  BY <1>1, <1>5, <1>6 DEF Retained
<1>8. \A k \in 1..c : at[k] \in places /\ at[k] \in 1..Len(s) /\ s[at[k]] \in S
  BY <1>2, <1>5
<1>9. r \in Seq(S) /\ Len(r) = c /\ \A k \in 1..c : r[k] = s[at[k]]
  BY <1>4, <1>7, <1>8
<1>10. ASSUME NEW k \in 1..c, NEW l \in 1..c, r[k] = r[l]
       PROVE  k = l
  <2>1. at[k] = at[l]
    BY <1>8, <1>9, <1>10
  <2>2. at[k] \in Nat /\ k \in Nat /\ l \in Nat
    BY <1>4, <1>8
  <2>3. (k < l => at[k] < at[l]) /\ (l < k => at[l] < at[k])
    BY <1>5
  <2> QED
    BY <2>1, <2>2, <2>3
<1>11. ASSUME NEW x
       PROVE  (\E k \in 1..c : r[k] = x)
                <=> x \in keep /\ \E i \in 1..Len(s) : s[i] = x
  <2>1. ASSUME NEW k \in 1..c, r[k] = x
        PROVE  x \in keep /\ \E i \in 1..Len(s) : s[i] = x
    BY <1>1, <1>8, <1>9, <2>1
  <2>2. ASSUME NEW i \in 1..Len(s), s[i] = x, x \in keep
        PROVE  \E k \in 1..c : r[k] = x
    <3>1. i \in places
      BY <1>1, <1>2, <2>2
    <3> QED
      BY <1>5, <1>9, <2>2, <3>1
  <2> QED
    BY <2>1, <2>2
<1> QED
  BY <1>6, <1>9, <1>10, <1>11
=============================================================================
