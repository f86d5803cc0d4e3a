-------------------------- MODULE FilteringProofs --------------------------
(***************************************************************************)
(* What the list operations of the free queue return, for every list.      *)
(***************************************************************************)
EXTENDS Filtering, Functions, FiniteSetTheorems, SequenceTheorems, WellFoundedInduction, TLAPS

(* Ranks number the kept positions: they grow with the position, start at  *)
(* one, and every number up to the count of kept positions is a rank.      *)
LEMMA RankNumbers ==
  ASSUME NEW T, NEW s \in Seq(T), NEW S,
         NEW n, n = Cardinality(KeptAt(s, S))
  PROVE  /\ n \in Nat /\ KeptAt(s, S) \subseteq 1 .. Len(s) /\ Len(s) \in Nat
         /\ \A i \in KeptAt(s, S) : Rank(s, S, i) \in 1 .. n
         /\ \A i, j \in KeptAt(s, S) : i < j => Rank(s, S, i) < Rank(s, S, j)
         /\ \A k \in 1 .. n : \E i \in KeptAt(s, S) : Rank(s, S, i) = k
<1> DEFINE P       == KeptAt(s, S)
           UpTo(i) == {j \in P : j <= i}
           r       == [i \in P |-> Rank(s, S, i)]
<1>1. Len(s) \in Nat /\ P \subseteq 1 .. Len(s)
  BY LenProperties DEF KeptAt
<1>2. IsFiniteSet(P)
  <2>1. IsFiniteSet(1 .. Len(s))
    BY <1>1, FS_Interval
  <2> QED BY <1>1, <2>1, FS_Subset
<1>3. n \in Nat /\ n = Cardinality(P) /\ P \subseteq Int
  BY <1>1, <1>2, FS_CardinalityType
<1>4. \A i \in P : Rank(s, S, i) = Cardinality(UpTo(i))
  BY DEF Rank
<1> HIDE DEF P
<1>5. ASSUME NEW i \in P
      PROVE  /\ IsFiniteSet(UpTo(i)) /\ Cardinality(UpTo(i)) \in Nat
             /\ Cardinality(UpTo(i)) \in 1 .. n
  <2>1. UpTo(i) \in SUBSET P /\ i \in UpTo(i)
    BY <1>3
  <2>2. IsFiniteSet(UpTo(i)) /\ Cardinality(UpTo(i)) <= n
    BY <1>2, <1>3, <2>1, FS_Subset
  <2>3. Cardinality(UpTo(i)) \in Nat /\ Cardinality(UpTo(i)) # 0
    BY <2>1, <2>2, FS_CardinalityType, FS_EmptySet
  <2> QED BY <1>3, <2>2, <2>3
<1>6. ASSUME NEW i \in P, NEW j \in P, i < j
      PROVE  Cardinality(UpTo(i)) < Cardinality(UpTo(j))
  <2>1. UpTo(i) \in SUBSET UpTo(j) /\ j \in UpTo(j) /\ j \notin UpTo(i)
    <3>1. i \in Int /\ j \in Int /\ \A k \in P : k \in Int
      BY <1>3
    <3>2. \A k \in P : k <= i => k <= j
      BY <1>6, <3>1
    <3>3. j <= j /\ ~(j <= i)
      BY <1>6, <3>1
    <3> QED BY <3>2, <3>3
  <2>2. /\ Cardinality(UpTo(i)) <= Cardinality(UpTo(j))
        /\ Cardinality(UpTo(i)) # Cardinality(UpTo(j))
    BY <1>5, <2>1, FS_Subset
  <2>3. Cardinality(UpTo(i)) \in Nat /\ Cardinality(UpTo(j)) \in Nat
    BY <1>5
  <2> QED BY <2>2, <2>3
<1> HIDE DEF UpTo
<1>7. r \in Injection(P, 1 .. n)
  <2>1. r \in [P -> 1 .. n]
    BY <1>4, <1>5
  <2>2. ASSUME NEW i \in P, NEW j \in P, r[i] = r[j] PROVE i = j
    <3>1. /\ i \in Int /\ j \in Int /\ r[i] \in Int /\ r[j] \in Int
          /\ ~(r[i] < r[j]) /\ ~(r[j] < r[i])
      BY <1>3, <2>1, <2>2
    <3>2. r[i] = Cardinality(UpTo(i)) /\ r[j] = Cardinality(UpTo(j))
      BY <1>4
    <3> QED BY <1>6, <3>1, <3>2
  <2> QED BY <2>1, <2>2 DEF Injection, IsInjective
<1> HIDE DEF r
<1>8. r \in Surjection(P, 1 .. n)
  <2>1. IsFiniteSet(1 .. n) /\ Cardinality(1 .. n) = n
    BY <1>3, FS_Interval
  <2> QED BY <1>2, <1>3, <1>7, <2>1, FS_Injection
<1>9. \A k \in 1 .. n : \E i \in P : Rank(s, S, i) = k
  BY <1>8 DEF Surjection, r
<1> USE DEF P
<1> QED BY <1>1, <1>3, <1>4, <1>5, <1>6, <1>9

(* The element at rank k of the filtered list, by its position in s.       *)
LEMMA FilteredElements ==
  ASSUME NEW T, NEW s \in Seq(T), NEW S, NEW f, f = Filtered(s, S)
  PROVE  /\ f \in Seq(T) /\ Len(f) = Cardinality(KeptAt(s, S))
         /\ \A k \in 1 .. Len(f) : \E i \in KeptAt(s, S) : Rank(s, S, i) = k /\ f[k] = s[i]
         /\ \A i \in KeptAt(s, S) : Rank(s, S, i) \in 1 .. Len(f) /\ f[Rank(s, S, i)] = s[i]
<1> DEFINE P      == KeptAt(s, S)
           n      == Cardinality(P)
           pos(k) == CHOOSE i \in P : Rank(s, S, i) = k
<1>1. /\ n \in Nat /\ P \subseteq 1 .. Len(s) /\ Len(s) \in Nat
      /\ \A i \in P : Rank(s, S, i) \in 1 .. n
      /\ \A i, j \in P : i < j => Rank(s, S, i) < Rank(s, S, j)
      /\ \A k \in 1 .. n : \E i \in P : Rank(s, S, i) = k
  BY RankNumbers
<1>2. f = [k \in 1 .. n |-> s[pos(k)]]
  BY DEF Filtered
<1>3. \A i \in 1 .. Len(s) : s[i] \in T
  BY ElementOfSeq
<1> HIDE DEF P, n
<1>4. \A k \in 1 .. n : pos(k) \in P /\ Rank(s, S, pos(k)) = k
  BY <1>1
<1>5. \A i \in P : pos(Rank(s, S, i)) = i
  <2>1. ASSUME NEW i \in P, NEW j \in P, Rank(s, S, j) = Rank(s, S, i) PROVE j = i
    <3>1. i \in Int /\ j \in Int /\ Rank(s, S, i) \in Int /\ Rank(s, S, j) \in Int
      BY <1>1
    <3> QED BY <1>1, <2>1, <3>1
  <2> QED BY <1>1, <1>4, <2>1
<1> HIDE DEF pos
<1>6. f \in Seq(T) /\ Len(f) = n
  <2>1. f \in [1 .. n -> T]
    BY <1>1, <1>2, <1>3, <1>4
  <2> QED BY <1>1, <2>1, IsASeq, LenProperties, SeqDef
<1>7. \A k \in 1 .. n : \E i \in P : Rank(s, S, i) = k /\ f[k] = s[i]
  BY <1>2, <1>4
<1>8. \A i \in P : Rank(s, S, i) \in 1 .. n /\ f[Rank(s, S, i)] = s[i]
  BY <1>1, <1>2, <1>5
<1> USE DEF P, n
<1> QED BY <1>6, <1>7, <1>8

(* Filtering keeps exactly the elements in S, and creates no duplicates.   *)
THEOREM FilteredKeeps ==
  ASSUME NEW T, NEW s \in Seq(T), NEW S
  PROVE  /\ Filtered(s, S) \in Seq(T)
         /\ Range(Filtered(s, S)) = Range(s) \cap S
         /\ IsInjective(s) => IsInjective(Filtered(s, S))
<1> DEFINE f == Filtered(s, S)
           P == KeptAt(s, S)
<1>1. /\ f \in Seq(T)
      /\ \A k \in 1 .. Len(f) : \E i \in P : Rank(s, S, i) = k /\ f[k] = s[i]
      /\ \A i \in P : Rank(s, S, i) \in 1 .. Len(f) /\ f[Rank(s, S, i)] = s[i]
  BY FilteredElements
<1>2. DOMAIN f = 1 .. Len(f) /\ DOMAIN s = 1 .. Len(s)
  BY <1>1, LenProperties
<1> HIDE DEF f
<1>3. Range(f) = Range(s) \cap S
  BY <1>1, <1>2 DEF Range, KeptAt
<1>4. ASSUME IsInjective(s) PROVE IsInjective(f)
  BY <1>1, <1>2, <1>4 DEF IsInjective, KeptAt
<1> QED BY <1>1, <1>3, <1>4 DEF f

(* Walking a list backwards visits the same elements.                      *)
THEOREM BackwardsKeeps ==
  ASSUME NEW T, NEW s \in Seq(T)
  PROVE  /\ Backwards(s) \in Seq(T)
         /\ Range(Backwards(s)) = Range(s)
         /\ IsInjective(s) => IsInjective(Backwards(s))
<1> DEFINE n == Len(s)
           r == Backwards(s)
<1>1. n \in Nat /\ DOMAIN s = 1 .. n /\ \A i \in 1 .. n : s[i] \in T
  BY LenProperties, ElementOfSeq
<1>2. r = [i \in 1 .. n |-> s[n + 1 - i]]
  BY DEF Backwards
<1> HIDE DEF n, r
<1>3. r \in Seq(T)
  <2>1. r \in [1 .. n -> T]
    BY <1>1, <1>2
  <2> QED BY <1>1, <2>1, IsASeq, SeqDef
<1>4. Range(r) = Range(s)
  <2>1. ASSUME NEW i \in 1 .. n PROVE s[i] \in Range(r)
    <3>1. n + 1 - i \in 1 .. n /\ r[n + 1 - i] = s[i]
      BY <1>1, <1>2
    <3> QED BY <1>2, <3>1 DEF Range
  <2>2. \A i \in 1 .. n : r[i] \in Range(s)
    BY <1>1, <1>2 DEF Range
  <2> QED BY <1>1, <1>2, <2>1, <2>2, ZenonT(40) DEF Range
<1>5. ASSUME IsInjective(s) PROVE IsInjective(r)
  BY <1>1, <1>2, <1>5 DEF IsInjective
<1> QED BY <1>3, <1>4, <1>5 DEF r

(* Lists without common elements concatenate without duplicates.           *)
LEMMA ConcatDistinct ==
  ASSUME NEW T, NEW s \in Seq(T), NEW t \in Seq(T),
         IsInjective(s), IsInjective(t), Range(s) \cap Range(t) = {}
  PROVE  /\ s \o t \in Seq(T) /\ IsInjective(s \o t)
         /\ Range(s \o t) = Range(s) \cup Range(t)
<1>1. /\ Len(s) \in Nat /\ DOMAIN s = 1 .. Len(s)
      /\ Len(t) \in Nat /\ DOMAIN t = 1 .. Len(t)
  BY LenProperties
<1>2. /\ s \o t \in Seq(T) /\ DOMAIN (s \o t) = 1 .. Len(s) + Len(t)
      /\ \A i \in 1 .. Len(s) + Len(t) :
           (s \o t)[i] = IF i <= Len(s) THEN s[i] ELSE t[i - Len(s)]
  BY ConcatProperties, LenProperties
<1>3. Range(s \o t) = Range(s) \cup Range(t)
  BY RangeConcatenation
<1>4. ASSUME NEW i \in 1 .. Len(s) + Len(t), NEW j \in 1 .. Len(s) + Len(t),
             (s \o t)[i] = (s \o t)[j]
      PROVE  i = j
  <2>1. \A k \in 1 .. Len(s) + Len(t) :
          \/ k \in 1 .. Len(s) /\ (s \o t)[k] = s[k]
          \/ k > Len(s) /\ k - Len(s) \in 1 .. Len(t) /\ (s \o t)[k] = t[k - Len(s)]
    BY <1>1, <1>2
  <2>2. (\A k \in 1 .. Len(s) : s[k] \in Range(s)) /\ (\A k \in 1 .. Len(t) : t[k] \in Range(t))
    BY <1>1 DEF Range
  <2>3. CASE i \in 1 .. Len(s) /\ j \in 1 .. Len(s)
    BY <1>1, <1>4, <2>1, <2>3 DEF IsInjective
  <2>4. CASE i > Len(s) /\ j > Len(s)
    <3>1. /\ i - Len(s) \in 1 .. Len(t) /\ j - Len(s) \in 1 .. Len(t)
          /\ t[i - Len(s)] = t[j - Len(s)]
      BY <1>1, <1>4, <2>1, <2>4
    <3>2. i - Len(s) = j - Len(s)
      BY <1>1, <3>1 DEF IsInjective
    <3> QED BY <1>1, <3>2
  <2>5. ~(i \in 1 .. Len(s) /\ j > Len(s)) /\ ~(j \in 1 .. Len(s) /\ i > Len(s))
    BY <1>1, <1>4, <2>1, <2>2
  <2> QED BY <1>1, <2>1, <2>3, <2>4, <2>5
<1> QED BY <1>2, <1>3, <1>4 DEF IsInjective

(* A list without duplicates is as long as it has elements.                *)
LEMMA DistinctLength ==
  ASSUME NEW T, NEW s \in Seq(T), IsInjective(s)
  PROVE  IsFiniteSet(Range(s)) /\ Cardinality(Range(s)) = Len(s)
<1>1. Len(s) \in Nat /\ DOMAIN s = 1 .. Len(s)
  BY LenProperties
<1>2. s \in Bijection(1 .. Len(s), Range(s))
  <2>1. s \in [1 .. Len(s) -> Range(s)]
    BY <1>1, LenProperties, SeqOfRange, SeqDef DEF Range
  <2> QED BY <1>1, <2>1 DEF Bijection, Injection, Surjection, Range, IsInjective
<1>3. IsFiniteSet(1 .. Len(s)) /\ Cardinality(1 .. Len(s)) = Len(s)
  BY <1>1, FS_Interval, SMTT(30)
<1> QED BY <1>2, <1>3, FS_Bijection DEF ExistsBijection

(* A list without duplicates holds as many members of S at its positions   *)
(* as among its elements, and filtering leaves one entry for each.         *)
LEMMA DistinctCount ==
  ASSUME NEW T, NEW s \in Seq(T), NEW S, IsInjective(s)
  PROVE  /\ Cardinality(KeptAt(s, S)) = Cardinality(Range(s) \cap S)
         /\ Len(Filtered(s, S)) = Cardinality(Range(s) \cap S)
<1>1. Len(Filtered(s, S)) = Cardinality(KeptAt(s, S))
  BY FilteredElements
<1>2. /\ Filtered(s, S) \in Seq(T) /\ IsInjective(Filtered(s, S))
      /\ Range(Filtered(s, S)) = Range(s) \cap S
  BY FilteredKeeps
<1>3. Cardinality(Range(Filtered(s, S))) = Len(Filtered(s, S))
  BY <1>2, DistinctLength
<1> QED BY <1>1, <1>2, <1>3

(* The two parts of a list that is cut after its first m elements.         *)
LEMMA CutElements ==
  ASSUME NEW T, NEW s \in Seq(T), NEW m \in 0 .. Len(s),
         NEW u, u = SubSeq(s, 1, m), NEW v, v = SubSeq(s, m + 1, Len(s))
  PROVE  /\ Len(s) \in Nat /\ m \in Nat /\ m <= Len(s)
         /\ u \in Seq(T) /\ Len(u) = m /\ DOMAIN u = 1 .. m
         /\ \A i \in 1 .. m : u[i] = s[i]
         /\ v \in Seq(T) /\ Len(v) = Len(s) - m /\ DOMAIN v = 1 .. Len(s) - m
         /\ \A i \in 1 .. Len(s) - m : v[i] = s[m + i]
<1> DEFINE n == Len(s)
<1>1. n \in Nat /\ DOMAIN s = 1 .. n /\ m \in Int /\ 0 <= m /\ m <= n /\ \A i \in 1 .. n : s[i] \in T
  BY LenProperties, ElementOfSeq
<1> HIDE DEF n
<1>2. /\ u \in Seq(T) /\ Len(u) = m
      /\ \A i \in 1 .. m : u[i] = s[i]
  <2>1. u = SubSeq(s, 1, m) /\ 1 \in Int /\ \A i \in 1 .. m : s[i] \in T
    BY <1>1
  <2>2. /\ u \in Seq(T) /\ Len(u) = IF 1 <= m THEN m - 1 + 1 ELSE 0
        /\ \A i \in 1 .. m - 1 + 1 : u[i] = s[1 + i - 1]
    BY <1>1, <2>1, SubSeqProperties
  <2> QED BY <1>1, <2>2
<1>3. /\ v \in Seq(T) /\ Len(v) = n - m
      /\ \A i \in 1 .. n - m : v[i] = s[m + i]
  <2>1. v = SubSeq(s, m + 1, n) /\ m + 1 \in Int /\ n \in Int /\ \A i \in m + 1 .. n : s[i] \in T
    BY <1>1 DEF n
  <2>2. /\ v \in Seq(T) /\ Len(v) = IF m + 1 <= n THEN n - (m + 1) + 1 ELSE 0
        /\ \A i \in 1 .. n - (m + 1) + 1 : v[i] = s[m + 1 + i - 1]
    BY <2>1, SubSeqProperties
  <2> QED BY <1>1, <2>2
<1>4. DOMAIN u = 1 .. m /\ DOMAIN v = 1 .. n - m
  BY <1>2, <1>3, LenProperties
<1>5. n \in Nat /\ m \in Nat /\ m <= n
  BY <1>1
<1> QED BY <1>2, <1>3, <1>4, <1>5, Zenon DEF n

(* Taking the first m elements off a list without duplicates.              *)
LEMMA CutDistinct ==
  ASSUME NEW T, NEW s \in Seq(T), IsInjective(s), NEW m \in 0 .. Len(s)
  PROVE  /\ SubSeq(s, 1, m) \in Seq(T) /\ IsInjective(SubSeq(s, 1, m))
         /\ Len(SubSeq(s, 1, m)) = m
         /\ SubSeq(s, m + 1, Len(s)) \in Seq(T) /\ IsInjective(SubSeq(s, m + 1, Len(s)))
         /\ Range(SubSeq(s, 1, m)) \subseteq Range(s)
         /\ Range(SubSeq(s, m + 1, Len(s))) = Range(s) \ Range(SubSeq(s, 1, m))
<1> DEFINE n == Len(s)
           u == SubSeq(s, 1, m)
           v == SubSeq(s, m + 1, n)
<1>1. n \in Nat /\ DOMAIN s = 1 .. n /\ m \in Int /\ 0 <= m /\ m <= n /\ \A i \in 1 .. n : s[i] \in T
  BY LenProperties, ElementOfSeq
<1> HIDE DEF n, u, v
<1>2. /\ u \in Seq(T) /\ Len(u) = m
      /\ \A i \in 1 .. m : u[i] = s[i]
      /\ v \in Seq(T) /\ Len(v) = n - m
      /\ \A i \in 1 .. n - m : v[i] = s[m + i]
      /\ DOMAIN u = 1 .. m /\ DOMAIN v = 1 .. n - m
  BY CutElements DEF n, u, v
<1>3. IsInjective(u)
  BY <1>1, <1>2 DEF IsInjective
<1>4. IsInjective(v)
  <2>1. ASSUME NEW i \in 1 .. n - m, NEW j \in 1 .. n - m, v[i] = v[j] PROVE i = j
    <3>1. m + i \in 1 .. n /\ m + j \in 1 .. n /\ s[m + i] = s[m + j]
      BY <1>1, <1>2, <2>1
    <3>2. m + i = m + j
      BY <1>1, <3>1 DEF IsInjective
    <3> QED BY <1>1, <3>2
  <2> QED BY <1>2, <2>1 DEF IsInjective
<1>5. Range(u) \subseteq Range(s)
  BY <1>1, <1>2 DEF Range
<1>6. Range(v) \subseteq Range(s) \ Range(u)
  <2>1. ASSUME NEW i \in 1 .. n - m PROVE v[i] \in Range(s) /\ v[i] \notin Range(u)
    <3>1. m + i \in 1 .. n /\ v[i] = s[m + i]
      BY <1>1, <1>2
    <3>2. \A j \in 1 .. m : j \in 1 .. n /\ j # m + i
      BY <1>1
    <3>3. \A j \in 1 .. m : u[j] # v[i]
      BY <1>1, <1>2, <3>1, <3>2 DEF IsInjective
    <3> QED BY <1>1, <1>2, <3>1, <3>3 DEF Range
  <2> QED BY <1>2, <2>1 DEF Range
<1>7. Range(s) \ Range(u) \subseteq Range(v)
  <2>1. ASSUME NEW i \in 1 .. n, s[i] \notin Range(u) PROVE s[i] \in Range(v)
    <3>1. ~(i \in 1 .. m)
      BY <1>2, <2>1 DEF Range
    <3>2. i - m \in 1 .. n - m /\ v[i - m] = s[i]
      BY <1>1, <1>2, <3>1
    <3> QED BY <1>2, <3>2 DEF Range
  <2> QED BY <1>1, <2>1 DEF Range
<1> QED BY <1>2, <1>3, <1>4, <1>5, <1>6, <1>7 DEF u, v, n

(* The kept positions when an element is appended ...                      *)
LEMMA KeptOfAppend ==
  ASSUME NEW T, NEW s \in Seq(T), NEW e \in T, NEW S
  PROVE  /\ Cardinality(KeptAt(s, S)) \in Nat
         /\ Cardinality(KeptAt(Append(s, e), S)) =
              Cardinality(KeptAt(s, S)) + (IF e \in S THEN 1 ELSE 0)
<1> DEFINE t == Append(s, e)
<1>1. /\ Len(s) \in Nat /\ Len(t) = Len(s) + 1
      /\ \A i \in 1 .. Len(s) : t[i] = s[i]
      /\ t[Len(s) + 1] = e
  BY AppendProperties, LenProperties
<1>2. IsFiniteSet(KeptAt(s, S)) /\ Len(s) + 1 \notin KeptAt(s, S)
  <2>1. IsFiniteSet(1 .. Len(s)) /\ KeptAt(s, S) \in SUBSET (1 .. Len(s))
    BY <1>1, FS_Interval DEF KeptAt
  <2> QED BY <1>1, <2>1, FS_Subset
<1> HIDE DEF t
<1>3. KeptAt(t, S) = IF e \in S THEN KeptAt(s, S) \cup {Len(s) + 1} ELSE KeptAt(s, S)
  <2>1. 1 .. Len(t) = (1 .. Len(s)) \cup {Len(s) + 1}
    BY <1>1
  <2> QED BY <1>1, <2>1 DEF KeptAt
<1>4. Cardinality(KeptAt(s, S)) \in Nat
  BY <1>2, FS_CardinalityType
<1>5. Cardinality(KeptAt(s, S) \cup {Len(s) + 1}) = Cardinality(KeptAt(s, S)) + 1
  BY <1>2, FS_AddElement
<1> QED BY <1>3, <1>4, <1>5 DEF t

(* ... and when the first one is taken off.                                *)
LEMMA KeptOfTail ==
  ASSUME NEW T, NEW s \in Seq(T), s # <<>>, NEW S
  PROVE  /\ Cardinality(KeptAt(s, S)) \in Nat
         /\ Cardinality(KeptAt(s, S)) =
              Cardinality(KeptAt(Tail(s), S)) + (IF Head(s) \in S THEN 1 ELSE 0)
         /\ Cardinality(KeptAt(Tail(s), S)) \in Nat
<1> DEFINE t == Tail(s)
           A == KeptAt(s, S)
           B == KeptAt(t, S)
           up == [i \in B |-> i + 1]
<1>1. /\ Len(s) \in Nat \ {0} /\ Len(t) = Len(s) - 1 /\ Head(s) = s[1]
      /\ \A i \in 1 .. Len(t) : t[i] = s[i + 1]
  BY EmptySeq, HeadTailProperties
<1> HIDE DEF t
<1>2. A \in SUBSET (1 .. Len(s)) /\ B \in SUBSET (1 .. Len(t))
  BY DEF KeptAt
<1>3. IsFiniteSet(A) /\ IsFiniteSet(B)
  <2>1. IsFiniteSet(1 .. Len(s)) /\ IsFiniteSet(1 .. Len(t))
    BY <1>1, FS_Interval
  <2> QED BY <1>2, <2>1, FS_Subset
<1>4. Cardinality(A) \in Nat /\ Cardinality(B) \in Nat
  BY <1>3, FS_CardinalityType
<1>5. 1 \in A <=> Head(s) \in S
  BY <1>1 DEF KeptAt
<1>6. \A i \in B : i + 1 \in A \ {1}
  BY <1>1 DEF KeptAt
<1>7. \A j \in A \ {1} : j - 1 \in B /\ j - 1 + 1 = j
  BY <1>1 DEF KeptAt
<1>8. \A i \in B : i \in Int
  BY <1>2
<1> HIDE DEF A, B
<1>9. up \in Bijection(B, A \ {1})
  <2>1. up \in [B -> A \ {1}]
    BY <1>6
  <2>2. \A i, j \in B : up[i] = up[j] => i = j
    BY <1>8
  <2>3. \A j \in A \ {1} : \E i \in B : up[i] = j
    BY <1>7
  <2> QED BY <2>1, <2>2, <2>3 DEF Bijection, Injection, Surjection, IsInjective
<1>10. Cardinality(A \ {1}) = Cardinality(B)
  BY <1>3, <1>9, FS_Bijection DEF ExistsBijection
<1>11. Cardinality(A \ {1}) = IF 1 \in A THEN Cardinality(A) - 1 ELSE Cardinality(A)
  BY <1>3, FS_RemoveElement
<1> USE DEF A, B, t
<1> QED BY <1>4, <1>5, <1>10, <1>11

(* Where a list first meets S, if it does: the position of rank one.       *)
LEMMA FirstKept ==
  ASSUME NEW T, NEW s \in Seq(T), NEW S, KeptAt(s, S) # {}
  PROVE  \E i \in 1 .. Len(s) : s[i] \in S /\ \A j \in 1 .. i - 1 : s[j] \notin S
<1> DEFINE n == Cardinality(KeptAt(s, S))
<1>1. /\ n \in Nat /\ KeptAt(s, S) \subseteq 1 .. Len(s) /\ Len(s) \in Nat
      /\ \A i \in KeptAt(s, S) : Rank(s, S, i) \in 1 .. n
      /\ \A i, j \in KeptAt(s, S) : i < j => Rank(s, S, i) < Rank(s, S, j)
      /\ \A k \in 1 .. n : \E i \in KeptAt(s, S) : Rank(s, S, i) = k
  BY RankNumbers
<1> HIDE DEF n
<1>2. 1 \in 1 .. n
  BY <1>1
<1>3. PICK i \in KeptAt(s, S) : Rank(s, S, i) = 1
  BY <1>1, <1>2
<1>4. i \in 1 .. Len(s) /\ s[i] \in S
  BY DEF KeptAt
<1>5. ASSUME NEW j \in 1 .. i - 1, s[j] \in S PROVE FALSE
  <2>1. j \in KeptAt(s, S) /\ j < i
    BY <1>1, <1>4, <1>5 DEF KeptAt
  <2>2. Rank(s, S, j) < 1 /\ Rank(s, S, j) \in 1 .. n
    BY <1>1, <1>3, <2>1
  <2> QED BY <1>1, <2>2
<1> QED BY <1>4, <1>5

-----------------------------------------------------------------------------
(* Order in a list: some a stands ahead of some b.                         *)
Before(s, a, b) == \E i, j \in 1 .. Len(s) : i < j /\ s[i] = a /\ s[j] = b

(* Filtering keeps the order of what it keeps.                             *)
LEMMA FilteredOrder ==
  ASSUME NEW T, NEW s \in Seq(T), NEW S, NEW a \in S, NEW b \in S, Before(s, a, b)
  PROVE  Before(Filtered(s, S), a, b)
<1>1. PICK i \in 1 .. Len(s), j \in 1 .. Len(s) : i < j /\ s[i] = a /\ s[j] = b
  BY DEF Before
<1>2. i \in KeptAt(s, S) /\ j \in KeptAt(s, S)
  BY <1>1 DEF KeptAt
<1> DEFINE f == Filtered(s, S)
           x == Rank(s, S, i)
           y == Rank(s, S, j)
<1>3. x < y
  <2> DEFINE n == Cardinality(KeptAt(s, S))
  <2>1. n = Cardinality(KeptAt(s, S))
    OBVIOUS
  <2>2. \A k, l \in KeptAt(s, S) : k < l => Rank(s, S, k) < Rank(s, S, l)
    BY <2>1, RankNumbers
  <2> QED BY <1>1, <1>2, <2>2
<1>4. x \in 1 .. Len(f) /\ f[x] = a /\ y \in 1 .. Len(f) /\ f[y] = b
  <2>1. \A k \in KeptAt(s, S) : Rank(s, S, k) \in 1 .. Len(f) /\ f[Rank(s, S, k)] = s[k]
    BY FilteredElements
  <2> QED BY <1>1, <1>2, <2>1
<1> QED BY <1>3, <1>4 DEF Before

(* Walking backwards turns the order around.                               *)
LEMMA BackwardsOrder ==
  ASSUME NEW T, NEW s \in Seq(T), NEW i \in 1 .. Len(s), NEW j \in 1 .. Len(s), i < j
  PROVE  Before(Backwards(s), s[j], s[i])
<1> DEFINE n == Len(s)
           x == n + 1 - j
           y == n + 1 - i
<1>1. n \in Nat
  BY LenProperties
<1>2. x \in 1 .. n /\ y \in 1 .. n /\ x < y /\ n + 1 - x = j /\ n + 1 - y = i
  BY <1>1
<1>3. Len(Backwards(s)) = n
  BY <1>1 DEF Backwards
<1>4. Backwards(s)[x] = s[n + 1 - x] /\ Backwards(s)[y] = s[n + 1 - y]
  BY <1>2 DEF Backwards
<1> HIDE DEF n, x, y
<1> QED BY <1>2, <1>3, <1>4 DEF Before

(* Concatenation keeps the order of both lists, and puts one ahead of the  *)
(* other.                                                                  *)
LEMMA ConcatOrder ==
  ASSUME NEW T, NEW s \in Seq(T), NEW t \in Seq(T), NEW a, NEW b,
         \/ Before(s, a, b)
         \/ Before(t, a, b)
         \/ a \in Range(s) /\ b \in Range(t)
  PROVE  Before(s \o t, a, b)
<1>1. /\ Len(s) \in Nat /\ Len(t) \in Nat /\ Len(s \o t) = Len(s) + Len(t)
      /\ DOMAIN s = 1 .. Len(s) /\ DOMAIN t = 1 .. Len(t)
      /\ \A k \in 1 .. Len(s) + Len(t) :
           (s \o t)[k] = IF k <= Len(s) THEN s[k] ELSE t[k - Len(s)]
  BY LenProperties, ConcatProperties
<1>2. \A k \in 1 .. Len(s) : k \in 1 .. Len(s \o t) /\ (s \o t)[k] = s[k]
  BY <1>1
<1>3. ASSUME NEW k \in 1 .. Len(t)
      PROVE  /\ Len(s) + k \in 1 .. Len(s \o t) /\ Len(s) + k > Len(s)
             /\ (s \o t)[Len(s) + k] = t[k]
  <2> DEFINE l == Len(s) + k
  <2>1. l \in 1 .. Len(s) + Len(t) /\ ~(l <= Len(s)) /\ l - Len(s) = k /\ l > Len(s)
    BY <1>1
  <2> HIDE DEF l
  <2>2. (s \o t)[l] = t[l - Len(s)]
    BY <1>1, <2>1
  <2> QED BY <1>1, <2>1, <2>2 DEF l
<1>4. CASE Before(s, a, b)
  BY <1>2, <1>4 DEF Before
<1>5. CASE Before(t, a, b)
  <2>1. PICK i \in 1 .. Len(t), j \in 1 .. Len(t) : i < j /\ t[i] = a /\ t[j] = b
    BY <1>5 DEF Before
  <2>2. Len(s) + i < Len(s) + j
    BY <1>1, <2>1
  <2> QED BY <1>3, <2>1, <2>2 DEF Before
<1>6. CASE a \in Range(s) /\ b \in Range(t)
  <2>1. PICK i \in 1 .. Len(s), j \in 1 .. Len(t) : s[i] = a /\ t[j] = b
    BY <1>1, <1>6 DEF Range
  <2>2. i < Len(s) + j
    BY <1>1
  <2> QED BY <1>2, <1>3, <2>1, <2>2 DEF Before
<1> QED BY <1>4, <1>5, <1>6

(* Taking m elements off the head of a list without duplicates takes an    *)
(* element only after those ahead of it, and keeps the order of the rest.  *)
LEMMA CutOrder ==
  ASSUME NEW T, NEW s \in Seq(T), IsInjective(s), NEW m \in 0 .. Len(s),
         NEW a, NEW b, Before(s, a, b)
  PROVE  /\ b \in Range(SubSeq(s, 1, m)) => a \in Range(SubSeq(s, 1, m))
         /\ a \notin Range(SubSeq(s, 1, m)) => Before(SubSeq(s, m + 1, Len(s)), a, b)
<1> DEFINE n == Len(s)
           u == SubSeq(s, 1, m)
           v == SubSeq(s, m + 1, n)
<1>1. /\ n \in Nat /\ m \in Nat /\ m <= n /\ DOMAIN s = 1 .. n
      /\ DOMAIN u = 1 .. m /\ \A k \in 1 .. m : u[k] = s[k]
      /\ Len(v) = n - m /\ \A k \in 1 .. n - m : v[k] = s[m + k]
  BY LenProperties, CutElements
<1>2. PICK i \in 1 .. n, j \in 1 .. n : i < j /\ s[i] = a /\ s[j] = b
  BY DEF Before
<1> HIDE DEF u, v, n
<1>3. b \in Range(u) => a \in Range(u)
  <2>1. SUFFICES ASSUME b \in Range(u) PROVE a \in Range(u)
    OBVIOUS
  <2>2. PICK k \in 1 .. m : s[k] = b
    BY <1>1, <2>1 DEF Range
  <2>3. k = j
    BY <1>1, <1>2, <2>2 DEF IsInjective
  <2>4. i \in 1 .. m
    BY <1>1, <1>2, <2>3
  <2> QED BY <1>1, <1>2, <2>4 DEF Range
<1>4. a \notin Range(u) => Before(v, a, b)
  <2>1. SUFFICES ASSUME a \notin Range(u) PROVE Before(v, a, b)
    OBVIOUS
  <2>2. i > m
    BY <1>1, <1>2, <2>1 DEF Range
  <2>3. i - m \in 1 .. n - m /\ j - m \in 1 .. n - m /\ i - m < j - m
    BY <1>1, <1>2, <2>2
  <2>4. m + (i - m) = i /\ m + (j - m) = j
    BY <1>1
  <2>5. v[i - m] = a /\ v[j - m] = b
    BY <1>1, <1>2, <2>3, <2>4
  <2> QED BY <1>1, <2>3, <2>5 DEF Before
<1> QED BY <1>3, <1>4 DEF u, v, n

(* A list without repetitions and its tail.                                *)
LEMMA TailDistinct ==
  ASSUME NEW T, NEW s \in Seq(T), IsInjective(s), s # <<>>
  PROVE  /\ Tail(s) \in Seq(T) /\ IsInjective(Tail(s))
         /\ Head(s) \in T /\ Head(s) \in Range(s)
         /\ Range(Tail(s)) = Range(s) \ {Head(s)}
         /\ \A a, b \in Range(Tail(s)) : Before(s, a, b) => Before(Tail(s), a, b)
         /\ \A a : ~Before(s, a, Head(s))
<1> DEFINE t == Tail(s)
           n == Len(s)
<1>1. /\ n \in Nat /\ n >= 1 /\ DOMAIN s = 1 .. n /\ Head(s) = s[1]
      /\ t \in Seq(T) /\ Len(t) = n - 1 /\ DOMAIN t = 1 .. n - 1
      /\ \A i \in 1 .. n - 1 : t[i] = s[i + 1]
  <2>1. n \in Nat /\ DOMAIN s = 1 .. n /\ n # 0
    BY LenProperties, EmptySeq
  <2>2. Head(s) = s[1] /\ t \in Seq(T) /\ Len(t) = n - 1 /\ \A i \in 1 .. n - 1 : t[i] = s[i + 1]
    BY HeadTailProperties
  <2>3. DOMAIN t = 1 .. Len(t)
    BY <2>2, LenProperties
  <2> QED BY <2>1, <2>2, <2>3
<1> HIDE DEF t, n
<1>2. \A i, j \in 1 .. n : s[i] = s[j] => i = j
  BY <1>1 DEF IsInjective
<1>3. \A i \in 1 .. n - 1 : i + 1 \in 1 .. n /\ i + 1 # 1
  BY <1>1
<1>4. IsInjective(t)
  <2> SUFFICES ASSUME NEW i \in 1 .. n - 1, NEW j \in 1 .. n - 1, t[i] = t[j] PROVE i = j
    BY <1>1 DEF IsInjective
  <2>1. i + 1 = j + 1
    BY <1>1, <1>2, <1>3
  <2> QED BY <1>1, <2>1
<1>5. \A i \in 1 .. n : i = 1 \/ \E k \in 1 .. n - 1 : i = k + 1
  <2> SUFFICES ASSUME NEW i \in 1 .. n, i # 1 PROVE \E k \in 1 .. n - 1 : i = k + 1
    OBVIOUS
  <2>1. i - 1 \in 1 .. n - 1 /\ i = (i - 1) + 1
    BY <1>1
  <2> QED BY <2>1
<1>6. 1 \in 1 .. n
  BY <1>1
<1>7. Range(t) = Range(s) \ {Head(s)}
  <2>1. ASSUME NEW i \in 1 .. n - 1 PROVE t[i] \in Range(s) \ {Head(s)}
    BY <1>1, <1>2, <1>3, <1>6 DEF Range
  <2>2. ASSUME NEW i \in 1 .. n, s[i] # Head(s) PROVE s[i] \in Range(t)
    <3>1. PICK k \in 1 .. n - 1 : i = k + 1
      BY <1>1, <1>5, <2>2
    <3> QED BY <1>1, <3>1 DEF Range
  <2>3. Range(t) \subseteq Range(s) \ {Head(s)}
    BY <1>1, <2>1 DEF Range
  <2>4. Range(s) \ {Head(s)} \subseteq Range(t)
    BY <1>1, <2>2 DEF Range
  <2> QED BY <2>3, <2>4
<1>8. Head(s) \in T /\ Head(s) \in Range(s)
  <2>1. s[1] \in T
    BY <1>1, <1>6, ElementOfSeq DEF n
  <2> QED BY <1>1, <1>6, <2>1 DEF Range
<1>9. ASSUME NEW a \in Range(t), NEW b \in Range(t), Before(s, a, b) PROVE Before(t, a, b)
  <2>1. PICK i \in 1 .. n, j \in 1 .. n : i < j /\ s[i] = a /\ s[j] = b
    BY <1>9 DEF Before, n
  <2>2. PICK k \in 1 .. n - 1 : i = k + 1
    BY <1>1, <1>5, <1>7, <2>1
  <2>3. PICK m \in 1 .. n - 1 : j = m + 1
    BY <1>1, <1>5, <1>7, <2>1
  <2>4. k < m
    BY <1>1, <2>1, <2>2, <2>3
  <2> QED BY <1>1, <2>1, <2>2, <2>3, <2>4 DEF Before
<1>10. ASSUME NEW a, Before(s, a, Head(s)) PROVE FALSE
  <2>1. PICK i \in 1 .. n, j \in 1 .. n : i < j /\ s[i] = a /\ s[j] = Head(s)
    BY <1>10 DEF Before, n
  <2>2. j = 1
    BY <1>1, <1>2, <1>6, <2>1
  <2> QED BY <1>1, <2>1, <2>2
<1> QED BY <1>1, <1>4, <1>7, <1>8, <1>9, <1>10 DEF t

-----------------------------------------------------------------------------
(* Induction and recursion over the naturals, in a form without operator   *)
(* parameters.                                                             *)

LEMMA LeastElement ==
  ASSUME NEW S, S \subseteq Nat, S # {}
  PROVE  \E n \in S : \A m \in S : n <= m
<1> DEFINE R == OpToRel(<, Nat)
<1>1. IsWellFoundedOn(R, Nat)
  BY NatLessThanWellFounded
<1>2. \A x, y \in Nat : <<x, y>> \in R <=> x < y
  BY DEF OpToRel
<1> HIDE DEF R
<1>3. PICK n \in S : \A m \in S : <<m, n>> \notin R
  BY <1>1, WFMin
<1>4. \A m \in S : m \in Nat /\ n \in Nat /\ ~(m < n)
  BY <1>2, <1>3
<1> QED BY <1>4

LEMMA Induction ==
  ASSUME NEW S, 0 \in S, \A n \in Nat : n \in S => n + 1 \in S
  PROVE  Nat \subseteq S
<1> SUFFICES ASSUME Nat \ S # {} PROVE FALSE
  OBVIOUS
<1>1. PICK n \in Nat \ S : \A m \in Nat \ S : n <= m
  BY LeastElement
<1>2. n - 1 \in Nat /\ n - 1 \notin Nat \ S
  BY <1>1
<1> QED BY <1>1, <1>2

(* Quotient and remainder.                                                 *)
LEMMA Divided ==
  ASSUME NEW x \in Nat, NEW b \in Nat \ {0}
  PROVE  /\ x \div b \in Nat /\ x % b \in 0 .. b - 1
         /\ x = b * (x \div b) + (x % b)
<1> DEFINE d == x \div b
           r == x % b
<1>1. x \in Int /\ b \in Int /\ b > 0 /\ x >= 0
  OBVIOUS
<1>2. d \in Int /\ r \in 0 .. b - 1 /\ x = b * d + r
  BY <1>1, SMTT(30)
<1> HIDE DEF d, r
<1>3. d >= 0
  <2>1. SUFFICES ASSUME d <= -1 PROVE FALSE
    BY <1>2
  <2>2. b * d <= -b /\ b * d \in Int
    BY <1>1, <1>2, <2>1
  <2> QED BY <1>1, <1>2, <2>2
<1>4. d \in Nat /\ r \in 0 .. b - 1 /\ x = b * d + r
  BY <1>2, <1>3
<1> QED BY <1>4 DEF d, r

(* A function is defined by its first value and the step from each value   *)
(* to the next.                                                            *)
Iterates(f, n, V, c, step) ==
  /\ f \in [0 .. n -> V]
  /\ f[0] = c
  /\ \A k \in 1 .. n : f[k] = step[<<f[k - 1], k>>]

LEMMA Recursion ==
  ASSUME NEW n \in Nat, NEW V, NEW c \in V, NEW step \in [V \X (1 .. n) -> V]
  PROVE  \E f : Iterates(f, n, V, c, step)
<1>0. \A x \in V : \A k \in 1 .. n : step[<<x, k>>] \in V
  OBVIOUS
<1> DEFINE Solves(f, m) == f[0] = c /\ \A k \in 1 .. m : f[k] = step[<<f[k - 1], k>>]
           S == {m \in Nat : m <= n => \E f \in [0 .. m -> V] : Solves(f, m)}
<1>1. 0 \in S
  <2>1. [k \in 0 .. 0 |-> c] \in [0 .. 0 -> V] /\ Solves([k \in 0 .. 0 |-> c], 0)
    OBVIOUS
  <2> QED BY <2>1
<1>2. ASSUME NEW m \in Nat, m \in S PROVE m + 1 \in S
  <2> SUFFICES ASSUME m + 1 <= n PROVE \E f \in [0 .. m + 1 -> V] : Solves(f, m + 1)
    OBVIOUS
  <2>1. PICK f \in [0 .. m -> V] : Solves(f, m)
    BY <1>2
  <2> DEFINE v == step[<<f[m], m + 1>>]
             g == [k \in 0 .. m + 1 |-> IF k <= m THEN f[k] ELSE v]
  <2>2. f[m] \in V /\ m + 1 \in 1 .. n
    OBVIOUS
  <2>3. v \in V
    BY <1>0, <2>2
  <2> HIDE DEF v
  <2>4. g \in [0 .. m + 1 -> V]
    BY <2>3
  <2>5. \A k \in 0 .. m : g[k] = f[k]
    OBVIOUS
  <2>6. g[m + 1] = v
    OBVIOUS
  <2> HIDE DEF g
  <2>7. ASSUME NEW k \in 1 .. m + 1 PROVE g[k] = step[<<g[k - 1], k>>]
    <3>1. CASE k \in 1 .. m
      <4>1. k - 1 \in 0 .. m /\ k \in 0 .. m
        BY <3>1
      <4> QED BY <2>1, <2>5, <3>1, <4>1
    <3>2. CASE k = m + 1
      <4>1. k - 1 = m /\ m \in 0 .. m
        BY <3>2
      <4> QED BY <2>5, <2>6, <3>2, <4>1 DEF v
    <3> QED BY <3>1, <3>2
  <2>8. g[0] = c
    BY <2>1, <2>5
  <2> QED BY <2>4, <2>7, <2>8
<1>3. n \in S
  <2> HIDE DEF S
  <2> QED BY <1>1, <1>2, Induction
<1> QED BY <1>3 DEF Iterates
=============================================================================
