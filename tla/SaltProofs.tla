----------------------------- MODULE SaltProofs -----------------------------
EXTENDS LiveChecks, FilteringProofs

-----------------------------------------------------------------------------
(* The wire encoding: which keys a salt gives to a block.                  *)

(* A list that the encoder and the decoder may get.                        *)
IsItems(items) == items \in Seq(Range(items)) /\ \A x \in Range(items) : x.off \in Nat

(* In such a list with ascending offsets those below a bound come first.   *)
LEMMA LowOffsetsFirst ==
  ASSUME NEW items, IsItems(items), NonDecreasing(items), NEW x \in Int
  PROVE  \E m \in 0 .. Len(items) : {i \in 1 .. Len(items) : items[i].off < x} = 1 .. m
<1> DEFINE n == Len(items)
           off(i) == items[i].off
<1>1. n \in Nat /\ DOMAIN items = 1 .. n
  BY LenProperties DEF IsItems
<1>2. \A i \in 1 .. n : off(i) \in Int
  BY <1>1 DEF IsItems, Range
<1>3. \A j \in 1 .. n - 1 : off(j) <= off(j + 1)
  <2>1. SUFFICES ASSUME NEW j \in 1 .. n - 1 PROVE off(j) <= off(j + 1)
    OBVIOUS
  <2>2. j + 1 \in 2 .. n /\ j + 1 - 1 = j
    BY <1>1
  <2> QED BY <2>2 DEF NonDecreasing
<1> HIDE DEF n, off
<1> DEFINE S == {m \in Nat : m <= n => \E k \in 0 .. m : \A i \in 1 .. m : off(i) < x <=> i <= k}
<1>4. 0 \in S
  BY <1>1
<1>5. ASSUME NEW m \in Nat, m \in S PROVE m + 1 \in S
  <2>1. SUFFICES ASSUME m + 1 <= n
                 PROVE  \E k \in 0 .. m + 1 : \A i \in 1 .. m + 1 : off(i) < x <=> i <= k
    OBVIOUS
  <2>2. PICK k \in 0 .. m : \A i \in 1 .. m : off(i) < x <=> i <= k
    BY <1>1, <1>5, <2>1
  <2>3. CASE off(m + 1) < x
    <3>1. k = m
      <4>1. SUFFICES ASSUME m >= 1 PROVE m <= k
        BY <2>2
      <4>2. m \in 1 .. n - 1 /\ m \in 1 .. n /\ m + 1 \in 1 .. n
        BY <1>1, <2>1, <4>1
      <4>3. off(m) \in Int /\ off(m + 1) \in Int /\ off(m) <= off(m + 1)
        BY <1>2, <1>3, <4>2
      <4>4. m \in 1 .. m
        BY <4>1
      <4> QED BY <2>2, <2>3, <4>3, <4>4
    <3>2. m + 1 \in 0 .. m + 1
      OBVIOUS
    <3>3. \A i \in 1 .. m + 1 : i \in 1 .. m \/ i = m + 1
      OBVIOUS
    <3> QED BY <2>2, <2>3, <3>1, <3>2, <3>3
  <2>4. CASE ~(off(m + 1) < x)
    <3>1. k \in 0 .. m + 1 /\ \A i \in 1 .. m + 1 : i \in 1 .. m \/ (i = m + 1 /\ ~(i <= k))
      OBVIOUS
    <3> QED BY <2>2, <2>4, <3>1
  <2> QED BY <2>3, <2>4
<1>6. n \in S
  <2> HIDE DEF S
  <2> QED BY <1>1, <1>4, <1>5, Induction
<1>7. PICK k \in 0 .. n : \A i \in 1 .. n : off(i) < x <=> i <= k
  BY <1>1, <1>6
<1>8. {i \in 1 .. n : off(i) < x} = 1 .. k
  BY <1>1, <1>7
<1> QED BY <1>7, <1>8 DEF n, off

(* What a filter keeps of neighbours.                                      *)
LEMMA NeighboursKept ==
  ASSUME NEW T, NEW s \in Seq(T), NEW lo \in Nat, NEW hi \in Nat, lo <= hi, hi <= Len(s),
         NEW S, KeptAt(s, S) = (lo + 1) .. hi, NEW f, f = Filtered(s, S)
  PROVE  f \in Seq(T) /\ Len(f) = hi - lo /\ \A k \in 1 .. hi - lo : f[k] = s[lo + k]
<1>1. /\ f \in Seq(T) /\ Len(f) = Cardinality(KeptAt(s, S))
      /\ \A i \in KeptAt(s, S) : Rank(s, S, i) \in 1 .. Len(f) /\ f[Rank(s, S, i)] = s[i]
  BY FilteredElements
<1>2. Cardinality((lo + 1) .. hi) = hi - lo
  <2>1. Cardinality((lo + 1) .. hi) = IF lo + 1 > hi THEN 0 ELSE hi - (lo + 1) + 1
    BY FS_Interval
  <2> QED BY <2>1
<1>3. ASSUME NEW k \in 1 .. hi - lo PROVE f[k] = s[lo + k]
  <2>1. lo + k \in (lo + 1) .. hi /\ lo + k \in Int
    OBVIOUS
  <2>2. {j \in KeptAt(s, S) : j <= lo + k} = (lo + 1) .. (lo + k)
    OBVIOUS
  <2>3. Cardinality((lo + 1) .. (lo + k)) = k
    <3>1. Cardinality((lo + 1) .. (lo + k)) = IF lo + 1 > lo + k THEN 0 ELSE lo + k - (lo + 1) + 1
      BY <2>1, FS_Interval
    <3> QED BY <3>1
  <2>4. Rank(s, S, lo + k) = k
    BY <2>2, <2>3 DEF Rank
  <2> QED BY <1>1, <2>1, <2>4
<1> QED BY <1>1, <1>2, <1>3

(* The barriers that begin before the end of the k-th block.               *)
Opened(items, k) == CHOOSE m \in 0 .. Len(items) : {i \in 1 .. Len(items) : items[i].off < k * TokensPerBlock} = 1 .. m

LEMMA OpenedIsPrefix ==
  ASSUME NEW items, IsItems(items), NonDecreasing(items), NEW k \in Nat
  PROVE  /\ Opened(items, k) \in 0 .. Len(items) /\ Len(items) \in Nat
         /\ {i \in 1 .. Len(items) : items[i].off < k * TokensPerBlock} = 1 .. Opened(items, k)
<1>1. k * TokensPerBlock \in Int
  BY SaltAssumption
<1>2. \E m \in 0 .. Len(items) : {i \in 1 .. Len(items) : items[i].off < k * TokensPerBlock} = 1 .. m
  BY <1>1, LowOffsetsFirst
<1>3. Len(items) \in Nat
  BY LenProperties DEF IsItems
<1> QED BY <1>2, <1>3 DEF Opened

(* The block a position is in.                                             *)
LEMMA InBlock ==
  ASSUME NEW x \in Nat, NEW k \in Nat
  PROVE  x \div TokensPerBlock = k <=> k * TokensPerBlock <= x /\ ~(x >= (k + 1) * TokensPerBlock)
<1> DEFINE b == TokensPerBlock
           d == x \div b
           r == x % b
<1>1. b \in Nat \ {0}
  BY SaltAssumption
<1>2. d \in Nat /\ r \in 0 .. b - 1 /\ x = b * d + r
  BY <1>1, Divided
<1> HIDE DEF b, d, r
<1>3. (k + 1) * b = b * k + b /\ k * b = b * k /\ b * k \in Nat
  BY <1>1
<1>4. CASE d = k
  <2>1. x = b * k + r
    BY <1>2, <1>4
  <2> QED BY <1>1, <1>2, <1>3, <1>4, <2>1 DEF b, d
<1>5. CASE d >= k + 1
  <2>1. b * d >= b * (k + 1) /\ b * d \in Nat
    BY <1>1, <1>2, <1>5
  <2>2. b * (k + 1) = b * k + b
    BY <1>1
  <2>3. x >= (k + 1) * b /\ d # k
    BY <1>1, <1>2, <1>3, <1>5, <2>1, <2>2
  <2> QED BY <2>3 DEF b, d
<1>6. CASE d + 1 <= k
  <2>1. b * k >= b * (d + 1) /\ b * d \in Nat
    BY <1>1, <1>2, <1>6
  <2>2. b * (d + 1) = b * d + b
    BY <1>1, <1>2
  <2>3. ~(k * b <= x) /\ d # k
    BY <1>1, <1>2, <1>3, <1>6, <2>1, <2>2
  <2> QED BY <2>3 DEF b, d
<1> QED BY <1>2, <1>4, <1>5, <1>6

(* The barriers of a block, as scopes and as keys.                         *)
LEMMA BlockKeys ==
  ASSUME NEW items, IsItems(items), NonDecreasing(items), NEW k \in Nat \ {0},
         NEW lo, lo = Opened(items, k - 1), NEW hi, hi = Opened(items, k),
         NEW keys, keys = ScopeKeysForBlock(items, k)
  PROVE  /\ lo \in Nat /\ hi \in Nat /\ lo <= hi /\ hi <= Len(items) /\ Len(items) \in Nat
         /\ DOMAIN Scopes(items, k) = (lo + 1) .. hi
         /\ \A i \in (lo + 1) .. hi : Scopes(items, k)[i] = items[i].sid
         /\ keys = [n \in 1 .. hi - lo |-> <<"scope", items[lo + n].sid>>]
<1> DEFINE b == TokensPerBlock
           S == {x \in Range(items) : (k - 1) * b <= x.off /\ x.off < k * b}
           f == Filtered(items, S)
<1>1. b \in Nat \ {0} /\ k - 1 \in Nat /\ k \in Nat
  BY SaltAssumption
<1>2. /\ lo \in 0 .. Len(items) /\ hi \in 0 .. Len(items) /\ Len(items) \in Nat
      /\ {i \in 1 .. Len(items) : items[i].off < (k - 1) * b} = 1 .. lo
      /\ {i \in 1 .. Len(items) : items[i].off < k * b} = 1 .. hi
  BY <1>1, OpenedIsPrefix
<1>3. /\ DOMAIN items = 1 .. Len(items)
      /\ \A i \in 1 .. Len(items) : items[i] \in Range(items) /\ items[i].off \in Nat
  BY LenProperties DEF IsItems, Range
<1>4. (k - 1) * b \in Int /\ k * b \in Int /\ k * b = (k - 1) * b + b
  BY <1>1
<1> DEFINE low == (k - 1) * b
           top == k * b
<1>5. low \in Int /\ top \in Int /\ low <= top
  BY <1>1, <1>4
<1>6. /\ {i \in 1 .. Len(items) : items[i].off < low} = 1 .. lo
      /\ {i \in 1 .. Len(items) : items[i].off < top} = 1 .. hi
  BY <1>2
<1>7. \A i \in 1 .. Len(items) : items[i].off \div b = k - 1 <=> low <= items[i].off /\ items[i].off < top
  <2>1. SUFFICES ASSUME NEW i \in 1 .. Len(items)
                 PROVE  items[i].off \div b = k - 1 <=> low <= items[i].off /\ items[i].off < top
    OBVIOUS
  <2>2. items[i].off \div b = k - 1 <=> low <= items[i].off /\ ~(items[i].off >= (k - 1 + 1) * b)
    BY <1>1, <1>3, InBlock
  <2>3. (k - 1 + 1) * b = top
    BY <1>1
  <2> HIDE DEF b, low, top
  <2> QED BY <1>3, <1>5, <2>2, <2>3
<1>8. KeptAt(items, S) = {i \in 1 .. Len(items) : low <= items[i].off /\ items[i].off < top}
  BY <1>3 DEF KeptAt
<1>9. Scopes(items, k) =
        [i \in {i \in 1 .. Len(items) : low <= items[i].off /\ items[i].off < top} |-> items[i].sid]
  BY <1>3, <1>7 DEF Scopes
<1>10. ScopeKeysForBlock(items, k) = [n \in DOMAIN f |-> <<"scope", f[n].sid>>]
  BY DEF ScopeKeysForBlock
<1> HIDE DEF b, low, top, S, f
<1>11. lo <= hi
  <2>1. SUFFICES ASSUME lo >= 1 PROVE lo \in 1 .. hi
    BY <1>2
  <2>2. lo \in 1 .. lo
    BY <1>2, <2>1
  <2>3. lo \in 1 .. Len(items) /\ items[lo].off < low
    BY <1>6, <2>2
  <2>4. items[lo].off < top
    BY <1>3, <1>5, <2>3
  <2> QED BY <1>6, <2>3, <2>4
<1>12. {i \in 1 .. Len(items) : low <= items[i].off /\ items[i].off < top} = (lo + 1) .. hi
  <2>1. ASSUME NEW i \in 1 .. Len(items)
        PROVE  low <= items[i].off /\ items[i].off < top <=> i \in (lo + 1) .. hi
    <3>1. (items[i].off < low <=> i \in 1 .. lo) /\ (items[i].off < top <=> i \in 1 .. hi)
      BY <1>6
    <3>2. low <= items[i].off <=> ~(items[i].off < low)
      BY <1>3, <1>5
    <3> QED BY <1>2, <3>1, <3>2
  <2>2. (lo + 1) .. hi \subseteq 1 .. Len(items)
    BY <1>2
  <2> QED BY <2>1, <2>2
<1>13. f \in Seq(Range(items)) /\ Len(f) = hi - lo /\ \A n \in 1 .. hi - lo : f[n] = items[lo + n]
  <2>1. items \in Seq(Range(items)) /\ f = Filtered(items, S)
    BY DEF f, IsItems
  <2>2. KeptAt(items, S) = (lo + 1) .. hi
    BY <1>8, <1>12
  <2>3. lo \in Nat /\ hi \in Nat /\ hi <= Len(items)
    BY <1>2
  <2> QED BY <1>11, <2>1, <2>2, <2>3, NeighboursKept
<1>14. DOMAIN f = 1 .. hi - lo
  BY <1>13, LenProperties
<1>15. keys = [n \in 1 .. hi - lo |-> <<"scope", items[lo + n].sid>>]
  BY <1>10, <1>13, <1>14
<1>16. lo \in Nat /\ hi \in Nat /\ lo <= hi /\ hi <= Len(items) /\ Len(items) \in Nat
  BY <1>2, <1>11
<1>17. DOMAIN Scopes(items, k) = (lo + 1) .. hi /\ \A i \in (lo + 1) .. hi : Scopes(items, k)[i] = items[i].sid
  BY <1>9, <1>12
<1> QED BY <1>15, <1>16, <1>17

(* Lists that agree up to a block and open as many barriers before it.     *)
LEMMA SameScopesSameKeys ==
  ASSUME NEW a, IsItems(a), NonDecreasing(a), NEW b, IsItems(b), NonDecreasing(b),
         NEW k \in Nat \ {0}, Opened(a, k - 1) = Opened(b, k - 1)
  PROVE  /\ ScopeKeysForBlock(a, k) = ScopeKeysForBlock(b, k) <=> Scopes(a, k) = Scopes(b, k)
         /\ Scopes(a, k) = Scopes(b, k) => Opened(a, k) = Opened(b, k)
<1> DEFINE lo == Opened(a, k - 1)
           p  == Opened(a, k)
           q  == Opened(b, k)
           ka == ScopeKeysForBlock(a, k)
           kb == ScopeKeysForBlock(b, k)
           sa == Scopes(a, k)
           sb == Scopes(b, k)
<1> DEFINE Keyed(x, l, h, keys, scopes) ==
             /\ l \in Nat /\ h \in Nat /\ l <= h
             /\ DOMAIN scopes = (l + 1) .. h /\ \A i \in (l + 1) .. h : scopes[i] = x[i].sid
             /\ keys = [n \in 1 .. h - l |-> <<"scope", x[l + n].sid>>]
<1>0. ASSUME NEW x, IsItems(x), NonDecreasing(x)
      PROVE  Keyed(x, Opened(x, k - 1), Opened(x, k), ScopeKeysForBlock(x, k), Scopes(x, k))
  BY <1>0, BlockKeys
<1>k. Keyed(a, lo, p, ka, sa) /\ Keyed(b, lo, q, kb, sb)
  <2> HIDE DEF Keyed
  <2>1. Keyed(b, Opened(b, k - 1), q, kb, sb)
    BY <1>0
  <2> QED BY <1>0, <2>1
<1>1. /\ lo \in Nat /\ p \in Nat /\ lo <= p
      /\ DOMAIN sa = (lo + 1) .. p /\ \A i \in (lo + 1) .. p : sa[i] = a[i].sid
      /\ ka = [n \in 1 .. p - lo |-> <<"scope", a[lo + n].sid>>]
  <2> HIDE DEF lo, p, ka, sa
  <2> QED BY <1>k
<1>2. /\ q \in Nat /\ lo <= q
      /\ DOMAIN sb = (lo + 1) .. q /\ \A i \in (lo + 1) .. q : sb[i] = b[i].sid
      /\ kb = [n \in 1 .. q - lo |-> <<"scope", b[lo + n].sid>>]
  <2> HIDE DEF lo, q, kb, sb
  <2> QED BY <1>k
<1>3. sa = [i \in DOMAIN sa |-> sa[i]] /\ sb = [i \in DOMAIN sb |-> sb[i]]
  BY DEF Scopes
<1> HIDE DEF lo, p, q, ka, kb, sa, sb
<1>4. ASSUME sa = sb PROVE p = q /\ ka = kb
  <2>1. p = q
    <3>1. (lo + 1) .. p = (lo + 1) .. q
      BY <1>1, <1>2, <1>4
    <3>2. p > lo => p \in (lo + 1) .. q
      <4>1. p > lo => p \in (lo + 1) .. p
        BY <1>1
      <4> QED BY <3>1, <4>1
    <3>3. q > lo => q \in (lo + 1) .. p
      <4>1. q > lo => q \in (lo + 1) .. q
        BY <1>1, <1>2
      <4> QED BY <3>1, <4>1
    <3> QED BY <1>1, <1>2, <3>2, <3>3
  <2>2. \A n \in 1 .. p - lo : a[lo + n].sid = b[lo + n].sid
    <3>1. SUFFICES ASSUME NEW n \in 1 .. p - lo PROVE a[lo + n].sid = b[lo + n].sid
      OBVIOUS
    <3>2. lo + n \in (lo + 1) .. p
      BY <1>1
    <3> QED BY <1>1, <1>2, <1>4, <2>1, <3>2
  <2> QED BY <1>1, <1>2, <2>1, <2>2
<1>5. ASSUME ka = kb PROVE sa = sb
  <2>1. p = q
    <3>1. DOMAIN ka = 1 .. p - lo /\ DOMAIN kb = 1 .. q - lo
      BY <1>1, <1>2
    <3>2. 1 .. p - lo = 1 .. q - lo
      BY <1>5, <3>1
    <3>3. (p - lo >= 1 => p - lo \in 1 .. q - lo) /\ (q - lo >= 1 => q - lo \in 1 .. p - lo)
      BY <1>1, <1>2, <3>2
    <3> QED BY <1>1, <1>2, <3>3
  <2>2. \A i \in (lo + 1) .. p : a[i].sid = b[i].sid
    <3>1. SUFFICES ASSUME NEW i \in (lo + 1) .. p PROVE a[i].sid = b[i].sid
      OBVIOUS
    <3>2. i - lo \in 1 .. p - lo /\ lo + (i - lo) = i
      BY <1>1
    <3>3. ka[i - lo] = <<"scope", a[i].sid>> /\ kb[i - lo] = <<"scope", b[i].sid>>
      BY <1>1, <1>2, <2>1, <3>2
    <3> QED BY <1>5, <3>3
  <2>3. DOMAIN sa = DOMAIN sb /\ \A i \in DOMAIN sa : sa[i] = sb[i]
    BY <1>1, <1>2, <2>1, <2>2
  <2> QED BY <1>3, <2>3
<1> QED BY <1>4, <1>5 DEF p, q, ka, kb, sa, sb

(* So blocks are shared as far as the scopes agree.                        *)
LEMMA KeysAreScopes ==
  ASSUME NEW a, IsItems(a), NonDecreasing(a), NEW b, IsItems(b), NonDecreasing(b), NEW k \in Nat
  PROVE  (\A n \in 1 .. k : ScopeKeysForBlock(a, n) = ScopeKeysForBlock(b, n))
           <=> (\A n \in 1 .. k : Scopes(a, n) = Scopes(b, n))
<1> DEFINE K(m) == \A n \in 1 .. m : ScopeKeysForBlock(a, n) = ScopeKeysForBlock(b, n)
           W(m) == \A n \in 1 .. m : Scopes(a, n) = Scopes(b, n)
           S == {m \in Nat : (K(m) <=> W(m)) /\ (W(m) => Opened(a, m) = Opened(b, m))}
<1>1. 0 \in S
  <2>1. ASSUME NEW items, IsItems(items), NonDecreasing(items) PROVE Opened(items, 0) = 0
    <3>1. /\ Opened(items, 0) \in 0 .. Len(items) /\ Len(items) \in Nat
          /\ {i \in 1 .. Len(items) : items[i].off < 0 * TokensPerBlock} = 1 .. Opened(items, 0)
      BY <2>1, OpenedIsPrefix
    <3>2. 0 * TokensPerBlock = 0
      BY SaltAssumption
    <3>3. \A i \in 1 .. Len(items) : items[i].off \in Nat
      BY <2>1, LenProperties DEF IsItems, Range
    <3>4. 1 .. Opened(items, 0) = {}
      BY <3>1, <3>2, <3>3
    <3>5. Opened(items, 0) >= 1 => 1 \in 1 .. Opened(items, 0)
      BY <3>1
    <3> QED BY <3>1, <3>4, <3>5
  <2>2. Opened(a, 0) = 0 /\ Opened(b, 0) = 0
    BY <2>1
  <2> QED BY <2>2
<1>2. ASSUME NEW m \in Nat, m \in S PROVE m + 1 \in S
  <2>1. m + 1 \in Nat \ {0} /\ m + 1 - 1 = m
    OBVIOUS
  <2>2. \A n : n \in 1 .. m + 1 <=> n \in 1 .. m \/ n = m + 1
    OBVIOUS
  <2>3. K(m + 1) <=> K(m) /\ ScopeKeysForBlock(a, m + 1) = ScopeKeysForBlock(b, m + 1)
    BY <2>2
  <2>4. W(m + 1) <=> W(m) /\ Scopes(a, m + 1) = Scopes(b, m + 1)
    BY <2>2
  <2>5. (K(m) <=> W(m)) /\ (W(m) => Opened(a, m) = Opened(b, m))
    BY <1>2
  <2>6. Opened(a, m) = Opened(b, m) =>
          /\ ScopeKeysForBlock(a, m + 1) = ScopeKeysForBlock(b, m + 1) <=> Scopes(a, m + 1) = Scopes(b, m + 1)
          /\ Scopes(a, m + 1) = Scopes(b, m + 1) => Opened(a, m + 1) = Opened(b, m + 1)
    BY <2>1, SameScopesSameKeys
  <2> HIDE DEF K, W
  <2>7. (K(m + 1) <=> W(m + 1)) /\ (W(m + 1) => Opened(a, m + 1) = Opened(b, m + 1))
    BY <2>3, <2>4, <2>5, <2>6
  <2> QED BY <2>7
<1>3. k \in S
  <2> HIDE DEF S
  <2> QED BY <1>1, <1>2, Induction
<1> QED BY <1>3

-----------------------------------------------------------------------------
(* Requests with salts.                                                    *)

(* What arrives from the middleware and from other clients.                *)
Sendable ==
  {[barriers |-> b, salt |-> Encode(b), base |-> x] :
     b \in {b \in BarrierLists : Encode(b) # ValueError}, x \in Bases}
  \cup {[barriers |-> << >>, salt |-> s, base |-> x] : s \in ForeignSalts \cup {NoSalt}, x \in Bases}

SaltInv == requests \in Seq(Sendable)

LEMMA SaltInvariant == SaltSpec => []SaltInv
<1>1. SaltInit => SaltInv
  BY EmptySeq DEF SaltInit, SaltInv
<1>2. SaltInv /\ [SaltNext]_wire => SaltInv'
  <2>1. SUFFICES ASSUME SaltInv, [SaltNext]_wire PROVE SaltInv'
    OBVIOUS
  <2>2. ASSUME NEW b \in BarrierLists, Send(b) PROVE SaltInv'
    <3>1. PICK x \in Bases : requests' = Append(requests, [barriers |-> b, salt |-> Encode(b), base |-> x])
      BY <2>2 DEF Send, Arrive
    <3>2. [barriers |-> b, salt |-> Encode(b), base |-> x] \in Sendable
      BY <2>2 DEF Send, Sendable
    <3> QED BY <2>1, <3>1, <3>2, AppendProperties DEF SaltInv
  <2>3. ASSUME NEW s \in ForeignSalts \cup {NoSalt}, Forward(s) PROVE SaltInv'
    <3>1. PICK x \in Bases : requests' = Append(requests, [barriers |-> << >>, salt |-> s, base |-> x])
      BY <2>3 DEF Forward, Arrive
    <3>2. [barriers |-> << >>, salt |-> s, base |-> x] \in Sendable
      BY DEF Sendable
    <3> QED BY <2>1, <3>1, <3>2, AppendProperties DEF SaltInv
  <2>4. CASE UNCHANGED wire
    BY <2>1, <2>4 DEF wire, SaltInv
  <2> QED BY <2>1, <2>2, <2>3, <2>4 DEF SaltNext
<1> QED BY <1>1, <1>2, PTL DEF SaltSpec

(* The engine reads from a salt of the middleware what was written to it.  *)
LEMMA PlainEncoded ==
  ASSUME NEW b, Plain(b), \A x \in Range(b) : x.off \in Int, Encode(b) # ValueError
  PROVE  /\ IsItems(b) /\ NonDecreasing(b) /\ Len(b) >= 1 /\ b # << >>
         /\ Encode(b) = [ours |-> TRUE, items |-> b] /\ Encode(b) # NoSalt
         /\ Decode(Encode(b)) = b /\ b # Malformed
<1>1. /\ Len(b) \in 1 .. MAX_BARRIERS
      /\ \A k \in DOMAIN b : b[k].sid \in ScopeIds /\ b[k].off >= 0
      /\ NonDecreasing(b)
      /\ Length(b) <= MAX_SALT_LEN
  BY DEF Encode
<1>2. Encode(b) = [ours |-> TRUE, items |-> b]
  BY <1>1 DEF Encode
<1>3. Encode(b) # NoSalt /\ b # Malformed /\ b \in Seq(Range(b))
  BY <1>2 DEF Plain
<1>4. \A k \in DOMAIN b : b[k].off \in Int /\ b[k].off >= 0
  BY <1>1 DEF Range
<1>5. IsItems(b)
  BY <1>3, <1>4 DEF IsItems, Range
<1>6. \A k \in DOMAIN b : b[k].sid \in ScopeIds /\ b[k].off # NoNumber
  BY <1>1, <1>4, SaltAssumption
<1>7. Decode([ours |-> TRUE, items |-> b]) = b
  BY <1>1, <1>6 DEF Decode
<1>8. Len(b) >= 1 /\ b # << >>
  BY <1>1
<1> QED BY <1>1, <1>2, <1>3, <1>5, <1>7, <1>8

LEMMA DecodedAsEncoded ==
  ASSUME NEW b \in BarrierLists, Encode(b) # ValueError
  PROVE  /\ IsItems(b) /\ NonDecreasing(b) /\ Len(b) >= 1 /\ b # << >>
         /\ Encode(b) = [ours |-> TRUE, items |-> b] /\ Encode(b) # NoSalt
         /\ Decode(Encode(b)) = b /\ b # Malformed
<1>1. Plain(b) /\ \A x \in Range(b) : x.off \in Int
  BY SaltAssumption
<1> QED BY <1>1, PlainEncoded

(* The keys a salt adds to the first block, by the tag of its keys.        *)
Tagged(keys, tag) == keys \in Seq(Range(keys)) /\ \A n \in 1 .. Len(keys) : keys[n][1] = tag

LEMMA CommonBase ==
  ASSUME NEW base \in Bases, NEW T, NEW x \in Seq(T), NEW U, NEW y \in Seq(U), base \o x = base \o y
  PROVE  x = y
<1>1. CASE base = << >>
  BY <1>1
<1>2. CASE base = <<<<"lora", "adapter">>>>
  <2> DEFINE l == <<"lora", "adapter">>
  <2>1. base = <<l>> /\ <<l>> \in Seq({l}) /\ Len(<<l>>) = 1
    BY <1>2
  <2> HIDE DEF l
  <2>2. x \in Seq(T \cup U \cup {l}) /\ y \in Seq(T \cup U \cup {l}) /\ <<l>> \in Seq(T \cup U \cup {l})
    BY <2>1, SeqMonotonic
  <2>3. /\ Len(<<l>> \o x) = 1 + Len(x) /\ Len(<<l>> \o y) = 1 + Len(y)
        /\ Len(x) \in Nat /\ Len(y) \in Nat
    BY <2>1, <2>2, ConcatProperties, LenProperties
  <2>4. Len(x) = Len(y)
    BY <2>1, <2>3
  <2>5. ASSUME NEW n \in 1 .. Len(x) PROVE x[n] = y[n]
    <3>1. (<<l>> \o x)[n + 1] = x[n] /\ (<<l>> \o y)[n + 1] = y[n]
      <4>1. n + 1 \in 1 .. 1 + Len(x) /\ n + 1 > 1 /\ n + 1 - 1 = n
        BY <2>3
      <4> QED BY <2>1, <2>2, <2>3, <2>4, <4>1, ConcatProperties
    <3> QED BY <2>1, <3>1
  <2> QED BY <2>2, <2>4, <2>5, SeqEqual
<1> QED BY <1>1, <1>2 DEF Bases

(* Behind the base keys, the last key tells what the salt added.           *)
LastOf(s) == s[Len(s)]

LEMMA LastKey ==
  ASSUME NEW base \in Bases, NEW T, NEW t \in Seq(T)
  PROVE  /\ t # << >> => base \o t # << >> /\ LastOf(base \o t) = LastOf(t)
         /\ t = << >> => base \o t = base /\ (base # << >> => LastOf(base)[1] = "lora")
<1> DEFINE l == <<"lora", "adapter">>
<1>1. CASE base = << >>
  BY <1>1
<1>2. CASE base = <<l>>
  <2>1. <<l>> \in Seq({l}) /\ Len(<<l>>) = 1 /\ <<l>>[1] = l /\ l[1] = "lora"
    OBVIOUS
  <2>2. <<l>> \in Seq(T \cup {l}) /\ t \in Seq(T \cup {l}) /\ Len(t) \in Nat
    BY <2>1, SeqMonotonic, LenProperties
  <2> HIDE DEF l
  <2>3. /\ Len(<<l>> \o t) = 1 + Len(t) /\ <<l>> \o t \in Seq(T \cup {l})
        /\ \A i \in 1 .. 1 + Len(t) : (<<l>> \o t)[i] = IF i <= 1 THEN <<l>>[i] ELSE t[i - 1]
    BY <2>1, <2>2, ConcatProperties
  <2>4. ASSUME t # << >> PROVE base \o t # << >> /\ LastOf(base \o t) = LastOf(t)
    <3>1. Len(t) >= 1
      BY <2>2, <2>4, EmptySeq
    <3>2. 1 + Len(t) \in 1 .. 1 + Len(t) /\ 1 + Len(t) - 1 = Len(t) /\ ~(1 + Len(t) <= 1)
      BY <2>2, <3>1
    <3>3. (<<l>> \o t)[1 + Len(t)] = t[Len(t)]
      BY <2>3, <3>2
    <3>4. <<l>> \o t # << >>
      BY <2>2, <2>3, <3>1, EmptySeq
    <3> QED BY <1>2, <2>3, <3>3, <3>4 DEF LastOf
  <2>5. ASSUME t = << >> PROVE base \o t = base
    BY <1>2, <2>1, <2>5, ConcatEmptySeq
  <2>6. LastOf(base)[1] = "lora"
    BY <1>2, <2>1 DEF LastOf
  <2> QED BY <2>4, <2>5, <2>6
<1> QED BY <1>1, <1>2 DEF Bases

(* What the salt of a request adds to the keys of a block.                 *)
SaltKeys(r, k) ==
  IF ~installed \/ r.salt = NoSalt \/ (r.salt # NoSalt /\ ~r.salt.ours) THEN Opaque(r.salt, k)
  ELSE IF Decode(r.salt) = Malformed THEN Opaque(r.salt, k)
  ELSE ScopeKeysForBlock(Decode(r.salt), k)

LEMMA ScopeKeysTagged ==
  ASSUME NEW items, IsItems(items), NonDecreasing(items), NEW k \in Nat \ {0}
  PROVE  /\ Tagged(ScopeKeysForBlock(items, k), "scope")
         /\ k = 1 /\ Len(items) >= 1 /\ items[1].off = 0 => ScopeKeysForBlock(items, k) # << >>
<1> DEFINE lo == Opened(items, k - 1)
           hi == Opened(items, k)
           f  == ScopeKeysForBlock(items, k)
<1>1. /\ lo \in Nat /\ hi \in Nat /\ lo <= hi /\ hi <= Len(items) /\ Len(items) \in Nat
      /\ DOMAIN Scopes(items, k) = (lo + 1) .. hi
      /\ f = [n \in 1 .. hi - lo |-> <<"scope", items[lo + n].sid>>]
  BY BlockKeys
<1>2. DOMAIN Scopes(items, k) = {i \in DOMAIN items : items[i].off \div TokensPerBlock = k - 1}
  BY DEF Scopes
<1> HIDE DEF lo, hi, f
<1>3. hi - lo \in Nat /\ DOMAIN f = 1 .. hi - lo /\ f \in [1 .. hi - lo -> Range(f)]
  <2>1. hi - lo \in Nat /\ DOMAIN f = 1 .. hi - lo
    BY <1>1
  <2>2. \A n \in 1 .. hi - lo : f[n] \in Range(f)
    BY <2>1 DEF Range
  <2>3. f = [n \in 1 .. hi - lo |-> f[n]]
    BY <1>1, <2>1
  <2> QED BY <2>1, <2>2, <2>3
<1>4. f \in Seq(Range(f))
  BY <1>3, SeqDef
<1>5. Len(f) = hi - lo /\ \A n \in 1 .. hi - lo : f[n][1] = "scope"
  BY <1>1, <1>3, <1>4, LenProperties
<1>6. ASSUME k = 1, Len(items) >= 1, items[1].off = 0 PROVE f # << >>
  <2>1. 1 \in DOMAIN items
    BY <1>1, <1>6, LenProperties DEF IsItems
  <2>2. 0 \div TokensPerBlock = 0
    <3>1. TokensPerBlock \in Nat \ {0} /\ 0 * TokensPerBlock = 0
      BY SaltAssumption
    <3>2. (0 + 1) * TokensPerBlock = TokensPerBlock
      BY <3>1
    <3> QED BY <3>1, <3>2, InBlock
  <2>3. 1 \in (lo + 1) .. hi
    <3>1. k - 1 = 0
      BY <1>6
    <3>2. 1 \in {i \in DOMAIN items : items[i].off \div TokensPerBlock = k - 1}
      BY <1>6, <2>1, <2>2, <3>1
    <3> QED BY <1>1, <1>2, <3>2
  <2>4. Len(f) >= 1
    BY <1>1, <1>5, <2>3
  <2> QED BY <2>4, EmptySeq
<1> QED BY <1>4, <1>5, <1>6 DEF Tagged, f

(* What a request brings along, by where it came from.                     *)
LEMMA SentRequest ==
  ASSUME NEW r \in Sendable
  PROVE  /\ r.base \in Bases
         /\ ExtraKeys(r, 1) = r.base \o SaltKeys(r, 1)
         /\ FromMiddleware(r) => /\ r.barriers \in BarrierLists /\ Encode(r.barriers) # ValueError
                                 /\ r.salt = Encode(r.barriers)
         /\ ~FromMiddleware(r) => r.salt \in ForeignSalts \cup {NoSalt}
<1>1. ExtraKeys(r, 1) = r.base \o SaltKeys(r, 1)
  BY DEF ExtraKeys, SaltKeys
<1>2. CASE \E b \in BarrierLists, x \in Bases :
             Encode(b) # ValueError /\ r = [barriers |-> b, salt |-> Encode(b), base |-> x]
  <2>1. PICK b \in BarrierLists, x \in Bases :
          Encode(b) # ValueError /\ r = [barriers |-> b, salt |-> Encode(b), base |-> x]
    BY <1>2
  <2>2. r.barriers = b /\ r.salt = Encode(b) /\ r.base = x /\ b # << >>
    BY <2>1, DecodedAsEncoded
  <2> QED BY <1>1, <2>1, <2>2 DEF FromMiddleware
<1>3. CASE \E s \in ForeignSalts \cup {NoSalt}, x \in Bases : r = [barriers |-> << >>, salt |-> s, base |-> x]
  BY <1>1, <1>3 DEF FromMiddleware
<1> QED BY <1>2, <1>3 DEF Sendable

(* A salt the engine reads was well formed.                                *)
LEMMA ReadIsWellFormed ==
  ASSUME NEW s \in ForeignSalts, Decode(s) # Malformed, s.ours
  PROVE  WellFormed(s) /\ IsItems(s.items) /\ NonDecreasing(s.items) /\ Decode(s) = s.items
<1>1. /\ Len(s.items) \in 1 .. MAX_BARRIERS
      /\ Length(s.items) <= MAX_SALT_LEN
      /\ \A k \in DOMAIN s.items : s.items[k].sid \in ScopeIds /\ s.items[k].off # NoNumber
      /\ NonDecreasing(s.items) /\ Decode(s) = s.items
  BY DEF Decode
<1>2. [ours |-> TRUE, items |-> s.items] # ValueError
  BY SaltAssumption DEF Plain
<1>3. /\ s.items \in Seq(Range(s.items))
      /\ \A x \in Range(s.items) : x.off \in Nat \cup {NoNumber}
  BY SaltAssumption DEF Plain
<1>4. \A k \in DOMAIN s.items : s.items[k].off \in Nat
  BY <1>1, <1>3 DEF Range
<1>5. IsItems(s.items)
  BY <1>3, <1>4 DEF IsItems, Range
<1>6. Encode(s.items) = [ours |-> TRUE, items |-> s.items]
  BY <1>1, <1>4 DEF Encode
<1>7. Encode(s.items) # ValueError
  BY <1>2, <1>6, SaltAssumption
<1> QED BY <1>1, <1>5, <1>7 DEF WellFormed

-----------------------------------------------------------------------------
(* With the plugin, the engine shares between requests of the middleware   *)
(* exactly the blocks that the scopes of their prompts let them share.     *)
THEOREM PluginSharesAsSimulated == SaltSpec => []SharedAsSimulated
<1>1. SaltInv => SharedAsSimulated
  <2>1. SUFFICES ASSUME SaltInv, BothSent, installed,
                        NEW r, r = requests[1], NEW s, s = requests[2],
                        FromMiddleware(r), FromMiddleware(s), r.base = s.base,
                        NEW k \in 1 .. NumBlocks
                 PROVE  Share(r, s, k) <=> \A n \in 1 .. k : Scopes(r.barriers, n) = Scopes(s.barriers, n)
    BY DEF SharedAsSimulated
  <2>2. r \in Sendable /\ s \in Sendable
    <3>1. 1 \in DOMAIN requests /\ 2 \in DOMAIN requests
      BY <2>1, LenProperties DEF SaltInv, BothSent
    <3> QED BY <2>1, <3>1, ElementOfSeq, LenProperties DEF SaltInv
  <2> DEFINE a == r.barriers
             b == s.barriers
  <2>3. ASSUME NEW q \in Sendable, FromMiddleware(q)
        PROVE  /\ IsItems(q.barriers) /\ NonDecreasing(q.barriers) /\ q.base \in Bases
               /\ \A n : ExtraKeys(q, n) = q.base \o ScopeKeysForBlock(q.barriers, n)
    <3>1. q.base \in Bases /\ q.barriers \in BarrierLists /\ Encode(q.barriers) # ValueError /\ q.salt = Encode(q.barriers)
      BY <2>3, SentRequest
    <3>2. /\ IsItems(q.barriers) /\ NonDecreasing(q.barriers)
          /\ q.salt # NoSalt /\ q.salt.ours
          /\ Decode(q.salt) = q.barriers /\ q.barriers # Malformed
      BY <3>1, DecodedAsEncoded
    <3> QED BY <2>1, <3>1, <3>2 DEF ExtraKeys
  <2>4. /\ IsItems(a) /\ NonDecreasing(a) /\ IsItems(b) /\ NonDecreasing(b) /\ r.base \in Bases
        /\ \A n : ExtraKeys(r, n) = r.base \o ScopeKeysForBlock(a, n)
        /\ \A n : ExtraKeys(s, n) = r.base \o ScopeKeysForBlock(b, n)
    BY <2>1, <2>2, <2>3
  <2> HIDE DEF a, b
  <2>5. k \in Nat /\ \A n \in 1 .. k : n \in Nat \ {0}
    BY SaltAssumption
  <2>6. ASSUME NEW n \in 1 .. k
        PROVE  ExtraKeys(r, n) = ExtraKeys(s, n) <=> ScopeKeysForBlock(a, n) = ScopeKeysForBlock(b, n)
    <3>1. /\ ScopeKeysForBlock(a, n) \in Seq(Range(ScopeKeysForBlock(a, n)))
          /\ ScopeKeysForBlock(b, n) \in Seq(Range(ScopeKeysForBlock(b, n)))
      BY <2>4, <2>5, ScopeKeysTagged DEF Tagged
    <3>2. r.base \o ScopeKeysForBlock(a, n) = r.base \o ScopeKeysForBlock(b, n)
            => ScopeKeysForBlock(a, n) = ScopeKeysForBlock(b, n)
      BY <2>4, <3>1, CommonBase
    <3> QED BY <2>4, <3>2
  <2>7. Share(r, s, k) <=> \A n \in 1 .. k : ScopeKeysForBlock(a, n) = ScopeKeysForBlock(b, n)
    BY <2>6 DEF Share
  <2>8. (\A n \in 1 .. k : ScopeKeysForBlock(a, n) = ScopeKeysForBlock(b, n))
          <=> (\A n \in 1 .. k : Scopes(a, n) = Scopes(b, n))
    BY <2>4, <2>5, KeysAreScopes
  <2> QED BY <2>7, <2>8 DEF a, b
<1> QED BY <1>1, SaltInvariant, PTL

(* A salt that is not read as scopes shares no block with another request, *)
(* nor does a scoped request with one that has no salt.                    *)
THEOREM OpaqueSaltsIsolate == SaltSpec => []UndecodedSaltsIsolate
<1>1. SaltInv => UndecodedSaltsIsolate
  <2>1. SUFFICES ASSUME SaltInv, BothSent, NEW m \in {1, 2},
                        NEW r, r = requests[m], NEW s, s = requests[3 - m],
                        \/ r.salt # NoSalt /\ r.salt # s.salt /\ (~installed \/ ~WellFormed(r.salt))
                        \/ FromMiddleware(r) /\ r.barriers[1].off = 0 /\ s.salt = NoSalt,
                        NEW k \in 1 .. NumBlocks, Share(r, s, k)
                 PROVE  FALSE
    BY DEF UndecodedSaltsIsolate
  <2>2. r \in Sendable /\ s \in Sendable
    <3>1. m \in DOMAIN requests /\ 3 - m \in DOMAIN requests
      BY <2>1, LenProperties DEF SaltInv, BothSent
    <3> QED BY <2>1, <3>1, ElementOfSeq, LenProperties DEF SaltInv
  <2> DEFINE x == SaltKeys(r, 1)
             y == SaltKeys(s, 1)
  <2>3. r.base \in Bases /\ s.base \in Bases /\ r.base \o x = s.base \o y
    <3>1. 1 \in 1 .. k
      BY SaltAssumption
    <3> QED BY <2>1, <2>2, <3>1, SentRequest DEF Share
  <2>4. ASSUME NEW q \in Sendable
        PROVE  \/ SaltKeys(q, 1) = << >> /\ q.salt = NoSalt
               \/ SaltKeys(q, 1) = <<<<"salt", q.salt>>>> /\ q.salt # NoSalt
               \/ Tagged(SaltKeys(q, 1), "scope") /\ installed /\ WellFormed(q.salt) /\ q.salt # NoSalt
    <3>1. Opaque(q.salt, 1) = IF q.salt # NoSalt THEN <<<<"salt", q.salt>>>> ELSE << >>
      BY DEF Opaque
    <3>2. CASE ~installed \/ q.salt = NoSalt \/ ~q.salt.ours \/ Decode(q.salt) = Malformed
      BY <3>1, <3>2 DEF SaltKeys
    <3>3. CASE installed /\ q.salt # NoSalt /\ q.salt.ours /\ Decode(q.salt) # Malformed
      <4>1. SaltKeys(q, 1) = ScopeKeysForBlock(Decode(q.salt), 1)
        BY <3>3 DEF SaltKeys
      <4>2. IsItems(Decode(q.salt)) /\ NonDecreasing(Decode(q.salt)) /\ WellFormed(q.salt)
        <5>1. CASE FromMiddleware(q)
          <6>1. q.barriers \in BarrierLists /\ Encode(q.barriers) # ValueError /\ q.salt = Encode(q.barriers)
            BY <5>1, SentRequest
          <6>2. /\ IsItems(q.barriers) /\ NonDecreasing(q.barriers) /\ Decode(q.salt) = q.barriers
                /\ q.salt = [ours |-> TRUE, items |-> q.barriers]
            BY <6>1, DecodedAsEncoded
          <6>3. \A i \in DOMAIN q.barriers : q.barriers[i].off # NoNumber
            BY <6>2, SaltAssumption DEF IsItems, Range
          <6>4. q.salt.ours /\ q.salt.items = q.barriers
            BY <6>2
          <6> QED BY <6>1, <6>2, <6>3, <6>4 DEF WellFormed
        <5>2. CASE ~FromMiddleware(q)
          <6>1. q.salt \in ForeignSalts
            BY <3>3, <5>2, SentRequest
          <6> QED BY <3>3, <6>1, ReadIsWellFormed
        <5> QED BY <5>1, <5>2
      <4>3. Tagged(ScopeKeysForBlock(Decode(q.salt), 1), "scope")
        BY <4>2, ScopeKeysTagged
      <4> QED BY <3>3, <4>1, <4>2, <4>3
    <3> QED BY <3>2, <3>3
  <2>5. ASSUME NEW q \in Sendable
        PROVE  SaltKeys(q, 1) \in Seq(Range(SaltKeys(q, 1)))
    <3>1. << >> \in Seq(Range(<< >>))
      BY EmptySeq
    <3>2. \A e : <<e>> \in Seq({e}) /\ Range(<<e>>) = {e}
      BY DEF Range
    <3> QED BY <2>4, <3>1, <3>2 DEF Tagged
  <2>6. /\ x # << >> => r.base \o x # << >> /\ LastOf(r.base \o x) = LastOf(x)
        /\ y # << >> => s.base \o y # << >> /\ LastOf(s.base \o y) = LastOf(y)
        /\ y = << >> => s.base \o y = s.base /\ (s.base # << >> => LastOf(s.base)[1] = "lora")
    BY <2>2, <2>3, <2>5, LastKey
  <2>7. ASSUME NEW t, t # << >>, Tagged(t, "scope") PROVE LastOf(t)[1] = "scope"
    <3>1. Len(t) \in 1 .. Len(t)
      BY <2>7, EmptySeq DEF Tagged
    <3> QED BY <2>7, <3>1 DEF Tagged, LastOf
  <2>8. \A e : <<e>> # << >> /\ LastOf(<<e>>) = e
    BY DEF LastOf
  <2>9. CASE r.salt # NoSalt /\ r.salt # s.salt /\ (~installed \/ ~WellFormed(r.salt))
    <3>1. x = <<<<"salt", r.salt>>>>
      BY <2>2, <2>4, <2>9
    <3>2. x # << >> /\ LastOf(x) = <<"salt", r.salt>>
      BY <2>8, <3>1
    <3>3. CASE y = << >>
      <4>1. LastOf(x)[1] = "salt"
        BY <3>2
      <4>2. s.base # << >> /\ LastOf(s.base) = LastOf(x)
        BY <2>3, <2>6, <3>2, <3>3
      <4> QED BY <2>6, <3>3, <4>1, <4>2
    <3>4. CASE y # << >> /\ y = <<<<"salt", s.salt>>>>
      <4>1. LastOf(y) = <<"salt", s.salt>>
        BY <2>8, <3>4
      <4>2. <<"salt", r.salt>> = <<"salt", s.salt>>
        BY <2>3, <2>6, <3>2, <3>4, <4>1
      <4> QED BY <2>9, <4>2
    <3>5. CASE y # << >> /\ Tagged(y, "scope")
      <4>1. LastOf(y)[1] = "scope" /\ LastOf(x)[1] = "salt"
        BY <2>7, <3>2, <3>5
      <4> QED BY <2>3, <2>6, <3>2, <3>5, <4>1
    <3> QED BY <2>2, <2>4, <3>3, <3>4, <3>5
  <2>10. CASE FromMiddleware(r) /\ r.barriers[1].off = 0 /\ s.salt = NoSalt
    <3>1. y = << >>
      BY <2>2, <2>4, <2>10
    <3>2. r.barriers \in BarrierLists /\ Encode(r.barriers) # ValueError /\ r.salt = Encode(r.barriers)
      BY <2>2, <2>10, SentRequest
    <3>3. /\ IsItems(r.barriers) /\ NonDecreasing(r.barriers) /\ Len(r.barriers) >= 1
          /\ r.salt = [ours |-> TRUE, items |-> r.barriers] /\ r.salt # NoSalt
          /\ Decode(r.salt) = r.barriers /\ r.barriers # Malformed
      BY <3>2, DecodedAsEncoded
    <3>4. x # << >> /\ LastOf(x)[1] \in {"salt", "scope"}
      <4>1. CASE installed
        <5>1. x = ScopeKeysForBlock(r.barriers, 1)
          BY <3>3, <4>1 DEF SaltKeys
        <5>2. Tagged(ScopeKeysForBlock(r.barriers, 1), "scope") /\ ScopeKeysForBlock(r.barriers, 1) # << >>
          BY <2>10, <3>3, ScopeKeysTagged
        <5> QED BY <2>7, <5>1, <5>2
      <4>2. CASE ~installed
        <5>1. x = <<<<"salt", r.salt>>>>
          BY <3>3, <4>2 DEF SaltKeys, Opaque
        <5> QED BY <2>8, <5>1
      <4> QED BY <4>1, <4>2
    <3> QED BY <2>3, <2>6, <3>1, <3>4
  <2> QED BY <2>1, <2>9, <2>10
<1> QED BY <1>1, SaltInvariant, PTL

-----------------------------------------------------------------------------
(* The scripts that check a running server: what two salts share.          *)

(* The keys of a salt for the n-th block, and the chains of keys of a      *)
(* prompt, with the plugin (on) and without.                               *)
KeysOf(on, salt, n) ==
  << >> \o (IF ~on \/ salt = NoSalt \/ ~salt.ours THEN Opaque(salt, n)
            ELSE IF Decode(salt) = Malformed THEN Opaque(salt, n)
            ELSE ScopeKeysForBlock(Decode(salt), n))
ChainOf(on, p, salt, k) == [n \in 1 .. k |-> <<p.text[n], KeysOf(on, salt, n)>>]
ChainsOf(on, p, salt)   == {ChainOf(on, p, salt, k) : k \in DOMAIN p.text}
Agree(on, s, t, k)      == \A n \in 1 .. k : KeysOf(on, s, n) = KeysOf(on, t, n)

IsPrompt(p) == p.text \in Seq(Range(p.text)) /\ p.text # << >> /\ p.tail \in Nat

LEMMA ChainForm ==
  ASSUME NEW p, NEW salt, NEW k
  PROVE  Chain(p, salt, k) = ChainOf(installed, p, salt, k) /\ Chains(p, salt) = ChainsOf(installed, p, salt)
<1>1. \A n : ExtraKeys([salt |-> salt, base |-> << >>], n) = KeysOf(installed, salt, n)
  BY DEF ExtraKeys, KeysOf
<1>2. \A m : Chain(p, salt, m) = ChainOf(installed, p, salt, m)
  BY <1>1 DEF Chain, ChainOf
<1> QED BY <1>2 DEF Chains, ChainsOf

LEMMA PromptLength ==
  ASSUME NEW p, IsPrompt(p)
  PROVE  /\ Len(p.text) \in Nat /\ Len(p.text) >= 1 /\ DOMAIN p.text = 1 .. Len(p.text)
         /\ MostHits(p) \in Nat /\ MostHits(p) <= Len(p.text)
<1>1. Len(p.text) \in Nat /\ Len(p.text) >= 1 /\ DOMAIN p.text = 1 .. Len(p.text)
  BY EmptySeq, LenProperties DEF IsPrompt
<1> QED BY <1>1 DEF MostHits

(* Chains of a prompt meet exactly where the salts agree.                  *)
LEMMA ChainsMeet ==
  ASSUME NEW on, NEW p, IsPrompt(p), NEW s, NEW t, NEW k \in 1 .. Len(p.text)
  PROVE  /\ ChainOf(on, p, s, k) \in ChainsOf(on, p, s)
         /\ ChainOf(on, p, s, k) \in ChainsOf(on, p, t) <=> Agree(on, s, t, k)
         /\ \A j \in 1 .. k : Agree(on, s, t, k) => Agree(on, s, t, j)
<1>1. Len(p.text) \in Nat /\ DOMAIN p.text = 1 .. Len(p.text) /\ k \in Nat /\ k \in DOMAIN p.text
  BY PromptLength
<1>2. ChainOf(on, p, s, k) \in ChainsOf(on, p, s)
  BY <1>1 DEF ChainsOf
<1>3. ASSUME ChainOf(on, p, s, k) \in ChainsOf(on, p, t) PROVE Agree(on, s, t, k)
  <2>1. PICK j \in DOMAIN p.text : ChainOf(on, p, s, k) = ChainOf(on, p, t, j)
    BY <1>3 DEF ChainsOf
  <2>2. DOMAIN ChainOf(on, p, s, k) = 1 .. k /\ DOMAIN ChainOf(on, p, t, j) = 1 .. j
    BY DEF ChainOf
  <2>3. k = j
    <3>1. 1 .. k = 1 .. j /\ k \in 1 .. k /\ j \in 1 .. j
      BY <1>1, <2>1, <2>2
    <3> QED BY <1>1, <3>1
  <2>4. ASSUME NEW n \in 1 .. k PROVE KeysOf(on, s, n) = KeysOf(on, t, n)
    <3>1. /\ ChainOf(on, p, s, k)[n] = <<p.text[n], KeysOf(on, s, n)>>
          /\ ChainOf(on, p, t, k)[n] = <<p.text[n], KeysOf(on, t, n)>>
      BY DEF ChainOf
    <3> QED BY <2>1, <2>3, <3>1
  <2> QED BY <2>4 DEF Agree
<1>4. ASSUME Agree(on, s, t, k) PROVE ChainOf(on, p, s, k) \in ChainsOf(on, p, t)
  <2>1. ChainOf(on, p, s, k) = ChainOf(on, p, t, k)
    BY <1>4 DEF Agree, ChainOf
  <2> QED BY <1>1, <2>1 DEF ChainsOf
<1>5. \A j \in 1 .. k : 1 .. j \subseteq 1 .. k
  BY <1>1
<1> QED BY <1>2, <1>3, <1>4, <1>5 DEF Agree

LEMMA FirstText ==
  ASSUME NEW on, NEW p, IsPrompt(p), NEW s, NEW c \in ChainsOf(on, p, s)
  PROVE  c[1][1] = p.text[1]
<1>1. PICK k \in DOMAIN p.text : c = ChainOf(on, p, s, k)
  BY DEF ChainsOf
<1>2. 1 \in 1 .. k
  BY <1>1, PromptLength
<1> QED BY <1>1, <1>2 DEF ChainOf

(* What the engine finds of a prompt.                                      *)
LEMMA HitsFound ==
  ASSUME NEW p, IsPrompt(p), NEW salt, NEW h, h = Hits(p, salt)
  PROVE  /\ h \in 0 .. MostHits(p)
         /\ \A k \in 1 .. h : ChainOf(installed, p, salt, k) \in cache
         /\ h < MostHits(p) => ChainOf(installed, p, salt, h + 1) \notin cache
<1> DEFINE M == MostHits(p)
           held(k) == ChainOf(installed, p, salt, k) \in cache
           S == {n \in 0 .. M : n = M \/ ~held(n + 1)}
<1>1. M \in Nat
  BY PromptLength
<1>2. h = CHOOSE n \in 0 .. M : (\A k \in 1 .. n : held(k)) /\ (n < M => ~held(n + 1))
  BY ChainForm DEF Hits
<1> HIDE DEF M, held
<1>3. PICK n \in S : \A m \in S : n <= m
  <2>1. S \subseteq Nat /\ M \in S
    BY <1>1
  <2> HIDE DEF S
  <2> QED BY <2>1, LeastElement
<1>4. \A k \in 1 .. n : held(k)
  <2>1. SUFFICES ASSUME NEW k \in 1 .. n, ~held(k) PROVE FALSE
    OBVIOUS
  <2>2. k - 1 \in 0 .. M /\ k - 1 + 1 = k /\ ~(n <= k - 1)
    BY <1>1, <1>3
  <2>3. k - 1 \in S
    BY <2>1, <2>2
  <2> QED BY <1>3, <2>2, <2>3
<1>5. n \in 0 .. M /\ (n < M => ~held(n + 1))
  BY <1>1, <1>3
<1> QED BY <1>2, <1>4, <1>5 DEF M, held

(* A list of barriers that is sent as scopes from the start of the prompt. *)
FromStart(b) ==
  Plain(b) /\ (\A x \in Range(b) : x.off \in Int) /\ Encode(b) # ValueError /\ b[1].off = 0

(* The salts of the scripts differ in the first block already, unless they *)
(* are the same without the plugin, or begin with the same scope.          *)
Starting(s) == s = NoSalt \/ s = Stock \/ \E b : FromStart(b) /\ s = Encode(b)

LEMMA ScopedKeys ==
  ASSUME NEW b, FromStart(b)
  PROVE  /\ IsItems(b) /\ NonDecreasing(b) /\ Len(b) >= 1 /\ b # << >>
         /\ Encode(b) = [ours |-> TRUE, items |-> b] /\ Encode(b) # NoSalt
         /\ \A n \in Nat \ {0} : KeysOf(TRUE, Encode(b), n) = ScopeKeysForBlock(b, n)
         /\ KeysOf(TRUE, Encode(b), 1) # << >> /\ KeysOf(TRUE, Encode(b), 1)[1] = <<"scope", b[1].sid>>
<1>1. /\ IsItems(b) /\ NonDecreasing(b) /\ Len(b) >= 1 /\ b # << >>
      /\ Encode(b) = [ours |-> TRUE, items |-> b] /\ Encode(b) # NoSalt
      /\ Decode(Encode(b)) = b /\ b # Malformed
  BY PlainEncoded DEF FromStart
<1>2. Encode(b).ours
  BY <1>1
<1>3. \A n \in Nat \ {0} : KeysOf(TRUE, Encode(b), n) = << >> \o ScopeKeysForBlock(b, n)
  BY <1>1, <1>2 DEF KeysOf
<1>4. \A n \in Nat \ {0} : KeysOf(TRUE, Encode(b), n) = ScopeKeysForBlock(b, n)
  <2>1. SUFFICES ASSUME NEW n \in Nat \ {0} PROVE KeysOf(TRUE, Encode(b), n) = ScopeKeysForBlock(b, n)
    OBVIOUS
  <2>2. ScopeKeysForBlock(b, n) \in Seq(Range(ScopeKeysForBlock(b, n)))
    BY <1>1, ScopeKeysTagged DEF Tagged
  <2> QED BY <1>3, <2>2, ConcatEmptySeq
<1>5. ScopeKeysForBlock(b, 1) # << >> /\ ScopeKeysForBlock(b, 1)[1] = <<"scope", b[1].sid>>
  <2> DEFINE lo == Opened(b, 0)
             hi == Opened(b, 1)
             keys == ScopeKeysForBlock(b, 1)
  <2>1. /\ lo \in Nat /\ hi \in Nat /\ lo <= hi
        /\ keys = [n \in 1 .. hi - lo |-> <<"scope", b[lo + n].sid>>]
    <3>0. IsItems(b) /\ NonDecreasing(b)
      BY <1>1
    <3>1. ASSUME NEW k \in Nat \ {0}
          PROVE  /\ Opened(b, k - 1) \in Nat /\ Opened(b, k) \in Nat /\ Opened(b, k - 1) <= Opened(b, k)
                 /\ ScopeKeysForBlock(b, k) =
                      [n \in 1 .. Opened(b, k) - Opened(b, k - 1) |-> <<"scope", b[Opened(b, k - 1) + n].sid>>]
      BY <3>0, BlockKeys
    <3>2. ASSUME NEW k, k = 1
          PROVE  k \in Nat \ {0} /\ lo = Opened(b, k - 1) /\ hi = Opened(b, k) /\ keys = ScopeKeysForBlock(b, k)
      BY <3>2
    <3> HIDE DEF lo, hi, keys
    <3> QED BY <3>1, <3>2
  <2>2. lo = 0
    <3>1. /\ lo \in 0 .. Len(b) /\ Len(b) \in Nat
          /\ {i \in 1 .. Len(b) : b[i].off < 0 * TokensPerBlock} = 1 .. lo
      BY <1>1, OpenedIsPrefix
    <3>2. 0 * TokensPerBlock = 0
      BY SaltAssumption
    <3>3. \A i \in 1 .. Len(b) : b[i].off \in Nat
      BY <1>1, LenProperties DEF IsItems, Range
    <3>4. 1 .. lo = {}
      BY <3>1, <3>2, <3>3
    <3>5. lo >= 1 => 1 \in 1 .. lo
      BY <3>1
    <3> QED BY <3>1, <3>4, <3>5
  <2>3. keys # << >>
    <3>1. 1 \in Nat \ {0} /\ b[1].off = 0
      BY DEF FromStart
    <3> QED BY <1>1, <3>1, ScopeKeysTagged
  <2> HIDE DEF lo, hi, keys
  <2>4. hi >= 1
    <3>1. SUFFICES ASSUME hi = 0 PROVE keys = << >>
      BY <2>1, <2>3
    <3> QED BY <2>1, <2>2, <3>1
  <2>5. keys[1] = <<"scope", b[1].sid>>
    <3>1. 1 \in 1 .. hi - lo /\ lo + 1 = 1
      BY <2>1, <2>2, <2>4
    <3> QED BY <2>1, <3>1
  <2> QED BY <2>3, <2>5 DEF keys
<1>6. KeysOf(TRUE, Encode(b), 1) = ScopeKeysForBlock(b, 1)
  <2>1. 1 \in Nat \ {0}
    OBVIOUS
  <2> QED BY <1>4, <2>1
<1> QED BY <1>1, <1>4, <1>5, <1>6

LEMMA LeadsDiffer ==
  ASSUME NEW on \in BOOLEAN, NEW s, Starting(s), NEW t, Starting(t), NEW k \in Nat \ {0}, Agree(on, s, t, k)
  PROVE  /\ s = NoSalt <=> t = NoSalt
         /\ s # NoSalt /\ ~on => s = t
         /\ s # NoSalt /\ on => (s = Stock <=> t = Stock) /\ (s # Stock => s.items[1].sid = t.items[1].sid)
<1> DEFINE x == KeysOf(on, s, 1)
           y == KeysOf(on, t, 1)
<1>1. x = y
  <2>1. 1 \in 1 .. k
    OBVIOUS
  <2> QED BY <2>1 DEF Agree
<1>2. ASSUME NEW u, Starting(u)
      PROVE  /\ u = NoSalt => KeysOf(on, u, 1) = << >>
             /\ u # NoSalt /\ (~on \/ u = Stock) => KeysOf(on, u, 1) = <<<<"salt", u>>>>
             /\ u # NoSalt /\ on /\ u # Stock =>
                  KeysOf(on, u, 1) # << >> /\ KeysOf(on, u, 1)[1] = <<"scope", u.items[1].sid>>
  <2>1. ASSUME u = NoSalt PROVE KeysOf(on, u, 1) = << >>
    BY <2>1 DEF KeysOf, Opaque
  <2>2. ASSUME u # NoSalt, ~on \/ u = Stock PROVE KeysOf(on, u, 1) = <<<<"salt", u>>>>
    <3>1. ~on \/ ~u.ours
      BY <2>2 DEF Stock
    <3> QED BY <2>2, <3>1 DEF KeysOf, Opaque
  <2>3. ASSUME u # NoSalt, on, u # Stock
        PROVE  KeysOf(on, u, 1) # << >> /\ KeysOf(on, u, 1)[1] = <<"scope", u.items[1].sid>>
    <3>1. PICK b : FromStart(b) /\ u = Encode(b)
      BY <1>2, <2>3 DEF Starting
    <3>2. /\ Encode(b) = [ours |-> TRUE, items |-> b]
          /\ KeysOf(TRUE, Encode(b), 1) # << >> /\ KeysOf(TRUE, Encode(b), 1)[1] = <<"scope", b[1].sid>>
      BY <3>1, ScopedKeys
    <3>3. u.items = b /\ on = TRUE
      BY <2>3, <3>1, <3>2
    <3> QED BY <3>1, <3>2, <3>3
  <2> QED BY <2>1, <2>2, <2>3
<1>3. \A e : <<e>> # << >> /\ <<e>>[1] = e
  OBVIOUS
<1> DEFINE X == /\ s = NoSalt => x = << >>
                /\ s # NoSalt /\ (~on \/ s = Stock) => x # << >> /\ x[1] = <<"salt", s>>
                /\ s # NoSalt /\ on /\ s # Stock => x # << >> /\ x[1] = <<"scope", s.items[1].sid>>
           Y == /\ t = NoSalt => y = << >>
                /\ t # NoSalt /\ (~on \/ t = Stock) => y # << >> /\ y[1] = <<"salt", t>>
                /\ t # NoSalt /\ on /\ t # Stock => y # << >> /\ y[1] = <<"scope", t.items[1].sid>>
<1>4. X
  BY <1>2, <1>3
<1>5. Y
  BY <1>2, <1>3
<1> HIDE DEF x, y
<1>6. s = NoSalt <=> t = NoSalt
  BY <1>1, <1>4, <1>5
<1>7. ASSUME s # NoSalt, ~on PROVE s = t
  <2>1. <<"salt", s>> = <<"salt", t>>
    BY <1>1, <1>4, <1>5, <1>6, <1>7
  <2> QED BY <2>1
<1>8. ASSUME s # NoSalt, on
      PROVE  (s = Stock <=> t = Stock) /\ (s # Stock => s.items[1].sid = t.items[1].sid)
  <2>1. \A a, c : <<"salt", a>> # <<"scope", c>>
    OBVIOUS
  <2>2. s = Stock <=> t = Stock
    BY <1>1, <1>4, <1>5, <1>6, <1>8, <2>1
  <2>3. ASSUME s # Stock PROVE s.items[1].sid = t.items[1].sid
    <3>1. <<"scope", s.items[1].sid>> = <<"scope", t.items[1].sid>>
      BY <1>1, <1>4, <1>5, <1>6, <1>8, <2>2, <2>3
    <3> QED BY <3>1
  <2> QED BY <2>2, <2>3
<1> QED BY <1>6, <1>7, <1>8

-----------------------------------------------------------------------------
(* The stages of the scripts.                                              *)

Victims == UNION {Range(victims) : victims \in VictimLists}
Ids     == {FreshIds[n] : n \in 1 .. MaxLaunches}

ProbeStage(v, id) ==
  [policy |-> v.policy, prompt |-> v.prompt, calls |->
     << Call("cold", Salt(v.barriers)), Call("warm", Salt(v.barriers)), Call("no_salt", NoSalt) >>
       \o (IF v.barriers = << >> THEN << >> ELSE << Call("forged", Salt(Relabelled(v.barriers, id))) >>)
       \o << Call("stolen", Salt(v.barriers)) >>]
ProbeStages == {ProbeStage(v, id) : v \in Victims, id \in Ids}

GroupSalt == Salt(<<Barrier(0, "a"), Barrier(GroupAt, "b")>>)
SmokeStage(nonce, blocks, id) ==
  LET prompt == SmokePrompt(nonce, blocks)
  IN [policy |-> "smoke", prompt |-> prompt, nonce |-> nonce, calls |->
        << Expect(Salt(<<Barrier(0, "a")>>), 0), Expect(Salt(<<Barrier(0, "a")>>), MostExpected(prompt)),
           Expect(GroupSalt, GroupAt \div TokensPerBlock),
           Expect(NoSalt, 0), Expect(Salt(<<Barrier(0, id)>>), 0),
           Expect(Stock, 0), Expect(Stock, MostExpected(prompt)) >>]
SmokeStages == {SmokeStage(x, b, id) : x \in Nonces, b \in Lengths, id \in Ids}

LEMMA JoinedCalls ==
  ASSUME NEW a, NEW b, NEW c, NEW d, NEW e
  PROVE  <<a, b, c>> \o << >> \o <<e>> = <<a, b, c, e>> /\ <<a, b, c>> \o <<d>> \o <<e>> = <<a, b, c, d, e>>
<1> DEFINE T == {a, b, c, d, e}
           s == <<a, b, c>>
           x == Append(s, e)
           y == Append(s, d)
           z == Append(y, e)
<1>1. /\ s \in Seq(T) /\ Len(s) = 3 /\ s[1] = a /\ s[2] = b /\ s[3] = c
      /\ d \in T /\ e \in T
  OBVIOUS
<1>2. /\ <<a, b, c, e>> \in Seq(T) /\ Len(<<a, b, c, e>>) = 4
      /\ <<a, b, c, d, e>> \in Seq(T) /\ Len(<<a, b, c, d, e>>) = 5
  OBVIOUS
<1> HIDE DEF s, T, x, y, z
<1>3. s \o << >> = s
  BY <1>1, ConcatEmptySeq
<1>4. ASSUME NEW u \in Seq(T), NEW v \in T, NEW w, w = Append(u, v)
      PROVE  /\ u \o <<v>> = w /\ w \in Seq(T) /\ Len(w) = Len(u) + 1 /\ w[Len(u) + 1] = v
             /\ \A i \in 1 .. Len(u) : w[i] = u[i]
  BY <1>4, AppendIsConcat, AppendProperties
<1>6. s \o <<e>> = x /\ x \in Seq(T) /\ Len(x) = 4 /\ x[1] = a /\ x[2] = b /\ x[3] = c /\ x[4] = e
  <2>1. /\ s \o <<e>> = x /\ x \in Seq(T) /\ Len(x) = Len(s) + 1 /\ x[Len(s) + 1] = e
        /\ \A i \in 1 .. Len(s) : x[i] = s[i]
    BY <1>1, <1>4, SMTT(30) DEF x
  <2>2. 1 \in 1 .. 3 /\ 2 \in 1 .. 3 /\ 3 \in 1 .. 3 /\ 3 + 1 = 4
    OBVIOUS
  <2> QED BY <1>1, <2>1, <2>2
<1>7. s \o <<d>> = y /\ y \in Seq(T) /\ Len(y) = 4 /\ y[1] = a /\ y[2] = b /\ y[3] = c /\ y[4] = d
  <2>1. /\ s \o <<d>> = y /\ y \in Seq(T) /\ Len(y) = Len(s) + 1 /\ y[Len(s) + 1] = d
        /\ \A i \in 1 .. Len(s) : y[i] = s[i]
    <3>1. s \in Seq(T) /\ d \in T /\ y = Append(s, d)
      BY <1>1 DEF y
    <3> QED BY <1>4, <3>1, SMTT(30)
  <2>2. 1 \in 1 .. 3 /\ 2 \in 1 .. 3 /\ 3 \in 1 .. 3 /\ 3 + 1 = 4
    OBVIOUS
  <2> QED BY <1>1, <2>1, <2>2
<1>8. y \o <<e>> = z /\ z \in Seq(T) /\ Len(z) = 5 /\ z[1] = a /\ z[2] = b /\ z[3] = c /\ z[4] = d /\ z[5] = e
  <2>1. /\ y \o <<e>> = z /\ z \in Seq(T) /\ Len(z) = Len(y) + 1 /\ z[Len(y) + 1] = e
        /\ \A i \in 1 .. Len(y) : z[i] = y[i]
    BY <1>1, <1>4, <1>7, SMTT(30) DEF z
  <2>2. 1 \in 1 .. 4 /\ 2 \in 1 .. 4 /\ 3 \in 1 .. 4 /\ 4 \in 1 .. 4 /\ 4 + 1 = 5
    OBVIOUS
  <2> QED BY <1>7, <2>1, <2>2
<1>9. x = <<a, b, c, e>>
  <2> DEFINE t == <<a, b, c, e>>
  <2>1. t[1] = a /\ t[2] = b /\ t[3] = c /\ t[4] = e /\ t \in Seq(T) /\ Len(t) = 4
    BY <1>2
  <2> HIDE DEF t
  <2>2. ASSUME NEW i \in 1 .. 4 PROVE x[i] = t[i]
    <3>1. i = 1 \/ i = 2 \/ i = 3 \/ i = 4
      OBVIOUS
    <3> QED BY <1>6, <2>1, <3>1
  <2>3. x = t
    BY <1>6, <2>1, <2>2, SeqEqual
  <2> QED BY <2>3 DEF t
<1>10. z = <<a, b, c, d, e>>
  <2> DEFINE t == <<a, b, c, d, e>>
  <2>1. t[1] = a /\ t[2] = b /\ t[3] = c /\ t[4] = d /\ t[5] = e /\ t \in Seq(T) /\ Len(t) = 5
    BY <1>2
  <2> HIDE DEF t
  <2>2. ASSUME NEW i \in 1 .. 5 PROVE z[i] = t[i]
    <3>1. i = 1 \/ i = 2 \/ i = 3 \/ i = 4 \/ i = 5
      OBVIOUS
    <3> QED BY <1>8, <2>1, <3>1
  <2>3. z = t
    BY <1>8, <2>1, <2>2, SeqEqual
  <2> QED BY <2>3 DEF t
<1> QED BY <1>3, <1>6, <1>7, <1>8, <1>9, <1>10 DEF s

(* The prompts and salts of a probe: the attacker's salts share nothing    *)
(* with those used before, unless the victim's request has none.           *)
LEMMA ProbeStageSalts ==
  ASSUME NEW st \in ProbeStages
  PROVE  /\ st.policy # "smoke" /\ IsPrompt(st.prompt) /\ st.prompt.text[1] \notin Nonces
         /\ st.calls \in Seq(Range(st.calls)) /\ Len(st.calls) \in {4, 5}
         /\ st.calls[2].salt = st.calls[1].salt /\ st.calls[Len(st.calls)].salt = st.calls[1].salt
         /\ st.calls[1].name = "cold" /\ st.calls[2].name = "warm" /\ st.calls[Len(st.calls)].name = "stolen"
         /\ st.calls[3].name = "no_salt" /\ st.calls[3].salt = NoSalt
         /\ Len(st.calls) = 5 => st.calls[4].name = "forged"
         /\ Len(st.calls) = 4 <=> st.calls[1].salt = NoSalt
         /\ \A on \in BOOLEAN, k \in Nat \ {0} : Len(st.calls) = 5 =>
              /\ ~Agree(on, NoSalt, st.calls[1].salt, k)
              /\ ~Agree(on, st.calls[4].salt, st.calls[1].salt, k)
              /\ ~Agree(on, st.calls[4].salt, NoSalt, k)
<1>1. PICK v \in Victims, id \in Ids : st = ProbeStage(v, id)
  BY DEF ProbeStages
<1> DEFINE h == Salt(v.barriers)
           f == Salt(Relabelled(v.barriers, id))
<1>2. /\ v.policy # "smoke" /\ IsPrompt(v.prompt) /\ v.prompt.text[1] \notin Nonces
      /\ v.barriers # << >> =>
           /\ Plain(v.barriers) /\ \A x \in Range(v.barriers) : x.off \in Nat
           /\ Encode(v.barriers) # ValueError
           /\ v.barriers[1].off = 0
           /\ \A n \in 1 .. MaxLaunches : /\ v.barriers[1].sid # FreshIds[n]
                                         /\ Plain(Relabelled(v.barriers, FreshIds[n]))
  <2>1. PICK victims \in VictimLists : v \in Range(victims)
    BY DEF Victims
  <2> QED BY <2>1, LiveAssumption DEF IsPrompt
<1>3. CASE v.barriers = << >>
  <2>1. h = NoSalt
    BY <1>3 DEF Salt
  <2> DEFINE c == << Call("cold", h), Call("warm", h), Call("no_salt", NoSalt), Call("stolen", h) >>
  <2>2. st.calls = c
    BY <1>1, <1>3, JoinedCalls DEF ProbeStage
  <2>3. c \in Seq(Range(c)) /\ Len(c) = 4
    <3>1. Len(c) = 4 /\ DOMAIN c = 1 .. 4 /\ c = [n \in 1 .. 4 |-> c[n]]
      OBVIOUS
    <3> HIDE DEF c
    <3>2. c \in [1 .. 4 -> Range(c)]
      BY <3>1 DEF Range
    <3> QED BY <3>1, <3>2, SeqDef
  <2>4. c[1] = Call("cold", h) /\ c[2] = Call("warm", h) /\ c[3] = Call("no_salt", NoSalt) /\ c[4] = Call("stolen", h)
    OBVIOUS
  <2> HIDE DEF c, h
  <2>5. st.policy = v.policy /\ st.prompt = v.prompt
    BY <1>1 DEF ProbeStage
  <2> QED BY <1>2, <2>1, <2>2, <2>3, <2>4, <2>5 DEF Call
<1>4. CASE v.barriers # << >>
  <2> DEFINE c == << Call("cold", h), Call("warm", h), Call("no_salt", NoSalt), Call("forged", f), Call("stolen", h) >>
             r == Relabelled(v.barriers, id)
  <2>1. st.calls = c
    BY <1>1, <1>4, JoinedCalls DEF ProbeStage
  <2>2. c \in Seq(Range(c)) /\ Len(c) = 5
    <3>1. Len(c) = 5 /\ DOMAIN c = 1 .. 5 /\ c = [n \in 1 .. 5 |-> c[n]]
      OBVIOUS
    <3> HIDE DEF c
    <3>2. c \in [1 .. 5 -> Range(c)]
      BY <3>1 DEF Range
    <3> QED BY <3>1, <3>2, SeqDef
  <2>3. /\ c[1] = Call("cold", h) /\ c[2] = Call("warm", h) /\ c[3] = Call("no_salt", NoSalt)
        /\ c[4] = Call("forged", f) /\ c[5] = Call("stolen", h)
    OBVIOUS
  <2>4. FromStart(v.barriers)
    BY <1>2, <1>4 DEF FromStart
  <2>5. /\ IsItems(v.barriers) /\ Encode(v.barriers) = [ours |-> TRUE, items |-> v.barriers]
        /\ Encode(v.barriers) # NoSalt /\ NonDecreasing(v.barriers) /\ Len(v.barriers) >= 1
    BY <2>4, ScopedKeys
  <2>6. /\ Plain(r) /\ id \in ScopeIds /\ v.barriers[1].sid # id
    BY <1>2, <1>4, LiveAssumption DEF Ids
  <2>7. /\ DOMAIN r = DOMAIN v.barriers /\ Len(r) = Len(v.barriers) /\ DOMAIN v.barriers = 1 .. Len(v.barriers)
        /\ \A n \in DOMAIN r : r[n].off = v.barriers[n].off /\ r[n].sid = id
    <3>1. DOMAIN v.barriers = 1 .. Len(v.barriers) /\ Len(v.barriers) \in Nat
      BY <2>5, LenProperties DEF IsItems
    <3>2. DOMAIN r = DOMAIN v.barriers /\ \A n \in DOMAIN r : r[n].off = v.barriers[n].off /\ r[n].sid = id
      BY DEF Relabelled, Barrier
    <3>3. r \in Seq(Range(r))
      BY <2>6 DEF Plain
    <3> HIDE DEF r
    <3>4. DOMAIN r = 1 .. Len(r) /\ Len(r) \in Nat
      BY <3>3, LenProperties
    <3>5. Len(r) = Len(v.barriers)
      <4>1. 1 .. Len(r) = 1 .. Len(v.barriers)
        BY <3>1, <3>2, <3>4
      <4>2. (Len(r) >= 1 => Len(r) \in 1 .. Len(v.barriers)) /\ (Len(v.barriers) >= 1 => Len(v.barriers) \in 1 .. Len(r))
        BY <3>1, <3>4, <4>1
      <4> QED BY <3>1, <3>4, <4>2
    <3> QED BY <3>1, <3>2, <3>5
  <2> HIDE DEF r, c
  <2>8. Length(r) = Length(v.barriers)
    <3>1. [k \in DOMAIN r |-> r[k].off] = [k \in DOMAIN v.barriers |-> v.barriers[k].off]
      BY <2>7
    <3> QED BY <2>7, <3>1 DEF Length
  <2>9. FromStart(r) /\ r[1].sid = id /\ Encode(r) = [ours |-> TRUE, items |-> r]
    <3>1. \A n \in DOMAIN v.barriers : v.barriers[n] \in Range(v.barriers) /\ v.barriers[n].off \in Nat
      BY <2>5 DEF IsItems, Range
    <3>2. \A x \in Range(r) : x.off \in Int
      BY <2>7, <3>1 DEF Range
    <3>3. NonDecreasing(r)
      <4>1. \A k \in 2 .. Len(r) : k - 1 \in DOMAIN r /\ k \in DOMAIN r
        BY <2>5, <2>7, LenProperties DEF IsItems
      <4> QED BY <2>5, <2>7, <4>1 DEF NonDecreasing
    <3>4. Len(v.barriers) \in 1 .. MAX_BARRIERS /\ Length(v.barriers) <= MAX_SALT_LEN
      BY <1>2, <1>4 DEF Encode
    <3>5. \A k \in DOMAIN r : r[k].sid \in ScopeIds /\ r[k].off >= 0
      BY <2>6, <2>7, <3>1
    <3>6. Encode(r) = [ours |-> TRUE, items |-> r]
      BY <2>7, <2>8, <3>3, <3>4, <3>5 DEF Encode
    <3>7. Encode(r) # ValueError
      BY <2>6, <3>6 DEF Plain
    <3>8. 1 \in DOMAIN r
      BY <2>5, <2>7, LenProperties DEF IsItems
    <3>9. r[1].off = 0 /\ r[1].sid = id
      BY <1>2, <1>4, <2>7, <3>8
    <3> QED BY <2>6, <3>2, <3>6, <3>7, <3>9 DEF FromStart
  <2>10. h = Encode(v.barriers) /\ f = Encode(r) /\ Encode(r) # NoSalt
    <3>1. r # << >>
      BY <2>9, ScopedKeys
    <3>2. Encode(r) # NoSalt
      BY <2>9, ScopedKeys
    <3> QED BY <1>4, <3>1, <3>2 DEF Salt, r
  <2>11. Starting(h) /\ Starting(f) /\ Starting(NoSalt) /\ h # NoSalt /\ f # NoSalt
    BY <2>4, <2>5, <2>9, <2>10 DEF Starting
  <2>12. h.ours /\ f.ours /\ h.items = v.barriers /\ f.items = r
    BY <2>5, <2>9, <2>10
  <2>13. f # h /\ h # Stock /\ f # Stock /\ f.items[1].sid # h.items[1].sid
    <3>1. f.items[1].sid # h.items[1].sid
      BY <2>6, <2>9, <2>12
    <3> QED BY <2>12, <3>1 DEF Stock
  <2> HIDE DEF h, f
  <2>14. ASSUME NEW on \in BOOLEAN, NEW k \in Nat \ {0}
         PROVE  ~Agree(on, NoSalt, h, k) /\ ~Agree(on, f, h, k) /\ ~Agree(on, f, NoSalt, k)
    BY <2>11, <2>13, LeadsDiffer
  <2>15. st.policy = v.policy /\ st.prompt = v.prompt
    BY <1>1 DEF ProbeStage
  <2>16. /\ st.calls[1].salt = h /\ st.calls[2].salt = h /\ st.calls[3].salt = NoSalt
         /\ st.calls[4].salt = f /\ st.calls[5].salt = h
         /\ st.calls[1].name = "cold" /\ st.calls[2].name = "warm" /\ st.calls[3].name = "no_salt"
         /\ st.calls[4].name = "forged" /\ st.calls[5].name = "stolen" /\ Len(st.calls) = 5
    BY <2>1, <2>2, <2>3 DEF Call
  <2> QED BY <1>2, <2>1, <2>2, <2>11, <2>14, <2>15, <2>16
<1> QED BY <1>3, <1>4

(* The prompt and the calls of a smoke test.                               *)
LEMMA SmokeStageCalls ==
  ASSUME NEW st \in SmokeStages
  PROVE  /\ st.policy = "smoke" /\ st.nonce \in Nonces /\ IsPrompt(st.prompt) /\ st.prompt.text[1] = st.nonce
         /\ st.calls \in Seq(Range(st.calls)) /\ Len(st.calls) = 7
<1>1. PICK x \in Nonces, b \in Lengths, id \in Ids : st = SmokeStage(x, b, id)
  BY DEF SmokeStages
<1> DEFINE c == st.calls
           t == SmokePrompt(x, b).text
<1>2. st.policy = "smoke" /\ st.nonce = x /\ st.prompt = SmokePrompt(x, b)
  BY <1>1 DEF SmokeStage
<1>3. Len(c) = 7 /\ DOMAIN c = 1 .. 7
  BY <1>1 DEF SmokeStage
<1>4. c \in Seq(Range(c))
  <2> HIDE DEF c
  <2>1. c \in [1 .. 7 -> Range(c)]
    <3>1. c = [n \in 1 .. 7 |-> c[n]]
      BY <1>1, <1>3 DEF SmokeStage, c
    <3> QED BY <1>3, <3>1 DEF Range
  <2> QED BY <2>1, SeqDef
<1>5. t \in Seq(Range(t)) /\ t # << >> /\ t[1] = x
  <2> DEFINE u == [k \in 1 .. b - 1 |-> "fox"]
  <2>1. b - 1 \in Nat
    BY LiveAssumption
  <2>2. u \in Seq({x, "fox"}) /\ <<x>> \in Seq({x, "fox"}) /\ Len(<<x>>) = 1 /\ <<x>>[1] = x
    <3>1. u \in [1 .. b - 1 -> {x, "fox"}]
      OBVIOUS
    <3> QED BY <2>1, <3>1, SeqDef
  <2>3. t = <<x>> \o u
    BY DEF SmokePrompt
  <2> HIDE DEF t, u
  <2>4. t \in Seq({x, "fox"}) /\ Len(t) = 1 + Len(u) /\ Len(u) \in Nat /\ t[1] = x
    <3>1. Len(u) \in Nat
      BY <2>2, LenProperties
    <3> QED BY <2>2, <2>3, <3>1, ConcatProperties
  <2>5. DOMAIN t = 1 .. Len(t) /\ t # << >>
    BY <2>4, LenProperties, EmptySeq
  <2>6. t \in Seq(Range(t))
    <3>1. t \in [1 .. Len(t) -> Range(t)]
      <4>1. t \in [1 .. Len(t) -> {x, "fox"}]
        BY <2>4, LenProperties
      <4> QED BY <4>1 DEF Range
    <3> QED BY <2>4, <3>1, SeqDef
  <2> QED BY <2>4, <2>5, <2>6
<1>6. SmokePrompt(x, b).tail \in Nat
  BY DEF SmokePrompt
<1> QED BY <1>2, <1>3, <1>4, <1>5, <1>6 DEF IsPrompt

-----------------------------------------------------------------------------
(* What the scripts know while they run.                                   *)

Rows(st) == 0 .. MostHits(st.prompt) \cup {NoHits}

(* Blocks are found only where an earlier call of the stage left them, and *)
(* all of those are.                                                       *)
Explained(on, st, hits) ==
  \A m \in DOMAIN hits : hits[m] # NoHits =>
    \A k \in 1 .. hits[m] : \E j \in 1 .. m - 1 : Agree(on, st.calls[m].salt, st.calls[j].salt, k)
Complete(on, st, hits) ==
  \A m \in DOMAIN hits : hits[m] # NoHits /\ \A k \in 1 .. MostHits(st.prompt) :
    (\E j \in 1 .. m - 1 : Agree(on, st.calls[m].salt, st.calls[j].salt, k)) => k <= hits[m]

Clean(st) == st.policy = "smoke" => unseen
RowInv(st, hits) ==
  /\ hits \in Seq(Rows(st))
  /\ Clean(st) => Explained(installed, st, hits)
  /\ calm => Complete(installed, st, hits)

Left(st, j) == ChainsOf(installed, st.prompt, st.calls[j].salt)
OfPrompt(st) == {c \in cache : c[1][1] = st.prompt.text[1]}

(* What the cache holds of the stage's prompt after d calls.               *)
CacheInv(st, d) ==
  /\ Clean(st) => \A c \in OfPrompt(st) : \E j \in 1 .. d : c \in Left(st, j)
  /\ calm => \A j \in 1 .. d : Left(st, j) \subseteq cache

(* In a probe, what the victim's calls left of it, and the attacker found. *)
OwnInv(st, hits) ==
  st.policy # "smoke" =>
    /\ \A c \in OfPrompt(st) : c \in own \/ \E j \in 1 .. Len(hits) :
         st.calls[j].name \notin {"cold", "warm"} /\ c \in Left(st, j)
    /\ \A m \in DOMAIN hits : st.calls[m].name \in {"no_salt", "forged"} /\ hits[m] # NoHits =>
         \A k \in 1 .. hits[m] : ChainOf(installed, st.prompt, st.calls[m].salt, k) \in own

Underway(st) ==
  /\ calls # << >> /\ calls \in Seq(Range(st.calls))
  /\ Len(row) + Len(calls) = Len(st.calls)
  /\ \A i \in 1 .. Len(calls) : calls[i] = st.calls[Len(row) + i]
  /\ RowInv(st, row) /\ CacheInv(st, Len(row)) /\ OwnInv(st, row)
  /\ st.policy = "smoke" => st.nonce \in nonces

Done(S) == [stage : S, row : Seq(Nat \cup {NoHits})]

OneScript ==
  \/ stages \in Seq(ProbeStages) /\ report \in Seq(Done(ProbeStages))
  \/ stages \in Seq(SmokeStages) /\ report \in Seq(Done(SmokeStages)) /\ Len(stages) + Len(report) <= 1

Reported == \A e \in Range(report) : Len(e.row) = Len(e.stage.calls) /\ RowInv(e.stage, e.row)

Judgement(done) ==
  IF done[1].stage.policy = "smoke" THEN IF Found(done[1].stage, done[1].row) THEN "ok" ELSE "failed"
  ELSE IF \E n \in DOMAIN done : Leaks(done[n]) THEN "failed" ELSE "ok"
Judged == verdict \in {"ok", "failed"} => stages = << >> /\ report # << >> /\ verdict = Judgement(report)

(* Chains of a smoke test's prompt are of one that was begun.              *)
Seen == \A c \in cache : c[1][1] \in Nonces => c[1][1] \in nonces

CheckInv ==
  /\ launches \in 0 .. MaxLaunches /\ installed \in BOOLEAN
  /\ OneScript /\ Reported /\ Judged /\ Seen
  /\ \/ calls = << >> /\ row = << >>
     \/ stages # << >> /\ \E st : st = stages[1] /\ Underway(st)

LEMMA RowKept ==
  ASSUME NEW st, NEW hits, RowInv(st, hits), installed' = installed, calm' => calm, Clean(st)' => Clean(st)
  PROVE  RowInv(st, hits)'
BY DEF RowInv

LEMMA StageKept ==
  ASSUME NEW st, Underway(st), UNCHANGED <<installed, calls, row, own, nonces, unseen>>,
         cache' \subseteq cache, calm' => calm /\ cache' = cache
  PROVE  Underway(st)'
<1>1. RowInv(st, row)'
  <2>1. ASSUME NEW hits, RowInv(st, hits) PROVE RowInv(st, hits)'
    BY <2>1, RowKept DEF Clean
  <2> QED BY <2>1 DEF Underway, RowInv, Clean, Rows
<1>2. CacheInv(st, Len(row))'
  BY DEF Underway, CacheInv, Clean, Left, OfPrompt
<1>3. OwnInv(st, row)'
  BY DEF Underway, OwnInv, Left, OfPrompt
<1> QED BY <1>1, <1>2, <1>3 DEF Underway

LEMMA ReportKept ==
  ASSUME Reported, report' = report, installed' = installed, calm' => calm,
         \A e \in Range(report) : e.stage.policy = "smoke" /\ unseen' => unseen
  PROVE  Reported'
<1>1. Range(report)' = Range(report)
  BY DEF Range
<1>2. ASSUME NEW e \in Range(report) PROVE (Len(e.row) = Len(e.stage.calls) /\ RowInv(e.stage, e.row))'
  BY <1>2, RowKept DEF Reported, Clean
<1> QED BY <1>1, <1>2 DEF Reported

LEMMA StageFacts ==
  ASSUME OneScript, stages # << >>, NEW st, st = stages[1]
  PROVE  /\ st \in ProbeStages \/ st \in SmokeStages
         /\ IsPrompt(st.prompt) /\ st.calls \in Seq(Range(st.calls)) /\ Len(st.calls) \in 4 .. 7
         /\ st.policy = "smoke" <=> st \in SmokeStages
         /\ st \in ProbeStages => /\ st.prompt.text[1] \notin Nonces
                                  /\ stages \in Seq(ProbeStages) /\ report \in Seq(Done(ProbeStages))
         /\ st \in SmokeStages => /\ st.nonce \in Nonces /\ st.prompt.text[1] = st.nonce
                                  /\ stages \in Seq(SmokeStages) /\ Len(stages) = 1 /\ report = << >>
<1>1. ASSUME stages \in Seq(ProbeStages) PROVE st \in ProbeStages
  BY <1>1, EmptySeq, ElementOfSeq, LenProperties
<1>2. ASSUME stages \in Seq(SmokeStages) PROVE st \in SmokeStages /\ Len(stages) \in Nat /\ Len(stages) >= 1
  <2>1. Len(stages) \in Nat /\ Len(stages) >= 1
    BY <1>2, EmptySeq, LenProperties
  <2> QED BY <1>2, <2>1, ElementOfSeq
<1>3. ASSUME st \in ProbeStages
      PROVE  /\ IsPrompt(st.prompt) /\ st.calls \in Seq(Range(st.calls)) /\ Len(st.calls) \in 4 .. 7
             /\ st.policy # "smoke" /\ st.prompt.text[1] \notin Nonces
  <2>1. Len(st.calls) \in {4, 5}
    BY <1>3, ProbeStageSalts
  <2>2. Len(st.calls) \in 4 .. 7
    BY <2>1
  <2> QED BY <1>3, <2>2, ProbeStageSalts
<1>4. ASSUME st \in SmokeStages
      PROVE  /\ IsPrompt(st.prompt) /\ st.calls \in Seq(Range(st.calls)) /\ Len(st.calls) \in 4 .. 7
             /\ st.policy = "smoke" /\ st.nonce \in Nonces /\ st.prompt.text[1] = st.nonce
  BY <1>4, SmokeStageCalls
<1>5. CASE stages \in Seq(ProbeStages) /\ report \in Seq(Done(ProbeStages))
  BY <1>1, <1>3, <1>4, <1>5
<1>6. CASE stages \in Seq(SmokeStages) /\ report \in Seq(Done(SmokeStages)) /\ Len(stages) + Len(report) <= 1
  <2>1. Len(report) \in Nat /\ (Len(report) = 0 => report = << >>)
    BY <1>6, LenProperties, EmptySeq
  <2>2. Len(stages) \in Nat /\ Len(stages) >= 1
    BY <1>2, <1>6
  <2>3. Len(stages) = 1 /\ Len(report) = 0
    <3>1. Len(report) \in Nat /\ Len(stages) + Len(report) <= 1
      BY <1>6, <2>1
    <3>2. \A x, y \in Nat : x >= 1 /\ x + y <= 1 => x = 1 /\ y = 0
      OBVIOUS
    <3> QED BY <2>2, <3>1, <3>2
  <2> QED BY <1>2, <1>3, <1>4, <1>6, <2>1, <2>3
<1> QED BY <1>5, <1>6 DEF OneScript

(* One more call of a stage, as answered by the engine or failed.          *)
LEMMA Recorded ==
  ASSUME CheckInv, calls # << >>, NEW st, st = stages[1], NEW s, s = calls[1].salt,
         NEW h \in Rows(st), NEW d, d = Len(row), NEW hits, hits = Append(row, h), Record(h), UNCHANGED <<installed, launches, nonces, unseen>>, calm' => calm,
         cache \subseteq cache', cache' \subseteq cache \cup ChainsOf(installed, st.prompt, s),
         h # NoHits => \A k \in 1 .. h : ChainOf(installed, st.prompt, s, k) \in cache,
         calm' => /\ h # NoHits /\ ChainsOf(installed, st.prompt, s) \subseteq cache'
                  /\ h < MostHits(st.prompt) => ChainOf(installed, st.prompt, s, h + 1) \notin cache,
         own \subseteq own', calls[1].name \in {"cold", "warm"} => cache' \subseteq cache \cup own'
  PROVE  CheckInv'
<1>1. Underway(st) /\ stages # << >>
  BY DEF CheckInv
<1>2. /\ st \in ProbeStages \/ st \in SmokeStages
      /\ IsPrompt(st.prompt) /\ st.calls \in Seq(Range(st.calls)) /\ Len(st.calls) \in 4 .. 7
      /\ st.policy = "smoke" <=> st \in SmokeStages
      /\ st \in ProbeStages => /\ st.prompt.text[1] \notin Nonces
                               /\ stages \in Seq(ProbeStages) /\ report \in Seq(Done(ProbeStages))
      /\ st \in SmokeStages => /\ st.nonce \in Nonces /\ st.prompt.text[1] = st.nonce
                               /\ stages \in Seq(SmokeStages) /\ Len(stages) = 1 /\ report = << >>
  BY <1>1, StageFacts DEF CheckInv
<1>3. /\ row \in Seq(Rows(st)) /\ d \in Nat /\ DOMAIN row = 1 .. d
      /\ Len(calls) \in Nat /\ Len(calls) >= 1 /\ d + Len(calls) = Len(st.calls)
      /\ calls[1] = st.calls[d + 1] /\ d + 1 \in 1 .. Len(st.calls)
  <2>1. /\ row \in Seq(Rows(st)) /\ calls \in Seq(Range(st.calls)) /\ d + Len(calls) = Len(st.calls)
        /\ \A i \in 1 .. Len(calls) : calls[i] = st.calls[d + i]
    BY <1>1 DEF Underway, RowInv
  <2>2. d \in Nat /\ DOMAIN row = 1 .. d
    BY <2>1, LenProperties
  <2>3. Len(calls) \in Nat /\ Len(calls) >= 1
    BY <2>1, LenProperties, EmptySeq
  <2>4. 1 \in 1 .. Len(calls) /\ d + 1 \in 1 .. Len(st.calls)
    BY <2>1, <2>2, <2>3
  <2> QED BY <2>1, <2>2, <2>3, <2>4
<1>4. /\ Len(st.prompt.text) \in Nat /\ MostHits(st.prompt) \in Nat /\ MostHits(st.prompt) <= Len(st.prompt.text)
  BY <1>2, PromptLength
<1>5. /\ hits \in Seq(Rows(st)) /\ Len(hits) = d + 1 /\ DOMAIN hits = 1 .. d + 1
      /\ \A i \in 1 .. d : hits[i] = row[i]
      /\ hits[d + 1] = h
  <2>1. /\ hits \in Seq(Rows(st)) /\ Len(hits) = d + 1 /\ \A i \in 1 .. d : hits[i] = row[i]
        /\ hits[d + 1] = h
    BY <1>3, AppendProperties
  <2> QED BY <2>1, LenProperties
<1>6. h # NoHits => h \in 0 .. MostHits(st.prompt)
  BY DEF Rows
<1>7. s = st.calls[d + 1].salt /\ ChainsOf(installed, st.prompt, s) = Left(st, d + 1)
  BY <1>3 DEF Left
<1>8. ASSUME h # NoHits, NEW k \in 1 .. h
      PROVE  /\ k \in 1 .. Len(st.prompt.text)
             /\ ChainOf(installed, st.prompt, s, k) \in OfPrompt(st)
             /\ \A j : ChainOf(installed, st.prompt, s, k) \in Left(st, j)
                         => Agree(installed, s, st.calls[j].salt, k)
  <2>1. k \in 1 .. Len(st.prompt.text)
    BY <1>4, <1>6, <1>8
  <2>2. ChainOf(installed, st.prompt, s, k) \in ChainsOf(installed, st.prompt, s)
    BY <1>2, <2>1, ChainsMeet
  <2>3. ChainOf(installed, st.prompt, s, k)[1][1] = st.prompt.text[1]
    BY <1>2, <2>2, FirstText
  <2>4. ChainOf(installed, st.prompt, s, k) \in cache
    BY <1>8
  <2>5. \A j : ChainOf(installed, st.prompt, s, k) \in Left(st, j) => Agree(installed, s, st.calls[j].salt, k)
    BY <1>2, <2>1, ChainsMeet DEF Left
  <2> QED BY <2>1, <2>3, <2>4, <2>5 DEF OfPrompt
<1>9. Clean(st) => Explained(installed, st, hits)
  <2>1. SUFFICES ASSUME Clean(st), NEW m \in 1 .. d + 1, hits[m] # NoHits, NEW k \in 1 .. hits[m]
                 PROVE  \E j \in 1 .. m - 1 : Agree(installed, st.calls[m].salt, st.calls[j].salt, k)
    BY <1>5 DEF Explained
  <2>2. CASE m \in 1 .. d
    <3>1. Explained(installed, st, row)
      BY <1>1, <2>1 DEF Underway, RowInv
    <3> QED BY <1>3, <1>5, <2>1, <2>2, <3>1 DEF Explained
  <2>3. CASE m = d + 1
    <3>1. h # NoHits /\ k \in 1 .. h
      BY <1>5, <2>1, <2>3
    <3>2. ChainOf(installed, st.prompt, s, k) \in OfPrompt(st)
      BY <1>8, <3>1
    <3>3. PICK j \in 1 .. d : ChainOf(installed, st.prompt, s, k) \in Left(st, j)
      BY <1>1, <2>1, <3>2 DEF Underway, CacheInv
    <3>4. Agree(installed, s, st.calls[j].salt, k)
      BY <1>8, <3>1, <3>3
    <3>5. m - 1 = d
      BY <1>3, <2>3
    <3> QED BY <1>7, <2>3, <3>4, <3>5
  <2> QED BY <1>3, <2>2, <2>3
<1>10. calm' => Complete(installed, st, hits)
  <2>1. SUFFICES ASSUME calm', NEW m \in 1 .. d + 1
                 PROVE  /\ hits[m] # NoHits
                        /\ \A k \in 1 .. MostHits(st.prompt) :
                             (\E j \in 1 .. m - 1 : Agree(installed, st.calls[m].salt, st.calls[j].salt, k)) => k <= hits[m]
    BY <1>5 DEF Complete
  <2>2. CASE m \in 1 .. d
    <3>1. Complete(installed, st, row)
      BY <1>1, <2>1 DEF Underway, RowInv
    <3> QED BY <1>3, <1>5, <2>2, <3>1 DEF Complete
  <2>3. CASE m = d + 1
    <3>1. h # NoHits /\ hits[m] = h /\ h \in Int
      BY <1>4, <1>5, <1>6, <2>1, <2>3
    <3>2. ASSUME NEW k \in 1 .. MostHits(st.prompt), NEW j \in 1 .. m - 1,
                 Agree(installed, s, st.calls[j].salt, k), ~(k <= h)
          PROVE  FALSE
      <4>1. h + 1 \in 1 .. k /\ h < MostHits(st.prompt) /\ k \in 1 .. Len(st.prompt.text)
        BY <1>4, <1>6, <3>1, <3>2
      <4>2. Agree(installed, s, st.calls[j].salt, h + 1)
        BY <1>2, <3>2, <4>1, ChainsMeet
      <4>3. h + 1 \in 1 .. Len(st.prompt.text)
        BY <1>4, <4>1
      <4>4. ChainOf(installed, st.prompt, s, h + 1) \in Left(st, j)
        BY <1>2, <4>2, <4>3, ChainsMeet DEF Left
      <4>5. j \in 1 .. d /\ calm
        BY <1>3, <2>1, <2>3
      <4>6. Left(st, j) \subseteq cache
        BY <1>1, <4>5 DEF Underway, CacheInv
      <4> QED BY <2>1, <4>1, <4>4, <4>6
    <3> QED BY <1>7, <2>3, <3>1, <3>2
  <2> QED BY <1>3, <2>2, <2>3
<1>11. RowInv(st, hits)'
  BY <1>5, <1>9, <1>10 DEF RowInv, Clean, Rows
<1>12. /\ OfPrompt(st)' \subseteq OfPrompt(st) \cup Left(st, d + 1)
       /\ \A j : Left(st, j)' = Left(st, j)
       /\ \A j \in 1 .. d + 1 : j \in 1 .. d \/ j = d + 1
  BY <1>3, <1>7 DEF OfPrompt, Left
<1>13. CacheInv(st, d + 1)'
  <2>1. ASSUME Clean(st)', NEW c \in OfPrompt(st)' PROVE \E j \in 1 .. d + 1 : c \in Left(st, j)'
    <3>1. Clean(st)
      BY <2>1 DEF Clean
    <3>2. d + 1 \in 1 .. d + 1 /\ 1 .. d \subseteq 1 .. d + 1
      BY <1>3
    <3>3. CASE c \in OfPrompt(st)
      <4>1. \E j \in 1 .. d : c \in Left(st, j)
        BY <1>1, <3>1, <3>3 DEF Underway, CacheInv
      <4> QED BY <1>12, <3>2, <4>1
    <3>4. CASE c \in Left(st, d + 1)
      BY <1>12, <3>2, <3>4
    <3> QED BY <1>12, <2>1, <3>3, <3>4
  <2>2. ASSUME calm', NEW j \in 1 .. d + 1 PROVE Left(st, j)' \subseteq cache'
    <3>1. CASE j \in 1 .. d
      <4>1. Left(st, j) \subseteq cache
        BY <1>1, <2>2, <3>1 DEF Underway, CacheInv
      <4> QED BY <1>12, <4>1
    <3>2. CASE j = d + 1
      BY <1>7, <1>12, <2>2, <3>2
    <3> QED BY <1>12, <3>1, <3>2
  <2> QED BY <2>1, <2>2 DEF CacheInv
<1>14. OwnInv(st, hits)'
  <2>1. SUFFICES ASSUME st.policy # "smoke" PROVE OwnInv(st, hits)'
    BY DEF OwnInv
  <2>2. /\ \A c \in OfPrompt(st) : c \in own \/ \E j \in 1 .. d :
             st.calls[j].name \notin {"cold", "warm"} /\ c \in Left(st, j)
        /\ \A m \in 1 .. d : st.calls[m].name \in {"no_salt", "forged"} /\ row[m] # NoHits =>
             \A k \in 1 .. row[m] : ChainOf(installed, st.prompt, st.calls[m].salt, k) \in own
    BY <1>1, <1>3, <2>1 DEF Underway, OwnInv
  <2>3. ASSUME NEW c \in OfPrompt(st)'
        PROVE  c \in own' \/ \E j \in 1 .. d + 1 : st.calls[j].name \notin {"cold", "warm"} /\ c \in Left(st, j)
    <3>1. d + 1 \in 1 .. d + 1 /\ 1 .. d \subseteq 1 .. d + 1
      BY <1>3
    <3>2. CASE c \in OfPrompt(st)
      BY <2>2, <3>1, <3>2
    <3>3. CASE c \notin OfPrompt(st)
      <4>1. c \in Left(st, d + 1) /\ c \in cache' /\ c \notin cache
        BY <1>12, <2>3, <3>3 DEF OfPrompt
      <4>2. calls[1].name = st.calls[d + 1].name
        BY <1>3
      <4> QED BY <3>1, <4>1, <4>2
    <3> QED BY <3>2, <3>3
  <2>4. ASSUME NEW m \in 1 .. d + 1, st.calls[m].name \in {"no_salt", "forged"}, hits[m] # NoHits, NEW k \in 1 .. hits[m]
        PROVE  ChainOf(installed, st.prompt, st.calls[m].salt, k) \in own'
    <3>1. CASE m \in 1 .. d
      BY <1>5, <2>2, <2>4, <3>1
    <3>2. CASE m = d + 1
      <4>1. h # NoHits /\ k \in 1 .. h
        BY <1>5, <2>4, <3>2
      <4>2. ChainOf(installed, st.prompt, s, k) \in OfPrompt(st)
        BY <1>8, <4>1
      <4>3. SUFFICES ASSUME NEW j \in 1 .. d, st.calls[j].name \notin {"cold", "warm"},
                            ChainOf(installed, st.prompt, s, k) \in Left(st, j)
                     PROVE  FALSE
        BY <1>7, <2>2, <3>2, <4>2
      <4>4. Agree(installed, s, st.calls[j].salt, k) /\ k \in Nat \ {0} /\ installed \in BOOLEAN
        <5>1. Agree(installed, s, st.calls[j].salt, k)
          BY <1>8, <4>1, <4>3
        <5>2. k \in Nat \ {0}
          BY <1>4, <1>6, <4>1
        <5> QED BY <5>1, <5>2 DEF CheckInv
      <4>5. /\ Len(st.calls) \in {4, 5} /\ st.calls[3].salt = NoSalt
            /\ st.calls[1].name = "cold" /\ st.calls[2].name = "warm" /\ st.calls[Len(st.calls)].name = "stolen"
            /\ Len(st.calls) = 5 => ~Agree(installed, st.calls[4].salt, NoSalt, k)
        BY <1>2, <2>1, <4>4, ProbeStageSalts
      <4>6. d + 1 \in 1 .. Len(st.calls) /\ d + 1 # 1 /\ d + 1 # 2 /\ d + 1 # Len(st.calls)
        BY <1>3, <2>4, <3>2, <4>5
      <4>7. j # 1 /\ j # 2
        BY <4>3, <4>5
      <4>8. j = 3 /\ d + 1 = 4 /\ Len(st.calls) = 5
        <5> DEFINE n == Len(st.calls)
        <5>1. j \in Nat /\ j >= 3 /\ j <= d
          BY <1>3, <4>7
        <5>2. d \in Nat /\ (n = 4 \/ n = 5) /\ d + 1 < n
          BY <1>3, <4>5, <4>6
        <5> HIDE DEF n
        <5>3. j = 3 /\ d + 1 = 4 /\ n = 5
          BY <5>1, <5>2
        <5> QED BY <5>3 DEF n
      <4> QED BY <1>7, <4>4, <4>5, <4>8
    <3> QED BY <1>12, <3>1, <3>2
  <2> QED BY <1>5, <1>12, <2>3, <2>4 DEF OwnInv
<1>15. Seen'
  <2>1. SUFFICES ASSUME NEW c \in cache', c[1][1] \in Nonces, c \notin cache PROVE c[1][1] \in nonces
    BY DEF CheckInv, Seen
  <2>2. c[1][1] = st.prompt.text[1]
    BY <1>2, <2>1, FirstText
  <2> QED BY <1>1, <1>2, <2>1, <2>2 DEF Underway
<1>16. CASE Len(calls) > 1
  <2>1. calls' = Tail(calls) /\ row' = hits /\ UNCHANGED <<stages, report, verdict>>
    BY <1>16 DEF Record
  <2>2. calls \in Seq(Range(st.calls)) /\ \A i \in 1 .. Len(calls) : calls[i] = st.calls[d + i]
    BY <1>1 DEF Underway
  <2>3. /\ Tail(calls) \in Seq(Range(st.calls)) /\ Len(Tail(calls)) = Len(calls) - 1
        /\ \A i \in 1 .. Len(calls) - 1 : Tail(calls)[i] = calls[i + 1]
    BY <2>2, HeadTailProperties
  <2>4. Tail(calls) # << >>
    <3>1. Len(Tail(calls)) # 0
      BY <1>3, <1>16, <2>3
    <3> QED BY <2>3, <3>1, EmptySeq
  <2>5. \A i \in 1 .. Len(Tail(calls)) : Tail(calls)[i] = st.calls[d + 1 + i]
    <3>1. SUFFICES ASSUME NEW i \in 1 .. Len(calls) - 1 PROVE Tail(calls)[i] = st.calls[d + 1 + i]
      BY <2>3
    <3>2. i + 1 \in 1 .. Len(calls) /\ d + (i + 1) = d + 1 + i
      BY <1>3
    <3> QED BY <2>2, <2>3, <3>2
  <2>6. d + 1 + Len(Tail(calls)) = Len(st.calls)
    <3>1. \A x, y \in Nat : \A n, z : x + y = n /\ z = y - 1 => x + 1 + z = n
      OBVIOUS
    <3> QED BY <1>3, <2>3, <3>1
  <2>7. Underway(st)'
    <3>1. RowInv(st, row)' /\ CacheInv(st, Len(row))' /\ OwnInv(st, row)'
      <4>1. row' = hits /\ Len(row') = d + 1
        BY <1>5, <2>1
      <4>2. RowInv(st, row)'
        BY <1>11, <4>1 DEF RowInv, Clean, Rows
      <4>3. CacheInv(st, Len(row))'
        BY <1>13, <4>1 DEF CacheInv, Clean, Left, OfPrompt
      <4>4. OwnInv(st, row)'
        BY <1>14, <4>1 DEF OwnInv, Left, OfPrompt
      <4> QED BY <4>2, <4>3, <4>4
    <3>2. st.policy = "smoke" => st.nonce \in nonces'
      BY <1>1 DEF Underway
    <3> QED BY <1>5, <2>1, <2>3, <2>4, <2>5, <2>6, <3>1, <3>2 DEF Underway
  <2>8. Reported'
    BY <2>1, ReportKept DEF CheckInv
  <2>9. Judged' /\ OneScript'
    BY <1>1, <2>1 DEF CheckInv, Judged, OneScript
  <2>10. stages' # << >> /\ st = stages'[1]
    BY <1>1, <2>1
  <2>11. launches' \in 0 .. MaxLaunches /\ installed' \in BOOLEAN
    BY DEF CheckInv
  <2> QED BY <1>15, <2>7, <2>8, <2>9, <2>10, <2>11 DEF CheckInv
<1>17. CASE ~(Len(calls) > 1)
  <2> DEFINE e == [stage |-> st, row |-> hits]
  <2>1. /\ calls' = << >> /\ row' = << >> /\ report' = Append(report, e) /\ stages' = Tail(stages)
        /\ verdict' = IF Len(stages) = 1 THEN Outcome(Append(report, e)) ELSE verdict
    BY <1>17 DEF Record
  <2>2. Len(hits) = Len(st.calls)
    BY <1>3, <1>5, <1>17
  <2>3. hits \in Seq(Nat \cup {NoHits})
    <3>1. Rows(st) \subseteq Nat \cup {NoHits}
      BY <1>4 DEF Rows
    <3> QED BY <1>5, <3>1, SeqMonotonic
  <2>4. e.stage = st /\ e.row = hits
    OBVIOUS
  <2>5. ASSUME NEW S, st \in S PROVE e \in Done(S)
    BY <2>3, <2>5 DEF Done
  <2> HIDE DEF e
  <2>6. ASSUME NEW S, st \in S, stages \in Seq(S), report \in Seq(Done(S))
        PROVE  /\ Tail(stages) \in Seq(S) /\ Len(Tail(stages)) = Len(stages) - 1 /\ Len(stages) \in Nat
               /\ Append(report, e) \in Seq(Done(S)) /\ Append(report, e) # << >>
               /\ Len(Append(report, e)) = Len(report) + 1
               /\ Range(Append(report, e)) = Range(report) \cup {e}
               /\ Append(report, e)[1] \in Done(S)
    <3>1. e \in Done(S)
      BY <2>5, <2>6
    <3>2. /\ Tail(stages) \in Seq(S) /\ Len(Tail(stages)) = Len(stages) - 1 /\ Len(stages) \in Nat
      BY <1>1, <2>6, HeadTailProperties, LenProperties
    <3>3. /\ Append(report, e) \in Seq(Done(S)) /\ Append(report, e) # << >>
          /\ Len(Append(report, e)) = Len(report) + 1 /\ Len(report) \in Nat /\ DOMAIN report = 1 .. Len(report)
          /\ \A i \in 1 .. Len(report) : Append(report, e)[i] = report[i]
          /\ Append(report, e)[Len(report) + 1] = e
      BY <2>6, <3>1, AppendProperties, LenProperties
    <3>4. DOMAIN Append(report, e) = 1 .. Len(report) + 1
      BY <3>3, LenProperties
    <3>5. Range(Append(report, e)) = Range(report) \cup {e}
      <4>1. \A i : i \in 1 .. Len(report) + 1 <=> i \in 1 .. Len(report) \/ i = Len(report) + 1
        BY <3>3
      <4> QED BY <3>3, <3>4, <4>1 DEF Range
    <3>6. Append(report, e)[1] \in Done(S)
      <4>1. 1 \in 1 .. Len(Append(report, e))
        BY <3>3
      <4> QED BY <3>3, <4>1, ElementOfSeq
    <3> QED BY <3>2, <3>3, <3>5, <3>6
  <2>7. ASSUME st \in ProbeStages
        PROVE  OneScript' /\ Append(report, e)[1].stage.policy # "smoke"
    <3>1. Append(report, e)[1].stage \in ProbeStages
      BY <1>2, <2>6, <2>7 DEF Done
    <3>2. Append(report, e)[1].stage.policy # "smoke"
      BY <3>1, ProbeStageSalts
    <3> QED BY <1>2, <2>1, <2>6, <2>7, <3>2 DEF OneScript
  <2>8. ASSUME st \in SmokeStages
        PROVE  OneScript' /\ Append(report, e)[1].stage.policy = "smoke" /\ Len(stages) = 1
    <3>1. report \in Seq(Done(SmokeStages)) /\ Len(report) = 0
      BY <1>2, <2>8, EmptySeq
    <3>2. Len(Tail(stages)) = 0 /\ Len(Append(report, e)) = 1
      BY <1>2, <2>6, <2>8, <3>1
    <3>3. Append(report, e)[1] = e
      BY <1>2, <2>8
    <3>4. OneScript'
      BY <1>2, <2>1, <2>6, <2>8, <3>1, <3>2 DEF OneScript
    <3> QED BY <1>2, <2>4, <2>8, <3>3, <3>4
  <2>9. Range(report)' = Range(report) \cup {e}
    BY <1>2, <2>1, <2>6
  <2>10. Reported'
    <3>1. ASSUME NEW x \in Range(report) PROVE (Len(x.row) = Len(x.stage.calls) /\ RowInv(x.stage, x.row))'
      BY RowKept DEF CheckInv, Reported, Clean
    <3>2. (Len(e.row) = Len(e.stage.calls) /\ RowInv(e.stage, e.row))'
      <4>1. RowInv(e.stage, e.row)'
        BY <1>11, <2>4 DEF RowInv, Clean, Rows
      <4> QED BY <2>2, <2>4, <4>1
    <3> QED BY <2>9, <3>1, <3>2 DEF Reported
  <2>11. Judged'
    <3>1. CASE Len(stages) = 1
      <4>1. Outcome(Append(report, e)) = Judgement(Append(report, e))
        BY <1>1, <1>2, <2>7, <2>8 DEF Outcome, Judgement, Smoking
      <4>2. Tail(stages) = << >>
        <5>1. Tail(stages) \in Seq(ProbeStages) \/ Tail(stages) \in Seq(SmokeStages)
          BY <1>2, <2>6
        <5>2. Len(Tail(stages)) = 0
          BY <1>2, <2>6, <3>1
        <5> QED BY <5>1, <5>2, EmptySeq
      <4>3. Append(report, e) # << >>
        <5>1. \E S : st \in S /\ stages \in Seq(S) /\ report \in Seq(Done(S))
          <6>1. ASSUME st \in SmokeStages PROVE report \in Seq(Done(SmokeStages))
            BY <1>2, <6>1, EmptySeq
          <6> QED BY <1>2, <6>1
        <5> QED BY <2>6, <5>1
      <4> QED BY <2>1, <3>1, <4>1, <4>2, <4>3 DEF Judged, Judgement, Found, Leaks
    <3>2. CASE Len(stages) # 1
      <4>1. verdict' = verdict /\ verdict \notin {"ok", "failed"}
        BY <1>1, <2>1, <3>2 DEF CheckInv, Judged
      <4> QED BY <4>1 DEF Judged
    <3> QED BY <3>1, <3>2
  <2>12. launches' \in 0 .. MaxLaunches /\ installed' \in BOOLEAN
    BY DEF CheckInv
  <2>13. OneScript'
    BY <1>2, <2>7, <2>8
  <2> QED BY <1>15, <2>1, <2>10, <2>11, <2>12, <2>13 DEF CheckInv
<1> QED BY <1>16, <1>17

(* The steps of the scripts and of the engine.                             *)
LEMMA LaunchKeeps ==
  ASSUME CheckInv, stages = << >>, launches < MaxLaunches, NEW plan, Launch(plan), installed' = installed,
         plan \in Seq(ProbeStages) \/ (plan \in Seq(SmokeStages) /\ Len(plan) = 1)
  PROVE  CheckInv'
<1>1. /\ launches' = launches + 1 /\ stages' = plan /\ calls' = << >> /\ row' = << >> /\ report' = << >>
      /\ verdict' = "none" /\ UNCHANGED <<cache, own, nonces, unseen>>
  BY DEF Launch, ghosts
<1>2. launches' \in 0 .. MaxLaunches /\ installed' \in BOOLEAN
  BY <1>1, LiveAssumption DEF CheckInv
<1>3. OneScript'
  <2>1. << >> \in Seq(Done(ProbeStages)) /\ << >> \in Seq(Done(SmokeStages)) /\ Len(<< >>) = 0
    BY EmptySeq
  <2> QED BY <1>1, <2>1 DEF OneScript
<1>4. Reported' /\ Judged' /\ Seen'
  <2>1. Range(<< >>) = {}
    BY DEF Range
  <2> QED BY <1>1, <2>1 DEF Reported, Judged, CheckInv, Seen
<1> QED BY <1>1, <1>2, <1>3, <1>4 DEF CheckInv

LEMMA Plans ==
  ASSUME CheckInv, launches < MaxLaunches
  PROVE  /\ \A x \in Nonces, b \in Lengths : SmokeTest(x, b) \in Seq(SmokeStages) /\ Len(SmokeTest(x, b)) = 1
         /\ \A v \in VictimLists : Probe(v) \in Seq(ProbeStages)
<1>1. FreshIds[launches + 1] \in Ids
  <2>1. launches + 1 \in 1 .. MaxLaunches
    BY LiveAssumption DEF CheckInv
  <2> QED BY <2>1 DEF Ids
<1>2. ASSUME NEW x \in Nonces, NEW b \in Lengths
      PROVE  SmokeTest(x, b) \in Seq(SmokeStages) /\ Len(SmokeTest(x, b)) = 1
  <2> DEFINE st == SmokeStage(x, b, FreshIds[launches + 1])
  <2>1. SmokeTest(x, b) = <<st>>
    BY DEF SmokeTest, SmokeStage, GroupSalt
  <2>2. st \in SmokeStages
    BY <1>1 DEF SmokeStages
  <2> HIDE DEF st
  <2> QED BY <2>1, <2>2
<1>3. ASSUME NEW victims \in VictimLists PROVE Probe(victims) \in Seq(ProbeStages)
  <2>1. victims \in Seq(Range(victims))
    BY LiveAssumption
  <2>2. DOMAIN victims = 1 .. Len(victims) /\ Len(victims) \in Nat
    BY <2>1, LenProperties
  <2>3. Probe(victims) = [n \in 1 .. Len(victims) |-> ProbeStage(victims[n], FreshIds[launches + 1])]
    BY <2>2 DEF Probe, ProbeCalls, ProbeStage
  <2>4. \A n \in 1 .. Len(victims) : ProbeStage(victims[n], FreshIds[launches + 1]) \in ProbeStages
    <3>1. \A n \in 1 .. Len(victims) : victims[n] \in Victims
      <4>1. \A n \in 1 .. Len(victims) : victims[n] \in Range(victims)
        BY <2>2 DEF Range
      <4> QED BY <4>1 DEF Victims
    <3> QED BY <1>1, <3>1 DEF ProbeStages
  <2>5. Probe(victims) \in [1 .. Len(victims) -> ProbeStages]
    BY <2>3, <2>4
  <2> QED BY <2>2, <2>5, SeqDef
<1> QED BY <1>2, <1>3

(* A stage begins, in an empty cache or, for the smoke test, perhaps not.  *)
LEMMA BeginKeeps ==
  ASSUME CheckInv, ResetDue, Begin, UNCHANGED <<installed, launches, calm>>,
         cache' = {} \/ (Smoking /\ cache' = cache)
  PROVE  CheckInv'
<1> DEFINE st == stages[1]
<1>1. /\ stages # << >> /\ calls = << >> /\ row = << >>
      /\ calls' = st.calls /\ UNCHANGED <<stages, row, report, verdict>>
      /\ nonces' = IF Smoking THEN nonces \cup {st.nonce} ELSE nonces
      /\ unseen' = (Smoking /\ (cache' = {} \/ st.nonce \notin nonces))
  BY DEF ResetDue, Begin, CheckInv, Underway
<1>2. PICK t : t = st
  OBVIOUS
<1>3. Smoking <=> t.policy = "smoke"
  BY <1>1, <1>2 DEF Smoking
<1>4. /\ t \in ProbeStages \/ t \in SmokeStages
      /\ IsPrompt(t.prompt) /\ t.calls \in Seq(Range(t.calls)) /\ Len(t.calls) \in 4 .. 7
      /\ t.policy = "smoke" <=> t \in SmokeStages
      /\ t \in ProbeStages => /\ t.prompt.text[1] \notin Nonces
                              /\ stages \in Seq(ProbeStages) /\ report \in Seq(Done(ProbeStages))
      /\ t \in SmokeStages => /\ t.nonce \in Nonces /\ t.prompt.text[1] = t.nonce
                              /\ stages \in Seq(SmokeStages) /\ Len(stages) = 1 /\ report = << >>
  BY <1>1, <1>2, StageFacts DEF CheckInv
<1>5. t.policy = "smoke" /\ unseen' => \A c \in cache' : c[1][1] # t.prompt.text[1]
  BY <1>1, <1>2, <1>3, <1>4 DEF CheckInv, Seen
<1>6. t.policy # "smoke" => cache' = {}
  BY <1>3
<1>7. Underway(t)'
  <2>1. calls' = t.calls /\ row' = << >> /\ t' = t
    BY <1>1, <1>2
  <2>2. << >> \in Seq(Rows(t)) /\ Len(<< >>) = 0 /\ DOMAIN << >> = {} /\ Range(<< >>) = {}
    BY EmptySeq DEF Range
  <2>3. RowInv(t, row)'
    BY <2>1, <2>2 DEF RowInv, Explained, Complete, Rows
  <2>4. CacheInv(t, Len(row))'
    <3>1. Len(row)' = 0 /\ 1 .. 0 = {}
      BY <2>1, <2>2
    <3>2. Clean(t)' => OfPrompt(t)' = {}
      BY <1>5, <1>6 DEF Clean, OfPrompt
    <3> QED BY <3>1, <3>2 DEF CacheInv
  <2>5. OwnInv(t, row)'
    <3>1. t.policy # "smoke" => OfPrompt(t)' = {}
      BY <1>6 DEF OfPrompt
    <3> QED BY <2>1, <2>2, <3>1 DEF OwnInv
  <2>6. t.policy = "smoke" => t.nonce \in nonces'
    BY <1>1, <1>2, <1>3
  <2>7. calls' # << >> /\ Len(row)' + Len(calls)' = Len(t.calls)
    <3>1. Len(t.calls) # 0 /\ 0 + Len(t.calls) = Len(t.calls)
      <4>1. \A n \in 4 .. 7 : n # 0 /\ 0 + n = n
        OBVIOUS
      <4> QED BY <1>4, <4>1
    <3>2. t.calls # << >>
      BY <1>4, <3>1, EmptySeq
    <3> QED BY <2>1, <2>2, <3>1, <3>2
  <2>8. \A i \in 1 .. Len(calls') : calls'[i] = t.calls[Len(row') + i]
    <3>1. Len(row') = 0 /\ \A i \in 1 .. Len(calls') : 0 + i = i
      BY <2>1, <2>2
    <3> QED BY <2>1, <3>1
  <2> QED BY <1>4, <2>1, <2>3, <2>4, <2>5, <2>6, <2>7, <2>8 DEF Underway
<1>8. Reported'
  <2>1. ASSUME NEW e \in Range(report) PROVE e.stage.policy # "smoke"
    <3>1. CASE t \in SmokeStages
      <4>1. Range(<< >>) = {}
        BY DEF Range
      <4> QED BY <1>4, <2>1, <3>1, <4>1
    <3>2. CASE t \in ProbeStages
      <4>1. PICK n \in DOMAIN report : e = report[n]
        BY <2>1 DEF Range
      <4>2. report \in Seq(Done(ProbeStages)) /\ DOMAIN report = 1 .. Len(report)
        BY <1>4, <3>2, LenProperties
      <4>3. e \in Done(ProbeStages)
        BY <4>1, <4>2, ElementOfSeq
      <4>4. e.stage \in ProbeStages
        BY <4>3 DEF Done
      <4> QED BY <4>4, ProbeStageSalts
    <3> QED BY <1>4, <3>1, <3>2
  <2> QED BY <1>1, <2>1, ReportKept DEF CheckInv
<1>9. OneScript' /\ Judged'
  BY <1>1 DEF CheckInv, OneScript, Judged
<1>10. Seen'
  BY <1>1 DEF CheckInv, Seen
<1>11. stages' # << >> /\ t = stages'[1]
  BY <1>1, <1>2
<1>12. launches' \in 0 .. MaxLaunches /\ installed' \in BOOLEAN
  BY DEF CheckInv
<1> QED BY <1>7, <1>8, <1>9, <1>10, <1>11, <1>12 DEF CheckInv

(* A script that is killed, or ends before its first call.                 *)
LEMMA ExitKeeps ==
  ASSUME CheckInv, stages # << >>, stages' = << >>, calls' = << >>, row' = << >>, report' = << >> \/ report' = report,
         verdict' = "exit", UNCHANGED <<installed, launches, cache, own, nonces, unseen, calm>>
  PROVE  CheckInv'
<1>1. OneScript'
  <2>1. /\ << >> \in Seq(ProbeStages) /\ << >> \in Seq(SmokeStages) /\ Len(<< >>) = 0
        /\ << >> \in Seq(Done(ProbeStages)) /\ << >> \in Seq(Done(SmokeStages))
    BY EmptySeq
  <2>2. stages \in Seq(SmokeStages) /\ report \in Seq(Done(SmokeStages)) /\ Len(stages) + Len(report) <= 1
          => Len(<< >>) + Len(report) <= 1
    <3>1. stages \in Seq(SmokeStages) => Len(stages) \in Nat
      BY LenProperties
    <3>2. report \in Seq(Done(SmokeStages)) => Len(report) \in Nat
      BY LenProperties
    <3>3. \A x, y \in Nat : x + y <= 1 => 0 + y <= 1
      OBVIOUS
    <3> QED BY <2>1, <3>1, <3>2, <3>3
  <2> QED BY <2>1, <2>2 DEF CheckInv, OneScript
<1>2. Reported'
  <2>1. Range(<< >>) = {}
    BY DEF Range
  <2>2. CASE report' = << >>
    BY <2>1, <2>2 DEF Reported
  <2>3. CASE report' = report
    BY <2>3, ReportKept DEF CheckInv
  <2> QED BY <2>2, <2>3
<1>3. Judged' /\ Seen'
  BY DEF CheckInv, Judged, Seen
<1> QED BY <1>1, <1>2, <1>3 DEF CheckInv

(* Something left the cache, or nothing happened.                          *)
LEMMA CacheKeeps ==
  ASSUME CheckInv, UNCHANGED <<installed, stages, calls, row, report, verdict, own, nonces, unseen, launches>>,
         cache' \subseteq cache, calm' => calm /\ cache' = cache
  PROVE  CheckInv'
<1>1. Reported'
  BY ReportKept DEF CheckInv
<1>2. OneScript' /\ Judged'
  BY DEF CheckInv, OneScript, Judged
<1>3. Seen'
  BY DEF CheckInv, Seen
<1>4. \A st : Underway(st) => Underway(st)'
  BY StageKept
<1> QED BY <1>1, <1>2, <1>3, <1>4 DEF CheckInv

LEMMA AnswerKeeps ==
  ASSUME CheckInv, Answered \/ Failed, installed' = installed
  PROVE  CheckInv'
<1>1. PICK st, s, p : st = stages[1] /\ s = calls[1].salt /\ p = st.prompt
  OBVIOUS
<1>2. calls # << >> /\ stages # << >> /\ UNCHANGED <<launches, nonces, unseen>>
  BY DEF Answered, Failed, CheckInv
<1>3. IsPrompt(p)
  BY <1>1, <1>2, StageFacts DEF CheckInv
<1>4. MostHits(p) \in Nat /\ MostHits(p) <= Len(p.text) /\ Len(p.text) \in Nat
  BY <1>3, PromptLength
<1>5. Computed => /\ cache' = cache \cup ChainsOf(installed, p, s) /\ own \subseteq own'
                  /\ calls[1].name \in {"cold", "warm"} => ChainsOf(installed, p, s) \subseteq own'
  BY <1>1, ChainForm DEF Computed
<1>6. CASE Answered
  <2>1. PICK h : h = Hits(p, s)
    OBVIOUS
  <2>2. /\ h \in 0 .. MostHits(p)
        /\ \A k \in 1 .. h : ChainOf(installed, p, s, k) \in cache
        /\ h < MostHits(p) => ChainOf(installed, p, s, h + 1) \notin cache
    BY <1>3, <2>1, HitsFound
  <2>3. h \in Rows(st) /\ h # NoHits
    BY <1>1, <1>4, <2>2, LiveAssumption DEF Rows
  <2>4. Record(h) /\ Computed /\ calm' = calm
    BY <1>1, <1>6, <2>1 DEF Answered
  <2> QED BY <1>1, <1>2, <1>5, <2>2, <2>3, <2>4, Recorded
<1>7. CASE Failed
  <2>1. NoHits \in Rows(st)
    BY DEF Rows
  <2>2. Record(NoHits) /\ (Computed \/ UNCHANGED <<cache, own>>) /\ calm' = FALSE
    BY <1>7 DEF Failed
  <2>3. /\ cache \subseteq cache' /\ cache' \subseteq cache \cup ChainsOf(installed, p, s) /\ own \subseteq own'
        /\ calls[1].name \in {"cold", "warm"} => cache' \subseteq cache \cup own'
    BY <1>5, <2>2
  <2> QED BY <1>1, <1>2, <2>1, <2>2, <2>3, Recorded
<1> QED BY <1>6, <1>7

LEMMA CheckInvariant == CheckSpec => []CheckInv
<1> DEFINE Step == \/ launches = 0 /\ SaltNext /\ UNCHANGED live
                   \/ requests = << >> /\ LiveNext /\ UNCHANGED wire
<1>1. CheckInit => CheckInv
  <2>1. SUFFICES ASSUME CheckInit PROVE CheckInv
    OBVIOUS
  <2>2. /\ << >> \in Seq(ProbeStages) /\ << >> \in Seq(Done(ProbeStages)) /\ Range(<< >>) = {}
    BY EmptySeq DEF Range
  <2>3. OneScript /\ Reported /\ Judged /\ Seen
    BY <2>1, <2>2 DEF CheckInit, LiveInit, OneScript, Reported, Judged, Seen
  <2> QED BY <2>1, <2>3, LiveAssumption DEF CheckInit, SaltInit, LiveInit, CheckInv
<1>2. CheckInv /\ [Step]_<<wire, live>> => CheckInv'
  <2>1. SUFFICES ASSUME CheckInv, [Step]_<<wire, live>> PROVE CheckInv'
    OBVIOUS
  <2>2. installed' = installed
    BY <2>1 DEF Step, SaltNext, Send, Forward, Arrive, wire
  <2>3. ASSUME NEW plan, Launch(plan), Idle, plan \in Seq(ProbeStages) \/ (plan \in Seq(SmokeStages) /\ Len(plan) = 1)
        PROVE  CheckInv'
    BY <2>1, <2>2, <2>3, LaunchKeeps DEF Idle
  <2>4. ASSUME Idle, NEW x \in Nonces, NEW b \in Lengths, Launch(SmokeTest(x, b)) PROVE CheckInv'
    <3>1. PICK plan : plan = SmokeTest(x, b)
      OBVIOUS
    <3>2. plan \in Seq(SmokeStages) /\ Len(plan) = 1
      BY <2>1, <2>4, <3>1, Plans DEF Idle
    <3>3. Launch(plan)
      BY <2>4, <3>1 DEF Launch
    <3> QED BY <2>3, <2>4, <3>2, <3>3
  <2>5. ASSUME Idle, NEW v \in VictimLists, Launch(Probe(v)) PROVE CheckInv'
    <3>1. PICK plan : plan = Probe(v)
      OBVIOUS
    <3>2. plan \in Seq(ProbeStages)
      BY <2>1, <2>5, <3>1, Plans DEF Idle
    <3>3. Launch(plan)
      BY <2>5, <3>1 DEF Launch
    <3> QED BY <2>3, <2>5, <3>2, <3>3
  <2>6. CASE Reset
    BY <2>1, <2>2, <2>6, BeginKeeps DEF Reset
  <2>7. CASE ResetRefused
    <3>1. CASE Smoking
      BY <2>1, <2>2, <2>7, <3>1, BeginKeeps DEF ResetRefused
    <3>2. CASE ~Smoking
      <4>1. calls = << >> /\ row = << >> /\ stages # << >>
        BY <2>1, <2>7 DEF ResetRefused, ResetDue, CheckInv, Underway
      <4> QED BY <2>1, <2>2, <2>7, <3>2, <4>1, ExitKeeps DEF ResetRefused, ghosts
    <3> QED BY <3>1, <3>2
  <2>8. CASE Answered \/ Failed
    BY <2>1, <2>2, <2>8, AnswerKeeps
  <2>9. CASE Kill
    BY <2>1, <2>2, <2>9, ExitKeeps DEF Kill, ghosts
  <2>10. CASE Evict
    <3>1. cache' \subseteq cache /\ calm' = FALSE
      BY <2>10 DEF Evict
    <3> QED BY <2>1, <2>2, <2>10, <3>1, CacheKeeps DEF Evict, scripts, ghosts
  <2>11. CASE UNCHANGED live
    BY <2>1, <2>2, <2>11, CacheKeeps DEF live, scripts, ghosts
  <2> QED BY <2>1, <2>4, <2>5, <2>6, <2>7, <2>8, <2>9, <2>10, <2>11 DEF Step, LiveNext
<1> QED BY <1>1, <1>2, PTL DEF CheckSpec

-----------------------------------------------------------------------------
(* What a probe's report says.                                             *)

LEMMA ProbeRows ==
  ASSUME NEW e, NEW st, st = e.stage, NEW hits, hits = e.row, st \in ProbeStages, installed \in BOOLEAN,
         RowInv(st, hits), Len(hits) = Len(st.calls)
  PROVE  /\ MostHits(st.prompt) \in Nat
         /\ Leaks(e) => st.policy # "UB" /\ st.calls[1].salt = NoSalt /\ MostHits(st.prompt) > 0
         /\ calm => /\ hits[2] = MostHits(st.prompt) /\ hits[Len(hits)] = MostHits(st.prompt)
                    /\ st.policy # "UB" /\ st.calls[1].salt = NoSalt /\ MostHits(st.prompt) > 0 => Leaks(e)
<1> DEFINE M == MostHits(st.prompt)
           c == st.calls
           n == Len(st.calls)
<1>1. /\ st.policy # "smoke" /\ IsPrompt(st.prompt)
      /\ n \in {4, 5} /\ c[2].salt = c[1].salt /\ c[n].salt = c[1].salt
      /\ c[1].name = "cold" /\ c[2].name = "warm" /\ c[n].name = "stolen"
      /\ c[3].name = "no_salt" /\ c[3].salt = NoSalt
      /\ n = 5 => c[4].name = "forged"
      /\ n = 4 <=> c[1].salt = NoSalt
      /\ \A k \in Nat \ {0} : n = 5 =>
           /\ ~Agree(installed, NoSalt, c[1].salt, k)
           /\ ~Agree(installed, c[4].salt, c[1].salt, k)
           /\ ~Agree(installed, c[4].salt, NoSalt, k)
  BY ProbeStageSalts
<1>2. M \in Nat
  BY <1>1, PromptLength
<1>3. /\ hits \in Seq(Rows(st)) /\ DOMAIN hits = 1 .. n
      /\ Explained(installed, st, hits) /\ (calm => Complete(installed, st, hits))
  <2>1. hits \in Seq(Rows(st)) /\ DOMAIN hits = 1 .. Len(hits)
    BY LenProperties DEF RowInv
  <2> QED BY <1>1, <2>1 DEF RowInv, Clean
<1>4. \A m \in 1 .. n : hits[m] \in 0 .. M \/ hits[m] = NoHits
  <2>1. \A m \in 1 .. n : hits[m] \in Rows(st)
    BY <1>3, ElementOfSeq
  <2> QED BY <2>1 DEF Rows
<1>5. \A s, k : Agree(installed, s, s, k)
  BY DEF Agree
<1> HIDE DEF M, n, c
<1>6. ASSUME Leaks(e) PROVE st.policy # "UB" /\ c[1].salt = NoSalt /\ M > 0
  <2>1. PICK m \in 1 .. n : c[m].name \in {"no_salt", "forged"} /\ hits[m] \notin {0, NoHits}
    BY <1>3, <1>6 DEF Leaks, c
  <2>2. st.policy # "UB"
    BY <1>6 DEF Leaks
  <2>3. hits[m] \in 1 .. M /\ hits[m] # NoHits
    BY <1>2, <1>4, <2>1
  <2>4. M > 0 /\ 1 \in 1 .. hits[m]
    BY <1>2, <2>3
  <2>5. PICK j \in 1 .. m - 1 : Agree(installed, c[m].salt, c[j].salt, 1)
    BY <1>3, <2>3, <2>4 DEF Explained, c
  <2>6. CASE n = 4
    BY <1>1, <2>2, <2>4, <2>6
  <2>7. CASE n = 5
    <3>1. 1 \in Nat \ {0}
      OBVIOUS
    <3>2. m # 1 /\ m # 2 /\ m # 5
      BY <1>1, <2>1, <2>7
    <3>3. m = 3 \/ m = 4
      BY <2>7, <3>2
    <3>4. CASE m = 3
      <4>1. j = 1 \/ j = 2
        BY <3>4
      <4> QED BY <1>1, <2>5, <2>7, <3>1, <3>4, <4>1
    <3>5. CASE m = 4
      <4>1. j = 1 \/ j = 2 \/ j = 3
        BY <3>5
      <4> QED BY <1>1, <2>5, <2>7, <3>1, <3>5, <4>1
    <3> QED BY <3>3, <3>4, <3>5
  <2> QED BY <1>1, <2>6, <2>7
<1>7. ASSUME calm, NEW m \in 2 .. n, c[m].salt = c[1].salt PROVE hits[m] = M
  <2>1. /\ hits[m] # NoHits
        /\ \A k \in 1 .. M : (\E j \in 1 .. m - 1 : Agree(installed, c[m].salt, c[j].salt, k)) => k <= hits[m]
    <3>1. m \in 1 .. n
      BY <1>1
    <3> QED BY <1>3, <1>7, <3>1 DEF Complete, M, c
  <2>2. 1 \in 1 .. m - 1 /\ hits[m] \in 0 .. M
    BY <1>1, <1>4, <2>1
  <2>3. \A k \in 1 .. M : k <= hits[m]
    BY <1>5, <1>7, <2>1, <2>2
  <2> QED BY <1>2, <2>2, <2>3
<1>8. ASSUME calm PROVE hits[2] = M /\ hits[n] = M
  <2>1. 2 \in 2 .. n /\ n \in 2 .. n
    BY <1>1
  <2> QED BY <1>1, <1>7, <1>8, <2>1
<1>9. ASSUME calm, st.policy # "UB", c[1].salt = NoSalt, M > 0 PROVE Leaks(e)
  <2>1. 3 \in 2 .. n /\ 3 \in DOMAIN hits
    BY <1>1, <1>3
  <2>2. hits[3] = M
    BY <1>1, <1>7, <1>9, <2>1
  <2>3. hits[3] \notin {0, NoHits}
    BY <1>2, <1>9, <2>2, LiveAssumption
  <2> QED BY <1>1, <1>9, <2>1, <2>3 DEF Leaks, c
<1>10. n = Len(hits)
  BY DEF n
<1> QED BY <1>2, <1>6, <1>8, <1>9, <1>10 DEF M, c

(* In a probe an attacker's call finds only blocks that the victim's own   *)
(* calls computed.                                                         *)
THEOREM AttacksHitTheVictim == CheckSpec => []ProbeHitsAreVictims
<1>1. CheckInv => ProbeHitsAreVictims
  <2>1. SUFFICES ASSUME CheckInv, ~Smoking, NEW n \in DOMAIN row, NEW st, st = stages[1],
                        st.calls[n].name \in {"no_salt", "forged"}, row[n] # NoHits, NEW k \in 1 .. row[n]
                 PROVE  Chain(st.prompt, st.calls[n].salt, k) \in own
    BY DEF ProbeHitsAreVictims
  <2>2. row # << >>
    BY <2>1
  <2>3. stages # << >> /\ Underway(st)
    BY <2>1, <2>2 DEF CheckInv
  <2>4. st.policy # "smoke"
    BY <2>1, <2>3 DEF Smoking
  <2>5. ChainOf(installed, st.prompt, st.calls[n].salt, k) \in own
    BY <2>1, <2>3, <2>4 DEF Underway, OwnInv
  <2> QED BY <2>5, ChainForm
<1> QED BY <1>1, CheckInvariant, PTL

(* The probe's verdict says which policies send salts, and nothing else.   *)
THEOREM VerdictIsOfScopes == CheckSpec => []VerdictFollowsScopes
<1>1. CheckInv => VerdictFollowsScopes
  <2>1. SUFFICES ASSUME CheckInv, Ended("probe") PROVE VerdictFollowsScopes
    BY DEF VerdictFollowsScopes
  <2>2. /\ verdict \in {"ok", "failed"} /\ report # << >> /\ verdict = Judgement(report)
        /\ report[1].stage.policy # "smoke"
    BY <2>1 DEF Ended, CheckInv, Judged
  <2>3. report \in Seq(Done(ProbeStages))
    <3>1. CASE report \in Seq(Done(SmokeStages))
      <4>1. 1 \in 1 .. Len(report)
        BY <2>2, <3>1, EmptySeq, LenProperties
      <4>2. report[1] \in Done(SmokeStages)
        BY <3>1, <4>1, ElementOfSeq
      <4>3. report[1].stage \in SmokeStages
        BY <4>2 DEF Done
      <4> QED BY <2>2, <4>3, SmokeStageCalls
    <3> QED BY <2>1, <3>1 DEF CheckInv, OneScript
  <2>4. DOMAIN report = 1 .. Len(report)
    BY <2>3, LenProperties
  <2>5. ASSUME NEW n \in DOMAIN report
        PROVE  /\ Leaks(report[n]) => /\ report[n].stage.policy # "UB"
                                      /\ report[n].stage.calls[1].salt = NoSalt
                                      /\ MostHits(report[n].stage.prompt) > 0
               /\ calm => /\ report[n].row[2] = MostHits(report[n].stage.prompt)
                          /\ report[n].row[Len(report[n].row)] = MostHits(report[n].stage.prompt)
                          /\ (/\ report[n].stage.policy # "UB" /\ report[n].stage.calls[1].salt = NoSalt
                              /\ MostHits(report[n].stage.prompt) > 0) => Leaks(report[n])
    <3>1. report[n] \in Done(ProbeStages) /\ report[n] \in Range(report)
      BY <2>3, <2>4, ElementOfSeq DEF Range
    <3>2. PICK e, st, hits : e = report[n] /\ st = e.stage /\ hits = e.row
      OBVIOUS
    <3>3. st \in ProbeStages
      BY <3>1, <3>2 DEF Done
    <3>4. RowInv(st, hits) /\ Len(hits) = Len(st.calls)
      <4>1. RowInv(e.stage, e.row) /\ Len(e.row) = Len(e.stage.calls)
        BY <2>1, <3>1, <3>2 DEF CheckInv, Reported
      <4> QED BY <3>2, <4>1
    <3>5. /\ Leaks(e) => st.policy # "UB" /\ st.calls[1].salt = NoSalt /\ MostHits(st.prompt) > 0
          /\ calm => /\ hits[2] = MostHits(st.prompt) /\ hits[Len(hits)] = MostHits(st.prompt)
                     /\ st.policy # "UB" /\ st.calls[1].salt = NoSalt /\ MostHits(st.prompt) > 0 => Leaks(e)
      BY <2>1, <3>2, <3>3, <3>4, ProbeRows DEF CheckInv
    <3> QED BY <3>2, <3>5
  <2>6. verdict = "failed" <=> \E n \in DOMAIN report : Leaks(report[n])
    BY <2>2 DEF Judgement
  <2> QED BY <2>5, <2>6 DEF VerdictFollowsScopes
<1> QED BY <1>1, CheckInvariant, PTL

-----------------------------------------------------------------------------
(* What the smoke test's result says.                                      *)

(* The prompt's first block opens one scope, that of GroupAt another.      *)
LEMMA GroupBarrier ==
  ASSUME NEW one, one = <<Barrier(0, "a")>>, NEW two, two = <<Barrier(0, "a"), Barrier(GroupAt, "b")>>,
         NEW g, g = GroupAt \div TokensPerBlock
  PROVE  /\ g \in Nat /\ g >= 1
         /\ \A m \in Nat : m * TokensPerBlock >= GroupAt => g <= m
         /\ \A n \in Nat \ {0} : Scopes(two, n) = Scopes(one, n) <=> n # g + 1
<1> DEFINE T == TokensPerBlock
<1>1. T \in Nat \ {0} /\ GroupAt \in Nat /\ GroupAt >= T
  BY SaltAssumption, LiveAssumption
<1>2. g \in Nat /\ GroupAt % T \in 0 .. T - 1 /\ GroupAt = T * g + (GroupAt % T)
  BY <1>1, Divided
<1>3. g >= 1
  <2>1. SUFFICES ASSUME g = 0 PROVE FALSE
    BY <1>2
  <2>2. T * g = 0
    BY <1>1, <2>1
  <2> QED BY <1>1, <1>2, <2>2
<1>4. ASSUME NEW m \in Nat, m * T >= GroupAt PROVE g <= m
  <2>1. SUFFICES ASSUME g >= m + 1 PROVE FALSE
    BY <1>2
  <2>2. T * g >= T * (m + 1) /\ T * (m + 1) = T * m + T /\ m * T = T * m /\ T * m \in Nat
    BY <1>1, <1>2, <2>1
  <2> QED BY <1>1, <1>2, <1>4, <2>2
<1>5. 0 \div T = 0
  <2>1. 0 * T = 0 /\ (0 + 1) * T = T
    BY <1>1
  <2> QED BY <1>1, <2>1, InBlock
<1>6. /\ DOMAIN one = {1} /\ one[1].off = 0 /\ one[1].sid = "a"
      /\ DOMAIN two = {1, 2} /\ two[1].off = 0 /\ two[1].sid = "a" /\ two[2].off = GroupAt
  BY DEF Barrier
<1>7. ASSUME NEW n \in Nat \ {0} PROVE Scopes(two, n) = Scopes(one, n) <=> n # g + 1
  <2>1. /\ Scopes(one, n) = [m \in {i \in {1} : one[i].off \div T = n - 1} |-> one[m].sid]
        /\ Scopes(two, n) = [m \in {i \in {1, 2} : two[i].off \div T = n - 1} |-> two[m].sid]
    BY <1>6 DEF Scopes
  <2>2. two[2].off \div T = g
    BY <1>6
  <2> HIDE DEF T
  <2>3. CASE n = g + 1
    <3>1. g = n - 1
      BY <1>2, <2>3
    <3>2. 2 \in DOMAIN Scopes(two, n) /\ 2 \notin DOMAIN Scopes(one, n)
      BY <2>1, <2>2, <3>1
    <3> QED BY <2>3, <3>2
  <2>4. CASE n # g + 1
    <3>1. g # n - 1
      BY <1>2, <2>4
    <3>2. {i \in {1, 2} : two[i].off \div T = n - 1} = {i \in {1} : one[i].off \div T = n - 1}
      BY <1>6, <2>2, <3>1
    <3> QED BY <1>6, <2>1, <2>4, <3>2
  <2> QED BY <2>3, <2>4
<1> QED BY <1>2, <1>3, <1>4, <1>7

(* The salts of a smoke test.                                              *)
LEMMA SmokeSalts ==
  ASSUME NEW st \in SmokeStages, NEW c, c = st.calls, NEW g, g = GroupAt \div TokensPerBlock
  PROVE  \E s, two, forged :
           /\ c[1] = Expect(s, 0) /\ c[2] = Expect(s, MostHits(st.prompt)) /\ c[3] = Expect(two, g)
           /\ c[4] = Expect(NoSalt, 0) /\ c[5] = Expect(forged, 0)
           /\ c[6] = Expect(Stock, 0) /\ c[7] = Expect(Stock, MostHits(st.prompt))
           /\ Starting(s) /\ Starting(two) /\ Starting(forged) /\ Starting(NoSalt) /\ Starting(Stock)
           /\ s # NoSalt /\ two # NoSalt /\ forged # NoSalt /\ Stock # NoSalt
           /\ s # two /\ s # forged /\ two # forged /\ s # Stock /\ two # Stock /\ forged # Stock
           /\ s.items[1].sid = "a" /\ two.items[1].sid = "a" /\ forged.items[1].sid # "a"
           /\ \A k \in Nat : Agree(TRUE, two, s, k) <=> k <= g
<1>1. PICK x \in Nonces, b \in Lengths, id \in Ids : st = SmokeStage(x, b, id)
  BY DEF SmokeStages
<1> DEFINE one    == <<Barrier(0, "a")>>
           group  == <<Barrier(0, "a"), Barrier(GroupAt, "b")>>
           other  == <<Barrier(0, id)>>
           p      == SmokePrompt(x, b)
<1>2. st.prompt = p
  BY <1>1 DEF SmokeStage
<1>3. c = << Expect(Salt(one), 0), Expect(Salt(one), MostHits(p)), Expect(Salt(group), g),
             Expect(NoSalt, 0), Expect(Salt(other), 0), Expect(Stock, 0), Expect(Stock, MostHits(p)) >>
  BY <1>1 DEF SmokeStage, GroupSalt, MostExpected
<1>4. /\ c[1] = Expect(Salt(one), 0) /\ c[2] = Expect(Salt(one), MostHits(st.prompt)) /\ c[3] = Expect(Salt(group), g)
      /\ c[4] = Expect(NoSalt, 0) /\ c[5] = Expect(Salt(other), 0)
      /\ c[6] = Expect(Stock, 0) /\ c[7] = Expect(Stock, MostHits(st.prompt))
  BY <1>2, <1>3
<1>5. id # "a" /\ \A items \in {one, group, other} : Plain(items) /\ Encode(items) # ValueError
  <2>1. PICK n \in 1 .. MaxLaunches : id = FreshIds[n]
    BY DEF Ids
  <2> QED BY <2>1, LiveAssumption
<1>6. FromStart(one) /\ FromStart(group) /\ FromStart(other)
  <2>1. Range(one) = {Barrier(0, "a")} /\ Range(group) = {Barrier(0, "a"), Barrier(GroupAt, "b")} /\ Range(other) = {Barrier(0, id)}
    BY DEF Range
  <2>2. one[1].off = 0 /\ group[1].off = 0 /\ other[1].off = 0
    BY DEF Barrier
  <2>3. \A items \in {one, group, other} : \A y \in Range(items) : y.off \in Int
    <3>1. Barrier(0, "a").off = 0 /\ Barrier(GroupAt, "b").off = GroupAt /\ Barrier(0, id).off = 0 /\ GroupAt \in Int
      BY LiveAssumption DEF Barrier
    <3> HIDE DEF one, group, other
    <3> QED BY <2>1, <3>1
  <2> HIDE DEF one, group, other
  <2> QED BY <1>5, <2>2, <2>3 DEF FromStart
<1>7. one[1].sid = "a" /\ group[1].sid = "a" /\ other[1].sid = id /\ one # group /\ one # other /\ group # other
  <2>1. one[1].sid = "a" /\ group[1].sid = "a" /\ other[1].sid = id /\ Len(one) = 1 /\ Len(group) = 2
    BY DEF Barrier
  <2> HIDE DEF one, group, other
  <2> QED BY <1>5, <2>1
<1>8. \A n \in Nat \ {0} : Scopes(group, n) = Scopes(one, n) <=> n # g + 1
  BY GroupBarrier
<1>9. g \in Nat
  BY GroupBarrier
<1> HIDE DEF one, group, other
<1>10. ASSUME NEW y \in {one, group, other}
       PROVE  /\ Salt(y) = Encode(y) /\ Encode(y) = [ours |-> TRUE, items |-> y] /\ Encode(y) # NoSalt
              /\ Starting(Encode(y)) /\ IsItems(y) /\ NonDecreasing(y)
              /\ \A n \in Nat \ {0} : KeysOf(TRUE, Encode(y), n) = ScopeKeysForBlock(y, n)
  <2>1. FromStart(y)
    BY <1>6
  <2> QED BY <2>1, ScopedKeys DEF Salt, Starting
<1>11. ASSUME NEW k \in Nat PROVE Agree(TRUE, Encode(group), Encode(one), k) <=> k <= g
  <2>1. \A n \in 1 .. k : n \in Nat \ {0}
    OBVIOUS
  <2>2. Agree(TRUE, Encode(group), Encode(one), k)
          <=> \A n \in 1 .. k : ScopeKeysForBlock(group, n) = ScopeKeysForBlock(one, n)
    BY <1>10, <2>1 DEF Agree
  <2>3. (\A n \in 1 .. k : ScopeKeysForBlock(group, n) = ScopeKeysForBlock(one, n))
          <=> (\A n \in 1 .. k : Scopes(group, n) = Scopes(one, n))
    BY <1>10, KeysAreScopes
  <2>4. (\A n \in 1 .. k : Scopes(group, n) = Scopes(one, n)) <=> (\A n \in 1 .. k : n # g + 1)
    BY <1>8, <2>1
  <2>5. (\A n \in 1 .. k : n # g + 1) <=> k <= g
    <3>1. k > g => g + 1 \in 1 .. k
      BY <1>9
    <3>2. k <= g => \A n \in 1 .. k : n # g + 1
      BY <1>9
    <3> QED BY <1>9, <3>1, <3>2
  <2> QED BY <2>2, <2>3, <2>4, <2>5
<1>12. Starting(NoSalt) /\ Starting(Stock) /\ Stock # NoSalt /\ ~Stock.ours
  BY LiveAssumption DEF Starting, Stock
<1>13. /\ Encode(one).items = one /\ Encode(group).items = group /\ Encode(other).items = other
       /\ Encode(one).ours /\ Encode(group).ours /\ Encode(other).ours
  BY <1>10
<1>14. /\ Encode(one) # Encode(group) /\ Encode(one) # Encode(other) /\ Encode(group) # Encode(other)
       /\ Encode(one) # Stock /\ Encode(group) # Stock /\ Encode(other) # Stock
  BY <1>7, <1>12, <1>13
<1>15. /\ Encode(one).items[1].sid = "a" /\ Encode(group).items[1].sid = "a" /\ Encode(other).items[1].sid # "a"
  BY <1>5, <1>7, <1>13
<1>16. /\ Salt(one) = Encode(one) /\ Salt(group) = Encode(group) /\ Salt(other) = Encode(other)
       /\ Encode(one) # NoSalt /\ Encode(group) # NoSalt /\ Encode(other) # NoSalt
       /\ Starting(Encode(one)) /\ Starting(Encode(group)) /\ Starting(Encode(other))
  BY <1>10
<1> QED BY <1>4, <1>11, <1>12, <1>14, <1>15, <1>16

LEMMA SmokeRows ==
  ASSUME NEW st \in SmokeStages, NEW hits, installed \in BOOLEAN, unseen, RowInv(st, hits), Len(hits) = Len(st.calls)
  PROVE  /\ Found(st, hits) => installed
         /\ installed /\ calm /\ MostHits(st.prompt) * TokensPerBlock >= GroupAt => Found(st, hits)
<1> DEFINE M == MostHits(st.prompt)
           c == st.calls
           g == GroupAt \div TokensPerBlock
<1>1. /\ IsPrompt(st.prompt) /\ Len(c) = 7
  BY SmokeStageCalls
<1>2. M \in Nat
  BY <1>1, PromptLength
<1>3. /\ hits \in Seq(Rows(st)) /\ DOMAIN hits = 1 .. 7
      /\ Explained(installed, st, hits) /\ (calm => Complete(installed, st, hits))
  <2>1. hits \in Seq(Rows(st)) /\ DOMAIN hits = 1 .. Len(hits)
    BY LenProperties DEF RowInv
  <2> QED BY <1>1, <2>1 DEF RowInv, Clean
<1>4. \A m \in 1 .. 7 : hits[m] \in 0 .. M \/ hits[m] = NoHits
  <2>1. \A m \in 1 .. 7 : hits[m] \in Rows(st)
    BY <1>1, <1>3, ElementOfSeq
  <2> QED BY <2>1 DEF Rows
<1>5. g \in Nat /\ g >= 1 /\ (M * TokensPerBlock >= GroupAt => g <= M)
  BY <1>2, GroupBarrier
<1>6. PICK s, two, forged :
        /\ c[1] = Expect(s, 0) /\ c[2] = Expect(s, M) /\ c[3] = Expect(two, g)
        /\ c[4] = Expect(NoSalt, 0) /\ c[5] = Expect(forged, 0)
        /\ c[6] = Expect(Stock, 0) /\ c[7] = Expect(Stock, M)
        /\ Starting(s) /\ Starting(two) /\ Starting(forged) /\ Starting(NoSalt) /\ Starting(Stock)
        /\ s # NoSalt /\ two # NoSalt /\ forged # NoSalt /\ Stock # NoSalt
        /\ s # two /\ s # forged /\ two # forged /\ s # Stock /\ two # Stock /\ forged # Stock
        /\ s.items[1].sid = "a" /\ two.items[1].sid = "a" /\ forged.items[1].sid # "a"
        /\ \A k \in Nat : Agree(TRUE, two, s, k) <=> k <= g
  BY SmokeSalts
<1>7. /\ c[1].salt = s /\ c[2].salt = s /\ c[3].salt = two /\ c[4].salt = NoSalt /\ c[5].salt = forged
      /\ c[6].salt = Stock /\ c[7].salt = Stock
      /\ c[1].hits = 0 /\ c[2].hits = M /\ c[3].hits = g /\ c[4].hits = 0 /\ c[5].hits = 0 /\ c[6].hits = 0 /\ c[7].hits = M
  BY <1>6 DEF Expect
<1>8. ASSUME NEW x, Starting(x), NEW y, Starting(y), NEW k \in Nat \ {0}, Agree(installed, x, y, k)
      PROVE  /\ x = NoSalt <=> y = NoSalt
             /\ x # NoSalt /\ ~installed => x = y
             /\ x # NoSalt /\ installed => (x = Stock <=> y = Stock) /\ (x # Stock => x.items[1].sid = y.items[1].sid)
  BY <1>8, LeadsDiffer
<1> HIDE DEF M, c, g
<1>9. 1 \in Nat \ {0}
  OBVIOUS
<1>10. ASSUME NEW m \in 1 .. 7, hits[m] # NoHits, \A j \in 1 .. m - 1 : ~Agree(installed, c[m].salt, c[j].salt, 1)
       PROVE  hits[m] = 0
  <2>1. SUFFICES ASSUME 1 \in 1 .. hits[m] PROVE FALSE
    <3>1. hits[m] \in 0 .. M
      BY <1>4, <1>10
    <3> QED BY <1>2, <3>1
  <2>2. \E j \in 1 .. m - 1 : Agree(installed, st.calls[m].salt, st.calls[j].salt, 1)
    BY <1>3, <1>10, <2>1 DEF Explained
  <2> QED BY <1>10, <2>2 DEF c
<1>13. ASSUME installed
       PROVE  /\ \A y \in {s, two, NoSalt} : ~Agree(installed, forged, y, 1)
              /\ \A y \in {s, two, NoSalt, forged} : ~Agree(installed, Stock, y, 1)
  <2>1. ASSUME NEW y \in {s, two}, Agree(installed, forged, y, 1) PROVE FALSE
    <3>1. forged.items[1].sid = y.items[1].sid
      BY <1>6, <1>8, <1>9, <1>13, <2>1
    <3> QED BY <1>6, <2>1, <3>1
  <2>2. ASSUME NEW y \in {s, two, forged}, Agree(installed, Stock, y, 1) PROVE FALSE
    <3>1. Stock = Stock <=> y = Stock
      BY <1>6, <1>8, <1>9, <1>13, <2>2
    <3> QED BY <1>6, <2>2, <3>1
  <2>3. ~Agree(installed, forged, NoSalt, 1) /\ ~Agree(installed, Stock, NoSalt, 1)
    BY <1>6, <1>8, <1>9
  <2> QED BY <2>1, <2>2, <2>3
<1>11. ASSUME Found(st, hits), ~installed PROVE FALSE
  <2>1. 3 \in DOMAIN hits /\ 3 \in 1 .. 7
    BY <1>3
  <2>2. hits[3] = g
    BY <1>7, <1>11, <2>1 DEF Found, c
  <2>3. hits[3] # NoHits /\ hits[3] # 0
    BY <1>5, <2>2, LiveAssumption
  <2>4. PICK j \in 1 .. 2 : Agree(installed, c[3].salt, c[j].salt, 1)
    <3>1. 3 - 1 = 2
      OBVIOUS
    <3> QED BY <1>10, <2>1, <2>3, <3>1
  <2>5. c[j].salt = s
    BY <1>7
  <2> QED BY <1>6, <1>7, <1>8, <1>9, <1>11, <2>4, <2>5
<1>12. ASSUME installed, calm, M * TokensPerBlock >= GroupAt PROVE Found(st, hits)
  <2>1. \A m \in 1 .. 7 : /\ hits[m] # NoHits /\ hits[m] \in 0 .. M
                          /\ \A k \in 1 .. M :
                               (\E j \in 1 .. m - 1 : Agree(installed, c[m].salt, c[j].salt, k)) => k <= hits[m]
    <3>1. Complete(installed, st, hits)
      BY <1>3, <1>12
    <3> QED BY <1>3, <1>4, <3>1 DEF Complete, M, c
  <2>2. hits[1] = 0
    <3>1. 1 \in 1 .. 7 /\ 1 .. 1 - 1 = {}
      OBVIOUS
    <3> QED BY <1>10, <2>1, <3>1
  <2>3. ASSUME NEW m \in 1 .. 7, NEW j \in 1 .. m - 1, c[m].salt = c[j].salt PROVE hits[m] = M
    <3>1. \A k \in 1 .. M : k <= hits[m]
      BY <2>1, <2>3 DEF Agree
    <3>2. hits[m] \in 0 .. M
      BY <2>1
    <3> QED BY <1>2, <3>1, <3>2
  <2>4. hits[2] = M
    <3>1. 2 \in 1 .. 7 /\ 1 \in 1 .. 2 - 1
      OBVIOUS
    <3> QED BY <1>7, <2>3, <3>1
  <2>5. hits[7] = M
    <3>1. 7 \in 1 .. 7 /\ 6 \in 1 .. 7 - 1
      OBVIOUS
    <3> QED BY <1>7, <2>3, <3>1
  <2>6. hits[3] = g
    <3>1. 3 \in 1 .. 7 /\ 3 - 1 = 2 /\ installed = TRUE
      BY <1>12
    <3>2. \A j \in 1 .. 2 : c[j].salt = s
      BY <1>7
    <3>3. hits[3] >= g
      <4>1. g \in 1 .. M /\ 1 \in 1 .. 3 - 1
        BY <1>2, <1>5, <1>12 DEF M
      <4>2. Agree(installed, c[3].salt, c[1].salt, g)
        <5>1. Agree(TRUE, two, s, g)
          <6>1. \A k \in Nat : k <= g => Agree(TRUE, two, s, k)
            BY <1>6
          <6>2. g \in Nat /\ g <= g
            BY <1>5
          <6> QED BY <6>1, <6>2
        <5> QED BY <1>7, <3>1, <5>1
      <4> QED BY <1>5, <2>1, <3>1, <4>1, <4>2
    <3>4. ~(hits[3] >= g + 1)
      <4>1. SUFFICES ASSUME hits[3] >= g + 1 PROVE FALSE
        OBVIOUS
      <4>2. g + 1 \in 1 .. hits[3] /\ g + 1 \in Nat /\ ~(g + 1 <= g)
        BY <1>5, <2>1, <3>1, <4>1
      <4>3. PICK j \in 1 .. 2 : Agree(installed, st.calls[3].salt, st.calls[j].salt, g + 1)
        BY <1>3, <2>1, <3>1, <4>2 DEF Explained
      <4>4. Agree(installed, two, s, g + 1)
        BY <1>7, <3>2, <4>3 DEF c
      <4> QED BY <1>6, <1>12, <4>2, <4>4
    <3> QED BY <1>2, <1>5, <2>1, <3>1, <3>3, <3>4
  <2>7. hits[4] = 0
    <3>1. ASSUME NEW j \in 1 .. 4 - 1 PROVE ~Agree(installed, c[4].salt, c[j].salt, 1)
      <4>1. c[j].salt \in {s, two}
        BY <1>7
      <4> QED BY <1>6, <1>7, <1>8, <1>9, <4>1
    <3> QED BY <1>10, <2>1, <3>1
  <2>8. hits[5] = 0
    <3>1. ASSUME NEW j \in 1 .. 5 - 1 PROVE ~Agree(installed, c[5].salt, c[j].salt, 1)
      <4>1. c[j].salt \in {s, two, NoSalt} /\ c[5].salt = forged
        BY <1>7
      <4> QED BY <1>12, <1>13, <4>1
    <3> QED BY <1>10, <2>1, <3>1
  <2>9. hits[6] = 0
    <3>1. ASSUME NEW j \in 1 .. 6 - 1 PROVE ~Agree(installed, c[6].salt, c[j].salt, 1)
      <4>1. c[j].salt \in {s, two, NoSalt, forged} /\ c[6].salt = Stock
        BY <1>7
      <4> QED BY <1>12, <1>13, <4>1
    <3> QED BY <1>10, <2>1, <3>1
  <2>10. \A m \in 1 .. 7 : m = 1 \/ m = 2 \/ m = 3 \/ m = 4 \/ m = 5 \/ m = 6 \/ m = 7
    OBVIOUS
  <2>11. \A m \in 1 .. 7 : hits[m] = c[m].hits
    BY <1>7, <2>2, <2>4, <2>5, <2>6, <2>7, <2>8, <2>9, <2>10
  <2> QED BY <1>3, <2>11 DEF Found, c
<1> QED BY <1>11, <1>12 DEF M

(* "PLUGIN OK" means that the plugin is active, and an active plugin       *)
(* passes a test that nothing disturbed.                                   *)
THEOREM SmokeTestTellsPlugin == CheckSpec => []OkMeansInstalled
<1>1. CheckInv => OkMeansInstalled
  <2>1. SUFFICES ASSUME CheckInv, Ended("smoke"), unseen PROVE OkMeansInstalled
    BY DEF OkMeansInstalled
  <2>2. /\ verdict \in {"ok", "failed"} /\ report # << >> /\ verdict = Judgement(report)
        /\ report[1].stage.policy = "smoke"
    BY <2>1 DEF Ended, CheckInv, Judged
  <2>3. PICK e, st, hits : e = report[1] /\ st = e.stage /\ hits = e.row
    OBVIOUS
  <2>4. ASSUME NEW S, report \in Seq(Done(S)) PROVE e \in Done(S) /\ e \in Range(report) /\ st \in S
    <3>1. 1 \in 1 .. Len(report) /\ DOMAIN report = 1 .. Len(report)
      BY <2>2, <2>4, EmptySeq, LenProperties
    <3>2. e \in Done(S) /\ e \in Range(report)
      BY <2>3, <2>4, <3>1, ElementOfSeq DEF Range
    <3> QED BY <2>3, <3>2 DEF Done
  <2>5. st \in SmokeStages /\ e \in Range(report)
    <3>1. CASE report \in Seq(Done(ProbeStages))
      <4>1. st \in ProbeStages
        BY <2>4, <3>1
      <4> QED BY <2>2, <2>3, <4>1, ProbeStageSalts
    <3> QED BY <2>1, <2>4, <3>1 DEF CheckInv, OneScript
  <2>6. RowInv(st, hits) /\ Len(hits) = Len(st.calls)
    <3>1. RowInv(e.stage, e.row) /\ Len(e.row) = Len(e.stage.calls)
      BY <2>1, <2>5 DEF CheckInv, Reported
    <3> QED BY <2>3, <3>1
  <2>7. /\ Found(st, hits) => installed
        /\ installed /\ calm /\ MostHits(st.prompt) * TokensPerBlock >= GroupAt => Found(st, hits)
    BY <2>1, <2>5, <2>6, SmokeRows DEF CheckInv
  <2>8. verdict = "ok" <=> Found(st, hits)
    BY <2>2, <2>3 DEF Judgement
  <2> QED BY <2>3, <2>7, <2>8 DEF OkMeansInstalled
<1> QED BY <1>1, CheckInvariant, PTL
=============================================================================
