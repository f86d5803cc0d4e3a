--------------------------- MODULE ContextProofs ----------------------------
(***************************************************************************)
(* About the context builder: the order it puts the documents in, and the  *)
(* scopes that protect them.                                               *)
(*                                                                         *)
(* The order of the documents, for every request, every setting and every  *)
(* key: the greedy loop can meet all deadlines, because ranks are distinct *)
(* and so no two documents fall due at the same position.  WithinShift is  *)
(* not inductive alone: that a document is still in time when it is placed *)
(* follows from IInv's third part, by which no remaining document is late. *)
(* What comes after it: which inversions of keys the deadlines may cause,  *)
(* for every history of popularity, and that the anchored prompt holds     *)
(* each document once with the best one last.                              *)
(*                                                                         *)
(* That scopes protect documents, for every directory, block size, padding *)
(* and pair of requests: a block whose chained hash two prompts share      *)
(* depends only on documents that the users of both may read.              *)
(*                                                                         *)
(* The argument goes through the last scope that opens before the block    *)
(* ends.  Its barrier, or its marker in the text, is part of the chain, so *)
(* the other prompt has it too; and a scope is named after an ACL that its *)
(* user satisfies.  That ACL is the intersection of all documents before,  *)
(* which is exact because the prompt's own user may read them.             *)
(***************************************************************************)
EXTENDS Ordering, ScopeSharing, FilteringProofs

-----------------------------------------------------------------------------
(* The order of the documents.                                             *)

InTime == \A d \in pending : Position <= d.rank + Shift

Locals ==
  /\ config \in Configs
  /\ docs \in Retrievals \/ docs = {}
  /\ pending \in SUBSET docs
  /\ placed \in Seq(docs)

IInv == Locals /\ InTime /\ WithinShift

(* max_shift amounts to a natural number of positions.                     *)
LEMMA ShiftNat ==
  ASSUME Locals
  PROVE  Shift \in Nat /\ Position \in Nat /\ \A d \in docs : d.rank \in Nat
<1>1. IsFiniteSet(docs) /\ \A d \in docs : d.rank \in Nat
  BY RetrievalAssumption, FS_EmptySet DEF Locals, Doc
<1>2. config.shift \in Int \cup {NoLimit}
  BY ConfigAssumption DEF Locals
<1>3. Cardinality(docs) \in Nat
  BY <1>1, FS_CardinalityType
<1>4. Position \in Nat
  BY LenProperties DEF Position, Locals
<1> QED BY <1>1, <1>2, <1>3, <1>4 DEF Shift

(* Two documents that are due and not late have the same rank.             *)
LEMMA OneDue ==
  ASSUME Locals, InTime
  PROVE  \A d, e \in Due : d = e
<1> SUFFICES ASSUME NEW d \in Due, NEW e \in Due PROVE d = e
  OBVIOUS
<1>1. d \in docs /\ e \in docs /\ d.rank \in Nat /\ e.rank \in Nat /\ Shift \in Nat /\ Position \in Nat
  BY ShiftNat DEF Due, Locals
<1>2. d.rank + Shift = Position /\ e.rank + Shift = Position
  BY <1>1 DEF Due, InTime
<1>3. d.rank = e.rank
  <2>1. \A a, b, s, p \in Nat : a + s = p /\ b + s = p => a = b
    OBVIOUS
  <2> QED BY <1>1, <1>2, <2>1
<1> QED BY <1>1, <1>3, RetrievalAssumption DEF Locals

(* The simulated middleware starts with no request.                        *)
LEMMA InitInv == OrderInit => IInv
<1> SUFFICES ASSUME OrderInit PROVE IInv
  OBVIOUS
<1>1. placed \in Seq(docs) /\ Len(placed) = 0
  BY EmptySeq DEF OrderInit
<1> QED BY <1>1 DEF OrderInit, IInv, Locals, InTime, WithinShift

(* A new request may fall due at its own rank at the earliest.             *)
LEMMA OrderInv ==
  ASSUME IInv, NEW D \in Retrievals, Order(D)
  PROVE  IInv'
<1>1. Locals'
  BY EmptySeq DEF IInv, Locals, Order
<1>2. Position' = 0 /\ Len(placed') = 0
  BY EmptySeq DEF Order, Position
<1>3. Shift' \in Nat /\ \A d \in docs' : d.rank \in Nat
  <2>1. IsFiniteSet(D) /\ \A d \in D : d.rank \in Nat
    BY RetrievalAssumption DEF Doc
  <2>2. Cardinality(D) \in Nat /\ config.shift \in Int \cup {NoLimit}
    BY <2>1, FS_CardinalityType, ConfigAssumption DEF IInv, Locals
  <2> QED BY <2>1, <2>2 DEF Order, Shift
<1>4. InTime'
  BY <1>1, <1>2, <1>3 DEF InTime, Locals
<1> QED BY <1>1, <1>2, <1>4 DEF IInv, WithinShift

(* Placing a document that is due leaves nothing late behind; placing one  *)
(* by its key happens only when nothing is due.                            *)
LEMMA PlaceInv ==
  ASSUME IInv, Place
  PROVE  IInv'
<1>1. PICK d \in pending :
        /\ Due # {} => d \in Due
        /\ placed' = Append(placed, d)
        /\ pending' = pending \ {d}
  BY DEF Place
<1>2. UNCHANGED <<config, docs>>
  BY DEF Place
<1>3. /\ Shift \in Nat /\ Position \in Nat /\ \A e \in docs : e.rank \in Nat
      /\ Shift' = Shift
  BY <1>2, ShiftNat DEF IInv, Shift
<1>4. /\ placed' \in Seq(docs) /\ Len(placed') = Len(placed) + 1
      /\ \A i \in 1 .. Len(placed) : placed'[i] = placed[i]
      /\ placed'[Len(placed) + 1] = d
  BY <1>1, AppendProperties DEF IInv, Locals
<1>5. Locals'
  BY <1>1, <1>2, <1>4 DEF IInv, Locals
<1>6. d \in docs /\ Position <= d.rank + Shift
  BY <1>1 DEF IInv, InTime, Locals
<1>7. InTime'
  <2> SUFFICES ASSUME NEW e \in pending, e # d PROVE Position + 1 <= e.rank + Shift
    BY <1>1, <1>3, <1>4 DEF InTime, Position
  <2>1. e.rank \in Nat /\ Position <= e.rank + Shift
    BY <1>3 DEF IInv, InTime, Locals
  <2>2. e \notin Due
    BY <1>1, OneDue DEF IInv
  <2> QED BY <1>3, <2>1, <2>2 DEF Due
<1>8. WithinShift'
  <2> SUFFICES ASSUME NEW i \in 1 .. Len(placed) + 1 PROVE i - 1 <= placed'[i].rank + Shift
    BY <1>3, <1>4 DEF WithinShift
  <2>1. CASE i \in 1 .. Len(placed)
    BY <2>1, <1>4 DEF IInv, WithinShift
  <2>2. CASE i = Len(placed) + 1
    BY <2>2, <1>3, <1>4, <1>6 DEF Position
  <2> QED BY <1>3, <2>1, <2>2 DEF Position
<1> QED BY <1>5, <1>7, <1>8 DEF IInv

(* Every step of the loop, and every new request, keeps the invariant.     *)
LEMMA NextInv == IInv /\ [OrderNext]_vars => IInv'
<1> SUFFICES ASSUME IInv, [OrderNext]_vars PROVE IInv'
  OBVIOUS
<1>1. CASE \E D \in Retrievals : Order(D)
  BY <1>1, OrderInv
<1>2. CASE Place
  BY <1>2, PlaceInv
<1>3. CASE Finish
  BY <1>3 DEF Finish, IInv, Locals, InTime, WithinShift, Shift, Position
<1>4. CASE UNCHANGED vars
  BY <1>4 DEF vars, IInv, Locals, InTime, WithinShift, Shift, Position
<1> QED BY <1>1, <1>2, <1>3, <1>4 DEF OrderNext

(* The invariant holds of every behaviour.                                 *)
LEMMA SpecInv == OrderSpec => []IInv
<1> QED BY InitInv, NextInv, PTL DEF OrderSpec

(* For every request, key and limit, no document is placed more than       *)
(* max_shift positions after its retrieval rank.                           *)
THEOREM DeadlinesKept == OrderSpec => []WithinShift
<1>1. IInv => WithinShift
  BY DEF IInv
<1> QED BY <1>1, SpecInv, PTL

(* The docstring's claim about the loop: at most one document is due.      *)
THEOREM NoTwoDue == OrderSpec => []AtMostOneDue
<1>1. IInv => AtMostOneDue
  BY OneDue DEF IInv, AtMostOneDue
<1> QED BY <1>1, SpecInv, PTL

-----------------------------------------------------------------------------
(* Which pairs may be out of the order of keys.                            *)

Counted == counts \in [Chunks -> Nat]

(* A placed document that was not placed at its deadline precedes nothing  *)
(* with a smaller key, neither placed nor waiting.                         *)
Leads(i, e) == placed[i].rank + Shift = i - 1 \/ ~Less(Key(e), Key(placed[i]))

KeysLead ==
  pc = "placing" =>
    \A i \in 1 .. Len(placed) :
      /\ \A e \in pending : Leads(i, e)
      /\ \A j \in 1 .. Len(placed) : i < j => Leads(i, placed[j])

KeyInv == IInv /\ Counted /\ KeysLead

(* The length of the tuples that one configuration compares.               *)
KeyLen == CASE config.ordering = "retrieval" -> 1
            [] config.ordering = "acl_aware" -> 3
            [] OTHER -> 6

(* Keys of one configuration are integer tuples of one length.             *)
LEMMA KeyShape ==
  ASSUME Locals, Counted
  PROVE  KeyLen \in Nat /\ \A d \in docs : Key(d) \in [1 .. KeyLen -> Int]
<1> SUFFICES ASSUME NEW d \in docs PROVE Key(d) \in [1 .. KeyLen -> Int]
  BY DEF KeyLen
<1>1. /\ d.id \in Nat /\ d.rank \in Nat /\ d.breadth \in Nat /\ d.group \in Nat
      /\ d.id \in Chunks
  <2>1. d \in Doc
    BY RetrievalAssumption DEF Locals
  <2>2. d.id \in Chunks /\ d.rank \in Nat /\ d.breadth \in 0 .. 2 /\ d.group \in Nat
    BY <2>1 DEF Doc
  <2>3. Chunks \subseteq Nat
    BY PopularityAssumption
  <2>4. \A x \in 0 .. 2 : x \in Nat
    OBVIOUS
  <2>5. d.id \in Nat /\ d.breadth \in Nat
    BY <2>2, <2>3, <2>4, Zenon
  <2> QED BY <2>2, <2>5
<1>2. Bucket(d.id) \in Nat
  <2>1. counts[d.id] \in Nat
    BY <1>1 DEF Counted
  <2>2. IsFiniteSet(1 .. counts[d.id])
    BY <2>1, FS_Interval
  <2>3. IsFiniteSet({b \in 1 .. counts[d.id] : Unit * 2^b <= Unit + counts[d.id]})
    BY <2>2, FS_Subset
  <2> QED BY <2>3, FS_CardinalityType DEF Bucket
<1>3. CASE config.ordering = "retrieval"
  <2>1. Key(d) = <<d.rank>> /\ KeyLen = 1
    BY <1>3 DEF Key, KeyLen
  <2> QED BY <1>1, <2>1
<1>4. CASE config.ordering = "acl_aware"
  <2>1. Key(d) = <<d.breadth, d.group, d.rank>> /\ KeyLen = 3
    BY <1>4 DEF Key, KeyLen
  <2> QED BY <1>1, <2>1
<1>5. CASE config.ordering \notin {"retrieval", "acl_aware"}
  <2>1. KeyLen = 6
    BY <1>5 DEF KeyLen
  <2>2. \/ Key(d) = <<d.breadth, d.group, 0, -Bucket(d.id), d.id, 0>>
        \/ Key(d) = <<d.breadth, d.group, 1, 0, 0, d.rank>>
    BY <1>5 DEF Key
  <2>3. -Bucket(d.id) \in Int
    BY <1>2
  <2> HIDE DEF Bucket
  <2> QED BY <1>1, <2>1, <2>2, <2>3
<1> QED BY <1>3, <1>4, <1>5

(* Of two integer tuples of one length, at most one is the smaller.        *)
LEMMA LessOneWay ==
  ASSUME NEW n \in Nat, NEW a \in [1 .. n -> Int], NEW b \in [1 .. n -> Int], Less(a, b)
  PROVE  ~Less(b, a)
<1> SUFFICES ASSUME Less(b, a) PROVE FALSE
  OBVIOUS
<1>1. PICK i \in 1 .. n : a[i] < b[i] /\ \A k \in 1 .. i - 1 : a[k] = b[k]
  BY DEF Less
<1>2. PICK j \in 1 .. n : b[j] < a[j] /\ \A k \in 1 .. j - 1 : b[k] = a[k]
  BY DEF Less
<1>3. a[i] \in Int /\ b[i] \in Int /\ a[j] \in Int /\ b[j] \in Int
  OBVIOUS
<1>4. CASE i < j
  <2>1. i \in 1 .. j - 1
    BY <1>4
  <2> QED BY <1>1, <1>2, <1>3, <2>1
<1>5. CASE j < i
  <2>1. j \in 1 .. i - 1
    BY <1>5
  <2> QED BY <1>1, <1>2, <1>3, <2>1
<1>6. CASE i = j
  BY <1>1, <1>2, <1>3, <1>6
<1> QED BY <1>4, <1>5, <1>6

(* A document placed by its key precedes, from then on, no smaller key.    *)
LEMMA PlaceKeys ==
  ASSUME KeyInv, Place
  PROVE  Counted' /\ KeysLead'
<1>1. PICK d \in pending :
        /\ IF Due # {} THEN d \in Due /\ \A e \in Due : d.rank <= e.rank
           ELSE \A e \in pending \ {d} : Less(Key(d), Key(e))
        /\ placed' = Append(placed, d)
        /\ pending' = pending \ {d}
  BY DEF Place
<1>2. UNCHANGED <<config, docs, counts, pc>> /\ pc = "placing"
  BY DEF Place
<1>3. /\ Shift \in Nat /\ Position \in Nat /\ \A e \in docs : e.rank \in Nat
      /\ Shift' = Shift
  BY <1>2, ShiftNat DEF KeyInv, IInv, Shift
<1>4. /\ Len(placed') = Len(placed) + 1 /\ Len(placed) \in Nat
      /\ \A i \in 1 .. Len(placed) : placed'[i] = placed[i]
      /\ placed'[Len(placed) + 1] = d
  BY <1>1, AppendProperties, LenProperties DEF KeyInv, IInv, Locals
<1>5. \A e : Key(e)' = Key(e)
  <2>1. \A e : Hot(e.id)' = Hot(e.id) /\ Bucket(e.id)' = Bucket(e.id)
    BY <1>2 DEF Hot, Bucket
  <2> QED BY <1>2, <2>1 DEF Key
<1>6. \A i \in 1 .. Len(placed), e \in pending : Leads(i, e)
  BY <1>2 DEF KeyInv, KeysLead
<1>7. \A i, j \in 1 .. Len(placed) : i < j => Leads(i, placed[j])
  BY <1>2 DEF KeyInv, KeysLead
<1>8. \A i \in 1 .. Len(placed) : \A e : Leads(i, e) => Leads(i, e)'
  BY <1>3, <1>4, <1>5 DEF Leads
<1> PICK n \in Nat : n = Len(placed) + 1
  BY <1>4
<1>9. \A e \in pending \ {d} : Leads(n, e)'
  <2>1. CASE Due # {}
    <3>1. d \in docs /\ Position <= d.rank + Shift /\ d.rank + Shift <= Position
      BY <1>1, <2>1 DEF KeyInv, IInv, InTime, Locals, Due
    <3>2. d.rank + Shift = n - 1
      BY <1>3, <1>4, <3>1 DEF Position
    <3> QED BY <1>3, <1>4, <3>2 DEF Leads
  <2>2. CASE Due = {}
    <3> SUFFICES ASSUME NEW e \in pending, e # d PROVE Leads(n, e)'
      OBVIOUS
    <3>1. Less(Key(d), Key(e))
      BY <1>1, <2>2
    <3>2. d \in docs /\ e \in docs
      BY DEF KeyInv, IInv, Locals
    <3>3. ~Less(Key(e), Key(d))
      <4>1. /\ KeyLen \in Nat
            /\ Key(d) \in [1 .. KeyLen -> Int] /\ Key(e) \in [1 .. KeyLen -> Int]
        BY <3>2, KeyShape DEF KeyInv, IInv
      <4> HIDE DEF Less, Key, KeyLen
      <4> QED BY <3>1, <4>1, LessOneWay
    <3> QED BY <1>4, <1>5, <3>3 DEF Leads
  <2> QED BY <2>1, <2>2
<1>10. KeysLead'
  <2> SUFFICES ASSUME NEW i \in 1 .. Len(placed')
               PROVE  /\ \A e \in pending' : Leads(i, e)'
                      /\ \A j \in 1 .. Len(placed') : i < j => Leads(i, placed[j])'
    BY DEF KeysLead
  <2>1. CASE i \in 1 .. Len(placed)
    <3>1. \A e \in pending' : Leads(i, e)'
      BY <1>1, <1>6, <1>8, <2>1
    <3>2. ASSUME NEW j \in 1 .. Len(placed'), i < j PROVE Leads(i, placed[j])'
      <4>1. CASE j \in 1 .. Len(placed)
        <5>1. Leads(i, placed[j]) /\ placed'[j] = placed[j]
          BY <1>4, <1>7, <2>1, <3>2, <4>1
        <5> QED BY <1>8, <2>1, <5>1
      <4>2. CASE j = Len(placed) + 1
        <5>1. placed'[j] = d /\ Leads(i, d)
          BY <1>1, <1>4, <1>6, <2>1, <4>2
        <5> QED BY <1>8, <2>1, <5>1
      <4> QED BY <1>4, <4>1, <4>2
    <3> QED BY <3>1, <3>2
  <2>2. CASE i = n
    BY <1>1, <1>4, <1>9, <2>2
  <2> QED BY <1>4, <2>1, <2>2
<1> QED BY <1>2, <1>10 DEF KeyInv, Counted

(* Counts stay natural numbers when they decay.                            *)
LEMMA DecayNat ==
  ASSUME NEW a \in Nat, NEW b \in Nat, NEW c \in Nat \ {0}
  PROVE  (a * b) \div c \in Nat
<1>1. a * b \in Nat
  OBVIOUS
<1>2. \A x \in Nat : x \div c \in Nat
  OBVIOUS
<1> QED BY <1>1, <1>2

(* observe() changes the keys once no document waits for a place.          *)
LEMMA FinishKeys ==
  ASSUME KeyInv, Finish
  PROVE  Counted' /\ KeysLead'
<1>1. KeysLead'
  BY DEF Finish, KeysLead
<1>2. ASSUME NEW c \in Chunks PROVE Observed[c] \in Nat
  <2>1. counts[c] \in Nat /\ (counts[c] * DecayNum) \div DecayDen \in Nat
    BY DecayNat, PopularityAssumption DEF KeyInv, Counted
  <2> QED BY <2>1, PopularityAssumption DEF Observed
<1>3. Observed \in [Chunks -> Nat]
  BY <1>2 DEF Observed
<1> QED BY <1>1, <1>3 DEF Finish, Counted

(* The invariant holds of every behaviour.                                 *)
LEMMA KeySpec == OrderSpec => []KeyInv
<1>1. OrderInit => KeyInv
  <2> SUFFICES ASSUME OrderInit PROVE KeyInv
    OBVIOUS
  <2>1. IInv
    BY InitInv
  <2> QED BY <2>1 DEF OrderInit, KeyInv, Counted, KeysLead
<1>2. KeyInv /\ [OrderNext]_vars => KeyInv'
  <2> SUFFICES ASSUME KeyInv, [OrderNext]_vars PROVE Counted' /\ KeysLead'
    BY NextInv DEF KeyInv
  <2>1. CASE \E D \in Retrievals : Order(D)
    <3>1. Len(placed') = 0 /\ counts' = counts
      BY <2>1, EmptySeq DEF Order
    <3> QED BY <3>1 DEF KeyInv, KeysLead, Counted
  <2>2. CASE Place
    BY <2>2, PlaceKeys
  <2>3. CASE Finish
    BY <2>3, FinishKeys
  <2>4. CASE UNCHANGED vars
    <3>1. Shift' = Shift /\ \A e : Key(e)' = Key(e)
      <4>1. \A e : Hot(e.id)' = Hot(e.id) /\ Bucket(e.id)' = Bucket(e.id)
        BY <2>4 DEF vars, Hot, Bucket
      <4> QED BY <2>4, <4>1 DEF vars, Shift, Key
    <3>2. \A i, e : Leads(i, e)' <=> Leads(i, e)
      BY <2>4, <3>1 DEF vars, Leads
    <3> QED BY <2>4, <3>2 DEF vars, KeyInv, KeysLead, Counted
  <2> QED BY <2>1, <2>2, <2>3, <2>4 DEF OrderNext
<1> QED BY <1>1, <1>2, PTL DEF OrderSpec

(* Where a document precedes one with a smaller key, it was placed at the  *)
(* last position that max_shift allows it, whatever the keys.              *)
THEOREM KeysRuleOtherwise == OrderSpec => []OnlyDeadlinesBreakOrder
<1>1. KeyInv => OnlyDeadlinesBreakOrder
  BY DEF KeyInv, KeysLead, Leads, OnlyDeadlinesBreakOrder
<1> QED BY <1>1, KeySpec, PTL

-----------------------------------------------------------------------------
(* The prompt that the anchor leaves.                                      *)

(* The anchored documents, each once, from the least relevant to the most. *)
LEMMA AscendingOrder ==
  ASSUME NEW D, IsFiniteSet(D),
         \A d \in D : d.rank \in Nat,
         \A d, e \in D : d # e => d.rank # e.rank,
         NEW f, f = Ascending(D)
  PROVE  /\ f \in Seq(D) /\ Len(f) = Cardinality(D)
         /\ IsInjective(f) /\ Range(f) = D
         /\ \A i, j \in 1 .. Len(f) : i < j => f[j].rank < f[i].rank
<1> DEFINE n        == Cardinality(D)
           Above(d) == {e \in D : e.rank > d.rank}
           r        == [d \in D |-> Cardinality(Above(d)) + 1]
<1>1. n \in Nat
  BY FS_CardinalityType
<1>2. ASSUME NEW d \in D PROVE Cardinality(Above(d)) \in 0 .. n - 1
  <2>1. Above(d) \in SUBSET D /\ d \notin Above(d)
    OBVIOUS
  <2>2. /\ IsFiniteSet(Above(d)) /\ Cardinality(Above(d)) <= n
        /\ Cardinality(Above(d)) # n
    BY <2>1, FS_Subset
  <2>3. Cardinality(Above(d)) \in Nat
    BY <2>2, FS_CardinalityType
  <2> QED BY <1>1, <2>2, <2>3
<1>3. ASSUME NEW d \in D, NEW e \in D, d.rank > e.rank
      PROVE  Cardinality(Above(d)) < Cardinality(Above(e))
  <2>1. Above(d) \in SUBSET Above(e) /\ d \in Above(e) /\ d \notin Above(d)
    BY <1>3
  <2>2. IsFiniteSet(Above(e))
    BY FS_Subset
  <2>3. /\ Cardinality(Above(d)) <= Cardinality(Above(e))
        /\ Cardinality(Above(d)) # Cardinality(Above(e))
    BY <2>1, <2>2, FS_Subset
  <2>4. Cardinality(Above(d)) \in Int /\ Cardinality(Above(e)) \in Int
    BY <1>2
  <2> QED BY <2>3, <2>4
<1> HIDE DEF Above
<1>4. ASSUME NEW d \in D, NEW e \in D, Cardinality(Above(d)) = Cardinality(Above(e))
      PROVE  d = e
  <2>1. Cardinality(Above(d)) \in Int
    BY <1>2
  <2>2. ~(d.rank > e.rank) /\ ~(e.rank > d.rank)
    BY <1>3, <1>4, <2>1
  <2>3. d.rank \in Nat /\ e.rank \in Nat
    OBVIOUS
  <2>4. d.rank = e.rank
    BY <2>2, <2>3
  <2> QED BY <2>4
<1> HIDE DEF n
<1>5. r \in Injection(D, 1 .. n)
  <2>1. r \in [D -> 1 .. n]
    BY <1>1, <1>2
  <2>2. ASSUME NEW d \in D, NEW e \in D, r[d] = r[e] PROVE d = e
    <3>1. Cardinality(Above(d)) \in Int /\ Cardinality(Above(e)) \in Int
      BY <1>2
    <3>2. Cardinality(Above(d)) + 1 = Cardinality(Above(e)) + 1
      BY <2>2
    <3>3. Cardinality(Above(d)) = Cardinality(Above(e))
      BY <3>1, <3>2
    <3> QED BY <1>4, <3>3
  <2> QED BY <2>1, <2>2 DEF Injection, IsInjective
<1>6. r \in Surjection(D, 1 .. n)
  <2>1. IsFiniteSet(1 .. n) /\ Cardinality(1 .. n) = n
    BY <1>1, FS_Interval
  <2> HIDE DEF r
  <2> QED BY <1>1, <1>5, <2>1, FS_Injection DEF n
<1>7. \A i \in 1 .. n : \E d \in D : Cardinality(Above(d)) = i - 1
  <2> SUFFICES ASSUME NEW i \in 1 .. n PROVE \E d \in D : Cardinality(Above(d)) = i - 1
    OBVIOUS
  <2>1. PICK d \in D : r[d] = i
    BY <1>6 DEF Surjection
  <2>2. Cardinality(Above(d)) \in Int
    BY <1>2
  <2> QED BY <2>1, <2>2
<1>8. f = [i \in 1 .. n |-> CHOOSE d \in D : Cardinality(Above(d)) = i - 1]
  BY DEF Ascending, Above, n
<1>9. \A i \in 1 .. n : f[i] \in D /\ Cardinality(Above(f[i])) = i - 1
  BY <1>7, <1>8
<1>10. f \in [1 .. n -> D]
  BY <1>8, <1>9
<1>11. f \in Seq(D) /\ Len(f) = n /\ DOMAIN f = 1 .. n
  BY <1>1, <1>10, IsASeq, LenProperties, SeqDef
<1>12. IsInjective(f)
  <2>1. \A i, j \in 1 .. n : i - 1 = j - 1 => i = j
    BY <1>1
  <2> QED BY <1>9, <1>11, <2>1 DEF IsInjective
<1>13. Range(f) = D
  <2>1. Range(f) \subseteq D
    BY <1>9, <1>11 DEF Range
  <2>2. ASSUME NEW d \in D PROVE d \in Range(f)
    <3>1. PICK i \in 1 .. n : i - 1 = Cardinality(Above(d))
      <4>1. Cardinality(Above(d)) + 1 \in 1 .. n
        BY <1>1, <1>2
      <4>2. (Cardinality(Above(d)) + 1) - 1 = Cardinality(Above(d))
        BY <1>2
      <4> QED BY <4>1, <4>2
    <3>2. f[i] = d
      BY <1>4, <1>9, <3>1
    <3> QED BY <1>11, <3>2 DEF Range
  <2> QED BY <2>1, <2>2
<1>14. ASSUME NEW i \in 1 .. n, NEW j \in 1 .. n, i < j PROVE f[j].rank < f[i].rank
  <2>1. f[i] \in D /\ f[j] \in D /\ f[i].rank \in Nat /\ f[j].rank \in Nat
    BY <1>9
  <2>2. Cardinality(Above(f[i])) = i - 1 /\ Cardinality(Above(f[j])) = j - 1
    BY <1>9
  <2>3. f[i] # f[j]
    BY <1>1, <1>14, <2>2
  <2>4. ~(f[j].rank > f[i].rank)
    <3>1. ~(j - 1 < i - 1)
      BY <1>1, <1>14
    <3> QED BY <1>3, <2>1, <2>2, <3>1
  <2>5. f[j].rank # f[i].rank
    BY <2>1, <2>3
  <2> QED BY <2>1, <2>4, <2>5
<1> QED BY <1>11, <1>12, <1>13, <1>14 DEF n

(* Each document of the request waits or is placed, once; the finished     *)
(* prompt is as BestNextToQuestion says until the next request comes.      *)
PlacedOnce == IsInjective(placed) /\ Range(placed) = docs \ pending

PromptInv == IInv /\ PlacedOnce /\ BestNextToQuestion

(* A request's documents are finitely many and ranked apart.               *)
LEMMA RanksApart ==
  ASSUME Locals
  PROVE  /\ IsFiniteSet(docs) /\ \A d \in docs : d.rank \in Nat
         /\ \A d, e \in docs : d # e => d.rank # e.rank
<1>1. CASE docs = {}
  BY <1>1, FS_EmptySet
<1>2. CASE docs \in Retrievals
  <2>1. IsFiniteSet(docs) /\ docs \subseteq Doc
    BY <1>2, RetrievalAssumption
  <2>2. \A d, e \in docs : d # e => d.rank # e.rank
    BY <1>2, RetrievalAssumption
  <2>3. \A d \in Doc : d.rank \in Nat
    BY DEF Doc
  <2> QED BY <2>1, <2>2, <2>3
<1> QED BY <1>1, <1>2 DEF Locals

(* Placing a document keeps each of them once.                             *)
LEMMA PlaceOnce ==
  ASSUME Locals, PlacedOnce, Place
  PROVE  PlacedOnce'
<1>1. PICK d \in pending : placed' = Append(placed, d) /\ pending' = pending \ {d}
  BY DEF Place
<1>2. docs' = docs /\ d \in docs /\ placed \in Seq(docs) /\ pending \in SUBSET docs
  BY <1>1 DEF Place, Locals
<1>3. /\ Len(placed) \in Nat /\ DOMAIN placed = 1 .. Len(placed)
      /\ DOMAIN placed' = 1 .. Len(placed) + 1
      /\ \A i \in 1 .. Len(placed) : placed'[i] = placed[i]
      /\ placed'[Len(placed) + 1] = d
  BY <1>1, <1>2, AppendProperties, LenProperties
<1>4. Range(placed') = Range(placed) \cup {d}
  BY <1>3 DEF Range
<1>5. d \notin Range(placed)
  BY DEF PlacedOnce
<1>6. IsInjective(placed')
  <2>1. \A i \in 1 .. Len(placed) : placed[i] # d
    BY <1>3, <1>5 DEF Range
  <2>2. \A i, j \in 1 .. Len(placed) : placed[i] = placed[j] => i = j
    BY <1>3 DEF PlacedOnce, IsInjective
  <2>3. \A i \in 1 .. Len(placed) + 1 : i \in 1 .. Len(placed) \/ i = Len(placed) + 1
    BY <1>3
  <2> QED BY <1>3, <2>1, <2>2, <2>3 DEF IsInjective
<1> QED BY <1>1, <1>2, <1>4, <1>6 DEF PlacedOnce

(* The anchor only moves documents, and moves the most relevant last.      *)
LEMMA AnchorKeeps ==
  ASSUME Locals, PlacedOnce, pending = {}, NEW f, f = Anchor(placed)
  PROVE  /\ Len(f) = Cardinality(docs) /\ Range(f) = docs
         /\ \A k, m \in 1 .. Len(f) :
              k < m /\ f[k] \in Anchored => f[m].rank < f[k].rank
<1> DEFINE A == Anchored
           s == Filtered(placed, docs \ A)
           t == Ascending(A)
<1>1. A \subseteq docs
  BY DEF Anchored
<1> HIDE DEF A
<1>2. placed \in Seq(docs) /\ IsInjective(placed) /\ Range(placed) = docs
  BY DEF Locals, PlacedOnce
<1>3. s \in Seq(docs) /\ Range(s) = docs \ A /\ IsInjective(s)
  BY <1>1, <1>2, FilteredKeeps
<1>4. IsFiniteSet(A) /\ \A d \in A : d.rank \in Nat
  BY <1>1, RanksApart, FS_Subset
<1>5. \A d, e \in A : d # e => d.rank # e.rank
  BY <1>1, RanksApart
<1>6. /\ t \in Seq(A) /\ IsInjective(t) /\ Range(t) = A
      /\ \A i, j \in 1 .. Len(t) : i < j => t[j].rank < t[i].rank
  BY <1>4, <1>5, AscendingOrder
<1>7. t \in Seq(docs)
  BY <1>1, <1>6, SeqDef
<1>8. f = s \o t
  BY DEF Anchor, A
<1> HIDE DEF s, t
<1>9. f \in Seq(docs) /\ IsInjective(f) /\ Range(f) = docs
  <2>1. Range(s) \cap Range(t) = {} /\ Range(s) \cup Range(t) = docs
    BY <1>1, <1>3, <1>6
  <2>2. /\ s \o t \in Seq(docs) /\ IsInjective(s \o t)
        /\ Range(s \o t) = Range(s) \cup Range(t)
    BY <1>3, <1>6, <1>7, <2>1, ConcatDistinct
  <2> QED BY <1>8, <2>1, <2>2
<1>10. Len(f) = Cardinality(docs)
  BY <1>9, DistinctLength
<1>11. /\ Len(s) \in Nat /\ Len(t) \in Nat /\ Len(f) = Len(s) + Len(t)
       /\ \A k \in 1 .. Len(f) : f[k] = IF k <= Len(s) THEN s[k] ELSE t[k - Len(s)]
  BY <1>3, <1>7, <1>8, ConcatProperties, LenProperties
<1>12. ASSUME NEW k \in 1 .. Len(f), NEW m \in 1 .. Len(f), k < m, f[k] \in A
       PROVE  f[m].rank < f[k].rank
  <2>1. ~(k <= Len(s))
    <3> SUFFICES ASSUME k <= Len(s) PROVE FALSE
      OBVIOUS
    <3>1. k \in 1 .. Len(s) /\ f[k] = s[k]
      BY <1>11
    <3>2. s[k] \in Range(s)
      BY <1>3, <3>1, LenProperties DEF Range
    <3> QED BY <1>3, <1>12, <3>1, <3>2
  <2>2. ~(m <= Len(s))
    BY <1>11, <1>12, <2>1
  <2>3. f[k] = t[k - Len(s)] /\ f[m] = t[m - Len(s)]
    BY <1>11, <2>1, <2>2
  <2>4. /\ k - Len(s) \in 1 .. Len(t) /\ m - Len(s) \in 1 .. Len(t)
        /\ k - Len(s) < m - Len(s)
    BY <1>11, <1>12, <2>1, <2>2
  <2> QED BY <1>6, <2>3, <2>4
<1> QED BY <1>9, <1>10, <1>12 DEF A

(* For every request and configuration the prompt holds each authorized    *)
(* document once, and an anchored document is followed by better ones only.*)
THEOREM PromptIsWhole == OrderSpec => []BestNextToQuestion
<1>1. OrderInit => PromptInv
  <2> SUFFICES ASSUME OrderInit PROVE PromptInv
    OBVIOUS
  <2>1. IInv
    BY InitInv
  <2>2. Len(<<>>) = 0 /\ Range(<<>>) = {}
    BY DEF Range
  <2>3. PlacedOnce
    BY <2>2 DEF OrderInit, PlacedOnce, IsInjective
  <2>4. BestNextToQuestion
    BY <2>2, FS_EmptySet DEF OrderInit, BestNextToQuestion
  <2> QED BY <2>1, <2>3, <2>4 DEF PromptInv
<1>2. PromptInv /\ [OrderNext]_vars => PromptInv'
  <2> SUFFICES ASSUME PromptInv, [OrderNext]_vars PROVE PlacedOnce' /\ BestNextToQuestion'
    BY NextInv DEF PromptInv
  <2>1. CASE \E D \in Retrievals : Order(D)
    <3>1. placed' = <<>> /\ pending' = docs' /\ pc' = "placing"
      BY <2>1 DEF Order
    <3>2. Range(<<>>) = {} /\ IsInjective(<<>>)
      BY DEF Range, IsInjective
    <3>3. docs' \ docs' = {}
      OBVIOUS
    <3> QED BY <3>1, <3>2, <3>3 DEF PlacedOnce, BestNextToQuestion
  <2>2. CASE Place
    <3>1. pc' = "placing"
      BY <2>2 DEF Place
    <3>2. PlacedOnce'
      BY <2>2, PlaceOnce DEF PromptInv, IInv
    <3> QED BY <3>1, <3>2 DEF BestNextToQuestion
  <2>3. CASE Finish
    <3>1. UNCHANGED <<config, docs, pending, placed>> /\ pending = {} /\ order' = Anchor(placed)
      BY <2>3 DEF Finish
    <3>2. PlacedOnce'
      BY <3>1 DEF PlacedOnce, PromptInv
    <3>3. /\ Len(order') = Cardinality(docs) /\ Range(order') = docs
          /\ \A k, m \in 1 .. Len(order') :
               k < m /\ order'[k] \in Anchored => order'[m].rank < order'[k].rank
      BY <3>1, AnchorKeeps DEF PromptInv, IInv
    <3>4. Anchored' = Anchored
      BY <3>1 DEF Anchored
    <3>5. BestNextToQuestion'
      BY <3>1, <3>3, <3>4 DEF BestNextToQuestion
    <3> QED BY <3>2, <3>5
  <2>4. CASE UNCHANGED vars
    <3>1. Anchored' = Anchored
      BY <2>4 DEF vars, Anchored
    <3> QED BY <2>4, <3>1 DEF vars, PromptInv, PlacedOnce, BestNextToQuestion
  <2> QED BY <2>1, <2>2, <2>3, <2>4 DEF OrderNext
<1>3. PromptInv => BestNextToQuestion
  BY DEF PromptInv
<1> QED BY <1>1, <1>2, <1>3, PTL DEF OrderSpec

-----------------------------------------------------------------------------
(* ACLs.                                                                   *)

GroupLists == (SUBSET {GroupAtom(g) : g \in Groups}) \ {{}}

(* The kinds of atoms do not mix.                                          *)
LEMMA AtomKinds ==
  /\ PublicAtom.kind = "public"
  /\ \A g : GroupAtom(g).kind = "group" /\ GroupAtom(g).name = g
  /\ \A u : UserAtom(u).kind = "user" /\ UserAtom(u).name = u
  /\ "public" # "group" /\ "public" # "user" /\ "group" # "user"
BY DEF PublicAtom, GroupAtom, UserAtom

(* The canonical form, by the kinds of atoms there are: one user, else the *)
(* groups, else public.                                                    *)
LEMMA OfKinds ==
  ASSUME NEW atoms
  PROVE  /\ UserAtoms(atoms) = {} /\ GroupAtoms(atoms) # {} => Of(atoms) = GroupAtoms(atoms)
         /\ UserAtoms(atoms) = {} /\ GroupAtoms(atoms) = {} => Of(atoms) = Public
         /\ \A a : UserAtoms(atoms) = {a} => Of(atoms) = {a}
<1>1. UserAtoms(atoms) = {} => ~ \E a, b \in UserAtoms(atoms) : a # b
  OBVIOUS
<1>2. \A a : UserAtoms(atoms) = {a} => (~ \E x, y \in UserAtoms(atoms) : x # y) /\ UserAtoms(atoms) # {}
  OBVIOUS
<1> QED BY <1>1, <1>2 DEF Of

(* A list of groups has group atoms only.                                  *)
LEMMA GroupListKinds ==
  ASSUME NEW G \in GroupLists
  PROVE  UserAtoms(G) = {} /\ GroupAtoms(G) = G /\ G # {} /\ PublicAtom \notin G
<1>1. G \in SUBSET {GroupAtom(g) : g \in Groups} /\ G # {}
  BY DEF GroupLists
<1>2. \A a \in G : a.kind = "group"
  BY <1>1, AtomKinds
<1> QED BY <1>1, <1>2, AtomKinds DEF UserAtoms, GroupAtoms

(* A canonical ACL has one of four forms.                                  *)
LEMMA CanonicalForms ==
  ASSUME NEW acl \in Canonical
  PROVE  \/ acl = Empty
         \/ acl = Public
         \/ acl \in GroupLists
         \/ \E u \in Users : acl = {UserAtom(u)}
<1>1. PICK atoms \in SUBSET Atoms : acl = Of(atoms)
  BY DEF Canonical
<1>2. \A a \in UserAtoms(atoms) : \E u \in Users : a = UserAtom(u)
  BY <1>1, AtomKinds DEF UserAtoms, Atoms
<1>3. GroupAtoms(atoms) \in SUBSET {GroupAtom(g) : g \in Groups}
  BY <1>1, AtomKinds DEF GroupAtoms, Atoms
<1>4. CASE \E a, b \in UserAtoms(atoms) : a # b
  BY <1>1, <1>4 DEF Of
<1>5. CASE ~(\E a, b \in UserAtoms(atoms) : a # b) /\ UserAtoms(atoms) # {}
  <2>1. PICK a \in UserAtoms(atoms) : UserAtoms(atoms) = {a}
    BY <1>5
  <2> QED BY <1>1, <1>2, <1>5, <2>1 DEF Of
<1>6. CASE UserAtoms(atoms) = {}
  BY <1>1, <1>3, <1>6, OfKinds DEF GroupLists
<1> QED BY <1>4, <1>5, <1>6

(* Whom each form lets in.                                                 *)
LEMMA AllowsByForm ==
  ASSUME NEW u
  PROVE  /\ ~Allows(Empty, u)
         /\ Allows(Public, u)
         /\ \A w : Allows({UserAtom(w)}, u) <=> u = w
         /\ \A acl \in GroupLists : Allows(acl, u) <=> \A a \in acl : a.name \in Membership[u]
<1>1. ~Allows(Empty, u) /\ Allows(Public, u)
  BY DEF Allows, Empty, Public
<1>2. ASSUME NEW w PROVE Allows({UserAtom(w)}, u) <=> u = w
  <2>1. UserAtoms({UserAtom(w)}) # {} /\ {UserAtom(w)} # Empty /\ {UserAtom(w)} # Public
    BY AtomKinds DEF UserAtoms, Empty, Public
  <2>2. UserAtom(u) \in {UserAtom(w)} <=> u = w
    BY AtomKinds
  <2> QED BY <2>1, <2>2 DEF Allows
<1>3. ASSUME NEW acl \in GroupLists
      PROVE  Allows(acl, u) <=> \A a \in acl : a.name \in Membership[u]
  <2>1. \A a \in acl : a.kind = "group"
    BY AtomKinds DEF GroupLists
  <2>2. acl # Empty /\ acl # Public /\ UserAtom(u) \notin acl /\ UserAtoms(acl) = {} /\ GroupAtoms(acl) = acl
    <3>1. UserAtom(u) \notin acl
      BY <2>1, AtomKinds
    <3> QED BY <3>1, GroupListKinds DEF Empty, Public
  <2> QED BY <2>2 DEF Allows
<1> QED BY <1>1, <1>2, <1>3

(* What the union of two canonical ACLs is normalised to.                  *)
LEMMA UnionForms ==
  /\ Of(Public \cup Public) = Public
  /\ \A G \in GroupLists : Of(Public \cup G) = G /\ Of(G \cup Public) = G
  /\ \A G, H \in GroupLists : Of(G \cup H) = G \cup H /\ G \cup H \in GroupLists
  /\ \A u : Of(Public \cup {UserAtom(u)}) = {UserAtom(u)} /\ Of({UserAtom(u)} \cup Public) = {UserAtom(u)}
  /\ \A u : \A G \in GroupLists : Of(G \cup {UserAtom(u)}) = {UserAtom(u)} /\ Of({UserAtom(u)} \cup G) = {UserAtom(u)}
  /\ \A u : Of({UserAtom(u)} \cup {UserAtom(u)}) = {UserAtom(u)}
<1>1. UserAtoms(Public) = {} /\ GroupAtoms(Public) = {}
  BY AtomKinds DEF UserAtoms, GroupAtoms, Public
<1>2. \A G \in GroupLists : UserAtoms(G) = {} /\ GroupAtoms(G) = G /\ G # {}
  BY GroupListKinds
<1>3. \A u : UserAtoms({UserAtom(u)}) = {UserAtom(u)} /\ GroupAtoms({UserAtom(u)}) = {}
  BY AtomKinds DEF UserAtoms, GroupAtoms
<1>4. \A A, B : UserAtoms(A \cup B) = UserAtoms(A) \cup UserAtoms(B) /\ GroupAtoms(A \cup B) = GroupAtoms(A) \cup GroupAtoms(B)
  BY DEF UserAtoms, GroupAtoms
<1>5. Of(Public \cup Public) = Public
  BY <1>1, <1>4, OfKinds
<1>6. \A G \in GroupLists : Of(Public \cup G) = G /\ Of(G \cup Public) = G
  <2>1. ASSUME NEW G \in GroupLists, NEW A, A = Public \cup G PROVE Of(A) = G
    <3>1. UserAtoms(A) = {} /\ GroupAtoms(A) = G /\ GroupAtoms(A) # {}
      <4>1. /\ UserAtoms(A) = UserAtoms(Public) \cup UserAtoms(G)
            /\ GroupAtoms(A) = GroupAtoms(Public) \cup GroupAtoms(G)
        BY <1>4, <2>1
      <4>2. UserAtoms(G) = {} /\ GroupAtoms(G) = G /\ G # {}
        BY <1>2
      <4> QED BY <1>1, <4>1, <4>2
    <3> QED BY <3>1, OfKinds
  <2>2. \A G : G \cup Public = Public \cup G
    OBVIOUS
  <2> QED BY <2>1, <2>2
<1>7. \A G, H \in GroupLists : Of(G \cup H) = G \cup H /\ G \cup H \in GroupLists
  <2>1. \A G, H \in GroupLists : G \cup H \in GroupLists
    BY DEF GroupLists
  <2> QED BY <1>2, <1>4, <2>1, OfKinds
<1>8. \A u : Of(Public \cup {UserAtom(u)}) = {UserAtom(u)} /\ Of({UserAtom(u)} \cup Public) = {UserAtom(u)}
  <2>1. ASSUME NEW u, NEW A, A = Public \cup {UserAtom(u)} PROVE Of(A) = {UserAtom(u)}
    <3>1. UserAtoms(A) = {UserAtom(u)}
      <4>1. UserAtoms(A) = UserAtoms(Public) \cup UserAtoms({UserAtom(u)})
        BY <1>4, <2>1
      <4> QED BY <1>1, <1>3, <4>1
    <3> QED BY <3>1, OfKinds
  <2>2. \A G : G \cup Public = Public \cup G
    OBVIOUS
  <2> QED BY <2>1, <2>2
<1>9. \A u : \A G \in GroupLists : Of(G \cup {UserAtom(u)}) = {UserAtom(u)} /\ Of({UserAtom(u)} \cup G) = {UserAtom(u)}
  <2>1. ASSUME NEW u, NEW G \in GroupLists, NEW A, A = G \cup {UserAtom(u)} PROVE Of(A) = {UserAtom(u)}
    <3>1. UserAtoms(A) = {UserAtom(u)}
      <4>1. UserAtoms(A) = UserAtoms(G) \cup UserAtoms({UserAtom(u)})
        BY <1>4, <2>1
      <4> QED BY <1>2, <1>3, <4>1
    <3> QED BY <3>1, OfKinds
  <2>2. \A G, H : G \cup H = H \cup G
    OBVIOUS
  <2> QED BY <2>1, <2>2
<1>10. \A u : Of({UserAtom(u)} \cup {UserAtom(u)}) = {UserAtom(u)}
  BY <1>3, <1>4, OfKinds
<1> QED BY <1>5, <1>6, <1>7, <1>8, <1>9, <1>10

(* ACL.intersect is exact on prefixes that someone may read: although a    *)
(* user atom drops the group atoms beside it, the result lets in a user if *)
(* and only if both operands do.                                           *)
THEOREM IntersectExact ==
  ASSUME NEW acl \in Canonical, NEW other \in Canonical,
         NEW v, Allows(acl, v), Allows(other, v), NEW u
  PROVE  Allows(Intersect(acl, other), u) <=> Allows(acl, u) /\ Allows(other, u)
<1>1. acl # Empty /\ other # Empty
  BY AllowsByForm
<1>2. Intersect(acl, other) = Of(acl \cup other)
  BY <1>1 DEF Intersect
<1>3. CASE acl = Public
  <2>1. Of(acl \cup other) = other
    BY <1>1, <1>3, CanonicalForms, UnionForms
  <2> QED BY <1>2, <1>3, <2>1, AllowsByForm
<1>4. CASE other = Public
  <2>1. Of(acl \cup other) = acl
    BY <1>1, <1>4, CanonicalForms, UnionForms
  <2> QED BY <1>2, <1>4, <2>1, AllowsByForm
<1>5. CASE acl \in GroupLists /\ other \in GroupLists
  <2>1. Of(acl \cup other) = acl \cup other /\ acl \cup other \in GroupLists
    BY <1>5, UnionForms
  <2>2. Allows(acl \cup other, u) <=> \A a \in acl \cup other : a.name \in Membership[u]
    BY <2>1, AllowsByForm
  <2>3. Allows(acl, u) <=> \A a \in acl : a.name \in Membership[u]
    BY <1>5, AllowsByForm
  <2>4. Allows(other, u) <=> \A a \in other : a.name \in Membership[u]
    BY <1>5, AllowsByForm
  <2> QED BY <1>2, <2>1, <2>2, <2>3, <2>4
<1>6. ASSUME NEW w \in Users, acl = {UserAtom(w)} PROVE Allows(Of(acl \cup other), u) <=> Allows(acl, u) /\ Allows(other, u)
  <2>1. w = v /\ (Allows(acl, u) <=> u = v)
    BY <1>6, AllowsByForm
  <2>2. Of(acl \cup other) = acl
    <3>1. CASE other \in GroupLists \/ other = Public
      BY <1>6, <3>1, UnionForms
    <3>2. ASSUME NEW x \in Users, other = {UserAtom(x)} PROVE Of(acl \cup other) = acl
      <4>1. x = v
        BY <3>2, AllowsByForm
      <4> QED BY <1>6, <2>1, <3>2, <4>1, UnionForms
    <3> QED BY <1>1, <3>1, <3>2, CanonicalForms
  <2> QED BY <2>1, <2>2
<1>7. ASSUME NEW w \in Users, other = {UserAtom(w)} PROVE Allows(Of(acl \cup other), u) <=> Allows(acl, u) /\ Allows(other, u)
  <2>1. w = v /\ (Allows(other, u) <=> u = v)
    BY <1>7, AllowsByForm
  <2>2. Of(acl \cup other) = other
    <3>1. CASE acl \in GroupLists \/ acl = Public
      BY <1>7, <3>1, UnionForms
    <3>2. ASSUME NEW x \in Users, acl = {UserAtom(x)} PROVE Of(acl \cup other) = other
      <4>1. x = v
        BY <3>2, AllowsByForm
      <4> QED BY <1>7, <2>1, <3>2, <4>1, UnionForms
    <3> QED BY <1>1, <3>1, <3>2, CanonicalForms
  <2> QED BY <2>1, <2>2
<1>8. /\ acl = Public \/ acl \in GroupLists \/ \E w \in Users : acl = {UserAtom(w)}
      /\ other = Public \/ other \in GroupLists \/ \E w \in Users : other = {UserAtom(w)}
  BY <1>1, CanonicalForms
<1> QED BY <1>2, <1>3, <1>4, <1>5, <1>6, <1>7, <1>8

-----------------------------------------------------------------------------
(* Lists put together from parts.                                          *)

(* A concatenation, position by position.                                  *)
LEMMA ConcatAt ==
  ASSUME NEW T, NEW s \in Seq(T), NEW t \in Seq(T)
  PROVE  /\ s \o t \in Seq(T) /\ Len(s) \in Nat /\ Len(t) \in Nat
         /\ Len(s \o t) = Len(s) + Len(t)
         /\ \A i \in 1 .. Len(s) : (s \o t)[i] = s[i]
         /\ \A i \in 1 .. Len(t) : (s \o t)[Len(s) + i] = t[i]
<1>1. Len(s) \in Nat /\ Len(t) \in Nat
  OBVIOUS
<1>2. /\ s \o t \in Seq(T) /\ Len(s \o t) = Len(s) + Len(t)
      /\ \A i \in 1 .. Len(s) + Len(t) : (s \o t)[i] = IF i <= Len(s) THEN s[i] ELSE t[i - Len(s)]
  BY ConcatProperties
<1>3. ASSUME NEW i \in 1 .. Len(s) PROVE (s \o t)[i] = s[i]
  <2>1. i \in 1 .. Len(s) + Len(t) /\ i <= Len(s)
    BY <1>1
  <2> QED BY <1>2, <2>1
<1>4. ASSUME NEW i \in 1 .. Len(t) PROVE (s \o t)[Len(s) + i] = t[i]
  <2> DEFINE j == Len(s) + i
  <2>1. j \in 1 .. Len(s) + Len(t) /\ ~(j <= Len(s)) /\ j - Len(s) = i
    BY <1>1
  <2> HIDE DEF j
  <2>2. (s \o t)[j] = t[i]
    BY <1>2, <2>1
  <2> QED BY <2>2 DEF j
<1> QED BY <1>1, <1>2, <1>3, <1>4

(* Where each part of a concatenation ends.                                *)
Ends(parts, e) ==
  /\ e \in [0 .. Len(parts) -> Nat]
  /\ e[0] = 0
  /\ \A k \in 1 .. Len(parts) : e[k] = e[k - 1] + Len(parts[k])

(* The ends of later parts come later.                                     *)
LEMMA EndsGrow ==
  ASSUME NEW T, NEW parts \in Seq(Seq(T)), NEW e, Ends(parts, e)
  PROVE  /\ Len(parts) \in Nat
         /\ \A k \in 1 .. Len(parts) : parts[k] \in Seq(T) /\ Len(parts[k]) \in Nat
         /\ \A k \in 0 .. Len(parts) : \A j \in 0 .. k : e[j] <= e[k]
<1> DEFINE n == Len(parts)
           S == {k \in Nat : k <= n => \A j \in 0 .. k : e[j] <= e[k]}
<1>1. n \in Nat /\ \A k \in 1 .. n : parts[k] \in Seq(T) /\ Len(parts[k]) \in Nat
  OBVIOUS
<1> HIDE DEF n
<1>2. /\ e \in [0 .. n -> Nat] /\ e[0] = 0
      /\ \A k \in 1 .. n : e[k] = e[k - 1] + Len(parts[k])
  BY DEF Ends, n
<1>3. 0 \in S
  BY <1>1, <1>2
<1>4. ASSUME NEW k \in Nat, k \in S PROVE k + 1 \in S
  <2> SUFFICES ASSUME k + 1 <= n, NEW j \in 0 .. k + 1 PROVE e[j] <= e[k + 1]
    OBVIOUS
  <2>1. k + 1 \in 1 .. n /\ (k + 1) - 1 = k
    BY <1>1
  <2>2. e[k + 1] = e[k] + Len(parts[k + 1]) /\ Len(parts[k + 1]) \in Nat
    BY <1>1, <1>2, <2>1
  <2>3. e[k] \in Nat /\ e[j] \in Nat
    BY <1>1, <1>2
  <2>4. CASE j \in 0 .. k
    BY <1>1, <1>4, <2>2, <2>3, <2>4
  <2>5. CASE j = k + 1
    BY <2>3, <2>5
  <2> QED BY <2>4, <2>5
<1>5. Nat \subseteq S
  <2> HIDE DEF S
  <2> QED BY <1>3, <1>4, Induction
<1> QED BY <1>1, <1>5 DEF n

(* FlattenSeq unfolds part by part.                                        *)
LEMMA FlattenSteps ==
  ASSUME NEW T, NEW parts \in Seq(Seq(T)), parts # <<>>
  PROVE  \E f \in [0 .. Len(parts) -> Seq(T)] :
           /\ f[0] = <<>>
           /\ \A k \in 1 .. Len(parts) : f[k] = f[k - 1] \o parts[k]
           /\ FlattenSeq(parts) = f[Len(parts)]
<1> DEFINE n    == Len(parts)
           step == [x \in Seq(T) \X (1 .. n) |-> x[1] \o parts[x[2]]]
<1>1. n \in Nat /\ n # 0 /\ \A k \in 1 .. n : parts[k] \in Seq(T)
  OBVIOUS
<1> HIDE DEF n
<1>2. \A x \in Seq(T) : \A k \in 1 .. n : <<x, k>> \in Seq(T) \X (1 .. n) /\ step[<<x, k>>] = x \o parts[k]
  OBVIOUS
<1>3. step \in [Seq(T) \X (1 .. n) -> Seq(T)] /\ <<>> \in Seq(T)
  <2>1. ASSUME NEW x \in Seq(T) \X (1 .. n) PROVE x[1] \o parts[x[2]] \in Seq(T)
    <3>1. x[1] \in Seq(T) /\ parts[x[2]] \in Seq(T)
      BY <1>1
    <3> QED BY <3>1, ConcatProperties
  <2> QED BY <2>1
<1> HIDE DEF step
<1>4. PICK f \in [0 .. n -> Seq(T)] : f[0] = <<>> /\ \A k \in 1 .. n : f[k] = step[<<f[k - 1], k>>]
  <2>1. PICK f : Iterates(f, n, Seq(T), <<>>, step)
    BY <1>1, <1>3, Recursion
  <2> QED BY <2>1 DEF Iterates
<1>5. \A k \in 1 .. n : f[k] = f[k - 1] \o parts[k]
  <2> SUFFICES ASSUME NEW k \in 1 .. n PROVE f[k] = f[k - 1] \o parts[k]
    OBVIOUS
  <2>1. k - 1 \in 0 .. n
    BY <1>1
  <2> QED BY <1>2, <1>4, <2>1
<1> DEFINE Eqn(g) == g = [i \in 1 .. n |-> IF i = 1 THEN parts[i] ELSE g[i - 1] \o parts[i]]
           flat   == CHOOSE g : Eqn(g)
<1>0. f[1] = parts[1]
  <2>1. 1 \in 1 .. n /\ 1 - 1 = 0
    BY <1>1
  <2>2. f[1] = f[0] \o parts[1]
    BY <1>5, <2>1
  <2>3. parts[1] \in Seq(T)
    BY <1>1, <2>1
  <2> QED BY <1>4, <2>2, <2>3
<1>6. FlattenSeq(parts) = flat[n]
  BY <1>1 DEF FlattenSeq, n
<1>7. \E g : Eqn(g)
  <2> DEFINE g == [i \in 1 .. n |-> f[i]]
  <2>1. ASSUME NEW i \in 1 .. n PROVE g[i] = IF i = 1 THEN parts[i] ELSE g[i - 1] \o parts[i]
    <3>1. CASE i = 1
      BY <1>0, <3>1
    <3>2. CASE i # 1
      <4>1. i - 1 \in 1 .. n
        BY <1>1, <3>2
      <4> QED BY <1>5, <3>2, <4>1
    <3> QED BY <3>1, <3>2
  <2>2. Eqn(g)
    BY <2>1, SMTT(30)
  <2> QED BY <2>2
<1>8. Eqn(flat)
  BY <1>7, ZenonT(40)
<1> DEFINE S == {k \in Nat : k + 1 \in 1 .. n => flat[k + 1] = f[k + 1]}
<1>9. \A i \in 1 .. n : flat[i] = IF i = 1 THEN parts[i] ELSE flat[i - 1] \o parts[i]
  BY <1>8
<1> HIDE DEF flat
<1>10. 0 \in S
  <2>1. flat[1] = parts[1]
    BY <1>1, <1>9
  <2> QED BY <1>0, <2>1
<1>11. ASSUME NEW k \in Nat, k \in S PROVE k + 1 \in S
  <2> DEFINE m == (k + 1) + 1
  <2> SUFFICES ASSUME m \in 1 .. n PROVE flat[m] = f[m]
    OBVIOUS
  <2>1. k + 1 \in 1 .. n /\ m - 1 = k + 1 /\ m # 1
    BY <1>1
  <2>2. flat[k + 1] = f[k + 1]
    BY <1>11, <2>1
  <2> HIDE DEF m
  <2>3. f[m] = f[m - 1] \o parts[m]
    BY <1>5
  <2>4. flat[m] = flat[m - 1] \o parts[m]
    BY <1>9, <2>1
  <2> QED BY <2>1, <2>2, <2>3, <2>4
<1>12. n - 1 \in S
  <2>1. n - 1 \in Nat
    BY <1>1
  <2> HIDE DEF S
  <2> QED BY <1>10, <1>11, <2>1, Induction
<1>13. flat[n] = f[n]
  BY <1>1, <1>12
<1> QED BY <1>4, <1>5, <1>6, <1>13 DEF n

(* There are such ends,                                                    *)
LEMMA EndsExist ==
  ASSUME NEW T, NEW parts \in Seq(Seq(T))
  PROVE  \E e : Ends(parts, e)
<1> DEFINE n    == Len(parts)
           step == [x \in Nat \X (1 .. n) |-> x[1] + Len(parts[x[2]])]
<1>1. n \in Nat /\ \A k \in 1 .. n : Len(parts[k]) \in Nat
  OBVIOUS
<1> HIDE DEF n
<1>2. \A x \in Nat : \A k \in 1 .. n : <<x, k>> \in Nat \X (1 .. n) /\ step[<<x, k>>] = x + Len(parts[k])
  OBVIOUS
<1>3. step \in [Nat \X (1 .. n) -> Nat] /\ 0 \in Nat
  <2>1. ASSUME NEW x \in Nat \X (1 .. n) PROVE x[1] + Len(parts[x[2]]) \in Nat
    <3>1. x[1] \in Nat /\ Len(parts[x[2]]) \in Nat
      BY <1>1
    <3> QED BY <3>1
  <2> QED BY <2>1
<1> HIDE DEF step
<1>4. PICK e : Iterates(e, n, Nat, 0, step)
  BY <1>1, <1>3, Recursion
<1>5. e \in [0 .. n -> Nat] /\ e[0] = 0 /\ \A k \in 1 .. n : e[k] = step[<<e[k - 1], k>>]
  BY <1>4 DEF Iterates
<1>6. \A k \in 1 .. n : e[k] = e[k - 1] + Len(parts[k])
  <2> SUFFICES ASSUME NEW k \in 1 .. n PROVE e[k] = e[k - 1] + Len(parts[k])
    OBVIOUS
  <2>1. e[k - 1] \in Nat
    BY <1>1, <1>5
  <2> QED BY <1>2, <1>5, <2>1
<1> QED BY <1>5, <1>6 DEF Ends, n

(* and each position lies in one part.                                     *)
LEMMA EndsCover ==
  ASSUME NEW T, NEW parts \in Seq(Seq(T)), NEW e, Ends(parts, e),
         NEW j \in 1 .. e[Len(parts)]
  PROVE  \E k \in 1 .. Len(parts) : e[k - 1] < j /\ j <= e[k]
<1> DEFINE n == Len(parts)
           S == {k \in 0 .. n : j <= e[k]}
<1>1. n \in Nat
  OBVIOUS
<1> HIDE DEF n
<1>2. e \in [0 .. n -> Nat] /\ e[0] = 0 /\ j \in 1 .. e[n]
  BY DEF Ends, n
<1>3. n \in S /\ S \subseteq Nat
  BY <1>1, <1>2
<1>4. PICK k \in S : \A m \in S : k <= m
  BY <1>3, LeastElement
<1>5. k # 0 /\ k \in 1 .. n
  BY <1>1, <1>2, <1>4
<1>6. k - 1 \in 0 .. n /\ k - 1 \notin S
  BY <1>1, <1>4, <1>5
<1>7. e[k - 1] < j /\ j <= e[k]
  <2>1. j <= e[k]
    BY <1>4
  <2>2. ~(j <= e[k - 1])
    BY <1>6
  <2>3. e[k - 1] \in Nat /\ j \in Int
    BY <1>1, <1>2, <1>6
  <2> QED BY <2>1, <2>2, <2>3
<1> QED BY <1>5, <1>7 DEF n

(* The concatenation holds each part where it ends.                        *)
Joined(T, parts, e, n, flat) ==
  /\ flat \in Seq(T) /\ Len(flat) = e[n]
  /\ \A k \in 1 .. n : \A i \in 1 .. Len(parts[k]) :
       e[k - 1] + i \in 1 .. Len(flat) /\ flat[e[k - 1] + i] = parts[k][i]

LEMMA FlattenLayout ==
  ASSUME NEW T, NEW parts \in Seq(Seq(T)), parts # <<>>, NEW e, Ends(parts, e)
  PROVE  Joined(T, parts, e, Len(parts), FlattenSeq(parts))
<1> DEFINE n    == Len(parts)
           flat == FlattenSeq(parts)
<1> HIDE DEF flat
<1>1. n \in Nat /\ n # 0 /\ \A k \in 1 .. n : parts[k] \in Seq(T) /\ Len(parts[k]) \in Nat
  OBVIOUS
<1>2. /\ e \in [0 .. n -> Nat] /\ e[0] = 0
      /\ \A k \in 1 .. n : e[k] = e[k - 1] + Len(parts[k])
  BY DEF Ends
<1>3. \A k \in 0 .. n : \A j \in 0 .. k : e[j] <= e[k]
  BY EndsGrow
<1>4. PICK f \in [0 .. n -> Seq(T)] :
        /\ f[0] = <<>>
        /\ \A k \in 1 .. n : f[k] = f[k - 1] \o parts[k]
        /\ flat = f[n]
  BY FlattenSteps DEF flat
<1> DEFINE S == {m \in Nat : m <= n =>
                   /\ Len(f[m]) = e[m]
                   /\ \A k \in 0 .. m : \A i \in 1 .. e[k] : f[m][i] = f[k][i]}
<1>5. 0 \in S
  <2>1. Len(f[0]) = 0
    BY <1>4
  <2> QED BY <1>2, <2>1
<1>6. ASSUME NEW m \in Nat, m \in S PROVE m + 1 \in S
  <2> DEFINE M == m + 1
  <2> SUFFICES ASSUME M <= n
               PROVE  /\ Len(f[M]) = e[M]
                      /\ \A k \in 0 .. M : \A i \in 1 .. e[k] : f[M][i] = f[k][i]
    OBVIOUS
  <2>1. M \in 1 .. n /\ M - 1 = m /\ m \in 0 .. n /\ m <= n /\ M \in 0 .. n
    BY <1>1
  <2>2. \A k \in 0 .. M : k = M \/ k \in 0 .. m
    OBVIOUS
  <2> HIDE DEF M
  <2>3. f[M] = f[m] \o parts[M] /\ f[m] \in Seq(T) /\ parts[M] \in Seq(T) /\ e[M] = e[m] + Len(parts[M])
    BY <1>1, <1>2, <1>4, <2>1
  <2>4. Len(f[m]) = e[m] /\ \A k \in 0 .. m : \A i \in 1 .. e[k] : f[m][i] = f[k][i]
    BY <1>6, <2>1
  <2>5. /\ Len(f[m] \o parts[M]) = Len(f[m]) + Len(parts[M])
        /\ \A i \in 1 .. Len(f[m]) : (f[m] \o parts[M])[i] = f[m][i]
    <3>1. \A u, v : u \in Seq(T) /\ v \in Seq(T) =>
                      /\ Len(u \o v) = Len(u) + Len(v)
                      /\ \A i \in 1 .. Len(u) : (u \o v)[i] = u[i]
      BY ConcatAt
    <3> QED BY <2>3, <3>1
  <2>6. ASSUME NEW k \in 0 .. m, NEW i \in 1 .. e[k] PROVE f[M][i] = f[k][i]
    <3>0. k \in 0 .. n
      BY <1>1, <2>1
    <3>1. e[k] <= e[m] /\ e[k] \in Nat /\ e[m] \in Nat
      BY <1>2, <1>3, <2>1, <3>0
    <3>2. i \in 1 .. Len(f[m])
      BY <2>4, <3>1
    <3> QED BY <2>3, <2>4, <2>5, <3>2
  <2> QED BY <2>2, <2>3, <2>4, <2>5, <2>6
<1>7. Nat \subseteq S
  <2> HIDE DEF S
  <2> QED BY <1>5, <1>6, Induction
<1>8. \A m \in 0 .. n : Len(f[m]) = e[m] /\ \A k \in 0 .. m : \A i \in 1 .. e[k] : f[m][i] = f[k][i]
  BY <1>1, <1>7
<1>9. flat \in Seq(T) /\ Len(flat) = e[n] /\ \A k \in 0 .. n : \A i \in 1 .. e[k] : flat[i] = f[k][i]
  BY <1>1, <1>4, <1>8
<1>10. ASSUME NEW k \in 1 .. n, NEW i \in 1 .. Len(parts[k])
       PROVE  e[k - 1] + i \in 1 .. Len(flat) /\ flat[e[k - 1] + i] = parts[k][i]
  <2>1. k - 1 \in 0 .. n /\ k \in 0 .. n /\ n \in 0 .. n /\ k \in 0 .. n
    BY <1>1
  <2>2. e[k] = e[k - 1] + Len(parts[k]) /\ e[k - 1] \in Nat /\ Len(parts[k]) \in Nat /\ e[k] <= e[n] /\ e[k] \in Nat /\ e[n] \in Nat
    BY <1>1, <1>2, <1>3, <2>1
  <2>3. e[k - 1] + i \in 1 .. e[k] /\ e[k - 1] + i \in 1 .. Len(flat)
    <3> DEFINE a == e[k - 1]
               l == Len(parts[k])
               c == e[n]
    <3>1. a \in Nat /\ l \in Nat /\ c \in Nat /\ e[k] = a + l /\ a + l <= c /\ Len(flat) = c /\ i \in 1 .. l
      BY <1>9, <2>2
    <3> HIDE DEF a, l, c
    <3>2. a + i \in 1 .. a + l /\ a + i \in 1 .. c
      BY <3>1
    <3> QED BY <3>1, <3>2 DEF a
  <2>4. f[k - 1] \in Seq(T) /\ parts[k] \in Seq(T) /\ Len(f[k - 1]) = e[k - 1] /\ f[k] = f[k - 1] \o parts[k]
    BY <1>1, <1>4, <1>8, <2>1
  <2>5. (f[k - 1] \o parts[k])[Len(f[k - 1]) + i] = parts[k][i]
    <3> DEFINE g == f[k - 1]
               h == parts[k]
    <3>1. g \in Seq(T) /\ h \in Seq(T) /\ i \in 1 .. Len(h)
      BY <2>4
    <3> HIDE DEF g, h
    <3>2. (g \o h)[Len(g) + i] = h[i]
      BY <3>1, ConcatAt
    <3> QED BY <3>2 DEF g, h
  <2> QED BY <1>9, <2>1, <2>3, <2>4, <2>5
<1> QED BY <1>9, <1>10 DEF Joined, flat

-----------------------------------------------------------------------------
(* Effective ACLs.                                                         *)

(* The canonical ACLs are closed under intersection.                       *)
LEMMA CanonicalClosed ==
  /\ Public \in Canonical
  /\ \A acl, other \in Canonical : Intersect(acl, other) \in Canonical
<1>1. \A atoms \in SUBSET Atoms : Of(atoms) \in Canonical
  BY DEF Canonical
<1>2. Of({}) = Public
  BY OfKinds DEF UserAtoms, GroupAtoms
<1>3. ASSUME NEW acl \in Canonical PROVE acl \in SUBSET Atoms
  <2>1. PICK atoms \in SUBSET Atoms : acl = Of(atoms)
    BY DEF Canonical
  <2>2. UserAtoms(atoms) \subseteq Atoms /\ GroupAtoms(atoms) \subseteq Atoms
    BY <2>1 DEF UserAtoms, GroupAtoms
  <2>3. Empty \subseteq Atoms /\ Public \subseteq Atoms
    BY DEF Empty, Public, Atoms
  <2> QED BY <2>1, <2>2, <2>3 DEF Of
<1>4. ASSUME NEW acl \in Canonical, NEW other \in Canonical PROVE Intersect(acl, other) \in Canonical
  <2>1. CASE acl = Empty \/ other = Empty
    BY <2>1 DEF Intersect
  <2>2. CASE ~(acl = Empty \/ other = Empty)
    <3>1. acl \cup other \in SUBSET Atoms
      BY <1>3
    <3> QED BY <1>1, <2>2, <3>1 DEF Intersect
  <2> QED BY <2>1, <2>2
<1>5. Public \in Canonical
  <2>1. {} \in SUBSET Atoms
    OBVIOUS
  <2> QED BY <1>1, <1>2, <2>1
<1> QED BY <1>4, <1>5

(* EffectivePrefix adds one document's ACL at a time.                      *)
LEMMA PrefixSteps ==
  ASSUME NEW acls \in Seq(Canonical), NEW eff, eff = EffectivePrefix(acls)
  PROVE  /\ Len(acls) \in Nat
         /\ eff \in [0 .. Len(acls) -> Canonical]
         /\ eff[0] = Public
         /\ \A k \in 1 .. Len(acls) : eff[k] = Intersect(eff[k - 1], acls[k])
<1> DEFINE n    == Len(acls)
           step == [x \in Canonical \X (1 .. n) |-> Intersect(x[1], acls[x[2]])]
<1>1. n \in Nat /\ \A k \in 1 .. n : acls[k] \in Canonical
  OBVIOUS
<1> HIDE DEF n
<1>2. \A x \in Canonical : \A k \in 1 .. n :
        <<x, k>> \in Canonical \X (1 .. n) /\ step[<<x, k>>] = Intersect(x, acls[k])
  OBVIOUS
<1>3. step \in [Canonical \X (1 .. n) -> Canonical] /\ Public \in Canonical
  <2>1. ASSUME NEW x \in Canonical \X (1 .. n) PROVE Intersect(x[1], acls[x[2]]) \in Canonical
    <3>1. x[1] \in Canonical /\ acls[x[2]] \in Canonical
      BY <1>1
    <3> QED BY <3>1, CanonicalClosed
  <2> QED BY <2>1, CanonicalClosed
<1> HIDE DEF step
<1>4. PICK f : Iterates(f, n, Canonical, Public, step)
  BY <1>1, <1>3, Recursion
<1>5. f \in [0 .. n -> Canonical] /\ f[0] = Public /\ \A k \in 1 .. n : f[k] = step[<<f[k - 1], k>>]
  BY <1>4 DEF Iterates
<1>6. \A k \in 1 .. n : f[k] = Intersect(f[k - 1], acls[k])
  <2> SUFFICES ASSUME NEW k \in 1 .. n PROVE f[k] = Intersect(f[k - 1], acls[k])
    OBVIOUS
  <2>1. f[k - 1] \in Canonical
    BY <1>1, <1>5
  <2> QED BY <1>2, <1>5, <2>1
<1> DEFINE Eqn(g) == g = [k \in 0 .. n |-> IF k = 0 THEN Public ELSE Intersect(g[k - 1], acls[k])]
           e == CHOOSE g : Eqn(g)
<1>7. eff = e
  BY DEF EffectivePrefix, n
<1>8. Eqn(f)
  <2>1. f = [k \in 0 .. n |-> f[k]]
    BY <1>5
  <2>2. \A k \in 0 .. n : f[k] = IF k = 0 THEN Public ELSE Intersect(f[k - 1], acls[k])
    BY <1>1, <1>5, <1>6
  <2> QED BY <2>1, <2>2
<1>9. Eqn(e)
  BY <1>8
<1>10. \A k \in 0 .. n : e[k] = IF k = 0 THEN Public ELSE Intersect(e[k - 1], acls[k])
  BY <1>9
<1>11. DOMAIN e = 0 .. n /\ e = [k \in 0 .. n |-> e[k]]
  <2>1. e = [k \in 0 .. n |-> IF k = 0 THEN Public ELSE Intersect(e[k - 1], acls[k])]
    BY <1>9
  <2>2. DOMAIN e = 0 .. n
    BY <2>1
  <2> QED BY <1>10, <2>1, <2>2
<1> HIDE DEF e
<1> DEFINE S == {k \in Nat : k <= n => e[k] = f[k]}
<1>12. 0 \in S
  BY <1>1, <1>5, <1>10
<1>13. ASSUME NEW k \in Nat, k \in S PROVE k + 1 \in S
  <2> DEFINE m == k + 1
  <2> SUFFICES ASSUME m <= n PROVE e[m] = f[m]
    OBVIOUS
  <2>1. m \in 1 .. n /\ m \in 0 .. n /\ m - 1 = k /\ m # 0 /\ k <= n
    BY <1>1
  <2>2. e[k] = f[k]
    BY <1>13, <2>1
  <2> HIDE DEF m
  <2> QED BY <1>6, <1>10, <2>1, <2>2
<1>14. Nat \subseteq S
  <2> HIDE DEF S
  <2> QED BY <1>12, <1>13, Induction
<1>15. \A k \in 0 .. n : e[k] = f[k]
  BY <1>1, <1>14
<1>16. e = f
  BY <1>5, <1>11, <1>15
<1> QED BY <1>1, <1>5, <1>6, <1>7, <1>16 DEF n

(* As long as someone may read all the documents, the effective ACL of a   *)
(* prefix admits exactly those who may read each of its documents.         *)
LEMMA PrefixExact ==
  ASSUME NEW acls \in Seq(Canonical), NEW eff, eff = EffectivePrefix(acls),
         NEW v, \A i \in 1 .. Len(acls) : Allows(acls[i], v)
  PROVE  \A k \in 0 .. Len(acls) : \A u : Allows(eff[k], u) <=> \A i \in 1 .. k : Allows(acls[i], u)
<1> DEFINE n == Len(acls)
           S == {k \in Nat : k <= n => \A u : Allows(eff[k], u) <=> \A i \in 1 .. k : Allows(acls[i], u)}
<1>1. /\ n \in Nat /\ eff \in [0 .. n -> Canonical] /\ eff[0] = Public
      /\ \A k \in 1 .. n : eff[k] = Intersect(eff[k - 1], acls[k])
      /\ \A i \in 1 .. n : acls[i] \in Canonical
  BY PrefixSteps
<1> HIDE DEF n
<1>2. 0 \in S
  BY <1>1, AllowsByForm
<1>3. ASSUME NEW k \in Nat, k \in S PROVE k + 1 \in S
  <2> DEFINE m == k + 1
  <2> SUFFICES ASSUME m <= n, NEW u
               PROVE  Allows(eff[m], u) <=> \A i \in 1 .. m : Allows(acls[i], u)
    OBVIOUS
  <2>1. m \in 1 .. n /\ m - 1 = k /\ k \in 0 .. n /\ k <= n /\ \A i : i \in 1 .. m <=> i \in 1 .. k \/ i = m
    BY <1>1
  <2>2. \A w : Allows(eff[k], w) <=> \A i \in 1 .. k : Allows(acls[i], w)
    BY <1>3, <2>1
  <2> HIDE DEF m
  <2>3. eff[m] = Intersect(eff[k], acls[m]) /\ eff[k] \in Canonical /\ acls[m] \in Canonical
    BY <1>1, <2>1
  <2>4. Allows(acls[m], v) /\ \A i \in 1 .. k : Allows(acls[i], v)
    BY <1>1, <2>1 DEF n
  <2>5. Allows(eff[k], v)
    BY <2>2, <2>4
  <2>6. Allows(eff[m], u) <=> Allows(eff[k], u) /\ Allows(acls[m], u)
    BY <2>3, <2>4, <2>5, IntersectExact
  <2> QED BY <2>1, <2>2, <2>6
<1>4. Nat \subseteq S
  <2> HIDE DEF S
  <2> QED BY <1>2, <1>3, Induction
<1> QED BY <1>1, <1>4 DEF n

-----------------------------------------------------------------------------
(* What the middleware keeps and plans for a request.                      *)

(* Documents that a user may read, as a prompt holds them.                 *)
Readable(evidence, user) ==
  /\ evidence \in Seq(Range(evidence))
  /\ \A i \in 1 .. Len(evidence) : /\ evidence[i].acl \in Canonical /\ evidence[i].len \in Nat
                               /\ Allows(evidence[i].acl, user)

LEMMA KeptReadable ==
  ASSUME NEW evidence, Documents(evidence), NEW user
  PROVE  /\ Readable(AuthorizationFilter(evidence, user), user)
         /\ Range(AuthorizationFilter(evidence, user)) \subseteq Range(evidence)
<1> DEFINE S    == {d \in Range(evidence) : Allows(d.acl, user)}
           kept == Filtered(evidence, S)
<1>1. evidence \in Seq(Range(evidence)) /\ \A d \in Range(evidence) : d.acl \in Canonical /\ d.len \in Nat
  BY DEF Documents
<1>2. kept \in Seq(Range(evidence)) /\ Range(kept) = Range(evidence) \cap S
  BY <1>1, FilteredKeeps
<1> HIDE DEF kept
<1>3. kept \in Seq(Range(kept)) /\ \A i \in 1 .. Len(kept) : kept[i] \in Range(kept)
  <2>1. Len(kept) \in Nat /\ kept = [i \in 1 .. Len(kept) |-> kept[i]]
    BY <1>2
  <2>2. \A i \in 1 .. Len(kept) : kept[i] \in Range(kept)
    BY <2>1 DEF Range
  <2> QED BY <2>1, <2>2
<1>4. \A i \in 1 .. Len(kept) : kept[i] \in S
  BY <1>2, <1>3
<1>5. AuthorizationFilter(evidence, user) = kept
  BY DEF AuthorizationFilter, kept
<1> QED BY <1>1, <1>2, <1>3, <1>4, <1>5 DEF Readable

(* The ACL of a segment admits exactly those who may read each document    *)
(* that is placed before or in it.                                         *)
LEMMA TruthExact ==
  ASSUME NEW evidence, NEW user, Readable(evidence, user), NEW n, n = Len(evidence), NEW truth, truth = Truth(evidence)
  PROVE  /\ n \in Nat /\ DOMAIN evidence = 1 .. n
         /\ truth \in [1 .. n + 2 -> Canonical]
         /\ truth[1] = Public
         /\ \A k \in 1 .. n : truth[k + 1] = Intersect(truth[k], evidence[k].acl)
         /\ truth[n + 2] = truth[n + 1]
         /\ \A k \in 1 .. n + 2 : \A u :
              Allows(truth[k], u) <=> \A i \in 1 .. n : i < k => Allows(evidence[i].acl, u)
<1> DEFINE acls == [i \in DOMAIN evidence |-> evidence[i].acl]
           eff  == EffectivePrefix(acls)
<1>1. n \in Nat /\ DOMAIN evidence = 1 .. n
  BY DEF Readable
<1>2. /\ acls \in Seq(Canonical) /\ Len(acls) = n
      /\ \A i \in 1 .. n : acls[i] = evidence[i].acl /\ Allows(acls[i], user)
  BY <1>1 DEF Readable
<1>3. truth = [k \in 1 .. n + 2 |-> IF k <= n + 1 THEN eff[k - 1] ELSE eff[n]]
  BY DEF Truth
<1> HIDE DEF acls, eff
<1>4. /\ eff \in [0 .. n -> Canonical] /\ eff[0] = Public
      /\ \A k \in 1 .. n : eff[k] = Intersect(eff[k - 1], acls[k])
  BY <1>2, PrefixSteps DEF eff
<1>5. \A k \in 0 .. n : \A u : Allows(eff[k], u) <=> \A i \in 1 .. k : Allows(acls[i], u)
  <2>1. eff = EffectivePrefix(acls)
    BY DEF eff
  <2>2. acls \in Seq(Canonical) /\ \A i \in 1 .. Len(acls) : Allows(acls[i], user)
    BY <1>2
  <2>3. \A k \in 0 .. Len(acls) : \A u : Allows(eff[k], u) <=> \A i \in 1 .. k : Allows(acls[i], u)
    BY <2>1, <2>2, PrefixExact
  <2> QED BY <1>2, <2>3
<1>6. \A k \in 1 .. n + 1 : k - 1 \in 0 .. n /\ truth[k] = eff[k - 1]
  BY <1>1, <1>3
<1>7. truth[n + 2] = eff[n] /\ n \in 0 .. n
  BY <1>1, <1>3
<1>8. truth \in [1 .. n + 2 -> Canonical]
  BY <1>1, <1>3, <1>4
<1>9. truth[1] = Public
  BY <1>1, <1>4, <1>6
<1>10. ASSUME NEW k \in 1 .. n PROVE truth[k + 1] = Intersect(truth[k], evidence[k].acl)
  <2>1. k + 1 \in 1 .. n + 1 /\ k \in 1 .. n + 1 /\ (k + 1) - 1 = k
    BY <1>1
  <2>2. truth[k + 1] = eff[k] /\ truth[k] = eff[k - 1]
    BY <1>6, <2>1
  <2> QED BY <1>2, <1>4, <2>2
<1>11. truth[n + 2] = truth[n + 1]
  <2>1. n + 1 \in 1 .. n + 1 /\ (n + 1) - 1 = n
    BY <1>1
  <2> QED BY <1>6, <1>7, <2>1
<1>12. ASSUME NEW k \in 1 .. n + 2, NEW u
       PROVE  Allows(truth[k], u) <=> \A i \in 1 .. n : i < k => Allows(evidence[i].acl, u)
  <2>1. CASE k \in 1 .. n + 1
    <3>1. truth[k] = eff[k - 1] /\ k - 1 \in 0 .. n
      BY <1>6, <2>1
    <3>2. \A i : i \in 1 .. k - 1 <=> i \in 1 .. n /\ i < k
      BY <1>1, <2>1
    <3>3. Allows(truth[k], u) <=> \A i \in 1 .. k - 1 : Allows(acls[i], u)
      BY <1>5, <3>1
    <3> QED BY <1>2, <3>2, <3>3
  <2>2. CASE k = n + 2
    <3>1. \A i \in 1 .. n : i < k
      BY <1>1, <2>2
    <3>2. Allows(truth[k], u) <=> \A i \in 1 .. n : Allows(acls[i], u)
      BY <1>5, <1>7, <2>2
    <3> QED BY <1>2, <3>1, <3>2
  <2> QED BY <1>1, <2>1, <2>2
<1> QED BY <1>1, <1>8, <1>9, <1>10, <1>11, <1>12

(* Scopes of different origin or for different users differ.               *)
LEMMA ScopeNames ==
  /\ \A u : UserScope(u) = {UserAtom(u)} /\ UserScope(u) # Public /\ UserScope(u) # NoScope
  /\ \A u, w : UserScope(u) = UserScope(w) => u = w
  /\ \A i, j : NonceScope(i) = NonceScope(j) => i = j
  /\ \A i : NonceScope(i) # NoScope
  /\ Public # NoScope
  /\ \A acl \in Canonical : acl # Empty => acl # NoScope
<1> DEFINE none     == [kind |-> "none", name |-> "none"]
           nonce(i) == [kind |-> "nonce", name |-> i]
<1>1. /\ NoScope = {none} /\ none.kind = "none"
      /\ \A i : NonceScope(i) = {nonce(i)} /\ nonce(i).kind = "nonce" /\ nonce(i).name = i
  BY DEF NoScope, NonceScope
<1> HIDE DEF none, nonce
<1>2. ASSUME NEW u PROVE UserScope(u) = {UserAtom(u)}
  <2>1. UserAtoms({UserAtom(u)}) = {UserAtom(u)}
    BY AtomKinds DEF UserAtoms
  <2> QED BY <2>1, OfKinds DEF UserScope
<1>3. "none" # "user" /\ "none" # "public" /\ "none" # "group" /\ "none" # "nonce"
  OBVIOUS
<1>4. \A u : none # UserAtom(u) /\ UserAtom(u) # PublicAtom
  BY <1>1, <1>3, AtomKinds
<1>5. \A a, b : {a} = {b} => a = b
  OBVIOUS
<1>6. \A u : UserScope(u) # Public /\ UserScope(u) # NoScope
  BY <1>1, <1>2, <1>4, <1>5 DEF Public
<1>7. \A u, w : UserScope(u) = UserScope(w) => u = w
  <2>1. ASSUME NEW u, NEW w, UserScope(u) = UserScope(w) PROVE u = w
    <3>1. UserAtom(u) = UserAtom(w)
      BY <1>2, <1>5, <2>1
    <3> QED BY <3>1, AtomKinds
  <2> QED BY <2>1
<1>8. \A i, j : NonceScope(i) = NonceScope(j) => i = j
  <2>1. ASSUME NEW i, NEW j, NonceScope(i) = NonceScope(j) PROVE i = j
    <3>1. nonce(i) = nonce(j)
      BY <1>1, <1>5, <2>1
    <3> QED BY <1>1, <3>1
  <2> QED BY <2>1
<1>9. \A i : NonceScope(i) # NoScope
  <2>1. \A i : none # nonce(i)
    BY <1>1, <1>3
  <2> QED BY <1>1, <1>5, <2>1
<1>10. Public # NoScope
  BY <1>1, <1>3, <1>5, AtomKinds DEF Public
<1>11. ASSUME NEW acl \in Canonical, acl # Empty PROVE acl # NoScope
  <2>1. CASE acl \in GroupLists
    <3>1. \A a \in acl : a.kind = "group"
      BY <2>1, GroupListKinds DEF GroupAtoms
    <3> QED BY <1>1, <1>3, <3>1
  <2>2. CASE \E u \in Users : acl = {UserAtom(u)}
    BY <1>2, <1>6, <2>2
  <2> QED BY <1>10, <1>11, <2>1, <2>2, CanonicalForms
<1> QED BY <1>2, <1>6, <1>7, <1>8, <1>9, <1>10, <1>11

SecureModes == {"none", "per_user", "two_level", "acl_scope"}

(* Under a secure mode each segment has a scope.                           *)
LEMMA ScopeEverywhere ==
  ASSUME NEW evidence, NEW user, Readable(evidence, user), NEW caching \in SecureModes, NEW id,
         NEW scope, scope = PlanScopes(caching, id, user, Truth(evidence))
  PROVE  /\ DOMAIN scope = 1 .. Len(evidence) + 2
         /\ \A k \in 1 .. Len(evidence) + 2 : scope[k] # NoScope
<1> DEFINE n     == Len(evidence)
           truth == Truth(evidence)
<1>1. /\ n \in Nat /\ truth \in [1 .. n + 2 -> Canonical]
      /\ \A k \in 1 .. n + 2 : Allows(truth[k], user)
  <2>1. \A i \in 1 .. n : Allows(evidence[i].acl, user)
    BY DEF Readable
  <2> QED BY <2>1, TruthExact
<1> HIDE DEF truth, n
<1>2. Public # NoScope /\ UserScope(user) # NoScope /\ NonceScope(id) # NoScope
  BY ScopeNames
<1>3. \A k \in 1 .. n + 2 : truth[k] # NoScope
  BY <1>1, AllowsByForm, ScopeNames
<1>4. DOMAIN scope = 1 .. n + 2
  BY <1>1 DEF PlanScopes, truth
<1>5. \A k \in 1 .. n + 2 :
        /\ caching = "none" => scope[k] = NonceScope(id)
        /\ caching = "per_user" => scope[k] = UserScope(user)
        /\ caching = "two_level" => scope[k] \in {UserScope(user), Public}
        /\ caching = "acl_scope" => scope[k] = truth[k]
  BY <1>1 DEF PlanScopes, truth
<1> QED BY <1>2, <1>3, <1>4, <1>5 DEF SecureModes, n

(* A scope stands for the documents before it: another user whose prompt   *)
(* has the same scope anywhere may read them all.                          *)
LEMMA ScopeGrants ==
  ASSUME NEW caching \in SecureModes,
         NEW docs1, NEW user1, Readable(docs1, user1), NEW id1,
         NEW docs2, NEW user2, Readable(docs2, user2), NEW id2, id1 # id2,
         NEW j \in 1 .. Len(docs1) + 2, NEW k \in 1 .. Len(docs2) + 2,
         PlanScopes(caching, id1, user1, Truth(docs1))[j] = PlanScopes(caching, id2, user2, Truth(docs2))[k]
  PROVE  \A i \in 1 .. Len(docs1) : i < j => Allows(docs1[i].acl, user2)
<1> DEFINE n1 == Len(docs1)
           n2 == Len(docs2)
           t1 == Truth(docs1)
           t2 == Truth(docs2)
<1>1. /\ n1 \in Nat /\ t1 \in [1 .. n1 + 2 -> Canonical]
      /\ \A x \in 1 .. n1 + 2 : \A u : Allows(t1[x], u) <=> \A i \in 1 .. n1 : i < x => Allows(docs1[i].acl, u)
  BY TruthExact
<1>2. /\ n2 \in Nat /\ t2 \in [1 .. n2 + 2 -> Canonical]
      /\ Allows(t2[k], user2)
  <2>1. \A i \in 1 .. n2 : Allows(docs2[i].acl, user2)
    BY DEF Readable
  <2>2. \A x \in 1 .. n2 + 2 : \A u : Allows(t2[x], u) <=> \A i \in 1 .. n2 : i < x => Allows(docs2[i].acl, u)
    BY TruthExact
  <2> QED BY <2>1, <2>2, TruthExact
<1>3. \A i \in 1 .. n1 : Allows(docs1[i].acl, user1)
  BY DEF Readable
<1> DEFINE s1 == PlanScopes(caching, id1, user1, t1)[j]
           s2 == PlanScopes(caching, id2, user2, t2)[k]
<1>0. s1 = s2
  OBVIOUS
<1>4. j \in DOMAIN t1 /\ k \in DOMAIN t2
  BY <1>1, <1>2
<1>5. /\ caching = "none" => s1 = NonceScope(id1) /\ s2 = NonceScope(id2)
      /\ caching = "per_user" => s1 = UserScope(user1) /\ s2 = UserScope(user2)
      /\ caching = "two_level" => /\ s1 = UserScope(user1) \/ (s1 = Public /\ t1[j] = Public)
                                  /\ s2 = UserScope(user2) \/ s2 = Public
      /\ caching = "acl_scope" => s1 = t1[j] /\ s2 = t2[k]
  <2>1. CASE caching = "two_level"
    <3>1. s2 = UserScope(user2) \/ s2 = Public
      BY <1>4, <2>1 DEF PlanScopes
    <3>2. s1 = UserScope(user1) \/ (s1 = Public /\ t1[j] = Public)
      <4>1. j \in 1 .. j
        BY <1>1
      <4> HIDE DEF t1
      <4>2. s1 = IF \E x \in 1 .. j : t1[x] # Public THEN UserScope(user1) ELSE Public
        BY <1>4, <2>1 DEF PlanScopes
      <4> QED BY <4>1, <4>2
    <3> QED BY <2>1, <3>1, <3>2
  <2>2. CASE caching = "none"
    BY <1>4, <2>2 DEF PlanScopes
  <2>3. CASE caching = "per_user"
    BY <1>4, <2>3 DEF PlanScopes
  <2>4. CASE caching = "acl_scope"
    BY <1>4, <2>4 DEF PlanScopes
  <2> QED BY <2>1, <2>2, <2>3, <2>4 DEF SecureModes
<1> HIDE DEF s1, s2, t1, t2, n1, n2
<1>6. CASE caching = "none"
  BY <1>0, <1>5, <1>6, ScopeNames
<1>7. CASE caching = "per_user"
  <2>1. user1 = user2
    BY <1>0, <1>5, <1>7, ScopeNames
  <2> QED BY <1>3, <2>1 DEF n1
<1>8. CASE caching = "two_level"
  <2>1. CASE s1 = UserScope(user1)
    <3>1. user1 = user2
      BY <1>0, <1>5, <1>8, <2>1, ScopeNames
    <3> QED BY <1>3, <3>1 DEF n1
  <2>2. CASE t1[j] = Public
    <3>1. j \in 1 .. n1 + 2 /\ Allows(t1[j], user2)
      BY <2>2, AllowsByForm DEF n1
    <3> QED BY <1>1, <3>1 DEF n1
  <2> QED BY <1>5, <1>8, <2>1, <2>2
<1>9. CASE caching = "acl_scope"
  <2>1. j \in 1 .. n1 + 2 /\ Allows(t1[j], user2)
    BY <1>0, <1>2, <1>5, <1>9 DEF n1
  <2> QED BY <1>1, <2>1 DEF n1
<1> QED BY <1>6, <1>7, <1>8, <1>9 DEF SecureModes

-----------------------------------------------------------------------------
(* The segments of a prompt.                                               *)

(* Padding goes behind a text.                                             *)
LEMMA PadKeeps ==
  ASSUME NEW T, PadToken \in T, NEW s \in Seq(T), NEW builder, NEW t, t = Pad(builder, s)
  PROVE  /\ t \in Seq(T) /\ Len(t) \in Nat /\ Len(s) \in Nat /\ Len(s) <= Len(t)
         /\ \A i \in 1 .. Len(t) : t[i] = IF i <= Len(s) THEN s[i] ELSE PadToken
         /\ builder.align => Len(t) % BlockSize = 0
<1> DEFINE l    == Len(s)
           r    == l % BlockSize
           fill == [i \in 1 .. BlockSize - r |-> PadToken]
<1>1. l \in Nat /\ BlockSize \in Nat \ {0} /\ r \in 0 .. BlockSize - 1
  BY BlockAssumption
<1>2. fill \in Seq(T) /\ Len(fill) = BlockSize - r /\ BlockSize - r \in Nat
  BY <1>1
<1>3. CASE builder.align /\ r # 0
  <2>1. t = s \o fill
    BY <1>3 DEF Pad
  <2>2. t \in Seq(T) /\ Len(t) = l + Len(fill) /\ \A i \in 1 .. l : t[i] = s[i]
    BY <2>1, <1>2, ConcatAt
  <2>3. \A i \in 1 .. Len(fill) : t[l + i] = PadToken
    BY <2>1, <1>2, ConcatAt
  <2>4. ASSUME NEW i \in 1 .. Len(t) PROVE t[i] = IF i <= l THEN s[i] ELSE PadToken
    <3>1. CASE i <= l
      BY <1>1, <2>2, <3>1
    <3>2. CASE ~(i <= l)
      <4> DEFINE x == i - l
      <4>1. x \in 1 .. Len(fill) /\ i = l + x
        BY <1>1, <1>2, <2>2, <3>2
      <4> HIDE DEF x
      <4> QED BY <2>3, <3>2, <4>1
    <3> QED BY <3>1, <3>2
  <2>5. Len(t) % BlockSize = 0
    <3>1. l = BlockSize * (l \div BlockSize) + r /\ l \div BlockSize \in Nat
      BY <1>1
    <3>2. Len(t) = BlockSize * (l \div BlockSize + 1)
      <4> DEFINE q == l \div BlockSize
      <4>1. Len(t) = l + (BlockSize - r) /\ l = BlockSize * q + r /\ q \in Nat
        BY <1>2, <2>2, <3>1
      <4> HIDE DEF q, r
      <4>2. BlockSize * (q + 1) = BlockSize * q + BlockSize
        BY <1>1, <4>1
      <4>3. BlockSize * q \in Int /\ r \in Int
        BY <1>1, <4>1
      <4>4. Len(t) = BlockSize * (q + 1)
        BY <1>1, <4>1, <4>2, <4>3
      <4> QED BY <4>4 DEF q
    <3> QED BY <1>1, <3>1, <3>2
  <2>6. Len(t) \in Nat /\ Len(s) \in Nat /\ Len(s) <= Len(t)
    BY <1>1, <1>2, <2>2
  <2> HIDE DEF fill
  <2> QED BY <2>2, <2>4, <2>5, <2>6
<1>4. CASE ~(builder.align /\ r # 0)
  BY <1>1, <1>4 DEF Pad
<1> QED BY <1>3, <1>4

(* A text that is not empty and holds no marker.                           *)
Plain(s) == \E l \in Nat : /\ DOMAIN s = 1 .. l /\ s = [i \in 1 .. l |-> s[i]]
                          /\ l >= 1
                          /\ \A i \in 1 .. l : s[i][1] # "scope"

LEMMA BodyTexts ==
  ASSUME NEW evidence, NEW user, Readable(evidence, user), NEW question, NEW n, n = Len(evidence),
         NEW body, body = Body(evidence, question)
  PROVE  /\ n \in Nat /\ Len(body) = n + 2 /\ DOMAIN body = 1 .. n + 2
         /\ body[1] = Preamble
         /\ \A k \in 1 .. n : body[k + 1] = DocTokens(evidence[k])
         /\ body[n + 2] = TailTokens(question)
         /\ \A k \in 1 .. n + 2 : Plain(body[k])
<1>1. n \in Nat /\ \A k \in 1 .. n : evidence[k].len \in Nat
  BY DEF Readable
<1>2. body = [k \in 1 .. n + 2 |->
                CASE k = 1 -> Preamble
                  [] k \in 2 .. n + 1 -> DocTokens(evidence[k - 1])
                  [] k = n + 2 -> TailTokens(question)]
  BY DEF Body
<1>3. Len(body) = n + 2 /\ DOMAIN body = 1 .. n + 2
  BY <1>1, <1>2
<1>4. body[1] = Preamble
  BY <1>1, <1>2
<1>5. \A k \in 1 .. n : body[k + 1] = DocTokens(evidence[k])
  <2> SUFFICES ASSUME NEW k \in 1 .. n PROVE body[k + 1] = DocTokens(evidence[k])
    OBVIOUS
  <2>1. k + 1 \in 1 .. n + 2 /\ k + 1 # 1 /\ k + 1 \in 2 .. n + 1 /\ k + 1 # n + 2 /\ (k + 1) - 1 = k
    BY <1>1
  <2> QED BY <1>2, <2>1
<1>6. body[n + 2] = TailTokens(question)
  <2>1. n + 2 \in 1 .. n + 2 /\ n + 2 # 1 /\ n + 2 \notin 2 .. n + 1
    BY <1>1
  <2> QED BY <1>2, <2>1
<1>7. Plain(Preamble)
  <2> DEFINE s == Preamble
  <2>1. /\ DOMAIN s = 1 .. 3 /\ s = [i \in 1 .. 3 |-> s[i]]
        /\ \A i \in 1 .. 3 : s[i][1] # "scope"
    BY DEF Preamble
  <2> HIDE DEF s
  <2>2. Plain(s)
    <3>1. 3 \in Nat /\ 3 >= 1
      OBVIOUS
    <3> QED BY <2>1, <3>1 DEF Plain
  <2> QED BY <2>2 DEF s
<1>8. ASSUME NEW k \in 1 .. n PROVE Plain(DocTokens(evidence[k]))
  <2> DEFINE d == evidence[k]
             s == DocTokens(d)
             l == d.len + 1
  <2>1. s = [i \in 1 .. l |-> IF i = 1 THEN <<"header", 0, 1>> ELSE <<"doc", d.id, i>>] /\ l \in Nat /\ l >= 1
    BY <1>1 DEF DocTokens
  <2> HIDE DEF d, s, l
  <2>2. DOMAIN s = 1 .. l /\ s = [i \in 1 .. l |-> s[i]] /\ \A i \in 1 .. l : s[i][1] # "scope"
    BY <2>1
  <2>3. Plain(s)
    BY <2>1, <2>2 DEF Plain
  <2> QED BY <2>3 DEF s, d
<1>9. Plain(TailTokens(question))
  <2> DEFINE s == TailTokens(question)
  <2>1. /\ DOMAIN s = 1 .. 2 /\ s = [i \in 1 .. 2 |-> s[i]]
        /\ \A i \in 1 .. 2 : s[i][1] # "scope"
    BY DEF TailTokens
  <2> HIDE DEF s
  <2>2. Plain(s)
    BY <2>1 DEF Plain
  <2> QED BY <2>2 DEF s
<1>10. ASSUME NEW k \in 1 .. n + 2 PROVE Plain(body[k])
  <2>1. CASE k = 1
    BY <1>4, <1>7, <2>1
  <2>2. CASE k = n + 2
    BY <1>6, <1>9, <2>2
  <2>3. CASE k \in 2 .. n + 1
    <3> DEFINE j == k - 1
    <3>1. j \in 1 .. n /\ k = j + 1
      BY <1>1, <2>3
    <3> HIDE DEF j
    <3> QED BY <1>5, <1>8, <3>1
  <2> QED BY <1>1, <2>1, <2>2, <2>3
<1> QED BY <1>1, <1>3, <1>4, <1>5, <1>6, <1>10

(* A marker goes before the text of a segment that opens a scope.          *)
Marked(builder, scope, k) == OpensScope(scope, k) /\ builder.scopeMode = "marker"

TextAt(builder, body, truth, scope, k) ==
  [tokens  |-> IF k < Len(body) THEN Pad(builder, body[k]) ELSE body[k],
   acl     |-> truth[k],
   barrier |-> IF OpensScope(scope, k) /\ builder.scopeMode = "hash" THEN scope[k] ELSE NoScope,
   doc     |-> IF k \in 2 .. Len(body) - 1 THEN k - 1 ELSE 0]

MarkAt(builder, truth, scope, k) ==
  [tokens |-> Pad(builder, Marker(scope[k])), acl |-> truth[k], barrier |-> NoScope, doc |-> 0]

(* How the segments of a prompt lie: the text of part k is segment e[k],   *)
(* and its marker, if it has one, the segment before.                      *)
Laid(segs, e, n, builder, body, truth, scope) ==
  /\ e \in [0 .. n -> Nat] /\ e[0] = 0 /\ e[n] = Len(segs) /\ Len(segs) \in Nat /\ DOMAIN segs = 1 .. Len(segs)
  /\ \A k \in 1 .. n : /\ e[k] \in 1 .. Len(segs)
                       /\ segs[e[k]] = TextAt(builder, body, truth, scope, k)
                       /\ Marked(builder, scope, k) => /\ e[k] = e[k - 1] + 2
                                                       /\ segs[e[k] - 1] = MarkAt(builder, truth, scope, k)
                       /\ ~Marked(builder, scope, k) => e[k] = e[k - 1] + 1
  /\ \A j \in 1 .. Len(segs) : \E k \in 1 .. n : j = e[k] \/ (Marked(builder, scope, k) /\ j = e[k] - 1)

LEMMA SegmentsLaid ==
  ASSUME NEW evidence, NEW question, NEW body, body = Body(evidence, question), NEW n \in Nat, n # 0, Len(body) = n,
         DOMAIN body = 1 .. n,
         NEW builder, NEW truth, NEW scope,
         NEW segs, segs = Segments(builder, evidence, question, truth, scope)
  PROVE  \E e : Laid(segs, e, n, builder, body, truth, scope)
<1> DEFINE text(k)  == TextAt(builder, body, truth, scope, k)
           mark(k)  == MarkAt(builder, truth, scope, k)
           two(k)   == Marked(builder, scope, k)
           R        == {text(k) : k \in 1 .. n} \cup {mark(k) : k \in 1 .. n}
           parts    == [k \in 1 .. n |-> IF two(k) THEN <<mark(k), text(k)>> ELSE <<text(k)>>]
<1>1. segs = FlattenSeq(parts)
  BY DEF Segments, TextAt, MarkAt, Marked
<1>2. \A k \in 1 .. n : text(k) \in R /\ mark(k) \in R
  OBVIOUS
<1> HIDE DEF text, mark, two, R
<1>3. \A k \in 1 .. n : /\ two(k) => Len(parts[k]) = 2 /\ parts[k][1] = mark(k) /\ parts[k][2] = text(k)
                        /\ ~two(k) => Len(parts[k]) = 1 /\ parts[k][1] = text(k)
                        /\ parts[k] \in Seq(R)
  BY <1>2
<1>4. parts \in Seq(Seq(R)) /\ Len(parts) = n /\ parts # <<>>
  BY <1>3
<1> HIDE DEF parts
<1>5. PICK e : Ends(parts, e)
  BY <1>4, EndsExist
<1>6. /\ segs \in Seq(R) /\ Len(segs) = e[n]
      /\ \A k \in 1 .. n : \A i \in 1 .. Len(parts[k]) :
           e[k - 1] + i \in 1 .. Len(segs) /\ segs[e[k - 1] + i] = parts[k][i]
  <2>1. n = Len(parts)
    BY <1>4
  <2>2. Joined(R, parts, e, n, segs)
    BY <1>1, <1>4, <1>5, <2>1, FlattenLayout
  <2> QED BY <2>2 DEF Joined
<1>7. /\ e \in [0 .. n -> Nat] /\ e[0] = 0
      /\ \A k \in 1 .. n : e[k] = e[k - 1] + Len(parts[k])
  BY <1>4, <1>5 DEF Ends
<1>8. ASSUME NEW k \in 1 .. n
      PROVE  /\ e[k] \in 1 .. Len(segs)
             /\ segs[e[k]] = text(k)
             /\ two(k) => e[k] = e[k - 1] + 2 /\ segs[e[k] - 1] = mark(k)
             /\ ~two(k) => e[k] = e[k - 1] + 1
  <2> DEFINE a == e[k - 1]
  <2>1. a \in Nat /\ e[k] = a + Len(parts[k])
    BY <1>7
  <2>2. \A i \in 1 .. Len(parts[k]) : a + i \in 1 .. Len(segs) /\ segs[a + i] = parts[k][i]
    BY <1>6
  <2> HIDE DEF a
  <2>3. CASE two(k)
    <3>1. e[k] = a + 2 /\ Len(parts[k]) = 2 /\ parts[k][1] = mark(k) /\ parts[k][2] = text(k)
      BY <1>3, <2>1, <2>3
    <3>2. a + 1 \in 1 .. Len(segs) /\ segs[a + 1] = mark(k) /\ a + 2 \in 1 .. Len(segs) /\ segs[a + 2] = text(k)
      BY <2>2, <3>1
    <3>3. e[k] - 1 = a + 1
      BY <2>1, <3>1
    <3> QED BY <2>3, <3>1, <3>2, <3>3 DEF a
  <2>4. CASE ~two(k)
    <3>1. e[k] = a + 1 /\ Len(parts[k]) = 1 /\ parts[k][1] = text(k)
      BY <1>3, <2>1, <2>4
    <3>2. a + 1 \in 1 .. Len(segs) /\ segs[a + 1] = text(k)
      BY <2>2, <3>1
    <3> QED BY <2>4, <3>1, <3>2 DEF a
  <2> QED BY <2>3, <2>4
<1>9. ASSUME NEW j \in 1 .. Len(segs)
      PROVE  \E k \in 1 .. n : j = e[k] \/ (two(k) /\ j = e[k] - 1)
  <2>1. j \in 1 .. e[Len(parts)]
    BY <1>4, <1>6
  <2>2. PICK k \in 1 .. n : e[k - 1] < j /\ j <= e[k]
    BY <1>4, <1>5, <2>1, EndsCover
  <2> DEFINE a == e[k - 1]
             b == e[k]
  <2>3. a \in Nat /\ b \in Nat /\ j \in Nat /\ a < j /\ j <= b
    BY <1>7, <2>2
  <2>4. (two(k) /\ b = a + 2) \/ b = a + 1
    BY <1>8
  <2> HIDE DEF a, b
  <2>5. j = b \/ (two(k) /\ j = b - 1)
    BY <2>3, <2>4
  <2> QED BY <2>5 DEF b
<1>10. Len(segs) \in Nat /\ DOMAIN segs = 1 .. Len(segs)
  BY <1>6
<1> QED BY <1>6, <1>7, <1>8, <1>9, <1>10 DEF Laid, text, mark, two

(* Where the tokens of each segment lie in the prompt: segment k starts    *)
(* behind e[k - 1] tokens.                                                 *)
Placed(T, segs, e, s, flat) ==
  /\ e \in [0 .. s -> Nat] /\ e[0] = 0
  /\ \A k \in 1 .. s : Len(segs[k].tokens) \in Nat /\ e[k] = e[k - 1] + Len(segs[k].tokens)
  /\ \A k \in 0 .. s : \A j \in 0 .. k : e[j] <= e[k]
  /\ flat \in Seq(T) /\ Len(flat) = e[s]
  /\ \A k \in 1 .. s : \A i \in 1 .. Len(segs[k].tokens) :
       e[k - 1] + i \in 1 .. Len(flat) /\ flat[e[k - 1] + i] = segs[k].tokens[i]
  /\ \A j \in 1 .. e[s] : \E k \in 1 .. s : e[k - 1] < j /\ j <= e[k]
  /\ \A k \in 1 .. s + 1 : Starts(segs)[k] = e[k - 1]

LEMMA TokensPlaced ==
  ASSUME NEW T, NEW segs, NEW s \in Nat, s # 0, s = Len(segs), DOMAIN segs = 1 .. s,
         \A k \in 1 .. s : segs[k].tokens \in Seq(T)
  PROVE  \E e : Placed(T, segs, e, s, FlattenSeq([k \in DOMAIN segs |-> segs[k].tokens]))
<1> DEFINE parts == [k \in DOMAIN segs |-> segs[k].tokens]
           flat  == FlattenSeq(parts)
<1>1. parts \in Seq(Seq(T)) /\ Len(parts) = s /\ parts # <<>> /\ \A k \in 1 .. s : parts[k] = segs[k].tokens
  OBVIOUS
<1> HIDE DEF parts, flat
<1>2. PICK e : Ends(parts, e)
  BY <1>1, EndsExist
<1>3. Joined(T, parts, e, Len(parts), flat)
  BY <1>1, <1>2, FlattenLayout DEF flat
<1>4. /\ e \in [0 .. s -> Nat] /\ e[0] = 0
      /\ \A k \in 1 .. s : e[k] = e[k - 1] + Len(segs[k].tokens)
  BY <1>1, <1>2 DEF Ends
<1>5. /\ flat \in Seq(T) /\ Len(flat) = e[s]
      /\ \A k \in 1 .. s : \A i \in 1 .. Len(segs[k].tokens) :
           e[k - 1] + i \in 1 .. Len(flat) /\ flat[e[k - 1] + i] = segs[k].tokens[i]
  <2>1. Joined(T, parts, e, s, flat)
    BY <1>1, <1>3
  <2>2. /\ flat \in Seq(T) /\ Len(flat) = e[s]
        /\ \A k \in 1 .. s : \A i \in 1 .. Len(parts[k]) :
             e[k - 1] + i \in 1 .. Len(flat) /\ flat[e[k - 1] + i] = parts[k][i]
    BY <2>1, Zenon DEF Joined
  <2>3. ASSUME NEW k \in 1 .. s, NEW i \in 1 .. Len(segs[k].tokens)
        PROVE  e[k - 1] + i \in 1 .. Len(flat) /\ flat[e[k - 1] + i] = segs[k].tokens[i]
    <3>1. parts[k] = segs[k].tokens
      BY <1>1
    <3> QED BY <2>2, <3>1
  <2> QED BY <2>2, <2>3
<1>6. \A k \in 0 .. s : \A j \in 0 .. k : e[j] <= e[k]
  BY <1>1, <1>2, EndsGrow
<1>7. \A j \in 1 .. e[s] : \E k \in 1 .. s : e[k - 1] < j /\ j <= e[k]
  BY <1>1, <1>2, EndsCover
<1> DEFINE Eqn(g) == g = [k \in 1 .. s + 1 |-> IF k = 1 THEN 0 ELSE g[k - 1] + Len(segs[k - 1].tokens)]
           at     == CHOOSE g : Eqn(g)
<1>8. Starts(segs) = at
  BY DEF Starts
<1>9. Eqn(at)
  <2> DEFINE g == [k \in 1 .. s + 1 |-> e[k - 1]]
  <2>1. ASSUME NEW k \in 1 .. s + 1 PROVE g[k] = IF k = 1 THEN 0 ELSE g[k - 1] + Len(segs[k - 1].tokens)
    <3>1. CASE k = 1
      <4>1. k - 1 = 0
        BY <3>1
      <4> QED BY <1>4, <3>1, <4>1
    <3>2. CASE k # 1
      <4> DEFINE m == k - 1
      <4>1. m \in 1 .. s /\ m \in 1 .. s + 1
        BY <3>2
      <4>2. g[k] = e[m] /\ g[m] = e[m - 1]
        BY <4>1
      <4> HIDE DEF m, g
      <4>3. g[k] = g[m] + Len(segs[m].tokens)
        BY <1>4, <4>1, <4>2
      <4> QED BY <3>2, <4>3 DEF m
    <3> QED BY <3>1, <3>2
  <2>2. Eqn(g)
    BY <2>1
  <2> QED BY <2>2
<1>10. \A k \in 1 .. s + 1 : at[k] = IF k = 1 THEN 0 ELSE at[k - 1] + Len(segs[k - 1].tokens)
  BY <1>9
<1> HIDE DEF at
<1> DEFINE I == {k \in Nat : k <= s => at[k + 1] = e[k]}
<1>11. 0 \in I
  <2>1. 0 + 1 = 1 /\ 1 \in 1 .. s + 1
    OBVIOUS
  <2> QED BY <1>4, <1>10, <2>1
<1>12. ASSUME NEW k \in Nat, k \in I PROVE k + 1 \in I
  <2> DEFINE m == k + 1
             mm == m + 1
  <2> SUFFICES ASSUME m <= s PROVE at[mm] = e[m]
    OBVIOUS
  <2>1. m \in 1 .. s /\ mm \in 1 .. s + 1 /\ mm # 1 /\ mm - 1 = m /\ m - 1 = k /\ k <= s
    OBVIOUS
  <2>2. at[m] = e[k]
    BY <1>12, <2>1
  <2>3. at[mm] = at[mm - 1] + Len(segs[mm - 1].tokens)
    <3> HIDE DEF m, mm
    <3> QED BY <1>10, <2>1
  <2> HIDE DEF m, mm
  <2> QED BY <1>4, <2>1, <2>2, <2>3
<1>13. Nat \subseteq I
  <2> HIDE DEF I
  <2> QED BY <1>11, <1>12, Induction
<1>14. ASSUME NEW k \in 1 .. s + 1 PROVE Starts(segs)[k] = e[k - 1]
  <2> DEFINE m == k - 1
  <2>1. m \in Nat /\ m <= s /\ k = m + 1
    OBVIOUS
  <2> HIDE DEF m
  <2>2. at[k] = e[m]
    BY <1>13, <2>1
  <2> QED BY <1>8, <2>2 DEF m
<1>15. \A k \in 1 .. s : Len(segs[k].tokens) \in Nat
  BY LenProperties
<1>16. Placed(T, segs, e, s, flat)
  BY <1>4, <1>5, <1>6, <1>7, <1>14, <1>15 DEF Placed
<1> QED BY <1>16 DEF flat, parts

(* Division, by what it means.                                             *)
LEMMA Quotient ==
  ASSUME NEW a \in Nat, NEW d \in Nat \ {0}, NEW q \in Nat
  PROVE  a \div d = q <=> (q * d <= a /\ a < (q + 1) * d)
<1> DEFINE k == a \div d
           r == a % d
<1>1. k \in Nat /\ r \in 0 .. d - 1 /\ a = d * k + r
  OBVIOUS
<1> HIDE DEF k, r
<1>2. (q + 1) * d = q * d + d /\ d * k = k * d /\ q * d \in Nat /\ k * d \in Nat
  BY <1>1
<1>3. k = q => q * d <= a /\ a < (q + 1) * d
  BY <1>1, <1>2
<1>4. CASE k < q
  <2>1. PICK x \in Nat : q = k + 1 + x
    <3>1. q - k - 1 \in Nat /\ q = k + 1 + (q - k - 1)
      BY <1>1, <1>4
    <3> QED BY <3>1
  <2>2. q * d = k * d + d + x * d /\ x * d \in Nat
    BY <1>1, <2>1
  <2> QED BY <1>1, <1>2, <1>4, <2>2 DEF k
<1>5. CASE q < k
  <2>1. PICK x \in Nat : k = q + 1 + x
    <3>1. k - q - 1 \in Nat /\ k = q + 1 + (k - q - 1)
      BY <1>1, <1>5
    <3> QED BY <3>1
  <2>2. k * d = q * d + d + x * d /\ x * d \in Nat
    BY <1>1, <2>1
  <2> QED BY <1>1, <1>2, <1>5, <2>2 DEF k
<1> QED BY <1>1, <1>3, <1>4, <1>5 DEF k

MarkToken(scope) == <<"scope", scope, 0>>

LEMMA MarkTokens ==
  /\ \A x : Marker(x) = <<MarkToken(x)>> /\ MarkToken(x)[1] = "scope"
  /\ \A x, y : MarkToken(x) = MarkToken(y) => x = y
  /\ PadToken[1] # "scope"
BY DEF Marker, MarkToken, PadToken

(* A token that looks like a marker is the one of some marked segment.     *)
Genuine(t, builder, scope, n) ==
  t[1] = "scope" => \E m \in 1 .. n : Marked(builder, scope, m) /\ t = MarkToken(scope[m])

LEMMA LaidTokens ==
  ASSUME NEW evidence, NEW user, Readable(evidence, user), NEW question, NEW n, n = Len(evidence) + 2,
         NEW body, body = Body(evidence, question), NEW builder, NEW truth, NEW scope,
         NEW segs, NEW e, Laid(segs, e, n, builder, body, truth, scope)
  PROVE  \E T : \A j \in 1 .. Len(segs) :
           /\ segs[j].tokens \in Seq(T)
           /\ Len(segs[j].tokens) >= 1
           /\ \A i \in 1 .. Len(segs[j].tokens) : Genuine(segs[j].tokens[i], builder, scope, n)
<1> DEFINE B == UNION {Range(body[k]) : k \in 1 .. n}
           M == {MarkToken(scope[k]) : k \in 1 .. n}
           T == {PadToken} \cup B \cup M
           Good(s) == /\ s \in Seq(T) /\ Len(s) >= 1
                      /\ \A i \in 1 .. Len(s) : Genuine(s[i], builder, scope, n)
<1>1. /\ n \in Nat /\ Len(body) = n /\ DOMAIN body = 1 .. n
      /\ \A k \in 1 .. n : Plain(body[k])
  <2> DEFINE d == Len(evidence)
  <2>1. d \in Nat /\ d = Len(evidence) /\ d + 2 = n
    BY DEF Readable
  <2> HIDE DEF d
  <2>2. /\ d \in Nat /\ Len(body) = d + 2 /\ DOMAIN body = 1 .. d + 2
        /\ \A k \in 1 .. d + 2 : Plain(body[k])
    BY <2>1, BodyTexts
  <2> QED BY <2>1, <2>2
<1>2. ASSUME NEW k \in 1 .. n PROVE Good(body[k])
  <2> DEFINE s == body[k]
  <2>1. PICK l \in Nat : /\ DOMAIN s = 1 .. l /\ s = [i \in 1 .. l |-> s[i]]
                         /\ l >= 1
                         /\ \A i \in 1 .. l : s[i][1] # "scope"
    BY <1>1 DEF Plain
  <2>2. \A i \in 1 .. l : s[i] \in T
    BY <2>1 DEF Range
  <2> HIDE DEF s, T
  <2>3. s \in Seq(T) /\ Len(s) = l
    BY <2>1, <2>2
  <2> QED BY <2>1, <2>3 DEF s, Genuine
<1>3. PadToken \in T
  OBVIOUS
<1>4. ASSUME NEW k \in 1 .. n PROVE MarkToken(scope[k]) \in T
  OBVIOUS
<1>5. Genuine(PadToken, builder, scope, n)
  BY MarkTokens DEF Genuine
<1> HIDE DEF T
<1>6. ASSUME NEW s, Good(s) PROVE Good(Pad(builder, s))
  <2> DEFINE t == Pad(builder, s)
  <2>1. /\ t \in Seq(T) /\ Len(t) \in Nat /\ Len(s) \in Nat /\ Len(s) <= Len(t)
        /\ \A i \in 1 .. Len(t) : t[i] = IF i <= Len(s) THEN s[i] ELSE PadToken
    BY <1>3, <1>6, PadKeeps
  <2> HIDE DEF t
  <2>2. ASSUME NEW i \in 1 .. Len(t) PROVE Genuine(t[i], builder, scope, n)
    <3>1. CASE i <= Len(s)
      <4>1. t[i] = s[i] /\ i \in 1 .. Len(s)
        BY <2>1, <3>1
      <4> QED BY <1>6, <4>1
    <3>2. CASE ~(i <= Len(s))
      BY <1>5, <2>1, <3>2
    <3> QED BY <3>1, <3>2
  <2>3. Good(t)
    BY <1>6, <2>1, <2>2
  <2> QED BY <2>3 DEF t
<1>7. ASSUME NEW k \in 1 .. n, Marked(builder, scope, k) PROVE Good(Marker(scope[k]))
  <2> DEFINE s == Marker(scope[k])
             t == MarkToken(scope[k])
  <2>1. s = <<t>> /\ t \in T
    BY <1>4, MarkTokens
  <2>2. Genuine(t, builder, scope, n)
    BY <1>7 DEF Genuine
  <2> HIDE DEF s, t
  <2>3. s \in Seq(T) /\ Len(s) = 1 /\ s[1] = t
    BY <2>1
  <2>4. Good(s)
    BY <2>2, <2>3
  <2> QED BY <2>4 DEF s
<1> HIDE DEF Good
<1>8. ASSUME NEW j \in 1 .. Len(segs) PROVE Good(segs[j].tokens)
  <2>1. PICK k \in 1 .. n : j = e[k] \/ (Marked(builder, scope, k) /\ j = e[k] - 1)
    BY DEF Laid
  <2>2. /\ segs[e[k]] = TextAt(builder, body, truth, scope, k)
        /\ Marked(builder, scope, k) => segs[e[k] - 1] = MarkAt(builder, truth, scope, k)
    BY DEF Laid
  <2>3. TextAt(builder, body, truth, scope, k).tokens \in {body[k], Pad(builder, body[k])}
    BY DEF TextAt
  <2>4. MarkAt(builder, truth, scope, k).tokens = Pad(builder, Marker(scope[k]))
    BY DEF MarkAt
  <2> QED BY <1>2, <1>6, <1>7, <2>1, <2>2, <2>3, <2>4
<1> QED BY <1>8 DEF Good

-----------------------------------------------------------------------------
(* The chained hashes.                                                     *)

(* Cutting out positions lo .. hi.                                         *)
LEMMA Slices ==
  ASSUME NEW lo \in Int, NEW hi \in Int
  PROVE  /\ \A s : SubSeq(s, lo, hi) = [i \in 1 .. hi - lo + 1 |-> s[lo + i - 1]]
         /\ \A s, t : SubSeq(s, lo, hi) = SubSeq(t, lo, hi) <=> \A x \in lo .. hi : s[x] = t[x]
<1>1. ASSUME NEW s PROVE SubSeq(s, lo, hi) = [i \in 1 .. hi - lo + 1 |-> s[lo + i - 1]]
  <2> DEFINE S == {s[i] : i \in lo .. hi}
             u == SubSeq(s, lo, hi)
  <2>1. \A i \in lo .. hi : s[i] \in S
    OBVIOUS
  <2> HIDE DEF S
  <2>2. /\ u \in Seq(S) /\ Len(u) = IF lo <= hi THEN hi - lo + 1 ELSE 0
        /\ \A i \in 1 .. hi - lo + 1 : u[i] = s[lo + i - 1]
    BY <2>1, SubSeqProperties
  <2> HIDE DEF u
  <2>3. DOMAIN u = 1 .. hi - lo + 1 /\ u = [i \in 1 .. hi - lo + 1 |-> u[i]]
    <3>1. DOMAIN u = 1 .. Len(u) /\ u = [i \in 1 .. Len(u) |-> u[i]]
      BY <2>2
    <3>2. 1 .. Len(u) = 1 .. hi - lo + 1
      BY <2>2
    <3> QED BY <3>1, <3>2
  <2>4. u = [i \in 1 .. hi - lo + 1 |-> s[lo + i - 1]]
    BY <2>2, <2>3
  <2> QED BY <2>4 DEF u
<1>2. ASSUME NEW s, NEW t, \A x \in lo .. hi : s[x] = t[x] PROVE SubSeq(s, lo, hi) = SubSeq(t, lo, hi)
  <2>1. \A i \in 1 .. hi - lo + 1 : lo + i - 1 \in lo .. hi
    OBVIOUS
  <2>2. \A i \in 1 .. hi - lo + 1 : s[lo + i - 1] = t[lo + i - 1]
    BY <1>2, <2>1
  <2> QED BY <1>1, <2>2
<1>3. ASSUME NEW s, NEW t, SubSeq(s, lo, hi) = SubSeq(t, lo, hi), NEW x \in lo .. hi PROVE s[x] = t[x]
  <2> DEFINE i == x - lo + 1
  <2>1. i \in 1 .. hi - lo + 1 /\ lo + i - 1 = x
    OBVIOUS
  <2> HIDE DEF i
  <2>2. SubSeq(s, lo, hi)[i] = s[lo + i - 1] /\ SubSeq(t, lo, hi)[i] = t[lo + i - 1]
    BY <1>1, <2>1
  <2> QED BY <1>3, <2>1, <2>2
<1> QED BY <1>1, <1>2, <1>3

(* Multiples of a length.                                                  *)
LEMMA Multiples ==
  ASSUME NEW d \in Nat \ {0}, NEW l \in Nat, l # 0
  PROVE  /\ (l - 1) * d + d = l * d /\ (l - 1) * d \in Nat /\ l * d \in Nat
         /\ \A i \in Nat : l <= i => l * d <= i * d /\ i * d \in Nat
<1>1. (l - 1) * d + d = l * d /\ (l - 1) * d \in Nat /\ l * d \in Nat
  <2> DEFINE m == l - 1
  <2>1. m \in Nat /\ l = m + 1
    OBVIOUS
  <2> HIDE DEF m
  <2>2. (m + 1) * d = m * d + d /\ m * d \in Nat
    BY <2>1
  <2> QED BY <2>1, <2>2 DEF m
<1>2. ASSUME NEW i \in Nat, l <= i PROVE l * d <= i * d /\ i * d \in Nat
  <2>1. PICK x \in Nat : i = l + x
    <3>1. i - l \in Nat /\ i = l + (i - l)
      BY <1>2
    <3> QED BY <3>1
  <2>2. i * d = l * d + x * d /\ x * d \in Nat
    BY <2>1
  <2> QED BY <1>1, <2>2
<1> QED BY <1>1, <1>2

(* A chained hash lists the tokens and extra keys of all blocks up to its  *)
(* own.                                                                    *)
KeyOf(segs, scoped, l) == IF scoped THEN ScopeKeys(segs, l) ELSE <<>>
Block(flat, segs, scoped, l) ==
  <<SubSeq(flat, (l - 1) * BlockSize + 1, l * BlockSize), KeyOf(segs, scoped, l)>>
Chained(h, flat, segs, scoped) ==
  /\ DOMAIN h = 1 .. Len(flat) \div BlockSize /\ Len(flat) \div BlockSize \in Nat
  /\ \A i \in DOMAIN h : h[i] = [l \in 1 .. i |-> Block(flat, segs, scoped, l)]
  /\ \A i \in DOMAIN h : i \in Nat \ {0} /\ i * BlockSize <= Len(flat)

LEMMA HashesChained ==
  ASSUME NEW segs, NEW scoped, NEW flat, flat = FlattenSeq([k \in DOMAIN segs |-> segs[k].tokens]),
         Len(flat) \in Nat
  PROVE  Chained(BlockHashes(segs, scoped), flat, segs, scoped)
<1> DEFINE n     == Len(flat) \div BlockSize
           block == [i \in 1 .. n |-> Block(flat, segs, scoped, i)]
           h     == BlockHashes(segs, scoped)
<1>1. h = [i \in 1 .. n |-> SubSeq(block, 1, i)]
  BY DEF BlockHashes, Block, KeyOf
<1>2. n \in Nat /\ n * BlockSize <= Len(flat)
  <2>1. n \in Nat
    BY BlockAssumption
  <2> HIDE DEF n
  <2> QED BY <2>1, BlockAssumption, Quotient DEF n
<1> HIDE DEF n, block, h
<1>3. ASSUME NEW i \in 1 .. n PROVE h[i] = [l \in 1 .. i |-> Block(flat, segs, scoped, l)]
  <2>1. h[i] = SubSeq(block, 1, i)
    BY <1>1
  <2>2. SubSeq(block, 1, i) = [l \in 1 .. i - 1 + 1 |-> block[1 + l - 1]]
    BY <1>2, Slices
  <2>3. 1 .. i - 1 + 1 = 1 .. i /\ \A l \in 1 .. i : block[1 + l - 1] = Block(flat, segs, scoped, l)
    <3>1. \A l \in 1 .. i : l \in 1 .. n /\ 1 + l - 1 = l
      BY <1>2
    <3> QED BY <3>1 DEF block
  <2> QED BY <2>1, <2>2, <2>3
<1>4. ASSUME NEW i \in 1 .. n PROVE i \in Nat \ {0} /\ i * BlockSize <= Len(flat)
  <2>1. i * BlockSize <= n * BlockSize /\ i * BlockSize \in Nat /\ n * BlockSize \in Nat
    BY <1>2, BlockAssumption, Multiples
  <2> QED BY <1>2, <2>1
<1>5. DOMAIN h = 1 .. n
  BY <1>1
<1>6. Chained(h, flat, segs, scoped)
  BY <1>2, <1>3, <1>4, <1>5 DEF Chained, n
<1> QED BY <1>6 DEF h

(* Equal hashes: the same tokens and the same extra keys up to the block.  *)
SameText(flat1, flat2, i) == \A x \in 1 .. i * BlockSize : flat1[x] = flat2[x]
SameKeys(segs1, scoped1, segs2, scoped2, i) ==
  \A l \in 1 .. i : KeyOf(segs1, scoped1, l) = KeyOf(segs2, scoped2, l)

LEMMA EqualHashes ==
  ASSUME NEW h1, NEW flat1, NEW segs1, NEW scoped1, Chained(h1, flat1, segs1, scoped1),
         NEW h2, NEW flat2, NEW segs2, NEW scoped2, Chained(h2, flat2, segs2, scoped2),
         NEW i \in DOMAIN h1 \cap DOMAIN h2
  PROVE  h1[i] = h2[i] <=> SameText(flat1, flat2, i) /\ SameKeys(segs1, scoped1, segs2, scoped2, i)
<1> DEFINE b1(l) == Block(flat1, segs1, scoped1, l)
           b2(l) == Block(flat2, segs2, scoped2, l)
           k1(l) == KeyOf(segs1, scoped1, l)
           k2(l) == KeyOf(segs2, scoped2, l)
<1>1. /\ h1[i] = [l \in 1 .. i |-> b1(l)] /\ h2[i] = [l \in 1 .. i |-> b2(l)]
      /\ i \in Nat \ {0}
  BY DEF Chained
<1>2. ASSUME NEW l \in 1 .. i
      PROVE  b1(l) = b2(l) <=> /\ \A x \in (l - 1) * BlockSize + 1 .. l * BlockSize : flat1[x] = flat2[x]
                               /\ k1(l) = k2(l)
  <2> DEFINE lo == (l - 1) * BlockSize + 1
             hi == l * BlockSize
  <2>1. lo \in Int /\ hi \in Int
    BY <1>1, BlockAssumption
  <2>2. b1(l) = <<SubSeq(flat1, lo, hi), k1(l)>> /\ b2(l) = <<SubSeq(flat2, lo, hi), k2(l)>>
    BY DEF Block
  <2> HIDE DEF b1, b2, k1, k2, lo, hi
  <2>3. SubSeq(flat1, lo, hi) = SubSeq(flat2, lo, hi) <=> \A x \in lo .. hi : flat1[x] = flat2[x]
    BY <2>1, Slices
  <2> DEFINE s == SubSeq(flat1, lo, hi)
             t == SubSeq(flat2, lo, hi)
             u == k1(l)
             v == k2(l)
             p == b1(l)
             q == b2(l)
  <2>4. p = <<s, u>> /\ q = <<t, v>>
    BY <2>2
  <2> HIDE DEF s, t, u, v, p, q
  <2>5. p = q <=> s = t /\ u = v
    BY <2>4
  <2>6. b1(l) = b2(l) <=> SubSeq(flat1, lo, hi) = SubSeq(flat2, lo, hi) /\ k1(l) = k2(l)
    BY <2>5, Zenon DEF s, t, u, v, p, q
  <2> QED BY <2>3, <2>6, Zenon DEF lo, hi
<1>3. h1[i] = h2[i] <=> \A l \in 1 .. i : b1(l) = b2(l)
  <2> HIDE DEF b1, b2
  <2>1. ASSUME h1[i] = h2[i], NEW l \in 1 .. i PROVE b1(l) = b2(l)
    <3>1. h1[i][l] = b1(l) /\ h2[i][l] = b2(l)
      BY <1>1
    <3> QED BY <2>1, <3>1
  <2>2. ASSUME \A l \in 1 .. i : b1(l) = b2(l) PROVE h1[i] = h2[i]
    BY <1>1, <2>2
  <2> QED BY <2>1, <2>2
<1>4. ASSUME NEW l \in 1 .. i, NEW x \in (l - 1) * BlockSize + 1 .. l * BlockSize
      PROVE  x \in 1 .. i * BlockSize
  <2> DEFINE a == (l - 1) * BlockSize
             b == l * BlockSize
             c == i * BlockSize
  <2>1. a \in Nat /\ b \in Nat /\ c \in Nat /\ b <= c
    BY <1>1, BlockAssumption, Multiples
  <2>2. x \in a + 1 .. b
    OBVIOUS
  <2> HIDE DEF a, b, c
  <2>3. x \in 1 .. c
    BY <2>1, <2>2
  <2> QED BY <2>3 DEF c
<1>5. ASSUME NEW x \in 1 .. i * BlockSize
      PROVE  \E l \in 1 .. i : x \in (l - 1) * BlockSize + 1 .. l * BlockSize
  <2> DEFINE q == (x - 1) \div BlockSize
             l == q + 1
  <2>0. i * BlockSize \in Nat
    BY <1>1, BlockAssumption
  <2>1. q \in Nat /\ x - 1 \in Nat /\ x \in Nat /\ x <= i * BlockSize
    BY <2>0, BlockAssumption
  <2>2. q * BlockSize <= x - 1 /\ x - 1 < (q + 1) * BlockSize
    <3> HIDE DEF q
    <3> QED BY <2>1, BlockAssumption, Quotient DEF q
  <2> HIDE DEF q
  <2>3. q * BlockSize \in Nat /\ (q + 1) * BlockSize \in Nat
    BY <2>1, BlockAssumption
  <2>4. q < i
    <3>1. CASE i <= q
      <4>1. i * BlockSize <= q * BlockSize
        BY <1>1, <2>1, <3>1, BlockAssumption, Multiples
      <4> DEFINE a == i * BlockSize
                 b == q * BlockSize
      <4>2. a \in Nat /\ b \in Nat /\ a <= b /\ b <= x - 1 /\ x <= a
        BY <2>0, <2>1, <2>2, <2>3, <4>1
      <4> HIDE DEF a, b
      <4> QED BY <2>1, <4>2
    <3> QED BY <1>1, <2>1, <3>1
  <2>5. l \in 1 .. i /\ l - 1 = q
    BY <1>1, <2>1, <2>4
  <2>6. x \in q * BlockSize + 1 .. (q + 1) * BlockSize
    <3> DEFINE a == q * BlockSize
               b == (q + 1) * BlockSize
    <3>1. a \in Nat /\ b \in Nat /\ a <= x - 1 /\ x - 1 < b
      BY <2>2, <2>3
    <3> HIDE DEF a, b
    <3>2. x \in a + 1 .. b
      BY <2>1, <3>1
    <3> QED BY <3>2 DEF a, b
  <2> QED BY <2>5, <2>6
<1> HIDE DEF b1, b2
<1>6. h1[i] = h2[i] <=> /\ \A x \in 1 .. i * BlockSize : flat1[x] = flat2[x]
                        /\ \A l \in 1 .. i : k1(l) = k2(l)
  <2> HIDE DEF k1, k2
  <2> QED BY <1>2, <1>3, <1>4, <1>5
<1> QED BY <1>6 DEF SameText, SameKeys

(* The extra keys of a block are the barriers of the segments that start   *)
(* in it,                                                                  *)
BarriersIn(segs, l) ==
  {k \in DOMAIN segs : segs[k].barrier # NoScope /\ Starts(segs)[k] \div BlockSize = l - 1}

LEMMA KeysOf ==
  ASSUME NEW segs, NEW s \in Nat, DOMAIN segs = 1 .. s, NEW l
  PROVE  /\ \A k \in BarriersIn(segs, l) : \E j \in DOMAIN ScopeKeys(segs, l) : ScopeKeys(segs, l)[j] = segs[k].barrier
         /\ \A j \in DOMAIN ScopeKeys(segs, l) : \E k \in BarriersIn(segs, l) : ScopeKeys(segs, l)[j] = segs[k].barrier
         /\ BarriersIn(segs, l) = {} => ScopeKeys(segs, l) = <<>>
<1> DEFINE A      == BarriersIn(segs, l)
           id     == [k \in DOMAIN segs |-> k]
           inside == Filtered(id, A)
           keys   == ScopeKeys(segs, l)
<1>1. keys = [j \in DOMAIN inside |-> segs[inside[j]].barrier]
  BY DEF ScopeKeys, BarriersIn
<1>2. id \in Seq(Nat) /\ Len(id) = s /\ \A i \in 1 .. s : id[i] = i
  OBVIOUS
<1>3. A \subseteq 1 .. s
  BY DEF BarriersIn
<1>4. \A i : i \in KeptAt(id, A) <=> i \in A
  <2> HIDE DEF id, A
  <2> QED BY <1>2, <1>3 DEF KeptAt
<1> HIDE DEF A, id, keys, inside
<1>5. /\ inside \in Seq(Nat) /\ Len(inside) = Cardinality(KeptAt(id, A))
      /\ \A k \in 1 .. Len(inside) : \E i \in KeptAt(id, A) : inside[k] = id[i]
      /\ \A i \in KeptAt(id, A) : Rank(id, A, i) \in 1 .. Len(inside) /\ inside[Rank(id, A, i)] = id[i]
  BY <1>2, FilteredElements DEF inside
<1>6. DOMAIN inside = 1 .. Len(inside) /\ Len(inside) \in Nat
  BY <1>5
<1>7. ASSUME NEW k \in A PROVE \E j \in DOMAIN keys : keys[j] = segs[k].barrier
  <2>1. k \in 1 .. s /\ k \in KeptAt(id, A)
    BY <1>3, <1>4
  <2>2. Rank(id, A, k) \in DOMAIN inside /\ inside[Rank(id, A, k)] = k
    BY <1>2, <1>5, <1>6, <2>1
  <2> QED BY <1>1, <2>2
<1>8. ASSUME NEW j \in DOMAIN keys PROVE \E k \in A : keys[j] = segs[k].barrier
  <2>1. j \in 1 .. Len(inside) /\ keys[j] = segs[inside[j]].barrier
    BY <1>1, <1>6
  <2>2. PICK i \in KeptAt(id, A) : inside[j] = id[i]
    BY <1>5, <2>1
  <2>3. i \in A /\ inside[j] = i
    BY <1>2, <1>3, <1>4, <2>2
  <2> QED BY <2>1, <2>3
<1>9. ASSUME A = {} PROVE keys = <<>>
  <2>1. KeptAt(id, A) = {}
    BY <1>4, <1>9
  <2>2. Len(inside) = 0
    BY <1>5, <2>1, FS_EmptySet
  <2>3. DOMAIN inside = {} /\ DOMAIN keys = {}
    BY <1>1, <1>6, <2>2
  <2> QED BY <1>1, <2>3
<1> QED BY <1>7, <1>8, <1>9 DEF A, keys

(* and depend on nothing else.                                             *)
LEMMA KeysDetermined ==
  ASSUME NEW segs1, NEW s1 \in Nat, DOMAIN segs1 = 1 .. s1,
         NEW segs2, NEW s2 \in Nat, DOMAIN segs2 = 1 .. s2, NEW l,
         BarriersIn(segs1, l) = BarriersIn(segs2, l),
         \A k \in BarriersIn(segs1, l) : segs1[k].barrier = segs2[k].barrier
  PROVE  ScopeKeys(segs1, l) = ScopeKeys(segs2, l)
<1> DEFINE A       == BarriersIn(segs1, l)
           id1     == [k \in DOMAIN segs1 |-> k]
           id2     == [k \in DOMAIN segs2 |-> k]
           inside1 == Filtered(id1, A)
           inside2 == Filtered(id2, A)
<1>1. /\ ScopeKeys(segs1, l) = [j \in DOMAIN inside1 |-> segs1[inside1[j]].barrier]
      /\ ScopeKeys(segs2, l) = [j \in DOMAIN Filtered(id2, BarriersIn(segs2, l)) |->
                                  segs2[Filtered(id2, BarriersIn(segs2, l))[j]].barrier]
  BY DEF ScopeKeys, BarriersIn
<1>2. ScopeKeys(segs2, l) = [j \in DOMAIN inside2 |-> segs2[inside2[j]].barrier]
  BY <1>1
<1>3. id1 \in Seq(Nat) /\ id2 \in Seq(Nat) /\ Len(id1) = s1 /\ Len(id2) = s2 /\ \A i \in 1 .. s1 : id1[i] = i
  OBVIOUS
<1>4. A \subseteq 1 .. s1 /\ A \subseteq 1 .. s2
  BY DEF BarriersIn
<1>5. KeptAt(id1, A) = A /\ KeptAt(id2, A) = A
  <2>1. \A i \in 1 .. s2 : id2[i] = i
    OBVIOUS
  <2>2. ASSUME NEW id, NEW m, Len(id) = m, \A i \in 1 .. m : id[i] = i, A \subseteq 1 .. m
        PROVE  KeptAt(id, A) = A
    <3> HIDE DEF A
    <3> QED BY <2>2 DEF KeptAt
  <2> HIDE DEF id1, id2, A
  <2>3. KeptAt(id1, A) = A
    BY <1>3, <1>4, <2>2
  <2>4. KeptAt(id2, A) = A
    BY <1>3, <1>4, <2>1, <2>2
  <2> QED BY <2>3, <2>4
<1>6. \A i : Rank(id1, A, i) = Rank(id2, A, i)
  <2> HIDE DEF id1, id2, A
  <2> QED BY <1>5 DEF Rank
<1>7. inside1 = inside2
  <2> DEFINE c      == Cardinality(A)
             pos(k) == CHOOSE i \in A : Rank(id1, A, i) = k
             P(k, i) == Rank(id1, A, i) = k
             Q(k, i) == Rank(id2, A, i) = k
  <2>0. \A k : (CHOOSE i \in A : P(k, i)) = (CHOOSE i \in A : Q(k, i))
    <3> HIDE DEF id1, id2, A
    <3> QED BY <1>6
  <2>1. inside1 = [k \in 1 .. c |-> id1[pos(k)]]
    <3> HIDE DEF id1, A
    <3> QED BY <1>5 DEF Filtered
  <2>2. inside2 = [k \in 1 .. c |-> id2[pos(k)]]
    <3> HIDE DEF id1, id2, A
    <3>1. inside2 = [k \in 1 .. c |-> id2[CHOOSE i \in A : Q(k, i)]]
      BY <1>5 DEF Filtered
    <3>2. \A k : id2[CHOOSE i \in A : Q(k, i)] = id2[pos(k)]
      BY <2>0
    <3> HIDE DEF pos, P, Q
    <3> QED BY <3>1, <3>2
  <2>3. ASSUME NEW k \in 1 .. c PROVE id1[pos(k)] = id2[pos(k)]
    <3>1. c = Cardinality(KeptAt(id1, A))
      BY <1>5
    <3> HIDE DEF id1, id2, c
    <3>2. \E i \in KeptAt(id1, A) : Rank(id1, A, i) = k
      BY <1>3, <3>1, RankNumbers
    <3>3. \E i \in A : Rank(id1, A, i) = k
      BY <1>5, <3>2
    <3>4. pos(k) \in A
      BY <3>3
    <3> HIDE DEF pos
    <3>5. pos(k) \in 1 .. s1 /\ pos(k) \in 1 .. s2
      BY <1>4, <3>4
    <3> QED BY <3>5 DEF id1, id2
  <2> HIDE DEF c, pos, id1, id2, inside1, inside2
  <2> QED BY <2>1, <2>2, <2>3
<1>8. /\ inside1 \in Seq(Nat)
      /\ \A k \in 1 .. Len(inside1) : \E i \in KeptAt(id1, A) : inside1[k] = id1[i]
  <2> HIDE DEF id1, A
  <2> QED BY <1>3, FilteredElements
<1> HIDE DEF inside1, inside2, id1, id2, A
<1>9. ASSUME NEW j \in DOMAIN inside1 PROVE segs1[inside1[j]].barrier = segs2[inside1[j]].barrier
  <2>1. j \in 1 .. Len(inside1)
    BY <1>8
  <2>2. inside1[j] \in A
    <3>1. PICK i \in KeptAt(id1, A) : inside1[j] = id1[i]
      BY <1>8, <2>1
    <3>2. i \in A /\ i \in 1 .. s1
      BY <1>4, <1>5, <3>1
    <3> QED BY <1>3, <3>1, <3>2
  <2> QED BY <2>2 DEF A
<1> QED BY <1>1, <1>2, <1>7, <1>9

-----------------------------------------------------------------------------
(* A prompt and its blocks.                                                *)

(* The text of a later part comes later.                                   *)
LEMMA LaidOrder ==
  ASSUME NEW segs, NEW e, NEW n \in Nat, NEW builder, NEW body, NEW truth, NEW scope,
         Laid(segs, e, n, builder, body, truth, scope)
  PROVE  \A b \in 1 .. n : e[b] \in Nat /\ \A a \in 1 .. b - 1 : e[a] \in Nat /\ e[a] <= e[b] - 1
<1>1. e \in [0 .. n -> Nat] /\ \A k \in 1 .. n : e[k] = e[k - 1] + 2 \/ e[k] = e[k - 1] + 1
  BY DEF Laid
<1> DEFINE S == {b \in Nat : b \in 1 .. n => \A a \in 1 .. b - 1 : e[a] <= e[b] - 1}
<1>2. 0 \in S
  OBVIOUS
<1>3. ASSUME NEW c \in Nat, c \in S PROVE c + 1 \in S
  <2> DEFINE b == c + 1
  <2> SUFFICES ASSUME b \in 1 .. n, NEW a \in 1 .. c PROVE e[a] <= e[b] - 1
    OBVIOUS
  <2>1. b - 1 = c /\ c \in 1 .. n /\ (a = c \/ a \in 1 .. c - 1) /\ a \in 1 .. n
    OBVIOUS
  <2>2. a # c => e[a] <= e[c] - 1
    BY <1>3, <2>1
  <2> HIDE DEF b
  <2>3. e[b] = e[c] + 2 \/ e[b] = e[c] + 1
    BY <1>1, <2>1
  <2>4. e[a] \in Nat /\ e[b] \in Nat /\ e[c] \in Nat
    BY <1>1, <2>1
  <2> QED BY <2>2, <2>3, <2>4
<1>4. Nat \subseteq S
  <2> HIDE DEF S
  <2> QED BY <1>2, <1>3, Induction
<1> QED BY <1>1, <1>4

(* The scope in force in a part was opened there or before.                *)
LEMMA Governs ==
  ASSUME NEW scope, NEW n \in Nat, \A k \in 1 .. n : scope[k] # NoScope, NEW m \in 1 .. n
  PROVE  \E g \in 1 .. m : OpensScope(scope, g) /\ scope[g] = scope[m]
<1> DEFINE S == {g \in 1 .. m : \A x \in g .. m : scope[x] = scope[m]}
<1>1. S \subseteq Nat /\ m \in S
  OBVIOUS
<1>2. PICK g \in S : \A x \in S : g <= x
  BY <1>1, LeastElement
<1>3. g \in 1 .. m /\ g \in 1 .. n /\ scope[g] = scope[m]
  BY <1>2
<1>4. ASSUME g > 1 PROVE scope[g] # scope[g - 1]
  <2> DEFINE f == g - 1
  <2>1. f \in 1 .. m /\ ~(g <= f) /\ \A x \in f .. m : x = f \/ x \in g .. m
    BY <1>3, <1>4
  <2> HIDE DEF f
  <2>2. f \notin S
    BY <1>2, <2>1
  <2>3. scope[f] # scope[m]
    BY <1>2, <2>1, <2>2
  <2> QED BY <1>3, <2>3 DEF f
<1> QED BY <1>3, <1>4 DEF OpensScope

(* All of the above for a prompt that build() returns.                     *)
TokensOf(prompt) == FlattenSeq([k \in DOMAIN prompt.segs |-> prompt.segs[k].tokens])

Formed(prompt, builder, question, scope, n, e, starts, T) ==
  /\ Readable(prompt.docs, prompt.user)
  /\ n = Len(prompt.docs) + 2 /\ Len(prompt.docs) \in Nat /\ DOMAIN prompt.docs = 1 .. Len(prompt.docs)
  /\ Laid(prompt.segs, e, n, builder, Body(prompt.docs, question), Truth(prompt.docs), scope)
  /\ Placed(T, prompt.segs, starts, Len(prompt.segs), TokensOf(prompt))
  /\ \A j \in 1 .. Len(prompt.segs) :
       /\ Len(prompt.segs[j].tokens) >= 1
       /\ \A i \in 1 .. Len(prompt.segs[j].tokens) : Genuine(prompt.segs[j].tokens[i], builder, scope, n)
  /\ \A scoped : Chained(BlockHashes(prompt.segs, scoped), TokensOf(prompt), prompt.segs, scoped)

Prompted(prompt, builder, caching, id, user, question) ==
  /\ prompt.user = user /\ prompt.id = id /\ prompt.scoped = TRUE /\ prompt.probe = FALSE
  /\ \E n, e, starts, T :
       Formed(prompt, builder, question, PlanScopes(caching, id, user, Truth(prompt.docs)), n, e, starts, T)

LEMMA BuildForms ==
  ASSUME NEW builder, NEW caching, NEW id, NEW user, NEW question, NEW evidence, Documents(evidence),
         NEW prompt, prompt = Build(builder, caching, id, user, question, evidence)
  PROVE  /\ Prompted(prompt, builder, caching, id, user, question)
         /\ prompt.docs = AuthorizationFilter(evidence, user)
<1> DEFINE kept  == AuthorizationFilter(evidence, user)
           truth == Truth(kept)
           scope == PlanScopes(caching, id, user, truth)
           body  == Body(kept, question)
           segs  == Segments(builder, kept, question, truth, scope)
           d     == Len(kept)
           n     == d + 2
           flat  == FlattenSeq([k \in DOMAIN segs |-> segs[k].tokens])
<1>1. /\ prompt.user = user /\ prompt.id = id /\ prompt.docs = kept /\ prompt.segs = segs
      /\ prompt.scoped = TRUE /\ prompt.probe = FALSE
  BY DEF Build
<1>2. Readable(kept, user)
  BY KeptReadable
<1>3. d \in Nat /\ DOMAIN kept = 1 .. d
  BY <1>2 DEF Readable
<1> HIDE DEF kept, truth, scope, body, segs, flat, d
<1>4. Len(body) = n /\ DOMAIN body = 1 .. n /\ n \in Nat /\ n # 0
  BY <1>2, <1>3, BodyTexts DEF body, d
<1>5. PICK e : Laid(segs, e, n, builder, body, truth, scope)
  <2> HIDE DEF n
  <2> QED BY <1>4, SegmentsLaid DEF body, segs
<1>6. PICK T : \A j \in 1 .. Len(segs) :
           /\ segs[j].tokens \in Seq(T)
           /\ Len(segs[j].tokens) >= 1
           /\ \A i \in 1 .. Len(segs[j].tokens) : Genuine(segs[j].tokens[i], builder, scope, n)
  <2>1. n = Len(kept) + 2
    BY DEF d
  <2>2. body = Body(kept, question)
    BY DEF body
  <2> HIDE DEF n
  <2>3. \E T : \A j \in 1 .. Len(segs) :
           /\ segs[j].tokens \in Seq(T)
           /\ Len(segs[j].tokens) >= 1
           /\ \A i \in 1 .. Len(segs[j].tokens) : Genuine(segs[j].tokens[i], builder, scope, n)
    BY <1>2, <1>5, <2>1, <2>2, LaidTokens, ZenonT(40)
  <2> QED BY <2>3
<1>7. Len(segs) \in Nat /\ DOMAIN segs = 1 .. Len(segs) /\ Len(segs) # 0
  <2>1. Len(segs) \in Nat /\ DOMAIN segs = 1 .. Len(segs) /\ e[n] \in 1 .. Len(segs)
    BY <1>4, <1>5 DEF Laid
  <2> QED BY <2>1
<1>8. PICK starts : Placed(T, segs, starts, Len(segs), flat)
  BY <1>6, <1>7, TokensPlaced DEF flat
<1>9. Len(flat) \in Nat
  BY <1>8 DEF Placed
<1>10. \A scoped : Chained(BlockHashes(segs, scoped), flat, segs, scoped)
  BY <1>9, HashesChained DEF flat
<1>11. Formed(prompt, builder, question, scope, n, e, starts, T)
  <2>1. TokensOf(prompt) = flat
    BY <1>1 DEF TokensOf, flat
  <2>2. n = Len(prompt.docs) + 2 /\ Len(prompt.docs) \in Nat /\ DOMAIN prompt.docs = 1 .. Len(prompt.docs)
    BY <1>1, <1>3 DEF d
  <2>3. Laid(prompt.segs, e, n, builder, Body(prompt.docs, question), Truth(prompt.docs), scope)
    BY <1>1, <1>5 DEF body, truth
  <2> HIDE DEF n
  <2> QED BY <1>1, <1>2, <1>6, <1>8, <1>10, <2>1, <2>2, <2>3 DEF Formed
<1>12. scope = PlanScopes(caching, id, user, Truth(prompt.docs))
  BY <1>1 DEF scope, truth
<1>13. prompt.docs = AuthorizationFilter(evidence, user)
  BY <1>1 DEF kept
<1>14. Prompted(prompt, builder, caching, id, user, question)
  <2> HIDE DEF n
  <2> QED BY <1>1, <1>11, <1>12 DEF Prompted
<1> QED BY <1>13, <1>14

(* Segment j starts before block i ends.                                   *)
StartsBy(starts, j, i) == starts[j - 1] < i * BlockSize

Fits(prompt, i)       == i \in Nat \ {0} /\ i * BlockSize <= Len(TokensOf(prompt))
Occurs(one, scope, n) == \E k \in 1 .. n : scope[k] = one
Everywhere(scope, n)  == \A k \in 1 .. n : scope[k] # NoScope
StartsWith(one, scope, n, e, starts, i) == \E k \in 1 .. n : scope[k] = one /\ StartsBy(starts, e[k], i)

(* The ACL recorded for a block is that of the segment its last token is   *)
(* in.                                                                     *)
LEMMA LastSegment ==
  ASSUME NEW prompt, NEW builder, NEW question, NEW scope, NEW n, NEW e, NEW starts, NEW T,
         Formed(prompt, builder, question, scope, n, e, starts, T),
         NEW s, s = Len(prompt.segs),
         NEW i \in Nat \ {0}, i * BlockSize <= starts[s]
  PROVE  \E j \in 1 .. s : /\ starts[j - 1] < i * BlockSize /\ i * BlockSize <= starts[j]
                           /\ BlockAudience(prompt, i) = Audience(prompt.segs[j].acl)
<1> DEFINE segs == prompt.segs
           x    == i * BlockSize
           t    == x - 1
           In(k) == Starts(segs)[k] <= t /\ t < Starts(segs)[k + 1]
           j    == CHOOSE k \in DOMAIN segs : In(k)
<1>1. /\ starts \in [0 .. s -> Nat]
      /\ \A y \in 1 .. starts[s] : \E k \in 1 .. s : starts[k - 1] < y /\ y <= starts[k]
      /\ \A k \in 1 .. s + 1 : Starts(segs)[k] = starts[k - 1]
  BY DEF Formed, Placed
<1>2. s \in Nat /\ DOMAIN segs = 1 .. s
  BY DEF Formed, Laid
<1>3. x \in Nat /\ x >= 1 /\ x <= starts[s] /\ starts[s] \in Nat
  <2>1. x \in Nat /\ 1 * BlockSize <= i * BlockSize
    BY BlockAssumption, Multiples
  <2> QED BY <1>1, <1>2, <2>1, BlockAssumption
<1>4. BlockAudience(prompt, i) = Audience(segs[j].acl)
  BY DEF BlockAudience, AclAt
<1> HIDE DEF segs, x
<1>5. ASSUME NEW k \in 1 .. s PROVE In(k) <=> starts[k - 1] < x /\ x <= starts[k]
  <2> DEFINE a == Starts(segs)[k]
             b == Starts(segs)[k + 1]
  <2>1. k \in 1 .. s + 1 /\ k + 1 \in 1 .. s + 1 /\ (k + 1) - 1 = k /\ k \in 0 .. s /\ k - 1 \in 0 .. s
    BY <1>2
  <2>2. a = starts[k - 1] /\ b = starts[k] /\ a \in Nat /\ b \in Nat
    BY <1>1, <2>1
  <2> HIDE DEF a, b
  <2>3. a <= t /\ t < b <=> a < x /\ x <= b
    BY <1>3, <2>2
  <2> QED BY <2>2, <2>3 DEF a, b
<1> HIDE DEF In
<1>6. PICK k \in 1 .. s : In(k)
  BY <1>1, <1>3, <1>5
<1>7. j \in 1 .. s /\ In(j)
  BY <1>2, <1>6
<1> HIDE DEF j
<1> QED BY <1>4, <1>5, <1>7 DEF segs, x

(* The part a block ends in, and where the scope in force there is opened: *)
(* at or before the segment the block ends in.                             *)
Opening(builder, e, g) == IF builder.scopeMode = "marker" THEN e[g] - 1 ELSE e[g]

EndsIn(prompt, builder, scope, e, starts, i, m, j) ==
  /\ StartsBy(starts, j, i) /\ i * BlockSize <= starts[j]
  /\ BlockAudience(prompt, i) = Audience(Truth(prompt.docs)[m])
  /\ j <= e[m]
  /\ builder.scopeMode = "hash" => j = e[m]
  /\ \A g \in 1 .. m : OpensScope(scope, g) => Opening(builder, e, g) \in 1 .. j

LEMMA LastPart ==
  ASSUME NEW prompt, NEW builder \in Builders, NEW question, NEW scope, NEW n, NEW e, NEW starts, NEW T,
         Formed(prompt, builder, question, scope, n, e, starts, T),
         NEW s, s = Len(prompt.segs),
         NEW i \in Nat \ {0}, i * BlockSize <= starts[s]
  PROVE  \E m \in 1 .. n : \E j \in 1 .. s : EndsIn(prompt, builder, scope, e, starts, i, m, j)
<1> DEFINE segs  == prompt.segs
           truth == Truth(prompt.docs)
           body  == Body(prompt.docs, question)
<1>1. PICK j \in 1 .. s : /\ starts[j - 1] < i * BlockSize /\ i * BlockSize <= starts[j]
                          /\ BlockAudience(prompt, i) = Audience(segs[j].acl)
  BY LastSegment
<1>2. Laid(segs, e, n, builder, body, truth, scope) /\ n \in Nat
  BY DEF Formed
<1> HIDE DEF segs, truth, body
<1>3. PICK m \in 1 .. n : j = e[m] \/ (Marked(builder, scope, m) /\ j = e[m] - 1)
  BY <1>2 DEF Laid, segs
<1>4. e \in [0 .. n -> Nat] /\ e[m] \in Nat
  BY <1>2 DEF Laid
<1>5. segs[j].acl = truth[m]
  <2>1. /\ segs[e[m]] = TextAt(builder, body, truth, scope, m)
        /\ Marked(builder, scope, m) => segs[e[m] - 1] = MarkAt(builder, truth, scope, m)
    BY <1>2 DEF Laid
  <2>2. TextAt(builder, body, truth, scope, m).acl = truth[m] /\ MarkAt(builder, truth, scope, m).acl = truth[m]
    BY DEF TextAt, MarkAt
  <2> QED BY <1>3, <2>1, <2>2
<1>6. ASSUME NEW g \in 1 .. m, OpensScope(scope, g) PROVE Opening(builder, e, g) \in 1 .. j
  <2> DEFINE o == Opening(builder, e, g)
             a == e[g]
             b == e[m]
             c == e[g - 1]
  <2>1. g \in 1 .. n /\ g - 1 \in 0 .. n
    BY <1>2
  <2>2. a \in Nat /\ b \in Nat /\ c \in Nat /\ j \in Nat
    BY <1>4, <2>1
  <2>3. a = c + 2 \/ (builder.scopeMode # "marker" /\ a = c + 1)
    BY <1>2, <1>6, <2>1 DEF Laid, Marked
  <2>4. o = a \/ (builder.scopeMode = "marker" /\ o = a - 1)
    BY DEF Opening
  <2>5. g = m \/ a <= b - 1
    BY <1>2, <1>3, LaidOrder
  <2>6. j = b \/ j = b - 1
    BY <1>3
  <2>7. builder.scopeMode # "marker" => j = b
    BY <1>3 DEF Marked
  <2>8. builder.scopeMode = "marker" => o = a - 1
    BY DEF Opening
  <2>9. g = m => a = b
    OBVIOUS
  <2> HIDE DEF o, a, b, c
  <2>10. o \in 1 .. j
    BY <2>2, <2>3, <2>4, <2>5, <2>6, <2>7, <2>8, <2>9
  <2> QED BY <2>10 DEF o
<1>7. builder.scopeMode = "hash" => j = e[m]
  BY <1>3 DEF Marked
<1>8. j <= e[m]
  BY <1>3, <1>4
<1>9. EndsIn(prompt, builder, scope, e, starts, i, m, j)
  BY <1>1, <1>3, <1>5, <1>6, <1>7, <1>8 DEF truth, EndsIn, StartsBy
<1> QED BY <1>9

(* A scope that one prompt opens in blocks that another shares occurs in   *)
(* the other: its barrier among the extra keys of the same block, or its   *)
(* marker in the text.                                                     *)
LEMMA SharedBarrier ==
  ASSUME NEW p1, NEW p2, NEW builder, NEW q1, NEW q2, NEW scope1, NEW scope2,
         NEW n1, NEW n2, NEW e1, NEW e2, NEW st1, NEW st2, NEW T1, NEW T2,
         Formed(p1, builder, q1, scope1, n1, e1, st1, T1),
         Formed(p2, builder, q2, scope2, n2, e2, st2, T2),
         builder.scopeMode = "hash",
         NEW i, Fits(p2, i), SameKeys(p1.segs, TRUE, p2.segs, TRUE, i),
         NEW g \in 1 .. n1, OpensScope(scope1, g), StartsBy(st1, e1[g], i)
  PROVE  StartsWith(scope1[g], scope2, n2, e2, st2, i)
<1> DEFINE segs1 == p1.segs
           segs2 == p2.segs
           s1    == Len(segs1)
           s2    == Len(segs2)
           o     == e1[g]
           a     == st1[o - 1]
           l     == a \div BlockSize + 1
<1>0. i \in Nat \ {0} /\ i * BlockSize <= Len(TokensOf(p2))
  BY DEF Fits
<1>1. /\ Laid(segs1, e1, n1, builder, Body(p1.docs, q1), Truth(p1.docs), scope1)
      /\ Laid(segs2, e2, n2, builder, Body(p2.docs, q2), Truth(p2.docs), scope2)
      /\ Placed(T1, segs1, st1, s1, TokensOf(p1)) /\ Placed(T2, segs2, st2, s2, TokensOf(p2))
  BY DEF Formed
<1>2. s1 \in Nat /\ DOMAIN segs1 = 1 .. s1 /\ s2 \in Nat /\ DOMAIN segs2 = 1 .. s2 /\ o \in 1 .. s1
  BY <1>1 DEF Laid
<1>3. segs1[o].barrier = scope1[g] /\ scope1[g] # NoScope
  <2>1. segs1[o] = TextAt(builder, Body(p1.docs, q1), Truth(p1.docs), scope1, g)
    BY <1>1 DEF Laid
  <2> QED BY <2>1 DEF TextAt, OpensScope
<1>4. a \in Nat /\ Starts(segs1)[o] = a
  <2>1. o - 1 \in 0 .. s1 /\ o \in 1 .. s1 + 1
    BY <1>2
  <2> HIDE DEF o
  <2> QED BY <1>1, <2>1 DEF Placed
<1>5. l \in 1 .. i
  <2> DEFINE q == a \div BlockSize
             x == i * BlockSize
             y == q * BlockSize
  <2>1. q \in Nat
    BY <1>4, BlockAssumption
  <2>2. y <= a
    <3> HIDE DEF a, q
    <3> QED BY <1>4, <2>1, BlockAssumption, Quotient DEF q
  <2>3. x \in Nat /\ y \in Nat /\ (i <= q => x <= y)
    <3> HIDE DEF q
    <3> QED BY <1>0, <2>1, BlockAssumption, Multiples
  <2>4. a < x /\ a \in Nat
    BY <1>0, <1>4 DEF StartsBy
  <2>5. ~(i <= q)
    <3> HIDE DEF a, x, y, q
    <3> QED BY <1>0, <2>2, <2>3, <2>4
  <2> HIDE DEF q
  <2> QED BY <1>0, <2>1, <2>5 DEF q
<1>6. o \in BarriersIn(segs1, l)
  <2> DEFINE q == a \div BlockSize
  <2>1. q \in Nat /\ l - 1 = q
    BY <1>4, BlockAssumption
  <2> HIDE DEF o, l, segs1
  <2> QED BY <1>2, <1>3, <1>4, <2>1 DEF BarriersIn
<1> HIDE DEF segs1, segs2, s1, s2, o, a, l
<1>7. PICK x \in DOMAIN ScopeKeys(segs1, l) : ScopeKeys(segs1, l)[x] = scope1[g]
  BY <1>2, <1>3, <1>6, KeysOf
<1>8. PICK k \in BarriersIn(segs2, l) : segs2[k].barrier = scope1[g]
  <2>1. ScopeKeys(segs2, l) = ScopeKeys(segs1, l)
    BY <1>5 DEF segs1, segs2, SameKeys, KeyOf
  <2> QED BY <1>2, <1>7, <2>1, KeysOf
<1>9. k \in 1 .. s2
  BY <1>2 DEF BarriersIn
<1>10. PICK m \in 1 .. n2 : k = e2[m]
  BY <1>1, <1>9 DEF Laid, Marked, s2
<1>11. segs2[k] = TextAt(builder, Body(p2.docs, q2), Truth(p2.docs), scope2, m)
  BY <1>1, <1>10 DEF Laid
<1>12. segs2[k].barrier \in {scope2[m], NoScope}
  BY <1>11 DEF TextAt
<1>13. scope2[m] = scope1[g]
  BY <1>3, <1>8, <1>12
<1>14. st2[k - 1] < i * BlockSize
  <2> DEFINE c == st2[k - 1]
             r == l - 1
             z == l * BlockSize
             y == i * BlockSize
  <2>1. k \in 1 .. s2 + 1 /\ k - 1 \in 0 .. s2
    BY <1>2, <1>9
  <2>2. c \in Nat /\ Starts(segs2)[k] = c
    BY <1>1, <2>1 DEF Placed
  <2>3. c \div BlockSize = r
    BY <2>2 DEF BarriersIn
  <2>4. r \in Nat /\ l = r + 1 /\ l \in Nat /\ l # 0 /\ l <= i /\ i \in Nat
    BY <1>0, <1>5
  <2> HIDE DEF c, r
  <2>5. c < (r + 1) * BlockSize
    BY <2>2, <2>3, <2>4, BlockAssumption, Quotient
  <2>6. z \in Nat /\ y \in Nat /\ z <= y
    BY <2>4, BlockAssumption, Multiples
  <2>7. c < z
    BY <2>4, <2>5
  <2> HIDE DEF z, y
  <2>8. c < y
    BY <2>2, <2>6, <2>7
  <2> QED BY <2>8 DEF c, y
<1> QED BY <1>10, <1>13, <1>14 DEF StartsBy, StartsWith

LEMMA MarkStarts ==
  ASSUME NEW builder, NEW x
  PROVE  /\ Len(Pad(builder, Marker(x))) \in Nat /\ Len(Pad(builder, Marker(x))) >= 1
         /\ Pad(builder, Marker(x))[1] = MarkToken(x)
<1> DEFINE mark == MarkToken(x)
           T    == {PadToken, mark}
           u    == Marker(x)
           t    == Pad(builder, u)
<1>1. u = <<mark>>
  BY MarkTokens
<1> HIDE DEF mark, u
<1>2. u \in Seq(T) /\ Len(u) = 1 /\ u[1] = mark /\ PadToken \in T
  BY <1>1
<1> HIDE DEF t, T
<1>3. /\ Len(t) \in Nat /\ Len(u) <= Len(t)
      /\ \A y \in 1 .. Len(t) : t[y] = IF y <= Len(u) THEN u[y] ELSE PadToken
  BY <1>2, PadKeeps DEF t
<1>4. 1 \in 1 .. Len(t) /\ Len(t) >= 1
  BY <1>2, <1>3
<1>5. t[1] = mark
  BY <1>2, <1>3, <1>4
<1> QED BY <1>3, <1>4, <1>5 DEF t, u, mark

LEMMA SharedMarker ==
  ASSUME NEW p1, NEW p2, NEW builder, NEW q1, NEW q2, NEW scope1, NEW scope2,
         NEW n1, NEW n2, NEW e1, NEW e2, NEW st1, NEW st2, NEW T1, NEW T2,
         Formed(p1, builder, q1, scope1, n1, e1, st1, T1),
         Formed(p2, builder, q2, scope2, n2, e2, st2, T2),
         NEW i, Fits(p2, i), SameText(TokensOf(p1), TokensOf(p2), i),
         NEW g \in 1 .. n1, Marked(builder, scope1, g),
         NEW o, o = e1[g] - 1, StartsBy(st1, o, i)
  PROVE  Occurs(scope1[g], scope2, n2)
<1> DEFINE segs1 == p1.segs
           segs2 == p2.segs
           s1    == Len(segs1)
           s2    == Len(segs2)
           flat1 == TokensOf(p1)
           flat2 == TokensOf(p2)
           a     == st1[o - 1]
           y     == a + 1
           mark  == MarkToken(scope1[g])
<1>0. i \in Nat \ {0} /\ i * BlockSize <= Len(TokensOf(p2))
  BY DEF Fits
<1>1. /\ Laid(segs1, e1, n1, builder, Body(p1.docs, q1), Truth(p1.docs), scope1)
      /\ Placed(T1, segs1, st1, s1, flat1)
      /\ Placed(T2, segs2, st2, s2, flat2)
      /\ \A k \in 1 .. s2 : \A z \in 1 .. Len(segs2[k].tokens) : Genuine(segs2[k].tokens[z], builder, scope2, n2)
      /\ Laid(segs2, e2, n2, builder, Body(p2.docs, q2), Truth(p2.docs), scope2)
      /\ n1 \in Nat
  BY DEF Formed
<1>2. /\ s1 \in Nat /\ s2 \in Nat
      /\ o \in 1 .. s1 /\ segs1[o] = MarkAt(builder, Truth(p1.docs), scope1, g)
  <2>1. /\ e1[g] \in 1 .. s1 /\ e1[g] = e1[g - 1] + 2 /\ segs1[e1[g] - 1] = MarkAt(builder, Truth(p1.docs), scope1, g)
        /\ e1 \in [0 .. n1 -> Nat] /\ s1 \in Nat /\ s2 \in Nat
    BY <1>1 DEF Laid
  <2> DEFINE b == e1[g]
             c == e1[g - 1]
  <2>2. c \in Nat
    <3>1. g - 1 \in 0 .. n1
      BY <1>1
    <3> QED BY <2>1, <3>1
  <2>3. b \in 1 .. s1 /\ b = c + 2 /\ o = b - 1
    BY <2>1
  <2>4. segs1[o] = MarkAt(builder, Truth(p1.docs), scope1, g)
    BY <2>1
  <2> HIDE DEF b, c, s1, s2
  <2>5. o \in 1 .. s1
    BY <2>1, <2>2, <2>3
  <2> QED BY <2>1, <2>4, <2>5
<1>3. Len(segs1[o].tokens) >= 1 /\ Len(segs1[o].tokens) \in Nat /\ segs1[o].tokens[1] = mark
  <2>1. segs1[o].tokens = Pad(builder, Marker(scope1[g]))
    BY <1>2 DEF MarkAt
  <2> QED BY <2>1, MarkStarts
<1> HIDE DEF segs1, segs2, s1, s2, flat1, flat2, mark
<1>4. a \in Nat /\ flat1[y] = mark
  <2>1. o - 1 \in 0 .. s1 /\ 1 \in 1 .. Len(segs1[o].tokens)
    BY <1>2, <1>3
  <2>2. st1[o - 1] \in Nat
    BY <1>1, <2>1 DEF Placed
  <2>3. flat1[st1[o - 1] + 1] = segs1[o].tokens[1]
    BY <1>1, <1>2, <2>1 DEF Placed
  <2> QED BY <1>3, <2>2, <2>3
<1>5. y \in 1 .. i * BlockSize /\ y \in 1 .. st2[s2]
  <2> DEFINE x == i * BlockSize
  <2>1. x \in Nat /\ a < x
    BY <1>0, BlockAssumption DEF StartsBy
  <2>2. st2[s2] = Len(flat2) /\ st2[s2] \in Nat
    BY <1>1, <1>2 DEF Placed
  <2>3. x <= st2[s2]
    BY <1>0, <2>2 DEF flat2
  <2> HIDE DEF x, a
  <2>4. y \in 1 .. x /\ y \in 1 .. st2[s2]
    BY <1>4, <2>1, <2>2, <2>3
  <2> QED BY <2>4 DEF x
<1>6. flat2[y] = mark
  BY <1>4, <1>5 DEF flat1, flat2, SameText
<1> HIDE DEF y, a
<1>7. PICK k \in 1 .. s2 : st2[k - 1] < y /\ y <= st2[k]
  BY <1>1, <1>5 DEF Placed
<1> DEFINE b == st2[k - 1]
           w == Len(segs2[k].tokens)
           z == y - b
<1>8. b \in Nat /\ w \in Nat /\ st2[k] = b + w
  <2>1. k - 1 \in 0 .. s2
    BY <1>2
  <2> QED BY <1>1, <2>1 DEF Placed
<1>9. z \in 1 .. w /\ b + z = y
  <2>1. b < y /\ y <= b + w /\ y \in Nat
    BY <1>2, <1>5, <1>7, <1>8
  <2> HIDE DEF b, w
  <2> QED BY <1>8, <2>1
<1>10. flat2[b + z] = segs2[k].tokens[z]
  <2> HIDE DEF z
  <2> QED BY <1>1, <1>9 DEF Placed
<1>11. segs2[k].tokens[z] = mark
  BY <1>6, <1>9, <1>10
<1>12. Genuine(mark, builder, scope2, n2)
  <2> HIDE DEF z
  <2> QED BY <1>1, <1>9, <1>11
<1>13. PICK m \in 1 .. n2 : mark = MarkToken(scope2[m])
  BY <1>12, MarkTokens DEF Genuine, mark
<1>14. scope2[m] = scope1[g]
  BY <1>13, MarkTokens DEF mark
<1> QED BY <1>14 DEF Occurs

-----------------------------------------------------------------------------
(* Sharing and the recorded audience.                                      *)

(* A scope in force at the end of a block was opened before that end.      *)
LEMMA OpenedBefore ==
  ASSUME NEW p, NEW builder, NEW q, NEW scope, NEW n, NEW e, NEW st, NEW T,
         Formed(p, builder, q, scope, n, e, st, T), NEW i \in Nat,
         NEW m \in 1 .. n, NEW j \in 1 .. Len(p.segs), EndsIn(p, builder, scope, e, st, i, m, j),
         NEW g \in 1 .. m, OpensScope(scope, g)
  PROVE  StartsBy(st, Opening(builder, e, g), i)
<1> DEFINE s == Len(p.segs)
           o == Opening(builder, e, g)
           a == o - 1
           b == j - 1
           x == i * BlockSize
<1>1. s \in Nat /\ st \in [0 .. s -> Nat] /\ \A k \in 0 .. s : \A y \in 0 .. k : st[y] <= st[k]
  BY DEF Formed, Placed, Laid
<1>2. o \in 1 .. j
  BY DEF EndsIn
<1>3. x \in Nat /\ st[b] < x
  BY BlockAssumption DEF EndsIn, StartsBy
<1> HIDE DEF o, s, x
<1>4. b \in 0 .. s /\ a \in 0 .. b /\ a \in 0 .. s
  BY <1>1, <1>2 DEF s
<1> HIDE DEF a, b
<1>5. st[a] < x
  BY <1>1, <1>3, <1>4
<1> QED BY <1>5 DEF a, x, o, StartsBy

(* A scope of one prompt that governs the end of a shared block occurs in  *)
(* the other prompt.                                                       *)
LEMMA SharedScope ==
  ASSUME NEW p1, NEW p2, NEW builder \in Builders, NEW q1, NEW q2, NEW scope1, NEW scope2,
         NEW n1, NEW n2, NEW e1, NEW e2, NEW st1, NEW st2, NEW T1, NEW T2,
         Formed(p1, builder, q1, scope1, n1, e1, st1, T1),
         Formed(p2, builder, q2, scope2, n2, e2, st2, T2),
         NEW i, Fits(p2, i), SameText(TokensOf(p1), TokensOf(p2), i),
         SameKeys(p1.segs, TRUE, p2.segs, TRUE, i),
         NEW m \in 1 .. n1, NEW j \in 1 .. Len(p1.segs), EndsIn(p1, builder, scope1, e1, st1, i, m, j),
         Everywhere(scope1, n1)
  PROVE  Occurs(scope1[m], scope2, n2)
<1>1. n1 \in Nat /\ i \in Nat
  BY DEF Formed, Fits
<1>2. PICK g \in 1 .. m : OpensScope(scope1, g) /\ scope1[g] = scope1[m]
  BY <1>1, Governs DEF Everywhere
<1>3. g \in 1 .. n1
  BY <1>1
<1> DEFINE o == Opening(builder, e1, g)
<1>4. StartsBy(st1, o, i)
  BY <1>1, <1>2, OpenedBefore
<1>5. CASE builder.scopeMode = "hash"
  <2>1. StartsBy(st1, e1[g], i)
    BY <1>4, <1>5 DEF Opening
  <2>2. StartsWith(scope1[g], scope2, n2, e2, st2, i)
    BY <1>2, <1>3, <1>5, <2>1, SharedBarrier
  <2> QED BY <1>2, <2>2 DEF Occurs, StartsWith
<1>6. CASE builder.scopeMode = "marker"
  <2>1. o = e1[g] - 1 /\ Marked(builder, scope1, g)
    BY <1>2, <1>6 DEF Opening, Marked
  <2> HIDE DEF o
  <2> QED BY <1>2, <1>3, <1>4, <2>1, SharedMarker
<1> QED BY <1>5, <1>6 DEF Builders

(* Equal hashes of two prompts, by their tokens and keys.                  *)
LEMMA SharedContent ==
  ASSUME NEW p, NEW builder, NEW q, NEW scope, NEW n, NEW e, NEW st, NEW T,
         Formed(p, builder, q, scope, n, e, st, T), NEW i \in DOMAIN Hashes(p)
  PROVE  /\ Chained(Hashes(p), TokensOf(p), p.segs, p.scoped)
         /\ Fits(p, i)
         /\ \E m \in 1 .. n : \E j \in 1 .. Len(p.segs) :
              builder \in Builders => EndsIn(p, builder, scope, e, st, i, m, j)
<1>1. Chained(Hashes(p), TokensOf(p), p.segs, p.scoped)
  BY DEF Formed, Hashes
<1>2. Fits(p, i)
  <2> DEFINE h == Hashes(p)
  <2>1. i \in DOMAIN h
    OBVIOUS
  <2> HIDE DEF h
  <2>2. i \in Nat \ {0} /\ i * BlockSize <= Len(TokensOf(p))
    BY <1>1, <2>1 DEF Chained, h
  <2> QED BY <2>2 DEF Fits
<1>3. i \in Nat \ {0} /\ i * BlockSize <= st[Len(p.segs)] /\ n \in Nat /\ n # 0 /\ Len(p.segs) # 0 /\ Len(p.segs) \in Nat
  <2>1. Len(TokensOf(p)) = st[Len(p.segs)]
    BY DEF Formed, Placed
  <2>2. n \in Nat /\ n # 0
    BY DEF Formed
  <2>3. e[n] \in 1 .. Len(p.segs) /\ Len(p.segs) \in Nat
    BY <2>2 DEF Formed, Laid
  <2> QED BY <1>2, <2>1, <2>2, <2>3 DEF Fits
<1>4. CASE builder \in Builders
  <2>1. \E m \in 1 .. n : \E j \in 1 .. Len(p.segs) : EndsIn(p, builder, scope, e, st, i, m, j)
    BY <1>3, <1>4, LastPart
  <2> QED BY <1>1, <1>2, <2>1
<1>5. CASE builder \notin Builders
  <2>1. 1 \in 1 .. n /\ 1 \in 1 .. Len(p.segs)
    BY <1>3
  <2> QED BY <1>1, <1>2, <1>5, <2>1
<1> QED BY <1>4, <1>5

LEMMA SharedHash ==
  ASSUME NEW p1, NEW p2, NEW i, p1.scoped = TRUE, p2.scoped = TRUE,
         Chained(Hashes(p1), TokensOf(p1), p1.segs, p1.scoped),
         Chained(Hashes(p2), TokensOf(p2), p2.segs, p2.scoped),
         i \in DOMAIN Hashes(p1), i \in DOMAIN Hashes(p2)
  PROVE  Hashes(p1)[i] = Hashes(p2)[i] <=>
           SameText(TokensOf(p1), TokensOf(p2), i) /\ SameKeys(p1.segs, TRUE, p2.segs, TRUE, i)
<1> DEFINE h1 == Hashes(p1)
           h2 == Hashes(p2)
           t1 == TokensOf(p1)
           t2 == TokensOf(p2)
           g1 == p1.segs
           g2 == p2.segs
<1>1. Chained(h1, t1, g1, TRUE) /\ Chained(h2, t2, g2, TRUE) /\ i \in DOMAIN h1 \cap DOMAIN h2
  OBVIOUS
<1> HIDE DEF h1, h2, t1, t2, g1, g2
<1>2. h1[i] = h2[i] <=> SameText(t1, t2, i) /\ SameKeys(g1, TRUE, g2, TRUE, i)
  BY <1>1, EqualHashes
<1> QED BY <1>2 DEF h1, h2, t1, t2, g1, g2

(* A user satisfies the effective ACL of a part who may read the documents *)
(* up to there.                                                            *)
Admitted(evidence, m, user) == \A i \in 1 .. Len(evidence) : i < m => Allows(evidence[i].acl, user)

LEMMA TruthAdmits ==
  ASSUME NEW evidence, NEW user, Readable(evidence, user), NEW m \in 1 .. Len(evidence) + 2, NEW u
  PROVE  Allows(Truth(evidence)[m], u) <=> Admitted(evidence, m, u)
<1> DEFINE d == Len(evidence)
           t == Truth(evidence)
<1> HIDE DEF d, t
<1>1. \A k \in 1 .. d + 2 : \A w : Allows(t[k], w) <=> \A i \in 1 .. d : i < k => Allows(evidence[i].acl, w)
  BY TruthExact DEF d, t
<1>2. m \in 1 .. d + 2
  BY DEF d
<1> QED BY <1>1, <1>2 DEF d, t, Admitted

LEMMA GrantedByScope ==
  ASSUME NEW caching \in SecureModes,
         NEW docs1, NEW user1, Readable(docs1, user1), NEW id1,
         NEW docs2, NEW user2, Readable(docs2, user2), NEW id2, id1 # id2,
         NEW scope1, scope1 = PlanScopes(caching, id1, user1, Truth(docs1)),
         NEW scope2, scope2 = PlanScopes(caching, id2, user2, Truth(docs2)),
         NEW m \in 1 .. Len(docs1) + 2, Occurs(scope1[m], scope2, Len(docs2) + 2)
  PROVE  Allows(Truth(docs1)[m], user2)
<1>1. PICK k \in 1 .. Len(docs2) + 2 : scope2[k] = scope1[m]
  BY DEF Occurs
<1>2. \A i \in 1 .. Len(docs1) : i < m => Allows(docs1[i].acl, user2)
  <2>1. PlanScopes(caching, id1, user1, Truth(docs1))[m] = PlanScopes(caching, id2, user2, Truth(docs2))[k]
    BY <1>1
  <2> QED BY <2>1, ScopeGrants
<1>3. Admitted(docs1, m, user2)
  BY <1>2 DEF Admitted
<1> QED BY <1>3, TruthAdmits

(* A user who can be served a block is in the audience recorded for it:    *)
(* the scope in force where the block ends was opened in the shared part,  *)
(* so it is a scope of the user's own prompt too.                          *)
LEMMA ServedIsRecorded ==
  ASSUME NEW builder \in Builders, NEW caching \in SecureModes,
         NEW id1, NEW user1, NEW q1, NEW p1, Prompted(p1, builder, caching, id1, user1, q1),
         NEW id2, NEW user2, NEW q2, NEW p2, Prompted(p2, builder, caching, id2, user2, q2),
         id1 # id2, user2 \in Users,
         NEW i, i \in DOMAIN Hashes(p1), i \in DOMAIN Hashes(p2), Hashes(p1)[i] = Hashes(p2)[i]
  PROVE  user2 \in BlockAudience(p1, i)
<1> DEFINE scope1 == PlanScopes(caching, id1, user1, Truth(p1.docs))
           scope2 == PlanScopes(caching, id2, user2, Truth(p2.docs))
<1>1. PICK n1, e1, st1, T1 : Formed(p1, builder, q1, scope1, n1, e1, st1, T1)
  BY DEF Prompted
<1>2. PICK n2, e2, st2, T2 : Formed(p2, builder, q2, scope2, n2, e2, st2, T2)
  BY DEF Prompted
<1>3. p1.scoped = TRUE /\ p2.scoped = TRUE /\ p1.user = user1 /\ p2.user = user2
  BY DEF Prompted
<1> HIDE DEF scope1, scope2
<1>4. PICK m \in 1 .. n1, j \in 1 .. Len(p1.segs) : EndsIn(p1, builder, scope1, e1, st1, i, m, j)
  BY <1>1, SharedContent
<1>5. Fits(p2, i)
  BY <1>2, SharedContent
<1>6. SameText(TokensOf(p1), TokensOf(p2), i) /\ SameKeys(p1.segs, TRUE, p2.segs, TRUE, i)
  <2>1. Chained(Hashes(p1), TokensOf(p1), p1.segs, p1.scoped)
    BY <1>1, SharedContent
  <2>2. Chained(Hashes(p2), TokensOf(p2), p2.segs, p2.scoped)
    BY <1>2, SharedContent
  <2> QED BY <1>3, <2>1, <2>2, SharedHash
<1>7. Readable(p1.docs, user1) /\ n1 = Len(p1.docs) + 2
  BY <1>1, <1>3 DEF Formed
<1>8. Readable(p2.docs, user2) /\ n2 = Len(p2.docs) + 2
  BY <1>2, <1>3 DEF Formed
<1>9. Everywhere(scope1, n1)
  <2>1. \A k \in 1 .. Len(p1.docs) + 2 : scope1[k] # NoScope
    BY <1>7, ScopeEverywhere DEF scope1
  <2> QED BY <1>7, <2>1 DEF Everywhere
<1>10. Occurs(scope1[m], scope2, n2)
  BY <1>1, <1>2, <1>4, <1>5, <1>6, <1>9, SharedScope
<1>11. Allows(Truth(p1.docs)[m], user2)
  BY <1>7, <1>8, <1>10, GrantedByScope DEF scope1, scope2
<1> QED BY <1>4, <1>11 DEF Audience, EndsIn

LEMMA BodyLength ==
  ASSUME NEW evidence, Len(evidence) \in Nat, NEW question
  PROVE  Len(Body(evidence, question)) = Len(evidence) + 2
<1> DEFINE n == Len(evidence) + 2
<1>1. n \in Nat /\ DOMAIN Body(evidence, question) = 1 .. n
  BY DEF Body
<1>2. Body(evidence, question) \in Seq(Range(Body(evidence, question)))
  <2> DEFINE b == Body(evidence, question)
  <2>1. b = [k \in 1 .. n |-> b[k]]
    BY DEF Body
  <2>2. \A k \in 1 .. n : b[k] \in Range(b)
    BY <1>1 DEF Range
  <2> HIDE DEF b, n
  <2> QED BY <1>1, <2>1, <2>2 DEF b
<1> QED BY <1>1, <1>2

(* The documents that begin before a block ends are those up to the part   *)
(* it ends in, or, if a marker comes last, some of them.                   *)
Begun(prompt, k, i) ==
  \E j \in {x \in DOMAIN prompt.segs : prompt.segs[x].doc = k} : Starts(prompt.segs)[j] < i * BlockSize

LEMMA BegunBefore ==
  ASSUME NEW p, NEW builder, NEW q, NEW scope, NEW n, NEW e, NEW st, NEW T,
         Formed(p, builder, q, scope, n, e, st, T), NEW i, Fits(p, i),
         NEW m \in 1 .. n, NEW j \in 1 .. Len(p.segs), EndsIn(p, builder, scope, e, st, i, m, j),
         NEW k \in 1 .. Len(p.docs)
  PROVE  /\ Begun(p, k, i) => k < m
         /\ builder.scopeMode = "hash" /\ k < m => Begun(p, k, i)
<1> DEFINE segs == p.segs
           s    == Len(segs)
           body == Body(p.docs, q)
           truth == Truth(p.docs)
           x    == i * BlockSize
<1>1. /\ Laid(segs, e, n, builder, body, truth, scope) /\ Placed(T, segs, st, s, TokensOf(p))
      /\ n \in Nat /\ n = Len(p.docs) + 2 /\ Len(p.docs) \in Nat
  BY DEF Formed
<1>2. x \in Nat /\ st[j - 1] < x /\ x <= st[j] /\ j <= e[m] /\ (builder.scopeMode = "hash" => j = e[m])
  BY BlockAssumption DEF EndsIn, StartsBy, Fits
<1>3. Len(body) = n
  <2>1. Len(body) = Len(p.docs) + 2
    BY <1>1, BodyLength
  <2> QED BY <1>1, <2>1
<1> HIDE DEF segs, s, body, truth, x
<1>4. /\ s \in Nat /\ DOMAIN segs = 1 .. s /\ st \in [0 .. s -> Nat] /\ j \in 1 .. s
      /\ \A y \in 0 .. s : \A z \in 0 .. y : st[z] <= st[y]
      /\ \A y \in 1 .. s : Starts(segs)[y] = st[y - 1]
  <2>1. s \in Nat /\ DOMAIN segs = 1 .. s /\ j \in 1 .. s
    BY <1>1 DEF Laid, s, segs
  <2>2. \A y \in 1 .. s : y \in 1 .. s + 1
    BY <2>1
  <2> QED BY <1>1, <2>1, <2>2 DEF Placed
<1>5. /\ e \in [0 .. n -> Nat]
      /\ \A a \in 1 .. n : e[a] \in 1 .. s /\ segs[e[a]] = TextAt(builder, body, truth, scope, a)
                           /\ (Marked(builder, scope, a) => segs[e[a] - 1] = MarkAt(builder, truth, scope, a))
      /\ \A y \in 1 .. s : \E a \in 1 .. n : y = e[a] \/ (Marked(builder, scope, a) /\ y = e[a] - 1)
  BY <1>1 DEF Laid, s
<1>6. \A b \in 1 .. n : e[b] \in Nat /\ \A a \in 1 .. b - 1 : e[a] \in Nat /\ e[a] <= e[b] - 1
  BY <1>1, LaidOrder
<1>7. /\ \A a \in 1 .. n : TextAt(builder, body, truth, scope, a).doc = IF a \in 2 .. n - 1 THEN a - 1 ELSE 0
      /\ \A a \in 1 .. n : MarkAt(builder, truth, scope, a).doc = 0
  BY <1>3 DEF TextAt, MarkAt
<1>8. Begun(p, k, i) <=> \E y \in 1 .. s : segs[y].doc = k /\ st[y - 1] < x
  BY <1>4 DEF Begun, segs, x
<1>9. ASSUME NEW y \in 1 .. s, segs[y].doc = k, st[y - 1] < x PROVE k < m
  <2>1. PICK a \in 1 .. n : y = e[a] \/ (Marked(builder, scope, a) /\ y = e[a] - 1)
    BY <1>5
  <2>2. segs[y].doc # 0
    BY <1>9
  <2>3. y = e[a] /\ a = k + 1
    <3>1. segs[e[a]].doc = IF a \in 2 .. n - 1 THEN a - 1 ELSE 0
      BY <1>5, <1>7
    <3>2. Marked(builder, scope, a) => segs[e[a] - 1].doc = 0
      BY <1>5, <1>7
    <3>3. y = e[a]
      BY <2>1, <2>2, <3>2
    <3>4. k = a - 1
      BY <1>9, <2>2, <3>1, <3>3
    <3> QED BY <1>1, <3>3, <3>4
  <2>4. y <= j
    <3>1. CASE y > j
      <4> DEFINE z == y - 1
      <4>1. z \in 0 .. s /\ j \in 0 .. z /\ j \in 0 .. s
        BY <1>4, <3>1
      <4> HIDE DEF z
      <4>2. st[j] <= st[z] /\ st[j] \in Nat /\ st[z] \in Nat /\ st[z] < x
        BY <1>4, <1>9, <4>1 DEF z
      <4> QED BY <1>2, <4>2
    <3> QED BY <1>4, <3>1
  <2> DEFINE b == e[a]
             c == e[m]
  <2>5. b \in Nat /\ c \in Nat /\ b <= j /\ j <= c
    BY <1>2, <1>6, <2>3, <2>4
  <2>6. CASE m < a
    <3>1. m \in 1 .. a - 1
      BY <1>1, <2>6
    <3>2. c <= b - 1
      BY <1>6, <3>1
    <3> HIDE DEF b, c
    <3> QED BY <1>4, <2>5, <3>2
  <2> QED BY <1>1, <2>3, <2>6
<1>10. ASSUME builder.scopeMode = "hash", k < m PROVE \E y \in 1 .. s : segs[y].doc = k /\ st[y - 1] < x
  <2> DEFINE a == k + 1
             y == e[a]
             z == y - 1
             w == j - 1
  <2>1. a \in 1 .. n /\ a \in 2 .. n - 1 /\ a <= m /\ a - 1 = k
    BY <1>1, <1>10
  <2>2. j = e[m]
    BY <1>2, <1>10
  <2> HIDE DEF a
  <2>3. y \in 1 .. s /\ segs[y].doc = k
    BY <1>5, <1>7, <2>1
  <2>4. y <= j
    <3>1. a = m \/ a \in 1 .. m - 1
      BY <1>1, <2>1
    <3>2. a \in 1 .. m - 1 => y <= j - 1
      BY <1>6, <2>2
    <3>3. a = m => y = j
      BY <2>2
    <3> HIDE DEF y
    <3> QED BY <1>4, <2>3, <3>1, <3>2, <3>3
  <2> HIDE DEF y
  <2>5. w \in 0 .. s /\ z \in 0 .. w /\ z \in 0 .. s
    BY <1>4, <2>3, <2>4
  <2>6. st[w] < x
    BY <1>2
  <2> HIDE DEF z, w
  <2>7. st[z] < x
    BY <1>2, <1>4, <2>5, <2>6
  <2> QED BY <2>3, <2>7 DEF z
<1> QED BY <1>8, <1>9, <1>10

(* What the cache records is sound, and exact without markers.             *)
LEMMA RecordedSound ==
  ASSUME NEW builder \in Builders, NEW caching, NEW id, NEW user, NEW q,
         NEW p, Prompted(p, builder, caching, id, user, q), NEW i, i \in DOMAIN Hashes(p)
  PROVE  /\ BlockAudience(p, i) \subseteq TrueAudience(p, i)
         /\ builder.scopeMode = "hash" => BlockAudience(p, i) = TrueAudience(p, i)
<1> DEFINE scope == PlanScopes(caching, id, user, Truth(p.docs))
           d     == Len(p.docs)
<1>1. PICK n, e, st, T : Formed(p, builder, q, scope, n, e, st, T)
  BY DEF Prompted
<1> HIDE DEF scope
<1>2. PICK m \in 1 .. n, j \in 1 .. Len(p.segs) : EndsIn(p, builder, scope, e, st, i, m, j)
  BY <1>1, SharedContent
<1>3. Fits(p, i)
  BY <1>1, SharedContent
<1>4. /\ Readable(p.docs, p.user) /\ n = d + 2 /\ DOMAIN p.docs = 1 .. d
  BY <1>1 DEF Formed
<1>5. BlockAudience(p, i) = {u \in Users : Allows(Truth(p.docs)[m], u)}
  BY <1>2 DEF EndsIn, Audience
<1>6. \A u : Allows(Truth(p.docs)[m], u) <=> \A k \in 1 .. d : k < m => Allows(p.docs[k].acl, u)
  <2>1. \A u : Allows(Truth(p.docs)[m], u) <=> Admitted(p.docs, m, u)
    BY <1>4, TruthAdmits
  <2> QED BY <2>1 DEF Admitted
<1>7. TrueAudience(p, i) = {u \in Users : \A k \in 1 .. d : Begun(p, k, i) => Allows(p.docs[k].acl, u)}
  BY <1>4 DEF TrueAudience, Begun
<1>8. \A k \in 1 .. d : /\ Begun(p, k, i) => k < m
                        /\ builder.scopeMode = "hash" /\ k < m => Begun(p, k, i)
  BY <1>1, <1>2, <1>3, BegunBefore
<1> HIDE DEF d
<1> QED BY <1>5, <1>6, <1>7, <1>8

(* With barriers in the salt, a part that starts before a block ends comes *)
(* no later than the part the block ends in.                               *)
LEMMA StartedBefore ==
  ASSUME NEW p, NEW builder, NEW q, NEW scope, NEW n, NEW e, NEW st, NEW T,
         Formed(p, builder, q, scope, n, e, st, T), builder.scopeMode = "hash", NEW i \in Nat,
         NEW m \in 1 .. n, NEW j \in 1 .. Len(p.segs), EndsIn(p, builder, scope, e, st, i, m, j),
         NEW k \in 1 .. n, StartsBy(st, e[k], i)
  PROVE  k <= m
<1> DEFINE s == Len(p.segs)
           x == i * BlockSize
           y == e[k]
           z == y - 1
<1>1. /\ s \in Nat /\ st \in [0 .. s -> Nat] /\ \A a \in 0 .. s : \A b \in 0 .. a : st[b] <= st[a]
      /\ n \in Nat /\ y \in 1 .. s /\ j = e[m]
      /\ Laid(p.segs, e, n, builder, Body(p.docs, q), Truth(p.docs), scope)
  <2>1. n \in Nat /\ Laid(p.segs, e, n, builder, Body(p.docs, q), Truth(p.docs), scope)
    BY DEF Formed
  <2>2. s \in Nat /\ y \in 1 .. s
    BY <2>1 DEF Laid
  <2>3. Placed(T, p.segs, st, s, TokensOf(p))
    BY DEF Formed
  <2>4. st \in [0 .. s -> Nat] /\ \A a \in 0 .. s : \A b \in 0 .. a : st[b] <= st[a]
    BY <2>3 DEF Placed
  <2> QED BY <2>1, <2>2, <2>4 DEF EndsIn
<1>2. x \in Nat /\ st[z] < x /\ x <= st[j]
  BY BlockAssumption DEF EndsIn, StartsBy
<1> SUFFICES ASSUME m < k PROVE FALSE
  OBVIOUS
<1>3. m \in 1 .. k - 1
  OBVIOUS
<1>4. e[m] <= e[k] - 1
  BY <1>1, <1>3, LaidOrder
<1>5. j <= z /\ z \in 0 .. s
  BY <1>1, <1>4
<1>6. j \in 0 .. z
  BY <1>1, <1>5
<1>7. st[j] <= st[z] /\ st[j] \in Nat /\ st[z] \in Nat
  BY <1>1, <1>5, <1>6
<1> HIDE DEF x, z
<1> QED BY <1>2, <1>7

(* Under ACL scopes with barriers in the salt, the prompts that share a    *)
(* block record the same audience with it: the scope in force where it     *)
(* ends was opened in the shared part of both.                             *)
LEMMA RecordedAlike ==
  ASSUME NEW builder \in Builders, builder.scopeMode = "hash",
         NEW id1, NEW user1, NEW q1, NEW p1, Prompted(p1, builder, "acl_scope", id1, user1, q1),
         NEW id2, NEW user2, NEW q2, NEW p2, Prompted(p2, builder, "acl_scope", id2, user2, q2),
         NEW i, i \in DOMAIN Hashes(p1), i \in DOMAIN Hashes(p2), Hashes(p1)[i] = Hashes(p2)[i]
  PROVE  BlockAudience(p2, i) \subseteq BlockAudience(p1, i)
<1> DEFINE scope1 == PlanScopes("acl_scope", id1, user1, Truth(p1.docs))
           scope2 == PlanScopes("acl_scope", id2, user2, Truth(p2.docs))
<1>1. PICK n1, e1, st1, T1 : Formed(p1, builder, q1, scope1, n1, e1, st1, T1)
  BY DEF Prompted
<1>2. PICK n2, e2, st2, T2 : Formed(p2, builder, q2, scope2, n2, e2, st2, T2)
  BY DEF Prompted
<1>3. p1.scoped = TRUE /\ p2.scoped = TRUE /\ p1.user = user1 /\ p2.user = user2
  BY DEF Prompted
<1>4. /\ \A k \in DOMAIN Truth(p1.docs) : scope1[k] = Truth(p1.docs)[k]
      /\ \A k \in DOMAIN Truth(p2.docs) : scope2[k] = Truth(p2.docs)[k]
  BY DEF PlanScopes
<1> HIDE DEF scope1, scope2
<1>5. PICK m1 \in 1 .. n1, j1 \in 1 .. Len(p1.segs) : EndsIn(p1, builder, scope1, e1, st1, i, m1, j1)
  BY <1>1, SharedContent
<1>6. PICK m2 \in 1 .. n2, j2 \in 1 .. Len(p2.segs) : EndsIn(p2, builder, scope2, e2, st2, i, m2, j2)
  BY <1>2, SharedContent
<1>7. Fits(p2, i) /\ i \in Nat
  BY <1>2, SharedContent DEF Fits
<1>8. SameKeys(p1.segs, TRUE, p2.segs, TRUE, i)
  <2>1. Chained(Hashes(p1), TokensOf(p1), p1.segs, p1.scoped)
    BY <1>1, SharedContent
  <2>2. Chained(Hashes(p2), TokensOf(p2), p2.segs, p2.scoped)
    BY <1>2, SharedContent
  <2> QED BY <1>3, <2>1, <2>2, SharedHash
<1>9. Readable(p1.docs, user1) /\ n1 = Len(p1.docs) + 2 /\ n1 \in Nat
  BY <1>1, <1>3 DEF Formed
<1>10. Readable(p2.docs, user2) /\ n2 = Len(p2.docs) + 2 /\ n2 \in Nat
  BY <1>2, <1>3 DEF Formed
<1>11. /\ \A k \in 1 .. n1 : scope1[k] # NoScope /\ scope1[k] = Truth(p1.docs)[k]
       /\ \A k \in 1 .. n2 : scope2[k] = Truth(p2.docs)[k]
  <2>1. "acl_scope" \in SecureModes
    BY DEF SecureModes
  <2>2. DOMAIN scope1 = 1 .. n1 /\ \A k \in 1 .. n1 : scope1[k] # NoScope
    BY <1>9, <2>1, ScopeEverywhere DEF scope1
  <2>3. DOMAIN scope2 = 1 .. n2
    BY <1>10, <2>1, ScopeEverywhere DEF scope2
  <2>4. DOMAIN scope1 = DOMAIN Truth(p1.docs) /\ DOMAIN scope2 = DOMAIN Truth(p2.docs)
    BY DEF scope1, scope2, PlanScopes
  <2> QED BY <1>4, <2>2, <2>3, <2>4
<1>12. PICK g \in 1 .. m1 : OpensScope(scope1, g) /\ scope1[g] = scope1[m1]
  BY <1>9, <1>11, Governs
<1>13. g \in 1 .. n1
  BY <1>9
<1>14. StartsBy(st1, e1[g], i)
  <2>1. StartsBy(st1, Opening(builder, e1, g), i)
    BY <1>1, <1>5, <1>7, <1>12, OpenedBefore
  <2> QED BY <2>1 DEF Opening
<1>15. PICK m \in 1 .. n2 : scope2[m] = scope1[g] /\ StartsBy(st2, e2[m], i)
  <2>1. StartsWith(scope1[g], scope2, n2, e2, st2, i)
    BY <1>1, <1>2, <1>7, <1>8, <1>12, <1>13, <1>14, SharedBarrier
  <2> QED BY <2>1 DEF StartsWith
<1>16. m <= m2
  BY <1>2, <1>6, <1>7, <1>15, StartedBefore
<1>17. Truth(p2.docs)[m] = Truth(p1.docs)[m1]
  BY <1>11, <1>12, <1>15
<1>18. ASSUME NEW u, Allows(Truth(p2.docs)[m2], u) PROVE Allows(Truth(p1.docs)[m1], u)
  <2>1. Admitted(p2.docs, m2, u)
    BY <1>10, <1>18, TruthAdmits
  <2>2. Admitted(p2.docs, m, u)
    <3>1. Len(p2.docs) \in Nat
      BY <1>2 DEF Formed
    <3> QED BY <1>10, <1>16, <2>1, <3>1 DEF Admitted
  <2>3. Allows(Truth(p2.docs)[m], u)
    BY <1>10, <2>2, TruthAdmits
  <2> QED BY <1>17, <2>3
<1> QED BY <1>5, <1>6, <1>18 DEF Audience, EndsIn

-----------------------------------------------------------------------------
(* The theorems.                                                           *)

(* What has arrived, in any state.                                         *)
Arrived == setting \in Settings /\ asked \in Seq(Requests) /\ Len(asked) <= 2

LEMMA ArrivedInvariant == Spec => []Arrived
<1>1. Init => Arrived
  BY DEF Init, Arrived
<1>2. Arrived /\ [Next]_<<setting, asked>> => Arrived'
  <2> SUFFICES ASSUME Arrived, [Next]_<<setting, asked>> PROVE Arrived'
    OBVIOUS
  <2>1. ASSUME NEW r \in Requests, Ask(r) PROVE Arrived'
    <3>1. Len(asked) \in Nat /\ Len(asked') = Len(asked) + 1 /\ asked' \in Seq(Requests) /\ setting' = setting
      BY <2>1, AppendProperties DEF Ask, Arrived
    <3> QED BY <2>1, <3>1 DEF Ask, Arrived
  <2>2. CASE UNCHANGED <<setting, asked>>
    BY <2>2 DEF Arrived
  <2> QED BY <2>1, <2>2 DEF Next
<1> QED BY <1>1, <1>2, PTL DEF Spec

LEMMA ArrivedPrompts ==
  ASSUME Arrived, NEW n \in DOMAIN asked, NEW m
  PROVE  /\ setting \in Builders /\ asked[n].user \in Users /\ n \in {1, 2} /\ Documents(asked[n].docs)
         /\ Prompted(Prompt(m, n), setting, m, Ids[n], asked[n].user, asked[n].question)
<1>1. asked[n] \in Requests /\ n \in {1, 2}
  BY DEF Arrived
<1>2. setting \in Builders /\ asked[n].user \in Users /\ Documents(asked[n].docs)
  BY <1>1, RequestAssumption DEF Arrived
<1>3. Prompt(m, n) = Build(setting, m, Ids[n], asked[n].user, asked[n].question, asked[n].docs)
  BY DEF Prompt
<1> HIDE DEF Prompt
<1> QED BY <1>1, <1>2, <1>3, BuildForms

(* For every directory, block size, configuration, caching mode and        *)
(* request: the ACL that the cache records with a block admits only users  *)
(* who may read all documents the block depends on, and with barriers in   *)
(* the salt all of them.                                                   *)
THEOREM RecordedAudiences == Spec => []RecordedAudienceExact
<1>1. Arrived => RecordedAudienceExact
  <2> SUFFICES ASSUME Arrived, NEW n \in DOMAIN asked, NEW m \in Modes,
                      NEW i \in DOMAIN Hashes(Prompt(m, n))
               PROVE  /\ BlockAudience(Prompt(m, n), i) \subseteq TrueAudience(Prompt(m, n), i)
                      /\ InSalt => BlockAudience(Prompt(m, n), i) = TrueAudience(Prompt(m, n), i)
    BY DEF RecordedAudienceExact
  <2> DEFINE p == Prompt(m, n)
  <2>1. setting \in Builders /\ Prompted(p, setting, m, Ids[n], asked[n].user, asked[n].question)
    BY ArrivedPrompts
  <2>2. i \in DOMAIN Hashes(p)
    OBVIOUS
  <2> HIDE DEF p
  <2>3. /\ BlockAudience(p, i) \subseteq TrueAudience(p, i)
        /\ setting.scopeMode = "hash" => BlockAudience(p, i) = TrueAudience(p, i)
    BY <2>1, <2>2, RecordedSound
  <2> QED BY <2>3 DEF p, InSalt
<1> QED BY <1>1, ArrivedInvariant, PTL

(* Under every secure mode, with barriers or markers, aligned or not: a    *)
(* block that a request can be served from the cache depends only on       *)
(* documents that its user may read.                                       *)
THEOREM SharingAuthorized == Spec => []SharingIsAuthorized
<1>1. Arrived => SharingIsAuthorized
  <2> SUFFICES ASSUME Arrived, Both, NEW m \in Modes \ {"global"}, NEW i \in Shared(m)
               PROVE  asked[2].user \in TrueAudience(Prompt(m, 1), i)
    BY DEF SharingIsAuthorized
  <2> DEFINE p1 == Prompt(m, 1)
             p2 == Prompt(m, 2)
             u  == asked[2].user
  <2>1. 1 \in DOMAIN asked /\ 2 \in DOMAIN asked
    BY DEF Both, Arrived
  <2>2. /\ setting \in Builders
        /\ Prompted(p1, setting, m, Ids[1], asked[1].user, asked[1].question)
    BY <2>1, ArrivedPrompts
  <2>3. Prompted(p2, setting, m, Ids[2], u, asked[2].question) /\ u \in Users
    BY <2>1, ArrivedPrompts
  <2>4. i \in DOMAIN Hashes(p1) /\ i \in DOMAIN Hashes(p2) /\ Hashes(p1)[i] = Hashes(p2)[i]
    BY DEF Shared
  <2>5. Ids[1] # Ids[2]
    BY DEF Ids
  <2>6. m \in SecureModes
    BY RequestAssumption DEF SecureModes
  <2> HIDE DEF p1, p2, u
  <2>7. u \in BlockAudience(p1, i)
    BY <2>2, <2>3, <2>4, <2>5, <2>6, ServedIsRecorded
  <2>8. BlockAudience(p1, i) \subseteq TrueAudience(p1, i)
    BY <2>2, <2>4, RecordedSound
  <2> QED BY <2>7, <2>8 DEF u, p1
<1> QED BY <1>1, ArrivedInvariant, PTL

(* Under ACL scopes with barriers in the salt, two prompts that share a    *)
(* block agree on the users whom all documents behind it let in, so that   *)
(* the ACL the cache records for the block does not depend on who computed *)
(* it first.                                                               *)
RecordsAgree ==
  Both /\ InSalt => \A i \in Shared("acl_scope") :
    TrueAudience(Prompt("acl_scope", 1), i) = TrueAudience(Prompt("acl_scope", 2), i)

THEOREM AudiencesAgree == "acl_scope" \in Modes => (Spec => []RecordsAgree)
<1> SUFFICES ASSUME "acl_scope" \in Modes PROVE Spec => []RecordsAgree
  OBVIOUS
<1>1. Arrived => RecordsAgree
  <2> SUFFICES ASSUME Arrived, Both, InSalt, NEW i \in Shared("acl_scope")
               PROVE  TrueAudience(Prompt("acl_scope", 1), i) = TrueAudience(Prompt("acl_scope", 2), i)
    BY DEF RecordsAgree
  <2> DEFINE p1 == Prompt("acl_scope", 1)
             p2 == Prompt("acl_scope", 2)
  <2>1. 1 \in DOMAIN asked /\ 2 \in DOMAIN asked
    BY DEF Both, Arrived
  <2>2. /\ setting \in Builders /\ setting.scopeMode = "hash"
        /\ Prompted(p1, setting, "acl_scope", Ids[1], asked[1].user, asked[1].question)
        /\ Prompted(p2, setting, "acl_scope", Ids[2], asked[2].user, asked[2].question)
    BY <2>1, ArrivedPrompts DEF InSalt
  <2>3. i \in DOMAIN Hashes(p1) /\ i \in DOMAIN Hashes(p2) /\ Hashes(p1)[i] = Hashes(p2)[i]
    BY DEF Shared
  <2> HIDE DEF p1, p2
  <2>4. BlockAudience(p1, i) = BlockAudience(p2, i)
    <3>1. BlockAudience(p2, i) \subseteq BlockAudience(p1, i)
      BY <2>2, <2>3, RecordedAlike
    <3>2. BlockAudience(p1, i) \subseteq BlockAudience(p2, i)
      BY <2>2, <2>3, RecordedAlike
    <3> QED BY <3>1, <3>2
  <2>5. BlockAudience(p1, i) = TrueAudience(p1, i) /\ BlockAudience(p2, i) = TrueAudience(p2, i)
    BY <2>2, <2>3, RecordedSound
  <2> QED BY <2>4, <2>5 DEF p1, p2
<1> QED BY <1>1, ArrivedInvariant, PTL

Unsalted(r, p, user) ==
  r.segs = p.segs /\ r.docs = p.docs /\ r.scoped = FALSE /\ r.probe = TRUE /\ r.user = user

LEMMA ProbeFields ==
  ASSUME NEW builder, NEW caching, NEW id, NEW user, NEW q, NEW evidence, NEW outsider,
         NEW p, p = Build(builder, caching, id, user, q, evidence), NEW r, r = Probe(p, outsider)
  PROVE  Unsalted(r, p, outsider)
BY DEF Build, Probe, Unsalted

(* The first segment of a prompt under a secure mode has a barrier.        *)
LEMMA FirstBarrier ==
  ASSUME NEW builder, NEW scope, NEW n, NEW e, NEW st, NEW T, NEW q, NEW p,
         Formed(p, builder, q, scope, n, e, st, T), builder.scopeMode = "hash", scope[1] # NoScope
  PROVE  1 \in BarriersIn(p.segs, 1) /\ p.segs[1].barrier = scope[1]
<1> DEFINE segs == p.segs
<1>1. Laid(segs, e, n, builder, Body(p.docs, q), Truth(p.docs), scope) /\ Placed(T, segs, st, Len(segs), TokensOf(p))
  BY DEF Formed
<1>2. 1 \in 1 .. n
  BY DEF Formed
<1>3. ~Marked(builder, scope, 1)
  BY DEF Marked
<1> HIDE DEF segs
<1>4. e[1] = e[1 - 1] + 1 /\ e[0] = 0 /\ e[1] \in 1 .. Len(segs)
      /\ segs[e[1]] = TextAt(builder, Body(p.docs, q), Truth(p.docs), scope, 1)
      /\ Len(segs) \in Nat /\ DOMAIN segs = 1 .. Len(segs)
  BY <1>1, <1>2, <1>3 DEF Laid
<1>5. e[1] = 1
  <2>1. 1 - 1 = 0
    OBVIOUS
  <2> QED BY <1>4, <2>1
<1>6. segs[1].barrier = scope[1]
  BY <1>4, <1>5 DEF TextAt, OpensScope
<1>7. Starts(segs)[1] = 0
  <2>1. 1 \in 1 .. Len(segs) + 1 /\ 1 - 1 = 0
    BY <1>4
  <2> QED BY <1>1, <2>1 DEF Placed
<1>8. Starts(segs)[1] \div BlockSize = 1 - 1
  <2>1. 0 * BlockSize <= 0 /\ 0 < (0 + 1) * BlockSize
    BY BlockAssumption
  <2>2. 0 \div BlockSize = 0
    BY <2>1, BlockAssumption, Quotient
  <2> QED BY <1>7, <2>2
<1>9. 1 \in BarriersIn(segs, 1)
  BY <1>4, <1>5, <1>6, <1>8 DEF BarriersIn
<1> QED BY <1>6, <1>9 DEF segs

(* An outsider who replays a prompt without its salt shares no block with  *)
(* it.                                                                     *)
LEMMA ReplayMisses ==
  ASSUME NEW builder \in Builders, NEW caching \in SecureModes, builder.scopeMode = "hash",
         NEW id, NEW user, NEW q, NEW p, Prompted(p, builder, caching, id, user, q),
         NEW r, NEW outsider, Unsalted(r, p, outsider), NEW i, i \in DOMAIN Hashes(p)
  PROVE  Hashes(p)[i] # Hashes(r)[i]
<1> DEFINE scope == PlanScopes(caching, id, user, Truth(p.docs))
           segs  == p.segs
           t     == TokensOf(p)
           a     == BlockHashes(segs, TRUE)
           b     == BlockHashes(segs, FALSE)
<1>1. PICK n, e, st, T : Formed(p, builder, q, scope, n, e, st, T)
  BY DEF Prompted
<1>2. Hashes(p) = a /\ Hashes(r) = b
  BY DEF Hashes, Prompted, Unsalted
<1>3. Chained(a, t, segs, TRUE) /\ Chained(b, t, segs, FALSE)
  BY <1>1 DEF Formed
<1>4. scope[1] # NoScope
  <2>1. Readable(p.docs, p.user) /\ Len(p.docs) \in Nat /\ p.user = user
    BY <1>1 DEF Formed, Prompted
  <2>2. 1 \in 1 .. Len(p.docs) + 2
    BY <2>1
  <2> QED BY <2>1, <2>2, ScopeEverywhere
<1>5. 1 \in BarriersIn(segs, 1)
  BY <1>1, <1>4, FirstBarrier
<1>6. Len(segs) \in Nat /\ DOMAIN segs = 1 .. Len(segs)
  BY <1>1 DEF Formed, Laid
<1> HIDE DEF scope, a, b, t, segs
<1>7. ScopeKeys(segs, 1) # <<>>
  <2>1. \E j \in DOMAIN ScopeKeys(segs, 1) : TRUE
    BY <1>5, <1>6, KeysOf
  <2> QED BY <2>1
<1>8. i \in DOMAIN a /\ i \in DOMAIN b /\ i \in Nat \ {0}
  BY <1>2, <1>3 DEF Chained
<1>9. ASSUME a[i] = b[i] PROVE FALSE
  <2>1. SameKeys(segs, TRUE, segs, FALSE, i)
    BY <1>3, <1>8, <1>9, EqualHashes
  <2>2. 1 \in 1 .. i
    BY <1>8
  <2> QED BY <1>7, <2>1, <2>2 DEF SameKeys, KeyOf
<1> QED BY <1>2, <1>9

(* An outsider who replays a prompt without its salt shares no block with  *)
(* it, the public ones included.                                           *)
THEOREM ReplayNothing == Spec => []ReplayFindsNothing
<1>1. Arrived => ReplayFindsNothing
  <2> SUFFICES ASSUME Arrived, Both, InSalt, NEW m \in Modes \ {"global"},
                      NEW i \in DOMAIN Hashes(Prompt(m, 1))
               PROVE  Hashes(Prompt(m, 1))[i] # Hashes(Probe(Prompt(m, 1), asked[2].user))[i]
    BY DEF ReplayFindsNothing
  <2> DEFINE p == Prompt(m, 1)
             r == Probe(p, asked[2].user)
  <2>1. 1 \in DOMAIN asked
    BY DEF Both, Arrived
  <2>2. setting \in Builders /\ Prompted(p, setting, m, Ids[1], asked[1].user, asked[1].question)
    BY <2>1, ArrivedPrompts
  <2>3. Unsalted(r, p, asked[2].user)
    <3>1. p = Build(setting, m, Ids[1], asked[1].user, asked[1].question, asked[1].docs)
      BY DEF Prompt
    <3>2. r = Probe(p, asked[2].user)
      OBVIOUS
    <3> HIDE DEF p, r
    <3> QED BY <3>1, <3>2, ProbeFields
  <2>4. m \in SecureModes
    BY RequestAssumption DEF SecureModes
  <2>5. i \in DOMAIN Hashes(p) /\ setting.scopeMode = "hash"
    BY DEF InSalt
  <2> HIDE DEF p, r
  <2>6. Hashes(p)[i] # Hashes(r)[i]
    BY <2>2, <2>3, <2>4, <2>5, ReplayMisses
  <2> QED BY <2>6 DEF p, r
<1> QED BY <1>1, ArrivedInvariant, PTL

-----------------------------------------------------------------------------
(* What scopes cost.                                                       *)

(* With barriers in the salt, part k is segment k.                         *)
OnePerPart(segs, n, builder, body, truth, scope) ==
  /\ Len(segs) = n /\ DOMAIN segs = 1 .. n
  /\ \A k \in 1 .. n : segs[k] = TextAt(builder, body, truth, scope, k)

LEMMA HashLaid ==
  ASSUME NEW segs, NEW e, NEW n \in Nat, NEW builder, NEW body, NEW truth, NEW scope,
         Laid(segs, e, n, builder, body, truth, scope), builder.scopeMode = "hash"
  PROVE  OnePerPart(segs, n, builder, body, truth, scope)
<1>1. /\ e \in [0 .. n -> Nat] /\ e[0] = 0 /\ e[n] = Len(segs) /\ DOMAIN segs = 1 .. Len(segs)
      /\ \A k \in 1 .. n : e[k] = e[k - 1] + 1 /\ segs[e[k]] = TextAt(builder, body, truth, scope, k)
  BY DEF Laid, Marked
<1> DEFINE S == {k \in Nat : k <= n => e[k] = k}
<1>2. 0 \in S
  BY <1>1
<1>3. ASSUME NEW k \in Nat, k \in S PROVE k + 1 \in S
  <2> DEFINE m == k + 1
  <2> SUFFICES ASSUME m <= n PROVE e[m] = m
    OBVIOUS
  <2>1. m \in 1 .. n /\ m - 1 = k /\ k <= n
    OBVIOUS
  <2>2. e[k] = k
    BY <1>3, <2>1
  <2> HIDE DEF m
  <2>3. e[m] = e[k] + 1
    BY <1>1, <2>1
  <2> QED BY <2>1, <2>2, <2>3
<1>4. Nat \subseteq S
  <2> HIDE DEF S
  <2> QED BY <1>2, <1>3, Induction
<1>5. \A k \in 0 .. n : e[k] = k
  BY <1>4
<1>6. e[n] = n
  BY <1>5
<1>7. \A k \in 1 .. n : segs[k] = TextAt(builder, body, truth, scope, k)
  BY <1>1, <1>5
<1> QED BY <1>1, <1>6, <1>7 DEF OnePerPart

(* A prompt with barriers in the salt, segment by segment.                 *)
SegmentTokens(builder, evidence, question, k) ==
  IF k < Len(evidence) + 2 THEN Pad(builder, Body(evidence, question)[k]) ELSE Body(evidence, question)[k]

Barred(p, builder, q, scope, n) ==
  /\ n = Len(p.docs) + 2 /\ n \in Nat /\ Len(p.docs) \in Nat
  /\ Len(p.segs) = n /\ DOMAIN p.segs = 1 .. n
  /\ \A k \in 1 .. n : /\ p.segs[k].tokens = SegmentTokens(builder, p.docs, q, k)
                       /\ p.segs[k].barrier = IF OpensScope(scope, k) THEN scope[k] ELSE NoScope

LEMMA HashSegments ==
  ASSUME NEW p, NEW builder, NEW q, NEW scope, NEW n, NEW e, NEW st, NEW T,
         Formed(p, builder, q, scope, n, e, st, T), builder.scopeMode = "hash"
  PROVE  Barred(p, builder, q, scope, n)
<1> DEFINE body == Body(p.docs, q)
           truth == Truth(p.docs)
<1>1. Laid(p.segs, e, n, builder, body, truth, scope) /\ n = Len(p.docs) + 2 /\ n \in Nat /\ Len(p.docs) \in Nat
  BY DEF Formed
<1>2. Len(body) = n
  BY <1>1, BodyLength
<1> HIDE DEF body, truth
<1>3. OnePerPart(p.segs, n, builder, body, truth, scope)
  BY <1>1, HashLaid
<1>4. \A k \in 1 .. n : /\ TextAt(builder, body, truth, scope, k).tokens = SegmentTokens(builder, p.docs, q, k)
                        /\ TextAt(builder, body, truth, scope, k).barrier = IF OpensScope(scope, k) THEN scope[k] ELSE NoScope
  BY <1>1, <1>2 DEF TextAt, SegmentTokens, body
<1> QED BY <1>1, <1>3, <1>4 DEF Barred, OnePerPart

(* A padded text of the prompt.                                            *)
Multiple(x) == \E c \in Nat : x = c * BlockSize

LEMMA Divides ==
  ASSUME NEW x \in Nat, (x % BlockSize) = 0
  PROVE  Multiple(x)
<1> DEFINE c == x \div BlockSize
<1>1. c \in Nat /\ x = (BlockSize * c) + (x % BlockSize)
  BY BlockAssumption
<1> HIDE DEF c
<1>2. x = c * BlockSize
  BY <1>1, BlockAssumption
<1> QED BY <1>1, <1>2 DEF Multiple

LEMMA PlainPads ==
  ASSUME NEW builder, NEW b, Plain(b), NEW t, t = Pad(builder, b)
  PROVE  /\ Len(t) \in Nat /\ Len(b) \in Nat /\ Len(b) <= Len(t)
         /\ \A i \in 1 .. Len(b) : t[i] = b[i]
         /\ builder.align => Multiple(Len(t))
<1> DEFINE T == {PadToken} \cup Range(b)
<1>1. b \in Seq(T)
  <2>1. PICK l \in Nat : DOMAIN b = 1 .. l /\ b = [i \in 1 .. l |-> b[i]]
    BY DEF Plain
  <2>2. \A i \in 1 .. l : b[i] \in T
    BY <2>1 DEF Range
  <2> HIDE DEF T
  <2> QED BY <2>1, <2>2
<1>2. PadToken \in T
  OBVIOUS
<1> HIDE DEF T
<1>3. /\ t \in Seq(T) /\ Len(t) \in Nat /\ Len(b) \in Nat /\ Len(b) <= Len(t)
      /\ \A i \in 1 .. Len(t) : t[i] = IF i <= Len(b) THEN b[i] ELSE PadToken
  <2>1. /\ Pad(builder, b) \in Seq(T) /\ Len(Pad(builder, b)) \in Nat /\ Len(b) \in Nat
        /\ Len(b) <= Len(Pad(builder, b))
        /\ \A i \in 1 .. Len(Pad(builder, b)) :
             Pad(builder, b)[i] = IF i <= Len(b) THEN b[i] ELSE PadToken
    BY <1>1, <1>2, PadKeeps
  <2> QED BY <2>1
<1>4. ASSUME builder.align PROVE Multiple(Len(t))
  <2>1. Len(t) % BlockSize = 0
    BY <1>1, <1>2, <1>4, PadKeeps, ZenonT(60)
  <2>2. (Len(t) % BlockSize) = 0 /\ Len(t) \in Nat
    BY <1>3, <2>1
  <2> QED BY <2>2, Divides
<1> QED BY <1>3, <1>4

LEMMA MultipleSum ==
  ASSUME NEW x, NEW y, Multiple(x), Multiple(y)
  PROVE  Multiple(x + y)
<1>1. PICK c \in Nat : x = c * BlockSize
  BY DEF Multiple
<1>2. PICK d \in Nat : y = d * BlockSize
  BY DEF Multiple
<1>3. (c + d) * BlockSize = c * BlockSize + d * BlockSize
  BY BlockAssumption
<1> QED BY <1>1, <1>2, <1>3 DEF Multiple

(* Aligned segments start at block boundaries.                             *)
LEMMA AlignedStarts ==
  ASSUME NEW p, NEW builder, NEW q, NEW scope, NEW n, NEW e, NEW st, NEW T,
         Formed(p, builder, q, scope, n, e, st, T), builder.scopeMode = "hash", builder.align
  PROVE  \A k \in 0 .. n - 1 : Multiple(st[k])
<1>1. Barred(p, builder, q, scope, n)
  BY HashSegments
<1>2. st \in [0 .. n -> Nat] /\ st[0] = 0 /\ \A k \in 1 .. n : st[k] = st[k - 1] + Len(p.segs[k].tokens)
  BY <1>1 DEF Formed, Placed, Barred
<1>3. ASSUME NEW k \in 1 .. n - 1 PROVE Multiple(Len(p.segs[k].tokens))
  <2> DEFINE b == Body(p.docs, q)[k]
             t == Pad(builder, b)
  <2>1. k < Len(p.docs) + 2 /\ k \in 1 .. n
    BY <1>1 DEF Barred
  <2>2. p.segs[k].tokens = t
    BY <1>1, <2>1 DEF SegmentTokens, Barred
  <2>3. Plain(b)
    <3>1. Readable(p.docs, p.user) /\ n = Len(p.docs) + 2
      BY DEF Formed
    <3>2. \A j \in 1 .. Len(p.docs) + 2 : Plain(Body(p.docs, q)[j])
      BY <3>1, BodyTexts
    <3> QED BY <2>1, <3>1, <3>2
  <2> HIDE DEF b
  <2>4. Multiple(Len(t))
    BY <2>3, PlainPads
  <2> QED BY <2>2, <2>4
<1> DEFINE S == {k \in Nat : k <= n - 1 => Multiple(st[k])}
<1>4. 0 \in S
  <2>1. 0 = 0 * BlockSize
    BY BlockAssumption
  <2>2. Multiple(0)
    BY <2>1 DEF Multiple
  <2> QED BY <1>2, <2>2
<1>5. ASSUME NEW k \in Nat, k \in S PROVE k + 1 \in S
  <2> DEFINE m == k + 1
  <2> SUFFICES ASSUME m <= n - 1 PROVE Multiple(st[m])
    OBVIOUS
  <2>1. m \in 1 .. n - 1 /\ m \in 1 .. n /\ m - 1 = k /\ k <= n - 1
    BY <1>1 DEF Barred
  <2>2. Multiple(st[k])
    BY <1>5, <2>1
  <2> HIDE DEF m
  <2>3. Multiple(Len(p.segs[m].tokens))
    BY <1>3, <2>1
  <2>4. st[m] = st[k] + Len(p.segs[m].tokens)
    BY <1>2, <2>1
  <2> QED BY <2>2, <2>3, <2>4, MultipleSum
<1>6. Nat \subseteq S
  <2> HIDE DEF S
  <2> QED BY <1>4, <1>5, Induction
<1>7. ASSUME NEW k \in 0 .. n - 1 PROVE Multiple(st[k])
  <2>1. k \in Nat /\ k <= n - 1
    BY <1>1 DEF Barred
  <2>2. k \in S
    BY <1>6, <2>1
  <2> QED BY <2>1, <2>2
<1> QED BY <1>7

(* What the text of an aligned prompt shows where a part starts: the       *)
(* header and the name of a document, or the question.                     *)
Header == <<"header", 0, 1>>
PartSize(builder, evidence, k) == Len(Pad(builder, IF k = 1 THEN Preamble ELSE DocTokens(evidence[k - 1])))

Sketch(p, builder, q, n, st) ==
  /\ n = Len(p.docs) + 2 /\ Len(p.docs) \in Nat
  /\ st \in [0 .. n -> Nat] /\ st[0] = 0
  /\ \A k \in 1 .. n : Multiple(st[k - 1]) /\ st[k - 1] < st[k]
  /\ \A k \in 1 .. n - 1 : st[k] = st[k - 1] + PartSize(builder, p.docs, k)
  /\ \A k \in 2 .. n - 1 : /\ TokensOf(p)[st[k - 1] + 1] = Header
                           /\ TokensOf(p)[st[k - 1] + 2] = <<"doc", p.docs[k - 1].id, 2>>
  /\ TokensOf(p)[st[n - 1] + 1] = <<"tail", q, 1>>

LEMMA DocShows ==
  ASSUME NEW d, d.len \in Nat, d.len >= 1, NEW builder, NEW t, t = Pad(builder, DocTokens(d)), Plain(DocTokens(d))
  PROVE  Len(t) \in Nat /\ Len(t) >= 2 /\ t[1] = Header /\ t[2] = <<"doc", d.id, 2>>
<1> DEFINE b == DocTokens(d)
<1>1. DOMAIN b = 1 .. d.len + 1 /\ b[1] = Header /\ b[2] = <<"doc", d.id, 2>>
  BY DEF DocTokens, Header
<1>2. 1 \in 1 .. d.len + 1 /\ 2 \in 1 .. d.len + 1 /\ d.len + 1 >= 2
  OBVIOUS
<1>3. Len(b) = d.len + 1
  BY DEF DocTokens
<1> HIDE DEF b
<1>4. Len(t) \in Nat /\ Len(b) <= Len(t) /\ \A i \in 1 .. Len(b) : t[i] = b[i]
  BY PlainPads DEF b
<1> QED BY <1>1, <1>2, <1>3, <1>4

TextsOf(body, evidence, d, q) ==
  /\ body[1] = Preamble /\ body[d + 2] = TailTokens(q)
  /\ \A k \in 1 .. d : body[k + 1] = DocTokens(evidence[k])
  /\ \A k \in 1 .. d + 2 : Plain(body[k])

LEMMA TextsAre ==
  ASSUME NEW evidence, NEW user, Readable(evidence, user), NEW q, NEW d, d = Len(evidence),
         NEW body, body = Body(evidence, q)
  PROVE  TextsOf(body, evidence, d, q)
<1>1. body[1] = Preamble
  BY BodyTexts
<1>2. ASSUME NEW k \in 1 .. d PROVE body[k + 1] = DocTokens(evidence[k])
  <2> DEFINE x == k + 1
  <2>1. d \in Nat
    BY DEF Readable
  <2>2. x \in 2 .. d + 1 /\ x \in 1 .. d + 2 /\ x - 1 = k /\ x # 1
    BY <2>1
  <2> HIDE DEF x
  <2>3. body[x] = DocTokens(evidence[x - 1])
    BY <2>2 DEF Body
  <2> QED BY <2>2, <2>3 DEF x
<1>3. body[d + 2] = TailTokens(q)
  BY BodyTexts, SMTT(30)
<1>4. \A k \in 1 .. d + 2 : Plain(body[k])
  BY BodyTexts
<1> QED BY <1>1, <1>2, <1>3, <1>4 DEF TextsOf

LEMMA Sketched ==
  ASSUME NEW p, NEW builder, NEW q, NEW scope, NEW n, NEW e, NEW st, NEW T,
         Formed(p, builder, q, scope, n, e, st, T), builder.scopeMode = "hash", builder.align,
         \A k \in 1 .. Len(p.docs) : p.docs[k].len >= 1
  PROVE  Sketch(p, builder, q, n, st)
<1> DEFINE d == Len(p.docs)
           flat == TokensOf(p)
           Tk(k) == p.segs[k].tokens
           body == Body(p.docs, q)
<1>1. /\ n = d + 2 /\ d \in Nat /\ Len(p.segs) = n
      /\ \A k \in 1 .. n : Tk(k) = SegmentTokens(builder, p.docs, q, k)
  BY HashSegments DEF Barred
<1>2. Readable(p.docs, p.user)
  BY DEF Formed
<1>3. /\ body[1] = Preamble /\ body[n] = TailTokens(q)
      /\ \A k \in 1 .. d : body[k + 1] = DocTokens(p.docs[k])
      /\ \A k \in 1 .. n : Plain(body[k])
  <2>1. /\ body[1] = Preamble /\ body[d + 2] = TailTokens(q)
        /\ \A k \in 1 .. d : body[k + 1] = DocTokens(p.docs[k])
        /\ \A k \in 1 .. d + 2 : Plain(body[k])
    <3>1. TextsOf(body, p.docs, d, q)
      BY <1>2, TextsAre
    <3> QED BY <3>1 DEF TextsOf
  <2> HIDE DEF body, d
  <2> QED BY <1>1, <2>1
<1>4. /\ st \in [0 .. n -> Nat] /\ st[0] = 0
      /\ \A k \in 1 .. n : Len(Tk(k)) \in Nat /\ st[k] = st[k - 1] + Len(Tk(k))
      /\ \A k \in 1 .. n : \A i \in 1 .. Len(Tk(k)) : flat[st[k - 1] + i] = Tk(k)[i]
  BY <1>1 DEF Formed, Placed
<1>5. \A k \in 1 .. n : Len(Tk(k)) >= 1
  BY <1>1 DEF Formed
<1>6. \A k \in 0 .. n - 1 : Multiple(st[k])
  BY AlignedStarts
<1>7. \A k \in 1 .. n - 1 : Tk(k) = Pad(builder, body[k])
  BY <1>1 DEF SegmentTokens
<1>8. Tk(n) = TailTokens(q)
  BY <1>1, <1>3 DEF SegmentTokens
<1> HIDE DEF body, flat, Tk, d
<1>9. \A k \in 1 .. n : Multiple(st[k - 1]) /\ st[k - 1] < st[k]
  <2> SUFFICES ASSUME NEW k \in 1 .. n PROVE Multiple(st[k - 1]) /\ st[k - 1] < st[k]
    OBVIOUS
  <2>1. k - 1 \in 0 .. n - 1 /\ k - 1 \in 0 .. n /\ k \in 0 .. n
    BY <1>1
  <2>2. st[k - 1] \in Nat /\ st[k] \in Nat
    BY <1>4, <2>1
  <2>3. st[k] = st[k - 1] + Len(Tk(k)) /\ Len(Tk(k)) \in Nat /\ Len(Tk(k)) >= 1
    BY <1>4, <1>5
  <2> QED BY <1>6, <2>1, <2>2, <2>3
<1>10. \A k \in 2 .. n - 1 : body[k] = DocTokens(p.docs[k - 1]) /\ k - 1 \in 1 .. d
  <2> SUFFICES ASSUME NEW k \in 2 .. n - 1 PROVE body[k] = DocTokens(p.docs[k - 1]) /\ k - 1 \in 1 .. d
    OBVIOUS
  <2> DEFINE x == k - 1
  <2>1. x \in 1 .. d /\ k = x + 1
    BY <1>1
  <2> HIDE DEF x
  <2>2. body[k] = DocTokens(p.docs[x])
    BY <1>3, <2>1
  <2> QED BY <2>1, <2>2 DEF x
<1>11. \A k \in 1 .. n - 1 : st[k] = st[k - 1] + PartSize(builder, p.docs, k)
  <2> SUFFICES ASSUME NEW k \in 1 .. n - 1 PROVE st[k] = st[k - 1] + PartSize(builder, p.docs, k)
    OBVIOUS
  <2>1. k \in 1 .. n /\ (k = 1 \/ k \in 2 .. n - 1)
    BY <1>1
  <2>2. body[k] = IF k = 1 THEN Preamble ELSE DocTokens(p.docs[k - 1])
    BY <1>3, <1>10, <2>1
  <2>3. Tk(k) = Pad(builder, IF k = 1 THEN Preamble ELSE DocTokens(p.docs[k - 1]))
    BY <1>7, <2>2
  <2>4. st[k] = st[k - 1] + Len(Tk(k))
    BY <1>4, <2>1
  <2> QED BY <2>3, <2>4 DEF PartSize
<1>12. ASSUME NEW k \in 2 .. n - 1
       PROVE  flat[st[k - 1] + 1] = Header /\ flat[st[k - 1] + 2] = <<"doc", p.docs[k - 1].id, 2>>
  <2> DEFINE c == p.docs[k - 1]
             t == Tk(k)
  <2>1. k \in 1 .. n /\ k \in 1 .. n - 1
    BY <1>1
  <2>2. c.len \in Nat /\ c.len >= 1
    BY <1>2, <1>10 DEF Readable, d
  <2>3. t = Pad(builder, DocTokens(c)) /\ Plain(DocTokens(c))
    BY <1>3, <1>7, <1>10, <2>1
  <2> HIDE DEF c, t
  <2>4. Len(t) \in Nat /\ Len(t) >= 2 /\ t[1] = Header /\ t[2] = <<"doc", c.id, 2>>
    BY <2>2, <2>3, DocShows
  <2>5. 1 \in 1 .. Len(t) /\ 2 \in 1 .. Len(t)
    BY <2>4
  <2>6. \A i \in 1 .. Len(t) : flat[st[k - 1] + i] = t[i]
    BY <1>4, <2>1 DEF t
  <2>7. flat[st[k - 1] + 1] = t[1] /\ flat[st[k - 1] + 2] = t[2]
    BY <2>5, <2>6
  <2> QED BY <2>4, <2>7 DEF c
<1>13. flat[st[n - 1] + 1] = <<"tail", q, 1>>
  <2>1. n \in 1 .. n
    BY <1>1
  <2>2. Tk(n)[1] = <<"tail", q, 1>> /\ Len(Tk(n)) = 2
    BY <1>8 DEF TailTokens
  <2>3. 1 \in 1 .. Len(Tk(n))
    BY <2>2
  <2>4. \A i \in 1 .. Len(Tk(n)) : flat[st[n - 1] + i] = Tk(n)[i]
    BY <1>4, <2>1
  <2> QED BY <2>2, <2>3, <2>4
<1> QED BY <1>1, <1>4, <1>9, <1>11, <1>12, <1>13 DEF Sketch, flat, d

(* The first two tokens of a block that both prompts have.                 *)
LEMMA SameStart ==
  ASSUME NEW f, NEW g, NEW i \in Nat, SameText(f, g, i), NEW x \in Nat, Multiple(x), x < i * BlockSize
  PROVE  f[x + 1] = g[x + 1] /\ f[x + 2] = g[x + 2]
<1>1. PICK c \in Nat : x = c * BlockSize
  BY DEF Multiple
<1>2. BlockSize \in Nat /\ BlockSize >= 2
  BY BlockAssumption, CorpusAssumption
<1>3. c + 1 <= i
  <2>1. (c + 1 <= i) \/ i <= c
    OBVIOUS
  <2>2. CASE i <= c
    <3>1. CASE i = 0
      BY <1>1, <1>2, <3>1
    <3>2. CASE i # 0
      <4>1. i * BlockSize <= c * BlockSize /\ c * BlockSize \in Nat /\ i * BlockSize \in Nat
        BY <1>2, <2>2, <3>2, Multiples
      <4> QED BY <1>1, <4>1
    <3> QED BY <3>1, <3>2
  <2> QED BY <2>1, <2>2
<1>4. x + BlockSize <= i * BlockSize /\ i * BlockSize \in Nat
  <2> DEFINE l == c + 1
  <2>1. l \in Nat /\ l # 0 /\ l - 1 = c /\ l <= i
    BY <1>3
  <2> HIDE DEF l
  <2>2. (l - 1) * BlockSize + BlockSize = l * BlockSize /\ l * BlockSize <= i * BlockSize /\ i * BlockSize \in Nat
    BY <1>2, <2>1, Multiples
  <2> QED BY <1>1, <2>1, <2>2
<1>5. x + 1 \in 1 .. i * BlockSize /\ x + 2 \in 1 .. i * BlockSize
  <2> DEFINE y == i * BlockSize
  <2>1. y \in Nat /\ x + BlockSize <= y
    BY <1>4
  <2> HIDE DEF y
  <2>2. x + 1 \in 1 .. y /\ x + 2 \in 1 .. y
    BY <1>2, <2>1
  <2> QED BY <2>2 DEF y
<1> QED BY <1>5 DEF SameText

(* What two prompts with the same text have in common at part k.           *)
Agree(p1, p2, n1, n2, st1, st2, k) ==
  /\ k \in 1 .. n2 /\ st1[k - 1] = st2[k - 1] /\ (k = n1 <=> k = n2)
  /\ k \in 2 .. n1 - 1 => p1.docs[k - 1] = p2.docs[k - 1]
  /\ Truth(p1.docs)[k] = Truth(p2.docs)[k]

NamesTell(docs1, docs2) ==
  \A x \in 1 .. Len(docs1), y \in 1 .. Len(docs2) : docs1[x].id = docs2[y].id => docs1[x] = docs2[y]

(* The text of a part determines which document it is.                     *)
LEMMA PartsTell ==
  ASSUME NEW p1, NEW p2, NEW builder, NEW q1, NEW q2, NEW n1, NEW n2, NEW st1, NEW st2,
         Sketch(p1, builder, q1, n1, st1), Sketch(p2, builder, q2, n2, st2), NamesTell(p1.docs, p2.docs),
         NEW i \in Nat, SameText(TokensOf(p1), TokensOf(p2), i),
         NEW k \in 2 .. n1, k \in 2 .. n2, st1[k - 1] = st2[k - 1], st1[k - 1] < i * BlockSize
  PROVE  (k = n1 <=> k = n2) /\ (k # n1 => p1.docs[k - 1] = p2.docs[k - 1])
<1> DEFINE x  == st1[k - 1]
           f1 == TokensOf(p1)
           f2 == TokensOf(p2)
           j  == k - 1
<1>1. /\ n1 = Len(p1.docs) + 2 /\ Len(p1.docs) \in Nat /\ n2 = Len(p2.docs) + 2 /\ Len(p2.docs) \in Nat
      /\ x \in Nat /\ Multiple(x)
  <2>1. /\ n1 = Len(p1.docs) + 2 /\ Len(p1.docs) \in Nat /\ n2 = Len(p2.docs) + 2 /\ Len(p2.docs) \in Nat
        /\ st1 \in [0 .. n1 -> Nat] /\ \A y \in 1 .. n1 : Multiple(st1[y - 1])
    BY DEF Sketch
  <2>2. k \in 1 .. n1 /\ k - 1 \in 0 .. n1
    BY <2>1
  <2> QED BY <2>1, <2>2
<1>2. f1[x + 1] = f2[x + 1] /\ f1[x + 2] = f2[x + 2]
  <2> HIDE DEF x, f1, f2
  <2>1. x < i * BlockSize /\ SameText(f1, f2, i)
    BY DEF x, f1, f2
  <2> QED BY <1>1, <2>1, SameStart
<1>3. /\ k # n1 => f1[x + 1] = Header /\ f1[x + 2] = <<"doc", p1.docs[j].id, 2>>
      /\ k = n1 => f1[x + 1] = <<"tail", q1, 1>>
  <2>1. k # n1 => k \in 2 .. n1 - 1
    BY <1>1
  <2> QED BY <2>1 DEF Sketch
<1>4. /\ k # n2 => f2[x + 1] = Header /\ f2[x + 2] = <<"doc", p2.docs[j].id, 2>>
      /\ k = n2 => f2[x + 1] = <<"tail", q2, 1>>
  <2>1. k # n2 => k \in 2 .. n2 - 1
    BY <1>1
  <2> QED BY <2>1 DEF Sketch
<1>5. \A q : Header # <<"tail", q, 1>>
  <2>1. Header[1] = "header"
    BY DEF Header
  <2>2. \A q : <<"tail", q, 1>>[1] = "tail"
    OBVIOUS
  <2> QED BY <2>1, <2>2
<1> HIDE DEF x, f1, f2, j
<1>6. k = n1 <=> k = n2
  BY <1>2, <1>3, <1>4, <1>5
<1>7. ASSUME k # n1 PROVE p1.docs[j] = p2.docs[j]
  <2>1. <<"doc", p1.docs[j].id, 2>> = <<"doc", p2.docs[j].id, 2>>
    BY <1>2, <1>3, <1>4, <1>6, <1>7
  <2>2. p1.docs[j].id = p2.docs[j].id
    BY <2>1
  <2>3. j \in 1 .. Len(p1.docs) /\ j \in 1 .. Len(p2.docs)
    <3>1. /\ Len(p1.docs) \in Nat /\ Len(p2.docs) \in Nat
          /\ k \in 2 .. Len(p1.docs) + 1 /\ k \in 2 .. Len(p2.docs) + 1
      BY <1>1, <1>6, <1>7, SMTT(30)
    <3> QED BY <3>1 DEF j
  <2> QED BY <2>2, <2>3 DEF NamesTell
<1> QED BY <1>6, <1>7 DEF j

(* How the effective ACLs of the parts follow one another.                 *)
Cumulates(truth, evidence) ==
  /\ truth[1] = Public
  /\ \A k \in 1 .. Len(evidence) : truth[k + 1] = Intersect(truth[k], evidence[k].acl)
  /\ truth[Len(evidence) + 2] = truth[Len(evidence) + 1]

LEMMA TruthCumulates ==
  ASSUME NEW evidence, NEW user, Readable(evidence, user), NEW n, n = Len(evidence), NEW t, t = Truth(evidence)
  PROVE  Cumulates(t, evidence)
<1>1. /\ t[1] = Public
      /\ \A k \in 1 .. n : t[k + 1] = Intersect(t[k], evidence[k].acl)
      /\ t[n + 2] = t[n + 1]
  BY TruthExact
<1> QED BY <1>1 DEF Cumulates

LEMMA AgreeNext ==
  ASSUME NEW p1, NEW p2, NEW builder, NEW q1, NEW q2, NEW n1, NEW n2, NEW st1, NEW st2,
         Sketch(p1, builder, q1, n1, st1), Sketch(p2, builder, q2, n2, st2), NamesTell(p1.docs, p2.docs),
         Cumulates(Truth(p1.docs), p1.docs), Cumulates(Truth(p2.docs), p2.docs),
         NEW i \in Nat, SameText(TokensOf(p1), TokensOf(p2), i),
         NEW k \in 1 .. n1, k # n1, Agree(p1, p2, n1, n2, st1, st2, k),
         NEW m, m = k + 1, st1[k] < i * BlockSize
  PROVE  Agree(p1, p2, n1, n2, st1, st2, m)
<1> DEFINE t1 == Truth(p1.docs)
           t2 == Truth(p2.docs)
<1>1. n1 = Len(p1.docs) + 2 /\ Len(p1.docs) \in Nat /\ n2 = Len(p2.docs) + 2 /\ Len(p2.docs) \in Nat
  BY DEF Sketch
<1>2. /\ k \in 1 .. n2 /\ st1[k - 1] = st2[k - 1] /\ k # n2
      /\ k \in 2 .. n1 - 1 => p1.docs[k - 1] = p2.docs[k - 1]
      /\ t1[k] = t2[k]
  BY DEF Agree
<1>3. k \in Nat /\ m \in Nat /\ m \in 2 .. n1 /\ m \in 2 .. n2 /\ m - 1 = k /\ k \in 1 .. n1 - 1 /\ k \in 1 .. n2 - 1
  <2>1. n1 \in Nat /\ n2 \in Nat
    BY <1>1
  <2>2. k \in 1 .. n1 /\ k # n1 /\ k \in 1 .. n2 /\ k # n2
    BY <1>2
  <2> QED BY <2>1, <2>2
<1>4. PartSize(builder, p1.docs, k) = PartSize(builder, p2.docs, k)
  <2>1. CASE k = 1
    BY <2>1 DEF PartSize
  <2>2. CASE k # 1
    <3>1. k \in 2 .. n1 - 1
      BY <1>3, <2>2
    <3>2. p1.docs[k - 1] = p2.docs[k - 1]
      BY <1>2, <3>1
    <3> QED BY <2>2, <3>2 DEF PartSize
  <2> QED BY <2>1, <2>2
<1>5. st1[k] = st2[k]
  <2>1. st1[k] = st1[k - 1] + PartSize(builder, p1.docs, k)
    BY <1>3 DEF Sketch
  <2>2. st2[k] = st2[k - 1] + PartSize(builder, p2.docs, k)
    BY <1>3 DEF Sketch
  <2> QED BY <1>2, <1>4, <2>1, <2>2
<1>6. (m = n1 <=> m = n2) /\ (m # n1 => p1.docs[k] = p2.docs[k])
  <2>1. st1[m - 1] = st2[m - 1] /\ st1[m - 1] < i * BlockSize
    BY <1>3, <1>5
  <2>2. (m = n1 <=> m = n2) /\ (m # n1 => p1.docs[m - 1] = p2.docs[m - 1])
    BY <1>3, <2>1, PartsTell
  <2> QED BY <1>3, <2>2
<1> HIDE DEF t1, t2
<1>7. t1[m] = t2[m]
  <2>1. CASE m # n1
    <3>1. k \in 1 .. Len(p1.docs) /\ k \in 1 .. Len(p2.docs)
      <4>1. m # n2
        BY <1>6, <2>1
      <4> QED BY <1>1, <1>3, <2>1, <4>1, SMTT(30)
    <3>2. t1[k + 1] = Intersect(t1[k], p1.docs[k].acl) /\ t2[k + 1] = Intersect(t2[k], p2.docs[k].acl)
      BY <3>1 DEF Cumulates, t1, t2
    <3> QED BY <1>2, <1>6, <2>1, <3>2
  <2>2. CASE m = n1
    <3>1. m = Len(p1.docs) + 2 /\ k = Len(p1.docs) + 1 /\ m = Len(p2.docs) + 2 /\ k = Len(p2.docs) + 1
      BY <1>1, <1>3, <1>6, <2>2
    <3>2. t1[m] = t1[k] /\ t2[m] = t2[k]
      BY <3>1 DEF Cumulates, t1, t2
    <3> QED BY <1>2, <3>2
  <2> QED BY <2>1, <2>2
<1>8. m \in 1 .. n2 /\ (m \in 2 .. n1 - 1 => m # n1)
  BY <1>1, <1>3
<1> QED BY <1>3, <1>5, <1>6, <1>7, <1>8 DEF Agree, t1, t2

(* Two prompts agree on every part that begins in text they share: the     *)
(* text there tells which documents they hold so far.                      *)
LEMMA PromptsAgree ==
  ASSUME NEW p1, NEW p2, NEW builder, NEW q1, NEW q2, NEW n1, NEW n2, NEW st1, NEW st2,
         Sketch(p1, builder, q1, n1, st1), Sketch(p2, builder, q2, n2, st2), NamesTell(p1.docs, p2.docs),
         Cumulates(Truth(p1.docs), p1.docs), Cumulates(Truth(p2.docs), p2.docs),
         NEW i \in Nat, SameText(TokensOf(p1), TokensOf(p2), i)
  PROVE  \A k \in 1 .. n1 : st1[k - 1] < i * BlockSize => Agree(p1, p2, n1, n2, st1, st2, k)
<1> DEFINE A(k) == Agree(p1, p2, n1, n2, st1, st2, k)
           b    == i * BlockSize
           S    == {k \in Nat : k + 1 <= n1 /\ st1[k] < b => A(k + 1)}
<1>1. /\ n1 = Len(p1.docs) + 2 /\ Len(p1.docs) \in Nat /\ n2 = Len(p2.docs) + 2 /\ Len(p2.docs) \in Nat
      /\ st1 \in [0 .. n1 -> Nat] /\ st1[0] = 0 /\ st2[0] = 0 /\ \A k \in 1 .. n1 : st1[k - 1] < st1[k]
  BY DEF Sketch
<1>2. b \in Nat
  BY BlockAssumption
<1>3. A(1)
  <2>1. Truth(p1.docs)[1] = Truth(p2.docs)[1]
    BY DEF Cumulates
  <2>2. 1 \in 1 .. n2 /\ 1 # n1 /\ 1 # n2 /\ 1 \notin 2 .. n1 - 1 /\ 1 - 1 = 0
    BY <1>1
  <2>3. st1[1 - 1] = st2[1 - 1]
    BY <1>1, <2>2
  <2> QED BY <2>1, <2>2, <2>3 DEF Agree
<1> HIDE DEF A, b
<1>4. 0 \in S
  BY <1>3
<1>5. ASSUME NEW k \in Nat, k \in S PROVE k + 1 \in S
  <2> DEFINE m == k + 1
             l == m + 1
  <2> SUFFICES ASSUME l <= n1, st1[m] < b PROVE A(l)
    OBVIOUS
  <2>1. m \in 1 .. n1 /\ m # n1 /\ m - 1 = k /\ k \in 0 .. n1 /\ m \in 0 .. n1 /\ m \in Nat /\ m <= n1
    BY <1>1
  <2>2. A(m)
    <3>1. k + 1 <= n1 /\ st1[k] < b => A(k + 1)
      BY <1>5
    <3> HIDE DEF l
    <3>2. st1[m - 1] < st1[m]
      BY <1>1, <2>1
    <3>3. m = k + 1
      OBVIOUS
    <3> HIDE DEF m
    <3>4. st1[k] \in Nat /\ st1[m] \in Nat /\ st1[k] < st1[m]
      BY <1>1, <2>1, <3>2
    <3>5. st1[k] < b
      BY <1>2, <3>4
    <3> QED BY <2>1, <3>1, <3>3, <3>5
  <2>3. l = m + 1
    OBVIOUS
  <2> HIDE DEF l, m
  <2>4. Agree(p1, p2, n1, n2, st1, st2, m) /\ st1[m] < i * BlockSize
    BY <2>2 DEF A, b
  <2>5. Agree(p1, p2, n1, n2, st1, st2, l)
    BY <2>1, <2>3, <2>4, AgreeNext
  <2> QED BY <2>5 DEF A
<1>6. Nat \subseteq S
  <2> HIDE DEF S
  <2> QED BY <1>4, <1>5, Induction
<1>7. ASSUME NEW k \in 1 .. n1, st1[k - 1] < b PROVE A(k)
  <2> DEFINE j == k - 1
  <2>1. j \in Nat /\ j + 1 = k /\ k <= n1
    BY <1>1
  <2>2. st1[j] < b
    BY <1>7
  <2> HIDE DEF j
  <2>3. j \in S
    BY <1>6, <2>1
  <2> QED BY <2>1, <2>2, <2>3
<1> QED BY <1>7 DEF A, b

(* Where prompts agree and their scopes do, they have the same barriers.   *)
ScopesAgree(scope1, scope2, n1, st1, i) ==
  \A k \in 1 .. n1 : st1[k - 1] < i * BlockSize => scope1[k] = scope2[k]

LEMMA BarriersCarry ==
  ASSUME NEW p1, NEW p2, NEW builder, NEW q1, NEW q2, NEW scope1, NEW scope2, NEW n1, NEW n2, NEW st1, NEW st2,
         Barred(p1, builder, q1, scope1, n1), Barred(p2, builder, q2, scope2, n2),
         st1 \in [0 .. n1 -> Nat], st2 \in [0 .. n2 -> Nat],
         \A k \in 1 .. n1 : Starts(p1.segs)[k] = st1[k - 1] /\ st1[k - 1] < st1[k],
         \A k \in 1 .. n2 : Starts(p2.segs)[k] = st2[k - 1],
         NEW i \in Nat,
         \A k \in 1 .. n1 : st1[k - 1] < i * BlockSize => Agree(p1, p2, n1, n2, st1, st2, k),
         ScopesAgree(scope1, scope2, n1, st1, i),
         NEW l \in 1 .. i, NEW k \in BarriersIn(p1.segs, l)
  PROVE  k \in BarriersIn(p2.segs, l) /\ p2.segs[k].barrier = p1.segs[k].barrier
<1> DEFINE x == st1[k - 1]
           b == i * BlockSize
<1>1. k \in 1 .. n1 /\ n1 \in Nat /\ DOMAIN p1.segs = 1 .. n1 /\ DOMAIN p2.segs = 1 .. n2 /\ n2 \in Nat
  BY DEF BarriersIn, Barred
<1>2. /\ p1.segs[k].barrier # NoScope /\ x \in Nat
      /\ Starts(p1.segs)[k] = x /\ x \div BlockSize = l - 1
  <2>1. k - 1 \in 0 .. n1
    BY <1>1
  <2>2. p1.segs[k].barrier # NoScope /\ Starts(p1.segs)[k] \div BlockSize = l - 1
    BY DEF BarriersIn
  <2>3. Starts(p1.segs)[k] = x
    BY <1>1
  <2> QED BY <2>1, <2>2, <2>3
<1>3. x < b /\ b \in Nat
  <2> DEFINE y == l * BlockSize
             m == l - 1
  <2>1. m \in Nat /\ m + 1 = l /\ l \in Nat /\ l # 0 /\ l <= i
    OBVIOUS
  <2>2. y <= b /\ y \in Nat /\ b \in Nat
    <3> HIDE DEF m
    <3> QED BY <2>1, BlockAssumption, Multiples
  <2> HIDE DEF y, m, b, x
  <2>3. x < (m + 1) * BlockSize
    BY <1>2, <2>1, BlockAssumption, Quotient DEF m
  <2> QED BY <1>2, <2>1, <2>2, <2>3 DEF y
<1>4. k \in 1 .. n2 /\ st1[k - 1] = st2[k - 1] /\ scope1[k] = scope2[k]
  <2>1. Agree(p1, p2, n1, n2, st1, st2, k)
    BY <1>1, <1>3
  <2>2. scope1[k] = scope2[k]
    BY <1>1, <1>3 DEF ScopesAgree
  <2> QED BY <2>1, <2>2 DEF Agree
<1>5. OpensScope(scope1, k) <=> OpensScope(scope2, k)
  <2>1. ASSUME k > 1 PROVE scope1[k - 1] = scope2[k - 1]
    <3> DEFINE m == k - 1
    <3>1. m \in 1 .. n1 /\ m - 1 \in 0 .. n1 /\ m \in 0 .. n1
      BY <1>1, <2>1
    <3>2. st1[m - 1] < st1[m] /\ st1[m - 1] \in Nat /\ st1[m] \in Nat
      BY <3>1
    <3>3. st1[m] = x
      OBVIOUS
    <3> HIDE DEF m, x, b
    <3>4. st1[m - 1] < b
      BY <1>2, <1>3, <3>2, <3>3
    <3> QED BY <3>1, <3>4 DEF ScopesAgree, m, b
  <2> QED BY <1>1, <1>4, <2>1 DEF OpensScope
<1>6. p2.segs[k].barrier = p1.segs[k].barrier
  <2>1. p1.segs[k].barrier = IF OpensScope(scope1, k) THEN scope1[k] ELSE NoScope
    BY <1>1 DEF Barred
  <2>2. p2.segs[k].barrier = IF OpensScope(scope2, k) THEN scope2[k] ELSE NoScope
    BY <1>4 DEF Barred
  <2> QED BY <1>4, <1>5, <2>1, <2>2
<1>7. Starts(p2.segs)[k] \div BlockSize = l - 1
  BY <1>2, <1>4
<1> QED BY <1>1, <1>2, <1>4, <1>6, <1>7 DEF BarriersIn

(* Two prompts of one aligned configuration with barriers in the salt.     *)
Located(p, n, st) ==
  /\ \A k \in 1 .. n : Starts(p.segs)[k] = st[k - 1]
  /\ \A k \in 0 .. n : \A j \in 0 .. k : st[j] <= st[k]

Kin(p1, p2, builder, q1, q2, scope1, scope2, n1, n2, st1, st2) ==
  /\ Sketch(p1, builder, q1, n1, st1) /\ Barred(p1, builder, q1, scope1, n1) /\ Located(p1, n1, st1)
  /\ Cumulates(Truth(p1.docs), p1.docs)
  /\ Sketch(p2, builder, q2, n2, st2) /\ Barred(p2, builder, q2, scope2, n2) /\ Located(p2, n2, st2)
  /\ Cumulates(Truth(p2.docs), p2.docs)
  /\ NamesTell(p1.docs, p2.docs)

LEMMA KinAgree ==
  ASSUME NEW p1, NEW p2, NEW builder, NEW q1, NEW q2, NEW scope1, NEW scope2, NEW n1, NEW n2, NEW st1, NEW st2,
         Kin(p1, p2, builder, q1, q2, scope1, scope2, n1, n2, st1, st2),
         NEW i \in Nat, SameText(TokensOf(p1), TokensOf(p2), i)
  PROVE  \A k \in 1 .. n1 : st1[k - 1] < i * BlockSize => Agree(p1, p2, n1, n2, st1, st2, k)
<1>1. /\ Sketch(p1, builder, q1, n1, st1) /\ Sketch(p2, builder, q2, n2, st2) /\ NamesTell(p1.docs, p2.docs)
      /\ Cumulates(Truth(p1.docs), p1.docs) /\ Cumulates(Truth(p2.docs), p2.docs)
  BY DEF Kin
<1> QED BY <1>1, PromptsAgree

LEMMA KinSymmetric ==
  ASSUME NEW p1, NEW p2, NEW builder, NEW q1, NEW q2, NEW scope1, NEW scope2, NEW n1, NEW n2, NEW st1, NEW st2,
         Kin(p1, p2, builder, q1, q2, scope1, scope2, n1, n2, st1, st2)
  PROVE  Kin(p2, p1, builder, q2, q1, scope2, scope1, n2, n1, st2, st1)
<1>1. NamesTell(p2.docs, p1.docs)
  <2>1. NamesTell(p1.docs, p2.docs)
    BY DEF Kin
  <2> QED BY <2>1 DEF NamesTell
<1> QED BY <1>1 DEF Kin

LEMMA KinBarriers ==
  ASSUME NEW p1, NEW p2, NEW builder, NEW q1, NEW q2, NEW scope1, NEW scope2, NEW n1, NEW n2, NEW st1, NEW st2,
         Kin(p1, p2, builder, q1, q2, scope1, scope2, n1, n2, st1, st2),
         NEW i \in Nat, SameText(TokensOf(p1), TokensOf(p2), i), ScopesAgree(scope1, scope2, n1, st1, i),
         NEW l \in 1 .. i
  PROVE  \A k \in BarriersIn(p1.segs, l) : k \in BarriersIn(p2.segs, l) /\ p2.segs[k].barrier = p1.segs[k].barrier
<1>1. /\ Barred(p1, builder, q1, scope1, n1) /\ Barred(p2, builder, q2, scope2, n2)
      /\ Sketch(p1, builder, q1, n1, st1) /\ Sketch(p2, builder, q2, n2, st2)
      /\ Located(p1, n1, st1) /\ Located(p2, n2, st2)
  BY DEF Kin
<1>2. /\ st1 \in [0 .. n1 -> Nat] /\ st2 \in [0 .. n2 -> Nat]
      /\ \A k \in 1 .. n1 : Starts(p1.segs)[k] = st1[k - 1] /\ st1[k - 1] < st1[k]
      /\ \A k \in 1 .. n2 : Starts(p2.segs)[k] = st2[k - 1]
  BY <1>1 DEF Sketch, Located
<1>3. \A k \in 1 .. n1 : st1[k - 1] < i * BlockSize => Agree(p1, p2, n1, n2, st1, st2, k)
  BY KinAgree
<1> QED BY <1>1, <1>2, <1>3, BarriersCarry

LEMMA ScopesAgreeBack ==
  ASSUME NEW p1, NEW p2, NEW builder, NEW q1, NEW q2, NEW scope1, NEW scope2, NEW n1, NEW n2, NEW st1, NEW st2,
         Kin(p1, p2, builder, q1, q2, scope1, scope2, n1, n2, st1, st2),
         NEW i \in Nat, SameText(TokensOf(p1), TokensOf(p2), i), ScopesAgree(scope1, scope2, n1, st1, i)
  PROVE  SameText(TokensOf(p2), TokensOf(p1), i) /\ ScopesAgree(scope2, scope1, n2, st2, i)
<1>1. SameText(TokensOf(p2), TokensOf(p1), i)
  BY DEF SameText
<1>2. Kin(p2, p1, builder, q2, q1, scope2, scope1, n2, n1, st2, st1)
  BY KinSymmetric
<1>3. \A k \in 1 .. n2 : st2[k - 1] < i * BlockSize => Agree(p2, p1, n2, n1, st2, st1, k)
  BY <1>1, <1>2, KinAgree
<1>4. ASSUME NEW k \in 1 .. n2, st2[k - 1] < i * BlockSize PROVE scope2[k] = scope1[k]
  <2>1. Agree(p2, p1, n2, n1, st2, st1, k)
    BY <1>3, <1>4
  <2>2. k \in 1 .. n1 /\ st1[k - 1] < i * BlockSize
    BY <1>4, <2>1 DEF Agree
  <2> QED BY <2>2 DEF ScopesAgree
<1> QED BY <1>1, <1>4 DEF ScopesAgree

(* Where the scopes agree, the text decides what is shared.                *)
LEMMA TextDecides ==
  ASSUME NEW p1, NEW p2, NEW builder, NEW q1, NEW q2, NEW scope1, NEW scope2, NEW n1, NEW n2, NEW st1, NEW st2,
         Kin(p1, p2, builder, q1, q2, scope1, scope2, n1, n2, st1, st2),
         NEW i \in Nat, SameText(TokensOf(p1), TokensOf(p2), i), ScopesAgree(scope1, scope2, n1, st1, i)
  PROVE  SameKeys(p1.segs, TRUE, p2.segs, TRUE, i)
<1>1. SameText(TokensOf(p2), TokensOf(p1), i) /\ ScopesAgree(scope2, scope1, n2, st2, i)
  BY ScopesAgreeBack
<1>2. Kin(p2, p1, builder, q2, q1, scope2, scope1, n2, n1, st2, st1)
  BY KinSymmetric
<1>3. n1 \in Nat /\ DOMAIN p1.segs = 1 .. n1 /\ n2 \in Nat /\ DOMAIN p2.segs = 1 .. n2
  BY DEF Kin, Barred
<1>4. ASSUME NEW l \in 1 .. i PROVE ScopeKeys(p1.segs, l) = ScopeKeys(p2.segs, l)
  <2>1. \A k \in BarriersIn(p1.segs, l) : k \in BarriersIn(p2.segs, l) /\ p2.segs[k].barrier = p1.segs[k].barrier
    BY KinBarriers
  <2>2. \A k \in BarriersIn(p2.segs, l) : k \in BarriersIn(p1.segs, l) /\ p1.segs[k].barrier = p2.segs[k].barrier
    BY <1>1, <1>2, KinBarriers
  <2>3. BarriersIn(p1.segs, l) = BarriersIn(p2.segs, l)
    BY <2>1, <2>2
  <2>4. \A k \in BarriersIn(p1.segs, l) : p1.segs[k].barrier = p2.segs[k].barrier
    BY <2>1
  <2> DEFINE g1 == p1.segs
             g2 == p2.segs
  <2> HIDE DEF g1, g2
  <2>5. ScopeKeys(g1, l) = ScopeKeys(g2, l)
    BY <1>3, <2>3, <2>4, KeysDetermined DEF g1, g2
  <2> QED BY <2>5 DEF g1, g2
<1> QED BY <1>4 DEF SameKeys, KeyOf

(* Scopes agree where the prompts do, if they come from effective ACLs, or *)
(* from one user.                                                          *)
LEMMA PlansAgree ==
  ASSUME NEW p1, NEW p2, NEW builder, NEW q1, NEW q2, NEW scope1, NEW scope2, NEW n1, NEW n2, NEW st1, NEW st2,
         Kin(p1, p2, builder, q1, q2, scope1, scope2, n1, n2, st1, st2),
         NEW i \in Nat, SameText(TokensOf(p1), TokensOf(p2), i),
         NEW truth1, truth1 = Truth(p1.docs), DOMAIN truth1 = 1 .. n1,
         NEW truth2, truth2 = Truth(p2.docs), DOMAIN truth2 = 1 .. n2,
         NEW caching \in {"global", "acl_scope", "two_level"},
         NEW id1, NEW id2, NEW user1, NEW user2, caching = "two_level" => user1 = user2,
         scope1 = PlanScopes(caching, id1, user1, truth1), scope2 = PlanScopes(caching, id2, user2, truth2)
  PROVE  ScopesAgree(scope1, scope2, n1, st1, i)
<1> DEFINE b == i * BlockSize
<1>1. ASSUME NEW k \in 1 .. n1, st1[k - 1] < b PROVE k \in 1 .. n2 /\ truth1[k] = truth2[k]
  <2>1. Agree(p1, p2, n1, n2, st1, st2, k)
    BY <1>1, KinAgree
  <2> QED BY <2>1 DEF Agree
<1>2. n1 \in Nat /\ st1 \in [0 .. n1 -> Nat] /\ b \in Nat /\ \A k \in 0 .. n1 : \A j \in 0 .. k : st1[j] <= st1[k]
  BY BlockAssumption DEF Kin, Sketch, Located
<1> HIDE DEF b
<1>3. ASSUME NEW k \in 1 .. n1, st1[k - 1] < b, NEW j \in 1 .. k PROVE truth1[j] = truth2[j]
  <2> DEFINE x == j - 1
             y == k - 1
  <2>1. j \in 1 .. n1 /\ x \in 0 .. y /\ y \in 0 .. n1 /\ x \in 0 .. n1
    BY <1>2
  <2> HIDE DEF x, y
  <2>2. st1[x] <= st1[y] /\ st1[x] \in Nat /\ st1[y] \in Nat
    BY <1>2, <2>1
  <2>3. st1[x] < b
    BY <1>2, <1>3, <2>2 DEF y
  <2> QED BY <1>1, <2>1, <2>3 DEF x
<1>4. ASSUME NEW k \in 1 .. n1, st1[k - 1] < b PROVE scope1[k] = scope2[k]
  <2>1. k \in DOMAIN truth1 /\ k \in DOMAIN truth2 /\ truth1[k] = truth2[k]
    BY <1>1, <1>4
  <2>2. CASE caching = "global"
    BY <2>1, <2>2 DEF PlanScopes
  <2>3. CASE caching = "acl_scope"
    BY <2>1, <2>3 DEF PlanScopes
  <2>4. CASE caching = "two_level"
    <3>1. (\E j \in 1 .. k : truth1[j] # Public) <=> (\E j \in 1 .. k : truth2[j] # Public)
      BY <1>3, <1>4
    <3>2. scope1[k] = IF \E j \in 1 .. k : truth1[j] # Public THEN UserScope(user1) ELSE Public
      BY <2>1, <2>4 DEF PlanScopes
    <3>3. scope2[k] = IF \E j \in 1 .. k : truth2[j] # Public THEN UserScope(user2) ELSE Public
      BY <2>1, <2>4 DEF PlanScopes
    <3> QED BY <2>4, <3>1, <3>2, <3>3
  <2> QED BY <2>2, <2>3, <2>4
<1> QED BY <1>4 DEF ScopesAgree, b

LEMMA OneKin ==
  ASSUME NEW p, NEW builder, NEW q, NEW scope, NEW n, NEW e, NEW st, NEW T,
         Formed(p, builder, q, scope, n, e, st, T), builder.scopeMode = "hash", builder.align,
         \A k \in 1 .. Len(p.docs) : p.docs[k].len >= 1
  PROVE  /\ Sketch(p, builder, q, n, st) /\ Barred(p, builder, q, scope, n) /\ Located(p, n, st)
         /\ Cumulates(Truth(p.docs), p.docs)
<1>1. Sketch(p, builder, q, n, st) /\ Barred(p, builder, q, scope, n)
  BY Sketched, HashSegments
<1>2. Located(p, n, st)
  <2>1. Placed(T, p.segs, st, n, TokensOf(p)) /\ n \in Nat
    BY <1>1 DEF Formed, Barred
  <2>2. \A k \in 1 .. n : k \in 1 .. n + 1
    BY <2>1
  <2> QED BY <2>1, <2>2 DEF Placed, Located
<1>3. Readable(p.docs, p.user)
  BY DEF Formed
<1> QED BY <1>1, <1>2, <1>3, TruthCumulates

(* What the prompts for the two requests are made of.                      *)
Docs(n) == AuthorizationFilter(asked[n].docs, asked[n].user)
Plan(m, n) == PlanScopes(m, Ids[n], asked[n].user, Truth(Docs(n)))

Made(m, n) ==
  /\ Prompted(Prompt(m, n), setting, m, Ids[n], asked[n].user, asked[n].question)
  /\ Prompt(m, n).docs = Docs(n)
  /\ Range(Docs(n)) \subseteq Range(asked[n].docs) /\ asked[n] \in Requests
  /\ Docs(n) \in Seq(Range(Docs(n))) /\ Len(Docs(n)) \in Nat
  /\ DOMAIN Truth(Docs(n)) = 1 .. Len(Docs(n)) + 2

LEMMA BothMade ==
  ASSUME Arrived, Both, NEW m
  PROVE  Made(m, 1) /\ Made(m, 2)
<1> SUFFICES ASSUME NEW n \in {1, 2} PROVE Made(m, n)
  OBVIOUS
<1>1. n \in DOMAIN asked
  BY DEF Both, Arrived
<1>2. /\ Documents(asked[n].docs)
      /\ Prompted(Prompt(m, n), setting, m, Ids[n], asked[n].user, asked[n].question)
  BY <1>1, ArrivedPrompts
<1>3. asked[n] \in Requests
  BY <1>1 DEF Arrived
<1>4. Prompt(m, n).docs = Docs(n)
  <2>1. Prompt(m, n) = Build(setting, m, Ids[n], asked[n].user, asked[n].question, asked[n].docs)
    BY DEF Prompt
  <2> HIDE DEF Prompt
  <2> QED BY <1>2, <2>1, BuildForms DEF Docs
<1>5. Readable(Docs(n), asked[n].user) /\ Range(Docs(n)) \subseteq Range(asked[n].docs)
  BY <1>2, KeptReadable DEF Docs
<1>6. Docs(n) \in Seq(Range(Docs(n))) /\ Len(Docs(n)) \in Nat
  BY <1>5 DEF Readable
<1>7. DOMAIN Truth(Docs(n)) = 1 .. Len(Docs(n)) + 2
  <2> DEFINE d == Docs(n)
             t == Truth(d)
             l == Len(d)
  <2>1. Readable(d, asked[n].user) /\ l = Len(d) /\ t = Truth(d)
    BY <1>5
  <2> HIDE DEF d, t, l
  <2>2. t \in [1 .. l + 2 -> Canonical]
    BY <2>1, TruthExact
  <2>3. DOMAIN t = 1 .. l + 2
    BY <2>2
  <2> QED BY <2>3 DEF d, t, l
<1> QED BY <1>2, <1>3, <1>4, <1>5, <1>6, <1>7 DEF Made

LEMMA CorpusTells ==
  ASSUME NEW r \in Requests, NEW s \in Requests, NEW docs1, NEW docs2,
         docs1 \in Seq(Range(docs1)), Range(docs1) \subseteq Range(r.docs),
         docs2 \in Seq(Range(docs2)), Range(docs2) \subseteq Range(s.docs)
  PROVE  NamesTell(docs1, docs2) /\ \A k \in 1 .. Len(docs1) : docs1[k].len >= 1
<1>1. \A k \in 1 .. Len(docs1) : docs1[k] \in Range(r.docs)
  OBVIOUS
<1>2. \A k \in 1 .. Len(docs2) : docs2[k] \in Range(s.docs)
  OBVIOUS
<1>3. \A d \in Range(r.docs), c \in Range(s.docs) : d.id = c.id => d = c
  BY CorpusAssumption
<1>4. \A d \in Range(r.docs) : d.len >= 1
  BY CorpusAssumption
<1> QED BY <1>1, <1>2, <1>3, <1>4 DEF NamesTell

Akin(m) ==
  \E n1, n2, st1, st2 :
    /\ Kin(Prompt(m, 1), Prompt(m, 2), setting, asked[1].question, asked[2].question,
           Plan(m, 1), Plan(m, 2), n1, n2, st1, st2)
    /\ n1 = Len(Docs(1)) + 2 /\ n2 = Len(Docs(2)) + 2

LEMMA BothAkin ==
  ASSUME Arrived, Both, Aligned, NEW m
  PROVE  Akin(m)
<1> DEFINE p1 == Prompt(m, 1)
           p2 == Prompt(m, 2)
           d1 == Docs(1)
           d2 == Docs(2)
           q1 == asked[1].question
           q2 == asked[2].question
<1>1. Made(m, 1) /\ Made(m, 2)
  BY BothMade
<1>2. /\ Prompted(p1, setting, m, Ids[1], asked[1].user, q1) /\ p1.docs = d1
      /\ Prompted(p2, setting, m, Ids[2], asked[2].user, q2) /\ p2.docs = d2
  BY <1>1 DEF Made
<1>3. setting.scopeMode = "hash" /\ setting.align
  BY DEF Aligned, InSalt
<1>4. NamesTell(d1, d2) /\ \A k \in 1 .. Len(d1) : d1[k].len >= 1
  BY <1>1, CorpusTells DEF Made
<1>5. \A k \in 1 .. Len(d2) : d2[k].len >= 1
  BY <1>1, CorpusTells DEF Made
<1> HIDE DEF p1, p2, d1, d2, q1, q2
<1>6. PICK n1, e1, st1, T1 : Formed(p1, setting, q1, Plan(m, 1), n1, e1, st1, T1)
  BY <1>2 DEF Prompted, Plan, d1
<1>7. PICK n2, e2, st2, T2 : Formed(p2, setting, q2, Plan(m, 2), n2, e2, st2, T2)
  BY <1>2 DEF Prompted, Plan, d2
<1>8. /\ Sketch(p1, setting, q1, n1, st1) /\ Barred(p1, setting, q1, Plan(m, 1), n1) /\ Located(p1, n1, st1)
      /\ Cumulates(Truth(p1.docs), p1.docs)
  BY <1>2, <1>3, <1>4, <1>6, OneKin
<1>9. /\ Sketch(p2, setting, q2, n2, st2) /\ Barred(p2, setting, q2, Plan(m, 2), n2) /\ Located(p2, n2, st2)
      /\ Cumulates(Truth(p2.docs), p2.docs)
  BY <1>2, <1>3, <1>5, <1>7, OneKin
<1>10. Kin(p1, p2, setting, q1, q2, Plan(m, 1), Plan(m, 2), n1, n2, st1, st2)
  BY <1>2, <1>4, <1>8, <1>9 DEF Kin
<1>11. n1 = Len(d1) + 2 /\ n2 = Len(d2) + 2
  BY <1>2, <1>8, <1>9 DEF Barred
<1> QED BY <1>10, <1>11 DEF Akin, p1, p2, d1, d2, q1, q2

(* The blocks in which the texts of the two prompts are the same.          *)
SameBlocks(m) ==
  {i \in Nat : /\ i \in DOMAIN Hashes(Prompt(m, 1)) /\ i \in DOMAIN Hashes(Prompt(m, 2))
               /\ SameText(TokensOf(Prompt(m, 1)), TokensOf(Prompt(m, 2)), i)}

LEMMA SharedIs ==
  ASSUME Arrived, Both, NEW m
  PROVE  Shared(m) = {i \in SameBlocks(m) : SameKeys(Prompt(m, 1).segs, TRUE, Prompt(m, 2).segs, TRUE, i)}
<1> DEFINE p1 == Prompt(m, 1)
           p2 == Prompt(m, 2)
           h1 == Hashes(p1)
           h2 == Hashes(p2)
<1>1. Made(m, 1) /\ Made(m, 2)
  BY BothMade
<1>2. /\ p1.scoped = TRUE /\ Chained(h1, TokensOf(p1), p1.segs, TRUE)
      /\ p2.scoped = TRUE /\ Chained(h2, TokensOf(p2), p2.segs, TRUE)
  <2>1. ASSUME NEW n \in {1, 2}
        PROVE  Prompt(m, n).scoped = TRUE /\ Chained(Hashes(Prompt(m, n)), TokensOf(Prompt(m, n)), Prompt(m, n).segs, TRUE)
    <3> DEFINE p == Prompt(m, n)
    <3>1. Prompted(p, setting, m, Ids[n], asked[n].user, asked[n].question)
      BY <1>1 DEF Made
    <3> HIDE DEF p
    <3>2. p.scoped = TRUE /\ Chained(BlockHashes(p.segs, TRUE), TokensOf(p), p.segs, TRUE)
      BY <3>1 DEF Prompted, Formed
    <3> QED BY <3>2 DEF Hashes, p
  <2> QED BY <2>1
<1>3. Shared(m) = {i \in DOMAIN h1 \cap DOMAIN h2 : h1[i] = h2[i]}
  BY DEF Shared
<1>4. SameBlocks(m) = {i \in Nat : i \in DOMAIN h1 /\ i \in DOMAIN h2 /\ SameText(TokensOf(p1), TokensOf(p2), i)}
  BY DEF SameBlocks
<1> HIDE DEF p1, p2
<1>5. \A i : i \in DOMAIN h1 /\ i \in DOMAIN h2 =>
        (h1[i] = h2[i] <=> SameText(TokensOf(p1), TokensOf(p2), i) /\ SameKeys(p1.segs, TRUE, p2.segs, TRUE, i))
  BY <1>2, SharedHash
<1>6. \A i \in DOMAIN h1 : i \in Nat
  BY <1>2 DEF Chained
<1> HIDE DEF h1, h2
<1> QED BY <1>3, <1>4, <1>5, <1>6 DEF p1, p2

(* The text of a prompt with barriers in the salt does not depend on the   *)
(* caching mode.                                                           *)
LEMMA SameBlocksInModes ==
  ASSUME Arrived, Both, Aligned, NEW m, NEW k
  PROVE  SameBlocks(m) = SameBlocks(k)
<1>1. ASSUME NEW n \in {1, 2}
      PROVE  TokensOf(Prompt(m, n)) = TokensOf(Prompt(k, n)) /\ DOMAIN Hashes(Prompt(m, n)) = DOMAIN Hashes(Prompt(k, n))
  <2> DEFINE p == Prompt(m, n)
             r == Prompt(k, n)
             q == asked[n].question
  <2>1. /\ Prompted(p, setting, m, Ids[n], asked[n].user, q) /\ p.docs = Docs(n)
        /\ Prompted(r, setting, k, Ids[n], asked[n].user, q) /\ r.docs = Docs(n)
    <3>1. Made(m, n) /\ Made(k, n)
      BY BothMade
    <3> QED BY <3>1 DEF Made
  <2>2. setting.scopeMode = "hash"
    BY DEF Aligned, InSalt
  <2> HIDE DEF p, r, q
  <2>3. PICK n1, e1, st1, T1 : Formed(p, setting, q, PlanScopes(m, Ids[n], asked[n].user, Truth(p.docs)), n1, e1, st1, T1)
    BY <2>1 DEF Prompted
  <2>4. PICK n2, e2, st2, T2 : Formed(r, setting, q, PlanScopes(k, Ids[n], asked[n].user, Truth(r.docs)), n2, e2, st2, T2)
    BY <2>1 DEF Prompted
  <2>5. n1 = Len(Docs(n)) + 2 /\ DOMAIN p.segs = 1 .. n1 /\ \A j \in 1 .. n1 : p.segs[j].tokens = SegmentTokens(setting, Docs(n), q, j)
    BY <2>1, <2>2, <2>3, HashSegments DEF Barred
  <2>6. n2 = Len(Docs(n)) + 2 /\ DOMAIN r.segs = 1 .. n2 /\ \A j \in 1 .. n2 : r.segs[j].tokens = SegmentTokens(setting, Docs(n), q, j)
    BY <2>1, <2>2, <2>4, HashSegments DEF Barred
  <2>7. [j \in DOMAIN p.segs |-> p.segs[j].tokens] = [j \in DOMAIN r.segs |-> r.segs[j].tokens]
    BY <2>5, <2>6
  <2>8. TokensOf(p) = TokensOf(r)
    BY <2>7 DEF TokensOf
  <2>9. /\ Chained(Hashes(p), TokensOf(p), p.segs, p.scoped)
        /\ Chained(Hashes(r), TokensOf(r), r.segs, r.scoped)
    BY <2>3, <2>4 DEF Formed, Hashes
  <2>10. DOMAIN Hashes(p) = DOMAIN Hashes(r)
    BY <2>8, <2>9 DEF Chained
  <2> QED BY <2>8, <2>10 DEF p, r
<1>2. /\ TokensOf(Prompt(m, 1)) = TokensOf(Prompt(k, 1)) /\ DOMAIN Hashes(Prompt(m, 1)) = DOMAIN Hashes(Prompt(k, 1))
      /\ TokensOf(Prompt(m, 2)) = TokensOf(Prompt(k, 2)) /\ DOMAIN Hashes(Prompt(m, 2)) = DOMAIN Hashes(Prompt(k, 2))
  BY <1>1
<1> QED BY <1>2 DEF SameBlocks

(* A caching mode whose scopes follow from the documents, or whose prompts *)
(* are of one user, shares whatever the text permits.                      *)
LEMMA FreelyShared ==
  ASSUME Arrived, Both, Aligned, NEW m \in {"global", "acl_scope", "two_level"},
         m = "two_level" => asked[1].user = asked[2].user
  PROVE  Shared(m) = SameBlocks(m)
<1> DEFINE p1 == Prompt(m, 1)
           p2 == Prompt(m, 2)
           q1 == asked[1].question
           q2 == asked[2].question
           d1 == Docs(1)
           d2 == Docs(2)
<1>1. Akin(m)
  BY BothAkin
<1>2. PICK n1, n2, st1, st2 :
        /\ Kin(p1, p2, setting, q1, q2, Plan(m, 1), Plan(m, 2), n1, n2, st1, st2)
        /\ n1 = Len(d1) + 2 /\ n2 = Len(d2) + 2
  BY <1>1 DEF Akin
<1>3. /\ p1.docs = d1 /\ DOMAIN Truth(d1) = 1 .. n1
      /\ p2.docs = d2 /\ DOMAIN Truth(d2) = 1 .. n2
  <2>1. Made(m, 1) /\ Made(m, 2)
    BY BothMade
  <2> QED BY <1>2, <2>1 DEF Made
<1> HIDE DEF p1, p2, q1, q2, d1, d2
<1>4. /\ Plan(m, 1) = PlanScopes(m, Ids[1], asked[1].user, Truth(p1.docs))
      /\ Plan(m, 2) = PlanScopes(m, Ids[2], asked[2].user, Truth(p2.docs))
  BY <1>3 DEF Plan, d1, d2
<1>5. ASSUME NEW i \in Nat, SameText(TokensOf(p1), TokensOf(p2), i)
      PROVE  SameKeys(p1.segs, TRUE, p2.segs, TRUE, i)
  <2>1. DOMAIN Truth(p1.docs) = 1 .. n1 /\ DOMAIN Truth(p2.docs) = 1 .. n2
    BY <1>3
  <2>2. ScopesAgree(Plan(m, 1), Plan(m, 2), n1, st1, i)
    BY <1>2, <1>4, <1>5, <2>1, PlansAgree
  <2> QED BY <1>2, <1>5, <2>2, TextDecides
<1>6. Shared(m) = {i \in SameBlocks(m) : SameKeys(p1.segs, TRUE, p2.segs, TRUE, i)}
  BY SharedIs DEF p1, p2
<1>7. \A i \in SameBlocks(m) : i \in Nat /\ SameText(TokensOf(p1), TokensOf(p2), i)
  BY DEF SameBlocks, p1, p2
<1> QED BY <1>5, <1>6, <1>7

LEMMA SharedText ==
  ASSUME Arrived, Both, NEW m
  PROVE  Shared(m) \subseteq SameBlocks(m)
BY SharedIs

(* ACL scopes cost nothing: between authorized users they share every      *)
(* block that unrestricted sharing would.                                  *)
THEOREM ScopesCostNothing == Spec => []ScopingIsFree
<1>1. Arrived => ScopingIsFree
  <2> SUFFICES ASSUME Arrived, Both, Aligned PROVE Shared("acl_scope") = Shared("global")
    BY DEF ScopingIsFree
  <2>1. Shared("acl_scope") = SameBlocks("acl_scope") /\ Shared("global") = SameBlocks("global")
    BY FreelyShared
  <2>2. SameBlocks("acl_scope") = SameBlocks("global")
    BY SameBlocksInModes
  <2> QED BY <2>1, <2>2
<1> QED BY <1>1, ArrivedInvariant, PTL

(* The scope of the first part is among the keys of the first block, so    *)
(* prompts that share a block have it in common.                           *)
LEMMA FirstScopeShared ==
  ASSUME NEW p1, NEW p2, NEW builder, NEW q1, NEW q2, NEW scope1, NEW scope2,
         NEW n1, NEW n2, NEW e1, NEW e2, NEW st1, NEW st2, NEW T1, NEW T2,
         Formed(p1, builder, q1, scope1, n1, e1, st1, T1),
         Formed(p2, builder, q2, scope2, n2, e2, st2, T2),
         builder.scopeMode = "hash", scope1[1] # NoScope,
         NEW i \in DOMAIN Hashes(p2), SameKeys(p1.segs, TRUE, p2.segs, TRUE, i)
  PROVE  Occurs(scope1[1], scope2, n2)
<1>1. Fits(p2, i)
  BY SharedContent
<1>2. 1 \in 1 .. n1 /\ OpensScope(scope1, 1) /\ ~Marked(builder, scope1, 1)
  BY DEF Formed, OpensScope, Marked
<1>3. e1[1] = 1
  <2>1. e1[1] = e1[1 - 1] + 1 /\ e1[0] = 0
    BY <1>2 DEF Formed, Laid
  <2>2. 1 - 1 = 0
    OBVIOUS
  <2> QED BY <2>1, <2>2
<1>4. StartsBy(st1, e1[1], i)
  <2>1. st1[0] = 0
    BY DEF Formed, Placed
  <2>2. 0 < i * BlockSize
    <3>1. i \in Nat \ {0}
      BY <1>1 DEF Fits
    <3>2. 1 * BlockSize <= i * BlockSize /\ i * BlockSize \in Nat /\ 1 * BlockSize = BlockSize
      BY <3>1, BlockAssumption, Multiples
    <3> QED BY <3>2, BlockAssumption
  <2>3. 1 - 1 = 0
    OBVIOUS
  <2> QED BY <1>3, <2>1, <2>2, <2>3 DEF StartsBy
<1>5. StartsWith(scope1[1], scope2, n2, e2, st2, i)
  BY <1>1, <1>2, <1>4, SharedBarrier
<1> QED BY <1>5 DEF Occurs, StartsWith

(* Nothing is shared under nonces, and under per-user scopes only what one *)
(* user asked.                                                             *)
LEMMA OwnScopes ==
  ASSUME Arrived, Both, Aligned, NEW m \in {"none", "per_user"}, NEW i \in Shared(m)
  PROVE  m = "per_user" /\ asked[1].user = asked[2].user
<1> DEFINE p1 == Prompt(m, 1)
           p2 == Prompt(m, 2)
           d1 == Docs(1)
           d2 == Docs(2)
           u1 == asked[1].user
           u2 == asked[2].user
<1>1. /\ Prompted(p1, setting, m, Ids[1], u1, asked[1].question) /\ p1.docs = d1
      /\ Prompted(p2, setting, m, Ids[2], u2, asked[2].question) /\ p2.docs = d2
      /\ DOMAIN Truth(d1) = 1 .. Len(d1) + 2 /\ Len(d1) \in Nat
      /\ DOMAIN Truth(d2) = 1 .. Len(d2) + 2 /\ Len(d2) \in Nat
  <2>1. Made(m, 1) /\ Made(m, 2)
    BY BothMade
  <2> QED BY <2>1 DEF Made
<1>2. i \in DOMAIN Hashes(p2) /\ SameKeys(p1.segs, TRUE, p2.segs, TRUE, i)
  BY SharedIs DEF SameBlocks
<1>3. setting.scopeMode = "hash"
  BY DEF Aligned, InSalt
<1> HIDE DEF p1, p2, d1, d2, u1, u2
<1>4. PICK n1, e1, st1, T1 : Formed(p1, setting, asked[1].question, Plan(m, 1), n1, e1, st1, T1)
  BY <1>1 DEF Prompted, Plan, d1, u1
<1>5. PICK n2, e2, st2, T2 : Formed(p2, setting, asked[2].question, Plan(m, 2), n2, e2, st2, T2)
  BY <1>1 DEF Prompted, Plan, d2, u2
<1>6. n2 = Len(d2) + 2
  BY <1>1, <1>5 DEF Formed
<1>7. 1 \in DOMAIN Truth(d1) /\ \A k \in 1 .. n2 : k \in DOMAIN Truth(d2)
  BY <1>1, <1>6
<1>8. ASSUME Plan(m, 1)[1] # NoScope PROVE Occurs(Plan(m, 1)[1], Plan(m, 2), n2)
  <2> DEFINE scope1 == Plan(m, 1)
             scope2 == Plan(m, 2)
             s      == setting
  <2>1. /\ Formed(p1, s, asked[1].question, scope1, n1, e1, st1, T1)
        /\ Formed(p2, s, asked[2].question, scope2, n2, e2, st2, T2)
        /\ s.scopeMode = "hash" /\ scope1[1] # NoScope
    BY <1>3, <1>4, <1>5, <1>8
  <2> HIDE DEF scope1, scope2, s
  <2>2. Occurs(scope1[1], scope2, n2)
    BY <1>2, <2>1, FirstScopeShared
  <2> QED BY <2>2 DEF scope1, scope2
<1>9. CASE m = "none"
  <2>1. Plan(m, 1)[1] = NonceScope(Ids[1])
    BY <1>7, <1>9 DEF Plan, PlanScopes, d1
  <2>2. \A k \in 1 .. n2 : Plan(m, 2)[k] = NonceScope(Ids[2])
    BY <1>7, <1>9 DEF Plan, PlanScopes, d2
  <2>3. Occurs(Plan(m, 1)[1], Plan(m, 2), n2)
    <3>1. Plan(m, 1)[1] # NoScope
      BY <2>1, ScopeNames
    <3> QED BY <1>8, <3>1
  <2>4. NonceScope(Ids[1]) = NonceScope(Ids[2])
    BY <2>1, <2>2, <2>3 DEF Occurs
  <2>5. Ids[1] = Ids[2]
    BY <2>4, ScopeNames
  <2> QED BY <2>5 DEF Ids
<1>10. CASE m = "per_user"
  <2>1. Plan(m, 1)[1] = UserScope(u1)
    BY <1>7, <1>10 DEF Plan, PlanScopes, d1, u1
  <2>2. \A k \in 1 .. n2 : Plan(m, 2)[k] = UserScope(u2)
    BY <1>7, <1>10 DEF Plan, PlanScopes, d2, u2
  <2>3. Occurs(Plan(m, 1)[1], Plan(m, 2), n2)
    <3>1. Plan(m, 1)[1] # NoScope
      BY <2>1, ScopeNames
    <3> QED BY <1>8, <3>1
  <2>4. UserScope(u1) = UserScope(u2)
    BY <2>1, <2>2, <2>3 DEF Occurs
  <2> QED BY <1>10, <2>4, ScopeNames DEF u1, u2
<1> QED BY <1>9, <1>10

(* Per-user scopes share no more than one private boundary does, and that  *)
(* no more than ACL scopes; nonces share nothing.                          *)
THEOREM ScopesShareMore == Spec => []FinerScopesShareMore
<1>1. Arrived => FinerScopesShareMore
  <2> SUFFICES ASSUME Arrived, Both, Aligned
               PROVE  /\ Shared("none") = {}
                      /\ Shared("per_user") \subseteq Shared("two_level")
                      /\ Shared("two_level") \subseteq Shared("acl_scope")
    BY DEF FinerScopesShareMore
  <2>1. Shared("none") = {}
    <3>1. \A i \in Shared("none") : "none" = "per_user"
      BY OwnScopes
    <3> QED BY <3>1
  <2>2. ASSUME NEW i \in Shared("per_user") PROVE i \in Shared("two_level")
    <3>1. asked[1].user = asked[2].user
      BY <2>2, OwnScopes
    <3>2. Shared("two_level") = SameBlocks("two_level")
      BY <3>1, FreelyShared
    <3>3. i \in SameBlocks("per_user")
      BY <2>2, SharedText
    <3>4. SameBlocks("per_user") = SameBlocks("two_level")
      BY SameBlocksInModes
    <3> QED BY <3>2, <3>3, <3>4
  <2>3. ASSUME NEW i \in Shared("two_level") PROVE i \in Shared("acl_scope")
    <3>1. Shared("acl_scope") = SameBlocks("acl_scope")
      BY FreelyShared
    <3>2. i \in SameBlocks("two_level")
      BY <2>3, SharedText
    <3>3. SameBlocks("two_level") = SameBlocks("acl_scope")
      BY SameBlocksInModes
    <3> QED BY <3>1, <3>2, <3>3
  <2> QED BY <2>1, <2>2, <2>3
<1> QED BY <1>1, ArrivedInvariant, PTL
==============================================================================
