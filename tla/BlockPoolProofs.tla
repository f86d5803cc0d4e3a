-------------------------- MODULE BlockPoolProofs --------------------------
(***************************************************************************)
(* The pool's bookkeeping is right for every pool size, block size, window *)
(* and set of prompts: reference counts, free queue and table agree with   *)
(* the requests in flight, whatever is submitted and drained.              *)
(*                                                                         *)
(* And it implements PrefixCache: its eviction order never takes a prefix  *)
(* from under its continuations, and a hash is cached twice only where the *)
(* hit cap makes a request recompute a cached block.                       *)
(***************************************************************************)
EXTENDS BlockPoolRefines, RagServing, FilteringProofs

(* The inductive invariant.  Admission is sound because the blocks of a    *)
(* request are distinct, the hits are still in the table under the hashes  *)
(* they were looked up by, and drain() runs only while a request is left.  *)
HeldDistinct == \A i \in 1 .. Len(inFlight) : IsInjective(inFlight[i])
HitsBounded  == pc = "admit" => Len(hits) <= MaxHits(req)
DrainBusy    == pc = "drain" => inFlight # <<>>

PoolInv == RefCountExact /\ FreeQueueExact /\ HeldDistinct
IInv    == TypeOK /\ PoolInv /\ TableSound /\ HitsStayCached /\ HitsBounded /\ DrainBusy

-----------------------------------------------------------------------------
(* Sizes.                                                                  *)

(* Integer division is monotone.                                          *)
LEMMA DivMonotone ==
  ASSUME NEW a \in Nat, NEW b \in Nat, NEW d \in Nat, d >= 1, a <= b
  PROVE  a \div d \in Nat /\ a \div d <= b \div d
OBVIOUS

(* The hits leave at least one block to compute, and no prompt has more    *)
(* full blocks than it is given.                                           *)
LEMMA Sizes ==
  ASSUME NEW p \in Prompts
  PROVE  /\ p \in PromptType
         /\ MaxHits(p) \in Nat /\ Len(p.hashes) \in Nat /\ FullBlocks(p) \in Nat /\ BlocksFor(p) \in Nat
         /\ MaxHits(p) <= Len(p.hashes) /\ Len(p.hashes) <= FullBlocks(p)
         /\ FullBlocks(p) <= BlocksFor(p)
<1>1. p \in PromptType /\ p.tokens \in Nat /\ p.tokens >= 1 /\ p.output \in Nat /\ Len(p.hashes) = p.tokens \div BlockSize
  BY PromptAssumption DEF PromptType
<1>2. BlockSize \in Nat /\ BlockSize >= 1
  BY PoolAssumption
<1>3. (p.tokens - 1) \div BlockSize \in Nat /\ (p.tokens - 1) \div BlockSize <= p.tokens \div BlockSize
  BY <1>1, <1>2, DivMonotone
<1>4. /\ p.tokens + p.output \in Nat /\ p.tokens <= p.tokens + p.output
      /\ p.tokens + p.output + BlockSize - 1 \in Nat
      /\ p.tokens + p.output <= p.tokens + p.output + BlockSize - 1
  BY <1>1, <1>2
<1> DEFINE total == p.tokens + p.output
           padded == p.tokens + p.output + BlockSize - 1
<1> HIDE DEF total, padded
<1>5. /\ p.tokens \div BlockSize \in Nat
      /\ p.tokens \div BlockSize <= total \div BlockSize
      /\ total \div BlockSize \in Nat
      /\ total \div BlockSize <= padded \div BlockSize
      /\ padded \div BlockSize \in Nat
  <2>1. total \in Nat /\ padded \in Nat /\ p.tokens <= total /\ total <= padded /\ padded <= padded
    BY <1>4 DEF total, padded
  <2> QED BY <1>1, <1>2, <2>1, DivMonotone
<1> QED BY <1>1, <1>3, <1>5 DEF total, padded, MaxHits, FullBlocks, BlocksFor, TotalTokens, CeilDiv

(* The part of the assumption on hashes that says a hash has one position. *)
LEMMA HashesApart ==
  ASSUME NEW p \in Prompts, NEW i \in DOMAIN p.hashes, NEW j \in DOMAIN p.hashes,
         p.hashes[i] = p.hashes[j]
  PROVE  i = j
<1>1. \A r, q \in Prompts : \A k \in DOMAIN r.hashes, l \in DOMAIN q.hashes :
        r.hashes[k] = q.hashes[l] => k = l /\ (k > 1 => r.hashes[k - 1] = q.hashes[l - 1])
  BY HashAssumption
<1>2. \A k \in DOMAIN p.hashes, l \in DOMAIN p.hashes : p.hashes[k] = p.hashes[l] => k = l
  BY <1>1
<1> QED BY <1>2

(* Every block of a prompt that is registered has a hash.                  *)
LEMMA KeysAreHashes ==
  ASSUME NEW p \in Prompts, NEW k \in 1 .. FullBlocks(p)
  PROVE  KeyAt(p, k) \in Hash /\ KeyAt(p, k) # NoHash
<1>1. Len(p.hashes) \in Nat /\ FullBlocks(p) \in Nat /\ p.hashes \in Seq(PromptHash)
  BY Sizes DEF PromptType
<1>2. CASE k <= Len(p.hashes)
  <2>1. p.hashes[k] \in PromptHash
    BY <1>1, <1>2, ElementOfSeq
  <2> QED BY <1>2, <2>1, HashAssumption DEF KeyAt, Hash
<1>3. CASE ~(k <= Len(p.hashes))
  <2>1. k \in DecodeBlocks(p)
    BY <1>1, <1>3 DEF DecodeBlocks
  <2>2. OutHash(p.id, k) # NoHash
    BY DEF OutHash, NoHash
  <2> QED BY <1>3, <2>1, <2>2 DEF KeyAt, Hash
<1> QED BY <1>2, <1>3

-----------------------------------------------------------------------------
(* Lookup.                                                                 *)

(* The lookup stops at the first hash that is not cached, or at its cap.   *)
LEMMA HitLengthIs ==
  ASSUME PoolTypeOK, NEW p \in Prompts
  PROVE  /\ HitLength(p) \in 0 .. MaxHits(p)
         /\ \A k \in 1 .. HitLength(p) : /\ p.hashes[k] \in Hash
                                         /\ table[p.hashes[k]] \in Block
         /\ HitLength(p) < MaxHits(p) => table[p.hashes[HitLength(p) + 1]] = NoBlock
<1> DEFINE m == MaxHits(p)
           seen == [k \in 1 .. m |-> table[p.hashes[k]]]
           Stops(n) == /\ \A k \in 1 .. n : table[p.hashes[k]] # NoBlock
                       /\ n < m => table[p.hashes[n + 1]] = NoBlock
<1>1. m \in Nat /\ Len(p.hashes) \in Nat /\ m <= Len(p.hashes) /\ p.hashes \in Seq(PromptHash)
  BY Sizes DEF PromptType
<1> HIDE DEF m
<1>2. \A k \in 1 .. m : p.hashes[k] \in Hash
  <2>1. \A k \in 1 .. Len(p.hashes) : p.hashes[k] \in PromptHash
    BY <1>1, ElementOfSeq
  <2> QED BY <1>1, <2>1 DEF Hash
<1>3. \A k \in 1 .. m : table[p.hashes[k]] \in Block \cup {NoBlock}
  BY <1>2 DEF PoolTypeOK
<1>4. seen \in Seq(Block \cup {NoBlock}) /\ Len(seen) = m
  <2>1. seen \in [1 .. m -> Block \cup {NoBlock}]
    BY <1>3
  <2> QED BY <1>1, <2>1, SeqDef, LenProperties
<1>5. \E n \in 0 .. m : Stops(n)
  <2>1. CASE KeptAt(seen, {NoBlock}) = {}
    <3>1. \A k \in 1 .. m : table[p.hashes[k]] # NoBlock
      BY <1>4, <2>1 DEF KeptAt
    <3> QED BY <1>1, <3>1
  <2>2. CASE KeptAt(seen, {NoBlock}) # {}
    <3>1. PICK i \in 1 .. m : seen[i] \in {NoBlock} /\ \A j \in 1 .. i - 1 : seen[j] \notin {NoBlock}
      BY <1>4, <2>2, FirstKept
    <3>2. i - 1 \in 0 .. m /\ \A j \in 1 .. i - 1 : j \in 1 .. m
      BY <1>1
    <3>3. i - 1 + 1 = i /\ table[p.hashes[i]] = NoBlock
      BY <1>1, <3>1
    <3>4. \A j \in 1 .. i - 1 : table[p.hashes[j]] # NoBlock
      BY <3>1, <3>2
    <3>5. Stops(i - 1)
      BY <3>3, <3>4
    <3> QED BY <3>2, <3>5
  <2> QED BY <2>1, <2>2
<1>6. HitLength(p) \in 0 .. m /\ Stops(HitLength(p))
  BY <1>5 DEF HitLength, m
<1>7. \A k \in 1 .. HitLength(p) : k \in 1 .. m
  BY <1>1, <1>6
<1> QED BY <1>2, <1>3, <1>6, <1>7 DEF m

-----------------------------------------------------------------------------
(* Blocks and the requests that hold them.                                 *)

(* The lists of blocks that contain b; a block's holders are the positions *)
(* of such lists in the window.                                            *)
With(b) == {bids \in Seq(Block) : b \in Range(bids)}

(* The requests that hold b are the positions of those lists kept by a     *)
(* filter, so that what Filtering proves of KeptAt applies to them.        *)
LEMMA HoldersAreKept ==
  ASSUME NEW lists \in Seq(Seq(Block)), NEW b
  PROVE  {i \in 1 .. Len(lists) : b \in Range(lists[i])} = KeptAt(lists, With(b))
<1>1. \A i \in 1 .. Len(lists) : lists[i] \in Seq(Block)
  BY ElementOfSeq
<1> QED BY <1>1 DEF KeptAt, With

(* The pool has NumBlocks blocks.                                          *)
LEMMA BlocksFinite == IsFiniteSet(Block) /\ Cardinality(Block) = NumBlocks
<1>1. NumBlocks \in Nat /\ NumBlocks >= 2 /\ NumBlocks - 1 \in Int
  BY PoolAssumption
<1> QED BY <1>1, FS_Interval DEF Block

(* Retiring the oldest request frees exactly the blocks that it held alone.*)
LEMMA RetireKeeps ==
  ASSUME PoolTypeOK, PoolInv, inFlight # <<>>, RetireOldest
  PROVE  PoolTypeOK' /\ PoolInv'
<1> DEFINE bids  == Head(inFlight)
           freed == {b \in Range(bids) : ref[b] = 1}
           blank == {b \in freed : hash[b] = NoHash}
           f1    == Filtered(ReleaseOrder(bids), blank)
           f2    == Filtered(ReleaseOrder(bids), freed \ blank)
<1>1. /\ bids \in Seq(Block) /\ IsInjective(bids) /\ bids = inFlight[1]
      /\ Tail(inFlight) \in Seq(Seq(Block)) /\ Len(Tail(inFlight)) = Len(inFlight) - 1
      /\ \A i \in 1 .. Len(Tail(inFlight)) : Tail(inFlight)[i] = inFlight[i + 1]
      /\ Len(inFlight) \in Nat \ {0}
  <2>1. inFlight \in Seq(Seq(Block))
    BY DEF PoolTypeOK
  <2>2. /\ Len(inFlight) \in Nat \ {0} /\ bids \in Seq(Block) /\ bids = inFlight[1]
        /\ Tail(inFlight) \in Seq(Seq(Block)) /\ Len(Tail(inFlight)) = Len(inFlight) - 1
        /\ \A i \in 1 .. Len(Tail(inFlight)) : Tail(inFlight)[i] = inFlight[i + 1]
    BY <2>1, HeadTailProperties, EmptySeq
  <2> QED BY <2>2 DEF PoolInv, HeldDistinct
<1>2. /\ ref' = [b \in Block |-> IF b \in Range(bids) THEN ref[b] - 1 ELSE ref[b]]
      /\ free' = f1 \o free \o f2
      /\ inFlight' = Tail(inFlight)
      /\ UNCHANGED <<hash, audience, fromProbe, table>>
  BY DEF RetireOldest
<1>3. Range(bids) \subseteq Block
  BY <1>1, RangeOfSeq
<1>4. ASSUME NEW b \in Block
      PROVE  /\ Cardinality(Holders(b)) \in Nat /\ Cardinality(Holders(b)') \in Nat
             /\ Cardinality(Holders(b)) = Cardinality(Holders(b)') + (IF b \in Range(bids) THEN 1 ELSE 0)
  <2>1. Holders(b) = KeptAt(inFlight, With(b)) /\ inFlight \in Seq(Seq(Block))
    BY HoldersAreKept DEF Holders, PoolTypeOK
  <2>2. Holders(b)' = KeptAt(Tail(inFlight), With(b))
    BY <1>1, <1>2, HoldersAreKept DEF Holders
  <2>3. Head(inFlight) \in With(b) <=> b \in Range(bids)
    BY <1>1 DEF With
  <2> QED BY <2>1, <2>2, <2>3, KeptOfTail
<1>5. /\ \A b \in Range(bids) : ref[b] \in Nat /\ ref[b] >= 1
      /\ ref' \in [Block -> Nat]
      /\ RefCountExact'
  <2>1. ref \in [Block -> Nat] /\ \A b \in Block : ref[b] = Cardinality(Holders(b))
    BY DEF PoolTypeOK, PoolInv, RefCountExact
  <2>2. \A b \in Block : /\ b \in Range(bids) => ref[b] >= 1
                         /\ ref'[b] = Cardinality(Holders(b)')
    BY <1>2, <1>4, <2>1
  <2>3. \A b \in Range(bids) : ref[b] \in Nat /\ ref[b] >= 1
    BY <1>3, <2>1, <2>2
  <2>4. ref' \in [Block -> Nat]
    BY <1>2, <1>3, <2>1, <2>3
  <2> QED BY <2>2, <2>3, <2>4 DEF RefCountExact
<1> HIDE DEF freed
<1>6. /\ ReleaseOrder(bids) \in Seq(Block) /\ IsInjective(ReleaseOrder(bids))
      /\ Range(ReleaseOrder(bids)) = Range(bids)
  BY <1>1, BackwardsKeeps DEF ReleaseOrder
<1> HIDE DEF bids, blank
<1>7. freed \subseteq Range(bids) /\ blank \subseteq freed /\ \A b \in freed : ref[b] = 1
  BY DEF freed, blank
<1>8. /\ f1 \in Seq(Block) /\ IsInjective(f1) /\ Range(f1) = blank
      /\ f2 \in Seq(Block) /\ IsInjective(f2) /\ Range(f2) = freed \ blank
  <2>1. /\ f1 \in Seq(Block) /\ IsInjective(f1)
        /\ Range(f1) = Range(ReleaseOrder(bids)) \cap blank
    BY <1>6, FilteredKeeps
  <2>2. /\ f2 \in Seq(Block) /\ IsInjective(f2)
        /\ Range(f2) = Range(ReleaseOrder(bids)) \cap (freed \ blank)
    BY <1>6, FilteredKeeps
  <2> QED BY <1>6, <1>7, <2>1, <2>2
<1> HIDE DEF f1, f2
<1>9. /\ free \in Seq(Block) /\ IsInjective(free) /\ Range(free) = {b \in Block : ref[b] = 0}
  BY DEF PoolTypeOK, PoolInv, FreeQueueExact
<1>10. /\ f1 \o free \in Seq(Block) /\ IsInjective(f1 \o free)
       /\ Range(f1 \o free) = blank \cup Range(free)
  <2>1. Range(f1) \cap Range(free) = {}
    BY <1>7, <1>8, <1>9
  <2> QED BY <1>8, <1>9, <2>1, ConcatDistinct
<1>11. /\ free' \in Seq(Block) /\ IsInjective(free')
       /\ Range(free') = freed \cup Range(free)
  <2>1. Range(f1 \o free) \cap Range(f2) = {}
    BY <1>7, <1>8, <1>9, <1>10
  <2> DEFINE front == f1 \o free
  <2> HIDE DEF front
  <2>2. /\ front \in Seq(Block) /\ IsInjective(front) /\ Range(front) \cap Range(f2) = {}
    BY <1>10, <2>1 DEF front
  <2>3. /\ front \o f2 \in Seq(Block) /\ IsInjective(front \o f2)
        /\ Range(front \o f2) = Range(front) \cup Range(f2)
    BY <1>8, <2>2, ConcatDistinct
  <2> USE DEF front
  <2> QED BY <1>2, <1>7, <1>8, <1>10, <2>3
<1>12. freed \cup Range(free) = {b \in Block : ref'[b] = 0}
  <2>1. ref \in [Block -> Nat] /\ ref' = [b \in Block |-> IF b \in Range(bids) THEN ref[b] - 1 ELSE ref[b]]
    BY <1>2 DEF PoolTypeOK
  <2>2. \A b \in Block : ref'[b] = 0 <=> b \in freed \/ ref[b] = 0
    BY <1>3, <1>5, <2>1 DEF freed
  <2>3. freed \subseteq Block
    BY <1>3, <1>7
  <2> QED BY <1>9, <2>2, <2>3
<1>13. HeldDistinct'
  <2>1. \A i \in 1 .. Len(Tail(inFlight)) : i + 1 \in 1 .. Len(inFlight)
    BY <1>1
  <2>2. \A i \in 1 .. Len(inFlight) : IsInjective(inFlight[i])
    BY DEF PoolInv, HeldDistinct
  <2> QED BY <1>1, <1>2, <2>1, <2>2 DEF HeldDistinct
<1>14. PoolTypeOK'
  BY <1>1, <1>2, <1>5, <1>11 DEF PoolTypeOK
<1> QED BY <1>5, <1>11, <1>12, <1>13, <1>14 DEF PoolInv, FreeQueueExact

-----------------------------------------------------------------------------
(* Admission.                                                              *)

Idle == {b \in Block : ref[b] = 0}

(* The hits are distinct blocks: equal blocks would be registered under    *)
(* equal hashes, and a hash belongs to one position of a prompt.           *)
LEMMA HitsDistinct ==
  ASSUME TypeOK, TableSound, HitsStayCached, HitsBounded, pc = "admit"
  PROVE  /\ req \in Prompts /\ Len(hits) \in Nat /\ Len(hits) <= Len(req.hashes)
         /\ IsInjective(hits) /\ Range(hits) \subseteq Block
         /\ Need \in Nat /\ Len(hits) + Need = BlocksFor(req)
<1>1. req \in Prompts /\ hits \in Seq(Block)
  BY NoReqAssumption DEF TypeOK, CallTypeOK
<1>2. /\ MaxHits(req) \in Nat /\ Len(req.hashes) \in Nat /\ FullBlocks(req) \in Nat /\ BlocksFor(req) \in Nat
      /\ MaxHits(req) <= Len(req.hashes) /\ Len(req.hashes) <= FullBlocks(req)
      /\ FullBlocks(req) <= BlocksFor(req)
      /\ req.hashes \in Seq(PromptHash)
  BY <1>1, Sizes DEF PromptType
<1>3. Len(hits) \in Nat /\ DOMAIN hits = 1 .. Len(hits) /\ \A k \in 1 .. Len(hits) : hits[k] \in Block
  BY <1>1, LenProperties, ElementOfSeq
<1>4. Len(hits) <= Len(req.hashes)
  BY <1>2, <1>3 DEF HitsBounded
<1>5. DOMAIN req.hashes = 1 .. Len(req.hashes) /\ \A k \in 1 .. Len(hits) : k \in 1 .. Len(req.hashes)
  BY <1>2, <1>3, <1>4, LenProperties
<1>6. \A b \in Block : b # NoBlock
  BY PoolAssumption DEF Block, NoBlock
<1>7. ASSUME NEW k \in 1 .. Len(hits) PROVE hash[hits[k]] = req.hashes[k]
  <2>1. req.hashes[k] \in Hash
    <3>1. req.hashes[k] \in PromptHash
      BY <1>2, <1>5, ElementOfSeq
    <3> QED BY <3>1 DEF Hash
  <2>2. table[req.hashes[k]] = hits[k] /\ hits[k] # NoBlock
    BY <1>3, <1>6 DEF HitsStayCached
  <2> QED BY <2>1, <2>2 DEF TableSound
<1>8. IsInjective(hits)
  <2>1. ASSUME NEW i \in 1 .. Len(hits), NEW j \in 1 .. Len(hits), hits[i] = hits[j] PROVE i = j
    <3>1. req.hashes[i] = req.hashes[j]
      BY <1>7, <2>1
    <3>2. i \in DOMAIN req.hashes /\ j \in DOMAIN req.hashes
      BY <1>5
    <3> QED BY <1>1, <3>1, <3>2, HashesApart
  <2> QED BY <1>3, <2>1 DEF IsInjective
<1> QED BY <1>1, <1>2, <1>3, <1>4, <1>8, RangeOfSeq DEF Need

(* What the stall loop's test guarantees: the queue, once the hits have    *)
(* left it, is long enough.                                                *)
LEMMA UntouchedIs ==
  ASSUME TypeOK, PoolInv, TableSound, HitsStayCached, HitsBounded, pc = "admit"
  PROVE  /\ Untouched \in Seq(Block) /\ IsInjective(Untouched)
         /\ Range(Untouched) = Idle \ Range(hits)
         /\ Len(Untouched) \in Nat
         /\ Len(free) - EvictableHits = Len(Untouched)
<1>1. IsInjective(hits) /\ Range(hits) \subseteq Block /\ hits \in Seq(Block)
  BY HitsDistinct DEF TypeOK, CallTypeOK
<1>2. free \in Seq(Block) /\ IsInjective(free) /\ Range(free) = Idle
  BY DEF TypeOK, PoolTypeOK, PoolInv, FreeQueueExact, Idle
<1>3. Range(free) \cap (Block \ Range(hits)) = Idle \ Range(hits)
  BY <1>2 DEF Idle
<1>4. /\ Untouched \in Seq(Block) /\ IsInjective(Untouched)
      /\ Range(Untouched) = Idle \ Range(hits)
  BY <1>2, <1>3, FilteredKeeps DEF Untouched
<1>5. Len(Untouched) = Cardinality(Idle \ Range(hits)) /\ Len(Untouched) \in Nat
  BY <1>4, DistinctLength, LenProperties
<1>6. IsFiniteSet(Idle) /\ Cardinality(Idle) = Len(free)
  BY <1>2, DistinctLength
<1>7. EvictableHits = Cardinality(Range(hits) \cap Idle)
  <2>1. {k \in DOMAIN hits : ref[hits[k]] = 0} = KeptAt(hits, Idle)
    <3>1. DOMAIN hits = 1 .. Len(hits) /\ \A k \in 1 .. Len(hits) : hits[k] \in Block
      BY <1>1, LenProperties, ElementOfSeq
    <3> QED BY <3>1 DEF KeptAt, Idle
  <2>2. Cardinality(KeptAt(hits, Idle)) = Cardinality(Range(hits) \cap Idle)
    BY <1>1, DistinctCount
  <2> QED BY <2>1, <2>2 DEF EvictableHits
<1>8. Cardinality(Idle \ Range(hits)) = Cardinality(Idle) - Cardinality(Idle \cap Range(hits))
  BY <1>6, FS_Difference
<1>9. Idle \cap Range(hits) = Range(hits) \cap Idle /\ Cardinality(Range(hits) \cap Idle) \in Nat
  <2>1. IsFiniteSet(Range(hits) \cap Idle)
    BY <1>6, FS_Intersection
  <2> QED BY <2>1, FS_CardinalityType
<1>10. Len(free) \in Nat
  BY <1>2, LenProperties
<1> QED BY <1>4, <1>5, <1>6, <1>7, <1>8, <1>9, <1>10

(* The blocks a request is admitted with: its hits, then blocks off the    *)
(* head of the queue, all distinct, the latter unreferenced before.        *)
LEMMA AdmittedBlocks ==
  ASSUME TypeOK, PoolInv, TableSound, HitsStayCached, HitsBounded, pc = "admit", ~Short,
         NEW bids, bids = hits \o SubSeq(Untouched, 1, Need),
         NEW popped, popped = {bids[k] : k \in Len(hits) + 1 .. BlocksFor(req)},
         NEW rest, rest = SubSeq(Untouched, Need + 1, Len(Untouched))
  PROVE  /\ bids \in Seq(Block) /\ IsInjective(bids) /\ DOMAIN bids = 1 .. BlocksFor(req)
         /\ Range(bids) = Range(hits) \cup popped
         /\ popped \subseteq Idle /\ popped \cap Range(hits) = {}
         /\ rest \in Seq(Block) /\ IsInjective(rest)
         /\ Range(rest) = Idle \ Range(bids)
<1> DEFINE taken == SubSeq(Untouched, 1, Need)
<1>1. /\ req \in Prompts /\ Len(hits) \in Nat /\ IsInjective(hits) /\ Range(hits) \subseteq Block
      /\ Need \in Nat /\ Len(hits) + Need = BlocksFor(req)
      /\ hits \in Seq(Block) /\ DOMAIN hits = 1 .. Len(hits)
  BY HitsDistinct, LenProperties DEF TypeOK, CallTypeOK
<1>2. /\ Untouched \in Seq(Block) /\ IsInjective(Untouched)
      /\ Range(Untouched) = Idle \ Range(hits) /\ Len(Untouched) \in Nat
      /\ Need <= Len(Untouched)
  <2>1. Len(free) - EvictableHits = Len(Untouched) /\ Len(Untouched) \in Nat
    BY UntouchedIs
  <2>2. ~(Len(Untouched) < Need)
    BY <2>1 DEF Short
  <2> QED BY <1>1, <2>1, <2>2, UntouchedIs
<1>3. /\ taken \in Seq(Block) /\ Len(taken) = Need /\ IsInjective(taken)
      /\ rest \in Seq(Block) /\ IsInjective(rest)
      /\ Range(taken) \subseteq Range(Untouched)
      /\ Range(rest) = Range(Untouched) \ Range(taken)
  <2>1. Need \in 0 .. Len(Untouched)
    BY <1>1, <1>2
  <2>2. Untouched \in Seq(Block) /\ IsInjective(Untouched)
    BY <1>2
  <2> QED BY <2>1, <2>2, CutDistinct
<1> HIDE DEF taken
<1>4. bids = hits \o taken
  BY DEF taken
<1>5. /\ bids \in Seq(Block) /\ IsInjective(bids) /\ Range(bids) = Range(hits) \cup Range(taken)
  <2>1. Range(hits) \cap Range(taken) = {}
    BY <1>2, <1>3
  <2>2. hits \in Seq(Block) /\ IsInjective(hits) /\ taken \in Seq(Block) /\ IsInjective(taken)
    BY <1>1, <1>3
  <2>3. /\ hits \o taken \in Seq(Block) /\ IsInjective(hits \o taken)
        /\ Range(hits \o taken) = Range(hits) \cup Range(taken)
    BY <2>1, <2>2, ConcatDistinct
  <2> QED BY <1>4, <2>3
<1>6. /\ DOMAIN bids = 1 .. BlocksFor(req)
      /\ \A k \in 1 .. Len(hits) + Need : bids[k] = IF k <= Len(hits) THEN hits[k] ELSE taken[k - Len(hits)]
  <2>1. /\ Len(bids) = Len(hits) + Len(taken)
        /\ \A k \in 1 .. Len(hits) + Len(taken) :
             bids[k] = IF k <= Len(hits) THEN hits[k] ELSE taken[k - Len(hits)]
    BY <1>1, <1>3, <1>4, ConcatProperties
  <2>2. DOMAIN bids = 1 .. Len(bids)
    BY <1>5, LenProperties
  <2> QED BY <1>1, <1>3, <2>1, <2>2
<1>7. DOMAIN taken = 1 .. Need
  BY <1>3, LenProperties
<1>8. popped = Range(taken)
  <2>1. \A k \in Len(hits) + 1 .. BlocksFor(req) :
          /\ k \in 1 .. Len(hits) + Need /\ ~(k <= Len(hits))
          /\ k - Len(hits) \in 1 .. Need
    BY <1>1
  <2>2. \A k \in Len(hits) + 1 .. BlocksFor(req) : bids[k] \in Range(taken)
    BY <1>6, <1>7, <2>1 DEF Range
  <2>3. ASSUME NEW k \in 1 .. Need PROVE taken[k] \in popped
    <3> DEFINE j == Len(hits) + k
    <3>1. /\ j \in Len(hits) + 1 .. BlocksFor(req) /\ j \in 1 .. Len(hits) + Need
          /\ ~(j <= Len(hits)) /\ j - Len(hits) = k
      BY <1>1
    <3> HIDE DEF j
    <3>2. bids[j] = taken[j - Len(hits)]
      BY <1>6, <3>1
    <3> QED BY <3>1, <3>2
  <2> QED BY <1>7, <2>2, <2>3 DEF Range
<1> QED BY <1>2, <1>3, <1>5, <1>6, <1>8

(* Admission keeps the books: the request is counted on every block it got *)
(* and the table points only at blocks with the right content.             *)
LEMMA AdmitKeeps ==
  ASSUME TypeOK, PoolInv, TableSound, HitsStayCached, HitsBounded, Admit
  PROVE  PoolTypeOK' /\ PoolInv' /\ TableSound' /\ rec' \in [unauthorized : Nat, stalls : Nat, evictions : Nat]
<1> DEFINE n       == Len(hits)
           bids    == hits \o SubSeq(Untouched, 1, Need)
           popped  == {bids[k] : k \in n + 1 .. BlocksFor(req)}
           slot(b) == CHOOSE k \in n + 1 .. BlocksFor(req) : bids[k] = b
           fresh   == {b \in popped : slot(b) <= FullBlocks(req)}
           rest    == SubSeq(Untouched, Need + 1, Len(Untouched))
<1>1. /\ free' = rest
      /\ ref' = RefOnAdmit(popped)
      /\ hash' = [b \in Block |-> IF b \in fresh THEN KeyAt(req, slot(b))
                                  ELSE IF b \in popped THEN NoHash ELSE hash[b]]
      /\ audience' = [b \in Block |->
                        IF b \notin fresh THEN audience[b]
                        ELSE IF slot(b) <= Len(req.hashes) THEN req.audience[slot(b)]
                        ELSE req.final]
      /\ fromProbe' = [b \in Block |-> IF b \in fresh THEN req.probe
                                       ELSE fromProbe[b] /\ (b \in popped => hash[b] = NoHash)]
      /\ table' = AfterRegistration(req, AfterEviction(popped), bids, n)
      /\ inFlight' = Append(inFlight, bids)
      /\ rec' = [rec EXCEPT !.evictions = Cardinality({b \in popped : hash[b] # NoHash})]
      /\ pc = "admit" /\ ~Short
  BY DEF Admit
<1>2. /\ bids \in Seq(Block) /\ IsInjective(bids) /\ DOMAIN bids = 1 .. BlocksFor(req)
      /\ Range(bids) = Range(hits) \cup popped
      /\ popped \subseteq Idle /\ popped \cap Range(hits) = {}
      /\ rest \in Seq(Block) /\ IsInjective(rest)
      /\ Range(rest) = Idle \ Range(bids)
  BY <1>1, AdmittedBlocks
<1>3. req \in Prompts /\ n \in Nat /\ n <= Len(req.hashes)
  BY <1>1, HitsDistinct
<1>4. /\ req \in PromptType
      /\ Len(req.hashes) \in Nat /\ FullBlocks(req) \in Nat /\ BlocksFor(req) \in Nat
      /\ Len(req.hashes) <= FullBlocks(req) /\ FullBlocks(req) <= BlocksFor(req)
  BY <1>3, Sizes
<1>5. \A k \in n + 1 .. BlocksFor(req) : k \in DOMAIN bids /\ bids[k] \in popped
  <2>1. \A k \in n + 1 .. BlocksFor(req) : bids[k] \in popped
    OBVIOUS
  <2>2. DOMAIN bids = 1 .. BlocksFor(req)
    BY <1>2
  <2> HIDE DEF n, bids, popped
  <2>3. \A k \in n + 1 .. BlocksFor(req) : k \in 1 .. BlocksFor(req)
    BY <1>3, <1>4
  <2> QED BY <2>1, <2>2, <2>3
<1>6. \A b \in popped : slot(b) \in n + 1 .. BlocksFor(req) /\ bids[slot(b)] = b
  OBVIOUS
<1> HIDE DEF popped
<1>7. \A k \in n + 1 .. BlocksFor(req) : slot(bids[k]) = k
  BY <1>2, <1>5, <1>6 DEF IsInjective
<1> HIDE DEF bids, slot, rest
<1>8. popped \subseteq Block /\ fresh \subseteq popped
  BY <1>2 DEF Idle
<1>9. \A b \in fresh : slot(b) \in 1 .. FullBlocks(req)
  BY <1>3, <1>4, <1>6
<1>10. PoolTypeOK
  BY DEF TypeOK
<1>11. ref' \in [Block -> Nat]
  BY <1>1, <1>10 DEF PoolTypeOK, RefOnAdmit
<1>12. hash' \in [Block -> Hash \cup {NoHash}]
  <2>1. \A b \in fresh : KeyAt(req, slot(b)) \in Hash
    BY <1>3, <1>9, KeysAreHashes
  <2> QED BY <1>1, <1>10, <2>1 DEF PoolTypeOK
<1>13. audience' \in [Block -> SUBSET Users]
  <2>1. ASSUME NEW b \in fresh, slot(b) <= Len(req.hashes) PROVE req.audience[slot(b)] \in SUBSET Users
    <3>1. slot(b) \in 1 .. Len(req.audience) /\ req.audience \in Seq(SUBSET Users)
      BY <1>3, <1>4, <1>9, <2>1, PromptAssumption DEF PromptType
    <3> QED BY <3>1, ElementOfSeq
  <2>2. req.final \in SUBSET Users
    BY <1>4 DEF PromptType
  <2> QED BY <1>1, <1>10, <2>1, <2>2 DEF PoolTypeOK
<1>14. fromProbe' \in [Block -> BOOLEAN]
  <2>1. req.probe \in BOOLEAN
    BY <1>4 DEF PromptType
  <2> QED BY <1>1, <1>10, <2>1 DEF PoolTypeOK
<1>15. table' \in [Hash -> Block \cup {NoBlock}] /\ TableSound'
  <2> DEFINE new      == n + 1 .. FullBlocks(req)
             tab      == AfterEviction(popped)
             place(h) == CHOOSE k \in new : KeyAt(req, k) = h
             Hit(h)   == \E k \in new : KeyAt(req, k) = h
             Takes(h) == Hit(h) /\ (tab[h] = NoBlock \/ place(h) > Len(req.hashes))
  <2>1. table' = [h \in Hash |-> IF Takes(h) THEN bids[place(h)] ELSE tab[h]]
    BY <1>1 DEF AfterRegistration
  <2>2. \A h \in Hash : Takes(h) => place(h) \in new /\ KeyAt(req, place(h)) = h
    OBVIOUS
  <2>3. tab = [h \in Hash |-> IF table[h] \in popped /\ hash[table[h]] = h THEN NoBlock ELSE table[h]]
    BY DEF AfterEviction
  <2> HIDE DEF tab, place, Takes
  <2>4. ASSUME NEW h \in Hash, Takes(h)
        PROVE  table'[h] \in Block /\ hash'[table'[h]] = h
    <3> DEFINE b == bids[place(h)]
    <3>1. place(h) \in n + 1 .. BlocksFor(req) /\ place(h) <= FullBlocks(req)
      BY <1>3, <1>4, <2>2, <2>4
    <3>2. b \in fresh /\ slot(b) = place(h)
      BY <1>5, <1>7, <3>1
    <3>3. b \in Block /\ hash'[b] = KeyAt(req, place(h))
      BY <1>1, <1>8, <3>2
    <3> QED BY <2>1, <2>2, <2>4, <3>3
  <2>5. ASSUME NEW h \in Hash, ~Takes(h)
        PROVE  /\ table'[h] \in Block \cup {NoBlock}
               /\ table'[h] # NoBlock => hash'[table'[h]] = h
    <3>1. table'[h] = tab[h] /\ (tab[h] = NoBlock \/ tab[h] = table[h])
      BY <2>1, <2>3, <2>5
    <3>2. table[h] \in Block \cup {NoBlock} /\ (table[h] # NoBlock => hash[table[h]] = h)
      BY <1>10 DEF PoolTypeOK, TableSound
    <3>3. tab[h] # NoBlock => table[h] \notin popped
      BY <2>3, <3>1, <3>2
    <3> QED BY <1>1, <1>8, <3>1, <3>2, <3>3
  <2>6. table' \in [Hash -> Block \cup {NoBlock}]
    BY <2>1, <2>4, <2>5
  <2> QED BY <2>4, <2>5, <2>6 DEF TableSound
<1>16. inFlight' \in Seq(Seq(Block)) /\ HeldDistinct'
  <2>1. inFlight \in Seq(Seq(Block)) /\ \A i \in 1 .. Len(inFlight) : IsInjective(inFlight[i])
    BY <1>10 DEF PoolTypeOK, PoolInv, HeldDistinct
  <2>2. /\ inFlight' \in Seq(Seq(Block)) /\ Len(inFlight') = Len(inFlight) + 1
        /\ \A i \in 1 .. Len(inFlight) : inFlight'[i] = inFlight[i]
        /\ inFlight'[Len(inFlight) + 1] = bids /\ Len(inFlight) \in Nat
    BY <1>1, <1>2, <2>1, AppendProperties, LenProperties
  <2>3. \A i \in 1 .. Len(inFlight') : i \in 1 .. Len(inFlight) \/ i = Len(inFlight) + 1
    BY <2>2
  <2> QED BY <1>2, <2>1, <2>2, <2>3 DEF HeldDistinct
<1>17. RefCountExact'
  <2>1. ASSUME NEW b \in Block PROVE ref'[b] = Cardinality(Holders(b)')
    <3>1. Holders(b) = KeptAt(inFlight, With(b)) /\ inFlight \in Seq(Seq(Block))
      BY <1>10, HoldersAreKept DEF Holders, PoolTypeOK
    <3>2. Holders(b)' = KeptAt(Append(inFlight, bids), With(b))
      BY <1>1, <1>16, HoldersAreKept DEF Holders
    <3>3. bids \in With(b) <=> b \in Range(hits) \cup popped
      BY <1>2 DEF With
    <3>4. Cardinality(Holders(b)') = Cardinality(Holders(b)) + (IF bids \in With(b) THEN 1 ELSE 0)
      BY <1>2, <3>1, <3>2, KeptOfAppend
    <3>5. ref[b] = Cardinality(Holders(b)) /\ ref[b] \in Nat
      BY <1>10 DEF PoolInv, RefCountExact, PoolTypeOK
    <3>6. b \in popped => ref[b] = 0 /\ b \notin Range(hits)
      BY <1>2 DEF Idle
    <3>7. ref'[b] = IF b \in popped THEN 1 ELSE IF b \in Range(hits) THEN ref[b] + 1 ELSE ref[b]
      BY <1>1 DEF RefOnAdmit
    <3> QED BY <3>3, <3>4, <3>5, <3>6, <3>7
  <2> QED BY <2>1 DEF RefCountExact
<1>18. free' \in Seq(Block) /\ FreeQueueExact'
  <2>1. ref \in [Block -> Nat]
    BY <1>10 DEF PoolTypeOK
  <2>2. \A b \in Block : ref'[b] = IF b \in popped THEN 1
                                   ELSE IF b \in Range(hits) THEN ref[b] + 1 ELSE ref[b]
    BY <1>1 DEF RefOnAdmit
  <2>3. \A b \in Block : ref'[b] = 0 <=> ref[b] = 0 /\ b \notin Range(bids)
    BY <1>2, <2>1, <2>2
  <2> QED BY <1>1, <1>2, <2>3 DEF FreeQueueExact, Idle
<1>19. rec' \in [unauthorized : Nat, stalls : Nat, evictions : Nat]
  <2>1. {b \in popped : hash[b] # NoHash} \in SUBSET Block
    BY <1>8
  <2>2. Cardinality({b \in popped : hash[b] # NoHash}) \in Nat
    BY <2>1, BlocksFinite, FS_Subset, FS_CardinalityType
  <2> QED BY <1>1, <2>2 DEF TypeOK, CallTypeOK
<1> QED BY <1>1, <1>2, <1>11, <1>12, <1>13, <1>14, <1>15, <1>16, <1>17, <1>18, <1>19
        DEF PoolTypeOK, PoolInv

-----------------------------------------------------------------------------
(* The invariant.                                                          *)

(* reset() establishes the invariant.                                      *)
LEMMA InitInv == Init => IInv
<1> SUFFICES ASSUME Init PROVE IInv
  OBVIOUS
<1> USE DEF Init
<1>1. NumBlocks \in Nat
  BY PoolAssumption
<1>2. free \in Seq(Block) /\ DOMAIN free = 1 .. NumBlocks
  <2>1. free \in [1 .. NumBlocks -> Block]
    BY <1>1 DEF Block
  <2> QED BY <1>1, <2>1, SeqDef
<1>3. PoolTypeOK
  <2>1. inFlight \in Seq(Seq(Block))
    BY EmptySeq
  <2> QED BY <1>2, <2>1 DEF PoolTypeOK, Block
<1>4. CallTypeOK
  <2>1. hits \in Seq(Block)
    BY EmptySeq
  <2> QED BY <2>1 DEF CallTypeOK, NoRec
<1>5. RefCountExact
  <2>1. \A b \in Block : Holders(b) = {}
    BY EmptySeq DEF Holders
  <2> QED BY <2>1, FS_EmptySet DEF RefCountExact
<1>6. FreeQueueExact
  <2>1. IsInjective(free)
    BY <1>1, <1>2 DEF IsInjective
  <2>2. \A b \in Block : b + 1 \in 1 .. NumBlocks /\ free[b + 1] = b
    BY <1>1 DEF Block
  <2>3. \A b \in Block : b \in Range(free)
    BY <1>2, <2>2 DEF Range
  <2>4. Range(free) \subseteq Block
    BY <1>2, RangeOfSeq
  <2>5. {b \in Block : ref[b] = 0} = Block
    OBVIOUS
  <2> QED BY <2>1, <2>3, <2>4, <2>5 DEF FreeQueueExact
<1>7. HeldDistinct
  BY EmptySeq DEF HeldDistinct
<1> QED BY <1>3, <1>4, <1>5, <1>6, <1>7
        DEF IInv, TypeOK, PoolInv, TableSound, HitsStayCached, HitsBounded, DrainBusy

(* A lookup starts a request with the blocks of its cached prefix.         *)
LEMMA SubmitKeeps ==
  ASSUME IInv, NEW p \in Prompts, Submit(p)
  PROVE  IInv'
<1> DEFINE found == [k \in 1 .. HitLength(p) |-> table[p.hashes[k]]]
<1>1. /\ hits' = found /\ req' = p /\ pc' = "admit"
      /\ rec' = [NoRec EXCEPT !.unauthorized = Unauthorized(p, found)]
      /\ UNCHANGED blockVars
  BY DEF Submit
<1>2. PoolTypeOK
  BY DEF IInv, TypeOK
<1>3. /\ HitLength(p) \in 0 .. MaxHits(p) /\ MaxHits(p) \in Nat
      /\ \A k \in 1 .. HitLength(p) : table[p.hashes[k]] \in Block
  BY <1>2, HitLengthIs, Sizes
<1>4. found \in Seq(Block) /\ Len(found) = HitLength(p) /\ DOMAIN found = 1 .. HitLength(p)
  <2>1. found \in [1 .. HitLength(p) -> Block] /\ HitLength(p) \in Nat
    BY <1>3
  <2> QED BY <2>1, SeqDef, LenProperties
<1>5. Unauthorized(p, found) \in Nat
  <2> DEFINE bad == {k \in DOMAIN found : ~fromProbe[found[k]] /\ p.user \notin audience[found[k]]}
  <2>1. bad \in SUBSET (1 .. HitLength(p)) /\ IsFiniteSet(1 .. HitLength(p))
    BY <1>3, <1>4, FS_Interval
  <2>2. Cardinality(bad) \in Nat
    BY <2>1, FS_Subset, FS_CardinalityType
  <2> QED BY <2>2 DEF Unauthorized
<1>6. HitsStayCached' /\ HitsBounded'
  <2>1. \A k \in DOMAIN found : table[p.hashes[k]] = found[k]
    BY <1>4
  <2>2. table' = table
    BY <1>1 DEF blockVars
  <2>3. Len(found) <= MaxHits(p)
    BY <1>3, <1>4
  <2> HIDE DEF found
  <2> QED BY <1>1, <2>1, <2>2, <2>3 DEF HitsStayCached, HitsBounded
<1> HIDE DEF found
<1>7. CallTypeOK'
  BY <1>1, <1>4, <1>5, NoReqAssumption DEF CallTypeOK, NoRec
<1>8. PoolTypeOK' /\ PoolInv' /\ TableSound' /\ DrainBusy'
  BY <1>1, <1>2 DEF IInv, blockVars, PoolTypeOK, PoolInv, RefCountExact, Holders, FreeQueueExact,
                    HeldDistinct, TableSound, DrainBusy
<1> QED BY <1>6, <1>7, <1>8 DEF IInv, TypeOK

(* Steps that end a call or start a drain leave the pool alone.            *)
LEMMA CallStepKeeps ==
  ASSUME IInv, Reject \/ Return \/ CallDrain
  PROVE  IInv'
<1>1. UNCHANGED blockVars /\ pc' # "admit" /\ (pc' = "drain" => inFlight # <<>>)
  BY DEF Reject, Return, CallDrain
<1>2. PoolTypeOK' /\ PoolInv' /\ TableSound'
  BY <1>1 DEF IInv, TypeOK, blockVars, PoolTypeOK, PoolInv, RefCountExact, Holders,
              FreeQueueExact, HeldDistinct, TableSound
<1>3. HitsStayCached' /\ HitsBounded' /\ DrainBusy'
  BY <1>1 DEF HitsStayCached, HitsBounded, DrainBusy, blockVars
<1>4. CallTypeOK'
  <2>1. CASE Reject \/ Return
    <3>1. pc' = "idle" /\ req' = NoReq /\ hits' = <<>> /\ rec' = NoRec
      BY <2>1 DEF Reject, Return
    <3>2. <<>> \in Seq(Block)
      BY EmptySeq
    <3> QED BY <3>1, <3>2 DEF CallTypeOK, NoRec
  <2>2. CASE CallDrain
    BY <2>2 DEF IInv, TypeOK, CallDrain, CallTypeOK
  <2> QED BY <2>1, <2>2
<1> QED BY <1>2, <1>3, <1>4 DEF IInv, TypeOK

(* A step that retires has a request to retire.                            *)
LEMMA RetiringHasOne ==
  ASSUME IInv, Stall \/ Trim \/ Drain
  PROVE  inFlight # <<>>
<1>1. inFlight \in Seq(Seq(Block)) /\ Len(inFlight) \in Nat
  BY LenProperties DEF IInv, TypeOK, PoolTypeOK
<1>2. Trim => Len(inFlight) > 0
  BY <1>1, PoolAssumption DEF Trim, WindowOverfull
<1>3. Len(<<>>) = 0
  BY EmptySeq
<1> QED BY <1>2, <1>3 DEF IInv, Stall, Drain, DrainBusy

(* The loops that retire: stall, trim and drain.                           *)
LEMMA RetiringKeeps ==
  ASSUME IInv, Stall \/ Trim \/ Drain
  PROVE  IInv'
<1>1. inFlight \in Seq(Seq(Block)) /\ Len(inFlight) \in Nat
  BY LenProperties DEF IInv, TypeOK, PoolTypeOK
<1>2. inFlight # <<>>
  BY RetiringHasOne
<1>3. RetireOldest
  BY DEF Stall, Trim, Drain
<1>4. PoolTypeOK' /\ PoolInv' /\ table' = table /\ hash' = hash
  BY <1>2, <1>3, RetireKeeps DEF IInv, TypeOK, RetireOldest
<1>5. TableSound'
  BY <1>4 DEF IInv, TableSound
<1>6. CallTypeOK' /\ hits' = hits /\ req' = req
  <2>1. CASE Stall
    BY <2>1 DEF IInv, TypeOK, CallTypeOK, Stall
  <2>2. CASE Trim
    BY <2>2 DEF IInv, TypeOK, CallTypeOK, Trim, callVars
  <2>3. CASE Drain
    BY <2>3 DEF IInv, TypeOK, CallTypeOK, Drain
  <2> QED BY <2>1, <2>2, <2>3
<1>7. pc' = "admit" => pc = "admit"
  BY DEF Stall, Trim, Drain, callVars
<1>8. HitsStayCached' /\ HitsBounded'
  BY <1>4, <1>6, <1>7 DEF IInv, HitsStayCached, HitsBounded
<1>9. DrainBusy'
  <2>1. CASE Drain
    <3>1. Len(inFlight') = Len(inFlight) - 1
      <4>1. Len(Tail(inFlight)) = Len(inFlight) - 1
        BY <1>1, <1>2, HeadTailProperties
      <4> QED BY <1>3, <4>1 DEF RetireOldest
    <3>2. Len(<<>>) = 0
      BY EmptySeq
    <3>3. inFlight' = <<>> => Len(inFlight) = 1
      BY <1>1, <3>1, <3>2
    <3> QED BY <2>1, <3>3 DEF Drain, DrainBusy
  <2>2. CASE Stall \/ Trim
    BY <2>2 DEF Stall, Trim, callVars, DrainBusy
  <2> QED BY <2>1, <2>2
<1> QED BY <1>4, <1>5, <1>6, <1>8, <1>9 DEF IInv, TypeOK

(* Admission keeps the invariant: AdmitKeeps for the pool, and the call    *)
(* moves on to trim.                                                       *)
LEMMA AdmitInv ==
  ASSUME IInv, Admit
  PROVE  IInv'
<1>1. PoolTypeOK' /\ PoolInv' /\ TableSound' /\ rec' \in [unauthorized : Nat, stalls : Nat, evictions : Nat]
  BY AdmitKeeps DEF IInv
<1>2. pc = "admit" /\ pc' = "trim" /\ req' = req /\ hits' = hits
  BY DEF Admit
<1>3. CallTypeOK'
  BY <1>1, <1>2 DEF IInv, TypeOK, CallTypeOK
<1> QED BY <1>1, <1>2, <1>3 DEF IInv, TypeOK, HitsStayCached, HitsBounded, DrainBusy

(* Every step of a call keeps the invariant.                               *)
LEMMA NextInv == IInv /\ [Next]_vars => IInv'
<1> SUFFICES ASSUME IInv, [Next]_vars PROVE IInv'
  OBVIOUS
<1>1. ASSUME NEW p \in Prompts, Submit(p) PROVE IInv'
  BY <1>1, SubmitKeeps
<1>2. CASE Reject \/ Return \/ CallDrain
  BY <1>2, CallStepKeeps
<1>3. CASE Stall \/ Trim \/ Drain
  BY <1>3, RetiringKeeps
<1>4. CASE Admit
  BY <1>4, AdmitInv
<1>5. CASE UNCHANGED vars
  BY <1>5 DEF vars, blockVars, callVars, IInv, TypeOK, PoolTypeOK, CallTypeOK, PoolInv,
              RefCountExact, Holders, FreeQueueExact, HeldDistinct, TableSound,
              HitsStayCached, HitsBounded, DrainBusy
<1> QED BY <1>1, <1>2, <1>3, <1>4, <1>5 DEF Next, Step

(* The invariant holds in every reachable state of the simulator.          *)
LEMMA SpecInv == Spec => []IInv
  BY InitInv, NextInv, PTL DEF Spec

-----------------------------------------------------------------------------
(* What follows for every behaviour of the simulator.                      *)

(* All variables keep the values simulator.py gives them: no count drops   *)
(* below zero, no queue or request holds anything but blocks.              *)
THEOREM TypeCorrect == Spec => []TypeOK
<1>1. IInv => TypeOK
  BY DEF IInv
<1> QED BY <1>1, SpecInv, PTL

(* ref_cnt counts the requests in flight that hold the block.              *)
THEOREM RefCounts == Spec => []RefCountExact
<1>1. IInv => RefCountExact
  BY DEF IInv, PoolInv
<1> QED BY <1>1, SpecInv, PTL

(* The free queue holds each unreferenced block once, and no other.        *)
THEOREM FreeQueue == Spec => []FreeQueueExact
<1>1. IInv => FreeQueueExact
  BY DEF IInv, PoolInv
<1> QED BY <1>1, SpecInv, PTL

(* A lookup never returns a block that holds other content.                *)
THEOREM LookupSound == Spec => []TableSound
<1>1. IInv => TableSound
  BY DEF IInv
<1> QED BY <1>1, SpecInv, PTL

(* What a request looked up survives the retirements it waits for.         *)
THEOREM HitsSurviveStalls == Spec => []HitsStayCached
<1>1. IInv => HitsStayCached
  BY DEF IInv
<1> QED BY <1>1, SpecInv, PTL

(* popleft never meets an empty queue: the stall loop's estimate is exact. *)
THEOREM AllocationSucceeds == Spec => []AllocationFits
<1>1. ASSUME IInv, pc = "admit", ~Short PROVE Need <= Len(Untouched)
  <2>1. Len(free) - EvictableHits = Len(Untouched) /\ Len(Untouched) \in Nat
    BY <1>1, UntouchedIs DEF IInv
  <2>2. Need \in Nat
    BY <1>1, HitsDistinct DEF IInv
  <2> QED BY <1>1, <2>1, <2>2 DEF Short
<1>2. IInv => AllocationFits
  BY <1>1 DEF AllocationFits
<1> QED BY <1>2, SpecInv, PTL

(* A request is turned away only if the whole pool could not hold it: with *)
(* nothing in flight every block is free or a hit that will be touched.    *)
THEOREM RejectionsJustified == Spec => []RejectOnlyOversize
<1>1. ASSUME IInv, pc = "admit", Short, inFlight = <<>> PROVE BlocksFor(req) > NumBlocks
  <2>1. \A b \in Block : ref[b] = 0
    <3>1. \A b \in Block : Holders(b) = {}
      BY <1>1, EmptySeq DEF Holders
    <3> QED BY <1>1, <3>1, FS_EmptySet DEF IInv, PoolInv, RefCountExact
  <2>2. Idle = Block
    BY <2>1 DEF Idle
  <2>3. /\ Untouched \in Seq(Block) /\ IsInjective(Untouched)
        /\ Range(Untouched) = Block \ Range(hits)
        /\ Len(free) - EvictableHits = Len(Untouched) /\ Len(Untouched) \in Nat
    BY <1>1, <2>2, UntouchedIs DEF IInv
  <2>4. /\ Len(hits) \in Nat /\ IsInjective(hits) /\ Range(hits) \subseteq Block
        /\ Need \in Nat /\ Len(hits) + Need = BlocksFor(req) /\ hits \in Seq(Block)
    BY <1>1, HitsDistinct DEF IInv, TypeOK, CallTypeOK
  <2>5. Len(Untouched) = Cardinality(Block \ Range(hits)) /\ Len(hits) = Cardinality(Range(hits))
    BY <2>3, <2>4, DistinctLength
  <2>6. /\ Cardinality(Block \ Range(hits)) = Cardinality(Block) - Cardinality(Block \cap Range(hits))
        /\ Block \cap Range(hits) = Range(hits)
    BY <2>4, BlocksFinite, FS_Difference
  <2>7. Len(Untouched) = NumBlocks - Len(hits) /\ NumBlocks \in Nat
    BY <2>5, <2>6, BlocksFinite, PoolAssumption
  <2>8. Len(Untouched) < Need
    BY <1>1, <2>3 DEF Short
  <2> QED BY <2>4, <2>7, <2>8
<1>2. IInv => RejectOnlyOversize
  BY <1>1 DEF RejectOnlyOversize
<1> QED BY <1>2, SpecInv, PTL

(* While a request reads a cached block, the block's entry stays: eviction *)
(* takes idle blocks only, and a decode block has no prompt's hash.        *)
THEOREM EntriesPinned == Spec => InUsePinned
<1> DEFINE Pinned == \A h \in PromptHash : table[h] # NoBlock /\ ref[table[h]] > 0 => table'[h] = table[h]
<1>1. ASSUME IInv, Admit, NEW h \in PromptHash, table[h] # NoBlock, ref[table[h]] > 0
      PROVE  table'[h] = table[h]
  <2> DEFINE bids     == hits \o SubSeq(Untouched, 1, Need)
             popped   == {bids[k] : k \in Len(hits) + 1 .. BlocksFor(req)}
             new      == Len(hits) + 1 .. FullBlocks(req)
             place(g) == CHOOSE k \in new : KeyAt(req, k) = g
             tab      == AfterEviction(popped)
             rest     == SubSeq(Untouched, Need + 1, Len(Untouched))
  <2>1. pc = "admit" /\ ~Short /\ table' = AfterRegistration(req, tab, bids, Len(hits))
    BY <1>1 DEF Admit
  <2>2. req \in Prompts /\ Len(hits) \in Nat
    BY <1>1, <2>1, HitsDistinct DEF IInv
  <2>3. popped \subseteq Idle
    <3>1. TypeOK /\ PoolInv /\ TableSound /\ HitsStayCached /\ HitsBounded /\ pc = "admit" /\ ~Short
      BY <1>1, <2>1 DEF IInv
    <3>2. /\ bids \in Seq(Block) /\ IsInjective(bids) /\ DOMAIN bids = 1 .. BlocksFor(req)
          /\ Range(bids) = Range(hits) \cup popped
          /\ popped \subseteq Idle /\ popped \cap Range(hits) = {}
          /\ rest \in Seq(Block) /\ IsInjective(rest)
          /\ Range(rest) = Idle \ Range(bids)
      BY <3>1, AdmittedBlocks
    <3> QED BY <3>2
  <2> HIDE DEF bids, popped
  <2>4. h \in Hash
    BY DEF Hash
  <2>5. table[h] \notin popped
    BY <1>1, <2>3 DEF Idle
  <2>6. tab[h] = table[h]
    BY <2>4, <2>5 DEF AfterEviction
  <2> HIDE DEF tab
  <2>7. ASSUME \E k \in new : KeyAt(req, k) = h PROVE ~(place(h) > Len(req.hashes))
    <3>1. place(h) \in new /\ KeyAt(req, place(h)) = h
      BY <2>7
    <3> HIDE DEF place
    <3>2. SUFFICES ASSUME place(h) > Len(req.hashes) PROVE FALSE
      OBVIOUS
    <3>3. Len(req.hashes) \in Nat /\ FullBlocks(req) \in Nat
      BY <2>2, Sizes
    <3>4. place(h) \in DecodeBlocks(req) /\ h = OutHash(req.id, place(h))
      BY <2>2, <3>1, <3>2, <3>3 DEF DecodeBlocks, KeyAt
    <3>5. \A p \in Prompts : \A k \in DecodeBlocks(p) : OutHash(p.id, k) \notin PromptHash
      BY HashAssumption
    <3> QED BY <2>2, <3>4, <3>5
  <2> QED BY <1>1, <2>1, <2>4, <2>6, <2>7 DEF AfterRegistration
<1>2. ASSUME IInv, [Next]_vars PROVE Pinned \/ UNCHANGED vars
  <2>1. CASE Admit
    BY <1>1, <1>2, <2>1
  <2>2. CASE UNCHANGED table
    BY <2>2
  <2>3. ASSUME NEW p \in Prompts, Submit(p) PROVE UNCHANGED table
    BY <2>3 DEF Submit, blockVars
  <2>4. CallDrain \/ Stall \/ Reject \/ Trim \/ Return \/ Drain => UNCHANGED table
    BY DEF CallDrain, Stall, Reject, Trim, Return, Drain, RetireOldest, blockVars
  <2> QED BY <1>2, <2>1, <2>2, <2>3, <2>4 DEF Next, Step
<1>3. IInv /\ [Next]_vars => [Pinned]_vars
  BY <1>2
<1> QED BY <1>3, SpecInv, PTL DEF Spec, InUsePinned

(* Every call ends: its loops retire one request per iteration, and no     *)
(* step but the one admission adds one.                                    *)
THEOREM CallsReturn == Spec => CallsEnd
<1> DEFINE Fewer == pc # "idle" => StepsLeft' \in Nat /\ StepsLeft' < StepsLeft
<1>1. ASSUME IInv, Next PROVE Fewer
  <2>1. inFlight \in Seq(Seq(Block)) /\ Len(inFlight) \in Nat
    BY <1>1 DEF IInv, TypeOK, PoolTypeOK
  <2>2. CASE \E p \in Prompts : Submit(p)
    BY <2>2 DEF Submit
  <2>3. CASE CallDrain
    BY <2>3 DEF CallDrain
  <2>4. CASE Stall
    <3>1. Len(inFlight') = Len(inFlight) - 1 /\ Len(inFlight) > 0
      BY <2>1, <2>4 DEF Stall, RetireOldest
    <3> QED BY <2>1, <2>4, <3>1 DEF Stall, StepsLeft
  <2>5. CASE Reject
    BY <2>1, <2>5 DEF Reject, StepsLeft, blockVars
  <2>6. CASE Admit
    <3>1. /\ pc = "admit" /\ pc' = "trim"
          /\ \E bids : inFlight' = Append(inFlight, bids)
      BY <2>6 DEF Admit
    <3>2. Len(inFlight') = Len(inFlight) + 1
      BY <2>1, <3>1
    <3> QED BY <2>1, <3>1, <3>2 DEF StepsLeft
  <2>7. CASE Trim
    <3>1. inFlight # <<>>
      BY <2>1, <2>7, PoolAssumption DEF Trim, WindowOverfull
    <3>2. Len(inFlight') = Len(inFlight) - 1 /\ Len(inFlight) > 0
      BY <2>1, <2>7, <3>1 DEF Trim, RetireOldest
    <3> QED BY <2>1, <2>7, <3>2 DEF Trim, callVars, StepsLeft
  <2>8. CASE Return
    BY <2>1, <2>8 DEF Return, StepsLeft, blockVars
  <2>9. CASE Drain
    <3>1. inFlight # <<>>
      BY <1>1, <2>9 DEF IInv, DrainBusy, Drain
    <3>2. Len(inFlight') = Len(inFlight) - 1 /\ Len(inFlight) > 0
      BY <2>1, <2>9, <3>1 DEF Drain, RetireOldest
    <3> QED BY <2>1, <2>9, <3>2 DEF Drain, StepsLeft
  <2> QED BY <1>1, <2>2, <2>3, <2>4, <2>5, <2>6, <2>7, <2>8, <2>9 DEF Next, Step
<1>2. IInv /\ [Next]_vars => [Fewer]_vars
  BY <1>1
<1> QED BY <1>2, SpecInv, PTL DEF Spec, CallsEnd

-----------------------------------------------------------------------------
(* What the bookkeeping of IInv does not say.  A request holds the parent  *)
(* of every prompt block it holds, one position before it and still in the *)
(* table.                                                                  *)
HeldChain ==
  \A i \in 1 .. Len(inFlight) : \A j \in 1 .. Len(inFlight[i]) :
    \A p \in Prompts : \A k \in 1 .. Len(p.hashes) :
      hash[inFlight[i][j]] = p.hashes[k] =>
        j = k /\ (k > 1 => table[p.hashes[k - 1]] = inFlight[i][k - 1])

(* The parent of a cached block is cached, and is evicted after it.        *)
QueueOrder ==
  \A p \in Prompts : \A k \in 2 .. Len(p.hashes) :
    table[p.hashes[k]] # NoBlock =>
      /\ table[p.hashes[k - 1]] # NoBlock
      /\ ref[table[p.hashes[k - 1]]] = 0 =>
           /\ ref[table[p.hashes[k]]] = 0
           /\ Before(free, table[p.hashes[k]], table[p.hashes[k - 1]])

(* The lookup stopped at its cap or at a hash that is still not cached.    *)
LookupLongest ==
  pc = "admit" /\ Len(hits) < MaxHits(req) => table[req.hashes[Len(hits) + 1]] = NoBlock

(* A block with a prompt hash that the table does not point at was         *)
(* computed beside a cached one, at the hit cap.                           *)
AtCap(h)   == \E p \in Prompts : p.tokens % BlockSize = 0 /\ p.hashes[Len(p.hashes)] = h
StrayAtCap == \A b \in Block : hash[b] \in PromptHash /\ table[hash[b]] # b => AtCap(hash[b])

ChainInv == IInv /\ HeldChain /\ QueueOrder /\ LookupLongest /\ StrayAtCap

-----------------------------------------------------------------------------
(* Hashes.                                                                 *)

(* A hash has one position in all prompts, and one parent.                 *)
LEMMA OneParent ==
  ASSUME NEW p \in Prompts, NEW q \in Prompts,
         NEW i \in 1 .. Len(p.hashes), NEW j \in 1 .. Len(q.hashes), p.hashes[i] = q.hashes[j]
  PROVE  i = j /\ (i > 1 => p.hashes[i - 1] = q.hashes[i - 1])
<1>1. p.hashes \in Seq(PromptHash) /\ q.hashes \in Seq(PromptHash)
  BY Sizes DEF PromptType
<1>2. i \in DOMAIN p.hashes /\ j \in DOMAIN q.hashes
  BY <1>1, LenProperties
<1>3. \A r, s \in Prompts : \A k \in DOMAIN r.hashes, l \in DOMAIN s.hashes :
        r.hashes[k] = s.hashes[l] => k = l /\ (k > 1 => r.hashes[k - 1] = s.hashes[k - 1])
  BY HashAssumption
<1>4. \A k \in DOMAIN p.hashes, l \in DOMAIN q.hashes :
        p.hashes[k] = q.hashes[l] => k = l /\ (k > 1 => p.hashes[k - 1] = q.hashes[k - 1])
  BY <1>3
<1> QED BY <1>2, <1>4

(* The hashes of a prompt are prompt hashes and in the table's domain.     *)
LEMMA PromptHashes ==
  ASSUME NEW p \in Prompts
  PROVE  /\ Len(p.hashes) \in Nat
         /\ \A k \in 1 .. Len(p.hashes) : p.hashes[k] \in PromptHash /\ p.hashes[k] \in Hash
         /\ Range(p.hashes) = {p.hashes[k] : k \in 1 .. Len(p.hashes)}
         /\ Range(p.hashes) \subseteq PromptHash
<1>1. p.hashes \in Seq(PromptHash) /\ Len(p.hashes) \in Nat
  BY Sizes DEF PromptType
<1>2. \A k \in 1 .. Len(p.hashes) : p.hashes[k] \in PromptHash
  BY <1>1, ElementOfSeq
<1>3. DOMAIN p.hashes = 1 .. Len(p.hashes)
  BY <1>1, LenProperties
<1> QED BY <1>1, <1>2, <1>3 DEF Hash, Range

(* A hash within the prompt is the hash of its block; beyond, no prompt's. *)
LEMMA KeyOfPromptHash ==
  ASSUME NEW p \in Prompts, NEW k \in 1 .. FullBlocks(p), KeyAt(p, k) \in PromptHash
  PROVE  k \in 1 .. Len(p.hashes) /\ KeyAt(p, k) = p.hashes[k]
<1>1. Len(p.hashes) \in Nat /\ FullBlocks(p) \in Nat
  BY Sizes
<1>2. k <= Len(p.hashes)
  <2>1. SUFFICES ASSUME ~(k <= Len(p.hashes)) PROVE FALSE
    OBVIOUS
  <2>2. k \in DecodeBlocks(p) /\ KeyAt(p, k) = OutHash(p.id, k)
    BY <1>1, <2>1 DEF DecodeBlocks, KeyAt
  <2>3. \A q \in Prompts : \A l \in DecodeBlocks(q) : OutHash(q.id, l) \notin PromptHash
    BY HashAssumption
  <2> QED BY <2>2, <2>3
<1> QED BY <1>1, <1>2 DEF KeyAt

(* One more token adds at most a block, and then it fills that block.      *)
LEMMA OneMoreBlock ==
  ASSUME NEW t \in Nat, NEW d \in Nat, d >= 1, t >= 1
  PROVE  t \div d <= (t - 1) \div d + 1 /\ (t \div d = (t - 1) \div d + 1 => t % d = 0)
OBVIOUS

(* The blocks of a prompt beyond the hit cap: none, or the last one of a   *)
(* prompt that ends on a block boundary.                                   *)
LEMMA BeyondCap ==
  ASSUME NEW p \in Prompts, NEW k \in 1 .. Len(p.hashes), k > MaxHits(p)
  PROVE  k = Len(p.hashes) /\ k = MaxHits(p) + 1 /\ p.tokens % BlockSize = 0
<1>1. /\ p.tokens \in Nat /\ p.tokens >= 1 /\ BlockSize \in Nat /\ BlockSize >= 1
      /\ Len(p.hashes) = p.tokens \div BlockSize /\ MaxHits(p) = (p.tokens - 1) \div BlockSize
      /\ MaxHits(p) \in Nat /\ Len(p.hashes) \in Nat
  BY Sizes, PromptAssumption, PoolAssumption DEF PromptType, MaxHits
<1> DEFINE t == p.tokens
           d == BlockSize
<1>2. t \in Nat /\ d \in Nat /\ d >= 1 /\ t >= 1
  BY <1>1
<1> HIDE DEF t, d
<1>3. t \div d <= (t - 1) \div d + 1 /\ (t \div d = (t - 1) \div d + 1 => t % d = 0)
  BY <1>2, OneMoreBlock
<1> QED BY <1>1, <1>3 DEF t, d

-----------------------------------------------------------------------------
(* What retirement and admission do to the pool, in the terms below.       *)

AdmitBids   == hits \o SubSeq(Untouched, 1, Need)
AdmitPopped == {AdmitBids[k] : k \in Len(hits) + 1 .. BlocksFor(req)}

(* The blocks of an admitted request, and where the queue was cut.         *)
LEMMA AdmitBlocks ==
  ASSUME IInv, Admit
  PROVE  /\ req \in Prompts /\ Len(hits) \in Nat /\ Len(hits) <= MaxHits(req) /\ Len(hits) <= Len(req.hashes)
         /\ FullBlocks(req) \in Nat /\ BlocksFor(req) \in Nat
         /\ Len(req.hashes) <= FullBlocks(req) /\ FullBlocks(req) <= BlocksFor(req)
         /\ AdmitBids \in Seq(Block) /\ DOMAIN AdmitBids = 1 .. BlocksFor(req)
         /\ Len(AdmitBids) = BlocksFor(req) /\ IsInjective(AdmitBids)
         /\ Range(AdmitBids) = Range(hits) \cup AdmitPopped
         /\ \A k \in 1 .. Len(hits) : AdmitBids[k] = hits[k] /\ hits[k] \in Range(hits)
         /\ \A k \in Len(hits) + 1 .. BlocksFor(req) : AdmitBids[k] \in AdmitPopped
         /\ AdmitPopped \subseteq Idle /\ AdmitPopped \cap Range(hits) = {}
         /\ Untouched \in Seq(Block) /\ IsInjective(Untouched)
         /\ Need \in 0 .. Len(Untouched) /\ AdmitPopped = Range(SubSeq(Untouched, 1, Need))
         /\ free' = SubSeq(Untouched, Need + 1, Len(Untouched))
         /\ inFlight' = Append(inFlight, AdmitBids)
         /\ ref' = RefOnAdmit(AdmitPopped)
<1> DEFINE rest  == SubSeq(Untouched, Need + 1, Len(Untouched))
           taken == SubSeq(Untouched, 1, Need)
<1>1. /\ pc = "admit" /\ ~Short
      /\ free' = rest
      /\ inFlight' = Append(inFlight, AdmitBids)
      /\ ref' = RefOnAdmit(AdmitPopped)
  BY DEF Admit, AdmitBids, AdmitPopped
<1>2. /\ req \in Prompts /\ Len(hits) \in Nat /\ Len(hits) <= Len(req.hashes)
      /\ Need \in Nat /\ Len(hits) + Need = BlocksFor(req)
      /\ hits \in Seq(Block) /\ DOMAIN hits = 1 .. Len(hits)
  BY <1>1, HitsDistinct, LenProperties DEF IInv, TypeOK, CallTypeOK
<1>3. /\ FullBlocks(req) \in Nat /\ BlocksFor(req) \in Nat
      /\ Len(req.hashes) <= FullBlocks(req) /\ FullBlocks(req) <= BlocksFor(req)
  BY <1>2, Sizes
<1>4. /\ AdmitBids \in Seq(Block) /\ IsInjective(AdmitBids) /\ DOMAIN AdmitBids = 1 .. BlocksFor(req)
      /\ Range(AdmitBids) = Range(hits) \cup AdmitPopped
      /\ AdmitPopped \subseteq Idle /\ AdmitPopped \cap Range(hits) = {}
  <2>1. TypeOK /\ PoolInv /\ TableSound /\ HitsStayCached /\ HitsBounded
    BY DEF IInv
  <2> DEFINE bids   == hits \o SubSeq(Untouched, 1, Need)
             popped == {bids[k] : k \in Len(hits) + 1 .. BlocksFor(req)}
  <2>2. /\ bids \in Seq(Block) /\ IsInjective(bids) /\ DOMAIN bids = 1 .. BlocksFor(req)
        /\ Range(bids) = Range(hits) \cup popped
        /\ popped \subseteq Idle /\ popped \cap Range(hits) = {}
        /\ rest \in Seq(Block) /\ IsInjective(rest)
        /\ Range(rest) = Idle \ Range(bids)
    BY <1>1, <2>1, AdmittedBlocks
  <2>3. bids = AdmitBids /\ popped = AdmitPopped
    BY DEF AdmitBids, AdmitPopped
  <2> HIDE DEF bids, popped
  <2> QED BY <2>2, <2>3
<1>5. /\ Untouched \in Seq(Block) /\ IsInjective(Untouched)
      /\ Len(Untouched) \in Nat /\ Len(free) - EvictableHits = Len(Untouched)
  BY <1>1, UntouchedIs DEF IInv
<1>6. Need \in 0 .. Len(Untouched)
  <2>1. ~(Len(Untouched) < Need)
    BY <1>1, <1>5 DEF Short
  <2> QED BY <1>2, <1>5, <2>1
<1>7. taken \in Seq(Block) /\ Len(taken) = Need /\ DOMAIN taken = 1 .. Need
  BY <1>5, <1>6, CutElements
<1>8. Len(AdmitBids) = BlocksFor(req)
  <2>1. Len(AdmitBids) \in Nat /\ DOMAIN AdmitBids = 1 .. Len(AdmitBids)
    BY <1>4, LenProperties
  <2>2. Len(AdmitBids) = Len(hits) + Len(taken)
    BY <1>2, <1>7, ConcatProperties DEF AdmitBids
  <2> QED BY <1>2, <1>7, <2>2
<1> HIDE DEF taken
<1>9. \A k \in 1 .. BlocksFor(req) :
         AdmitBids[k] = IF k <= Len(hits) THEN hits[k] ELSE taken[k - Len(hits)]
  BY <1>2, <1>7, ConcatProperties DEF AdmitBids, taken
<1>10. \A k \in 1 .. Len(hits) : AdmitBids[k] = hits[k] /\ hits[k] \in Range(hits)
  <2>1. \A k \in 1 .. Len(hits) : k \in 1 .. BlocksFor(req) /\ k <= Len(hits)
    BY <1>2
  <2> QED BY <1>2, <1>9, <2>1 DEF Range
<1>11. \A k \in Len(hits) + 1 .. BlocksFor(req) : AdmitBids[k] \in AdmitPopped
  BY DEF AdmitPopped
<1>12. AdmitPopped = Range(taken)
  <2>1. ASSUME NEW k \in Len(hits) + 1 .. BlocksFor(req) PROVE AdmitBids[k] \in Range(taken)
    <3>1. k \in 1 .. BlocksFor(req) /\ ~(k <= Len(hits)) /\ k - Len(hits) \in 1 .. Need
      BY <1>2
    <3> QED BY <1>7, <1>9, <3>1 DEF Range
  <2>2. ASSUME NEW k \in 1 .. Need PROVE taken[k] \in AdmitPopped
    <3> DEFINE j == Len(hits) + k
    <3>1. /\ j \in Len(hits) + 1 .. BlocksFor(req) /\ j \in 1 .. BlocksFor(req)
          /\ ~(j <= Len(hits)) /\ j - Len(hits) = k
      BY <1>2
    <3> HIDE DEF j
    <3>2. AdmitBids[j] = taken[j - Len(hits)]
      BY <1>9, <3>1
    <3> QED BY <1>11, <3>1, <3>2
  <2> QED BY <1>7, <2>1, <2>2 DEF Range, AdmitPopped
<1>13. Len(hits) <= MaxHits(req)
  BY <1>1 DEF IInv, HitsBounded
<1> QED BY <1>1, <1>2, <1>3, <1>4, <1>5, <1>6, <1>8, <1>10, <1>11, <1>12, <1>13, Zenon DEF taken

(* What admission records: blocks that were not popped keep their hash,    *)
(* those that were get the request's; entries outside the prompt go only   *)
(* with the block they point at, and within it are filled where missing.   *)
LEMMA AdmitRecords ==
  ASSUME IInv, Admit
  PROVE  /\ \A b \in Block \ AdmitPopped : hash'[b] = hash[b]
         /\ \A k \in Len(hits) + 1 .. BlocksFor(req) :
              hash'[AdmitBids[k]] = IF k <= FullBlocks(req) THEN KeyAt(req, k) ELSE NoHash
         /\ \A h \in PromptHash : h \notin Range(req.hashes) =>
              table'[h] = IF table[h] \in AdmitPopped THEN NoBlock ELSE table[h]
         /\ \A j \in 1 .. Len(req.hashes) : j <= Len(hits) => table'[req.hashes[j]] = hits[j]
         /\ \A j \in 1 .. Len(req.hashes) : j > Len(hits) =>
              table'[req.hashes[j]] =
                IF table[req.hashes[j]] = NoBlock \/ table[req.hashes[j]] \in AdmitPopped
                THEN AdmitBids[j] ELSE table[req.hashes[j]]
<1> DEFINE n        == Len(hits)
           slot(b)  == CHOOSE k \in n + 1 .. BlocksFor(req) : AdmitBids[k] = b
           fresh    == {b \in AdmitPopped : slot(b) <= FullBlocks(req)}
           new      == n + 1 .. FullBlocks(req)
           tab      == AfterEviction(AdmitPopped)
           place(h) == CHOOSE k \in new : KeyAt(req, k) = h
<1>1. /\ hash' = [b \in Block |-> IF b \in fresh THEN KeyAt(req, slot(b))
                                  ELSE IF b \in AdmitPopped THEN NoHash ELSE hash[b]]
      /\ table' = AfterRegistration(req, tab, AdmitBids, n)
      /\ pc = "admit"
  BY DEF Admit, AdmitBids, AdmitPopped
<1>2. /\ req \in Prompts /\ n \in Nat /\ n <= Len(req.hashes)
      /\ FullBlocks(req) \in Nat /\ BlocksFor(req) \in Nat
      /\ Len(req.hashes) <= FullBlocks(req) /\ FullBlocks(req) <= BlocksFor(req)
      /\ DOMAIN AdmitBids = 1 .. BlocksFor(req) /\ IsInjective(AdmitBids)
      /\ \A k \in 1 .. n : AdmitBids[k] = hits[k] /\ hits[k] \in Range(hits)
      /\ \A k \in n + 1 .. BlocksFor(req) : AdmitBids[k] \in AdmitPopped
      /\ AdmitPopped \subseteq Idle /\ AdmitPopped \cap Range(hits) = {}
  BY AdmitBlocks
<1>3. AdmitPopped \subseteq Block
  BY <1>2 DEF Idle
<1>4. /\ Len(req.hashes) \in Nat
      /\ \A k \in 1 .. Len(req.hashes) : req.hashes[k] \in PromptHash /\ req.hashes[k] \in Hash
      /\ Range(req.hashes) = {req.hashes[k] : k \in 1 .. Len(req.hashes)}
  BY <1>2, PromptHashes
<1>5. \A h \in PromptHash : h \in Hash
  BY DEF Hash
<1>6. \A h \in Hash : tab[h] = IF table[h] \in AdmitPopped THEN NoBlock ELSE table[h]
  <2>1. NoBlock \notin Block
    BY PoolAssumption DEF Block, NoBlock
  <2>2. \A h \in Hash : table[h] \in AdmitPopped => hash[table[h]] = h
    BY <1>3, <2>1 DEF IInv, TableSound
  <2> QED BY <2>2 DEF AfterEviction
<1>7. \A h \in Hash : table'[h] = IF /\ \E k \in new : KeyAt(req, k) = h
                                     /\ tab[h] = NoBlock \/ place(h) > Len(req.hashes)
                                  THEN AdmitBids[place(h)] ELSE tab[h]
  BY <1>1 DEF AfterRegistration
<1>8. \A k \in new : k \in n + 1 .. BlocksFor(req) /\ k \in 1 .. FullBlocks(req)
  BY <1>2
<1>9. \A k \in 1 .. Len(req.hashes) : KeyAt(req, k) = req.hashes[k]
  BY <1>4 DEF KeyAt
<1>10. ASSUME NEW h \in PromptHash, NEW k \in new, KeyAt(req, k) = h
       PROVE  k \in 1 .. Len(req.hashes) /\ h = req.hashes[k]
  BY <1>2, <1>8, <1>10, KeyOfPromptHash
<1> HIDE DEF tab, slot, fresh
<1>11. \A b \in Block \ AdmitPopped : hash'[b] = hash[b]
  BY <1>1 DEF fresh
<1>12. ASSUME NEW k \in n + 1 .. BlocksFor(req)
       PROVE  hash'[AdmitBids[k]] = IF k <= FullBlocks(req) THEN KeyAt(req, k) ELSE NoHash
  <2>1. AdmitBids[k] \in AdmitPopped /\ AdmitBids[k] \in Block
    BY <1>2, <1>3
  <2>2. slot(AdmitBids[k]) \in n + 1 .. BlocksFor(req) /\ AdmitBids[slot(AdmitBids[k])] = AdmitBids[k]
    BY DEF slot
  <2>3. \A l \in n + 1 .. BlocksFor(req) : l \in DOMAIN AdmitBids
    BY <1>2
  <2>4. slot(AdmitBids[k]) = k
    BY <1>2, <2>2, <2>3 DEF IsInjective
  <2> QED BY <1>1, <2>1, <2>4 DEF fresh
<1>13. ASSUME NEW h \in PromptHash, h \notin Range(req.hashes)
       PROVE  table'[h] = IF table[h] \in AdmitPopped THEN NoBlock ELSE table[h]
  <2>1. ~ \E k \in new : KeyAt(req, k) = h
    BY <1>4, <1>10, <1>13
  <2> QED BY <1>5, <1>6, <1>7, <2>1
<1>14. ASSUME NEW j \in 1 .. Len(req.hashes), j <= n
       PROVE  table'[req.hashes[j]] = hits[j]
  <2>1. ASSUME NEW k \in new, KeyAt(req, k) = req.hashes[j] PROVE FALSE
    <3>1. k \in 1 .. Len(req.hashes) /\ req.hashes[j] = req.hashes[k]
      BY <1>4, <1>10, <2>1
    <3>2. k = j
      BY <1>2, <3>1, OneParent
    <3> QED BY <1>2, <1>14, <3>2
  <2>2. j \in 1 .. n
    BY <1>2, <1>14
  <2>3. DOMAIN hits = 1 .. n
    BY <1>2, LenProperties DEF IInv, TypeOK, CallTypeOK
  <2>4. table[req.hashes[j]] = hits[j]
    BY <1>1, <2>2, <2>3 DEF IInv, HitsStayCached
  <2>5. hits[j] \notin AdmitPopped
    BY <1>2, <2>2
  <2> QED BY <1>4, <1>6, <1>7, <2>1, <2>4, <2>5
<1>15. ASSUME NEW j \in 1 .. Len(req.hashes), j > n
       PROVE  table'[req.hashes[j]] =
                IF table[req.hashes[j]] = NoBlock \/ table[req.hashes[j]] \in AdmitPopped
                THEN AdmitBids[j] ELSE table[req.hashes[j]]
  <2> DEFINE h == req.hashes[j]
  <2>1. j \in new /\ KeyAt(req, j) = h
    BY <1>2, <1>4, <1>9, <1>15
  <2>2. h \in PromptHash /\ h \in Hash
    BY <1>4
  <2>3. place(h) \in new /\ KeyAt(req, place(h)) = h
    BY <2>1
  <2>4. place(h) \in 1 .. Len(req.hashes) /\ h = req.hashes[place(h)]
    BY <1>10, <2>2, <2>3
  <2> HIDE DEF place
  <2>5. place(h) = j
    BY <1>2, <2>4, OneParent
  <2>6. ~(place(h) > Len(req.hashes))
    BY <1>4, <2>5
  <2> HIDE DEF h
  <2>7. table'[h] = IF tab[h] = NoBlock THEN AdmitBids[j] ELSE tab[h]
    BY <1>7, <2>1, <2>2, <2>5, <2>6
  <2>8. tab[h] = NoBlock <=> table[h] = NoBlock \/ table[h] \in AdmitPopped
    BY <1>6, <2>2
  <2>9. tab[h] # NoBlock => tab[h] = table[h]
    BY <1>6, <2>2
  <2> QED BY <2>7, <2>8, <2>9 DEF h
<1> QED BY <1>11, <1>12, <1>13, <1>14, <1>15

-----------------------------------------------------------------------------
(* Retirement keeps the order of the free queue.                           *)

(* A block that a request holds is referenced, and a block with one        *)
(* reference is held by one request.                                       *)
LEMMA HeldReferenced ==
  ASSUME IInv, NEW b \in Block
  PROVE  /\ ref[b] \in Nat
         /\ \A i \in 1 .. Len(inFlight) : b \in Range(inFlight[i]) => ref[b] >= 1
         /\ \A i, j \in 1 .. Len(inFlight) :
              ref[b] = 1 /\ b \in Range(inFlight[i]) /\ b \in Range(inFlight[j]) => i = j
         /\ ref[b] >= 1 => \E i \in 1 .. Len(inFlight) : b \in Range(inFlight[i])
         /\ \A i \in 1 .. Len(inFlight) :
              (\A j \in 1 .. Len(inFlight) : b \in Range(inFlight[j]) <=> i = j) => ref[b] = 1
<1>1. ref[b] = Cardinality(Holders(b)) /\ ref[b] \in Nat
  BY DEF IInv, TypeOK, PoolTypeOK, PoolInv, RefCountExact
<1>2. inFlight \in Seq(Seq(Block)) /\ Len(inFlight) \in Nat
  BY LenProperties DEF IInv, TypeOK, PoolTypeOK
<1>3. IsFiniteSet(Holders(b))
  <2>1. IsFiniteSet(1 .. Len(inFlight)) /\ Holders(b) \in SUBSET (1 .. Len(inFlight))
    BY <1>2, FS_Interval DEF Holders
  <2> QED BY <2>1, FS_Subset
<1>4. ref[b] = 0 <=> Holders(b) = {}
  BY <1>1, <1>3, FS_EmptySet
<1>5. ref[b] = 1 <=> \E i : Holders(b) = {i}
  BY <1>1, <1>3, FS_Singleton
<1>6. \A i : i \in Holders(b) <=> i \in 1 .. Len(inFlight) /\ b \in Range(inFlight[i])
  BY DEF Holders
<1>7. ref[b] >= 1 <=> Holders(b) # {}
  BY <1>1, <1>4
<1>8. ASSUME NEW i \in 1 .. Len(inFlight),
             \A j \in 1 .. Len(inFlight) : b \in Range(inFlight[j]) <=> i = j
      PROVE  Holders(b) = {i}
  BY <1>6, <1>8
<1> QED BY <1>1, <1>5, <1>6, <1>7, <1>8

(* Retiring a request frees a parent only with its children: whoever else  *)
(* held a child would hold the parent.  The list walked backwards puts the *)
(* child ahead of it, and children freed earlier are ahead already.        *)
LEMMA RetireOrder ==
  ASSUME IInv, HeldChain, QueueOrder, inFlight # <<>>, RetireOldest
  PROVE  HeldChain' /\ QueueOrder'
<1> DEFINE bids  == Head(inFlight)
           freed == {b \in Range(bids) : ref[b] = 1}
           blank == {b \in freed : hash[b] = NoHash}
           back  == ReleaseOrder(bids)
           f1    == Filtered(back, blank)
           f2    == Filtered(back, freed \ blank)
<1>1. /\ ref' = [b \in Block |-> IF b \in Range(bids) THEN ref[b] - 1 ELSE ref[b]]
      /\ free' = f1 \o free \o f2
      /\ inFlight' = Tail(inFlight)
      /\ hash' = hash /\ table' = table
  BY DEF RetireOldest
<1>2. /\ inFlight \in Seq(Seq(Block)) /\ Len(inFlight) \in Nat \ {0} /\ bids \in Seq(Block) /\ bids = inFlight[1]
      /\ Len(Tail(inFlight)) = Len(inFlight) - 1
      /\ \A i \in 1 .. Len(Tail(inFlight)) : Tail(inFlight)[i] = inFlight[i + 1]
      /\ 1 \in 1 .. Len(inFlight)
  BY HeadTailProperties, EmptySeq DEF IInv, TypeOK, PoolTypeOK
<1>3. HeldChain'
  <2>1. \A i \in 1 .. Len(Tail(inFlight)) : i + 1 \in 1 .. Len(inFlight)
    BY <1>2
  <2> HIDE DEF bids
  <2>2. SUFFICES ASSUME NEW i \in 1 .. Len(Tail(inFlight)), NEW j \in 1 .. Len(Tail(inFlight)[i]),
                        NEW p \in Prompts, NEW k \in 1 .. Len(p.hashes),
                        hash[Tail(inFlight)[i][j]] = p.hashes[k]
                 PROVE  j = k /\ (k > 1 => table[p.hashes[k - 1]] = Tail(inFlight)[i][k - 1])
    BY <1>1 DEF HeldChain
  <2>3. i + 1 \in 1 .. Len(inFlight) /\ Tail(inFlight)[i] = inFlight[i + 1]
    BY <1>2, <2>1
  <2> QED BY <2>2, <2>3 DEF HeldChain
<1>4. /\ DOMAIN bids = 1 .. Len(bids) /\ Len(bids) \in Nat
      /\ Range(bids) \subseteq Block
  BY <1>2, LenProperties, RangeOfSeq
<1>5. /\ back \in Seq(Block) /\ f1 \in Seq(Block) /\ f2 \in Seq(Block) /\ f1 \o free \in Seq(Block)
      /\ free \in Seq(Block) /\ Range(free) = {b \in Block : ref[b] = 0}
      /\ Range(f2) = Range(bids) \cap (freed \ blank)
  <2>1. back \in Seq(Block) /\ Range(back) = Range(bids)
    BY <1>2, BackwardsKeeps DEF ReleaseOrder
  <2>2. f1 \in Seq(Block) /\ f2 \in Seq(Block) /\ Range(f2) = Range(back) \cap (freed \ blank)
    BY <2>1, FilteredKeeps
  <2>3. free \in Seq(Block) /\ Range(free) = {b \in Block : ref[b] = 0}
    BY DEF IInv, TypeOK, PoolTypeOK, PoolInv, FreeQueueExact
  <2> HIDE DEF f1, f2, back
  <2>4. f1 \o free \in Seq(Block)
    BY <2>2, <2>3, ConcatProperties
  <2> QED BY <2>1, <2>2, <2>3, <2>4
<1>6. ASSUME NEW a \in Block, NEW b \in Block,
             \/ Before(free, a, b)
             \/ a \in Range(free) /\ b \in Range(f2)
             \/ Before(f2, a, b)
      PROVE  Before(free', a, b)
  <2> HIDE DEF f1, f2
  <2>1. free' = (f1 \o free) \o f2
    BY <1>1
  <2> DEFINE front == f1 \o free
  <2>2. front \in Seq(Block) /\ f2 \in Seq(Block)
    BY <1>5
  <2>3. Before(free, a, b) => Before(front, a, b)
    BY <1>5, ConcatOrder
  <2>4. a \in Range(free) => a \in Range(front)
    <3>1. \A k \in 1 .. Len(free) : Len(f1) + k \in 1 .. Len(front) /\ front[Len(f1) + k] = free[k]
      <4>1. Len(f1) \in Nat /\ Len(free) \in Nat /\ Len(front) = Len(f1) + Len(free)
        BY <1>5, LenProperties, ConcatProperties
      <4>2. \A l \in 1 .. Len(f1) + Len(free) : front[l] = IF l <= Len(f1) THEN f1[l] ELSE free[l - Len(f1)]
        BY <1>5, ConcatProperties
      <4> HIDE DEF front
      <4>3. ASSUME NEW k \in 1 .. Len(free)
            PROVE  Len(f1) + k \in 1 .. Len(front) /\ front[Len(f1) + k] = free[k]
        <5>1. Len(f1) + k \in 1 .. Len(f1) + Len(free) /\ ~(Len(f1) + k <= Len(f1)) /\ Len(f1) + k - Len(f1) = k
          BY <4>1
        <5> QED BY <4>1, <4>2, <5>1
      <4> QED BY <4>3
    <3>2. DOMAIN free = 1 .. Len(free) /\ DOMAIN front = 1 .. Len(front)
      BY <1>5, <2>2, LenProperties
    <3> QED BY <3>1, <3>2 DEF Range
  <2> HIDE DEF front
  <2>5. Before(front \o f2, a, b)
    BY <1>6, <2>2, <2>3, <2>4, ConcatOrder
  <2> QED BY <2>1, <2>5 DEF front
<1>7. QueueOrder'
  <2> SUFFICES ASSUME NEW p \in Prompts, NEW k \in 2 .. Len(p.hashes), table[p.hashes[k]] # NoBlock
               PROVE  /\ table[p.hashes[k - 1]] # NoBlock
                      /\ ref'[table[p.hashes[k - 1]]] = 0 =>
                           /\ ref'[table[p.hashes[k]]] = 0
                           /\ Before(free', table[p.hashes[k]], table[p.hashes[k - 1]])
    BY <1>1 DEF QueueOrder
  <2> DEFINE c == table[p.hashes[k]]
             q == table[p.hashes[k - 1]]
  <2>1. /\ q # NoBlock
        /\ ref[q] = 0 => ref[c] = 0 /\ Before(free, c, q)
    BY DEF QueueOrder
  <2>2. /\ Len(p.hashes) \in Nat /\ k \in 1 .. Len(p.hashes) /\ k - 1 \in 1 .. Len(p.hashes) /\ k > 1
        /\ p.hashes[k] \in Hash /\ p.hashes[k - 1] \in Hash
        /\ p.hashes[k] \in PromptHash /\ p.hashes[k - 1] \in PromptHash
    <3>1. /\ Len(p.hashes) \in Nat
          /\ \A l \in 1 .. Len(p.hashes) : p.hashes[l] \in PromptHash /\ p.hashes[l] \in Hash
      BY PromptHashes
    <3>2. k \in 1 .. Len(p.hashes) /\ k - 1 \in 1 .. Len(p.hashes) /\ k > 1
      BY <3>1
    <3> QED BY <3>1, <3>2
  <2>3. c \in Block /\ q \in Block /\ hash[c] = p.hashes[k] /\ hash[q] = p.hashes[k - 1]
    <3>1. table \in [Hash -> Block \cup {NoBlock}]
      BY DEF IInv, TypeOK, PoolTypeOK
    <3>2. c \in Block /\ q \in Block
      BY <2>1, <2>2, <3>1
    <3> QED BY <2>1, <2>2, <3>2 DEF IInv, TableSound
  <2> HIDE DEF c, q
  <2>4. hash[c] # NoHash /\ hash[q] # NoHash
    BY <2>2, <2>3, HashAssumption
  <2>5. ref[c] \in Nat /\ ref[q] \in Nat
    BY <2>3, HeldReferenced
  <2>6. c \in Range(bids) => ref[c] >= 1
    BY <1>2, <2>3, HeldReferenced
  <2>7. SUFFICES ASSUME ref'[q] = 0 PROVE ref'[c] = 0 /\ Before(free', c, q)
    BY <2>1 DEF c, q
  <2>8. CASE ref[q] = 0
    <3>1. ref[c] = 0 /\ Before(free, c, q)
      BY <2>1, <2>8
    <3>2. ref'[c] = 0
      BY <1>1, <2>3, <2>6, <3>1
    <3> QED BY <1>6, <2>3, <3>1, <3>2
  <2>9. CASE ref[q] # 0
    <3>1. q \in Range(bids) /\ ref[q] = 1
      BY <1>1, <2>3, <2>5, <2>7, <2>9
    <3>2. q \in Range(f2)
      BY <1>5, <2>4, <3>1
    <3>3. CASE ref[c] = 0
      <4>1. ref'[c] = 0 /\ c \in Range(free)
        BY <1>1, <1>5, <2>3, <2>6, <3>3
      <4> QED BY <1>6, <2>3, <3>2, <4>1
    <3>4. CASE ref[c] >= 1
      <4>1. ASSUME NEW i \in 1 .. Len(inFlight), c \in Range(inFlight[i])
            PROVE  /\ i = 1 /\ k \in 1 .. Len(bids) /\ k - 1 \in 1 .. Len(bids)
                   /\ bids[k] = c /\ bids[k - 1] = q
        <5>1. inFlight[i] \in Seq(Block)
          BY <1>2, ElementOfSeq
        <5>2. DOMAIN inFlight[i] = 1 .. Len(inFlight[i]) /\ Len(inFlight[i]) \in Nat
          BY <5>1, LenProperties
        <5>3. PICK j \in 1 .. Len(inFlight[i]) : inFlight[i][j] = c
          BY <4>1, <5>2 DEF Range
        <5>4. j = k /\ inFlight[i][k - 1] = q
          BY <2>2, <2>3, <5>3 DEF HeldChain, q
        <5>5. k \in 1 .. Len(inFlight[i]) /\ k - 1 \in 1 .. Len(inFlight[i])
          BY <2>2, <5>2, <5>4
        <5>6. q \in Range(inFlight[i])
          BY <5>2, <5>4, <5>5 DEF Range
        <5>7. i = 1
          BY <1>2, <2>3, <3>1, <5>6, HeldReferenced
        <5> QED BY <1>2, <5>3, <5>4, <5>5, <5>7
      <4>2. \E i \in 1 .. Len(inFlight) : c \in Range(inFlight[i])
        BY <2>3, <3>4, HeldReferenced
      <4>3. k \in 1 .. Len(bids) /\ k - 1 \in 1 .. Len(bids) /\ bids[k] = c /\ bids[k - 1] = q
        BY <4>1, <4>2
      <4>4. c \in Range(bids)
        BY <1>4, <4>3 DEF Range
      <4>5. ref[c] = 1
        <5>1. \A i \in 1 .. Len(inFlight) : c \in Range(inFlight[i]) <=> 1 = i
          BY <1>2, <4>1, <4>4
        <5> QED BY <1>2, <2>3, <5>1, HeldReferenced
      <4>6. ref'[c] = 0
        BY <1>1, <2>3, <4>4, <4>5
      <4>7. c \in freed \ blank /\ q \in freed \ blank
        BY <2>4, <3>1, <4>4, <4>5
      <4>8. Before(back, c, q)
        <5>1. k - 1 < k
          BY <2>2
        <5> QED BY <1>2, <4>3, <5>1, BackwardsOrder DEF ReleaseOrder
      <4> HIDE DEF freed, blank, back
      <4>9. Before(f2, c, q)
        BY <1>5, <4>7, <4>8, FilteredOrder
      <4> HIDE DEF f2
      <4> QED BY <1>6, <2>3, <4>6, <4>9
    <3> QED BY <2>5, <3>3, <3>4
  <2> QED BY <2>8, <2>9
<1> QED BY <1>3, <1>7

-----------------------------------------------------------------------------
(* Admission keeps the order of the free queue.                            *)

(* Past the hits nothing of the prompt is cached, but for its last block   *)
(* where the cap ended the lookup before it.                               *)
LEMMA NothingBeyondHits ==
  ASSUME IInv, QueueOrder, LookupLongest, Admit,
         NEW j \in 1 .. Len(req.hashes), j > Len(hits), table[req.hashes[j]] # NoBlock
  PROVE  j = Len(req.hashes) /\ req.tokens % BlockSize = 0
<1> DEFINE n == Len(hits)
           L == Len(req.hashes)
<1>1. req \in Prompts /\ n \in Nat /\ n <= MaxHits(req) /\ L \in Nat /\ pc = "admit" /\ MaxHits(req) \in Nat
  BY AdmitBlocks, PromptHashes, Sizes DEF Admit
<1> HIDE DEF n, L
<1>2. \A k \in 1 .. L : req.hashes[k] \in PromptHash /\ req.hashes[k] \in Hash
  BY <1>1, PromptHashes DEF L
<1>3. ASSUME n < MaxHits(req) PROVE FALSE
  <2> DEFINE later == [i \in 1 .. L - n |-> table[req.hashes[n + i]]]
  <2>1. table[req.hashes[n + 1]] = NoBlock
    BY <1>1, <1>3 DEF LookupLongest, n
  <2>2. \A i \in 1 .. L - n : n + i \in 1 .. L
    BY <1>1
  <2>3. \A i \in 1 .. L - n : table[req.hashes[n + i]] \in Block \cup {NoBlock}
    BY <1>2, <2>2 DEF IInv, TypeOK, PoolTypeOK
  <2>4. L - n \in Nat /\ j - n \in 1 .. L - n /\ n + (j - n) = j
    BY <1>1 DEF n, L
  <2>5. later \in Seq(Block \cup {NoBlock}) /\ Len(later) = L - n
    <3>1. later \in [1 .. L - n -> Block \cup {NoBlock}]
      BY <2>3
    <3> QED BY <2>4, <3>1, SeqDef, LenProperties
  <2>6. later[j - n] = table[req.hashes[j]]
    BY <2>4
  <2>7. \A i \in 1 .. L - n : later[i] = table[req.hashes[n + i]]
    OBVIOUS
  <2> HIDE DEF later
  <2>8. j - n \in KeptAt(later, Block)
    BY <2>3, <2>4, <2>5, <2>6 DEF KeptAt
  <2>9. PICK i \in 1 .. L - n : later[i] \in Block /\ \A k \in 1 .. i - 1 : later[k] \notin Block
    BY <2>5, <2>8, FirstKept
  <2>10. NoBlock \notin Block
    BY PoolAssumption DEF Block, NoBlock
  <2>11. i # 1
    BY <2>1, <2>7, <2>9, <2>10
  <2>12. /\ i - 1 \in 1 .. L - n /\ i - 1 \in 1 .. i - 1 /\ n + i \in 2 .. L
         /\ n + i - 1 = n + (i - 1)
    BY <1>1, <2>4, <2>9, <2>11
  <2>13. table[req.hashes[n + i]] # NoBlock
    BY <2>7, <2>9, <2>10
  <2>14. table[req.hashes[n + i - 1]] # NoBlock
    BY <1>1, <2>12, <2>13 DEF QueueOrder, L
  <2>15. later[i - 1] \in Block
    BY <2>3, <2>7, <2>12, <2>14
  <2> QED BY <2>9, <2>12, <2>15
<1>4. j > MaxHits(req)
  BY <1>1, <1>3 DEF n
<1> QED BY <1>1, <1>4, BeyondCap

(* The table after admission, for the prompt and for the other hashes.     *)
LEMMA AdmitEntries ==
  ASSUME IInv, QueueOrder, LookupLongest, Admit
  PROVE  /\ \A j \in 1 .. Len(req.hashes) :
              /\ table'[req.hashes[j]] \in Block
              /\ j < Len(req.hashes) => table'[req.hashes[j]] = AdmitBids[j]
              /\ \/ table'[req.hashes[j]] = AdmitBids[j]
                 \/ /\ j = Len(req.hashes) /\ req.tokens % BlockSize = 0
                    /\ table'[req.hashes[j]] = table[req.hashes[j]]
                    /\ table[req.hashes[j]] \notin Range(AdmitBids)
         /\ \A h \in PromptHash : h \notin Range(req.hashes) =>
              /\ table[h] \notin Range(hits)
              /\ table[h] \notin AdmitPopped => table'[h] = table[h]
              /\ table[h] \in AdmitPopped => table'[h] = NoBlock
<1>1. /\ req \in Prompts /\ Len(hits) \in Nat /\ Len(hits) <= Len(req.hashes)
      /\ Len(req.hashes) <= BlocksFor(req) /\ BlocksFor(req) \in Nat
      /\ AdmitBids \in Seq(Block) /\ Len(AdmitBids) = BlocksFor(req)
      /\ Range(AdmitBids) = Range(hits) \cup AdmitPopped
      /\ \A k \in 1 .. Len(hits) : AdmitBids[k] = hits[k] /\ hits[k] \in Range(hits)
  <2>1. FullBlocks(req) \in Nat /\ Len(req.hashes) <= FullBlocks(req) /\ FullBlocks(req) <= BlocksFor(req) /\ BlocksFor(req) \in Nat
    BY AdmitBlocks
  <2>2. req \in Prompts
    BY AdmitBlocks
  <2>3. Len(req.hashes) \in Nat
    BY <2>2, PromptHashes
  <2>4. Len(req.hashes) <= BlocksFor(req)
    BY <2>1, <2>3
  <2> QED BY <2>1, <2>4, AdmitBlocks
<1>2. /\ Len(req.hashes) \in Nat /\ Range(req.hashes) = {req.hashes[k] : k \in 1 .. Len(req.hashes)}
      /\ \A k \in 1 .. Len(req.hashes) : req.hashes[k] \in PromptHash /\ req.hashes[k] \in Hash
  BY <1>1, PromptHashes
<1>3. NoBlock \notin Block /\ table \in [Hash -> Block \cup {NoBlock}]
  BY PoolAssumption DEF Block, NoBlock, IInv, TypeOK, PoolTypeOK
<1>4. \A k \in 1 .. Len(req.hashes) : AdmitBids[k] \in Block
  <2>1. \A k \in 1 .. Len(AdmitBids) : AdmitBids[k] \in Block
    BY <1>1, ElementOfSeq
  <2> QED BY <1>1, <1>2, <2>1
<1>5. DOMAIN hits = 1 .. Len(hits) /\ pc = "admit"
  BY LenProperties DEF IInv, TypeOK, CallTypeOK, Admit
<1>6. \A k \in 1 .. Len(hits) : hits[k] \in Block /\ table[req.hashes[k]] = hits[k] /\ hash[hits[k]] = req.hashes[k]
  <2>1. \A k \in 1 .. Len(hits) : hits[k] \in Block
    BY ElementOfSeq DEF IInv, TypeOK, CallTypeOK
  <2>2. \A k \in 1 .. Len(hits) : table[req.hashes[k]] = hits[k]
    BY <1>5 DEF IInv, HitsStayCached
  <2>3. \A k \in 1 .. Len(hits) : req.hashes[k] \in Hash
    BY <1>1, <1>2
  <2> QED BY <1>3, <2>1, <2>2, <2>3 DEF IInv, TableSound
<1>7. ASSUME NEW j \in 1 .. Len(req.hashes)
      PROVE  \/ table'[req.hashes[j]] = AdmitBids[j]
             \/ /\ j = Len(req.hashes) /\ req.tokens % BlockSize = 0
                /\ table'[req.hashes[j]] = table[req.hashes[j]]
                /\ table[req.hashes[j]] \in Block
                /\ table[req.hashes[j]] \notin Range(AdmitBids)
  <2> DEFINE h == req.hashes[j]
  <2>1. CASE j <= Len(hits)
    <3>1. j \in 1 .. Len(hits)
      BY <1>1, <1>2, <2>1
    <3> QED BY <1>1, <2>1, <3>1, AdmitRecords
  <2>2. CASE j > Len(hits)
    <3>1. table'[h] = IF table[h] = NoBlock \/ table[h] \in AdmitPopped THEN AdmitBids[j] ELSE table[h]
      BY <2>2, AdmitRecords
    <3>2. CASE table[h] = NoBlock \/ table[h] \in AdmitPopped
      BY <3>1, <3>2
    <3>3. CASE ~(table[h] = NoBlock \/ table[h] \in AdmitPopped)
      <4>1. j = Len(req.hashes) /\ req.tokens % BlockSize = 0
        BY <2>2, <3>3, NothingBeyondHits
      <4>2. table'[h] = table[h] /\ table[h] \in Block
        BY <1>2, <1>3, <3>1, <3>3
      <4>3. table[h] \notin Range(hits)
        <5>1. ASSUME NEW k \in 1 .. Len(hits), hits[k] = table[h] PROVE FALSE
          <6>1. hash[table[h]] = h
            BY <1>2, <1>3, <4>2 DEF IInv, TableSound
          <6>2. req.hashes[k] = h /\ k \in 1 .. Len(req.hashes)
            BY <1>1, <1>2, <1>6, <5>1, <6>1
          <6>3. k = j
            BY <1>1, <6>2, OneParent
          <6> QED BY <1>1, <2>2, <5>1, <6>3
        <5> QED BY <1>5, <5>1 DEF Range
      <4> QED BY <1>1, <3>3, <4>1, <4>2, <4>3
    <3> QED BY <3>2, <3>3
  <2> QED BY <1>1, <1>2, <2>1, <2>2
<1>8. ASSUME NEW h \in PromptHash, h \notin Range(req.hashes)
      PROVE  /\ table[h] \notin Range(hits)
             /\ table[h] \notin AdmitPopped => table'[h] = table[h]
             /\ table[h] \in AdmitPopped => table'[h] = NoBlock
  <2>1. table'[h] = IF table[h] \in AdmitPopped THEN NoBlock ELSE table[h]
    BY <1>8, AdmitRecords
  <2>2. h \in Hash
    BY DEF Hash
  <2>3. ASSUME NEW k \in 1 .. Len(hits), hits[k] = table[h] PROVE FALSE
    <3>1. hash[table[h]] = h
      BY <1>3, <1>6, <2>2, <2>3 DEF IInv, TableSound
    <3>2. req.hashes[k] = h /\ k \in 1 .. Len(req.hashes)
      BY <1>1, <1>2, <1>6, <2>3, <3>1
    <3> QED BY <1>2, <1>8, <3>2
  <2>4. table[h] \notin Range(hits)
    BY <1>5, <2>3 DEF Range
  <2> QED BY <2>1, <2>4
<1>9. \A j \in 1 .. Len(req.hashes) :
         /\ table'[req.hashes[j]] \in Block
         /\ j < Len(req.hashes) => table'[req.hashes[j]] = AdmitBids[j]
  BY <1>2, <1>4, <1>7
<1> QED BY <1>7, <1>8, <1>9

(* An entry whose block is in use stays.                                   *)
LEMMA AdmitPins ==
  ASSUME IInv, Admit, NEW h \in PromptHash, table[h] \in Block, ref[table[h]] # 0
  PROVE  table'[h] = table[h]
<1>1. req \in Prompts /\ AdmitPopped \subseteq Idle /\ pc = "admit" /\ Len(hits) \in Nat
  BY AdmitBlocks DEF Admit
<1>2. table[h] \notin AdmitPopped /\ table[h] # NoBlock
  BY <1>1, PoolAssumption DEF Idle, Block, NoBlock
<1>3. CASE h \notin Range(req.hashes)
  BY <1>2, <1>3, AdmitRecords
<1>4. CASE h \in Range(req.hashes)
  <2>1. PICK j \in 1 .. Len(req.hashes) : h = req.hashes[j]
    BY <1>1, <1>4, PromptHashes
  <2>2. Len(req.hashes) \in Nat
    BY <1>1, PromptHashes
  <2>3. CASE j <= Len(hits)
    <3>1. table'[h] = hits[j]
      BY <2>1, <2>3, AdmitRecords
    <3>2. j \in DOMAIN hits
      BY <1>1, <2>2, <2>3, LenProperties DEF IInv, TypeOK, CallTypeOK
    <3> QED BY <1>1, <2>1, <3>1, <3>2 DEF IInv, HitsStayCached
  <2>4. CASE j > Len(hits)
    BY <1>2, <2>1, <2>4, AdmitRecords
  <2> QED BY <1>1, <2>2, <2>3, <2>4
<1> QED BY <1>3, <1>4

(* Reference counts after admission.                                       *)
LEMMA AdmitRefs ==
  ASSUME IInv, Admit, NEW b \in Block
  PROVE  /\ ref'[b] \in Nat /\ ref[b] \in Nat
         /\ b \in Range(AdmitBids) => ref'[b] # 0
         /\ b \notin Range(AdmitBids) => ref'[b] = ref[b]
<1>1. ref' = RefOnAdmit(AdmitPopped) /\ Range(AdmitBids) = Range(hits) \cup AdmitPopped
  BY AdmitBlocks
<1>2. ref'[b] = IF b \in AdmitPopped THEN 1 ELSE IF b \in Range(hits) THEN ref[b] + 1 ELSE ref[b]
  BY <1>1 DEF RefOnAdmit
<1>3. ref[b] \in Nat
  BY DEF IInv, TypeOK, PoolTypeOK
<1> QED BY <1>1, <1>2, <1>3

(* What a request is admitted with continues the chain of its hits.        *)
LEMMA AdmitHeld ==
  ASSUME IInv, HeldChain, QueueOrder, LookupLongest, Admit
  PROVE  HeldChain'
<1>1. /\ req \in Prompts /\ Len(hits) \in Nat
      /\ Len(req.hashes) <= FullBlocks(req) /\ FullBlocks(req) <= BlocksFor(req)
      /\ FullBlocks(req) \in Nat /\ BlocksFor(req) \in Nat
      /\ AdmitBids \in Seq(Block) /\ Len(AdmitBids) = BlocksFor(req)
      /\ AdmitPopped \subseteq Idle /\ AdmitPopped \cap Range(hits) = {}
      /\ \A k \in 1 .. Len(hits) : AdmitBids[k] = hits[k] /\ hits[k] \in Range(hits)
      /\ inFlight' = Append(inFlight, AdmitBids)
  BY AdmitBlocks
<1>2. Len(req.hashes) \in Nat /\ \A k \in 1 .. Len(req.hashes) : req.hashes[k] \in PromptHash /\ req.hashes[k] \in Hash
  BY <1>1, PromptHashes
<1>3. /\ inFlight \in Seq(Seq(Block)) /\ Len(inFlight) \in Nat
      /\ Len(inFlight') = Len(inFlight) + 1
      /\ \A i \in 1 .. Len(inFlight) : inFlight'[i] = inFlight[i]
      /\ inFlight'[Len(inFlight) + 1] = AdmitBids
  BY <1>1, AppendProperties, LenProperties DEF IInv, TypeOK, PoolTypeOK
<1>4. ASSUME NEW i \in 1 .. Len(inFlight), NEW j \in 1 .. Len(inFlight[i]),
             NEW p \in Prompts, NEW k \in 1 .. Len(p.hashes), hash'[inFlight[i][j]] = p.hashes[k]
      PROVE  j = k /\ (k > 1 => table'[p.hashes[k - 1]] = inFlight[i][k - 1])
  <2>1. inFlight[i] \in Seq(Block) /\ Len(inFlight[i]) \in Nat /\ DOMAIN inFlight[i] = 1 .. Len(inFlight[i])
    BY <1>3, ElementOfSeq, LenProperties
  <2>2. \A l \in 1 .. Len(inFlight[i]) : inFlight[i][l] \in Block /\ ref[inFlight[i][l]] # 0
    <3>1. \A l \in 1 .. Len(inFlight[i]) : inFlight[i][l] \in Block /\ inFlight[i][l] \in Range(inFlight[i])
      BY <2>1, ElementOfSeq DEF Range
    <3> QED BY <3>1, HeldReferenced
  <2>3. inFlight[i][j] \in Block \ AdmitPopped
    BY <1>1, <2>2 DEF Idle
  <2>4. hash[inFlight[i][j]] = p.hashes[k]
    BY <1>4, <2>3, AdmitRecords
  <2>5. j = k /\ (k > 1 => table[p.hashes[k - 1]] = inFlight[i][k - 1])
    BY <2>4 DEF HeldChain
  <2>6. ASSUME k > 1 PROVE table'[p.hashes[k - 1]] = inFlight[i][k - 1]
    <3>1. Len(p.hashes) \in Nat /\ \A l \in 1 .. Len(p.hashes) : p.hashes[l] \in PromptHash
      BY PromptHashes
    <3>2. k - 1 \in 1 .. Len(inFlight[i]) /\ k - 1 \in 1 .. Len(p.hashes)
      BY <2>1, <2>5, <2>6, <3>1
    <3>3. table[p.hashes[k - 1]] \in Block /\ ref[table[p.hashes[k - 1]]] # 0
      BY <2>2, <2>5, <2>6, <3>2
    <3>4. p.hashes[k - 1] \in PromptHash
      BY <3>1, <3>2
    <3> QED BY <2>5, <2>6, <3>3, <3>4, AdmitPins
  <2> QED BY <2>5, <2>6
<1>5. ASSUME NEW j \in 1 .. Len(AdmitBids),
             NEW p \in Prompts, NEW k \in 1 .. Len(p.hashes), hash'[AdmitBids[j]] = p.hashes[k]
      PROVE  j = k /\ (k > 1 => table'[p.hashes[k - 1]] = AdmitBids[k - 1])
  <2>1. j \in 1 .. BlocksFor(req) /\ p.hashes[k] \in PromptHash /\ Len(p.hashes) \in Nat
    BY <1>1, PromptHashes
  <2>2. j \in 1 .. Len(req.hashes) /\ req.hashes[j] = p.hashes[k]
    <3>1. CASE j <= Len(hits)
      <4>1. j \in 1 .. Len(hits) /\ DOMAIN hits = 1 .. Len(hits) /\ pc = "admit"
        BY <1>1, <2>1, <3>1, LenProperties DEF IInv, TypeOK, CallTypeOK, Admit
      <4>2. j \in 1 .. Len(req.hashes)
        BY <1>2, <4>1, AdmitBlocks
      <4>3. hits[j] \in Block
        BY <4>1, ElementOfSeq DEF IInv, TypeOK, CallTypeOK
      <4>4. hits[j] \in Block \ AdmitPopped /\ AdmitBids[j] = hits[j]
        BY <1>1, <4>1, <4>3
      <4>5. hash[hits[j]] = p.hashes[k]
        BY <1>5, <4>4, AdmitRecords
      <4>6. table[req.hashes[j]] = hits[j] /\ hits[j] # NoBlock
        BY <4>1, <4>3, PoolAssumption DEF IInv, HitsStayCached, Block, NoBlock
      <4>7. hash[hits[j]] = req.hashes[j]
        BY <1>2, <4>2, <4>6 DEF IInv, TableSound
      <4> QED BY <4>2, <4>5, <4>7
    <3>2. CASE j > Len(hits)
      <4>1. j \in Len(hits) + 1 .. BlocksFor(req)
        BY <1>1, <2>1, <3>2
      <4>2. p.hashes[k] = IF j <= FullBlocks(req) THEN KeyAt(req, j) ELSE NoHash
        BY <1>5, <4>1, AdmitRecords
      <4>3. j <= FullBlocks(req) /\ KeyAt(req, j) = p.hashes[k]
        BY <2>1, <4>2, HashAssumption
      <4>4. j \in 1 .. FullBlocks(req)
        BY <1>1, <2>1, <4>3
      <4> QED BY <1>1, <2>1, <4>3, <4>4, KeyOfPromptHash
    <3> QED BY <1>1, <2>1, <3>1, <3>2
  <2>3. j = k /\ (k > 1 => req.hashes[k - 1] = p.hashes[k - 1])
    BY <1>1, <2>2, OneParent
  <2>4. ASSUME k > 1 PROVE table'[p.hashes[k - 1]] = AdmitBids[k - 1]
    <3>1. k - 1 \in 1 .. Len(req.hashes) /\ k - 1 < Len(req.hashes)
      BY <1>2, <2>2, <2>3, <2>4
    <3> QED BY <2>3, <2>4, <3>1, AdmitEntries
  <2> QED BY <2>3, <2>4
<1> SUFFICES ASSUME NEW i \in 1 .. Len(inFlight'), NEW j \in 1 .. Len(inFlight'[i]),
                    NEW p \in Prompts, NEW k \in 1 .. Len(p.hashes), hash'[inFlight'[i][j]] = p.hashes[k]
             PROVE  j = k /\ (k > 1 => table'[p.hashes[k - 1]] = inFlight'[i][k - 1])
  BY DEF HeldChain
<1>6. CASE i \in 1 .. Len(inFlight)
  <2>1. inFlight'[i] = inFlight[i]
    BY <1>3, <1>6
  <2>2. j \in 1 .. Len(inFlight[i]) /\ hash'[inFlight[i][j]] = p.hashes[k]
    BY <2>1
  <2>3. j = k /\ (k > 1 => table'[p.hashes[k - 1]] = inFlight[i][k - 1])
    BY <1>4, <1>6, <2>2
  <2> QED BY <2>1, <2>3
<1>7. CASE i = Len(inFlight) + 1
  BY <1>3, <1>5, <1>7
<1> QED BY <1>3, <1>6, <1>7

(* Popping blocks off the head of the queue takes a cached parent only     *)
(* after its children; the parents of what is new are held by the request. *)
LEMMA AdmitOrder ==
  ASSUME IInv, QueueOrder, LookupLongest, Admit
  PROVE  QueueOrder'
<1>1. /\ req \in Prompts
      /\ AdmitBids \in Seq(Block) /\ Range(AdmitBids) = Range(hits) \cup AdmitPopped
      /\ Len(req.hashes) <= FullBlocks(req) /\ FullBlocks(req) <= BlocksFor(req)
      /\ FullBlocks(req) \in Nat /\ BlocksFor(req) \in Nat
      /\ DOMAIN AdmitBids = 1 .. BlocksFor(req)
      /\ Untouched \in Seq(Block) /\ IsInjective(Untouched) /\ Need \in 0 .. Len(Untouched)
      /\ AdmitPopped = Range(SubSeq(Untouched, 1, Need))
      /\ free' = SubSeq(Untouched, Need + 1, Len(Untouched))
  BY AdmitBlocks
<1>2. /\ Len(req.hashes) \in Nat /\ Range(req.hashes) = {req.hashes[k] : k \in 1 .. Len(req.hashes)}
  BY <1>1, PromptHashes
<1>3. NoBlock \notin Block /\ table \in [Hash -> Block \cup {NoBlock}] /\ free \in Seq(Block)
  BY PoolAssumption DEF Block, NoBlock, IInv, TypeOK, PoolTypeOK
<1>4. ASSUME NEW p \in Prompts, NEW k \in 2 .. Len(p.hashes), table'[p.hashes[k]] # NoBlock
      PROVE  /\ table'[p.hashes[k - 1]] # NoBlock
             /\ ref'[table'[p.hashes[k - 1]]] = 0 =>
                  /\ ref'[table'[p.hashes[k]]] = 0
                  /\ Before(free', table'[p.hashes[k]], table'[p.hashes[k - 1]])
  <2>1. /\ Len(p.hashes) \in Nat /\ k \in 1 .. Len(p.hashes) /\ k - 1 \in 1 .. Len(p.hashes) /\ k > 1
        /\ p.hashes[k] \in Hash /\ p.hashes[k - 1] \in Hash
        /\ p.hashes[k] \in PromptHash /\ p.hashes[k - 1] \in PromptHash
    <3>1. /\ Len(p.hashes) \in Nat
          /\ \A l \in 1 .. Len(p.hashes) : p.hashes[l] \in PromptHash /\ p.hashes[l] \in Hash
      BY PromptHashes
    <3>2. k \in 1 .. Len(p.hashes) /\ k - 1 \in 1 .. Len(p.hashes) /\ k > 1
      BY <3>1
    <3> QED BY <3>1, <3>2
  <2>2. CASE p.hashes[k] \in Range(req.hashes)
    <3>1. PICK j \in 1 .. Len(req.hashes) : p.hashes[k] = req.hashes[j]
      BY <1>2, <2>2
    <3>2. k = j /\ p.hashes[k - 1] = req.hashes[k - 1]
      BY <1>1, <2>1, <3>1, OneParent
    <3>3. k - 1 \in 1 .. Len(req.hashes) /\ k - 1 < Len(req.hashes) /\ k - 1 \in 1 .. BlocksFor(req)
      BY <1>1, <1>2, <2>1, <3>2
    <3>4. table'[p.hashes[k - 1]] = AdmitBids[k - 1] /\ table'[p.hashes[k - 1]] \in Block
      BY <3>2, <3>3, AdmitEntries
    <3>5. AdmitBids[k - 1] \in Range(AdmitBids)
      BY <1>1, <3>3 DEF Range
    <3>6. ref'[table'[p.hashes[k - 1]]] # 0
      BY <3>4, <3>5, AdmitRefs
    <3> QED BY <1>3, <3>4, <3>6
  <2>3. CASE p.hashes[k] \notin Range(req.hashes)
    <3> DEFINE c == table[p.hashes[k]]
               q == table[p.hashes[k - 1]]
    <3>1. table'[p.hashes[k]] = c /\ c # NoBlock /\ c \notin AdmitPopped /\ c \notin Range(hits)
      BY <1>4, <2>1, <2>3, AdmitEntries
    <3>2. q # NoBlock /\ (ref[q] = 0 => ref[c] = 0 /\ Before(free, c, q))
      BY <3>1 DEF QueueOrder
    <3>3. c \in Block /\ q \in Block
      BY <1>3, <2>1, <3>1, <3>2
    <3> HIDE DEF c, q
    <3>4. c \notin Range(AdmitBids)
      BY <1>1, <3>1
    <3>5. ASSUME ref[q] = 0, q \notin Range(hits)
          PROVE  /\ q \notin AdmitPopped
                 /\ ref'[c] = 0 /\ Before(free', c, q)
      <4>1. ref[c] = 0 /\ Before(free, c, q)
        BY <3>2, <3>5
      <4>2. c \in Block \ Range(hits) /\ q \in Block \ Range(hits)
        BY <3>1, <3>3, <3>5
      <4>3. Before(Untouched, c, q)
        BY <1>3, <4>1, <4>2, FilteredOrder DEF Untouched
      <4>4. /\ q \in Range(SubSeq(Untouched, 1, Need)) => c \in Range(SubSeq(Untouched, 1, Need))
            /\ c \notin Range(SubSeq(Untouched, 1, Need)) => Before(SubSeq(Untouched, Need + 1, Len(Untouched)), c, q)
        BY <1>1, <4>3, CutOrder
      <4>5. ref'[c] = 0
        BY <3>3, <3>4, <4>1, AdmitRefs
      <4> QED BY <1>1, <3>1, <4>4, <4>5
    <3>6. CASE p.hashes[k - 1] \in Range(req.hashes)
      <4>1. PICK j \in 1 .. Len(req.hashes) : p.hashes[k - 1] = req.hashes[j]
        BY <1>2, <3>6
      <4>2. table'[p.hashes[k - 1]] \in Block
        BY <4>1, AdmitEntries
      <4>3. CASE table'[req.hashes[j]] = AdmitBids[j]
        <5>1. j \in 1 .. BlocksFor(req)
          BY <1>1, <1>2
        <5>2. AdmitBids[j] \in Range(AdmitBids)
          BY <1>1, <5>1 DEF Range
        <5>3. ref'[table'[p.hashes[k - 1]]] # 0
          BY <4>1, <4>2, <4>3, <5>2, AdmitRefs
        <5> QED BY <1>3, <4>2, <5>3
      <4>4. CASE table'[req.hashes[j]] = table[req.hashes[j]] /\ table[req.hashes[j]] \notin Range(AdmitBids)
        <5>1. table'[p.hashes[k - 1]] = q /\ q \notin Range(AdmitBids)
          BY <4>1, <4>4 DEF q
        <5>2. q \notin Range(hits) /\ ref'[q] = ref[q]
          BY <1>1, <3>3, <5>1, AdmitRefs
        <5> QED BY <3>1, <3>2, <3>5, <5>1, <5>2
      <4> QED BY <4>3, <4>4, AdmitEntries
    <3>7. CASE p.hashes[k - 1] \notin Range(req.hashes)
      <4>1. /\ q \notin Range(hits)
            /\ q \notin AdmitPopped => table'[p.hashes[k - 1]] = q
        BY <2>1, <3>7, AdmitEntries DEF q
      <4>2. CASE q \in AdmitPopped
        <5>1. ref[q] = 0
          BY <4>2, AdmitBlocks DEF Idle
        <5> QED BY <3>5, <4>1, <4>2, <5>1
      <4>3. CASE q \notin AdmitPopped
        <5>1. table'[p.hashes[k - 1]] = q /\ ref'[q] = ref[q]
          BY <1>1, <3>3, <4>1, <4>3, AdmitRefs
        <5> QED BY <3>1, <3>2, <3>5, <4>1, <5>1
      <4> QED BY <4>2, <4>3
    <3> QED BY <3>6, <3>7
  <2> QED BY <2>2, <2>3
<1> QED BY <1>4 DEF QueueOrder

(* The only prompt block registered beside a cached one is the last block  *)
(* of a prompt that ends on a block boundary.                              *)
LEMMA AdmitStray ==
  ASSUME IInv, QueueOrder, LookupLongest, StrayAtCap, Admit
  PROVE  StrayAtCap'
<1>1. /\ req \in Prompts /\ Len(hits) \in Nat /\ FullBlocks(req) \in Nat /\ BlocksFor(req) \in Nat
      /\ Range(AdmitBids) = Range(hits) \cup AdmitPopped
      /\ FullBlocks(req) <= BlocksFor(req)
  BY AdmitBlocks
<1>2. /\ Len(req.hashes) \in Nat /\ Range(req.hashes) = {req.hashes[k] : k \in 1 .. Len(req.hashes)}
      /\ \A k \in 1 .. Len(req.hashes) : req.hashes[k] \in PromptHash
  BY <1>1, PromptHashes
<1>3. ASSUME NEW b \in Block, hash'[b] \in PromptHash, table'[hash'[b]] # b
      PROVE  AtCap(hash'[b])
  <2>1. CASE b \in AdmitPopped
    <3>1. PICK k \in Len(hits) + 1 .. BlocksFor(req) : b = AdmitBids[k]
      BY <2>1 DEF AdmitPopped
    <3>2. hash'[b] = IF k <= FullBlocks(req) THEN KeyAt(req, k) ELSE NoHash
      BY <3>1, AdmitRecords
    <3>3. k <= FullBlocks(req) /\ KeyAt(req, k) \in PromptHash /\ hash'[b] = KeyAt(req, k)
      BY <1>3, <3>2, HashAssumption
    <3>4. k \in 1 .. FullBlocks(req)
      BY <1>1, <3>3
    <3>5. k \in 1 .. Len(req.hashes) /\ hash'[b] = req.hashes[k]
      BY <1>1, <3>3, <3>4, KeyOfPromptHash
    <3>6. k = Len(req.hashes) /\ req.tokens % BlockSize = 0
      BY <1>3, <3>1, <3>5, AdmitEntries
    <3> QED BY <1>1, <3>5, <3>6 DEF AtCap
  <2>2. CASE b \notin AdmitPopped
    <3>1. hash'[b] = hash[b]
      BY <2>2, AdmitRecords
    <3>2. CASE table[hash[b]] # b
      BY <1>3, <3>1, <3>2 DEF StrayAtCap
    <3>3. CASE table[hash[b]] = b
      <4> DEFINE h == hash[b]
      <4>1. h \in PromptHash /\ h \in Hash /\ table[h] = b /\ table'[h] # b
        BY <1>3, <3>1, <3>3 DEF Hash
      <4>2. h \in Range(req.hashes)
        BY <2>2, <4>1, AdmitEntries
      <4>3. PICK j \in 1 .. Len(req.hashes) : h = req.hashes[j]
        BY <1>2, <4>2
      <4>4. b # NoBlock
        BY PoolAssumption DEF Block, NoBlock
      <4>5. CASE j <= Len(hits)
        <5>1. table'[h] = hits[j]
          BY <4>3, <4>5, AdmitRecords
        <5>2. j \in DOMAIN hits /\ pc = "admit"
          BY <1>1, <1>2, <4>5, LenProperties DEF IInv, TypeOK, CallTypeOK, Admit
        <5> QED BY <4>1, <4>3, <5>1, <5>2 DEF IInv, HitsStayCached
      <4>6. CASE j > Len(hits)
        BY <2>2, <4>1, <4>3, <4>4, <4>6, AdmitRecords
      <4> QED BY <1>1, <1>2, <4>5, <4>6
    <3> QED BY <3>2, <3>3
  <2> QED BY <2>1, <2>2
<1> QED BY <1>3 DEF StrayAtCap, AtCap

-----------------------------------------------------------------------------
(* The invariant, and the refinement.                                      *)

(* reset() leaves nothing cached.                                          *)
LEMMA InitChain == Init => ChainInv
<1> SUFFICES ASSUME Init PROVE ChainInv
  OBVIOUS
<1>1. IInv
  BY InitInv
<1>2. inFlight = <<>> /\ Len(inFlight) = 0 /\ pc = "idle" /\ table = [h \in Hash |-> NoBlock] /\ hash = [b \in Block |-> NoHash]
  BY EmptySeq DEF Init
<1>3. HeldChain
  BY <1>2 DEF HeldChain
<1>4. QueueOrder
  <2>1. ASSUME NEW p \in Prompts, NEW k \in 2 .. Len(p.hashes) PROVE table[p.hashes[k]] = NoBlock
    <3>1. k \in 1 .. Len(p.hashes)
      BY PromptHashes
    <3> QED BY <1>2, <3>1, PromptHashes
  <2> QED BY <2>1 DEF QueueOrder
<1>5. LookupLongest
  BY <1>2 DEF LookupLongest
<1>6. StrayAtCap
  BY <1>2, HashAssumption DEF StrayAtCap
<1> QED BY <1>1, <1>3, <1>4, <1>5, <1>6 DEF ChainInv

(* Only admission and retirement disturb the chain.                        *)
LEMMA NextChain == ChainInv /\ [Next]_vars => ChainInv'
<1> SUFFICES ASSUME ChainInv, [Next]_vars PROVE ChainInv'
  OBVIOUS
<1>1. IInv /\ IInv' /\ HeldChain /\ QueueOrder /\ LookupLongest /\ StrayAtCap
  BY NextInv DEF ChainInv
<1>2. ASSUME UNCHANGED blockVars PROVE HeldChain' /\ QueueOrder' /\ StrayAtCap'
  BY <1>1, <1>2 DEF blockVars, HeldChain, QueueOrder, StrayAtCap, AtCap
<1>3. ASSUME NEW p \in Prompts, Submit(p) PROVE ChainInv'
  <2>1. /\ UNCHANGED blockVars /\ req' = p /\ table' = table
        /\ hits' = [k \in 1 .. HitLength(p) |-> table[p.hashes[k]]]
    BY <1>3 DEF Submit, blockVars
  <2>2. /\ HitLength(p) \in Nat
        /\ HitLength(p) < MaxHits(p) => table[p.hashes[HitLength(p) + 1]] = NoBlock
    <3>1. HitLength(p) \in 0 .. MaxHits(p) /\ MaxHits(p) \in Nat
      BY <1>1, HitLengthIs, Sizes DEF IInv, TypeOK
    <3> QED BY <1>1, <3>1, HitLengthIs DEF IInv, TypeOK
  <2>3. Len(hits') = HitLength(p)
    <3> DEFINE found == [k \in 1 .. HitLength(p) |-> table[p.hashes[k]]]
    <3>1. DOMAIN hits' = 1 .. HitLength(p)
      BY <2>1
    <3>2. hits' \in Seq(Block)
      BY <1>1 DEF IInv, TypeOK, CallTypeOK
    <3>3. Len(hits') \in Nat /\ DOMAIN hits' = 1 .. Len(hits')
      BY <3>2, LenProperties
    <3> QED BY <2>2, <3>1, <3>3
  <2>4. LookupLongest'
    BY <2>1, <2>2, <2>3 DEF LookupLongest
  <2> QED BY <1>1, <1>2, <2>1, <2>4 DEF ChainInv
<1>4. CASE Reject \/ Return \/ CallDrain
  <2>1. UNCHANGED blockVars /\ pc' # "admit"
    BY <1>4 DEF Reject, Return, CallDrain
  <2> QED BY <1>1, <1>2, <2>1 DEF ChainInv, LookupLongest
<1>5. CASE Stall \/ Trim \/ Drain
  <2>1. RetireOldest /\ (pc' = "admit" => pc = "admit" /\ req' = req /\ hits' = hits)
    BY <1>5 DEF Stall, Trim, Drain, callVars
  <2>2. inFlight # <<>>
    BY <1>1, <1>5, RetiringHasOne
  <2>3. HeldChain' /\ QueueOrder'
    BY <1>1, <2>1, <2>2, RetireOrder
  <2>4. table' = table /\ hash' = hash
    BY <2>1 DEF RetireOldest
  <2>5. LookupLongest' /\ StrayAtCap'
    BY <1>1, <2>1, <2>4 DEF LookupLongest, StrayAtCap, AtCap
  <2> QED BY <1>1, <2>3, <2>5 DEF ChainInv
<1>6. CASE Admit
  <2>1. HeldChain' /\ QueueOrder' /\ StrayAtCap'
    BY <1>1, <1>6, AdmitHeld, AdmitOrder, AdmitStray
  <2>2. LookupLongest'
    BY <1>6 DEF Admit, LookupLongest
  <2> QED BY <1>1, <2>1, <2>2 DEF ChainInv
<1>7. CASE UNCHANGED vars
  <2>1. LookupLongest'
    BY <1>1, <1>7 DEF vars, blockVars, callVars, LookupLongest
  <2> QED BY <1>1, <1>2, <1>7, <2>1 DEF ChainInv, vars
<1> QED BY <1>3, <1>4, <1>5, <1>6, <1>7 DEF Next, Step

(* The chain invariant holds in every reachable state of the simulator.    *)
LEMMA SpecChain == Spec => []ChainInv
  BY InitChain, NextChain, PTL DEF Spec

(* A hash is registered twice only for the last full block of a prompt     *)
(* that ends on a block boundary: all but one block with a prompt hash are *)
(* not the one the table points at.                                        *)
THEOREM DuplicatesJustified == Spec => []DuplicatesOnlyAtCap
<1>1. ASSUME ChainInv, NEW b \in Block, NEW c \in Block, b # c, hash[b] = hash[c], hash[b] \in PromptHash
      PROVE  AtCap(hash[b])
  <2>1. table[hash[b]] # b \/ table[hash[c]] # c
    BY <1>1
  <2> QED BY <1>1, <2>1 DEF ChainInv, StrayAtCap
<1>2. ChainInv => DuplicatesOnlyAtCap
  BY <1>1 DEF DuplicatesOnlyAtCap, AtCap
<1> QED BY <1>2, SpecChain, PTL

(* Admission serves: what it evicts nobody uses and the request has not    *)
(* hit, all it computes or shares is cached, and prefixes stay closed.     *)
LEMMA AdmitServes ==
  ASSUME ChainInv, Admit
  PROVE  Cache!Serve
<1>1. /\ IInv /\ QueueOrder /\ LookupLongest /\ QueueOrder'
  BY NextChain DEF ChainInv, Next, Step
<1>2. /\ req \in Prompts /\ Len(hits) \in Nat /\ Len(hits) <= Len(req.hashes) /\ Len(req.hashes) <= BlocksFor(req)
      /\ BlocksFor(req) \in Nat /\ AdmitPopped \subseteq Idle
      /\ Range(AdmitBids) = Range(hits) \cup AdmitPopped
      /\ Len(req.hashes) \in Nat
      /\ DOMAIN AdmitBids = 1 .. BlocksFor(req)
      /\ \A k \in 1 .. Len(req.hashes) : req.hashes[k] \in PromptHash
      /\ Range(req.hashes) = {req.hashes[k] : k \in 1 .. Len(req.hashes)}
  <2>1. /\ req \in Prompts /\ FullBlocks(req) \in Nat /\ BlocksFor(req) \in Nat
        /\ Len(req.hashes) <= FullBlocks(req) /\ FullBlocks(req) <= BlocksFor(req)
    BY <1>1, AdmitBlocks
  <2>2. /\ Len(req.hashes) \in Nat
        /\ \A k \in 1 .. Len(req.hashes) : req.hashes[k] \in PromptHash
        /\ Range(req.hashes) = {req.hashes[k] : k \in 1 .. Len(req.hashes)}
    BY <2>1, PromptHashes
  <2>3. Len(req.hashes) <= BlocksFor(req)
    BY <2>1, <2>2
  <2> QED BY <1>1, <2>1, <2>2, <2>3, AdmitBlocks
<1>3. NoBlock \notin Block /\ \A h \in PromptHash : table[h] \in Block \cup {NoBlock} /\ table'[h] \in Block \cup {NoBlock}
  <2>1. table \in [Hash -> Block \cup {NoBlock}] /\ table' \in [Hash -> Block \cup {NoBlock}]
    BY <1>1, NextChain DEF ChainInv, Next, Step, IInv, TypeOK, PoolTypeOK
  <2> QED BY <2>1, PoolAssumption DEF Block, NoBlock, Hash
<1>4. \A k \in 1 .. Len(hits) : /\ k \in 1 .. Len(req.hashes)
                                /\ table[req.hashes[k]] = hits[k] /\ hits[k] \in Block /\ hits[k] \in Range(hits)
                                /\ table'[req.hashes[k]] = hits[k]
                                /\ hits[k] \notin AdmitPopped
  <2>1. DOMAIN hits = 1 .. Len(hits) /\ pc = "admit"
    BY <1>1, LenProperties DEF IInv, TypeOK, CallTypeOK, Admit
  <2>2. \A k \in 1 .. Len(hits) : hits[k] \in Block
    BY <1>1, ElementOfSeq DEF IInv, TypeOK, CallTypeOK
  <2>3. \A k \in 1 .. Len(hits) : table[req.hashes[k]] = hits[k]
    BY <1>1, <2>1 DEF IInv, HitsStayCached
  <2>4. \A k \in 1 .. Len(hits) : k \in 1 .. Len(req.hashes) /\ k <= Len(hits)
    BY <1>2
  <2>5. \A k \in 1 .. Len(hits) : table'[req.hashes[k]] = hits[k]
    BY <1>1, <2>4, AdmitRecords
  <2>6. AdmitPopped \cap Range(hits) = {}
    BY <1>1, AdmitBlocks
  <2> QED BY <2>1, <2>2, <2>3, <2>4, <2>5, <2>6 DEF Range
<1> DEFINE evicted == {h \in CachedHashes : table[h] \in AdmitPopped}
           shared  == {h \in Range(req.hashes) : h \in HashesInUse'}
           hit     == Cache!FirstHashes(req, Len(hits))
<1>5. hit = {req.hashes[k] : k \in 1 .. Len(hits)}
  BY DEF Cache!FirstHashes
<1> HIDE DEF hit
<1>6. \A h : h \in CachedHashes <=> h \in PromptHash /\ table[h] # NoBlock
  BY DEF CachedHashes
<1>7. \A h : h \in CachedHashes' <=> h \in PromptHash /\ table'[h] # NoBlock
  BY DEF CachedHashes
<1>8. evicted \in SUBSET (CachedHashes \ (HashesInUse \cup hit))
  <2>1. ASSUME NEW h \in evicted PROVE h \notin HashesInUse /\ h \notin hit
    <3>1. ref[table[h]] = 0
      BY <1>2 DEF Idle
    <3> QED BY <1>4, <1>5, <3>1 DEF HashesInUse
  <2> QED BY <2>1
<1>9. CachedHashes' = (CachedHashes \ evicted) \cup Range(req.hashes)
  <2>1. \A h \in Range(req.hashes) : h \in PromptHash /\ h \in CachedHashes'
    BY <1>1, <1>2, <1>3, <1>7, AdmitEntries
  <2>2. ASSUME NEW h \in PromptHash, h \notin Range(req.hashes)
        PROVE  h \in CachedHashes' <=> h \in CachedHashes /\ h \notin evicted
    <3>1. /\ table[h] \notin AdmitPopped => table'[h] = table[h]
          /\ table[h] \in AdmitPopped => table'[h] = NoBlock
      BY <1>1, <2>2, AdmitEntries
    <3> QED BY <1>6, <1>7, <2>2, <3>1
  <2> QED BY <1>6, <1>7, <2>1, <2>2
<1>10. Cache!Closed(CachedHashes')
  <2>1. ASSUME NEW p \in Prompts, NEW k \in 2 .. Len(p.hashes), p.hashes[k] \in CachedHashes'
        PROVE  p.hashes[k - 1] \in CachedHashes'
    <3>1. table'[p.hashes[k]] # NoBlock
      BY <1>7, <2>1
    <3>2. table'[p.hashes[k - 1]] # NoBlock
      BY <1>1, <3>1 DEF QueueOrder
    <3>3. Len(p.hashes) \in Nat /\ \A l \in 1 .. Len(p.hashes) : p.hashes[l] \in PromptHash
      BY PromptHashes
    <3>4. k - 1 \in 1 .. Len(p.hashes)
      BY <3>3
    <3> QED BY <1>7, <3>2, <3>3, <3>4
  <2> QED BY <2>1 DEF Cache!Closed
<1>11. HashesInUse' = HashesInUse \cup hit \cup shared
  <2>1. \A h : h \in HashesInUse' <=> h \in CachedHashes' /\ ref'[table'[h]] > 0
    BY DEF HashesInUse
  <2>2. \A h : h \in HashesInUse <=> h \in CachedHashes /\ ref[table[h]] > 0
    BY DEF HashesInUse
  <2>3. ASSUME NEW h \in HashesInUse PROVE h \in HashesInUse'
    <3>1. h \in PromptHash /\ table[h] \in Block /\ ref[table[h]] > 0
      BY <1>3, <1>6, <2>2
    <3>2. ref[table[h]] \in Nat /\ ref[table[h]] # 0
      BY <1>1, <3>1, HeldReferenced
    <3>3. table'[h] = table[h]
      BY <1>1, <3>1, <3>2, AdmitPins
    <3>4. ref'[table[h]] \in Nat /\ ref'[table[h]] # 0
      BY <1>1, <3>1, <3>2, AdmitRefs
    <3>5. h \in CachedHashes'
      BY <1>3, <1>7, <3>1, <3>3
    <3> QED BY <2>1, <3>3, <3>4, <3>5
  <2>4. ASSUME NEW h \in hit PROVE h \in HashesInUse'
    <3>1. PICK k \in 1 .. Len(hits) : h = req.hashes[k]
      BY <1>5
    <3>2. table'[h] = hits[k] /\ hits[k] \in Block /\ hits[k] \in Range(AdmitBids) /\ h \in PromptHash
      BY <1>2, <1>4, <3>1
    <3>3. ref'[hits[k]] \in Nat /\ ref'[hits[k]] # 0
      BY <1>1, <3>2, AdmitRefs
    <3> QED BY <1>3, <1>7, <2>1, <3>2, <3>3
  <2>5. ASSUME NEW h \in HashesInUse', h \notin Range(req.hashes) PROVE h \in HashesInUse
    <3>1. h \in PromptHash /\ table'[h] # NoBlock /\ ref'[table'[h]] > 0
      BY <1>7, <2>1
    <3>2. /\ table[h] \notin Range(hits) /\ table[h] \notin AdmitPopped /\ table'[h] = table[h]
      BY <1>1, <2>5, <3>1, AdmitEntries
    <3>3. table[h] \in Block /\ table[h] \notin Range(AdmitBids)
      BY <1>2, <1>3, <3>1, <3>2
    <3>4. ref'[table[h]] = ref[table[h]]
      BY <1>1, <3>3, AdmitRefs
    <3> QED BY <1>6, <2>2, <3>1, <3>2, <3>4
  <2> QED BY <2>3, <2>4, <2>5
<1>12. pc = "admit" /\ pc' = "trim" /\ req' = req /\ hits' = hits /\ req # NoReq
  BY <1>2, NoReqAssumption DEF Admit
<1>13. shared \in SUBSET Range(req.hashes)
  OBVIOUS
<1> HIDE DEF evicted, shared
<1>14. \E gone \in SUBSET (CachedHashes \ (HashesInUse \cup Cache!FirstHashes(req, Len(hits)))) :
         CachedHashes' = (CachedHashes \ gone) \cup Range(req.hashes)
  BY <1>8, <1>9 DEF hit
<1>15. \E more \in SUBSET Range(req.hashes) :
         HashesInUse' = HashesInUse \cup Cache!FirstHashes(req, Len(hits)) \cup more
  BY <1>11, <1>13 DEF hit
<1>16. req # NoReq /\ ~(pc = "trim") /\ (pc = "trim")' = TRUE /\ UNCHANGED <<req, Len(hits)>>
  BY <1>12
<1>17. Cache!Range(req.hashes) = Range(req.hashes)
  BY DEF Cache!Range, Range
<1> QED BY <1>10, <1>14, <1>15, <1>16, <1>17 DEF Cache!Serve

(* A retirement releases: references only go down, and it can neither      *)
(* reach the table nor the call's variables that Cache sees.               *)
LEMMA RetireReleases ==
  ASSUME IInv, Stall \/ Trim \/ Drain
  PROVE  Cache!Release
<1>1. /\ ref' = [b \in Block |-> IF b \in Range(Head(inFlight)) THEN ref[b] - 1 ELSE ref[b]]
      /\ table' = table
  BY DEF Stall, Trim, Drain, RetireOldest
<1>2. /\ req' = req /\ hits' = hits
      /\ (pc = "trim" /\ pc' = "trim") \/ (pc # "trim" /\ pc' # "trim")
  BY DEF Stall, Trim, Drain, callVars
<1>3. CachedHashes' = CachedHashes
  BY <1>1 DEF CachedHashes
<1>4. \A h \in CachedHashes : table[h] \in Block /\ ref[table[h]] \in Nat
  <2>1. /\ table \in [Hash -> Block \cup {NoBlock}]
        /\ ref \in [Block -> Nat]
    BY DEF IInv, TypeOK, PoolTypeOK
  <2> QED BY <2>1 DEF CachedHashes, Hash
<1>5. HashesInUse' \in SUBSET HashesInUse
  <2>1. ASSUME NEW h \in CachedHashes, ref'[table[h]] > 0 PROVE ref[table[h]] > 0
    BY <1>1, <1>4, <2>1
  <2> QED BY <1>1, <1>3, <2>1 DEF HashesInUse
<1>6. UNCHANGED <<req, Len(hits), pc = "trim">>
  BY <1>2
<1> QED BY <1>3, <1>5, <1>6 DEF Cache!Release

(* A lookup answers with the longest cached prefix short of the cap.       *)
LEMMA SubmitAnswers ==
  ASSUME IInv, NEW p \in Prompts, Submit(p), IInv'
  PROVE  Cache!Answer(p)
<1>1. /\ pc = "idle" /\ pc' = "admit" /\ req' = p /\ UNCHANGED <<ref, table>>
      /\ hits' = [k \in 1 .. HitLength(p) |-> table[p.hashes[k]]]
  BY DEF Submit, blockVars
<1>2. /\ HitLength(p) \in 0 .. MaxHits(p) /\ MaxHits(p) \in Nat /\ HitLength(p) \in Nat
      /\ \A k \in 1 .. HitLength(p) : table[p.hashes[k]] \in Block
      /\ HitLength(p) < MaxHits(p) => table[p.hashes[HitLength(p) + 1]] = NoBlock
      /\ MaxHits(p) <= Len(p.hashes)
  <2>1. HitLength(p) \in 0 .. MaxHits(p) /\ MaxHits(p) \in Nat /\ MaxHits(p) <= Len(p.hashes)
    BY HitLengthIs, Sizes DEF IInv, TypeOK
  <2>2. HitLength(p) \in Nat
    BY <2>1
  <2> QED BY <2>1, <2>2, HitLengthIs DEF IInv, TypeOK
<1>3. Len(hits') = HitLength(p)
  <2>1. DOMAIN hits' = 1 .. HitLength(p)
    BY <1>1
  <2>2. Len(hits') \in Nat /\ DOMAIN hits' = 1 .. Len(hits')
    BY LenProperties DEF IInv, TypeOK, CallTypeOK
  <2> QED BY <1>2, <2>1, <2>2
<1>4. Len(p.hashes) \in Nat /\ \A k \in 1 .. Len(p.hashes) : p.hashes[k] \in PromptHash
  BY PromptHashes
<1>5. Cache!FirstHashes(p, HitLength(p)) \subseteq CachedHashes
  <2>1. ASSUME NEW k \in 1 .. HitLength(p) PROVE p.hashes[k] \in CachedHashes
    <3>1. k \in 1 .. Len(p.hashes)
      BY <1>2, <1>4
    <3>2. table[p.hashes[k]] # NoBlock
      BY <1>2, PoolAssumption DEF Block, NoBlock
    <3> QED BY <1>4, <3>1, <3>2 DEF CachedHashes
  <2> QED BY <2>1 DEF Cache!FirstHashes
<1>6. HitLength(p) < MaxHits(p) => p.hashes[HitLength(p) + 1] \notin CachedHashes
  BY <1>2 DEF CachedHashes
<1>7. req = NoReq
  BY <1>1 DEF IInv, TypeOK, CallTypeOK
<1>8. UNCHANGED <<CachedHashes, HashesInUse, pc = "trim">>
  BY <1>1 DEF CachedHashes, HashesInUse
<1> QED BY <1>1, <1>2, <1>3, <1>5, <1>6, <1>7, <1>8 DEF Cache!Answer

(* A request is refused when no block is in use, and a call that returns   *)
(* changes nothing in the cache; drain() begins without any effect on it.  *)
LEMMA CallEnds ==
  ASSUME IInv
  PROVE  /\ Reject => Cache!Refuse
         /\ Return => Cache!Finish
         /\ CallDrain \/ UNCHANGED vars => UNCHANGED Cache!vars
<1>1. Len(<<>>) = 0
  BY EmptySeq
<1>2. ASSUME UNCHANGED <<ref, table>> PROVE UNCHANGED <<CachedHashes, HashesInUse>>
  BY <1>2 DEF CachedHashes, HashesInUse
<1>3. ASSUME Reject PROVE Cache!Refuse
  <2>1. /\ pc = "admit" /\ inFlight = <<>> /\ pc' = "idle" /\ req' = NoReq /\ hits' = <<>>
        /\ UNCHANGED <<ref, table>>
    BY <1>3 DEF Reject, blockVars
  <2>2. ASSUME NEW h \in HashesInUse PROVE FALSE
    <3>1. h \in PromptHash /\ table[h] # NoBlock /\ ref[table[h]] > 0
      BY DEF HashesInUse, CachedHashes
    <3>2. table[h] \in Block
      BY <3>1 DEF IInv, TypeOK, PoolTypeOK, Hash
    <3>3. ref[table[h]] \in Nat /\ (ref[table[h]] >= 1 => \E i \in 1 .. Len(inFlight) : table[h] \in Range(inFlight[i]))
      BY <3>2, HeldReferenced
    <3> QED BY <1>1, <2>1, <3>1, <3>3
  <2>3. HashesInUse = {}
    BY <2>2
  <2>4. req # NoReq
    BY <2>1 DEF IInv, TypeOK, CallTypeOK
  <2>5. UNCHANGED <<CachedHashes, HashesInUse, pc = "trim">> /\ ~(pc = "trim") /\ Len(hits)' = 0
    BY <1>1, <1>2, <2>1
  <2> QED BY <2>1, <2>3, <2>4, <2>5 DEF Cache!Refuse
<1>4. ASSUME Return PROVE Cache!Finish
  <2>1. /\ pc = "trim" /\ pc' = "idle" /\ req' = NoReq /\ hits' = <<>>
        /\ UNCHANGED <<ref, table>>
    BY <1>4 DEF Return, blockVars
  <2>2. UNCHANGED <<CachedHashes, HashesInUse>> /\ (pc = "trim")' = FALSE /\ Len(hits)' = 0
    BY <1>1, <1>2, <2>1
  <2> QED BY <2>1, <2>2 DEF Cache!Finish
<1>5. ASSUME CallDrain \/ UNCHANGED vars PROVE UNCHANGED Cache!vars
  <2>1. UNCHANGED <<ref, table, req, hits>> /\ UNCHANGED (pc = "trim")
    BY <1>5 DEF CallDrain, vars, blockVars, callVars
  <2>2. UNCHANGED <<CachedHashes, HashesInUse, req, Len(hits), pc = "trim">>
    BY <1>2, <2>1
  <2> QED BY <2>2 DEF Cache!vars
<1> QED BY <1>3, <1>4, <1>5

(* The pool implements the prefix cache: every call of the simulator is,   *)
(* step for step, a request that is answered with its longest cached       *)
(* prefix and served or refused, while others finish.                      *)
THEOREM PoolImplementsCache == Spec => ImplementsPrefixCache
<1>1. Init => Cache!Init
  <2> SUFFICES ASSUME Init PROVE Cache!Init
    OBVIOUS
  <2>1. CachedHashes = {} /\ HashesInUse = {}
    BY DEF Init, CachedHashes, HashesInUse, Hash
  <2>2. req = NoReq /\ Len(hits) = 0 /\ (pc = "trim") = FALSE
    BY EmptySeq DEF Init
  <2> QED BY <2>1, <2>2 DEF Cache!Init
<1>2. ChainInv /\ [Next]_vars => [Cache!Next]_Cache!vars
  <2> SUFFICES ASSUME ChainInv, [Next]_vars PROVE Cache!Next \/ UNCHANGED Cache!vars
    OBVIOUS
  <2>1. IInv /\ IInv'
    BY NextInv DEF ChainInv
  <2>2. ASSUME NEW p \in Prompts, Submit(p) PROVE Cache!Next
    BY <2>1, <2>2, SubmitAnswers DEF Cache!Next
  <2>3. CASE Stall \/ Trim \/ Drain
    BY <2>1, <2>3, RetireReleases DEF Cache!Next
  <2>4. CASE Admit
    BY <2>4, AdmitServes DEF Cache!Next
  <2>5. CASE Reject \/ Return
    BY <2>1, <2>5, CallEnds DEF Cache!Next
  <2>6. CASE CallDrain \/ UNCHANGED vars
    BY <2>1, <2>6, CallEnds
  <2> QED BY <2>2, <2>3, <2>4, <2>5, <2>6 DEF Next, Step
<1> QED BY <1>1, <1>2, SpecChain, PTL DEF Spec, ImplementsPrefixCache, Cache!Spec

-----------------------------------------------------------------------------
(* What the cache records of a block: that of a prompt with its hash.      *)
Recorded ==
  \A b \in Block : hash[b] \in PromptHash =>
    \E p \in Prompts : \E i \in 1 .. Len(p.hashes) :
      p.hashes[i] = hash[b] /\ audience[b] = p.audience[i] /\ fromProbe[b] = p.probe

(* Admission records the audience and the origin of the blocks it fills,   *)
(* and those of the others stay.                                           *)
LEMMA AdmitAudiences ==
  ASSUME IInv, Admit
  PROVE  /\ \A b \in Block \ AdmitPopped : audience'[b] = audience[b] /\ fromProbe'[b] = fromProbe[b]
         /\ \A k \in Len(hits) + 1 .. FullBlocks(req) :
              /\ fromProbe'[AdmitBids[k]] = req.probe
              /\ k <= Len(req.hashes) => audience'[AdmitBids[k]] = req.audience[k]
<1> DEFINE n       == Len(hits)
           slot(b) == CHOOSE k \in n + 1 .. BlocksFor(req) : AdmitBids[k] = b
           fresh   == {b \in AdmitPopped : slot(b) <= FullBlocks(req)}
<1>1. /\ audience' = [b \in Block |->
                        IF b \notin fresh THEN audience[b]
                        ELSE IF slot(b) <= Len(req.hashes) THEN req.audience[slot(b)]
                        ELSE req.final]
      /\ fromProbe' = [b \in Block |-> IF b \in fresh THEN req.probe
                                       ELSE fromProbe[b] /\ (b \in AdmitPopped => hash[b] = NoHash)]
  BY DEF Admit, AdmitBids, AdmitPopped
<1>2. /\ req \in Prompts /\ n \in Nat
      /\ FullBlocks(req) \in Nat /\ BlocksFor(req) \in Nat /\ FullBlocks(req) <= BlocksFor(req)
      /\ DOMAIN AdmitBids = 1 .. BlocksFor(req) /\ IsInjective(AdmitBids)
      /\ \A k \in n + 1 .. BlocksFor(req) : AdmitBids[k] \in AdmitPopped
      /\ AdmitPopped \subseteq Block
  BY AdmitBlocks DEF Idle
<1> HIDE DEF slot, fresh
<1>3. \A b \in Block \ AdmitPopped : audience'[b] = audience[b] /\ fromProbe'[b] = fromProbe[b]
  <2>1. ASSUME NEW b \in Block \ AdmitPopped PROVE audience'[b] = audience[b] /\ fromProbe'[b] = fromProbe[b]
    <3>1. b \notin fresh /\ b \in Block /\ b \notin AdmitPopped
      BY DEF fresh
    <3>2. fromProbe[b] \in BOOLEAN
      BY DEF IInv, TypeOK, PoolTypeOK
    <3>3. audience'[b] = audience[b]
      BY <1>1, <3>1
    <3>4. fromProbe'[b] = (fromProbe[b] /\ (b \in AdmitPopped => hash[b] = NoHash))
      BY <1>1, <3>1, Zenon
    <3> QED BY <3>1, <3>2, <3>3, <3>4
  <2> QED BY <2>1
<1>4. ASSUME NEW k \in n + 1 .. FullBlocks(req)
      PROVE  /\ fromProbe'[AdmitBids[k]] = req.probe
             /\ k <= Len(req.hashes) => audience'[AdmitBids[k]] = req.audience[k]
  <2>1. k \in n + 1 .. BlocksFor(req) /\ k <= FullBlocks(req)
    BY <1>2
  <2>2. AdmitBids[k] \in AdmitPopped /\ AdmitBids[k] \in Block
    BY <1>2, <2>1
  <2>3. slot(AdmitBids[k]) \in n + 1 .. BlocksFor(req) /\ AdmitBids[slot(AdmitBids[k])] = AdmitBids[k]
    BY <2>1 DEF slot
  <2>4. \A l \in n + 1 .. BlocksFor(req) : l \in DOMAIN AdmitBids
    BY <1>2
  <2>5. slot(AdmitBids[k]) = k
    BY <1>2, <2>1, <2>3, <2>4 DEF IsInjective
  <2>6. AdmitBids[k] \in fresh
    BY <2>1, <2>2, <2>5 DEF fresh
  <2>7. fromProbe'[AdmitBids[k]] = req.probe
    BY <1>1, <2>2, <2>6, Zenon
  <2>8. k <= Len(req.hashes) => audience'[AdmitBids[k]] = req.audience[k]
    BY <1>1, <2>2, <2>5, <2>6
  <2> QED BY <2>7, <2>8
<1> QED BY <1>3, <1>4

(* So a block with a prompt hash always records what a prompt with that    *)
(* hash records, whatever the block held before.                           *)
LEMMA AdmitRecorded ==
  ASSUME IInv, Recorded, Admit
  PROVE  Recorded'
<1>1. /\ req \in Prompts /\ Len(hits) \in Nat
      /\ FullBlocks(req) \in Nat /\ BlocksFor(req) \in Nat /\ FullBlocks(req) <= BlocksFor(req)
  BY AdmitBlocks
<1>2. ASSUME NEW b \in Block, hash'[b] \in PromptHash
      PROVE  \E p \in Prompts : \E i \in 1 .. Len(p.hashes) :
               p.hashes[i] = hash'[b] /\ audience'[b] = p.audience[i] /\ fromProbe'[b] = p.probe
  <2>1. CASE b \notin AdmitPopped
    <3>1. hash'[b] = hash[b] /\ audience'[b] = audience[b] /\ fromProbe'[b] = fromProbe[b]
      BY <2>1, AdmitRecords, AdmitAudiences
    <3> QED BY <1>2, <3>1 DEF Recorded
  <2>2. CASE b \in AdmitPopped
    <3>1. PICK k \in Len(hits) + 1 .. BlocksFor(req) : AdmitBids[k] = b
      BY <2>2 DEF AdmitPopped
    <3>2. hash'[b] = IF k <= FullBlocks(req) THEN KeyAt(req, k) ELSE NoHash
      BY <3>1, AdmitRecords
    <3>3. k <= FullBlocks(req)
      BY <1>2, <3>2, HashAssumption
    <3>4. k \in 1 .. FullBlocks(req) /\ k \in Len(hits) + 1 .. FullBlocks(req)
      BY <1>1, <3>3
    <3>5. k \in 1 .. Len(req.hashes) /\ hash'[b] = req.hashes[k]
      BY <1>1, <1>2, <3>2, <3>3, <3>4, KeyOfPromptHash
    <3>6. audience'[b] = req.audience[k] /\ fromProbe'[b] = req.probe
      BY <3>1, <3>4, <3>5, AdmitAudiences
    <3> QED BY <1>1, <3>5, <3>6
  <2> QED BY <2>1, <2>2
<1> QED BY <1>2 DEF Recorded

(* The lookup's audit finds nothing when the prompts are authorized.       *)
LEMMA SubmitAudits ==
  ASSUME IInv, Recorded, PromptsAuthorized, NEW p \in Prompts, Submit(p)
  PROVE  rec'.unauthorized = 0
<1> DEFINE found == [k \in 1 .. HitLength(p) |-> table[p.hashes[k]]]
           bad   == {k \in DOMAIN found : ~fromProbe[found[k]] /\ p.user \notin audience[found[k]]}
<1>1. rec' = [NoRec EXCEPT !.unauthorized = Unauthorized(p, found)]
  BY DEF Submit
<1>2. /\ HitLength(p) \in 0 .. MaxHits(p) /\ MaxHits(p) \in Nat /\ MaxHits(p) <= Len(p.hashes)
      /\ Len(p.hashes) \in Nat
      /\ \A k \in 1 .. HitLength(p) : p.hashes[k] \in Hash /\ table[p.hashes[k]] \in Block
      /\ \A k \in 1 .. Len(p.hashes) : p.hashes[k] \in PromptHash
  BY HitLengthIs, Sizes, PromptHashes DEF IInv, TypeOK
<1>3. ASSUME NEW k \in 1 .. HitLength(p), ~fromProbe[table[p.hashes[k]]]
      PROVE  p.user \in audience[table[p.hashes[k]]]
  <2> DEFINE b == table[p.hashes[k]]
  <2>1. k \in 1 .. Len(p.hashes) /\ b \in Block /\ b # NoBlock
    BY <1>2, PoolAssumption DEF Block, NoBlock
  <2>2. hash[b] = p.hashes[k] /\ hash[b] \in PromptHash
    BY <1>2, <2>1 DEF IInv, TableSound
  <2> HIDE DEF b
  <2>3. PICK q \in Prompts : \E i \in 1 .. Len(q.hashes) :
          q.hashes[i] = hash[b] /\ audience[b] = q.audience[i] /\ fromProbe[b] = q.probe
    BY <2>1, <2>2 DEF Recorded
  <2>4. PICK i \in 1 .. Len(q.hashes) :
          q.hashes[i] = hash[b] /\ audience[b] = q.audience[i] /\ fromProbe[b] = q.probe
    BY <2>3
  <2>5. ~q.probe
    BY <1>3, <2>4 DEF b
  <2>6. p.user \in q.audience[i]
    BY <2>1, <2>2, <2>4, <2>5 DEF PromptsAuthorized
  <2> QED BY <2>4, <2>6 DEF b
<1>4. bad = {}
  BY <1>3
<1>5. Unauthorized(p, found) = 0
  BY <1>4, FS_EmptySet DEF Unauthorized
<1> HIDE DEF found
<1> QED BY <1>1, <1>5 DEF NoRec

(* Steps other than Submit and Admit record nothing.                       *)
LEMMA OthersRecordNothing ==
  ASSUME Stall \/ Reject \/ Trim \/ Return \/ Drain \/ CallDrain \/ UNCHANGED vars
  PROVE  /\ UNCHANGED <<hash, audience, fromProbe>>
         /\ rec' = NoRec \/ rec' = rec \/ rec' = [rec EXCEPT !.stalls = @ + 1]
BY DEF Stall, Reject, Trim, Return, Drain, CallDrain, vars, blockVars, callVars, RetireOldest

(* The blocks' records are those of prompts in every reachable state.      *)
LEMMA SpecRecorded == Spec => []Recorded
<1>1. Init => Recorded
  BY HashAssumption DEF Init, Recorded
<1>2. IInv /\ Recorded /\ [Next]_vars => Recorded'
  <2> SUFFICES ASSUME IInv, Recorded, [Next]_vars PROVE Recorded'
    OBVIOUS
  <2>1. CASE Admit
    BY <2>1, AdmitRecorded
  <2>2. ASSUME UNCHANGED <<hash, audience, fromProbe>> PROVE Recorded'
    BY <2>2 DEF Recorded
  <2>3. ASSUME NEW p \in Prompts, Submit(p) PROVE Recorded'
    BY <2>2, <2>3 DEF Submit, blockVars
  <2> QED BY <2>1, <2>2, <2>3, OthersRecordNothing DEF Next, Step
<1> QED BY <1>1, <1>2, SpecInv, PTL DEF Spec

(* The cache-hit gate, whatever is submitted, evicted and re-used, under   *)
(* prompts whose shared hashes authorize.                                  *)
THEOREM HitsAuthorized ==
  ASSUME PromptsAuthorized
  PROVE  Spec => []NoUnauthorizedHit
<1>1. Init => NoUnauthorizedHit
  BY DEF Init, NoRec, NoUnauthorizedHit
<1>2. IInv /\ Recorded /\ NoUnauthorizedHit /\ [Next]_vars => NoUnauthorizedHit'
  <2> SUFFICES ASSUME IInv, Recorded, NoUnauthorizedHit, [Next]_vars PROVE NoUnauthorizedHit'
    OBVIOUS
  <2>1. rec \in [unauthorized : Nat, stalls : Nat, evictions : Nat]
    BY DEF IInv, TypeOK, CallTypeOK
  <2>2. ASSUME NEW p \in Prompts, Submit(p) PROVE NoUnauthorizedHit'
    BY <2>2, SubmitAudits DEF NoUnauthorizedHit
  <2>3. CASE Admit
    <3>1. rec'.unauthorized = rec.unauthorized
      BY <2>1, <2>3 DEF Admit
    <3> QED BY <3>1 DEF NoUnauthorizedHit
  <2>4. ASSUME rec' = NoRec \/ rec' = rec \/ rec' = [rec EXCEPT !.stalls = @ + 1] PROVE NoUnauthorizedHit'
    BY <2>1, <2>4 DEF NoUnauthorizedHit, NoRec
  <2> QED BY <2>2, <2>3, <2>4, OthersRecordNothing DEF Next, Step
<1> QED BY <1>1, <1>2, SpecInv, SpecRecorded, PTL DEF Spec

(* The record of a cached block stays true after any history of evictions, *)
(* re-use and duplicates, when the prompts bring true audiences.           *)
THEOREM AuditsTruthful ==
  ASSUME AudiencesTrue
  PROVE  Spec => []AuditTruthful
<1>1. IInv /\ Recorded => AuditTruthful
  <2> SUFFICES ASSUME IInv, Recorded, NEW h \in DOMAIN TrueAudience, table[h] # NoBlock
               PROVE  audience[table[h]] = TrueAudience[h]
    BY DEF AuditTruthful
  <2>1. h \in PromptHash
    BY DEF AudiencesTrue
  <2>2. h \in Hash /\ table[h] \in Block
    BY <2>1 DEF Hash, IInv, TypeOK, PoolTypeOK
  <2>3. hash[table[h]] = h
    BY <2>2 DEF IInv, TableSound
  <2>4. PICK p \in Prompts : \E i \in 1 .. Len(p.hashes) :
          p.hashes[i] = hash[table[h]] /\ audience[table[h]] = p.audience[i]
    BY <2>1, <2>2, <2>3 DEF Recorded
  <2> QED BY <2>3, <2>4 DEF AudiencesTrue
<1> QED BY <1>1, SpecInv, SpecRecorded, PTL

-----------------------------------------------------------------------------
(* Early retirement.                                                       *)

(* The blocks in use are at most those in flight, counted per request.     *)
LEMMA InUseFit ==
  ASSUME IInv
  PROVE  BlocksInFlight \in Nat /\ Cardinality(Block \ Idle) <= BlocksInFlight
<1> DEFINE L     == Len(inFlight)
           Pairs == UNION {{i} \X DOMAIN inFlight[i] : i \in DOMAIN inFlight}
           f     == [x \in Pairs |-> inFlight[x[1]][x[2]]]
<1>1. L \in Nat /\ DOMAIN inFlight = 1 .. L /\ \A i \in 1 .. L : inFlight[i] \in Seq(Block)
  BY LenProperties, ElementOfSeq DEF IInv, TypeOK, PoolTypeOK
<1>2. ASSUME NEW i \in 1 .. L
      PROVE  /\ DOMAIN inFlight[i] = 1 .. Len(inFlight[i]) /\ Len(inFlight[i]) \in 0 .. NumBlocks
             /\ \A k \in DOMAIN inFlight[i] : inFlight[i][k] \in Range(inFlight[i]) /\ inFlight[i][k] \in Block
  <2>1. inFlight[i] \in Seq(Block) /\ IsInjective(inFlight[i])
    BY <1>1 DEF IInv, PoolInv, HeldDistinct
  <2>2. Len(inFlight[i]) \in Nat /\ DOMAIN inFlight[i] = 1 .. Len(inFlight[i])
    BY <2>1, LenProperties
  <2>3. Cardinality(Range(inFlight[i])) = Len(inFlight[i]) /\ Range(inFlight[i]) \in SUBSET Block
    BY <2>1, DistinctLength, RangeOfSeq
  <2>4. Cardinality(Range(inFlight[i])) <= NumBlocks /\ NumBlocks \in Nat
    BY <2>3, BlocksFinite, FS_Subset, PoolAssumption
  <2>5. \A k \in DOMAIN inFlight[i] : inFlight[i][k] \in Range(inFlight[i])
    BY DEF Range
  <2> QED BY <2>2, <2>3, <2>4, <2>5
<1>3. \A x : x \in Pairs <=> \E i \in 1 .. L : \E k \in DOMAIN inFlight[i] : x = <<i, k>>
  BY <1>1
<1> HIDE DEF Pairs
<1>4. IsFiniteSet(Pairs)
  <2>1. Pairs \in SUBSET ((1 .. L) \X (1 .. NumBlocks))
    <3>1. ASSUME NEW x \in Pairs PROVE x \in (1 .. L) \X (1 .. NumBlocks)
      <4>1. PICK i \in 1 .. L : \E k \in DOMAIN inFlight[i] : x = <<i, k>>
        BY <1>3
      <4>2. PICK k \in DOMAIN inFlight[i] : x = <<i, k>>
        BY <4>1
      <4>3. k \in 1 .. NumBlocks
        BY <1>2, PoolAssumption
      <4> QED BY <4>2, <4>3
    <3> QED BY <3>1
  <2>2. IsFiniteSet(1 .. L) /\ IsFiniteSet(1 .. NumBlocks)
    BY <1>1, FS_Interval, PoolAssumption
  <2>3. IsFiniteSet((1 .. L) \X (1 .. NumBlocks))
    BY <2>2, FS_Product
  <2> QED BY <2>1, <2>3, FS_Subset
<1>5. \A b \in Block : b \in Block \ Idle <=> \E i \in 1 .. L : b \in Range(inFlight[i])
  <2>1. ASSUME NEW b \in Block PROVE b \in Block \ Idle <=> \E i \in 1 .. L : b \in Range(inFlight[i])
    <3>1. /\ ref[b] \in Nat
          /\ \A i \in 1 .. L : b \in Range(inFlight[i]) => ref[b] >= 1
          /\ ref[b] >= 1 => \E i \in 1 .. L : b \in Range(inFlight[i])
      BY HeldReferenced
    <3> QED BY <3>1 DEF Idle
  <2> QED BY <2>1
<1>6. f \in Surjection(Pairs, Block \ Idle)
  <2>1. ASSUME NEW x \in Pairs PROVE f[x] \in Block \ Idle
    <3>1. PICK i \in 1 .. L : \E k \in DOMAIN inFlight[i] : x = <<i, k>>
      BY <1>3
    <3>2. PICK k \in DOMAIN inFlight[i] : x = <<i, k>>
      BY <3>1
    <3>3. f[x] = inFlight[i][k]
      BY <3>2
    <3> QED BY <1>2, <1>5, <3>3
  <2>2. ASSUME NEW b \in Block \ Idle PROVE \E x \in Pairs : f[x] = b
    <3>1. PICK i \in 1 .. L : b \in Range(inFlight[i])
      BY <1>5
    <3>2. PICK k \in DOMAIN inFlight[i] : inFlight[i][k] = b
      BY <3>1 DEF Range
    <3>3. <<i, k>> \in Pairs /\ f[<<i, k>>] = b
      BY <1>3, <3>2
    <3> QED BY <3>3
  <2>3. f \in [Pairs -> Block \ Idle]
    BY <2>1
  <2> HIDE DEF f
  <2> QED BY <2>2, <2>3 DEF Surjection
<1>7. Cardinality(Block \ Idle) <= Cardinality(Pairs) /\ Cardinality(Pairs) \in Nat
  <2> HIDE DEF f
  <2> QED BY <1>4, <1>6, FS_Surjection, FS_CardinalityType
<1> QED BY <1>7 DEF BlocksInFlight, Pairs

(* Whenever the stall test fires, what is in flight and what is asked for  *)
(* exceed the pool: every block is in use, a hit or in the queue behind    *)
(* the hits, which is too short for the blocks still needed.               *)
LEMMA ShortMeansFull ==
  ASSUME IInv, pc = "admit", Short
  PROVE  BlocksInFlight + BlocksFor(req) > NumBlocks
<1> DEFINE Used == Block \ Idle
           Hit  == Range(hits)
           Rest == Idle \ Hit
<1>1. /\ Untouched \in Seq(Block) /\ IsInjective(Untouched) /\ Range(Untouched) = Rest
      /\ Len(free) - EvictableHits = Len(Untouched) /\ Len(Untouched) \in Nat
  BY UntouchedIs DEF IInv
<1>2. /\ Len(hits) \in Nat /\ IsInjective(hits) /\ Hit \subseteq Block /\ hits \in Seq(Block)
      /\ Need \in Nat /\ Len(hits) + Need = BlocksFor(req)
  BY HitsDistinct DEF IInv, TypeOK, CallTypeOK
<1>3. Len(Untouched) < Need
  BY <1>1 DEF Short
<1>4. Cardinality(Rest) = Len(Untouched) /\ Cardinality(Hit) = Len(hits)
  BY <1>1, <1>2, DistinctLength
<1>5. /\ Used \in SUBSET Block /\ Hit \in SUBSET Block /\ Rest \in SUBSET Block
      /\ Block = (Used \cup Hit) \cup Rest
  BY <1>2 DEF Idle
<1>6. IsFiniteSet(Used) /\ IsFiniteSet(Hit) /\ IsFiniteSet(Rest)
  BY <1>5, BlocksFinite, FS_Subset
<1> HIDE DEF Used, Hit, Rest
<1>7. /\ IsFiniteSet(Used \cup Hit)
      /\ Cardinality(Used \cup Hit) = Cardinality(Used) + Cardinality(Hit) - Cardinality(Used \cap Hit)
  BY <1>6, FS_Union
<1>8. Cardinality(Block) = Cardinality(Used \cup Hit) + Cardinality(Rest) - Cardinality((Used \cup Hit) \cap Rest)
  BY <1>5, <1>6, <1>7, FS_Union
<1>9. Cardinality(Used \cap Hit) \in Nat /\ Cardinality((Used \cup Hit) \cap Rest) \in Nat
  <2>1. Used \cap Hit \in SUBSET Used /\ (Used \cup Hit) \cap Rest \in SUBSET Rest
    OBVIOUS
  <2> QED BY <1>6, <2>1, FS_Subset, FS_CardinalityType
<1>10. Cardinality(Used) \in Nat /\ Cardinality(Hit) \in Nat /\ Cardinality(Rest) \in Nat
  BY <1>6, FS_CardinalityType
<1>11. BlocksInFlight \in Nat /\ Cardinality(Used) <= BlocksInFlight
  BY InUseFit DEF Used
<1>12. Cardinality(Block) = NumBlocks /\ NumBlocks \in Nat
  BY BlocksFinite, PoolAssumption
<1> DEFINE u == Cardinality(Used)
           h == Cardinality(Hit)
           r == Cardinality(Rest)
           x == Cardinality(Used \cap Hit)
           y == Cardinality((Used \cup Hit) \cap Rest)
           w == Cardinality(Used \cup Hit)
<1>13. /\ u \in Nat /\ h \in Nat /\ r \in Nat /\ x \in Nat /\ y \in Nat
       /\ w = u + h - x /\ NumBlocks = w + r - y /\ u <= BlocksInFlight
       /\ r < Need /\ h + Need = BlocksFor(req)
  BY <1>2, <1>3, <1>4, <1>7, <1>8, <1>9, <1>10, <1>11, <1>12
<1> HIDE DEF u, h, r, x, y, w
<1> QED BY <1>2, <1>11, <1>13

(* A request in flight is retired before its turn only in a stall.         *)
THEOREM StallsJustified == Spec => StallsOnlyWithoutRoom
<1> DEFINE Early == pc = "admit" /\ inFlight' # inFlight /\ pc' = "admit" =>
                      BlocksInFlight + BlocksFor(req) > NumBlocks
<1>1. ASSUME IInv, Next PROVE Early
  <2>1. SUFFICES ASSUME pc = "admit", inFlight' # inFlight, pc' = "admit"
                 PROVE  BlocksInFlight + BlocksFor(req) > NumBlocks
    OBVIOUS
  <2>2. Short
    BY <1>1, <2>1 DEF Next, Step, Submit, CallDrain, Stall, Reject, Admit, Trim, Return, Drain, blockVars
  <2> QED BY <1>1, <2>1, <2>2, ShortMeansFull
<1>2. IInv /\ [Next]_vars => [Early]_vars
  BY <1>1
<1> HIDE DEF Early
<1>3. Spec => [][Early]_vars
  BY <1>2, SpecInv, PTL DEF Spec
<1> QED BY <1>3 DEF StallsOnlyWithoutRoom, Early
=============================================================================
