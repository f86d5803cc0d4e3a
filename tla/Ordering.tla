------------------------------ MODULE Ordering ------------------------------
(***************************************************************************)
(* The order of the evidence in a prompt (src/aclkv/ordering.py): greedy   *)
(* placement by a key with a deadline per document, the relevance anchor,  *)
(* and the decayed popularity that one request leaves for the next.        *)
(*                                                                         *)
(* A document is [id, rank, breadth, group]: chunk id, retrieval rank,     *)
(* breadth class of its ACL, and the place of a group ACL among the        *)
(* canonical names (0 for other classes).  Popularity is counted in parts  *)
(* of 1 / Unit and rounded down, which stands for floating point and for   *)
(* dropping counts below 1e-6.  Each iteration of the placement loop is a  *)
(* step; one prompt is ordered at a time.                                  *)
(***************************************************************************)
EXTENDS Integers, Sequences, FiniteSets, Functions, Filtering

CONSTANTS
  Chunks,      \* chunk ids, numbers so that they are ordered
  Retrievals,  \* sets of authorized documents, one set per request
  Configs,     \* [ordering, shift, anchor]: the policies' settings
  NoLimit,     \* max_shift is None
  Unit,        \* 1.0 in the units of popularity
  DecayNum, DecayDen,   \* decay = DecayNum / DecayDen
  MinPop       \* min_pop, in the units of popularity

Doc == [id : Chunks, rank : Nat, breadth : 0 .. 2, group : Nat]

(* They hold each chunk once, and ranks are distinct.                      *)
ASSUME RetrievalAssumption ==
  \A D \in Retrievals :
    /\ IsFiniteSet(D) /\ D \subseteq Doc
    /\ \A d, e \in D : d # e => d.id # e.id /\ d.rank # e.rank

ASSUME ConfigAssumption ==
  \A c \in Configs :
    /\ c.ordering \in {"retrieval", "acl_aware", "reuse_aware"}
    /\ c.shift \in Int \cup {NoLimit}
    /\ c.anchor \in Int

ASSUME PopularityAssumption ==
  /\ Chunks \subseteq Nat
  /\ Unit \in Nat \ {0} /\ MinPop \in Nat
  /\ DecayNum \in Nat /\ DecayDen \in Nat \ {0} /\ DecayNum <= DecayDen

VARIABLES
  config,    \* the policy, fixed for a workload
  counts,    \* [Chunks -> Nat]: popularity
  pc,        \* "placing" inside the loop, "built" once the order is final
  docs,      \* the documents of the request
  pending,   \* remaining
  placed,    \* out
  order      \* the final order, <<>> until it is built

vars == <<config, counts, pc, docs, pending, placed, order>>

OrderInit ==
  /\ config \in Configs
  /\ counts = [c \in Chunks |-> 0]
  /\ pc = "built"
  /\ docs = {} /\ pending = {}
  /\ placed = <<>> /\ order = <<>>

-----------------------------------------------------------------------------
(* Keys.                                                                   *)

Hot(c) == counts[c] >= MinPop

(* floor(log2(1 + score)): how many powers of two, from 2 on, it reaches.  *)
Bucket(c) == Cardinality({b \in 1 .. counts[c] : Unit * 2^b <= Unit + counts[c]})

Key(d) ==
  CASE config.ordering = "retrieval" -> <<d.rank>>
    [] config.ordering = "acl_aware" -> <<d.breadth, d.group, d.rank>>
    [] OTHER -> IF Hot(d.id) THEN <<d.breadth, d.group, 0, -Bucket(d.id), d.id, 0>>
                ELSE <<d.breadth, d.group, 1, 0, 0, d.rank>>

(* Tuples of equal length compare at the first place where they differ.    *)
Less(a, b) == \E i \in DOMAIN a : a[i] < b[i] /\ \A j \in 1 .. i - 1 : a[j] = b[j]

-----------------------------------------------------------------------------
(* _greedy_with_deadline.  Sorting by rank, which order_retrieval does, is *)
(* greedy placement by rank, with or without deadlines.                    *)

Shift ==
  IF config.shift = NoLimit THEN Cardinality(docs)
  ELSE IF config.shift < 0 THEN 0 ELSE config.shift

Position == Len(placed)      \* positions count from 0

(* Faulty variants, which the specification does not use: each property is *)
(* checked to fail when one replaces the definition it is a variant of.    *)
DueAtOnce == {d \in pending : d.rank <= Position}

Order(D) ==
  /\ pc = "built"
  /\ docs' = D /\ pending' = D
  /\ placed' = <<>> /\ order' = <<>>
  /\ pc' = "placing"
  /\ UNCHANGED <<config, counts>>

Due == {d \in pending : d.rank + Shift <= Position}

(* A document that is due goes next, else the one with the least key.      *)
Place ==
  /\ pc = "placing"
  /\ \E d \in pending :
       /\ IF Due # {} THEN d \in Due /\ \A e \in Due : d.rank <= e.rank
          ELSE \A e \in pending \ {d} : Less(Key(d), Key(e))
       /\ placed' = Append(placed, d)
       /\ pending' = pending \ {d}
  /\ UNCHANGED <<config, counts, pc, docs, order>>

-----------------------------------------------------------------------------
(* apply_relevance_anchor.                                                 *)

Smaller(a, b) == IF a <= b THEN a ELSE b

(* The documents moved to the end of the prompt.                           *)
Anchored ==
  IF config.anchor <= 0 \/ Cardinality(docs) <= 1 THEN {}
  ELSE LET k == Smaller(config.anchor, Cardinality(docs) - 1)
       IN {d \in docs : Cardinality({e \in docs : e.rank < d.rank}) < k}

(* Least relevant first.                                                   *)
Ascending(D) ==
  [i \in 1 .. Cardinality(D) |-> CHOOSE d \in D : Cardinality({e \in D : e.rank > d.rank}) = i - 1]

(* Another faulty variant.                                                 *)
AnchorBestFirst(seq) == Filtered(seq, docs \ Anchored) \o Backwards(Ascending(Anchored))

Anchor(seq) ==
  LET top == Anchored
  IN Filtered(seq, docs \ top) \o Ascending(top)

(* observe(): every count decays, then those of the request's chunks grow. *)
Observed ==
  [c \in Chunks |-> (counts[c] * DecayNum) \div DecayDen
                    + (IF \E d \in docs : d.id = c THEN Unit ELSE 0)]

Finish ==
  /\ pc = "placing"
  /\ pending = {}
  /\ order' = Anchor(placed)
  /\ counts' = Observed
  /\ pc' = "built"
  /\ UNCHANGED <<config, docs, pending, placed>>

OrderNext == (\E D \in Retrievals : Order(D)) \/ Place \/ Finish

OrderSpec == OrderInit /\ [][OrderNext]_vars

-----------------------------------------------------------------------------
(* Properties.                                                             *)

(* "At any output position at most one document is due" (docstring of      *)
(* _greedy_with_deadline), so that the deadlines of all can be met.        *)
AtMostOneDue == \A d, e \in Due : d = e

(* No document is placed more than max_shift positions after its rank.     *)
WithinShift == \A i \in 1 .. Len(placed) : i - 1 <= placed[i].rank + Shift

(* Only a deadline breaks the order of keys: where a document precedes one *)
(* with a smaller key, it was placed at the last position max_shift allows.*)
OnlyDeadlinesBreakOrder ==
  pc = "placing" => \A i, j \in 1 .. Len(placed) :
    i < j /\ Less(Key(placed[j]), Key(placed[i])) => placed[i].rank + Shift = i - 1

(* The prompt holds every authorized document exactly once; with an anchor *)
(* the best one is next to the question, and the anchored ones follow all  *)
(* others, from the least relevant to the most.                            *)
BestNextToQuestion ==
  pc = "built" =>
    /\ Len(order) = Cardinality(docs) /\ Range(order) = docs
    /\ config.anchor > 0 =>
         \A k, m \in 1 .. Len(order) :
           k < m /\ order[k] \in Anchored => order[m].rank < order[k].rank
=============================================================================
