----------------------------- MODULE Filtering -----------------------------
(***************************************************************************)
(* The two order-preserving list operations of the free queue: keeping the *)
(* members of a set, and walking a list backwards.  Filtered is written    *)
(* without recursion so that its properties can be proved.                 *)
(***************************************************************************)
EXTENDS Integers, Sequences, FiniteSets

(* Positions of s that hold a member of S, and how many there are up to i. *)
KeptAt(s, S)    == {i \in 1 .. Len(s) : s[i] \in S}
Rank(s, S, i)   == Cardinality({j \in KeptAt(s, S) : j <= i})

(* The elements of s that are in S, in the order of s.                     *)
Filtered(s, S) ==
  [k \in 1 .. Cardinality(KeptAt(s, S)) |->
     s[CHOOSE i \in KeptAt(s, S) : Rank(s, S, i) = k]]

Backwards(s) == [i \in 1 .. Len(s) |-> s[Len(s) + 1 - i]]
=============================================================================
