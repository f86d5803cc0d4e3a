----------------------------- MODULE MCOrdering -----------------------------
(***************************************************************************)
(* Three documents for Ordering, two of them in one class of ACLs, so that *)
(* popularity decides between them; in any order, with ranks that may have *)
(* gaps where the authorization filter dropped a document.                 *)
(***************************************************************************)
EXTENDS Ordering

MCChunks == 1 .. 3

(* Chunks 1 and 2 are public, 3 is a user's.                               *)
MCDoc(c, r) == [id |-> c, rank |-> r, breadth |-> IF c <= 2 THEN 0 ELSE 2, group |-> 0]

MCRequests ==
  UNION { {{MCDoc(c, f[c]) : c \in S} : f \in {g \in [S -> 0 .. 3] : IsInjective(g)}} : S \in SUBSET MCChunks }

MCSettings(orderings, shifts, anchors) == [ordering : orderings, shift : shifts, anchor : anchors]
MCConfigs ==
  MCSettings({"acl_aware", "reuse_aware"}, {NoLimit, -1, 1, 2}, {0, 2})
    \cup MCSettings({"retrieval"}, {NoLimit}, {0, 1})
=============================================================================
