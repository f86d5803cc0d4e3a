--------------------------- MODULE MCScopeSharing ---------------------------
(***************************************************************************)
(* Three users in two overlapping groups and one document per kind of ACL. *)
(* A request brings up to two of them in any order, also documents that    *)
(* its user may not read, or three that he may.                            *)
(***************************************************************************)
EXTENDS ScopeSharing

MCUsers      == {"alice", "bob", "eve"}
MCGroups     == {"hr", "legal"}
MCMembership == [u \in MCUsers |-> CASE u = "alice" -> {"hr", "legal"}
                                     [] u = "bob"   -> {"hr"}
                                     [] u = "eve"   -> {"legal"}]

MCDocs == { [id |-> "handbook", acl |-> Public,             len |-> 2],
            [id |-> "salaries", acl |-> {GroupAtom("hr")},    len |-> 3],
            [id |-> "contract", acl |-> {GroupAtom("legal")}, len |-> 1],
            [id |-> "diary",    acl |-> {UserAtom("eve")},    len |-> 2] }

MCDocLists == {s \in UNION {[1 .. n -> MCDocs] : n \in 0 .. 3} : IsInjective(s)}

MCRequests ==
  {r \in [user : MCUsers, question : {"why"}, docs : MCDocLists] :
     Len(r.docs) <= 2 \/ \A i \in DOMAIN r.docs : Allows(r.docs[i].acl, r.user)}

MCSettings == [align : BOOLEAN, scopeMode : {"hash", "marker"}]

MCModes == {"none", "per_user", "two_level", "acl_scope", "global"}
=============================================================================
