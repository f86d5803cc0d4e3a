------------------------------- MODULE MCRag -------------------------------
(***************************************************************************)
(* Four requests of three users, one of whom is outside the only group.    *)
(***************************************************************************)
EXTENDS RagServing

MCUsers      == {"alice", "bob", "eve"}
MCGroups     == {"hr"}
MCMembership == [u \in MCUsers |-> IF u = "eve" THEN {} ELSE {"hr"}]

Handbook == [id |-> "handbook", acl |-> Builder!Public,              len |-> 4]
Salaries == [id |-> "salaries", acl |-> {Builder!GroupAtom("hr")},   len |-> 3]
Diary    == [id |-> "diary",    acl |-> {Builder!UserAtom("alice")}, len |-> 3]

Request(id, user, question, docs) ==
  [id |-> id, user |-> user, question |-> question, docs |-> docs]

MCRequests ==
  << Request("r1", "alice", "why", <<Handbook, Salaries>>),
     Request("r2", "bob",   "why", <<Handbook, Salaries, Diary>>),
     Request("r3", "eve",   "how", <<Handbook, Salaries>>),
     Request("r4", "alice", "how", <<Diary, Salaries>>) >>

MCSetting == [align |-> FALSE, scopeMode |-> "hash"]

MCReplays == {[victim |-> 1, outsider |-> "eve"]}
=============================================================================
