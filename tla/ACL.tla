-------------------------------- MODULE ACL --------------------------------
(***************************************************************************)
(* The access-control model of src/aclkv/acl.py.  An ACL is a conjunction  *)
(* of atoms, each naming an audience: everyone, a group or one user.       *)
(***************************************************************************)
EXTENDS Integers, Sequences

CONSTANTS
  Users,       \* directory.users
  Groups,      \* directory.groups
  Membership   \* directory.membership: the groups each user is in

PublicAtom   == [kind |-> "public", name |-> "public"]
GroupAtom(g) == [kind |-> "group",  name |-> g]
UserAtom(u)  == [kind |-> "user",   name |-> u]

Atoms == {PublicAtom} \cup {GroupAtom(g) : g \in Groups} \cup {UserAtom(u) : u \in Users}

Public == {PublicAtom}
Empty  == {}           \* no audience at all

UserAtoms(atoms)  == {a \in atoms : a.kind = "user"}
GroupAtoms(atoms) == {a \in atoms : a.kind = "group"}

(* The canonical ACL of a set of atoms: two users exclude each other, one  *)
(* user subsumes all groups, and public gives way to any other atom.       *)
Of(atoms) ==
  IF \E a, b \in UserAtoms(atoms) : a # b THEN Empty
  ELSE IF UserAtoms(atoms) # {} THEN UserAtoms(atoms)
  ELSE IF GroupAtoms(atoms) # {} THEN GroupAtoms(atoms)
  ELSE Public

(* The ACLs the program works with: parse() and intersect() return these.  *)
Canonical == {Of(atoms) : atoms \in SUBSET Atoms}

(* Effective ACL of a prefix that contains both.                           *)
Intersect(acl, other) ==
  IF acl = Empty \/ other = Empty THEN Empty ELSE Of(acl \cup other)

(* The cache-hit gate: may the user reuse state whose effective ACL is acl?*)
Allows(acl, user) ==
  /\ acl # Empty
  /\ \/ acl = Public
     \/ UserAtom(user) \in acl
     \/ /\ acl # Public /\ UserAtoms(acl) = {}
        /\ \A a \in GroupAtoms(acl) : a.name \in Membership[user]

Audience(acl) == {u \in Users : Allows(acl, u)}

(* Running intersection ACL(P_0) .. ACL(P_n); ACL(P_0) is public.          *)
EffectivePrefix(acls) ==
  LET eff[k \in 0 .. Len(acls)] ==
        IF k = 0 THEN Public ELSE Intersect(eff[k - 1], acls[k])
  IN eff
=============================================================================
