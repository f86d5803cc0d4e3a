---------------------------- MODULE ScopeSharing ----------------------------
(***************************************************************************)
(* Which requests may share cached blocks.  Two requests arrive and the    *)
(* middleware builds a prompt for each; a block is shared when its chained *)
(* hash is the same in both, so that one could be served from the state    *)
(* computed for the other.  The properties compare the caching modes of    *)
(* src/aclkv/policies.py with the access the documents really grant.       *)
(***************************************************************************)
EXTENDS PromptBuilder

CONSTANTS
  Settings,    \* builders: how the middleware may be configured
  Requests,    \* [user, question, docs]: what users may ask
  Modes        \* the caching modes compared: a subset of CACHING_MODES

ASSUME RequestAssumption ==
  /\ Settings \subseteq Builders
  /\ Modes \subseteq {"none", "per_user", "two_level", "acl_scope", "global"}
  /\ \A r \in Requests : r.user \in Users /\ Documents(r.docs)

(* The chunks come from one corpus, in which an id names one chunk; each   *)
(* has a text of its own, and a header ends within the block it begins.    *)
ASSUME CorpusAssumption ==
  /\ BlockSize >= 2
  /\ \A r, s \in Requests : \A d \in Range(r.docs), c \in Range(s.docs) :
       d.len >= 1 /\ (d.id = c.id => d = c)

VARIABLES
  setting,   \* the configuration, fixed from the start
  asked      \* the requests that have arrived, at most two

Ids == <<"first", "second">>

Init == setting \in Settings /\ asked = <<>>

Ask(r) ==
  /\ Len(asked) < 2
  /\ asked' = Append(asked, r)
  /\ UNCHANGED setting

Next == \E r \in Requests : Ask(r)

Spec == Init /\ [][Next]_<<setting, asked>>

-----------------------------------------------------------------------------

Prompt(caching, n) ==
  Build(setting, caching, Ids[n], asked[n].user, asked[n].question, asked[n].docs)

(* Block positions at which the two prompts have the same chained hash.    *)
Shared(caching) ==
  LET a == Hashes(Prompt(caching, 1))
      b == Hashes(Prompt(caching, 2))
  IN {i \in DOMAIN a \cap DOMAIN b : a[i] = b[i]}

Both    == Len(asked) = 2
InSalt  == setting.scopeMode = "hash"
Aligned == setting.align /\ InSalt

(* Users whom every document the i-th block depends on lets in: those that *)
(* begin before the block ends.  It does not use effective ACLs.           *)
TrueAudience(prompt, i) ==
  LET begins(k) == {j \in DOMAIN prompt.segs : prompt.segs[j].doc = k}
  IN {u \in Users : \A k \in DOMAIN prompt.docs :
        (\E j \in begins(k) : Starts(prompt.segs)[j] < i * BlockSize)
          => Allows(prompt.docs[k].acl, u)}

(* The ACL recorded with every block admits only users who may read all    *)
(* the documents its content depends on, although a user atom hides group  *)
(* atoms: the authorization filter makes that sound.  It admits all of     *)
(* them, unless the block holds a marker, which is recorded as if it were  *)
(* part of the segment it opens.                                           *)
RecordedAudienceExact ==
  \A n \in DOMAIN asked : \A m \in Modes :
    LET p == Prompt(m, n)
    IN \A i \in DOMAIN Hashes(p) :
         /\ BlockAudience(p, i) \subseteq TrueAudience(p, i)
         /\ InSalt => BlockAudience(p, i) = TrueAudience(p, i)

(* Under every secure mode and in every configuration, a block that a      *)
(* request can be served from the cache depends only on documents that its *)
(* user may read.                                                          *)
SharingIsAuthorized ==
  Both => \A m \in Modes \ {"global"} : \A i \in Shared(m) :
            asked[2].user \in TrueAudience(Prompt(m, 1), i)

(* ACL scopes cost nothing: between authorized users they share every      *)
(* block that unrestricted sharing would.  (Without alignment a block may  *)
(* end in the header that two documents with different ACLs share.)        *)
ScopingIsFree == Both /\ Aligned => Shared("acl_scope") = Shared("global")

(* Each refinement of the scopes shares at least what the coarser one did: *)
(* per-user salts, one private boundary, ACL scopes.                       *)
FinerScopesShareMore ==
  Both /\ Aligned =>
    /\ Shared("none") = {}
    /\ Shared("per_user") \subseteq Shared("two_level")
    /\ Shared("two_level") \subseteq Shared("acl_scope")

(* An outsider who replays the first prompt without its salt shares no     *)
(* block with it under a secure mode, the public ones included.            *)
ReplayFindsNothing ==
  Both /\ InSalt => \A m \in Modes \ {"global"} :
    LET a == Hashes(Prompt(m, 1))
        b == Hashes(Probe(Prompt(m, 1), asked[2].user))
    IN \A i \in DOMAIN a : a[i] # b[i]
=============================================================================
