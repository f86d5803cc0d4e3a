--------------------------- MODULE PromptBuilder ---------------------------
(***************************************************************************)
(* The middleware that turns a request into a scoped prompt: authorization *)
(* filter, scope plan (src/aclkv/policies.py), segments, padding and scope *)
(* barriers (src/aclkv/context.py, scope.py), and the chained block hashes *)
(* the cache computes from the result (src/aclkv/simulator.py).            *)
(*                                                                         *)
(* A token is a tuple whose identity is all that matters.  A scope id is   *)
(* the set of atoms it is derived from: the keyed hash of scope.py is      *)
(* injective up to collisions, and user_scope_id(u) is by construction the *)
(* scope of the ACL user:u.  A block hash is the whole chain it stands for.*)
(***************************************************************************)
EXTENDS ACL, Filtering, SequencesExt

CONSTANT BlockSize   \* tokens per block

ASSUME BlockAssumption == BlockSize \in Nat \ {0}

(* A builder is [align, scopeMode]: whether it pads every segment but the  *)
(* last to a block boundary, and whether it places barriers in the salt    *)
(* ("hash") or sentinels in the text ("marker").                           *)
Builders == [align : BOOLEAN, scopeMode : {"hash", "marker"}]

(* A chunk as it is retrieved is [id, acl, len]; its id determines it.     *)
Documents(docs) ==
  /\ docs \in Seq(Range(docs))
  /\ \A d \in Range(docs) : d.acl \in Canonical /\ d.len \in Nat

Preamble == <<<<"preamble", 0, 1>>, <<"preamble", 0, 2>>, <<"preamble", 0, 3>>>>
PadToken == <<"pad", 0, 0>>

(* A document begins with the header text every document shares.           *)
DocTokens(d)  == [i \in 1 .. d.len + 1 |-> IF i = 1 THEN <<"header", 0, 1>> ELSE <<"doc", d.id, i>>]
TailTokens(q) == <<<<"tail", q, 1>>, <<"tail", q, 2>>>>
Marker(scope) == <<<<"scope", scope, 0>>>>

NoScope         == {[kind |-> "none", name |-> "none"]}
NonceScopeReused(id) == {[kind |-> "nonce", name |-> "fixed"]}    \* faulty variant, see below
NonceScope(id)  == {[kind |-> "nonce", name |-> id]}
UserScope(user) == Of({UserAtom(user)})

(* Faulty variants of the definitions that follow; like NonceScopeReused,  *)
(* no definition uses them, and each property is checked to fail when one  *)
(* of them takes the place of the definition it is a variant of.           *)
PlanScopesPrivate(caching, id, user, truth) ==
  [k \in DOMAIN truth |->
     CASE caching = "global"    -> NoScope
       [] caching = "none"      -> NonceScope(id)
       [] caching = "per_user"  -> UserScope(user)
       [] OTHER -> IF \E j \in 1 .. k : truth[j] # Public THEN UserScope(user) ELSE Public]

AuthorizationFilterOff(docs, user) == docs
OpensScopeOnlyAtStart(scope, k)    == k = 1 /\ scope[k] # NoScope
OpensScopeOnlyAtChange(scope, k)   == k > 1 /\ scope[k] # NoScope /\ scope[k] # scope[k - 1]

(* One scope per segment, from the effective ACLs of preamble, documents   *)
(* and tail.                                                               *)
PlanScopes(caching, id, user, truth) ==
  [k \in DOMAIN truth |->
     CASE caching = "global"    -> NoScope
       [] caching = "none"      -> NonceScope(id)
       [] caching = "per_user"  -> UserScope(user)
       [] caching = "two_level" -> IF \E j \in 1 .. k : truth[j] # Public
                                   THEN UserScope(user) ELSE Public
       [] caching = "acl_scope" -> truth[k]]

(* The chunks the requester may read, in order.                            *)
AuthorizationFilter(docs, user) == Filtered(docs, {d \in Range(docs) : Allows(d.acl, user)})

Pad(builder, tokens) ==
  IF builder.align /\ Len(tokens) % BlockSize # 0
  THEN tokens \o [i \in 1 .. BlockSize - (Len(tokens) % BlockSize) |-> PadToken]
  ELSE tokens

(* A segment opens a scope when it has one and its predecessor another.    *)
OpensScope(scope, k) == scope[k] # NoScope /\ (k > 1 => scope[k] # scope[k - 1])

(* The texts of the segments: preamble, documents, tail.                   *)
Body(docs, question) ==
  [k \in 1 .. Len(docs) + 2 |->
     CASE k = 1 -> Preamble
       [] k \in 2 .. Len(docs) + 1 -> DocTokens(docs[k - 1])
       [] k = Len(docs) + 2 -> TailTokens(question)]

(* The effective ACL of each segment; the tail adds nothing to the last    *)
(* document's.                                                             *)
Truth(docs) ==
  LET eff == EffectivePrefix([i \in DOMAIN docs |-> docs[i].acl])
  IN [k \in 1 .. Len(docs) + 2 |-> IF k <= Len(docs) + 1 THEN eff[k - 1] ELSE eff[Len(docs)]]

(* The prompt as segments: tokens, effective ACL, the scope of the barrier *)
(* placed at its start (NoScope when there is none), and which document it *)
(* holds (0 for none).                                                     *)
Segments(builder, docs, question, truth, scope) ==
  LET body == Body(docs, question)
      text(k) == [tokens  |-> IF k < Len(body) THEN Pad(builder, body[k]) ELSE body[k],
                  acl     |-> truth[k],
                  barrier |-> IF OpensScope(scope, k) /\ builder.scopeMode = "hash" THEN scope[k] ELSE NoScope,
                  doc     |-> IF k \in 2 .. Len(body) - 1 THEN k - 1 ELSE 0]
      mark(k) == [tokens |-> Pad(builder, Marker(scope[k])), acl |-> truth[k], barrier |-> NoScope, doc |-> 0]
  IN FlattenSeq([k \in DOMAIN body |->
                   IF OpensScope(scope, k) /\ builder.scopeMode = "marker" THEN <<mark(k), text(k)>> ELSE <<text(k)>>])

(* Where each segment starts, counting tokens from 0; entry n + 1 is the   *)
(* length of the prompt.                                                   *)
Starts(segs) ==
  LET at[k \in 1 .. Len(segs) + 1] == IF k = 1 THEN 0 ELSE at[k - 1] + Len(segs[k - 1].tokens)
  IN at

(* acl_at: the effective ACL of the prefix that ends at token t.           *)
AclAt(segs, t) ==
  segs[CHOOSE k \in DOMAIN segs : Starts(segs)[k] <= t /\ t < Starts(segs)[k + 1]].acl

(* Faulty variant: barriers count only where a block begins.               *)
ScopeKeysAtBlockStart(segs, i) ==
  LET inside == Filtered([k \in DOMAIN segs |-> k],
                  {k \in DOMAIN segs : segs[k].barrier # NoScope /\ Starts(segs)[k] = (i - 1) * BlockSize})
  IN [j \in DOMAIN inside |-> segs[inside[j]].barrier]

(* Scopes of the barriers that fall into the i-th block, in order.         *)
ScopeKeys(segs, i) ==
  LET inside == Filtered([k \in DOMAIN segs |-> k],
                  {k \in DOMAIN segs : /\ segs[k].barrier # NoScope
                                       /\ Starts(segs)[k] \div BlockSize = i - 1})
  IN [j \in DOMAIN inside |-> segs[inside[j]].barrier]

(* Chained hashes of the full blocks: block i stands for the tokens and    *)
(* extra keys of blocks 1 .. i.                                            *)
BlockHashes(segs, scoped) ==
  LET tokens == FlattenSeq([k \in DOMAIN segs |-> segs[k].tokens])
      block  == [i \in 1 .. Len(tokens) \div BlockSize |->
                   <<SubSeq(tokens, (i - 1) * BlockSize + 1, i * BlockSize),
                     IF scoped THEN ScopeKeys(segs, i) ELSE <<>> >>]
  IN [i \in DOMAIN block |-> SubSeq(block, 1, i)]

(* build(): the prompt for a request whose documents come in prompt order. *)
Build(builder, caching, id, user, question, docs) ==
  LET kept  == AuthorizationFilter(docs, user)
      truth == Truth(kept)
      segs  == Segments(builder, kept, question, truth, PlanScopes(caching, id, user, truth))
  IN [id |-> id, user |-> user, segs |-> segs, docs |-> kept, scoped |-> TRUE, probe |-> FALSE]

(* probe(): an outsider replays the tokens of a built prompt without salt. *)
Probe(prompt, outsider) ==
  [prompt EXCEPT !.id = "probe-" \o prompt.id, !.user = outsider, !.scoped = FALSE, !.probe = TRUE]

NumTokens(prompt) == Starts(prompt.segs)[Len(prompt.segs) + 1]
Hashes(prompt)    == BlockHashes(prompt.segs, prompt.scoped)

(* Audience of the ACL the cache records for the i-th block; the faulty    *)
(* variant takes the ACL at its first token.                               *)
BlockAudienceAtStart(prompt, i) == Audience(AclAt(prompt.segs, (i - 1) * BlockSize))
BlockAudience(prompt, i) == Audience(AclAt(prompt.segs, i * BlockSize - 1))
=============================================================================
