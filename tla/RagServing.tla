----------------------------- MODULE RagServing -----------------------------
(***************************************************************************)
(* The middleware in front of the cache: BlockPool serves the prompts that *)
(* PromptBuilder builds for a list of requests under one caching mode, and *)
(* the replays of some of them by an outsider (simulate() with probes).    *)
(* The cfg gives Prompts and PromptHash the values RagPrompts and          *)
(* RagPromptHash.                                                          *)
(***************************************************************************)
EXTENDS BlockPool

CONSTANTS
  Groups, Membership,   \* as in ACL
  Setting,    \* the builder
  Caching,    \* the policy's caching mode
  Requests,   \* sequence of [id, user, question, docs]
  Replays,    \* set of [victim, outsider]: positions in Requests, users
  Output      \* tokens generated for each request

Builder == INSTANCE PromptBuilder

Honest ==
  [n \in DOMAIN Requests |->
     Builder!Build(Setting, Caching, Requests[n].id, Requests[n].user, Requests[n].question, Requests[n].docs)]

(* simulate() lets only users replay whom the prompt's last ACL excludes.  *)
Outside(r) == r.outsider \notin Builder!Audience(Honest[r.victim].segs[Len(Honest[r.victim].segs)].acl)

Built == Range(Honest) \cup {Builder!Probe(Honest[r.victim], r.outsider) : r \in {s \in Replays : Outside(s)}}

(* A hash, named after the first request whose prompt has it and by its    *)
(* position there, so that equal chains have equal names.  Those a replay  *)
(* has on its own are named "replay".                                      *)
ChainsOf(n) == Range(Builder!Hashes(Honest[n]))
Name(chain) ==
  IF \E n \in DOMAIN Honest : chain \in ChainsOf(n)
  THEN <<"prompt", CHOOSE n \in DOMAIN Honest :
                     /\ chain \in ChainsOf(n)
                     /\ \A m \in 1 .. n - 1 : chain \notin ChainsOf(m), Len(chain)>>
  ELSE <<"replay", chain, Len(chain)>>

AsPrompt(b) ==
  LET h == Builder!Hashes(b)
  IN [id |-> b.id, user |-> b.user, tokens |-> Builder!NumTokens(b), output |-> Output,
      probe    |-> b.probe,
      hashes   |-> [i \in DOMAIN h |-> Name(h[i])],
      audience |-> [i \in DOMAIN h |-> Builder!BlockAudience(b, i)],
      final    |-> Builder!Audience(b.segs[Len(b.segs)].acl)]

RagPrompts    == {AsPrompt(b) : b \in Built}
RagPromptHash == UNION {Range(p.hashes) : p \in RagPrompts}

(* What the cache must know about a hash, from the documents alone.        *)
TrueAudience ==
  [h \in UNION {Range(AsPrompt(b).hashes) : b \in Range(Honest)} |->
     LET b == CHOOSE b \in Range(Honest) : h \in Range(AsPrompt(b).hashes)
         i == CHOOSE i \in DOMAIN AsPrompt(b).hashes : AsPrompt(b).hashes[i] = h
     IN {u \in Users : \A k \in DOMAIN b.docs :
           (\E j \in DOMAIN b.segs : /\ b.segs[j].doc = k
                                     /\ Builder!Starts(b.segs)[j] < i * BlockSize)
             => Builder!Allows(b.docs[k].acl, u)}]

(* What the middleware owes the cache.  Whoever submits a prompt may read   *)
(* what any honest prompt that shares a hash with it records there.        *)
PromptsAuthorized ==
  \A p, q \in Prompts : \A i \in 1 .. Len(p.hashes), j \in 1 .. Len(q.hashes) :
    ~p.probe /\ p.hashes[i] = q.hashes[j] => q.user \in p.audience[i]

(* And what a prompt records with a hash are those whom the documents      *)
(* behind it let in.                                                       *)
AudiencesTrue ==
  /\ DOMAIN TrueAudience \subseteq PromptHash
  /\ \A p \in Prompts : \A i \in 1 .. Len(p.hashes) :
       p.hashes[i] \in DOMAIN TrueAudience => p.audience[i] = TrueAudience[p.hashes[i]]

-----------------------------------------------------------------------------

(* After any history of evictions and re-use of blocks, the ACL recorded   *)
(* with a cached block admits exactly those who may read all documents its *)
(* content depends on, so that the audit compares with the truth.          *)
AuditTruthful ==
  \A h \in DOMAIN TrueAudience :
    table[h] # NoBlock => audience[table[h]] = TrueAudience[h]
=============================================================================
