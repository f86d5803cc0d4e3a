----------------------------- MODULE LiveChecks -----------------------------
(***************************************************************************)
(* The two scripts that check a running server by the number of cached     *)
(* tokens it reports: src/scripts/smoke_test_plugin.py (is the plugin      *)
(* active?) and src/scripts/security_probe.py (do scoped policies keep     *)
(* other users out?).  A script is a list of stages, each the reset of the *)
(* cache and calls with one prompt: one stage per victim, one in all for   *)
(* the smoke test.  Scripts may be launched repeatedly, and killed.        *)
(*                                                                         *)
(* The engine is external: its block keys are those of SaltDecoding, its   *)
(* cache is the set of chains of block keys it holds, any of which may be  *)
(* evicted.  A prompt is [text, tail]: what each full block holds, and how *)
(* many tokens follow them.                                                *)
(***************************************************************************)
EXTENDS SaltDecoding

CONSTANTS
  Nonces,        \* what the smoke test may put into its first block
  Lengths,       \* values of --blocks
  GroupAt,       \* offset of its group barrier (80 tokens in the code)
  FreshIds,      \* random scope ids, by launch
  VictimLists,   \* sequences of [policy, prompt, barriers]: restricted requests to probe
  NoHits,        \* cached_tokens is None: the call failed
  MaxLaunches, MaxMishaps   \* bounds on launches; on failed calls and evictions

VARIABLES
  cache,      \* chains of block keys the engine holds
  stages,     \* what the active script has still to do
  calls,      \* those left of the first stage; <<>> before its reset
  row,        \* [call -> blocks found in the cache] of the first stage
  report,     \* [stage, row] of those done
  verdict,    \* of the last script: "none", "ok", "failed", "exit"
  own,        \* ghost: chains that the victim's own calls computed
  nonces,     \* ghost: those of earlier smoke tests
  unseen,     \* ghost: the prompt of the smoke test was new to the cache
  calm,       \* ghost: no call of the script failed, nothing was evicted
  launches, mishaps

scripts == <<stages, calls, row, report, verdict>>
ghosts  == <<own, nonces, unseen>>
live    == <<cache, scripts, ghosts, calm, launches, mishaps>>

LiveInit ==
  /\ cache = {} /\ own = {} /\ nonces = {}
  /\ stages = << >> /\ calls = << >> /\ row = << >> /\ report = << >>
  /\ verdict = "none" /\ unseen = FALSE /\ calm = TRUE
  /\ launches = 0 /\ mishaps = 0

-----------------------------------------------------------------------------
(* The engine.                                                             *)

Chain(prompt, salt, k) ==
  [n \in 1 .. k |-> <<prompt.text[n], ExtraKeys([salt |-> salt, base |-> << >>], n)>>]
Chains(prompt, salt) == {Chain(prompt, salt, k) : k \in DOMAIN prompt.text}

(* The last token is always computed.                                      *)
MostHits(prompt) == IF prompt.tail = 0 THEN Len(prompt.text) - 1 ELSE Len(prompt.text)

Hits(prompt, salt) ==
  CHOOSE n \in 0 .. MostHits(prompt) :
    /\ \A k \in 1 .. n : Chain(prompt, salt, k) \in cache
    /\ n < MostHits(prompt) => Chain(prompt, salt, n + 1) \notin cache

Evict ==
  /\ mishaps < MaxMishaps
  /\ \E c \in cache : cache' = cache \ {c}
  /\ mishaps' = mishaps + 1 /\ calm' = FALSE
  /\ UNCHANGED <<scripts, ghosts, launches>>

-----------------------------------------------------------------------------
(* The scripts.                                                            *)

Barrier(off, sid)  == [off |-> off, sid |-> sid]
Salt(barriers)     == IF barriers = << >> THEN NoSalt ELSE Encode(barriers)
Call(name, salt)   == [name |-> name, salt |-> salt]
Expect(salt, hits) == [name |-> "expect", salt |-> salt, hits |-> hits]
Stock              == [ours |-> FALSE, items |-> << >>]

(* The same barriers with another id: a forged salt.                       *)
Relabelled(barriers, sid) == [n \in DOMAIN barriers |-> Barrier(barriers[n].off, sid)]

(* Random ids and nonces meet no others, the smoke test's salts are within *)
(* the limits of the encoding, and the prompts to probe are built prompts: *)
(* longer than a block, and without scopes or scoped from their start.     *)
ASSUME LiveAssumption ==
  /\ NoHits \notin Nat /\ Stock # NoSalt
  /\ MaxLaunches \in Nat /\ Lengths \subseteq Nat \ {0}
  /\ GroupAt \in Nat /\ GroupAt >= TokensPerBlock
  /\ \A n \in 1 .. MaxLaunches :
       /\ FreshIds[n] \in ScopeIds \ {"a"}
       /\ \A items \in {<<Barrier(0, "a")>>, <<Barrier(0, "a"), Barrier(GroupAt, "b")>>, <<Barrier(0, FreshIds[n])>>} :
            Plain(items) /\ Encode(items) # ValueError
  /\ \A victims \in VictimLists : victims \in Seq(Range(victims)) /\ \A v \in Range(victims) :
       /\ v.policy # "smoke"
       /\ v.prompt.text \in Seq(Range(v.prompt.text)) /\ v.prompt.text # << >> /\ v.prompt.tail \in Nat
       /\ v.prompt.text[1] \notin Nonces
       /\ v.barriers # << >> =>
            /\ Plain(v.barriers) /\ \A x \in Range(v.barriers) : x.off \in Nat
            /\ Encode(v.barriers) # ValueError
            /\ v.barriers[1].off = 0
            /\ \A n \in 1 .. MaxLaunches : /\ v.barriers[1].sid # FreshIds[n]
                                          /\ Plain(Relabelled(v.barriers, FreshIds[n]))

(* Faulty variants, which the specification does not use.                  *)
SmokePromptPlain(nonce, blocks) == [text |-> [k \in 1 .. blocks |-> "fox"], tail |-> 0]
ProbeCallsFirst(v) ==
  << Call("no_salt", NoSalt), Call("cold", Salt(v.barriers)), Call("stolen", Salt(v.barriers)) >>

(* The text begins with the nonce, the rest is the same in every test.     *)
SmokePrompt(nonce, blocks) ==
  [text |-> <<nonce>> \o [k \in 1 .. blocks - 1 |-> "fox"], tail |-> 0]

(* ((n - 1) // 16) blocks.                                                 *)
MostExpected(prompt) == MostHits(prompt)

SmokeTest(nonce, blocks) ==
  LET prompt == SmokePrompt(nonce, blocks)
      s1     == Salt(<<Barrier(0, "a")>>)
      forged == Salt(<<Barrier(0, FreshIds[launches + 1])>>)
  IN << [policy |-> "smoke", prompt |-> prompt, nonce |-> nonce, calls |->
           << Expect(s1, 0), Expect(s1, MostExpected(prompt)),
              Expect(Salt(<<Barrier(0, "a"), Barrier(GroupAt, "b")>>), GroupAt \div TokensPerBlock),
              Expect(NoSalt, 0), Expect(forged, 0),
              Expect(Stock, 0), Expect(Stock, MostExpected(prompt)) >>] >>

ProbeCalls(v) ==
  LET honest == Salt(v.barriers)
      forged == Relabelled(v.barriers, FreshIds[launches + 1])
  IN << Call("cold", honest), Call("warm", honest), Call("no_salt", NoSalt) >>
       \o (IF v.barriers = << >> THEN << >> ELSE << Call("forged", Salt(forged)) >>)
       \o << Call("stolen", honest) >>

Probe(victims) ==
  [n \in DOMAIN victims |->
     [policy |-> victims[n].policy, prompt |-> victims[n].prompt, calls |-> ProbeCalls(victims[n])]]

Launch(plan) ==
  /\ launches' = launches + 1
  /\ stages' = plan /\ calls' = << >> /\ row' = << >> /\ report' = << >>
  /\ verdict' = "none" /\ calm' = TRUE
  /\ UNCHANGED <<cache, ghosts, mishaps>>

Smoking == stages # << >> /\ stages[1].policy = "smoke"

(* The cache is settled before.                                            *)
Begin ==
  /\ calls' = stages[1].calls
  /\ own' = {}
  /\ unseen' = (Smoking /\ (cache' = {} \/ stages[1].nonce \notin nonces))
  /\ nonces' = IF Smoking THEN nonces \cup {stages[1].nonce} ELSE nonces
  /\ UNCHANGED <<stages, row, report, verdict>>

ResetDue == stages # << >> /\ calls = << >>

ResetOnce ==                                            \* faulty variant, see above
  /\ ResetDue
  /\ cache' = IF report = << >> THEN {} ELSE cache
  /\ Begin
  /\ UNCHANGED <<calm, launches, mishaps>>

Reset ==
  /\ ResetDue
  /\ cache' = {}
  /\ Begin
  /\ UNCHANGED <<calm, launches, mishaps>>

(* Outside development mode the server refuses.  The smoke test goes on,   *)
(* the probe exits.                                                        *)
ResetRefused ==
  /\ ResetDue
  /\ UNCHANGED <<cache, calm, launches, mishaps>>
  /\ IF Smoking THEN Begin
     ELSE /\ stages' = << >> /\ verdict' = "exit"
          /\ UNCHANGED <<calls, row, report, ghosts>>

(* Every call of the smoke test found what it expects.                     *)
Found(stage, hits) == \A n \in DOMAIN hits : hits[n] = stage.calls[n].hits

(* A probe that failed counts as one that found nothing.                   *)
Leaks(done) ==
  /\ done.stage.policy # "UB"
  /\ \E n \in DOMAIN done.row : /\ done.stage.calls[n].name \in {"no_salt", "forged"}
                                /\ done.row[n] \notin {0, NoHits}

Outcome(done) ==
  IF Smoking THEN IF Found(done[1].stage, done[1].row) THEN "ok" ELSE "failed"
  ELSE IF \E n \in DOMAIN done : Leaks(done[n]) THEN "failed" ELSE "ok"

(* A call returned; the stage ends with its last call, the script with its *)
(* last stage.                                                             *)
Record(hits) ==
  LET done == Append(report, [stage |-> stages[1], row |-> Append(row, hits)])
  IN IF Len(calls) > 1
     THEN calls' = Tail(calls) /\ row' = Append(row, hits) /\ UNCHANGED <<stages, report, verdict>>
     ELSE /\ calls' = << >> /\ row' = << >>
          /\ report' = done
          /\ stages' = Tail(stages)
          /\ verdict' = IF Len(stages) = 1 THEN Outcome(done) ELSE verdict

Computed ==
  LET chains == Chains(stages[1].prompt, calls[1].salt)
  IN /\ cache' = cache \cup chains
     /\ own' = IF calls[1].name \in {"cold", "warm"} THEN own \cup chains ELSE own

Answered ==
  /\ calls # << >>
  /\ Record(Hits(stages[1].prompt, calls[1].salt))
  /\ Computed
  /\ UNCHANGED <<nonces, unseen, calm, launches, mishaps>>

(* A call that fails may have been computed.                               *)
Failed ==
  /\ calls # << >>
  /\ mishaps < MaxMishaps
  /\ Record(NoHits)
  /\ Computed \/ UNCHANGED <<cache, own>>
  /\ mishaps' = mishaps + 1 /\ calm' = FALSE
  /\ UNCHANGED <<nonces, unseen, launches>>

Kill ==
  /\ stages # << >>
  /\ stages' = << >> /\ calls' = << >> /\ row' = << >> /\ report' = << >>
  /\ verdict' = "exit"
  /\ UNCHANGED <<cache, ghosts, calm, launches, mishaps>>

Idle == stages = << >> /\ launches < MaxLaunches

LiveNext ==
  \/ Idle /\ \E x \in Nonces, b \in Lengths : Launch(SmokeTest(x, b))
  \/ Idle /\ \E v \in VictimLists : Launch(Probe(v))
  \/ Reset \/ ResetRefused \/ Answered \/ Failed \/ Kill \/ Evict

(* The engine gets two requests, compared below, or runs scripts.          *)
CheckInit == SaltInit /\ LiveInit

CheckSpec ==
  /\ CheckInit
  /\ [][\/ launches = 0 /\ SaltNext /\ UNCHANGED live
        \/ requests = << >> /\ LiveNext /\ UNCHANGED wire]_<<wire, live>>

-----------------------------------------------------------------------------
(* Properties.                                                             *)

Ended(script) ==
  /\ verdict \in {"ok", "failed"}
  /\ (script = "smoke") = (report[1].stage.policy = "smoke")

(* "PLUGIN OK" is printed only if the plugin is active, whatever earlier   *)
(* tests left in the cache, is evicted, or fails: as long as the reset was *)
(* granted or the nonce is new.  Conversely the test passes with the       *)
(* plugin, if no call failed, nothing was evicted and the prompt is long   *)
(* enough for the group barrier.                                           *)
OkMeansInstalled ==
  Ended("smoke") /\ unseen =>
    /\ verdict = "ok" => installed
    /\ installed /\ calm /\ MostHits(report[1].stage.prompt) * TokensPerBlock >= GroupAt => verdict = "ok"

(* "The prefix cache is reset before every victim, so an attacker hit can  *)
(* only come from the victim's own blocks" (security_probe.py:20-22).      *)
ProbeHitsAreVictims ==
  ~Smoking => \A n \in DOMAIN row :
    LET call == stages[1].calls[n]
    IN call.name \in {"no_salt", "forged"} /\ row[n] # NoHits =>
         \A k \in 1 .. row[n] : Chain(stages[1].prompt, call.salt, k) \in own

(* The probe reports a violation only if a policy other than UB sends no   *)
(* salt, with and without the plugin; it does so whenever all calls are    *)
(* answered and nothing is evicted, and then the controls hit.             *)
VerdictFollowsScopes ==
  Ended("probe") =>
    LET unscoped == \E n \in DOMAIN report : /\ report[n].stage.policy # "UB"
                                             /\ report[n].stage.calls[1].salt = NoSalt
                                             /\ MostHits(report[n].stage.prompt) > 0
    IN /\ verdict = "failed" => unscoped
       /\ calm => /\ unscoped => verdict = "failed"
                  /\ \A n \in DOMAIN report : \A m \in {2, Len(report[n].row)} :
                       report[n].row[m] = MostHits(report[n].stage.prompt)
=============================================================================
