---------------------------- MODULE SaltDecoding ----------------------------
(***************************************************************************)
(* The wire encoding of scope barriers in vLLM's cache_salt                *)
(* (src/aclkv/scope.py) and the plugin that turns a salt into the extra    *)
(* keys of each block (src/aclkv/vllm_plugin.py).  A request comes from    *)
(* the middleware, with the barriers of a built prompt, or from a client   *)
(* that sends a salt of its own.                                           *)
(*                                                                         *)
(* A salt is the list of items of its text, each a scope id and an offset; *)
(* an item without "@" or whose offset is not a number has NoNumber for    *)
(* its offset.  Only the length of the text is kept beside them.           *)
(***************************************************************************)
EXTENDS Filtering, Functions, SequencesExt

CONSTANTS
  ScopeIds,       \* well-formed scope ids
  BarrierLists,   \* what the middleware may have to encode: lists of [off, sid]
  ForeignSalts,   \* salts that clients send themselves
  TokensPerBlock, NumBlocks,   \* the engine's block size; blocks looked at
  MAX_BARRIERS, MAX_SALT_LEN,
  PrefixLen, SidLen,   \* characters of SALT_PREFIX and of a scope id
  NoSalt, NoNumber, Malformed, ValueError

VARIABLES
  installed,   \* the plugin replaced vLLM's function when the engine started
  requests     \* those that have arrived: [barriers, salt, base]

wire == <<installed, requests>>

(* The special values are none of what they stand beside.                  *)
Plain(items) ==
  /\ items \in Seq(Range(items))
  /\ items # Malformed
  /\ [ours |-> TRUE, items |-> items] \notin {NoSalt, ValueError}

(* Offsets are numbers, written with digits on the wire.                   *)
ASSUME SaltAssumption ==
  /\ TokensPerBlock \in Nat \ {0} /\ NumBlocks \in Nat
  /\ NoNumber \notin Int
  /\ \A b \in BarrierLists : Plain(b) /\ \A x \in Range(b) : x.off \in Int
  /\ \A s \in ForeignSalts :
       /\ s = [ours |-> s.ours, items |-> s.items] /\ s # NoSalt
       /\ Plain(s.items) /\ \A x \in Range(s.items) : x.off \in Nat \cup {NoNumber}

SaltInit ==
  /\ installed \in BOOLEAN
  /\ requests = << >>

Digits(n) == IF n = NoNumber \/ n < 10 THEN 1 ELSE IF n < 100 THEN 2 ELSE 3

Length(items) ==
  LET offsets == [k \in DOMAIN items |-> items[k].off]
  IN PrefixLen + FoldLeft(LAMBDA n, off : n + SidLen + 1 + Digits(off), 0, offsets) + Len(items) - 1

NonDecreasing(items) == \A k \in 2 .. Len(items) : items[k - 1].off <= items[k].off

(* Faulty variants, which the specification does not use.                  *)
ScopeKeysUpTo(items, k) ==
  LET inside == Filtered(items, {b \in Range(items) : (k - 1) * TokensPerBlock < b.off /\ b.off <= k * TokensPerBlock})
  IN [n \in DOMAIN inside |-> <<"scope", inside[n].sid>>]
OpaqueDropped(salt, k) == << >>

(* encode_cache_salt: the salt, or the error that ends build().            *)
Encode(barriers) ==
  IF /\ Len(barriers) \in 1 .. MAX_BARRIERS
     /\ \A k \in DOMAIN barriers : barriers[k].sid \in ScopeIds /\ barriers[k].off >= 0
     /\ NonDecreasing(barriers)
     /\ Length(barriers) <= MAX_SALT_LEN
  THEN [ours |-> TRUE, items |-> barriers]
  ELSE ValueError

(* decode_cache_salt.                                                      *)
Decode(salt) ==
  IF /\ salt.ours
     /\ Len(salt.items) \in 1 .. MAX_BARRIERS
     /\ Length(salt.items) <= MAX_SALT_LEN
     /\ \A k \in DOMAIN salt.items : salt.items[k].sid \in ScopeIds /\ salt.items[k].off # NoNumber
     /\ NonDecreasing(salt.items)
  THEN salt.items
  ELSE Malformed

(* scope_keys_for_block, for the k-th block.                               *)
ScopeKeysForBlock(items, k) ==
  LET inside == Filtered(items, {b \in Range(items) : (k - 1) * TokensPerBlock <= b.off /\ b.off < k * TokensPerBlock})
  IN [n \in DOMAIN inside |-> <<"scope", inside[n].sid>>]

(* An opaque salt keys the first block only; vLLM does the same with any.  *)
Opaque(salt, k) == IF k = 1 /\ salt # NoSalt THEN <<<<"salt", salt>>>> ELSE << >>

(* The extra keys of the k-th block: the base keys (LoRA, multimodal) and  *)
(* those of the salt.                                                      *)
ExtraKeys(r, k) ==
  r.base \o (IF ~installed \/ r.salt = NoSalt \/ (r.salt # NoSalt /\ ~r.salt.ours) THEN Opaque(r.salt, k)
             ELSE IF Decode(r.salt) = Malformed THEN Opaque(r.salt, k)
             ELSE ScopeKeysForBlock(Decode(r.salt), k))

Arrive(barriers, salt, base) ==
  /\ Len(requests) < 2
  /\ requests' = Append(requests, [barriers |-> barriers, salt |-> salt, base |-> base])
  /\ UNCHANGED installed

Bases == {<< >>, <<<<"lora", "adapter">>>>}

(* build(): no barrier, no salt; a list it cannot encode sends nothing.    *)
Send(barriers) ==
  /\ Encode(barriers) # ValueError
  /\ \E base \in Bases : Arrive(barriers, Encode(barriers), base)

Forward(salt) == \E base \in Bases : Arrive(<< >>, salt, base)

SaltNext ==
  \/ \E b \in BarrierLists : Send(b)
  \/ \E s \in ForeignSalts \cup {NoSalt} : Forward(s)

SaltSpec == SaltInit /\ [][SaltNext]_wire

-----------------------------------------------------------------------------
BothSent == Len(requests) = 2

(* Whether two requests for the same tokens share the k-th block.          *)
Share(r, s, k) == \A n \in 1 .. k : ExtraKeys(r, n) = ExtraKeys(s, n)

FromMiddleware(r) == r.barriers # << >>

(* The scopes that begin in the n-th block.                                *)
Scopes(barriers, n) ==
  [m \in {i \in DOMAIN barriers : barriers[i].off \div TokensPerBlock = n - 1} |-> barriers[m].sid]

(* With the plugin, two requests of the middleware share exactly the       *)
(* blocks the simulator lets them share: those up to which the same        *)
(* barriers fall into the same blocks, in the same order.                  *)
SharedAsSimulated ==
  BothSent /\ installed =>
    LET r == requests[1]
        s == requests[2]
    IN FromMiddleware(r) /\ FromMiddleware(s) /\ r.base = s.base =>
         \A k \in 1 .. NumBlocks :
           Share(r, s, k) <=> \A n \in 1 .. k : Scopes(r.barriers, n) = Scopes(s.barriers, n)

(* The salts the encoder can write.                                        *)
WellFormed(salt) ==
  /\ salt.ours
  /\ \A k \in DOMAIN salt.items : salt.items[k].off # NoNumber
  /\ Encode(salt.items) # ValueError

(* Without the plugin, or when it cannot decode the salt, the salt         *)
(* isolates as a whole: a request whose salt the encoder cannot have       *)
(* written shares no block with any other, unless that carries the very    *)
(* same salt; and one of the middleware, whose first barrier is at the     *)
(* start of the prompt, shares none with a request without salt.           *)
UndecodedSaltsIsolate ==
  BothSent => \A n \in {1, 2} :
    LET r == requests[n]
        s == requests[3 - n]
    IN \/ r.salt # NoSalt /\ r.salt # s.salt /\ (~installed \/ ~WellFormed(r.salt))
       \/ FromMiddleware(r) /\ r.barriers[1].off = 0 /\ s.salt = NoSalt
       => \A k \in 1 .. NumBlocks : ~Share(r, s, k)
=============================================================================
