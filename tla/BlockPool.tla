----------------------------- MODULE BlockPool -----------------------------
(***************************************************************************)
(* The prefix-cache simulator of src/aclkv/simulator.py: a fixed pool of   *)
(* KV blocks, reference counted, with an eviction-ordered free queue and a *)
(* table from chained block hashes to blocks, serving one request at a     *)
(* time while a window of earlier requests still holds its blocks.         *)
(*                                                                         *)
(* The simulator is single threaded: PrefixCacheSimulator.process runs to  *)
(* completion before the next call.  It is modelled by the steps between   *)
(* which its intermediate state matters: Submit looks the prefix up, every *)
(* Stall retires one request to make room, then Admit takes the blocks or  *)
(* Reject raises, and Trim shrinks the window.  pc forces that order.      *)
(***************************************************************************)
EXTENDS Integers, Sequences, FiniteSets, Functions, Filtering

CONSTANTS
  NumBlocks,        \* KV blocks in the pool
  BlockSize,        \* tokens per block (self.bs)
  MaxConcurrency,   \* requests that stay in flight once process() returns
  Users,            \* requesters known to the directory
  PromptHash,       \* hashes of full prompt blocks
  Prompts,          \* requests that may be submitted (see PromptType)
  NoReq             \* the value of req while no request is being processed

Block   == 0 .. NumBlocks - 1
NoBlock == -1       \* dict.get() of a missing hash
NoHash  == <<>>     \* block.hash is None

(* Hash of the k-th block of request `id' when it holds generated tokens.  *)
OutHash(id, k) == <<"out", id, k>>

CeilDiv(a, b) == (a + b - 1) \div b

TotalTokens(p) == p.tokens + p.output
BlocksFor(p)   == CeilDiv(TotalTokens(p), BlockSize)   \* blocks it will hold
FullBlocks(p)  == TotalTokens(p) \div BlockSize        \* of these, the full ones

(* At least one token is always recomputed.                                *)
MaxHitsMinusOne(p) ==                                  \* faulty variant, see below
  IF p.tokens <= BlockSize THEN 0 ELSE (p.tokens - 1) \div BlockSize - 1
MaxHits(p) == (p.tokens - 1) \div BlockSize

DecodeBlocks(p) == Len(p.hashes) + 1 .. FullBlocks(p)

(* The hash under which the k-th block of p is registered.                 *)
KeyAt(p, k) == IF k <= Len(p.hashes) THEN p.hashes[k] ELSE OutHash(p.id, k)

Hash == PromptHash \cup UNION {{OutHash(p.id, k) : k \in DecodeBlocks(p)} : p \in Prompts}

(* A built prompt: the chained hashes of its full blocks, and for each of  *)
(* them the audience of the effective ACL at its last token (acl_at);      *)
(* `final' is the audience of its last segment.                            *)
PromptType ==
  [id : STRING, user : Users, tokens : Nat, output : Nat, probe : BOOLEAN,
   hashes : Seq(PromptHash), audience : Seq(SUBSET Users), final : SUBSET Users]

ASSUME PoolAssumption ==
  /\ NumBlocks \in Nat /\ NumBlocks >= 2
  /\ BlockSize \in Nat /\ BlockSize >= 1
  /\ MaxConcurrency \in Nat

(* Every prompt has a token, and one hash per full block.                  *)
ASSUME PromptAssumption ==
  \A p \in Prompts :
    /\ p \in PromptType
    /\ p.tokens >= 1
    /\ Len(p.hashes) = p.tokens \div BlockSize
    /\ Len(p.audience) = Len(p.hashes)

(* The hash function does not collide: a hash chains to its parent, so it  *)
(* determines the whole prefix; prompt and decode keys are apart.          *)
ASSUME HashAssumption ==
  /\ NoHash \notin PromptHash
  /\ \A p \in Prompts : \A k \in DecodeBlocks(p) : OutHash(p.id, k) \notin PromptHash
  /\ \A p, q \in Prompts : \A i \in DOMAIN p.hashes, j \in DOMAIN q.hashes :
       p.hashes[i] = q.hashes[j] => i = j /\ (i > 1 => p.hashes[i - 1] = q.hashes[i - 1])

ASSUME NoReqAssumption == NoReq \notin Prompts

VARIABLES
  ref,        \* [Block -> Nat]: ref_cnt
  hash,       \* [Block -> hash or NoHash]
  audience,   \* [Block -> SUBSET Users]: who the block's recorded ACL allows
  fromProbe,  \* [Block -> BOOLEAN]
  free,       \* the free queue: head is evicted first
  table,      \* [Hash -> Block or NoBlock]
  inFlight,   \* blocks of each request in flight, oldest request first
  pc,         \* where process() or drain() is, "idle" when neither runs
  req,        \* the request being processed
  hits,       \* blocks of its cached prefix, as looked up
  rec         \* the record it accumulates

blockVars == <<ref, hash, audience, fromProbe, free, table, inFlight>>
callVars  == <<pc, req, hits, rec>>
vars      == <<blockVars, callVars>>

NoRec == [unauthorized |-> 0, stalls |-> 0, evictions |-> 0]

Init ==
  /\ ref = [b \in Block |-> 0]
  /\ hash = [b \in Block |-> NoHash]
  /\ audience = [b \in Block |-> Users]
  /\ fromProbe = [b \in Block |-> FALSE]
  /\ free = [i \in 1 .. NumBlocks |-> i - 1]
  /\ table = [h \in Hash |-> NoBlock]
  /\ inFlight = <<>>
  /\ pc = "idle"
  /\ req = NoReq
  /\ hits = <<>>
  /\ rec = NoRec

-----------------------------------------------------------------------------
(* Faulty variants of definitions below, none of which the specification   *)
(* uses: each property is checked to fail when one of them replaces the    *)
(* definition it is a variant of.                                          *)

ReleaseOrderForward(bids) == bids
NeedUnshared              == BlocksFor(req)
UntouchedStays            == free
AfterNoEviction(popped)   == table

RefOnlyTaken(popped) == [b \in Block |-> IF b \in popped THEN 1 ELSE ref[b]]
RefAsFlag(popped)    == [b \in Block |-> IF b \in popped \cup Range(hits) THEN 1 ELSE ref[b]]

(* A block that is freed is no longer found in the table.                  *)
RetireForgetting ==
  LET bids  == Head(inFlight)
      freed == {b \in Range(bids) : ref[b] = 1}
  IN /\ ref' = [b \in Block |-> IF b \in Range(bids) THEN ref[b] - 1 ELSE ref[b]]
     /\ free' = Filtered(Backwards(bids), freed) \o free
     /\ inFlight' = Tail(inFlight)
     /\ table' = [h \in Hash |-> IF table[h] \in freed THEN NoBlock ELSE table[h]]
     /\ UNCHANGED <<hash, audience, fromProbe>>

ReplacingRegistration(p, tab, bids, n) ==
  LET new == n + 1 .. FullBlocks(p)
  IN [h \in Hash |-> IF \E k \in new : KeyAt(p, k) = h
                     THEN bids[CHOOSE k \in new : KeyAt(p, k) = h] ELSE tab[h]]

-----------------------------------------------------------------------------
(* Lookup.                                                                 *)

(* Length of the longest cached prefix of p, short of its last token.      *)
HitLength(p) ==
  CHOOSE n \in 0 .. MaxHits(p) :
    /\ \A k \in 1 .. n : table[p.hashes[k]] # NoBlock
    /\ n < MaxHits(p) => table[p.hashes[n + 1]] = NoBlock

(* The audit: hits on state an honest request computed, which the recorded *)
(* ACL does not open to the requester.                                     *)
Unauthorized(p, found) ==
  Cardinality({k \in DOMAIN found : ~fromProbe[found[k]] /\ p.user \notin audience[found[k]]})

Submit(p) ==
  /\ pc = "idle"
  /\ LET found == [k \in 1 .. HitLength(p) |-> table[p.hashes[k]]]
     IN /\ hits' = found
        /\ rec' = [NoRec EXCEPT !.unauthorized = Unauthorized(p, found)]
  /\ req' = p
  /\ pc' = "admit"
  /\ UNCHANGED blockVars

-----------------------------------------------------------------------------
(* Retirement: the oldest request gives its blocks back, last block first; *)
(* blocks without a hash go to the head of the queue, hashed ones behind.  *)

ReleaseOrder(bids) == Backwards(bids)

RetireOldest ==
  LET bids   == Head(inFlight)
      freed  == {b \in Range(bids) : ref[b] = 1}
      blank  == {b \in freed : hash[b] = NoHash}
  IN /\ ref' = [b \in Block |-> IF b \in Range(bids) THEN ref[b] - 1 ELSE ref[b]]
     /\ free' = Filtered(ReleaseOrder(bids), blank) \o free
                  \o Filtered(ReleaseOrder(bids), freed \ blank)
     /\ inFlight' = Tail(inFlight)
     /\ UNCHANGED <<hash, audience, fromProbe, table>>

(* Blocks the request still needs, and hits that sit in the free queue and *)
(* will leave it when touched.                                             *)
Need          == BlocksFor(req) - Len(hits)
EvictableHits == Cardinality({k \in DOMAIN hits : ref[hits[k]] = 0})
Short         == Len(free) - EvictableHits < Need

Stall ==
  /\ pc = "admit"
  /\ Short
  /\ inFlight # <<>>
  /\ RetireOldest
  /\ rec' = [rec EXCEPT !.stalls = @ + 1]
  /\ UNCHANGED <<pc, req, hits>>

(* RuntimeError: even an empty window leaves too little room.              *)
RejectRetrying ==                                      \* faulty variant, see above
  /\ pc = "admit"
  /\ Short
  /\ inFlight = <<>>
  /\ rec' = [rec EXCEPT !.stalls = @ + 1]
  /\ UNCHANGED <<blockVars, pc, req, hits>>

Reject ==
  /\ pc = "admit"
  /\ Short
  /\ inFlight = <<>>
  /\ pc' = "idle"
  /\ req' = NoReq
  /\ hits' = <<>>
  /\ rec' = NoRec
  /\ UNCHANGED blockVars

-----------------------------------------------------------------------------
(* Admission.                                                              *)

(* The free queue once the hits have been touched.                         *)
Untouched == Filtered(free, Block \ Range(hits))

(* Reference counts once the hits were touched and the rest was taken.     *)
RefOnAdmit(popped) ==
  [b \in Block |-> IF b \in popped THEN 1
                   ELSE IF b \in Range(hits) THEN ref[b] + 1 ELSE ref[b]]

(* The table once the blocks in `popped' gave up their own entries.        *)
AfterEviction(popped) ==
  [h \in Hash |-> IF table[h] \in popped /\ hash[table[h]] = h THEN NoBlock ELSE table[h]]

(* The table once blocks bids[k], k > n, are registered: a prompt block    *)
(* does not replace an entry (setdefault), a decode block does.            *)
AfterRegistration(p, tab, bids, n) ==
  LET new     == n + 1 .. FullBlocks(p)
      slot(h) == CHOOSE k \in new : KeyAt(p, k) = h
  IN [h \in Hash |->
        IF /\ \E k \in new : KeyAt(p, k) = h
           /\ tab[h] = NoBlock \/ slot(h) > Len(p.hashes)
        THEN bids[slot(h)] ELSE tab[h]]

Admit ==
  /\ pc = "admit"
  /\ ~Short
  /\ LET n       == Len(hits)
         bids    == hits \o SubSeq(Untouched, 1, Need)
         popped  == {bids[k] : k \in n + 1 .. BlocksFor(req)}
         slot(b) == CHOOSE k \in n + 1 .. BlocksFor(req) : bids[k] = b
         fresh   == {b \in popped : slot(b) <= FullBlocks(req)}
     IN /\ free' = SubSeq(Untouched, Need + 1, Len(Untouched))
        /\ ref' = RefOnAdmit(popped)
        /\ hash' = [b \in Block |-> IF b \in fresh THEN KeyAt(req, slot(b))
                                    ELSE IF b \in popped THEN NoHash ELSE hash[b]]
        /\ audience' = [b \in Block |->
                          IF b \notin fresh THEN audience[b]
                          ELSE IF slot(b) <= Len(req.hashes) THEN req.audience[slot(b)]
                          ELSE req.final]
        /\ fromProbe' = [b \in Block |-> IF b \in fresh THEN req.probe
                                         ELSE fromProbe[b] /\ (b \in popped => hash[b] = NoHash)]
        /\ table' = AfterRegistration(req, AfterEviction(popped), bids, n)
        /\ inFlight' = Append(inFlight, bids)
        /\ rec' = [rec EXCEPT !.evictions = Cardinality({b \in popped : hash[b] # NoHash})]
  /\ pc' = "trim"
  /\ UNCHANGED <<req, hits>>

(* The window shrinks to MaxConcurrency; then the call returns.            *)
WindowOverfull == Len(inFlight) > MaxConcurrency

Trim ==
  /\ pc = "trim"
  /\ WindowOverfull
  /\ RetireOldest
  /\ UNCHANGED callVars

Return ==
  /\ pc = "trim"
  /\ ~WindowOverfull
  /\ pc' = "idle"
  /\ req' = NoReq
  /\ hits' = <<>>
  /\ rec' = NoRec
  /\ UNCHANGED blockVars

-----------------------------------------------------------------------------
(* drain(): every request in flight retires.                               *)

CallDrain ==
  /\ pc = "idle"
  /\ inFlight # <<>>
  /\ pc' = "drain"
  /\ UNCHANGED <<blockVars, req, hits, rec>>

Drain ==
  /\ pc = "drain"
  /\ RetireOldest
  /\ pc' = IF Len(inFlight) = 1 THEN "idle" ELSE "drain"
  /\ UNCHANGED <<req, hits, rec>>

-----------------------------------------------------------------------------

(* The steps of a call once it has begun.                                  *)
Step == Stall \/ Reject \/ Admit \/ Trim \/ Return \/ Drain

Next == (\E p \in Prompts : Submit(p)) \/ CallDrain \/ Step

Spec == Init /\ [][Next]_vars

-----------------------------------------------------------------------------
(* Properties.                                                             *)

(* The fields of the simulator, and the variables of the running call,     *)
(* have the values simulator.py gives them: counts that never go below     *)
(* zero, queues and requests of blocks, a request exactly while process()  *)
(* runs.                                                                   *)
PoolTypeOK ==
  /\ ref \in [Block -> Nat]
  /\ hash \in [Block -> Hash \cup {NoHash}]
  /\ audience \in [Block -> SUBSET Users]
  /\ fromProbe \in [Block -> BOOLEAN]
  /\ free \in Seq(Block)
  /\ table \in [Hash -> Block \cup {NoBlock}]
  /\ inFlight \in Seq(Seq(Block))

CallTypeOK ==
  /\ pc \in {"idle", "admit", "trim", "drain"}
  /\ req \in Prompts \cup {NoReq}
  /\ pc \in {"admit", "trim"} <=> req # NoReq
  /\ hits \in Seq(Block)
  /\ rec \in [unauthorized : Nat, stalls : Nat, evictions : Nat]

TypeOK == PoolTypeOK /\ CallTypeOK

(* A block's ref_cnt is the number of requests in flight that hold it, so  *)
(* no retirement frees a block that another request still reads.           *)
Holders(b)    == {i \in 1 .. Len(inFlight) : b \in Range(inFlight[i])}
RefCountExact == \A b \in Block : ref[b] = Cardinality(Holders(b))

(* The free queue lists every unreferenced block once and nothing else: no *)
(* block leaks, and none is handed out while it is in use.                 *)
FreeQueueExact == IsInjective(free) /\ Range(free) = {b \in Block : ref[b] = 0}

(* The table never points at a block that has been given to other content. *)
TableSound == \A h \in Hash : table[h] # NoBlock => hash[table[h]] = h

(* The hits looked up before the stall loop are still the cached prefix    *)
(* when the request is admitted after it.                                  *)
HitsStayCached ==
  pc = "admit" => \A k \in DOMAIN hits : table[req.hashes[k]] = hits[k]

(* Whenever the stall loop lets a request through, popleft finds all the   *)
(* blocks it takes, after the touched hits have left the queue.            *)
AllocationFits == pc = "admit" /\ ~Short => Need <= Len(Untouched)

(* "KV budget ... cannot hold one request" is raised only for a request    *)
(* that the whole pool could not hold, whatever is cached.                 *)
RejectOnlyOversize ==
  pc = "admit" /\ Short /\ inFlight = <<>> => BlocksFor(req) > NumBlocks

(* Two blocks carry the same prompt hash only where the hit cap makes a    *)
(* request recompute a cached block: at the last full block of a prompt    *)
(* that ends on a block boundary.                                          *)
DuplicatesOnlyAtCap ==
  \A b, c \in Block :
    b # c /\ hash[b] = hash[c] /\ hash[b] \in PromptHash =>
      \E p \in Prompts : /\ p.tokens % BlockSize = 0
                         /\ p.hashes[Len(p.hashes)] = hash[b]

(* The cache-hit gate: no request, honest or replayed by an outsider, is   *)
(* ever served a block that an honest request computed from a document its *)
(* own user may not read.                                                  *)
NoUnauthorizedHit == rec.unauthorized = 0

(* A request in flight is retired early only for want of room: its blocks  *)
(* and those of the others in flight, counted without any sharing, would   *)
(* not fit into the pool next to what the new request needs in all.        *)
BlocksInFlight == Cardinality(UNION {{i} \X DOMAIN inFlight[i] : i \in DOMAIN inFlight})
StallsOnlyWithoutRoom ==
  [][pc = "admit" /\ inFlight' # inFlight /\ pc' = "admit" =>
       BlocksInFlight + BlocksFor(req) > NumBlocks]_vars

(* The entry of a block in use stays: only the entries of free blocks are  *)
(* evicted, and no later request takes a held block's place in the table.  *)
InUsePinned ==
  [][\A h \in PromptHash : table[h] # NoBlock /\ ref[table[h]] > 0 => table'[h] = table[h]]_vars

(* Every call returns or raises: no step of a call is stuck (TLC checks    *)
(* deadlock), and each iteration of the stall, trim and drain loops brings *)
(* its end nearer, although admission puts one more request in flight.     *)
StepsLeft == IF pc = "idle" THEN 0 ELSE Len(inFlight) + (IF pc = "admit" THEN 3 ELSE 1)
CallsEnd == [][pc # "idle" => StepsLeft' \in Nat /\ StepsLeft' < StepsLeft]_vars
=============================================================================
