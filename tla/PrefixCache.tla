---------------------------- MODULE PrefixCache ----------------------------
(***************************************************************************)
(* What a prefix cache promises, without blocks, reference counts or an    *)
(* eviction order: a set of cached prefix hashes from which every request  *)
(* is answered with its longest cached prefix.  BlockPool implements it    *)
(* (module BlockPoolRefines).                                              *)
(***************************************************************************)
EXTENDS Integers, Sequences, Functions

CONSTANTS
  PromptHash,     \* hashes of full prompt blocks
  Prompts,        \* requests, with the field hashes
  HitCap(_),      \* most blocks of a request that may be served from the cache
  NoReq           \* no request is being served

VARIABLES
  cached,   \* hashes a lookup can find
  inUse,    \* those that requests in flight are reading
  req,      \* the request being served
  found,    \* length of the cached prefix it was answered with
  served    \* it has been given its blocks

vars == <<cached, inUse, req, found, served>>

FirstHashes(p, n) == {p.hashes[k] : k \in 1 .. n}

(* A cached hash whose parent is gone could never be found again.          *)
Closed(S) ==
  \A p \in Prompts : \A k \in 2 .. Len(p.hashes) :
    p.hashes[k] \in S => p.hashes[k - 1] \in S

Init ==
  /\ cached = {} /\ inUse = {}
  /\ req = NoReq /\ found = 0 /\ served = FALSE

(* A request learns the length of its longest cached prefix.               *)
Answer(p) ==
  /\ req = NoReq
  /\ \E n \in 0 .. HitCap(p) :
       /\ FirstHashes(p, n) \subseteq cached
       /\ n < HitCap(p) => p.hashes[n + 1] \notin cached
       /\ found' = n
  /\ req' = p
  /\ UNCHANGED <<cached, inUse, served>>

(* Requests in flight finish; what they computed stays cached.             *)
Release ==
  /\ inUse' \in SUBSET inUse
  /\ UNCHANGED <<cached, req, found, served>>

(* The request gets its blocks: entries that nobody reads may make room,   *)
(* everything it shares or computes is cached, nothing else appears.       *)
Serve ==
  /\ req # NoReq /\ ~served
  /\ \E evicted \in SUBSET (cached \ (inUse \cup FirstHashes(req, found))) :
       cached' = (cached \ evicted) \cup Range(req.hashes)
  /\ Closed(cached')
  /\ \E more \in SUBSET Range(req.hashes) :
       inUse' = inUse \cup FirstHashes(req, found) \cup more
  /\ served' = TRUE
  /\ UNCHANGED <<req, found>>

(* It is turned away, which takes nothing from the cache, and only once    *)
(* nobody else holds blocks it could wait for.                             *)
Refuse ==
  /\ req # NoReq /\ ~served
  /\ inUse = {}
  /\ req' = NoReq /\ found' = 0
  /\ UNCHANGED <<cached, inUse, served>>

Finish ==
  /\ served
  /\ req' = NoReq /\ found' = 0 /\ served' = FALSE
  /\ UNCHANGED <<cached, inUse>>

Next == (\E p \in Prompts : Answer(p)) \/ Release \/ Serve \/ Refuse \/ Finish

Spec == Init /\ [][Next]_vars
=============================================================================
