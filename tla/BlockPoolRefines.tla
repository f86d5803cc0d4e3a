-------------------------- MODULE BlockPoolRefines --------------------------
(***************************************************************************)
(* BlockPool implements PrefixCache: a hash is cached when the table maps  *)
(* it to a block, and in use while that block is referenced.               *)
(***************************************************************************)
EXTENDS BlockPool

CachedHashes == {h \in PromptHash : table[h] # NoBlock}
HashesInUse  == {h \in CachedHashes : ref[table[h]] > 0}

Cache == INSTANCE PrefixCache
  WITH HitCap <- MaxHits,
       cached <- CachedHashes,
       inUse  <- HashesInUse,
       found  <- Len(hits),
       served <- pc = "trim"

(* Through evictions, stalls and retirements, every request is answered    *)
(* with its longest cached prefix, entries in use are never dropped, the   *)
(* cached set stays closed under prefixes and only admission changes it.   *)
ImplementsPrefixCache == Cache!Spec
=============================================================================
