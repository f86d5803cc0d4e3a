---------------------------- MODULE MCBlockPool ----------------------------
(***************************************************************************)
(* Small pools for BlockPool: five prompts over one tree of prefixes,      *)
(*                                                                         *)
(*     h1 -- h2 -- h3          h4                                          *)
(*       \-- h5 -- h6                                                      *)
(*                                                                         *)
(* with a block size of two tokens.                                        *)
(***************************************************************************)
EXTENDS BlockPoolRefines

H(n) == <<"prompt", n>>

MCPromptHash == {H(n) : n \in 1 .. 6}
MCUsers      == {"alice", "bob"}

Prompt(id, user, tokens, output, path) ==
  [id |-> id, user |-> user, tokens |-> tokens, output |-> output, probe |-> FALSE,
   hashes |-> [k \in DOMAIN path |-> H(path[k])],
   audience |-> [k \in DOMAIN path |-> MCUsers], final |-> MCUsers]

(* "cap" ends on a block boundary, so it recomputes its last full block;   *)
(* "deep" and "cap" share h2 with different continuations; "leaf" never    *)
(* shares; "fork" leaves the tree after h1.                                *)
MCPrompts ==
  { Prompt("cap",  "alice", 4, 1, <<1, 2>>),
    Prompt("deep", "bob",   7, 1, <<1, 2, 3>>),
    Prompt("fork", "alice", 6, 0, <<1, 5, 6>>),
    Prompt("leaf", "bob",   2, 2, <<4>>) }

(* With a request that fits only the larger pools.                         *)
MCPromptsBig == MCPrompts \cup { Prompt("big", "alice", 11, 0, <<1, 5, 6, 7, 8>>) }
MCPromptHashBig == {H(n) : n \in 1 .. 8}
=============================================================================
