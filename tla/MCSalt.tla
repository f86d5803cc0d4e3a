------------------------------- MODULE MCSalt --------------------------------
(***************************************************************************)
(* Barrier lists and salts for SaltDecoding: two scope ids, offsets around *)
(* the boundaries of blocks of two tokens, and the limits of the encoding  *)
(* at three barriers and at a length that two-digit offsets exceed.        *)
(***************************************************************************)
EXTENDS LiveChecks

Items(sids, offsets) == [sid : sids, off : offsets]
UpTo(n, S) == UNION {[1 .. k -> S] : k \in 0 .. n}

MCScopeIds == {"a", "b", "c", "d"}
MCFreshIds == <<"c", "d">>

(* The barriers of built prompts, the first at the start; and lists that   *)
(* the encoder refuses.                                                    *)
MCBarriers ==
  {<<[sid |-> s, off |-> 0]>> \o rest : s \in {"a", "b"}, rest \in UpTo(1, Items({"a", "b"}, {0, 1, 2, 3, 4}))}
  \cup {<<[sid |-> "a", off |-> 0], [sid |-> "b", off |-> x], [sid |-> "a", off |-> y]>> :
          x \in {1, 2, 3, 40}, y \in {2, 3, 4, 40, 50}}
  \cup {<<[sid |-> "a", off |-> 0], [sid |-> "b", off |-> 1], [sid |-> "a", off |-> 2], [sid |-> "b", off |-> 3]>>}

MCForeign ==
  {[ours |-> TRUE, items |-> items] :
     items \in UpTo(1, Items({"a", "b", "zz"}, {0, 2, NoNumber}))
               \cup {<<[sid |-> "a", off |-> 2], [sid |-> "b", off |-> 0]>>,
                     <<[sid |-> "a", off |-> 0], [sid |-> "zz", off |-> 2]>>,
                     <<[sid |-> "a", off |-> 0], [sid |-> "b", off |-> 30], [sid |-> "a", off |-> 40]>>,
                     <<[sid |-> "a", off |-> 0], [sid |-> "b", off |-> 1], [sid |-> "a", off |-> 2], [sid |-> "b", off |-> 3]>>}}
  \cup {[ours |-> FALSE, items |-> << >>]}

(* One victim's prompts share the preamble; UB and its variants send no    *)
(* salt, scoped policies a barrier at the start and one at the documents.  *)
MCVictim(policy, text, tail, barriers) ==
  [policy |-> policy, prompt |-> [text |-> text, tail |-> tail], barriers |-> barriers]
MCVictimLists ==
  LET scoped == <<[off |-> 0, sid |-> "a"], [off |-> 2, sid |-> "b"]>>
  IN { << MCVictim("UB", <<"pre", "x">>, 1, << >>), MCVictim("B3", <<"pre", "y">>, 0, scoped),
          MCVictim("B3", <<"pre", "x">>, 1, scoped) >>,
       << MCVictim("B3", <<"pre", "x">>, 1, scoped), MCVictim("UB-order", <<"pre", "y">>, 0, << >>) >> }
=============================================================================
