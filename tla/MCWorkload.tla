------------------------------ MODULE MCWorkload -----------------------------
(***************************************************************************)
(* Two rows for Workload that share paragraphs, one of them with an empty  *)
(* one, and the samples that can be drawn from them.                       *)
(***************************************************************************)
EXTENDS Workload

P(title) == [title |-> title, text |-> title]
Row1 == [context |-> <<P("A"), P("C"), P("B"), P("D")>>, golds |-> {"A", "B"}]
Row2 == [context |-> <<P("C"), P("E"), [title |-> "F", text |-> ""], P("D"), P("B")>>, golds |-> {"B", "C"}]
MCSamples == {<<Row1>>, <<Row1, Row2>>}

(* A group that all, some or none belong to, by the directory, and a user. *)
MCAclChoices == {{A!GroupAtom("g1")}, {A!UserAtom("u1")}}

(* Fewer documents than gold chunks, room for one more, and for all.       *)
MCConfigs == {[docs |-> 1, share |-> <<1, 2>>], [docs |-> 3, share |-> <<3, 4>>],
              [docs |-> 5, share |-> <<1, 2>>]}
=============================================================================
