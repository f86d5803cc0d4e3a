------------------------------- MODULE MCSweep -------------------------------
(***************************************************************************)
(* Command lines for SweepCheckpoint: the whole matrix of two workloads    *)
(* under one and two policies and two budgets, and a part of it with other *)
(* build settings.                                                         *)
(***************************************************************************)
EXTENDS SweepCheckpoint

Matrix(force) == [groups |-> <<<<"w1", "B0">>, <<"w1", "B3">>, <<"w2", "B3">>>>,
                  combos |-> <<"1GiB", "2GiB">>, force |-> force, settings |-> "aligned"]
Part          == [groups |-> <<<<"w2", "B3">>, <<"w1", "B3">>>>,
                  combos |-> <<"2GiB">>, force |-> FALSE, settings |-> "no_align"]

(* One sweep resumed again and again, and all kinds of launches.           *)
MCCampaigns == {{Matrix(FALSE)}, {Matrix(FALSE), Matrix(TRUE), Part}}
MCWorkloads == {"w1", "w2"}
MCPolicies  == {"B0", "B3"}
MCCombos    == {"1GiB", "2GiB"}
=============================================================================
