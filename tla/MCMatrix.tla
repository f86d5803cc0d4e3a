------------------------------ MODULE MCMatrix -------------------------------
(***************************************************************************)
(* Two budgets, two cells and two policies for BenchMatrix.                *)
(***************************************************************************)
EXTENDS BenchMatrix

MCBudgets  == <<"1GiB", "2GiB">>
MCCells    == <<"share0_c16", "share5_c16">>
MCPolicies == <<"B0", "B3">>
=============================================================================
