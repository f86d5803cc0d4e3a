------------------------------ MODULE MCBench -------------------------------
(***************************************************************************)
(* Two policies, a workload of two requests and two workers for BenchRun.  *)
(***************************************************************************)
EXTENDS BenchRun, TLC

MCPolicies == <<"B1", "B3">>
MCBatch    == <<"r1", "r2">>

(* Workers are alike.                                                      *)
Crew == Permutations(Workers)
=============================================================================
