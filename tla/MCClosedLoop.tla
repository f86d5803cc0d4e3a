---------------------------- MODULE MCClosedLoop ----------------------------
(***************************************************************************)
(* A workload of four requests and three workers for ClosedLoop.           *)
(***************************************************************************)
EXTENDS ClosedLoop

MCBatch == <<"r1", "r2", "r3", "r4">>
=============================================================================
