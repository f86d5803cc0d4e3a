----------------------------- MODULE BenchMatrix -----------------------------
(***************************************************************************)
(* The driver of the live benchmark, src/scripts/run_bench_matrix.sh: for  *)
(* each KV budget it starts a server, smoke-tests it, runs aclkv.bench for *)
(* every cell (workload and concurrency), probes the server and stops it;  *)
(* with TRUE_B0=1 it then measures B0 on a server without prefix caching.  *)
(* Files on disk say what an earlier launch has done.  The script runs     *)
(* under set -e with a trap that stops the server, but may also be killed. *)
(*                                                                         *)
(* A bench process is what BenchRun promises: it records the policies that *)
(* are missing, in order, and exits 0 only when all are recorded.          *)
(***************************************************************************)
EXTENDS Integers, Sequences, FiniteSets, Functions, Filtering

CONSTANTS
  Budgets, Cells, Policies,   \* KV_GIBS, SHARES x CONCS, POLICIES: sequences
  TrueB0, Probe,              \* TRUE_B0=1, SECURITY_PROBE=1
  MaxLaunches                 \* bound on the number of launches

VARIABLES
  files,     \* the result file of each job recorded: which server was measured, in which launch
  probes,    \* budgets with a probe file
  servers,   \* servers that run on the machine
  pc,        \* what the script does next
  force, i, j, plain, todo,   \* FORCE=1, loop positions, in the trueB0 part, policies left of a bench
  exit, launches

position == <<i, j, plain, todo>>
vars     == <<files, probes, servers, pc, force, position, exit, launches>>

ASSUME MatrixAssumption ==
  /\ Budgets \in Seq(Range(Budgets)) /\ IsInjective(Budgets)
  /\ Cells \in Seq(Range(Cells)) /\ IsInjective(Cells)
  /\ Policies \in Seq(Range(Policies)) /\ IsInjective(Policies)
  /\ TrueB0 \in BOOLEAN /\ Probe \in BOOLEAN /\ MaxLaunches \in Nat

PoliciesOf(p)         == IF p THEN <<"B0">> ELSE Policies
Job(kv, p, cell, pol) == <<kv, p, cell, pol>>
Server(kv, p)         == [kv |-> kv, caching |-> ~p]

(* The parts of a budget: prefix caching and, with TRUE_B0=1, without it.  *)
Parts == {p \in BOOLEAN : p => TrueB0}

JobsOf(p) == {Job(kv, p, c, pol) : kv \in Range(Budgets), c \in Range(Cells), pol \in Range(PoliciesOf(p))}
Jobs      == UNION {JobsOf(p) : p \in Parts}

Init ==
  /\ files = <<>> /\ probes = {} /\ servers = {}
  /\ pc = "idle" /\ force = FALSE
  /\ i = 1 /\ j = 1 /\ plain = FALSE /\ todo = <<>>
  /\ exit = "none" /\ launches = 0

Recorded(job) == job \in DOMAIN files

Done(kv, p, cell) == \A pol \in Range(PoliciesOf(p)) : Recorded(Job(kv, p, cell, pol))

(* Faulty variants, which the specification does not use.                  *)
BudgetDoneCached(kv)    == \A c \in Range(Cells) : Done(kv, FALSE, c)
StartServerReusing(s)   == IF servers = {} THEN {s} ELSE servers
MissingAlways(p, cell)  == PoliciesOf(p)

(* kv_budget_done: nothing is left to do for the budget.                   *)
BudgetDone(kv) ==
  /\ \A c \in Range(Cells) : Done(kv, FALSE, c) /\ (TrueB0 => Done(kv, TRUE, c))
  /\ Probe => kv \in probes

(* start_server kills every server it finds before it starts its own.      *)
StartServer(s) == {s}
StopServer     == {}

Exit(how) ==
  /\ pc' = "idle"
  /\ exit' = how
  /\ i' = 1 /\ j' = 1 /\ plain' = FALSE /\ todo' = <<>>

(* set -e, a signal, or the end of the script: the trap stops the server.  *)
ExitTrapped(how) ==
  /\ Exit(how)
  /\ servers' = StopServer
  /\ UNCHANGED <<files, probes, force, launches>>

Launch(f) ==
  /\ pc = "idle"
  /\ launches < MaxLaunches
  /\ launches' = launches + 1
  /\ force' = f
  /\ pc' = "budget"
  /\ exit' = "none"
  /\ UNCHANGED <<files, probes, servers, position>>

Finish ==
  /\ pc = "budget"
  /\ i > Len(Budgets)
  /\ ExitTrapped("ok")

SkipBudget ==
  /\ pc = "budget"
  /\ i <= Len(Budgets)
  /\ ~force /\ BudgetDone(Budgets[i])
  /\ i' = i + 1
  /\ UNCHANGED <<files, probes, servers, pc, force, j, plain, todo, exit, launches>>

StartCached ==
  /\ pc = "budget"
  /\ i <= Len(Budgets)
  /\ force \/ ~BudgetDone(Budgets[i])
  /\ servers' = StartServer(Server(Budgets[i], FALSE))
  /\ pc' = "smoke"
  /\ j' = 1 /\ plain' = FALSE
  /\ UNCHANGED <<files, probes, force, i, todo, exit, launches>>

SmokeTest ==
  /\ pc = "smoke"
  /\ pc' = "cells"
  /\ UNCHANGED <<files, probes, servers, force, position, exit, launches>>

SkipCell ==
  /\ pc = "cells"
  /\ j <= Len(Cells)
  /\ ~force /\ Done(Budgets[i], plain, Cells[j])
  /\ j' = j + 1
  /\ UNCHANGED <<files, probes, servers, pc, force, i, plain, todo, exit, launches>>

(* The checkpoint scan of the bench process.                               *)
MissingPolicies(p, cell) ==
  Filtered(PoliciesOf(p), {pol \in Range(PoliciesOf(p)) : force \/ ~Recorded(Job(Budgets[i], p, cell, pol))})

EnterCell ==
  /\ pc = "cells"
  /\ j <= Len(Cells)
  /\ force \/ ~Done(Budgets[i], plain, Cells[j])
  /\ todo' = MissingPolicies(plain, Cells[j])
  /\ pc' = "bench"
  /\ UNCHANGED <<files, probes, servers, force, i, j, plain, exit, launches>>

(* The bench process measures whichever server answers on the port.        *)
Record ==
  /\ pc = "bench"
  /\ todo # <<>>
  /\ \E s \in servers :
       LET job == Job(Budgets[i], plain, Cells[j], todo[1])
       IN files' = [k \in DOMAIN files \cup {job} |-> IF k = job THEN [server |-> s, launch |-> launches] ELSE files[k]]
  /\ todo' = Tail(todo)
  /\ UNCHANGED <<probes, servers, pc, force, i, j, plain, exit, launches>>

EndBench ==
  /\ pc = "bench"
  /\ todo = <<>>
  /\ pc' = "cells"
  /\ j' = j + 1
  /\ UNCHANGED <<files, probes, servers, force, i, plain, todo, exit, launches>>

EndCells ==
  /\ pc = "cells"
  /\ j > Len(Cells)
  /\ IF plain
     THEN servers' = StopServer /\ i' = i + 1 /\ pc' = "budget" /\ plain' = FALSE
     ELSE pc' = "probe" /\ UNCHANGED <<servers, i, plain>>
  /\ UNCHANGED <<files, probes, force, j, todo, exit, launches>>

(* The probe may fail to write its file; the script goes on all the same.  *)
ProbeServer ==
  /\ pc = "probe"
  /\ IF Probe /\ (force \/ Budgets[i] \notin probes)
     THEN probes' \in {probes, probes \cup {Budgets[i]}}
     ELSE UNCHANGED probes
  /\ servers' = StopServer
  /\ pc' = "plain"
  /\ UNCHANGED <<files, force, position, exit, launches>>

PlainNeeded == TrueB0 /\ (force \/ \E c \in Range(Cells) : ~Done(Budgets[i], TRUE, c))

StartPlain ==
  /\ pc = "plain"
  /\ PlainNeeded
  /\ servers' = StartServer(Server(Budgets[i], TRUE))
  /\ pc' = "cells"
  /\ j' = 1 /\ plain' = TRUE
  /\ UNCHANGED <<files, probes, force, i, todo, exit, launches>>

SkipPlain ==
  /\ pc = "plain"
  /\ ~PlainNeeded
  /\ i' = i + 1
  /\ pc' = "budget"
  /\ UNCHANGED <<files, probes, servers, force, j, plain, todo, exit, launches>>

(* A server that does not come up, a smoke test that fails, a bench        *)
(* process that exits with an error, or an interrupt.                      *)
Fail ==
  /\ pc # "idle"
  /\ ExitTrapped("error")

(* Nothing runs the trap of a script that is killed outright.              *)
Kill ==
  /\ pc # "idle"
  /\ Exit("killed")
  /\ UNCHANGED <<files, probes, servers, force, launches>>

Next ==
  \/ \E f \in BOOLEAN : Launch(f)
  \/ Finish \/ SkipBudget \/ StartCached \/ SmokeTest
  \/ SkipCell \/ EnterCell \/ Record \/ EndBench \/ EndCells
  \/ ProbeServer \/ StartPlain \/ SkipPlain
  \/ Fail \/ Kill

Spec == Init /\ [][Next]_vars

-----------------------------------------------------------------------------
(* Every result was measured on a server with the budget its name says,    *)
(* with prefix caching unless it is a trueB0 result, also when a killed    *)
(* launch left a server behind on the port.                                *)
MeasuredOnItsServer ==
  \A job \in DOMAIN files : files[job].server = Server(job[1], job[2])

(* A launch that is not forced measures nothing again: a result stays the  *)
(* one of the launch that first recorded it.                               *)
ResumeKeepsResults ==
  [][\A job \in DOMAIN files : job \in DOMAIN files' /\ (~force => files'[job] = files[job])]_vars

(* A launch that exits 0 leaves a result for every job of the matrix,      *)
(* whatever earlier launches did, and where they stopped.                  *)
ExitZeroMeansComplete == exit = "ok" => Jobs \subseteq DOMAIN files
=============================================================================
