------------------------------ MODULE BenchRun ------------------------------
(***************************************************************************)
(* The benchmark of src/aclkv/bench.py, amain and bench_policy, and the    *)
(* server it measures: one launch scans the checkpoint files, warms the    *)
(* server up and then measures each policy that is missing: reset the      *)
(* prefix cache, scrape the counters, run the closed loop (ClosedLoop),    *)
(* scrape again, and put the report in place of the policy's file.  A      *)
(* launch may die between any two steps; the server outlives it.           *)
(*                                                                         *)
(* The server is external: a counter of the requests it finished, and      *)
(* whose blocks its prefix cache holds.                                    *)
(***************************************************************************)
EXTENDS ClosedLoop, FiniteSets, Filtering

CONSTANTS
  Policies,      \* the --policies argument, in order
  WarmUp,        \* how many requests warm the server up
  MaxLaunches,   \* bound on the number of launches
  MaxLost,       \* bound on the scrapes that fail in one launch
  NoFile, Missing

VARIABLES
  files,     \* the checkpoint file of each policy, or NoFile
  tmp,       \* the temporary file, or NoFile
  pc,        \* what the launch does next
  force,     \* its --force argument
  todo,      \* policies it still has to measure
  wasReset,  \* whether the server said it reset its cache
  before,    \* the counter scraped before the loop, or Missing
  exit,      \* how the last launch ended
  launches,
  lost,      \* scrapes of this launch that failed
  cache,     \* server: whose blocks its prefix cache holds
  served,    \* server: requests finished
  warm,      \* ghost: whose blocks it held when the loop began
  own        \* ghost: requests of this loop it finished

disk   == <<files, tmp>>
server == <<cache, served>>
ghosts == <<warm, own>>
vars   == <<loop, disk, pc, force, todo, wasReset, before, exit, launches, lost, server, ghosts>>

ASSUME BenchAssumption ==
  /\ Policies \in Seq(Range(Policies)) /\ IsInjective(Policies)
  /\ WarmUp \in Nat /\ MaxLaunches \in Nat /\ MaxLost \in Nat
  /\ "warmup" \notin Range(Policies)

(* Whose blocks a server may hold; what a report says; the lack of a file  *)
(* is none of them.                                                        *)
Owners  == Range(Policies) \cup {"warmup"}
Reports == [answers : UNION {[S -> Answers] : S \in SUBSET Prompts}, delta : Int \cup {Missing},
            scraped : BOOLEAN, reset : BOOLEAN, warm : SUBSET Owners, own : Nat]

ASSUME FileAssumption == NoFile \notin Reports

Init ==
  /\ batch = <<>> /\ queue = <<>> /\ at = [w \in Workers |-> Ended] /\ results = <<>>
  /\ files = [p \in Range(Policies) |-> NoFile] /\ tmp = NoFile
  /\ pc = "idle" /\ force = FALSE /\ todo = <<>>
  /\ wasReset = FALSE /\ before = Missing /\ exit = "none" /\ launches = 0 /\ lost = 0
  /\ cache = {} /\ served = 0 /\ warm = {} /\ own = 0

(* What bench_policy and the loop hold in memory is gone when they end.    *)
Forget ==
  /\ batch' = <<>> /\ queue' = <<>> /\ results' = <<>>
  /\ at' = [w \in Workers |-> Ended]
  /\ wasReset' = FALSE /\ before' = Missing /\ warm' = {} /\ own' = 0

Exit(how) ==
  /\ pc' = "idle"
  /\ exit' = how

(* Faulty variants, which the specification does not use: ResetOnce,       *)
(* CounterTotal, SummarizeInPlace, AbortSkips.                             *)

(* The policies without a complete checkpoint; all of them under --force.  *)
Needed(f) == Filtered(Policies, {p \in Range(Policies) : f \/ files[p] = NoFile})

Launch(f) ==
  /\ pc = "idle"
  /\ launches < MaxLaunches
  /\ launches' = launches + 1
  /\ lost' = 0
  /\ force' = f
  /\ todo' = Needed(f)
  /\ IF Needed(f) = <<>> THEN Exit("ok") ELSE pc' = "connect" /\ exit' = "none"
  /\ UNCHANGED <<loop, disk, wasReset, before, server, ghosts>>

(* wait_ready and resolve_model; then the warm-up, if there is one.        *)
Connect ==
  /\ pc = "connect"
  /\ IF WarmUp > 0
     THEN /\ pc' = "warmup"
          /\ \E crew \in SUBSET Workers :
               /\ Cardinality(crew) = IF Cardinality(Workers) < WarmUp THEN Cardinality(Workers) ELSE WarmUp
               /\ Begin(SubSeq(Batch, 1, WarmUp), crew)
     ELSE pc' = "reset" /\ UNCHANGED loop
  /\ UNCHANGED <<disk, force, todo, wasReset, before, exit, launches, lost, server, ghosts>>

NotReady ==
  /\ pc = "connect"
  /\ Exit("not ready")
  /\ todo' = <<>>
  /\ UNCHANGED <<loop, disk, force, wasReset, before, launches, lost, server, ghosts>>

(* The server's side of an answer.  A failed call may have been computed,  *)
(* and even finished, before the client gave it up.                        *)
Serve(a) ==
  LET who      == IF pc = "warmup" THEN "warmup" ELSE todo[1]
      prefill  == cache' = cache \cup {who}
      finished == served' = served + 1 /\ own' = own + 1
      dropped  == UNCHANGED <<served, own>>
  IN \/ (Ok(a) \/ a = "exception") /\ prefill /\ finished
     \/ a = "exception" /\ prefill /\ dropped
     \/ ~Ok(a) /\ UNCHANGED cache /\ dropped

Worker(w) ==
  /\ pc \in {"warmup", "loop"}
  /\ \/ Start(w) /\ UNCHANGED <<server, own>>
     \/ \E a \in Answers : Answer(w, a) /\ Serve(a)
  /\ UNCHANGED <<disk, pc, force, todo, wasReset, before, exit, launches, lost, warm>>

Warmed ==
  /\ pc = "warmup"
  /\ Gathered
  /\ pc' = "reset"
  /\ Forget
  /\ UNCHANGED <<disk, force, todo, exit, launches, lost, server>>

ResetOnce ==
  /\ pc = "reset"
  /\ wasReset' = TRUE
  /\ cache' = IF todo = Needed(force) THEN {} ELSE cache
  /\ pc' = "scrape"
  /\ UNCHANGED <<loop, disk, force, todo, before, exit, launches, lost, served, ghosts>>

(* POST /reset_prefix_cache; a refusal is only reported.                   *)
Reset ==
  /\ pc = "reset"
  /\ \/ wasReset' = TRUE /\ cache' = {}
     \/ wasReset' = FALSE /\ cache' = cache
  /\ pc' = "scrape"
  /\ UNCHANGED <<loop, disk, force, todo, before, exit, launches, lost, served, ghosts>>

(* What GET /metrics yields: nothing when it fails, and it fails at most   *)
(* MaxLost times in a launch.                                              *)
Scrape(m) ==
  \/ m = served /\ UNCHANGED lost
  \/ m = Missing /\ lost < MaxLost /\ lost' = lost + 1

BeginLoop ==
  /\ pc = "scrape"
  /\ \E m \in {served, Missing} : Scrape(m) /\ before' = m
  /\ Begin(Batch, Workers)
  /\ pc' = "loop"
  /\ warm' = cache /\ own' = 0
  /\ UNCHANGED <<disk, force, todo, wasReset, exit, launches, server>>

CounterTotal(b, a) == a

(* A counter missing from one of the two scrapes counts as zero in it; one *)
(* missing from both has no delta.                                         *)
CounterDelta(b, a) ==
  IF a = Missing /\ b = Missing THEN Missing
  ELSE (IF a = Missing THEN 0 ELSE a) - (IF b = Missing THEN 0 ELSE b)

Report(m) == [answers |-> results, delta |-> CounterDelta(before, m),
              scraped |-> before # Missing /\ m # Missing,
              reset |-> wasReset, warm |-> warm, own |-> own]

(* The progress line reads the p50 of the TTFTs, which is there only when  *)
(* one was measured.                                                       *)
Printable == \E p \in DOMAIN results : Timed(results[p])

SummarizeInPlace ==
  /\ pc = "loop"
  /\ Gathered
  /\ Printable
  /\ \E m \in {served, Missing} : Scrape(m) /\ tmp' = Report(m)
  /\ files' = [files EXCEPT ![todo[1]] = [Report(Missing) EXCEPT !.answers = <<>>]]
  /\ pc' = "replace"
  /\ UNCHANGED <<loop, force, todo, wasReset, before, exit, launches, server, ghosts>>

Summarize ==
  /\ pc = "loop"
  /\ Gathered
  /\ Printable
  /\ \E m \in {served, Missing} : Scrape(m) /\ tmp' = Report(m)
  /\ pc' = "replace"
  /\ UNCHANGED <<loop, files, force, todo, wasReset, before, exit, launches, server, ghosts>>

AbortSkips ==
  /\ pc = "loop"
  /\ Gathered
  /\ ~Printable
  /\ Forget
  /\ todo' = Tail(todo)
  /\ IF Tail(todo) = <<>> THEN Exit("ok") ELSE pc' = "reset" /\ exit' = exit
  /\ UNCHANGED <<disk, force, launches, lost, server>>

(* Otherwise a KeyError ends the launch, without the remaining policies.   *)
Abort ==
  /\ pc = "loop"
  /\ Gathered
  /\ ~Printable
  /\ Forget
  /\ todo' = <<>>
  /\ Exit("error")
  /\ UNCHANGED <<disk, force, launches, lost, server>>

Replace ==
  /\ pc = "replace"
  /\ files' = [files EXCEPT ![todo[1]] = tmp]
  /\ tmp' = NoFile
  /\ Forget
  /\ todo' = Tail(todo)
  /\ IF Tail(todo) = <<>> THEN Exit("ok") ELSE pc' = "reset" /\ exit' = exit
  /\ UNCHANGED <<force, launches, lost, server>>

(* The process dies: its connections close, and the server drops what it   *)
(* had in flight.                                                          *)
Crash ==
  /\ pc # "idle"
  /\ Forget
  /\ todo' = <<>>
  /\ Exit("crash")
  /\ UNCHANGED <<disk, force, launches, lost, server>>

Step == Connect \/ NotReady \/ Warmed \/ Reset \/ BeginLoop \/ Summarize \/ Abort \/ Replace

Next ==
  \/ \E f \in BOOLEAN : Launch(f)
  \/ Step
  \/ \E w \in Workers : Worker(w)
  \/ Crash

Spec == Init /\ [][Next]_vars

-----------------------------------------------------------------------------
(* A checkpoint file is never torn: whenever the launch dies, the file of  *)
(* a policy holds an answer for every request of the workload, and one of  *)
(* them at least was timed.                                                *)
CheckpointsWhole ==
  \A p \in Range(Policies) : files[p] # NoFile =>
    /\ DOMAIN files[p].answers = Range(Batch)
    /\ \E r \in Range(Batch) : Timed(files[p].answers[r])

(* A launch that exits normally leaves a checkpoint for every policy it    *)
(* was asked for, whatever died before it: the driver script relies on it. *)
ExitZeroMeansRecorded ==
  exit = "ok" => \A p \in Range(Policies) : files[p] # NoFile

(* When the server said it had reset its cache, no hit of the measured     *)
(* run comes from the warm-up, from another policy or from a launch that   *)
(* died.                                                                   *)
ColdStart ==
  \A p \in Range(Policies) : files[p] # NoFile /\ files[p].reset => files[p].warm = {}

(* The recorded delta of the server's counter counts the requests of the   *)
(* measured run, and no other (line 3-7: every policy is reported with the *)
(* Prometheus deltas of its own run), provided that both scrapes worked.   *)
DeltaIsThisRun ==
  \A p \in Range(Policies) :
    files[p] # NoFile /\ files[p].scraped => files[p].delta = files[p].own

(* Every policy asked for is reported (line 3: for every policy) unless    *)
(* the server was not there or the process died.                           *)
EveryPolicyRecorded ==
  exit \in {"ok", "error"} => \A p \in Range(Policies) : files[p] # NoFile
=============================================================================
