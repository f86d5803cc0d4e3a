----------------------------- MODULE ClosedLoop -----------------------------
(***************************************************************************)
(* The closed loop of src/aclkv/bench.py, run_closed_loop: a crew of       *)
(* asyncio workers empties a queue of prompts, each sending its next       *)
(* prompt as soon as its previous one is answered, and gather waits for    *)
(* all of them.  Between two awaits a worker is not interrupted, so that   *)
(* storing an answer and taking the next prompt is one step.               *)
(*                                                                         *)
(* An answer is one of the ways VLLMClient.complete returns (client.py);   *)
(* it never raises: every failure of the call is an answer too.            *)
(***************************************************************************)
EXTENDS Integers, Sequences, Functions

CONSTANTS
  Prompts,   \* request ids
  Batch,     \* the prompts argument, in workload order
  Workers,   \* as many as the concurrency
  Answers    \* the ways a call to the server may end

VARIABLES
  batch,     \* the prompts of this call
  queue,     \* those not yet taken, first in first out
  at,        \* where each worker is: Ready, Ended, or awaiting a prompt's answer
  results    \* the answers so far, by request id

loop == <<batch, queue, at, results>>

Ready == "ready"
Ended == "ended"

(* Answers.  "full": the stream and its usage; "bare": a stream that ended *)
(* without usage; "silent": one that ended before any chunk; "http": a     *)
(* status other than 200; "exception": network, timeout or decoding.       *)
Ok(a)    == a \in {"full", "bare", "silent"}
Timed(a) == a \in {"full", "bare"}

ASSUME BatchAssumption ==
  /\ Batch \in Seq(Prompts)
  /\ \A i, j \in DOMAIN Batch : Batch[i] = Batch[j] => i = j
  /\ Ready \notin Prompts /\ Ended \notin Prompts
  /\ Answers \subseteq {"full", "bare", "silent", "http", "exception"}

Begin(prompts, crew) ==
  /\ batch' = prompts
  /\ queue' = prompts
  /\ at' = [w \in Workers |-> IF w \in crew THEN Ready ELSE Ended]
  /\ results' = << >>

LoopInit ==
  /\ batch = Batch
  /\ queue = Batch
  /\ at = [w \in Workers |-> Ready]
  /\ results = << >>

InFlight == {at[w] : w \in Workers} \ {Ready, Ended}

(* Faulty variants, which the specification does not use.                  *)
RestPeeked    == IF Len(queue) > 1 THEN Tail(queue) ELSE queue
KeepOk(p, a)  == IF Ok(a) THEN [q \in DOMAIN results \cup {p} |-> IF q = p THEN a ELSE results[q]] ELSE results

Front == queue[1]
Rest  == Tail(queue)

(* get_nowait: the next prompt, or the end of the worker.                  *)
Take(w) ==
  \/ /\ queue # << >>
     /\ at' = [at EXCEPT ![w] = Front]
     /\ queue' = Rest
  \/ /\ queue = << >>
     /\ at' = [at EXCEPT ![w] = Ended]
     /\ queue' = queue

Start(w) ==
  /\ at[w] = Ready
  /\ Take(w)
  /\ UNCHANGED <<batch, results>>

Keep(p, a) == [q \in DOMAIN results \cup {p} |-> IF q = p THEN a ELSE results[q]]

Answer(w, a) ==
  /\ at[w] \in Prompts
  /\ results' = Keep(at[w], a)
  /\ Take(w)
  /\ UNCHANGED batch

Work(w) == Start(w) \/ \E a \in Answers : Answer(w, a)

LoopNext == \E w \in Workers : Work(w)

(* The event loop runs a worker that can run; the client's timeout turns a *)
(* silent server into an exception, and max_tokens bounds an answer.       *)
LoopSpec == LoopInit /\ [][LoopNext]_loop /\ \A w \in Workers : WF_loop(Work(w))

(* gather returns when every worker has.                                   *)
Gathered == \A w \in Workers : at[w] = Ended

-----------------------------------------------------------------------------
(* Every prompt of the call is in exactly one place: waiting in the queue, *)
(* awaited by exactly one worker, or answered.  None is sent twice, none   *)
(* is lost, whatever the answers and the order they arrive in.             *)
EachPromptOnce ==
  /\ Range(batch) = Range(queue) \cup InFlight \cup DOMAIN results
  /\ Range(queue) \cap InFlight = {}
  /\ Range(queue) \cap DOMAIN results = {}
  /\ InFlight \cap DOMAIN results = {}
  /\ \A v, w \in Workers : at[v] = at[w] /\ at[v] \in Prompts => v = w

(* Prompts are sent in workload order: those sent so far are the first of  *)
(* the workload, so that the server's cache sees the arrival order the     *)
(* simulator replays.                                                      *)
SentInOrder ==
  /\ Len(queue) <= Len(batch)
  /\ InFlight \cup DOMAIN results = {batch[i] : i \in 1 .. Len(batch) - Len(queue)}

(* The loop is closed: while prompts wait, no worker has ended, whatever   *)
(* the answers it got.                                                     *)
NoneIdleWhileQueued == queue # << >> => \A w \in Workers : at[w] # Ended

(* When gather returns, line 61 finds the answer of every prompt.          *)
GatheredAll == Gathered /\ Workers # {} => DOMAIN results = Range(batch)

(* Every call of run_closed_loop returns, however the server behaves.      *)
LoopEnds == <>Gathered
=============================================================================
