----------------------------- MODULE BenchProofs -----------------------------
(***************************************************************************)
(* What the checkpoint files of the live benchmark are worth, for every    *)
(* workload, crew and list of policies, and whatever dies in between.      *)
(*                                                                         *)
(* While a policy is measured the loop's variables are those of ClosedLoop *)
(* and its invariant, proved first for the loop on its own, is used as it  *)
(* stands (LoopRuns).  A report is made of what was true when the loop     *)
(* began and what has happened since (Measuring), so that only good        *)
(* reports reach the disk (OnDisk), and a policy leaves the list of a      *)
(* launch only with a file in its place (Launching).                       *)
(***************************************************************************)
EXTENDS BenchRun, FilteringProofs

-----------------------------------------------------------------------------
(* The closed loop on its own.  Its queue is an end of the workload, and   *)
(* what is in flight or answered is the rest of it.                        *)

LoopTypeOK ==
  /\ batch \in Seq(Prompts)
  /\ queue \in Seq(Prompts)
  /\ at \in [Workers -> Prompts \cup {Ready, Ended}]
  /\ DOMAIN results \subseteq Prompts
  /\ \A p \in DOMAIN results : results[p] \in Answers

Suffix ==
  /\ Len(queue) <= Len(batch)
  /\ \A i \in 1 .. Len(queue) : queue[i] = batch[i + (Len(batch) - Len(queue))]

Sent == {batch[i] : i \in 1 .. Len(batch) - Len(queue)}

OneHolder ==
  /\ InFlight \cap DOMAIN results = {}
  /\ \A v, w \in Workers : at[v] = at[w] /\ at[v] \in Prompts => v = w

LoopInv ==
  /\ batch = Batch
  /\ LoopTypeOK
  /\ Suffix
  /\ InFlight \cup DOMAIN results = Sent
  /\ OneHolder
  /\ NoneIdleWhileQueued

(* The initial state satisfies the invariant: everything is queued.        *)
LEMMA LoopFirst == LoopInit => LoopInv
<1> SUFFICES ASSUME LoopInit PROVE LoopInv
  OBVIOUS
<1> USE DEF LoopInit
<1>1. batch = Batch /\ batch \in Seq(Prompts) /\ Len(batch) \in Nat
  BY BatchAssumption
<1>2. LoopTypeOK
  BY <1>1 DEF LoopTypeOK, Ready
<1>3. Suffix
  BY <1>1 DEF Suffix
<1>4. InFlight = {}
  BY DEF InFlight
<1>5. Sent = {} /\ DOMAIN results = {}
  BY <1>1 DEF Sent
<1>6. OneHolder
  BY <1>4, BatchAssumption DEF OneHolder, Ready
<1>7. NoneIdleWhileQueued
  BY DEF NoneIdleWhileQueued, Ready, Ended
<1> QED
  BY <1>1, <1>2, <1>3, <1>4, <1>5, <1>6, <1>7 DEF LoopInv

(* A worker that awaits no unanswered prompt takes the next one: the       *)
(* invariant holds again, whether its own answer was kept (kept) or it     *)
(* only started.                                                           *)
LEMMA LoopTake ==
  ASSUME LoopInv, NEW w \in Workers, at[w] # Ended, Take(w), batch' = batch,
         \/ at[w] = Ready /\ results' = results
         \/ \E a \in Answers : at[w] \in Prompts /\ results' = Keep(at[w], a)
  PROVE  LoopInv'
<1> USE DEF LoopInv
<1> DEFINE k == Len(batch) - Len(queue)
<1> DEFINE Others == {at[v] : v \in Workers \ {w}} \ {Ready, Ended}
<1>0. /\ batch = Batch /\ batch \in Seq(Prompts) /\ queue \in Seq(Prompts)
      /\ Len(batch) \in Nat /\ Len(queue) \in Nat /\ k \in Nat
      /\ at \in [Workers -> Prompts \cup {Ready, Ended}]
      /\ Ready # Ended /\ Ready \notin Prompts /\ Ended \notin Prompts
  BY BatchAssumption DEF LoopTypeOK, Suffix, Ready, Ended
<1>1. at' \in [Workers -> Prompts \cup {Ready, Ended}] /\ \A v \in Workers \ {w} : at'[v] = at[v]
  <2>1. queue # << >> => Front \in Prompts
    BY <1>0 DEF Front
  <2> QED
    BY <2>1, <1>0 DEF Take
<1>2. /\ DOMAIN results' = DOMAIN results \cup ({at[w]} \ {Ready})
      /\ DOMAIN results' \subseteq Prompts /\ \A p \in DOMAIN results' : results'[p] \in Answers
  <2>1. CASE at[w] = Ready /\ results' = results
    BY <2>1 DEF LoopTypeOK
  <2>2. CASE \E a \in Answers : at[w] \in Prompts /\ results' = Keep(at[w], a)
    BY <2>2, <1>0 DEF LoopTypeOK, Keep
  <2> QED
    BY <2>1, <2>2
<1>3. InFlight = Others \cup ({at[w]} \ {Ready})
  <2>1. {at[v] : v \in Workers} = {at[v] : v \in Workers \ {w}} \cup {at[w]}
    OBVIOUS
  <2> QED
    BY <2>1 DEF InFlight
<1>4. InFlight' = Others \cup ({at'[w]} \ {Ready, Ended})
  <2>1. {at'[v] : v \in Workers} = {at[v] : v \in Workers \ {w}} \cup {at'[w]}
    BY <1>1
  <2> QED
    BY <2>1 DEF InFlight
<1>5. at[w] \notin Others
  <2>1. CASE at[w] = Ready
    BY <2>1
  <2>2. CASE at[w] \in Prompts
    BY <2>2 DEF OneHolder
  <2> QED
    BY <2>1, <2>2, <1>0
<1> HIDE DEF Others
<1>6. CASE queue = << >>
  <2>1. queue' = << >> /\ at'[w] = Ended /\ queue' = queue
    BY <1>6, <1>0 DEF Take
  <2>2. InFlight' = Others
    BY <2>1, <1>4
  <2>3. InFlight' \cup DOMAIN results' = InFlight \cup DOMAIN results
    BY <2>2, <1>2, <1>3
  <2>4. Sent' = Sent
    BY <2>1 DEF Sent
  <2>5. InFlight' \cap DOMAIN results' = {}
    BY <2>2, <1>2, <1>3, <1>5 DEF OneHolder
  <2>6. OneHolder'
    BY <2>5, <2>1, <1>1, <1>0 DEF OneHolder
  <2> QED
    BY <2>1, <2>3, <2>4, <2>6, <1>0, <1>1, <1>2, <1>6 DEF LoopTypeOK, Suffix, NoneIdleWhileQueued
<1>7. CASE queue # << >>
  <2>1. /\ queue' = Tail(queue) /\ at'[w] = queue[1]
        /\ queue' \in Seq(Prompts) /\ Len(queue') = Len(queue) - 1 /\ Len(queue) > 0
        /\ \A i \in 1 .. Len(queue') : queue'[i] = queue[i + 1]
        /\ queue[1] \in Prompts
    <3>1. queue' = Tail(queue) /\ at'[w] = queue[1]
      BY <1>7, <1>0 DEF Take, Front, Rest
    <3> QED
      BY <3>1, <1>7, <1>0
  <2>2. queue[1] = batch[k + 1] /\ k + 1 \in 1 .. Len(batch)
    BY <2>1, <1>0 DEF Suffix
  <2>3. Suffix'
    <3>1. \A i \in 1 .. Len(queue') : queue'[i] = batch'[i + (Len(batch') - Len(queue'))]
      BY <2>1, <1>0 DEF Suffix
    <3> QED
      BY <3>1, <2>1, <1>0 DEF Suffix
  <2>4. Sent' = Sent \cup {queue[1]}
    <3>1. 1 .. Len(batch') - Len(queue') = 1 .. k \cup {k + 1}
      BY <2>1, <1>0
    <3> QED
      BY <3>1, <2>2 DEF Sent
  <2>5. queue[1] \notin Sent
    <3>1. \A i \in 1 .. k : i \in DOMAIN Batch /\ k + 1 \in DOMAIN Batch /\ i # k + 1
      BY <2>2, <1>0
    <3> QED
      BY <3>1, <2>2, <1>0, BatchAssumption DEF Sent
  <2>6. InFlight' = Others \cup {queue[1]}
    BY <2>1, <1>0, <1>4
  <2>7. InFlight' \cup DOMAIN results' = Sent'
    BY <2>4, <2>6, <1>2, <1>3
  <2>8. InFlight' \cap DOMAIN results' = {}
    BY <2>5, <2>6, <1>2, <1>3, <1>5 DEF OneHolder
  <2>9. \A v \in Workers \ {w} : at[v] # queue[1]
    <3>1. \A v \in Workers \ {w} : at[v] \in Prompts => at[v] \in InFlight
      BY <1>0 DEF InFlight
    <3> QED
      BY <3>1, <2>5, <2>1
  <2>10. OneHolder'
    BY <2>8, <2>9, <2>1, <1>1, <1>0 DEF OneHolder
  <2> QED
    BY <2>1, <2>3, <2>7, <2>10, <1>0, <1>1, <1>2, <1>7 DEF LoopTypeOK, NoneIdleWhileQueued
<1> QED
  BY <1>6, <1>7

(* Every step preserves the invariant.                                     *)
LEMMA LoopKeeps == LoopInv /\ [LoopNext]_loop => LoopInv'
<1> SUFFICES ASSUME LoopInv, [LoopNext]_loop PROVE LoopInv'
  OBVIOUS
<1>0. Ready # Ended /\ Ended \notin Prompts
  BY BatchAssumption DEF Ready, Ended
<1>1. ASSUME NEW w \in Workers, Start(w) PROVE LoopInv'
  <2>1. at[w] = Ready /\ Take(w) /\ batch' = batch /\ results' = results
    BY <1>1 DEF Start
  <2> QED
    BY <2>1, <1>0, LoopTake
<1>2. ASSUME NEW w \in Workers, NEW a \in Answers, Answer(w, a) PROVE LoopInv'
  <2>1. at[w] \in Prompts /\ results' = Keep(at[w], a) /\ Take(w) /\ batch' = batch
    BY <1>2 DEF Answer
  <2> QED
    BY <2>1, <1>0, LoopTake
<1>3. CASE UNCHANGED loop
  BY <1>3 DEF loop, LoopInv, LoopTypeOK, Suffix, Sent, InFlight, OneHolder, NoneIdleWhileQueued
<1> QED
  BY <1>1, <1>2, <1>3 DEF LoopNext, Work

(* Every reachable state of the loop satisfies the invariant.              *)
LEMMA LoopInductive == LoopSpec => []LoopInv
<1> QED
  BY LoopFirst, LoopKeeps, PTL DEF LoopSpec

-----------------------------------------------------------------------------
(* run_closed_loop sends every prompt at most once and loses none, for     *)
(* every workload and number of workers, and whatever the server answers.  *)
THEOREM PromptsOnce == LoopSpec => []EachPromptOnce
<1>1. LoopInv => EachPromptOnce
  <2> SUFFICES ASSUME LoopInv PROVE EachPromptOnce
    OBVIOUS
  <2> DEFINE k == Len(batch) - Len(queue)
  <2>1. /\ batch = Batch /\ batch \in Seq(Prompts) /\ queue \in Seq(Prompts)
        /\ Len(batch) \in Nat /\ Len(queue) \in Nat /\ k \in Nat
        /\ DOMAIN batch = 1 .. Len(batch) /\ DOMAIN queue = 1 .. Len(queue)
    BY DEF LoopInv, LoopTypeOK, Suffix
  <2>2. Range(queue) = {batch[i] : i \in k + 1 .. Len(batch)}
    <3>1. \A i \in 1 .. Len(queue) : i + k \in k + 1 .. Len(batch) /\ queue[i] = batch[i + k]
      BY <2>1 DEF LoopInv, Suffix
    <3>2. \A j \in k + 1 .. Len(batch) : j - k \in 1 .. Len(queue) /\ (j - k) + k = j
      BY <2>1
    <3>3. \A j \in k + 1 .. Len(batch) : batch[j] = queue[j - k]
      BY <3>1, <3>2, <2>1
    <3>4. Range(queue) = {queue[i] : i \in 1 .. Len(queue)}
      BY <2>1 DEF Range
    <3>5. Range(queue) \subseteq {batch[i] : i \in k + 1 .. Len(batch)}
      BY <3>1, <3>4
    <3>6. {batch[i] : i \in k + 1 .. Len(batch)} \subseteq Range(queue)
      BY <3>2, <3>3, <3>4
    <3> QED
      BY <3>5, <3>6
  <2>3. Range(batch) = Range(queue) \cup Sent
    <3>1. 1 .. Len(batch) = 1 .. k \cup k + 1 .. Len(batch)
      BY <2>1 DEF LoopInv, Suffix
    <3> QED
      BY <3>1, <2>1, <2>2 DEF Range, Sent
  <2>4. Range(queue) \cap Sent = {}
    <3>1. \A i \in 1 .. k, j \in k + 1 .. Len(batch) :
             i \in DOMAIN Batch /\ j \in DOMAIN Batch /\ i # j
      BY <2>1 DEF LoopInv, Suffix
    <3> QED
      BY <3>1, <2>1, <2>2, BatchAssumption, SMTT(30) DEF Sent
  <2>5. InFlight \cup DOMAIN results = Sent /\ OneHolder
    BY DEF LoopInv
  <2> QED
    BY <2>3, <2>4, <2>5 DEF EachPromptOnce, OneHolder, Range
<1> QED
  BY <1>1, LoopInductive, PTL

(* Prompts are sent in workload order.                                     *)
THEOREM OrderKept == LoopSpec => []SentInOrder
<1>1. LoopInv => SentInOrder
  BY DEF LoopInv, Suffix, Sent, SentInOrder
<1> QED
  BY <1>1, LoopInductive, PTL

(* No worker ends while prompts wait.                                      *)
THEOREM LoopClosed == LoopSpec => []NoneIdleWhileQueued
<1>1. LoopInv => NoneIdleWhileQueued
  BY DEF LoopInv
<1> QED
  BY <1>1, LoopInductive, PTL

(* In a state that satisfies the invariant nothing is missing once every   *)
(* worker has ended.                                                       *)
LEMMA GatheredState == LoopInv => GatheredAll
<1> SUFFICES ASSUME LoopInv, Gathered, NEW w \in Workers PROVE DOMAIN results = Range(batch)
  BY DEF GatheredAll, Range
<1>1. queue = << >> /\ InFlight = {}
  BY DEF LoopInv, Gathered, NoneIdleWhileQueued, InFlight
<1>2. Len(queue) = 0 /\ batch \in Seq(Prompts) /\ Len(batch) \in Nat
  BY <1>1 DEF LoopInv, LoopTypeOK
<1>3. Sent = Range(batch)
  BY <1>2 DEF Sent, Range
<1> QED
  BY <1>1, <1>3 DEF LoopInv

(* When gather returns, every prompt of the workload has its answer.       *)
THEOREM AnswersComplete == LoopSpec => []GatheredAll
BY GatheredState, LoopInductive, PTL

-----------------------------------------------------------------------------
(* The benchmark.                                                          *)

TypeOK ==
  /\ files \in [Range(Policies) -> Reports \cup {NoFile}]
  /\ tmp \in Reports \cup {NoFile}
  /\ pc \in {"idle", "connect", "warmup", "reset", "scrape", "loop", "replace"}
  /\ force \in BOOLEAN /\ wasReset \in BOOLEAN
  /\ todo \in Seq(Range(Policies)) /\ IsInjective(todo)
  /\ before \in Nat \cup {Missing}
  /\ cache \in SUBSET Owners /\ warm \in SUBSET Owners
  /\ served \in Nat /\ own \in Nat

(* The closed loop, while it measures a policy.                            *)
LoopRuns ==
  pc = "loop" =>
    /\ LoopInv
    /\ results \in [DOMAIN results -> Answers]
    /\ Workers = {} => DOMAIN results = {}

(* What the server held and had counted when the loop began.               *)
Measuring ==
  /\ pc = "scrape" /\ wasReset => cache = {}
  /\ pc = "loop" /\ wasReset => warm = {}
  /\ pc = "loop" /\ before # Missing => served = before + own

(* The reports the checkpoint properties speak of.                         *)
Whole(r) ==
  /\ DOMAIN r.answers = Range(Batch)
  /\ \E p \in Range(Batch) : Timed(r.answers[p])

Good(r) ==
  /\ r \in Reports
  /\ Whole(r)
  /\ r.reset => r.warm = {}
  /\ r.scraped => r.delta = r.own

OnDisk ==
  /\ \A p \in Range(Policies) : files[p] # NoFile => Good(files[p])
  /\ pc = "replace" => Good(tmp)

Launching ==
  /\ pc # "idle" => exit = "none" /\ todo # <<>>
  /\ pc # "idle" => \A p \in Range(Policies) : files[p] # NoFile \/ p \in Range(todo)
  /\ ExitZeroMeansRecorded

BenchInv == TypeOK /\ LoopRuns /\ Measuring /\ OnDisk /\ Launching

-----------------------------------------------------------------------------
(* The invariant holds where the benchmark begins the loop,               *)
LEMMA LoopFirstNext == LoopInit' => LoopInv'
BY LoopFirst, PTL

LEMMA LoopBegins ==
  ASSUME Begin(Batch, Workers)
  PROVE  /\ LoopInv'
         /\ results' \in [DOMAIN results' -> Answers] /\ DOMAIN results' = {}
<1>1. LoopInit'
  BY DEF Begin, LoopInit
<1>2. results' = <<>>
  BY DEF Begin
<1>3. <<>> \in [DOMAIN <<>> -> Answers] /\ DOMAIN <<>> = {}
  OBVIOUS
<1> QED BY <1>1, <1>2, <1>3, LoopFirstNext

(* and a worker's step keeps it.                                           *)
LEMMA LoopStep ==
  ASSUME LoopInv, results \in [DOMAIN results -> Answers],
         NEW w \in Workers,
         Start(w) \/ \E a \in Answers : Answer(w, a)
  PROVE  /\ LoopInv'
         /\ results' \in [DOMAIN results' -> Answers]
<1>1. LoopInv'
  BY LoopKeeps DEF LoopNext, Work
<1>2. ASSUME Start(w) PROVE results' \in [DOMAIN results' -> Answers]
  BY <1>2 DEF Start
<1>3. ASSUME NEW a \in Answers, Answer(w, a)
      PROVE  results' \in [DOMAIN results' -> Answers]
  BY <1>3 DEF Answer, Keep
<1> QED BY <1>1, <1>2, <1>3

(* When every worker has ended, every request of the batch has its answer. *)
LEMMA LoopDone ==
  ASSUME LoopInv, Gathered, Workers # {}
  PROVE  DOMAIN results = Range(Batch)
BY GatheredState DEF GatheredAll, Range, LoopInv

-----------------------------------------------------------------------------
(* Every step of the benchmark.                                            *)

(* The initial state satisfies the invariant: there is no file yet.        *)
LEMMA BenchInit == Init => BenchInv
<1> SUFFICES ASSUME Init PROVE BenchInv
  OBVIOUS
<1> USE DEF Init
<1>1. TypeOK
  <2>1. force \in BOOLEAN /\ wasReset \in BOOLEAN
    BY Zenon
  <2>2. files \in [Range(Policies) -> Reports \cup {NoFile}] /\ tmp \in Reports \cup {NoFile}
    OBVIOUS
  <2>3. todo \in Seq(Range(Policies)) /\ IsInjective(todo)
    BY DEF IsInjective
  <2> QED BY <2>1, <2>2, <2>3 DEF TypeOK
<1>2. LoopRuns /\ Measuring
  BY DEF LoopRuns, Measuring
<1>3. OnDisk
  BY DEF OnDisk
<1>4. Launching
  BY DEF Launching, ExitZeroMeansRecorded
<1> QED BY <1>1, <1>2, <1>3, <1>4 DEF BenchInv

(* What is forgotten leaves values of the right types.                     *)
LEMMA Forgotten ==
  ASSUME Forget
  PROVE  /\ wasReset' \in BOOLEAN /\ before' \in Nat \cup {Missing}
         /\ warm' \in SUBSET Owners /\ own' \in Nat
<1>1. wasReset' \in BOOLEAN
  BY Zenon DEF Forget
<1> QED BY <1>1 DEF Forget

(* A launch that ends without an exit code of zero leaves the disk as it   *)
(* is.                                                                     *)
LEMMA EndStep ==
  ASSUME BenchInv, pc' = "idle", exit' # "ok", todo' = <<>>,
         UNCHANGED <<disk, force, server>>,
         wasReset' \in BOOLEAN, before' \in Nat \cup {Missing},
         warm' \in SUBSET Owners, own' \in Nat
  PROVE  BenchInv'
<1>1. /\ files' = files /\ tmp' = tmp /\ force' = force /\ cache' = cache /\ served' = served
      /\ TypeOK
  BY DEF BenchInv, disk, server
<1>2. TypeOK'
  <2>1. todo' \in Seq(Range(Policies)) /\ IsInjective(todo')
    BY DEF IsInjective
  <2> QED BY <1>1, <2>1 DEF TypeOK
<1>3. LoopRuns' /\ Measuring'
  BY DEF LoopRuns, Measuring
<1>4. OnDisk'
  BY <1>1 DEF BenchInv, OnDisk
<1>5. Launching'
  BY DEF Launching, ExitZeroMeansRecorded
<1> QED BY <1>2, <1>3, <1>4, <1>5 DEF BenchInv

(* A launch has work exactly for the policies it finds no file of, or for  *)
(* all of them.                                                            *)
LEMMA NeededShape ==
  ASSUME NEW f \in BOOLEAN
  PROVE  /\ Needed(f) \in Seq(Range(Policies)) /\ IsInjective(Needed(f))
         /\ Range(Needed(f)) = {p \in Range(Policies) : f \/ files[p] = NoFile}
<1> DEFINE open == {p \in Range(Policies) : f \/ files[p] = NoFile}
<1>1. Needed(f) = Filtered(Policies, open)
  BY DEF Needed
<1>2. /\ Needed(f) \in Seq(Range(Policies)) /\ IsInjective(Needed(f))
      /\ Range(Needed(f)) = Range(Policies) \cap open
  BY <1>1, BenchAssumption, FilteredKeeps
<1> QED BY <1>2

LEMMA LaunchStep ==
  ASSUME BenchInv, NEW f \in BOOLEAN, Launch(f)
  PROVE  BenchInv'
<1>1. /\ pc = "idle" /\ force' = f /\ todo' = Needed(f)
      /\ UNCHANGED <<files, tmp, wasReset, before, cache, served, warm, own>>
      /\ \/ Needed(f) = <<>> /\ pc' = "idle" /\ exit' = "ok"
         \/ Needed(f) # <<>> /\ pc' = "connect" /\ exit' = "none"
  BY DEF Launch, Exit, disk, server, ghosts
<1>2. /\ Needed(f) \in Seq(Range(Policies)) /\ IsInjective(Needed(f))
      /\ Range(Needed(f)) = {p \in Range(Policies) : f \/ files[p] = NoFile}
  BY NeededShape
<1>3. TypeOK'
  BY <1>1, <1>2 DEF BenchInv, TypeOK
<1>4. LoopRuns' /\ Measuring'
  BY <1>1 DEF LoopRuns, Measuring
<1>5. OnDisk'
  BY <1>1 DEF BenchInv, OnDisk
<1>6. \A p \in Range(Policies) : files[p] # NoFile \/ p \in Range(todo')
  BY <1>1, <1>2
<1>7. Needed(f) = <<>> => Range(Needed(f)) = {}
  BY DEF Range
<1>8. Launching'
  BY <1>1, <1>6, <1>7 DEF Launching, ExitZeroMeansRecorded
<1> QED BY <1>3, <1>4, <1>5, <1>8 DEF BenchInv

(* A step in the middle of a launch that leaves files, list and exit code  *)
(* alone.                                                                  *)
LEMMA MidwayStep ==
  ASSUME BenchInv, pc # "idle", pc' # "idle", UNCHANGED <<files, todo, exit>>
  PROVE  Launching' /\ \A p \in Range(Policies) : files'[p] # NoFile => Good(files'[p])
<1>1. exit' = "none" /\ files' = files /\ todo' = todo
  BY DEF BenchInv, Launching
<1>2. Launching'
  BY <1>1 DEF BenchInv, Launching, ExitZeroMeansRecorded
<1> QED BY <1>1, <1>2 DEF BenchInv, OnDisk

(* A worker's step: the server may serve a request of the one measured.    *)
LEMMA WorkerStep ==
  ASSUME BenchInv, NEW w \in Workers, Worker(w)
  PROVE  BenchInv'
<1>1. /\ pc \in {"warmup", "loop"} /\ pc' = pc
      /\ UNCHANGED <<files, tmp, force, todo, wasReset, before, exit, warm>>
      /\ TypeOK /\ LoopRuns /\ Measuring /\ OnDisk /\ Launching
  BY DEF Worker, BenchInv, disk
<1>2. /\ cache' \in SUBSET Owners
      /\ \/ served' = served /\ own' = own
         \/ served' = served + 1 /\ own' = own + 1
  <2>1. todo # <<>> => todo[1] \in Range(Policies)
    BY <1>1, ElementOfSeq, LenProperties, EmptySeq DEF TypeOK
  <2>2. (IF pc = "warmup" THEN "warmup" ELSE todo[1]) \in Owners
    BY <1>1, <2>1 DEF Launching, Owners
  <2>3. CASE UNCHANGED <<server, own>>
    BY <1>1, <2>3 DEF TypeOK, server
  <2>4. ASSUME NEW a \in Answers, Serve(a)
        PROVE  /\ cache' \in SUBSET Owners
               /\ \/ served' = served /\ own' = own
                  \/ served' = served + 1 /\ own' = own + 1
    BY <1>1, <2>2, <2>4 DEF Serve, TypeOK
  <2> QED BY <2>3, <2>4 DEF Worker
<1>3. TypeOK'
  BY <1>1, <1>2 DEF TypeOK
<1>4. LoopRuns'
  <2>1. CASE pc = "loop"
    <3>1. Start(w) \/ \E a \in Answers : Answer(w, a)
      BY DEF Worker
    <3>2. LoopInv' /\ results' \in [DOMAIN results' -> Answers]
      BY <1>1, <2>1, <3>1, LoopStep DEF LoopRuns
    <3> QED BY <3>2 DEF LoopRuns
  <2>2. CASE pc # "loop"
    BY <1>1, <2>2 DEF LoopRuns
  <2> QED BY <2>1, <2>2
<1>5. Measuring'
  BY <1>1, <1>2 DEF Measuring, TypeOK
<1>6. OnDisk'
  BY <1>1 DEF OnDisk
<1>7. Launching'
  BY <1>1, MidwayStep
<1> QED BY <1>3, <1>4, <1>5, <1>6, <1>7 DEF BenchInv

(* The report of a loop that has ended with a measured answer is good.     *)
LEMMA ReportGood ==
  ASSUME BenchInv, pc = "loop", Gathered, Printable,
         NEW m, m = served \/ m = Missing
  PROVE  Good(Report(m))
<1> DEFINE r == Report(m)
<1>1. TypeOK /\ LoopRuns /\ Measuring
  BY DEF BenchInv
<1>2. PICK p \in DOMAIN results : Timed(results[p])
  BY DEF Printable
<1>3. Workers # {} /\ DOMAIN results = Range(Batch)
  BY <1>1, <1>2, LoopDone DEF LoopRuns
<1>4. Range(Batch) \in SUBSET Prompts
  BY BatchAssumption, RangeOfSeq, ElementOfSeq, LenProperties DEF Range
<1>5. results \in UNION {[S -> Answers] : S \in SUBSET Prompts}
  BY <1>1, <1>3, <1>4 DEF LoopRuns
<1>6. CounterDelta(before, m) \in Int \cup {Missing}
  BY <1>1 DEF TypeOK, CounterDelta
<1>7. /\ r.answers = results /\ r.delta = CounterDelta(before, m)
      /\ r.scraped = (before # Missing /\ m # Missing)
      /\ r.reset = wasReset /\ r.warm = warm /\ r.own = own
  BY DEF Report
<1>8. r \in Reports
  <2>1. (before # Missing /\ m # Missing) \in BOOLEAN
    OBVIOUS
  <2> QED BY <1>1, <1>5, <1>6, <2>1, Zenon DEF TypeOK, Report, Reports
<1>9. Whole(r)
  BY <1>2, <1>3, <1>7 DEF Whole
<1>10. r.reset => r.warm = {}
  BY <1>1, <1>7 DEF Measuring
<1>11. r.scraped => r.delta = r.own
  <2> SUFFICES ASSUME before # Missing, m # Missing PROVE CounterDelta(before, m) = own
    BY <1>7
  <2>1. served = before + own /\ before \in Nat /\ own \in Nat /\ m = served
    BY <1>1 DEF Measuring, TypeOK
  <2> QED BY <2>1 DEF CounterDelta
<1> QED BY <1>8, <1>9, <1>10, <1>11 DEF Good

(* The file of the measured policy is replaced by its report.              *)
LEMMA ReplaceStep ==
  ASSUME BenchInv, Replace
  PROVE  BenchInv'
<1>1. /\ pc = "replace" /\ files' = [files EXCEPT ![todo[1]] = tmp] /\ tmp' = NoFile
      /\ Forget /\ todo' = Tail(todo)
      /\ UNCHANGED <<force, cache, served>>
      /\ \/ Tail(todo) = <<>> /\ pc' = "idle" /\ exit' = "ok"
         \/ Tail(todo) # <<>> /\ pc' = "reset" /\ exit' = exit
      /\ TypeOK /\ OnDisk /\ Launching /\ Good(tmp) /\ exit = "none" /\ todo # <<>>
  BY DEF Replace, Exit, server, BenchInv, OnDisk, Launching
<1>2. /\ todo' \in Seq(Range(Policies)) /\ IsInjective(todo')
      /\ todo[1] \in Range(Policies) /\ Range(todo') = Range(todo) \ {todo[1]}
  <2>1. Head(todo) = todo[1]
    BY <1>1, HeadTailProperties DEF TypeOK
  <2> QED BY <1>1, <2>1, TailDistinct DEF TypeOK
<1>3. tmp # NoFile
  BY <1>1, FileAssumption DEF Good
<1>4. TypeOK'
  <2>1. files' \in [Range(Policies) -> Reports \cup {NoFile}] /\ tmp' \in Reports \cup {NoFile}
    BY <1>1 DEF TypeOK
  <2> QED BY <1>1, <1>2, <2>1, Forgotten DEF TypeOK
<1>5. LoopRuns' /\ Measuring'
  BY <1>1 DEF LoopRuns, Measuring
<1>6. OnDisk'
  <2> SUFFICES ASSUME NEW p \in Range(Policies), files'[p] # NoFile PROVE Good(files'[p])
    BY <1>1 DEF OnDisk
  <2>1. CASE p = todo[1]
    BY <1>1, <2>1 DEF TypeOK
  <2>2. CASE p # todo[1]
    BY <1>1, <2>2 DEF TypeOK, OnDisk
  <2> QED BY <2>1, <2>2
<1>7. \A p \in Range(Policies) : files'[p] # NoFile \/ p \in Range(todo')
  <2> SUFFICES ASSUME NEW p \in Range(Policies) PROVE files'[p] # NoFile \/ p \in Range(todo')
    OBVIOUS
  <2>1. CASE p = todo[1]
    BY <1>1, <1>3, <2>1 DEF TypeOK
  <2>2. CASE p # todo[1]
    BY <1>1, <1>2, <2>2 DEF TypeOK, Launching
  <2> QED BY <2>1, <2>2
<1>8. todo' = <<>> => Range(todo') = {}
  BY DEF Range
<1>9. Launching'
  BY <1>1, <1>7, <1>8 DEF Launching, ExitZeroMeansRecorded
<1> QED BY <1>4, <1>5, <1>6, <1>9 DEF BenchInv

(* Every step preserves the invariant.                                     *)
LEMMA BenchNext == BenchInv /\ [Next]_vars => BenchInv'
<1> SUFFICES ASSUME BenchInv, [Next]_vars PROVE BenchInv'
  OBVIOUS
<1>0. TypeOK /\ LoopRuns /\ Measuring /\ OnDisk /\ Launching
  BY DEF BenchInv
<1>1. ASSUME NEW f \in BOOLEAN, Launch(f) PROVE BenchInv'
  BY <1>1, LaunchStep
<1>2. ASSUME NEW w \in Workers, Worker(w) PROVE BenchInv'
  BY <1>2, WorkerStep
<1>3. CASE Connect
  <2>0. /\ pc = "connect" /\ pc' \in {"warmup", "reset"}
        /\ UNCHANGED <<files, tmp, force, todo, wasReset, before, exit, cache, served, warm, own>>
    BY <1>3 DEF Connect, disk, server, ghosts
  <2>1. TypeOK'
    BY <1>0, <2>0 DEF TypeOK
  <2>2. LoopRuns'
    BY <2>0 DEF LoopRuns
  <2>3. Measuring'
    BY <2>0 DEF Measuring
  <2>4. OnDisk'
    BY <2>0, MidwayStep DEF OnDisk
  <2>5. Launching'
    BY <2>0, MidwayStep
  <2> QED BY <2>1, <2>2, <2>3, <2>4, <2>5 DEF BenchInv
<1>4. CASE NotReady
  <2>1. /\ UNCHANGED <<disk, force, server, wasReset, before, warm, own>>
        /\ pc' = "idle" /\ exit' # "ok" /\ todo' = <<>>
    BY <1>4 DEF NotReady, Exit, ghosts
  <2> QED BY <1>0, <2>1, EndStep DEF TypeOK
<1>5. CASE Warmed
  <2>0. /\ pc = "warmup" /\ pc' = "reset" /\ Forget
        /\ UNCHANGED <<files, tmp, force, todo, exit, cache, served>>
    BY <1>5 DEF Warmed, disk, server
  <2>1. TypeOK'
    BY <1>0, <2>0, Forgotten DEF TypeOK
  <2>2. LoopRuns'
    BY <2>0 DEF LoopRuns
  <2>3. Measuring'
    BY <2>0 DEF Measuring
  <2>4. OnDisk'
    BY <2>0, MidwayStep DEF OnDisk
  <2>5. Launching'
    BY <2>0, MidwayStep
  <2> QED BY <2>1, <2>2, <2>3, <2>4, <2>5 DEF BenchInv
<1>6. CASE Reset
  <2>0. /\ pc = "reset" /\ pc' = "scrape"
        /\ UNCHANGED <<files, tmp, force, todo, before, exit, served, warm, own>>
        /\ \/ wasReset' = TRUE /\ cache' = {}
           \/ wasReset' = FALSE /\ cache' = cache
    BY <1>6 DEF Reset, disk, ghosts
  <2>1. TypeOK'
    <3>1. wasReset' \in BOOLEAN
      BY <2>0, Zenon
    <3>2. cache' \in SUBSET Owners
      BY <1>0, <2>0 DEF TypeOK
    <3> QED BY <1>0, <2>0, <3>1, <3>2 DEF TypeOK
  <2>2. LoopRuns'
    BY <2>0 DEF LoopRuns
  <2>3. Measuring'
    BY <2>0 DEF Measuring
  <2>4. OnDisk'
    BY <2>0, MidwayStep DEF OnDisk
  <2>5. Launching'
    BY <2>0, MidwayStep
  <2> QED BY <2>1, <2>2, <2>3, <2>4, <2>5 DEF BenchInv
<1>7. CASE BeginLoop
  <2>0. /\ pc = "scrape" /\ pc' = "loop" /\ before' \in {served, Missing}
        /\ Begin(Batch, Workers) /\ warm' = cache /\ own' = 0
        /\ UNCHANGED <<files, tmp, force, todo, wasReset, exit, cache, served>>
    BY <1>7 DEF BeginLoop, disk, server
  <2>1. TypeOK'
    BY <1>0, <2>0 DEF TypeOK
  <2>2. LoopRuns'
    BY <2>0, LoopBegins DEF LoopRuns
  <2>3. Measuring'
    <3>1. wasReset' => warm' = {}
      BY <1>0, <2>0 DEF Measuring
    <3>2. before' # Missing => served' = before' + own'
      <4>1. served \in Nat
        BY <1>0 DEF TypeOK
      <4>2. before' # Missing => before' = served
        BY <2>0
      <4> QED BY <2>0, <4>1, <4>2
    <3> QED BY <2>0, <3>1, <3>2 DEF Measuring
  <2>4. OnDisk'
    BY <2>0, MidwayStep DEF OnDisk
  <2>5. Launching'
    BY <2>0, MidwayStep
  <2> QED BY <2>1, <2>2, <2>3, <2>4, <2>5 DEF BenchInv
<1>8. CASE Summarize
  <2>0. /\ pc = "loop" /\ pc' = "replace" /\ Gathered /\ Printable
        /\ \E m \in {served, Missing} : tmp' = Report(m)
        /\ UNCHANGED <<files, force, todo, wasReset, before, exit, cache, served, warm, own>>
    BY <1>8 DEF Summarize, server, ghosts
  <2>9. Good(tmp')
    BY <2>0, ReportGood
  <2>1. TypeOK'
    BY <1>0, <2>0, <2>9 DEF TypeOK, Good
  <2>2. LoopRuns'
    BY <2>0 DEF LoopRuns
  <2>3. Measuring'
    BY <2>0 DEF Measuring
  <2>4. OnDisk'
    BY <2>0, <2>9, MidwayStep DEF OnDisk
  <2>5. Launching'
    BY <2>0, MidwayStep
  <2> QED BY <2>1, <2>2, <2>3, <2>4, <2>5 DEF BenchInv
<1>9. CASE Abort
  <2>1. /\ UNCHANGED <<disk, force, server>> /\ Forget
        /\ pc' = "idle" /\ exit' # "ok" /\ todo' = <<>>
    BY <1>9 DEF Abort, Exit
  <2> QED BY <2>1, EndStep, Forgotten
<1>10. CASE Replace
  BY <1>10, ReplaceStep
<1>11. CASE Crash
  <2>1. /\ UNCHANGED <<disk, force, server>> /\ Forget
        /\ pc' = "idle" /\ exit' # "ok" /\ todo' = <<>>
    BY <1>11 DEF Crash, Exit
  <2> QED BY <2>1, EndStep, Forgotten
<1>12. CASE UNCHANGED vars
  <2>0. UNCHANGED <<batch, queue, at, results, files, tmp, pc, force, todo, wasReset, before, exit,
                    cache, served, warm, own>>
    BY <1>12 DEF vars, loop, disk, server, ghosts
  <2>1. TypeOK'
    BY <1>0, <2>0 DEF TypeOK
  <2>2. LoopRuns'
    <3>1. [LoopNext]_loop
      BY <2>0 DEF loop
    <3>2. pc = "loop" => LoopInv'
      BY <1>0, <3>1, LoopKeeps DEF LoopRuns
    <3> QED BY <1>0, <2>0, <3>2 DEF LoopRuns
  <2>3. Measuring' /\ OnDisk'
    BY <1>0, <2>0 DEF Measuring, OnDisk
  <2>4. Launching'
    BY <1>0, <2>0 DEF Launching, ExitZeroMeansRecorded
  <2> QED BY <2>1, <2>2, <2>3, <2>4 DEF BenchInv
<1> QED BY <1>1, <1>2, <1>3, <1>4, <1>5, <1>6, <1>7, <1>8, <1>9, <1>10, <1>11, <1>12 DEF Next, Step

(* The invariant holds in every state of the benchmark.                    *)
LEMMA BenchInductive == Spec => []BenchInv
<1> QED BY BenchInit, BenchNext, PTL DEF Spec

-----------------------------------------------------------------------------
(* No launch that dies leaves a checkpoint that is torn, or one without a  *)
(* timed answer.                                                           *)
THEOREM CheckpointsNeverTorn == Spec => []CheckpointsWhole
<1>1. BenchInv => CheckpointsWhole
  BY DEF BenchInv, OnDisk, Good, Whole, CheckpointsWhole
<1> QED BY <1>1, BenchInductive, PTL

(* A benchmark that exits 0 has a checkpoint for every policy.             *)
THEOREM ExitCodeTruthful == Spec => []ExitZeroMeansRecorded
<1>1. BenchInv => ExitZeroMeansRecorded
  BY DEF BenchInv, Launching
<1> QED BY <1>1, BenchInductive, PTL

(* A run reported as reset began with an empty prefix cache.               *)
THEOREM ResetMeansCold == Spec => []ColdStart
<1>1. BenchInv => ColdStart
  BY DEF BenchInv, OnDisk, Good, ColdStart
<1> QED BY <1>1, BenchInductive, PTL

(* The reported delta of the server's counter is that of the run.          *)
THEOREM DeltasAreOwn == Spec => []DeltaIsThisRun
<1>1. BenchInv => DeltaIsThisRun
  BY DEF BenchInv, OnDisk, Good, DeltaIsThisRun
<1> QED BY <1>1, BenchInductive, PTL
=============================================================================
