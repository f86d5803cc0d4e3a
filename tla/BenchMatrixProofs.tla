-------------------------- MODULE BenchMatrixProofs --------------------------
(***************************************************************************)
(* What the files of the benchmark matrix are worth, for every matrix and  *)
(* wherever earlier launches failed or were killed.                        *)
(*                                                                         *)
(* While the script measures, exactly one server runs, and it is the one   *)
(* the position of the loops asks for (OnServer): start_server kills what  *)
(* it finds, so that no server of an earlier launch answers.  Behind the   *)
(* position every job is recorded (Behind), because the script steps over  *)
(* a budget, a cell or the trueB0 part only when nothing is missing there, *)
(* and a bench process leaves only once its list is empty (BenchList).     *)
(***************************************************************************)
EXTENDS BenchMatrix, FilteringProofs

TypeOK ==
  /\ pc \in {"idle", "budget", "smoke", "cells", "bench", "probe", "plain"}
  /\ exit \in {"none", "ok", "error", "killed"}
  /\ force \in BOOLEAN /\ plain \in BOOLEAN
  /\ i \in Nat \ {0} /\ j \in Nat \ {0}

OnServer ==
  pc \in {"smoke", "cells", "bench", "probe"} => servers = {Server(Budgets[i], plain)}

Position ==
  /\ pc = "idle" => i = 1
  /\ pc = "smoke" => j = 1
  /\ pc # "idle" => exit = "none" /\ i <= Len(Budgets) + 1
  /\ pc \in {"smoke", "cells", "bench", "probe", "plain"} => i <= Len(Budgets)
  /\ pc \in {"cells", "bench"} => j <= Len(Cells) + 1
  /\ pc = "bench" => j <= Len(Cells)
  /\ pc \notin {"cells", "bench"} => ~plain

(* What the driver leaves of a budget when it goes on to the next one.     *)
BudgetRecorded(kv) ==
  \A c \in Range(Cells) : Done(kv, FALSE, c) /\ (TrueB0 => Done(kv, TRUE, c))

Behind ==
  /\ pc # "idle" => \A k \in DOMAIN Budgets : k < i => BudgetRecorded(Budgets[k])
  /\ pc \in {"cells", "bench"} => \A k \in DOMAIN Cells : k < j => Done(Budgets[i], plain, Cells[k])
  /\ pc \in {"probe", "plain"} \/ plain => \A c \in Range(Cells) : Done(Budgets[i], FALSE, c)

(* The list of a bench process: the policies still to be recorded, each    *)
(* once; those of a launch that is not forced have no file.                *)
BenchList ==
  pc = "bench" =>
    /\ todo \in Seq(Range(PoliciesOf(plain))) /\ IsInjective(todo)
    /\ \A pol \in Range(PoliciesOf(plain)) \ Range(todo) :
         Recorded(Job(Budgets[i], plain, Cells[j], pol))
    /\ ~force => \A pol \in Range(todo) : ~Recorded(Job(Budgets[i], plain, Cells[j], pol))

MatrixInv ==
  TypeOK /\ OnServer /\ Position /\ Behind /\ BenchList
    /\ MeasuredOnItsServer /\ ExitZeroMeansComplete

-----------------------------------------------------------------------------
(* The lists of the configuration, and the policies of either part.        *)
LEMMA MatrixShape ==
  /\ Len(Budgets) \in Nat /\ DOMAIN Budgets = 1 .. Len(Budgets)
  /\ Len(Cells) \in Nat /\ DOMAIN Cells = 1 .. Len(Cells)
  /\ \A p \in BOOLEAN : /\ PoliciesOf(p) \in Seq(Range(PoliciesOf(p)))
                        /\ IsInjective(PoliciesOf(p))
<1>1. /\ Len(Budgets) \in Nat /\ DOMAIN Budgets = 1 .. Len(Budgets)
      /\ Len(Cells) \in Nat /\ DOMAIN Cells = 1 .. Len(Cells)
  BY MatrixAssumption, LenProperties
<1>2. /\ <<"B0">> \in Seq(Range(<<"B0">>)) /\ IsInjective(<<"B0">>)
  BY DEF IsInjective, Range
<1> QED BY <1>1, <1>2, MatrixAssumption DEF PoliciesOf

(* While no file goes away, what is done stays done.                       *)
LEMMA DoneStays ==
  ASSUME DOMAIN files \subseteq DOMAIN files'
  PROVE  /\ \A kv, p, c : Done(kv, p, c) => Done(kv, p, c)'
         /\ \A kv : BudgetRecorded(kv) => BudgetRecorded(kv)'
<1>1. ASSUME NEW kv, NEW p, NEW c, Done(kv, p, c) PROVE Done(kv, p, c)'
  BY <1>1 DEF Done, Recorded
<1> QED BY <1>1 DEF BudgetRecorded

(* The list a bench process starts with.                                   *)
LEMMA EnterCellList ==
  ASSUME MatrixInv, EnterCell
  PROVE  BenchList'
<1> DEFINE L    == PoliciesOf(plain)
           miss == {pol \in Range(L) : force \/ ~Recorded(Job(Budgets[i], plain, Cells[j], pol))}
<1>1. /\ todo' = Filtered(L, miss)
      /\ UNCHANGED <<files, force, i, j, plain>>
  BY DEF EnterCell, MissingPolicies
<1>2. L \in Seq(Range(L)) /\ IsInjective(L)
  BY MatrixShape DEF MatrixInv, TypeOK
<1>3. /\ todo' \in Seq(Range(L)) /\ IsInjective(todo')
      /\ Range(todo') = Range(L) \cap miss
  BY <1>1, <1>2, FilteredKeeps
<1>4. PoliciesOf(plain)' = L
  BY <1>1 DEF PoliciesOf
<1>5. \A pol : Recorded(Job(Budgets[i], plain, Cells[j], pol))' <=> Recorded(Job(Budgets[i], plain, Cells[j], pol))
  BY <1>1 DEF Recorded, Job
<1>6. \A pol \in Range(L) \ Range(todo') : Recorded(Job(Budgets[i], plain, Cells[j], pol))'
  BY <1>3, <1>5
<1>7. ~force' => \A pol \in Range(todo') : ~Recorded(Job(Budgets[i], plain, Cells[j], pol))'
  BY <1>1, <1>3, <1>5
<1> QED BY <1>3, <1>4, <1>6, <1>7 DEF BenchList

(* A bench process records the first policy of its list.                   *)
LEMMA RecordStep ==
  ASSUME MatrixInv, Record, NEW job, job = Job(Budgets[i], plain, Cells[j], todo[1])
  PROVE  /\ DOMAIN files' = DOMAIN files \cup {job}
         /\ files'[job].server = Server(Budgets[i], plain)
         /\ \A k \in DOMAIN files : k # job => files'[k] = files[k]
         /\ ~force => job \notin DOMAIN files
         /\ BenchList'
<1>1. /\ pc = "bench" /\ todo # <<>> /\ todo' = Tail(todo)
      /\ UNCHANGED <<servers, pc, force, i, j, plain>>
  BY DEF Record
<1>2. servers = {Server(Budgets[i], plain)}
  BY <1>1 DEF MatrixInv, OnServer
<1>3. PICK s \in servers :
        files' = [k \in DOMAIN files \cup {job} |-> IF k = job THEN [server |-> s, launch |-> launches] ELSE files[k]]
  BY DEF Record
<1>4. /\ DOMAIN files' = DOMAIN files \cup {job}
      /\ files'[job].server = Server(Budgets[i], plain)
      /\ \A k \in DOMAIN files : k # job => files'[k] = files[k]
  BY <1>2, <1>3
<1>5. todo \in Seq(Range(PoliciesOf(plain))) /\ IsInjective(todo)
  BY <1>1 DEF MatrixInv, BenchList
<1>6. /\ todo[1] \in Range(todo) /\ todo' \in Seq(Range(PoliciesOf(plain))) /\ IsInjective(todo')
      /\ Range(todo') = Range(todo) \ {todo[1]}
  BY <1>1, <1>5, TailDistinct
<1>7. ~force => job \notin DOMAIN files
  BY <1>1, <1>6 DEF MatrixInv, BenchList, Recorded
<1>8. PoliciesOf(plain)' = PoliciesOf(plain)
  BY <1>1 DEF PoliciesOf
<1>9. ASSUME NEW pol \in Range(PoliciesOf(plain)) \ Range(todo')
      PROVE  Recorded(Job(Budgets[i], plain, Cells[j], pol))'
  <2>1. Job(Budgets[i], plain, Cells[j], pol) \in DOMAIN files'
    BY <1>1, <1>4, <1>6, <1>9 DEF MatrixInv, BenchList, Recorded
  <2> QED BY <1>1, <2>1 DEF Recorded, Job
<1>10. ASSUME ~force', NEW pol \in Range(todo')
       PROVE  ~Recorded(Job(Budgets[i], plain, Cells[j], pol))'
  <2>1. pol \in Range(todo) /\ pol # todo[1] /\ ~force
    BY <1>1, <1>6, <1>10
  <2>2. Job(Budgets[i], plain, Cells[j], pol) \notin DOMAIN files
    BY <1>1, <2>1 DEF MatrixInv, BenchList, Recorded
  <2>3. Job(Budgets[i], plain, Cells[j], pol) # job
    BY <2>1 DEF Job
  <2>4. Job(Budgets[i], plain, Cells[j], pol) \notin DOMAIN files'
    BY <1>4, <2>2, <2>3
  <2> QED BY <1>1, <2>4 DEF Recorded, Job
<1>11. BenchList'
  BY <1>6, <1>8, <1>9, <1>10 DEF BenchList
<1> QED BY <1>4, <1>7, <1>11

-----------------------------------------------------------------------------
(* The initial state satisfies the invariant: nothing is on disk.          *)
LEMMA MatrixInit == Init => MatrixInv
<1> SUFFICES ASSUME Init PROVE MatrixInv
  OBVIOUS
<1> USE DEF Init
<1>1. TypeOK /\ OnServer /\ Position /\ BenchList
  <2>1. force \in BOOLEAN /\ plain \in BOOLEAN
    BY Zenon
  <2>2. i \in Nat \ {0} /\ j \in Nat \ {0}
    OBVIOUS
  <2>3. TypeOK
    BY <2>1, <2>2 DEF TypeOK
  <2>4. OnServer /\ Position /\ BenchList
    BY DEF OnServer, Position, BenchList
  <2> QED BY <2>3, <2>4
<1>2. Behind
  BY DEF Behind
<1>3. MeasuredOnItsServer /\ ExitZeroMeansComplete
  BY DEF MeasuredOnItsServer, ExitZeroMeansComplete
<1> QED BY <1>1, <1>2, <1>3 DEF MatrixInv

(* A step in the middle of a launch that touches no file keeps what the    *)
(* files say.                                                              *)
LEMMA FilesKept ==
  ASSUME MatrixInv, files' = files, exit' = "none"
  PROVE  MeasuredOnItsServer' /\ ExitZeroMeansComplete'
BY DEF MatrixInv, MeasuredOnItsServer, ExitZeroMeansComplete

(* The script ends, in one way or another.                                 *)
LEMMA ExitStep ==
  ASSUME MatrixInv, NEW how \in {"ok", "error", "killed"}, Exit(how), files' = files, force' = force,
         how = "ok" => Jobs \subseteq DOMAIN files
  PROVE  MatrixInv'
<1>1. /\ pc' = "idle" /\ exit' = how
      /\ i' = 1 /\ j' = 1 /\ plain' = FALSE
  BY DEF Exit
<1>2. TypeOK' /\ OnServer' /\ BenchList'
  <2>1. plain' \in BOOLEAN
    BY <1>1, Zenon
  <2>2. force' \in BOOLEAN
    BY DEF MatrixInv, TypeOK
  <2>3. TypeOK'
    BY <1>1, <2>1, <2>2 DEF TypeOK
  <2>4. OnServer' /\ BenchList'
    BY <1>1 DEF OnServer, BenchList
  <2> QED BY <2>3, <2>4
<1>3. Position'
  BY <1>1 DEF Position
<1>4. Behind'
  BY <1>1 DEF Behind
<1>5. MeasuredOnItsServer'
  BY <1>1 DEF MatrixInv, MeasuredOnItsServer
<1>6. ExitZeroMeansComplete'
  BY <1>1 DEF ExitZeroMeansComplete
<1> QED BY <1>2, <1>3, <1>4, <1>5, <1>6 DEF MatrixInv

(* A launch that reaches the end of its budgets has every job behind it.   *)
LEMMA FinishStep ==
  ASSUME MatrixInv, Finish
  PROVE  MatrixInv'
<1>1. pc = "budget" /\ i > Len(Budgets) /\ files' = files /\ force' = force /\ Exit("ok")
  BY DEF Finish, ExitTrapped
<1>2. \A kv \in Range(Budgets) : BudgetRecorded(kv)
  <2> SUFFICES ASSUME NEW k \in DOMAIN Budgets PROVE BudgetRecorded(Budgets[k])
    BY DEF Range
  <2>1. k < i
    BY <1>1, MatrixShape DEF MatrixInv, TypeOK
  <2> QED BY <1>1, <2>1 DEF MatrixInv, Behind
<1>3. ASSUME NEW p \in Parts, NEW kv \in Range(Budgets), NEW c \in Range(Cells)
      PROVE  Done(kv, p, c)
  <2>1. Done(kv, FALSE, c) /\ (TrueB0 => Done(kv, TRUE, c))
    BY <1>2 DEF BudgetRecorded
  <2>2. p = FALSE \/ (p = TRUE /\ TrueB0)
    BY Zenon DEF Parts
  <2> QED BY <2>1, <2>2, Zenon
<1>4. ASSUME NEW p \in Parts, NEW kv \in Range(Budgets), NEW c \in Range(Cells),
             NEW pol \in Range(PoliciesOf(p))
      PROVE  Job(kv, p, c, pol) \in DOMAIN files
  BY <1>3 DEF Done, Recorded
<1>5. ASSUME NEW p \in Parts PROVE JobsOf(p) \subseteq DOMAIN files
  BY <1>4 DEF JobsOf
<1>6. Jobs \subseteq DOMAIN files
  BY <1>5 DEF Jobs
<1> QED BY <1>1, <1>6, ExitStep

(* One bench process records one policy.                                   *)
LEMMA RecordInv ==
  ASSUME MatrixInv, Record
  PROVE  MatrixInv'
<1> DEFINE job == Job(Budgets[i], plain, Cells[j], todo[1])
<1>1. /\ pc = "bench" /\ exit = "none"
      /\ UNCHANGED <<servers, pc, force, i, j, plain, exit>>
  BY DEF Record, MatrixInv, Position
<1>2. /\ DOMAIN files' = DOMAIN files \cup {job}
      /\ files'[job].server = Server(Budgets[i], plain)
      /\ \A k \in DOMAIN files : k # job => files'[k] = files[k]
      /\ BenchList'
  BY RecordStep
<1>3. job[1] = Budgets[i] /\ job[2] = plain
  BY DEF Job
<1> HIDE DEF job
<1>4. TypeOK' /\ OnServer' /\ Position'
  BY <1>1, <1>2 DEF MatrixInv, TypeOK, OnServer, Position
<1>5. Behind'
  <2>1. \A kv, p, c : Done(kv, p, c) => Done(kv, p, c)'
    BY <1>2, DoneStays
  <2>2. \A kv : BudgetRecorded(kv) => BudgetRecorded(kv)'
    BY <1>2, DoneStays
  <2>3. \A k \in DOMAIN Budgets : k < i' => BudgetRecorded(Budgets[k])'
    BY <1>1, <2>2 DEF MatrixInv, Behind
  <2>4. \A k \in DOMAIN Cells : k < j' => Done(Budgets[i], plain, Cells[k])'
    <3>1. \A k \in DOMAIN Cells : k < j => Done(Budgets[i], plain, Cells[k])
      BY <1>1 DEF MatrixInv, Behind
    <3> QED BY <1>1, <2>1, <3>1 DEF Done, Recorded
  <2>5. plain' => \A c \in Range(Cells) : Done(Budgets[i], FALSE, c)'
    <3>1. plain => \A c \in Range(Cells) : Done(Budgets[i], FALSE, c)
      BY DEF MatrixInv, Behind
    <3> QED BY <1>1, <2>1, <3>1 DEF Done, Recorded
  <2> QED BY <1>1, <2>3, <2>4, <2>5 DEF Behind
<1>6. MeasuredOnItsServer'
  <2> SUFFICES ASSUME NEW k \in DOMAIN files' PROVE files'[k].server = Server(k[1], k[2])
    BY DEF MeasuredOnItsServer, Server
  <2>1. CASE k = job
    BY <1>2, <1>3, <2>1
  <2>2. CASE k # job
    BY <1>2, <2>2 DEF MatrixInv, MeasuredOnItsServer
  <2> QED BY <2>1, <2>2
<1>7. ExitZeroMeansComplete'
  BY <1>1 DEF ExitZeroMeansComplete
<1> QED BY <1>2, <1>4, <1>5, <1>6, <1>7 DEF MatrixInv

(* Every step of the driver preserves the invariant.                       *)
LEMMA MatrixNext == MatrixInv /\ [Next]_vars => MatrixInv'
<1> SUFFICES ASSUME MatrixInv, [Next]_vars PROVE MatrixInv'
  OBVIOUS
<1>0. /\ TypeOK /\ OnServer /\ Position /\ Behind /\ BenchList
      /\ MeasuredOnItsServer /\ ExitZeroMeansComplete
  BY DEF MatrixInv
<1>1. CASE \E f \in BOOLEAN : Launch(f)
  <2>0. /\ pc = "idle" /\ pc' = "budget" /\ exit' = "none" /\ force' \in BOOLEAN
        /\ UNCHANGED <<files, servers, i, j, plain, todo>> /\ i = 1 /\ ~plain
    BY <1>0, <1>1 DEF Launch, position, Position
  <2>1. TypeOK' /\ OnServer' /\ Position'
    BY <1>0, <2>0, MatrixShape DEF TypeOK, OnServer, Position
  <2>2. Behind'
    <3>1. \A k \in DOMAIN Budgets : ~(k < i')
      BY <2>0, MatrixShape
    <3> QED BY <2>0, <3>1 DEF Behind
  <2>3. BenchList'
    BY <2>0 DEF BenchList
  <2>4. MeasuredOnItsServer' /\ ExitZeroMeansComplete'
    BY <2>0, FilesKept
  <2> QED BY <2>1, <2>2, <2>3, <2>4 DEF MatrixInv
<1>2. CASE SkipBudget
  <2>0. /\ pc = "budget" /\ pc' = pc /\ i <= Len(Budgets) /\ i' = i + 1 /\ BudgetDone(Budgets[i])
        /\ files' = files /\ force' = force /\ exit' = "none"
        /\ UNCHANGED <<servers, j, plain, todo>> /\ ~plain
    BY <1>0, <1>2 DEF SkipBudget, Position
  <2>1. TypeOK' /\ OnServer' /\ Position'
    BY <1>0, <2>0, MatrixShape DEF TypeOK, OnServer, Position
  <2>2. Behind'
    <3>1. BudgetRecorded(Budgets[i])
      BY <2>0 DEF BudgetDone, BudgetRecorded
    <3>2. \A k \in DOMAIN Budgets : k < i' => BudgetRecorded(Budgets[k])
      <4> SUFFICES ASSUME NEW k \in DOMAIN Budgets, k < i + 1 PROVE BudgetRecorded(Budgets[k])
        BY <2>0
      <4>1. k < i \/ k = i
        BY <1>0, MatrixShape DEF TypeOK
      <4> QED BY <1>0, <2>0, <3>1, <4>1 DEF Behind
    <3> QED BY <2>0, <3>2, DoneStays DEF Behind
  <2>3. BenchList'
    BY <2>0 DEF BenchList
  <2>4. MeasuredOnItsServer' /\ ExitZeroMeansComplete'
    BY <2>0, FilesKept
  <2> QED BY <2>1, <2>2, <2>3, <2>4 DEF MatrixInv
<1>3. CASE StartCached
  <2>0. /\ pc = "budget" /\ pc' = "smoke" /\ i <= Len(Budgets) /\ i' = i /\ j' = 1 /\ plain' = FALSE
        /\ servers' = {Server(Budgets[i], FALSE)} /\ todo' = todo
        /\ files' = files /\ force' = force /\ exit' = "none"
    BY <1>0, <1>3 DEF StartCached, StartServer, Position
  <2>1. TypeOK' /\ OnServer' /\ Position'
    <3>1. OnServer'
      BY <2>0 DEF OnServer
    <3>2. TypeOK'
      <4>1. plain' \in BOOLEAN
        BY <2>0, Zenon
      <4> QED BY <1>0, <2>0, <4>1 DEF TypeOK
    <3>3. Position'
      BY <1>0, <2>0, MatrixShape DEF TypeOK, Position
    <3> QED BY <3>1, <3>2, <3>3
  <2>2. Behind'
    BY <1>0, <2>0, DoneStays DEF Behind
  <2>3. BenchList'
    BY <2>0 DEF BenchList
  <2>4. MeasuredOnItsServer' /\ ExitZeroMeansComplete'
    BY <2>0, FilesKept
  <2> QED BY <2>1, <2>2, <2>3, <2>4 DEF MatrixInv
<1>4. CASE SmokeTest
  <2>0. /\ pc = "smoke" /\ pc' = "cells" /\ files' = files /\ force' = force /\ exit' = "none"
        /\ UNCHANGED <<servers, i, j, plain, todo>> /\ ~plain /\ j = 1
    BY <1>0, <1>4 DEF SmokeTest, position, Position
  <2>1. TypeOK' /\ OnServer' /\ Position'
    BY <1>0, <2>0, MatrixShape DEF TypeOK, OnServer, Position
  <2>2. Behind'
    <3>1. \A k \in DOMAIN Cells : ~(k < j')
      BY <2>0, MatrixShape
    <3>2. \A k \in DOMAIN Budgets : k < i' => BudgetRecorded(Budgets[k])'
      BY <1>0, <2>0, DoneStays DEF Behind
    <3> QED BY <2>0, <3>1, <3>2 DEF Behind
  <2>3. BenchList'
    BY <2>0 DEF BenchList
  <2>4. MeasuredOnItsServer' /\ ExitZeroMeansComplete'
    BY <2>0, FilesKept
  <2> QED BY <2>1, <2>2, <2>3, <2>4 DEF MatrixInv
<1>5. CASE SkipCell
  <2>0. /\ pc = "cells" /\ pc' = pc /\ j <= Len(Cells) /\ j' = j + 1 /\ Done(Budgets[i], plain, Cells[j])
        /\ files' = files /\ force' = force /\ exit' = "none"
        /\ UNCHANGED <<servers, i, plain, todo>>
    BY <1>0, <1>5 DEF SkipCell, Position
  <2>1. TypeOK' /\ OnServer' /\ Position'
    BY <1>0, <2>0, MatrixShape DEF TypeOK, OnServer, Position
  <2>2. Behind'
    <3>1. \A k \in DOMAIN Cells : k < j' => Done(Budgets[i], plain, Cells[k])
      <4> SUFFICES ASSUME NEW k \in DOMAIN Cells, k < j + 1 PROVE Done(Budgets[i], plain, Cells[k])
        BY <2>0
      <4>1. k < j \/ k = j
        BY <1>0, MatrixShape DEF TypeOK
      <4> QED BY <1>0, <2>0, <4>1 DEF Behind
    <3>2. \A kv, p, c : Done(kv, p, c)' <=> Done(kv, p, c)
      BY <2>0 DEF Done, Recorded
    <3>3. \A k \in DOMAIN Cells : k < j' => Done(Budgets[i], plain, Cells[k])'
      BY <2>0, <3>1, <3>2 DEF Done, Recorded
    <3>4. plain' => \A c \in Range(Cells) : Done(Budgets[i], FALSE, c)'
      BY <1>0, <2>0, <3>2 DEF Behind, Done, Recorded
    <3>5. \A k \in DOMAIN Budgets : k < i' => BudgetRecorded(Budgets[k])'
      BY <1>0, <2>0, DoneStays DEF Behind
    <3> QED BY <2>0, <3>3, <3>4, <3>5 DEF Behind
  <2>3. BenchList'
    BY <2>0 DEF BenchList
  <2>4. MeasuredOnItsServer' /\ ExitZeroMeansComplete'
    BY <2>0, FilesKept
  <2> QED BY <2>1, <2>2, <2>3, <2>4 DEF MatrixInv
<1>6. CASE EnterCell
  <2>0. /\ pc = "cells" /\ pc' = "bench" /\ j <= Len(Cells) /\ files' = files /\ force' = force /\ exit' = "none"
        /\ UNCHANGED <<servers, i, j, plain>>
    BY <1>0, <1>6 DEF EnterCell, Position
  <2>1. TypeOK' /\ OnServer' /\ Position'
    BY <1>0, <2>0, MatrixShape DEF TypeOK, OnServer, Position
  <2>2. Behind'
    BY <1>0, <2>0 DEF Behind, BudgetRecorded, Done, Recorded
  <2>3. BenchList'
    BY <1>6, EnterCellList
  <2>4. MeasuredOnItsServer' /\ ExitZeroMeansComplete'
    BY <2>0, FilesKept
  <2> QED BY <2>1, <2>2, <2>3, <2>4 DEF MatrixInv
<1>7. CASE Record
  BY <1>7, RecordInv
<1>8. CASE EndBench
  <2>0. /\ pc = "bench" /\ pc' = "cells" /\ todo = <<>> /\ j' = j + 1 /\ j <= Len(Cells) /\ files' = files /\ force' = force /\ exit' = "none"
        /\ UNCHANGED <<servers, i, plain, todo>> /\ Done(Budgets[i], plain, Cells[j])
    BY <1>0, <1>8 DEF EndBench, Position, BenchList, Done, Range
  <2>1. TypeOK' /\ OnServer' /\ Position'
    BY <1>0, <2>0, MatrixShape DEF TypeOK, OnServer, Position
  <2>2. Behind'
    <3>1. \A k \in DOMAIN Cells : k < j' => Done(Budgets[i], plain, Cells[k])
      <4> SUFFICES ASSUME NEW k \in DOMAIN Cells, k < j + 1 PROVE Done(Budgets[i], plain, Cells[k])
        BY <2>0
      <4>1. k < j \/ k = j
        BY <1>0, MatrixShape DEF TypeOK
      <4> QED BY <1>0, <2>0, <4>1 DEF Behind
    <3>2. \A kv, p, c : Done(kv, p, c)' <=> Done(kv, p, c)
      BY <2>0 DEF Done, Recorded
    <3>3. \A k \in DOMAIN Cells : k < j' => Done(Budgets[i], plain, Cells[k])'
      BY <2>0, <3>1, <3>2 DEF Done, Recorded
    <3>4. plain' => \A c \in Range(Cells) : Done(Budgets[i], FALSE, c)'
      BY <1>0, <2>0, <3>2 DEF Behind, Done, Recorded
    <3>5. \A k \in DOMAIN Budgets : k < i' => BudgetRecorded(Budgets[k])'
      BY <1>0, <2>0, DoneStays DEF Behind
    <3> QED BY <2>0, <3>3, <3>4, <3>5 DEF Behind
  <2>3. BenchList'
    BY <2>0 DEF BenchList
  <2>4. MeasuredOnItsServer' /\ ExitZeroMeansComplete'
    BY <2>0, FilesKept
  <2> QED BY <2>1, <2>2, <2>3, <2>4 DEF MatrixInv
<1>9. CASE EndCells
  <2>0. /\ pc = "cells" /\ j > Len(Cells) /\ files' = files /\ force' = force /\ exit' = "none"
        /\ UNCHANGED <<j, todo>>
        /\ \/ plain /\ i' = i + 1 /\ pc' = "budget" /\ plain' = FALSE
           \/ ~plain /\ pc' = "probe" /\ UNCHANGED <<servers, i, plain>>
    BY <1>0, <1>9 DEF EndCells, Position
  <2>1. TypeOK' /\ OnServer' /\ Position'
    <3>1. CASE plain
      <4>1. plain' \in BOOLEAN
        BY <2>0, <3>1, Zenon
      <4>2. TypeOK'
        BY <1>0, <2>0, <3>1, <4>1 DEF TypeOK
      <4>3. OnServer' /\ Position'
        BY <1>0, <2>0, <3>1, MatrixShape DEF TypeOK, OnServer, Position
      <4> QED BY <4>2, <4>3
    <3>2. CASE ~plain
      BY <1>0, <2>0, <3>2, MatrixShape DEF TypeOK, OnServer, Position
    <3> QED BY <3>1, <3>2
  <2>2. \A c \in Range(Cells) : Done(Budgets[i], plain, c)
    <3> SUFFICES ASSUME NEW k \in DOMAIN Cells PROVE Done(Budgets[i], plain, Cells[k])
      BY DEF Range
    <3>1. k < j
      BY <1>0, <2>0, MatrixShape DEF TypeOK
    <3> QED BY <1>0, <2>0, <3>1 DEF Behind
  <2>3. \A k \in DOMAIN Budgets : k < i' => BudgetRecorded(Budgets[k])
    <3> SUFFICES ASSUME NEW k \in DOMAIN Budgets, k < i' PROVE BudgetRecorded(Budgets[k])
      OBVIOUS
    <3>1. k < i \/ (plain /\ k = i)
      BY <1>0, <2>0, MatrixShape DEF TypeOK
    <3>2. plain => BudgetRecorded(Budgets[i])
      BY <1>0, <2>2 DEF Behind, BudgetRecorded, TypeOK
    <3> QED BY <1>0, <2>0, <3>1, <3>2 DEF Behind
  <2>4. Behind'
    <3>1. \A k \in DOMAIN Budgets : k < i' => BudgetRecorded(Budgets[k])'
      BY <2>0, <2>3, DoneStays
    <3>2. pc' = "probe" => \A c \in Range(Cells) : Done(Budgets[i], FALSE, c)'
      BY <1>0, <2>0, <2>2 DEF TypeOK, Done, Recorded
    <3> QED BY <1>0, <2>0, <3>1, <3>2 DEF Behind
  <2>5. BenchList'
    BY <2>0 DEF BenchList
  <2>6. MeasuredOnItsServer' /\ ExitZeroMeansComplete'
    BY <2>0, FilesKept
  <2> QED BY <2>1, <2>4, <2>5, <2>6 DEF MatrixInv
<1>10. CASE ProbeServer
  <2>0. /\ pc = "probe" /\ pc' = "plain" /\ files' = files /\ force' = force /\ exit' = "none"
        /\ UNCHANGED <<i, j, plain, todo>> /\ ~plain
    BY <1>0, <1>10 DEF ProbeServer, position, Position
  <2>1. TypeOK' /\ OnServer' /\ Position'
    BY <1>0, <2>0, MatrixShape DEF TypeOK, OnServer, Position
  <2>2. Behind'
    BY <1>0, <2>0 DEF Behind, BudgetRecorded, Done, Recorded
  <2>3. BenchList'
    BY <2>0 DEF BenchList
  <2>4. MeasuredOnItsServer' /\ ExitZeroMeansComplete'
    BY <2>0, FilesKept
  <2> QED BY <2>1, <2>2, <2>3, <2>4 DEF MatrixInv
<1>11. CASE StartPlain
  <2>0. /\ pc = "plain" /\ pc' = "cells" /\ i <= Len(Budgets) /\ j' = 1 /\ plain' = TRUE
        /\ servers' = {Server(Budgets[i], TRUE)} /\ files' = files /\ force' = force /\ exit' = "none"
        /\ UNCHANGED <<i, todo>>
    BY <1>0, <1>11 DEF StartPlain, StartServer, Position
  <2>1. TypeOK' /\ OnServer' /\ Position'
    <3>1. OnServer'
      BY <2>0 DEF OnServer
    <3>2. TypeOK'
      <4>1. plain' \in BOOLEAN
        BY <2>0, Zenon
      <4> QED BY <1>0, <2>0, <4>1 DEF TypeOK
    <3>3. Position'
      BY <1>0, <2>0, MatrixShape DEF TypeOK, Position
    <3> QED BY <3>1, <3>2, <3>3
  <2>2. Behind'
    <3>1. \A k \in DOMAIN Cells : ~(k < j')
      BY <2>0, MatrixShape
    <3>2. \A c \in Range(Cells) : Done(Budgets[i], FALSE, c)'
      BY <1>0, <2>0 DEF Behind, Done, Recorded
    <3>3. \A k \in DOMAIN Budgets : k < i' => BudgetRecorded(Budgets[k])'
      BY <1>0, <2>0, DoneStays DEF Behind
    <3> QED BY <2>0, <3>1, <3>2, <3>3 DEF Behind
  <2>3. BenchList'
    BY <2>0 DEF BenchList
  <2>4. MeasuredOnItsServer' /\ ExitZeroMeansComplete'
    BY <2>0, FilesKept
  <2> QED BY <2>1, <2>2, <2>3, <2>4 DEF MatrixInv
<1>12. CASE SkipPlain
  <2>0. /\ pc = "plain" /\ pc' = "budget" /\ i <= Len(Budgets) /\ i' = i + 1 /\ files' = files /\ force' = force /\ exit' = "none"
        /\ UNCHANGED <<servers, j, plain, todo>> /\ ~plain /\ ~PlainNeeded
    BY <1>0, <1>12 DEF SkipPlain, Position
  <2>1. TypeOK' /\ OnServer' /\ Position'
    BY <1>0, <2>0, MatrixShape DEF TypeOK, OnServer, Position
  <2>2. Behind'
    <3>1. BudgetRecorded(Budgets[i])
      BY <1>0, <2>0, MatrixAssumption DEF PlainNeeded, BudgetRecorded, Behind
    <3>2. \A k \in DOMAIN Budgets : k < i' => BudgetRecorded(Budgets[k])
      <4> SUFFICES ASSUME NEW k \in DOMAIN Budgets, k < i + 1 PROVE BudgetRecorded(Budgets[k])
        BY <2>0
      <4>1. k < i \/ k = i
        BY <1>0, MatrixShape DEF TypeOK
      <4> QED BY <1>0, <2>0, <3>1, <4>1 DEF Behind
    <3> QED BY <2>0, <3>2, DoneStays DEF Behind
  <2>3. BenchList'
    BY <2>0 DEF BenchList
  <2>4. MeasuredOnItsServer' /\ ExitZeroMeansComplete'
    BY <2>0, FilesKept
  <2> QED BY <2>1, <2>2, <2>3, <2>4 DEF MatrixInv
<1>13. CASE Finish
  BY <1>13, FinishStep
<1>14. CASE Fail
  BY <1>14, ExitStep DEF Fail, ExitTrapped
<1>15. CASE Kill
  BY <1>15, ExitStep DEF Kill
<1>16. CASE UNCHANGED vars
  <2>0. UNCHANGED <<files, servers, pc, force, i, j, plain, todo, exit>>
    BY <1>16 DEF vars, position
  <2>1. TypeOK' /\ OnServer' /\ Position'
    BY <1>0, <2>0 DEF TypeOK, OnServer, Position
  <2>2. Behind'
    BY <1>0, <2>0 DEF Behind, BudgetRecorded, Done, Recorded
  <2>3. BenchList'
    BY <1>0, <2>0 DEF BenchList, Recorded
  <2>4. MeasuredOnItsServer' /\ ExitZeroMeansComplete'
    BY <1>0, <2>0 DEF MeasuredOnItsServer, ExitZeroMeansComplete
  <2> QED BY <2>1, <2>2, <2>3, <2>4 DEF MatrixInv
<1> QED BY <1>1, <1>2, <1>3, <1>4, <1>5, <1>6, <1>7, <1>8, <1>9, <1>10, <1>11, <1>12,
           <1>13, <1>14, <1>15, <1>16 DEF Next

(* The invariant holds in every state of the driver.                       *)
LEMMA MatrixInductive == Spec => []MatrixInv
<1> QED BY MatrixInit, MatrixNext, PTL DEF Spec

-----------------------------------------------------------------------------
(* Every result of the matrix was measured on the server its name says,    *)
(* however launches failed or were killed before.                          *)
THEOREM MeasuredRightServer == Spec => []MeasuredOnItsServer
<1>1. MatrixInv => MeasuredOnItsServer
  BY DEF MatrixInv
<1> QED BY <1>1, MatrixInductive, PTL

(* A launch of the driver that exits 0 leaves no job of the matrix out.    *)
THEOREM MatrixCompletes == Spec => []ExitZeroMeansComplete
<1>1. MatrixInv => ExitZeroMeansComplete
  BY DEF MatrixInv
<1> QED BY <1>1, MatrixInductive, PTL

(* No step takes a result away, and only a forced launch replaces one.     *)
THEOREM ResultsStay == Spec => ResumeKeepsResults
<1>1. ASSUME MatrixInv, [Next]_vars
      PROVE  [\A job \in DOMAIN files : job \in DOMAIN files' /\ (~force => files'[job] = files[job])]_vars
  <2>1. ASSUME Record, NEW job \in DOMAIN files
        PROVE  job \in DOMAIN files' /\ (~force => files'[job] = files[job])
    <3> DEFINE new == Job(Budgets[i], plain, Cells[j], todo[1])
    <3>1. /\ DOMAIN files' = DOMAIN files \cup {new}
          /\ \A k \in DOMAIN files : k # new => files'[k] = files[k]
          /\ ~force => new \notin DOMAIN files
      BY <1>1, <2>1, RecordStep
    <3> HIDE DEF new
    <3> QED BY <2>1, <3>1
  <2>2. CASE files' = files
    BY <2>2
  <2>3. Record \/ files' = files
    BY <1>1 DEF Next, vars, Launch, Finish, SkipBudget, StartCached, SmokeTest, SkipCell, EnterCell,
                EndBench, EndCells, ProbeServer, StartPlain, SkipPlain, Fail, Kill, ExitTrapped
  <2> QED BY <2>1, <2>2, <2>3
<1> QED BY <1>1, MatrixInductive, PTL DEF Spec, ResumeKeepsResults
=============================================================================
