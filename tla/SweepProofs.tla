---------------------------- MODULE SweepProofs ----------------------------
(***************************************************************************)
(* What the checkpoint of the simulator sweep guarantees, for every set of *)
(* command lines, every crash and every rewriting of workload files.       *)
(*                                                                         *)
(* The sweep walks the cells in loop order, so at any time the rows in     *)
(* memory are those of a prefix of that order (Accounted, TodoInOrder).    *)
(* The rows a run does not compute are the ones it found (Adopted), and    *)
(* those it computes for one workload come from what it has loaded         *)
(* (SameInputs).  When a sweep is resumed with its own command line, the   *)
(* file it finds is itself such a prefix (FileInOrder), and that is why a  *)
(* flush in the middle of it loses nothing (NothingDropped).               *)
(***************************************************************************)
EXTENDS SweepCheckpoint, FilteringProofs

RowSet == [cell : (Workloads \X Policies) \X Combos, version : Versions,
           settings : {l.settings : l \in UNION Campaigns}]

TypeOK ==
  /\ campaign \in Campaigns
  /\ file \in Seq(RowSet) /\ tmp \in Seq(RowSet) /\ rows \in Seq(RowSet)
  /\ existing \in SUBSET RowSet
  /\ launch \in campaign \cup {NoLaunch}
  /\ pc \in {"idle", "group", "simulate", "write", "replace", "end"}
  /\ (launch = NoLaunch) = (pc = "idle")
  /\ contents \in [Workloads -> Versions \cup {Torn}]
  /\ loaded \in (Workloads \X Versions) \cup {Unread}

(* Inside a group, from its first simulation to its last flush.            *)
Midway ==
  \/ pc = "simulate"
  \/ pc \in {"write", "replace"} /\ group <= Len(launch.groups)

Progress ==
  pc # "idle" =>
    /\ group \in 1 .. Len(launch.groups) + 1
    /\ pc \in {"group", "simulate"} => (pc = "simulate") = (needed # <<>>)
    /\ pc = "simulate" => group <= Len(launch.groups)
    /\ pc = "end" => group = Len(launch.groups) + 1
    /\ group > Len(launch.groups) => needed = <<>>

(* The combos still to be simulated are some of the command line's, each   *)
(* once and in its order, and no row for them was found.                   *)
TodoInOrder ==
  pc # "idle" =>
    /\ needed \in Seq(Combos) /\ IsInjective(needed)
    /\ Range(needed) \subseteq Range(launch.combos)
    /\ \A a, b \in Range(needed) : Before(launch.combos, a, b) => Before(needed, a, b)
    /\ \A c \in Range(needed) : Current(c) \notin Cells(existing)

(* The cells of the first n - 1 groups.                                    *)
CellsBefore(n) ==
  {<<launch.groups[i], c>> : i \in {k \in DOMAIN launch.groups : k < n}, c \in Range(launch.combos)}

Accounted ==
  pc # "idle" =>
    Cells(Range(rows)) =
      CellsBefore(group) \cup
      {Current(c) : c \in IF Midway THEN Range(launch.combos) \ Range(needed) ELSE {}}

OneRowEach(s) == \A i, j \in DOMAIN s : s[i].cell = s[j].cell => i = j

OneRow ==
  /\ OneRowEach(file) /\ OneRowEach(rows)
  /\ \A r, e \in existing : r.cell = e.cell => r = e

(* Where a run found a row for a cell, its own row for it is that one.     *)
Adopted ==
  /\ \A r \in Range(rows), e \in existing : r.cell = e.cell => r = e
  /\ pc # "idle" /\ launch.force => existing = {}

Flushed ==
  /\ pc = "replace" => tmp = rows
  /\ pc = "end" => file = rows

(* The workload in memory is that of the current group, or of the one      *)
(* before it.                                                              *)
LoadedHere ==
  pc # "idle" =>
    /\ pc = "group" /\ group > 1 =>
         /\ loaded # Unread
         /\ loaded[1] = launch.groups[group - 1][1] \/ (group <= Len(launch.groups) /\ Loaded)
    /\ Midway => Loaded

SweepInv ==
  TypeOK /\ Progress /\ TodoInOrder /\ Accounted /\ OneRow /\ Adopted /\ Flushed /\ LoadedHere

(* The rows computed for one workload come from one version of it, the one *)
(* in memory while it is there.                                            *)
Computed == Range(rows) \ existing

SameInputs ==
  /\ \A r \in Computed : r.settings = launch.settings
  /\ \A r, s \in Computed : r.cell[1][1] = s.cell[1][1] => r.version = s.version
  /\ \A r \in Computed : loaded # Unread /\ r.cell[1][1] = loaded[1] => r.version = loaded[2]

InputInv == SweepInv /\ SameInputs

-----------------------------------------------------------------------------
(* A set of cells of one command line that, with a cell, holds all those   *)
(* the loops visit before it.                                              *)
InOrder(l, S) ==
  /\ S \subseteq Selected(l)
  /\ \A i, m \in DOMAIN l.groups : \A j, n \in DOMAIN l.combos :
       /\ <<l.groups[i], l.combos[j]>> \in S
       /\ m < i \/ (m = i /\ n < j)
       => <<l.groups[m], l.combos[n]>> \in S

FileInOrder ==
  Resumed => \A l \in campaign :
    /\ InOrder(l, Cells(Range(file)))
    /\ InOrder(l, Cells(Range(rows)))
    /\ InOrder(l, Cells(existing))

NothingDropped ==
  Resumed /\ pc # "idle" =>
    /\ Range(file) \subseteq existing \cup Range(rows)
    /\ pc \in {"simulate", "write", "replace"} => Cells(existing) \subseteq Cells(Range(rows))

ResumeInv == SweepInv /\ FileInOrder /\ NothingDropped

-----------------------------------------------------------------------------
(* Command lines, cells and rows.                                          *)

(* The command line of an active run is one of the campaign's.             *)
LEMMA CommandShape ==
  ASSUME TypeOK, NEW l \in campaign
  PROVE  /\ l \in UNION Campaigns /\ l # NoLaunch /\ l.force \in BOOLEAN
         /\ l.groups \in Seq(Workloads \X Policies) /\ IsInjective(l.groups)
         /\ Len(l.groups) \in Nat /\ DOMAIN l.groups = 1 .. Len(l.groups)
         /\ \A i \in 1 .. Len(l.groups) : l.groups[i] \in Workloads \X Policies
         /\ l.combos \in Seq(Combos) /\ IsInjective(l.combos)
         /\ Len(l.combos) \in Nat /\ DOMAIN l.combos = 1 .. Len(l.combos)
         /\ Range(l.combos) \subseteq Combos
         /\ l.settings \in {k.settings : k \in UNION Campaigns}
<1>1. l \in UNION Campaigns
  BY DEF TypeOK
<1>2. l # NoLaunch
  BY <1>1, LaunchAssumption
<1>3. /\ l.groups \in Seq(Workloads \X Policies) /\ IsInjective(l.groups)
      /\ l.combos \in Seq(Combos) /\ IsInjective(l.combos) /\ l.force \in BOOLEAN
  BY <1>1, CommandAssumption
<1>4. /\ Len(l.groups) \in Nat /\ DOMAIN l.groups = 1 .. Len(l.groups)
      /\ Len(l.combos) \in Nat /\ DOMAIN l.combos = 1 .. Len(l.combos)
  BY <1>3, LenProperties
<1>5. \A i \in 1 .. Len(l.groups) : l.groups[i] \in Workloads \X Policies
  BY <1>3, ElementOfSeq
<1>6. \A i \in 1 .. Len(l.combos) : l.combos[i] \in Combos
  BY <1>3, ElementOfSeq
<1>7. Range(l.combos) \subseteq Combos
  BY <1>4, <1>6 DEF Range
<1> QED BY <1>1, <1>2, <1>3, <1>4, <1>5, <1>7

(* The rows of two lists are those of the one and those of the other.      *)
LEMMA JoinRows ==
  ASSUME NEW T, NEW s \in Seq(T), NEW t \in Seq(T), NEW u, u = s \o t
  PROVE  /\ u \in Seq(T) /\ Range(u) = Range(s) \cup Range(t)
         /\ Cells(Range(u)) = Cells(Range(s)) \cup Cells(Range(t))
         /\ OneRowEach(s) /\ OneRowEach(t) /\ Cells(Range(s)) \cap Cells(Range(t)) = {}
              => OneRowEach(u)
<1>1. /\ u \in Seq(T) /\ Len(u) = Len(s) + Len(t)
      /\ Len(s) \in Nat /\ DOMAIN s = 1 .. Len(s)
      /\ Len(t) \in Nat /\ DOMAIN t = 1 .. Len(t)
      /\ DOMAIN u = 1 .. Len(s) + Len(t)
      /\ \A k \in 1 .. Len(s) + Len(t) : u[k] = IF k <= Len(s) THEN s[k] ELSE t[k - Len(s)]
  BY ConcatProperties, LenProperties
<1>2. \A k \in 1 .. Len(s) : k \in DOMAIN u /\ u[k] = s[k]
  BY <1>1
<1>3. \A k \in 1 .. Len(t) : k + Len(s) \in DOMAIN u /\ u[k + Len(s)] = t[k]
  BY <1>1
<1>4. \A k \in DOMAIN u : k \in 1 .. Len(s) \/ \E m \in 1 .. Len(t) : k = m + Len(s)
  <2> SUFFICES ASSUME NEW k \in DOMAIN u, k \notin 1 .. Len(s)
               PROVE  \E m \in 1 .. Len(t) : k = m + Len(s)
    OBVIOUS
  <2>1. k - Len(s) \in 1 .. Len(t) /\ k = (k - Len(s)) + Len(s)
    BY <1>1
  <2> QED BY <2>1
<1>5. Range(u) = Range(s) \cup Range(t)
  <2>1. ASSUME NEW k \in DOMAIN u PROVE u[k] \in Range(s) \cup Range(t)
    <3>1. CASE k \in 1 .. Len(s)
      BY <1>1, <1>2, <3>1 DEF Range
    <3>2. CASE \E m \in 1 .. Len(t) : k = m + Len(s)
      BY <1>1, <1>3, <3>2 DEF Range
    <3> QED BY <1>4, <3>1, <3>2
  <2>2. \A k \in DOMAIN s : s[k] \in Range(u)
    BY <1>1, <1>2 DEF Range
  <2>3. \A k \in DOMAIN t : t[k] \in Range(u)
    BY <1>1, <1>3 DEF Range
  <2>4. Range(u) \subseteq Range(s) \cup Range(t)
    BY <2>1 DEF Range
  <2>5. Range(s) \subseteq Range(u) /\ Range(t) \subseteq Range(u)
    BY <2>2, <2>3 DEF Range
  <2> QED BY <2>4, <2>5
<1>6. Cells(Range(u)) = Cells(Range(s)) \cup Cells(Range(t))
  BY <1>5 DEF Cells
<1>7. ASSUME OneRowEach(s), OneRowEach(t), Cells(Range(s)) \cap Cells(Range(t)) = {},
             NEW i \in DOMAIN u, NEW j \in DOMAIN u, u[i].cell = u[j].cell
      PROVE  i = j
  <2>1. \A a \in 1 .. Len(s), b \in 1 .. Len(t) : s[a].cell # t[b].cell
    <3>1. \A a \in 1 .. Len(s) : s[a].cell \in Cells(Range(s))
      BY <1>1 DEF Range, Cells
    <3>2. \A b \in 1 .. Len(t) : t[b].cell \in Cells(Range(t))
      BY <1>1 DEF Range, Cells
    <3> QED BY <1>7, <3>1, <3>2
  <2>2. CASE i \in 1 .. Len(s)
    <3>1. CASE j \in 1 .. Len(s)
      BY <1>1, <1>2, <1>7, <2>2, <3>1 DEF OneRowEach
    <3>2. CASE j \notin 1 .. Len(s)
      <4>1. PICK m \in 1 .. Len(t) : j = m + Len(s)
        BY <1>4, <3>2
      <4> QED BY <1>2, <1>3, <1>7, <2>1, <2>2, <4>1
    <3> QED BY <3>1, <3>2
  <2>3. CASE i \notin 1 .. Len(s)
    <3>1. PICK k \in 1 .. Len(t) : i = k + Len(s)
      BY <1>4, <2>3
    <3>2. CASE j \in 1 .. Len(s)
      BY <1>2, <1>3, <1>7, <2>1, <3>1, <3>2
    <3>3. CASE j \notin 1 .. Len(s)
      <4>1. PICK m \in 1 .. Len(t) : j = m + Len(s)
        BY <1>4, <3>3
      <4>2. k = m
        BY <1>1, <1>3, <1>7, <3>1, <4>1 DEF OneRowEach
      <4> QED BY <3>1, <4>1, <4>2
    <3> QED BY <3>2, <3>3
  <2> QED BY <2>2, <2>3
<1> QED BY <1>1, <1>5, <1>6, <1>7 DEF OneRowEach

(* Going on to the next group accounts for all cells of this one, none of  *)
(* which belongs to an earlier group.                                      *)
LEMMA CellsStep ==
  ASSUME TypeOK, Progress, pc # "idle", group <= Len(launch.groups)
  PROVE  /\ CellsBefore(group + 1) = CellsBefore(group) \cup {Current(c) : c \in Range(launch.combos)}
         /\ \A c : Current(c) \notin CellsBefore(group)
         /\ \A c, d : Current(c) = Current(d) => c = d
         /\ \A c \in Combos : Current(c) \in (Workloads \X Policies) \X Combos
<1>1. launch \in campaign
  BY DEF TypeOK
<1>2. /\ Len(launch.groups) \in Nat /\ DOMAIN launch.groups = 1 .. Len(launch.groups)
      /\ IsInjective(launch.groups)
      /\ \A i \in 1 .. Len(launch.groups) : launch.groups[i] \in Workloads \X Policies
  BY <1>1, CommandShape
<1>3. group \in DOMAIN launch.groups
  BY <1>2 DEF Progress
<1>4. \A k \in DOMAIN launch.groups : k < group + 1 <=> k < group \/ k = group
  BY <1>2, <1>3
<1>5. {k \in DOMAIN launch.groups : k < group + 1} = {k \in DOMAIN launch.groups : k < group} \cup {group}
  BY <1>3, <1>4
<1>6. CellsBefore(group + 1) = CellsBefore(group) \cup {Current(c) : c \in Range(launch.combos)}
  BY <1>5 DEF CellsBefore, Current
<1>7. ASSUME NEW c, Current(c) \in CellsBefore(group) PROVE FALSE
  <2>1. PICK i \in DOMAIN launch.groups, b \in Range(launch.combos) :
          i < group /\ Current(c) = <<launch.groups[i], b>>
    BY <1>7 DEF CellsBefore
  <2>2. launch.groups[i] = launch.groups[group]
    BY <2>1 DEF Current
  <2>3. i = group
    BY <1>2, <1>3, <2>2 DEF IsInjective
  <2> QED BY <1>2, <1>3, <2>1, <2>3
<1> QED BY <1>2, <1>3, <1>6, <1>7 DEF Current

(* Combos of the current group for which the file had a row.               *)
FoundCombos == {c \in Range(launch.combos) : Current(c) \in Cells(existing)}

(* Visiting a group takes over one found row for each combo that has one,  *)
(* and leaves the other combos to be simulated, in their order.            *)
LEMMA VisitRows ==
  ASSUME SweepInv, VisitGroup
  PROVE  /\ \E taken \in Seq(RowSet) :
              /\ rows' = rows \o taken
              /\ Range(taken) \subseteq existing
              /\ Cells(Range(taken)) = {Current(c) : c \in FoundCombos}
              /\ OneRowEach(taken)
         /\ needed' \in Seq(Combos) /\ IsInjective(needed')
         /\ Range(needed') = Range(launch.combos) \ FoundCombos
         /\ \A a, b \in Range(needed') : Before(launch.combos, a, b) => Before(needed', a, b)
<1> DEFINE have == Filtered(launch.combos, FoundCombos)
           todo == Filtered(launch.combos, Range(launch.combos) \ FoundCombos)
           taken == [i \in DOMAIN have |-> CHOOSE row \in existing : row.cell = Current(have[i])]
<1>1. pc = "group" /\ group <= Len(launch.groups) /\ launch \in campaign /\ TypeOK /\ Progress
  BY DEF SweepInv, VisitGroup, InGroup, TypeOK
<1>2. launch.combos \in Seq(Combos) /\ IsInjective(launch.combos)
  BY <1>1, CommandShape
<1>3. rows' = rows \o taken /\ needed' = todo
  BY DEF VisitGroup, Keep, FoundCombos
<1>4. /\ have \in Seq(Combos) /\ IsInjective(have)
      /\ Range(have) = Range(launch.combos) \cap FoundCombos
  BY <1>2, FilteredKeeps
<1>5. Range(have) = FoundCombos
  BY <1>4 DEF FoundCombos
<1>6. Len(have) \in Nat /\ DOMAIN have = 1 .. Len(have)
  BY <1>4, LenProperties
<1> HIDE DEF have
<1>7. ASSUME NEW i \in DOMAIN have
      PROVE  taken[i] \in existing /\ taken[i].cell = Current(have[i])
  <2>1. have[i] \in FoundCombos
    BY <1>5 DEF Range
  <2>2. \E row \in existing : row.cell = Current(have[i])
    BY <2>1 DEF FoundCombos, Cells
  <2> QED BY <2>2
<1>8. DOMAIN taken = DOMAIN have
  OBVIOUS
<1> HIDE DEF taken
<1>9. taken \in Seq(RowSet)
  <2>1. existing \subseteq RowSet
    BY <1>1 DEF TypeOK
  <2>2. taken \in [1 .. Len(have) -> RowSet]
    <3>1. taken = [i \in DOMAIN have |-> taken[i]]
      BY DEF taken
    <3> QED BY <1>6, <1>7, <2>1, <3>1
  <2> QED BY <1>6, <2>2, SeqDef
<1>10. Range(taken) \subseteq existing
  BY <1>7, <1>8 DEF Range
<1>11. Cells(Range(taken)) = {Current(c) : c \in FoundCombos}
  <2>1. Range(taken) = {taken[i] : i \in DOMAIN have}
    BY <1>8 DEF Range
  <2>2. Cells(Range(taken)) = {Current(have[i]) : i \in DOMAIN have}
    BY <1>7, <2>1 DEF Cells
  <2>3. FoundCombos = {have[i] : i \in DOMAIN have}
    BY <1>5 DEF Range
  <2> QED BY <2>2, <2>3
<1>12. OneRowEach(taken)
  <2> SUFFICES ASSUME NEW i \in DOMAIN have, NEW j \in DOMAIN have, taken[i].cell = taken[j].cell
               PROVE  i = j
    BY <1>8 DEF OneRowEach
  <2>1. have[i] = have[j]
    BY <1>1, <1>7, CellsStep
  <2> QED BY <1>4, <2>1 DEF IsInjective
<1>13. /\ todo \in Seq(Combos) /\ IsInjective(todo)
       /\ Range(todo) = Range(launch.combos) \ FoundCombos
  <2>1. Range(todo) = Range(launch.combos) \cap (Range(launch.combos) \ FoundCombos)
    BY <1>2, FilteredKeeps
  <2>2. todo \in Seq(Combos) /\ IsInjective(todo)
    BY <1>2, FilteredKeeps
  <2> QED BY <2>1, <2>2
<1>14. ASSUME NEW a \in Range(todo), NEW b \in Range(todo), Before(launch.combos, a, b)
       PROVE  Before(todo, a, b)
  <2>1. a \in Range(launch.combos) \ FoundCombos /\ b \in Range(launch.combos) \ FoundCombos
    BY <1>13
  <2> QED BY <1>2, <1>14, <2>1, FilteredOrder
<1> QED BY <1>3, <1>9, <1>10, <1>11, <1>12, <1>13, <1>14

-----------------------------------------------------------------------------
(* The invariant, step by step.                                            *)

(* A campaign begins without a checkpoint.                                 *)
LEMMA InitSweep == Init => SweepInv
<1> SUFFICES ASSUME Init PROVE SweepInv
  OBVIOUS
<1>1. <<>> \in Seq(RowSet) /\ OneRowEach(<<>>) /\ Range(<<>>) = {}
  BY EmptySeq DEF OneRowEach, Range
<1>2. TypeOK
  <2>1. contents \in [Workloads -> Versions \cup {Torn}]
    BY DEF Init
  <2> QED BY <1>1, <2>1 DEF Init, TypeOK
<1>3. pc = "idle" /\ existing = {} /\ file = <<>> /\ rows = <<>>
  BY DEF Init
<1>4. Progress /\ TodoInOrder /\ Accounted /\ LoadedHere
  BY <1>3 DEF Progress, TodoInOrder, Accounted, LoadedHere
<1>5. OneRow /\ Adopted /\ Flushed
  BY <1>1, <1>3 DEF OneRow, Adopted, Flushed
<1> QED BY <1>2, <1>4, <1>5 DEF SweepInv

(* A run starts with the rows of the file, unless it is told to ignore it. *)
LEMMA LaunchSweep ==
  ASSUME SweepInv, campaign' = campaign, NEW l \in campaign, Launch(l)
  PROVE  SweepInv'
<1>1. /\ launch' = l /\ existing' = Found(l) /\ rows' = <<>> /\ needed' = <<>>
      /\ group' = 1 /\ loaded' = Unread /\ pc' = "group" /\ pc = "idle"
      /\ file' = file /\ tmp' = tmp /\ contents' = contents
  BY DEF Launch, disk, inputs
<1>2. <<>> \in Seq(RowSet) /\ <<>> \in Seq(Combos) /\ OneRowEach(<<>>) /\ Range(<<>>) = {} /\ IsInjective(<<>>)
  BY EmptySeq DEF OneRowEach, Range, IsInjective
<1>3. TypeOK
  BY DEF SweepInv
<1>4. /\ l # NoLaunch /\ l.force \in BOOLEAN
      /\ Len(l.groups) \in Nat /\ DOMAIN l.groups = 1 .. Len(l.groups)
  BY <1>3, CommandShape
<1>5. Found(l) \subseteq Range(file) /\ (l.force => Found(l) = {})
  BY DEF Found
<1>6. Range(file) \subseteq RowSet
  <2>1. file \in Seq(RowSet)
    BY <1>3 DEF TypeOK
  <2>2. \A i \in DOMAIN file : file[i] \in RowSet
    BY <2>1, LenProperties, ElementOfSeq
  <2> QED BY <2>2 DEF Range
<1>7. TypeOK'
  <2>1. existing' \in SUBSET RowSet
    BY <1>1, <1>5, <1>6
  <2> QED BY <1>1, <1>2, <1>3, <1>4, <2>1 DEF TypeOK
<1>8. Progress'
  BY <1>1, <1>4 DEF Progress
<1>9. TodoInOrder'
  BY <1>1, <1>2 DEF TodoInOrder
<1>10. Accounted'
  <2>1. CellsBefore(group)' = {}
    BY <1>1, <1>4 DEF CellsBefore
  <2>2. Cells(Range(rows))' = {}
    BY <1>1, <1>2 DEF Cells
  <2>3. ~Midway'
    BY <1>1 DEF Midway
  <2> QED BY <2>1, <2>2, <2>3 DEF Accounted
<1>11. OneRow'
  <2>1. OneRowEach(file)
    BY DEF SweepInv, OneRow
  <2>2. \A r, e \in Range(file) : r.cell = e.cell => r = e
    BY <2>1 DEF OneRowEach, Range
  <2> QED BY <1>1, <1>2, <1>5, <2>1, <2>2 DEF OneRow
<1>12. Adopted'
  BY <1>1, <1>2, <1>5 DEF Adopted
<1>13. Flushed' /\ LoadedHere'
  BY <1>1 DEF Flushed, LoadedHere, Midway
<1> QED BY <1>7, <1>8, <1>9, <1>10, <1>11, <1>12, <1>13 DEF SweepInv

(* Only the file survives the end of a run, however it ends.               *)
LEMMA EndSweep ==
  ASSUME SweepInv, campaign' = campaign, Exit \/ Crash
  PROVE  SweepInv'
<1>1. /\ launch' = NoLaunch /\ existing' = {} /\ rows' = <<>> /\ loaded' = Unread
      /\ pc' = "idle" /\ file' = file /\ tmp' = tmp /\ contents' = contents
  BY DEF Exit, Crash, disk, inputs
<1>2. <<>> \in Seq(RowSet) /\ OneRowEach(<<>>) /\ Range(<<>>) = {}
  BY EmptySeq DEF OneRowEach, Range
<1>3. TypeOK'
  BY <1>1, <1>2 DEF SweepInv, TypeOK
<1>4. Progress' /\ TodoInOrder' /\ Accounted' /\ LoadedHere'
  BY <1>1 DEF Progress, TodoInOrder, Accounted, LoadedHere
<1>5. OneRow' /\ Adopted' /\ Flushed'
  BY <1>1, <1>2 DEF SweepInv, OneRow, Adopted, Flushed
<1> QED BY <1>3, <1>4, <1>5 DEF SweepInv

(* Rows taken over from the file and combos left to simulate make up the   *)
(* group that is visited.                                                  *)
LEMMA VisitSweep ==
  ASSUME SweepInv, campaign' = campaign, VisitGroup
  PROVE  SweepInv'
<1>1. /\ pc = "group" /\ group <= Len(launch.groups) /\ launch \in campaign
      /\ TypeOK /\ Progress /\ Loaded /\ ~Midway /\ launch # NoLaunch
  BY DEF SweepInv, VisitGroup, InGroup, TypeOK, Midway
<1>2. /\ launch' = launch /\ existing' = existing /\ loaded' = loaded
      /\ file' = file /\ tmp' = tmp /\ contents' = contents
  BY DEF VisitGroup, disk, inputs
<1>3. /\ needed' = <<>> => group' = group + 1 /\ pc' = "group"
      /\ needed' # <<>> => group' = group /\ pc' = "simulate"
  BY DEF VisitGroup
<1>4. PICK taken \in Seq(RowSet) :
        /\ rows' = rows \o taken
        /\ Range(taken) \subseteq existing
        /\ Cells(Range(taken)) = {Current(c) : c \in FoundCombos}
        /\ OneRowEach(taken)
  BY VisitRows
<1>5. /\ needed' \in Seq(Combos) /\ IsInjective(needed')
      /\ Range(needed') = Range(launch.combos) \ FoundCombos
      /\ \A a, b \in Range(needed') : Before(launch.combos, a, b) => Before(needed', a, b)
  BY VisitRows
<1>6. rows \in Seq(RowSet) /\ OneRowEach(rows) /\ Cells(Range(rows)) = CellsBefore(group)
  BY <1>1 DEF SweepInv, TypeOK, OneRow, Accounted
<1>7. Cells(Range(rows)) \cap Cells(Range(taken)) = {}
  BY <1>1, <1>4, <1>6, CellsStep
<1>8. /\ rows' \in Seq(RowSet) /\ OneRowEach(rows')
      /\ Range(rows') = Range(rows) \cup Range(taken)
      /\ Cells(Range(rows')) = CellsBefore(group) \cup {Current(c) : c \in FoundCombos}
  <2>1. /\ rows' \in Seq(RowSet) /\ Range(rows') = Range(rows) \cup Range(taken)
        /\ Cells(Range(rows')) = Cells(Range(rows)) \cup Cells(Range(taken))
        /\ OneRowEach(rows) /\ OneRowEach(taken) /\ Cells(Range(rows)) \cap Cells(Range(taken)) = {}
             => OneRowEach(rows')
    <3>1. rows' = rows \o taken /\ taken \in Seq(RowSet) /\ rows \in Seq(RowSet)
      BY <1>4, <1>6
    <3>2. \A s, t \in Seq(RowSet) : \A u : u = s \o t =>
            /\ u \in Seq(RowSet) /\ Range(u) = Range(s) \cup Range(t)
            /\ Cells(Range(u)) = Cells(Range(s)) \cup Cells(Range(t))
            /\ OneRowEach(s) /\ OneRowEach(t) /\ Cells(Range(s)) \cap Cells(Range(t)) = {}
                 => OneRowEach(u)
      BY JoinRows
    <3> QED BY <3>1, <3>2
  <2> QED BY <1>4, <1>6, <1>7, <2>1
<1>9. Len(launch.groups) \in Nat /\ group \in 1 .. Len(launch.groups)
  <2>1. Len(launch.groups) \in Nat
    BY <1>1, CommandShape
  <2> QED BY <1>1, <2>1 DEF Progress
<1>10. TypeOK'
  BY <1>1, <1>2, <1>3, <1>8 DEF TypeOK
<1>11. Progress'
  <2>1. CASE needed' = <<>>
    BY <1>2, <1>3, <1>9, <2>1 DEF Progress
  <2>2. CASE needed' # <<>>
    BY <1>2, <1>3, <1>9, <2>2 DEF Progress
  <2> QED BY <2>1, <2>2
<1>12. TodoInOrder'
  <2>1. ASSUME NEW c \in Range(needed') PROVE Current(c)' \notin Cells(existing')
    <3>1. needed' # <<>>
      BY <2>1 DEF Range
    <3>2. Current(c)' = Current(c)
      BY <1>2, <1>3, <3>1 DEF Current
    <3>3. Current(c) \notin Cells(existing)
      BY <1>5 DEF FoundCombos
    <3> QED BY <1>2, <3>2, <3>3
  <2> QED BY <1>2, <1>5, <2>1 DEF TodoInOrder
<1>13. Accounted'
  <2>1. CASE needed' = <<>>
    <3>1. Range(needed') = {} /\ FoundCombos \subseteq Range(launch.combos)
      BY <2>1 DEF Range, FoundCombos
    <3>2. FoundCombos = Range(launch.combos)
      BY <1>5, <3>1
    <3>3. Cells(Range(rows')) = CellsBefore(group + 1)
      BY <1>1, <1>8, <3>2, CellsStep
    <3>4. CellsBefore(group)' = CellsBefore(group + 1) /\ ~Midway'
      BY <1>2, <1>3, <2>1 DEF CellsBefore, Midway
    <3>5. Cells(Range(rows))' = Cells(Range(rows'))
      BY DEF Cells
    <3> QED BY <3>3, <3>4, <3>5 DEF Accounted
  <2>2. CASE needed' # <<>>
    <3>1. Range(launch.combos) \ Range(needed') = FoundCombos
      BY <1>5 DEF FoundCombos
    <3>2. CellsBefore(group)' = CellsBefore(group) /\ Midway' /\ \A c : Current(c)' = Current(c)
      BY <1>2, <1>3, <2>2 DEF CellsBefore, Midway, Current
    <3>3. Cells(Range(rows))' = Cells(Range(rows'))
      BY DEF Cells
    <3> QED BY <1>2, <1>8, <3>1, <3>2, <3>3 DEF Accounted
  <2> QED BY <2>1, <2>2
<1>14. OneRow'
  BY <1>2, <1>8 DEF SweepInv, OneRow
<1>15. Adopted'
  <2>1. ASSUME NEW r \in Range(rows'), NEW e \in existing, r.cell = e.cell PROVE r = e
    <3>1. CASE r \in Range(rows)
      BY <2>1, <3>1 DEF SweepInv, Adopted
    <3>2. CASE r \in Range(taken)
      BY <1>4, <2>1, <3>2 DEF SweepInv, OneRow
    <3> QED BY <1>8, <3>1, <3>2
  <2>2. launch.force => existing = {}
    BY <1>1 DEF SweepInv, Adopted
  <2> QED BY <1>2, <2>1, <2>2 DEF Adopted
<1>16. Flushed'
  BY <1>3 DEF Flushed
<1>17. LoadedHere'
  <2>1. loaded # Unread /\ loaded[1] = launch.groups[group][1]
    BY <1>1 DEF Loaded, Workload
  <2>2. CASE needed' = <<>>
    <3>1. group' - 1 = group
      BY <1>3, <1>9, <2>2
    <3> QED BY <1>2, <1>3, <2>1, <2>2, <3>1 DEF LoadedHere, Midway
  <2>3. CASE needed' # <<>>
    <3>1. Loaded'
      BY <1>2, <1>3, <2>1, <2>3 DEF Loaded, Workload
    <3> QED BY <1>3, <2>3, <3>1 DEF LoadedHere
  <2> QED BY <2>2, <2>3
<1> QED BY <1>10, <1>11, <1>12, <1>13, <1>14, <1>15, <1>16, <1>17 DEF SweepInv

(* A simulated cell is new to the rows in memory and to the file.          *)
LEMMA SimulateRow ==
  ASSUME SweepInv, Simulate
  PROVE  \E h \in Combos :
           /\ h = Head(needed) /\ h \in Range(launch.combos) /\ h \in Range(needed)
           /\ rows' = Append(rows, Row(Current(h)))
           /\ Row(Current(h)) \in RowSet /\ Row(Current(h)).cell = Current(h)
           /\ Current(h) \notin Cells(existing) /\ Current(h) \notin Cells(Range(rows))
           /\ needed' \in Seq(Combos) /\ IsInjective(needed')
           /\ Range(needed') = Range(needed) \ {h}
           /\ \A a, b \in Range(needed') : Before(needed, a, b) => Before(needed', a, b)
           /\ \A a : ~Before(needed, a, h)
           /\ Cells(Range(rows')) = Cells(Range(rows)) \cup {Current(h)}
           /\ Range(rows') = Range(rows) \cup {Row(Current(h))}
           /\ rows' \in Seq(RowSet) /\ OneRowEach(rows')
<1>1. /\ pc = "simulate" /\ group <= Len(launch.groups) /\ launch \in campaign
      /\ TypeOK /\ Progress /\ Loaded /\ Midway /\ needed # <<>>
      /\ needed \in Seq(Combos) /\ IsInjective(needed)
      /\ Range(needed) \subseteq Range(launch.combos)
      /\ \A c \in Range(needed) : Current(c) \notin Cells(existing)
      /\ rows \in Seq(RowSet) /\ OneRowEach(rows)
  BY DEF SweepInv, Simulate, TypeOK, Midway, Progress, TodoInOrder, LoadedHere, OneRow
<1>2. /\ Tail(needed) \in Seq(Combos) /\ IsInjective(Tail(needed))
      /\ Head(needed) \in Combos /\ Head(needed) \in Range(needed)
      /\ Range(Tail(needed)) = Range(needed) \ {Head(needed)}
      /\ \A a, b \in Range(Tail(needed)) : Before(needed, a, b) => Before(Tail(needed), a, b)
      /\ \A a : ~Before(needed, a, Head(needed))
  BY <1>1, TailDistinct
<1>3. PICK h \in Combos : h = Head(needed)
  BY <1>2
<1>4. needed' = Tail(needed) /\ rows' = Append(rows, Row(Current(h)))
  BY <1>3 DEF Simulate
<1>5. /\ Row(Current(h)).cell = Current(h)
      /\ Row(Current(h)).version = loaded[2] /\ Row(Current(h)).settings = launch.settings
  BY DEF Row
<1>6. Row(Current(h)) \in RowSet
  <2>1. Current(h) \in (Workloads \X Policies) \X Combos
    BY <1>1, CellsStep
  <2>2. loaded \in Workloads \X Versions
    BY <1>1 DEF TypeOK, Loaded
  <2>3. loaded[2] \in Versions
    BY <2>2
  <2>4. launch.settings \in {l.settings : l \in UNION Campaigns}
    BY <1>1, CommandShape
  <2> QED BY <2>1, <2>3, <2>4 DEF Row, RowSet
<1>7. Current(h) \notin Cells(existing)
  BY <1>1, <1>2, <1>3
<1>8. Current(h) \notin Cells(Range(rows))
  <2>1. Cells(Range(rows)) = CellsBefore(group) \cup {Current(c) : c \in Range(launch.combos) \ Range(needed)}
    BY <1>1 DEF SweepInv, Accounted
  <2>2. Current(h) \notin CellsBefore(group) /\ \A c : Current(c) = Current(h) => c = h
    BY <1>1, CellsStep
  <2> QED BY <1>2, <1>3, <2>1, <2>2
<1> DEFINE new == Row(Current(h))
<1>9. /\ rows' \in Seq(RowSet)
      /\ Len(rows) \in Nat /\ DOMAIN rows = 1 .. Len(rows)
      /\ DOMAIN rows' = 1 .. Len(rows) + 1
      /\ \A i \in 1 .. Len(rows) : rows'[i] = rows[i]
      /\ rows'[Len(rows) + 1] = new
  <2>1. rows \in Seq(RowSet) /\ new \in RowSet /\ rows' = Append(rows, new)
    BY <1>1, <1>4, <1>6
  <2>2. DOMAIN rows' = 1 .. Len(rows')
    BY <2>1, AppendProperties, LenProperties
  <2> QED BY <2>1, <2>2, AppendProperties, LenProperties
<1> HIDE DEF new
<1>10. new.cell = Current(h)
  BY <1>5 DEF new
<1>11. \A i \in 1 .. Len(rows) + 1 : i \in 1 .. Len(rows) \/ i = Len(rows) + 1
  BY <1>9
<1>12. Range(rows') = Range(rows) \cup {new}
  <2>1. \A i \in 1 .. Len(rows) : i \in DOMAIN rows' /\ Len(rows) + 1 \in DOMAIN rows'
    BY <1>9
  <2>2. Len(rows) + 1 \in DOMAIN rows'
    BY <1>9
  <2>3. Range(rows') \subseteq Range(rows) \cup {new}
    BY <1>9, <1>11 DEF Range
  <2>4. Range(rows) \subseteq Range(rows')
    BY <1>9, <2>1 DEF Range
  <2>5. new \in Range(rows')
    BY <1>9, <2>2 DEF Range
  <2> QED BY <2>3, <2>4, <2>5
<1>13. Cells(Range(rows')) = Cells(Range(rows)) \cup {Current(h)}
  BY <1>10, <1>12 DEF Cells
<1>14. OneRowEach(rows')
  <2>1. \A i \in 1 .. Len(rows) : rows[i].cell # new.cell
    BY <1>8, <1>9, <1>10 DEF Cells, Range
  <2>2. \A i, j \in 1 .. Len(rows) : rows[i].cell = rows[j].cell => i = j
    BY <1>1, <1>9 DEF OneRowEach
  <2> QED BY <1>9, <1>11, <2>1, <2>2 DEF OneRowEach
<1> QED BY <1>1, <1>2, <1>3, <1>4, <1>5, <1>6, <1>7, <1>8, <1>9, <1>12, <1>13, <1>14 DEF new

(* One more cell is accounted for once it is simulated.                    *)
LEMMA SimulateSweep ==
  ASSUME SweepInv, campaign' = campaign, Simulate
  PROVE  SweepInv'
<1>1. /\ pc = "simulate" /\ group \in 1 .. Len(launch.groups) /\ launch \in campaign
      /\ TypeOK /\ Loaded /\ Midway /\ launch # NoLaunch
  BY DEF SweepInv, Simulate, TypeOK, Midway, Progress, LoadedHere
<1>2. /\ launch' = launch /\ existing' = existing /\ loaded' = loaded /\ group' = group
      /\ file' = file /\ tmp' = tmp /\ contents' = contents /\ pc' = "write"
  BY DEF Simulate, disk, inputs
<1>3. PICK h \in Combos :
        /\ h \in Range(launch.combos) /\ h \in Range(needed)
        /\ Row(Current(h)).cell = Current(h)
        /\ Current(h) \notin Cells(existing)
        /\ needed' \in Seq(Combos) /\ IsInjective(needed')
        /\ Range(needed') = Range(needed) \ {h}
        /\ \A a, b \in Range(needed') : Before(needed, a, b) => Before(needed', a, b)
        /\ Cells(Range(rows')) = Cells(Range(rows)) \cup {Current(h)}
        /\ Range(rows') = Range(rows) \cup {Row(Current(h))}
        /\ rows' \in Seq(RowSet) /\ OneRowEach(rows')
  BY SimulateRow
<1>4. /\ Midway' /\ \A c : Current(c)' = Current(c)
      /\ CellsBefore(group)' = CellsBefore(group)
  BY <1>1, <1>2 DEF Midway, Current, CellsBefore
<1>5. TypeOK'
  BY <1>1, <1>2, <1>3 DEF TypeOK
<1>6. Progress'
  BY <1>1, <1>2 DEF Progress
<1>7. TodoInOrder'
  <2>1. /\ Range(needed) \subseteq Range(launch.combos)
        /\ \A a, b \in Range(needed) : Before(launch.combos, a, b) => Before(needed, a, b)
        /\ \A c \in Range(needed) : Current(c) \notin Cells(existing)
    BY <1>1 DEF SweepInv, TodoInOrder
  <2>2. \A a, b \in Range(needed') : Before(launch.combos, a, b) => Before(needed', a, b)
    BY <1>3, <2>1
  <2>3. \A c \in Range(needed') : Current(c)' \notin Cells(existing)
    BY <1>3, <1>4, <2>1
  <2>4. Range(needed') \subseteq Range(launch.combos)
    BY <1>3, <2>1
  <2> QED BY <1>2, <1>3, <2>2, <2>3, <2>4 DEF TodoInOrder
<1>8. Accounted'
  <2>1. Cells(Range(rows)) = CellsBefore(group) \cup {Current(c) : c \in Range(launch.combos) \ Range(needed)}
    BY <1>1 DEF SweepInv, Accounted
  <2>2. Range(launch.combos) \ Range(needed') = (Range(launch.combos) \ Range(needed)) \cup {h}
    BY <1>3
  <2>3. Cells(Range(rows')) = CellsBefore(group) \cup {Current(c) : c \in Range(launch.combos) \ Range(needed')}
    BY <1>3, <2>1, <2>2
  <2>4. Cells(Range(rows))' = Cells(Range(rows'))
    BY DEF Cells
  <2> QED BY <1>2, <1>4, <2>3, <2>4 DEF Accounted
<1>9. OneRow'
  BY <1>2, <1>3 DEF SweepInv, OneRow
<1>10. Adopted'
  <2>1. \A e \in existing : e.cell # Current(h)
    BY <1>3 DEF Cells
  <2>2. \A r \in Range(rows'), e \in existing : r.cell = e.cell => r = e
    BY <1>3, <2>1 DEF SweepInv, Adopted
  <2> QED BY <1>1, <1>2, <2>2 DEF SweepInv, Adopted
<1>11. Flushed' /\ LoadedHere'
  <2>1. Loaded'
    BY <1>1, <1>2 DEF Loaded, Workload
  <2> QED BY <1>2, <2>1 DEF Flushed, LoadedHere
<1> QED BY <1>5, <1>6, <1>7, <1>8, <1>9, <1>10, <1>11 DEF SweepInv

(* The new file holds the rows in memory; a group without combos left to   *)
(* simulate is done.                                                       *)
LEMMA ReplaceSweep ==
  ASSUME SweepInv, campaign' = campaign, Replace
  PROVE  SweepInv'
<1>1. /\ pc = "replace" /\ group \in 1 .. Len(launch.groups) + 1 /\ launch \in campaign
      /\ TypeOK /\ Progress /\ launch # NoLaunch /\ tmp = rows
  BY DEF SweepInv, Replace, TypeOK, Progress, Flushed
<1>2. /\ launch' = launch /\ existing' = existing /\ loaded' = loaded /\ rows' = rows
      /\ needed' = needed /\ file' = rows /\ tmp' = tmp /\ contents' = contents
  BY <1>1 DEF Replace, inputs
<1>3. Len(launch.groups) \in Nat
  BY <1>1, CommandShape
<1>4. \/ /\ group > Len(launch.groups) /\ pc' = "end" /\ group' = group
      \/ /\ group <= Len(launch.groups) /\ needed # <<>> /\ pc' = "simulate" /\ group' = group
      \/ /\ group <= Len(launch.groups) /\ needed = <<>> /\ pc' = "group" /\ group' = group + 1
  BY <1>1, <1>3 DEF Replace
<1>5. TypeOK'
  BY <1>1, <1>2, <1>4 DEF TypeOK
<1>6. Progress'
  BY <1>1, <1>2, <1>3, <1>4 DEF Progress
<1>7. OneRow' /\ Adopted' /\ Flushed'
  BY <1>1, <1>2, <1>4 DEF SweepInv, OneRow, Adopted, Flushed
<1>8. TodoInOrder'
  <2>1. /\ needed \in Seq(Combos) /\ IsInjective(needed)
        /\ Range(needed) \subseteq Range(launch.combos)
        /\ \A a, b \in Range(needed) : Before(launch.combos, a, b) => Before(needed, a, b)
        /\ \A c \in Range(needed) : Current(c) \notin Cells(existing)
    BY <1>1 DEF SweepInv, TodoInOrder
  <2>2. ASSUME NEW c \in Range(needed) PROVE Current(c)' = Current(c)
    <3>1. needed # <<>>
      BY <2>2 DEF Range
    <3>2. group' = group
      BY <1>4, <3>1
    <3> QED BY <1>2, <3>2 DEF Current
  <2>3. \A c \in Range(needed) : Current(c)' \notin Cells(existing)
    BY <2>1, <2>2
  <2> QED BY <1>2, <2>1, <2>3 DEF TodoInOrder
<1>9. Accounted'
  <2>1. Cells(Range(rows)) = CellsBefore(group) \cup
          {Current(c) : c \in IF Midway THEN Range(launch.combos) \ Range(needed) ELSE {}}
    BY <1>1 DEF SweepInv, Accounted
  <2>2. Cells(Range(rows))' = Cells(Range(rows))
    BY <1>2
  <2>3. CASE group > Len(launch.groups)
    <3>1. ~Midway /\ ~Midway' /\ CellsBefore(group)' = CellsBefore(group)
      BY <1>1, <1>2, <1>3, <1>4, <2>3 DEF Midway, CellsBefore
    <3> QED BY <2>1, <2>2, <3>1 DEF Accounted
  <2>4. CASE group <= Len(launch.groups) /\ needed # <<>>
    <3>1. /\ Midway /\ Midway' /\ CellsBefore(group)' = CellsBefore(group)
          /\ \A c : Current(c)' = Current(c)
      BY <1>1, <1>2, <1>3, <1>4, <2>4 DEF Midway, CellsBefore, Current
    <3> QED BY <1>2, <2>1, <2>2, <3>1 DEF Accounted
  <2>5. CASE group <= Len(launch.groups) /\ needed = <<>>
    <3>1. Midway /\ ~Midway' /\ CellsBefore(group)' = CellsBefore(group + 1)
      BY <1>1, <1>2, <1>3, <1>4, <2>5 DEF Midway, CellsBefore
    <3>2. Range(launch.combos) \ Range(needed) = Range(launch.combos)
      BY <2>5 DEF Range
    <3>3. Cells(Range(rows)) = CellsBefore(group + 1)
      BY <1>1, <2>1, <2>5, <3>1, <3>2, CellsStep
    <3> QED BY <2>2, <3>1, <3>3 DEF Accounted
  <2> QED BY <1>1, <1>3, <2>3, <2>4, <2>5
<1>10. LoadedHere'
  <2>1. CASE group <= Len(launch.groups)
    <3>1. loaded # Unread /\ loaded[1] = launch.groups[group][1]
      BY <1>1, <2>1 DEF SweepInv, LoadedHere, Midway, Loaded, Workload
    <3>2. CASE needed # <<>>
      <4>1. Loaded'
        BY <1>2, <1>4, <2>1, <3>1, <3>2 DEF Loaded, Workload
      <4> QED BY <1>1, <1>3, <1>4, <2>1, <3>2, <4>1 DEF LoadedHere
    <3>3. CASE needed = <<>>
      <4>1. pc' = "group" /\ group' = group + 1 /\ group' - 1 = group
        BY <1>1, <1>3, <1>4, <2>1, <3>3
      <4> QED BY <1>2, <3>1, <4>1 DEF LoadedHere, Midway
    <3> QED BY <3>2, <3>3
  <2>2. CASE group > Len(launch.groups)
    <3>1. pc' = "end"
      BY <1>1, <1>3, <1>4, <2>2
    <3> QED BY <3>1 DEF LoadedHere, Midway
  <2> QED BY <1>1, <1>3, <2>1, <2>2
<1> QED BY <1>5, <1>6, <1>7, <1>8, <1>9, <1>10 DEF SweepInv

(* Loading a workload, writing the file aside and writing workload files   *)
(* change neither the rows nor what is accounted for.                      *)
LEMMA QuietSweep ==
  ASSUME SweepInv, campaign' = campaign,
         \/ Load \/ Write \/ Conclude \/ (\E w \in Workloads : OpenWorkload(w) \/ CloseWorkload(w))
         \/ UNCHANGED vars
  PROVE  SweepInv'
<1>1. TypeOK /\ (pc # "idle" => launch \in campaign /\ Len(launch.groups) \in Nat)
  <2>1. TypeOK
    BY DEF SweepInv
  <2>2. pc # "idle" => launch \in campaign
    BY <2>1 DEF TypeOK
  <2> QED BY <2>1, <2>2, CommandShape
<1>2. UNCHANGED <<file, launch, existing, rows, group, needed>>
  BY DEF Load, Write, Conclude, OpenWorkload, CloseWorkload, vars, disk, inputs
<1>3. \/ pc' = pc
      \/ pc = "write" /\ pc' = "replace" /\ tmp' = rows
      \/ pc = "group" /\ pc' = "write" /\ group > Len(launch.groups)
  BY DEF Load, Write, Conclude, OpenWorkload, CloseWorkload, vars
<1>4. \/ loaded' = loaded
      \/ /\ Load
         /\ loaded' = <<Workload, contents[Workload]>> /\ contents[Workload] # Torn
  BY DEF Load, Write, Conclude, OpenWorkload, CloseWorkload, vars, inputs
<1>5. tmp' \in Seq(RowSet)
  BY <1>1 DEF TypeOK, Load, Write, Conclude, OpenWorkload, CloseWorkload, vars, disk, inputs
<1>6. contents' \in [Workloads -> Versions \cup {Torn}]
  <2>1. contents \in [Workloads -> Versions \cup {Torn}]
    BY <1>1 DEF TypeOK
  <2>2. CASE \E w \in Workloads : OpenWorkload(w) \/ CloseWorkload(w)
    BY <2>1, <2>2 DEF OpenWorkload, CloseWorkload
  <2>3. CASE Load \/ Write \/ Conclude \/ UNCHANGED vars
    BY <2>1, <2>3 DEF Load, Write, Conclude, vars, inputs
  <2> QED BY <2>2, <2>3
<1>7. /\ loaded' \in (Workloads \X Versions) \cup {Unread}
      /\ loaded' = loaded \/ loaded' # Unread
  <2>1. CASE loaded' = loaded
    BY <1>1, <2>1 DEF TypeOK
  <2>2. CASE Load
    <3>1. /\ pc = "group" /\ group <= Len(launch.groups)
          /\ loaded' = <<Workload, contents[Workload]>> /\ contents[Workload] # Torn
      BY <2>2 DEF Load, InGroup
    <3>2. group \in 1 .. Len(launch.groups)
      BY <1>1, <3>1 DEF SweepInv, Progress
    <3>3. launch.groups[group] \in Workloads \X Policies
      BY <1>1, <3>1, <3>2, CommandShape
    <3>4. Workload \in Workloads
      BY <3>3 DEF Workload
    <3>5. contents[Workload] \in Versions
      BY <1>1, <3>1, <3>4 DEF TypeOK
    <3> QED BY <3>1, <3>4, <3>5, VersionAssumption
  <2> QED BY <1>4, <2>1, <2>2
<1>8. TypeOK'
  <2>1. (launch' = NoLaunch) = (pc' = "idle")
    BY <1>1, <1>2, <1>3 DEF TypeOK
  <2>2. pc' \in {"idle", "group", "simulate", "write", "replace", "end"}
    BY <1>1, <1>3 DEF TypeOK
  <2> QED BY <1>1, <1>2, <1>5, <1>6, <1>7, <2>1, <2>2 DEF TypeOK
<1>9. Progress'
  BY <1>1, <1>2, <1>3 DEF SweepInv, Progress
<1>10. \A c : Current(c)' = Current(c)
  BY <1>2 DEF Current
<1>11. TodoInOrder'
  BY <1>2, <1>3, <1>10 DEF SweepInv, TodoInOrder
<1>12. pc # "idle" => (Midway' <=> Midway)
  BY <1>1, <1>2, <1>3 DEF Midway, SweepInv, Progress
<1>13. Accounted'
  <2>1. CellsBefore(group)' = CellsBefore(group) /\ Cells(Range(rows))' = Cells(Range(rows))
    BY <1>2 DEF CellsBefore
  <2> QED BY <1>2, <1>3, <1>10, <1>12, <2>1 DEF SweepInv, Accounted
<1>14. OneRow' /\ Adopted'
  BY <1>2, <1>3 DEF SweepInv, OneRow, Adopted
<1>15. Flushed'
  <2>1. CASE tmp' = tmp
    BY <1>2, <1>3, <2>1 DEF SweepInv, Flushed
  <2>2. CASE tmp' = rows
    BY <1>2, <1>3, <2>2 DEF SweepInv, Flushed
  <2>3. tmp' = tmp \/ tmp' = rows
    BY DEF Load, Write, Conclude, OpenWorkload, CloseWorkload, vars, disk, inputs
  <2> QED BY <2>1, <2>2, <2>3
<1>16. LoadedHere'
  <2>1. CASE loaded' = loaded
    <3>1. Loaded' <=> Loaded
      BY <1>2, <2>1 DEF Loaded, Workload
    <3> QED BY <1>2, <1>3, <1>12, <2>1, <3>1 DEF SweepInv, LoadedHere
  <2>2. CASE Load /\ loaded' # Unread
    <3>1. pc = "group" /\ pc' = "group" /\ group <= Len(launch.groups)
          /\ loaded' = <<Workload, contents[Workload]>> /\ contents[Workload] # Torn
      BY <2>2 DEF Load, InGroup
    <3>2. loaded' # Unread => Loaded'
      BY <1>2, <3>1 DEF Loaded, Workload
    <3> QED BY <1>2, <2>2, <3>1, <3>2 DEF LoadedHere, Midway
  <2> QED BY <1>4, <1>7, <2>1, <2>2
<1> QED BY <1>8, <1>9, <1>11, <1>13, <1>14, <1>15, <1>16 DEF SweepInv

(* Every step keeps the invariant.                                         *)
LEMMA NextSweep == SweepInv /\ [Next]_vars => SweepInv'
<1> SUFFICES ASSUME SweepInv, [Next]_vars PROVE SweepInv'
  OBVIOUS
<1>1. campaign' = campaign
  BY DEF Next, vars
<1>2. CASE \E l \in campaign : Launch(l)
  BY <1>1, <1>2, LaunchSweep
<1>3. CASE VisitGroup
  BY <1>1, <1>3, VisitSweep
<1>4. CASE Simulate
  BY <1>1, <1>4, SimulateSweep
<1>5. CASE Replace
  BY <1>1, <1>5, ReplaceSweep
<1>6. CASE Exit \/ Crash
  BY <1>1, <1>6, EndSweep
<1>7. CASE \/ Load \/ Write \/ Conclude \/ (\E w \in Workloads : OpenWorkload(w) \/ CloseWorkload(w))
           \/ UNCHANGED vars
  BY <1>1, <1>7, QuietSweep
<1> QED BY <1>2, <1>3, <1>4, <1>5, <1>6, <1>7 DEF Next, Work

(* The invariant holds of every behaviour.                                 *)
LEMMA SpecSweep == Spec => []SweepInv
<1> QED BY InitSweep, NextSweep, PTL DEF Spec

(* The cells of all groups are the cells of the command line.              *)
LEMMA AllCells ==
  ASSUME TypeOK, pc # "idle", group = Len(launch.groups) + 1
  PROVE  CellsBefore(group) = Selected(launch)
<1>1. launch \in campaign
  BY DEF TypeOK
<1>2. Len(launch.groups) \in Nat /\ DOMAIN launch.groups = 1 .. Len(launch.groups)
  BY <1>1, CommandShape
<1>3. {k \in DOMAIN launch.groups : k < group} = DOMAIN launch.groups
  BY <1>2
<1>4. CellsBefore(group) = {<<launch.groups[i], c>> : i \in DOMAIN launch.groups, c \in Range(launch.combos)}
  BY <1>3 DEF CellsBefore
<1> QED BY <1>4 DEF Selected, Range

(* A run that ends leaves one row for each of its cells, for every command *)
(* line and whatever crashes and launches came before.                     *)
THEOREM SweepCompletes == Spec => []EndedRunIsComplete
<1>1. ASSUME SweepInv, pc = "end"
      PROVE  Cells(Range(file)) = Selected(launch) /\ Len(file) = Cardinality(Selected(launch))
  <2>1. TypeOK /\ file = rows /\ group = Len(launch.groups) + 1 /\ ~Midway
    <3>1. group = Len(launch.groups) + 1 /\ ~Midway
      BY <1>1 DEF SweepInv, Progress, Midway
    <3> QED BY <1>1, <3>1 DEF SweepInv, Flushed
  <2>2. Cells(Range(file)) = Selected(launch)
    BY <1>1, <2>1, AllCells DEF SweepInv, Accounted
  <2> DEFINE cells == [i \in 1 .. Len(file) |-> file[i].cell]
  <2>3. Len(file) \in Nat /\ DOMAIN file = 1 .. Len(file)
    BY <2>1, LenProperties DEF TypeOK
  <2>4. cells \in Seq(Cells(Range(file))) /\ Len(cells) = Len(file)
    <3>1. \A i \in 1 .. Len(file) : file[i].cell \in Cells(Range(file))
      BY <2>3 DEF Cells, Range
    <3>2. cells \in [1 .. Len(file) -> Cells(Range(file))]
      BY <3>1
    <3> QED BY <2>3, <3>2, IsASeq, LenProperties, SeqDef
  <2>5. IsInjective(cells)
    BY <1>1, <2>3 DEF SweepInv, OneRow, OneRowEach, IsInjective
  <2>6. Range(cells) = Cells(Range(file))
    BY <2>3 DEF Cells, Range
  <2> HIDE DEF cells
  <2>7. Cardinality(Cells(Range(file))) = Len(file)
    BY <2>4, <2>5, <2>6, DistinctLength
  <2> QED BY <2>2, <2>7
<1>2. SweepInv => EndedRunIsComplete
  BY <1>1 DEF EndedRunIsComplete
<1> QED BY <1>2, SpecSweep, PTL

-----------------------------------------------------------------------------
(* What the policies of a sweep are compared on.                           *)

(* A workload is loaded before any of its cells is computed.               *)
LEMMA LoadedFirst ==
  ASSUME SweepInv, Load, NEW r \in Range(rows)
  PROVE  r.cell[1][1] # Workload
<1> SUFFICES ASSUME r.cell[1][1] = Workload PROVE FALSE
  OBVIOUS
<1>1. pc = "group" /\ group <= Len(launch.groups) /\ ~Loaded /\ TypeOK /\ launch \in campaign
  BY DEF Load, InGroup, SweepInv, TypeOK
<1>2. /\ Len(launch.groups) \in Nat /\ DOMAIN launch.groups = 1 .. Len(launch.groups)
      /\ launch \in UNION Campaigns
  BY <1>1, CommandShape
<1>3. group \in 1 .. Len(launch.groups)
  BY <1>1, <1>2 DEF SweepInv, Progress
<1>4. r.cell \in CellsBefore(group)
  <2>1. r.cell \in Cells(Range(rows))
    BY DEF Cells
  <2> QED BY <1>1, <2>1 DEF SweepInv, Accounted, Midway
<1>5. PICK i \in DOMAIN launch.groups, c \in Range(launch.combos) :
        i < group /\ r.cell = <<launch.groups[i], c>>
  BY <1>4 DEF CellsBefore
<1>6. launch.groups[i][1] = launch.groups[group][1]
  BY <1>5 DEF Workload
<1>7. group - 1 \in 1 .. Len(launch.groups) /\ group > 1 /\ (i = group - 1 \/ i < group - 1)
  BY <1>2, <1>3, <1>5
<1>8. launch.groups[group - 1][1] = launch.groups[group][1]
  <2>1. CASE i = group - 1
    BY <1>6, <2>1
  <2>2. CASE i < group - 1
    <3>1. group - 1 < group
      BY <1>3
    <3>2. \A a, b, k \in DOMAIN launch.groups :
            a < k /\ k < b /\ launch.groups[a][1] = launch.groups[b][1]
            => launch.groups[k][1] = launch.groups[b][1]
      BY <1>2, CommandAssumption
    <3>3. group \in DOMAIN launch.groups /\ group - 1 \in DOMAIN launch.groups
      BY <1>2, <1>3, <1>7
    <3> QED BY <1>6, <2>2, <3>1, <3>2, <3>3
  <2> QED BY <1>7, <2>1, <2>2
<1>9. loaded # Unread /\ loaded[1] = launch.groups[group - 1][1]
  BY <1>1, <1>7 DEF SweepInv, LoadedHere
<1> QED BY <1>1, <1>8, <1>9 DEF Loaded, Workload

(* Computed rows agree with what was loaded when they were computed.       *)
LEMMA InputsStep == InputInv /\ [Next]_vars => SameInputs'
<1> SUFFICES ASSUME InputInv, [Next]_vars PROVE SameInputs'
  OBVIOUS
<1>1. SweepInv /\ SameInputs
  BY DEF InputInv
<1>2. CASE rows' = <<>>
  <2>1. Computed' = {}
    BY <1>2 DEF Computed, Range
  <2> QED BY <2>1 DEF SameInputs
<1>3. CASE UNCHANGED <<launch, existing, rows>> /\ loaded' = loaded
  BY <1>1, <1>3 DEF SameInputs, Computed
<1>4. CASE Load
  <2>1. UNCHANGED <<launch, existing, rows>> /\ loaded'[1] = Workload
    BY <1>4 DEF Load
  <2>2. \A r \in Computed : r.cell[1][1] # Workload
    BY <1>1, <1>4, LoadedFirst DEF Computed
  <2> QED BY <1>1, <2>1, <2>2 DEF SameInputs, Computed
<1>5. CASE VisitGroup
  <2>1. UNCHANGED <<launch, existing, loaded>>
    BY <1>5 DEF VisitGroup
  <2>2. PICK taken \in Seq(RowSet) : rows' = rows \o taken /\ Range(taken) \subseteq existing
    BY <1>1, <1>5, VisitRows
  <2>3. rows \in Seq(RowSet)
    BY <1>1 DEF SweepInv, TypeOK
  <2>4. Range(rows') = Range(rows) \cup Range(taken)
    <3>1. \A s, t \in Seq(RowSet) : \A u : u = s \o t =>
            /\ u \in Seq(RowSet) /\ Range(u) = Range(s) \cup Range(t)
            /\ Cells(Range(u)) = Cells(Range(s)) \cup Cells(Range(t))
            /\ OneRowEach(s) /\ OneRowEach(t) /\ Cells(Range(s)) \cap Cells(Range(t)) = {}
                 => OneRowEach(u)
      BY JoinRows
    <3> QED BY <2>2, <2>3, <3>1
  <2>5. Computed' = Computed
    BY <2>1, <2>2, <2>4 DEF Computed
  <2> QED BY <1>1, <2>1, <2>5 DEF SameInputs
<1>6. CASE Simulate
  <2>1. UNCHANGED <<launch, existing, loaded>> /\ pc = "simulate"
    BY <1>6 DEF Simulate
  <2>2. PICK h \in Combos : Range(rows') = Range(rows) \cup {Row(Current(h))}
    BY <1>1, <1>6, SimulateRow
  <2> DEFINE new == Row(Current(h))
  <2>3. /\ new.settings = launch.settings /\ new.version = loaded[2]
        /\ new.cell[1][1] = Workload
    BY DEF Row, Current, Workload
  <2>4. loaded # Unread /\ loaded[1] = Workload
    BY <1>1, <2>1 DEF SweepInv, LoadedHere, Midway, Loaded
  <2> HIDE DEF new
  <2>5. Computed' \subseteq Computed \cup {new}
    BY <2>1, <2>2 DEF Computed, new
  <2>6. \A r \in Computed' : r.settings = launch.settings
    BY <1>1, <2>3, <2>5 DEF SameInputs
  <2>7. \A r \in Computed' : r.cell[1][1] = loaded[1] => r.version = loaded[2]
    BY <1>1, <2>3, <2>4, <2>5 DEF SameInputs
  <2>8. ASSUME NEW r \in Computed', NEW s \in Computed', r.cell[1][1] = s.cell[1][1]
        PROVE  r.version = s.version
    <3>1. CASE r = new \/ s = new
      BY <2>3, <2>4, <2>7, <2>8, <3>1
    <3>2. CASE r \in Computed /\ s \in Computed
      BY <1>1, <2>8, <3>2 DEF SameInputs
    <3> QED BY <2>5, <2>8, <3>1, <3>2
  <2> QED BY <2>1, <2>6, <2>7, <2>8 DEF SameInputs
<1>7. \/ rows' = <<>> \/ Load \/ VisitGroup \/ Simulate
      \/ UNCHANGED <<launch, existing, rows>> /\ loaded' = loaded
  <2>1. CASE \E l \in campaign : Launch(l)
    BY <2>1 DEF Launch
  <2>2. CASE Exit \/ Crash
    BY <2>2 DEF Exit, Crash
  <2>3. CASE Write \/ Replace \/ Conclude \/ UNCHANGED vars
    BY <2>3 DEF Write, Replace, Conclude, vars
  <2>4. CASE \E w \in Workloads : OpenWorkload(w) \/ CloseWorkload(w)
    BY <2>4 DEF OpenWorkload, CloseWorkload
  <2> QED BY <2>1, <2>2, <2>3, <2>4 DEF Next, Work
<1> QED BY <1>2, <1>3, <1>4, <1>5, <1>6, <1>7

(* Rows for one workload come from one version of it and from one set of   *)
(* settings, however often it is written again, except for those that the  *)
(* file brought along.                                                     *)
THEOREM PoliciesCompared == Spec => []PoliciesComparable
<1>1. Init => InputInv
  <2> SUFFICES ASSUME Init PROVE SameInputs
    BY InitSweep DEF InputInv
  <2>1. Computed = {}
    BY DEF Init, Computed, Range
  <2> QED BY <2>1 DEF SameInputs
<1>2. InputInv /\ [Next]_vars => InputInv'
  BY NextSweep, InputsStep DEF InputInv
<1>3. ASSUME InputInv, pc = "end", NEW r \in Range(file), NEW s \in Range(file)
      PROVE  \/ r.cell[1][1] # s.cell[1][1]
             \/ r.version = s.version /\ r.settings = s.settings
             \/ ~launch.force /\ {r, s} \cap existing # {}
  <2>1. file = rows
    BY <1>3 DEF InputInv, SweepInv, Flushed
  <2>2. CASE r \in Computed /\ s \in Computed
    BY <1>3, <2>2 DEF InputInv, SameInputs
  <2>3. CASE r \in existing \/ s \in existing
    BY <1>3, <2>3 DEF InputInv, SweepInv, Adopted
  <2> QED BY <1>3, <2>1, <2>2, <2>3 DEF Computed
<1>4. InputInv => PoliciesComparable
  BY <1>3 DEF PoliciesComparable
<1> QED BY <1>1, <1>2, <1>4, PTL DEF Spec

-----------------------------------------------------------------------------
(* Resuming a sweep.                                                       *)

(* No cells are a prefix of any loop.                                      *)
LEMMA NoneInOrder ==
  ASSUME NEW l
  PROVE  InOrder(l, {}) /\ InOrder(l, Cells({})) /\ Range(<<>>) = {}
<1>1. Cells({}) = {} /\ Range(<<>>) = {}
  BY DEF Cells, Range
<1> QED BY <1>1 DEF InOrder

(* Whole groups, and the first combos of the next one, are a prefix.       *)
LEMMA GroupInOrder ==
  ASSUME TypeOK, Progress, pc # "idle", group <= Len(launch.groups),
         NEW F \in SUBSET Range(launch.combos),
         \A a \in Range(launch.combos), b \in F : Before(launch.combos, a, b) => a \in F
  PROVE  InOrder(launch, CellsBefore(group) \cup {Current(c) : c \in F})
<1> DEFINE G == launch.groups
           C == launch.combos
           S == CellsBefore(group) \cup {Current(c) : c \in F}
<1>1. launch \in campaign
  BY DEF TypeOK
<1>2. /\ Len(G) \in Nat /\ DOMAIN G = 1 .. Len(G) /\ IsInjective(G)
      /\ Len(C) \in Nat /\ DOMAIN C = 1 .. Len(C)
  BY <1>1, CommandShape
<1>3. group \in DOMAIN G
  BY <1>2 DEF Progress
<1>4. S \subseteq Selected(launch)
  <2>1. CellsBefore(group) \subseteq Selected(launch)
    BY DEF CellsBefore, Selected, Range
  <2>2. \A c \in F : Current(c) \in Selected(launch)
    BY <1>3 DEF Current, Selected, Range
  <2> QED BY <2>1, <2>2
<1>5. ASSUME NEW i \in DOMAIN G, NEW m \in DOMAIN G, NEW j \in DOMAIN C, NEW n \in DOMAIN C,
             <<G[i], C[j]>> \in S, m < i \/ (m = i /\ n < j)
      PROVE  <<G[m], C[n]>> \in S
  <2>1. C[n] \in Range(C)
    BY DEF Range
  <2>2. CASE m < group
    BY <2>1, <2>2 DEF CellsBefore
  <2>3. CASE ~(m < group)
    <3>1. <<G[i], C[j]>> \notin CellsBefore(group)
      <4>1. SUFFICES ASSUME <<G[i], C[j]>> \in CellsBefore(group) PROVE FALSE
        OBVIOUS
      <4>2. PICK k \in DOMAIN G : k < group /\ G[i] = G[k]
        BY <4>1 DEF CellsBefore
      <4>3. i = k
        BY <1>2, <4>2 DEF IsInjective
      <4> QED BY <1>2, <1>3, <1>5, <2>3, <4>2, <4>3
    <3>2. G[i] = G[group] /\ C[j] \in F
      BY <1>5, <3>1 DEF Current
    <3>3. i = group
      BY <1>2, <1>3, <3>2 DEF IsInjective
    <3>4. m = group /\ n < j
      BY <1>2, <1>3, <1>5, <2>3, <3>3
    <3>5. Before(C, C[n], C[j])
      BY <1>2, <3>4 DEF Before
    <3>6. C[n] \in F
      BY <2>1, <3>2, <3>5
    <3> QED BY <3>4, <3>6 DEF Current
  <2> QED BY <2>2, <2>3
<1> HIDE DEF S
<1>6. InOrder(launch, S)
  BY <1>4, <1>5 DEF InOrder
<1> QED BY <1>6 DEF S

(* In a prefix, what precedes a combo of the current group is also there.  *)
LEMMA EarlierCombo ==
  ASSUME TypeOK, Progress, pc # "idle", group <= Len(launch.groups),
         NEW S, InOrder(launch, S),
         NEW a, NEW b, Before(launch.combos, a, b), Current(b) \in S
  PROVE  Current(a) \in S
<1>1. launch \in campaign
  BY DEF TypeOK
<1>2. /\ Len(launch.groups) \in Nat /\ DOMAIN launch.groups = 1 .. Len(launch.groups)
      /\ DOMAIN launch.combos = 1 .. Len(launch.combos)
  BY <1>1, CommandShape
<1>3. group \in DOMAIN launch.groups
  BY <1>2 DEF Progress
<1>4. PICK n, j \in DOMAIN launch.combos : n < j /\ launch.combos[n] = a /\ launch.combos[j] = b
  BY <1>2 DEF Before
<1>5. <<launch.groups[group], launch.combos[j]>> \in S
  BY <1>4 DEF Current
<1>6. <<launch.groups[group], launch.combos[n]>> \in S
  BY <1>3, <1>4, <1>5 DEF InOrder
<1> QED BY <1>4, <1>6 DEF Current

(* A visit takes over a prefix of the file: all of it, if it leaves        *)
(* something to simulate.                                                  *)
LEMMA VisitInOrder ==
  ASSUME SweepInv, VisitGroup, InOrder(launch, Cells(existing))
  PROVE  /\ InOrder(launch, Cells(Range(rows')))
         /\ Range(rows) \subseteq Range(rows')
         /\ needed' # <<>> => Cells(existing) \subseteq Cells(Range(rows'))
<1> DEFINE G == launch.groups
           C == launch.combos
<1>1. /\ pc = "group" /\ group <= Len(G) /\ launch \in campaign
      /\ TypeOK /\ Progress /\ pc # "idle"
  BY DEF VisitGroup, InGroup, SweepInv, TypeOK
<1>2. PICK taken \in Seq(RowSet) :
        /\ rows' = rows \o taken
        /\ Cells(Range(taken)) = {Current(c) : c \in FoundCombos}
  BY VisitRows
<1>3. rows \in Seq(RowSet) /\ Cells(Range(rows)) = CellsBefore(group)
  BY <1>1 DEF SweepInv, TypeOK, Accounted, Midway
<1>4. /\ Range(rows') = Range(rows) \cup Range(taken)
      /\ Cells(Range(rows')) = CellsBefore(group) \cup {Current(c) : c \in FoundCombos}
  <2>1. \A s, t \in Seq(RowSet) : \A u : u = s \o t =>
          /\ u \in Seq(RowSet) /\ Range(u) = Range(s) \cup Range(t)
          /\ Cells(Range(u)) = Cells(Range(s)) \cup Cells(Range(t))
          /\ OneRowEach(s) /\ OneRowEach(t) /\ Cells(Range(s)) \cap Cells(Range(t)) = {}
               => OneRowEach(u)
    BY JoinRows
  <2>2. rows' = rows \o taken /\ rows \in Seq(RowSet) /\ taken \in Seq(RowSet)
    BY <1>2, <1>3
  <2>3. /\ Range(rows') = Range(rows) \cup Range(taken)
        /\ Cells(Range(rows')) = Cells(Range(rows)) \cup Cells(Range(taken))
    BY <2>1, <2>2, ZenonT(40)
  <2> QED BY <1>2, <1>3, <2>3
<1>5. \A a \in Range(C), b \in FoundCombos : Before(C, a, b) => a \in FoundCombos
  <2> SUFFICES ASSUME NEW a \in Range(C), NEW b \in FoundCombos, Before(C, a, b)
               PROVE  Current(a) \in Cells(existing)
    BY DEF FoundCombos
  <2>1. Current(b) \in Cells(existing)
    BY DEF FoundCombos
  <2> QED BY <1>1, <2>1, EarlierCombo
<1>6. InOrder(launch, Cells(Range(rows')))
  <2>1. FoundCombos \in SUBSET Range(C)
    BY DEF FoundCombos
  <2>2. InOrder(launch, CellsBefore(group) \cup {Current(c) : c \in FoundCombos})
    BY <1>1, <1>5, <2>1, GroupInOrder
  <2> QED BY <1>4, <2>2
<1>7. ASSUME needed' # <<>>, NEW e \in Cells(existing)
      PROVE  e \in Cells(Range(rows'))
  <2>1. PICK i \in DOMAIN G, j \in DOMAIN C : e = <<G[i], C[j]>>
    BY DEF InOrder, Selected
  <2>2. Len(G) \in Nat /\ DOMAIN G = 1 .. Len(G) /\ group \in DOMAIN G
    <3>1. Len(G) \in Nat /\ DOMAIN G = 1 .. Len(G)
      BY <1>1, CommandShape
    <3> QED BY <1>1, <3>1 DEF Progress
  <2>3. C[j] \in Range(C)
    BY DEF Range
  <2>4. CASE i < group
    <3>1. i \in {k \in DOMAIN G : k < group}
      BY <2>4
    <3>2. e \in CellsBefore(group)
      BY <2>1, <2>3, <3>1 DEF CellsBefore
    <3> QED BY <1>4, <3>2
  <2>5. CASE i = group
    BY <1>4, <2>1, <2>3, <2>5 DEF FoundCombos, Current
  <2>6. CASE i > group
    <3>1. PICK n \in DOMAIN C : C[n] \in Range(needed')
      <4>1. needed' \in Seq(Combos) /\ Range(needed') = Range(C) \ FoundCombos
        BY VisitRows
      <4>2. Head(needed') \in Range(needed')
        <5>1. 1 \in DOMAIN needed' /\ Head(needed') = needed'[1]
          BY <1>7, <4>1, HeadTailProperties, LenProperties, EmptySeq
        <5> QED BY <5>1 DEF Range
      <4> QED BY <4>1, <4>2 DEF Range
    <3>2. C[n] \notin FoundCombos
      BY <3>1, VisitRows
    <3>3. <<G[group], C[n]>> \in Cells(existing)
      BY <2>1, <2>2, <2>6 DEF InOrder
    <3>4. C[n] \in Range(C)
      BY DEF Range
    <3> QED BY <3>2, <3>3, <3>4 DEF FoundCombos, Current
  <2> QED BY <2>2, <2>4, <2>5, <2>6
<1> QED BY <1>4, <1>6, <1>7

(* Simulated cells extend the prefix by the next cell of the loops.        *)
LEMMA SimulateInOrder ==
  ASSUME SweepInv, Simulate, InOrder(launch, Cells(Range(rows)))
  PROVE  /\ InOrder(launch, Cells(Range(rows')))
         /\ Range(rows) \subseteq Range(rows')
<1> DEFINE C == launch.combos
           F == Range(C) \ Range(needed')
<1>1. /\ pc = "simulate" /\ group <= Len(launch.groups) /\ launch \in campaign
      /\ TypeOK /\ Progress /\ pc # "idle" /\ Midway
      /\ Range(needed) \subseteq Range(C)
      /\ \A a, b \in Range(needed) : Before(C, a, b) => Before(needed, a, b)
  BY DEF SweepInv, Simulate, TypeOK, Midway, Progress, TodoInOrder
<1>2. PICK h \in Combos :
        /\ h \in Range(C) /\ h \in Range(needed)
        /\ Range(needed') = Range(needed) \ {h}
        /\ \A a : ~Before(needed, a, h)
        /\ Cells(Range(rows')) = Cells(Range(rows)) \cup {Current(h)}
        /\ Range(rows') = Range(rows) \cup {Row(Current(h))}
  BY SimulateRow
<1>3. Cells(Range(rows)) = CellsBefore(group) \cup {Current(c) : c \in Range(C) \ Range(needed)}
  BY <1>1 DEF SweepInv, Accounted
<1>4. F = (Range(C) \ Range(needed)) \cup {h}
  BY <1>2
<1>5. Cells(Range(rows')) = CellsBefore(group) \cup {Current(c) : c \in F}
  BY <1>2, <1>3, <1>4
<1>6. ASSUME NEW a \in Range(C), NEW b \in F, Before(C, a, b) PROVE a \in F
  <2>1. CASE b = h
    <3>1. a \notin Range(needed)
      BY <1>1, <1>2, <1>6, <2>1
    <3> QED BY <1>4, <3>1
  <2>2. CASE b \in Range(C) \ Range(needed)
    <3>1. Current(b) \in Cells(Range(rows))
      BY <1>3, <2>2
    <3>2. Current(a) \in Cells(Range(rows))
      BY <1>1, <1>6, <3>1, EarlierCombo
    <3>3. Current(a) \notin CellsBefore(group) /\ \A c : Current(a) = Current(c) => a = c
      BY <1>1, CellsStep
    <3>4. a \in Range(C) \ Range(needed)
      BY <1>3, <3>2, <3>3
    <3> QED BY <1>4, <3>4
  <2> QED BY <1>4, <2>1, <2>2
<1> HIDE DEF F
<1>7. F \in SUBSET Range(C)
  BY DEF F
<1>8. InOrder(launch, CellsBefore(group) \cup {Current(c) : c \in F})
  BY <1>1, <1>6, <1>7, GroupInOrder
<1> QED BY <1>2, <1>5, <1>8

(* The file of a resumed sweep stays a prefix of the loops, and no flush   *)
(* comes before everything that was found is in memory.                    *)
LEMMA ResumeStep ==
  ASSUME ResumeInv, [Next]_vars, Resumed
  PROVE  /\ FileInOrder' /\ NothingDropped'
         /\ Range(file) \subseteq Range(file')
<1>1. campaign' = campaign
  BY DEF Next, vars
<1>2. PICK k \in campaign : campaign = {k} /\ ~k.force
  BY DEF Resumed
<1>3. SweepInv /\ SweepInv' /\ TypeOK /\ Resumed'
  <2>1. SweepInv
    BY DEF ResumeInv
  <2>2. SweepInv'
    BY <2>1, NextSweep
  <2> QED BY <1>1, <2>1, <2>2 DEF SweepInv, Resumed
<1>4. pc # "idle" => launch = k
  BY <1>2, <1>3 DEF TypeOK
<1>5. InOrder(k, Cells(Range(file))) /\ InOrder(k, Cells(Range(rows))) /\ InOrder(k, Cells(existing))
  BY <1>2 DEF ResumeInv, FileInOrder
<1>6. pc # "idle" =>
        /\ Range(file) \subseteq existing \cup Range(rows)
        /\ pc \in {"simulate", "write", "replace"} => Cells(existing) \subseteq Cells(Range(rows))
  BY DEF ResumeInv, NothingDropped
<1>7. /\ \A l : InOrder(l, {})
      /\ \A l : InOrder(l, Cells({})) /\ Range(<<>>) = {}
  BY NoneInOrder
<1>8. SUFFICES /\ InOrder(k, Cells(Range(file'))) /\ InOrder(k, Cells(Range(rows')))
               /\ InOrder(k, Cells(existing'))
               /\ pc' # "idle" =>
                    /\ Range(file') \subseteq existing' \cup Range(rows')
                    /\ pc' \in {"simulate", "write", "replace"} =>
                         Cells(existing') \subseteq Cells(Range(rows'))
               /\ Range(file) \subseteq Range(file')
  <2>1. \A l \in campaign' : l = k
    BY <1>1, <1>2
  <2>2. \A l \in campaign' :
          InOrder(l, Cells(Range(file'))) /\ InOrder(l, Cells(Range(rows'))) /\ InOrder(l, Cells(existing'))
    BY <1>8, <2>1
  <2>3. FileInOrder'
    BY <2>2 DEF FileInOrder
  <2>4. NothingDropped'
    BY <1>8 DEF NothingDropped, Cells
  <2> QED BY <1>8, <2>3, <2>4
<1>9. CASE \E l \in campaign : Launch(l)
  <2>1. /\ existing' = Range(file) /\ rows' = <<>> /\ file' = file /\ pc' = "group"
    BY <1>2, <1>9 DEF Launch, Found, disk
  <2> QED BY <1>5, <1>7, <2>1
<1>10. CASE Exit \/ Crash
  <2>1. existing' = {} /\ rows' = <<>> /\ file' = file /\ pc' = "idle"
    BY <1>10 DEF Exit, Crash, disk
  <2> QED BY <1>5, <1>7, <2>1
<1>11. CASE VisitGroup
  <2>1. /\ UNCHANGED <<file, launch, existing>> /\ pc # "idle"
        /\ needed' = <<>> => pc' = "group"
    BY <1>11 DEF VisitGroup, InGroup, disk
  <2>2. /\ InOrder(launch, Cells(Range(rows')))
        /\ Range(rows) \subseteq Range(rows')
        /\ needed' # <<>> => Cells(existing) \subseteq Cells(Range(rows'))
    BY <1>3, <1>4, <1>5, <1>11, <2>1, VisitInOrder
  <2> QED BY <1>4, <1>5, <1>6, <2>1, <2>2
<1>12. CASE Simulate
  <2>1. UNCHANGED <<file, launch, existing>> /\ pc = "simulate" /\ pc' = "write"
    BY <1>12 DEF Simulate, disk
  <2>2. /\ InOrder(launch, Cells(Range(rows')))
        /\ Range(rows) \subseteq Range(rows')
    BY <1>3, <1>4, <1>5, <1>12, <2>1, SimulateInOrder
  <2>3. Cells(Range(rows)) \subseteq Cells(Range(rows'))
    BY <2>2 DEF Cells
  <2> QED BY <1>4, <1>5, <1>6, <2>1, <2>2, <2>3
<1>13. CASE Replace
  <2>1. UNCHANGED <<launch, existing, rows>> /\ pc = "replace" /\ file' = rows
    BY <1>3, <1>13 DEF Replace, SweepInv, Flushed
  <2>2. existing \subseteq Range(rows)
    <3> SUFFICES ASSUME NEW e \in existing PROVE e \in Range(rows)
      OBVIOUS
    <3>1. e.cell \in Cells(Range(rows))
      BY <1>6, <2>1 DEF Cells
    <3>2. PICK r \in Range(rows) : r.cell = e.cell
      BY <3>1 DEF Cells
    <3> QED BY <1>3, <3>2 DEF SweepInv, Adopted
  <2> QED BY <1>5, <1>6, <2>1, <2>2
<1>14. CASE Conclude
  <2>1. UNCHANGED <<file, launch, existing, rows>> /\ pc = "group" /\ group > Len(launch.groups)
    BY <1>14 DEF Conclude, disk
  <2>2. group = Len(launch.groups) + 1
    <3>1. Len(launch.groups) \in Nat
      BY <1>2, <1>3, <1>4, <2>1, CommandShape
    <3> QED BY <1>3, <2>1, <3>1 DEF SweepInv, Progress
  <2>3. Cells(Range(rows)) = Selected(launch)
    BY <1>3, <2>1, <2>2, AllCells DEF SweepInv, Accounted, Midway
  <2>4. Cells(existing) \subseteq Cells(Range(rows))
    BY <1>4, <1>5, <2>1, <2>3 DEF InOrder
  <2> QED BY <1>5, <1>6, <2>1, <2>4
<1>15. CASE \/ Load \/ Write \/ UNCHANGED vars
            \/ \E w \in Workloads : OpenWorkload(w) \/ CloseWorkload(w)
  <2>1. /\ UNCHANGED <<file, launch, existing, rows>>
        /\ pc' = pc \/ (pc = "write" /\ pc' = "replace")
    BY <1>15 DEF Load, Write, OpenWorkload, CloseWorkload, vars, disk
  <2> QED BY <1>5, <1>6, <2>1
<1> QED BY <1>9, <1>10, <1>11, <1>12, <1>13, <1>14, <1>15 DEF Next, Work

(* Resuming a sweep with its own command line never drops a row that an    *)
(* earlier run computed, wherever that run died.                           *)
THEOREM ResumeIsSafe == Spec => ResumeKeepsRows
<1>1. Init => ResumeInv
  <2> SUFFICES ASSUME Init PROVE FileInOrder /\ NothingDropped
    BY InitSweep DEF ResumeInv
  <2>1. pc = "idle" /\ existing = {} /\ file = <<>> /\ rows = <<>>
    BY DEF Init
  <2> QED BY <2>1, NoneInOrder DEF FileInOrder, NothingDropped
<1>2. ResumeInv /\ [Next]_vars => ResumeInv'
  <2> SUFFICES ASSUME ResumeInv, [Next]_vars PROVE FileInOrder' /\ NothingDropped'
    BY NextSweep DEF ResumeInv
  <2>1. CASE Resumed
    BY <2>1, ResumeStep
  <2>2. CASE ~Resumed
    <3>1. campaign' = campaign
      BY DEF Next, vars
    <3>2. ~Resumed'
      BY <2>2, <3>1 DEF Resumed
    <3> QED BY <3>2 DEF FileInOrder, NothingDropped
  <2> QED BY <2>1, <2>2
<1>3. ResumeInv /\ [Next]_vars => [Resumed => Range(file) \subseteq Range(file')]_vars
  BY ResumeStep
<1> QED BY <1>1, <1>2, <1>3, PTL DEF Spec, ResumeKeepsRows
=============================================================================
