--------------------------- MODULE SweepCheckpoint ---------------------------
(***************************************************************************)
(* The simulator sweep of src/scripts/run_sim_matrix.py and its checkpoint *)
(* summary.csv: a run loads the rows of earlier runs, simulates the cells  *)
(* it does not find there, and rewrites the file after each one.  A run    *)
(* may die between any two steps, and the next one starts from the file.   *)
(* Meanwhile gen_workloads.py may write a workload again, in place.        *)
(*                                                                         *)
(* A group is <<workload, policy>>, a combo a KV budget with a concurrency,*)
(* a cell of the matrix <<group, combo>>.  A row stands for its cell, and  *)
(* for the version of the workload and the build settings it comes from.   *)
(***************************************************************************)
EXTENDS Integers, Sequences, FiniteSets, Functions, Filtering

CONSTANTS
  Campaigns,    \* sets of command lines [groups, combos, force, settings], in loop order
  NoLaunch,     \* no run is active
  MaxLaunches,  \* bound on the number of runs
  Workloads,    \* files of data/workloads
  Policies, Combos,  \* what command lines may select
  Versions,     \* what a workload file may hold
  Torn,         \* it was opened for writing, and the writer has not closed it
  Unread,       \* the run has not loaded a workload yet
  MaxGenerated  \* bound on how often a file is opened for writing

VARIABLES
  campaign,  \* the command lines the sweep is launched with
  file,      \* rows of summary.csv
  tmp,       \* rows of .tmp_summary.csv
  launch,    \* command line of the active run
  existing,  \* rows it found in the file
  rows,      \* rows in memory
  group,     \* position of the group it works on
  needed,    \* combos it still has to simulate there
  pc,        \* "idle", "group", "simulate", "write", "replace", "end"
  contents,  \* [workload -> version or Torn]
  loaded,    \* <<workload, version>> that the run has in memory
  launches, generated   \* how many runs, and writes of workload files

disk    == <<file, tmp>>
inputs  == <<contents, generated>>
vars    == <<campaign, disk, launch, existing, rows, group, needed, pc, inputs, loaded, launches>>

ASSUME LaunchAssumption == NoLaunch \notin UNION Campaigns /\ MaxLaunches \in Nat
ASSUME VersionAssumption == Torn \notin Versions /\ Unread \notin Workloads \X Versions

(* The loops of main() visit every policy of a workload before the next    *)
(* workload.  No command line names a workload, policy or combo twice.     *)
ASSUME CommandAssumption ==
  \A l \in UNION Campaigns :
    /\ l.groups \in Seq(Workloads \X Policies) /\ IsInjective(l.groups)
    /\ l.combos \in Seq(Combos) /\ IsInjective(l.combos)
    /\ \A i, j, k \in DOMAIN l.groups :
         i < k /\ k < j /\ l.groups[i][1] = l.groups[j][1] => l.groups[k][1] = l.groups[j][1]
    /\ l.force \in BOOLEAN

Selected(l) == {<<l.groups[i], l.combos[j]>> : i \in DOMAIN l.groups, j \in DOMAIN l.combos}

Init ==
  /\ campaign \in Campaigns
  /\ file = <<>> /\ tmp = <<>>
  /\ launch = NoLaunch /\ existing = {} /\ rows = <<>>
  /\ group = 1 /\ needed = <<>>
  /\ pc = "idle"
  /\ contents \in [Workloads -> Versions] /\ loaded = Unread /\ generated = 0
  /\ launches = 0

(* Faulty variants, which the specification does not use.                  *)
SkipExisting(found) == rows
FoundAlways(l)      == Range(file)

(* Rows of the file are loaded unless --force is given.                    *)
Found(l) == IF l.force THEN {} ELSE Range(file)

Launch(l) ==
  /\ pc = "idle"
  /\ launches < MaxLaunches
  /\ launches' = launches + 1
  /\ launch' = l
  /\ existing' = Found(l)
  /\ rows' = <<>> /\ needed' = <<>> /\ group' = 1 /\ loaded' = Unread
  /\ pc' = "group"
  /\ UNCHANGED <<disk, inputs>>

InGroup == pc = "group" /\ group <= Len(launch.groups)

Workload == launch.groups[group][1]

(* Load under every policy: a faulty variant, not used.                    *)
LoadedEachTime == loaded # Unread /\ loaded[1] = Workload /\ loaded[2] = contents[Workload]
Loaded == loaded # Unread /\ loaded[1] = Workload

(* The workload is loaded once for all its policies; a torn file ends the  *)
(* run, see Crash.                                                         *)
Load ==
  /\ InGroup
  /\ ~Loaded
  /\ contents[Workload] # Torn
  /\ loaded' = <<Workload, contents[Workload]>>
  /\ UNCHANGED <<disk, launch, existing, rows, group, needed, pc, inputs, launches>>

(* The rows in memory once the group's rows from the file have joined them.*)
Keep(found) == rows \o found

Current(combo) == <<launch.groups[group], combo>>

Row(cell) == [cell |-> cell, version |-> loaded[2], settings |-> launch.settings]
Cells(S)  == {row.cell : row \in S}

(* Existing rows of the group are taken over, by their cell alone; the     *)
(* rest has to be run.                                                     *)
VisitGroup ==
  /\ InGroup
  /\ Loaded
  /\ LET found == {c \in Range(launch.combos) : Current(c) \in Cells(existing)}
         have  == Filtered(launch.combos, found)
         todo  == Filtered(launch.combos, Range(launch.combos) \ found)
     IN /\ rows' = Keep([i \in DOMAIN have |-> CHOOSE row \in existing : row.cell = Current(have[i])])
        /\ needed' = todo
        /\ IF todo = <<>> THEN group' = group + 1 /\ pc' = "group"
           ELSE pc' = "simulate" /\ UNCHANGED group
  /\ UNCHANGED <<disk, launch, existing, loaded, inputs, launches>>

Simulate ==
  /\ pc = "simulate"
  /\ rows' = Append(rows, Row(Current(Head(needed))))
  /\ needed' = Tail(needed)
  /\ pc' = "write"
  /\ UNCHANGED <<disk, launch, existing, loaded, inputs, group, launches>>

(* flush_summary(): the new file is written aside, then takes the place of *)
(* the old one.                                                            *)
Write ==
  /\ pc = "write"
  /\ tmp' = rows
  /\ pc' = "replace"
  /\ UNCHANGED <<file, launch, existing, loaded, inputs, rows, group, needed, launches>>

Replace ==
  /\ pc = "replace"
  /\ file' = tmp
  /\ IF group > Len(launch.groups) THEN pc' = "end" /\ UNCHANGED group
     ELSE IF needed # <<>> THEN pc' = "simulate" /\ UNCHANGED group
     ELSE pc' = "group" /\ group' = group + 1
  /\ UNCHANGED <<tmp, launch, existing, loaded, inputs, rows, needed, launches>>

(* The last flush, once every group has been visited.                      *)
Conclude ==
  /\ pc = "group"
  /\ group > Len(launch.groups)
  /\ pc' = "write"
  /\ UNCHANGED <<disk, launch, existing, loaded, inputs, rows, group, needed, launches>>

Exit ==
  /\ pc = "end"
  /\ launch' = NoLaunch /\ existing' = {} /\ rows' = <<>>
  /\ group' = 1 /\ needed' = <<>> /\ loaded' = Unread
  /\ pc' = "idle"
  /\ UNCHANGED <<disk, inputs, launches>>

(* The run is killed, or simulate() raises: memory is gone, disk stays.    *)
Crash ==
  /\ pc \notin {"idle", "end"}
  /\ launch' = NoLaunch /\ existing' = {} /\ rows' = <<>>
  /\ group' = 1 /\ needed' = <<>> /\ loaded' = Unread
  /\ pc' = "idle"
  /\ UNCHANGED <<disk, inputs, launches>>

(* gen_workloads.py writes a file in place, and may die before it closes it*)
OpenWorkload(w) ==
  /\ generated < MaxGenerated
  /\ contents' = [contents EXCEPT ![w] = Torn]
  /\ generated' = generated + 1
  /\ UNCHANGED <<disk, launch, existing, rows, group, needed, pc, loaded, launches>>

CloseWorkload(w) ==
  /\ contents[w] = Torn
  /\ \E v \in Versions : contents' = [contents EXCEPT ![w] = v]
  /\ UNCHANGED <<disk, launch, existing, rows, group, needed, pc, loaded, generated, launches>>

Work == Load \/ VisitGroup \/ Simulate \/ Write \/ Replace \/ Conclude \/ Exit

Next ==
  /\ \/ \E l \in campaign : Launch(l)
     \/ Work
     \/ Crash
     \/ \E w \in Workloads : OpenWorkload(w) \/ CloseWorkload(w)
  /\ UNCHANGED campaign

Spec == Init /\ [][Next]_vars

-----------------------------------------------------------------------------
(* Properties.                                                             *)

(* A run that ends leaves one row for each of its cells, whether it found, *)
(* or computed, or lost and computed it again.                             *)
EndedRunIsComplete ==
  pc = "end" => Cells(Range(file)) = Selected(launch) /\ Len(file) = Cardinality(Selected(launch))

(* "Every policy sees the same requests" (workload.py:3): rows for one     *)
(* workload come from the same version of it and the same settings, also   *)
(* when the workload is written again while the sweep runs; except those   *)
(* that a run without --force found in the file.                           *)
PoliciesComparable ==
  pc = "end" =>
    \A r, s \in Range(file) :
      \/ r.cell[1][1] # s.cell[1][1]
      \/ r.version = s.version /\ r.settings = s.settings
      \/ ~launch.force /\ {r, s} \cap existing # {}

(* A sweep that is always launched with the same command line.             *)
Resumed == \E l \in campaign : campaign = {l} /\ ~l.force

(* Resuming the same sweep never drops a row that an earlier run computed, *)
(* wherever that run died.                                                 *)
ResumeKeepsRows == [][Resumed => Range(file) \subseteq Range(file')]_vars

(* A run that ends has not taken away rows it found: the help text of      *)
(* --force (line 57), "re-run and overwrite existing simulations", implies *)
(* that a run without it overwrites none.  While it runs, rows it has not  *)
(* come to yet may be missing from the file.                               *)
OnlyForceOverwrites ==
  pc = "end" /\ ~launch.force => existing \subseteq Range(file)
=============================================================================
