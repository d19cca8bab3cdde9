----------------------------- MODULE Frequencies -----------------------------
(***************************************************************************)
(* The FrequencyManager of device/cpu/frequency_manager.hpp, which runs each *)
(* fracture of a test at another frequency of the cores (--vary-frequency)   *)
(* or of the sockets (--vary-uncore-frequency).  The machine is a record of   *)
(* the files below /sys it reads and writes, the manager one of its members.  *)
(* Frequencies are in kHz, as in the files.                                  *)
(***************************************************************************)
EXTENDS Integers, Sequences, FiniteSets

\* The parts of the machine that stay as they are:
\*   cpus             the number of CPUs
\*   package          [cpu -> its package_id]
\*   governed         the CPUs with cpufreq files
\*   range            <<cpuinfo_min_freq, cpuinfo_max_freq>>, or <<>>
\*   root             the program may write the files
\*   userspace        the kernel has that governor
\*   traps            a division by zero ends the program (x86)
\*   uncore_tree      the packages with files of intel_uncore_frequency
\* Those that are written:
\*   pstate           intel_pstate/status: "active", "passive", "none"
\*   governor         [cpu -> governor]
\*   setspeed         [cpu -> frequency], of use under "userspace" only
\*   uncore           [package -> <<min_freq_khz, max_freq_khz>>]
Cpus(machine) == 0..(machine.cpus - 1)

\* A machine that there can be.
IsMachine(m) ==
  /\ m = [cpus |-> m.cpus, package |-> m.package, governed |-> m.governed, range |-> m.range,
          root |-> m.root, userspace |-> m.userspace, traps |-> m.traps,
          uncore_tree |-> m.uncore_tree, pstate |-> m.pstate, governor |-> m.governor,
          setspeed |-> m.setspeed, uncore |-> m.uncore]
  /\ m.cpus \in Nat \ {0}
  /\ m.range = <<>> \/ m.range \in Nat \X Nat
  /\ m.pstate \in {"active", "passive", "none"}
  /\ m.governor = [cpu \in Cpus(m) |-> m.governor[cpu]]
  /\ m.setspeed = [cpu \in Cpus(m) |-> m.setspeed[cpu]]
  /\ \A cpu \in Cpus(m) : m.setspeed[cpu] \in Nat
  /\ m.uncore = [k \in DOMAIN m.uncore |-> m.uncore[k]]
  /\ \A k \in DOMAIN m.uncore : m.uncore[k] \in Nat \X Nat
  /\ m.uncore_tree \subseteq DOMAIN m.uncore

\* Frequencies that are none.
Unsupported == -1
Garbage     == -2

EXIT_NOPERMISSION == 4

\* The manager's members; pstate_status is empty unless it was switched.
NoManager ==
  [core_supported |-> FALSE, core_levels |-> <<>>, core_total |-> 0, core_idx |-> 0,
   governors |-> <<>>, setspeeds |-> <<>>, pstate_status |-> "",
   uncore_supported |-> FALSE, uncore_levels |-> <<>>, uncore_total |-> 0, uncore_idx |-> 0,
   uncore_initial |-> <<>>, total_sockets |-> 0]

\* What a function of the manager leaves: the machine, the manager, and how it
\* ended: it returned, the program exited (EXIT_NOPERMISSION) or died.
Outcome(machine, manager, how) == [machine |-> machine, manager |-> manager, how |-> how]
Returns(machine, manager)      == Outcome(machine, manager, "returns")

-----------------------------------------------------------------------------
(***************************************************************************)
(* The levels: the ends of the range first, then midpoint after midpoint.   *)
(***************************************************************************)
\* Sorted in descending order; equal levels keep theirs.
Rank(levels, i) ==
  Cardinality({j \in DOMAIN levels : levels[j] > levels[i] \/ (levels[j] = levels[i] /\ j < i)})
Descending(levels) ==
  [k \in DOMAIN levels |-> levels[CHOOSE i \in DOMAIN levels : Rank(levels, i) = k - 1]]
Midpoints(levels) ==
  LET s == Descending(levels) IN [i \in 1..(Len(s) - 1) |-> (s[i] + s[i + 1]) \div 2]

\* At most 16 levels: four rounds after the two ends give 17.
populate_frequency_levels(min_freq, max_freq, total) ==
  LET next[levels \in Seq(Int)] == IF Len(levels) < total THEN levels \o Midpoints(levels) ELSE levels
      round[k \in 0..4] == IF k = 0 THEN <<max_freq, min_freq>> ELSE next[round[k - 1]]
  IN round[4]

Steps(min_freq, max_freq, limit) ==
  LET steps == (max_freq - min_freq) \div 100000 IN IF steps < limit THEN steps ELSE limit

\* levels[idx % total], which need not be within levels; on a machine that does
\* not trap, x % 0 is x.
Level(levels, idx, total) ==
  LET i == IF total > 0 THEN idx % total ELSE idx
  IN IF i < Len(levels) THEN levels[i + 1] ELSE Garbage

-----------------------------------------------------------------------------
(***************************************************************************)
(* The files.  A governor other than userspace takes no scaling_setspeed.    *)
(***************************************************************************)
check_if_userspace_present(machine) ==
  machine.userspace /\ 0 \in machine.governed /\ machine.pstate # "active"

\* Writing intel_pstate/status brings the other driver, and its default governor.
SetPstate(machine, status) ==
  IF machine.pstate = status THEN machine
  ELSE [machine EXCEPT !.pstate = status,
          !.governor = [cpu \in Cpus(machine) |-> IF status = "active" THEN "powersave" ELSE "schedutil"]]

\* The governors written to the files of cpus; those of a CPU are its own.
SetGovernors(machine, cpus, governors) ==
  [machine EXCEPT !.governor = [cpu \in Cpus(machine) |->
     IF cpu \in cpus /\ (governors[cpu] = "userspace" => machine.userspace)
     THEN governors[cpu] ELSE @[cpu]]]

ReadSetspeed(machine, cpu) ==
  IF machine.governor[cpu] = "userspace" THEN machine.setspeed[cpu] ELSE Unsupported

\* Of the speeds written, those that are none change nothing.
WriteSetspeeds(machine, speeds) ==
  [machine EXCEPT !.setspeed = [cpu \in Cpus(machine) |->
     IF machine.governor[cpu] = "userspace" /\ speeds[cpu] # Unsupported
     THEN speeds[cpu] ELSE @[cpu]]]

-----------------------------------------------------------------------------
(***************************************************************************)
(* Cores.                                                                  *)
(***************************************************************************)
\* The CPUs whose governor is read before the first without one.
SavedCpus(machine) == {cpu \in Cpus(machine) : 0..cpu \subseteq machine.governed}

SaveAndGovern(machine, manager) ==
  LET saved == SavedCpus(machine)
      done  == [manager EXCEPT
                  !.governors = [cpu \in saved |-> machine.governor[cpu]],
                  !.setspeeds = [cpu \in saved |-> ReadSetspeed(machine, cpu)],
                  !.core_supported = saved = Cpus(machine)]
      set   == SetGovernors(machine, saved, [cpu \in saved |-> "userspace"])
  IN IF saved # {} /\ ~machine.root THEN Outcome(machine, manager, "exits")
     ELSE Returns(set, done)

Levelled(manager, range) ==
  LET total == Steps(range[1], range[2], 16)
  IN [manager EXCEPT !.core_total = total,
                     !.core_levels = populate_frequency_levels(range[1], range[2], total)]

initial_core_frequency_setup(machine, manager) ==
  LET switches == ~check_if_userspace_present(machine) /\ machine.pstate # "none"
      switched == IF switches THEN SetPstate(machine, "passive") ELSE machine
      noted    == IF switches THEN [manager EXCEPT !.pstate_status = machine.pstate] ELSE manager
  IN IF switches /\ ~machine.root THEN Outcome(machine, manager, "exits")
     ELSE IF machine.range = <<>> THEN Returns(switched, noted)
     ELSE SaveAndGovern(switched, Levelled(noted, machine.range))

\* The level that comes next, for all CPUs; without any level the division traps.
change_core_frequency(machine, manager) ==
  LET freq == Level(manager.core_levels, manager.core_idx, manager.core_total)
  IN IF ~manager.core_supported THEN Returns(machine, manager)
     ELSE IF manager.core_total = 0 /\ machine.traps THEN Outcome(machine, manager, "dies")
     ELSE Returns(WriteSetspeeds(machine, [cpu \in Cpus(machine) |-> freq]),
                  [manager EXCEPT !.core_idx = @ + 1])

restore_core_frequency_initial_state(machine, manager) ==
  LET governed == SetGovernors(machine, Cpus(machine), manager.governors)
      restored == WriteSetspeeds(governed, manager.setspeeds)
  IN IF ~manager.core_supported THEN machine
     ELSE IF manager.pstate_status = "" THEN restored
          ELSE SetPstate(restored, manager.pstate_status)

-----------------------------------------------------------------------------
(***************************************************************************)
(* Sockets: as many as the devices have packages, numbered from 0 whatever  *)
(* the numbers of those packages are.                                       *)
(***************************************************************************)
Sockets(manager) == 0..(manager.total_sockets - 1)

Packages(machine) == {machine.package[cpu] : cpu \in Cpus(machine)}

UncoreRange(machine, socket) ==
  IF socket \in machine.uncore_tree THEN machine.uncore[socket] ELSE <<0, 0>>

initial_uncore_frequency_setup(machine, manager) ==
  LET total    == Cardinality(Packages(machine))
      sockets  == 0..(total - 1)
      steps(k) == Steps(UncoreRange(machine, k)[1], UncoreRange(machine, k)[2], 8)
      levels(k) == populate_frequency_levels(UncoreRange(machine, k)[1], UncoreRange(machine, k)[2], steps(k))
  IN IF 0 \notin machine.uncore_tree THEN Returns(machine, manager)
     ELSE Returns(machine,
            [manager EXCEPT
               !.uncore_supported = TRUE,
               !.total_sockets = total,
               !.uncore_initial = [k \in sockets |-> UncoreRange(machine, k)],
               !.uncore_levels = [k \in sockets |-> levels(k)],
               !.uncore_total = steps(total - 1)])

\* The index moves on from socket to socket, and the number of levels is that of
\* the last one.  A socket without files ends the program.
change_uncore_frequency(machine, manager) ==
  LET level(k) == Level(manager.uncore_levels[k], manager.uncore_idx + k, manager.uncore_total)
      written  == {k \in Sockets(manager) : machine.root /\ 0..k \subseteq machine.uncore_tree}
      changed  == [machine EXCEPT !.uncore = [k \in DOMAIN @ |->
                     IF k \in written THEN <<level(k), level(k)>> ELSE @[k]]]
  IN IF ~manager.uncore_supported THEN Returns(machine, manager)
     ELSE IF manager.uncore_total = 0 /\ machine.traps THEN Outcome(machine, manager, "dies")
     ELSE IF written # Sockets(manager) THEN Outcome(changed, manager, "exits")
     ELSE Returns(changed, [manager EXCEPT !.uncore_idx = @ + manager.total_sockets])

restore_uncore_frequency_initial_state(machine, manager) ==
  IF ~manager.uncore_supported THEN machine
  ELSE [machine EXCEPT !.uncore = [k \in DOMAIN @ |->
          IF k \in Sockets(manager) THEN manager.uncore_initial[k] ELSE @[k]]]

reset_frequency_level_idx(manager) == [manager EXCEPT !.core_idx = 0, !.uncore_idx = 0]
=============================================================================
