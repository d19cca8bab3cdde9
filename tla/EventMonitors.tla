----------------------------- MODULE EventMonitors -----------------------------
(***************************************************************************)
(* The two tests that watch counters of the machine instead of computing    *)
(* anything: mce_check, which fails when the kernel counted machine checks   *)
(* (or EDAC errors on aarch64), and smi_count, which prints how many system  *)
(* management interrupts there were.  Both take a baseline in test_preinit,  *)
(* once and in the parent, and compare with it in test_run, in a child       *)
(* where there is one, whose copy of the baseline dies with it.  Under both  *)
(* is InterruptMonitor, which reads /proc/interrupts, EDAC and MSRs.         *)
(***************************************************************************)
EXTENDS Integers, Sequences, FiniteSets
LOCAL INSTANCE SequencesExt
LOCAL INSTANCE FiniteSetsExt
LOCAL INSTANCE Folds
LOCAL INSTANCE Functions

CONSTANTS
  Machines,    \* the machines, and how the program is started on them
  Limit,       \* the counters have 32 bits: 2^32, smaller in the model
  MaxEvents,   \* bound: events of all kinds in a behaviour
  MaxHotplugs, \* bound: times the CPU that may come and go does so
  MaxChecks      \* bound: runs of the two tests (iterations and retries)
\* A machine is a record of
\*   arch        "x86_64" or "aarch64"
\*   cpus        the CPUs online at the start, a sequence in the kernel's order
\*   movable     the CPUs that may go offline or come online
\*   tested      device_info[].cpu_number
\*   slices      the slices of a default test, as sets of indices of tested
\*   places      where errors are counted: CPUs, or memory controllers
\*   counted     the errors counted before the program starts
\*   smi         the SMIs counted before, by CPU
\*   interrupts  /proc/interrupts can be opened
\*   msr         MSRs can be read
\*   fork_mode   "fork_each_test", "exec_each_test" or "no_fork"

ASSUME MachinesAssumption ==
  /\ Limit \in Nat /\ MaxEvents \in 0..(Limit - 1) /\ MaxHotplugs \in Nat /\ MaxChecks \in Nat
  /\ \A m \in Machines :
       /\ m.arch \in {"x86_64", "aarch64"} /\ m.interrupts \in BOOLEAN /\ m.msr \in BOOLEAN
       /\ m.fork_mode \in {"fork_each_test", "exec_each_test", "no_fork"}
       /\ IsInjective(m.cpus) /\ IsInjective(m.tested) /\ m.tested # <<>>
       /\ ToSet(m.tested) \subseteq ToSet(m.cpus) \ m.movable
       /\ \A i \in DOMAIN m.slices : m.slices[i] \subseteq DOMAIN m.tested
       /\ m.fork_mode = "no_fork" => Len(m.slices) = 1
       \* the last CPU stays: a write past the end of the vector of counts is
       \* not modelled
       /\ \A c \in m.movable : c < Last(m.cpus)

VARIABLES
  host,
  online,      \* the CPUs of the header of /proc/interrupts
  mce,         \* errors since the machine's start, by place
  smi,         \* SMIs, by CPU
  thermal,     \* thermal events, all on the first CPU
  pc,          \* what the program does
  tests,       \* which of the two tests run: selected and not skipped
  main,        \* the static variables of the program's process
  children,    \* and those of its children, by slice
  report,      \* what the last run of a test reported
  hotplugs, runs,
  start, last  \* history: the machine at preinit and at the last check; in start,
               \* online is what all reads until then have seen, if the same

kernel  == <<online, mce, smi, thermal>>
history == <<start, last>>
mvars   == <<host, kernel, pc, tests, main, children, report, hotplugs, runs, history>>

Cpus == ToSet(host.cpus) \cup host.movable
Now  == [online |-> online, mce |-> mce, smi |-> smi, thermal |-> thermal]

\* The static variables before anything is called.
Statics ==
  [header |-> <<>>, mapping |-> <<>>, mce_counts_start |-> <<>>, mce_count_last |-> 0,
   last_thermal_event_count |-> 0, smi_counts_start |-> <<>>]

NoReport == [of |-> "none", changed |-> FALSE, threads |-> {}, others |-> {}, warned |-> FALSE, smi |-> {}]

-----------------------------------------------------------------------------
(***************************************************************************)
(* InterruptMonitor.                                                       *)
(***************************************************************************)
\* parse_header(): the CPU of each column, kept for as long as the header is
\* the same line.  What was read of another header before is not cleared.
parse_header(s) ==
  IF s.header = online THEN s ELSE [s EXCEPT !.header = online, !.mapping = @ \o online]

\* The 32-bit counts of a line with a column for each CPU online, in a vector
\* as long as the last CPU read needs.  A vector is a sequence: CPU c is at
\* c + 1.
CountsOfLine(s, line) ==
  LET columns(c) == {i \in DOMAIN online : s.mapping[i] = c}
  IN [k \in 1..(Last(s.mapping) + 1) |->
        IF columns(k - 1) = {} THEN 0 ELSE line[online[Max(columns(k - 1))]] % Limit]

\* All of EDAC's memory controllers together, at the place of CPU 0, in a
\* vector for the CPUs under test.
CountsOfEdac ==
  LET total == FoldFunction(+, 0, mce) % Limit
  IN [k \in 1..(Max(ToSet(host.tested)) + 1) |-> IF k = 1 THEN total ELSE 0]

\* get_interrupt_counts() in a process with the statics s, parse_header()
\* called.
get_mce_interrupt_counts(s) ==
  IF host.arch = "aarch64" THEN CountsOfEdac
  ELSE IF host.interrupts THEN CountsOfLine(s, mce) ELSE <<>>

ThermalLine == [c \in Cpus |-> IF c = host.cpus[1] THEN thermal ELSE 0]
count_thermal_events(s) ==
  IF host.arch = "aarch64" \/ ~host.interrupts THEN 0
  ELSE FoldSeq(+, 0, CountsOfLine(s, ThermalLine))

\* A process reads the header before it reads counts.
Reading(s) == IF host.arch = "x86_64" /\ host.interrupts THEN parse_header(s) ELSE s

\* count_smi_events(): the MSR of a CPU that is online.
HasSmi(c) == host.arch = "x86_64" /\ host.msr /\ c \in ToSet(online)
count_smi_events(c) == smi[c]

-----------------------------------------------------------------------------
(***************************************************************************)
(* Before the tests.                                                       *)
(***************************************************************************)
MonitorInit ==
  /\ host \in Machines
  /\ online = host.cpus
  /\ mce = host.counted
  /\ smi = host.smi
  /\ thermal = 0
  /\ pc = "main" /\ tests = {} /\ main = Statics /\ children = <<>>
  /\ report = NoReport /\ hotplugs = 0 /\ runs = 0
  /\ start = Now /\ last = Now

\* main(): mce_check cannot compare over exec, nor where nothing is counted.
SelectTests ==
  LET s == IF host.fork_mode = "exec_each_test" THEN main ELSE Reading(main)
      with_mce == host.fork_mode # "exec_each_test" /\ get_mce_interrupt_counts(s) # <<>>
  IN /\ pc = "main"
     /\ pc' = "preinit_smi"
     /\ main' = s
     /\ tests' = {"smi_count"} \cup (IF with_mce THEN {"mce_check"} ELSE {})
     /\ start' = Now
     /\ UNCHANGED <<host, kernel, children, report, hotplugs, runs, last>>

\* initialize_smi_counts() with the devices at cpus: the counts of all of
\* them, 0 for those that cannot be read, if the first one can be.
initialize_smi_counts(s, cpus) ==
  IF HasSmi(cpus[1])
  THEN [s EXCEPT !.smi_counts_start =
          [i \in DOMAIN cpus |-> IF HasSmi(cpus[i]) THEN count_smi_events(cpus[i]) ELSE 0]]
  ELSE s

\* preinit_tests(), first part: smi_count is skipped where no MSR can be read.
PreinitSmi ==
  /\ pc = "preinit_smi"
  /\ pc' = IF "mce_check" \in tests THEN "preinit_mce" ELSE "ready"
  /\ main' = initialize_smi_counts(main, host.tested)
  /\ tests' = IF HasSmi(host.tested[1]) THEN tests ELSE tests \ {"smi_count"}
  /\ start' = [start EXCEPT !.smi = smi] /\ last' = [last EXCEPT !.smi = smi]
  /\ UNCHANGED <<host, kernel, children, report, hotplugs, runs>>

\* preinit_tests(), last part: mce_check_preinit().
PreinitMce ==
  LET s      == Reading(main)
      counts == get_mce_interrupt_counts(s)
  IN /\ pc = "preinit_mce"
     /\ pc' = "ready"
     /\ main' = [s EXCEPT !.last_thermal_event_count = count_thermal_events(s),
                          !.mce_counts_start = counts,
                          !.mce_count_last = FoldSeq(+, 0, counts)]
     /\ start' = [Now EXCEPT !.smi = start.smi,
                             !.online = IF online = start.online THEN online ELSE <<>>]
     /\ last' = [Now EXCEPT !.smi = last.smi]
     /\ UNCHANGED <<host, kernel, tests, children, report, hotplugs, runs>>

-----------------------------------------------------------------------------
(***************************************************************************)
(* The runs of the two tests.                                              *)
(***************************************************************************)
NoFork == host.fork_mode = "no_fork"

\* The statics of the process that runs slice i, and what becomes of them.
Self(i) == IF NoFork THEN main ELSE children[i]
Become(i, s) ==
  IF NoFork THEN main' = s /\ UNCHANGED children
            ELSE children' = [children EXCEPT ![i] = s] /\ UNCHANGED main

\* A forked child has a copy of the parent's variables, an executed one starts
\* anew.
Started == IF host.fork_mode = "exec_each_test" THEN Statics ELSE main

BeginMce ==
  /\ pc = "ready" /\ "mce_check" \in tests /\ runs < MaxChecks
  /\ pc' = "mce" /\ runs' = runs + 1
  /\ children' = IF NoFork THEN <<>> ELSE <<Started>>
  /\ report' = [NoReport EXCEPT !.of = "mce_check"]
  /\ UNCHANGED <<host, kernel, tests, main, hotplugs, history>>

\* Faulty: a counter that has wrapped is below its baseline.
DifferencesUnwrapped(s, counts) ==
  [k \in DOMAIN counts |-> Max({0, counts[k] - s.mce_counts_start[k]})]

Differences(s, counts) ==
  [k \in DOMAIN counts |-> (counts[k] - s.mce_counts_start[k]) % Limit]

\* Those that differ, as CPU numbers.
Moved(differences) == {k - 1 : k \in {j \in DOMAIN differences : differences[j] # 0}}

\* mce_check_run() in thread 0, up to the thermal events.
CheckMce ==
  LET s      == Reading(Self(1))
      counts == get_mce_interrupt_counts(s)
      moved  == Moved(Differences(s, counts))
  IN /\ pc = "mce"
     /\ IF Len(counts) # Len(s.mce_counts_start)
        THEN /\ pc' = "end"
             /\ Become(1, s)
             /\ report' = [report EXCEPT !.changed = TRUE]
             /\ UNCHANGED last
        ELSE /\ pc' = "thermal"
             /\ Become(1, [s EXCEPT !.mce_counts_start = counts,
                                    !.mce_count_last = FoldSeq(+, 0, counts)])
             /\ report' = [report EXCEPT
                  !.threads = {i \in DOMAIN host.tested : host.tested[i] \in moved},
                  !.others = moved \ ToSet(host.tested)]
             /\ last' = [last EXCEPT !.mce = mce, !.online = online]
     /\ UNCHANGED <<host, kernel, tests, hotplugs, runs, start>>

\* The rest of mce_check_run().
CheckThermal ==
  LET s == Reading(Self(1)) IN
  /\ pc = "thermal"
  /\ pc' = "end"
  /\ report' = [report EXCEPT !.warned = count_thermal_events(s) # s.last_thermal_event_count]
  /\ Become(1, [s EXCEPT !.last_thermal_event_count = count_thermal_events(s)])
  /\ last' = [last EXCEPT !.thermal = thermal]
  /\ UNCHANGED <<host, kernel, tests, hotplugs, runs, start>>

BeginSmi ==
  /\ pc = "ready" /\ "smi_count" \in tests /\ runs < MaxChecks
  /\ pc' = "smi" /\ runs' = runs + 1
  /\ children' = IF NoFork THEN <<>> ELSE [i \in DOMAIN host.slices |-> Started]
  /\ report' = [NoReport EXCEPT !.of = "smi_count"]
  /\ UNCHANGED <<host, kernel, tests, main, hotplugs, history>>

\* device_info of slice i, from restrict_topology(): threads are numbered
\* within it.
DevicesOf(i) == SetToSortSeq(host.slices[i], <)
CpusOf(i)    == [t \in DOMAIN DevicesOf(i) |-> host.tested[DevicesOf(i)[t]]]

\* smi_count_run() in all threads of slice i, which only read.
Noticed(i) ==
  {t \in DOMAIN CpusOf(i) :
     /\ t \in DOMAIN Self(i).smi_counts_start
     /\ HasSmi(CpusOf(i)[t])
     /\ count_smi_events(CpusOf(i)[t]) # Self(i).smi_counts_start[t]}
RunSmi(i) ==
  /\ pc = "smi" /\ i \in DOMAIN host.slices /\ i \notin {r[1] : r \in report.smi}
  /\ report' = [report EXCEPT !.smi = @ \cup {<<i, {CpusOf(i)[t] : t \in Noticed(i)}>>}]
  /\ UNCHANGED <<host, kernel, pc, tests, main, children, hotplugs, runs, history>>

\* The cleanup function of smi_count takes a new baseline, in each process.
CleanupSmi ==
  /\ pc = "smi" /\ {r[1] : r \in report.smi} = DOMAIN host.slices
  /\ pc' = "end"
  /\ IF NoFork
     THEN main' = initialize_smi_counts(main, CpusOf(1)) /\ UNCHANGED children
     ELSE /\ children' = [i \in DOMAIN children |-> initialize_smi_counts(children[i], CpusOf(i))]
          /\ UNCHANGED main
  /\ last' = [last EXCEPT !.smi = smi]
  /\ UNCHANGED <<host, kernel, tests, report, hotplugs, runs, start>>

\* The children exit, and what they kept is gone.
EndRun ==
  /\ pc = "end"
  /\ pc' = "ready"
  /\ children' = <<>>
  /\ UNCHANGED <<host, kernel, tests, main, report, hotplugs, runs, history>>

-----------------------------------------------------------------------------
(***************************************************************************)
(* The host.                                                            *)
(***************************************************************************)
Happened ==
  LET more(f, g) == FoldFunction(+, 0, f) - FoldFunction(+, 0, g)
  IN more(mce, host.counted) + more(smi, host.smi) + thermal

MceEvent(p) ==
  /\ Happened < MaxEvents
  /\ host.arch = "x86_64" => p \in ToSet(online)
  /\ mce' = [mce EXCEPT ![p] = @ + 1]
  /\ UNCHANGED <<host, online, smi, thermal, pc, tests, main, children, report, hotplugs, runs, history>>

SmiEvent(c) ==
  /\ Happened < MaxEvents
  /\ c \in ToSet(online)
  /\ smi' = [smi EXCEPT ![c] = @ + 1]
  /\ UNCHANGED <<host, online, mce, thermal, pc, tests, main, children, report, hotplugs, runs, history>>

ThermalEvent ==
  /\ Happened < MaxEvents
  /\ thermal' = thermal + 1
  /\ UNCHANGED <<host, online, mce, smi, pc, tests, main, children, report, hotplugs, runs, history>>

\* A CPU goes offline or comes back; its column goes with it.
Hotplug(c) ==
  /\ hotplugs < MaxHotplugs
  /\ hotplugs' = hotplugs + 1
  /\ online' = SetToSortSeq(SymDiff(ToSet(online), {c}), <)
  /\ UNCHANGED <<host, mce, smi, thermal, pc, tests, main, children, report, runs, history>>

Finished == pc = "ready" /\ (runs = MaxChecks \/ tests = {}) /\ UNCHANGED mvars

MonitorNext ==
  \/ SelectTests \/ PreinitSmi \/ PreinitMce
  \/ BeginMce \/ CheckMce \/ CheckThermal
  \/ BeginSmi \/ CleanupSmi \/ EndRun
  \/ \E i \in DOMAIN host.slices : RunSmi(i)
  \/ \E p \in host.places : MceEvent(p)
  \/ \E c \in Cpus : SmiEvent(c)
  \/ \E c \in host.movable : Hotplug(c)
  \/ ThermalEvent
  \/ Finished

MonitorSpec == MonitorInit /\ [][MonitorNext]_mvars

-----------------------------------------------------------------------------
(***************************************************************************)
(* Properties.                                                             *)
(***************************************************************************)
\* What a process compares with: a child with the parent's baseline, the
\* program itself with what it read last.
Reference == IF NoFork THEN last ELSE start

\* The CPUs online have not changed since the first read, nor been others at
\* the reference.
Steady == online = start.online /\ online = Reference.online

\* The CPUs to which the errors since ref are attributed: those online, as the
\* kernel shows no others; on aarch64 EDAC counts for all, and CPU 0 stands for
\* them.
Erred(ref) ==
  LET places == {p \in host.places : mce[p] # ref.mce[p]}
  IN IF host.arch = "x86_64" THEN places \cap ToSet(online) ELSE {0 : p \in places}

\* The CPUs a report of mce_check names, the tested ones by their threads.
Named(r) == {host.tested[i] : i \in r.threads} \cup r.others

\* mce_check_run() blames exactly the CPUs that had errors since its reference,
\* and names each once: those tested by their thread, the others by their number.
ErrorsAreBlamed ==
  pc = "mce" /\ pc' \in {"thermal", "end"} /\ Steady
    => /\ ~report'.changed
       /\ Named(report') = Erred(Reference)
       /\ report'.others \cap ToSet(host.tested) = {}

\* It warns of thermal events when, and only when, there were some since the
\* reference; aarch64 counts none.
ThermalIsWarned ==
  pc = "thermal" /\ pc' = "end" /\ Steady
    => (report'.warned <=> host.arch = "x86_64" /\ thermal # Reference.thermal)

\* smi_count tells of the CPUs of the first slice that had SMIs since the
\* baseline and of no others, and without a baseline (over exec) of none.  (The
\* threads of another slice compare with the baseline of other CPUs.)
SmisAreNoticed ==
  \A r \in report'.smi \ report.smi :
    IF host.fork_mode = "exec_each_test" THEN r[2] = {}
    ELSE r[1] = 1 => r[2] = {c \in ToSet(CpusOf(1)) : smi[c] # Reference.smi[c]}

\* What mce_check (mce_check.cpp:52) and smi_count (smi_count.cpp:42) report is
\* what happened on those CPUs since the baseline that the process has of them,
\* whatever the counters held before, whether they have wrapped, in whichever
\* process the test runs and for the how manieth time; no CPU having gone or come.
MonitorsTell == [][ErrorsAreBlamed /\ ThermalIsWarned /\ SmisAreNoticed]_mvars
=============================================================================
