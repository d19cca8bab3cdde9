---------------------------- MODULE RunEnvironment ----------------------------
(***************************************************************************)
(* The run of the program (TestRun) together with what each attempt at a    *)
(* test runs under: the state of the random engine and the frequencies of   *)
(* the machine.  Both move on from fracture to fracture and from test to    *)
(* test, stay for the retries of a failure, and are what a report gives to   *)
(* repeat it; the machine is put back as it was at the end.                  *)
(***************************************************************************)
EXTENDS TestRun, RandomEngine, Frequencies

CONSTANT
  Environments   \* the options and machines to start the program with
\* An environment is a record of
\*   budgets, fatals   the TestRun options it is combined with
\*   fork_mode         "fork_each_test", "exec_each_test" or "no_fork"
\*   seed              the argument of -s
\*   haveAes           the CPU has AES instructions
\*   init              the random functions a test's init function calls
\*   vary_frequency_mode, vary_uncore_frequency_mode
\*   machine           what Frequencies is about

ASSUME EnvironmentAssumption ==
  \A e \in Environments :
    /\ e.budgets \subseteq Budgets /\ e.fatals \subseteq FatalOptions
    /\ e.fork_mode \in {"fork_each_test", "exec_each_test", "no_fork"}
    /\ IsMachine(e.machine)
    /\ e.seed.kind \in {"none", "help", "unknown", "file", "engine", "state"}
    /\ e.seed.kind = "engine" => e.seed.engine \in EngineType
    /\ e.seed.kind = "state" => e.seed.state \in State
    /\ e.init \in Seq(DOMAIN RequestOf)

VARIABLES
  environment,
  ready,        \* main() is past its set-up
  global,       \* the engine of the parent's main thread
  machine,
  manager,      \* sApp->frequency_manager
  conditions,   \* what each attempt of log ran under
  seeds         \* history: the seeds of all attempts that were no retries

surroundings == <<environment, ready, global, machine, manager, conditions, seeds>>
evars        == <<vars, surroundings>>

NoEngine == [engine |-> "Constant", origin |-> "zero", drawn |-> 0]

EnvInit ==
  /\ Init
  /\ environment \in Environments
  /\ total_retest_count \in environment.budgets
  /\ fatal \in environment.fatals
  /\ ready = FALSE
  /\ global = NoEngine
  /\ machine = environment.machine
  /\ manager = NoManager
  /\ conditions = <<>>
  /\ seeds = {}

-----------------------------------------------------------------------------
(***************************************************************************)
(* The set-up in main().                                                   *)
(***************************************************************************)
\* f, a function of the manager, if a mode asks for it and what came before it
\* has returned.
ThenCore(mode, before, after) == IF mode /\ before.how = "returns" THEN after ELSE before

SetupFrequencies ==
  LET core   == ThenCore(environment.vary_frequency_mode, Returns(machine, manager),
                         initial_core_frequency_setup(machine, manager))
  IN ThenCore(environment.vary_uncore_frequency_mode, core,
              initial_uncore_frequency_setup(core.machine, core.manager))

Exited(code) == at' = "exited" /\ exit_code' = code /\ UNCHANGED <<counts, fatal>>

Setup ==
  /\ ~ready /\ at = "between"
  /\ \E r \in random_init_global(environment.seed, environment.haveAes) :
       \/ /\ Exits(r)
          /\ Exited(r.exit)
          /\ UNCHANGED <<ready, global, machine, manager>>
       \/ /\ ~Exits(r)
          /\ global' = r.state
          /\ machine' = SetupFrequencies.machine
          /\ manager' = SetupFrequencies.manager
          /\ ready' = (SetupFrequencies.how = "returns")
          /\ IF ready' THEN UNCHANGED <<at, program>> ELSE Exited(EXIT_NOPERMISSION)
  /\ UNCHANGED <<test, total_retest_count, history, environment, conditions, seeds>>

\* Faulty: nothing is put back.
Forgotten == machine

\* cleanup_global()
Restored ==
  LET core == IF environment.vary_frequency_mode
              THEN restore_core_frequency_initial_state(machine, manager) ELSE machine
  IN IF environment.vary_uncore_frequency_mode
     THEN restore_uncore_frequency_initial_state(core, manager) ELSE core

-----------------------------------------------------------------------------
(***************************************************************************)
(* One attempt.                                                            *)
(***************************************************************************)
\* The engine that the process of the test starts with: the parent's own, a copy,
\* or the one that random_init_global() makes of the seed in argv.
InChild ==
  IF environment.fork_mode = "exec_each_test"
  THEN (CHOOSE r \in random_init_global(random_format_seed(global), environment.haveAes) : TRUE).state
  ELSE global

\* After test_init() has drawn from it.
AfterInit == Calls(InChild, environment.init)

\* What the parent has left: without a child, that.
AfterAttempt == IF environment.fork_mode = "no_fork" THEN AfterInit ELSE global

\* The seed in the header, those of the threads (but for their mixins), the seed
\* in the report, and the frequencies under the machine m.
Condition(m) ==
  [seed     |-> random_format_seed(global).state,
   threads  |-> random_init_thread(AfterInit, [core |-> 0, package |-> 0, thread |-> 0]).global,
   reported |-> random_format_seed(AfterAttempt).state,
   core     |-> [cpu \in Cpus(m) |-> ReadSetspeed(m, cpu)],
   uncore   |-> m.uncore]

\* The frequencies of the next fracture.
ChangeFrequencies ==
  LET core == ThenCore(environment.vary_frequency_mode, Returns(machine, manager),
                       change_core_frequency(machine, manager))
  IN ThenCore(environment.vary_uncore_frequency_mode, core,
              change_uncore_frequency(core.machine, core.manager))

\* Faulty: a retry is another fracture.
ChangeAlways == ChangeFrequencies

\* A retry changes nothing.
RetryFrequencies == Returns(machine, manager)

\* What run_one_test() does at "out:".
Out ==
  /\ global' = random_advance_seed(AfterAttempt)
  /\ manager' = reset_frequency_level_idx(ChangeFrequencies.manager)

EnvFracture(a) ==
  /\ Fracture(a)
  /\ ChangeFrequencies.how = "returns"
  /\ machine' = ChangeFrequencies.machine
  /\ conditions' = Append(conditions, Condition(machine'))
  /\ seeds' = seeds \cup {global}
  /\ CASE at' = "retry"    -> /\ global' = AfterAttempt
                              /\ manager' = ChangeFrequencies.manager
       [] at' = "fracture" -> /\ global' = random_advance_seed(AfterAttempt)
                              /\ manager' = ChangeFrequencies.manager
       [] OTHER            -> Out
  /\ UNCHANGED <<environment, ready>>

EnvRetry(a) ==
  /\ Retry(a)
  /\ machine' = RetryFrequencies.machine
  /\ manager' = RetryFrequencies.manager
  /\ conditions' = Append(conditions, Condition(machine'))
  /\ global' = AfterAttempt
  /\ UNCHANGED <<environment, ready, seeds>>

EnvAnalyzeAndReturn ==
  /\ AnalyzeAndReturn
  /\ global' = random_advance_seed(global)
  /\ manager' = reset_frequency_level_idx(manager)
  /\ UNCHANGED <<environment, ready, machine, conditions, seeds>>

\* A frequency cannot be set: the program exits where it is, or dies.
FrequencyFails ==
  /\ at = "fracture" /\ ChangeFrequencies.how # "returns"
  /\ machine' = ChangeFrequencies.machine
  /\ Exited(IF ChangeFrequencies.how = "exits" THEN EXIT_NOPERMISSION ELSE NoExit)
  /\ UNCHANGED <<test, total_retest_count, history, environment, ready, global, manager,
                 conditions, seeds>>

\* SIGINT or the like while the children of a test run: wait_for_children() ends
\* them, calls cleanup_global() and raises the signal again.
KilledBySignal ==
  /\ at = "fracture" \/ (at = "retry" /\ ShouldRetryTest)
  /\ at = "fracture" => ChangeFrequencies.how = "returns"
  /\ environment.fork_mode # "no_fork"
  /\ Exited(NoExit)
  /\ machine' = Restored
  /\ UNCHANGED <<test, total_retest_count, history, environment, ready, global, manager,
                 conditions, seeds>>

EnvStartTest ==
  /\ StartTest
  /\ conditions' = <<>>
  /\ UNCHANGED <<environment, ready, global, machine, manager, seeds>>

\* Those that end with cleanup_global(); an attempt that cannot start a child has
\* set its frequencies before.
EnvFinish ==
  /\ Finish
  /\ machine' = Restored
  /\ UNCHANGED <<environment, ready, global, manager, conditions, seeds>>

EnvExitInvalid ==
  /\ ExitInvalid
  /\ at = "fracture" => ChangeFrequencies.how = "returns"
  /\ machine' = Restored
  /\ UNCHANGED <<environment, ready, global, manager, conditions, seeds>>

EnvProgram ==
  \/ Setup
  \/ /\ ready
     /\ \/ EnvStartTest \/ EnvAnalyzeAndReturn \/ EnvFinish \/ FrequencyFails
        \/ \E a \in Attempt : EnvFracture(a) \/ EnvRetry(a)

Clock == ready /\ DurationElapses /\ UNCHANGED surroundings

EnvNext ==
  \/ EnvProgram \/ Clock
  \/ ready /\ (EnvExitInvalid \/ KilledBySignal \/ (StopBetweenTests /\ UNCHANGED surroundings))
  \/ Terminated /\ UNCHANGED surroundings

EnvSpec == EnvInit /\ [][EnvNext]_evars /\ WF_evars(EnvProgram) /\ WF_evars(Clock)

-----------------------------------------------------------------------------
(***************************************************************************)
(* Properties.                                                             *)
(***************************************************************************)
InProcess == environment.fork_mode = "no_fork" /\ environment.init # <<>>

\* The first failure of the current test, if any, is followed by its retries.
HasFailed    == \E k \in DOMAIN log : log[k].state = Failed
FirstFailure == Len(conditions) - Retries

\* The retries of a failure run under the conditions of the failure, and the seed
\* in the report, given to another run of the program, gives the threads the
\* same numbers.  Not so where test_init() draws in the parent itself.
RetriesRepeat ==
  HasFailed =>
    \A k \in FirstFailure..Len(conditions) :
      LET c == conditions[k]
      IN /\ c.core = conditions[FirstFailure].core
         /\ c.uncore = conditions[FirstFailure].uncore
         /\ ~InProcess =>
              /\ c.seed = conditions[FirstFailure].seed
              /\ c.reported = c.seed
              /\ c.threads = random_init_thread(Calls(c.reported, environment.init),
                                                [core |-> 0, package |-> 0, thread |-> 0]).global

\* No two fractures, of one test or of two, use the same seed unless the engine
\* never moves.
SeedsAreFresh == at = "fracture" => Stuck(global) \/ global \notin seeds

\* The first fractures of a test use each its own frequency, the highest first,
\* as many as there are levels.
FrequenciesVary ==
  environment.vary_frequency_mode /\ manager.core_supported /\ environment.machine.userspace =>
    LET fractures == 1..(IF HasFailed THEN FirstFailure ELSE Len(conditions))
        varied    == {k \in fractures : k <= manager.core_total}
    IN \A cpu \in Cpus(machine) :
         /\ 1 \in varied => conditions[1].core[cpu] = environment.machine.range[2]
         /\ \A j, k \in varied : j # k => conditions[j].core[cpu] # conditions[k].core[cpu]

\* What docs/writing_tests.md promises of a seed, and the purpose of fractures.
AttemptsRepeatAndVary == RetriesRepeat /\ SeedsAreFresh /\ FrequenciesVary

\* The files of the machine are complete where the options need them, those of
\* the packages numbered as the manager counts them, and writable.  intel_pstate
\* is under its default governor: that is what it comes back with.
Usable(e) ==
  LET m == e.machine
  IN /\ m.root
     /\ e.vary_frequency_mode =>
          /\ m.governed = Cpus(m) /\ m.range # <<>> /\ m.range[2] - m.range[1] >= 100000
          /\ m.pstate = "active" => \A cpu \in Cpus(m) : m.governor[cpu] = "powersave"
     /\ e.vary_uncore_frequency_mode =>
          \A k \in 0..(Cardinality(Packages(m)) - 1) :
            k \in m.uncore_tree /\ m.uncore[k][2] - m.uncore[k][1] >= 100000

\* The governors, speeds and the driver of m are those of the machine m0.
SameFrequencies(m, m0) ==
  /\ m.pstate = m0.pstate
  /\ m.governor = m0.governor
  /\ \A cpu \in Cpus(m0) : ReadSetspeed(m, cpu) = ReadSetspeed(m0, cpu)
  /\ m.uncore = m0.uncore

\* However the program ends, by itself, with an error of the operating system or
\* by a signal, at whatever frequency it has got to: the machine is as before.
MachineIsRestored ==
  at \in Done /\ Usable(environment) => SameFrequencies(machine, environment.machine)
=============================================================================
