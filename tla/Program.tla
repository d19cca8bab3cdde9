------------------------------- MODULE Program -------------------------------
(***************************************************************************)
(* main() of sandstone.cpp: the command line, the selection of tests of     *)
(* sandstone_tests.cpp, the order of the tests and their repetition, and    *)
(* the waits between them, those of the background scan service included.   *)
(* run_one_test() is one step here; TestRun and TestAttempt have its parts. *)
(* Time goes in ticks, the shortest a test takes; the ages of what is       *)
(* remembered are capped where nothing depends on them any more.            *)
(***************************************************************************)
EXTENDS Options, FiniteSets, SequencesExt

CONSTANTS
  CommandLines,   \* the command lines to start the program with
  Regular,        \* the regular tests, in the order of the section
  Selftests,      \* the self tests
  mce_check,      \* the one special test of a CPU build
  quality_level,  \* [Test -> quality]
  optional,       \* the tests with the flag test_is_optional
  groups,         \* [Test -> SUBSET group]
  id,             \* [Test -> sequence of characters]: test->id, without a dot
  KnobNames, KnobDefault,  \* the knobs that tests ask for, and the value if not present
  Builtin,        \* the tests of the built-in list
  MaxTestTime,    \* bound: ticks a test takes
  MaxEndTime,     \* bound: ticks that -T gives, at most
  BatchSize,      \* size of the array of timestamps
  DelayBetweenTestBatch, MinimumDelayBetweenTests,
  MaxTests,       \* bound: counter of tests run; a --max-test-count is at most this
  MaxRestarts     \* bound: how often the service is restarted

Test == {Regular[i] : i \in DOMAIN Regular} \cup {Selftests[i] : i \in DOMAIN Selftests} \cup {mce_check}
MaximumDelayBetweenTests == DelayBetweenTestBatch \div 2

ASSUME ProgramAssumption ==
  /\ quality_level \in [Test -> {TEST_QUALITY_SKIP, TEST_QUALITY_BETA, TEST_QUALITY_PROD}]
  /\ optional \subseteq Test
  /\ \A t \in Test : id[t] # <<>> /\ Dot \notin ToSet(id[t])
  /\ MaxTestTime \in Nat \ {0} /\ MaxEndTime \in Nat /\ MaxRestarts \in Nat
  /\ MaxTests \in Nat \ {0}
  /\ BatchSize \in Nat \ {0}
  /\ DelayBetweenTestBatch \in Nat /\ MinimumDelayBetweenTests \in Nat \ {0}

VARIABLES
  cmdline,      \* argv
  phase,        \* where main() is
  cfg,          \* what parse_cmdline() made of the command line
  mce_counts,   \* whether the machine counts MCE interrupts
  test_set,     \* SandstoneTestSet's test_set
  it,           \* main's iterator in it
  lastTestResult, total_tests_run, failures, skips,
  elapsed,      \* ticks since sApp->starttime, at most MaxEndTime + 1
  iterations,   \* of should_start_next_iteration()
  timestamp,    \* ages of sApp->background_scan.timestamp, in a file
  exit_code,
  ran,          \* history: the tests run in this iteration
  last_loop,    \* history: the tests run in the last complete iteration
  starts,       \* history: ages of the starts of tests not skipped, the last one first
  own,          \* history: how many of these this process made, at most BatchSize + 1
  restarts      \* how often the service was restarted

config == <<cmdline, mce_counts>>
counts == <<lastTestResult, total_tests_run, failures, skips>>
times  == <<elapsed, timestamp, starts, own>>
pvars  == <<config, phase, cfg, test_set, it, counts, iterations, times, exit_code, ran, last_loop,
            restarts>>
-----------------------------------------------------------------------------
(***************************************************************************)
(* SandstoneTestSet.  A name is an exact one, a group or a pattern, which   *)
(* is the set of tests it matches.                                          *)
(***************************************************************************)
Id(t)         == [kind |-> "id", test |-> t]
Group(g)      == [kind |-> "group", name |-> g]
Glob(matches) == [kind |-> "glob", tests |-> matches]
Unknown       == [kind |-> "unknown"]

test_source == IF cfg.is_selftest THEN Selftests ELSE Regular
special_tests == <<mce_check>>

\* enable_all_tests
Applicable(t) ==
  /\ t \in optional => cfg.include_optional
  /\ quality_level[t] >= cfg.requested_quality

Matches(name, t) ==
  CASE name.kind = "id"      -> t = name.test
    [] name.kind = "group"   -> name.name \in groups[t] /\ (t \in optional => cfg.include_optional)
    [] name.kind = "glob"    -> /\ t \in name.tests /\ t # mce_check
                                /\ quality_level[t] >= cfg.requested_quality
    [] name.kind = "unknown" -> FALSE

lookup(name) == SelectSeq(test_source \o special_tests, LAMBDA t : Matches(name, t))

\* A list file or the built-in list; a line names exactly one test.
BadLine(name) == IF lookup(name) = <<>> THEN ~cfg.ignore_unknown_tests ELSE Len(lookup(name)) # 1
TestsOf(names) == FlattenSeq([i \in DOMAIN names |-> lookup(names[i])])

\* add_builtin_test_list() appends each test twice.
AddBuiltin == FlattenSeq([i \in DOMAIN Builtin |-> <<Builtin[i], Builtin[i]>>])

\* Faulty: like std::find() and erase(), only the first of several.
remove_first(set, t) == RemoveFirst(set, t)

remove(set, t) == SelectSeq(set, LAMBDA x : x # t)

-----------------------------------------------------------------------------
(***************************************************************************)
(* Time.                                                                   *)
(***************************************************************************)
Least(a, b) == IF a < b THEN a ELSE b

\* MonotonicTimePoint::clock::now() grows by d.
Age(a, d) == Least(a + d, DelayBetweenTestBatch)

Pass(d) ==
  /\ elapsed' = Least(elapsed + d, MaxEndTime + 1)
  /\ timestamp' = [i \in DOMAIN timestamp |-> Age(timestamp[i], d)]

AgeStarts(d) == [i \in DOMAIN starts |-> Age(starts[i], d)]

wallclock_deadline_has_expired(deadline) ==
  \/ elapsed > deadline
  \/ cfg.use_strict_runtime /\ elapsed > cfg.endtime

LongAgo == [i \in 1..BatchSize |-> DelayBetweenTestBatch]

\* Fills the timestamps of the file, found or new, at every start of the service:
\* the constructor of FileLayout has just set initialized to 0.
background_scan_init ==
  timestamp' = IF cfg.service_background_scan THEN LongAgo ELSE timestamp

-----------------------------------------------------------------------------
PInit ==
  /\ cmdline \in CommandLines
  /\ mce_counts \in BOOLEAN
  /\ phase = "start"
  /\ cfg = Usage
  /\ test_set = <<>> /\ it = 1
  /\ lastTestResult = "Skipped" /\ total_tests_run = 0 /\ failures = FALSE /\ skips = FALSE
  /\ elapsed = 0 /\ iterations = 0
  /\ timestamp = LongAgo
  /\ exit_code = EXIT_SUCCESS
  /\ ran = <<>> /\ last_loop = <<>> /\ starts = <<>> /\ own = 0
  /\ restarts = 0

Exit(code) ==
  /\ phase' = "ended"
  /\ exit_code' = code
  /\ UNCHANGED <<config, counts, it, iterations, ran, last_loop, restarts>>

\* Up to the switch over opts.action: all actions but run end here.
ParseCommandLine ==
  /\ phase = "start"
  /\ cfg' = parse_cmdline(cmdline)
  /\ UNCHANGED <<test_set, times>>
  /\ IF cfg'.ret # EXIT_SUCCESS \/ cfg'.action # "run"
     THEN Exit(cfg'.ret)
     ELSE phase' = "parsed" /\ UNCHANGED <<config, counts, it, iterations, exit_code, ran, last_loop, restarts>>

\* What is enabled, or everything applicable.
Enabled ==
  IF cfg.enabled_tests = <<>> /\ cfg.builtin_test_list_name = "" /\ cfg.test_list_file_path = <<>>
  THEN SelectSeq(test_source, Applicable)
  ELSE TestsOf(cfg.enabled_tests)
       \o (IF cfg.test_list_file_path = <<>> THEN <<>> ELSE TestsOf(cfg.test_list_file_path[1]))
       \o (IF cfg.builtin_test_list_name = "" THEN <<>> ELSE AddBuiltin)

SelectionIsWrong ==
  \/ ~cfg.ignore_unknown_tests
     /\ \E i \in DOMAIN cfg.enabled_tests : lookup(cfg.enabled_tests[i]) = <<>>
  \/ cfg.test_list_file_path # <<>>
     /\ \E i \in DOMAIN cfg.test_list_file_path[1] : BadLine(cfg.test_list_file_path[1][i])
  \/ cfg.builtin_test_list_name # "" /\ Builtin = <<>>

\* The MCE test cannot compare counters over exec, or where there are none.
CanMonitor == cfg.fork_mode # "exec_each_test" /\ mce_counts

Disabled == FlattenSeq([i \in DOMAIN cfg.disabled_tests |-> lookup(cfg.disabled_tests[i])])
Monitors == IF cfg.ignore_mce_errors THEN <<>> ELSE special_tests

Selected ==
  FoldLeft(remove, Enabled \o Monitors, Disabled \o (IF CanMonitor THEN <<>> ELSE special_tests))

\* Everything up to preinit_tests(): the timestamps and the test set.
SelectTests ==
  /\ phase = "parsed"
  /\ background_scan_init
  /\ UNCHANGED <<cfg, elapsed, starts, own>>
  /\ IF SelectionIsWrong
     THEN Exit(EX_USAGE) /\ UNCHANGED test_set
     ELSE /\ test_set' = Selected
          /\ phase' = "first"
          /\ UNCHANGED <<config, counts, it, iterations, exit_code, ran, last_loop, restarts>>

-----------------------------------------------------------------------------
(***************************************************************************)
(* The order of the tests.                                                 *)
(***************************************************************************)
\* std::shuffle() of the first n.
Shuffle(set, n) ==
  {[i \in DOMAIN set |-> IF i <= n THEN set[f[i]] ELSE set[i]] : f \in Permutations(1..n)}

\* All but as many as there are special tests, whether these are in the set or not.
maybe_reshuffle(set) ==
  IF cfg.randomize THEN Shuffle(set, Len(set) - Len(special_tests)) ELSE {set}

\* Tests of this quality are passed over even if they are enabled by name.
PassedOver(t) == quality_level[t] < 0 /\ cfg.requested_quality >= 0

\* The first test from i on that is not, or the end.
NextFrom(set, i) ==
  CHOOSE j \in i..Len(set) + 1 :
    /\ j <= Len(set) => ~PassedOver(set[j])
    /\ \A k \in i..j - 1 : PassedOver(set[k])

\* get_first_test()
GetFirst ==
  /\ Len(test_set) >= Len(special_tests) \/ ~cfg.randomize
  /\ test_set' \in maybe_reshuffle(test_set)
  /\ it' = NextFrom(test_set', 1)
  /\ phase' = IF it' > Len(test_set) THEN "end" ELSE "next"

\* std::shuffle() with a last before the first: anything may happen.
ShuffleNothing ==
  /\ cfg.randomize /\ Len(test_set) < Len(special_tests)
  /\ phase' = "undefined"
  /\ UNCHANGED <<test_set, it>>

get_first_test ==
  /\ phase = "first"
  /\ GetFirst \/ ShuffleNothing
  /\ ran' = <<>>
  /\ UNCHANGED <<config, cfg, counts, iterations, times, exit_code, last_loop, restarts>>

\* Is there time for one more, of average length?
TimeForOneMore ==
  cfg.use_strict_runtime \/
    ~wallclock_deadline_has_expired(
        IF cfg.endtime = forever THEN forever ELSE cfg.endtime - elapsed \div iterations')

\* should_start_next_iteration(); the counter is of use only when there is an end.
NextIteration ==
  /\ iterations' = Least(iterations + 1, MaxEndTime + 1)
  /\ last_loop' = ran
  /\ IF TimeForOneMore THEN GetFirst /\ ran' = <<>>
     ELSE phase' = "end" /\ UNCHANGED <<test_set, it, ran>>

get_next_test ==
  /\ phase = "advance"
  /\ UNCHANGED <<config, cfg, counts, times, exit_code, restarts>>
  /\ IF cfg.use_strict_runtime /\ wallclock_deadline_has_expired(cfg.endtime)
     THEN phase' = "end" /\ UNCHANGED <<test_set, it, iterations, ran, last_loop>>
     ELSE LET next == NextFrom(test_set, it + 1) IN
          IF next > Len(test_set) THEN NextIteration
          ELSE it' = next /\ phase' = "next" /\ UNCHANGED <<test_set, iterations, ran, last_loop>>

-----------------------------------------------------------------------------
(***************************************************************************)
(* The loop of main().                                                     *)
(***************************************************************************)
LoopFrame == <<config, cfg, test_set, it, counts, iterations, exit_code, ran, last_loop, restarts>>

\* Of BETA quality and not asked for: run_one_test_once() skips it.
Gated(t) == quality_level[t] = TEST_QUALITY_BETA /\ quality_level[t] < cfg.requested_quality

\* History: one more start, of which as many are kept as the limits are about.
MaxStarts == BatchSize * (MaxRestarts + 1) + 1

NoteStart(d) ==
  /\ starts' = SubSeq(<<Age(0, d)>> \o AgeStarts(d), 1, Least(Len(starts) + 1, MaxStarts))
  /\ own' = Least(own + 1, BatchSize + 1)

\* run_one_test() and what follows it in the loop's body.
RunTest ==
  /\ phase = "run"
  /\ \E r \in {"Skipped", "Passed", "Failed"}, d \in 1..MaxTestTime :
       /\ Gated(test_set[it]) => r = "Skipped"
       /\ Pass(d)
       /\ IF r = "Skipped" THEN starts' = AgeStarts(d) /\ UNCHANGED own ELSE NoteStart(d)
       /\ lastTestResult' = r
       /\ total_tests_run' = Least(total_tests_run + 1, MaxTests)
       /\ failures' = (failures \/ r = "Failed")
       /\ skips' = (skips \/ r = "Skipped")
       /\ phase' = IF \/ r = "Failed" /\ cfg.fatal_errors
                      \/ r = "Skipped" /\ cfg.fatal_skips
                      \/ total_tests_run' >= cfg.max_test_count
                   THEN "end" ELSE "advance"
  /\ ran' = Append(ran, test_set[it])
  /\ UNCHANGED <<config, cfg, test_set, it, iterations, exit_code, last_loop, restarts>>

\* The wait between tests, if there was one that was not skipped.
NoWait ==
  /\ phase = "next" /\ lastTestResult = "Skipped"
  /\ phase' = "run"
  /\ UNCHANGED <<LoopFrame, times>>

\* wait_delay_between_tests()
Delay ==
  /\ phase = "next" /\ lastTestResult # "Skipped" /\ ~cfg.service_background_scan
  /\ \E d \in 0..1 : Pass(d) /\ starts' = AgeStarts(d)
  /\ phase' = "run"
  /\ UNCHANGED <<LoopFrame, own>>

\* Faulty: the timestamps are not moved.
KeepTimestamps(stamps) == [stamps EXCEPT ![1] = 0]

\* All but the oldest move up by one, the first is now.
MoveTimestamps(stamps) == <<0>> \o SubSeq(stamps, 1, Len(stamps) - 1)

\* background_scan_wait(): as many tests as the array holds make a batch.
BeginWait ==
  /\ phase = "next" /\ lastTestResult # "Skipped" /\ cfg.service_background_scan
  /\ timestamp' = MoveTimestamps(timestamp)
  /\ phase' = IF DelayBetweenTestBatch > timestamp'[BatchSize] THEN "batch" ELSE "idle"
  /\ UNCHANGED <<LoopFrame, elapsed, starts, own>>

\* do_wait(): the time varies by up to as much in both directions.
DoWait(base, variable) ==
  /\ \E d \in base - variable .. base + variable : Pass(d) /\ starts' = AgeStarts(d)
  /\ phase' = "check"
  /\ UNCHANGED <<LoopFrame, own>>

WaitForBatch ==
  /\ phase = "batch"
  /\ DoWait(DelayBetweenTestBatch - timestamp[BatchSize] + MinimumDelayBetweenTests,
            MinimumDelayBetweenTests)

WaitForIdle ==
  /\ phase = "idle"
  /\ DoWait(MinimumDelayBetweenTests, MinimumDelayBetweenTests \div 10)

\* Faulty: there is no maximum.
NeverTooLong == FALSE

\* No test for half a day, counted from the beginning of this wait.
TooLong == timestamp[1] > MaximumDelayBetweenTests

\* The load of the system is idle enough or not.
CheckLoad ==
  /\ phase = "check"
  /\ phase' = "run" \/ (~TooLong /\ phase' = "idle")
  /\ UNCHANGED <<LoopFrame, times>>

\* A signal interrupts usleep() in any of the waits.
WaitInterrupted ==
  /\ phase \in {"batch", "idle"} \/ (phase = "next" /\ lastTestResult # "Skipped" /\ ~cfg.service_background_scan)
  /\ phase' = "end"
  /\ UNCHANGED <<LoopFrame, times>>

\* After the loop.
Finish ==
  /\ phase = "end"
  /\ Exit(IF failures \/ (skips /\ cfg.fatal_skips) THEN 1 ELSE EXIT_SUCCESS)
  /\ UNCHANGED <<cfg, test_set, times>>

\* The service is killed and started again.  Nothing of the process stays, and of the
\* file only what background_scan_init() will overwrite.
Restart ==
  /\ phase \notin {"start", "parsed", "ended"} /\ cfg.service_background_scan
  /\ restarts < MaxRestarts
  /\ restarts' = restarts + 1
  /\ phase' = "start"
  /\ cfg' = Usage /\ test_set' = <<>> /\ it' = 1
  /\ lastTestResult' = "Skipped" /\ total_tests_run' = 0 /\ failures' = FALSE /\ skips' = FALSE
  /\ elapsed' = 0 /\ iterations' = 0
  /\ exit_code' = EXIT_SUCCESS
  /\ ran' = <<>> /\ last_loop' = <<>> /\ own' = 0
  /\ UNCHANGED <<config, timestamp, starts>>

Ended == phase \in {"ended", "undefined"} /\ UNCHANGED pvars

Step ==
  \/ ParseCommandLine \/ SelectTests
  \/ get_first_test \/ get_next_test
  \/ RunTest
  \/ NoWait \/ Delay \/ BeginWait \/ WaitForBatch \/ WaitForIdle \/ CheckLoad
  \/ Finish

PNext == Step \/ WaitInterrupted \/ Restart \/ Ended

\* The program goes on by itself; signals and restarts need not come.
PSpec == PInit /\ [][PNext]_pvars /\ WF_pvars(Step)

-----------------------------------------------------------------------------
(***************************************************************************)
(* Properties.                                                             *)
(***************************************************************************)

\* The command line without the options that a later one of their group overrides.
OnlyLast(line) ==
  LET overridden(i) == \E g \in DOMAIN Groups : \E j \in i + 1..Len(line) :
                         {line[i].opt, line[j].opt} \subseteq Groups[g]
  IN  FoldLeft(LAMBDA l, i : IF overridden(i) THEN l ELSE Append(l, line[i]), <<>>,
               [i \in DOMAIN line |-> i])

\* Two exceptions: the time of a repeated -T, and the indent a later -Y leaves alone.
Repeats(line, opt) == Len(SelectSeq(line, LAMBDA o : o.opt = opt)) > 1

\* opts_parser_tests.cpp, last_option_takes_precedence: of the options that exclude
\* each other the last one decides, as if the others had not been given, whatever
\* their order and that of the options between them.
LastOptionDecides ==
  phase \notin {"start"} /\ ~Repeats(cmdline, "T") /\ ~Repeats(cmdline, "Y")
    => cfg = parse_cmdline(OnlyLast(cmdline))

\* What a test reads of a knob, in the process it runs in.
ReadKnob(t, type, of_test, name) ==
  KnobValue(KnobsOf(cfg.test_knobs, cfg.fork_mode, id[t]), type, KeyRead(of_test, id[t], name), KnobDefault)

\* What it should be: the last -O for the key, as it was written, if it is of the
\* type and fits it; otherwise the default, or whatever a misfit becomes.
GivenFor(key) == SelectSeq(cmdline, LAMBDA o : o.opt = "O" /\ o.arg.words[1] = key)
Fits(type, n) ==
  n \in IF type = "int" THEN -(Modulus \div 2) .. Modulus \div 2 - 1 ELSE 0 .. Modulus - 1
ReadAsGiven(read, type, given) ==
  IF given = <<>> \/ ~Taken(type, Last(given).arg.words[2])
  THEN read = [value |-> KnobDefault, origin |-> "Defaulted"]
  ELSE LET v == Last(given).arg.words[2]
       IN /\ read.origin = "Options"
          /\ (type \in Integer => Fits(type, v.n)) => read.value = v

\* A test reads each of its knobs, and of those of no test, as the last -O for it
\* says (test_knobs.cpp:62), whether it runs in the program, a forked child or one
\* executed for it (test_knobs.cpp:80), negative integers too, though strtoull()
\* reads them all (test_knobs.cpp:121); and an executed child has no knob of another
\* test.  (A knob of no test with a dot in its name does not reach such a child.)
KnobsReachTests ==
  phase = "run" =>
    LET t == test_set[it]
        knobs == KnobsOf(cfg.test_knobs, cfg.fork_mode, id[t])
    IN /\ \A type \in Integer \cup {"double", "string"}, of_test \in BOOLEAN, name \in KnobNames :
            of_test \/ Dot \notin ToSet(name) \/ cfg.fork_mode # "exec_each_test" =>
              ReadAsGiven(ReadKnob(t, type, of_test, name), type, GivenFor(KeyRead(of_test, id[t], name)))
       /\ cfg.fork_mode = "exec_each_test" =>
            \A i \in DOMAIN knobs : DotPos(knobs[i].key) >= 0 => IsPrefix(TestKey(id[t], <<>>), knobs[i].key)

\* How often an iteration has to run a test.
Named(names, t) == Cardinality({i \in DOMAIN names : Matches(names[i], t)})

Copies(t) ==
  IF \/ PassedOver(t) \/ Named(cfg.disabled_tests, t) > 0
     \/ t = mce_check /\ ~CanMonitor
     \/ t # mce_check /\ ~\E i \in DOMAIN test_source : test_source[i] = t
  THEN 0
  ELSE (IF t = mce_check /\ ~cfg.ignore_mce_errors THEN 1 ELSE 0)
       + (IF cfg.enabled_tests # <<>> \/ cfg.test_list_file_path # <<>>
          THEN Named(cfg.enabled_tests, t) + Named(FlattenSeq(cfg.test_list_file_path), t)
          ELSE IF t # mce_check /\ Applicable(t) THEN 1 ELSE 0)

\* sandstone_tests.cpp: each complete iteration, in whatever order, runs every test
\* as often as it was enabled, and none that was disabled or is passed over; the
\* monitors come last.  (A built-in list is left out: its tests are added twice.)
IterationRunsSelection ==
  last_loop # <<>> /\ cfg.ret = EXIT_SUCCESS /\ cfg.builtin_test_list_name = "" =>
    /\ \A t \in Test : Len(SelectSeq(last_loop, LAMBDA x : x = t)) = Copies(t)
    /\ Copies(mce_check) > 0 => Last(last_loop) = mce_check

\* The starts, of the first n, within the time of a batch.
Recent(n) == {i \in 1..n : starts[i] < DelayBetweenTestBatch}

\* background_scan_wait(), "Don't run too many tests in a short period of time":
\* when a test starts, the process has started fewer than a batch within the time of
\* a batch, whatever the load and the tests skipped in between.  Over restarts this
\* does not hold: each of them begins with a batch of its own, but gives no more.
BatchLimit ==
  [][ cfg.ret = EXIT_SUCCESS /\ cfg'.ret = EXIT_SUCCESS /\ phase = "run" /\ lastTestResult' # "Skipped"
      /\ cfg.service_background_scan
        => /\ Cardinality(Recent(own)) < BatchSize
           /\ Cardinality(Recent(Len(starts))) < BatchSize * (restarts + 1)
    ]_pvars

\* A system that is never idle delays a test of the service, but not forever
\* (sandstone.cpp:934); and with -T, or with no time given, the program comes to its
\* end, however long its iterations take (sandstone.cpp:530).
RunsGoOnAndEnd ==
  /\ phase = "idle" ~> phase \in {"run", "end", "start"}
  /\ [](phase = "first" /\ cfg.endtime # forever => <>(phase \in {"ended", "undefined"}))
=============================================================================
