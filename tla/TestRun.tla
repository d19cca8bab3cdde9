------------------------------ MODULE TestRun ------------------------------
(***************************************************************************)
(* The whole run of the program: the loop over the tests in main()         *)
(* (sandstone.cpp) and, for each of them, run_one_test()                   *)
(* (sandstone_run.cpp), which repeats a test while it passes ("fractures"),*)
(* retries it when it failed, and analyses which threads failed.  One call *)
(* of run_one_test_once() is a choice of its result and of the threads it  *)
(* left marked as failed; TestAttempt is the module about that call.       *)
(***************************************************************************)
EXTENDS TestResults, Sequences, FiniteSets

CONSTANTS
  thread_count,
  MaxTests,         \* tests in test_set (and max_test_count)
  MaxFractures,     \* bound on the fractures of one test
  retest_count,     \* --retest-on-failure
  Budgets,          \* values of --total-retest-on-failure, -1 for no limit
  MaxRetestCount,   \* the bits of a PerThreadFailures entry
  FatalOptions      \* choices of what ends the run at once: -F, --fatal-skips

ASSUME ThreadAssumption == thread_count \in Nat \ {0}
ASSUME CountAssumption ==
  /\ MaxTests \in Nat \ {0} /\ MaxFractures \in Nat
  /\ MaxRetestCount \in Nat \ {0} /\ retest_count \in 0..MaxRetestCount
  /\ Budgets \subseteq Nat \cup {-1}
  /\ retest_count = 0 => Budgets \subseteq {0}
ASSUME FatalAssumption == FatalOptions \subseteq SUBSET {Failed, Skipped}

Thread == 0..(thread_count - 1)

\* What run_one_test_once() prints and leaves behind: failures of threads make
\* the run fail, other failures (init, a dying child) need no failed thread.
Attempt == [state : {Passed, Skipped}, failing : {{}}]
             \cup [state : {Failed}, failing : SUBSET Thread]

VARIABLES
  at,                  \* where main() and run_one_test() are
  log,                 \* the attempts of the current test, as printed
  fracturing,          \* current_max_loop_count allows another fracture
  time_up,             \* runtime >= current_test_duration
  fail_count,
  iterations,
  per_thread_failures, \* [Thread -> the set bits]
  analysis,            \* what analyze_test_failures() said last
  total_retest_count,
  total_tests_run,
  total_failures,
  total_skips,
  lastTestResult,
  exit_code,
  fatal,               \* the results that end the run: fatal_errors, fatal_skips
  history              \* of the whole run: the budget given, the retries made
                       \* and whether a failing attempt was printed

test    == <<log, fracturing, time_up, fail_count, iterations,
             per_thread_failures, analysis>>
counts  == <<total_tests_run, total_failures, total_skips, lastTestResult>>
program == <<counts, exit_code, fatal>>
vars    == <<at, test, total_retest_count, program, history>>

EXIT_SUCCESS == 0
EXIT_FAILURE == 1
EXIT_INVALID == 2
NoExit       == -1

Done == {"ended", "exited"}
-----------------------------------------------------------------------------
NoFailures == [t \in Thread |-> {}]

Init ==
  /\ at = "between"
  /\ log = <<>>
  /\ fracturing = FALSE
  /\ time_up = FALSE
  /\ fail_count = 0
  /\ iterations = 0
  /\ per_thread_failures = NoFailures
  /\ analysis = "none"
  /\ total_retest_count \in Budgets
  /\ total_tests_run = 0
  /\ total_failures = 0
  /\ total_skips = 0
  /\ lastTestResult = Skipped
  /\ fatal \in FatalOptions
  /\ exit_code = NoExit
  /\ history = [budget |-> total_retest_count, retries |-> 0, failed |-> FALSE]

-----------------------------------------------------------------------------
\* run_one_test(), up to the first fracture; whether the test fractures depends
\* on the test and the options.
StartTest ==
  /\ at = "between"
  /\ at' = "fracture"
  /\ log' = <<>>
  /\ fracturing' \in BOOLEAN
  /\ time_up' = FALSE
  /\ fail_count' = 0
  /\ iterations' = 0
  /\ per_thread_failures' = NoFailures
  /\ analysis' = "none"
  /\ UNCHANGED <<total_retest_count, program, history>>

\* The delay between two tests was interrupted; there is none after a skip.
StopBetweenTests ==
  /\ at = "between"
  /\ lastTestResult # Skipped
  /\ at' = "finish"
  /\ UNCHANGED <<test, total_retest_count, program, history>>

\* run_one_test() returns r to the loop in main().
ReturnToMain(r) ==
  /\ lastTestResult' = r
  /\ total_tests_run' = total_tests_run + 1
  /\ total_failures' = IF r = Failed THEN total_failures + 1 ELSE total_failures
  /\ total_skips' = IF r = Skipped THEN total_skips + 1 ELSE total_skips
  /\ at' = IF r \in fatal \/ total_tests_run' >= MaxTests THEN "finish" ELSE "between"
  /\ UNCHANGED <<exit_code, fatal>>

\* U(1) << t of a thread's own number.  From the width on the shift is undefined; the
\* instructions of x86-64 and AArch64 make it one modulo the width.
Bit(t) == t % MaxRetestCount

\* Faulty: without the limit.
MarkUpUnlimited(k, failing) ==
  /\ fail_count' = fail_count + 1
  /\ per_thread_failures' =
       [t \in Thread |-> per_thread_failures[t] \cup (IF t \in failing THEN {Bit(t)} ELSE {})]

\* mark_up_per_thread_fail(k): the bit is not the attempt's, because the parameter i
\* of the inner lambda, the thread's number, hides the attempt's i.
MarkUpPerThreadFail(k, failing) ==
  /\ fail_count' = fail_count + 1
  /\ per_thread_failures' =
       IF k >= MaxRetestCount THEN per_thread_failures
       ELSE [t \in Thread |-> per_thread_failures[t] \cup (IF t \in failing THEN {Bit(t)} ELSE {})]

PrintAttempt(a) ==
  /\ log' = Append(log, a)
  /\ history' = [history EXCEPT !.failed = @ \/ a.state = Failed,
                                !.retries = IF at = "retry" THEN @ + 1 ELSE @]

\* Faulty: runtime does not accumulate.
NeverOutOfTime == FALSE

\* runtime >= sApp->current_test_duration
OutOfTime == time_up

\* One round of the first loop of run_one_test().
Fracture(a) ==
  /\ at = "fracture"
  /\ Len(log) < MaxFractures \/ OutOfTime
  /\ PrintAttempt(a)
  /\ \/ /\ a.state = Skipped \/ (a.state = Passed /\ (~fracturing \/ OutOfTime))
        /\ ReturnToMain(a.state)
        /\ UNCHANGED <<fail_count, iterations, per_thread_failures>>
     \/ /\ a.state = Passed /\ fracturing /\ ~OutOfTime
        /\ UNCHANGED <<at, fail_count, iterations, per_thread_failures, program>>
     \/ /\ a.state = Failed
        /\ MarkUpPerThreadFail(0, a.failing)
        /\ iterations' = 1
        /\ at' = "retry"
        /\ UNCHANGED program
  /\ UNCHANGED <<fracturing, time_up, analysis, total_retest_count>>

\* The clock.
DurationElapses ==
  /\ at = "fracture" /\ ~time_up
  /\ time_up' = TRUE
  /\ UNCHANGED <<at, log, fracturing, fail_count, iterations,
                 per_thread_failures, analysis, total_retest_count, program, history>>

-----------------------------------------------------------------------------
\* Faulty: one retry less.
ShouldRetryLess ==
  /\ total_retest_count # 0
  /\ iterations < IF fail_count = 1 THEN 2 * retest_count ELSE retest_count

\* should_retry_test(): twice as often if only the original run has failed.
ShouldRetryTest ==
  /\ total_retest_count # 0
  /\ iterations <= IF fail_count = 1 THEN 2 * retest_count ELSE retest_count

CountDown == IF total_retest_count > 0 THEN total_retest_count - 1
             ELSE total_retest_count

Retry(a) ==
  /\ at = "retry"
  /\ ShouldRetryTest
  /\ total_retest_count' = CountDown
  /\ PrintAttempt(a)
  /\ IF a.state = Failed THEN MarkUpPerThreadFail(iterations, a.failing)
     ELSE UNCHANGED <<fail_count, per_thread_failures>>
  /\ iterations' = iterations + 1
  /\ UNCHANGED <<at, fracturing, time_up, analysis, program>>

\* analyze_test_failures()
FailedThreads == {t \in Thread : per_thread_failures[t] # {}}
AllThreadsFailedEqually ==
  /\ FailedThreads = Thread
  /\ \A t, u \in Thread : per_thread_failures[t] = per_thread_failures[u]

\* Faulty: the result of the last retry stands.
LastResult == log[Len(log)].state

ResultAfterRetries == Failed

AnalyzeAndReturn ==
  /\ at = "retry"
  /\ ~ShouldRetryTest
  /\ analysis' = IF AllThreadsFailedEqually THEN "software" ELSE "topology"
  /\ ReturnToMain(ResultAfterRetries)
  /\ UNCHANGED <<log, fracturing, time_up, fail_count, iterations,
                 per_thread_failures, total_retest_count, history>>

\* An attempt ends with an operating system error, which is not ignored.
ExitInvalid ==
  /\ at = "fracture" \/ (at = "retry" /\ ShouldRetryTest)
  /\ at' = "exited"
  /\ exit_code' = EXIT_INVALID
  /\ UNCHANGED <<test, total_retest_count, counts, fatal, history>>

\* The end of main().
Finish ==
  /\ at = "finish"
  /\ at' = "ended"
  /\ exit_code' = IF total_failures # 0 \/ (total_skips # 0 /\ Skipped \in fatal)
                  THEN EXIT_FAILURE ELSE EXIT_SUCCESS
  /\ UNCHANGED <<test, total_retest_count, counts, fatal, history>>

Terminated == at \in Done /\ UNCHANGED vars

-----------------------------------------------------------------------------
Program ==
  \/ StartTest \/ AnalyzeAndReturn \/ Finish
  \/ \E a \in Attempt : Fracture(a) \/ Retry(a)

Next == Program \/ StopBetweenTests \/ ExitInvalid \/ DurationElapses \/ Terminated

\* The program runs (run_one_test_once() returns, see ChildWait) and so does
\* the clock.
Fairness == WF_vars(Program) /\ WF_vars(DurationElapses)

Spec == Init /\ [][Next]_vars /\ Fairness

-----------------------------------------------------------------------------
(***************************************************************************)
(* Properties.                                                             *)
(***************************************************************************)
\* The variables have their types.
TypeOK ==
  /\ at \in {"between", "fracture", "retry", "finish"} \cup Done
  /\ log \in Seq(Attempt)
  /\ fracturing \in BOOLEAN
  /\ time_up \in BOOLEAN
  /\ fail_count \in Nat
  /\ iterations \in Nat
  /\ per_thread_failures \in [Thread -> SUBSET (0..(MaxRetestCount - 1))]
  /\ analysis \in {"none", "software", "topology"}
  /\ total_retest_count \in Nat \cup {-1}
  /\ total_tests_run \in 0..MaxTests
  /\ total_failures \in 0..MaxTests
  /\ total_skips \in 0..MaxTests
  /\ fatal \in SUBSET {Failed, Skipped}
  /\ lastTestResult \in {Passed, Skipped, Failed}
  /\ exit_code \in {NoExit, EXIT_SUCCESS, EXIT_FAILURE, EXIT_INVALID}
  /\ history \in [budget : Nat \cup {-1}, retries : Nat, failed : BOOLEAN]

\* The positions in log of the first failure and of the retries after it.
Retries     == Len(log) - (CHOOSE k \in DOMAIN log :
                             log[k].state = Failed /\ \A j \in 1..(k - 1) : log[j].state # Failed)
RetryLog(j) == log[Len(log) - Retries + j]
Analysed    == analysis # "none"

\* How often a failing test is retried, whatever the retries do: 2 * retest_count
\* times if none of them fails, else until the first of them that failed but at
\* least retest_count times, and never beyond what is left of the total.
RetriesAreExact ==
  Analysed =>
    LET failed == {j \in 1..Retries : RetryLog(j).state = Failed}
        wanted == IF failed = {} THEN 2 * retest_count
                  ELSE LET first == CHOOSE j \in failed : \A k \in failed : j <= k
                       IN IF first > retest_count THEN first ELSE retest_count
        left   == total_retest_count + Retries
    IN Retries = IF history.budget >= 0 /\ left < wanted THEN left ELSE wanted

\* --total-retest-on-failure limits the retries of all tests together.
BudgetIsKept ==
  history.budget >= 0 => history.retries + total_retest_count = history.budget

\* "Test failed %d out of %d times" counts all attempts printed since the first
\* failure, and the threads with any bit set, whichever bits they are, are exactly
\* those that failed in one of the first MaxRetestCount of these.
FailuresAreLocalised ==
  Analysed =>
    /\ iterations = Retries + 1
    /\ fail_count = Cardinality({k \in DOMAIN log : log[k].state = Failed})
    /\ FailedThreads = UNION {RetryLog(j).failing : j \in {k \in 0..Retries : k < MaxRetestCount}}

\* The exit code tells whether any attempt at any test has failed, even if the
\* retries passed and whatever came after, or a skip has ended the run.
ExitCodeTells ==
  at = "ended" =>
    (exit_code = EXIT_FAILURE
       <=> history.failed \/ (Skipped \in fatal /\ lastTestResult = Skipped))

\* The program ends: fracturing stops with the test's duration, retries with
\* their counts.
RunTerminates == <>(at \in Done)
=============================================================================
