------------------------ MODULE RunEnvironment_proofs ------------------------
(***************************************************************************)
(* Proofs about the run loop, for every number of tests, threads and       *)
(* retries: first about TestRun alone, its exit code, how often it retries, *)
(* what its analyses name; then with the set-up and the ways to end that    *)
(* the environment adds, about the seeds and the frequencies that retries   *)
(* and fractures get and the machine they leave, whatever its CPUs,         *)
(* packages and frequencies.                                                *)
(***************************************************************************)
EXTENDS RunEnvironment, FiniteSetTheorems, FunctionTheorems, WellFoundedInduction,
        TLAPS

-----------------------------------------------------------------------------
(***************************************************************************)
(* TestRun.                                                                *)
(***************************************************************************)
\* The counters of main() agree with what was printed: a test that is not over
\* has its failure still ahead of total_failures.  If skips are fatal, only the
\* last test has been skipped.
CountInv ==
  /\ at \in {"between", "finish"} => (total_failures # 0 <=> history.failed)
  /\ at = "fracture" => (total_failures # 0 <=> history.failed)
  /\ at = "retry" => history.failed
  /\ at \in {"between", "fracture", "retry"} => total_tests_run < MaxTests
  /\ total_failures + total_skips <= total_tests_run
  /\ Skipped \in fatal =>
       /\ at \in {"between", "fracture", "retry"} => total_skips = 0
       /\ at = "finish" => (total_skips # 0 <=> lastTestResult = Skipped)

\* A limit stays one: -1, no limit, is never reached by counting down.
LimitInv == history.budget >= 0 => total_retest_count >= 0

IInv == TypeOK /\ CountInv /\ LimitInv /\ BudgetIsKept /\ ExitCodeTells
-----------------------------------------------------------------------------
\* The fields of an attempt.
LEMMA AttemptType ==
  ASSUME NEW a \in Attempt
  PROVE  a.state \in {Passed, Skipped, Failed} /\ a.failing \subseteq Thread
BY DEF Attempt

\* Printing keeps the types of the log and of the history; only a failure marks
\* the history, only a retry counts as one.
LEMMA PrintShape ==
  ASSUME TypeOK, NEW a \in Attempt, PrintAttempt(a)
  PROVE  /\ log' \in Seq(Attempt)
         /\ history' \in [budget : Nat \cup {-1}, retries : Nat, failed : BOOLEAN]
         /\ history'.budget = history.budget
         /\ history'.retries = IF at = "retry" THEN history.retries + 1 ELSE history.retries
         /\ history'.failed <=> history.failed \/ a.state = Failed
<1>1. log' \in Seq(Attempt)  BY DEF TypeOK, PrintAttempt
<1> DEFINE F == history.failed \/ a.state = Failed
           N == IF at = "retry" THEN history.retries + 1 ELSE history.retries
<1>2. history' = [history EXCEPT !.failed = F, !.retries = N]
  BY DEF PrintAttempt
<1>3. history \in [budget : Nat \cup {-1}, retries : Nat, failed : BOOLEAN]
  BY DEF TypeOK
<1>4. F \in BOOLEAN /\ N \in Nat  BY <1>3
<1> HIDE DEF F, N
<1>5. /\ history' \in [budget : Nat \cup {-1}, retries : Nat, failed : BOOLEAN]
      /\ history'.budget = history.budget
      /\ history'.retries = N /\ history'.failed = F
  BY <1>2, <1>3, <1>4
<1> QED BY <1>1, <1>5 DEF F, N

\* Marking failures never leaves the bits of an entry, however many threads there are.
LEMMA MarkUpType ==
  ASSUME TypeOK, NEW k \in Nat, NEW f \in SUBSET Thread, MarkUpPerThreadFail(k, f)
  PROVE  /\ fail_count' \in Nat
         /\ per_thread_failures' \in [Thread -> SUBSET (0..(MaxRetestCount - 1))]
<1>1. \A t \in Thread : Bit(t) \in 0..(MaxRetestCount - 1)
  BY ThreadAssumption, CountAssumption DEF Thread, Bit
<1> QED BY <1>1 DEF TypeOK, MarkUpPerThreadFail

\* Returning to the loop over the tests counts the test, and the failure.
LEMMA ReturnShape ==
  ASSUME TypeOK, CountInv, at \in {"fracture", "retry"},
         NEW r \in {Passed, Skipped, Failed}, ReturnToMain(r)
  PROVE  /\ lastTestResult' \in {Passed, Skipped, Failed}
         /\ total_tests_run' \in 0..MaxTests
         /\ total_failures' \in 0..MaxTests /\ total_skips' \in 0..MaxTests
         /\ total_failures' + total_skips' <= total_tests_run'
         /\ at' \in {"between", "finish"}
         /\ at' = "between" => total_tests_run' < MaxTests
         /\ total_failures' # 0 <=> total_failures # 0 \/ r = Failed
         /\ Skipped \in fatal' =>
              /\ at' \in {"between", "fracture", "retry"} => total_skips' = 0
              /\ at' = "finish" => (total_skips' # 0 <=> lastTestResult' = Skipped)
         /\ exit_code' = exit_code /\ fatal' = fatal
<1>1. /\ lastTestResult' = r /\ total_tests_run' = total_tests_run + 1
      /\ total_failures' = IF r = Failed THEN total_failures + 1 ELSE total_failures
      /\ total_skips' = IF r = Skipped THEN total_skips + 1 ELSE total_skips
      /\ at' = IF r \in fatal \/ total_tests_run' >= MaxTests THEN "finish" ELSE "between"
      /\ exit_code' = exit_code /\ fatal' = fatal
  BY DEF ReturnToMain
<1>2. /\ total_tests_run < MaxTests /\ total_failures + total_skips <= total_tests_run
      /\ Skipped \in fatal => total_skips = 0
      /\ total_tests_run \in Nat /\ total_failures \in Nat /\ total_skips \in Nat
  BY CountAssumption DEF TypeOK, CountInv
<1>3. Passed # Skipped /\ Passed # Failed /\ Skipped # Failed
  BY DEF Passed, Skipped, Failed
<1> QED BY <1>1, <1>2, <1>3, CountAssumption

-----------------------------------------------------------------------------
LEMMA InitIInv == Init => IInv
<1> SUFFICES ASSUME Init  PROVE IInv  OBVIOUS
<1>1. total_retest_count \in Nat \cup {-1}
  BY CountAssumption DEF Init
<1>2. history \in [budget : Nat \cup {-1}, retries : Nat, failed : BOOLEAN]
  BY <1>1 DEF Init
<1>3. log \in Seq(Attempt)  BY DEF Init
<1>4. per_thread_failures \in [Thread -> SUBSET (0..(MaxRetestCount - 1))]
  BY DEF Init, NoFailures
<1>5. TypeOK
  <2>1. /\ at \in {"between", "fracture", "retry", "finish"} \cup Done
        /\ fracturing \in BOOLEAN /\ time_up \in BOOLEAN
        /\ analysis \in {"none", "software", "topology"}
    BY DEF Init
  <2>2. /\ fail_count \in Nat /\ iterations \in Nat
        /\ total_tests_run \in 0..MaxTests /\ total_failures \in 0..MaxTests
        /\ total_skips \in 0..MaxTests /\ fatal \in SUBSET {Failed, Skipped}
        /\ lastTestResult \in {Passed, Skipped, Failed}
        /\ exit_code \in {NoExit, EXIT_SUCCESS, EXIT_FAILURE, EXIT_INVALID}
    BY CountAssumption, FatalAssumption DEF Init
  <2> QED BY <1>1, <1>2, <1>3, <1>4, <2>1, <2>2, Zenon DEF TypeOK
<1>6. CountInv /\ LimitInv /\ BudgetIsKept /\ ExitCodeTells
  BY <1>1, CountAssumption DEF Init, CountInv, LimitInv, BudgetIsKept, ExitCodeTells
<1> QED BY <1>5, <1>6 DEF IInv

LEMMA FractureIInv ==
  ASSUME IInv, NEW a \in Attempt, Fracture(a)
  PROVE  IInv'
<1> USE DEF IInv
<1>0. /\ at = "fracture" /\ PrintAttempt(a)
      /\ UNCHANGED <<fracturing, time_up, analysis, total_retest_count>>
  BY DEF Fracture, CountInv
<1>1. /\ log' \in Seq(Attempt)
      /\ history' \in [budget : Nat \cup {-1}, retries : Nat, failed : BOOLEAN]
      /\ history'.budget = history.budget /\ history'.retries = history.retries
      /\ history'.failed <=> history.failed \/ a.state = Failed
  BY <1>0, PrintShape
<1>2. BudgetIsKept' /\ LimitInv'  BY <1>0, <1>1 DEF BudgetIsKept, LimitInv
<1>3. CASE /\ a.state = Skipped \/ (a.state = Passed /\ (~fracturing \/ OutOfTime))
           /\ ReturnToMain(a.state)
           /\ UNCHANGED <<fail_count, iterations, per_thread_failures>>
  <2>1. a.state \in {Passed, Skipped}  BY <1>3
  <2>2. /\ lastTestResult' \in {Passed, Skipped, Failed}
        /\ total_tests_run' \in 0..MaxTests
        /\ total_failures' \in 0..MaxTests /\ total_skips' \in 0..MaxTests
        /\ total_failures' + total_skips' <= total_tests_run'
        /\ at' \in {"between", "finish"}
        /\ at' = "between" => total_tests_run' < MaxTests
        /\ total_failures' # 0 <=> total_failures # 0
        /\ Skipped \in fatal' =>
             /\ at' \in {"between", "fracture", "retry"} => total_skips' = 0
             /\ at' = "finish" => (total_skips' # 0 <=> lastTestResult' = Skipped)
        /\ exit_code' = exit_code /\ fatal' = fatal
    BY <1>0, <1>3, <2>1, ReturnShape DEF Passed, Skipped, Failed
  <2>3. TypeOK'  BY <1>0, <1>1, <1>3, <2>2 DEF TypeOK
  <2>4. history'.failed <=> history.failed
    BY <1>1, <2>1 DEF Passed, Skipped, Failed
  <2>5. CountInv'  BY <1>0, <2>2, <2>4 DEF CountInv
  <2> QED BY <1>2, <2>2, <2>3, <2>5 DEF ExitCodeTells
<1>4. CASE /\ a.state = Passed /\ fracturing /\ ~OutOfTime
           /\ UNCHANGED <<at, fail_count, iterations, per_thread_failures, program>>
  <2>1. TypeOK'  BY <1>0, <1>1, <1>4 DEF TypeOK, program, counts
  <2>2. CountInv'  BY <1>0, <1>1, <1>4 DEF CountInv, program, counts, Passed, Failed
  <2> QED BY <1>0, <1>2, <1>4, <2>1, <2>2 DEF ExitCodeTells
<1>5. CASE /\ a.state = Failed
           /\ MarkUpPerThreadFail(0, a.failing)
           /\ iterations' = 1
           /\ at' = "retry"
           /\ UNCHANGED program
  <2>1. TypeOK'
    <3>1. /\ fail_count' \in Nat
          /\ per_thread_failures' \in [Thread -> SUBSET (0..(MaxRetestCount - 1))]
      BY <1>5, AttemptType, MarkUpType
    <3> QED BY <1>0, <1>1, <1>5, <3>1 DEF TypeOK, program, counts
  <2>2. CountInv'  BY <1>0, <1>1, <1>5 DEF CountInv, program, counts
  <2> QED BY <1>2, <1>5, <2>1, <2>2 DEF ExitCodeTells
<1> QED BY <1>3, <1>4, <1>5 DEF Fracture

LEMMA RetryIInv ==
  ASSUME IInv, NEW a \in Attempt, Retry(a)
  PROVE  IInv'
<1> USE DEF IInv
<1>0. /\ at = "retry" /\ at' = at /\ PrintAttempt(a) /\ total_retest_count # 0
      /\ total_retest_count' = CountDown /\ iterations' = iterations + 1
      /\ UNCHANGED <<fracturing, time_up, analysis, program>>
  BY DEF Retry, ShouldRetryTest
<1>1. /\ log' \in Seq(Attempt)
      /\ history' \in [budget : Nat \cup {-1}, retries : Nat, failed : BOOLEAN]
      /\ history'.budget = history.budget /\ history'.retries = history.retries + 1
      /\ history'.failed <=> history.failed \/ a.state = Failed
  BY <1>0, PrintShape
<1>2. /\ fail_count' \in Nat
      /\ per_thread_failures' \in [Thread -> SUBSET (0..(MaxRetestCount - 1))]
  <2>1. CASE a.state = Failed
    BY <2>1, AttemptType, MarkUpType DEF Retry, TypeOK
  <2>2. CASE a.state # Failed  BY <2>2 DEF Retry, TypeOK
  <2> QED BY <2>1, <2>2
<1>3. TypeOK'  BY <1>0, <1>1, <1>2 DEF TypeOK, program, counts, CountDown
<1>4. CountInv'  BY <1>0, <1>1 DEF CountInv, program, counts
\* A limit that is not used up is positive.
<1>5. LimitInv' /\ BudgetIsKept'
  <2>1. CASE history.budget < 0
    BY <1>1, <2>1 DEF LimitInv, BudgetIsKept, TypeOK
  <2>2. CASE history.budget >= 0
    <3>1. total_retest_count > 0 /\ history.retries + total_retest_count = history.budget
      BY <1>0, <2>2 DEF LimitInv, BudgetIsKept, TypeOK
    <3>2. total_retest_count' = total_retest_count - 1  BY <1>0, <3>1 DEF CountDown
    <3> QED BY <1>1, <3>1, <3>2 DEF LimitInv, BudgetIsKept, TypeOK
  <2> QED BY <2>1, <2>2 DEF TypeOK
<1> QED BY <1>0, <1>3, <1>4, <1>5 DEF ExitCodeTells

LEMMA NextIInv ==
  ASSUME IInv, [Next]_vars
  PROVE  IInv'
<1> USE DEF IInv
<1>1. CASE StartTest
  <2>1. /\ at = "between" /\ at' = "fracture"
        /\ UNCHANGED <<total_retest_count, total_tests_run, total_failures, total_skips,
                       lastTestResult, fatal, exit_code, history>>
    BY <1>1 DEF StartTest, program, counts
  <2>2. TypeOK'
    <3>0. log' \in Seq(Attempt)  BY <1>1 DEF StartTest
    <3>1. fracturing' \in BOOLEAN /\ time_up' \in BOOLEAN
      BY <1>1, Zenon DEF StartTest
    <3>2. per_thread_failures' \in [Thread -> SUBSET (0..(MaxRetestCount - 1))]
      BY <1>1 DEF StartTest, NoFailures
    <3>3. fail_count' \in Nat /\ iterations' \in Nat
          /\ analysis' \in {"none", "software", "topology"}
      BY <1>1 DEF StartTest
    <3> QED BY <2>1, <3>0, <3>1, <3>2, <3>3 DEF TypeOK
  <2>3. CountInv'  BY <2>1 DEF CountInv
  <2> QED BY <2>1, <2>2, <2>3 DEF LimitInv, BudgetIsKept, ExitCodeTells
<1>2. CASE AnalyzeAndReturn
  <2>1. /\ at = "retry" /\ ReturnToMain(Failed)
        /\ analysis' \in {"software", "topology"}
        /\ UNCHANGED <<log, fracturing, time_up, fail_count, iterations,
                       per_thread_failures, total_retest_count, history>>
    BY <1>2 DEF AnalyzeAndReturn, ResultAfterRetries
  <2>2. /\ lastTestResult' \in {Passed, Skipped, Failed}
        /\ total_tests_run' \in 0..MaxTests
        /\ total_failures' \in 0..MaxTests /\ total_skips' \in 0..MaxTests
        /\ total_failures' + total_skips' <= total_tests_run'
        /\ at' \in {"between", "finish"}
        /\ at' = "between" => total_tests_run' < MaxTests
        /\ total_failures' # 0
        /\ Skipped \in fatal' =>
             /\ at' \in {"between", "fracture", "retry"} => total_skips' = 0
             /\ at' = "finish" => (total_skips' # 0 <=> lastTestResult' = Skipped)
        /\ exit_code' = exit_code /\ fatal' = fatal
    BY <2>1, ReturnShape
  <2>3. TypeOK'  BY <2>1, <2>2 DEF TypeOK
  <2>4. CountInv'  BY <2>1, <2>2 DEF CountInv
  <2> QED BY <2>1, <2>2, <2>3, <2>4 DEF LimitInv, BudgetIsKept, ExitCodeTells
<1>3. CASE Finish
  <2>1. /\ at = "finish" /\ at' = "ended"
        /\ exit_code' = IF total_failures # 0 \/ (total_skips # 0 /\ Skipped \in fatal)
                        THEN EXIT_FAILURE ELSE EXIT_SUCCESS
        /\ UNCHANGED <<test, total_retest_count, total_tests_run, total_failures,
                       total_skips, lastTestResult, fatal, history>>
    BY <1>3 DEF Finish, counts
  <2>2. TypeOK'  BY <2>1 DEF TypeOK, test, Done
  <2>3. CountInv'  BY <2>1 DEF CountInv
  <2>4. ExitCodeTells'
    BY <2>1 DEF ExitCodeTells, CountInv, EXIT_FAILURE, EXIT_SUCCESS
  <2> QED BY <2>1, <2>2, <2>3, <2>4 DEF LimitInv, BudgetIsKept
<1>4. CASE \E a \in Attempt : Fracture(a) \/ Retry(a)
  BY <1>4, FractureIInv, RetryIInv
<1>5. CASE StopBetweenTests
  <2>1. /\ at = "between" /\ lastTestResult # Skipped /\ at' = "finish"
        /\ UNCHANGED <<test, total_retest_count, program, history>>
    BY <1>5 DEF StopBetweenTests
  <2>2. TypeOK'  BY <2>1 DEF TypeOK, test, program, counts
  <2> QED BY <2>1, <2>2 DEF CountInv, LimitInv, BudgetIsKept, ExitCodeTells, program, counts
<1>6. CASE ExitInvalid
  <2>1. /\ at' = "exited" /\ exit_code' = EXIT_INVALID
        /\ UNCHANGED <<test, total_retest_count, total_tests_run, total_failures,
                       total_skips, lastTestResult, fatal, history>>
    BY <1>6 DEF ExitInvalid, counts
  <2>2. TypeOK'  BY <2>1 DEF TypeOK, test, Done
  <2> QED BY <2>1, <2>2 DEF CountInv, LimitInv, BudgetIsKept, ExitCodeTells
<1>7. CASE DurationElapses
  <2>1. /\ time_up' = TRUE
        /\ UNCHANGED <<at, log, fracturing, fail_count, iterations, per_thread_failures,
                       analysis, total_retest_count, program, history>>
    BY <1>7 DEF DurationElapses
  <2>2. TypeOK'  BY <2>1 DEF TypeOK, program, counts
  <2> QED BY <2>1, <2>2 DEF CountInv, LimitInv, BudgetIsKept, ExitCodeTells, program, counts
<1>8. CASE UNCHANGED vars
  BY <1>8 DEF vars, test, program, counts, TypeOK, CountInv, LimitInv, BudgetIsKept, ExitCodeTells
<1> QED BY <1>1, <1>2, <1>3, <1>4, <1>5, <1>6, <1>7, <1>8 DEF Next, Program, Terminated

\* IInv holds of every run of the program.
THEOREM Invariance == Spec => []IInv
<1> QED BY InitIInv, NextIInv, PTL DEF Spec

\* The variables keep their types, for any number of threads; in particular the
\* lambda of run_one_test() sets no bits but those of a PerThreadFailures entry:
\* not because a thread's number is one of them, but because the shift is modulo.
THEOREM TypeCorrect == Spec => []TypeOK
<1>1. IInv => TypeOK  BY DEF IInv
<1> QED BY <1>1, Invariance, PTL

\* The total of retries over all tests is respected, for every limit.
THEOREM BudgetKept == Spec => []BudgetIsKept
<1>1. IInv => BudgetIsKept  BY DEF IInv
<1> QED BY <1>1, Invariance, PTL

\* No failing attempt is lost between run_one_test() and the exit code.
THEOREM ExitCodeCorrect == Spec => []ExitCodeTells
<1>1. IInv => ExitCodeTells  BY DEF IInv
<1> QED BY <1>1, Invariance, PTL

-----------------------------------------------------------------------------
(***************************************************************************)
(* The retries of a test, and what its analysis is made of.                *)
(***************************************************************************)
IsFirst(n) == log[n].state = Failed /\ \A j \in 1..(n - 1) : log[j].state # Failed

Failures == {k \in DOMAIN log : log[k].state = Failed}

\* The attempt n is the first that failed, those behind it are its retries.  The
\* threads with any bit are those that failed in one within the limit.  A retry
\* beyond retest_count was made because all before it had passed.
Retrying(n) ==
  /\ IsFirst(n)
  /\ iterations = (Len(log) - n) + 1
  /\ FailedThreads =
       {t \in Thread : \E k \in n..Len(log) : k - n < MaxRetestCount /\ t \in log[k].failing}
  /\ fail_count >= 1
  /\ fail_count = 1 <=> \A k \in (n + 1)..Len(log) : log[k].state # Failed
  /\ fail_count # 1 => \E m \in (n + 1)..Len(log) :
                         /\ log[m].state = Failed
                         /\ \A k \in (n + 1)..(m - 1) : log[k].state # Failed
  /\ Len(log) - n <= 2 * retest_count
  /\ Len(log) - n > retest_count =>
       \A k \in (n + 1)..(Len(log) - 1) : log[k].state # Failed

\* A total without limit stays one; an analysis is that of a test that is over.
ResultInv ==
  /\ history.budget < 0 => total_retest_count < 0
  /\ at \in {"fracture", "retry"} => ~Analysed /\ fail_count = Cardinality(Failures)
  /\ at = "fracture" => Failures = {} /\ FailedThreads = {}
  /\ at = "retry" => \E n \in 1..Len(log) : Retrying(n)
  /\ RetriesAreExact
  /\ FailuresAreLocalised
-----------------------------------------------------------------------------
\* There is one first failure.
LEMMA FirstFailed ==
  ASSUME log \in Seq(Attempt), NEW n \in 1..Len(log), IsFirst(n)
  PROVE  Retries = Len(log) - n
<1>1. DOMAIN log = 1..Len(log) /\ Len(log) \in Nat  OBVIOUS
<1> DEFINE P(k) == log[k].state = Failed /\ \A j \in 1..(k - 1) : log[j].state # Failed
<1>2. n \in DOMAIN log /\ P(n)  BY <1>1 DEF IsFirst
<1>3. \A k \in DOMAIN log : P(k) => k = n
  <2> SUFFICES ASSUME NEW k \in DOMAIN log, P(k)  PROVE k = n  OBVIOUS
  <2>1. k \in Int /\ n \in Int /\ k >= 1 /\ n >= 1  BY <1>1
  <2>2. ~(k < n)  BY <1>2, <2>1
  <2>3. ~(n < k)  BY <1>2, <2>1
  <2> QED BY <2>1, <2>2, <2>3
<1>4. (CHOOSE k \in DOMAIN log : P(k)) = n  BY <1>2, <1>3
<1> QED BY <1>4 DEF Retries

\* A printed attempt adds itself to the failures, or not.
LEMMA FailuresGrow ==
  ASSUME log \in Seq(Attempt), NEW a \in Attempt, log' = Append(log, a)
  PROVE  /\ Cardinality(Failures) \in Nat
         /\ a.state # Failed => Failures' = Failures
         /\ a.state = Failed => Cardinality(Failures') = Cardinality(Failures) + 1
<1>1. /\ DOMAIN log = 1..Len(log) /\ Len(log) \in Nat
      /\ DOMAIN log' = 1..(Len(log) + 1)
      /\ \A k \in 1..Len(log) : log'[k] = log[k]
      /\ log'[Len(log) + 1] = a
  OBVIOUS
<1>2. IsFiniteSet(Failures)
  <2>1. IsFiniteSet(1..Len(log))  BY <1>1, FS_Interval
  <2>2. Failures \subseteq 1..Len(log)  BY <1>1 DEF Failures
  <2> QED BY <2>1, <2>2, FS_Subset
<1>3. Cardinality(Failures) \in Nat  BY <1>2, FS_CardinalityType
<1>4. ASSUME a.state # Failed  PROVE Failures' = Failures
  BY <1>1, <1>4 DEF Failures
<1>5. ASSUME a.state = Failed  PROVE Cardinality(Failures') = Cardinality(Failures) + 1
  <2>1. Failures' = Failures \cup {Len(log) + 1}  BY <1>1, <1>5 DEF Failures
  <2>2. Len(log) + 1 \notin Failures  BY <1>1 DEF Failures
  <2>3. Cardinality(Failures \cup {Len(log) + 1}) = Cardinality(Failures) + 1
    BY <1>2, <2>2, FS_AddElement
  <2> QED BY <2>1, <2>3
<1> QED BY <1>3, <1>4, <1>5

\* Marking adds the threads that failed, as long as there is a bit for the attempt.
LEMMA MarkUpAdds ==
  ASSUME TypeOK, NEW k \in Nat, NEW f \in SUBSET Thread, MarkUpPerThreadFail(k, f)
  PROVE  FailedThreads' = IF k >= MaxRetestCount THEN FailedThreads ELSE FailedThreads \cup f
<1>1. CASE k >= MaxRetestCount
  BY <1>1 DEF MarkUpPerThreadFail, FailedThreads
<1>2. CASE ~(k >= MaxRetestCount)
  <2>1. \A t \in Thread :
          per_thread_failures'[t] = per_thread_failures[t] \cup (IF t \in f THEN {Bit(t)} ELSE {})
    BY <1>2 DEF MarkUpPerThreadFail
  <2>2. \A t \in Thread : t \in f => per_thread_failures'[t] # {}  BY <2>1
  <2>3. \A t \in Thread : t \notin f => per_thread_failures'[t] = per_thread_failures[t]
    BY <2>1
  <2>4. \A t \in Thread : per_thread_failures[t] # {} => per_thread_failures'[t] # {}
    BY <2>1
  <2> QED BY <1>2, <2>2, <2>3, <2>4 DEF FailedThreads
<1> QED BY <1>1, <1>2

\* The first failure begins the retries.
LEMMA FirstRetrying ==
  ASSUME IInv, ResultInv, NEW a \in Attempt, Fracture(a), a.state = Failed
  PROVE  ResultInv'
<1>0. log \in Seq(Attempt)  BY DEF IInv, TypeOK
<1>0a. PICK l \in Nat : l = Len(log)  BY <1>0
<1>1. /\ at = "fracture" /\ at' = "retry" /\ iterations' = 1 /\ log' = Append(log, a)
      /\ MarkUpPerThreadFail(0, a.failing)
      /\ UNCHANGED <<analysis, total_retest_count>>
      /\ history'.budget = history.budget
  <2>1. PrintAttempt(a)  BY DEF Fracture
  <2>2. history'.budget = history.budget  BY <2>1, PrintShape DEF IInv
  <2> QED BY <2>1, <2>2 DEF Fracture, PrintAttempt, Passed, Skipped, Failed
<1>2. log \in Seq(Attempt) /\ l \in Nat /\ Len(log) = l  BY <1>0, <1>0a
<1>3. /\ Len(log') = l + 1 /\ log'[l + 1] = a
      /\ \A k \in 1..l : log'[k] = log[k]
  BY <1>1, <1>2
<1>4. Failures = {} /\ FailedThreads = {} /\ ~Analysed /\ fail_count = Cardinality(Failures)
  BY <1>1 DEF ResultInv
<1>5. fail_count = 0  BY <1>4, FS_EmptySet
<1>6. fail_count' = 1  BY <1>1, <1>5 DEF MarkUpPerThreadFail
<1>7. Cardinality(Failures') = 1  BY <1>1, <1>2, <1>4, <1>5, FailuresGrow
<1>8. \A k \in 1..l : log[k].state # Failed  BY <1>2, <1>4 DEF Failures
<1>9. IsFirst(l + 1)'  BY <1>2, <1>3, <1>8 DEF IsFirst
<1>10. a.failing \subseteq Thread /\ 0 < MaxRetestCount /\ MaxRetestCount \in Nat
  BY AttemptType, CountAssumption
<1>11. FailedThreads' = a.failing
  <2>1. 0 \in Nat /\ a.failing \in SUBSET Thread /\ TypeOK  BY <1>10 DEF IInv
  <2> QED BY <1>1, <1>4, <1>10, <2>1, MarkUpAdds
<1>12. a.failing = {t \in Thread : \E k \in (l + 1)..(l + 1) :
                                     k - (l + 1) < MaxRetestCount /\ t \in log'[k].failing}
  <2>1. \A k \in (l + 1)..(l + 1) : k = l + 1  BY <1>2
  <2>2. l + 1 \in (l + 1)..(l + 1) /\ (l + 1) - (l + 1) < MaxRetestCount  BY <1>2, <1>10
  <2> QED BY <1>3, <1>10, <2>1, <2>2
<1>13. Retrying(l + 1)'
  <2>1. /\ iterations' = ((l + 1) - (l + 1)) + 1
        /\ (l + 1) - (l + 1) <= 2 * retest_count
        /\ ~((l + 1) - (l + 1) > retest_count)
        /\ \A k \in ((l + 1) + 1)..(l + 1) : log'[k].state # Failed
    BY <1>1, <1>2, CountAssumption
  <2>2. fail_count' >= 1 /\ ~(fail_count' # 1)  BY <1>6
  <2> QED BY <1>3, <1>6, <2>2, <1>9, <1>11, <1>12, <2>1 DEF Retrying
<1>14. l + 1 \in 1..Len(log')  BY <1>2, <1>3
<1>15. ~Analysed'  BY <1>1, <1>4 DEF Analysed
<1>16. history'.budget < 0 => total_retest_count' < 0  BY <1>1 DEF ResultInv
<1>17. RetriesAreExact' /\ FailuresAreLocalised'
  BY <1>15 DEF RetriesAreExact, FailuresAreLocalised
<1> QED BY <1>1, <1>6, <1>7, <1>13, <1>14, <1>15, <1>16, <1>17 DEF ResultInv

\* Another retry, printed behind them.
LEMMA RetryRetrying ==
  ASSUME IInv, ResultInv, NEW a \in Attempt, Retry(a)
  PROVE  ResultInv'
<1> DEFINE l == Len(log)
<1>1. /\ at = "retry" /\ at' = "retry" /\ iterations' = iterations + 1
      /\ log' = Append(log, a) /\ UNCHANGED analysis
      /\ total_retest_count' = CountDown /\ total_retest_count # 0
      /\ iterations <= IF fail_count = 1 THEN 2 * retest_count ELSE retest_count
      /\ history'.budget = history.budget
  <2>1. PrintAttempt(a)  BY DEF Retry
  <2>2. history'.budget = history.budget  BY <2>1, PrintShape DEF IInv
  <2> QED BY <2>1, <2>2 DEF Retry, ShouldRetryTest, PrintAttempt
<1>2. /\ log \in Seq(Attempt) /\ l \in Nat /\ fail_count \in Nat /\ iterations \in Nat
      /\ total_retest_count \in Int
  BY DEF IInv, TypeOK
<1>3. /\ Len(log') = l + 1 /\ log'[l + 1] = a
      /\ \A k \in 1..l : log'[k] = log[k]
  BY <1>1, <1>2
<1>4. PICK n \in 1..l : Retrying(n)  BY <1>1 DEF ResultInv
<1>5. n \in Nat /\ n >= 1 /\ n <= l  BY <1>2, <1>4
<1>6. iterations = (l - n) + 1  BY <1>4 DEF Retrying
<1>7. ~Analysed /\ fail_count = Cardinality(Failures)  BY <1>1 DEF ResultInv
<1>8. fail_count' = IF a.state = Failed THEN fail_count + 1 ELSE fail_count
  BY DEF Retry, MarkUpPerThreadFail
<1>9. fail_count' = Cardinality(Failures')  BY <1>1, <1>2, <1>7, <1>8, FailuresGrow
<1>10. IsFirst(n)'
  <2>1. IsFirst(n)  BY <1>4 DEF Retrying
  <2>2. log'[n] = log[n] /\ \A j \in 1..(n - 1) : log'[j] = log[j]  BY <1>2, <1>3, <1>5
  <2> QED BY <2>1, <2>2 DEF IsFirst
\* The threads that failed.
<1>11. FailedThreads' = {t \in Thread : \E k \in n..(l + 1) :
                                          k - n < MaxRetestCount /\ t \in log'[k].failing}
  <2>1. FailedThreads =
          {t \in Thread : \E k \in n..l : k - n < MaxRetestCount /\ t \in log[k].failing}
    BY <1>4 DEF Retrying
  <2>2. \A k \in n..l : log'[k] = log[k]  BY <1>3, <1>5
  <2>3. \A k \in n..(l + 1) : k \in n..l \/ k = l + 1  BY <1>2, <1>5
  <2>4. n..l \subseteq n..(l + 1) /\ l + 1 \in n..(l + 1)  BY <1>2, <1>5
  <2>5. CASE a.state = Failed
    <3>1. a.failing \in SUBSET Thread  BY AttemptType
    <3>2. MarkUpPerThreadFail(iterations, a.failing)  BY <2>5 DEF Retry
    <3>3. FailedThreads' =
            IF iterations >= MaxRetestCount THEN FailedThreads ELSE FailedThreads \cup a.failing
      BY <1>2, <3>1, <3>2, MarkUpAdds DEF IInv
    <3>4. iterations >= MaxRetestCount <=> ~((l + 1) - n < MaxRetestCount)
      BY <1>2, <1>5, <1>6, CountAssumption
    <3> QED BY <1>3, <2>1, <2>2, <2>3, <2>4, <3>1, <3>3, <3>4
  <2>6. CASE a.state # Failed
    <3>1. a.failing = {}  BY <2>6 DEF Attempt
    <3>2. FailedThreads' = FailedThreads  BY <2>6 DEF Retry, FailedThreads
    <3> QED BY <1>3, <2>1, <2>2, <2>3, <2>4, <3>1, <3>2
  <2> QED BY <2>5, <2>6
\* Their count.
<1>12. fail_count >= 1 /\ (fail_count = 1 <=> \A k \in (n + 1)..l : log[k].state # Failed)
  BY <1>4 DEF Retrying
<1>13. /\ fail_count' >= 1
       /\ fail_count' = 1 <=> \A k \in (n + 1)..(l + 1) : log'[k].state # Failed
  <2>1. \A k \in (n + 1)..l : log'[k] = log[k]  BY <1>3, <1>5
  <2>2. \A k \in (n + 1)..(l + 1) : k \in (n + 1)..l \/ k = l + 1  BY <1>2, <1>5
  <2>3. (n + 1)..l \subseteq (n + 1)..(l + 1) /\ l + 1 \in (n + 1)..(l + 1)  BY <1>2, <1>5
  <2>4. CASE a.state = Failed
    <3>1. fail_count' # 1 /\ fail_count' >= 1  BY <1>2, <1>8, <1>12, <2>4
    <3> QED BY <1>3, <2>3, <2>4, <3>1
  <2>5. CASE a.state # Failed
    <3>1. fail_count' = fail_count  BY <1>8, <2>5
    <3> QED BY <1>3, <1>12, <2>1, <2>2, <2>3, <2>5, <3>1
  <2> QED BY <2>4, <2>5
<1>22. fail_count' # 1 => \E m \in (n + 1)..(l + 1) :
                            /\ log'[m].state = Failed
                            /\ \A k \in (n + 1)..(m - 1) : log'[k].state # Failed
  <2>1. CASE fail_count = 1
    <3>1. SUFFICES ASSUME fail_count' # 1  PROVE log'[l + 1].state = Failed
                                        /\ \A k \in (n + 1)..((l + 1) - 1) : log'[k].state # Failed
      <4>1. l + 1 \in (n + 1)..(l + 1)  BY <1>2, <1>5
      <4> QED BY <4>1
    <3>2. a.state = Failed  BY <1>8, <2>1, <3>1
    <3>3. (l + 1) - 1 = l  BY <1>2
    <3>4. \A k \in (n + 1)..l : log'[k] = log[k]  BY <1>3, <1>5
    <3> QED BY <1>3, <1>12, <2>1, <3>2, <3>3, <3>4
  <2>2. CASE fail_count # 1
    <3>1. PICK m \in (n + 1)..l : /\ log[m].state = Failed
                                  /\ \A k \in (n + 1)..(m - 1) : log[k].state # Failed
      BY <1>4, <2>2 DEF Retrying
    <3>2. m \in (n + 1)..(l + 1) /\ log'[m] = log[m]  BY <1>2, <1>3, <1>5
    <3>3. \A k \in (n + 1)..(m - 1) : log'[k] = log[k]  BY <1>2, <1>3, <1>5
    <3> QED BY <3>1, <3>2, <3>3
  <2> QED BY <2>1, <2>2
\* A retry beyond retest_count needs that all others have passed.
<1>14. (l + 1) - n <= 2 * retest_count
  BY <1>1, <1>2, <1>5, <1>6, CountAssumption
<1>15. (l + 1) - n > retest_count => \A k \in (n + 1)..((l + 1) - 1) : log'[k].state # Failed
  <2> SUFFICES ASSUME (l + 1) - n > retest_count, NEW k \in (n + 1)..((l + 1) - 1)
               PROVE  log'[k].state # Failed
    OBVIOUS
  <2>1. fail_count = 1  BY <1>1, <1>2, <1>5, <1>6, CountAssumption
  <2>2. k \in (n + 1)..l /\ k \in 1..l  BY <1>2, <1>5
  <2> QED BY <1>3, <1>12, <2>1, <2>2
<1>16. iterations' = ((l + 1) - n) + 1  BY <1>1, <1>2, <1>5, <1>6
<1>17. Retrying(n)'
  <2> HIDE DEF l
  <2> QED BY <1>3, <1>10, <1>11, <1>13, <1>14, <1>15, <1>16, <1>22 DEF Retrying
<1>18. n \in 1..Len(log')  BY <1>2, <1>3, <1>5
<1>19. ~Analysed'  BY <1>1, <1>7 DEF Analysed
<1>20. history'.budget < 0 => total_retest_count' < 0
  BY <1>1, <1>2 DEF ResultInv, CountDown
<1>21. RetriesAreExact' /\ FailuresAreLocalised'
  BY <1>19 DEF RetriesAreExact, FailuresAreLocalised
<1> HIDE DEF l
<1> QED BY <1>1, <1>9, <1>17, <1>18, <1>19, <1>20, <1>21 DEF ResultInv

\* When no retry is due, there have been as many as there should be.
LEMMA RetriesEnough ==
  ASSUME IInv, ResultInv, at = "retry", ~ShouldRetryTest
  PROVE  LET failed == {j \in 1..Retries : RetryLog(j).state = Failed}
             wanted == IF failed = {} THEN 2 * retest_count
                       ELSE LET first == CHOOSE j \in failed : \A k \in failed : j <= k
                            IN IF first > retest_count THEN first ELSE retest_count
             left   == total_retest_count + Retries
         IN Retries = IF history.budget >= 0 /\ left < wanted THEN left ELSE wanted
<1> DEFINE l == Len(log)
           failed == {j \in 1..Retries : RetryLog(j).state = Failed}
           first == CHOOSE j \in failed : \A k \in failed : j <= k
<1>1. /\ log \in Seq(Attempt) /\ l \in Nat /\ total_retest_count \in Nat \cup {-1}
      /\ history.budget \in Nat \cup {-1} /\ retest_count \in Nat /\ fail_count \in Nat
  BY CountAssumption DEF IInv, TypeOK
<1>2. PICK n \in 1..l : Retrying(n)  BY DEF ResultInv
<1>3. Retries = l - n  BY <1>1, <1>2, FirstFailed DEF Retrying
<1> DEFINE r == l - n
<1>4. n \in Nat /\ n >= 1 /\ n <= l /\ r \in Nat /\ n + r = l  BY <1>1, <1>2
<1>5. \A j \in 1..r : RetryLog(j) = log[n + j]
  <2> SUFFICES ASSUME NEW j \in 1..r  PROVE RetryLog(j) = log[n + j]  OBVIOUS
  <2>1. RetryLog(j) = log[l - r + j]  BY <1>3 DEF RetryLog
  <2>2. l - r + j = n + j  BY <1>1, <1>4
  <2> QED BY <2>1, <2>2
<1>6. failed = {j \in 1..r : log[n + j].state = Failed}  BY <1>3, <1>5
<1>7. /\ iterations = r + 1 /\ r <= 2 * retest_count
      /\ fail_count = 1 <=> \A k \in (n + 1)..l : log[k].state # Failed
      /\ r > retest_count => \A k \in (n + 1)..(l - 1) : log[k].state # Failed
  BY <1>2 DEF Retrying
<1>8. /\ history.budget >= 0 => total_retest_count >= 0
      /\ history.budget < 0 => total_retest_count < 0
  BY DEF IInv, LimitInv, ResultInv
<1>9. \/ total_retest_count = 0
      \/ r + 1 > IF fail_count = 1 THEN 2 * retest_count ELSE retest_count
  BY <1>1, <1>4, <1>7 DEF ShouldRetryTest
<1>10. failed = {} <=> fail_count = 1
  <2>1. \A k \in (n + 1)..l : k - n \in 1..r /\ n + (k - n) = k  BY <1>1, <1>4
  <2>2. \A j \in 1..r : n + j \in (n + 1)..l  BY <1>1, <1>4
  <2> QED BY <1>6, <1>7, <2>1, <2>2
<1> HIDE DEF l, r
<1>11. CASE failed = {}
  BY <1>1, <1>3, <1>4, <1>7, <1>8, <1>9, <1>10, <1>11 DEF r
<1>12. CASE failed # {}
  <2>1. PICK m \in failed : \A k \in failed : m <= k
    <3>1. PICK i \in (n + 1)..l : /\ log[i].state = Failed
                                  /\ \A k \in (n + 1)..(i - 1) : log[k].state # Failed
      BY <1>2, <1>10, <1>12 DEF Retrying, l
    <3>2. i - n \in 1..r /\ n + (i - n) = i  BY <1>1, <1>4
    <3>3. i - n \in failed  BY <1>6, <3>1, <3>2
    <3>4. \A k \in failed : i - n <= k
      <4> SUFFICES ASSUME NEW k \in 1..r, log[n + k].state = Failed  PROVE i - n <= k
        BY <1>6
      <4>1. n + k \notin (n + 1)..(i - 1)  BY <3>1
      <4> QED BY <1>1, <1>4, <4>1
    <3> QED BY <3>3, <3>4
  <2>2. m \in Nat /\ m >= 1 /\ m <= r /\ log[n + m].state = Failed  BY <1>4, <1>6, <2>1
  <2>3. first = m
    <3>1. \A j \in failed : (\A k \in failed : j <= k) => j = m
      <4> SUFFICES ASSUME NEW j \in failed, \A k \in failed : j <= k  PROVE j = m
        OBVIOUS
      <4>1. j <= m /\ m <= j /\ j \in Nat  BY <1>6, <2>1
      <4> QED BY <2>2, <4>1
    <3> QED BY <2>1, <3>1, Zenon
  <2>4. r > retest_count => m = r
    <3> SUFFICES ASSUME r > retest_count, m # r  PROVE FALSE  OBVIOUS
    <3>1. n + m \in (n + 1)..(l - 1)  BY <1>1, <1>4, <2>2
    <3> QED BY <1>7, <2>2, <3>1
  <2> HIDE DEF failed, first
  <2> DEFINE wanted == IF first > retest_count THEN first ELSE retest_count
  <2>5. r = IF history.budget >= 0 /\ total_retest_count + r < wanted
            THEN total_retest_count + r ELSE wanted
    BY <1>1, <1>4, <1>7, <1>8, <1>9, <1>10, <1>12, <2>2, <2>3, <2>4
  <2> QED BY <1>3, <1>12, <2>5 DEF r, failed, first
<1> QED BY <1>11, <1>12

\* What the topology analysis sees when no retry is due any more.
LEMMA AnalysisLocalises ==
  ASSUME IInv, ResultInv, at = "retry"
  PROVE  /\ iterations = Retries + 1
         /\ fail_count = Cardinality(Failures)
         /\ FailedThreads =
              UNION {RetryLog(j).failing : j \in {k \in 0..Retries : k < MaxRetestCount}}
<1>1. log \in Seq(Attempt) /\ MaxRetestCount \in Nat
  BY CountAssumption DEF IInv, TypeOK
<1>2. PICK l \in Nat : l = Len(log)  BY <1>1
<1>3. PICK n \in 1..l : Retrying(n)  BY <1>2 DEF ResultInv
<1>4. n \in Nat /\ n >= 1 /\ n <= l  BY <1>2, <1>3
<1>5. Retries = l - n  BY <1>1, <1>2, <1>3, FirstFailed DEF Retrying
<1>6. \A j \in 0..(l - n) : RetryLog(j) = log[n + j]
  <2> SUFFICES ASSUME NEW j \in 0..(l - n)  PROVE RetryLog(j) = log[n + j]  OBVIOUS
  <2>1. l - (l - n) + j = n + j  BY <1>4
  <2> QED BY <1>2, <1>5, <2>1 DEF RetryLog
<1>7. \A k \in n..l : k - n \in 0..(l - n) /\ n + (k - n) = k  BY <1>4
<1>8. \A j \in 0..(l - n) : n + j \in n..l /\ (n + j) - n = j  BY <1>4
<1>9. FailedThreads =
        {t \in Thread : \E k \in n..l : k - n < MaxRetestCount /\ t \in log[k].failing}
  BY <1>2, <1>3 DEF Retrying
<1>10. \A k \in n..l : log[k].failing \subseteq Thread
  <2> SUFFICES ASSUME NEW k \in n..l  PROVE log[k].failing \subseteq Thread  OBVIOUS
  <2>1. k \in 1..Len(log)  BY <1>2, <1>4
  <2>2. log[k] \in Attempt  BY <1>1, <2>1
  <2> QED BY <2>2, AttemptType
<1> DEFINE J == {k \in 0..(l - n) : k < MaxRetestCount}
<1>11. FailedThreads = UNION {log[n + j].failing : j \in J}
  <2>1. \A t \in FailedThreads : \E j \in J : t \in log[n + j].failing
    <3> SUFFICES ASSUME NEW t \in FailedThreads  PROVE \E j \in J : t \in log[n + j].failing
      OBVIOUS
    <3>1. PICK k \in n..l : k - n < MaxRetestCount /\ t \in log[k].failing  BY <1>9
    <3>2. k - n \in J  BY <1>7, <3>1
    <3> QED BY <1>7, <3>1, <3>2
  <2>2. \A j \in J : log[n + j].failing \subseteq FailedThreads
    <3> SUFFICES ASSUME NEW j \in J, NEW t \in log[n + j].failing  PROVE t \in FailedThreads
      OBVIOUS
    <3>1. n + j \in n..l /\ (n + j) - n < MaxRetestCount  BY <1>8
    <3> QED BY <1>9, <1>10, <3>1
  <2> QED BY <2>1, <2>2
<1>12. {RetryLog(j).failing : j \in J} = {log[n + j].failing : j \in J}  BY <1>6
<1>13. {k \in 0..Retries : k < MaxRetestCount} = J  BY <1>5
<1>14. iterations = Retries + 1  BY <1>2, <1>3, <1>5 DEF Retrying
<1>15. fail_count = Cardinality(Failures)  BY DEF ResultInv
<1> HIDE DEF J
<1>16. UNION {RetryLog(j).failing : j \in J} = FailedThreads  BY <1>11, <1>12
<1> QED BY <1>13, <1>14, <1>15, <1>16

\* A step that leaves the test and the total leaves what its analysis said.
LEMMA QuietResult ==
  ASSUME ResultInv, UNCHANGED <<test, total_retest_count>>,
         history'.budget = history.budget,
         at' \in {"fracture", "retry"} => at' = at
  PROVE  ResultInv'
<1>1. UNCHANGED <<log, fail_count, iterations, per_thread_failures, analysis,
                  total_retest_count>>
  BY DEF test
<1>2. UNCHANGED <<Failures, FailedThreads, Retries, Analysed>>
  BY <1>1 DEF Failures, FailedThreads, Retries, Analysed
<1>3. \A n : Retrying(n)' <=> Retrying(n)  BY <1>1, <1>2 DEF Retrying, IsFirst
<1>4. \A j : RetryLog(j)' = RetryLog(j)  BY <1>1, <1>2 DEF RetryLog
<1>5. RetriesAreExact' <=> RetriesAreExact  BY <1>1, <1>2, <1>4 DEF RetriesAreExact
<1>6. FailuresAreLocalised' <=> FailuresAreLocalised
  BY <1>1, <1>2, <1>4 DEF FailuresAreLocalised
<1> QED BY <1>1, <1>2, <1>3, <1>5, <1>6 DEF ResultInv

LEMMA InitResult == Init => ResultInv
<1> SUFFICES ASSUME Init  PROVE ResultInv  OBVIOUS
<1>1. history.budget = total_retest_count  BY DEF Init
<1>2. at = "between" /\ ~Analysed  BY DEF Init, Analysed
<1> QED BY <1>1, <1>2 DEF ResultInv, RetriesAreExact, FailuresAreLocalised

LEMMA NextResult ==
  ASSUME IInv, ResultInv, [Next]_vars
  PROVE  ResultInv'
<1>1. CASE StartTest
  <2>1. /\ at' = "fracture" /\ log' = <<>> /\ fail_count' = 0 /\ analysis' = "none"
        /\ per_thread_failures' = NoFailures
        /\ UNCHANGED <<total_retest_count, history>>
    BY <1>1 DEF StartTest
  <2>2. Failures' = {} /\ Cardinality(Failures') = 0
    <3>1. Failures' = {}  BY <2>1 DEF Failures
    <3> QED BY <3>1, FS_EmptySet
  <2>3. FailedThreads' = {}  BY <2>1 DEF FailedThreads, NoFailures
  <2>4. ~Analysed'  BY <2>1 DEF Analysed
  <2> QED BY <2>1, <2>2, <2>3, <2>4 DEF ResultInv, RetriesAreExact, FailuresAreLocalised
<1>2. CASE AnalyzeAndReturn
  <2>1. /\ at = "retry" /\ at' \in {"between", "finish"} /\ ~ShouldRetryTest
        /\ UNCHANGED <<log, fail_count, iterations, per_thread_failures,
                       total_retest_count, history>>
    BY <1>2 DEF AnalyzeAndReturn, ReturnToMain
  <2>2. UNCHANGED <<Failures, FailedThreads, Retries>>
    BY <2>1 DEF Failures, FailedThreads, Retries
  <2>3. \A j : RetryLog(j)' = RetryLog(j)  BY <2>1, <2>2 DEF RetryLog
  <2>4. RetriesAreExact'  BY <2>1, <2>2, <2>3, RetriesEnough DEF RetriesAreExact
  <2>5. FailuresAreLocalised'
    BY <2>1, <2>2, <2>3, AnalysisLocalises DEF FailuresAreLocalised, Failures
  <2>6. history.budget < 0 => total_retest_count < 0  BY DEF ResultInv
  <2>7. /\ ~(at' = "fracture") /\ ~(at' = "retry") /\ ~(at' \in {"fracture", "retry"})
        /\ history' = history /\ total_retest_count' = total_retest_count
    BY <2>1
  <2> QED BY <2>4, <2>5, <2>6, <2>7 DEF ResultInv
<1>3. CASE \E a \in Attempt : Fracture(a)
  <2>1. PICK a \in Attempt : Fracture(a)  BY <1>3
  <2>2. CASE a.state = Failed  BY <2>1, <2>2, FirstRetrying
  <2>3. CASE a.state # Failed
    <3>1. /\ at = "fracture" /\ at' \in {"fracture", "between", "finish"}
          /\ log' = Append(log, a)
          /\ UNCHANGED <<fail_count, per_thread_failures, analysis, total_retest_count>>
      BY <2>1, <2>3 DEF Fracture, ReturnToMain, PrintAttempt
    <3>2. log \in Seq(Attempt)  BY DEF IInv, TypeOK
    <3>3. Failures' = Failures  BY <2>3, <3>1, <3>2, FailuresGrow
    <3>4. FailedThreads' = FailedThreads  BY <3>1 DEF FailedThreads
    <3>5. ~Analysed'  BY <3>1 DEF ResultInv, Analysed
    <3>6. history'.budget = history.budget
      BY <2>1, PrintShape DEF Fracture, IInv
    <3> QED
      BY <3>1, <3>3, <3>4, <3>5, <3>6 DEF ResultInv, RetriesAreExact, FailuresAreLocalised
  <2> QED BY <2>2, <2>3
<1>4. CASE \E a \in Attempt : Retry(a)
  BY <1>4, RetryRetrying
<1>5. CASE StopBetweenTests
  <2>1. UNCHANGED <<test, total_retest_count, history>> /\ at' = "finish"
    BY <1>5 DEF StopBetweenTests
  <2> QED BY <2>1, QuietResult
<1>6. CASE ExitInvalid \/ Finish
  <2>1. UNCHANGED <<test, total_retest_count, history>> /\ at' \in {"exited", "ended"}
    BY <1>6 DEF ExitInvalid, Finish
  <2> QED BY <2>1, QuietResult
<1>7. CASE DurationElapses
  <2>1. UNCHANGED <<at, log, fail_count, iterations, per_thread_failures, analysis,
                    total_retest_count, history>>
    BY <1>7 DEF DurationElapses
  <2>2. UNCHANGED <<Failures, FailedThreads, Retries, Analysed>>
    BY <2>1 DEF Failures, FailedThreads, Retries, Analysed
  <2>3. \A n : Retrying(n)' <=> Retrying(n)  BY <2>1, <2>2 DEF Retrying, IsFirst
  <2>4. \A j : RetryLog(j)' = RetryLog(j)  BY <2>1, <2>2 DEF RetryLog
  <2>5. RetriesAreExact' <=> RetriesAreExact  BY <2>1, <2>2, <2>4 DEF RetriesAreExact
  <2>6. FailuresAreLocalised' <=> FailuresAreLocalised
    BY <2>1, <2>2, <2>4 DEF FailuresAreLocalised
  <2> QED BY <2>1, <2>2, <2>3, <2>5, <2>6 DEF ResultInv
<1>8. CASE UNCHANGED vars
  <2>1. UNCHANGED <<at, test, total_retest_count, history>>  BY <1>8 DEF vars
  <2> QED BY <2>1, QuietResult
<1> QED BY <1>1, <1>2, <1>3, <1>4, <1>5, <1>6, <1>7, <1>8 DEF Next, Program, Terminated

\* Whatever the retries do, a failing test is retried as often as it should be.
THEOREM RetriesCounted == Spec => []RetriesAreExact
<1>1. ResultInv => RetriesAreExact  BY DEF ResultInv
<1> QED BY <1>1, InitResult, NextResult, Invariance, PTL DEF Spec

\* The report's counts are those of all attempts since the first failure, and the
\* threads with a bit set, by which the topology analysis takes them for failed, are
\* those that failed in one of the first MaxRetestCount of them.
THEOREM FailuresLocalised == Spec => []FailuresAreLocalised
<1>1. ResultInv => FailuresAreLocalised  BY DEF ResultInv
<1> QED BY <1>1, InitResult, NextResult, Invariance, PTL DEF Spec

-----------------------------------------------------------------------------
(***************************************************************************)
(* RunEnvironment.                                                         *)
(***************************************************************************)
\* An engine that a child, given its seed, makes again.
ValidEngine(g, aes) == g \in State /\ engineFromName(g.engine, aes)

\* The test's own random numbers leave the parent's engine alone.
Apart == ~InProcess

\* The engine of the parent is one the set-up has made.
EngineInv ==
  /\ environment \in Environments
  /\ ready => ValidEngine(global, environment.haveAes)
  /\ ~ready => seeds = {} /\ at \notin {"fracture", "retry"}

\* The seeds are behind the engine, but for that of a failure being retried.
SeedInv ==
  ~Stuck(global) =>
    \A s \in seeds : /\ s.drawn \in Nat /\ s.drawn <= global.drawn
                     /\ at \in {"between", "fracture"} => s.drawn # global.drawn

\* What an attempt has run under is what a report's seed makes again.
OfSeed(c) ==
  /\ c.reported = c.seed
  /\ c.threads = random_init_thread(Calls(c.reported, environment.init),
                                    [core |-> 0, package |-> 0, thread |-> 0]).global

SameSettings(c, m) == c.core = [cpu \in Cpus(m) |-> ReadSetspeed(m, cpu)] /\ c.uncore = m.uncore

\* The attempts from the failure n on ran under the same conditions.
RepeatFrom(n) ==
  \A k \in n..Len(conditions) :
    /\ conditions[k].core = conditions[n].core
    /\ conditions[k].uncore = conditions[n].uncore
    /\ Apart => conditions[k].seed = conditions[n].seed

\* As long as there may be retries, those of the failure are still in force.
StillThere(n) ==
  /\ SameSettings(conditions[n], machine)
  /\ Apart => conditions[n].seed = global

\* There is a condition for each attempt; a test goes on only while it has not
\* failed.
ConditionInv ==
  /\ log \in Seq(Attempt)
  /\ \E S : conditions \in Seq(S)
  /\ Len(conditions) = Len(log)
  /\ at = "fracture" => ~HasFailed
  /\ at = "retry" => HasFailed
  /\ HasFailed => \E n \in 1..Len(log) : /\ IsFirst(n) /\ RepeatFrom(n)
                                         /\ at = "retry" => StillThere(n)
  /\ Apart => \A k \in 1..Len(conditions) : OfSeed(conditions[k])

\* A run that was cut short has an exit code that TestRun does not know, and
\* takes no step any more.
EInv ==
  /\ at # "exited" => IInv
  /\ BudgetIsKept
  /\ EngineInv /\ SeedInv /\ ConditionInv
-----------------------------------------------------------------------------
\* A test without random init calls leaves its engine alone.
LEMMA CallsNone ==
  ASSUME NEW s
  PROVE  Calls(s, <<>>) = s
<1> DEFINE P(f) == f = [k \in 0..Len(<<>>) |->
                          IF k = 0 THEN s ELSE RandomFunction(f[k - 1], <<>>[k])]
           after == CHOOSE f : P(f)
<1>1. Len(<<>>) = 0  OBVIOUS
<1>2. P([k \in 0..Len(<<>>) |-> s])  BY <1>1
<1>3. P(after)  BY <1>2
<1>4. after[0] = s  BY <1>1, <1>3
<1>5. Calls(s, <<>>) = after[Len(<<>>)]  BY DEF Calls
<1> QED BY <1>1, <1>4, <1>5

\* Induction over the natural numbers, for a set.
LEMMA NatSet ==
  ASSUME NEW S, 0 \in S, \A n \in Nat : n \in S => n + 1 \in S
  PROVE  Nat \subseteq S
<1> DEFINE R == OpToRel(<, Nat)
           T == Nat \ S
<1>1. IsWellFoundedOn(R, Nat)  BY NatLessThanWellFounded, Zenon
<1>2. \A x, y \in Nat : x < y => <<x, y>> \in R  BY DEF OpToRel
<1> HIDE DEF R
<1> SUFFICES ASSUME T # {}  PROVE FALSE  OBVIOUS
<1>3. PICK x \in T : \A y \in T : <<y, x>> \notin R
  <2>1. T \subseteq Nat  OBVIOUS
  <2> HIDE DEF T
  <2> QED BY <1>1, <2>1, WFMin
<1>4. x \in Nat /\ x # 0  OBVIOUS
<1>5. x - 1 \in Nat /\ x - 1 < x /\ (x - 1) + 1 = x  BY <1>4
<1>6. x - 1 \in T  BY <1>5
<1> QED BY <1>2, <1>3, <1>4, <1>5, <1>6

\* The engine t is s, some numbers later.
Later(s, t) ==
  t \in State /\ t.engine = s.engine /\ t.origin = s.origin /\ t.drawn >= s.drawn

LEMMA FunctionFacts ==
  ASSUME NEW s \in State, NEW f \in DOMAIN RequestOf
  PROVE  Later(s, RandomFunction(s, f))
<1>1. /\ s.engine \in EngineType /\ s.origin \in Origin /\ s.drawn \in Nat
      /\ s = [engine |-> s.engine, origin |-> s.origin, drawn |-> s.drawn]
  BY DEF State
<1>2. PICK request : request = RequestOf[f] /\ request \in {"int", "r32", "r64"}
  BY DEF RequestOf
<1>3. PICK n \in Nat : n = Draws(s.engine, request)
  BY <1>1, <1>2 DEF EngineType, Draws, RequestsLCG, RequestsAES
<1>4. RandomFunction(s, f) = Move(s, n)  BY <1>2, <1>3 DEF RandomFunction, generate
<1>5. CASE Stuck(s)  BY <1>1, <1>4, <1>5 DEF Move, Later
<1>6. CASE ~Stuck(s)
  <2>1. RandomFunction(s, f) = [engine |-> s.engine, origin |-> s.origin, drawn |-> s.drawn + n]
    BY <1>1, <1>4, <1>6 DEF Move
  <2> QED BY <1>1, <2>1 DEF Later, State
<1> QED BY <1>5, <1>6

\* Any sequence of calls moves the engine on, if at all.
LEMMA CallsFacts ==
  ASSUME NEW s \in State, NEW fs \in Seq(DOMAIN RequestOf)
  PROVE  Later(s, Calls(s, fs))
<1> DEFINE P(n, f) == f = [k \in 0..n |-> IF k = 0 THEN s ELSE RandomFunction(f[k - 1], fs[k])]
           after   == CHOOSE f : P(Len(fs), f)
<1>0. PICK l \in Nat : l = Len(fs)  OBVIOUS
<1>1. \E f : P(l, f)
  <2> DEFINE S == {n \in Nat : \E f : P(n, f)}
  <2>1. 0 \in S
    <3>1. P(0, [k \in 0..0 |-> s])  OBVIOUS
    <3> QED BY <3>1
  <2>2. ASSUME NEW n \in Nat, n \in S  PROVE n + 1 \in S
    <3>1. PICK f : P(n, f)  BY <2>2
    <3> PICK x : x = RandomFunction(f[n], fs[n + 1])  OBVIOUS
    <3> PICK g : g = [k \in 0..(n + 1) |-> IF k = n + 1 THEN x ELSE f[k]]  OBVIOUS
    <3>2. g[n + 1] = x /\ g[n] = f[n] /\ \A k \in 0..n : g[k] = f[k]  OBVIOUS
    <3>3. ASSUME NEW k \in 0..(n + 1)
          PROVE  g[k] = IF k = 0 THEN s ELSE RandomFunction(g[k - 1], fs[k])
      <4>1. CASE k = n + 1
        <5>1. k # 0 /\ k - 1 = n /\ g[k - 1] = f[n]  BY <3>2, <4>1
        <5> QED BY <3>2, <4>1, <5>1
      <4>2. CASE k = 0
        <5>1. g[0] = f[0]  BY <3>2
        <5>2. f[0] = s  BY <3>1
        <5> QED BY <4>2, <5>1, <5>2
      <4>3. CASE k # 0 /\ k # n + 1
        <5>1. k \in 0..n /\ k - 1 \in 0..n  BY <4>3
        <5>2. g[k] = f[k] /\ g[k - 1] = f[k - 1]  BY <3>2, <5>1
        <5>3. f[k] = RandomFunction(f[k - 1], fs[k])  BY <3>1, <4>3, <5>1
        <5> QED BY <4>3, <5>2, <5>3
      <4> QED BY <4>1, <4>2, <4>3
    <3>4. P(n + 1, g)  BY <3>3
    <3>5. n + 1 \in Nat  OBVIOUS
    <3> HIDE DEF P
    <3> QED BY <3>4, <3>5
  <2> HIDE DEF S
  <2>3. Nat \subseteq S  BY <2>1, <2>2, NatSet
  <2> QED BY <2>3 DEF S
<1>2. P(l, after)
  <2> HIDE DEF P
  <2> QED BY <1>0, <1>1
<1>3. Calls(s, fs) = after[l]  BY <1>0 DEF Calls
<1> HIDE DEF after
<1>4. \A k \in 0..l : Later(s, after[k])
  <2> DEFINE S == {n \in Nat : n <= l => Later(s, after[n])}
  <2>1. 0 \in S
    <3>1. after[0] = s  BY <1>2
    <3>2. s.drawn \in Nat  BY DEF State
    <3> QED BY <3>1, <3>2 DEF Later
  <2>2. ASSUME NEW n \in Nat, n \in S  PROVE n + 1 \in S
    <3>1. SUFFICES ASSUME n + 1 <= l  PROVE Later(s, after[n + 1])  OBVIOUS
    <3>2. Later(s, after[n])  BY <2>2, <3>1
    <3>3. n + 1 \in 0..l /\ n + 1 # 0 /\ (n + 1) - 1 = n /\ n + 1 \in 1..Len(fs)
      BY <1>0, <3>1
    <3>4. after[n + 1] = RandomFunction(after[n], fs[n + 1])  BY <1>2, <3>3
    <3>5. fs[n + 1] \in DOMAIN RequestOf  BY <3>3
    <3>6. Later(after[n], after[n + 1])
      BY <3>2, <3>4, <3>5, FunctionFacts DEF Later
    <3>7. s.drawn \in Nat /\ after[n].drawn \in Nat /\ after[n + 1].drawn \in Nat
      BY <3>2, <3>6 DEF State, Later
    <3> QED BY <3>2, <3>6, <3>7 DEF Later
  <2> HIDE DEF S
  <2>3. Nat \subseteq S  BY <2>1, <2>2, NatSet
  <2> QED BY <2>3 DEF S
<1> QED BY <1>0, <1>3, <1>4

\* One step of the engine between two fractures: its name stays and it moves, unless
\* it never does.
LEMMA RandFacts ==
  ASSUME NEW s \in State
  PROVE  /\ random_advance_seed(s) \in State
         /\ random_advance_seed(s).engine = s.engine
         /\ Stuck(random_advance_seed(s)) <=> Stuck(s)
         /\ ~Stuck(s) => random_advance_seed(s).drawn = s.drawn + 1
<1>1. /\ s.engine \in EngineType /\ s.origin \in Origin /\ s.drawn \in Nat
      /\ s = [engine |-> s.engine, origin |-> s.origin, drawn |-> s.drawn]
  BY DEF State
<1>2. random_advance_seed(s) = Move(s, Draws(s.engine, "int"))
  BY DEF random_advance_seed, RandomFunction, generate, RequestOf
<1>3. CASE Stuck(s)  BY <1>2, <1>3 DEF Move
<1>4. CASE ~Stuck(s)
  <2>1. Draws(s.engine, "int") = 1
    BY <1>1, <1>4 DEF Stuck, EngineType, Draws, RequestsLCG, RequestsAES
  <2>2. random_advance_seed(s) = [engine |-> s.engine, origin |-> s.origin, drawn |-> s.drawn + 1]
    BY <1>1, <1>2, <1>4, <2>1 DEF Move
  <2>3. random_advance_seed(s) \in State  BY <1>1, <2>2 DEF State
  <2> QED BY <1>1, <1>4, <2>2, <2>3 DEF Stuck
<1> QED BY <1>3, <1>4


\* Whatever -s says, an engine that main() goes on with can be made again.
LEMMA SetupFacts ==
  ASSUME NEW e \in Environments, NEW r \in random_init_global(e.seed, e.haveAes), ~Exits(r)
  PROVE  ValidEngine(r.state, e.haveAes)
<1> DEFINE k == e.seed.kind
<1>1. k \in {"none", "help", "unknown", "file", "engine", "state"}
  BY EnvironmentAssumption
<1>2. \A code : Exits(Exit(code))  BY DEF Exits, Exit
<1>3. \A g : Seeded(g).state = g  BY DEF Seeded
<1>4. \A x \in EngineType : Fresh(x) \in State /\ Fresh(x).engine = x
  BY DEF Fresh, State, Origin
<1>5. CASE k = "none" \/ (k = "file" /\ e.seed.long_enough)
  <2>1. PICK x \in IF e.haveAes THEN {"LCG", "AES"} ELSE {"LCG"} : r = Seeded(Fresh(x))
    BY <1>5 DEF random_init_global
  <2>2. x \in EngineType /\ engineFromName(x, e.haveAes)
    BY <2>1 DEF EngineType, engineFromName
  <2> QED BY <1>3, <1>4, <2>1, <2>2 DEF ValidEngine
<1>6. CASE k = "engine"
  <2>1. r = Seeded(Fresh(e.seed.engine)) /\ engineFromName(e.seed.engine, e.haveAes)
    BY <1>2, <1>6 DEF random_init_global
  <2> QED BY <1>3, <1>4, <1>6, <2>1, EnvironmentAssumption DEF ValidEngine
<1>7. CASE k = "state"
  <2>1. r = Seeded(e.seed.state) /\ engineFromName(e.seed.state.engine, e.haveAes)
    BY <1>2, <1>7 DEF random_init_global
  <2> QED BY <1>3, <1>7, <2>1, EnvironmentAssumption DEF ValidEngine
<1>8. CASE k = "help"  BY <1>2, <1>8 DEF random_init_global
<1>9. CASE k = "unknown"  BY <1>2, <1>9 DEF random_init_global
<1>10. CASE k = "file" /\ ~e.seed.long_enough
  BY <1>2, <1>10 DEF random_init_global
<1> QED BY <1>1, <1>5, <1>6, <1>7, <1>8, <1>9, <1>10

\* The child that is executed reads the engine of the parent from its arguments.
LEMMA ExecFacts ==
  ASSUME NEW g, NEW aes, ValidEngine(g, aes)
  PROVE  (CHOOSE r \in random_init_global(random_format_seed(g), aes) : TRUE).state = g
<1>1. random_init_global(random_format_seed(g), aes) = {Seeded(g)}
  BY DEF random_init_global, random_format_seed, StateSeed, ValidEngine
<1>2. (CHOOSE r \in {Seeded(g)} : TRUE) = Seeded(g)  OBVIOUS
<1> QED BY <1>1, <1>2 DEF Seeded

\* What one attempt runs under, and leaves: the engine of the parent as it was, or
\* some numbers later.
LEMMA ConditionFacts ==
  ASSUME EngineInv, ready, NEW m
  PROVE  /\ SameSettings(Condition(m), m)
         /\ Later(global, AfterAttempt)
         /\ Apart => /\ AfterAttempt = global
                     /\ Condition(m).seed = global
                     /\ OfSeed(Condition(m))
<1>0. environment \in Environments /\ ValidEngine(global, environment.haveAes)
  BY DEF EngineInv
<1>1. \A s : random_format_seed(s).state = s  BY DEF random_format_seed, StateSeed
<1>2. SameSettings(Condition(m), m)  BY DEF SameSettings, Condition
<1>3. InChild = global /\ AfterInit = Calls(global, environment.init)
  BY <1>0, ExecFacts DEF InChild, AfterInit
<1>4. Later(global, AfterAttempt)
  <2>1. global \in State /\ global.drawn \in Nat  BY <1>0 DEF ValidEngine, State
  <2>2. Later(global, global)  BY <2>1 DEF Later
  <2>3. Later(global, AfterInit)  BY <1>0, <1>3, <2>1, CallsFacts, EnvironmentAssumption
  <2> QED BY <2>2, <2>3 DEF AfterAttempt
<1>5. ASSUME Apart  PROVE AfterAttempt = global
  <2>1. environment.fork_mode = "no_fork" => environment.init = <<>>
    BY <1>5 DEF Apart, InProcess
  <2> QED BY <1>3, <2>1, CallsNone DEF AfterAttempt
<1>6. ASSUME Apart  PROVE Condition(m).seed = global /\ OfSeed(Condition(m))
  BY <1>1, <1>3, <1>5, <1>6 DEF Condition, OfSeed
<1> QED BY <1>2, <1>4, <1>5, <1>6

\* The sequences of attempts and of conditions grow at the end.
LEMMA GrowFacts ==
  ASSUME NEW S, NEW s \in Seq(S), NEW c
  PROVE  /\ Append(s, c) \in Seq(S \cup {c})
         /\ Len(Append(s, c)) = Len(s) + 1
         /\ \A k \in 1..Len(s) : Append(s, c)[k] = s[k]
         /\ Append(s, c)[Len(s) + 1] = c
<1>1. s \in Seq(S \cup {c}) /\ c \in S \cup {c}  OBVIOUS
<1> QED BY <1>1

\* The first failure that RunEnvironment speaks of is that of TestRun.
LEMMA FirstIsOne ==
  ASSUME ConditionInv, NEW n \in 1..Len(log), IsFirst(n)
  PROVE  HasFailed /\ FirstFailure = n
<1>1. log \in Seq(Attempt) /\ Len(log) \in Nat /\ n \in DOMAIN log  BY DEF ConditionInv
<1>2. Retries = Len(log) - n  BY <1>1, FirstFailed
<1> QED BY <1>1, <1>2 DEF FirstFailure, HasFailed, ConditionInv, IsFirst

-----------------------------------------------------------------------------
\* Where an attempt may lead, and what it leaves of the log.
LEMMA AttemptShape ==
  ASSUME ConditionInv, NEW a \in Attempt, EnvFracture(a) \/ EnvRetry(a)
  PROVE  /\ UNCHANGED <<environment, ready>> /\ log' = Append(log, a)
         /\ conditions' = Append(conditions, Condition(machine'))
         /\ EnvFracture(a) => at = "fracture" /\ (at' = "retry" <=> a.state = Failed)
         /\ EnvFracture(a) => at' \in {"retry", "fracture", "between", "finish"}
         /\ EnvRetry(a) => at = "retry" /\ at' = "retry"
<1>1. Passed # Skipped /\ Passed # Failed /\ Skipped # Failed
  BY DEF Passed, Skipped, Failed
<1>2. CASE EnvFracture(a)
  <2>1. Fracture(a) /\ UNCHANGED <<environment, ready>>
        /\ conditions' = Append(conditions, Condition(machine'))
    BY <1>2 DEF EnvFracture
  <2>2. at = "fracture" /\ log' = Append(log, a)
    BY <2>1 DEF Fracture, PrintAttempt
  <2>3. /\ at' = "retry" <=> a.state = Failed
        /\ at' \in {"retry", "fracture", "between", "finish"}
    BY <1>1, <2>1, <2>2 DEF Fracture, ReturnToMain
  <2>4. ~EnvRetry(a)  BY <2>2 DEF EnvRetry, Retry
  <2> QED BY <2>1, <2>2, <2>3, <2>4
<1>3. CASE EnvRetry(a)
  <2>1. at = "retry" /\ at' = "retry" /\ log' = Append(log, a)
        /\ UNCHANGED <<environment, ready>>
        /\ conditions' = Append(conditions, Condition(machine'))
    BY <1>3 DEF EnvRetry, Retry, PrintAttempt
  <2>2. ~EnvFracture(a)  BY <2>1 DEF EnvFracture, Fracture
  <2> QED BY <2>1, <2>2
<1> QED BY <1>2, <1>3

\* The engine moves on behind each fracture; what test_init() draws in the parent
\* moves it too.
LEMMA AttemptSeeds ==
  ASSUME EInv, ready, NEW a \in Attempt, EnvFracture(a) \/ EnvRetry(a)
  PROVE  EngineInv' /\ SeedInv'
<1> USE DEF EInv
<1>1. UNCHANGED <<environment, ready>> /\ environment \in Environments
  BY AttemptShape DEF EngineInv
<1>2. PICK t : t = AfterAttempt /\ Later(global, t) /\ ValidEngine(t, environment.haveAes)
  BY ConditionFacts DEF EngineInv, ValidEngine, Later
<1>3. PICK n \in Nat, m \in Nat : n = global.drawn /\ m = t.drawn /\ n <= m
  BY <1>2 DEF EngineInv, ValidEngine, Later, State
<1>4. t \in State /\ (Stuck(t) <=> Stuck(global))
  BY <1>2 DEF Later, Stuck
<1>5. ~Stuck(global) => \A s \in seeds : s.drawn \in Nat /\ s.drawn <= n
  BY <1>3 DEF SeedInv
<1>6. CASE EnvFracture(a)
  <2>1. at = "fracture" /\ at' \in {"retry", "fracture", "between", "finish"}
        /\ seeds' = seeds \cup {global}
    BY <1>6, AttemptShape DEF EnvFracture
  <2>2. ~Stuck(global) => \A s \in seeds' : s.drawn \in Nat /\ s.drawn <= m
    BY <1>3, <1>5, <2>1
  <2>3. CASE at' = "retry"
    <3>1. global' = t  BY <1>2, <1>6, <2>3 DEF EnvFracture
    <3>2. EngineInv'  BY <1>1, <1>2, <3>1 DEF EngineInv
    <3>3. SeedInv'  BY <1>3, <1>4, <2>2, <2>3, <3>1 DEF SeedInv
    <3> QED BY <3>2, <3>3
  <2>4. CASE at' # "retry"
    <3>1. global' = random_advance_seed(t)
      BY <1>2, <1>6, <2>4 DEF EnvFracture, Out
    <3>2. EngineInv'
      BY <1>1, <1>2, <3>1, RandFacts DEF EngineInv, ValidEngine
    <3>3. (Stuck(global') <=> Stuck(t)) /\ (~Stuck(t) => global'.drawn = m + 1)
      BY <1>3, <1>4, <3>1, RandFacts
    <3>4. SeedInv'  BY <1>3, <1>4, <2>2, <3>3 DEF SeedInv
    <3> QED BY <3>2, <3>4
  <2> QED BY <2>3, <2>4
<1>7. CASE EnvRetry(a)
  <2>1. at = "retry" /\ at' = "retry" /\ seeds' = seeds /\ global' = t
    BY <1>2, <1>7, AttemptShape DEF EnvRetry
  <2>2. EngineInv'  BY <1>1, <1>2, <2>1 DEF EngineInv
  <2>3. SeedInv'  BY <1>3, <1>4, <1>5, <2>1 DEF SeedInv
  <2> QED BY <2>2, <2>3
<1> QED BY <1>6, <1>7

\* The first failure and its retries run under the same conditions.
LEMMA AttemptConditions ==
  ASSUME EInv, ready, NEW a \in Attempt, EnvFracture(a) \/ EnvRetry(a)
  PROVE  ConditionInv'
<1> USE DEF EInv
<1> DEFINE c == Condition(machine')
<1>1. /\ UNCHANGED <<environment, ready>> /\ (Apart' <=> Apart)
      /\ log' = Append(log, a) /\ conditions' = Append(conditions, c)
      /\ EnvFracture(a) => at = "fracture" /\ (at' = "retry" <=> a.state = Failed)
      /\ EnvRetry(a) => at = "retry" /\ at' = "retry"
  BY AttemptShape DEF Apart, InProcess
<1>2. /\ SameSettings(c, machine')
      /\ Apart => AfterAttempt = global /\ c.seed = global /\ OfSeed(c)
  BY ConditionFacts
<1> HIDE DEF c
<1>3. PICK S : conditions \in Seq(S)  BY DEF ConditionInv
<1>0. PICK l \in Nat : l = Len(log)  BY DEF ConditionInv
<1>4. /\ Len(log) = l /\ Len(conditions) = l /\ log' \in Seq(Attempt) /\ Len(log') = l + 1
      /\ \A k \in 1..l : log'[k] = log[k]
      /\ log'[l + 1] = a
  BY <1>0, <1>1 DEF ConditionInv
<1>5. /\ conditions' \in Seq(S \cup {c}) /\ Len(conditions') = l + 1
      /\ \A k \in 1..l : conditions'[k] = conditions[k]
      /\ conditions'[l + 1] = c
  BY <1>1, <1>3, <1>4, GrowFacts
<1>6. Apart => \A k \in 1..(l + 1) : OfSeed(conditions[k])'
  <2> SUFFICES ASSUME Apart, NEW k \in 1..(l + 1)  PROVE OfSeed(conditions[k])'
    OBVIOUS
  <2>1. OfSeed(conditions[k])' <=> OfSeed(conditions'[k])  BY <1>1 DEF OfSeed
  <2>2. k \in 1..l => OfSeed(conditions[k])  BY <1>4 DEF ConditionInv
  <2> QED BY <1>2, <1>4, <1>5, <2>1, <2>2
<1>7. CASE EnvFracture(a)
  <2>1. \A k \in 1..l : log[k].state # Failed
    BY <1>1, <1>4, <1>7 DEF ConditionInv, HasFailed
  <2>2. HasFailed' <=> a.state = Failed
    BY <1>4, <2>1 DEF HasFailed
  <2>3. a.state = Failed => IsFirst(l + 1)' /\ RepeatFrom(l + 1)'
    BY <1>4, <1>5, <2>1 DEF IsFirst, RepeatFrom
  <2>4. at' = "retry" => StillThere(l + 1)'
    <3> SUFFICES ASSUME at' = "retry"  PROVE StillThere(l + 1)'  OBVIOUS
    <3>1. Apart => global' = global  BY <1>2, <1>7 DEF EnvFracture
    <3> QED BY <1>1, <1>2, <1>5, <3>1 DEF StillThere, SameSettings
  <2> QED
    BY <1>1, <1>4, <1>5, <1>6, <1>7, <2>2, <2>3, <2>4
    DEF ConditionInv
<1>8. CASE EnvRetry(a)
  <2>1. at = "retry" /\ at' = "retry" /\ machine' = machine
        /\ (Apart => global' = global)
    BY <1>1, <1>2, <1>8 DEF EnvRetry, RetryFrequencies, Returns, Outcome
  <2>2. PICK n \in 1..l : IsFirst(n) /\ RepeatFrom(n) /\ StillThere(n)
    BY <1>4, <2>1 DEF ConditionInv
  <2>3. IsFirst(n)'  BY <1>4, <2>2 DEF IsFirst
  <2>4. conditions'[n] = conditions[n]  BY <1>5, <2>2
  <2>5. StillThere(n)'  BY <1>1, <2>1, <2>2, <2>4 DEF StillThere, SameSettings
  <2>6. RepeatFrom(n)'
    <3> SUFFICES ASSUME NEW k \in n..(l + 1)
                 PROVE  /\ conditions'[k].core = conditions'[n].core
                        /\ conditions'[k].uncore = conditions'[n].uncore
                        /\ Apart => conditions'[k].seed = conditions'[n].seed
      BY <1>1, <1>5 DEF RepeatFrom
    <3>1. CASE k = l + 1
      BY <1>2, <1>5, <2>1, <2>2, <2>4, <3>1 DEF StillThere, SameSettings
    <3>2. CASE k # l + 1
      BY <1>4, <1>5, <2>2, <2>4, <3>2 DEF RepeatFrom
    <3> QED BY <3>1, <3>2
  <2>7. HasFailed'  BY <1>4, <2>2, <2>3 DEF HasFailed, IsFirst
  <2>8. n \in 1..(l + 1)  BY <1>4, <2>2
  <2> QED BY <1>4, <1>5, <1>6, <1>1, <2>1, <2>3, <2>5, <2>6, <2>7, <2>8 DEF ConditionInv
<1> QED BY <1>7, <1>8

-----------------------------------------------------------------------------
\* A step that prints no attempt and does not begin a retry leaves what is known
\* of the conditions.
LEMMA QuietConditions ==
  ASSUME ConditionInv, UNCHANGED <<log, conditions, environment>>, at' # "retry",
         at' = "fracture" => at = "fracture"
  PROVE  ConditionInv'
<1>1. (Apart' <=> Apart) /\ (HasFailed' <=> HasFailed)
  BY DEF Apart, InProcess, HasFailed
<1>2. \A n : (IsFirst(n)' <=> IsFirst(n)) /\ (RepeatFrom(n)' <=> RepeatFrom(n))
  BY <1>1 DEF IsFirst, RepeatFrom
<1>3. \A k : OfSeed(conditions[k])' <=> OfSeed(conditions[k])  BY DEF OfSeed
<1> QED BY <1>1, <1>2, <1>3 DEF ConditionInv

\* A step that leaves the engine and the seeds leaves what is known of them.
LEMMA QuietSeeds ==
  ASSUME EngineInv, SeedInv, UNCHANGED <<environment, ready, global, seeds>>, ready,
         at' \in {"between", "fracture"} => at \in {"between", "fracture"}
  PROVE  EngineInv' /\ SeedInv'
BY DEF EngineInv, SeedInv

\* The steps that are TestRun's keep its invariant.
LEMMA TestRunKept ==
  ASSUME EInv, Next, at # "exited"
  PROVE  IInv' /\ BudgetIsKept'
<1>1. IInv'  BY NextIInv DEF EInv
<1> QED BY <1>1 DEF IInv

\* A step that ends the program at once.
LEMMA ExitedKept ==
  ASSUME EInv, at' = "exited", UNCHANGED <<test, total_retest_count, history, environment,
                                           conditions>>
  PROVE  BudgetIsKept' /\ ConditionInv'
<1>1. BudgetIsKept'  BY DEF EInv, BudgetIsKept
<1>2. ConditionInv'  BY QuietConditions DEF EInv, test
<1> QED BY <1>1, <1>2

\* At the start nothing has been drawn or run.
LEMMA InitEInv == EnvInit => EInv
<1> SUFFICES ASSUME EnvInit  PROVE EInv  OBVIOUS
<1>1. IInv  BY InitIInv DEF EnvInit
<1>2. EngineInv /\ SeedInv  BY DEF EnvInit, Init, EngineInv, SeedInv
<1>3. /\ log = <<>> /\ conditions = <<>> /\ at = "between"  BY DEF EnvInit, Init
<1>4. ~HasFailed /\ log \in Seq(Attempt) /\ conditions \in Seq({})
  BY <1>3 DEF HasFailed
<1>5. ConditionInv  BY <1>3, <1>4 DEF ConditionInv
<1> QED BY <1>1, <1>2, <1>5 DEF EInv, IInv

\* One step of the program, of its clock or of what interrupts it.
LEMMA NextEInv ==
  ASSUME EInv, [EnvNext]_evars
  PROVE  EInv'
<1> USE DEF EInv
<1>1. CASE Setup
  <2>1. /\ ~ready /\ at = "between" /\ at' \in {"between", "exited"}
        /\ UNCHANGED <<test, total_retest_count, history, environment, conditions, seeds>>
    BY <1>1 DEF Setup, Exited
  <2>2. ConditionInv' /\ BudgetIsKept'
    BY <2>1, QuietConditions DEF BudgetIsKept, test
  <2>3. environment \in Environments /\ seeds = {}  BY <2>1 DEF EngineInv
  <2>4. ready' => ValidEngine(global', environment.haveAes)
    BY <1>1, <2>1, <2>3, SetupFacts DEF Setup, Exits
  <2>5. EngineInv' /\ SeedInv'
    BY <2>1, <2>3, <2>4 DEF EngineInv, SeedInv
  <2>6. at' # "exited" => IInv'
    <3> SUFFICES ASSUME at' # "exited"  PROVE IInv'  OBVIOUS
    <3>1. UNCHANGED vars  BY <1>1, <2>1 DEF Setup, Exited, vars
    <3> QED BY <2>1, <3>1, NextIInv
  <2> QED BY <2>2, <2>5, <2>6
<1>2. CASE ready /\ EnvStartTest
  <2>1. /\ StartTest /\ log' = <<>> /\ conditions' = <<>>
        /\ at = "between" /\ at' = "fracture"
        /\ UNCHANGED <<environment, ready, global, machine, manager, seeds>>
    BY <1>2 DEF EnvStartTest, StartTest
  <2>2. IInv' /\ BudgetIsKept'  BY <2>1, TestRunKept DEF Next, Program
  <2>3. EngineInv' /\ SeedInv'  BY <1>2, <2>1, QuietSeeds
  <2>4. ConditionInv'
    <3>1. ~HasFailed' /\ log' \in Seq(Attempt) /\ conditions' \in Seq({})
      BY <2>1 DEF HasFailed
    <3> QED BY <2>1, <3>1 DEF ConditionInv
  <2> QED BY <2>2, <2>3, <2>4
<1>3. CASE ready /\ EnvAnalyzeAndReturn
  <2>1. /\ AnalyzeAndReturn /\ global' = random_advance_seed(global)
        /\ at = "retry" /\ at' \in {"between", "finish"}
        /\ UNCHANGED <<log, environment, ready, conditions, seeds>>
    BY <1>3 DEF EnvAnalyzeAndReturn, AnalyzeAndReturn, ReturnToMain
  <2>2. IInv' /\ BudgetIsKept'  BY <2>1, TestRunKept DEF Next, Program
  <2>3. ConditionInv'  BY <2>1, QuietConditions
  <2>5. EngineInv'
    BY <1>3, <2>1, RandFacts DEF EngineInv, ValidEngine
  <2>6. SeedInv'
    <3> SUFFICES ASSUME ~Stuck(global')
                 PROVE  \A s \in seeds : /\ s.drawn \in Nat /\ s.drawn <= global'.drawn
                                         /\ s.drawn # global'.drawn
      BY <2>1 DEF SeedInv
    <3>1. global \in State  BY <1>3 DEF EngineInv, ValidEngine
    <3>2. ~Stuck(global) /\ global'.drawn = global.drawn + 1
      BY <2>1, <3>1, RandFacts
    <3>3. global.drawn \in Nat  BY <3>1 DEF State
    <3> QED BY <3>2, <3>3 DEF SeedInv
  <2> QED BY <2>2, <2>3, <2>5, <2>6
<1>4. CASE ready /\ (FrequencyFails \/ KilledBySignal)
  <2>1. /\ at' = "exited"
        /\ UNCHANGED <<test, total_retest_count, history, environment, ready, global,
                       conditions, seeds>>
    BY <1>4 DEF FrequencyFails, KilledBySignal, Exited
  <2> QED BY <1>4, <2>1, ExitedKept, QuietSeeds
<1>5. CASE ready /\ \E a \in Attempt : EnvFracture(a) \/ EnvRetry(a)
  <2>1. PICK a \in Attempt : EnvFracture(a) \/ EnvRetry(a)  BY <1>5
  <2>2. Next /\ at # "exited"
    BY <2>1 DEF EnvFracture, EnvRetry, Fracture, Retry, Next, Program
  <2>3. IInv' /\ BudgetIsKept'  BY <2>2, TestRunKept
  <2> QED BY <1>5, <2>1, <2>3, AttemptSeeds, AttemptConditions
<1>6. CASE ready /\ EnvFinish
  <2>1. /\ Finish /\ at = "finish" /\ at' = "ended"
        /\ UNCHANGED <<log, environment, ready, global, conditions, seeds>>
    BY <1>6 DEF EnvFinish, Finish, test
  <2>2. IInv' /\ BudgetIsKept'  BY <2>1, TestRunKept DEF Next, Program
  <2> QED BY <1>6, <2>1, <2>2, QuietConditions, QuietSeeds
<1>7. CASE ready /\ EnvExitInvalid
  <2>1. /\ at' = "exited"
        /\ UNCHANGED <<test, total_retest_count, history, environment, ready, global,
                       conditions, seeds>>
    BY <1>7 DEF EnvExitInvalid, ExitInvalid
  <2> QED BY <1>7, <2>1, ExitedKept, QuietSeeds
<1>8. CASE ready /\ (DurationElapses \/ StopBetweenTests) /\ UNCHANGED surroundings
  <2>1. /\ at \in {"between", "fracture"} /\ at' \in {at, "finish"}
        /\ UNCHANGED <<log, environment, ready, global, conditions, seeds>>
    BY <1>8 DEF DurationElapses, StopBetweenTests, surroundings, test
  <2>2. IInv' /\ BudgetIsKept'  BY <1>8, <2>1, TestRunKept DEF Next
  <2> QED BY <1>8, <2>1, <2>2, QuietConditions, QuietSeeds
<1>9. CASE UNCHANGED evars
  <2>1. UNCHANGED <<vars, at, log, environment, ready, global, machine, conditions, seeds,
                    history, total_retest_count>>
    BY <1>9 DEF evars, vars, test, surroundings
  <2>2. at' # "exited" => IInv'  BY <2>1, NextIInv
  <2>3. BudgetIsKept'  BY <2>1 DEF BudgetIsKept
  <2>4. Apart' <=> Apart  BY <2>1 DEF Apart, InProcess
  <2>5. EngineInv' /\ SeedInv'  BY <2>1, <2>4 DEF EngineInv, SeedInv
  <2>6. ConditionInv'
    <3>1. HasFailed' <=> HasFailed  BY <2>1 DEF HasFailed
    <3>2. \A n : IsFirst(n)' <=> IsFirst(n)  BY <2>1 DEF IsFirst
    <3>3. \A n : RepeatFrom(n)' <=> RepeatFrom(n)  BY <2>1, <2>4 DEF RepeatFrom
    <3>4. \A n : StillThere(n)' <=> StillThere(n)
      BY <2>1, <2>4 DEF StillThere, SameSettings
    <3>5. \A k : OfSeed(conditions[k])' <=> OfSeed(conditions[k])  BY <2>1 DEF OfSeed
    <3>6. log' = log /\ conditions' = conditions /\ at' = at  BY <2>1
    <3> QED BY <2>4, <3>1, <3>2, <3>3, <3>4, <3>5, <3>6, Zenon DEF ConditionInv
  <2> QED BY <2>2, <2>3, <2>5, <2>6
<1> QED
  BY <1>1, <1>2, <1>3, <1>4, <1>5, <1>6, <1>7, <1>8, <1>9
  DEF EnvNext, EnvProgram, Clock, Terminated, evars

\* EInv holds of every run of the program, in every environment.
THEOREM EnvInvariance == EnvSpec => []EInv
<1> QED BY InitEInv, NextEInv, PTL DEF EnvSpec

\* No failing attempt is lost between run_one_test() and the exit code of a run
\* that came to the end of main(), whatever it was started with.
THEOREM ExitCodeOfEveryRun == EnvSpec => []ExitCodeTells
<1>1. EInv => ExitCodeTells  BY DEF EInv, IInv, ExitCodeTells
<1> QED BY <1>1, EnvInvariance, PTL

\* However a run ends, by a signal or with an error too, it has kept to the total
\* of retries.
THEOREM BudgetOfEveryRun == EnvSpec => []BudgetIsKept
<1>1. EInv => BudgetIsKept  BY DEF EInv
<1> QED BY <1>1, EnvInvariance, PTL

\* A failure and its retries run under the same frequencies and, but for a
\* test_init() that draws in the parent, with the same random numbers, which are
\* those that the seed in the report gives to another run.
THEOREM RetriesAreRepetitions == EnvSpec => []RetriesRepeat
<1>1. EInv => RetriesRepeat
  <2> SUFFICES ASSUME EInv, HasFailed  PROVE RetriesRepeat  BY DEF RetriesRepeat
  <2>1. PICK n \in 1..Len(log) : IsFirst(n) /\ RepeatFrom(n)
    BY DEF EInv, ConditionInv
  <2>2. FirstFailure = n /\ Len(conditions) = Len(log) /\ Len(log) \in Nat
    BY <2>1, FirstIsOne DEF EInv, ConditionInv
  <2>3. \A k \in n..Len(conditions) :
          /\ conditions[k].core = conditions[n].core
          /\ conditions[k].uncore = conditions[n].uncore
          /\ Apart => conditions[k].seed = conditions[n].seed /\ OfSeed(conditions[k])
    BY <2>1, <2>2 DEF RepeatFrom, EInv, ConditionInv
  <2> QED BY <2>2, <2>3 DEF RetriesRepeat, Apart, OfSeed
<1> QED BY <1>1, EnvInvariance, PTL

\* No two fractures use the same seed, of all tests of the run, unless the engine
\* never moves; what test_init() draws in the parent changes nothing of that.
THEOREM FracturesUseFreshSeeds == EnvSpec => []SeedsAreFresh
<1>1. EInv => SeedsAreFresh
  BY DEF EInv, SeedInv, SeedsAreFresh
<1> QED BY <1>1, EnvInvariance, PTL

\* What retries and analyses are is kept by the steps of this module too.
LEMMA EnvNextResult ==
  ASSUME EInv, ResultInv, [EnvNext]_evars
  PROVE  ResultInv'
<1> USE DEF EInv
<1>1. ASSUME Next, at # "exited"  PROVE ResultInv'  BY <1>1, NextResult
<1>2. ASSUME UNCHANGED <<test, total_retest_count, history>>,
             at' = "exited" \/ at' = at
      PROVE  ResultInv'
  BY <1>2, QuietResult
<1>3. CASE Setup
  <2>1. UNCHANGED <<test, total_retest_count, history>> /\ (at' = "exited" \/ at' = at)
    BY <1>3 DEF Setup, Exited
  <2> QED BY <1>2, <2>1
<1>4. CASE FrequencyFails \/ KilledBySignal
  <2>1. UNCHANGED <<test, total_retest_count, history>> /\ at' = "exited"
    BY <1>4 DEF FrequencyFails, KilledBySignal, Exited
  <2> QED BY <1>2, <2>1
<1>5. CASE EnvStartTest
  BY <1>1, <1>5 DEF EnvStartTest, StartTest, Next, Program
<1>6. CASE EnvAnalyzeAndReturn
  BY <1>1, <1>6 DEF EnvAnalyzeAndReturn, AnalyzeAndReturn, Next, Program
<1>7. CASE EnvFinish
  BY <1>1, <1>7 DEF EnvFinish, Finish, Next, Program
<1>8. CASE \E a \in Attempt : EnvFracture(a) \/ EnvRetry(a)
  <2>1. PICK a \in Attempt : EnvFracture(a) \/ EnvRetry(a)  BY <1>8
  <2>2. Fracture(a) \/ Retry(a)  BY <2>1 DEF EnvFracture, EnvRetry
  <2>3. at # "exited"  BY <2>2 DEF Fracture, Retry
  <2> QED BY <1>1, <2>2, <2>3 DEF Next, Program
<1>9. CASE EnvExitInvalid
  BY <1>1, <1>9 DEF EnvExitInvalid, ExitInvalid, Next
<1>10. CASE DurationElapses \/ StopBetweenTests
  BY <1>1, <1>10 DEF DurationElapses, StopBetweenTests, Next
<1>11. CASE UNCHANGED evars \/ Terminated
  <2>1. UNCHANGED <<test, total_retest_count, history, at>>
    BY <1>11 DEF evars, vars, Terminated
  <2> QED BY <1>2, <2>1
<1> QED
  BY <1>3, <1>4, <1>5, <1>6, <1>7, <1>8, <1>9, <1>10, <1>11
  DEF EnvNext, EnvProgram, Clock

THEOREM EnvResultInvariance == EnvSpec => []ResultInv
<1>1. EnvInit => ResultInv  BY InitResult DEF EnvInit
<1> QED BY <1>1, EnvNextResult, EnvInvariance, PTL DEF EnvSpec

\* A failing test is retried as often as it should be, in every environment.
THEOREM RetriesOfEveryRun == EnvSpec => []RetriesAreExact
<1>1. ResultInv => RetriesAreExact  BY DEF ResultInv
<1> QED BY <1>1, EnvResultInvariance, PTL

\* In every environment too, the analysis takes for failed the threads that failed in
\* an attempt within the limit, and the report counts all attempts.
THEOREM LocalisedInEveryRun == EnvSpec => []FailuresAreLocalised
<1>1. ResultInv => FailuresAreLocalised  BY DEF ResultInv
<1> QED BY <1>1, EnvResultInvariance, PTL
-----------------------------------------------------------------------------
(***************************************************************************)
(* The frequencies.                                                        *)
(***************************************************************************)
\* The machine m0 with other contents of the files that are written.
Written(m0, p, g, s, u) ==
  [cpus |-> m0.cpus, package |-> m0.package, governed |-> m0.governed, range |-> m0.range,
   root |-> m0.root, userspace |-> m0.userspace, traps |-> m0.traps,
   uncore_tree |-> m0.uncore_tree, pstate |-> p, governor |-> g, setspeed |-> s, uncore |-> u]

\* The governors that a driver comes with.
Defaults(m0, status) ==
  [cpu \in Cpus(m0) |-> IF status = "active" THEN "powersave" ELSE "schedutil"]

IsManager(g) ==
  DOMAIN g = {"core_supported", "core_levels", "core_total", "core_idx", "governors",
              "setspeeds", "pstate_status", "uncore_supported", "uncore_levels",
              "uncore_total", "uncore_idx", "uncore_initial", "total_sockets"}

\* What the set-up does about the cores: the driver it leaves, the governors and
\* speeds it saves, the governors it sets.
Switches(e) ==
  e.vary_frequency_mode /\ ~check_if_userspace_present(e.machine) /\ e.machine.pstate # "none"
Saved(e)    == IF Switches(e) THEN SetPstate(e.machine, "passive") ELSE e.machine
Governed(e) ==
  IF e.vary_frequency_mode /\ e.machine.userspace
  THEN [cpu \in Cpus(e.machine) |-> "userspace"] ELSE Saved(e).governor

SetUpCore(e) ==
  ThenCore(e.vary_frequency_mode, Returns(e.machine, NoManager),
           initial_core_frequency_setup(e.machine, NoManager))
SetUp(e) ==
  ThenCore(e.vary_uncore_frequency_mode, SetUpCore(e),
           initial_uncore_frequency_setup(SetUpCore(e).machine, SetUpCore(e).manager))

Counted(m) == 0..(Cardinality(Packages(m)) - 1)

\* The manager has saved what there was.
SavedCores(e, g) ==
  /\ g.core_supported <=> e.vary_frequency_mode
  /\ e.vary_frequency_mode =>
       /\ g.governors = Saved(e).governor
       /\ g.setspeeds = [cpu \in Cpus(e.machine) |-> ReadSetspeed(Saved(e), cpu)]
       /\ g.pstate_status = IF Switches(e) THEN e.machine.pstate ELSE ""
       /\ g.core_total # 0

SavedUncore(e, g) ==
  /\ g.uncore_supported <=> e.vary_uncore_frequency_mode
  /\ e.vary_uncore_frequency_mode =>
       /\ Sockets(g) = Counted(e.machine)
       /\ g.uncore_initial = [k \in Counted(e.machine) |-> e.machine.uncore[k]]
       /\ g.uncore_total # 0

\* The files in use: the speeds and the ranges are any that were written.
InForce(e, m) ==
  \E s, u :
    /\ m = Written(e.machine, Saved(e).pstate, Governed(e), s, u)
    /\ s = [cpu \in Cpus(e.machine) |-> s[cpu]]
    /\ ~e.vary_frequency_mode => s = e.machine.setspeed
    /\ u = [k \in DOMAIN e.machine.uncore |-> u[k]]
    /\ \A k \in DOMAIN e.machine.uncore :
         ~e.vary_uncore_frequency_mode \/ k \notin Counted(e.machine) =>
           u[k] = e.machine.uncore[k]

-----------------------------------------------------------------------------
\* The files written are those read, the others are m0's.
LEMMA WrittenFields ==
  ASSUME NEW m0, NEW p, NEW g, NEW s, NEW u, NEW m, m = Written(m0, p, g, s, u)
  PROVE  /\ m.pstate = p /\ m.governor = g /\ m.setspeed = s /\ m.uncore = u
         /\ m.cpus = m0.cpus /\ m.package = m0.package /\ m.governed = m0.governed
         /\ m.range = m0.range /\ m.root = m0.root /\ m.userspace = m0.userspace
         /\ m.traps = m0.traps /\ m.uncore_tree = m0.uncore_tree
         /\ Cpus(m) = Cpus(m0) /\ Packages(m) = Packages(m0)
<1>1. /\ m.pstate = p /\ m.governor = g /\ m.setspeed = s /\ m.uncore = u
      /\ m.cpus = m0.cpus /\ m.package = m0.package /\ m.governed = m0.governed
      /\ m.range = m0.range /\ m.root = m0.root /\ m.userspace = m0.userspace
      /\ m.traps = m0.traps /\ m.uncore_tree = m0.uncore_tree
  BY DEF Written
<1>2. Cpus(m) = Cpus(m0)  BY <1>1 DEF Cpus
<1>3. Packages(m) = Packages(m0)  BY <1>1, <1>2 DEF Packages
<1> QED BY <1>1, <1>2, <1>3

\* A machine is itself with its own files.
LEMMA WrittenSelf ==
  ASSUME NEW m0, IsMachine(m0)
  PROVE  m0 = Written(m0, m0.pstate, m0.governor, m0.setspeed, m0.uncore)
BY DEF IsMachine, Written

\* The driver written back brings back its governors.
LEMMA PstateFacts ==
  ASSUME NEW m0, NEW p, NEW g, NEW s, NEW u, NEW m, m = Written(m0, p, g, s, u), NEW status
  PROVE  SetPstate(m, status) =
           IF p = status THEN m ELSE Written(m0, status, Defaults(m0, status), s, u)
<1>1. m.pstate = p /\ Cpus(m) = Cpus(m0)  BY WrittenFields
<1>2. ASSUME NEW d
      PROVE  [m EXCEPT !.pstate = status, !.governor = d] = Written(m0, status, d, s, u)
  <2>1. [m EXCEPT !.pstate = status, !.governor = d]
          = [[m EXCEPT !.pstate = status] EXCEPT !.governor = d]
    OBVIOUS
  <2>2. PICK n : n = [m EXCEPT !.pstate = status]  OBVIOUS
  <2>3. n = Written(m0, status, g, s, u)  BY <2>2 DEF Written
  <2>4. [n EXCEPT !.governor = d] = Written(m0, status, d, s, u)  BY <2>3 DEF Written
  <2> QED BY <2>1, <2>2, <2>4
<1>3. Defaults(m0, status) =
        [cpu \in Cpus(m) |-> IF status = "active" THEN "powersave" ELSE "schedutil"]
  BY <1>1 DEF Defaults
<1>4. SetPstate(m, status) =
        IF p = status THEN m ELSE [m EXCEPT !.pstate = status, !.governor = Defaults(m0, status)]
  BY <1>1, <1>3 DEF SetPstate
<1> QED BY <1>2, <1>4

\* The machine whose governors are saved.
LEMMA SavedFacts ==
  ASSUME NEW e \in Environments
  PROVE  /\ IsMachine(e.machine)
         /\ Saved(e) = Written(e.machine, Saved(e).pstate, Saved(e).governor,
                               e.machine.setspeed, e.machine.uncore)
         /\ Saved(e).governor = [cpu \in Cpus(e.machine) |-> Saved(e).governor[cpu]]
         /\ ~Switches(e) \/ e.machine.pstate = "passive" => Saved(e) = e.machine
         /\ Switches(e) => Saved(e).pstate = "passive"
<1> DEFINE m0 == e.machine
           d == Defaults(m0, "passive")
<1>1. IsMachine(m0)  BY EnvironmentAssumption
<1>2. m0 = Written(m0, m0.pstate, m0.governor, m0.setspeed, m0.uncore)
      /\ m0.governor = [cpu \in Cpus(m0) |-> m0.governor[cpu]]
  BY <1>1, WrittenSelf DEF IsMachine
<1> HIDE DEF m0
<1>3. SetPstate(m0, "passive") =
        IF m0.pstate = "passive" THEN m0 ELSE Written(m0, "passive", d, m0.setspeed, m0.uncore)
  BY <1>2, PstateFacts
<1>4. CASE Saved(e) = m0
  <2>1. Switches(e) => Saved(e).pstate = "passive"
    <3>1. SUFFICES ASSUME Switches(e), m0.pstate # "passive"  PROVE FALSE  BY <1>4
    <3>2. m0 = Written(m0, "passive", d, m0.setspeed, m0.uncore)
      BY <1>3, <1>4, <3>1 DEF Saved, m0
    <3>3. Written(m0, "passive", d, m0.setspeed, m0.uncore).pstate = "passive"
      BY WrittenFields
    <3> QED BY <3>1, <3>2, <3>3
  <2> QED BY <1>1, <1>2, <1>4, <2>1 DEF m0
<1>5. CASE Saved(e) # m0
  <2>1. Switches(e) /\ m0.pstate # "passive"
    BY <1>3, <1>5 DEF Saved, m0
  <2>2. Saved(e) = Written(m0, "passive", d, m0.setspeed, m0.uncore)
    BY <1>3, <2>1 DEF Saved, m0
  <2>3. Saved(e).pstate = "passive" /\ Saved(e).governor = d
    BY <2>2, WrittenFields
  <2>4. d = [cpu \in Cpus(m0) |-> d[cpu]]  BY DEF Defaults
  <2> HIDE DEF d
  <2> QED BY <1>1, <2>1, <2>2, <2>3, <2>4 DEF m0
<1> QED BY <1>4, <1>5

\* The governors are saved, and then set.
LEMMA CoreSetUp ==
  ASSUME NEW e \in Environments, Usable(e)
  PROVE  /\ SetUpCore(e).how = "returns"
         /\ SetUpCore(e).machine = Written(e.machine, Saved(e).pstate, Governed(e),
                                           e.machine.setspeed, e.machine.uncore)
         /\ IsManager(SetUpCore(e).manager)
         /\ SavedCores(e, SetUpCore(e).manager)
         /\ ~SetUpCore(e).manager.uncore_supported
<1> PICK m0 : m0 = e.machine  OBVIOUS
<1>1. IsMachine(m0)  BY EnvironmentAssumption
<1>2. IsManager(NoManager) /\ ~NoManager.core_supported /\ ~NoManager.uncore_supported
  BY DEF NoManager, IsManager
<1>3. /\ IsMachine(e.machine)
      /\ Saved(e) = Written(m0, Saved(e).pstate, Saved(e).governor, m0.setspeed, m0.uncore)
      /\ Saved(e).governor = [cpu \in Cpus(m0) |-> Saved(e).governor[cpu]]
      /\ ~Switches(e) => Saved(e) = m0
  BY SavedFacts
<1>4. CASE ~e.vary_frequency_mode
  <2>1. SetUpCore(e) = Returns(m0, NoManager)
    BY <1>4 DEF SetUpCore, ThenCore
  <2>2. SetUpCore(e).how = "returns" /\ SetUpCore(e).machine = m0
        /\ SetUpCore(e).manager = NoManager
    BY <2>1 DEF Returns, Outcome
  <2>3. Saved(e) = m0  BY <1>3, <1>4 DEF Switches
  <2>4. Governed(e) = m0.governor  BY <1>4, <2>3 DEF Governed
  <2>5. m0 = Written(m0, Saved(e).pstate, Governed(e), m0.setspeed, m0.uncore)
    BY <1>1, <2>3, <2>4, WrittenSelf
  <2> QED BY <1>2, <1>4, <2>2, <2>5 DEF SavedCores
<1>5. CASE e.vary_frequency_mode
  <2>1. PICK noted : noted = IF Switches(e) THEN [NoManager EXCEPT !.pstate_status = m0.pstate]
                             ELSE NoManager
    OBVIOUS
  <2>2. /\ IsManager(noted) /\ ~noted.uncore_supported
        /\ noted.pstate_status = IF Switches(e) THEN m0.pstate ELSE ""
    BY <1>2, <2>1 DEF IsManager, NoManager
  <2>3. PICK levelled : levelled = Levelled(noted, m0.range)  OBVIOUS
  <2>4. m0.root /\ m0.governed = Cpus(m0) /\ m0.range # <<>>
        /\ m0.range[2] - m0.range[1] >= 100000
    BY <1>5 DEF Usable
  <2>5. Steps(m0.range[1], m0.range[2], 16) # 0
    BY <1>1, <2>4 DEF IsMachine, Steps
  <2>6. /\ IsManager(levelled) /\ ~levelled.uncore_supported /\ levelled.core_total # 0
        /\ levelled.pstate_status = IF Switches(e) THEN m0.pstate ELSE ""
    BY <2>2, <2>3, <2>5 DEF IsManager, Levelled
  <2>7. SetUpCore(e) = SaveAndGovern(Saved(e), levelled)
    <3>1. SetUpCore(e) = initial_core_frequency_setup(m0, NoManager)
      BY <1>5 DEF SetUpCore, ThenCore, Returns, Outcome
    <3>2. Switches(e) <=> ~check_if_userspace_present(m0) /\ m0.pstate # "none"
      BY <1>5 DEF Switches
    <3>3. initial_core_frequency_setup(m0, NoManager) = SaveAndGovern(Saved(e), levelled)
      BY <2>1, <2>3, <2>4, <3>2 DEF initial_core_frequency_setup, Saved
    <3> QED BY <3>1, <3>3
  <2>8. /\ Saved(e).root /\ Saved(e).governed = Cpus(m0) /\ Cpus(Saved(e)) = Cpus(m0)
        /\ Saved(e).userspace = m0.userspace
    BY <1>3, <2>4, WrittenFields
  <2>9. SavedCpus(Saved(e)) = Cpus(m0)
    <3>1. \A cpu \in Cpus(m0) : 0..cpu \subseteq Cpus(m0)  BY <1>1 DEF Cpus, IsMachine
    <3> QED BY <2>8, <3>1 DEF SavedCpus
  <2>10. PICK done :
           done = [levelled EXCEPT
                     !.governors = [cpu \in SavedCpus(Saved(e)) |-> Saved(e).governor[cpu]],
                     !.setspeeds = [cpu \in SavedCpus(Saved(e)) |-> ReadSetspeed(Saved(e), cpu)],
                     !.core_supported = SavedCpus(Saved(e)) = Cpus(Saved(e))]
    OBVIOUS
  <2>11. SaveAndGovern(Saved(e), levelled) =
           Returns(SetGovernors(Saved(e), Cpus(m0), [cpu \in Cpus(m0) |-> "userspace"]), done)
    BY <2>8, <2>9, <2>10 DEF SaveAndGovern
  <2>12. IsManager(done) /\ SavedCores(e, done) /\ ~done.uncore_supported
    <3>1. /\ IsManager(done)
          /\ done.governors = [cpu \in SavedCpus(Saved(e)) |-> Saved(e).governor[cpu]]
          /\ done.setspeeds = [cpu \in SavedCpus(Saved(e)) |-> ReadSetspeed(Saved(e), cpu)]
          /\ done.core_supported = (SavedCpus(Saved(e)) = Cpus(Saved(e)))
          /\ done.pstate_status = levelled.pstate_status
          /\ done.core_total = levelled.core_total
          /\ done.uncore_supported = levelled.uncore_supported
      BY <2>6, <2>10 DEF IsManager
    <3> QED BY <1>3, <1>5, <2>6, <2>8, <2>9, <3>1 DEF SavedCores
  <2>13. SetGovernors(Saved(e), Cpus(m0), [cpu \in Cpus(m0) |-> "userspace"]) =
           Written(m0, Saved(e).pstate, Governed(e), m0.setspeed, m0.uncore)
    <3> DEFINE n == [Saved(e) EXCEPT !.governor = Governed(e)]
    <3>1. Governed(e) = [cpu \in Cpus(m0) |->
                           IF m0.userspace THEN "userspace" ELSE Saved(e).governor[cpu]]
      BY <1>3, <1>5 DEF Governed
    <3>2. SetGovernors(Saved(e), Cpus(m0), [cpu \in Cpus(m0) |-> "userspace"]) = n
      BY <2>8, <3>1 DEF SetGovernors
    <3>3. n = Written(m0, Saved(e).pstate, Governed(e), m0.setspeed, m0.uncore)
      <4>1. PICK p, g, s, u : Saved(e) = Written(m0, p, g, s, u) /\ p = Saved(e).pstate
                              /\ s = m0.setspeed /\ u = m0.uncore
        BY <1>3
      <4> QED BY <4>1 DEF Written
    <3> QED BY <3>2, <3>3
  <2> QED BY <2>7, <2>11, <2>12, <2>13 DEF Returns, Outcome
<1> QED BY <1>4, <1>5

LEMMA PackagesFacts ==
  ASSUME NEW m0, IsMachine(m0)
  PROVE  Cardinality(Packages(m0)) \in Nat /\ Cardinality(Packages(m0)) >= 1
<1>1. m0.cpus \in Nat /\ m0.cpus >= 1  BY DEF IsMachine
<1>2. IsFiniteSet(Cpus(m0)) /\ 0 \in Cpus(m0)  BY <1>1, FS_Interval DEF Cpus
<1>3. IsFiniteSet(Packages(m0))
  <2>1. PICK f : f = [cpu \in Cpus(m0) |-> m0.package[cpu]]  OBVIOUS
  <2>2. /\ f \in [Cpus(m0) -> Packages(m0)]
        /\ \A k \in Packages(m0) : \E cpu \in Cpus(m0) : f[cpu] = k
    BY <2>1 DEF Packages
  <2>3. f \in Surjection(Cpus(m0), Packages(m0))  BY <2>2, Fun_IsSurj
  <2> QED BY <1>2, <2>3, FS_Surjection
<1>4. Packages(m0) # {}  BY <1>2 DEF Packages
<1>5. Cardinality(Packages(m0)) \in Nat  BY <1>3, FS_CardinalityType
<1>6. Cardinality(Packages(m0)) # 0  BY <1>3, <1>4, FS_EmptySet
<1> QED BY <1>5, <1>6

\* The set-up of a usable machine returns, and has saved what it should.
LEMMA SetUpFacts ==
  ASSUME NEW e \in Environments, Usable(e)
  PROVE  /\ SetUp(e).how = "returns"
         /\ InForce(e, SetUp(e).machine)
         /\ IsManager(SetUp(e).manager)
         /\ SavedCores(e, SetUp(e).manager) /\ SavedUncore(e, SetUp(e).manager)
<1> PICK m0 : m0 = e.machine  OBVIOUS
<1>1. IsMachine(m0)  BY EnvironmentAssumption
<1>2. PICK m, g : /\ m = SetUpCore(e).machine /\ g = SetUpCore(e).manager
                  /\ SetUpCore(e).how = "returns"
                  /\ m = Written(m0, Saved(e).pstate, Governed(e), m0.setspeed, m0.uncore)
                  /\ IsManager(g) /\ SavedCores(e, g) /\ ~g.uncore_supported
  BY CoreSetUp
<1>3. /\ m.uncore = m0.uncore /\ m.uncore_tree = m0.uncore_tree
      /\ Packages(m) = Packages(m0)
  BY <1>2, WrittenFields
<1>4. InForce(e, m)
  <2>1. /\ m0.setspeed = [cpu \in Cpus(m0) |-> m0.setspeed[cpu]]
        /\ m0.uncore = [k \in DOMAIN m0.uncore |-> m0.uncore[k]]
    BY <1>1 DEF IsMachine
  <2> QED BY <1>2, <2>1 DEF InForce
<1>5. CASE ~e.vary_uncore_frequency_mode
  <2>1. SetUp(e) = SetUpCore(e)  BY <1>5 DEF SetUp, ThenCore
  <2> QED BY <1>2, <1>4, <1>5, <2>1 DEF SavedUncore
<1>6. CASE e.vary_uncore_frequency_mode
  <2> DEFINE total == Cardinality(Packages(m0))
  <2>1. SetUp(e) = initial_uncore_frequency_setup(m, g)
    BY <1>2, <1>6 DEF SetUp, ThenCore
  <2>2. total \in Nat /\ total >= 1 /\ Counted(m0) = 0..(total - 1)
    BY <1>1, PackagesFacts DEF Counted
  <2>3. \A k \in Counted(m0) : k \in m0.uncore_tree /\ m0.uncore[k][2] - m0.uncore[k][1] >= 100000
    BY <1>6 DEF Usable, Counted
  <2>4. \A k \in Counted(m0) : UncoreRange(m, k) = m0.uncore[k]
    BY <1>3, <2>3 DEF UncoreRange
  <2>5. Steps(m0.uncore[total - 1][1], m0.uncore[total - 1][2], 8) # 0
    <3>1. total - 1 \in Counted(m0)  BY <2>2
    <3>2. m0.uncore[total - 1] \in Nat \X Nat  BY <1>1, <2>3, <3>1 DEF IsMachine
    <3>3. PICK lo \in Nat, hi \in Nat : lo = m0.uncore[total - 1][1] /\ hi = m0.uncore[total - 1][2]
      BY <3>2
    <3>4. hi - lo >= 100000  BY <2>3, <3>1, <3>3
    <3> QED BY <3>3, <3>4 DEF Steps
  <2>6. 0 \in m.uncore_tree  BY <1>3, <2>2, <2>3
  <2>7. total - 1 \in Counted(m0)  BY <2>2
  <2> HIDE DEF total
  <2>8. PICK levels :
          initial_uncore_frequency_setup(m, g) =
            Returns(m, [g EXCEPT
               !.uncore_supported = TRUE,
               !.total_sockets = total,
               !.uncore_initial = [k \in 0..(total - 1) |-> UncoreRange(m, k)],
               !.uncore_levels = levels,
               !.uncore_total = Steps(UncoreRange(m, total - 1)[1], UncoreRange(m, total - 1)[2], 8)])
    BY <1>3, <2>6, Zenon DEF initial_uncore_frequency_setup, total
  <2>9. PICK h :
          h = [g EXCEPT
               !.uncore_supported = TRUE,
               !.total_sockets = total,
               !.uncore_initial = [k \in 0..(total - 1) |-> UncoreRange(m, k)],
               !.uncore_levels = levels,
               !.uncore_total = Steps(UncoreRange(m, total - 1)[1], UncoreRange(m, total - 1)[2], 8)]
    OBVIOUS
  <2>10. /\ IsManager(h) /\ h.uncore_supported /\ h.total_sockets = total
         /\ h.uncore_initial = [k \in 0..(total - 1) |-> UncoreRange(m, k)]
         /\ h.uncore_total = Steps(UncoreRange(m, total - 1)[1], UncoreRange(m, total - 1)[2], 8)
         /\ h.core_supported = g.core_supported /\ h.governors = g.governors
         /\ h.setspeeds = g.setspeeds /\ h.pstate_status = g.pstate_status
         /\ h.core_total = g.core_total
    BY <1>2, <2>9 DEF IsManager
  <2>11. SetUp(e).how = "returns" /\ SetUp(e).machine = m /\ SetUp(e).manager = h
    BY <2>1, <2>8, <2>9 DEF Returns, Outcome
  <2>12. SavedCores(e, h)  BY <1>2, <2>10 DEF SavedCores
  <2>13. SavedUncore(e, h)
    BY <1>6, <2>2, <2>4, <2>5, <2>7, <2>10 DEF SavedUncore, Sockets
  <2> QED BY <1>4, <2>10, <2>11, <2>12, <2>13
<1> QED BY <1>5, <1>6

\* What the manager has saved is what counts of it.
SameSaved(g, h) ==
  /\ h.core_supported = g.core_supported /\ h.governors = g.governors
  /\ h.setspeeds = g.setspeeds /\ h.pstate_status = g.pstate_status
  /\ h.core_total = g.core_total /\ h.uncore_supported = g.uncore_supported
  /\ h.total_sockets = g.total_sockets /\ h.uncore_initial = g.uncore_initial
  /\ h.uncore_total = g.uncore_total

HasSaved(e, g) == IsManager(g) /\ SavedCores(e, g) /\ SavedUncore(e, g)

LEMMA SavedStays ==
  ASSUME NEW e, NEW g, NEW h, HasSaved(e, g), IsManager(h), SameSaved(g, h)
  PROVE  HasSaved(e, h)
<1>1. SavedCores(e, h)  BY DEF HasSaved, SameSaved, SavedCores
<1>2. SavedUncore(e, h)
  <2>1. h.uncore_supported = g.uncore_supported /\ h.total_sockets = g.total_sockets
        /\ h.uncore_initial = g.uncore_initial /\ h.uncore_total = g.uncore_total
    BY DEF SameSaved
  <2>2. Sockets(h) = Sockets(g)  BY <2>1 DEF Sockets
  <2> QED BY <2>1, <2>2 DEF HasSaved, SavedUncore
<1> QED BY <1>1, <1>2 DEF HasSaved

LEMMA IndexMoves ==
  ASSUME NEW e, NEW g, HasSaved(e, g), NEW i
  PROVE  /\ HasSaved(e, [g EXCEPT !.core_idx = i])
         /\ HasSaved(e, [g EXCEPT !.uncore_idx = i])
<1>1. ASSUME NEW h, h = [g EXCEPT !.core_idx = i] \/ h = [g EXCEPT !.uncore_idx = i]
      PROVE  HasSaved(e, h)
  <2>1. IsManager(g)  BY DEF HasSaved
  <2>2. IsManager(h) /\ SameSaved(g, h)  BY <1>1, <2>1 DEF IsManager, SameSaved
  <2> QED BY <2>2, SavedStays
<1> QED BY <1>1

LEMMA ResetStays ==
  ASSUME NEW e, NEW g, HasSaved(e, g)
  PROVE  HasSaved(e, reset_frequency_level_idx(g))
<1>1. PICK h : h = [g EXCEPT !.core_idx = 0]  OBVIOUS
<1>2. HasSaved(e, [h EXCEPT !.uncore_idx = 0])  BY <1>1, IndexMoves
<1>3. [g EXCEPT !.core_idx = 0, !.uncore_idx = 0] = [h EXCEPT !.uncore_idx = 0]  BY <1>1
<1> QED BY <1>2, <1>3 DEF reset_frequency_level_idx

\* What a change of the frequencies does, for any machine and manager.
ChangeCore(e, m, g) ==
  ThenCore(e.vary_frequency_mode, Returns(m, g), change_core_frequency(m, g))
Change(e, m, g) ==
  ThenCore(e.vary_uncore_frequency_mode, ChangeCore(e, m, g),
           change_uncore_frequency(ChangeCore(e, m, g).machine, ChangeCore(e, m, g).manager))

\* The speeds and ranges that a machine in use can have.
Speeds(e, s) == s = [cpu \in Cpus(e.machine) |-> s[cpu]]
                /\ (~e.vary_frequency_mode => s = e.machine.setspeed)
Ranges(e, u) ==
  /\ u = [k \in DOMAIN e.machine.uncore |-> u[k]]
  /\ \A k \in DOMAIN e.machine.uncore :
       ~e.vary_uncore_frequency_mode \/ k \notin Counted(e.machine) =>
         u[k] = e.machine.uncore[k]

LEMMA InForceIs ==
  ASSUME NEW e, NEW m
  PROVE  InForce(e, m) <=>
           \E s, u : /\ m = Written(e.machine, Saved(e).pstate, Governed(e), s, u)
                     /\ Speeds(e, s) /\ Ranges(e, u)
BY DEF InForce, Speeds, Ranges

LEMMA SpeedsWritten ==
  ASSUME NEW m0, NEW p, NEW g, NEW s, NEW u, NEW m, m = Written(m0, p, g, s, u), NEW speeds
  PROVE  WriteSetspeeds(m, speeds) =
           Written(m0, p, g, [cpu \in Cpus(m0) |->
             IF g[cpu] = "userspace" /\ speeds[cpu] # Unsupported THEN speeds[cpu] ELSE s[cpu]], u)
<1>1. m.governor = g /\ m.setspeed = s /\ Cpus(m) = Cpus(m0)  BY WrittenFields
<1>2. PICK t : t = [cpu \in Cpus(m0) |->
             IF g[cpu] = "userspace" /\ speeds[cpu] # Unsupported THEN speeds[cpu] ELSE s[cpu]]
  OBVIOUS
<1>3. WriteSetspeeds(m, speeds) = [m EXCEPT !.setspeed = t]
  BY <1>1, <1>2 DEF WriteSetspeeds
<1>4. [m EXCEPT !.setspeed = t] = Written(m0, p, g, t, u)  BY DEF Written
<1> QED BY <1>2, <1>3, <1>4

LEMMA UncoreWritten ==
  ASSUME NEW m0, NEW p, NEW g, NEW s, NEW u, NEW m, m = Written(m0, p, g, s, u), NEW v
  PROVE  [m EXCEPT !.uncore = v] = Written(m0, p, g, s, v)
BY DEF Written

LEMMA GovernorsWritten ==
  ASSUME NEW m0, NEW p, NEW g, NEW s, NEW u, NEW m, m = Written(m0, p, g, s, u), NEW governors
  PROVE  SetGovernors(m, Cpus(m), governors) =
           Written(m0, p, [cpu \in Cpus(m0) |->
             IF governors[cpu] = "userspace" => m0.userspace THEN governors[cpu] ELSE g[cpu]], s, u)
<1>1. m.governor = g /\ m.userspace = m0.userspace /\ Cpus(m) = Cpus(m0)  BY WrittenFields
<1>2. PICK t : t = [cpu \in Cpus(m0) |->
             IF governors[cpu] = "userspace" => m0.userspace THEN governors[cpu] ELSE g[cpu]]
  OBVIOUS
<1>3. SetGovernors(m, Cpus(m), governors) = [m EXCEPT !.governor = t]
  BY <1>1, <1>2 DEF SetGovernors
<1>4. [m EXCEPT !.governor = t] = Written(m0, p, t, s, u)  BY DEF Written
<1> QED BY <1>2, <1>3, <1>4

\* A change of the frequencies of the cores returns and forgets nothing.
LEMMA ChangeCoreFacts ==
  ASSUME NEW e \in Environments, Usable(e), NEW m, NEW g, InForce(e, m), HasSaved(e, g)
  PROVE  /\ ChangeCore(e, m, g).how = "returns"
         /\ InForce(e, ChangeCore(e, m, g).machine)
         /\ HasSaved(e, ChangeCore(e, m, g).manager)
<1>1. CASE ~e.vary_frequency_mode
  <2>1. ChangeCore(e, m, g) = Returns(m, g)  BY <1>1 DEF ChangeCore, ThenCore
  <2> QED BY <2>1 DEF Returns, Outcome
<1>2. CASE e.vary_frequency_mode
  <2>1. g.core_supported /\ g.core_total # 0  BY <1>2 DEF HasSaved, SavedCores
  <2>2. PICK s, u : /\ m = Written(e.machine, Saved(e).pstate, Governed(e), s, u)
                    /\ Speeds(e, s) /\ Ranges(e, u)
    BY InForceIs
  <2>3. PICK speeds : ChangeCore(e, m, g) =
          Returns(WriteSetspeeds(m, speeds), [g EXCEPT !.core_idx = @ + 1])
    BY <1>2, <2>1 DEF ChangeCore, ThenCore, change_core_frequency, Returns, Outcome
  <2>4. PICK t : t = [cpu \in Cpus(e.machine) |->
             IF Governed(e)[cpu] = "userspace" /\ speeds[cpu] # Unsupported
             THEN speeds[cpu] ELSE s[cpu]]
    OBVIOUS
  <2>5. WriteSetspeeds(m, speeds) = Written(e.machine, Saved(e).pstate, Governed(e), t, u)
    BY <2>2, <2>4, SpeedsWritten
  <2>6. Speeds(e, t)  BY <1>2, <2>4 DEF Speeds
  <2>7. InForce(e, WriteSetspeeds(m, speeds))  BY <2>2, <2>5, <2>6, InForceIs
  <2>8. HasSaved(e, [g EXCEPT !.core_idx = g.core_idx + 1])  BY IndexMoves
  <2> QED BY <2>3, <2>7, <2>8 DEF Returns, Outcome
<1> QED BY <1>1, <1>2

LEMMA ChangeFacts ==
  ASSUME NEW e \in Environments, Usable(e), NEW m, NEW g, InForce(e, m), HasSaved(e, g)
  PROVE  /\ Change(e, m, g).how = "returns"
         /\ InForce(e, Change(e, m, g).machine)
         /\ HasSaved(e, Change(e, m, g).manager)
<1>1. PICK n, h : /\ n = ChangeCore(e, m, g).machine /\ h = ChangeCore(e, m, g).manager
                  /\ ChangeCore(e, m, g).how = "returns" /\ InForce(e, n) /\ HasSaved(e, h)
  BY ChangeCoreFacts
<1>2. CASE ~e.vary_uncore_frequency_mode
  <2>1. Change(e, m, g) = ChangeCore(e, m, g)  BY <1>2 DEF Change, ThenCore
  <2> QED BY <1>1, <2>1
<1>3. CASE e.vary_uncore_frequency_mode
  <2>1. Change(e, m, g) = change_uncore_frequency(n, h)  BY <1>1, <1>3 DEF Change, ThenCore
  <2>2. h.uncore_supported /\ h.uncore_total # 0 /\ Sockets(h) = Counted(e.machine)
    BY <1>1, <1>3 DEF HasSaved, SavedUncore
  <2>3. PICK s, u : /\ n = Written(e.machine, Saved(e).pstate, Governed(e), s, u)
                    /\ Speeds(e, s) /\ Ranges(e, u)
    BY <1>1, InForceIs
  <2>4. n.root /\ n.uncore_tree = e.machine.uncore_tree /\ n.uncore = u
    <3>1. e.machine.root  BY DEF Usable
    <3> QED BY <2>3, <3>1, WrittenFields
  <2>5. \A k \in Sockets(h) : 0..k \subseteq n.uncore_tree
    <3>1. Cardinality(Packages(e.machine)) \in Nat  BY PackagesFacts, EnvironmentAssumption
    <3>2. \A k \in Counted(e.machine) : k \in e.machine.uncore_tree  BY <1>3 DEF Usable, Counted
    <3>3. \A k \in Counted(e.machine) : 0..k \subseteq Counted(e.machine)  BY <3>1 DEF Counted
    <3> QED BY <2>2, <2>4, <3>2, <3>3
  <2>6. {k \in Sockets(h) : n.root /\ 0..k \subseteq n.uncore_tree} = Sockets(h)
    BY <2>4, <2>5
  <2> DEFINE level(k) == Level(h.uncore_levels[k], h.uncore_idx + k, h.uncore_total)
  <2>7. PICK v : v = [k \in DOMAIN u |-> IF k \in Sockets(h) THEN <<level(k), level(k)>> ELSE u[k]]
    OBVIOUS
  <2>8. change_uncore_frequency(n, h) =
          Returns([n EXCEPT !.uncore = v], [h EXCEPT !.uncore_idx = h.uncore_idx + h.total_sockets])
    <3>1. PICK written : written = {k \in Sockets(h) : n.root /\ 0..k \subseteq n.uncore_tree}
      OBVIOUS
    <3>2. written = Sockets(h)  BY <2>6, <3>1
    <3>3. [n EXCEPT !.uncore = [k \in DOMAIN @ |->
             IF k \in written THEN <<level(k), level(k)>> ELSE @[k]]] = [n EXCEPT !.uncore = v]
      BY <2>4, <2>7, <3>2
    <3> QED BY <2>2, <3>1, <3>2, <3>3 DEF change_uncore_frequency
  <2> HIDE DEF level
  <2>9. [n EXCEPT !.uncore = v] = Written(e.machine, Saved(e).pstate, Governed(e), s, v)
    BY <2>3, UncoreWritten
  <2>10. Ranges(e, v)
    <3>1. DOMAIN u = DOMAIN e.machine.uncore  BY <2>3 DEF Ranges
    <3>2. v = [k \in DOMAIN e.machine.uncore |-> v[k]]
      BY <2>7, <3>1
    <3>3. ASSUME NEW k \in DOMAIN e.machine.uncore, k \notin Counted(e.machine)
          PROVE  v[k] = e.machine.uncore[k]
      <4>1. v[k] = u[k]  BY <2>2, <2>7, <3>1, <3>3
      <4> QED BY <2>3, <3>3, <4>1 DEF Ranges
    <3> QED BY <1>3, <3>2, <3>3 DEF Ranges
  <2>11. InForce(e, [n EXCEPT !.uncore = v])  BY <2>3, <2>9, <2>10, InForceIs
  <2>12. HasSaved(e, [h EXCEPT !.uncore_idx = h.uncore_idx + h.total_sockets])
    BY <1>1, IndexMoves
  <2> QED BY <2>1, <2>8, <2>11, <2>12 DEF Returns, Outcome
<1> QED BY <1>2, <1>3

\* What cleanup_global() puts back, for any machine and manager.
RestoreCore(e, m, g) ==
  IF e.vary_frequency_mode THEN restore_core_frequency_initial_state(m, g) ELSE m
Restore(e, m, g) ==
  IF e.vary_uncore_frequency_mode
  THEN restore_uncore_frequency_initial_state(RestoreCore(e, m, g), g) ELSE RestoreCore(e, m, g)

\* The driver, the governors and the speeds are those before the set-up.
LEMMA CoresRestored ==
  ASSUME NEW e \in Environments, Usable(e), NEW m, NEW g, HasSaved(e, g), NEW s, NEW u,
         m = Written(e.machine, Saved(e).pstate, Governed(e), s, u), Speeds(e, s)
  PROVE  \E t :
           /\ RestoreCore(e, m, g) = Written(e.machine, e.machine.pstate, e.machine.governor, t, u)
           /\ \A cpu \in Cpus(e.machine) :
                e.machine.governor[cpu] = "userspace" => t[cpu] = e.machine.setspeed[cpu]
<1> PICK m0 : m0 = e.machine  OBVIOUS
<1> PICK saved : saved = Saved(e).governor  OBVIOUS
<1>1. /\ IsMachine(m0)
      /\ Saved(e) = Written(m0, Saved(e).pstate, saved, m0.setspeed, m0.uncore)
      /\ saved = [cpu \in Cpus(m0) |-> saved[cpu]]
      /\ ~Switches(e) \/ m0.pstate = "passive" => Saved(e) = m0
      /\ Switches(e) => Saved(e).pstate = "passive"
  BY SavedFacts
<1>2. CASE ~e.vary_frequency_mode
  <2>1. ~Switches(e)  BY <1>2 DEF Switches
  <2>2. Governed(e) = m0.governor /\ Saved(e).pstate = m0.pstate
    BY <1>1, <1>2, <2>1 DEF Governed
  <2>3. RestoreCore(e, m, g) = m  BY <1>2 DEF RestoreCore
  <2>4. s = m0.setspeed  BY <1>2 DEF Speeds
  <2> QED BY <2>2, <2>3, <2>4
<1>3. CASE e.vary_frequency_mode
  <2>1. /\ g.core_supported /\ g.governors = saved
        /\ g.setspeeds = [cpu \in Cpus(m0) |-> ReadSetspeed(Saved(e), cpu)]
        /\ g.pstate_status = IF Switches(e) THEN m0.pstate ELSE ""
    BY <1>3 DEF HasSaved, SavedCores
  <2>2. PICK n : n = SetGovernors(m, Cpus(m), saved)  OBVIOUS
  <2>3. n = Written(m0, Saved(e).pstate, saved, s, u)
    <3>1. PICK t : t = [cpu \in Cpus(m0) |->
            IF saved[cpu] = "userspace" => m0.userspace THEN saved[cpu] ELSE Governed(e)[cpu]]
      OBVIOUS
    <3>2. n = Written(m0, Saved(e).pstate, t, s, u)  BY <2>2, <3>1, GovernorsWritten
    <3>3. ASSUME NEW cpu \in Cpus(m0)  PROVE t[cpu] = saved[cpu]
      <4>1. ~m0.userspace => Governed(e) = saved  BY DEF Governed
      <4> QED BY <3>1, <4>1
    <3>4. t = saved  BY <1>1, <3>1, <3>3
    <3> QED BY <3>2, <3>4
  <2>4. PICK t : t = [cpu \in Cpus(m0) |->
             IF saved[cpu] = "userspace" /\ g.setspeeds[cpu] # Unsupported
             THEN g.setspeeds[cpu] ELSE s[cpu]]
    OBVIOUS
  <2>5. PICK r : r = WriteSetspeeds(n, g.setspeeds)  OBVIOUS
  <2>6. r = Written(m0, Saved(e).pstate, saved, t, u)
    BY <2>3, <2>4, <2>5, SpeedsWritten
  <2>7. \A cpu \in Cpus(m0) : saved[cpu] = "userspace" => t[cpu] = m0.setspeed[cpu]
    <3> SUFFICES ASSUME NEW cpu \in Cpus(m0), saved[cpu] = "userspace"
                 PROVE  t[cpu] = m0.setspeed[cpu]
      OBVIOUS
    <3>1. Saved(e).setspeed = m0.setspeed  BY <1>1, WrittenFields
    <3>2. ReadSetspeed(Saved(e), cpu) = m0.setspeed[cpu]
      BY <3>1 DEF ReadSetspeed
    <3>3. m0.setspeed[cpu] \in Nat  BY <1>1 DEF IsMachine
    <3>4. g.setspeeds[cpu] = m0.setspeed[cpu]  BY <2>1, <3>2
    <3>5. g.setspeeds[cpu] # Unsupported  BY <3>3, <3>4 DEF Unsupported
    <3> QED BY <2>4, <3>4, <3>5
  <2>8. RestoreCore(e, m, g) =
          IF g.pstate_status = "" THEN r ELSE SetPstate(r, g.pstate_status)
    BY <1>3, <2>1, <2>2, <2>5 DEF RestoreCore, restore_core_frequency_initial_state
  <2>9. CASE ~Switches(e)
    <3>1. RestoreCore(e, m, g) = r  BY <2>1, <2>8, <2>9
    <3>2. Saved(e).pstate = m0.pstate /\ saved = m0.governor  BY <1>1, <2>9
    <3> QED BY <2>6, <2>7, <3>1, <3>2
  <2>10. CASE Switches(e)
    <3>1. m0.pstate \in {"active", "passive"}  BY <1>1, <2>10 DEF IsMachine, Switches
    <3>2. RestoreCore(e, m, g) = SetPstate(r, m0.pstate)
      BY <2>1, <2>8, <2>10, <3>1
    <3>3. Saved(e).pstate = "passive"  BY <1>1, <2>10
    <3>4. SetPstate(r, m0.pstate) =
            IF "passive" = m0.pstate THEN r ELSE Written(m0, m0.pstate, Defaults(m0, m0.pstate), t, u)
      BY <2>6, <3>3, PstateFacts
    <3>5. CASE m0.pstate = "passive"
      <4>1. saved = m0.governor  BY <1>1, <3>5
      <4> QED BY <2>6, <2>7, <3>2, <3>3, <3>4, <3>5, <4>1
    <3>6. CASE m0.pstate = "active"
      <4>1. \A cpu \in Cpus(m0) : m0.governor[cpu] = "powersave"
        BY <1>3, <3>6 DEF Usable
      <4>2. Defaults(m0, m0.pstate) = [cpu \in Cpus(m0) |-> "powersave"]
        BY <3>6 DEF Defaults
      <4>3. m0.governor = [cpu \in Cpus(m0) |-> "powersave"]
        BY <1>1, <4>1 DEF IsMachine
      <4>4. RestoreCore(e, m, g) = Written(m0, m0.pstate, m0.governor, t, u)
        BY <3>2, <3>4, <3>6, <4>2, <4>3
      <4> QED BY <4>1, <4>4
    <3> QED BY <3>1, <3>5, <3>6
  <2> QED BY <2>9, <2>10
<1> QED BY <1>2, <1>3

\* The machine is as it was before the set-up.
LEMMA AllRestored ==
  ASSUME NEW e \in Environments, Usable(e), NEW m, NEW g, InForce(e, m), HasSaved(e, g)
  PROVE  SameFrequencies(Restore(e, m, g), e.machine)
<1> PICK m0 : m0 = e.machine  OBVIOUS
<1>1. PICK s, u : /\ m = Written(m0, Saved(e).pstate, Governed(e), s, u)
                  /\ Speeds(e, s) /\ Ranges(e, u)
  BY InForceIs
<1> PICK n : n = RestoreCore(e, m, g)  OBVIOUS
<1>2. PICK t : /\ n = Written(m0, m0.pstate, m0.governor, t, u)
               /\ \A cpu \in Cpus(m0) :
                    m0.governor[cpu] = "userspace" => t[cpu] = m0.setspeed[cpu]
  <2>1. m = Written(e.machine, Saved(e).pstate, Governed(e), s, u) /\ Speeds(e, s)
    BY <1>1
  <2>2. \E t :
           /\ RestoreCore(e, m, g) = Written(e.machine, e.machine.pstate, e.machine.governor, t, u)
           /\ \A cpu \in Cpus(e.machine) :
                e.machine.governor[cpu] = "userspace" => t[cpu] = e.machine.setspeed[cpu]
    BY <2>1, CoresRestored
  <2> QED BY <2>2
<1>3. Restore(e, m, g) = Written(m0, m0.pstate, m0.governor, t, m0.uncore)
  <2>1. m0.uncore = [k \in DOMAIN m0.uncore |-> m0.uncore[k]]
    BY EnvironmentAssumption DEF IsMachine
  <2>2. CASE ~e.vary_uncore_frequency_mode
    <3>1. Restore(e, m, g) = n  BY <1>2, <2>2 DEF Restore
    <3>2. u = m0.uncore  BY <1>1, <2>1, <2>2 DEF Ranges
    <3> QED BY <1>2, <3>1, <3>2
  <2>3. CASE e.vary_uncore_frequency_mode
    <3>1. /\ g.uncore_supported /\ Sockets(g) = Counted(m0)
          /\ g.uncore_initial = [k \in Counted(m0) |-> m0.uncore[k]]
      BY <2>3 DEF HasSaved, SavedUncore
    <3>2. n.uncore = u  BY <1>2, WrittenFields
    <3>3. PICK v : v = [k \in DOMAIN u |->
                          IF k \in Sockets(g) THEN g.uncore_initial[k] ELSE u[k]]
      OBVIOUS
    <3>4. Restore(e, m, g) = [n EXCEPT !.uncore = v]
      BY <1>2, <2>3, <3>1, <3>2, <3>3 DEF Restore, restore_uncore_frequency_initial_state
    <3>5. [n EXCEPT !.uncore = v] = Written(m0, m0.pstate, m0.governor, t, v)
      BY <1>2, UncoreWritten
    <3>6. DOMAIN u = DOMAIN m0.uncore
          /\ \A k \in DOMAIN m0.uncore : k \notin Counted(m0) => u[k] = m0.uncore[k]
      BY <1>1 DEF Ranges
    <3>7. \A k \in DOMAIN m0.uncore : v[k] = m0.uncore[k]
      BY <3>1, <3>3, <3>6
    <3>8. v = m0.uncore  BY <2>1, <3>3, <3>6, <3>7
    <3> QED BY <3>4, <3>5, <3>8
  <2> QED BY <2>2, <2>3
<1>4. PICK r : r = Restore(e, m, g)  OBVIOUS
<1>5. /\ r.pstate = m0.pstate /\ r.governor = m0.governor /\ r.setspeed = t
      /\ r.uncore = m0.uncore
  BY <1>3, <1>4, WrittenFields
<1>6. \A cpu \in Cpus(m0) : ReadSetspeed(r, cpu) = ReadSetspeed(m0, cpu)
  BY <1>2, <1>5 DEF ReadSetspeed
<1> QED BY <1>4, <1>5, <1>6 DEF SameFrequencies

\* Until the set-up the machine is as it was; from then on until the end the
\* manager has what it takes to put it back.
MachineInv ==
  /\ environment \in Environments
  /\ Usable(environment) =>
       IF at \in Done THEN SameFrequencies(machine, environment.machine)
       ELSE IF ready THEN InForce(environment, machine) /\ HasSaved(environment, manager)
            ELSE machine = environment.machine /\ manager = NoManager

LEMMA InitMachine == EnvInit => MachineInv
BY DEF EnvInit, Init, Done, MachineInv

LEMMA Itself ==
  ASSUME NEW m
  PROVE  SameFrequencies(m, m)
BY DEF SameFrequencies

\* The machine is put back when the program ends.
LEMMA RestoredKept ==
  ASSUME MachineInv, ready, at \notin Done, at' \in Done, machine' = Restored,
         environment' = environment
  PROVE  MachineInv'
<1>1. Restored = Restore(environment, machine, manager)
  BY DEF Restored, Restore, RestoreCore
<1>2. Usable(environment) => SameFrequencies(machine', environment'.machine)
  BY <1>1, AllRestored DEF MachineInv
<1>3. Usable(environment') => Usable(environment)  OBVIOUS
<1> QED BY <1>2, <1>3 DEF MachineInv

\* Steps that leave the frequencies alone.
LEMMA MachineKept ==
  ASSUME MachineInv, UNCHANGED <<environment, ready, machine>>,
         at' \in Done <=> at \in Done,
         manager' \in {manager, reset_frequency_level_idx(manager)},
         ~ready => manager' = manager
  PROVE  MachineInv'
<1>1. HasSaved(environment, manager) => HasSaved(environment, manager')  BY ResetStays
<1>2. environment' = environment /\ ready' = ready /\ machine' = machine  OBVIOUS
<1>3. Usable(environment') <=> Usable(environment)  BY <1>2
<1>4. CASE at \in Done
  BY <1>2, <1>3, <1>4 DEF MachineInv
<1>5. CASE at \notin Done /\ ready
  BY <1>1, <1>2, <1>3, <1>5 DEF MachineInv
<1>6. CASE at \notin Done /\ ~ready
  BY <1>2, <1>3, <1>6 DEF MachineInv
<1> QED BY <1>4, <1>5, <1>6

LEMMA SetupMachine ==
  ASSUME MachineInv, Setup
  PROVE  MachineInv'
<1>1. ~ready /\ at = "between" /\ environment' = environment  BY DEF Setup
<1>2. at \notin Done  BY <1>1 DEF Done
<1>3. PICK r \in random_init_global(environment.seed, environment.haveAes) :
        \/ /\ Exits(r)
           /\ Exited(r.exit)
           /\ UNCHANGED <<ready, global, machine, manager>>
        \/ /\ ~Exits(r)
           /\ global' = r.state
           /\ machine' = SetupFrequencies.machine
           /\ manager' = SetupFrequencies.manager
           /\ ready' = (SetupFrequencies.how = "returns")
           /\ IF ready' THEN UNCHANGED <<at, program>> ELSE Exited(EXIT_NOPERMISSION)
  BY DEF Setup
<1>4. SUFFICES ASSUME Usable(environment)  PROVE MachineInv'
  BY <1>1 DEF MachineInv
<1>5. machine = environment.machine /\ manager = NoManager /\ environment \in Environments
  BY <1>1, <1>2, <1>4 DEF MachineInv
<1>6. CASE Exits(r)
  <2>1. at' \in Done /\ machine' = environment.machine
    BY <1>3, <1>5, <1>6 DEF Exited, Done
  <2> QED BY <1>1, <1>5, <2>1, Itself DEF MachineInv
<1>7. CASE ~Exits(r)
  <2>1. SetupFrequencies = SetUp(environment)
    BY <1>5 DEF SetupFrequencies, SetUp, SetUpCore
  <2>2. /\ SetUp(environment).how = "returns" /\ InForce(environment, SetUp(environment).machine)
        /\ HasSaved(environment, SetUp(environment).manager)
    BY <1>4, <1>5, SetUpFacts DEF HasSaved
  <2>3. /\ machine' = SetUp(environment).machine /\ manager' = SetUp(environment).manager
        /\ ready' = (SetUp(environment).how = "returns")
        /\ ready' => at' = at
    BY <1>3, <1>7, <2>1
  <2>4. ready' /\ at' \notin Done  BY <1>2, <2>2, <2>3
  <2>5. InForce(environment, machine') /\ HasSaved(environment, manager')  BY <2>2, <2>3
  <2> QED BY <1>1, <1>5, <2>4, <2>5 DEF MachineInv
<1> QED BY <1>6, <1>7

LEMMA FractureMachine ==
  ASSUME MachineInv, ready, NEW a, EnvFracture(a)
  PROVE  MachineInv'
<1>1. at = "fracture" /\ at' \in {"fracture", "retry", "finish", "between"}
      /\ ready' = ready /\ environment' = environment
  BY DEF EnvFracture, Fracture, ReturnToMain
<1>2. at \notin Done /\ at' \notin Done  BY <1>1 DEF Done
<1>3. ChangeFrequencies = Change(environment, machine, manager)
  BY DEF ChangeFrequencies, Change, ChangeCore
<1>4. /\ machine' = ChangeFrequencies.machine
      /\ \/ manager' = ChangeFrequencies.manager
         \/ manager' = reset_frequency_level_idx(ChangeFrequencies.manager)
  BY DEF EnvFracture, Out
<1>5. SUFFICES ASSUME Usable(environment)  PROVE MachineInv'
  BY <1>1 DEF MachineInv
<1>6. environment \in Environments /\ InForce(environment, machine) /\ HasSaved(environment, manager)
  BY <1>2, <1>5 DEF MachineInv
<1>7. InForce(environment, machine') /\ HasSaved(environment, manager')
  BY <1>3, <1>4, <1>5, <1>6, ChangeFacts, ResetStays
<1> QED BY <1>1, <1>2, <1>6, <1>7 DEF MachineInv

LEMMA NextMachine ==
  ASSUME MachineInv, [EnvNext]_evars
  PROVE  MachineInv'
<1>1. CASE Setup
  BY <1>1, SetupMachine
<1>2. CASE ready /\ EnvStartTest
  <2>1. UNCHANGED <<environment, ready, machine, manager>> /\ at = "between" /\ at' = "fracture"
    BY <1>2 DEF EnvStartTest, StartTest
  <2>2. at \notin Done /\ at' \notin Done /\ manager' = manager  BY <2>1 DEF Done
  <2> QED BY <2>1, <2>2, MachineKept
<1>3. CASE ready /\ EnvAnalyzeAndReturn
  <2>1. /\ UNCHANGED <<environment, ready, machine>> /\ at = "retry"
        /\ at' \in {"finish", "between"}
        /\ manager' = reset_frequency_level_idx(manager)
    BY <1>3 DEF EnvAnalyzeAndReturn, AnalyzeAndReturn, ReturnToMain
  <2>2. at \notin Done /\ at' \notin Done  BY <2>1 DEF Done
  <2> QED BY <1>3, <2>1, <2>2, MachineKept
<1>4. CASE ready /\ \E a \in Attempt : EnvFracture(a)
  BY <1>4, FractureMachine
<1>5. CASE ready /\ \E a \in Attempt : EnvRetry(a)
  <2>1. UNCHANGED <<environment, ready, machine, manager, at>>
    BY <1>5 DEF EnvRetry, Retry, RetryFrequencies, Returns, Outcome
  <2>2. manager' = manager /\ (at' \in Done <=> at \in Done)  BY <2>1
  <2> QED BY <2>1, <2>2, MachineKept
<1>6. CASE ready /\ FrequencyFails
  <2>1. /\ at \notin Done /\ at' \in Done /\ environment' = environment
        /\ ChangeFrequencies.how # "returns"
    BY <1>6 DEF FrequencyFails, Exited, Done
  <2>2. ChangeFrequencies = Change(environment, machine, manager)
    BY DEF ChangeFrequencies, Change, ChangeCore
  <2>3. ~Usable(environment)  BY <1>6, <2>1, <2>2, ChangeFacts DEF MachineInv
  <2> QED BY <2>1, <2>3 DEF MachineInv
<1>7. CASE ready /\ (EnvFinish \/ EnvExitInvalid \/ KilledBySignal)
  <2>1. /\ at \in {"finish", "fracture", "retry"} /\ at' \in {"ended", "exited"}
        /\ machine' = Restored /\ environment' = environment
    BY <1>7 DEF EnvFinish, Finish, EnvExitInvalid, ExitInvalid, KilledBySignal, Exited
  <2> QED BY <1>7, <2>1, RestoredKept DEF Done
<1>8. CASE (DurationElapses \/ StopBetweenTests \/ Terminated) /\ UNCHANGED surroundings
  <2>1. /\ UNCHANGED <<environment, ready, machine, manager>>
        /\ at' \in Done <=> at \in Done
    BY <1>8 DEF DurationElapses, StopBetweenTests, Terminated, vars, surroundings, Done
  <2>2. manager' = manager /\ (at' \in Done <=> at \in Done)  BY <2>1
  <2> QED BY <2>1, <2>2, MachineKept
<1>9. CASE UNCHANGED evars
  <2>1. UNCHANGED <<environment, ready, machine, manager, at>>
    BY <1>9 DEF evars, vars, surroundings
  <2>2. manager' = manager /\ (at' \in Done <=> at \in Done)  BY <2>1
  <2> QED BY <2>1, <2>2, MachineKept
<1> QED
  BY <1>1, <1>2, <1>3, <1>4, <1>5, <1>6, <1>7, <1>8, <1>9
  DEF EnvNext, EnvProgram, Clock

\* However a run ends, by itself, with an error or by a signal, and at whatever
\* frequency: if its machine was usable, the driver, the governors, the speeds of
\* the cores and the ranges of the sockets are those of before.
THEOREM MachineRestored == EnvSpec => []MachineIsRestored
<1>1. MachineInv => MachineIsRestored  BY DEF MachineInv, MachineIsRestored
<1> QED BY <1>1, InitMachine, NextMachine, PTL DEF EnvSpec
-----------------------------------------------------------------------------
(***************************************************************************)
(* The levels of the frequencies.                                          *)
(***************************************************************************)
\* Different places of a sequence have different ranks.
LEMMA RankFacts ==
  ASSUME NEW L \in Seq(Int)
  PROVE  /\ \A i \in DOMAIN L : Rank(L, i) \in 0..(Len(L) - 1)
         /\ \A i, j \in DOMAIN L : Rank(L, i) < Rank(L, j) => L[i] >= L[j]
         /\ \A i, j \in DOMAIN L : Rank(L, i) = Rank(L, j) => i = j
<1> PICK n \in Nat : n = Len(L)  OBVIOUS
<1> DEFINE Higher(i) == {j \in DOMAIN L : L[j] > L[i] \/ (L[j] = L[i] /\ j < i)}
<1>1. n \in Nat /\ DOMAIN L = 1..n /\ \A i \in 1..n : L[i] \in Int  OBVIOUS
<1>2. IsFiniteSet(DOMAIN L) /\ Cardinality(DOMAIN L) = n
  <2>1. 1 \in Int /\ n \in Int  OBVIOUS
  <2>2. IsFiniteSet(1..n) /\ Cardinality(1..n) = IF 1 > n THEN 0 ELSE n - 1 + 1
    BY ONLY <2>1, FS_Interval
  <2> QED BY <1>1, <2>2
<1>3. \A i : Rank(L, i) = Cardinality(Higher(i))  BY DEF Rank
<1>4. ASSUME NEW i \in DOMAIN L
      PROVE  IsFiniteSet(Higher(i)) /\ Cardinality(Higher(i)) \in Nat /\ Cardinality(Higher(i)) < n
  <2>1. Higher(i) \in SUBSET DOMAIN L  OBVIOUS
  <2>2. i \notin Higher(i)  BY <1>1
  <2> HIDE DEF Higher
  <2>3. IsFiniteSet(Higher(i)) /\ Cardinality(Higher(i)) <= n /\ Higher(i) # DOMAIN L
    BY <1>2, <2>1, <2>2, FS_Subset
  <2>4. Cardinality(Higher(i)) # n  BY <1>2, <2>1, <2>3, FS_Subset
  <2>5. Cardinality(Higher(i)) \in Nat  BY <2>3, FS_CardinalityType
  <2> QED BY <1>1, <2>3, <2>4, <2>5
<1>5. ASSUME NEW i \in DOMAIN L, NEW j \in DOMAIN L, i \in Higher(j)
      PROVE  Cardinality(Higher(i)) < Cardinality(Higher(j))
  <2>1. Higher(i) \in SUBSET Higher(j) /\ i \notin Higher(i)  BY <1>1, <1>5
  <2> HIDE DEF Higher
  <2>2. Cardinality(Higher(i)) <= Cardinality(Higher(j)) /\ Cardinality(Higher(i)) # Cardinality(Higher(j))
    BY <1>4, <1>5, <2>1, FS_Subset
  <2> QED BY <1>4, <2>2
<1>6. \A i, j \in DOMAIN L : i \in Higher(j) \/ j \in Higher(i) \/ i = j  BY <1>1
<1>7. \A i, j \in DOMAIN L : i \in Higher(j) => L[i] >= L[j]  BY <1>1
<1> HIDE DEF Higher
<1>8. \A i, j \in DOMAIN L : Cardinality(Higher(i)) < Cardinality(Higher(j)) => L[i] >= L[j]
  <2> SUFFICES ASSUME NEW i \in DOMAIN L, NEW j \in DOMAIN L,
                      Cardinality(Higher(i)) < Cardinality(Higher(j))
               PROVE  L[i] >= L[j]
    OBVIOUS
  <2>1. j \notin Higher(i)  BY <1>4, <1>5
  <2>2. i # j  BY <1>4
  <2> QED BY <1>6, <1>7, <2>1, <2>2
<1>9. \A i, j \in DOMAIN L : Cardinality(Higher(i)) = Cardinality(Higher(j)) => i = j
  BY <1>4, <1>5, <1>6
<1>10. \A i \in DOMAIN L : Cardinality(Higher(i)) \in 0..(n - 1)  BY <1>1, <1>4
<1> QED BY <1>3, <1>8, <1>9, <1>10

\* Sorting permutes a sequence and puts the higher before the lower.
LEMMA DescendingFacts ==
  ASSUME NEW L \in Seq(Int), NEW n \in Nat, n = Len(L)
  PROVE  \E p \in [1..n -> 1..n] :
           /\ Descending(L) = [k \in 1..n |-> L[p[k]]]
           /\ \A i, j \in 1..n : p[i] = p[j] => i = j
           /\ \A i, j \in 1..n : i < j => L[p[i]] >= L[p[j]]
           /\ \A i \in 1..n : \E k \in 1..n : p[k] = i
<1> DEFINE r == [i \in 1..n |-> Rank(L, i)]
           p == [k \in 1..n |-> CHOOSE i \in 1..n : Rank(L, i) = k - 1]
<1>1. n \in Nat /\ DOMAIN L = 1..n /\ \A i \in 1..n : L[i] \in Int  OBVIOUS
<1>2. r \in Injection(1..n, 0..(n - 1))  BY <1>1, RankFacts DEF Injection, IsInjective
<1>3. /\ IsFiniteSet(1..n) /\ IsFiniteSet(0..(n - 1))
      /\ Cardinality(1..n) = Cardinality(0..(n - 1))
  <2>1. 1 \in Int /\ 0 \in Int /\ n \in Int /\ n - 1 \in Int  OBVIOUS
  <2>2. IsFiniteSet(1..n) /\ Cardinality(1..n) = IF 1 > n THEN 0 ELSE n - 1 + 1
    BY ONLY <2>1, FS_Interval
  <2>3. IsFiniteSet(0..(n - 1)) /\ Cardinality(0..(n - 1)) = IF 0 > n - 1 THEN 0 ELSE n - 1 - 0 + 1
    BY ONLY <2>1, FS_Interval
  <2> QED BY <2>2, <2>3
<1>4. r \in Surjection(1..n, 0..(n - 1))  BY <1>2, <1>3, FS_Injection
<1>5. \A k \in 1..n : k - 1 \in 0..(n - 1)  BY <1>1
<1>6. \A k \in 1..n : \E i \in 1..n : Rank(L, i) = k - 1
  BY <1>4, <1>5 DEF Surjection
<1>7. \A k \in 1..n : p[k] \in 1..n /\ Rank(L, p[k]) = k - 1  BY <1>6
<1>8. p \in [1..n -> 1..n]  BY <1>7
<1>9. Descending(L) = [k \in 1..n |-> L[p[k]]]  BY <1>1 DEF Descending
<1> HIDE DEF p, r
<1>10. \A i, j \in 1..n : p[i] = p[j] => i = j  BY <1>1, <1>7
<1>11. \A i, j \in 1..n : i < j => L[p[i]] >= L[p[j]]
  <2> SUFFICES ASSUME NEW i \in 1..n, NEW j \in 1..n, i < j  PROVE L[p[i]] >= L[p[j]]
    OBVIOUS
  <2>1. i - 1 < j - 1  BY <1>1
  <2>2. Rank(L, p[i]) < Rank(L, p[j]) /\ p[i] \in DOMAIN L /\ p[j] \in DOMAIN L
    BY <1>1, <1>7, <2>1
  <2> QED BY <2>2, RankFacts
<1>12. \A i \in 1..n : \E k \in 1..n : p[k] = i
  <2> SUFFICES ASSUME NEW i \in 1..n  PROVE \E k \in 1..n : p[k] = i  OBVIOUS
  <2>1. Rank(L, i) + 1 \in 1..n /\ (Rank(L, i) + 1) - 1 = Rank(L, i)  BY <1>1, RankFacts
  <2>2. Rank(L, p[Rank(L, i) + 1]) = Rank(L, i) /\ p[Rank(L, i) + 1] \in 1..n  BY <1>7, <2>1
  <2> QED BY <1>1, <2>1, <2>2, RankFacts
<1> QED BY <1>8, <1>9, <1>10, <1>11, <1>12

\* The levels are at least gap apart.
Spread(L, gap) ==
  \A i, j \in 1..Len(L) : i # j => L[i] - L[j] >= gap \/ L[j] - L[i] >= gap

\* What lies halfway between the neighbours of a sequence lies apart from it.
LEMMA HalfwayFacts ==
  ASSUME NEW n \in Nat, NEW gap \in Nat, NEW s \in [1..n -> Nat], NEW M \in [1..(n - 1) -> Nat],
         \A i, j \in 1..n : i < j => s[i] - s[j] >= 2 * gap,
         \A i \in 1..(n - 1) : M[i] = (s[i] + s[i + 1]) \div 2
  PROVE  /\ \A i \in 1..(n - 1), k \in 1..n : s[k] - M[i] >= gap \/ M[i] - s[k] >= gap
         /\ \A i, j \in 1..(n - 1) : i < j => M[i] - M[j] >= gap
<1>1. ASSUME NEW i \in 1..n, NEW j \in 1..n, i <= j  PROVE s[i] >= s[j]
  <2>1. s[i] \in Nat /\ s[j] \in Nat  OBVIOUS
  <2>2. i < j => s[i] - s[j] >= 2 * gap  OBVIOUS
  <2>3. 2 * gap >= 0  OBVIOUS
  <2> QED BY <1>1, <2>1, <2>2, <2>3
<1>2. ASSUME NEW i \in 1..(n - 1)
      PROVE  /\ i \in 1..n /\ i + 1 \in 1..n
             /\ s[i] - M[i] >= gap /\ M[i] - s[i + 1] >= gap
  <2>1. i \in 1..n /\ i + 1 \in 1..n /\ i < i + 1  OBVIOUS
  <2>2. PICK a \in Nat, b \in Nat : a = s[i] /\ b = s[i + 1]  BY <2>1
  <2>3. a - b >= 2 * gap  BY <2>1, <2>2
  <2>4. M[i] = (a + b) \div 2  BY <2>2
  <2>5. a - (a + b) \div 2 >= gap /\ (a + b) \div 2 - b >= gap  BY <2>3
  <2> QED BY <2>1, <2>2, <2>4, <2>5
<1>3. ASSUME NEW i \in 1..(n - 1), NEW k \in 1..n
      PROVE  s[k] - M[i] >= gap \/ M[i] - s[k] >= gap
  <2>1. s[k] \in Nat /\ M[i] \in Nat /\ i \in Nat /\ k \in Nat  OBVIOUS
  <2>2. i \in 1..n /\ i + 1 \in 1..n /\ s[i] \in Nat /\ s[i + 1] \in Nat  BY <1>2
  <2>3. CASE k <= i
    <3>1. s[k] >= s[i]  BY <1>1, <2>2, <2>3
    <3> QED BY <1>2, <2>1, <2>2, <3>1
  <2>4. CASE k >= i + 1
    <3>1. s[i + 1] >= s[k]  BY <1>1, <2>2, <2>4
    <3> QED BY <1>2, <2>1, <2>2, <3>1
  <2> QED BY <2>1, <2>3, <2>4
<1>4. ASSUME NEW i \in 1..(n - 1), NEW j \in 1..(n - 1), i < j
      PROVE  M[i] - M[j] >= gap
  <2>1. i + 1 \in 1..n /\ j \in 1..n /\ i + 1 <= j  BY <1>4
  <2>2. s[i + 1] >= s[j] /\ s[i + 1] \in Nat /\ s[j] \in Nat  BY <1>1, <2>1
  <2>3. M[i] \in Nat /\ M[j] \in Nat  OBVIOUS
  <2>4. M[i] - s[i + 1] >= gap /\ s[j] - M[j] >= gap  BY <1>2
  <2>5. \A w, x, y, z \in Nat : w - x >= gap /\ x >= y /\ y - z >= gap => w - z >= gap
    OBVIOUS
  <2> QED BY <2>2, <2>3, <2>4, <2>5
<1> QED BY <1>3, <1>4

\* Midpoints of levels are new levels, half as far apart.
LEMMA MidpointFacts ==
  ASSUME NEW L \in Seq(Nat), NEW gap \in Nat, Spread(L, 2 * gap), Len(L) >= 1
  PROVE  /\ L \o Midpoints(L) \in Seq(Nat)
         /\ Len(L \o Midpoints(L)) = 2 * Len(L) - 1
         /\ (L \o Midpoints(L))[1] = L[1]
         /\ Spread(L \o Midpoints(L), gap)
<1>0. PICK n \in Nat, m \in Nat : n = Len(L) /\ m = n - 1
  <2>1. Len(L) \in Nat  OBVIOUS
  <2>2. Len(L) - 1 \in Nat  BY <2>1
  <2> QED BY <2>1, <2>2
<1>00. PICK s : s = Descending(L)  OBVIOUS
<1>1. n >= 1 /\ (\A i \in 1..n : L[i] \in Nat) /\ L \in Seq(Int)
  <2>1. n >= 1  BY <1>0
  <2>2. \A i \in 1..n : L[i] \in Nat  BY <1>0
  <2>3. L \in Seq(Int)  OBVIOUS
  <2> QED BY <2>1, <2>2, <2>3
<1>2. PICK p \in [1..n -> 1..n] :
           /\ Descending(L) = [k \in 1..n |-> L[p[k]]]
           /\ \A i, j \in 1..n : p[i] = p[j] => i = j
           /\ \A i, j \in 1..n : i < j => L[p[i]] >= L[p[j]]
           /\ \A i \in 1..n : \E k \in 1..n : p[k] = i
  <2>1. L \in Seq(Int) /\ n \in Nat /\ n = Len(L)  BY <1>0, <1>1
  <2> QED BY ONLY <2>1, DescendingFacts, Zenon
<1>3. s \in [1..n -> Nat] /\ \A k \in 1..n : s[k] = L[p[k]]
  <2>1. \A k \in 1..n : p[k] \in 1..n  BY ONLY p \in [1..n -> 1..n]
  <2>2. \A k \in 1..n : L[p[k]] \in Nat  BY ONLY <1>1, <2>1
  <2> QED BY ONLY <1>00, <1>2, <2>2
<1>4. Len(s) = n
  <2>1. s \in Seq(Nat)  BY ONLY n \in Nat, <1>3
  <2> QED BY ONLY n \in Nat, <1>3, <2>1
<1> PICK M : M = Midpoints(L)  OBVIOUS
<1>5. M = [i \in 1..(n - 1) |-> (s[i] + s[i + 1]) \div 2]
  BY <1>4, <1>00 DEF Midpoints
<1>6. ASSUME NEW i \in 1..n, NEW j \in 1..n, i < j  PROVE s[i] - s[j] >= 2 * gap
  <2>1. i # j /\ p[i] \in 1..n /\ p[j] \in 1..n  BY <1>6
  <2>2. p[i] # p[j] /\ L[p[i]] >= L[p[j]]  BY <1>2, <1>6, <2>1
  <2>3. L[p[i]] - L[p[j]] >= 2 * gap \/ L[p[j]] - L[p[i]] >= 2 * gap
    BY <1>0, <2>1, <2>2 DEF Spread
  <2>4. PICK x \in Nat, y \in Nat : x = L[p[i]] /\ y = L[p[j]]  BY <1>1, <2>1
  <2>5. \A v, w \in Nat : v >= w /\ (v - w >= 2 * gap \/ w - v >= 2 * gap) => v - w >= 2 * gap
    OBVIOUS
  <2>6. x >= y /\ (x - y >= 2 * gap \/ y - x >= 2 * gap)  BY ONLY <2>2, <2>3, <2>4
  <2>7. x - y >= 2 * gap  BY ONLY <2>5, <2>6, x \in Nat, y \in Nat
  <2> QED BY <1>3, <2>1, <2>4, <2>7
<1>7. \A i \in 1..(n - 1) : M[i] = (s[i] + s[i + 1]) \div 2 /\ (s[i] + s[i + 1]) \div 2 \in Nat
  <2> SUFFICES ASSUME NEW i \in 1..(n - 1)
               PROVE  M[i] = (s[i] + s[i + 1]) \div 2 /\ (s[i] + s[i + 1]) \div 2 \in Nat
    OBVIOUS
  <2>1. i \in 1..n /\ i + 1 \in 1..n  OBVIOUS
  <2>2. s[i] \in Nat /\ s[i + 1] \in Nat  BY <1>3, <2>1
  <2>3. \A x, y \in Nat : (x + y) \div 2 \in Nat  OBVIOUS
  <2> QED BY <1>5, <2>2, <2>3
<1>8. M \in [1..(n - 1) -> Nat]  BY <1>5, <1>7
<1>9. /\ \A i \in 1..(n - 1), k \in 1..n : s[k] - M[i] >= gap \/ M[i] - s[k] >= gap
      /\ \A i, j \in 1..(n - 1) : i < j => M[i] - M[j] >= gap
  <2>1. \A i, j \in 1..n : i < j => s[i] - s[j] >= 2 * gap  BY ONLY <1>6
  <2>2. \A i \in 1..(n - 1) : M[i] = (s[i] + s[i + 1]) \div 2  BY ONLY <1>7
  <2> QED BY ONLY n \in Nat, gap \in Nat, <1>3, <1>8, <2>1, <2>2, HalfwayFacts
<1>10. M \in Seq(Nat) /\ Len(M) = m
  <2>1. M \in [1..m -> Nat]  BY <1>0, <1>8
  <2> QED BY ONLY m \in Nat, <2>1
<1> PICK H : H = L \o M  OBVIOUS
<1>11. /\ H \in Seq(Nat) /\ Len(H) = 2 * n - 1
       /\ \A i \in 1..n : H[i] = L[i]
       /\ \A i \in (n + 1)..(2 * n - 1) : H[i] = M[i - n]
  <2>1. L \in Seq(Nat) /\ Len(L) = n  BY <1>0
  <2>3. H \in Seq(Nat) /\ Len(H) = n + m
    BY ONLY <2>1, <1>10, H = L \o M, n \in Nat, m \in Nat
  <2>4. /\ \A i \in 1..n : H[i] = L[i]
        /\ \A i \in (n + 1)..(n + m) : H[i] = M[i - n]
    BY ONLY <2>1, <1>10, H = L \o M, n \in Nat, m \in Nat
  <2>5. n + m = 2 * n - 1  BY <1>0
  <2> QED BY ONLY n \in Nat, m \in Nat, <2>3, <2>4, <2>5
<1>12. ASSUME NEW i \in 1..(2 * n - 1), NEW j \in 1..(2 * n - 1), i < j
       PROVE  H[i] - H[j] >= gap \/ H[j] - H[i] >= gap
  <2>0. \A x, y \in Nat : x - y >= 2 * gap => x - y >= gap  OBVIOUS
  <2>1. CASE j <= n
    <3>1. i \in 1..n /\ j \in 1..n /\ i # j  BY <1>12, <2>1
    <3>2. L[i] - L[j] >= 2 * gap \/ L[j] - L[i] >= 2 * gap  BY <1>0, <3>1 DEF Spread
    <3>3. H[i] = L[i] /\ H[j] = L[j] /\ L[i] \in Nat /\ L[j] \in Nat  BY <1>1, <1>11, <3>1
    <3> QED BY ONLY <2>0, <3>2, <3>3
  <2>2. CASE i <= n /\ j > n
    <3>1. i \in 1..n /\ j - n \in 1..(n - 1) /\ j \in (n + 1)..(2 * n - 1)  BY <2>2
    <3>2. H[i] = L[i] /\ H[j] = M[j - n]  BY <1>11, <3>1
    <3>3. PICK k \in 1..n : p[k] = i  BY <1>2, <3>1
    <3>4. s[k] = L[i]  BY <1>3, <3>3
    <3>5. s[k] - M[j - n] >= gap \/ M[j - n] - s[k] >= gap  BY ONLY <1>9, <3>1, k \in 1..n
    <3>6. s[k] \in Nat /\ M[j - n] \in Nat  BY <1>3, <1>8, <3>1
    <3>7. H[i] = s[k] /\ H[j] = M[j - n]  BY ONLY <3>2, <3>4
    <3> QED BY ONLY <3>5, <3>6, <3>7
  <2>3. CASE i > n
    <3>1. /\ i - n \in 1..(n - 1) /\ j - n \in 1..(n - 1) /\ i - n < j - n
          /\ i \in (n + 1)..(2 * n - 1) /\ j \in (n + 1)..(2 * n - 1)
      BY <1>12, <2>3
    <3>2. H[i] = M[i - n] /\ H[j] = M[j - n]  BY <1>11, <3>1
    <3>3. M[i - n] - M[j - n] >= gap  BY ONLY <1>9, <3>1
    <3>4. M[i - n] \in Nat /\ M[j - n] \in Nat  BY <1>8, <3>1
    <3> QED BY ONLY <3>2, <3>3, <3>4
  <2>4. i \in Int /\ j \in Int /\ n \in Int  OBVIOUS
  <2>5. j <= n \/ (i <= n /\ j > n) \/ i > n  BY ONLY <2>4
  <2> QED BY ONLY <2>1, <2>2, <2>3, <2>5
<1>13. Spread(H, gap)
  <2> SUFFICES ASSUME NEW i \in 1..(2 * n - 1), NEW j \in 1..(2 * n - 1), i # j
               PROVE  H[i] - H[j] >= gap \/ H[j] - H[i] >= gap
    BY <1>11 DEF Spread
  <2>1. i \in Int /\ j \in Int  OBVIOUS
  <2>2. i < j \/ j < i  BY ONLY <2>1, i # j
  <2>3. \A k, l \in 1..(2 * n - 1) : k < l => H[k] - H[l] >= gap \/ H[l] - H[k] >= gap
    BY ONLY <1>12
  <2> QED BY ONLY <2>2, <2>3, i \in 1..(2 * n - 1), j \in 1..(2 * n - 1)
<1>14. H[1] = L[1]  BY <1>1, <1>11
<1>15. H = L \o Midpoints(L) /\ Len(L) = n  BY <1>0
<1> QED BY ONLY <1>11, <1>13, <1>14, <1>15

\* The rounds of populate_frequency_levels().
Round(L, total) == IF Len(L) < total THEN L \o Midpoints(L) ELSE L

LEMMA RoundIsSeq ==
  ASSUME NEW L \in Seq(Int), NEW total
  PROVE  Round(L, total) \in Seq(Int)
<1>0. PICK n \in Nat : n = Len(L)  OBVIOUS
<1>1. PICK s \in [1..n -> Int] : s = Descending(L)
  <2>1. PICK p \in [1..n -> 1..n] :
           /\ Descending(L) = [k \in 1..n |-> L[p[k]]]
           /\ \A i, j \in 1..n : p[i] = p[j] => i = j
           /\ \A i, j \in 1..n : i < j => L[p[i]] >= L[p[j]]
           /\ \A i \in 1..n : \E k \in 1..n : p[k] = i
    BY ONLY L \in Seq(Int), n \in Nat, <1>0, DescendingFacts, Zenon
  <2>2. \A k \in 1..n : L[p[k]] \in Int  BY <1>0
  <2> QED BY <2>1, <2>2
<1>2. PICK m \in Nat : Midpoints(L) \in [1..m -> Int]
  <2>1. CASE n = 0
    <3>1. s = <<>>  BY <1>1, <2>1
    <3>2. Len(s) = 0  BY <3>1
    <3>3. Midpoints(L) = [i \in 1..(0 - 1) |-> (s[i] + s[i + 1]) \div 2]
      BY <1>1, <3>2 DEF Midpoints
    <3>4. 1..(0 - 1) = 1..0  OBVIOUS
    <3>5. Midpoints(L) \in [1..0 -> Int]  BY <3>3, <3>4
    <3> QED BY <3>5
  <2>2. CASE n >= 1
    <3>1. PICK k \in Nat : k = n - 1  BY <2>2
    <3>2. Len(s) = n  BY <1>1
    <3>3. Midpoints(L) = [i \in 1..k |-> (s[i] + s[i + 1]) \div 2]
      BY <1>1, <3>1, <3>2 DEF Midpoints
    <3>4. \A i \in 1..k : (s[i] + s[i + 1]) \div 2 \in Int
      <4>1. \A i \in 1..k : i \in 1..n /\ i + 1 \in 1..n  BY <3>1
      <4>2. \A x, y \in Int : (x + y) \div 2 \in Int  OBVIOUS
      <4> QED BY <1>1, <4>1, <4>2
    <3>5. Midpoints(L) \in [1..k -> Int]  BY <3>3, <3>4
    <3> QED BY <3>5
  <2> QED BY <2>1, <2>2
<1>3. Midpoints(L) \in Seq(Int)  BY <1>2
<1>4. L \o Midpoints(L) \in Seq(Int)  BY <1>3
<1> QED BY <1>4 DEF Round

LEMMA RoundsFacts ==
  ASSUME NEW lo \in Int, NEW hi \in Int, NEW total
  PROVE  populate_frequency_levels(lo, hi, total) =
           Round(Round(Round(Round(<<hi, lo>>, total), total), total), total)
<1>0. <<hi, lo>> \in Seq(Int)  OBVIOUS
<1> PICK l0 \in Seq(Int) : l0 = <<hi, lo>>  BY <1>0
<1> DEFINE next == [levels \in Seq(Int) |->
                      IF Len(levels) < total THEN levels \o Midpoints(levels) ELSE levels]
           R(l) == next[l]
           P(f) == f = [k \in 0..4 |-> IF k = 0 THEN l0 ELSE R(f[k - 1])]
           g == [k \in 0..4 |-> IF k = 0 THEN l0 ELSE IF k = 1 THEN R(l0)
                                ELSE IF k = 2 THEN R(R(l0))
                                ELSE IF k = 3 THEN R(R(R(l0))) ELSE R(R(R(R(l0))))]
           round == CHOOSE f : P(f)
<1>1. populate_frequency_levels(lo, hi, total) = round[4]
  BY Zenon DEF populate_frequency_levels
<1>7. \A l \in Seq(Int) : R(l) = Round(l, total)  BY DEF Round
<1> HIDE DEF R
<1>2. P(g)
  <2> PICK h : h = [k \in 0..4 |-> IF k = 0 THEN l0 ELSE R(g[k - 1])]  OBVIOUS
  <2>1. g[0] = l0 /\ g[1] = R(l0) /\ g[2] = R(g[1]) /\ g[3] = R(g[2]) /\ g[4] = R(g[3])
    OBVIOUS
  <2>2. g = [k \in 0..4 |-> g[k]]  OBVIOUS
  <2> HIDE DEF g
  <2>3. h[0] = l0 /\ h[1] = R(g[0]) /\ h[2] = R(g[1]) /\ h[3] = R(g[2]) /\ h[4] = R(g[3])
    OBVIOUS
  <2>4. \A k \in 0..4 : k \in {0, 1, 2, 3, 4}  OBVIOUS
  <2>5. \A k \in 0..4 : g[k] = h[k]  BY ONLY <2>1, <2>3, <2>4
  <2>6. g = h  BY <2>2, <2>5
  <2> QED BY <2>6
<1> HIDE DEF g
<1>3. P(round)  BY <1>2, Zenon
<1> HIDE DEF round
<1>4. round[0] = l0  BY <1>3
<1>5. \A k \in 1..4 : round[k] = R(round[k - 1])  BY <1>3
<1>6. round[1] = R(round[0]) /\ round[2] = R(round[1]) /\ round[3] = R(round[2]) /\ round[4] = R(round[3])
  BY <1>5
<1>8. PICK a \in Seq(Int), b \in Seq(Int), c \in Seq(Int) :
        a = Round(l0, total) /\ b = Round(a, total) /\ c = Round(b, total)
  BY RoundIsSeq
<1>9. round[1] = a /\ round[2] = b /\ round[3] = c /\ round[4] = Round(c, total)
  BY <1>4, <1>6, <1>7, <1>8
<1> QED BY <1>1, <1>8, <1>9

\* Some rounds make enough of them; all levels are apart.
Levels(L, hi, gap) ==
  /\ L \in Seq(Nat) /\ Len(L) >= 2 /\ L[1] = hi /\ Spread(L, gap)

LEMMA RoundFacts ==
  ASSUME NEW L, NEW hi, NEW gap \in Nat, NEW total \in Int, Levels(L, hi, 2 * gap),
         NEW n \in Nat, Len(L) >= total \/ Len(L) = n
  PROVE  /\ Levels(Round(L, total), hi, gap)
         /\ Len(Round(L, total)) >= total \/ Len(Round(L, total)) = 2 * n - 1
<1>0. L \in Seq(Nat) /\ Len(L) \in Nat /\ Len(L) >= 2 /\ L[1] = hi /\ Spread(L, 2 * gap)
  BY DEF Levels
<1>1. CASE Len(L) < total
  <2>1. Round(L, total) = L \o Midpoints(L)  BY <1>1 DEF Round
  <2>2. Len(L) >= 1 /\ 2 * Len(L) - 1 >= 2 /\ Len(L) = n  BY <1>0, <1>1
  <2>3. /\ L \o Midpoints(L) \in Seq(Nat)
        /\ Len(L \o Midpoints(L)) = 2 * Len(L) - 1
        /\ (L \o Midpoints(L))[1] = L[1]
        /\ Spread(L \o Midpoints(L), gap)
    BY <1>0, <2>2, MidpointFacts
  <2> QED BY ONLY <1>0, <2>1, <2>2, <2>3 DEF Levels
<1>2. CASE ~(Len(L) < total)
  <2>1. Round(L, total) = L  BY <1>2 DEF Round
  <2>2. Spread(L, gap)
    <3> SUFFICES ASSUME NEW i \in 1..Len(L), NEW j \in 1..Len(L), i # j
                 PROVE  L[i] - L[j] >= gap \/ L[j] - L[i] >= gap
      BY DEF Spread
    <3>1. L[i] \in Nat /\ L[j] \in Nat  BY <1>0
    <3>2. L[i] - L[j] >= 2 * gap \/ L[j] - L[i] >= 2 * gap  BY <1>0 DEF Spread
    <3>3. \A x, y \in Nat : x - y >= 2 * gap => x - y >= gap  OBVIOUS
    <3> QED BY ONLY <3>1, <3>2, <3>3
  <2>3. Len(L) >= total  BY <1>0, <1>2
  <2> QED BY <1>0, <2>1, <2>2, <2>3 DEF Levels
<1> QED BY <1>1, <1>2

\* If the range has room for it, there are as many levels as should be, the highest
\* first, and no two the same.
Wide(lo, hi) == \E gap \in Nat : gap >= 1 /\ hi - lo >= 16 * gap
Different(L, hi, total) ==
  /\ L \in Seq(Nat) /\ Len(L) >= total /\ L[1] = hi
  /\ \A i, j \in 1..Len(L) : i # j => L[i] # L[j]

LEMMA PopulateFacts ==
  ASSUME NEW lo \in Nat, NEW hi \in Nat, Wide(lo, hi), NEW total \in Int, total <= 16
  PROVE  Different(populate_frequency_levels(lo, hi, total), hi, total)
<1> PICK gap \in Nat : gap >= 1 /\ hi - lo >= 16 * gap  BY DEF Wide
<1> PICK L : L = populate_frequency_levels(lo, hi, total)  OBVIOUS
<1>0. PICK l0 : l0 = <<hi, lo>>  OBVIOUS
<1> DEFINE l1 == Round(l0, total)
           l2 == Round(l1, total)
           l3 == Round(l2, total)
           g2 == 2 * gap
           g4 == 2 * g2
           g8 == 2 * g4
<1>1. L = Round(l3, total)  BY <1>0, RoundsFacts
<1>g. g2 \in Nat /\ g4 \in Nat /\ g8 \in Nat  OBVIOUS
<1>2. Levels(l0, hi, 2 * g8) /\ Len(l0) = 2
  <2>1. l0 \in Seq(Nat) /\ Len(l0) = 2 /\ l0[1] = hi /\ l0[2] = lo  BY <1>0
  <2>2. \A i \in 1..2 : i = 1 \/ i = 2  OBVIOUS
  <2>3. hi - lo >= 2 * g8  OBVIOUS
  <2> HIDE DEF g8
  <2>4. Spread(l0, 2 * g8)  BY ONLY <2>1, <2>2, <2>3 DEF Spread
  <2> QED BY <2>1, <2>4 DEF Levels
<1> HIDE DEF g8
<1>3. Levels(l1, hi, g8) /\ (Len(l1) >= total \/ Len(l1) = 2 * 2 - 1)
  BY ONLY <1>2, <1>g, 2 \in Nat, total \in Int, RoundFacts
<1>4. Levels(l1, hi, 2 * g4) /\ (Len(l1) >= total \/ Len(l1) = 3) /\ 3 \in Nat
  BY ONLY <1>3 DEF g8
<1> HIDE DEF g4, l1
<1>5. Levels(l2, hi, g4) /\ (Len(l2) >= total \/ Len(l2) = 2 * 3 - 1)
  BY ONLY <1>4, <1>g, total \in Int, RoundFacts
<1>6. Levels(l2, hi, 2 * g2) /\ (Len(l2) >= total \/ Len(l2) = 5) /\ 5 \in Nat
  BY ONLY <1>5 DEF g4
<1> HIDE DEF g2, l2
<1>7. Levels(l3, hi, g2) /\ (Len(l3) >= total \/ Len(l3) = 2 * 5 - 1)
  BY ONLY <1>6, <1>g, total \in Int, RoundFacts
<1>8. Levels(l3, hi, 2 * gap) /\ (Len(l3) >= total \/ Len(l3) = 9) /\ 9 \in Nat
  BY ONLY <1>7 DEF g2
<1> HIDE DEF l3
<1>9. Levels(L, hi, gap) /\ (Len(L) >= total \/ Len(L) = 2 * 9 - 1)
  BY ONLY <1>1, <1>8, gap \in Nat, total \in Int, RoundFacts
<1>10. Len(L) >= total
  <2>1. Len(L) \in Nat  BY ONLY <1>9 DEF Levels
  <2>2. Len(L) >= total \/ Len(L) = 17  BY ONLY <1>9
  <2>3. 17 >= total  OBVIOUS
  <2> QED BY ONLY <2>2, <2>3
<1>11. \A i, j \in 1..Len(L) : i # j => L[i] # L[j]
  <2> SUFFICES ASSUME NEW i \in 1..Len(L), NEW j \in 1..Len(L), i # j, L[i] = L[j]
               PROVE  FALSE
    OBVIOUS
  <2>1. L[i] \in Nat /\ L[j] \in Nat  BY <1>9 DEF Levels
  <2>2. L[i] - L[j] >= gap \/ L[j] - L[i] >= gap  BY <1>9 DEF Levels, Spread
  <2> QED BY ONLY <2>1, <2>2, L[i] = L[j], gap \in Nat, gap >= 1
<1> QED BY <1>9, <1>10, <1>11 DEF Levels, Different

-----------------------------------------------------------------------------
(***************************************************************************)
(* The frequencies of the attempts, on any machine, usable or not.          *)
(***************************************************************************)
\* The frequencies vary: the manager does what the option asks for.
Varies(e, g) == e.vary_frequency_mode /\ g.core_supported /\ e.machine.userspace

\* The levels of the cores are those of the range.
LevelsKnown(e, g) ==
  /\ IsManager(g)
  /\ Varies(e, g) =>
       /\ e.machine.range \in Nat \X Nat
       /\ g.core_total = Steps(e.machine.range[1], e.machine.range[2], 16)
       /\ g.core_levels = populate_frequency_levels(e.machine.range[1], e.machine.range[2],
                                                    g.core_total)

\* The machine is the one of the environment, its cores under userspace.
CoresInUse(e, g, m) ==
  \E p, h, s, u :
    /\ m = Written(e.machine, p, h, s, u)
    /\ Varies(e, g) => \A cpu \in Cpus(e.machine) : h[cpu] = "userspace"

\* The manager's members about the cores.
SameCores(g, h) ==
  /\ h.core_supported = g.core_supported /\ h.core_levels = g.core_levels
  /\ h.core_total = g.core_total

LEMMA LevelsStay ==
  ASSUME NEW e, NEW g, NEW h, LevelsKnown(e, g), IsManager(h), SameCores(g, h)
  PROVE  /\ LevelsKnown(e, h) /\ (Varies(e, h) <=> Varies(e, g))
         /\ \A m : CoresInUse(e, g, m) => CoresInUse(e, h, m)
BY DEF LevelsKnown, SameCores, Varies, CoresInUse

\* What is written to the files of some of the cores leaves the rest.
LEMMA GovernorsOfSome ==
  ASSUME NEW m0, NEW p, NEW g, NEW s, NEW u, NEW m, m = Written(m0, p, g, s, u),
         NEW cpus, NEW governors
  PROVE  SetGovernors(m, cpus, governors) =
           Written(m0, p, [cpu \in Cpus(m0) |->
             IF cpu \in cpus /\ (governors[cpu] = "userspace" => m0.userspace)
             THEN governors[cpu] ELSE g[cpu]], s, u)
<1>1. m.governor = g /\ m.userspace = m0.userspace /\ Cpus(m) = Cpus(m0)  BY WrittenFields
<1>2. PICK t : t = [cpu \in Cpus(m0) |->
             IF cpu \in cpus /\ (governors[cpu] = "userspace" => m0.userspace)
             THEN governors[cpu] ELSE g[cpu]]
  OBVIOUS
<1>3. SetGovernors(m, cpus, governors) = [m EXCEPT !.governor = t]
  BY <1>1, <1>2 DEF SetGovernors
<1>4. [m EXCEPT !.governor = t] = Written(m0, p, t, s, u)  BY DEF Written
<1> QED BY <1>2, <1>3, <1>4

\* The set-up of the cores, of any machine.
LEMMA CoreSetUpAny ==
  ASSUME NEW e \in Environments
  PROVE  /\ LevelsKnown(e, SetUpCore(e).manager)
         /\ CoresInUse(e, SetUpCore(e).manager, SetUpCore(e).machine)
         /\ SetUpCore(e).how # "returns" => ~SetUpCore(e).manager.core_supported
         /\ SetUpCore(e).manager.core_idx = 0
<1> PICK m0 : m0 = e.machine  OBVIOUS
<1>1. IsMachine(m0)  BY EnvironmentAssumption
<1>2. IsManager(NoManager) /\ NoManager.core_supported = FALSE /\ NoManager.core_idx = 0
  BY DEF NoManager, IsManager
<1>3. m0 = Written(m0, m0.pstate, m0.governor, m0.setspeed, m0.uncore)  BY <1>1, WrittenSelf
<1> DEFINE Fine(m, g) == /\ IsManager(g) /\ ~g.core_supported /\ g.core_idx = 0
                         /\ \E p, h, s, u : m = Written(m0, p, h, s, u)
<1>4. \A m, g : Fine(m, g) => LevelsKnown(e, g) /\ CoresInUse(e, g, m)
  BY DEF LevelsKnown, CoresInUse, Varies
<1>5. \A m, g, how : /\ Outcome(m, g, how).machine = m /\ Outcome(m, g, how).manager = g
                     /\ Outcome(m, g, how).how = how
  BY DEF Outcome
<1>6. CASE ~e.vary_frequency_mode
  <2>1. SetUpCore(e) = Outcome(m0, NoManager, "returns")
    BY <1>6 DEF SetUpCore, ThenCore, Returns
  <2>2. Fine(m0, NoManager)  BY <1>2, <1>3
  <2> QED BY <1>2, <1>4, <1>5, <2>1, <2>2
<1>7. CASE e.vary_frequency_mode
  <2> DEFINE switches == ~check_if_userspace_present(m0) /\ m0.pstate # "none"
  <2>1. PICK noted : noted = IF switches THEN [NoManager EXCEPT !.pstate_status = m0.pstate]
                             ELSE NoManager
    OBVIOUS
  <2>2. IsManager(noted) /\ noted.core_supported = FALSE /\ noted.core_idx = 0
    BY <1>2, <2>1 DEF IsManager
  <2>3. PICK m : m = IF switches THEN SetPstate(m0, "passive") ELSE m0  OBVIOUS
  <2>4. PICK p, g, s, u : m = Written(m0, p, g, s, u)
    BY <1>3, <2>3, PstateFacts
  <2>5. PICK levelled : levelled = Levelled(noted, m0.range)  OBVIOUS
  <2>6. /\ IsManager(levelled) /\ levelled.core_supported = FALSE /\ levelled.core_idx = 0
        /\ levelled.core_total = Steps(m0.range[1], m0.range[2], 16)
        /\ levelled.core_levels = populate_frequency_levels(m0.range[1], m0.range[2], levelled.core_total)
    BY <2>2, <2>5 DEF IsManager, Levelled
  <2>7. SetUpCore(e) =
          IF switches /\ ~m0.root THEN Outcome(m0, NoManager, "exits")
          ELSE IF m0.range = <<>> THEN Outcome(m, noted, "returns")
          ELSE SaveAndGovern(m, levelled)
    <3>1. SetUpCore(e) = initial_core_frequency_setup(m0, NoManager)
      BY <1>7 DEF SetUpCore, ThenCore, Returns, Outcome
    <3> QED BY <2>1, <2>3, <2>5, <3>1, Zenon DEF initial_core_frequency_setup, Returns
  <2> HIDE DEF switches
  <2>8. Fine(m0, NoManager) /\ Fine(m, noted) /\ Fine(m, levelled)
    BY <1>2, <1>3, <2>2, <2>4, <2>6
  <2>9. CASE switches /\ ~m0.root
    <3>1. SetUpCore(e) = Outcome(m0, NoManager, "exits")  BY <2>7, <2>9
    <3> QED BY <1>2, <1>4, <1>5, <2>8, <3>1
  <2>10. CASE ~(switches /\ ~m0.root) /\ m0.range = <<>>
    <3>1. SetUpCore(e) = Outcome(m, noted, "returns")  BY <2>7, <2>10
    <3> QED BY <1>4, <1>5, <2>8, <3>1
  <2>11. CASE ~(switches /\ ~m0.root) /\ m0.range # <<>>
    <3> DEFINE saved == SavedCpus(m)
    <3>1. PICK done : done = [levelled EXCEPT
                 !.governors = [cpu \in saved |-> m.governor[cpu]],
                 !.setspeeds = [cpu \in saved |-> ReadSetspeed(m, cpu)],
                 !.core_supported = saved = Cpus(m)]
      OBVIOUS
    <3>2. PICK set : set = SetGovernors(m, saved, [cpu \in saved |-> "userspace"])  OBVIOUS
    <3>3. SetUpCore(e) = IF saved # {} /\ ~m.root THEN Outcome(m, levelled, "exits")
                         ELSE Outcome(set, done, "returns")
      BY <2>7, <2>11, <3>1, <3>2, Zenon DEF SaveAndGovern, Returns
    <3>4. /\ IsManager(done) /\ done.core_idx = 0 /\ done.core_supported = (saved = Cpus(m))
          /\ done.core_total = levelled.core_total /\ done.core_levels = levelled.core_levels
      <4> HIDE DEF saved
      <4> QED BY <2>6, <3>1 DEF IsManager
    <3>5. m0.range \in Nat \X Nat  BY <1>1, <2>11 DEF IsMachine
    <3>6. LevelsKnown(e, done)  BY <2>6, <3>4, <3>5 DEF LevelsKnown
    <3>7. CoresInUse(e, done, set)
      <4>1. PICK t : t = [cpu \in Cpus(m0) |->
               IF cpu \in saved /\ ([k \in saved |-> "userspace"][cpu] = "userspace" => m0.userspace)
               THEN [k \in saved |-> "userspace"][cpu] ELSE g[cpu]]
        OBVIOUS
      <4>2. set = Written(m0, p, t, s, u)  BY <2>4, <3>2, <4>1, GovernorsOfSome
      <4>3. ASSUME Varies(e, done)  PROVE \A cpu \in Cpus(m0) : t[cpu] = "userspace"
        <5>1. saved = Cpus(m) /\ m0.userspace  BY <3>4, <4>3 DEF Varies
        <5>2. Cpus(m) = Cpus(m0)  BY <2>4, WrittenFields
        <5> HIDE DEF saved
        <5> QED BY <4>1, <5>1, <5>2
      <4> QED BY <4>2, <4>3 DEF CoresInUse
    <3>8. CASE saved # {} /\ ~m.root
      <4>1. SetUpCore(e) = Outcome(m, levelled, "exits")  BY <3>3, <3>8
      <4> QED BY <1>4, <1>5, <2>8, <4>1
    <3>9. CASE ~(saved # {} /\ ~m.root)
      <4>1. SetUpCore(e) = Outcome(set, done, "returns")  BY <3>3, <3>9
      <4> QED BY <1>5, <3>4, <3>6, <3>7, <4>1
    <3> QED BY <3>8, <3>9
  <2> QED BY <2>9, <2>10, <2>11
<1> QED BY <1>6, <1>7

\* The sockets leave the cores alone.
LEMMA SetUpAny ==
  ASSUME NEW e \in Environments
  PROVE  /\ LevelsKnown(e, SetUp(e).manager)
         /\ CoresInUse(e, SetUp(e).manager, SetUp(e).machine)
         /\ SetUp(e).how # "returns" => ~SetUp(e).manager.core_supported
         /\ SetUp(e).manager.core_idx = 0
<1>1. PICK m, g : /\ m = SetUpCore(e).machine /\ g = SetUpCore(e).manager
                  /\ LevelsKnown(e, g) /\ CoresInUse(e, g, m)
                  /\ SetUpCore(e).how # "returns" => ~g.core_supported
                  /\ g.core_idx = 0
  BY CoreSetUpAny
<1>2. CASE ~(e.vary_uncore_frequency_mode /\ SetUpCore(e).how = "returns")
  <2>1. SetUp(e) = SetUpCore(e)  BY <1>2 DEF SetUp, ThenCore
  <2> QED BY <1>1, <2>1
<1>3. CASE e.vary_uncore_frequency_mode /\ SetUpCore(e).how = "returns"
  <2>1. SetUp(e) = initial_uncore_frequency_setup(m, g)
    BY <1>1, <1>3 DEF SetUp, ThenCore
  <2>2. CASE 0 \notin m.uncore_tree
    <3>1. SetUp(e) = Outcome(m, g, "returns")
      BY <2>1, <2>2 DEF initial_uncore_frequency_setup, Returns
    <3> QED BY <1>1, <3>1 DEF Outcome
  <2>3. CASE 0 \in m.uncore_tree
    <3>1. PICK total, initial, levels, steps :
            SetUp(e) = Returns(m, [g EXCEPT
               !.uncore_supported = TRUE,
               !.total_sockets = total,
               !.uncore_initial = initial,
               !.uncore_levels = levels,
               !.uncore_total = steps])
      BY <2>1, <2>3, Zenon DEF initial_uncore_frequency_setup
    <3>2. PICK h : h = [g EXCEPT
               !.uncore_supported = TRUE,
               !.total_sockets = total,
               !.uncore_initial = initial,
               !.uncore_levels = levels,
               !.uncore_total = steps]
      OBVIOUS
    <3>3. IsManager(h) /\ SameCores(g, h) /\ h.core_idx = g.core_idx
      BY <1>1, <3>2 DEF LevelsKnown, IsManager, SameCores
    <3>4. SetUp(e).machine = m /\ SetUp(e).manager = h /\ SetUp(e).how = "returns"
      BY <3>1, <3>2 DEF Returns, Outcome
    <3> QED BY <1>1, <3>3, <3>4, LevelsStay
  <2> QED BY <2>2, <2>3
<1> QED BY <1>2, <1>3

\* The frequency of the attempt that comes next, and a machine that has it.
NextLevel(g) == Level(g.core_levels, g.core_idx, g.core_total)
Sped(e, g, m) ==
  NextLevel(g) # Unsupported => \A cpu \in Cpus(e.machine) : ReadSetspeed(m, cpu) = NextLevel(g)

\* A change of the frequency, of any machine: if it returns, the cores have the
\* next level.
LEMMA ChangeCoreAny ==
  ASSUME NEW e, NEW m, NEW g, LevelsKnown(e, g), CoresInUse(e, g, m),
         NEW r, r = ChangeCore(e, m, g)
  PROVE  /\ IsManager(r.manager) /\ SameCores(g, r.manager)
         /\ CoresInUse(e, g, r.machine)
         /\ r.how = "returns" /\ Varies(e, g) =>
              r.manager.core_idx = g.core_idx + 1 /\ Sped(e, g, r.machine)
<1>1. IsManager(g) /\ SameCores(g, g)  BY DEF LevelsKnown, SameCores
<1>2. CASE ~e.vary_frequency_mode \/ ~g.core_supported
  <2>1. r = Returns(m, g)
    BY <1>2 DEF ChangeCore, ThenCore, change_core_frequency, Returns, Outcome
  <2> QED BY <1>1, <1>2, <2>1 DEF Returns, Outcome, Varies
<1>3. CASE e.vary_frequency_mode /\ g.core_supported
  <2>1. PICK speeds : speeds = [cpu \in Cpus(m) |-> NextLevel(g)]  OBVIOUS
  <2>2. r = IF g.core_total = 0 /\ m.traps THEN Outcome(m, g, "dies")
            ELSE Returns(WriteSetspeeds(m, speeds), [g EXCEPT !.core_idx = @ + 1])
    BY <1>3, <2>1 DEF ChangeCore, ThenCore, change_core_frequency, Returns, Outcome, NextLevel
  <2>3. CASE g.core_total = 0 /\ m.traps
    BY <1>1, <2>2, <2>3 DEF Outcome
  <2>4. CASE ~(g.core_total = 0 /\ m.traps)
    <3>1. PICK p, h, s, u :
            /\ m = Written(e.machine, p, h, s, u)
            /\ Varies(e, g) => \A cpu \in Cpus(e.machine) : h[cpu] = "userspace"
      BY DEF CoresInUse
    <3>2. PICK t : t = [cpu \in Cpus(e.machine) |->
               IF h[cpu] = "userspace" /\ speeds[cpu] # Unsupported THEN speeds[cpu] ELSE s[cpu]]
      OBVIOUS
    <3>3. PICK n : n = WriteSetspeeds(m, speeds)  OBVIOUS
    <3>4. n = Written(e.machine, p, h, t, u)  BY <3>1, <3>2, <3>3, SpeedsWritten
    <3>5. PICK f : f = [g EXCEPT !.core_idx = g.core_idx + 1]  OBVIOUS
    <3>6. r.machine = n /\ r.manager = f  BY <2>2, <2>4, <3>3, <3>5 DEF Returns, Outcome
    <3>7. IsManager(f) /\ SameCores(g, f) /\ f.core_idx = g.core_idx + 1
      BY <1>1, <3>5 DEF IsManager, SameCores
    <3>8. CoresInUse(e, g, n)  BY <3>1, <3>4 DEF CoresInUse
    <3>9. ASSUME Varies(e, g)  PROVE Sped(e, g, n)
      <4>1. n.governor = h /\ n.setspeed = t  BY <3>4, WrittenFields
      <4>2. Cpus(m) = Cpus(e.machine)  BY <3>1, WrittenFields
      <4> QED BY <2>1, <3>1, <3>2, <3>9, <4>1, <4>2 DEF Sped, ReadSetspeed
    <3> QED BY <3>6, <3>7, <3>8, <3>9
  <2> QED BY <2>3, <2>4
<1> QED BY <1>2, <1>3

\* The sockets leave the cores alone.
LEMMA ChangeAny ==
  ASSUME NEW e, NEW m, NEW g, LevelsKnown(e, g), CoresInUse(e, g, m),
         NEW r, r = Change(e, m, g)
  PROVE  /\ IsManager(r.manager) /\ SameCores(g, r.manager)
         /\ CoresInUse(e, g, r.machine)
         /\ r.how = "returns" /\ Varies(e, g) =>
              r.manager.core_idx = g.core_idx + 1 /\ Sped(e, g, r.machine)
<1>1. PICK c : c = ChangeCore(e, m, g)  OBVIOUS
<1>2. PICK n, h : n = c.machine /\ h = c.manager  OBVIOUS
<1>3. /\ IsManager(h) /\ SameCores(g, h) /\ CoresInUse(e, g, n)
      /\ c.how = "returns" /\ Varies(e, g) => h.core_idx = g.core_idx + 1 /\ Sped(e, g, n)
  BY <1>1, <1>2, ChangeCoreAny
<1>4. CASE ~(e.vary_uncore_frequency_mode /\ c.how = "returns")
  <2>1. r = c  BY <1>1, <1>4 DEF Change, ThenCore
  <2> QED BY <1>2, <1>3, <2>1
<1>5. CASE e.vary_uncore_frequency_mode /\ c.how = "returns"
  <2>1. r = change_uncore_frequency(n, h)  BY <1>1, <1>2, <1>5 DEF Change, ThenCore
  <2>2. PICK v, i, how :
          \/ r = Outcome(n, h, how)
          \/ r = Outcome([n EXCEPT !.uncore = v], h, how)
          \/ r = Outcome([n EXCEPT !.uncore = v], [h EXCEPT !.uncore_idx = i], how)
    BY <2>1, Zenon DEF change_uncore_frequency, Returns
  <2>3. PICK p, f, s, u :
          /\ n = Written(e.machine, p, f, s, u)
          /\ Varies(e, g) => \A cpu \in Cpus(e.machine) : f[cpu] = "userspace"
    BY <1>3 DEF CoresInUse
  <2>4. PICK w : w = [n EXCEPT !.uncore = v]  OBVIOUS
  <2>5. w = Written(e.machine, p, f, s, v)  BY <2>3, <2>4, UncoreWritten
  <2>6. CoresInUse(e, g, w)  BY <2>3, <2>5 DEF CoresInUse
  <2>7. \A cpu : ReadSetspeed(w, cpu) = ReadSetspeed(n, cpu)
    BY <2>3, <2>5, WrittenFields DEF ReadSetspeed
  <2>8. Sped(e, g, n) => Sped(e, g, w)  BY <2>7 DEF Sped
  <2>9. PICK k : k = [h EXCEPT !.uncore_idx = i]  OBVIOUS
  <2>10. IsManager(k) /\ SameCores(g, k) /\ k.core_idx = h.core_idx
    BY <1>3, <2>9 DEF IsManager, SameCores
  <2>11. /\ r.machine \in {n, w} /\ r.manager \in {h, k}
    BY <2>2, <2>4, <2>9 DEF Outcome
  <2> QED BY <1>3, <1>5, <2>6, <2>8, <2>10, <2>11
<1> QED BY <1>4, <1>5

\* What cleanup_global() leaves is the machine with other contents.
LEMMA RestoreAny ==
  ASSUME NEW e, NEW m, NEW g, CoresInUse(e, g, m)
  PROVE  Cpus(Restore(e, m, g)) = Cpus(e.machine)
<1> DEFINE Fine(n) == \E p, h, s, u : n = Written(e.machine, p, h, s, u)
<1>1. Fine(m)  BY DEF CoresInUse
<1>2. ASSUME NEW n, Fine(n)
      PROVE  /\ Cpus(n) = Cpus(e.machine)
             /\ \A governors : Fine(SetGovernors(n, Cpus(n), governors))
             /\ \A speeds : Fine(WriteSetspeeds(n, speeds))
             /\ \A status : Fine(SetPstate(n, status))
             /\ \A v : Fine([n EXCEPT !.uncore = v])
  <2>1. PICK p, h, s, u : n = Written(e.machine, p, h, s, u)  BY <1>2
  <2>2. Cpus(n) = Cpus(e.machine)  BY <2>1, WrittenFields
  <2>3. \A governors : Fine(SetGovernors(n, Cpus(n), governors))
    <3> TAKE governors
    <3>1. PICK t : t = [cpu \in Cpus(e.machine) |->
            IF governors[cpu] = "userspace" => e.machine.userspace THEN governors[cpu] ELSE h[cpu]]
      OBVIOUS
    <3>2. SetGovernors(n, Cpus(n), governors) = Written(e.machine, p, t, s, u)
      BY <2>1, <3>1, GovernorsWritten
    <3> QED BY <3>2
  <2>4. \A speeds : Fine(WriteSetspeeds(n, speeds))
    <3> TAKE speeds
    <3>1. PICK t : t = [cpu \in Cpus(e.machine) |->
             IF h[cpu] = "userspace" /\ speeds[cpu] # Unsupported THEN speeds[cpu] ELSE s[cpu]]
      OBVIOUS
    <3>2. WriteSetspeeds(n, speeds) = Written(e.machine, p, h, t, u)
      BY <2>1, <3>1, SpeedsWritten
    <3> QED BY <3>2
  <2>5. \A status : Fine(SetPstate(n, status))
    <3> TAKE status
    <3>1. SetPstate(n, status) = IF p = status THEN n
            ELSE Written(e.machine, status, Defaults(e.machine, status), s, u)
      BY <2>1, PstateFacts
    <3> QED BY <2>1, <3>1
  <2>6. \A v : Fine([n EXCEPT !.uncore = v])
    <3> TAKE v
    <3>1. [n EXCEPT !.uncore = v] = Written(e.machine, p, h, s, v)  BY <2>1, UncoreWritten
    <3> QED BY <3>1
  <2> QED BY <2>2, <2>3, <2>4, <2>5, <2>6
<1> HIDE DEF Fine
<1>3. PICK n : n = RestoreCore(e, m, g)  OBVIOUS
<1>4. Fine(n)
  <2>1. PICK a, b : /\ a = SetGovernors(m, Cpus(m), g.governors)
                    /\ b = WriteSetspeeds(a, g.setspeeds)
    OBVIOUS
  <2>2. Fine(a)  BY <1>1, <1>2, <2>1
  <2>3. Fine(b)  BY <1>2, <2>1, <2>2
  <2>4. n \in {m, b, SetPstate(b, g.pstate_status)}
    BY <1>3, <2>1 DEF RestoreCore, restore_core_frequency_initial_state
  <2> QED BY <1>1, <1>2, <2>3, <2>4
<1>5. Restore(e, m, g) = n \/ \E v : Restore(e, m, g) = [n EXCEPT !.uncore = v]
  BY <1>3, Zenon DEF Restore, restore_uncore_frequency_initial_state
<1> QED BY <1>2, <1>4, <1>5

\* The index is 0 after a test, the levels stay.
LEMMA ResetAny ==
  ASSUME NEW g, IsManager(g), NEW h, h = reset_frequency_level_idx(g)
  PROVE  IsManager(h) /\ SameCores(g, h) /\ h.core_idx = 0
<1>1. PICK k : k = [g EXCEPT !.core_idx = 0]  OBVIOUS
<1>2. h = [k EXCEPT !.uncore_idx = 0]  BY <1>1 DEF reset_frequency_level_idx
<1>3. IsManager(k) /\ SameCores(g, k) /\ k.core_idx = 0  BY <1>1 DEF IsManager, SameCores
<1> QED BY <1>2, <1>3 DEF IsManager, SameCores

\* The levels that the attempts up to the first failure ran at.
RanAt(c, m, level) == c.core = [cpu \in Cpus(m) |-> level]
VariedSoFar ==
  \A k \in 1..Len(conditions) :
    k <= manager.core_total /\ (\A j \in 1..(k - 1) : log[j].state # Failed) =>
      RanAt(conditions[k], environment.machine, manager.core_levels[k])

\* The manager counts the attempts of the test, whose k-th has the k-th level.
FrequencyInv ==
  /\ environment \in Environments
  /\ Cpus(machine) = Cpus(environment.machine)
  /\ IF ready THEN LevelsKnown(environment, manager)
     ELSE /\ machine = environment.machine \/ at = "exited"
          /\ manager = NoManager \/ at = "exited"
          /\ ~manager.core_supported /\ conditions = <<>>
  /\ ready /\ at \notin Done => CoresInUse(environment, manager, machine)
  /\ ready /\ Varies(environment, manager) =>
       /\ at = "fracture" => manager.core_idx = Len(log)
       /\ at = "between" => manager.core_idx = 0
       /\ VariedSoFar

LEMMA InitFrequency == EnvInit => FrequencyInv
<1> SUFFICES ASSUME EnvInit  PROVE FrequencyInv  OBVIOUS
<1>1. /\ environment \in Environments /\ ready = FALSE /\ machine = environment.machine
      /\ manager = NoManager /\ conditions = <<>>
  BY DEF EnvInit
<1>2. NoManager.core_supported = FALSE  BY DEF NoManager
<1>3. Cpus(machine) = Cpus(environment.machine)  BY <1>1
<1> QED BY <1>1, <1>2, <1>3 DEF FrequencyInv

\* With a level, the levels are those of a range wide enough for all of them to
\* differ, the highest first.
LEMMA LevelsDiffer ==
  ASSUME NEW e \in Environments, NEW g, LevelsKnown(e, g), Varies(e, g), g.core_total >= 1
  PROVE  /\ g.core_total \in Int /\ g.core_levels \in Seq(Nat)
         /\ Len(g.core_levels) >= g.core_total
         /\ g.core_levels[1] = e.machine.range[2]
         /\ \A j, k \in 1..Len(g.core_levels) : j # k => g.core_levels[j] # g.core_levels[k]
<1>0. \A lo, hi \in Nat : /\ (hi - lo) \div 100000 \in Int
                          /\ (hi - lo) \div 100000 >= 1 => hi - lo >= 16 * 6250
  BY ONLY SMT
<1>1. PICK lo \in Nat, hi \in Nat :
        /\ lo = e.machine.range[1] /\ hi = e.machine.range[2] /\ g.core_total = Steps(lo, hi, 16)
        /\ g.core_levels = populate_frequency_levels(lo, hi, g.core_total)
  BY DEF LevelsKnown
<1>2. PICK q \in Int : /\ q = (hi - lo) \div 100000
                       /\ q >= 1 => hi - lo >= 16 * 6250
  BY <1>0, SMT
<1>3. g.core_total = IF q < 16 THEN q ELSE 16  BY <1>1, <1>2 DEF Steps
<1>4. PICK total \in Int : total = g.core_total /\ total <= 16 /\ q >= 1
  BY ONLY <1>3, q \in Int, g.core_total >= 1, SMT
<1>5. Wide(lo, hi)
  <2>1. 6250 \in Nat /\ 6250 >= 1 /\ hi - lo >= 16 * 6250  BY <1>2, <1>4, SMT
  <2> QED BY <2>1, SMT DEF Wide
<1>6. PICK L : L = g.core_levels  OBVIOUS
<1>7. L = populate_frequency_levels(lo, hi, total)  BY <1>1, <1>4, <1>6, Zenon
<1>8. Different(L, hi, total)  BY <1>4, <1>5, <1>7, PopulateFacts
<1> QED BY <1>1, <1>4, <1>6, <1>8, Zenon DEF Different

\* The level of an attempt is the one of its number.
LEMMA LevelOfAttempt ==
  ASSUME NEW e \in Environments, NEW g, LevelsKnown(e, g), Varies(e, g),
         NEW l \in Nat, g.core_idx = l, l + 1 <= g.core_total
  PROVE  NextLevel(g) = g.core_levels[l + 1] /\ NextLevel(g) # Unsupported
<1>1. g.core_total \in Int
  BY DEF LevelsKnown, Varies, Steps
<1>2. PICK total \in Int : total = g.core_total /\ total >= l + 1  BY <1>1
<1>3. PICK L \in Seq(Nat) : L = g.core_levels /\ Len(L) >= total
  BY <1>2, LevelsDiffer
<1>4. total > 0 /\ l % total = l /\ l < Len(L) /\ L[l + 1] \in Nat
  <2>1. total > 0 /\ l % total = l  BY <1>2
  <2>2. PICK n \in Nat : n = Len(L)  OBVIOUS
  <2>3. l < n /\ l + 1 \in 1..n  BY <1>2, <1>3, <2>2
  <2> QED BY <2>1, <2>2, <2>3
<1>5. NextLevel(g) = L[l + 1]
  BY <1>2, <1>3, <1>4 DEF NextLevel, Level
<1> QED BY <1>3, <1>4, <1>5 DEF Unsupported

\* Steps that run no attempt and leave the machine, or end the run.
LEMMA FrequencyKept ==
  ASSUME FrequencyInv, ready, UNCHANGED <<environment, ready, conditions, log>>,
         machine' = machine \/ (at' \in Done /\ Cpus(machine') = Cpus(machine)),
         at' \notin Done => at \notin Done,
         NEW g, g = reset_frequency_level_idx(manager),
         \/ /\ manager' = manager /\ at' \in Done \cup {at, "finish"}
         \/ /\ manager' = g /\ at' \in {"between", "finish"}
  PROVE  FrequencyInv'
<1>1. LevelsKnown(environment, manager) /\ IsManager(manager)
  BY DEF FrequencyInv, LevelsKnown
<1>2. IsManager(g) /\ SameCores(manager, g) /\ g.core_idx = 0  BY <1>1, ResetAny
<1>3. PICK h : h = manager'  OBVIOUS
<1>4. IsManager(h) /\ SameCores(manager, h)  BY <1>1, <1>2, <1>3 DEF SameCores
<1>5. /\ LevelsKnown(environment, h) /\ (Varies(environment, h) <=> Varies(environment, manager))
      /\ \A m : CoresInUse(environment, manager, m) => CoresInUse(environment, h, m)
  BY <1>1, <1>4, LevelsStay
<1>6. environment' = environment /\ ready' /\ Cpus(machine') = Cpus(environment'.machine)
      /\ environment \in Environments
  BY DEF FrequencyInv
<1>7. at' \notin Done => CoresInUse(environment', manager', machine')
  BY <1>3, <1>5 DEF FrequencyInv
<1>8. ASSUME Varies(environment, manager)
      PROVE  /\ at' = "fracture" => manager'.core_idx = Len(log')
             /\ at' = "between" => manager'.core_idx = 0
             /\ VariedSoFar'
  <2>1. /\ at = "fracture" => manager.core_idx = Len(log)
        /\ at = "between" => manager.core_idx = 0
        /\ VariedSoFar
    BY <1>8 DEF FrequencyInv
  <2>2. VariedSoFar'
    <3>1. /\ conditions' = conditions /\ log' = log /\ environment' = environment
          /\ manager'.core_total = manager.core_total
          /\ manager'.core_levels = manager.core_levels
      BY <1>3, <1>4 DEF SameCores
    <3> QED BY <2>1, <3>1 DEF VariedSoFar
  <2> QED BY <1>2, <2>1, <2>2 DEF Done
<1>9. LevelsKnown(environment', manager') /\ (Varies(environment', manager') => Varies(environment, manager))
  BY <1>3, <1>5, <1>6
<1> QED BY <1>6, <1>7, <1>8, <1>9 DEF FrequencyInv

\* The set-up.
LEMMA SetupFrequency ==
  ASSUME FrequencyInv, Setup
  PROVE  FrequencyInv'
<1>1. /\ ~ready /\ at = "between" /\ environment' = environment /\ conditions' = conditions
      /\ environment \in Environments /\ conditions = <<>> /\ ~manager.core_supported
      /\ machine = environment.machine /\ manager = NoManager
      /\ Cpus(machine) = Cpus(environment.machine)
  BY DEF Setup, FrequencyInv
<1>2. \/ at' = "exited" /\ UNCHANGED <<ready, machine, manager>>
      \/ /\ machine' = SetupFrequencies.machine
         /\ manager' = SetupFrequencies.manager
         /\ ready' = (SetupFrequencies.how = "returns")
         /\ IF ready' THEN at' = at ELSE at' = "exited"
  BY DEF Setup, Exited
<1>3. CASE at' = "exited" /\ UNCHANGED <<ready, machine, manager>>
  BY <1>1, <1>3 DEF FrequencyInv, Done
<1>4. CASE /\ machine' = SetupFrequencies.machine
           /\ manager' = SetupFrequencies.manager
           /\ ready' = (SetupFrequencies.how = "returns")
           /\ IF ready' THEN at' = at ELSE at' = "exited"
  <2>1. SetupFrequencies = SetUp(environment)
    BY <1>1 DEF SetupFrequencies, SetUp, SetUpCore
  <2>2. /\ LevelsKnown(environment, manager') /\ CoresInUse(environment, manager', machine')
        /\ ~ready' => ~manager'.core_supported
        /\ manager'.core_idx = 0
    BY <1>1, <1>4, <2>1, SetUpAny
  <2>3. Cpus(machine') = Cpus(environment.machine)
    BY <2>2, WrittenFields DEF CoresInUse
  <2>4. VariedSoFar'  BY <1>1 DEF VariedSoFar
  <2>5. ready' => at' = "between"  BY <1>1, <1>4
  <2>6. ~ready' => at' = "exited"  BY <1>4
  <2> QED BY <1>1, <2>2, <2>3, <2>4, <2>5, <2>6 DEF FrequencyInv
<1> QED BY <1>2, <1>3, <1>4

\* A fracture takes the next level, a retry keeps the one there is.
LEMMA AttemptFrequency ==
  ASSUME FrequencyInv, EInv, ready, NEW a \in Attempt, EnvFracture(a) \/ EnvRetry(a)
  PROVE  FrequencyInv'
<1>0. ConditionInv  BY DEF EInv
<1>1. /\ environment' = environment /\ ready' /\ log' = Append(log, a)
      /\ conditions' = Append(conditions, Condition(machine'))
      /\ EnvFracture(a) => at = "fracture" /\ at' \in {"retry", "fracture", "between", "finish"}
      /\ EnvRetry(a) => at = "retry" /\ at' = "retry"
  BY <1>0, AttemptShape
<1>2. environment \in Environments /\ LevelsKnown(environment, manager)
      /\ CoresInUse(environment, manager, machine)
  <2>1. at \notin Done  BY <1>1 DEF Done
  <2> QED BY <2>1 DEF FrequencyInv
<1> PICK e : e = environment  OBVIOUS
<1> PICK g : g = manager  OBVIOUS
<1>3. PICK l \in Nat : l = Len(log) /\ l = Len(conditions)
  BY <1>0 DEF ConditionInv
<1>4. /\ Len(log') = l + 1 /\ \A k \in 1..l : log'[k] = log[k]
  BY <1>0, <1>1, <1>3 DEF ConditionInv
<1>5. PICK S : conditions \in Seq(S)  BY <1>0 DEF ConditionInv
<1>6. /\ Len(conditions') = l + 1 /\ \A k \in 1..l : conditions'[k] = conditions[k]
      /\ conditions'[l + 1] = Condition(machine')
  BY <1>1, <1>3, <1>5, GrowFacts
<1>7. Condition(machine').core = [cpu \in Cpus(machine') |-> ReadSetspeed(machine', cpu)]
  BY DEF Condition
\* What each of the two does to the manager, the machine and the sequence.
<1>8. /\ IsManager(manager') /\ SameCores(g, manager') /\ CoresInUse(e, g, machine')
      /\ Varies(e, g) =>
           /\ at' = "fracture" => manager'.core_idx = l + 1
           /\ at' = "between" => manager'.core_idx = 0
           /\ (\A j \in 1..l : log[j].state # Failed) /\ l + 1 <= g.core_total =>
                \A cpu \in Cpus(e.machine) : ReadSetspeed(machine', cpu) = g.core_levels[l + 1]
  <2>1. CASE EnvFracture(a)
    <3>1. PICK r : r = Change(e, machine, g)  OBVIOUS
    <3>2. ChangeFrequencies = r  BY <3>1 DEF ChangeFrequencies, Change, ChangeCore
    <3>3. /\ r.how = "returns" /\ machine' = r.machine
          /\ at' \in {"retry", "fracture"} => manager' = r.manager
          /\ at' \notin {"retry", "fracture"} => manager' = reset_frequency_level_idx(r.manager)
      BY <2>1, <3>2 DEF EnvFracture, Out
    <3>4. /\ IsManager(r.manager) /\ SameCores(g, r.manager) /\ CoresInUse(e, g, r.machine)
          /\ Varies(e, g) => r.manager.core_idx = g.core_idx + 1 /\ Sped(e, g, r.machine)
      BY <1>2, <3>1, <3>3, ChangeAny
    <3>5. PICK h : h = reset_frequency_level_idx(r.manager)  OBVIOUS
    <3>6. IsManager(h) /\ SameCores(g, h) /\ h.core_idx = 0
      BY <3>4, <3>5, ResetAny DEF SameCores
    <3>7. Varies(e, g) => g.core_idx = l
      BY <1>1, <1>3, <2>1 DEF FrequencyInv
    <3>8. ASSUME Varies(e, g), l + 1 <= g.core_total
          PROVE  \A cpu \in Cpus(e.machine) : ReadSetspeed(machine', cpu) = g.core_levels[l + 1]
      <4>1. NextLevel(g) = g.core_levels[l + 1] /\ NextLevel(g) # Unsupported
        BY <1>2, <3>7, <3>8, LevelOfAttempt
      <4> QED BY <3>3, <3>4, <3>8, <4>1 DEF Sped
    <3> QED BY <3>3, <3>4, <3>5, <3>6, <3>7, <3>8
  <2>2. CASE EnvRetry(a)
    <3>1. machine' = machine /\ manager' = manager
      BY <2>2 DEF EnvRetry, RetryFrequencies, Returns, Outcome
    <3>2. at' = "retry" /\ at = "retry"  BY <1>1, <2>2
    <3>3. \E n \in 1..l : log[n].state = Failed
      BY <1>0, <1>3, <3>2 DEF ConditionInv, HasFailed, IsFirst
    <3>4. IsManager(g) /\ SameCores(g, g)  BY <1>2 DEF LevelsKnown, SameCores
    <3> QED BY <1>2, <3>1, <3>2, <3>3, <3>4
  <2> QED BY <2>1, <2>2
<1>9. Cpus(machine') = Cpus(e.machine)  BY <1>8, WrittenFields DEF CoresInUse
<1>10. /\ LevelsKnown(e, manager') /\ (Varies(e, manager') <=> Varies(e, g))
       /\ CoresInUse(e, manager', machine')
  BY <1>2, <1>8, LevelsStay
<1>11. ASSUME Varies(e, g)  PROVE VariedSoFar'
  <2> SUFFICES ASSUME NEW k \in 1..(l + 1), k <= g.core_total,
                      \A j \in 1..(k - 1) : log'[j].state # Failed
               PROVE  RanAt(conditions'[k], e.machine, g.core_levels[k])
    <3>1. /\ manager'.core_total = g.core_total /\ manager'.core_levels = g.core_levels
          /\ environment' = e /\ Len(conditions') = l + 1
      BY <1>1, <1>6, <1>8 DEF SameCores
    <3> QED BY <3>1 DEF VariedSoFar
  <2>1. CASE k = l + 1
    <3>1. \A j \in 1..l : log[j].state # Failed  BY <1>4, <2>1
    <3> QED BY <1>6, <1>7, <1>8, <1>9, <1>11, <2>1, <3>1 DEF RanAt
  <2>2. CASE k # l + 1
    <3>1. k \in 1..l /\ \A j \in 1..(k - 1) : j \in 1..l  BY <2>2
    <3>2. \A j \in 1..(k - 1) : log[j].state # Failed  BY <1>4, <3>1
    <3>3. RanAt(conditions[k], e.machine, g.core_levels[k])
      BY <1>3, <1>11, <3>1, <3>2 DEF FrequencyInv, VariedSoFar
    <3> QED BY <1>6, <3>1, <3>3
  <2> QED BY <2>1, <2>2
<1>12. at' \notin Done  BY <1>1 DEF Done
<1> QED BY <1>1, <1>2, <1>4, <1>8, <1>9, <1>10, <1>11, <1>12 DEF FrequencyInv

LEMMA NextFrequency ==
  ASSUME FrequencyInv, EInv, [EnvNext]_evars
  PROVE  FrequencyInv'
<1>0. PICK g : g = reset_frequency_level_idx(manager)  OBVIOUS
<1>1. CASE Setup
  BY <1>1, SetupFrequency
<1>2. CASE ready /\ EnvStartTest
  <2>1. /\ UNCHANGED <<environment, ready, machine, manager>> /\ at = "between"
        /\ at' = "fracture" /\ log' = <<>> /\ conditions' = <<>>
    BY <1>2 DEF EnvStartTest, StartTest
  <2>2. VariedSoFar'  BY <2>1 DEF VariedSoFar
  <2>3. /\ environment' = environment /\ ready' = ready /\ machine' = machine
        /\ manager' = manager /\ Len(log') = 0
    BY <2>1
  <2> QED BY <1>2, <2>1, <2>2, <2>3 DEF FrequencyInv, Done
<1>3. CASE ready /\ EnvAnalyzeAndReturn
  <2>1. /\ UNCHANGED <<environment, ready, machine, conditions, log>> /\ at = "retry"
        /\ at' \in {"finish", "between"} /\ manager' = g
    BY <1>0, <1>3 DEF EnvAnalyzeAndReturn, AnalyzeAndReturn, ReturnToMain
  <2>2. at \notin Done  BY <2>1 DEF Done
  <2> QED BY <1>0, <1>3, <2>1, <2>2, FrequencyKept
<1>4. CASE ready /\ \E a \in Attempt : EnvFracture(a) \/ EnvRetry(a)
  BY <1>4, AttemptFrequency
<1>5. CASE ready /\ (FrequencyFails \/ EnvFinish \/ EnvExitInvalid \/ KilledBySignal)
  <2>1. /\ UNCHANGED <<environment, ready, conditions, log, manager>>
        /\ at \in {"finish", "fracture", "retry"} /\ at' \in Done
        /\ machine' = Restored \/ machine' = ChangeFrequencies.machine
    BY <1>5 DEF FrequencyFails, EnvFinish, Finish, EnvExitInvalid, ExitInvalid, KilledBySignal,
                Exited, test, Done
  <2>2. at \notin Done  BY <2>1 DEF Done
  <2>3. /\ LevelsKnown(environment, manager) /\ CoresInUse(environment, manager, machine)
        /\ Cpus(machine) = Cpus(environment.machine)
    BY <1>5, <2>2 DEF FrequencyInv
  <2>4. Cpus(Restored) = Cpus(environment.machine)
    <3>1. Restored = Restore(environment, machine, manager)
      BY DEF Restored, Restore, RestoreCore
    <3> QED BY <2>3, <3>1, RestoreAny
  <2>5. Cpus(ChangeFrequencies.machine) = Cpus(environment.machine)
    <3>1. PICK r : r = Change(environment, machine, manager)  OBVIOUS
    <3>2. ChangeFrequencies = r  BY <3>1 DEF ChangeFrequencies, Change, ChangeCore
    <3>3. CoresInUse(environment, manager, r.machine)  BY <2>3, <3>1, ChangeAny
    <3> QED BY <3>2, <3>3, WrittenFields DEF CoresInUse
  <2> QED BY <1>0, <1>5, <2>1, <2>2, <2>3, <2>4, <2>5, FrequencyKept
<1>6. CASE /\ ready /\ UNCHANGED surroundings
           /\ (DurationElapses \/ StopBetweenTests)
  <2>1. /\ UNCHANGED <<environment, ready, machine, manager, conditions, log>>
        /\ at \in {"fracture", "between"} /\ at' \in {at, "finish"}
    BY <1>6 DEF DurationElapses, StopBetweenTests, surroundings, test
  <2>2. at \notin Done  BY <2>1 DEF Done
  <2> QED BY <1>0, <1>6, <2>1, <2>2, FrequencyKept
<1>7. CASE UNCHANGED evars
  <2>1. /\ environment' = environment /\ ready' = ready /\ machine' = machine
        /\ manager' = manager /\ conditions' = conditions /\ log' = log /\ at' = at
    BY <1>7 DEF evars, vars, surroundings, test
  <2>2. VariedSoFar' <=> VariedSoFar  BY <2>1 DEF VariedSoFar
  <2> QED BY <2>1, <2>2 DEF FrequencyInv
<1>8. (Terminated /\ UNCHANGED surroundings) => UNCHANGED evars
  BY DEF Terminated, evars
<1> QED
  BY <1>1, <1>2, <1>3, <1>4, <1>5, <1>6, <1>7, <1>8 DEF EnvNext, EnvProgram, Clock

\* The attempts that the property speaks of have each the level of its number.
LEMMA LevelsVary ==
  ASSUME FrequencyInv, EInv
  PROVE  FrequenciesVary
<1>1. SUFFICES ASSUME Varies(environment, manager)  PROVE FrequenciesVary
  BY DEF FrequenciesVary, Varies
<1>2. /\ ready /\ environment \in Environments /\ Cpus(machine) = Cpus(environment.machine)
      /\ LevelsKnown(environment, manager) /\ VariedSoFar
  BY <1>1 DEF FrequencyInv, Varies
<1>3. ConditionInv  BY DEF EInv
<1>4. PICK l \in Nat : l = Len(log) /\ l = Len(conditions)  BY <1>3 DEF ConditionInv
<1>5. PICK n \in 0..l :
        /\ n = IF HasFailed THEN FirstFailure ELSE Len(conditions)
        /\ \A j \in 1..(n - 1) : log[j].state # Failed
  <2>1. CASE HasFailed
    <3>1. PICK k \in 1..l : IsFirst(k)  BY <1>3, <1>4, <2>1 DEF ConditionInv
    <3>2. FirstFailure = k  BY <1>3, <1>4, <3>1, FirstIsOne
    <3>3. \A j \in 1..(k - 1) : log[j].state # Failed  BY <3>1 DEF IsFirst
    <3> QED BY <2>1, <3>1, <3>2, <3>3
  <2>2. CASE ~HasFailed
    <3>1. \A j \in 1..l : log[j].state # Failed
      BY <1>3, <1>4, <2>2 DEF HasFailed, ConditionInv
    <3> QED BY <1>4, <2>2, <3>1
  <2> QED BY <2>1, <2>2
<1> DEFINE varied == {k \in 1..n : k <= manager.core_total}
<1>6. ASSUME NEW cpu \in Cpus(machine), NEW k \in varied
      PROVE  conditions[k].core[cpu] = manager.core_levels[k]
  <2>1. k \in 1..Len(conditions) /\ k <= manager.core_total  BY <1>4
  <2>2. \A j \in 1..(k - 1) : j \in 1..(n - 1)  OBVIOUS
  <2>3. RanAt(conditions[k], environment.machine, manager.core_levels[k])
    BY <1>2, <1>5, <2>1, <2>2 DEF VariedSoFar
  <2> QED BY <1>2, <2>3 DEF RanAt
<1>7. ASSUME NEW k \in varied
      PROVE  /\ manager.core_levels[1] = environment.machine.range[2]
             /\ k \in 1..Len(manager.core_levels)
             /\ \A i, j \in 1..Len(manager.core_levels) :
                  i # j => manager.core_levels[i] # manager.core_levels[j]
  <2>1. manager.core_total \in Int  BY <1>1, <1>2 DEF LevelsKnown, Steps
  <2>2. k \in Int /\ k >= 1 /\ k <= manager.core_total  OBVIOUS
  <2>3. manager.core_total >= 1  BY ONLY <2>1, <2>2
  <2>4. /\ manager.core_levels \in Seq(Nat) /\ Len(manager.core_levels) >= manager.core_total
        /\ manager.core_levels[1] = environment.machine.range[2]
        /\ \A i, j \in 1..Len(manager.core_levels) :
             i # j => manager.core_levels[i] # manager.core_levels[j]
    BY <1>1, <1>2, <2>3, LevelsDiffer
  <2>5. Len(manager.core_levels) \in Nat  BY <2>4
  <2> QED BY <2>1, <2>2, <2>4, <2>5
<1>8. ASSUME NEW cpu \in Cpus(machine)
      PROVE  /\ 1 \in varied => conditions[1].core[cpu] = environment.machine.range[2]
             /\ \A j, k \in varied : j # k => conditions[j].core[cpu] # conditions[k].core[cpu]
  <2> HIDE DEF varied
  <2> QED BY <1>6, <1>7
<1> QED BY <1>5, <1>8 DEF FrequenciesVary

\* Up to the first failure, the attempts at a test run each at a frequency of its
\* own, the highest first, whatever the range of the machine and its number of
\* levels, and from test to test.
THEOREM FrequenciesVaryAlways == EnvSpec => []FrequenciesVary
<1>1. EInv /\ [EnvNext]_evars => EInv'  BY NextEInv
<1>2. FrequencyInv /\ EInv /\ [EnvNext]_evars => FrequencyInv'  BY NextFrequency
<1>3. FrequencyInv /\ EInv => FrequenciesVary  BY LevelsVary
<1> QED BY <1>1, <1>2, <1>3, InitEInv, InitFrequency, PTL DEF EnvSpec

\* What a seed in a report and the fractures of a test are for: a failure's
\* retries and another run with its seed repeat it, the fractures vary.
THEOREM AttemptsRepeatAndVaryAlways == EnvSpec => []AttemptsRepeatAndVary
<1>1. RetriesRepeat /\ SeedsAreFresh /\ FrequenciesVary => AttemptsRepeatAndVary
  BY DEF AttemptsRepeatAndVary
<1> QED
  BY <1>1, RetriesAreRepetitions, FracturesUseFreshSeeds, FrequenciesVaryAlways, PTL
=============================================================================
