---------------------------- MODULE PrintResults ----------------------------
(***************************************************************************)
(* From the ends of the children and the per-thread data in shared memory  *)
(* to the result of one run of a test: logging_print_results() (its        *)
(* AbstractLogger) and the end of run_one_test_once().                     *)
(***************************************************************************)
EXTENDS TestResults

\* What fail_time says of a thread: zero, negative or positive.
Flag == {"clean", "skipped", "failed"}

MarkFailed(f)  == "failed"
MarkSkipped(f) == IF f = "failed" THEN "failed" ELSE "skipped"

\* find_most_serious_result()
MostSerious(results) == CHOOSE r \in results : \A q \in results : q <= r

Serious(r) == r \notin {Skipped, Passed}

\* pc == sc
AllSkipped(passing, thread_state) == \A t \in passing : thread_state[t] = "skipped"

\* Faulty: only the children's own results count.
ResultOfChildren(result, main, flag, thread_state) == MostSerious({result[s] : s \in DOMAIN result})

\* AbstractLogger::testResult: result by slice, main by slice, flag and
\* thread_state by test thread.
PrintedResult(result, main, flag, thread_state) ==
  LET worst   == MostSerious({result[s] : s \in DOMAIN result})
      failing == {t \in DOMAIN flag : flag[t] = "failed"}
      passing == DOMAIN flag \ failing
  IN IF Serious(worst) THEN worst
     ELSE IF failing # {} \/ \E s \in DOMAIN main : main[s] = "failed" THEN Failed
     ELSE IF AllSkipped(passing, thread_state) THEN Skipped
     ELSE worst

\* The TimedOut case of AbstractLogger logs an error for every stuck thread.
StuckAreMarked(result, flag, thread_state) ==
  IF MostSerious({result[s] : s \in DOMAIN result}) = TimedOut
  THEN [t \in DOMAIN flag |-> IF thread_state[t] = "running" THEN MarkFailed(flag[t]) ELSE flag[t]]
  ELSE flag

\* run_one_test_once(): these results end the program unless
\* --ignore-os-errors is in effect, which turns them into a skip.
OsError == {OperatingSystemError, TimedOut, OutOfMemory}

EndsProgram(r, ignore_os_errors)   == r \in OsError /\ ~ignore_os_errors
RunOnceResult(r, ignore_os_errors) ==
  IF r \in OsError /\ ignore_os_errors THEN Skipped ELSE r
=============================================================================
