---------------------------- MODULE TestAttempt ----------------------------
(***************************************************************************)
(* One run of a test from the inside: in each child run_one_test_inner()   *)
(* calls test_init, runs thread_runner() in every test thread and calls    *)
(* test_cleanup; what happened is left in shared memory and in the exit    *)
(* code, from which run_one_test_once() in the parent computes the result. *)
(***************************************************************************)
EXTENDS PrintResults

CONSTANTS
  Slice,            \* the children
  Thread,           \* all test threads
  thread_range,     \* [Slice -> SUBSET Thread]: who runs which
  Stale,            \* flags an earlier run can have left behind
  ignore_os_errors

ASSUME RangeAssumption ==
  /\ Slice # {}
  /\ thread_range \in [Slice -> (SUBSET Thread) \ {{}}]
  /\ \A t \in Thread : \E s \in Slice :
       t \in thread_range[s] /\ \A r \in Slice \ {s} : t \notin thread_range[r]
ASSUME StaleAssumption == Stale \subseteq Flag
ASSUME IgnoreAssumption == ignore_os_errors \in BOOLEAN

VARIABLES
  at,           \* [Slice -> Stage]: where run_one_test_inner() is
  result,       \* [Slice -> TestResult \cup {Unset}]: ChildExitStatus::result
  main,         \* [Slice -> Flag]: fail_time of main_thread_data(s)
  flag,         \* [Thread -> Flag]: fail_time of test_thread_data(t)
  thread_state, \* [Thread -> ThreadState]
  pc,           \* [Thread -> ...]: where thread_runner() is
  callbacks,    \* [Thread -> Nat]: calls of the test's failure callback
  outcome,      \* "running", "returned" or "exited": run_one_test_once()
  verdict       \* what it returned

child  == <<at, result, main>>
thread == <<flag, thread_state, pc, callbacks>>
once   == <<outcome, verdict>>
vars   == <<child, thread, once>>

Stage       == {"start", "init", "threads", "cleanup", "ended"}
ThreadState == {"not_started", "running", "succeeded", "failed", "skipped"}
ThreadPc    == {"idle", "run", "mark", "done"}

SliceOf(t) == CHOOSE s \in Slice : t \in thread_range[s]
-----------------------------------------------------------------------------
\* The shared memory still holds what an earlier run of the test left there.
Init ==
  /\ at = [s \in Slice |-> "start"]
  /\ result = [s \in Slice |-> Unset]
  /\ main = [s \in Slice |-> "clean"]
  /\ flag \in [Thread -> Stale]
  /\ thread_state = [t \in Thread |-> "not_started"]
  /\ pc = [t \in Thread |-> "idle"]
  /\ callbacks = [t \in Thread |-> 0]
  /\ outcome = "running"
  /\ verdict = Unset

Enter(s, stage) == at' = [at EXCEPT ![s] = stage]

\* The child ends by itself with test_result_to_exit_code(r).
ExitWith(s, r) ==
  /\ Enter(s, "ended")
  /\ result' = [result EXCEPT ![s] = r]

-----------------------------------------------------------------------------
\* init_per_thread_data(), for the threads of this child only.
StartChild(s) ==
  /\ at[s] = "start"
  /\ Enter(s, "init")
  /\ main' = [main EXCEPT ![s] = "clean"]
  /\ flag' = [t \in Thread |-> IF t \in thread_range[s] THEN "clean" ELSE flag[t]]
  /\ thread_state' =
       [t \in Thread |-> IF t \in thread_range[s] THEN "not_started" ELSE thread_state[t]]
  /\ UNCHANGED <<result, pc, callbacks, once>>

\* Return values of test functions, as far as the framework tells them apart.
Ret == {"success", "failure", "skip", "oserror"}

\* The flag of the main thread after a test function that may have called
\* log_error() or log_skip().
LoggedBy(f) == {f, MarkFailed(f), MarkSkipped(f)}

\* test_init() passed (and prepare_test_for_device(), whose skip looks like one of
\* test_init()): run_threads().
InitPasses(s) ==
  /\ main[s] = "clean"
  /\ Enter(s, "threads")
  /\ UNCHANGED <<result, main>>

InitFails(s, ret, f) ==
  /\ ret = "failure" \/ (ret = "success" /\ f = "failed")
  /\ main' = [main EXCEPT ![s] = MarkFailed(f)]
  /\ ExitWith(s, Failed)

InitSkips(s, ret, f) ==
  /\ ret \in {"skip", "oserror"} \/ (ret = "success" /\ f = "skipped")
  /\ main' = [main EXCEPT ![s] = IF ret = "oserror" THEN MarkSkipped(f) ELSE f]
  /\ ExitWith(s, Skipped)

\* The end of test_init() with its return value and the main thread's flag.
TestInitReturns(s, ret, f) ==
  /\ at[s] = "init"
  /\ \/ ret = "success" /\ f = "clean" /\ InitPasses(s)
     \/ InitFails(s, ret, f)
     \/ InitSkips(s, ret, f)
  /\ UNCHANGED <<thread, once>>

TestInit(s) == \E ret \in Ret, f \in LoggedBy(main[s]) : TestInitReturns(s, ret, f)

-----------------------------------------------------------------------------
Running(t) == at[SliceOf(t)] = "threads" /\ pc[t] = "run"

\* thread_runner(), until test_run() is called.
StartThread(t) ==
  /\ at[SliceOf(t)] = "threads"
  /\ pc[t] = "idle"
  /\ pc' = [pc EXCEPT ![t] = "run"]
  /\ thread_state' = [thread_state EXCEPT ![t] = "running"]
  /\ UNCHANGED <<child, flag, callbacks, once>>

\* logging_run_callback(): at most once.
RunCallback(t) ==
  callbacks' = [callbacks EXCEPT ![t] = IF @ = 0 THEN 1 ELSE @]

\* log_error(): marks the thread, logs, runs the callback; the thread goes on.
LogError(t) ==
  /\ Running(t)
  /\ flag' = [flag EXCEPT ![t] = MarkFailed(@)]
  /\ RunCallback(t)
  /\ UNCHANGED <<child, thread_state, pc, once>>

LogSkip(t) ==
  /\ Running(t)
  /\ flag' = [flag EXCEPT ![t] = MarkSkipped(@)]
  /\ UNCHANGED <<child, thread_state, pc, callbacks, once>>

\* The state cleanup() gives a thread with this flag and return value.
NewState(f, ret) ==
  CASE f = "failed"                                     -> "failed"
    [] f = "skipped"                                    -> "skipped"
    [] f = "clean" /\ ret \in {"skip", "oserror"}       -> "skipped"
    [] f = "clean" /\ ret = "success"                   -> "succeeded"
    [] f = "clean" /\ ret = "failure"                   -> "failed"

\* test_run() returns, or report_fail() marks the thread failed, cancels it and
\* unwinds with ret = EXIT_FAILURE: cleanup() stores the new state ...
Return(t, ret, f) ==
  /\ Running(t)
  /\ flag' = [flag EXCEPT ![t] = f]
  /\ thread_state' = [thread_state EXCEPT ![t] = NewState(f, ret)]
  /\ pc' = [pc EXCEPT ![t] = "mark"]
  /\ UNCHANGED <<child, once>>

TestRun(t)    == UNCHANGED callbacks /\ \E ret \in Ret : Return(t, ret, flag[t])
ReportFail(t) == RunCallback(t) /\ Return(t, "failure", MarkFailed(flag[t]))

\* ... and then the flag that goes with it.
EndThread(t) ==
  /\ at[SliceOf(t)] = "threads"
  /\ pc[t] = "mark"
  /\ pc' = [pc EXCEPT ![t] = "done"]
  /\ CASE thread_state[t] = "failed"    -> /\ flag' = [flag EXCEPT ![t] = MarkFailed(@)]
                                           /\ RunCallback(t)
       [] thread_state[t] = "skipped"   -> /\ flag' = [flag EXCEPT ![t] = MarkSkipped(@)]
                                           /\ UNCHANGED callbacks
       [] thread_state[t] = "succeeded" -> UNCHANGED <<flag, callbacks>>
  /\ UNCHANGED <<child, thread_state, once>>

JoinThreads(s) ==
  /\ at[s] = "threads"
  /\ \A t \in thread_range[s] : pc[t] = "done"
  /\ Enter(s, "cleanup")
  /\ UNCHANGED <<result, main, thread, once>>

-----------------------------------------------------------------------------
\* test_cleanup(), if the test has one: a failure or a skip of its own decides
\* the exit code, the threads do not.
TestCleanupReturns(s, ret, f) ==
  /\ at[s] = "cleanup"
  /\ \/ /\ ret = "failure" \/ f = "failed"
        /\ main' = [main EXCEPT ![s] = f]
        /\ ExitWith(s, Failed)
     \/ /\ ret # "failure" /\ f # "failed"
        /\ ret \in {"skip", "oserror"} \/ f = "skipped"
        /\ main' = [main EXCEPT ![s] = MarkSkipped(f)]
        /\ ExitWith(s, Skipped)
     \/ /\ ret = "success" /\ f = "clean"
        /\ UNCHANGED main
        /\ ExitWith(s, Passed)
  /\ UNCHANGED <<thread, once>>

TestCleanup(s) == \E ret \in Ret, f \in LoggedBy(main[s]) : TestCleanupReturns(s, ret, f)

\* The child ends otherwise: it crashes, is killed, cannot be started or, for
\* the parent, times out, which terminate_children() logs as an error of its
\* main thread.
Deaths == {Killed, CoreDumped, OperatingSystemError, OutOfMemory, TimedOut}

Die(s, r) ==
  /\ at[s] # "ended"
  /\ ExitWith(s, r)
  /\ main' = IF r = TimedOut THEN [main EXCEPT ![s] = MarkFailed(@)] ELSE main
  /\ UNCHANGED <<thread, once>>

\* A crash in test_run(), seen by child_crash_handler().
Crash(t) ==
  /\ Running(t)
  /\ flag' = [flag EXCEPT ![t] = MarkFailed(@)]
  /\ ExitWith(SliceOf(t), CoreDumped)
  /\ UNCHANGED <<main, thread_state, pc, callbacks, once>>

\* terminate_with_ignored_crash(): with --ignore-mce-errors, a machine check in
\* test_run() makes the whole child a skip.
IgnoredCrash(t) ==
  /\ Running(t)
  /\ main' = [main EXCEPT ![SliceOf(t)] = MarkSkipped(@)]
  /\ thread_state' = [thread_state EXCEPT ![t] = "skipped"]
  /\ ExitWith(SliceOf(t), Skipped)
  /\ UNCHANGED <<flag, pc, callbacks, once>>

-----------------------------------------------------------------------------
\* run_one_test_once(), once all children have ended.
PrintAndReturn ==
  /\ outcome = "running"
  /\ \A s \in Slice : at[s] = "ended"
  /\ LET printed == PrintedResult(result, main, flag, thread_state)
     IN /\ outcome' = IF EndsProgram(printed, ignore_os_errors) THEN "exited" ELSE "returned"
        /\ verdict' = RunOnceResult(printed, ignore_os_errors)
  /\ flag' = StuckAreMarked(result, flag, thread_state)
  /\ UNCHANGED <<child, thread_state, pc, callbacks>>

Finished == outcome # "running" /\ UNCHANGED vars

Next ==
  \/ \E s \in Slice : StartChild(s) \/ TestInit(s) \/ JoinThreads(s) \/ TestCleanup(s)
  \/ \E s \in Slice, r \in Deaths : Die(s, r)
  \/ \E t \in Thread : \/ StartThread(t) \/ LogError(t) \/ LogSkip(t)
                       \/ TestRun(t) \/ ReportFail(t) \/ EndThread(t) \/ Crash(t) \/ IgnoredCrash(t)
  \/ PrintAndReturn
  \/ Finished

Spec == Init /\ [][Next]_vars

-----------------------------------------------------------------------------
(***************************************************************************)
(* Properties.                                                             *)
(***************************************************************************)
Returned == outcome = "returned"

\* The variables have their types.
TypeOK ==
  /\ at \in [Slice -> Stage]
  /\ result \in [Slice -> TestResult \cup {Unset}]
  /\ main \in [Slice -> Flag]
  /\ flag \in [Thread -> Flag]
  /\ thread_state \in [Thread -> ThreadState]
  /\ pc \in [Thread -> ThreadPc]
  /\ callbacks \in [Thread -> 0..1]
  /\ outcome \in {"running", "returned", "exited"}
  /\ verdict \in TestResult \cup {Unset}

\* No skip, return value, init or cleanup of anybody can hide a thread that
\* reported a failure, although the child's exit code does not tell it: unless
\* there was an operating system error, the run is not passed and not skipped.
ThreadFailureIsSeen ==
  Returned /\ (\A s \in Slice : result[s] \notin OsError)
           /\ (\E t \in Thread : pc[t] = "done" /\ flag[t] = "failed")
    => verdict \notin {Passed, Skipped}

\* And nothing else makes a run fail: somebody reported a failure in this run or
\* a child did not end properly.  What an earlier run left behind has no say.
FailureHasACause ==
  Returned /\ verdict = Failed =>
    \/ \E s \in Slice : main[s] = "failed" \/ result[s] = Failed
    \/ \E t \in Thread : pc[t] # "idle" /\ flag[t] = "failed"

\* install_failure_callback(): the callback has run in the threads that failed,
\* whatever made them fail and however often, and in no other.
CallbackOfEveryFailure ==
  \A t \in Thread : pc[t] = "done" =>
    (callbacks[t] = 1 <=> flag[t] = "failed")

\* A thread that has failed stays failed for the rest of the run: neither a
\* later skip nor the end of the thread clears the mark.
FailuresStick ==
  [][\A t \in Thread : flag[t] = "failed" /\ pc[t] # "idle" => flag'[t] = "failed"]_vars
=============================================================================
