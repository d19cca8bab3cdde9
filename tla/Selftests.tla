----------------------------- MODULE Selftests -----------------------------
(***************************************************************************)
(* The self tests of the framework, selftest.cpp, run one at a time through *)
(* TestAttempt: a self test fixes what test functions return, log and do,   *)
(* and the suite src/bats/sanity-check says how its run has to end.  Here   *)
(* are also preinit_tests(), the reasons not to start children at all and   *)
(* the deadline that ends a frozen test.                                    *)
(***************************************************************************)
EXTENDS TestAttempt, Sequences

CONSTANTS
  thread_num,   \* [Thread -> Nat]: the number of a thread in its child
  package_id,   \* [Slice -> Nat]: the package of the devices of a child
  MaxTests      \* bound: tests run after the first

ASSUME NumbersAssumption ==
  /\ thread_num \in [Thread -> Nat]
  \* The threads of a child are numbered from 0: it has a second one, or only one.
  /\ \A s \in Slice : \E t \in thread_range[s] : thread_num[t] = 1 \/ thread_range[s] = {t}
  /\ package_id \in [Slice -> Nat]
  /\ MaxTests \in Nat

VARIABLES
  test,         \* the self test that is run: that of an entry of SelfTests
  behaviour,    \* [Thread -> Behaviour]: what the thread's test_run() does
  logged,       \* [Thread -> Nat]: how many messages of it have been logged
  printed,      \* the result that logging_print_results() prints
  tests_left    \* how many tests may follow

script   == <<behaviour, logged>>
selftest == <<test, script, printed, tests_left>>
svars    == <<vars, selftest>>
-----------------------------------------------------------------------------
(***************************************************************************)
(* What a test function does: the marks of its log_error() and log_skip()  *)
(* calls, in order, and how it ends.                                       *)
(***************************************************************************)
End       == Ret \cup {"report_fail", "crash", "sigkill", "exit", "freeze"}
Behaviour == [log : Seq({"error", "skip"}), end : End]

Logs(log, end) == [log |-> log, end |-> end]
Does(end)      == Logs(<<>>, end)
Passes         == Does("success")

Logged(log)    == {log[i] : i \in DOMAIN log}
MarkedBy(f, b) ==
  IF "error" \in Logged(b.log) THEN MarkFailed(f)
  ELSE IF "skip" \in Logged(b.log) THEN MarkSkipped(f) ELSE f

\* The functions of selftest.cpp, as far as the framework tells them apart.
selftest_pass       == Passes   \* prints
selftest_timedpass  == Passes   \* loops until test_time_condition() is false
selftest_preinit    == Passes   \* looks at the effects of the preinit function
selftest_logs       == Passes   \* log_debug(), log_info(), log_warning(), log_yaml()
selftest_reschedule == Passes   \* every thread calls reschedule(), in turn
selftest_cxxthrowcatch == Passes

selftest_skip_init             == Does("skip")
selftest_log_skip_init         == Logs(<<"skip">>, "success")
selftest_skip_cleanup          == Does("skip")
selftest_skipmsg_cleanup       == {Logs(<<"skip">>, "success"), Logs(<<"skip">>, "skip")}
selftest_errno_cleanup         == Does("oserror")
selftest_errormsg_cleanup      == Logs(<<"error">>, "success")
selftest_log_skip_run          == Logs(<<"skip">>, "success")
selftest_log_skip_even         == Logs(<<"skip">>, "skip")
selftest_log_skip_newline_run  == Logs(<<"skip">>, "failure")
selftest_unreachable_run       == Logs(<<"error">>, "crash")

selftest_noreturn_run          == Does("freeze")
selftest_fail_run              == Does("failure")
selftest_failinit_and_logskip  == Logs(<<"skip">>, "failure")
selftest_error_and_skip_init   == {Logs(<<"error", "skip">>, "success"),
                                   Logs(<<"error", "skip">>, "skip"),
                                   Logs(<<"skip", "error">>, "success")}
selftest_logerror_run          == Logs(<<"error", "error">>, "success")
selftest_reportfail_run        == Does("report_fail")
memcmp_or_fail                 == Does("report_fail")
selftest_randomfail_run        == {Passes, Does("failure")}
selftest_50pct_freeze_fail_run == {Does("freeze"), Does("failure")}
selftest_oserror_run           == Does("exit")
EX_CONFIG                      == 78
cause_sigsegv                  == Does("crash")  \* and the other functions that raise
selftest_cxxthrow_run          == Does("crash")  \* a signal, or abort()
selftest_malloc_fail           == Does("crash")
raise_sigkill                  == Does("sigkill")

\* In selftest_crash_run() the second thread does it, or the only one.
CrashRun(b) ==
  [t \in Thread |-> {IF thread_num[t] = 1 \/ thread_range[SliceOf(t)] = {t} THEN b ELSE Passes}]

OnSockets(number, b) == [s \in Slice |-> {IF package_id[s] = number THEN b ELSE Passes}]
RunOnSockets(number, b) ==
  [t \in Thread |-> {IF package_id[SliceOf(t)] = number THEN b ELSE Passes}]
OnePackage(number) == \A s \in Slice : package_id[s] = number
HasPackage(number) == \E s \in Slice : package_id[s] = number

-----------------------------------------------------------------------------
(***************************************************************************)
(* The table of self tests.  A test passes in all respects except those    *)
(* given; "expect" is what the bats suite accepts as its result.           *)
(***************************************************************************)
EachChild(b)  == [s \in Slice |-> {b}]
EachThread(b) == [t \in Thread |-> {b}]

Plain ==
  [gate        |-> "open",            \* minimum_cpu and quality_level
   preinit     |-> "none",            \* what test_preinit returns
   group_skips |-> FALSE,             \* some group's group_init replaces test_init
   in_parent   |-> FALSE,             \* test_init_in_parent
   init        |-> EachChild(Passes),
   run         |-> EachThread(Passes),
   cleanup     |-> EachChild(Passes),
   quit        |-> [code |-> "dumped", status |-> SIGQUIT], \* how SIGQUIT ends a child
   expect      |-> {Passed}]

\* The entries of the array that have the same effect.
Entries(ids, record) == {[id |-> id, test |-> record] : id \in ids}

PassTests ==
       Entries({"selftest_pass", "selftest_timedpass", "selftest_timedpass_fork"},
        [Plain EXCEPT !.run = EachThread(selftest_timedpass)])
  \cup Entries({"selftest_pass_beta"},
        [Plain EXCEPT !.gate = "missing", !.run = EachThread(selftest_pass), !.expect = {Skipped}])
  \cup Entries({"selftest_preinit"},
        [Plain EXCEPT !.preinit = "success", !.init = EachChild(selftest_preinit)])

LogTests ==
       Entries({"selftest_logs", "selftest_logdata", "selftest_log_yaml"},
        [Plain EXCEPT !.init = EachChild(selftest_logs), !.run = EachThread(selftest_logs)])
  \cup Entries({"selftest_logs_reschedule"}, [Plain EXCEPT !.run = EachThread(selftest_reschedule)])
  \cup Entries({"selftest_cxxthrowcatch"}, [Plain EXCEPT !.run = EachThread(selftest_cxxthrowcatch)])

\* Their test_run() must not be called: it would freeze or fail.
Skips(record) == [record EXCEPT !.expect = {Skipped}, !.run = EachThread(selftest_noreturn_run)]

SkipTests ==
       Entries({"selftest_skip_minimum_cpu"},
        [Skips(Plain) EXCEPT !.gate = "missing", !.init = EachChild(selftest_fail_run),
                             !.run = EachThread(selftest_fail_run)])
  \cup Entries({"selftest_skip"}, [Skips(Plain) EXCEPT !.init = EachChild(selftest_skip_init)])
  \cup Entries({"selftest_log_skip_init"},
        [Skips(Plain) EXCEPT !.init = EachChild(selftest_log_skip_init)])
  \cup Entries({"selftest_log_skip_preinit", "selftest_log_skip_init_mainproc"},
        [Skips(Plain) EXCEPT !.preinit = "success", !.in_parent = TRUE,
                             !.init = EachChild(selftest_log_skip_init)])
  \cup Entries({"selftest_true_skip_in_preinit"},
        [Skips(Plain) EXCEPT !.preinit = "skip", !.init = EachChild(selftest_fail_run)])
  \cup Entries({"selftest_log_skip_init_from_group"},
        [Skips(Plain) EXCEPT !.group_skips = TRUE, !.init = EachChild(selftest_fail_run)])
  \cup Entries({"selftest_log_skip_newline"},
        [Skips(Plain) EXCEPT !.init = EachChild(selftest_log_skip_even),
                             !.run = EachThread(selftest_log_skip_newline_run)])

PartlySkippingTests ==
       Entries({"selftest_log_skip_init_socket0"},
        [Plain EXCEPT !.init = OnSockets(0, selftest_log_skip_init),
                      !.run = RunOnSockets(0, selftest_unreachable_run),
                      !.expect = IF OnePackage(0) THEN {Skipped} ELSE {Passed}])
  \cup Entries({"selftest_log_skip_init_socket1"},
        [Plain EXCEPT !.init = OnSockets(1, selftest_log_skip_init),
                      !.run = RunOnSockets(1, selftest_unreachable_run),
                      !.expect = IF OnePackage(1) THEN {Skipped} ELSE {Passed}])
  \cup Entries({"selftest_log_skip_run_all_threads"},
        [Plain EXCEPT !.run = EachThread(selftest_log_skip_run), !.expect = {Skipped}])
  \cup Entries({"selftest_log_skip_run_even_threads"},
        [Plain EXCEPT !.run = [t \in Thread |-> {IF thread_num[t] % 2 = 0
                                                 THEN selftest_log_skip_even ELSE Passes}],
                      !.expect = IF \A t \in Thread : thread_num[t] % 2 = 0
                                 THEN {Skipped} ELSE {Passed}])

CleanupSkipTests ==
       Entries({"selftest_skip_cleanup"},
        [Plain EXCEPT !.cleanup = EachChild(selftest_skip_cleanup), !.expect = {Skipped}])
  \cup Entries({"selftest_oserror_cleanup"},
        [Plain EXCEPT !.cleanup = EachChild(selftest_errno_cleanup), !.expect = {Skipped}])
  \cup Entries({"selftest_skipmsg_success_cleanup", "selftest_skipmsg_skip_cleanup"},
        [Plain EXCEPT !.cleanup = [s \in Slice |-> selftest_skipmsg_cleanup],
                      !.expect = {Skipped}])

RandomTests ==
  Entries({"selftest_randomfail", "selftest_datacomparefailrare"},
     [Plain EXCEPT !.run = [t \in Thread |-> selftest_randomfail_run \cup {memcmp_or_fail}],
                   !.expect = {Passed, Failed}])

\* Expected only where there is a second package.
OnSocket1(r) == IF HasPackage(1) THEN {r} ELSE {Passed}

SocketTests ==
       Entries({"selftest_failinit_socket1"},
        [Plain EXCEPT !.init = OnSockets(1, selftest_fail_run), !.expect = OnSocket1(Failed)])
  \cup Entries({"selftest_fail_socket1"},
        [Plain EXCEPT !.run = RunOnSockets(1, selftest_fail_run), !.expect = OnSocket1(Failed)])
  \cup Entries({"selftest_freeze_socket1"},
        [Plain EXCEPT !.run = RunOnSockets(1, selftest_noreturn_run),
                      !.expect = OnSocket1(TimedOut)])
  \cup Entries({"selftest_sigsegv_init_socket1"},
        [Plain EXCEPT !.init = OnSockets(1, cause_sigsegv), !.expect = OnSocket1(CoreDumped)])
  \cup Entries({"selftest_sigsegv_socket1"},
        [Plain EXCEPT !.run = [t \in Thread |-> IF package_id[SliceOf(t)] = 1
                                                THEN CrashRun(cause_sigsegv)[t] ELSE {Passes}],
                      !.expect = OnSocket1(CoreDumped)])

Fails(record) == [record EXCEPT !.expect = {Failed}]

InitFailTests ==
       Entries({"selftest_failinit"},
        [Fails(Plain) EXCEPT !.init = EachChild(selftest_fail_run),
                             !.run = EachThread(selftest_unreachable_run)])
  \cup Entries({"selftest_failinit_and_logskip"},
        [Fails(Plain) EXCEPT !.init = EachChild(selftest_failinit_and_logskip),
                             !.run = EachThread(selftest_noreturn_run)])
  \cup Entries({"selftest_logerror_init"},
        [Fails(Plain) EXCEPT !.init = EachChild(selftest_errormsg_cleanup),
                             !.run = EachThread(selftest_unreachable_run)])
  \cup Entries({"selftest_logerror_init_mainproc"},
        [Fails(Plain) EXCEPT !.init = EachChild(selftest_errormsg_cleanup), !.in_parent = TRUE,
                             !.run = EachThread(selftest_unreachable_run)])
  \cup Entries({"selftest_logerror_and_logskip"},
        [Fails(Plain) EXCEPT !.init = [s \in Slice |-> selftest_error_and_skip_init],
                             !.run = EachThread(selftest_noreturn_run)])

FailTests ==
       Entries({"selftest_fail"}, [Fails(Plain) EXCEPT !.run = EachThread(selftest_fail_run)])
  \cup Entries({"selftest_fail_cleanup"},
        [Fails(Plain) EXCEPT !.cleanup = EachChild(selftest_fail_run)])
  \cup Entries({"selftest_fail_run_and_cleanup"},
        [Fails(Plain) EXCEPT !.run = EachThread(selftest_fail_run), !.cleanup = EachChild(selftest_fail_run)])
  \cup Entries({"selftest_logerror_cleanup", "selftest_errormsg_cleanup"},
        [Fails(Plain) EXCEPT !.cleanup = EachChild(selftest_errormsg_cleanup)])
  \cup Entries({"selftest_fail_cleanup_after_skip"},
        [Fails(Plain) EXCEPT !.run = EachThread(selftest_log_skip_run), !.cleanup = EachChild(selftest_fail_run)])
  \cup Entries({"selftest_logerror_cleanup_after_skip"},
        [Fails(Plain) EXCEPT !.run = EachThread(selftest_log_skip_run),
                             !.cleanup = EachChild(selftest_errormsg_cleanup)])

ReportFailTests ==
       Entries({"selftest_logerror"}, [Fails(Plain) EXCEPT !.run = EachThread(selftest_logerror_run)])
  \cup Entries({"selftest_reportfail", "selftest_fail_after_reschedule"},
        [Fails(Plain) EXCEPT !.run = EachThread(selftest_reportfail_run)])
  \cup Entries({"selftest_datacomparefail", "selftest_datacompare_nodifference"},
        [Fails(Plain) EXCEPT !.run = EachThread(memcmp_or_fail)])

CrashTests ==
       Entries({"selftest_cxxthrow"},
        [Plain EXCEPT !.run = EachThread(selftest_cxxthrow_run), !.expect = {CoreDumped}])
  \cup Entries({"selftest_malloc_fail"},
        [Plain EXCEPT !.run = EachThread(selftest_malloc_fail), !.expect = {CoreDumped}])
  \cup Entries({"selftest_abort", "selftest_sigill", "selftest_sigsegv"},
        [Plain EXCEPT !.run = CrashRun(cause_sigsegv), !.expect = {CoreDumped}])
  \cup Entries({"selftest_abortinit", "selftest_sigsegv_init"},
        [Plain EXCEPT !.init = EachChild(cause_sigsegv), !.expect = {CoreDumped}])
  \cup Entries({"selftest_sigsegv_cleanup"},
        [Plain EXCEPT !.cleanup = EachChild(cause_sigsegv), !.expect = {CoreDumped}])

\* Operating system errors; the program ends with these results.
DeadlyTests ==
       Entries({"selftest_sigkill"},
        [Plain EXCEPT !.run = CrashRun(raise_sigkill), !.expect = {OutOfMemory}])
  \cup Entries({"selftest_oserror"},
        [Plain EXCEPT !.run = EachThread(selftest_oserror_run), !.expect = {OperatingSystemError}])

Freezes == [Plain EXCEPT !.run = EachThread(selftest_noreturn_run), !.expect = {TimedOut}]

FreezeTests ==
       Entries({"selftest_freeze", "selftest_freeze_fork"}, Freezes)
  \cup Entries({"selftest_freeze_exit_on_termination"},
        [Freezes EXCEPT !.quit = [code |-> "exited", status |-> 0]])
  \cup Entries({"selftest_freeze_ignore_termination"},
        [Freezes EXCEPT !.quit = [code |-> "killed", status |-> SIGKILL]])
  \cup Entries({"selftest_50pct_freeze_fail"},
        [Freezes EXCEPT !.run = [t \in Thread |-> selftest_50pct_freeze_fail_run],
                        !.expect = {Failed, TimedOut}])

\* Whether these are skipped depends on the machine.
GatedTests ==
  Entries({"selftest_test_optional", "selftest_test_min_cpu"},
     [Plain EXCEPT !.gate = "maybe", !.expect = {Passed, Skipped}])

SelfTests ==
       PassTests \cup LogTests \cup SkipTests \cup PartlySkippingTests \cup CleanupSkipTests \cup RandomTests
  \cup SocketTests \cup InitFailTests \cup FailTests \cup ReportFailTests \cup CrashTests \cup DeadlyTests
  \cup FreezeTests \cup GatedTests

-----------------------------------------------------------------------------
SInit ==
  /\ Init
  /\ test \in {entry.test : entry \in SelfTests}
  /\ behaviour = [t \in Thread |-> Passes]
  /\ logged = [t \in Thread |-> 0]
  /\ printed = Unset
  /\ tests_left = MaxTests

\* preinit_tests(): a group's replacement of test_init has precedence over a
\* skip of the preinit function, and both make the test one whose test_init
\* runs in the parent.
InParent == test.group_skips \/ test.preinit = "skip" \/ test.in_parent

InitFunction(s) ==
  IF test.group_skips \/ test.preinit = "skip" THEN {selftest_log_skip_even} ELSE test.init[s]

\* No child was started: there is one result, and the marks of the main thread.
EndsUnstarted(r, f) ==
  /\ \A s \in Slice : at[s] = "start"
  /\ at' = [s \in Slice |-> "ended"]
  /\ result' = [s \in Slice |-> r]
  /\ main' = [s \in Slice |-> f]
  /\ flag' = [t \in Thread |-> "clean"]
  /\ thread_state' = [t \in Thread |-> "not_started"]
  /\ UNCHANGED <<pc, callbacks, once, selftest>>

\* The test needs features the device lacks, or is of BETA quality.
SkipUnstarted == test.gate # "open" /\ EndsUnstarted(Skipped, "skipped")

\* The result of test_init() in the parent; the marks start clean.
ResultInParent(b) ==
  CASE b.end = "failure"                                  -> Failed
    [] b.end \in {"skip", "oserror"}                      -> Skipped
    [] b.end = "success" /\ MarkedBy("clean", b) = "skipped" -> Skipped
    [] b.end = "success" /\ MarkedBy("clean", b) = "failed"  -> Failed

InitInParent ==
  /\ test.gate # "missing" /\ InParent
  /\ \E s \in Slice : \E b \in InitFunction(s) :
       EndsUnstarted(ResultInParent(b), MarkedBy("clean", b))

Start(s) ==
  /\ test.gate # "missing" /\ ~InParent
  /\ StartChild(s)
  /\ UNCHANGED selftest

\* A crash of the child's main thread, seen by child_crash_handler().
CrashInMain(s) ==
  /\ main' = [main EXCEPT ![s] = MarkFailed(@)]
  /\ ExitWith(s, CoreDumped)
  /\ UNCHANGED <<thread, once>>

InitStep(s) ==
  /\ \E b \in InitFunction(s) :
       \/ b.end \in Ret /\ TestInitReturns(s, b.end, MarkedBy(main[s], b))
       \/ b.end = "crash" /\ at[s] = "init" /\ CrashInMain(s)
  /\ UNCHANGED selftest

CleanupStep(s) ==
  /\ \E b \in test.cleanup[s] :
       \/ b.end \in Ret /\ TestCleanupReturns(s, b.end, MarkedBy(main[s], b))
       \/ b.end = "crash" /\ at[s] = "cleanup" /\ CrashInMain(s)
  /\ UNCHANGED selftest

StartRun(t) ==
  /\ StartThread(t)
  /\ \E b \in test.run[t] : behaviour' = [behaviour EXCEPT ![t] = b]
  /\ UNCHANGED <<test, logged, printed, tests_left>>

Log(t) ==
  /\ logged[t] < Len(behaviour[t].log)
  /\ logged' = [logged EXCEPT ![t] = @ + 1]
  /\ IF behaviour[t].log[logged[t] + 1] = "error" THEN LogError(t) ELSE LogSkip(t)
  /\ UNCHANGED <<test, behaviour, printed, tests_left>>

Ends(t, end) == logged[t] = Len(behaviour[t].log) /\ behaviour[t].end = end

EndRun(t) ==
  /\ \/ UNCHANGED callbacks /\ \E ret \in Ret : Ends(t, ret) /\ Return(t, ret, flag[t])
     \/ Ends(t, "report_fail") /\ ReportFail(t)
     \/ Ends(t, "crash") /\ Crash(t)
  /\ UNCHANGED selftest

\* raise(SIGKILL) and _exit(EX_CONFIG) end the whole child.
EndChild(t) ==
  /\ Running(t)
  /\ \/ Ends(t, "sigkill") /\ Die(SliceOf(t), ResultFromExit([code |-> "killed", status |-> SIGKILL]))
     \/ Ends(t, "exit") /\ Die(SliceOf(t), ResultFromExit([code |-> "exited", status |-> EX_CONFIG]))
  /\ UNCHANGED selftest

\* The deadline of wait_for_all_children() passes when nothing but frozen threads
\* is left; how the child then ends is merged into TimedOut.
Frozen(s) ==
  /\ at[s] = "threads"
  /\ \E t \in thread_range[s] : pc[t] = "run" /\ Ends(t, "freeze")
  /\ \A t \in thread_range[s] : pc[t] = "done" \/ (pc[t] = "run" /\ Ends(t, "freeze"))

TimeOut(s) ==
  /\ \A r \in Slice : at[r] = "ended" \/ Frozen(r)
  /\ Frozen(s)
  /\ Die(s, MergeResult(TimedOut, ResultFromExit(test.quit)))
  /\ UNCHANGED selftest

PrintResult ==
  /\ PrintAndReturn
  /\ printed' = PrintedResult(result, main, flag, thread_state)
  /\ UNCHANGED <<test, script, tests_left>>

\* The next test of the list: the shared memory stays as it is.
NextTest ==
  /\ outcome = "returned" /\ tests_left > 0
  /\ tests_left' = tests_left - 1
  /\ test' \in {entry.test : entry \in SelfTests}
  /\ at' = [s \in Slice |-> "start"]
  /\ result' = [s \in Slice |-> Unset]
  /\ pc' = [t \in Thread |-> "idle"]
  /\ callbacks' = [t \in Thread |-> 0]
  /\ behaviour' = [t \in Thread |-> Passes]
  /\ logged' = [t \in Thread |-> 0]
  /\ outcome' = "running" /\ verdict' = Unset /\ printed' = Unset
  /\ UNCHANGED <<main, flag, thread_state>>

SliceStep(s)  == Start(s) \/ InitStep(s) \/ CleanupStep(s) \/ TimeOut(s)
                   \/ (JoinThreads(s) /\ UNCHANGED selftest)
ThreadStep(t) == StartRun(t) \/ Log(t) \/ EndRun(t) \/ EndChild(t)
                   \/ (EndThread(t) /\ UNCHANGED selftest)

SNext ==
  \/ SkipUnstarted
  \/ InitInParent
  \/ \E s \in Slice : SliceStep(s)
  \/ \E t \in Thread : ThreadStep(t)
  \/ PrintResult
  \/ NextTest
  \/ Finished /\ UNCHANGED selftest

SSpec == SInit /\ [][SNext]_svars

-----------------------------------------------------------------------------
(***************************************************************************)
(* Properties.                                                             *)
(***************************************************************************)

\* src/bats/sanity-check: whatever the order of its threads and children, and
\* whatever the test before it left in shared memory, every self test is printed
\* with the result the suite expects of it, and this is what the run returns.  In
\* particular test functions that must not be reached (they fail, freeze or
\* abort) are not, skips do not hide failures, and the SIGQUIT handlers of a test
\* do not turn a timeout into a pass.
SelftestsEndAsExpected ==
  outcome # "running" =>
    printed \in test.expect /\ verdict = RunOnceResult(printed, ignore_os_errors)
=============================================================================
