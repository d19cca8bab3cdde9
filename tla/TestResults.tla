---------------------------- MODULE TestResults ----------------------------
(***************************************************************************)
(* The severity scale of sandstone_p.h and the conversions between a       *)
(* child's wait status, its exit code and a TestResult.  Shared by every   *)
(* module that handles results.                                            *)
(***************************************************************************)
EXTENDS Integers

\* enum class TestResult: the order of the values is the order of severity.
Skipped              == -1
Passed               == 0
Failed               == 1
Killed               == 2
CoreDumped           == 3
OperatingSystemError == 4
OutOfMemory          == 5
TimedOut             == 6
Interrupted          == 7

TestResult == Skipped..Interrupted

\* ChildExitStatus::result before anything is known of the child.
Unset == -127

-----------------------------------------------------------------------------
SIGINT  == 2
SIGQUIT == 3
SIGKILL == 9
SIGSEGV == 11
SIGTERM == 15
Signal  == {SIGINT, SIGQUIT, SIGKILL, SIGSEGV, SIGTERM}

\* struct forkfd_info: why the child ended and its exit code or signal.
ExitInfo == [code : {"exited"}, status : 0..255]
              \cup [code : {"killed", "dumped"}, status : Signal]

\* The cast of the exit status to int8_t.
AsInt8(n) == IF n >= 128 THEN n - 256 ELSE n

FromExitStatus(status) ==
  CASE AsInt8(status) = -1 -> Skipped
    [] AsInt8(status) = 0  -> Passed
    [] AsInt8(status) = 1  -> Failed
    [] OTHER               -> OperatingSystemError

FromSignal(code, sig) ==
  CASE sig = SIGKILL -> OutOfMemory
    [] sig = SIGQUIT -> TimedOut
    [] OTHER         -> IF code = "killed" THEN Killed ELSE CoreDumped

ResultFromExit(info) ==
  IF info.code = "exited" THEN FromExitStatus(info.status)
                          ELSE FromSignal(info.code, info.status)

\* The exit code of a child whose test ended with r, as the kernel keeps it
\* (the low eight bits).  Children only produce these three results.
ExitCodeOf(r) ==
  CASE r = Passed  -> 0
    [] r = Skipped -> 255
    [] r = Failed  -> 1

\* Faulty: merge_test_result() without its comparison.
MergeOverwrites(current, incoming) == incoming

\* The result field after merge_test_result().
MergeResult(current, incoming) ==
  IF current < incoming THEN incoming ELSE current
=============================================================================
