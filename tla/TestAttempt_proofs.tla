------------------------- MODULE TestAttempt_proofs -------------------------
(***************************************************************************)
(* Proofs about TestAttempt, for every set of children and threads, and    *)
(* about the self tests, which run through it: every entry of their table  *)
(* ends as the bats suite expects.                                         *)
(***************************************************************************)
EXTENDS Selftests, TLAPS

\* The part of TypeOK that is about the threads and the stages of the children.
ThreadTypes ==
  /\ at \in [Slice -> Stage]
  /\ flag \in [Thread -> Flag]
  /\ thread_state \in [Thread -> ThreadState]
  /\ pc \in [Thread -> ThreadPc]
  /\ callbacks \in [Thread -> 0..1]

\* A thread that has begun belongs to a child that is past its reset of the
\* per-thread data; one that has not begun in a child whose threads run has
\* been reset.
StageInv ==
  \A t \in Thread :
    /\ pc[t] # "idle" => at[SliceOf(t)] \in {"threads", "cleanup", "ended"}
    /\ pc[t] = "idle" =>
         /\ callbacks[t] = 0
         /\ at[SliceOf(t)] # "cleanup"
         /\ at[SliceOf(t)] \in {"init", "threads"} => flag[t] = "clean"

\* In a live child the mark and the callback go together, except between the
\* two halves of cleanup(), where the state already says failed.
CallbackInv ==
  \A t \in Thread :
    /\ pc[t] \in {"run", "mark"} /\ at[SliceOf(t)] = "threads" =>
         /\ callbacks[t] = 1 => flag[t] = "failed"
         /\ flag[t] = "failed" => callbacks[t] = 1
    /\ pc[t] = "mark" /\ flag[t] = "failed" => thread_state[t] = "failed"
    /\ pc[t] \in {"mark", "done"} => thread_state[t] \in {"succeeded", "failed", "skipped"}

IInv == ThreadTypes /\ StageInv /\ CallbackInv /\ CallbackOfEveryFailure
-----------------------------------------------------------------------------
\* thread_range partitions the test threads among the children.
LEMMA SliceOfThread ==
  ASSUME NEW t \in Thread
  PROVE  /\ SliceOf(t) \in Slice /\ t \in thread_range[SliceOf(t)]
         /\ \A s \in Slice : t \in thread_range[s] => s = SliceOf(t)
<1>1. \E s \in Slice : t \in thread_range[s] /\ \A r \in Slice \ {s} : t \notin thread_range[r]
  BY RangeAssumption
<1> QED BY <1>1 DEF SliceOf

\* Marks are marks, and a failure is never taken back.
LEMMA MarkTypes ==
  \A f \in Flag :
    /\ MarkFailed(f) = "failed" /\ MarkFailed(f) \in Flag
    /\ MarkSkipped(f) \in Flag
    /\ f = "failed" => MarkSkipped(f) = "failed"
    /\ f # "failed" => MarkSkipped(f) = "skipped"
BY DEF Flag, MarkFailed, MarkSkipped

\* cleanup() reports a failed thread as failed and never as running.
LEMMA NewStateType ==
  ASSUME NEW f \in Flag, NEW ret \in Ret
  PROVE  /\ NewState(f, ret) \in {"succeeded", "failed", "skipped"}
         /\ f = "failed" => NewState(f, ret) = "failed"
BY DEF Flag, Ret, NewState

\* What the end of the parent's work does to the flags.
LEMMA StuckShape ==
  ASSUME ThreadTypes, PrintAndReturn, NEW t \in Thread
  PROVE  /\ flag'[t] \in Flag
         /\ flag'[t] = flag[t] \/ (thread_state[t] = "running" /\ flag'[t] = "failed")
         /\ flag' \in [Thread -> Flag]
BY MarkTypes DEF ThreadTypes, PrintAndReturn, StuckAreMarked

LEMMA InitIInv == Init => IInv
<1> SUFFICES ASSUME Init  PROVE IInv  OBVIOUS
<1>1. ThreadTypes
  BY StaleAssumption DEF Init, ThreadTypes, Stage, ThreadState, ThreadPc
<1>2. StageInv /\ CallbackInv /\ CallbackOfEveryFailure
  BY SliceOfThread DEF Init, StageInv, CallbackInv, CallbackOfEveryFailure
<1> QED BY <1>1, <1>2 DEF IInv

-----------------------------------------------------------------------------
\* Steps of a child's main thread, other than the reset of the per-thread data.
LEMMA MainIInv ==
  ASSUME IInv, NEW s \in Slice, UNCHANGED thread,
         \/ at[s] = "init" /\ Enter(s, "threads")
         \/ at[s] = "threads" /\ Enter(s, "cleanup") /\ \A t \in thread_range[s] : pc[t] = "done"
         \/ Enter(s, "ended")
         \/ UNCHANGED at
  PROVE  IInv'
<1> USE DEF IInv, thread
<1>1. ThreadTypes'  BY DEF ThreadTypes, Enter, Stage
<1>2. \A t \in Thread : at'[SliceOf(t)] = at[SliceOf(t)]
        \/ (at[SliceOf(t)] = "init" /\ at'[SliceOf(t)] = "threads")
        \/ (at[SliceOf(t)] = "threads" /\ at'[SliceOf(t)] = "cleanup" /\ pc[t] = "done")
        \/ at'[SliceOf(t)] = "ended"
  BY SliceOfThread DEF ThreadTypes, Enter
<1>3. StageInv'  BY <1>2, SliceOfThread DEF StageInv, ThreadTypes, Stage
<1>4. CallbackInv'
  <2> SUFFICES ASSUME NEW t \in Thread,
                      pc[t] \in {"run", "mark"}, at'[SliceOf(t)] = "threads"
               PROVE  /\ callbacks[t] = 1 => flag[t] = "failed"
                      /\ flag[t] = "failed" => callbacks[t] = 1
    BY DEF CallbackInv
  <2>1. at[SliceOf(t)] = "threads"  BY <1>2 DEF StageInv
  <2> QED BY <2>1 DEF CallbackInv
<1>5. CallbackOfEveryFailure'  BY DEF CallbackOfEveryFailure
<1> QED BY <1>1, <1>3, <1>4, <1>5

LEMMA StartIInv ==
  ASSUME IInv, NEW s \in Slice, StartChild(s)
  PROVE  IInv'
<1> USE DEF IInv
<1>0. /\ at[s] = "start" /\ at' = [at EXCEPT ![s] = "init"]
      /\ flag' = [t \in Thread |-> IF t \in thread_range[s] THEN "clean" ELSE flag[t]]
      /\ thread_state' =
           [t \in Thread |-> IF t \in thread_range[s] THEN "not_started" ELSE thread_state[t]]
      /\ UNCHANGED <<pc, callbacks>>
  BY DEF StartChild, Enter
<1>1. ThreadTypes'  BY <1>0 DEF ThreadTypes, Stage, Flag, ThreadState
<1>2. \A t \in Thread : t \in thread_range[s] => SliceOf(t) = s /\ pc[t] = "idle"
  BY <1>0, SliceOfThread DEF StageInv
<1>3. \A t \in Thread : t \notin thread_range[s] =>
        /\ at'[SliceOf(t)] = at[SliceOf(t)]
        /\ flag'[t] = flag[t] /\ thread_state'[t] = thread_state[t]
  BY <1>0, SliceOfThread DEF ThreadTypes
<1>4. \A t \in Thread : t \in thread_range[s] => at'[SliceOf(t)] = "init" /\ flag'[t] = "clean"
  BY <1>0, <1>2 DEF ThreadTypes
<1>5. StageInv'  BY <1>0, <1>2, <1>3, <1>4 DEF StageInv
<1>6. CallbackInv'  BY <1>0, <1>2, <1>3, <1>4 DEF CallbackInv
<1>7. CallbackOfEveryFailure'  BY <1>0, <1>2, <1>3 DEF CallbackOfEveryFailure
<1> QED BY <1>1, <1>5, <1>6, <1>7

\* A step that concerns one thread of a child whose threads run: the invariant
\* need only be checked for that thread.
LEMMA OneThreadIInv ==
  ASSUME IInv, ThreadTypes', NEW t \in Thread, at[SliceOf(t)] = "threads",
         \A u \in Thread \ {t} : /\ flag'[u] = flag[u] /\ thread_state'[u] = thread_state[u]
                                 /\ pc'[u] = pc[u] /\ callbacks'[u] = callbacks[u],
         at' = at \/ at' = [at EXCEPT ![SliceOf(t)] = "ended"],
         pc'[t] # "idle",
         at' = at /\ pc'[t] \in {"run", "mark"} =>
           /\ callbacks'[t] = 1 => flag'[t] = "failed"
           /\ flag'[t] = "failed" => callbacks'[t] = 1,
         pc'[t] = "mark" /\ flag'[t] = "failed" => thread_state'[t] = "failed",
         pc'[t] \in {"mark", "done"} => thread_state'[t] \in {"succeeded", "failed", "skipped"},
         pc'[t] = "done" => (callbacks'[t] = 1 <=> flag'[t] = "failed")
  PROVE  IInv'
<1> USE DEF IInv
<1>1. \A u \in Thread : at'[SliceOf(u)] = at[SliceOf(u)] \/ at'[SliceOf(u)] = "ended"
  BY SliceOfThread DEF ThreadTypes
<1>2. at' # at => at'[SliceOf(t)] = "ended"
  BY SliceOfThread DEF ThreadTypes
<1>3. StageInv'  BY <1>1, SliceOfThread DEF StageInv
<1>4. CallbackInv'
  <2> SUFFICES ASSUME NEW u \in Thread
               PROVE  /\ pc'[u] \in {"run", "mark"} /\ at'[SliceOf(u)] = "threads" =>
                           /\ callbacks'[u] = 1 => flag'[u] = "failed"
                           /\ flag'[u] = "failed" => callbacks'[u] = 1
                      /\ pc'[u] = "mark" /\ flag'[u] = "failed" => thread_state'[u] = "failed"
                      /\ pc'[u] \in {"mark", "done"} =>
                           thread_state'[u] \in {"succeeded", "failed", "skipped"}
    BY Zenon DEF CallbackInv
  <2>1. CASE u = t  BY <1>2, <2>1
  <2>2. CASE u # t  BY <1>1, <2>2 DEF CallbackInv
  <2> QED BY <2>1, <2>2
<1>5. CallbackOfEveryFailure'  BY DEF CallbackOfEveryFailure
<1> QED BY <1>3, <1>4, <1>5

LEMMA ThreadIInv ==
  ASSUME IInv, NEW t \in Thread,
         \/ StartThread(t) \/ LogError(t) \/ LogSkip(t) \/ TestRun(t) \/ ReportFail(t)
         \/ EndThread(t) \/ Crash(t) \/ IgnoredCrash(t)
  PROVE  IInv'
<1> USE DEF IInv, child, once
<1>0. flag[t] \in Flag /\ callbacks[t] \in 0..1 /\ SliceOf(t) \in Slice
  BY SliceOfThread DEF ThreadTypes
<1>1. CASE StartThread(t)
  <2>1. ThreadTypes'  BY <1>1 DEF StartThread, ThreadTypes, ThreadState, ThreadPc
  <2> QED BY <1>0, <1>1, <2>1, OneThreadIInv DEF StartThread, ThreadTypes, StageInv
<1>2. CASE LogError(t)
  <2>1. ThreadTypes'  BY <1>2, MarkTypes DEF LogError, RunCallback, ThreadTypes, Flag
  <2>2. flag'[t] = "failed" /\ callbacks'[t] = 1
    BY <1>0, <1>2, MarkTypes DEF LogError, RunCallback, ThreadTypes
  <2> QED BY <1>2, <2>1, <2>2, OneThreadIInv DEF LogError, Running, RunCallback, ThreadTypes
<1>3. CASE LogSkip(t)
  <2>1. ThreadTypes'  BY <1>3, MarkTypes DEF LogSkip, ThreadTypes
  <2>2. flag'[t] = "failed" <=> flag[t] = "failed"
    BY <1>0, <1>3, MarkTypes DEF LogSkip, ThreadTypes
  <2> QED BY <1>3, <2>1, <2>2, OneThreadIInv DEF LogSkip, Running, ThreadTypes, CallbackInv
<1>4. CASE TestRun(t)
  <2>1. PICK ret \in Ret : Return(t, ret, flag[t])  BY <1>4 DEF TestRun
  <2>2. ThreadTypes'
    BY <1>0, <1>4, <2>1, NewStateType DEF TestRun, Return, ThreadTypes, ThreadState, ThreadPc
  <2>3. flag' = flag /\ callbacks' = callbacks
        /\ thread_state'[t] = NewState(flag[t], ret) /\ pc'[t] = "mark"
    BY <1>4, <2>1 DEF TestRun, Return, ThreadTypes
  <2> QED BY <1>0, <2>1, <2>2, <2>3, NewStateType, OneThreadIInv
          DEF Return, Running, ThreadTypes, CallbackInv
<1>5. CASE ReportFail(t)
  <2>1. Return(t, "failure", "failed") /\ RunCallback(t)
    BY <1>0, <1>5, MarkTypes DEF ReportFail
  <2>2. "failed" \in Flag /\ "failure" \in Ret  BY DEF Flag, Ret
  <2>3. NewState("failed", "failure") = "failed"  BY <2>2, NewStateType
  <2>4. ThreadTypes'
    BY <2>1, <2>2, <2>3 DEF Return, RunCallback, ThreadTypes, ThreadState, ThreadPc
  <2>5. /\ flag'[t] = "failed" /\ callbacks'[t] = 1 /\ thread_state'[t] = "failed"
        /\ pc'[t] = "mark"
    BY <1>0, <2>1, <2>3 DEF Return, RunCallback, ThreadTypes
  <2> QED BY <2>1, <2>4, <2>5, OneThreadIInv DEF Return, RunCallback, Running, ThreadTypes
<1>6. CASE EndThread(t)
  <2>0. /\ at[SliceOf(t)] = "threads" /\ pc[t] = "mark" /\ pc' = [pc EXCEPT ![t] = "done"]
        /\ UNCHANGED <<at, thread_state>>
        /\ thread_state[t] \in {"succeeded", "failed", "skipped"}
    BY <1>6 DEF EndThread, CallbackInv
  <2>1. CASE thread_state[t] = "failed"
    <3>1. flag' = [flag EXCEPT ![t] = MarkFailed(flag[t])] /\ RunCallback(t)
      BY <1>6, <2>1 DEF EndThread
    <3>2. ThreadTypes'
      BY <1>0, <2>0, <3>1, MarkTypes DEF RunCallback, ThreadTypes, ThreadPc
    <3>3. flag'[t] = "failed" /\ callbacks'[t] = 1
      BY <1>0, <3>1, MarkTypes DEF RunCallback, ThreadTypes
    <3> QED BY <2>0, <3>1, <3>2, <3>3, OneThreadIInv DEF RunCallback, ThreadTypes
  <2>2. CASE thread_state[t] = "skipped"
    <3>1. flag' = [flag EXCEPT ![t] = MarkSkipped(flag[t])] /\ UNCHANGED callbacks
      BY <1>6, <2>2 DEF EndThread
    <3>2. ThreadTypes'  BY <1>0, <2>0, <3>1, MarkTypes DEF ThreadTypes, ThreadPc
    <3>3. flag[t] # "failed" /\ callbacks[t] # 1
      BY <2>0, <2>2 DEF CallbackInv
    <3>4. flag'[t] = "skipped"  BY <1>0, <3>1, <3>3, MarkTypes DEF ThreadTypes
    <3> QED BY <2>0, <3>1, <3>2, <3>3, <3>4, OneThreadIInv DEF ThreadTypes
  <2>3. CASE thread_state[t] = "succeeded"
    <3>1. UNCHANGED <<flag, callbacks>>  BY <1>6, <2>3 DEF EndThread
    <3>2. ThreadTypes'  BY <2>0, <3>1 DEF ThreadTypes, ThreadPc
    <3>3. flag[t] # "failed" /\ callbacks[t] # 1
      BY <2>0, <2>3 DEF CallbackInv
    <3> QED BY <2>0, <3>1, <3>2, <3>3, OneThreadIInv DEF ThreadTypes
  <2> QED BY <2>0, <2>1, <2>2, <2>3
<1>7. CASE Crash(t)
  <2>1. ThreadTypes'
    BY <1>0, <1>7, MarkTypes DEF Crash, ExitWith, Enter, ThreadTypes, Stage, Running
  <2> QED BY <1>0, <1>7, <2>1, OneThreadIInv DEF Crash, ExitWith, Enter, Running, ThreadTypes
<1>8. CASE IgnoredCrash(t)
  <2>1. ThreadTypes'
    BY <1>0, <1>8 DEF IgnoredCrash, ExitWith, Enter, ThreadTypes, Stage, ThreadState
  <2> QED BY <1>0, <1>8, <2>1, OneThreadIInv
          DEF IgnoredCrash, ExitWith, Enter, Running, ThreadTypes
<1> QED BY <1>1, <1>2, <1>3, <1>4, <1>5, <1>6, <1>7, <1>8

LEMMA PrintIInv ==
  ASSUME IInv, PrintAndReturn
  PROVE  IInv'
<1> USE DEF IInv
<1>0. /\ \A s \in Slice : at[s] = "ended"
      /\ UNCHANGED <<at, thread_state, pc, callbacks>>
  BY DEF PrintAndReturn, child
<1>1. \A t \in Thread : at[SliceOf(t)] = "ended"  BY <1>0, SliceOfThread
<1>2. \A t \in Thread : thread_state[t] # "running" => flag'[t] = flag[t]
  BY StuckShape
<1>3. ThreadTypes'
  <2>1. flag' \in [Thread -> Flag]
    BY MarkTypes DEF ThreadTypes, PrintAndReturn, StuckAreMarked
  <2> QED BY <1>0, <2>1 DEF ThreadTypes
<1>4. StageInv'  BY <1>0, <1>1 DEF StageInv
<1>5. CallbackInv'  BY <1>0, <1>1, <1>2 DEF CallbackInv
<1>6. CallbackOfEveryFailure'
  BY <1>0, <1>2 DEF CallbackOfEveryFailure, CallbackInv
<1> QED BY <1>3, <1>4, <1>5, <1>6

LEMMA NextIInv ==
  ASSUME IInv, [Next]_vars
  PROVE  IInv'
<1>1. ASSUME NEW s \in Slice, StartChild(s)  PROVE IInv'  BY <1>1, StartIInv
<1>2. ASSUME NEW s \in Slice, TestInit(s)  PROVE IInv'
  <2>1. UNCHANGED thread /\ at[s] = "init"
        /\ (Enter(s, "threads") \/ Enter(s, "ended"))
    BY <1>2 DEF TestInit, TestInitReturns, InitPasses, InitFails, InitSkips, ExitWith
  <2> QED BY <2>1, MainIInv
<1>3. ASSUME NEW s \in Slice, JoinThreads(s)  PROVE IInv'
  BY <1>3, MainIInv DEF JoinThreads
<1>4. ASSUME NEW s \in Slice, TestCleanup(s)  PROVE IInv'
  BY <1>4, MainIInv DEF TestCleanup, TestCleanupReturns, ExitWith
<1>5. ASSUME NEW s \in Slice, NEW r \in Deaths, Die(s, r)  PROVE IInv'
  BY <1>5, MainIInv DEF Die, ExitWith
<1>6. ASSUME NEW t \in Thread,
             \/ StartThread(t) \/ LogError(t) \/ LogSkip(t) \/ TestRun(t)
             \/ ReportFail(t) \/ EndThread(t) \/ Crash(t) \/ IgnoredCrash(t)
      PROVE  IInv'
  BY <1>6, ThreadIInv
<1>7. CASE PrintAndReturn  BY <1>7, PrintIInv
<1>8. CASE UNCHANGED vars
  BY <1>8 DEF vars, child, thread, IInv, ThreadTypes, StageInv, CallbackInv,
              CallbackOfEveryFailure
<1> QED BY <1>1, <1>2, <1>3, <1>4, <1>5, <1>6, <1>7, <1>8 DEF Next, Finished

\* IInv holds of every run of a test.
THEOREM Invariance == Spec => []IInv
<1> QED BY InitIInv, NextIInv, PTL DEF Spec

\* In every thread that has ended, log_error(), report_fail() or a failing
\* return value has run the failure callback exactly once, and nothing else has.
THEOREM CallbackCorrect == Spec => []CallbackOfEveryFailure
<1>1. IInv => CallbackOfEveryFailure  BY DEF IInv
<1> QED BY <1>1, Invariance, PTL

-----------------------------------------------------------------------------
\* Once a thread has begun, nothing clears its failure mark.
LEMMA StepKeepsFailures ==
  ASSUME IInv, Next, NEW t \in Thread, flag[t] = "failed", pc[t] # "idle"
  PROVE  flag'[t] = "failed"
<1> USE DEF IInv
<1>0. flag \in [Thread -> Flag]  BY DEF ThreadTypes
<1>1. ASSUME NEW s \in Slice, StartChild(s)  PROVE flag'[t] = "failed"
  <2>1. t \notin thread_range[s]
    BY <1>1, SliceOfThread DEF StartChild, StageInv
  <2> QED BY <1>1, <2>1 DEF StartChild
<1>2. CASE \E s \in Slice : TestInit(s) \/ JoinThreads(s) \/ TestCleanup(s)
  BY <1>2 DEF TestInit, TestInitReturns, JoinThreads, TestCleanup, TestCleanupReturns, thread
<1>3. ASSUME NEW s \in Slice, NEW r \in Deaths, Die(s, r)  PROVE flag'[t] = "failed"
  BY <1>3 DEF Die, thread
<1>4. ASSUME NEW u \in Thread,
             \/ StartThread(u) \/ LogError(u) \/ LogSkip(u) \/ TestRun(u)
             \/ ReportFail(u) \/ Crash(u) \/ IgnoredCrash(u)
      PROVE  flag'[t] = "failed"
  <2>1. flag' = flag \/ flag' = [flag EXCEPT ![u] = flag[u]]
        \/ flag' = [flag EXCEPT ![u] = MarkFailed(flag[u])]
        \/ flag' = [flag EXCEPT ![u] = MarkSkipped(flag[u])]
    BY <1>4 DEF StartThread, LogError, LogSkip, TestRun, ReportFail, Return, Crash,
                IgnoredCrash
  <2> QED BY <1>0, <2>1, MarkTypes
<1>5. ASSUME NEW u \in Thread, EndThread(u)  PROVE flag'[t] = "failed"
  <2>1. thread_state[u] \in {"succeeded", "failed", "skipped"}
    BY <1>5 DEF EndThread, CallbackInv
  <2>2. flag' = flag \/ flag' = [flag EXCEPT ![u] = MarkFailed(flag[u])]
        \/ flag' = [flag EXCEPT ![u] = MarkSkipped(flag[u])]
    BY <1>5, <2>1 DEF EndThread
  <2> QED BY <1>0, <2>2, MarkTypes
<1>6. CASE PrintAndReturn  BY <1>6, StuckShape
<1>7. CASE Finished  BY <1>7 DEF Finished, vars, thread
<1> QED BY <1>1, <1>2, <1>3, <1>4, <1>5, <1>6, <1>7 DEF Next

\* No later skip, return value, cleanup or crash hides a failure from the parent,
\* whatever the order in which the threads run.
THEOREM FailuresStay == Spec => FailuresStick
<1>1. IInv /\ [Next]_vars =>
        [\A t \in Thread : flag[t] = "failed" /\ pc[t] # "idle" => flag'[t] = "failed"]_vars
  BY StepKeepsFailures
<1> QED BY <1>1, Invariance, PTL DEF Spec, FailuresStick

-----------------------------------------------------------------------------
\* The rest of TypeOK; a child that has ended has a result.
ChildTypes ==
  /\ result \in [Slice -> TestResult \cup {Unset}]
  /\ main \in [Slice -> Flag]
  /\ \A s \in Slice : at[s] = "ended" => result[s] \in TestResult
  /\ outcome \in {"running", "returned", "exited"}
  /\ verdict \in TestResult \cup {Unset}

\* Only a child that did not end properly leaves the flag of an earlier run behind.
StaleInv ==
  \A t \in Thread :
    at[SliceOf(t)] = "ended" /\ pc[t] = "idle" /\ flag[t] = "failed"
      => Serious(result[SliceOf(t)])

RunningInv == \A t \in Thread : thread_state[t] = "running" => pc[t] # "idle"

\* The parent computes its result when all children have ended.
EndInv == outcome # "running" => \A s \in Slice : at[s] = "ended"

VInv == ChildTypes /\ StaleInv /\ RunningInv /\ EndInv /\ ThreadFailureIsSeen /\ FailureHasACause

\* find_most_serious_result(): of any number of results, the worst.
LEMMA MostSeriousIsWorst ==
  ASSUME NEW S, S # {}, S \subseteq TestResult
  PROVE  MostSerious(S) \in S /\ \A q \in S : q <= MostSerious(S)
<1> USE DEF TestResult, Skipped, Interrupted
<1>1. \E r \in S : \A q \in S : q <= r
  <2> DEFINE Below(k) == \A q \in S : q < k
             Done     == \E r \in S : \A q \in S : q <= r
  <2>1. Below(8)  OBVIOUS
  <2>2. ASSUME NEW k \in -1..7, Below(k + 1)  PROVE Below(k) \/ Done
    <3>1. \A q \in S : q \in Int /\ q <= k  BY <2>2
    <3>2. CASE k \in S  BY <3>1, <3>2
    <3>3. CASE k \notin S
      <4>1. \A q \in S : q # k  BY <3>3
      <4> QED BY <3>1, <4>1
    <3> QED BY <3>2, <3>3
  <2> HIDE DEF Done
  <2>3. Below(7) \/ Done  BY <2>1, <2>2
  <2>4. Below(6) \/ Done  BY <2>2, <2>3
  <2>5. Below(5) \/ Done  BY <2>2, <2>4
  <2>6. Below(4) \/ Done  BY <2>2, <2>5
  <2>7. Below(3) \/ Done  BY <2>2, <2>6
  <2>8. Below(2) \/ Done  BY <2>2, <2>7
  <2>9. Below(1) \/ Done  BY <2>2, <2>8
  <2>10. Below(0) \/ Done  BY <2>2, <2>9
  <2>11. Below(-1) \/ Done  BY <2>2, <2>10
  <2>12. ~Below(-1)
    <3>1. PICK q \in S : q \in -1..7  OBVIOUS
    <3>2. ~(q < -1)  BY <3>1
    <3> QED BY <3>1, <3>2
  <2> QED BY <2>11, <2>12 DEF Done
<1> QED BY <1>1 DEF MostSerious

LEMMA InitVInv == Init => VInv
<1> USE DEF TestResult, Unset, Skipped, Interrupted, Flag
<1> SUFFICES ASSUME Init  PROVE VInv  OBVIOUS
<1>1. ChildTypes /\ EndInv  BY DEF Init, ChildTypes, EndInv
<1>2. StaleInv /\ RunningInv  BY SliceOfThread DEF Init, StaleInv, RunningInv
<1>3. ThreadFailureIsSeen /\ FailureHasACause
  BY DEF Init, ThreadFailureIsSeen, FailureHasACause, Returned
<1> QED BY <1>1, <1>2, <1>3 DEF VInv

\* The steps before the parent's, as far as VInv is concerned: a child goes on or
\* ends, and the flags of threads that have not begun are left alone or reset.
LEMMA ChildVInv ==
  ASSUME IInv, IInv', VInv, UNCHANGED once, NEW s \in Slice, at[s] # "ended",
         NEW e, at' = [at EXCEPT ![s] = e], result' \in [Slice -> TestResult \cup {Unset}],
         main' \in [Slice -> Flag],
         \A r \in Slice \ {s} : result'[r] = result[r], RunningInv',
         e = "ended" => result'[s] \in TestResult,
         \A t \in Thread \ thread_range[s] : pc'[t] = pc[t] /\ flag'[t] = flag[t],
         e = "ended" => \A t \in thread_range[s] :
                          pc'[t] = "idle" /\ flag'[t] = "failed" => Serious(result'[s])
  PROVE  VInv'
<1> USE DEF IInv, VInv, once
<1>1. outcome = "running" /\ outcome' = "running"
  BY DEF EndInv, ChildTypes
<1>2. ChildTypes'
  BY DEF ChildTypes, ThreadTypes
<1>3. StaleInv'
  <2> SUFFICES ASSUME NEW t \in Thread, at'[SliceOf(t)] = "ended", pc'[t] = "idle",
                      flag'[t] = "failed"
               PROVE  Serious(result'[SliceOf(t)])
    BY DEF StaleInv
  <2>1. CASE t \in thread_range[s]
    <3>1. SliceOf(t) = s  BY <2>1, SliceOfThread
    <3>2. e = "ended"  BY <3>1 DEF ThreadTypes
    <3> QED BY <2>1, <3>1, <3>2
  <2>2. CASE t \notin thread_range[s]
    <3>1. SliceOf(t) \in Slice \ {s}  BY <2>2, SliceOfThread
    <3> QED BY <2>2, <3>1 DEF StaleInv, ThreadTypes
  <2> QED BY <2>1, <2>2
<1>4. EndInv' /\ ThreadFailureIsSeen' /\ FailureHasACause'
  BY <1>1 DEF EndInv, ThreadFailureIsSeen, FailureHasACause, Returned
<1> QED BY <1>2, <1>3, <1>4

\* What the parent makes of it: the printed result is a failure exactly if it has
\* a cause in this run.
LEMMA PrintedIsJust ==
  ASSUME IInv, VInv, \A s \in Slice : at[s] = "ended",
         NEW shown, shown = PrintedResult(result, main, flag, thread_state)
  PROVE  /\ shown \in TestResult
         /\ (\A s \in Slice : result[s] \notin OsError) => shown \notin OsError
         /\ (\E t \in Thread : flag[t] = "failed") => Serious(shown)
         /\ shown = Failed => \/ \E s \in Slice : main[s] = "failed" \/ result[s] = Failed
                                \/ \E t \in Thread : pc[t] # "idle" /\ flag[t] = "failed"
<1> USE DEF IInv, VInv
<1> DEFINE results == {result[s] : s \in Slice}
           worst == MostSerious(results)
           failing == {t \in Thread : flag[t] = "failed"}
<1>1. result \in [Slice -> TestResult]  BY DEF ChildTypes
<1>2. results # {} /\ results \subseteq TestResult  BY <1>1, RangeAssumption
<1>3. worst \in results /\ \A q \in results : q <= worst  BY <1>2, MostSeriousIsWorst
<1>4. PICK s \in Slice : result[s] = worst  BY <1>3
<1> HIDE DEF worst
<1>5. shown =
        IF Serious(worst) THEN worst
        ELSE IF failing # {} \/ \E r \in Slice : main[r] = "failed" THEN Failed
        ELSE IF AllSkipped(Thread \ failing, thread_state) THEN Skipped
        ELSE worst
  BY <1>1 DEF PrintedResult, worst, ChildTypes, ThreadTypes
<1>6. worst \in TestResult  BY <1>2, <1>3
<1> HIDE DEF failing, results
<1>7. CASE Serious(worst)
  <2>1. shown = worst  BY <1>5, <1>7
  <2> QED BY <1>4, <1>6, <1>7, <2>1
<1>8. CASE ~Serious(worst) /\ (failing # {} \/ \E r \in Slice : main[r] = "failed")
  <2>1. shown = Failed  BY <1>5, <1>8
  <2>2. Failed \in TestResult /\ Failed \notin OsError /\ Serious(Failed)
    BY DEF TestResult, Failed, OsError, Serious, Skipped, Passed, Interrupted,
           OperatingSystemError, TimedOut, OutOfMemory
  <2>3. \A r \in Slice : ~Serious(result[r])
    BY <1>1, <1>3, <1>6, <1>8
       DEF Serious, TestResult, Skipped, Passed, Interrupted, results
  <2>4. \A t \in failing : pc[t] # "idle"
    BY <2>3, SliceOfThread DEF StaleInv, failing
  <2> QED BY <1>8, <2>1, <2>2, <2>4 DEF failing
<1>9. CASE ~Serious(worst) /\ failing = {} /\ \A r \in Slice : main[r] # "failed"
  <2>1. shown \in {Skipped, worst}  BY <1>5, <1>9
  <2>2. worst \in {Skipped, Passed}  BY <1>9 DEF Serious
  <2> QED BY <1>9, <2>1, <2>2
          DEF failing, TestResult, Failed, OsError, Skipped, Passed, Interrupted,
              OperatingSystemError, TimedOut, OutOfMemory
<1> QED BY <1>7, <1>8, <1>9

LEMMA PrintVInv ==
  ASSUME IInv, VInv, PrintAndReturn
  PROVE  VInv'
<1> USE DEF IInv, VInv
<1> DEFINE shown == PrintedResult(result, main, flag, thread_state)
<1>0. /\ \A s \in Slice : at[s] = "ended"
      /\ UNCHANGED <<at, result, main, thread_state, pc>>
      /\ outcome' = IF EndsProgram(shown, ignore_os_errors) THEN "exited" ELSE "returned"
      /\ verdict' = RunOnceResult(shown, ignore_os_errors)
  BY DEF PrintAndReturn, child
<1>1. /\ shown \in TestResult
      /\ (\A s \in Slice : result[s] \notin OsError) => shown \notin OsError
      /\ (\E t \in Thread : flag[t] = "failed") => Serious(shown)
      /\ shown = Failed => \/ \E s \in Slice : main[s] = "failed" \/ result[s] = Failed
                             \/ \E t \in Thread : pc[t] # "idle" /\ flag[t] = "failed"
  BY <1>0, PrintedIsJust
<1> HIDE DEF shown
<1>2. ChildTypes' /\ EndInv'
  BY <1>0, <1>1 DEF ChildTypes, EndInv, RunOnceResult, TestResult, Skipped, Interrupted
<1>3. \A t \in Thread : pc[t] # "run" => flag'[t] = flag[t]
  BY StuckShape DEF RunningInv, CallbackInv, ThreadTypes, ThreadPc
<1>4. StaleInv'  BY <1>0, <1>3 DEF StaleInv
<1>5. RunningInv'  BY <1>0 DEF RunningInv
<1>6. ThreadFailureIsSeen'
  <2> SUFFICES ASSUME Returned', \A s \in Slice : result[s] \notin OsError,
                      NEW t \in Thread, pc[t] = "done", flag'[t] = "failed"
               PROVE  verdict' \notin {Passed, Skipped}
    BY <1>0 DEF ThreadFailureIsSeen
  <2>1. flag[t] = "failed"  BY <1>3
  <2>2. shown \notin OsError /\ Serious(shown)  BY <1>1, <2>1
  <2> QED BY <1>0, <2>2 DEF RunOnceResult, Serious
<1>7. FailureHasACause'
  <2> SUFFICES ASSUME verdict' = Failed
               PROVE  \/ \E s \in Slice : main[s] = "failed" \/ result[s] = Failed
                      \/ \E t \in Thread : pc[t] # "idle" /\ flag'[t] = "failed"
    BY <1>0 DEF FailureHasACause
  <2>1. shown = Failed  BY <1>0 DEF RunOnceResult, Skipped, Failed
  <2>2. \A t \in Thread : flag[t] = "failed" => flag'[t] = "failed"  BY StuckShape
  <2> QED BY <1>1, <2>1, <2>2
<1> QED BY <1>2, <1>4, <1>5, <1>6, <1>7

LEMMA NextRunningInv ==
  ASSUME IInv, IInv', VInv, Next
  PROVE  RunningInv'
<1> USE DEF IInv, VInv
<1>1. ASSUME NEW s \in Slice, StartChild(s)  PROVE RunningInv'
  BY <1>1 DEF StartChild, RunningInv, ThreadTypes
<1>2. CASE \E s \in Slice : TestInit(s) \/ JoinThreads(s) \/ TestCleanup(s)
  BY <1>2 DEF TestInit, TestInitReturns, JoinThreads, TestCleanup, TestCleanupReturns, thread,
              RunningInv
<1>3. ASSUME NEW s \in Slice, NEW r \in Deaths, Die(s, r)  PROVE RunningInv'
  BY <1>3 DEF Die, thread, RunningInv
<1>4. ASSUME NEW t \in Thread,
             \/ StartThread(t) \/ LogError(t) \/ LogSkip(t) \/ TestRun(t) \/ ReportFail(t)
             \/ EndThread(t) \/ Crash(t) \/ IgnoredCrash(t)
      PROVE  RunningInv'
  <2>1. /\ \A u \in Thread \ {t} : thread_state'[u] = thread_state[u] /\ pc'[u] = pc[u]
        /\ pc'[t] # "idle"
    BY <1>4 DEF StartThread, LogError, LogSkip, TestRun, ReportFail, Return, EndThread, Crash,
                IgnoredCrash, Running, ThreadTypes
  <2> QED BY <2>1 DEF RunningInv
<1>5. CASE PrintAndReturn  BY <1>5 DEF PrintAndReturn, RunningInv
<1>6. CASE Finished  BY <1>6 DEF Finished, vars, thread, RunningInv
<1> QED BY <1>1, <1>2, <1>3, <1>4, <1>5, <1>6 DEF Next

LEMMA NextVInv ==
  ASSUME IInv, IInv', VInv, [Next]_vars
  PROVE  VInv'
<1> USE DEF IInv, VInv
<1> USE DEF Killed, CoreDumped, OperatingSystemError, OutOfMemory, TimedOut
<1>t. /\ {Passed, Skipped, Failed} \cup Deaths \subseteq TestResult
      /\ \A r \in {Failed} \cup Deaths : Serious(r)
  BY DEF TestResult, Interrupted, Deaths, Serious, Passed, Skipped, Failed
<1>m. ChildTypes  OBVIOUS
<1>1. ASSUME NEW s \in Slice, StartChild(s)  PROVE VInv'
  <2>1. RunningInv'  BY <1>1, NextRunningInv DEF Next
  <2>2. at[s] = "start" /\ at' = [at EXCEPT ![s] = "init"]  BY <1>1 DEF StartChild, Enter
  <2>3. main' \in [Slice -> Flag] /\ UNCHANGED <<result, once>>
    BY <1>1 DEF StartChild, ChildTypes, Flag
  <2>4. \A t \in Thread \ thread_range[s] : pc'[t] = pc[t] /\ flag'[t] = flag[t]
    BY <1>1 DEF StartChild
  <2> QED BY <2>1, <2>2, <2>3, <2>4, ChildVInv DEF ChildTypes
<1>2. ASSUME NEW s \in Slice, TestInit(s)  PROVE VInv'
  <2>1. RunningInv'  BY <1>2, NextRunningInv DEF Next
  <2>2. PICK ret \in Ret, f \in LoggedBy(main[s]) : TestInitReturns(s, ret, f)
    BY <1>2 DEF TestInit
  <2>3. f \in Flag  BY <2>2, MarkTypes DEF ChildTypes, LoggedBy
  <2>4. at[s] = "init" /\ UNCHANGED <<thread, once>>  BY <2>2 DEF TestInitReturns
  <2>5. \A t \in thread_range[s] : flag[t] # "failed" \/ pc[t] # "idle"
    BY <2>4, SliceOfThread, RangeAssumption DEF StageInv
  <2>6. CASE InitPasses(s)
    BY <2>1, <2>4, <2>6, ChildVInv DEF InitPasses, Enter, thread, ChildTypes
  <2>7. CASE InitFails(s, ret, f)
    <3>1. main' \in [Slice -> Flag]  BY <2>3, <2>7, MarkTypes DEF InitFails, ChildTypes
    <3>2. /\ at' = [at EXCEPT ![s] = "ended"]
          /\ result' = [result EXCEPT ![s] = Failed]
      BY <2>7 DEF InitFails, ExitWith, Enter
    <3>3. result' \in [Slice -> TestResult \cup {Unset}] /\ result'[s] = Failed
      BY <1>t, <3>2 DEF ChildTypes
    <3> QED BY <1>t, <2>1, <2>4, <3>1, <3>2, <3>3, ChildVInv DEF thread, ChildTypes
  <2>8. CASE InitSkips(s, ret, f)
    <3>1. main' \in [Slice -> Flag]  BY <2>3, <2>8, MarkTypes DEF InitSkips, ChildTypes
    <3>2. /\ at' = [at EXCEPT ![s] = "ended"]
          /\ result' = [result EXCEPT ![s] = Skipped]
      BY <2>8 DEF InitSkips, ExitWith, Enter
    <3>3. result' \in [Slice -> TestResult \cup {Unset}] /\ result'[s] = Skipped
      BY <1>t, <3>2 DEF ChildTypes
    <3> QED BY <1>t, <2>1, <2>4, <2>5, <3>1, <3>2, <3>3, ChildVInv DEF thread, ChildTypes
  <2> QED BY <2>2, <2>6, <2>7, <2>8 DEF TestInitReturns
<1>3. ASSUME NEW s \in Slice, JoinThreads(s)  PROVE VInv'
  <2>1. RunningInv'  BY <1>3, NextRunningInv DEF Next
  <2> QED BY <1>3, <2>1, ChildVInv DEF JoinThreads, Enter, thread, ChildTypes
<1>4. ASSUME NEW s \in Slice, TestCleanup(s)  PROVE VInv'
  <2>1. RunningInv'  BY <1>4, NextRunningInv DEF Next
  <2>2. PICK ret \in Ret, f \in LoggedBy(main[s]) : TestCleanupReturns(s, ret, f)
    BY <1>4 DEF TestCleanup
  <2>3. f \in Flag  BY <2>2, MarkTypes DEF ChildTypes, LoggedBy
  <2>4. at[s] = "cleanup" /\ UNCHANGED <<thread, once>>  BY <2>2 DEF TestCleanupReturns
  <2>5. \A t \in thread_range[s] : pc[t] # "idle"
    BY <2>4, SliceOfThread, RangeAssumption DEF StageInv
  <2>6. main' \in [Slice -> Flag]
    BY <2>2, <2>3, MarkTypes DEF TestCleanupReturns, ChildTypes
  <2>7. PICK r \in {Passed, Skipped, Failed} : ExitWith(s, r)
    BY <2>2 DEF TestCleanupReturns
  <2>8. at' = [at EXCEPT ![s] = "ended"] /\ result' = [result EXCEPT ![s] = r]
    BY <2>7 DEF ExitWith, Enter
  <2>9. result' \in [Slice -> TestResult \cup {Unset}] /\ result'[s] = r
    BY <1>t, <2>8 DEF ChildTypes
  <2> QED BY <1>t, <2>1, <2>4, <2>5, <2>6, <2>8, <2>9, ChildVInv DEF thread, ChildTypes
<1>5. ASSUME NEW s \in Slice, NEW r \in Deaths, Die(s, r)  PROVE VInv'
  <2>1. RunningInv'  BY <1>5, NextRunningInv DEF Next
  <2>2. main' \in [Slice -> Flag]  BY <1>5, MarkTypes DEF Die, ChildTypes
  <2>3. at' = [at EXCEPT ![s] = "ended"] /\ result' = [result EXCEPT ![s] = r]
    BY <1>5 DEF Die, ExitWith, Enter
  <2>4. result' \in [Slice -> TestResult \cup {Unset}] /\ result'[s] = r
    BY <1>t, <2>3 DEF ChildTypes
  <2> QED BY <1>t, <1>5, <2>1, <2>2, <2>3, <2>4, ChildVInv DEF Die, thread, ChildTypes
<1>6. ASSUME NEW t \in Thread,
             \/ StartThread(t) \/ LogError(t) \/ LogSkip(t) \/ TestRun(t)
             \/ ReportFail(t) \/ EndThread(t)
      PROVE  VInv'
  <2>1. RunningInv'  BY <1>6, NextRunningInv DEF Next
  <2>2. at[SliceOf(t)] = "threads" /\ UNCHANGED <<child, once>>
    BY <1>6 DEF StartThread, LogError, LogSkip, TestRun, ReportFail, Return, EndThread, Running
  <2>3. \A u \in Thread \ {t} : pc'[u] = pc[u] /\ flag'[u] = flag[u]
    BY <1>6 DEF StartThread, LogError, LogSkip, TestRun, ReportFail, Return, EndThread,
                CallbackInv, ThreadTypes
  <2>4. SliceOf(t) \in Slice /\ t \in thread_range[SliceOf(t)]  BY SliceOfThread
  <2>5. at' = [at EXCEPT ![SliceOf(t)] = at[SliceOf(t)]]
    BY <2>2, <2>4 DEF child, ThreadTypes
  <2> QED BY <2>1, <2>2, <2>3, <2>4, <2>5, ChildVInv DEF child, ChildTypes
<1>7. ASSUME NEW t \in Thread, Crash(t) \/ IgnoredCrash(t)  PROVE VInv'
  <2>1. RunningInv'  BY <1>7, NextRunningInv DEF Next
  <2>2. at[SliceOf(t)] = "threads" /\ UNCHANGED <<pc, once>>
    BY <1>7 DEF Crash, IgnoredCrash, Running
  <2>3. SliceOf(t) \in Slice /\ t \in thread_range[SliceOf(t)]  BY SliceOfThread
  <2>4. /\ \A u \in Thread \ {t} : flag'[u] = flag[u]
        /\ main' \in [Slice -> Flag]
    BY <1>7, <2>3, MarkTypes DEF Crash, IgnoredCrash, ChildTypes, ThreadTypes
  <2>5. PICK r \in {Skipped, CoreDumped} : ExitWith(SliceOf(t), r)
    BY <1>7 DEF Crash, IgnoredCrash
  <2>6. at' = [at EXCEPT ![SliceOf(t)] = "ended"] /\ result' = [result EXCEPT ![SliceOf(t)] = r]
    BY <2>5 DEF ExitWith, Enter
  <2>7. r \in TestResult  BY <1>t DEF Deaths
  <2>8. result' \in [Slice -> TestResult \cup {Unset}] /\ result'[SliceOf(t)] = r
    BY <2>3, <2>6, <2>7 DEF ChildTypes
  <2>9. \A u \in thread_range[SliceOf(t)] : pc'[u] = "idle" => flag'[u] # "failed"
    <3> SUFFICES ASSUME NEW u \in thread_range[SliceOf(t)], pc[u] = "idle"
                 PROVE  flag'[u] # "failed"
      BY <2>2
    <3>1. u \in Thread /\ SliceOf(u) = SliceOf(t)  BY <2>3, SliceOfThread, RangeAssumption
    <3>2. flag[u] = "clean" /\ u # t
      BY <1>7, <2>2, <3>1 DEF StageInv, Crash, IgnoredCrash, Running
    <3> QED BY <2>4, <3>1, <3>2
  <2> QED BY <2>1, <2>2, <2>3, <2>4, <2>6, <2>7, <2>8, <2>9, ChildVInv DEF ChildTypes
<1>8. CASE PrintAndReturn  BY <1>8, PrintVInv
<1>9. CASE UNCHANGED vars
  BY <1>9 DEF vars, child, thread, once, ChildTypes, StaleInv, RunningInv, EndInv,
              ThreadFailureIsSeen, FailureHasACause, Returned
<1> QED BY <1>1, <1>2, <1>3, <1>4, <1>5, <1>6, <1>7, <1>8, <1>9 DEF Next, Finished

LEMMA Verdicts == Spec => []VInv
<1> QED BY InitVInv, NextVInv, Invariance, PTL DEF Spec

\* Every flag, state, result and verdict is one.
THEOREM TypeCorrect == Spec => []TypeOK
<1>1. IInv /\ VInv => TypeOK
  BY DEF IInv, VInv, ThreadTypes, ChildTypes, TypeOK
<1> QED BY <1>1, Invariance, Verdicts, PTL

\* A thread's failure decides the result of the run, whatever the other threads,
\* the other children, test_init() and test_cleanup() say.
THEOREM FailuresDecide == Spec => []ThreadFailureIsSeen
<1>1. VInv => ThreadFailureIsSeen  BY DEF VInv
<1> QED BY <1>1, Verdicts, PTL

\* A failed run failed for a reason of its own: what an earlier run left in the
\* shared memory cannot do it, not even in a child that could not be started.
THEOREM FailuresAreReal == Spec => []FailureHasACause
<1>1. VInv => FailureHasACause  BY DEF VInv
<1> QED BY <1>1, Verdicts, PTL

-----------------------------------------------------------------------------
(***************************************************************************)
(* The self tests.  Each test function comes to one of a few kinds, by what *)
(* it returns, the marks it logs or the way it ends the child; the story of *)
(* a child says which function of which kind has brought it to its end and  *)
(* what it left behind; what is left behind decides what the parent prints; *)
(* and the table asks for just that.                                       *)
(***************************************************************************)

\* How test_init() or test_cleanup() ends for its child ...
MainKind(b) ==
  IF b.end = "crash" THEN "crash"
  ELSE IF b.end = "failure" \/ MarkedBy("clean", b) = "failed" THEN "fail"
  ELSE IF b.end \in {"skip", "oserror"} \/ MarkedBy("clean", b) = "skipped" THEN "skip"
  ELSE "pass"

\* ... and what it leaves behind.
LeftBy(s, kind) ==
  CASE kind = "crash" -> result[s] = CoreDumped
    [] kind = "fail"  -> result[s] \in {Skipped, Failed} /\ (result[s] = Failed \/ main[s] = "failed")
    [] kind = "skip"  -> result[s] = Skipped /\ main[s] # "failed"
    [] kind = "pass"  -> result[s] = Passed /\ main[s] # "failed"

\* How test_run() ends for its thread.  The last four end the child.
Deadly == {"crash", "sigkill", "exit", "freeze"}
RunKind(b) ==
  LET f == MarkedBy("clean", b) IN
  IF b.end \in Deadly THEN b.end
  ELSE IF b.end = "report_fail" \/ f = "failed" THEN "fail"
  ELSE IF b.end \in {"skip", "oserror"} \/ f = "skipped" THEN "skip"
  ELSE IF b.end = "failure" THEN "fail" ELSE "pass"

ResultOf(kind) ==
  CASE kind = "crash" -> CoreDumped
    [] kind = "sigkill" -> OutOfMemory
    [] kind = "exit" -> OperatingSystemError
    [] kind = "freeze" -> TimedOut

\* The marks of the first n messages.
FirstLogs(b, n) == {b.log[i] : i \in 1..n}
MarkAfter(b, n) ==
  IF "error" \in FirstLogs(b, n) THEN "failed"
  ELSE IF "skip" \in FirstLogs(b, n) THEN "skipped" ELSE "clean"

\* The state of a thread whose test_run() has ended, before and after the second
\* half of cleanup().
StateOf(kind) == CASE kind = "fail" -> "failed" [] kind = "skip" -> "skipped" [] kind = "pass" -> "succeeded"
FlagOf(kind)  == CASE kind = "fail" -> "failed" [] kind = "skip" -> "skipped" [] kind = "pass" -> "clean"

ThreadStory(t) ==
  /\ pc[t] = "idle" => logged[t] = 0
  /\ pc[t] # "idle" => behaviour[t] \in test.run[t]
  /\ pc[t] = "run" => logged[t] \in 0..Len(behaviour[t].log)
  /\ pc[t] = "run" /\ at[SliceOf(t)] = "threads" => flag[t] = MarkAfter(behaviour[t], logged[t])
  /\ pc[t] \in {"mark", "done"} =>
       /\ RunKind(behaviour[t]) \notin Deadly
       /\ thread_state[t] = StateOf(RunKind(behaviour[t]))
       /\ pc[t] = "mark" => flag[t] \in {"clean", FlagOf(RunKind(behaviour[t]))}
       /\ pc[t] = "done" => flag[t] = FlagOf(RunKind(behaviour[t]))

EndsInInit(s) ==
  /\ \E b \in InitFunction(s) : MainKind(b) # "pass" /\ LeftBy(s, MainKind(b))
  /\ \A t \in thread_range[s] :
       pc[t] = "idle" /\ flag[t] = "clean" /\ thread_state[t] = "not_started"

InitHasPassed(s) == \E b \in InitFunction(s) : MainKind(b) = "pass"

EndsInRun(s) ==
  /\ InitHasPassed(s)
  /\ \E t \in thread_range[s] : /\ pc[t] = "run"
                                /\ RunKind(behaviour[t]) \in Deadly
                                /\ result[s] = ResultOf(RunKind(behaviour[t]))

EndsInCleanup(s) ==
  /\ InitHasPassed(s)
  /\ \A t \in thread_range[s] : pc[t] = "done"
  /\ \E b \in test.cleanup[s] : LeftBy(s, MainKind(b))

SliceStory(s) ==
  /\ at[s] # "start" => test.gate # "missing" /\ ~InParent
  /\ at[s] = "init" => \A t \in thread_range[s] : thread_state[t] = "not_started"
  /\ at[s] \in {"init", "threads", "cleanup"} => main[s] = "clean"
  /\ at[s] \in {"threads", "cleanup"} => InitHasPassed(s)
  /\ at[s] = "cleanup" => \A t \in thread_range[s] : pc[t] = "done"
  /\ at[s] = "ended" => EndsInInit(s) \/ EndsInRun(s) \/ EndsInCleanup(s)

\* No child was started, or each has its story.
Unstarted ==
  /\ \A t \in Thread : flag[t] = "clean" /\ thread_state[t] = "not_started"
  /\ \A s \in Slice : at[s] = "ended"
  /\ \/ /\ test.gate # "open"
        /\ \A s \in Slice : result[s] = Skipped /\ main[s] = "skipped"
     \/ /\ InParent
        /\ \E s \in Slice : \E b \in InitFunction(s) :
             \A r \in Slice : /\ result[r] = ResultInParent(b)
                              /\ main[r] = MarkedBy("clean", b)

Started == (\A t \in Thread : ThreadStory(t)) /\ (\A s \in Slice : SliceStory(s))

Story == outcome = "running" => Unstarted \/ Started

\* What the table may hold.
WellFormed(x) ==
  /\ x.init \in [Slice -> SUBSET Behaviour]
  /\ x.run \in [Thread -> SUBSET Behaviour]
  /\ x.cleanup \in [Slice -> SUBSET Behaviour]
  /\ x.quit \in ExitInfo
  /\ x.in_parent =>
       \A s \in Slice : \A b \in x.init[s] : b.end \in Ret /\ MainKind(b) \in {"skip", "fail"}

ScriptTypes ==
  /\ logged \in [Thread -> Nat]
  /\ behaviour \in [Thread -> Behaviour]
  /\ result \in [Slice -> TestResult \cup {Unset}]
  /\ main \in [Slice -> Flag]
  /\ outcome # "running" => \A s \in Slice : at[s] = "ended"

-----------------------------------------------------------------------------
\* The marks a test function can leave.
LEMMA MarkedByType ==
  ASSUME NEW f \in Flag, NEW b
  PROVE  MarkedBy(f, b) \in LoggedBy(f) /\ MarkedBy(f, b) \in Flag
BY DEF MarkedBy, LoggedBy, Flag, MarkFailed, MarkSkipped

\* Logging one message after the other adds the marks up.
LEMMA MarksAddUp ==
  ASSUME NEW b \in Behaviour
  PROVE  /\ Len(b.log) \in Nat
         /\ MarkAfter(b, 0) = "clean"
         /\ MarkAfter(b, Len(b.log)) = MarkedBy("clean", b)
         /\ \A n \in Nat : n < Len(b.log) =>
              /\ b.log[n + 1] = "error" => MarkAfter(b, n + 1) = MarkFailed(MarkAfter(b, n))
              /\ b.log[n + 1] # "error" => MarkAfter(b, n + 1) = MarkSkipped(MarkAfter(b, n))
<1>1. b.log \in Seq({"error", "skip"})  BY DEF Behaviour
<1>2. Len(b.log) \in Nat /\ DOMAIN b.log = 1..Len(b.log)  BY <1>1
<1>3. MarkAfter(b, 0) = "clean"
  <2>1. FirstLogs(b, 0) = {}  BY DEF FirstLogs
  <2> QED BY <2>1 DEF MarkAfter
<1>4. FirstLogs(b, Len(b.log)) = Logged(b.log)  BY <1>2 DEF FirstLogs, Logged
<1>5. MarkAfter(b, Len(b.log)) = MarkedBy("clean", b)
  BY <1>4 DEF MarkAfter, MarkedBy, MarkFailed, MarkSkipped
<1>6. ASSUME NEW n \in Nat, n < Len(b.log)
      PROVE  /\ b.log[n + 1] = "error" => MarkAfter(b, n + 1) = MarkFailed(MarkAfter(b, n))
             /\ b.log[n + 1] # "error" => MarkAfter(b, n + 1) = MarkSkipped(MarkAfter(b, n))
  <2>1. b.log[n + 1] \in {"error", "skip"}  BY <1>1, <1>6
  <2>2. 1..(n + 1) = (1..n) \cup {n + 1}  OBVIOUS
  <2>3. FirstLogs(b, n + 1) = FirstLogs(b, n) \cup {b.log[n + 1]}  BY <2>2 DEF FirstLogs
  <2> QED BY <2>1, <2>3 DEF MarkAfter, MarkFailed, MarkSkipped
<1> QED BY <1>2, <1>3, <1>5, <1>6

\* The framework's own invariant, in all tests of the list one after the other.
LEMMA UnstartedIInv ==
  ASSUME IInv, NEW r, NEW f, EndsUnstarted(r, f)
  PROVE  IInv'
<1> USE DEF IInv
<1>1. /\ \A s \in Slice : at[s] = "start" /\ at'[s] = "ended"
      /\ at' \in [Slice -> Stage]
      /\ flag' = [t \in Thread |-> "clean"] /\ thread_state' = [t \in Thread |-> "not_started"]
      /\ UNCHANGED <<pc, callbacks>>
  BY DEF EndsUnstarted, Stage
<1>2. \A t \in Thread : SliceOf(t) \in Slice /\ pc[t] = "idle"
  BY <1>1, SliceOfThread DEF StageInv
<1>3. ThreadTypes'  BY <1>1 DEF ThreadTypes, Flag, ThreadState
<1> QED BY <1>1, <1>2, <1>3 DEF StageInv, CallbackInv, CallbackOfEveryFailure

LEMMA NextTestIInv ==
  ASSUME IInv, NextTest
  PROVE  IInv'
<1> USE DEF IInv
<1>1. /\ at' = [s \in Slice |-> "start"] /\ pc' = [t \in Thread |-> "idle"]
      /\ callbacks' = [t \in Thread |-> 0] /\ UNCHANGED <<flag, thread_state>>
  BY DEF NextTest
<1>2. ThreadTypes'  BY <1>1 DEF ThreadTypes, Stage, ThreadPc
<1>3. \A t \in Thread : at'[SliceOf(t)] = "start"  BY <1>1, SliceOfThread
<1> QED BY <1>1, <1>2, <1>3 DEF StageInv, CallbackInv, CallbackOfEveryFailure

LEMMA SNextIInv ==
  ASSUME IInv, [SNext]_svars
  PROVE  IInv'
<1>1. CASE SkipUnstarted \/ InitInParent
  BY <1>1, UnstartedIInv DEF SkipUnstarted, InitInParent
<1>2. ASSUME NEW s \in Slice, SliceStep(s)  PROVE IInv'
  <2>1. CASE Start(s)  BY <2>1, StartIInv DEF Start
  <2>2. CASE InitStep(s)
    <3>1. UNCHANGED thread /\ at[s] = "init" /\ (Enter(s, "threads") \/ Enter(s, "ended"))
      BY <2>2 DEF InitStep, TestInitReturns, InitPasses, InitFails, InitSkips, ExitWith, CrashInMain
    <3> QED BY <3>1, MainIInv
  <2>3. CASE CleanupStep(s)
    <3>1. UNCHANGED thread /\ Enter(s, "ended")
      BY <2>3 DEF CleanupStep, TestCleanupReturns, ExitWith, CrashInMain
    <3> QED BY <3>1, MainIInv
  <2>4. CASE TimeOut(s)  BY <2>4, MainIInv DEF TimeOut, Die, ExitWith
  <2>5. CASE JoinThreads(s)  BY <2>5, MainIInv DEF JoinThreads
  <2> QED BY <1>2, <2>1, <2>2, <2>3, <2>4, <2>5 DEF SliceStep
<1>3. ASSUME NEW t \in Thread, ThreadStep(t)  PROVE IInv'
  <2>1. CASE StartRun(t)  BY <2>1, ThreadIInv DEF StartRun
  <2>2. CASE Log(t)  BY <2>2, ThreadIInv DEF Log
  <2>3. CASE EndRun(t)
    <3>1. TestRun(t) \/ ReportFail(t) \/ Crash(t)  BY <2>3 DEF EndRun, TestRun
    <3> QED BY <3>1, ThreadIInv
  <2>4. CASE EndChild(t)
    <3>1. UNCHANGED thread /\ Enter(SliceOf(t), "ended")
      BY <2>4 DEF EndChild, Die, ExitWith
    <3> QED BY <3>1, MainIInv, SliceOfThread
  <2>5. CASE EndThread(t)  BY <2>5, ThreadIInv
  <2> QED BY <1>3, <2>1, <2>2, <2>3, <2>4, <2>5 DEF ThreadStep
<1>4. CASE PrintResult  BY <1>4, PrintIInv DEF PrintResult
<1>5. CASE NextTest  BY <1>5, NextTestIInv
<1>6. CASE UNCHANGED vars
  BY <1>6 DEF vars, child, thread, IInv, ThreadTypes, StageInv, CallbackInv,
              CallbackOfEveryFailure
<1> QED BY <1>1, <1>2, <1>3, <1>4, <1>5, <1>6 DEF SNext, Finished, svars

-----------------------------------------------------------------------------
\* A step of one child and its threads: the stories of the others go on.
LEMMA OneSliceStory ==
  ASSUME Started, NEW s \in Slice, UNCHANGED test,
         \A r \in Slice \ {s} : at'[r] = at[r] /\ result'[r] = result[r] /\ main'[r] = main[r],
         \A t \in Thread : t \notin thread_range[s] =>
           /\ flag'[t] = flag[t] /\ thread_state'[t] = thread_state[t] /\ pc'[t] = pc[t]
           /\ behaviour'[t] = behaviour[t] /\ logged'[t] = logged[t],
         SliceStory(s)', \A t \in thread_range[s] : ThreadStory(t)'
  PROVE  Started'
<1>1. ASSUME NEW t \in Thread  PROVE ThreadStory(t)'
  <2>1. CASE t \in thread_range[s]  BY <2>1
  <2>2. CASE t \notin thread_range[s]
    <3>1. SliceOf(t) \in Slice \ {s}  BY <2>2, SliceOfThread
    <3> QED BY <2>2, <3>1 DEF Started, ThreadStory
  <2> QED BY <2>1, <2>2
<1>2. ASSUME NEW r \in Slice, r # s  PROVE SliceStory(r)'
  <2>0. SliceStory(r)  BY DEF Started
  <2>1. \A t \in thread_range[r] :
          /\ t \in Thread /\ flag'[t] = flag[t] /\ thread_state'[t] = thread_state[t]
          /\ pc'[t] = pc[t] /\ behaviour'[t] = behaviour[t]
    <3> SUFFICES ASSUME NEW t \in thread_range[r]
                 PROVE  t \in Thread /\ t \notin thread_range[s]
      BY Zenon
    <3>1. t \in Thread  BY RangeAssumption
    <3> QED BY <1>2, <3>1, SliceOfThread
  <2>2. /\ InParent' = InParent /\ test'.gate = test.gate /\ test'.cleanup = test.cleanup
        /\ InitFunction(r)' = InitFunction(r)
    BY DEF InParent, InitFunction
  <2>3. \A k : LeftBy(r, k)' = LeftBy(r, k)  BY <1>2 DEF LeftBy
  <2>4. EndsInInit(r) => EndsInInit(r)'  BY <2>1, <2>2, <2>3 DEF EndsInInit
  <2>5. InitHasPassed(r)' = InitHasPassed(r)  BY <2>2 DEF InitHasPassed
  <2>6. EndsInRun(r) => EndsInRun(r)'  BY <1>2, <2>1, <2>5 DEF EndsInRun
  <2>7. EndsInCleanup(r) => EndsInCleanup(r)'
    BY <2>1, <2>2, <2>3, <2>5 DEF EndsInCleanup
  <2> QED BY <1>2, <2>0, <2>1, <2>2, <2>4, <2>5, <2>6, <2>7 DEF SliceStory
<1> QED BY <1>1, <1>2 DEF Started

\* A step of one thread, which may end its child.
LEMMA OneThreadStory ==
  ASSUME Started, NEW t \in Thread, UNCHANGED test, at[SliceOf(t)] = "threads",
         at'[SliceOf(t)] \in {"threads", "ended"},
         \A r \in Slice \ {SliceOf(t)} :
           at'[r] = at[r] /\ result'[r] = result[r] /\ main'[r] = main[r],
         \A u \in Thread \ {t} :
           /\ flag'[u] = flag[u] /\ thread_state'[u] = thread_state[u] /\ pc'[u] = pc[u]
           /\ behaviour'[u] = behaviour[u] /\ logged'[u] = logged[u],
         ThreadStory(t)',
         at'[SliceOf(t)] = "threads" => main'[SliceOf(t)] = main[SliceOf(t)],
         at'[SliceOf(t)] = "ended" => /\ pc'[t] = "run" /\ RunKind(behaviour'[t]) \in Deadly
                                      /\ result'[SliceOf(t)] = ResultOf(RunKind(behaviour'[t]))
  PROVE  Started'
<1> DEFINE s == SliceOf(t)
<1>0. s \in Slice /\ t \in thread_range[s] /\ \A u \in thread_range[s] : u \in Thread
  BY SliceOfThread, RangeAssumption
<1>1. ASSUME NEW u \in thread_range[s]  PROVE ThreadStory(u)'
  <2>1. CASE u = t  BY <2>1
  <2>2. CASE u # t
    <3>1. u \in Thread /\ SliceOf(u) = s  BY <1>0, SliceOfThread
    <3>2. ThreadStory(u)  BY <3>1 DEF Started
    <3> QED BY <2>2, <3>1, <3>2 DEF ThreadStory
  <2> QED BY <2>1, <2>2
<1>2. SliceStory(s)'
  <2>1. SliceStory(s)  BY <1>0 DEF Started
  <2>2. /\ InParent' = InParent /\ test'.gate = test.gate
        /\ InitFunction(s)' = InitFunction(s)
    BY DEF InParent, InitFunction
  <2>3. InitHasPassed(s)' /\ test'.gate # "missing" /\ ~InParent'
    BY <2>1, <2>2 DEF SliceStory, InitHasPassed
  <2>4. at'[s] = "ended" => EndsInRun(s)'  BY <1>0, <2>3 DEF EndsInRun
  <2> HIDE DEF s
  <2> QED BY <2>1, <2>3, <2>4 DEF SliceStory, s
<1> HIDE DEF s
<1>3. \A u \in Thread : u \notin thread_range[s] => u # t  BY <1>0
<1> QED BY <1>0, <1>1, <1>2, <1>3, OneSliceStory DEF s

-----------------------------------------------------------------------------
\* What cleanup() makes of a test_run() that returns or reports a failure.
LEMMA ReturnsAsItsKind ==
  ASSUME NEW b \in Behaviour
  PROVE  /\ b.end \in Ret =>
              /\ RunKind(b) \in {"pass", "skip", "fail"}
              /\ NewState(MarkedBy("clean", b), b.end) = StateOf(RunKind(b))
              /\ MarkedBy("clean", b) \in {"clean", FlagOf(RunKind(b))}
         /\ b.end = "report_fail" => RunKind(b) = "fail"
         /\ b.end \in Deadly => RunKind(b) = b.end
<1>1. MarkedBy("clean", b) \in Flag  BY MarkedByType DEF Flag
<1>2. CASE b.end \in Ret
  <2>1. b.end \notin Deadly /\ b.end # "report_fail"  BY <1>2 DEF Ret, Deadly
  <2>2. CASE MarkedBy("clean", b) = "failed"
    BY <1>2, <2>1, <2>2 DEF RunKind, NewState, StateOf, FlagOf
  <2>3. CASE MarkedBy("clean", b) = "skipped"
    BY <1>2, <2>1, <2>3 DEF RunKind, NewState, StateOf, FlagOf
  <2>4. CASE MarkedBy("clean", b) = "clean"
    BY <1>2, <2>1, <2>4 DEF RunKind, NewState, StateOf, FlagOf, Ret
  <2> QED BY <1>1, <1>2, <2>1, <2>2, <2>3, <2>4 DEF Flag, Deadly
<1>3. CASE b.end = "report_fail"  BY <1>3 DEF RunKind, Deadly, Ret
<1>4. CASE b.end \in Deadly  BY <1>4 DEF RunKind, Deadly, Ret
<1> QED BY <1>2, <1>3, <1>4

\* How SIGKILL and _exit() end a child.
LEMMA DeathsAreSeen ==
  /\ ResultFromExit([code |-> "killed", status |-> SIGKILL]) = OutOfMemory
  /\ ResultFromExit([code |-> "exited", status |-> EX_CONFIG]) = OperatingSystemError
<1>1. AsInt8(EX_CONFIG) = 78  BY DEF AsInt8, EX_CONFIG
<1>2. FromExitStatus(EX_CONFIG) = OperatingSystemError  BY <1>1 DEF FromExitStatus
<1>3. FromSignal("killed", SIGKILL) = OutOfMemory  BY DEF FromSignal, SIGKILL, SIGQUIT
<1> QED BY <1>2, <1>3 DEF ResultFromExit

LEMMA ThreadStepStory ==
  ASSUME IInv, ScriptTypes, WellFormed(test), Started, NEW t \in Thread, ThreadStep(t)
  PROVE  Started'
<1> DEFINE s == SliceOf(t)
<1>0. /\ s \in Slice /\ ThreadStory(t) /\ SliceStory(s)
      /\ behaviour[t] \in Behaviour /\ logged[t] \in Nat /\ flag[t] \in Flag
  BY SliceOfThread DEF Started, ScriptTypes, IInv, ThreadTypes
<1>t. /\ at \in [Slice -> Stage] /\ flag \in [Thread -> Flag] /\ pc \in [Thread -> ThreadPc]
      /\ thread_state \in [Thread -> ThreadState]
      /\ logged \in [Thread -> Nat] /\ behaviour \in [Thread -> Behaviour]
      /\ result \in [Slice -> TestResult \cup {Unset}] /\ main \in [Slice -> Flag]
  BY DEF ScriptTypes, IInv, ThreadTypes
<1>1. CASE StartRun(t)
  <2>1. /\ at[s] = "threads" /\ pc[t] = "idle" /\ pc' = [pc EXCEPT ![t] = "run"]
        /\ thread_state' = [thread_state EXCEPT ![t] = "running"]
        /\ UNCHANGED <<child, flag>>
    BY <1>1 DEF StartRun, StartThread
  <2>2. PICK b \in test.run[t] : behaviour' = [behaviour EXCEPT ![t] = b]
    BY <1>1 DEF StartRun
  <2>3. UNCHANGED <<test, logged>>  BY <1>1 DEF StartRun
  <2>4. b \in Behaviour  BY <2>2 DEF WellFormed
  <2>5. logged[t] = 0 /\ flag[t] = "clean"  BY <1>0, <2>1 DEF ThreadStory, IInv, StageInv
  <2>6. pc'[t] = "run" /\ behaviour'[t] = b  BY <1>t, <2>1, <2>2
  <2>7. ThreadStory(t)'
    BY <2>1, <2>2, <2>3, <2>4, <2>5, <2>6, MarksAddUp DEF ThreadStory, child
  <2>8. \A u \in Thread \ {t} : /\ pc'[u] = pc[u] /\ thread_state'[u] = thread_state[u]
                                /\ behaviour'[u] = behaviour[u]
    BY <1>t, <2>1, <2>2
  <2> QED BY <2>1, <2>3, <2>7, <2>8, OneThreadStory DEF child
<1>2. CASE Log(t)
  <2>1. /\ Running(t) /\ logged[t] < Len(behaviour[t].log)
        /\ logged' = [logged EXCEPT ![t] = logged[t] + 1]
        /\ UNCHANGED <<test, behaviour, child, thread_state, pc>>
    BY <1>2 DEF Log, LogError, LogSkip
  <2>2. flag' = [flag EXCEPT ![t] = IF behaviour[t].log[logged[t] + 1] = "error"
                                    THEN MarkFailed(flag[t]) ELSE MarkSkipped(flag[t])]
    BY <1>2 DEF Log, LogError, LogSkip
  <2>3. at[s] = "threads" /\ pc[t] = "run"  BY <2>1 DEF Running
  <2>4. flag[t] = MarkAfter(behaviour[t], logged[t])  BY <1>0, <2>3 DEF ThreadStory
  <2>5. flag'[t] = MarkAfter(behaviour[t], logged[t] + 1) /\ logged'[t] = logged[t] + 1
    BY <1>0, <1>t, <2>1, <2>2, <2>4, MarksAddUp
  <2>6. logged'[t] \in 0..Len(behaviour[t].log)  BY <1>0, <2>1, <2>5, MarksAddUp
  <2>7. ThreadStory(t)'  BY <1>0, <2>1, <2>3, <2>5, <2>6 DEF ThreadStory, child
  <2>8. \A u \in Thread \ {t} : flag'[u] = flag[u] /\ logged'[u] = logged[u]
    BY <1>t, <2>1, <2>2
  <2> QED BY <2>1, <2>3, <2>7, <2>8, OneThreadStory DEF child
<1>3. ASSUME NEW ret \in Ret, Ends(t, ret), Return(t, ret, flag[t]), UNCHANGED selftest
      PROVE  Started'
  <2>1. /\ at[s] = "threads" /\ pc[t] = "run"
        /\ flag' = [flag EXCEPT ![t] = flag[t]]
        /\ thread_state' = [thread_state EXCEPT ![t] = NewState(flag[t], ret)]
        /\ pc' = [pc EXCEPT ![t] = "mark"] /\ UNCHANGED <<child, test, behaviour, logged>>
    BY <1>3 DEF Return, Running, selftest, script
  <2>2. behaviour[t].end = ret /\ flag[t] = MarkedBy("clean", behaviour[t])
    BY <1>0, <1>3, <2>1, MarksAddUp DEF ThreadStory, Ends
  <2>3. /\ RunKind(behaviour[t]) \in {"pass", "skip", "fail"}
        /\ thread_state'[t] = StateOf(RunKind(behaviour[t]))
        /\ flag'[t] \in {"clean", FlagOf(RunKind(behaviour[t]))} /\ pc'[t] = "mark"
    BY <1>0, <1>t, <2>1, <2>2, ReturnsAsItsKind
  <2>4. ThreadStory(t)'  BY <1>0, <2>1, <2>3 DEF ThreadStory, Deadly
  <2>5. \A u \in Thread \ {t} : /\ flag'[u] = flag[u] /\ pc'[u] = pc[u]
                                /\ thread_state'[u] = thread_state[u]
    BY <1>t, <2>1
  <2> QED BY <2>1, <2>4, <2>5, OneThreadStory DEF child
<1>4. CASE Ends(t, "report_fail") /\ ReportFail(t) /\ UNCHANGED selftest
  <2>1. /\ at[s] = "threads" /\ pc[t] = "run"
        /\ flag' = [flag EXCEPT ![t] = "failed"]
        /\ thread_state' = [thread_state EXCEPT ![t] = NewState("failed", "failure")]
        /\ pc' = [pc EXCEPT ![t] = "mark"] /\ UNCHANGED <<child, test, behaviour, logged>>
    BY <1>4 DEF ReportFail, Return, Running, selftest, script, MarkFailed
  <2>2. RunKind(behaviour[t]) = "fail"  BY <1>0, <1>4, ReturnsAsItsKind DEF Ends
  <2>3. thread_state'[t] = "failed" /\ flag'[t] = "failed" /\ pc'[t] = "mark"
    BY <1>t, <2>1 DEF NewState
  <2>4. ThreadStory(t)'
    BY <1>0, <2>1, <2>2, <2>3 DEF ThreadStory, Deadly, StateOf, FlagOf
  <2>5. \A u \in Thread \ {t} : /\ flag'[u] = flag[u] /\ pc'[u] = pc[u]
                                /\ thread_state'[u] = thread_state[u]
    BY <1>t, <2>1
  <2> QED BY <2>1, <2>4, <2>5, OneThreadStory DEF child
\* The ends of the whole child.
<1>5. ASSUME Running(t), NEW end \in Deadly, Ends(t, end), ExitWith(s, ResultOf(end)),
             UNCHANGED <<selftest, thread_state, pc>>,
             \A r \in Slice \ {s} : main'[r] = main[r],
             \A u \in Thread \ {t} : flag'[u] = flag[u]
      PROVE  Started'
  <2>1. /\ at[s] = "threads" /\ pc[t] = "run"
        /\ at' = [at EXCEPT ![s] = "ended"] /\ result' = [result EXCEPT ![s] = ResultOf(end)]
        /\ UNCHANGED <<test, behaviour, logged>>
    BY <1>5 DEF Running, ExitWith, Enter, selftest, script
  <2>2. RunKind(behaviour[t]) = end  BY <1>0, <1>5, ReturnsAsItsKind DEF Ends
  <2>3. at'[s] = "ended" /\ result'[s] = ResultOf(end)  BY <1>0, <1>t, <2>1
  <2>4. ThreadStory(t)'  BY <1>0, <1>5, <2>1, <2>3 DEF ThreadStory
  <2>5. \A r \in Slice \ {s} : at'[r] = at[r] /\ result'[r] = result[r]  BY <1>t, <2>1
  <2> HIDE DEF s
  <2> QED BY <1>5, <2>1, <2>2, <2>3, <2>4, <2>5, OneThreadStory DEF s
<1>6. CASE Ends(t, "crash") /\ Crash(t) /\ UNCHANGED selftest
  <2>1. /\ Running(t) /\ ExitWith(s, ResultOf("crash")) /\ UNCHANGED <<thread_state, pc, main>>
        /\ \A u \in Thread \ {t} : flag'[u] = flag[u]
    BY <1>6, <1>t DEF Crash, ResultOf
  <2> QED BY <1>5, <1>6, <2>1 DEF Deadly
<1>7. CASE EndChild(t)
  <2>1. PICK end \in {"sigkill", "exit"} : Ends(t, end) /\ Die(s, ResultOf(end))
    BY <1>7, DeathsAreSeen DEF EndChild, ResultOf
  <2>2. ResultOf(end) # TimedOut
    BY DEF ResultOf, TimedOut, OutOfMemory, OperatingSystemError
  <2>3. Running(t) /\ UNCHANGED selftest  BY <1>7 DEF EndChild
  <2>4. ExitWith(s, ResultOf(end)) /\ UNCHANGED <<main, flag, thread_state, pc>>
    BY <2>1, <2>2 DEF Die, thread
  <2> QED BY <1>5, <2>1, <2>3, <2>4 DEF Deadly
<1>8. CASE EndThread(t) /\ UNCHANGED selftest
  <2>1. /\ at[s] = "threads" /\ pc[t] = "mark" /\ pc' = [pc EXCEPT ![t] = "done"]
        /\ UNCHANGED <<child, thread_state, test, behaviour, logged>>
    BY <1>8 DEF EndThread, selftest, script
  <2>2. PICK kind \in {"pass", "skip", "fail"} : RunKind(behaviour[t]) = kind
    BY <1>0, <2>1 DEF ThreadStory, RunKind, Deadly
  <2>3. thread_state[t] = StateOf(kind) /\ flag[t] \in {"clean", FlagOf(kind)}
    BY <1>0, <2>1, <2>2 DEF ThreadStory
  <2>4. flag' = [flag EXCEPT ![t] = FlagOf(kind)]
    <3>1. CASE kind = "pass"
      BY <1>8, <1>t, <2>3, <3>1 DEF EndThread, StateOf, FlagOf
    <3>2. CASE kind = "skip"
      BY <1>8, <2>3, <3>2 DEF EndThread, StateOf, FlagOf, MarkSkipped
    <3>3. CASE kind = "fail"
      BY <1>8, <2>3, <3>3 DEF EndThread, StateOf, FlagOf, MarkFailed
    <3> QED BY <3>1, <3>2, <3>3
  <2>5. pc'[t] = "done" /\ flag'[t] = FlagOf(kind)  BY <1>t, <2>1, <2>4
  <2>6. ThreadStory(t)'  BY <1>0, <2>1, <2>2, <2>3, <2>5 DEF ThreadStory, Deadly
  <2>7. \A u \in Thread \ {t} : flag'[u] = flag[u] /\ pc'[u] = pc[u]  BY <1>t, <2>1, <2>4
  <2> QED BY <2>1, <2>6, <2>7, OneThreadStory DEF child
<1> QED BY <1>1, <1>2, <1>3, <1>4, <1>6, <1>7, <1>8 DEF ThreadStep, EndRun

\* A step of the main thread of a child.
LEMMA MainStepStory ==
  ASSUME IInv, ScriptTypes, Started, NEW s \in Slice, UNCHANGED <<thread, test, script>>,
         NEW stage \in Stage, at[s] # "ended", at' = [at EXCEPT ![s] = stage],
         \A r \in Slice \ {s} : result'[r] = result[r] /\ main'[r] = main[r],
         SliceStory(s)', at[s] = "threads" => stage \in {"cleanup", "ended"}
  PROVE  Started'
<1>1. at \in [Slice -> Stage]  BY DEF IInv, ThreadTypes
<1>2. \A r \in Slice \ {s} : at'[r] = at[r]  BY <1>1
<1>3. ASSUME NEW t \in thread_range[s]  PROVE ThreadStory(t)'
  <2>1. t \in Thread /\ SliceOf(t) = s  BY SliceOfThread, RangeAssumption
  <2>2. ThreadStory(t)  BY <2>1 DEF Started
  <2>3. pc[t] = "run" => at[s] \in {"threads", "cleanup", "ended"}
    BY <2>1 DEF IInv, StageInv
  <2>4. at[s] = "cleanup" => pc[t] = "done"  BY <2>1 DEF Started, SliceStory
  <2>5. ~(pc[t] = "run" /\ at'[s] = "threads")
    <3>1. at'[s] = stage  BY <1>1
    <3> QED BY <2>3, <2>4, <3>1
  <2> QED BY <2>1, <2>2, <2>5 DEF ThreadStory, thread, script
<1> QED BY <1>2, <1>3, OneSliceStory DEF thread, script

LEMMA StartStory ==
  ASSUME IInv, ScriptTypes, Started, NEW s \in Slice, Start(s)
  PROVE  Started'
<1>1. /\ test.gate # "missing" /\ ~InParent /\ at[s] = "start"
      /\ at' = [at EXCEPT ![s] = "init"] /\ main' = [main EXCEPT ![s] = "clean"]
      /\ flag' = [t \in Thread |-> IF t \in thread_range[s] THEN "clean" ELSE flag[t]]
      /\ thread_state' =
           [t \in Thread |-> IF t \in thread_range[s] THEN "not_started" ELSE thread_state[t]]
      /\ UNCHANGED <<result, pc, test, behaviour, logged>>
  BY DEF Start, StartChild, Enter, selftest, script
<1>2. /\ at'[s] = "init" /\ main'[s] = "clean" /\ InParent' = InParent
      /\ \A r \in Slice \ {s} : at'[r] = at[r] /\ main'[r] = main[r]
  BY <1>1 DEF ScriptTypes, IInv, ThreadTypes, InParent
<1>3. ASSUME NEW t \in thread_range[s]
      PROVE  t \in Thread /\ pc[t] = "idle" /\ ThreadStory(t)'
  <2>1. t \in Thread /\ SliceOf(t) = s  BY SliceOfThread, RangeAssumption
  <2>2. pc[t] = "idle"  BY <1>1, <2>1 DEF IInv, StageInv
  <2>3. logged[t] = 0  BY <2>1, <2>2 DEF Started, ThreadStory
  <2> QED BY <1>1, <2>1, <2>2, <2>3 DEF ThreadStory
<1>4. SliceStory(s)'  BY <1>1, <1>2, <1>3 DEF SliceStory
<1>5. \A t \in Thread : t \notin thread_range[s] =>
        flag'[t] = flag[t] /\ thread_state'[t] = thread_state[t]
  BY <1>1
<1> QED BY <1>1, <1>2, <1>3, <1>4, <1>5, OneSliceStory

LEMMA InitStepStory ==
  ASSUME IInv, ScriptTypes, WellFormed(test), Started, NEW s \in Slice, InitStep(s)
  PROVE  Started'
<1>0. /\ at \in [Slice -> Stage] /\ result \in [Slice -> TestResult \cup {Unset}]
      /\ main \in [Slice -> Flag]
  BY DEF ScriptTypes, IInv, ThreadTypes
<1>1. PICK b \in InitFunction(s) :
        \/ b.end \in Ret /\ TestInitReturns(s, b.end, MarkedBy(main[s], b))
        \/ b.end = "crash" /\ at[s] = "init" /\ CrashInMain(s)
  BY DEF InitStep
<1>2. at[s] = "init" /\ UNCHANGED <<thread, test, script>>
  BY <1>1 DEF InitStep, TestInitReturns, CrashInMain, selftest
<1>3. /\ SliceStory(s) /\ main[s] = "clean" /\ test.gate # "missing" /\ ~InParent
      /\ \A t \in thread_range[s] : thread_state[t] = "not_started"
  BY <1>2 DEF Started, SliceStory
<1>4. \A t \in thread_range[s] : pc[t] = "idle" /\ flag[t] = "clean"
  <2> SUFFICES ASSUME NEW t \in thread_range[s]  PROVE pc[t] = "idle" /\ flag[t] = "clean"
    OBVIOUS
  <2>1. t \in Thread /\ SliceOf(t) = s  BY SliceOfThread, RangeAssumption
  <2> QED BY <1>2, <2>1 DEF IInv, StageInv
<1>5. InParent' = InParent /\ InitFunction(s)' = InitFunction(s) /\ test'.gate = test.gate
  BY <1>2 DEF InParent, InitFunction
<1> DEFINE f == MarkedBy("clean", b)
<1>f. f \in Flag  BY MarkedByType DEF Flag
\* It ended the child.
<1>6. ASSUME ExitWith(s, result'[s]), NEW k \in {"crash", "fail", "skip"}, MainKind(b) = k,
             LeftBy(s, k)', \A r \in Slice \ {s} : main'[r] = main[r]
      PROVE  Started'
  <2>1. /\ at' = [at EXCEPT ![s] = "ended"] /\ at'[s] = "ended"
        /\ \A r \in Slice \ {s} : result'[r] = result[r]
    BY <1>0, <1>6 DEF ExitWith, Enter
  <2>2. EndsInInit(s)'  BY <1>2, <1>3, <1>4, <1>5, <1>6 DEF EndsInInit, thread
  <2>3. SliceStory(s)'  BY <1>3, <1>5, <2>1, <2>2 DEF SliceStory
  <2> QED BY <1>2, <1>6, <2>1, <2>3, MainStepStory DEF Stage
<1>7. CASE b.end = "crash" /\ CrashInMain(s)
  <2>1. /\ result' = [result EXCEPT ![s] = CoreDumped] /\ ExitWith(s, CoreDumped)
        /\ main' = [main EXCEPT ![s] = MarkFailed(main[s])]
    BY <1>7 DEF CrashInMain, ExitWith
  <2>2. result'[s] = CoreDumped /\ \A r \in Slice \ {s} : main'[r] = main[r]
    BY <1>0, <2>1
  <2>3. MainKind(b) = "crash"  BY <1>7 DEF MainKind
  <2> QED BY <1>6, <2>1, <2>2, <2>3 DEF LeftBy
<1>8. CASE b.end \in Ret /\ b.end = "success" /\ f = "clean" /\ InitPasses(s)
  <2>1. /\ at' = [at EXCEPT ![s] = "threads"] /\ at'[s] = "threads"
        /\ UNCHANGED <<result, main>>
    BY <1>0, <1>8 DEF InitPasses, Enter
  <2>2. MainKind(b) = "pass"  BY <1>8 DEF MainKind
  <2>3. SliceStory(s)'  BY <1>3, <1>5, <2>1, <2>2 DEF SliceStory, InitHasPassed
  <2> QED BY <1>2, <2>1, <2>3, MainStepStory DEF Stage
<1>9. CASE b.end \in Ret /\ InitFails(s, b.end, f)
  <2>1. /\ main' = [main EXCEPT ![s] = MarkFailed(f)] /\ result' = [result EXCEPT ![s] = Failed]
        /\ ExitWith(s, Failed)
    BY <1>9 DEF InitFails, ExitWith
  <2>2. result'[s] = Failed /\ \A r \in Slice \ {s} : main'[r] = main[r]
    BY <1>0, <2>1
  <2>3. MainKind(b) = "fail"  BY <1>9 DEF MainKind, InitFails, Ret
  <2> QED BY <1>6, <2>1, <2>2, <2>3 DEF LeftBy
<1>10. CASE b.end \in Ret /\ InitSkips(s, b.end, f)
  <2>1. /\ main' = [main EXCEPT ![s] = IF b.end = "oserror" THEN MarkSkipped(f) ELSE f]
        /\ result' = [result EXCEPT ![s] = Skipped] /\ ExitWith(s, Skipped)
    BY <1>10 DEF InitSkips, ExitWith
  <2>2. result'[s] = Skipped /\ (\A r \in Slice \ {s} : main'[r] = main[r])
    BY <1>0, <2>1
  <2>3. main'[s] = IF b.end = "oserror" THEN MarkSkipped(f) ELSE f
    BY <1>0, <2>1
  <2>4. f = "failed" => main'[s] = "failed" /\ MainKind(b) = "fail"
    BY <1>10, <2>3 DEF MainKind, Ret, MarkSkipped
  <2>5. f # "failed" => main'[s] # "failed" /\ MainKind(b) = "skip"
    BY <1>10, <1>f, <2>3 DEF MainKind, Ret, MarkSkipped, InitSkips, Flag
  <2> HIDE DEF f
  <2> QED BY <1>6, <2>1, <2>2, <2>4, <2>5 DEF LeftBy
<1> QED BY <1>1, <1>3, <1>7, <1>8, <1>9, <1>10 DEF TestInitReturns

LEMMA CleanupStepStory ==
  ASSUME IInv, ScriptTypes, Started, NEW s \in Slice, CleanupStep(s)
  PROVE  Started'
<1>0. /\ at \in [Slice -> Stage] /\ result \in [Slice -> TestResult \cup {Unset}]
      /\ main \in [Slice -> Flag]
  BY DEF ScriptTypes, IInv, ThreadTypes
<1>1. PICK b \in test.cleanup[s] :
        \/ b.end \in Ret /\ TestCleanupReturns(s, b.end, MarkedBy(main[s], b))
        \/ b.end = "crash" /\ at[s] = "cleanup" /\ CrashInMain(s)
  BY DEF CleanupStep
<1>2. at[s] = "cleanup" /\ UNCHANGED <<thread, test, script>>
  BY <1>1 DEF CleanupStep, TestCleanupReturns, CrashInMain, selftest
<1>3. /\ SliceStory(s) /\ main[s] = "clean" /\ test.gate # "missing" /\ ~InParent
      /\ InitHasPassed(s) /\ \A t \in thread_range[s] : pc[t] = "done"
  BY <1>2 DEF Started, SliceStory
<1>5. /\ InParent' = InParent /\ InitHasPassed(s)' = InitHasPassed(s)
      /\ test'.gate = test.gate /\ test'.cleanup = test.cleanup
  BY <1>2 DEF InParent, InitFunction, InitHasPassed
<1> DEFINE f == MarkedBy("clean", b)
<1>f. f \in Flag  BY MarkedByType DEF Flag
<1>6. ASSUME ExitWith(s, result'[s]), LeftBy(s, MainKind(b))',
             \A r \in Slice \ {s} : main'[r] = main[r]
      PROVE  Started'
  <2>1. /\ at' = [at EXCEPT ![s] = "ended"] /\ at'[s] = "ended"
        /\ \A r \in Slice \ {s} : result'[r] = result[r]
    BY <1>0, <1>6 DEF ExitWith, Enter
  <2>2. EndsInCleanup(s)'  BY <1>2, <1>3, <1>5, <1>6 DEF EndsInCleanup, thread
  <2>3. SliceStory(s)'  BY <1>3, <1>5, <2>1, <2>2 DEF SliceStory
  <2> QED BY <1>2, <1>6, <2>1, <2>3, MainStepStory DEF Stage
<1>7. CASE b.end = "crash" /\ CrashInMain(s)
  <2>1. /\ result' = [result EXCEPT ![s] = CoreDumped] /\ ExitWith(s, CoreDumped)
        /\ main' = [main EXCEPT ![s] = MarkFailed(main[s])]
    BY <1>7 DEF CrashInMain, ExitWith
  <2>2. result'[s] = CoreDumped /\ \A r \in Slice \ {s} : main'[r] = main[r]
    BY <1>0, <2>1
  <2>3. MainKind(b) = "crash"  BY <1>7 DEF MainKind
  <2> QED BY <1>6, <2>1, <2>2, <2>3 DEF LeftBy
<1>8. CASE b.end = "failure" \/ (b.end \in Ret /\ f = "failed")
  <2>1. main' = [main EXCEPT ![s] = f] /\ ExitWith(s, Failed) /\ MainKind(b) = "fail"
    BY <1>1, <1>3, <1>8 DEF TestCleanupReturns, MainKind, Ret
  <2>2. result' = [result EXCEPT ![s] = Failed]  BY <2>1 DEF ExitWith
  <2>3. result'[s] = Failed /\ \A r \in Slice \ {s} : main'[r] = main[r]
    BY <1>0, <2>1, <2>2
  <2> QED BY <1>6, <2>1, <2>3 DEF LeftBy
<1>9. CASE b.end \in Ret \ {"failure"} /\ f # "failed"
  <2>1. CASE b.end \in {"skip", "oserror"} \/ f = "skipped"
    <3>1. /\ main' = [main EXCEPT ![s] = MarkSkipped(f)] /\ ExitWith(s, Skipped)
          /\ MainKind(b) = "skip"
      BY <1>1, <1>3, <1>9, <2>1 DEF TestCleanupReturns, MainKind, Ret
    <3>2. result' = [result EXCEPT ![s] = Skipped]  BY <3>1 DEF ExitWith
    <3>3. result'[s] = Skipped /\ \A r \in Slice \ {s} : main'[r] = main[r]
      BY <1>0, <3>1, <3>2
    <3>4. main'[s] # "failed"  BY <1>0, <1>9, <3>1 DEF MarkSkipped
    <3> HIDE DEF f
    <3> QED BY <1>6, <3>1, <3>3, <3>4 DEF LeftBy
  <2>2. CASE b.end = "success" /\ f = "clean"
    <3>1. main' = main /\ ExitWith(s, Passed) /\ MainKind(b) = "pass"
      BY <1>1, <1>3, <1>9, <2>2 DEF TestCleanupReturns, MainKind, Ret
    <3>2. result' = [result EXCEPT ![s] = Passed]  BY <3>1 DEF ExitWith
    <3>3. result'[s] = Passed  BY <1>0, <3>2
    <3> QED BY <1>3, <1>6, <3>1, <3>3 DEF LeftBy
  <2> QED BY <1>9, <1>f, <2>1, <2>2 DEF Ret, Flag
<1> QED BY <1>1, <1>7, <1>8, <1>9

\* A time out is not undone by the way in which SIGQUIT ends the child.
LEMMA QuitIsATimeout ==
  ASSUME NEW info \in ExitInfo
  PROVE  MergeResult(TimedOut, ResultFromExit(info)) = TimedOut
<1>1. FromExitStatus(info.status) \in {Skipped, Passed, Failed, OperatingSystemError}
  BY DEF FromExitStatus, Skipped, Passed, Failed, OperatingSystemError
<1>2. FromSignal(info.code, info.status) \in {OutOfMemory, TimedOut, Killed, CoreDumped}
  BY DEF FromSignal, SIGKILL, SIGQUIT
<1>3. ResultFromExit(info) \in TestResult \ {Interrupted}
  BY <1>1, <1>2 DEF ResultFromExit, TestResult, Skipped, Passed, Failed, Killed, CoreDumped,
                    OperatingSystemError, OutOfMemory, TimedOut, Interrupted
<1> QED BY <1>3 DEF MergeResult, TestResult, Skipped, TimedOut, Interrupted

LEMMA TimeOutStory ==
  ASSUME IInv, ScriptTypes, WellFormed(test), Started, NEW s \in Slice, TimeOut(s)
  PROVE  Started'
<1>0. /\ at \in [Slice -> Stage] /\ result \in [Slice -> TestResult \cup {Unset}]
      /\ main \in [Slice -> Flag] /\ behaviour \in [Thread -> Behaviour]
  BY DEF ScriptTypes, IInv, ThreadTypes
<1>1. /\ Frozen(s) /\ Die(s, MergeResult(TimedOut, ResultFromExit(test.quit)))
      /\ UNCHANGED <<test, script>>
  BY DEF TimeOut, selftest
<1>2. MergeResult(TimedOut, ResultFromExit(test.quit)) = TimedOut
  BY QuitIsATimeout DEF WellFormed
<1>3. Die(s, TimedOut)  BY <1>1, <1>2
<1>4. /\ UNCHANGED thread /\ result' = [result EXCEPT ![s] = TimedOut]
      /\ at' = [at EXCEPT ![s] = "ended"] /\ main' = [main EXCEPT ![s] = MarkFailed(main[s])]
  BY <1>3 DEF Die, ExitWith, Enter
<1>5. /\ at'[s] = "ended" /\ result'[s] = TimedOut
      /\ \A r \in Slice \ {s} : result'[r] = result[r] /\ main'[r] = main[r]
  BY <1>0, <1>4
<1>6. PICK t \in thread_range[s] : pc[t] = "run" /\ behaviour[t].end = "freeze"
  BY <1>1 DEF Frozen, Ends
<1>7. at[s] = "threads" /\ SliceStory(s) /\ test.gate # "missing" /\ ~InParent /\ InitHasPassed(s)
  BY <1>1 DEF Frozen, Started, SliceStory
<1>8. t \in Thread /\ RunKind(behaviour[t]) = "freeze"
  BY <1>0, <1>6, RangeAssumption, ReturnsAsItsKind DEF Deadly
<1>9. InParent' = InParent /\ InitHasPassed(s)' = InitHasPassed(s)
  BY <1>1 DEF InParent, InitFunction, InitHasPassed
<1>10. EndsInRun(s)'
  BY <1>1, <1>4, <1>5, <1>6, <1>7, <1>8, <1>9 DEF EndsInRun, thread, script, Deadly, ResultOf
<1>11. SliceStory(s)'  BY <1>1, <1>5, <1>7, <1>9, <1>10 DEF SliceStory
<1> QED BY <1>1, <1>4, <1>5, <1>7, <1>11, MainStepStory DEF Stage

LEMMA JoinStory ==
  ASSUME IInv, ScriptTypes, Started, NEW s \in Slice, JoinThreads(s), UNCHANGED selftest
  PROVE  Started'
<1>1. /\ at[s] = "threads" /\ at' = [at EXCEPT ![s] = "cleanup"]
      /\ \A t \in thread_range[s] : pc[t] = "done"
      /\ UNCHANGED <<result, main, thread, test, script>>
  BY DEF JoinThreads, Enter, selftest
<1>2. at'[s] = "cleanup"  BY <1>1 DEF IInv, ThreadTypes
<1>3. SliceStory(s)  BY DEF Started
<1>4. InParent' = InParent /\ InitHasPassed(s)' = InitHasPassed(s)
  BY <1>1 DEF InParent, InitFunction, InitHasPassed
<1>5. SliceStory(s)'  BY <1>1, <1>2, <1>3, <1>4 DEF SliceStory, thread
<1> QED BY <1>1, <1>5, MainStepStory DEF Stage

LEMMA UnstartedStory ==
  ASSUME SkipUnstarted \/ InitInParent
  PROVE  Unstarted'
<1>1. CASE SkipUnstarted
  BY <1>1 DEF SkipUnstarted, EndsUnstarted, Unstarted, selftest
<1>2. CASE InitInParent
  <2>1. PICK s \in Slice : \E b \in InitFunction(s) :
          EndsUnstarted(ResultInParent(b), MarkedBy("clean", b))
    BY <1>2 DEF InitInParent
  <2>2. PICK b \in InitFunction(s) : EndsUnstarted(ResultInParent(b), MarkedBy("clean", b))
    BY <2>1
  <2>3. /\ InParent' /\ InitFunction(s)' = InitFunction(s)
    BY <1>2, <2>2 DEF InitInParent, EndsUnstarted, selftest, InParent, InitFunction
  <2>4. \A r \in Slice : result'[r] = ResultInParent(b) /\ main'[r] = MarkedBy("clean", b)
                         /\ at'[r] = "ended"
    BY <2>2 DEF EndsUnstarted
  <2>5. \A t \in Thread : flag'[t] = "clean" /\ thread_state'[t] = "not_started"
    BY <2>2 DEF EndsUnstarted
  <2> QED BY <2>3, <2>4, <2>5 DEF Unstarted
<1> QED BY <1>1, <1>2

LEMMA FreshStory ==
  ASSUME \A s \in Slice : at'[s] = "start",
         \A t \in Thread : pc'[t] = "idle" /\ logged'[t] = 0
  PROVE  Started'
BY SliceOfThread DEF Started, ThreadStory, SliceStory

-----------------------------------------------------------------------------
\* test_init() in the parent leaves what it leaves in a child.
LEMMA InitInParentEnds ==
  ASSUME WellFormed(test), InParent, NEW s \in Slice, NEW b \in InitFunction(s)
  PROVE  \/ /\ MainKind(b) = "skip" /\ ResultInParent(b) = Skipped
            /\ MarkedBy("clean", b) # "failed"
         \/ /\ MainKind(b) = "fail" /\ ResultInParent(b) \in {Failed, Skipped}
            /\ ResultInParent(b) = Failed \/ MarkedBy("clean", b) = "failed"
<1> DEFINE f == MarkedBy("clean", b)
<1>1. b \in Behaviour /\ b.end \in Ret /\ MainKind(b) \in {"skip", "fail"}
  <2>1. CASE test.group_skips \/ test.preinit = "skip"
    <3>1. b = selftest_log_skip_even  BY <2>1 DEF InitFunction
    <3>2. b.end = "skip" /\ b.log = <<"skip">>
      BY <3>1 DEF selftest_log_skip_even, Logs
    <3>3. b \in Behaviour  BY <3>1 DEF selftest_log_skip_even, Logs, Behaviour, End, Ret
    <3>4. f = "skipped"
      <4>1. Logged(b.log) = {"skip"}  BY <3>2 DEF Logged
      <4> QED BY <4>1 DEF MarkedBy, MarkSkipped
    <3> HIDE DEF f
    <3>5. MainKind(b) = "skip"  BY <3>2, <3>4 DEF MainKind, f
    <3> QED BY <3>2, <3>3, <3>5 DEF Ret
  <2>2. CASE ~(test.group_skips \/ test.preinit = "skip")
    BY <2>2 DEF InitFunction, WellFormed, InParent
  <2> QED BY <2>1, <2>2
<1>2. f \in Flag /\ b.end \in End  BY <1>1, MarkedByType DEF Flag, Behaviour
<1>3. CASE b.end = "failure"
  <2>1. ResultInParent(b) = Failed /\ MainKind(b) = "fail"
    BY <1>3 DEF ResultInParent, MainKind
  <2> QED BY <2>1
<1>4. CASE b.end \in {"skip", "oserror"}
  <2>1. ResultInParent(b) = Skipped  BY <1>4 DEF ResultInParent
  <2>2. MainKind(b) = IF f = "failed" THEN "fail" ELSE "skip"  BY <1>4 DEF MainKind
  <2> HIDE DEF f
  <2> QED BY <2>1, <2>2 DEF f
<1>5. CASE b.end \notin {"failure", "skip", "oserror"} /\ f = "failed"
  <2>1. MainKind(b) = "fail" /\ b.end = "success"
    BY <1>1, <1>5 DEF MainKind, Ret
  <2>2. ResultInParent(b) = Failed  BY <1>5, <2>1 DEF ResultInParent
  <2> QED BY <1>5, <2>1, <2>2
<1>6. CASE b.end \notin {"failure", "skip", "oserror"} /\ f = "skipped"
  <2>1. MainKind(b) = "skip" /\ b.end = "success"
    BY <1>1, <1>6 DEF MainKind, Ret
  <2>2. ResultInParent(b) = Skipped  BY <1>6, <2>1 DEF ResultInParent
  <2> QED BY <1>6, <2>1, <2>2
<1>7. CASE b.end \notin {"failure", "skip", "oserror"} /\ f = "clean"
  BY <1>1, <1>7 DEF MainKind
<1> QED BY <1>2, <1>3, <1>4, <1>5, <1>6, <1>7 DEF Flag

\* Everything but the parent's last step and the next test is done by a child that
\* has not ended, and leaves the variables of the parent alone.
LEMMA StepTypes ==
  ASSUME IInv, ScriptTypes, WellFormed(test),
         \/ SkipUnstarted \/ InitInParent
         \/ \E s \in Slice : SliceStep(s)
         \/ \E t \in Thread : ThreadStep(t)
  PROVE  /\ \E s \in Slice : at[s] # "ended"
         /\ UNCHANGED <<test, once, printed, tests_left>>
         /\ ScriptTypes'
<1>0. /\ result \in [Slice -> TestResult \cup {Unset}] /\ main \in [Slice -> Flag]
      /\ logged \in [Thread -> Nat] /\ behaviour \in [Thread -> Behaviour]
  BY DEF ScriptTypes
<1>r. {Passed, Skipped, Failed, CoreDumped, OutOfMemory, OperatingSystemError, TimedOut} \subseteq TestResult
  BY DEF TestResult, Skipped, Passed, Failed, CoreDumped, OperatingSystemError, OutOfMemory,
         TimedOut, Interrupted
<1>e. ASSUME NEW s \in Slice, at[s] # "ended", UNCHANGED <<test, once, printed, tests_left>>,
             result' \in [Slice -> TestResult \cup {Unset}], main' \in [Slice -> Flag],
             logged' \in [Thread -> Nat], behaviour' \in [Thread -> Behaviour]
      PROVE  /\ \E r \in Slice : at[r] # "ended"
             /\ UNCHANGED <<test, once, printed, tests_left>>
             /\ ScriptTypes'
  BY <1>e DEF ScriptTypes, once
<1>p. ASSUME NEW s \in Slice, NEW r \in TestResult, ExitWith(s, r)
      PROVE  result' \in [Slice -> TestResult \cup {Unset}]
  BY <1>0, <1>p DEF ExitWith
<1>1. CASE SkipUnstarted \/ InitInParent
  <2>1. PICK s \in Slice : TRUE  BY RangeAssumption
  <2>2. CASE SkipUnstarted
    <3>1. EndsUnstarted(Skipped, "skipped")  BY <2>2 DEF SkipUnstarted
    <3> QED BY <1>0, <1>r, <1>e, <2>1, <3>1 DEF EndsUnstarted, selftest, script, Flag
  <2>3. CASE InitInParent
    <3>1. PICK q \in Slice : \E b \in InitFunction(q) :
            EndsUnstarted(ResultInParent(b), MarkedBy("clean", b))
      BY <2>3 DEF InitInParent
    <3>2. PICK b \in InitFunction(q) : EndsUnstarted(ResultInParent(b), MarkedBy("clean", b))
      BY <3>1
    <3>3. ResultInParent(b) \in TestResult /\ MarkedBy("clean", b) \in Flag
      BY <1>r, <2>3, InitInParentEnds, MarkedByType DEF InitInParent, Flag
    <3>4. UNCHANGED <<test, once, printed, tests_left, logged, behaviour>> /\ at[s] = "start"
      BY <3>2 DEF EndsUnstarted, selftest, script
    <3>5. result' \in [Slice -> TestResult \cup {Unset}] /\ main' \in [Slice -> Flag]
      BY <3>2, <3>3 DEF EndsUnstarted
    <3> QED BY <1>0, <1>e, <3>4, <3>5
  <2> QED BY <1>1, <2>2, <2>3
<1>2. ASSUME NEW s \in Slice, SliceStep(s)
      PROVE  /\ \E r \in Slice : at[r] # "ended"
             /\ UNCHANGED <<test, once, printed, tests_left>> /\ ScriptTypes'
  <2>0. UNCHANGED <<selftest, once>> /\ at[s] # "ended"
    BY <1>2 DEF SliceStep, Start, StartChild, InitStep, TestInitReturns, CleanupStep, TestCleanupReturns,
                CrashInMain, TimeOut, Die, Frozen, JoinThreads
  <2>1. result' \in [Slice -> TestResult \cup {Unset}] /\ main' \in [Slice -> Flag]
    <3>1. CASE Start(s)  BY <1>0, <3>1 DEF Start, StartChild, Flag
    <3>2. CASE InitStep(s)
      <4>1. PICK b : \/ TestInitReturns(s, b.end, MarkedBy(main[s], b))
                     \/ CrashInMain(s)
        BY <3>2 DEF InitStep
      <4>2. MarkedBy(main[s], b) \in Flag  BY <1>0, MarkedByType
      <4>3. CASE CrashInMain(s)
        BY <1>0, <1>r, <1>p, <4>3, MarkTypes DEF CrashInMain
      <4>4. CASE TestInitReturns(s, b.end, MarkedBy(main[s], b))
        <5> DEFINE f == MarkedBy(main[s], b)
        <5>1. CASE InitPasses(s)  BY <1>0, <5>1 DEF InitPasses
        <5>2. CASE InitFails(s, b.end, f)
          BY <1>0, <1>r, <1>p, <4>2, <5>2, MarkTypes DEF InitFails
        <5>3. CASE InitSkips(s, b.end, f)
          BY <1>0, <1>r, <1>p, <4>2, <5>3, MarkTypes DEF InitSkips
        <5> QED BY <4>4, <5>1, <5>2, <5>3 DEF TestInitReturns
      <4> QED BY <4>1, <4>3, <4>4
    <3>3. CASE CleanupStep(s)
      <4>1. PICK b : \/ TestCleanupReturns(s, b.end, MarkedBy(main[s], b))
                     \/ CrashInMain(s)
        BY <3>3 DEF CleanupStep
      <4>2. MarkedBy(main[s], b) \in Flag  BY <1>0, MarkedByType
      <4>3. CASE CrashInMain(s)
        BY <1>0, <1>r, <1>p, <4>3, MarkTypes DEF CrashInMain
      <4>4. CASE TestCleanupReturns(s, b.end, MarkedBy(main[s], b))
        BY <1>0, <1>r, <1>p, <4>2, <4>4, MarkTypes DEF TestCleanupReturns
      <4> QED BY <4>1, <4>3, <4>4
    <3>4. CASE TimeOut(s)
      <4>1. test.quit \in ExitInfo  BY DEF WellFormed
      <4>2. Die(s, MergeResult(TimedOut, ResultFromExit(test.quit)))  BY <3>4 DEF TimeOut
      <4>3. MergeResult(TimedOut, ResultFromExit(test.quit)) = TimedOut
        BY <4>1, QuitIsATimeout
      <4> QED BY <1>0, <1>r, <1>p, <4>2, <4>3, MarkTypes DEF Die
    <3>5. CASE JoinThreads(s)  BY <1>0, <3>5 DEF JoinThreads
    <3> QED BY <1>2, <3>1, <3>2, <3>3, <3>4, <3>5 DEF SliceStep
  <2> QED BY <1>0, <1>e, <2>0, <2>1 DEF selftest, script
<1>3. ASSUME NEW t \in Thread, ThreadStep(t)
      PROVE  /\ \E r \in Slice : at[r] # "ended"
             /\ UNCHANGED <<test, once, printed, tests_left>> /\ ScriptTypes'
  <2>0. SliceOf(t) \in Slice  BY SliceOfThread
  <2>1. UNCHANGED <<test, once, printed, tests_left>> /\ at[SliceOf(t)] = "threads"
    BY <1>3 DEF ThreadStep, StartRun, StartThread, Log, LogError, LogSkip, EndRun, Return, ReportFail, Crash,
                EndChild, Die, EndThread, Running, selftest
  <2>2. result' \in [Slice -> TestResult \cup {Unset}] /\ main' \in [Slice -> Flag]
    <3>1. CASE UNCHANGED <<result, main>>  BY <1>0, <3>1
    <3>2. CASE Crash(t)  BY <1>0, <1>r, <1>p, <2>0, <3>2 DEF Crash
    <3>3. CASE EndChild(t)
      BY <1>0, <1>r, <1>p, <2>0, <3>3, DeathsAreSeen, MarkTypes DEF EndChild, Die
    <3> QED BY <1>3, <3>1, <3>2, <3>3
            DEF ThreadStep, StartRun, StartThread, Log, LogError, LogSkip, EndRun, Return, ReportFail,
                EndThread, child
  <2>3. logged' \in [Thread -> Nat] /\ behaviour' \in [Thread -> Behaviour]
    <3>1. CASE StartRun(t)  BY <1>0, <3>1 DEF StartRun, WellFormed
    <3>2. CASE Log(t)  BY <1>0, <3>2 DEF Log
    <3>3. CASE UNCHANGED script  BY <1>0, <3>3 DEF script
    <3> QED BY <1>3, <3>1, <3>2, <3>3 DEF ThreadStep, EndRun, EndChild, selftest
  <2> QED BY <1>e, <2>0, <2>1, <2>2, <2>3
<1> QED BY <1>1, <1>2, <1>3

-----------------------------------------------------------------------------
\* What the parent prints, by what the children and threads have left behind.
Ended == /\ result \in [Slice -> TestResult] /\ main \in [Slice -> Flag]
         /\ flag \in [Thread -> Flag] /\ thread_state \in [Thread -> ThreadState]

NobodyFailed == (\A s \in Slice : main[s] # "failed") /\ (\A t \in Thread : flag[t] # "failed")

LEMMA PrintedByWorst ==
  ASSUME Ended, NEW r, r = PrintedResult(result, main, flag, thread_state)
  PROVE  \E s \in Slice :
           /\ \A q \in Slice : result[q] <= result[s]
           /\ r = IF Serious(result[s]) THEN result[s]
                  ELSE IF ~NobodyFailed THEN Failed
                  ELSE IF \A t \in Thread : thread_state[t] = "skipped" THEN Skipped
                  ELSE result[s]
<1> DEFINE results == {result[s] : s \in Slice}
           failing == {t \in Thread : flag[t] = "failed"}
<1>1. results # {} /\ results \subseteq TestResult  BY RangeAssumption DEF Ended
<1>2. MostSerious(results) \in results /\ \A q \in results : q <= MostSerious(results)
  BY <1>1, MostSeriousIsWorst
<1>3. PICK s \in Slice : result[s] = MostSerious(results)  BY <1>2
<1>4. r = IF Serious(result[s]) THEN result[s]
          ELSE IF failing # {} \/ \E q \in Slice : main[q] = "failed" THEN Failed
          ELSE IF AllSkipped(Thread \ failing, thread_state) THEN Skipped
          ELSE result[s]
  BY <1>3 DEF PrintedResult, Ended
<1>5. (failing # {} \/ \E q \in Slice : main[q] = "failed") <=> ~NobodyFailed
  BY DEF NobodyFailed
<1>6. NobodyFailed => (AllSkipped(Thread \ failing, thread_state) <=>
                         \A t \in Thread : thread_state[t] = "skipped")
  BY DEF NobodyFailed, AllSkipped
<1>7. \A q \in Slice : result[q] <= result[s]  BY <1>2, <1>3
<1> HIDE DEF failing, results
<1> QED BY <1>4, <1>5, <1>6, <1>7

\* One way for a child to die decides, ...
LEMMA DeathDecides ==
  ASSUME Ended, NEW k \in Deadly, \E s \in Slice : result[s] = ResultOf(k),
         \A s \in Slice : result[s] \in {Skipped, Passed, Failed, ResultOf(k)}
  PROVE  PrintedResult(result, main, flag, thread_state) = ResultOf(k)
<1> USE DEF Skipped, Passed, Failed, CoreDumped, OperatingSystemError, OutOfMemory, TimedOut
<1> DEFINE r == PrintedResult(result, main, flag, thread_state)
<1>1. PICK s \in Slice : /\ \A q \in Slice : result[q] <= result[s]
                         /\ Serious(result[s]) => r = result[s]
  BY PrintedByWorst
<1>2. ResultOf(k) \in 3..6  BY DEF Deadly, ResultOf
<1>3. result[s] = ResultOf(k)  BY <1>1, <1>2
<1>4. Serious(result[s])  BY <1>2, <1>3 DEF Serious
<1> QED BY <1>1, <1>3, <1>4

\* ... then a failure of anybody, ...
LEMMA FailureDecides ==
  ASSUME Ended, \A s \in Slice : result[s] \in {Skipped, Passed, Failed},
         ~NobodyFailed \/ \E s \in Slice : result[s] = Failed
  PROVE  PrintedResult(result, main, flag, thread_state) = Failed
<1> USE DEF Skipped, Passed, Failed
<1> DEFINE r == PrintedResult(result, main, flag, thread_state)
<1>1. PICK s \in Slice : /\ \A q \in Slice : result[q] <= result[s]
                         /\ Serious(result[s]) => r = result[s]
                         /\ ~Serious(result[s]) /\ ~NobodyFailed => r = Failed
  BY PrintedByWorst
<1>2. CASE result[s] = Failed  BY <1>1, <1>2 DEF Serious
<1>3. CASE result[s] # Failed
  <2>1. result[s] \in {Skipped, Passed}  BY <1>3
  <2>2. \A q \in Slice : result[q] # Failed  BY <1>1, <2>1
  <2> QED BY <1>1, <2>1, <2>2 DEF Serious
<1> QED BY <1>2, <1>3

\* ... and then whether anybody has passed.
LEMMA NobodyFails ==
  ASSUME Ended, NobodyFailed, \A s \in Slice : result[s] \in {Skipped, Passed}
  PROVE  LET r == PrintedResult(result, main, flag, thread_state) IN
         /\ r \in {Skipped, Passed}
         /\ (\A s \in Slice : result[s] = Skipped) => r = Skipped
         /\ (\A t \in Thread : thread_state[t] = "skipped") => r = Skipped
         /\ (\E s \in Slice : result[s] = Passed) /\ (\E t \in Thread : thread_state[t] # "skipped")
              => r = Passed
<1> USE DEF Skipped, Passed
<1> DEFINE r == PrintedResult(result, main, flag, thread_state)
<1>1. PICK s \in Slice :
        /\ \A q \in Slice : result[q] <= result[s]
        /\ ~Serious(result[s]) =>
             r = IF \A t \in Thread : thread_state[t] = "skipped" THEN Skipped ELSE result[s]
  BY PrintedByWorst
<1>2. ~Serious(result[s])  BY DEF Serious
<1>3. (\E q \in Slice : result[q] = Passed) => result[s] = Passed  BY <1>1
<1> HIDE DEF r
<1> QED BY <1>1, <1>2, <1>3 DEF r

-----------------------------------------------------------------------------
\* What a test holds in store for a child, whatever its threads do first.
Inits(x, s, k)    == \A b \in x.init[s] : MainKind(b) = k
Cleanups(x, s, k) == \A b \in x.cleanup[s] : MainKind(b) = k
Runs(x, s, K)     == \A t \in thread_range[s] : \A b \in x.run[t] : RunKind(b) \in K
SomeRuns(x, s, k) == \E t \in thread_range[s] : \A b \in x.run[t] : RunKind(b) = k

Passing(x, s)  == Inits(x, s, "pass") /\ Runs(x, s, {"pass"}) /\ Cleanups(x, s, "pass")
Skipping(x, s) ==
  \/ Inits(x, s, "skip")
  \/ Inits(x, s, "pass") /\ Runs(x, s, {"pass", "skip"}) /\ Cleanups(x, s, "skip")
Failing(x, s) ==
  \/ Inits(x, s, "fail")
  \/ /\ Inits(x, s, "pass") /\ Runs(x, s, {"pass", "skip", "fail"})
     /\ Cleanups(x, s, "fail") \/ (SomeRuns(x, s, "fail") /\ Cleanups(x, s, "pass"))
Dying(x, s, k) ==
  \/ k = "crash" /\ Inits(x, s, "crash")
  \/ Inits(x, s, "pass") /\ SomeRuns(x, s, k) /\ Runs(x, s, {"pass", "skip", "fail", k})
  \/ k = "crash" /\ Inits(x, s, "pass") /\ Runs(x, s, {"pass", "skip", "fail"}) /\ Cleanups(x, s, "crash")

\* The end of a child whose test_init() always ends in the same way.
LEMMA InitDecides ==
  ASSUME ScriptTypes, NEW s \in Slice, at[s] = "ended", SliceStory(s),
         \A t \in Thread : ThreadStory(t),
         NEW k \in {"pass", "skip", "fail", "crash"}, Inits(test, s, k)
  PROVE  /\ k # "pass" => EndsInInit(s) /\ LeftBy(s, k)
         /\ k = "pass" => EndsInRun(s) \/ EndsInCleanup(s)
<1>1. InitFunction(s) = test.init[s]  BY DEF SliceStory, InParent, InitFunction
<1>2. EndsInInit(s) \/ EndsInRun(s) \/ EndsInCleanup(s)  BY DEF SliceStory
<1>3. CASE EndsInInit(s)
  BY <1>1, <1>3 DEF EndsInInit, Inits
<1>4. CASE EndsInRun(s) \/ EndsInCleanup(s)
  <2>1. k = "pass"  BY <1>1, <1>4 DEF EndsInRun, EndsInCleanup, InitHasPassed, Inits
  <2> QED BY <1>4, <2>1
<1> QED BY <1>2, <1>3, <1>4

\* The threads of a child that got as far as its cleanup.
LEMMA ThreadsOfCleanup ==
  ASSUME NEW s \in Slice, EndsInCleanup(s), \A t \in Thread : ThreadStory(t),
         NEW t \in thread_range[s]
  PROVE  \E b \in test.run[t] :
           /\ RunKind(b) \in {"pass", "skip", "fail"}
           /\ flag[t] = FlagOf(RunKind(b)) /\ thread_state[t] = StateOf(RunKind(b))
<1>1. t \in Thread /\ pc[t] = "done"  BY RangeAssumption DEF EndsInCleanup
<1>2. behaviour[t] \in test.run[t] /\ RunKind(behaviour[t]) \notin Deadly  BY <1>1 DEF ThreadStory
<1>3. RunKind(behaviour[t]) \in {"pass", "skip", "fail"}
  BY <1>2 DEF RunKind
<1> QED BY <1>1, <1>2, <1>3 DEF ThreadStory

\* The end of a child whose test_init() passes: its threads decide whether it gets
\* as far as its cleanup.
LEMMA RunDecides ==
  ASSUME ScriptTypes, NEW s \in Slice, at[s] = "ended", SliceStory(s),
         \A t \in Thread : ThreadStory(t),
         Inits(test, s, "pass"), NEW K, Runs(test, s, K)
  PROVE  \/ EndsInCleanup(s) /\ \A t \in thread_range[s] :
              \E kind \in K \cap {"pass", "skip", "fail"} :
                flag[t] = FlagOf(kind) /\ thread_state[t] = StateOf(kind)
         \/ \E k \in K \cap Deadly : result[s] = ResultOf(k)
<1>1. EndsInRun(s) \/ EndsInCleanup(s)  BY InitDecides
<1>2. CASE EndsInRun(s)
  <2>1. PICK t \in thread_range[s] : /\ pc[t] = "run" /\ RunKind(behaviour[t]) \in Deadly
                                     /\ result[s] = ResultOf(RunKind(behaviour[t]))
    BY <1>2 DEF EndsInRun
  <2>2. behaviour[t] \in test.run[t]  BY <2>1, RangeAssumption DEF ThreadStory
  <2> QED BY <2>1, <2>2 DEF Runs
<1>3. CASE EndsInCleanup(s)
  <2>1. ASSUME NEW t \in thread_range[s]
        PROVE  \E kind \in K \cap {"pass", "skip", "fail"} :
                 flag[t] = FlagOf(kind) /\ thread_state[t] = StateOf(kind)
    <3>1. PICK b \in test.run[t] :
            /\ RunKind(b) \in {"pass", "skip", "fail"}
            /\ flag[t] = FlagOf(RunKind(b)) /\ thread_state[t] = StateOf(RunKind(b))
      BY <1>3, ThreadsOfCleanup
    <3> QED BY <3>1 DEF Runs
  <2> QED BY <1>3, <2>1
<1> QED BY <1>1, <1>2, <1>3

\* What they have done does not let a child escape its fate.
LEMMA Fates ==
  ASSUME ScriptTypes, NEW s \in Slice, at[s] = "ended", SliceStory(s),
         \A t \in Thread : ThreadStory(t)
  PROVE  /\ Passing(test, s) =>
              /\ result[s] = Passed /\ main[s] # "failed"
              /\ \A t \in thread_range[s] : flag[t] # "failed" /\ thread_state[t] # "skipped"
         /\ Skipping(test, s) =>
              /\ result[s] = Skipped /\ main[s] # "failed"
              /\ \A t \in thread_range[s] : flag[t] # "failed"
         /\ Failing(test, s) =>
              /\ result[s] \in {Skipped, Passed, Failed}
              /\ \/ result[s] = Failed \/ main[s] = "failed"
                 \/ \E t \in thread_range[s] : flag[t] = "failed"
         /\ \A k \in Deadly : Dying(test, s, k) => result[s] = ResultOf(k)
<1> DEFINE x == test
<1>1. ASSUME Inits(x, s, "pass"), NEW K, Runs(x, s, K)
      PROVE  \/ EndsInCleanup(s) /\ \A t \in thread_range[s] :
                  \E kind \in K \cap {"pass", "skip", "fail"} :
                    flag[t] = FlagOf(kind) /\ thread_state[t] = StateOf(kind)
             \/ \E k \in K \cap Deadly : result[s] = ResultOf(k)
  BY <1>1, RunDecides
<1>2. ASSUME NEW k, Cleanups(x, s, k), EndsInCleanup(s)  PROVE LeftBy(s, k)
  BY <1>2 DEF EndsInCleanup, Cleanups
<1>3. ASSUME Passing(x, s)
      PROVE  /\ result[s] = Passed /\ main[s] # "failed"
             /\ \A t \in thread_range[s] : flag[t] # "failed" /\ thread_state[t] # "skipped"
  <2>1. /\ EndsInCleanup(s) /\ LeftBy(s, "pass")
        /\ \A t \in thread_range[s] : flag[t] = "clean" /\ thread_state[t] = "succeeded"
    BY <1>1, <1>2, <1>3 DEF Passing, Deadly, FlagOf, StateOf
  <2> QED BY <2>1 DEF LeftBy
<1>4. ASSUME Skipping(x, s)
      PROVE  /\ result[s] = Skipped /\ main[s] # "failed"
             /\ \A t \in thread_range[s] : flag[t] # "failed"
  <2>1. CASE Inits(x, s, "skip")
    BY <2>1, InitDecides DEF EndsInInit, LeftBy
  <2>2. CASE Inits(x, s, "pass") /\ Runs(x, s, {"pass", "skip"}) /\ Cleanups(x, s, "skip")
    <3>1. /\ EndsInCleanup(s) /\ LeftBy(s, "skip")
          /\ \A t \in thread_range[s] : flag[t] \in {"clean", "skipped"}
      BY <1>1, <1>2, <2>2 DEF Deadly, FlagOf
    <3> QED BY <3>1 DEF LeftBy
  <2> QED BY <1>4, <2>1, <2>2 DEF Skipping
<1>5. ASSUME Failing(x, s)
      PROVE  /\ result[s] \in {Skipped, Passed, Failed}
             /\ \/ result[s] = Failed \/ main[s] = "failed"
                \/ \E t \in thread_range[s] : flag[t] = "failed"
  <2>1. CASE Inits(x, s, "fail")
    BY <2>1, InitDecides DEF LeftBy
  <2>2. CASE /\ Inits(x, s, "pass") /\ Runs(x, s, {"pass", "skip", "fail"})
             /\ Cleanups(x, s, "fail") \/ (SomeRuns(x, s, "fail") /\ Cleanups(x, s, "pass"))
    <3>1. EndsInCleanup(s)  BY <1>1, <2>2 DEF Deadly
    <3>2. CASE Cleanups(x, s, "fail")
      BY <1>2, <3>1, <3>2 DEF LeftBy
    <3>3. CASE SomeRuns(x, s, "fail") /\ Cleanups(x, s, "pass")
      <4>1. PICK t \in thread_range[s] : \A b \in x.run[t] : RunKind(b) = "fail"
        BY <3>3 DEF SomeRuns
      <4>2. flag[t] = "failed"  BY <3>1, <4>1, ThreadsOfCleanup DEF FlagOf
      <4>3. LeftBy(s, "pass")  BY <1>2, <3>1, <3>3
      <4> QED BY <4>2, <4>3 DEF LeftBy
    <3> QED BY <2>2, <3>2, <3>3
  <2> QED BY <1>5, <2>1, <2>2 DEF Failing
<1>6. ASSUME NEW k \in Deadly, Dying(x, s, k)  PROVE result[s] = ResultOf(k)
  <2>1. CASE k = "crash" /\ Inits(x, s, "crash")
    BY <2>1, InitDecides DEF LeftBy, ResultOf
  <2>2. CASE Inits(x, s, "pass") /\ SomeRuns(x, s, k) /\ Runs(x, s, {"pass", "skip", "fail", k})
    <3>1. PICK t \in thread_range[s] : \A b \in x.run[t] : RunKind(b) = k
      BY <2>2 DEF SomeRuns
    <3>2. ~EndsInCleanup(s)
      <4> SUFFICES ASSUME EndsInCleanup(s)  PROVE FALSE  OBVIOUS
      <4>1. PICK b \in x.run[t] : RunKind(b) \in {"pass", "skip", "fail"}
        BY ThreadsOfCleanup
      <4> QED BY <3>1, <4>1 DEF Deadly
    <3>3. {"pass", "skip", "fail", k} \cap Deadly = {k}  BY DEF Deadly
    <3> QED BY <1>1, <2>2, <3>2, <3>3
  <2>3. CASE /\ k = "crash" /\ Inits(x, s, "pass") /\ Runs(x, s, {"pass", "skip", "fail"})
             /\ Cleanups(x, s, "crash")
    <3>1. EndsInCleanup(s) /\ LeftBy(s, "crash")  BY <1>1, <1>2, <2>3 DEF Deadly
    <3> QED BY <2>3, <3>1 DEF LeftBy, ResultOf
  <2> QED BY <1>6, <2>1, <2>2, <2>3 DEF Dying
<1> QED BY <1>3, <1>4, <1>5, <1>6

\* What a test can expect of a run whose children are started ...
Keeps(x) ==
  \/ (\A s \in Slice : Skipping(x, s)) /\ Skipped \in x.expect
  \/ /\ \A s \in Slice : Passing(x, s) \/ Skipping(x, s)
     /\ \E s \in Slice : Passing(x, s)
     /\ Passed \in x.expect
  \/ /\ \A s \in Slice : Passing(x, s) \/ Failing(x, s)
     /\ \E s \in Slice : Failing(x, s)
     /\ Failed \in x.expect
  \/ \E k \in Deadly : /\ \A s \in Slice : Passing(x, s) \/ Dying(x, s, k)
                       /\ \E s \in Slice : Dying(x, s, k)
                       /\ ResultOf(k) \in x.expect
  \/ /\ \A s \in Slice : Inits(x, s, "pass") /\ Cleanups(x, s, "pass")
     /\ \/ (\A s \in Slice : Runs(x, s, {"skip"})) /\ Skipped \in x.expect
        \/ /\ \A s \in Slice : Runs(x, s, {"pass", "skip"})
           /\ \E s \in Slice : SomeRuns(x, s, "pass")
           /\ Passed \in x.expect
        \/ (\A s \in Slice : Runs(x, s, {"pass", "fail"})) /\ {Passed, Failed} \subseteq x.expect
        \/ (\A s \in Slice : Runs(x, s, {"fail", "freeze"})) /\ {Failed, TimedOut} \subseteq x.expect

\* ... and of any run.
Justified(x) ==
  /\ WellFormed(x)
  /\ x.gate # "open" => Skipped \in x.expect
  /\ x.group_skips \/ x.preinit = "skip" => Skipped \in x.expect
  /\ x.in_parent =>
       \/ (\A s \in Slice : Inits(x, s, "skip")) /\ Skipped \in x.expect
       \/ (\A s \in Slice : Inits(x, s, "fail")) /\ Failed \in x.expect
  /\ x.gate # "missing" /\ ~(x.group_skips \/ x.preinit = "skip" \/ x.in_parent) => Keeps(x)

LEMMA UnstartedEnds ==
  ASSUME Ended, Unstarted, Justified(test)
  PROVE  PrintedResult(result, main, flag, thread_state) \in test.expect
<1> DEFINE r == PrintedResult(result, main, flag, thread_state)
<1>1. ASSUME \A s \in Slice : result[s] = Skipped /\ main[s] # "failed"
      PROVE  r = Skipped
  <2>1. NobodyFailed  BY <1>1 DEF NobodyFailed, Unstarted
  <2> QED BY <1>1, <2>1, NobodyFails
<1>2. ASSUME \A s \in Slice : result[s] \in {Failed, Skipped} /\ (result[s] = Failed \/ main[s] = "failed")
      PROVE  r = Failed
  <2>1. PICK s \in Slice : TRUE  BY RangeAssumption
  <2>2. ~NobodyFailed \/ \E q \in Slice : result[q] = Failed  BY <1>2, <2>1 DEF NobodyFailed
  <2> HIDE DEF r
  <2> QED BY <1>2, <2>2, FailureDecides DEF r
<1>3. CASE test.gate # "open" /\ \A s \in Slice : result[s] = Skipped /\ main[s] = "skipped"
  BY <1>1, <1>3 DEF Justified
<1>4. CASE /\ InParent
           /\ \E s \in Slice : \E b \in InitFunction(s) :
                \A q \in Slice : /\ result[q] = ResultInParent(b)
                                 /\ main[q] = MarkedBy("clean", b)
  <2>0. PICK s \in Slice : \E b \in InitFunction(s) :
          \A q \in Slice : result[q] = ResultInParent(b) /\ main[q] = MarkedBy("clean", b)
    BY <1>4
  <2>1. PICK b \in InitFunction(s) :
          \A q \in Slice : result[q] = ResultInParent(b) /\ main[q] = MarkedBy("clean", b)
    BY <2>0
  <2>2. \/ /\ MainKind(b) = "skip" /\ ResultInParent(b) = Skipped
           /\ MarkedBy("clean", b) # "failed"
        \/ /\ MainKind(b) = "fail" /\ ResultInParent(b) \in {Failed, Skipped}
           /\ ResultInParent(b) = Failed \/ MarkedBy("clean", b) = "failed"
    BY <1>4, InitInParentEnds DEF Justified
  <2>3. \/ MainKind(b) = "skip" /\ r = Skipped
        \/ MainKind(b) = "fail" /\ r = Failed
    BY <1>1, <1>2, <2>1, <2>2
  <2>4. CASE test.group_skips \/ test.preinit = "skip"
    <3>1. b = selftest_log_skip_even  BY <2>1, <2>4 DEF InitFunction
    <3>2. b.end = "skip" /\ Logged(b.log) = {"skip"}
      BY <3>1 DEF selftest_log_skip_even, Logs, Logged
    <3>3. MarkedBy("clean", b) = "skipped"  BY <3>2 DEF MarkedBy, MarkSkipped
    <3>4. MainKind(b) = "skip"  BY <3>2, <3>3 DEF MainKind
    <3> QED BY <2>3, <2>4, <3>4 DEF Justified
  <2>5. CASE ~(test.group_skips \/ test.preinit = "skip")
    <3>1. b \in test.init[s] /\ test.in_parent  BY <1>4, <2>1, <2>5 DEF InitFunction, InParent
    <3> QED BY <2>3, <3>1 DEF Justified, Inits
  <2> QED BY <2>4, <2>5
<1> QED BY <1>3, <1>4 DEF Unstarted

LEMMA StartedEnds ==
  ASSUME Ended, ScriptTypes, Started, \A s \in Slice : at[s] = "ended", Justified(test)
  PROVE  PrintedResult(result, main, flag, thread_state) \in test.expect
<1> DEFINE r == PrintedResult(result, main, flag, thread_state)
           x == test
<1>0. Keeps(x)
  <2>1. PICK s \in Slice : SliceStory(s)  BY RangeAssumption DEF Started
  <2> QED BY <2>1 DEF SliceStory, Justified, InParent
<1>s. \A s \in Slice : SliceStory(s)  BY DEF Started
<1>t. \A t \in Thread : ThreadStory(t)  BY DEF Started
<1>c. \A t \in Thread : t \in thread_range[SliceOf(t)] /\ SliceOf(t) \in Slice  BY SliceOfThread
<1>n. \A s \in Slice : thread_range[s] # {} /\ thread_range[s] \subseteq Thread  BY RangeAssumption
<1>p. ASSUME NEW s \in Slice
      PROVE  /\ Passing(x, s) =>
                  /\ result[s] = Passed /\ main[s] # "failed"
                  /\ \A t \in thread_range[s] : flag[t] # "failed" /\ thread_state[t] # "skipped"
             /\ Skipping(x, s) =>
                  /\ result[s] = Skipped /\ main[s] # "failed"
                  /\ \A t \in thread_range[s] : flag[t] # "failed"
             /\ Failing(x, s) =>
                  /\ result[s] \in {Skipped, Passed, Failed}
                  /\ \/ result[s] = Failed \/ main[s] = "failed"
                     \/ \E t \in thread_range[s] : flag[t] = "failed"
             /\ \A k \in Deadly : Dying(x, s, k) => result[s] = ResultOf(k)
  BY <1>s, <1>t, Fates
<1>1. CASE (\A s \in Slice : Skipping(x, s)) /\ Skipped \in x.expect
  <2>1. NobodyFailed  BY <1>1, <1>c, <1>p DEF NobodyFailed
  <2> QED BY <1>1, <1>p, <2>1, NobodyFails
<1>2. CASE /\ \A s \in Slice : Passing(x, s) \/ Skipping(x, s)
           /\ \E s \in Slice : Passing(x, s)
           /\ Passed \in x.expect
  <2>1. NobodyFailed  BY <1>2, <1>c, <1>p DEF NobodyFailed
  <2>2. PICK s \in Slice : Passing(x, s)  BY <1>2
  <2>3. PICK t \in thread_range[s] : t \in Thread  BY <1>n
  <2> QED BY <1>2, <1>p, <2>1, <2>2, <2>3, NobodyFails
<1>3. CASE /\ \A s \in Slice : Passing(x, s) \/ Failing(x, s)
           /\ \E s \in Slice : Failing(x, s)
           /\ Failed \in x.expect
  <2>1. PICK s \in Slice : Failing(x, s)  BY <1>3
  <2>2. ~NobodyFailed \/ \E q \in Slice : result[q] = Failed
    BY <1>n, <1>p, <2>1 DEF NobodyFailed
  <2> HIDE DEF r
  <2> QED BY <1>3, <1>p, <2>2, FailureDecides DEF r
<1>4. ASSUME NEW k \in Deadly,
             \A s \in Slice : Passing(x, s) \/ Dying(x, s, k),
             \E s \in Slice : Dying(x, s, k),
             ResultOf(k) \in x.expect
      PROVE  r \in x.expect
  <2> HIDE DEF r
  <2> QED BY <1>4, <1>p, DeathDecides DEF r
\* The tests whose threads differ.
<1>5. ASSUME NEW s \in Slice, Inits(x, s, "pass"), Cleanups(x, s, "pass"), NEW K, Runs(x, s, K)
      PROVE  \/ /\ result[s] = Passed /\ main[s] # "failed"
                /\ \A t \in thread_range[s] : \E kind \in K \cap {"pass", "skip", "fail"} :
                     flag[t] = FlagOf(kind) /\ thread_state[t] = StateOf(kind)
             \/ \E k \in K \cap Deadly : result[s] = ResultOf(k)
  <2>1. EndsInCleanup(s) => result[s] = Passed /\ main[s] # "failed"
    BY <1>5 DEF EndsInCleanup, Cleanups, LeftBy
  <2> QED BY <1>5, <1>s, <1>t, <2>1, RunDecides
<1>6. CASE \A s \in Slice : Inits(x, s, "pass") /\ Cleanups(x, s, "pass")
  <2>1. CASE (\A s \in Slice : Runs(x, s, {"skip"})) /\ Skipped \in x.expect
    <3>1. \A s \in Slice : /\ result[s] = Passed /\ main[s] # "failed"
                           /\ \A t \in thread_range[s] : flag[t] = "skipped" /\ thread_state[t] = "skipped"
      BY <1>5, <1>6, <2>1 DEF Deadly, FlagOf, StateOf
    <3>2. NobodyFailed /\ \A t \in Thread : thread_state[t] = "skipped"
      BY <1>c, <3>1 DEF NobodyFailed
    <3> QED BY <2>1, <3>1, <3>2, NobodyFails
  <2>2. CASE /\ \A s \in Slice : Runs(x, s, {"pass", "skip"})
             /\ \E s \in Slice : SomeRuns(x, s, "pass")
             /\ Passed \in x.expect
    <3>1. \A s \in Slice :
            /\ result[s] = Passed /\ main[s] # "failed"
            /\ \A t \in thread_range[s] : flag[t] \in {"clean", "skipped"}
      BY <1>5, <1>6, <2>2 DEF Deadly, FlagOf
    <3>2. NobodyFailed
      BY <1>c, <3>1 DEF NobodyFailed
    <3>3. PICK s \in Slice : SomeRuns(x, s, "pass")  BY <2>2
    <3>4. PICK t \in thread_range[s] : \A b \in x.run[t] : RunKind(b) = "pass"
      BY <3>3 DEF SomeRuns
    <3>5. EndsInCleanup(s)
      BY <1>6, <1>s, <1>t, <2>2, RunDecides DEF Deadly
    <3>6. t \in Thread /\ thread_state[t] # "skipped"
      BY <1>n, <1>t, <3>4, <3>5, ThreadsOfCleanup DEF StateOf
    <3> QED BY <2>2, <3>1, <3>2, <3>6, NobodyFails
  <2>3. CASE (\A s \in Slice : Runs(x, s, {"pass", "fail"})) /\ {Passed, Failed} \subseteq x.expect
    <3>1. \A s \in Slice :
            /\ result[s] = Passed /\ main[s] # "failed"
            /\ \A t \in thread_range[s] : flag[t] # "failed" => thread_state[t] # "skipped"
      BY <1>5, <1>6, <2>3 DEF Deadly, FlagOf, StateOf
    <3>2. \A t \in Thread : flag[t] # "failed" => thread_state[t] # "skipped"
      BY <1>c, <3>1
    <3>3. CASE NobodyFailed
      <4>1. PICK t \in Thread : TRUE  BY <1>n, RangeAssumption
      <4>2. \E s \in Slice : result[s] = Passed  BY <3>1, RangeAssumption
      <4>3. \E u \in Thread : thread_state[u] # "skipped"
        BY <3>2, <3>3, <4>1 DEF NobodyFailed
      <4>4. r = Passed  BY <3>1, <3>3, <4>2, <4>3, NobodyFails
      <4> QED BY <2>3, <4>4
    <3>4. CASE ~NobodyFailed
      <4> HIDE DEF r
      <4> QED BY <2>3, <3>1, <3>4, FailureDecides DEF r
    <3> QED BY <3>3, <3>4
  <2>4. CASE (\A s \in Slice : Runs(x, s, {"fail", "freeze"})) /\ {Failed, TimedOut} \subseteq x.expect
    <3>1. \A s \in Slice :
            \/ result[s] = Passed /\ \A t \in thread_range[s] : flag[t] = "failed"
            \/ result[s] = ResultOf("freeze")
      BY <1>5, <1>6, <2>4 DEF Deadly, FlagOf
    <3>2. ResultOf("freeze") = TimedOut  BY DEF ResultOf
    <3>3. CASE \E s \in Slice : result[s] = ResultOf("freeze")
      <4>1. r = ResultOf("freeze")
        <5> HIDE DEF r
        <5> QED BY <3>1, <3>3, DeathDecides DEF Deadly, r
      <4> QED BY <2>4, <3>2, <4>1
    <3>4. CASE \A s \in Slice : result[s] # ResultOf("freeze")
      <4>1. PICK t \in Thread : TRUE  BY <1>n, RangeAssumption
      <4>2. ~NobodyFailed  BY <1>c, <3>1, <3>4, <4>1 DEF NobodyFailed
      <4>3. r = Failed
        <5> HIDE DEF r
        <5> QED BY <3>1, <3>4, <4>2, FailureDecides DEF r
      <4> QED BY <2>4, <4>3
    <3> QED BY <3>3, <3>4
  <2> QED BY <1>0, <1>1, <1>2, <1>3, <1>4, <2>1, <2>2, <2>3, <2>4 DEF Keeps
<1> QED BY <1>0, <1>1, <1>2, <1>3, <1>4, <1>6 DEF Keeps

-----------------------------------------------------------------------------
\* What the marks and the end of a function come to.
LEMMA KindsOfLogs ==
  ASSUME NEW log, NEW end \in End
  PROVE  LET b == Logs(log, end) IN
         /\ Logged(log) = {} =>
              /\ MainKind(b) = CASE end = "crash" -> "crash"
                                 [] end = "failure" -> "fail"
                                 [] end \in {"skip", "oserror"} -> "skip"
                                 [] OTHER -> "pass"
              /\ RunKind(b) = CASE end \in Deadly -> end
                                [] end \in {"failure", "report_fail"} -> "fail"
                                [] end \in {"skip", "oserror"} -> "skip"
                                [] end = "success" -> "pass"
         /\ Logged(log) = {"skip"} =>
              /\ MainKind(b) = CASE end = "crash" -> "crash" [] end = "failure" -> "fail"
                                 [] OTHER -> "skip"
              /\ RunKind(b) = CASE end \in Deadly -> end [] end = "report_fail" -> "fail"
                                [] OTHER -> "skip"
         /\ "error" \in Logged(log) =>
              /\ MainKind(b) = IF end = "crash" THEN "crash" ELSE "fail"
              /\ RunKind(b) = IF end \in Deadly THEN end ELSE "fail"
<1> DEFINE b == Logs(log, end)
<1>0. b.log = log /\ b.end = end  BY DEF Logs
<1>1. CASE Logged(log) = {}
  <2>1. MarkedBy("clean", b) = "clean"  BY <1>0, <1>1 DEF MarkedBy
  <2> HIDE DEF b
  <2> QED BY <1>0, <1>1, <2>1 DEF MainKind, RunKind, Deadly, End, Ret, b
<1>2. CASE Logged(log) = {"skip"}
  <2>1. MarkedBy("clean", b) = "skipped"  BY <1>0, <1>2 DEF MarkedBy, MarkSkipped
  <2> HIDE DEF b
  <2> QED BY <1>0, <1>2, <2>1 DEF MainKind, RunKind, Deadly, End, Ret, b
<1>3. CASE "error" \in Logged(log)
  <2>1. MarkedBy("clean", b) = "failed"  BY <1>0, <1>3 DEF MarkedBy, MarkFailed
  <2> HIDE DEF b
  <2> QED BY <1>0, <1>3, <2>1 DEF MainKind, RunKind, Deadly, End, Ret, b
<1> QED BY <1>1, <1>2, <1>3

\* The functions of the self tests, by what they come to.
MainOf(kind) == {b \in Behaviour : MainKind(b) = kind}
RunOf(kind)  == {b \in Behaviour : RunKind(b) = kind}

LEMMA SelftestKinds ==
  /\ Passes \in MainOf("pass") \cap RunOf("pass")
  /\ {selftest_pass, selftest_timedpass, selftest_preinit, selftest_logs, selftest_reschedule,
      selftest_cxxthrowcatch} = {Passes}
  /\ {selftest_skip_init, selftest_log_skip_init, selftest_log_skip_even, selftest_skip_cleanup,
      selftest_errno_cleanup} \cup selftest_skipmsg_cleanup \subseteq MainOf("skip")
  /\ {selftest_log_skip_run, selftest_log_skip_even, selftest_log_skip_newline_run}
       \subseteq RunOf("skip")
  /\ {selftest_fail_run, selftest_errormsg_cleanup, selftest_failinit_and_logskip}
       \cup selftest_error_and_skip_init \subseteq MainOf("fail")
  /\ {selftest_fail_run, selftest_logerror_run, selftest_reportfail_run, memcmp_or_fail}
       \subseteq RunOf("fail")
  /\ {selftest_unreachable_run, cause_sigsegv} \subseteq MainOf("crash") \cap RunOf("crash")
  /\ {selftest_cxxthrow_run, selftest_malloc_fail} \subseteq RunOf("crash")
  /\ selftest_noreturn_run \in RunOf("freeze")
  /\ selftest_oserror_run \in RunOf("exit")
  /\ raise_sigkill \in RunOf("sigkill")
<1>1. /\ Logged(<<>>) = {} /\ Logged(<<"skip">>) = {"skip"} /\ "error" \in Logged(<<"error">>)
      /\ "error" \in Logged(<<"error", "error">>) /\ "error" \in Logged(<<"error", "skip">>)
      /\ "error" \in Logged(<<"skip", "error">>)
  <2>1. "error" \in Logged(<<"error">>)
    <3>1. 1 \in DOMAIN <<"error">> /\ <<"error">>[1] = "error"  OBVIOUS
    <3> QED BY <3>1 DEF Logged
  <2>2. "error" \in Logged(<<"error", "error">>) /\ "error" \in Logged(<<"error", "skip">>)
    <3>1. /\ 1 \in DOMAIN <<"error", "error">> /\ <<"error", "error">>[1] = "error"
          /\ 1 \in DOMAIN <<"error", "skip">> /\ <<"error", "skip">>[1] = "error"
      OBVIOUS
    <3> QED BY <3>1 DEF Logged
  <2>3. "error" \in Logged(<<"skip", "error">>)
    <3>1. 2 \in DOMAIN <<"skip", "error">> /\ <<"skip", "error">>[2] = "error"  OBVIOUS
    <3> QED BY <3>1 DEF Logged
  <2> QED BY <2>1, <2>2, <2>3 DEF Logged
<1>2. \A end \in End :
        \A log \in {<<>>, <<"skip">>, <<"error">>, <<"error", "error">>, <<"error", "skip">>, <<"skip", "error">>} :
          Logs(log, end) \in Behaviour
  <2>1. \A log \in {<<>>, <<"skip">>, <<"error">>, <<"error", "error">>, <<"error", "skip">>, <<"skip", "error">>} :
          log \in Seq({"error", "skip"})
    <3> DEFINE Mark == {"error", "skip"}
    <3>1. <<>> \in Seq(Mark)  OBVIOUS
    <3>2. \A a \in Mark : <<a>> \in Seq(Mark)  OBVIOUS
    <3>3. \A a, b \in Mark : <<a, b>> \in Seq(Mark)  OBVIOUS
    <3>4. "error" \in Mark /\ "skip" \in Mark  OBVIOUS
    <3> HIDE DEF Mark
    <3>5. \A log \in {<<>>, <<"skip">>, <<"error">>, <<"error", "error">>, <<"error", "skip">>, <<"skip", "error">>} :
            log \in Seq(Mark)
      BY <3>1, <3>2, <3>3, <3>4
    <3> QED BY <3>5 DEF Mark
  <2> QED BY <2>1 DEF Logs, Behaviour
<1>3. {"success", "failure", "skip", "oserror", "report_fail", "crash", "sigkill", "exit", "freeze"} = End
  BY DEF End, Ret
<1>4. ASSUME NEW end \in End
      PROVE  /\ end \in {"failure", "success", "skip", "oserror"} /\ end # "failure" =>
                  Logs(<<"skip">>, end) \in MainOf("skip")
             /\ end \notin Deadly \cup {"report_fail"} => Logs(<<"skip">>, end) \in RunOf("skip")
             /\ end = "failure" => Logs(<<"skip">>, end) \in MainOf("fail")
             /\ end # "crash" => {Logs(<<"error">>, end), Logs(<<"error", "skip">>, end),
                                  Logs(<<"skip", "error">>, end)} \subseteq MainOf("fail")
             /\ end \notin Deadly => Logs(<<"error", "error">>, end) \in RunOf("fail")
             /\ end = "crash" => Logs(<<"error">>, end) \in MainOf("crash") \cap RunOf("crash")
             /\ end \in Deadly => Logs(<<>>, end) \in RunOf(end)
             /\ end = "crash" => Logs(<<>>, end) \in MainOf("crash")
             /\ end = "failure" => Logs(<<>>, end) \in MainOf("fail") \cap RunOf("fail")
             /\ end = "report_fail" => Logs(<<>>, end) \in RunOf("fail")
             /\ end \in {"skip", "oserror"} => Logs(<<>>, end) \in MainOf("skip") \cap RunOf("skip")
             /\ end = "success" => Logs(<<>>, end) \in MainOf("pass") \cap RunOf("pass")
  BY <1>1, <1>2, KindsOfLogs DEF MainOf, RunOf, Deadly
<1>e. End = {"success", "failure", "skip", "oserror"} \cup {"report_fail"} \cup Deadly
  BY DEF End, Ret, Deadly
<1>a. /\ Passes \in MainOf("pass") \cap RunOf("pass")
      /\ Does("skip") \in MainOf("skip") /\ Does("oserror") \in MainOf("skip")
      /\ Does("failure") \in MainOf("fail") \cap RunOf("fail")
      /\ Does("report_fail") \in RunOf("fail")
      /\ Does("crash") \in MainOf("crash") \cap RunOf("crash")
      /\ Does("freeze") \in RunOf("freeze") /\ Does("exit") \in RunOf("exit")
      /\ Does("sigkill") \in RunOf("sigkill")
  <2>1. ASSUME NEW end \in End
        PROVE  /\ end \in Deadly => Does(end) \in RunOf(end)
               /\ end = "crash" => Does(end) \in MainOf("crash")
               /\ end = "failure" => Does(end) \in MainOf("fail") \cap RunOf("fail")
               /\ end = "report_fail" => Does(end) \in RunOf("fail")
               /\ end \in {"skip", "oserror"} => Does(end) \in MainOf("skip") \cap RunOf("skip")
               /\ end = "success" => Does(end) \in MainOf("pass") \cap RunOf("pass")
    BY <1>4, <2>1 DEF Does
  <2> QED BY <2>1, <1>e DEF Deadly, Passes
<1>b. /\ Logs(<<"skip">>, "success") \in MainOf("skip") \cap RunOf("skip")
      /\ Logs(<<"skip">>, "skip") \in MainOf("skip") \cap RunOf("skip")
      /\ Logs(<<"skip">>, "failure") \in MainOf("fail") \cap RunOf("skip")
  BY <1>4, <1>e DEF Deadly
<1>c. /\ {Logs(<<"error">>, "success"), Logs(<<"error", "skip">>, "success"), Logs(<<"error", "skip">>, "skip"),
          Logs(<<"skip", "error">>, "success")} \subseteq MainOf("fail")
      /\ Logs(<<"error", "error">>, "success") \in RunOf("fail")
      /\ Logs(<<"error">>, "crash") \in MainOf("crash") \cap RunOf("crash")
  BY <1>4, <1>e DEF Deadly
<1>5. /\ {selftest_skip_init, selftest_log_skip_init, selftest_log_skip_even, selftest_skip_cleanup,
          selftest_errno_cleanup} \cup selftest_skipmsg_cleanup \subseteq MainOf("skip")
      /\ {selftest_log_skip_run, selftest_log_skip_even, selftest_log_skip_newline_run}
           \subseteq RunOf("skip")
  BY <1>a, <1>b DEF selftest_skip_init, selftest_log_skip_init, selftest_log_skip_even,
     selftest_skip_cleanup, selftest_errno_cleanup, selftest_skipmsg_cleanup, selftest_log_skip_run,
     selftest_log_skip_newline_run
<1>6. /\ {selftest_fail_run, selftest_errormsg_cleanup, selftest_failinit_and_logskip}
           \cup selftest_error_and_skip_init \subseteq MainOf("fail")
      /\ {selftest_fail_run, selftest_logerror_run, selftest_reportfail_run, memcmp_or_fail}
           \subseteq RunOf("fail")
  BY <1>a, <1>b, <1>c DEF selftest_fail_run, selftest_errormsg_cleanup, selftest_failinit_and_logskip,
     selftest_error_and_skip_init, selftest_logerror_run, selftest_reportfail_run, memcmp_or_fail
<1>7. /\ {selftest_unreachable_run, cause_sigsegv} \subseteq MainOf("crash") \cap RunOf("crash")
      /\ {selftest_cxxthrow_run, selftest_malloc_fail} \subseteq RunOf("crash")
      /\ selftest_noreturn_run \in RunOf("freeze")
      /\ selftest_oserror_run \in RunOf("exit")
      /\ raise_sigkill \in RunOf("sigkill")
  BY <1>a, <1>c DEF selftest_unreachable_run, cause_sigsegv, selftest_cxxthrow_run, selftest_malloc_fail,
     selftest_noreturn_run, selftest_oserror_run, raise_sigkill
<1>8. {selftest_pass, selftest_timedpass, selftest_preinit, selftest_logs, selftest_reschedule,
       selftest_cxxthrowcatch} = {Passes}
  BY DEF selftest_pass, selftest_timedpass, selftest_preinit, selftest_logs, selftest_reschedule,
     selftest_cxxthrowcatch
<1> QED BY <1>a, <1>5, <1>6, <1>7, <1>8

-----------------------------------------------------------------------------
(***************************************************************************)
(* The table of self tests holds what it promises.                         *)
(***************************************************************************)

\* All children and threads of a test are told to end in the same way.
Uniform(x, i, r, c) ==
  /\ x.init \in [Slice -> SUBSET MainOf(i)]
  /\ x.run \in [Thread -> SUBSET RunOf(r)]
  /\ x.cleanup \in [Slice -> SUBSET MainOf(c)]

UniformResult(i, r, c) ==
  IF i = "crash" THEN CoreDumped
  ELSE IF i = "fail" THEN Failed
  ELSE IF i = "skip" THEN Skipped
  ELSE IF r \in Deadly THEN ResultOf(r)
  ELSE IF c = "crash" THEN CoreDumped
  ELSE IF "fail" \in {r, c} THEN Failed
  ELSE IF "skip" \in {r, c} THEN Skipped ELSE Passed

LEMMA EachOf ==
  ASSUME NEW k
  PROVE  /\ \A b \in MainOf(k) : EachChild(b) \in [Slice -> SUBSET MainOf(k)]
         /\ \A b \in RunOf(k) : EachThread(b) \in [Thread -> SUBSET RunOf(k)]
BY DEF EachChild, EachThread

\* Never to be started, or as the kinds of the functions have it.
LEMMA UniformIsJustified ==
  ASSUME NEW x, NEW i \in {"pass", "skip", "fail", "crash"},
         NEW r \in {"pass", "skip", "fail"} \cup Deadly, NEW c \in {"pass", "skip", "fail", "crash"},
         Uniform(x, i, r, c), x.quit \in ExitInfo, ~(r = "fail" /\ c = "skip"),
         x.gate # "open" \/ x.group_skips \/ x.preinit = "skip" => Skipped \in x.expect,
         x.in_parent => i \in {"skip", "fail"} /\ \A s \in Slice : \A b \in x.init[s] : b.end \in Ret,
         \/ x.gate = "missing" \/ x.group_skips \/ x.preinit = "skip"
         \/ UniformResult(i, r, c) \in x.expect,
         x.in_parent => UniformResult(i, r, c) \in x.expect
  PROVE  Justified(x)
<1>1. ASSUME NEW s \in Slice
      PROVE  /\ Inits(x, s, i) /\ Runs(x, s, {r}) /\ SomeRuns(x, s, r) /\ Cleanups(x, s, c)
             /\ \A b \in x.init[s] : MainKind(b) = i
  <2>1. PICK t \in thread_range[s] : t \in Thread  BY RangeAssumption
  <2>2. thread_range[s] \subseteq Thread  BY RangeAssumption
  <2> QED BY <2>1, <2>2 DEF Uniform, MainOf, RunOf, Inits, Runs, SomeRuns, Cleanups
<1>2. WellFormed(x)
  <2>1. x.init \in [Slice -> SUBSET Behaviour] /\ x.run \in [Thread -> SUBSET Behaviour]
        /\ x.cleanup \in [Slice -> SUBSET Behaviour]
    BY DEF Uniform, MainOf, RunOf
  <2> QED BY <1>1, <2>1 DEF WellFormed
<1>3. ASSUME UniformResult(i, r, c) \in x.expect  PROVE Keeps(x)
  <2>0. PICK s0 \in Slice : TRUE  BY RangeAssumption
  <2>k. \A s \in Slice : \A K : r \in K => Runs(x, s, K)  BY <1>1 DEF Runs
  <2>1. CASE i = "crash"
    <3>1. \A s \in Slice : Dying(x, s, "crash")  BY <1>1, <2>1 DEF Dying
    <3>2. ResultOf("crash") \in x.expect  BY <1>3, <2>1 DEF ResultOf, UniformResult
    <3> QED BY <2>0, <3>1, <3>2 DEF Keeps, Deadly
  <2>2. CASE i = "fail"
    <3>1. \A s \in Slice : Failing(x, s)  BY <1>1, <2>2 DEF Failing
    <3>2. Failed \in x.expect  BY <1>3, <2>2 DEF UniformResult
    <3> QED BY <2>0, <3>1, <3>2 DEF Keeps
  <2>3. CASE i = "skip"
    <3>1. \A s \in Slice : Skipping(x, s)  BY <1>1, <2>3 DEF Skipping
    <3>2. Skipped \in x.expect  BY <1>3, <2>3 DEF UniformResult
    <3> QED BY <3>1, <3>2 DEF Keeps
  <2>4. CASE i = "pass" /\ r \in Deadly
    <3>1. \A s \in Slice : Dying(x, s, r)  BY <1>1, <2>k, <2>4 DEF Dying
    <3>2. ResultOf(r) \in x.expect  BY <1>3, <2>4 DEF UniformResult
    <3> QED BY <2>0, <2>4, <3>1, <3>2 DEF Keeps
  <2>5. CASE i = "pass" /\ r \notin Deadly /\ c = "crash"
    <3>1. \A s \in Slice : Dying(x, s, "crash")  BY <1>1, <2>k, <2>5 DEF Dying
    <3>2. ResultOf("crash") \in x.expect  BY <1>3, <2>5 DEF ResultOf, UniformResult
    <3> QED BY <2>0, <3>1, <3>2 DEF Keeps, Deadly
  <2>6. CASE i = "pass" /\ r \notin Deadly /\ c # "crash" /\ (r = "fail" \/ c = "fail")
    <3>1. \A s \in Slice : Failing(x, s)  BY <1>1, <2>k, <2>6 DEF Failing
    <3>2. Failed \in x.expect  BY <1>3, <2>6 DEF UniformResult
    <3> QED BY <2>0, <3>1, <3>2 DEF Keeps
  <2>7. CASE i = "pass" /\ r \in {"pass", "skip"} /\ c = "skip"
    <3>1. \A s \in Slice : Skipping(x, s)  BY <1>1, <2>k, <2>7 DEF Skipping
    <3>2. Skipped \in x.expect  BY <1>3, <2>7 DEF UniformResult, Deadly
    <3> QED BY <3>1, <3>2 DEF Keeps
  <2>8. CASE i = "pass" /\ r = "skip" /\ c = "pass"
    <3>2. Skipped \in x.expect  BY <1>3, <2>8 DEF UniformResult, Deadly
    <3> QED BY <1>1, <2>8, <3>2 DEF Keeps
  <2>9. CASE i = "pass" /\ r = "pass" /\ c = "pass"
    <3>1. \A s \in Slice : Passing(x, s)  BY <1>1, <2>9 DEF Passing
    <3>2. Passed \in x.expect  BY <1>3, <2>9 DEF UniformResult, Deadly
    <3> QED BY <2>0, <3>1, <3>2 DEF Keeps
  <2> QED BY <2>1, <2>2, <2>3, <2>4, <2>5, <2>6, <2>7, <2>8, <2>9
<1>4. i = "skip" => UniformResult(i, r, c) = Skipped  BY DEF UniformResult
<1>5. i = "fail" => UniformResult(i, r, c) = Failed  BY DEF UniformResult
<1> QED BY <1>1, <1>2, <1>3, <1>4, <1>5 DEF Justified

LEMMA EntryHasTest == ASSUME NEW ids, NEW r, NEW e \in Entries(ids, r) PROVE e.test = r
BY DEF Entries

LEMMA QuitsAreInfo ==
  {[code |-> "dumped", status |-> SIGQUIT], [code |-> "killed", status |-> SIGKILL],
   [code |-> "exited", status |-> 0]} \subseteq ExitInfo
BY DEF ExitInfo, Signal

\* Nothing but the quality level keeps these from passing.
LEMMA PassTestsKeep == \A e \in PassTests : Justified(e.test)
<1>1. ASSUME NEW x, x = [Plain EXCEPT !.run = EachThread(selftest_timedpass)]
      PROVE  Justified(x)
  <2>1. Uniform(x, "pass", "pass", "pass")
    BY <1>1, EachOf, SelftestKinds DEF Uniform, Plain
  <2> QED BY <1>1, <2>1, UniformIsJustified, QuitsAreInfo DEF UniformResult, Deadly, Plain
<1>2. ASSUME NEW x, x = [Plain EXCEPT !.gate = "missing", !.run = EachThread(selftest_pass),
                               !.expect = {Skipped}]
      PROVE  Justified(x)
  <2>1. Uniform(x, "pass", "pass", "pass")
    BY <1>2, EachOf, SelftestKinds DEF Uniform, Plain
  <2> QED BY <1>2, <2>1, UniformIsJustified, QuitsAreInfo DEF UniformResult, Deadly, Plain
<1>3. ASSUME NEW x, x = [Plain EXCEPT !.preinit = "success", !.init = EachChild(selftest_preinit)]
      PROVE  Justified(x)
  <2>1. Uniform(x, "pass", "pass", "pass")
    BY <1>3, EachOf, SelftestKinds DEF Uniform, Plain
  <2> QED BY <1>3, <2>1, UniformIsJustified, QuitsAreInfo DEF UniformResult, Deadly, Plain
<1> QED BY <1>1, <1>2, <1>3, EntryHasTest DEF PassTests

\* Messages that do not mark a thread do not change the result.
LEMMA LogTestsKeep == \A e \in LogTests : Justified(e.test)
<1>1. ASSUME NEW x, x = [Plain EXCEPT !.init = EachChild(selftest_logs), !.run = EachThread(selftest_logs)]
      PROVE  Justified(x)
  <2>1. Uniform(x, "pass", "pass", "pass")
    BY <1>1, EachOf, SelftestKinds DEF Uniform, Plain
  <2> QED BY <1>1, <2>1, UniformIsJustified, QuitsAreInfo DEF UniformResult, Deadly, Plain
<1>2. ASSUME NEW x, x = [Plain EXCEPT !.run = EachThread(selftest_reschedule)]
      PROVE  Justified(x)
  <2>1. Uniform(x, "pass", "pass", "pass")
    BY <1>2, EachOf, SelftestKinds DEF Uniform, Plain
  <2> QED BY <1>2, <2>1, UniformIsJustified, QuitsAreInfo DEF UniformResult, Deadly, Plain
<1>3. ASSUME NEW x, x = [Plain EXCEPT !.run = EachThread(selftest_cxxthrowcatch)]
      PROVE  Justified(x)
  <2>1. Uniform(x, "pass", "pass", "pass")
    BY <1>3, EachOf, SelftestKinds DEF Uniform, Plain
  <2> QED BY <1>3, <2>1, UniformIsJustified, QuitsAreInfo DEF UniformResult, Deadly, Plain
<1> QED BY <1>1, <1>2, <1>3, EntryHasTest DEF LogTests

\* Their test_run() is not reached.
LEMMA SkipTestsKeep == \A e \in SkipTests : Justified(e.test)
<1>1. ASSUME NEW x, x = [Skips(Plain) EXCEPT !.gate = "missing", !.init = EachChild(selftest_fail_run),
                               !.run = EachThread(selftest_fail_run)]
      PROVE  Justified(x)
  <2>1. Uniform(x, "fail", "fail", "pass")
    BY <1>1, EachOf, SelftestKinds DEF Uniform, Plain, Skips
  <2> QED BY <1>1, <2>1, UniformIsJustified, QuitsAreInfo DEF UniformResult, Deadly, Plain, Skips
<1>2. ASSUME NEW x, x = [Skips(Plain) EXCEPT !.init = EachChild(selftest_skip_init)]
      PROVE  Justified(x)
  <2>1. Uniform(x, "skip", "freeze", "pass")
    BY <1>2, EachOf, SelftestKinds DEF Uniform, Plain, Skips
  <2> QED BY <1>2, <2>1, UniformIsJustified, QuitsAreInfo DEF UniformResult, Deadly, ResultOf, Plain, Skips
<1>3. ASSUME NEW x, x = [Skips(Plain) EXCEPT !.init = EachChild(selftest_log_skip_init)]
      PROVE  Justified(x)
  <2>1. Uniform(x, "skip", "freeze", "pass")
    BY <1>3, EachOf, SelftestKinds DEF Uniform, Plain, Skips
  <2> QED BY <1>3, <2>1, UniformIsJustified, QuitsAreInfo DEF UniformResult, Deadly, ResultOf, Plain, Skips
<1>4. ASSUME NEW x, x = [Skips(Plain) EXCEPT !.preinit = "success", !.in_parent = TRUE,
                               !.init = EachChild(selftest_log_skip_init)]
      PROVE  Justified(x)
  <2>1. Uniform(x, "skip", "freeze", "pass")
    BY <1>4, EachOf, SelftestKinds DEF Uniform, Plain, Skips
  <2>2. \A s \in Slice : \A b \in x.init[s] : b.end \in Ret
    <3>1. x.init = EachChild(selftest_log_skip_init)  BY <1>4 DEF Plain, Skips
    <3> QED BY <3>1 DEF EachChild, selftest_log_skip_init, Logs, Ret
  <2> QED BY <1>4, <2>1, <2>2, UniformIsJustified, QuitsAreInfo DEF UniformResult, Deadly, Plain, Skips
<1>5. ASSUME NEW x, x = [Skips(Plain) EXCEPT !.preinit = "skip", !.init = EachChild(selftest_fail_run)]
      PROVE  Justified(x)
  <2>1. Uniform(x, "fail", "freeze", "pass")
    BY <1>5, EachOf, SelftestKinds DEF Uniform, Plain, Skips
  <2> QED BY <1>5, <2>1, UniformIsJustified, QuitsAreInfo DEF UniformResult, Deadly, ResultOf, Plain, Skips
<1>6. ASSUME NEW x, x = [Skips(Plain) EXCEPT !.group_skips = TRUE, !.init = EachChild(selftest_fail_run)]
      PROVE  Justified(x)
  <2>1. Uniform(x, "fail", "freeze", "pass")
    BY <1>6, EachOf, SelftestKinds DEF Uniform, Plain, Skips
  <2> QED BY <1>6, <2>1, UniformIsJustified, QuitsAreInfo DEF UniformResult, Deadly, ResultOf, Plain, Skips
<1>7. ASSUME NEW x, x = [Skips(Plain) EXCEPT !.init = EachChild(selftest_log_skip_even),
                               !.run = EachThread(selftest_log_skip_newline_run)]
      PROVE  Justified(x)
  <2>1. Uniform(x, "skip", "skip", "pass")
    BY <1>7, EachOf, SelftestKinds DEF Uniform, Plain, Skips
  <2> QED BY <1>7, <2>1, UniformIsJustified, QuitsAreInfo DEF UniformResult, Deadly, Plain, Skips
<1> QED BY <1>1, <1>2, <1>3, <1>4, <1>5, <1>6, <1>7, EntryHasTest DEF SkipTests

\* A skip of test_cleanup() makes a passing run a skip.
LEMMA CleanupSkipTestsKeep == \A e \in CleanupSkipTests : Justified(e.test)
<1>r. UniformResult("pass", "pass", "skip") = Skipped  BY DEF UniformResult, Deadly
<1>1. ASSUME NEW x, x = [Plain EXCEPT !.cleanup = EachChild(selftest_skip_cleanup), !.expect = {Skipped}]
      PROVE  Justified(x)
  <2>1. Uniform(x, "pass", "pass", "skip")
    BY <1>1, EachOf, SelftestKinds DEF Uniform, Plain
  <2>2. /\ x.quit \in ExitInfo /\ x.gate = "open" /\ ~x.group_skips /\ x.preinit = "none"
        /\ ~x.in_parent /\ x.expect = {Skipped}
    BY <1>1, QuitsAreInfo DEF Plain
  <2> QED BY <1>r, <2>1, <2>2, UniformIsJustified
<1>2. ASSUME NEW x, x = [Plain EXCEPT !.cleanup = EachChild(selftest_errno_cleanup), !.expect = {Skipped}]
      PROVE  Justified(x)
  <2>1. Uniform(x, "pass", "pass", "skip")
    BY <1>2, EachOf, SelftestKinds DEF Uniform, Plain
  <2>2. /\ x.quit \in ExitInfo /\ x.gate = "open" /\ ~x.group_skips /\ x.preinit = "none"
        /\ ~x.in_parent /\ x.expect = {Skipped}
    BY <1>2, QuitsAreInfo DEF Plain
  <2> QED BY <1>r, <2>1, <2>2, UniformIsJustified
<1>3. ASSUME NEW x, x = [Plain EXCEPT !.cleanup = [s \in Slice |-> selftest_skipmsg_cleanup],
                               !.expect = {Skipped}]
      PROVE  Justified(x)
  <2>1. Uniform(x, "pass", "pass", "skip")
    BY <1>3, EachOf, SelftestKinds DEF Uniform, Plain
  <2>2. /\ x.quit \in ExitInfo /\ x.gate = "open" /\ ~x.group_skips /\ x.preinit = "none"
        /\ ~x.in_parent /\ x.expect = {Skipped}
    BY <1>3, QuitsAreInfo DEF Plain
  <2> QED BY <1>r, <2>1, <2>2, UniformIsJustified
<1> QED BY <1>1, <1>2, <1>3, EntryHasTest DEF CleanupSkipTests

\* test_init() fails: by what it returns, or by what it logs.
LEMMA InitFailTestsKeep == \A e \in InitFailTests : Justified(e.test)
<1>1. ASSUME NEW x, x = [Fails(Plain) EXCEPT !.init = EachChild(selftest_fail_run),
                               !.run = EachThread(selftest_unreachable_run)]
      PROVE  Justified(x)
  <2>1. Uniform(x, "fail", "crash", "pass")
    BY <1>1, EachOf, SelftestKinds DEF Uniform, Plain, Fails
  <2> QED BY <1>1, <2>1, UniformIsJustified, QuitsAreInfo DEF UniformResult, Deadly, ResultOf, Plain, Fails
<1>2. ASSUME NEW x, x = [Fails(Plain) EXCEPT !.init = EachChild(selftest_failinit_and_logskip),
                               !.run = EachThread(selftest_noreturn_run)]
      PROVE  Justified(x)
  <2>1. Uniform(x, "fail", "freeze", "pass")
    BY <1>2, EachOf, SelftestKinds DEF Uniform, Plain, Fails
  <2> QED BY <1>2, <2>1, UniformIsJustified, QuitsAreInfo DEF UniformResult, Deadly, ResultOf, Plain, Fails
<1>3. ASSUME NEW x, x = [Fails(Plain) EXCEPT !.init = EachChild(selftest_errormsg_cleanup),
                               !.run = EachThread(selftest_unreachable_run)]
      PROVE  Justified(x)
  <2>1. Uniform(x, "fail", "crash", "pass")
    BY <1>3, EachOf, SelftestKinds DEF Uniform, Plain, Fails
  <2> QED BY <1>3, <2>1, UniformIsJustified, QuitsAreInfo DEF UniformResult, Deadly, ResultOf, Plain, Fails
<1>4. ASSUME NEW x, x = [Fails(Plain) EXCEPT !.init = EachChild(selftest_errormsg_cleanup),
                               !.in_parent = TRUE, !.run = EachThread(selftest_unreachable_run)]
      PROVE  Justified(x)
  <2>1. Uniform(x, "fail", "crash", "pass")
    BY <1>4, EachOf, SelftestKinds DEF Uniform, Plain, Fails
  <2>2. \A s \in Slice : \A b \in x.init[s] : b.end \in Ret
    <3>1. x.init = EachChild(selftest_errormsg_cleanup)  BY <1>4 DEF Plain, Fails
    <3> QED BY <3>1 DEF EachChild, selftest_errormsg_cleanup, Logs, Ret
  <2> QED BY <1>4, <2>1, <2>2, UniformIsJustified, QuitsAreInfo DEF UniformResult, Deadly, Plain, Fails
<1>5. ASSUME NEW x, x = [Fails(Plain) EXCEPT !.init = [s \in Slice |-> selftest_error_and_skip_init],
                               !.run = EachThread(selftest_noreturn_run)]
      PROVE  Justified(x)
  <2>1. Uniform(x, "fail", "freeze", "pass")
    BY <1>5, EachOf, SelftestKinds DEF Uniform, Plain, Fails
  <2> QED BY <1>5, <2>1, UniformIsJustified, QuitsAreInfo DEF UniformResult, Deadly, ResultOf, Plain, Fails
<1> QED BY <1>1, <1>2, <1>3, <1>4, <1>5, EntryHasTest DEF InitFailTests

\* test_run() or test_cleanup() fails; the skip of another does not hide it.
LEMMA FailTestsKeep == \A e \in FailTests : Justified(e.test)
<1>1. ASSUME NEW x, x = [Fails(Plain) EXCEPT !.run = EachThread(selftest_fail_run)]
      PROVE  Justified(x)
  <2>1. Uniform(x, "pass", "fail", "pass")
    BY <1>1, EachOf, SelftestKinds DEF Uniform, Plain, Fails
  <2> QED BY <1>1, <2>1, UniformIsJustified, QuitsAreInfo DEF UniformResult, Deadly, Plain, Fails
<1>2. ASSUME NEW x, x = [Fails(Plain) EXCEPT !.cleanup = EachChild(selftest_fail_run)]
      PROVE  Justified(x)
  <2>1. Uniform(x, "pass", "pass", "fail")
    BY <1>2, EachOf, SelftestKinds DEF Uniform, Plain, Fails
  <2> QED BY <1>2, <2>1, UniformIsJustified, QuitsAreInfo DEF UniformResult, Deadly, Plain, Fails
<1>3. ASSUME NEW x, x = [Fails(Plain) EXCEPT !.run = EachThread(selftest_fail_run),
                               !.cleanup = EachChild(selftest_fail_run)]
      PROVE  Justified(x)
  <2>1. Uniform(x, "pass", "fail", "fail")
    BY <1>3, EachOf, SelftestKinds DEF Uniform, Plain, Fails
  <2> QED BY <1>3, <2>1, UniformIsJustified, QuitsAreInfo DEF UniformResult, Deadly, Plain, Fails
<1>4. ASSUME NEW x, x = [Fails(Plain) EXCEPT !.cleanup = EachChild(selftest_errormsg_cleanup)]
      PROVE  Justified(x)
  <2>1. Uniform(x, "pass", "pass", "fail")
    BY <1>4, EachOf, SelftestKinds DEF Uniform, Plain, Fails
  <2> QED BY <1>4, <2>1, UniformIsJustified, QuitsAreInfo DEF UniformResult, Deadly, Plain, Fails
<1>5. ASSUME NEW x, x = [Fails(Plain) EXCEPT !.run = EachThread(selftest_log_skip_run),
                               !.cleanup = EachChild(selftest_fail_run)]
      PROVE  Justified(x)
  <2>1. Uniform(x, "pass", "skip", "fail")
    BY <1>5, EachOf, SelftestKinds DEF Uniform, Plain, Fails
  <2> QED BY <1>5, <2>1, UniformIsJustified, QuitsAreInfo DEF UniformResult, Deadly, Plain, Fails
<1>6. ASSUME NEW x, x = [Fails(Plain) EXCEPT !.run = EachThread(selftest_log_skip_run),
                               !.cleanup = EachChild(selftest_errormsg_cleanup)]
      PROVE  Justified(x)
  <2>1. Uniform(x, "pass", "skip", "fail")
    BY <1>6, EachOf, SelftestKinds DEF Uniform, Plain, Fails
  <2> QED BY <1>6, <2>1, UniformIsJustified, QuitsAreInfo DEF UniformResult, Deadly, Plain, Fails
<1> QED BY <1>1, <1>2, <1>3, <1>4, <1>5, <1>6, EntryHasTest DEF FailTests

\* The threads fail by what they report.
LEMMA ReportFailTestsKeep == \A e \in ReportFailTests : Justified(e.test)
<1>1. ASSUME NEW x, x = [Fails(Plain) EXCEPT !.run = EachThread(selftest_logerror_run)]
      PROVE  Justified(x)
  <2>1. Uniform(x, "pass", "fail", "pass")
    BY <1>1, EachOf, SelftestKinds DEF Uniform, Plain, Fails
  <2> QED BY <1>1, <2>1, UniformIsJustified, QuitsAreInfo DEF UniformResult, Deadly, Plain, Fails
<1>2. ASSUME NEW x, x = [Fails(Plain) EXCEPT !.run = EachThread(selftest_reportfail_run)]
      PROVE  Justified(x)
  <2>1. Uniform(x, "pass", "fail", "pass")
    BY <1>2, EachOf, SelftestKinds DEF Uniform, Plain, Fails
  <2> QED BY <1>2, <2>1, UniformIsJustified, QuitsAreInfo DEF UniformResult, Deadly, Plain, Fails
<1>3. ASSUME NEW x, x = [Fails(Plain) EXCEPT !.run = EachThread(memcmp_or_fail)]
      PROVE  Justified(x)
  <2>1. Uniform(x, "pass", "fail", "pass")
    BY <1>3, EachOf, SelftestKinds DEF Uniform, Plain, Fails
  <2> QED BY <1>3, <2>1, UniformIsJustified, QuitsAreInfo DEF UniformResult, Deadly, Plain, Fails
<1> QED BY <1>1, <1>2, <1>3, EntryHasTest DEF ReportFailTests

\* These pass, unless they are not started.
LEMMA GatedTestsKeep == \A e \in GatedTests : Justified(e.test)
<1>1. ASSUME NEW x, x = [Plain EXCEPT !.gate = "maybe", !.expect = {Passed, Skipped}]
      PROVE  Justified(x)
  <2>1. Uniform(x, "pass", "pass", "pass")
    BY <1>1, EachOf, SelftestKinds DEF Uniform, Plain
  <2> QED BY <1>1, <2>1, UniformIsJustified, QuitsAreInfo DEF UniformResult, Deadly, Plain
<1> QED BY <1>1, EntryHasTest DEF GatedTests

-----------------------------------------------------------------------------
\* Entries that tell children or threads different things.
LEMMA OpenIsJustified ==
  ASSUME NEW x, x.init \in [Slice -> SUBSET Behaviour], x.run \in [Thread -> SUBSET Behaviour],
         x.cleanup \in [Slice -> SUBSET Behaviour], x.quit \in ExitInfo,
         x.gate = "open", x.preinit = "none", ~x.group_skips, ~x.in_parent, Keeps(x)
  PROVE  Justified(x)
BY DEF Justified, WellFormed

LEMMA PassesEverywhere ==
  ASSUME NEW x, NEW s \in Slice
  PROVE  /\ x.init = EachChild(Passes) => Inits(x, s, "pass")
         /\ x.cleanup = EachChild(Passes) => Cleanups(x, s, "pass")
         /\ x.run = EachThread(Passes) => Runs(x, s, {"pass"})
         /\ EachChild(Passes) \in [Slice -> SUBSET Behaviour]
         /\ EachThread(Passes) \in [Thread -> SUBSET Behaviour]
<1>1. Passes \in MainOf("pass") \cap RunOf("pass")  BY SelftestKinds
<1>2. \A t \in thread_range[s] : t \in Thread  BY RangeAssumption
<1>3. EachChild(Passes)[s] = {Passes} /\ \A t \in Thread : EachThread(Passes)[t] = {Passes}
  BY DEF EachChild, EachThread
<1>4. EachChild(Passes) \in [Slice -> SUBSET Behaviour] /\ EachThread(Passes) \in [Thread -> SUBSET Behaviour]
  BY <1>1 DEF EachChild, EachThread, MainOf
<1> HIDE DEF Passes, EachChild, EachThread
<1> QED BY <1>1, <1>2, <1>3, <1>4 DEF Inits, Cleanups, Runs, MainOf, RunOf

\* By numbering a child has a thread that selftest_crash_run() picks.
LEMMA CrashRunKinds ==
  ASSUME NEW b, NEW k, b \in RunOf(k), NEW s \in Slice
  PROVE  /\ CrashRun(b) \in [Thread -> SUBSET Behaviour]
         /\ \E t \in thread_range[s] : t \in Thread /\ CrashRun(b)[t] = {b}
         /\ \A t \in Thread : CrashRun(b)[t] \in {{b}, {Passes}}
<1>1. Passes \in Behaviour /\ b \in Behaviour  BY SelftestKinds DEF RunOf
<1>2. PICK t \in thread_range[s] : thread_num[t] = 1 \/ thread_range[s] = {t}  BY NumbersAssumption
<1>3. t \in Thread /\ SliceOf(t) = s  BY RangeAssumption, SliceOfThread
<1>4. CrashRun(b)[t] = {b}  BY <1>2, <1>3 DEF CrashRun
<1>5. \A u \in Thread : CrashRun(b)[u] \in {{b}, {Passes}}  BY DEF CrashRun
<1>6. CrashRun(b) \in [Thread -> SUBSET Behaviour]  BY <1>1 DEF CrashRun
<1> QED BY <1>3, <1>4, <1>5, <1>6

LEMMA CrashRunDies ==
  ASSUME NEW x, NEW b, NEW k, b \in RunOf(k), NEW s \in Slice, x.run = CrashRun(b)
  PROVE  SomeRuns(x, s, k) /\ Runs(x, s, {"pass", "skip", "fail", k})
<1>1. Passes \in RunOf("pass")  BY SelftestKinds
<1>2. \A t \in thread_range[s] : t \in Thread  BY RangeAssumption
<1> HIDE DEF Passes
<1>3. SomeRuns(x, s, k)  BY CrashRunKinds DEF SomeRuns, RunOf
<1>4. Runs(x, s, {"pass", "skip", "fail", k})  BY <1>1, <1>2, CrashRunKinds DEF Runs, RunOf
<1> QED BY <1>3, <1>4

LEMMA OnSocketsKinds ==
  ASSUME NEW n, NEW b, NEW k, NEW s \in Slice, NEW x
  PROVE  /\ b \in MainOf(k) /\ x.init = OnSockets(n, b) =>
              /\ x.init \in [Slice -> SUBSET Behaviour]
              /\ IF package_id[s] = n THEN Inits(x, s, k) ELSE Inits(x, s, "pass")
         /\ b \in RunOf(k) /\ x.run = RunOnSockets(n, b) =>
              /\ x.run \in [Thread -> SUBSET Behaviour]
              /\ IF package_id[s] = n THEN Runs(x, s, {k}) /\ SomeRuns(x, s, k) ELSE Runs(x, s, {"pass"})
<1>1. Passes \in MainOf("pass") \cap RunOf("pass")  BY SelftestKinds
<1>2. PICK u \in thread_range[s] : u \in Thread  BY RangeAssumption
<1>3. \A t \in thread_range[s] : t \in Thread /\ SliceOf(t) = s  BY RangeAssumption, SliceOfThread
<1>4. ASSUME b \in MainOf(k), x.init = OnSockets(n, b)
      PROVE  /\ x.init \in [Slice -> SUBSET Behaviour]
             /\ IF package_id[s] = n THEN Inits(x, s, k) ELSE Inits(x, s, "pass")
  <2> HIDE DEF Passes
  <2> QED BY <1>1, <1>4 DEF OnSockets, Inits, MainOf
<1>5. ASSUME b \in RunOf(k), x.run = RunOnSockets(n, b)
      PROVE  /\ x.run \in [Thread -> SUBSET Behaviour]
             /\ IF package_id[s] = n THEN Runs(x, s, {k}) /\ SomeRuns(x, s, k) ELSE Runs(x, s, {"pass"})
  <2> HIDE DEF Passes
  <2>1. x.run \in [Thread -> SUBSET Behaviour]  BY <1>1, <1>5 DEF RunOnSockets, RunOf
  <2>2. \A t \in thread_range[s] : x.run[t] = IF package_id[s] = n THEN {b} ELSE {Passes}
    BY <1>3, <1>5 DEF RunOnSockets
  <2> QED BY <1>1, <1>2, <1>5, <2>1, <2>2 DEF Runs, SomeRuns, RunOf
<1> QED BY <1>4, <1>5

\* A run is skipped only if nobody has run the test to its end.
LEMMA PartlySkippingTestsKeep == \A e \in PartlySkippingTests : Justified(e.test)
<1>1. ASSUME NEW x, x = [Plain EXCEPT !.init = OnSockets(0, selftest_log_skip_init),
                               !.run = RunOnSockets(0, selftest_unreachable_run),
                               !.expect = IF OnePackage(0) THEN {Skipped} ELSE {Passed}]
      PROVE  Justified(x)
  <2>1. /\ x.init = OnSockets(0, selftest_log_skip_init)
        /\ x.run = RunOnSockets(0, selftest_unreachable_run)
        /\ x.cleanup = EachChild(Passes)
        /\ x.expect = IF OnePackage(0) THEN {Skipped} ELSE {Passed}
        /\ x.quit \in ExitInfo /\ x.gate = "open" /\ x.preinit = "none" /\ ~x.group_skips /\ ~x.in_parent
    BY <1>1, QuitsAreInfo DEF Plain
  <2>2. selftest_log_skip_init \in MainOf("skip") /\ selftest_unreachable_run \in RunOf("crash")
    BY SelftestKinds
  <2>3. \A s \in Slice : IF package_id[s] = 0 THEN Skipping(x, s) ELSE Passing(x, s)
    BY <2>1, <2>2, OnSocketsKinds, PassesEverywhere DEF Skipping, Passing
  <2>4. Keeps(x)  BY <2>1, <2>3 DEF Keeps, OnePackage
  <2>5. PICK s \in Slice : TRUE  BY RangeAssumption
  <2> QED BY <2>1, <2>2, <2>4, <2>5, OnSocketsKinds, PassesEverywhere, OpenIsJustified
<1>2. ASSUME NEW x, x = [Plain EXCEPT !.init = OnSockets(1, selftest_log_skip_init),
                               !.run = RunOnSockets(1, selftest_unreachable_run),
                               !.expect = IF OnePackage(1) THEN {Skipped} ELSE {Passed}]
      PROVE  Justified(x)
  <2>1. /\ x.init = OnSockets(1, selftest_log_skip_init)
        /\ x.run = RunOnSockets(1, selftest_unreachable_run)
        /\ x.cleanup = EachChild(Passes)
        /\ x.expect = IF OnePackage(1) THEN {Skipped} ELSE {Passed}
        /\ x.quit \in ExitInfo /\ x.gate = "open" /\ x.preinit = "none" /\ ~x.group_skips /\ ~x.in_parent
    BY <1>2, QuitsAreInfo DEF Plain
  <2>2. selftest_log_skip_init \in MainOf("skip") /\ selftest_unreachable_run \in RunOf("crash")
    BY SelftestKinds
  <2>3. \A s \in Slice : IF package_id[s] = 1 THEN Skipping(x, s) ELSE Passing(x, s)
    BY <2>1, <2>2, OnSocketsKinds, PassesEverywhere DEF Skipping, Passing
  <2>4. Keeps(x)  BY <2>1, <2>3 DEF Keeps, OnePackage
  <2>5. PICK s \in Slice : TRUE  BY RangeAssumption
  <2> QED BY <2>1, <2>2, <2>4, <2>5, OnSocketsKinds, PassesEverywhere, OpenIsJustified
<1>3. ASSUME NEW x, x = [Plain EXCEPT !.run = EachThread(selftest_log_skip_run), !.expect = {Skipped}]
      PROVE  Justified(x)
  <2>1. Uniform(x, "pass", "skip", "pass")
    BY <1>3, EachOf, SelftestKinds DEF Uniform, Plain
  <2>2. /\ x.quit \in ExitInfo /\ x.gate = "open" /\ ~x.group_skips /\ x.preinit = "none"
        /\ ~x.in_parent /\ x.expect = {Skipped}
    BY <1>3, QuitsAreInfo DEF Plain
  <2>3. UniformResult("pass", "skip", "pass") = Skipped  BY DEF UniformResult, Deadly
  <2> QED BY <2>1, <2>2, <2>3, UniformIsJustified
<1>4. ASSUME NEW x, x = [Plain EXCEPT !.run = [t \in Thread |-> {IF thread_num[t] % 2 = 0
                                                                   THEN selftest_log_skip_even ELSE Passes}],
                               !.expect = IF \A t \in Thread : thread_num[t] % 2 = 0 THEN {Skipped} ELSE {Passed}]
      PROVE  Justified(x)
  <2>1. /\ x.init = EachChild(Passes)
        /\ x.cleanup = EachChild(Passes)
        /\ x.run = [t \in Thread |-> {IF thread_num[t] % 2 = 0 THEN selftest_log_skip_even ELSE Passes}]
        /\ x.expect = IF \A t \in Thread : thread_num[t] % 2 = 0 THEN {Skipped} ELSE {Passed}
        /\ x.quit \in ExitInfo /\ x.gate = "open" /\ x.preinit = "none" /\ ~x.group_skips /\ ~x.in_parent
    BY <1>4, QuitsAreInfo DEF Plain
  <2>2. selftest_log_skip_even \in RunOf("skip") /\ Passes \in RunOf("pass")  BY SelftestKinds
  <2> HIDE DEF Passes
  <2>3. x.run \in [Thread -> SUBSET Behaviour]  BY <2>1, <2>2 DEF RunOf
  <2>4. \A t \in Thread : \A b \in x.run[t] :
          RunKind(b) = IF thread_num[t] % 2 = 0 THEN "skip" ELSE "pass"
    BY <2>1, <2>2 DEF RunOf
  <2>5. \A t \in Thread : t \in thread_range[SliceOf(t)] /\ SliceOf(t) \in Slice  BY SliceOfThread
  <2>6. \A s \in Slice : \A t \in thread_range[s] : t \in Thread  BY RangeAssumption
  <2>7. \A s \in Slice : Inits(x, s, "pass") /\ Cleanups(x, s, "pass")  BY <2>1, PassesEverywhere
  <2>8. Keeps(x)
    <3>1. CASE \A t \in Thread : thread_num[t] % 2 = 0
      <4>1. \A s \in Slice : Runs(x, s, {"skip"})  BY <2>4, <2>6, <3>1 DEF Runs
      <4>2. Skipped \in x.expect  BY <2>1, <3>1
      <4> QED BY <2>7, <4>1, <4>2 DEF Keeps
    <3>2. CASE ~(\A t \in Thread : thread_num[t] % 2 = 0)
      <4>1. \A s \in Slice : Runs(x, s, {"pass", "skip"})  BY <2>4, <2>6 DEF Runs
      <4>2. PICK t \in Thread : thread_num[t] % 2 # 0  BY <3>2
      <4>3. SomeRuns(x, SliceOf(t), "pass")  BY <2>4, <2>5, <4>2 DEF SomeRuns
      <4>4. Passed \in x.expect  BY <2>1, <3>2
      <4> QED BY <2>5, <2>7, <4>1, <4>3, <4>4 DEF Keeps
    <3> QED BY <3>1, <3>2
  <2>9. PICK s \in Slice : TRUE  BY RangeAssumption
  <2> QED BY <2>1, <2>3, <2>8, <2>9, PassesEverywhere, OpenIsJustified
<1> QED BY <1>1, <1>2, <1>3, <1>4, EntryHasTest DEF PartlySkippingTests

\* A thread passes or fails at random.
LEMMA RandomTestsKeep == \A e \in RandomTests : Justified(e.test)
<1>1. ASSUME NEW x, x = [Plain EXCEPT !.run = [t \in Thread |-> selftest_randomfail_run \cup {memcmp_or_fail}],
                               !.expect = {Passed, Failed}]
      PROVE  Justified(x)
  <2>1. /\ x.init = EachChild(Passes)
        /\ x.cleanup = EachChild(Passes)
        /\ x.run = [t \in Thread |-> selftest_randomfail_run \cup {memcmp_or_fail}]
        /\ x.expect = {Passed, Failed}
        /\ x.quit \in ExitInfo /\ x.gate = "open" /\ x.preinit = "none" /\ ~x.group_skips /\ ~x.in_parent
    BY <1>1, QuitsAreInfo DEF Plain
  <2>2. selftest_randomfail_run \cup {memcmp_or_fail} \subseteq RunOf("pass") \cup RunOf("fail")
    <3>1. selftest_fail_run = Does("failure")  BY DEF selftest_fail_run
    <3> QED BY <3>1, SelftestKinds DEF selftest_randomfail_run
  <2>3. x.run \in [Thread -> SUBSET Behaviour]  BY <2>1, <2>2 DEF RunOf
  <2>4. \A s \in Slice : Runs(x, s, {"pass", "fail"})
    <3>1. \A s \in Slice : \A t \in thread_range[s] : t \in Thread  BY RangeAssumption
    <3>2. \A t \in Thread : x.run[t] \subseteq RunOf("pass") \cup RunOf("fail")  BY <2>1, <2>2
    <3> QED BY <3>1, <3>2 DEF Runs, RunOf
  <2>5. \A s \in Slice : Inits(x, s, "pass") /\ Cleanups(x, s, "pass")  BY <2>1, PassesEverywhere
  <2>6. Keeps(x)  BY <2>1, <2>4, <2>5 DEF Keeps
  <2>7. PICK s \in Slice : TRUE  BY RangeAssumption
  <2> QED BY <2>1, <2>3, <2>6, <2>7, PassesEverywhere, OpenIsJustified
<1> QED BY <1>1, EntryHasTest DEF RandomTests

\* What happens in one child decides; the others pass.
LEMMA SocketTestsKeep == \A e \in SocketTests : Justified(e.test)
<1>1. ASSUME NEW x, x = [Plain EXCEPT !.init = OnSockets(1, selftest_fail_run),
                               !.expect = OnSocket1(Failed)]
      PROVE  Justified(x)
  <2>1. /\ x.init = OnSockets(1, selftest_fail_run)
        /\ x.run = EachThread(Passes)
        /\ x.cleanup = EachChild(Passes)
        /\ x.expect = OnSocket1(Failed)
        /\ x.quit \in ExitInfo /\ x.gate = "open" /\ x.preinit = "none" /\ ~x.group_skips /\ ~x.in_parent
    BY <1>1, QuitsAreInfo DEF Plain
  <2>2. selftest_fail_run \in MainOf("fail")  BY SelftestKinds
  <2>3. \A s \in Slice : IF package_id[s] = 1 THEN Failing(x, s) ELSE Passing(x, s)
    <3> SUFFICES ASSUME NEW s \in Slice PROVE IF package_id[s] = 1 THEN Failing(x, s) ELSE Passing(x, s)
      OBVIOUS
    <3>1. IF package_id[s] = 1 THEN Inits(x, s, "fail") ELSE Inits(x, s, "pass")
      BY <2>1, <2>2, OnSocketsKinds
    <3>2. Runs(x, s, {"pass"}) /\ Cleanups(x, s, "pass")  BY <2>1, PassesEverywhere
    <3> QED BY <3>1, <3>2 DEF Failing, Passing
  <2>4. Keeps(x)  BY <2>1, <2>3, RangeAssumption DEF Keeps, OnSocket1, HasPackage
  <2>6. PICK s \in Slice : TRUE  BY RangeAssumption
  <2> QED BY <2>1, <2>2, <2>4, <2>6, OnSocketsKinds, PassesEverywhere, OpenIsJustified
<1>2. ASSUME NEW x, x = [Plain EXCEPT !.run = RunOnSockets(1, selftest_fail_run),
                               !.expect = OnSocket1(Failed)]
      PROVE  Justified(x)
  <2>1. /\ x.init = EachChild(Passes)
        /\ x.run = RunOnSockets(1, selftest_fail_run)
        /\ x.cleanup = EachChild(Passes)
        /\ x.expect = OnSocket1(Failed)
        /\ x.quit \in ExitInfo /\ x.gate = "open" /\ x.preinit = "none" /\ ~x.group_skips /\ ~x.in_parent
    BY <1>2, QuitsAreInfo DEF Plain
  <2>2. selftest_fail_run \in RunOf("fail")  BY SelftestKinds
  <2>3. \A s \in Slice : IF package_id[s] = 1 THEN Failing(x, s) ELSE Passing(x, s)
    <3> SUFFICES ASSUME NEW s \in Slice PROVE IF package_id[s] = 1 THEN Failing(x, s) ELSE Passing(x, s)
      OBVIOUS
    <3>1. IF package_id[s] = 1 THEN Runs(x, s, {"fail"}) /\ SomeRuns(x, s, "fail") ELSE Runs(x, s, {"pass"})
      BY <2>1, <2>2, OnSocketsKinds
    <3>2. Inits(x, s, "pass") /\ Cleanups(x, s, "pass")  BY <2>1, PassesEverywhere
    <3> QED BY <3>1, <3>2 DEF Failing, Passing, Runs
  <2>4. Keeps(x)  BY <2>1, <2>3, RangeAssumption DEF Keeps, OnSocket1, HasPackage
  <2>6. PICK s \in Slice : TRUE  BY RangeAssumption
  <2> QED BY <2>1, <2>2, <2>4, <2>6, OnSocketsKinds, PassesEverywhere, OpenIsJustified
<1>3. ASSUME NEW x, x = [Plain EXCEPT !.run = RunOnSockets(1, selftest_noreturn_run),
                               !.expect = OnSocket1(TimedOut)]
      PROVE  Justified(x)
  <2>1. /\ x.init = EachChild(Passes)
        /\ x.run = RunOnSockets(1, selftest_noreturn_run)
        /\ x.cleanup = EachChild(Passes)
        /\ x.expect = OnSocket1(TimedOut)
        /\ x.quit \in ExitInfo /\ x.gate = "open" /\ x.preinit = "none" /\ ~x.group_skips /\ ~x.in_parent
    BY <1>3, QuitsAreInfo DEF Plain
  <2>2. selftest_noreturn_run \in RunOf("freeze")  BY SelftestKinds
  <2>3. \A s \in Slice : IF package_id[s] = 1 THEN Dying(x, s, "freeze") ELSE Passing(x, s)
    <3> SUFFICES ASSUME NEW s \in Slice PROVE IF package_id[s] = 1 THEN Dying(x, s, "freeze") ELSE Passing(x, s)
      OBVIOUS
    <3>1. IF package_id[s] = 1 THEN Runs(x, s, {"freeze"}) /\ SomeRuns(x, s, "freeze") ELSE Runs(x, s, {"pass"})
      BY <2>1, <2>2, OnSocketsKinds
    <3>2. Inits(x, s, "pass") /\ Cleanups(x, s, "pass")  BY <2>1, PassesEverywhere
    <3> QED BY <3>1, <3>2 DEF Dying, Passing, Runs
  <2>5. ResultOf("freeze") = TimedOut  BY DEF ResultOf
  <2>4. Keeps(x)
    <3>1. CASE HasPackage(1)
      <4>1. /\ \A s \in Slice : Passing(x, s) \/ Dying(x, s, "freeze")
            /\ \E s \in Slice : Dying(x, s, "freeze")
        BY <2>3, <3>1 DEF HasPackage
      <4>2. ResultOf("freeze") \in x.expect  BY <2>1, <2>5, <3>1 DEF OnSocket1
      <4> QED BY <4>1, <4>2 DEF Keeps, Deadly
    <3>2. CASE ~HasPackage(1)
      <4>1. \A s \in Slice : Passing(x, s)  BY <2>3, <3>2 DEF HasPackage
      <4>2. Passed \in x.expect  BY <2>1, <3>2 DEF OnSocket1
      <4> QED BY <4>1, <4>2, RangeAssumption DEF Keeps
    <3> QED BY <3>1, <3>2
  <2>6. PICK s \in Slice : TRUE  BY RangeAssumption
  <2> QED BY <2>1, <2>2, <2>4, <2>6, OnSocketsKinds, PassesEverywhere, OpenIsJustified
<1>4. ASSUME NEW x, x = [Plain EXCEPT !.init = OnSockets(1, cause_sigsegv),
                               !.expect = OnSocket1(CoreDumped)]
      PROVE  Justified(x)
  <2>1. /\ x.init = OnSockets(1, cause_sigsegv)
        /\ x.run = EachThread(Passes)
        /\ x.cleanup = EachChild(Passes)
        /\ x.expect = OnSocket1(CoreDumped)
        /\ x.quit \in ExitInfo /\ x.gate = "open" /\ x.preinit = "none" /\ ~x.group_skips /\ ~x.in_parent
    BY <1>4, QuitsAreInfo DEF Plain
  <2>2. cause_sigsegv \in MainOf("crash")  BY SelftestKinds
  <2>3. \A s \in Slice : IF package_id[s] = 1 THEN Dying(x, s, "crash") ELSE Passing(x, s)
    <3> SUFFICES ASSUME NEW s \in Slice PROVE IF package_id[s] = 1 THEN Dying(x, s, "crash") ELSE Passing(x, s)
      OBVIOUS
    <3>1. IF package_id[s] = 1 THEN Inits(x, s, "crash") ELSE Inits(x, s, "pass")
      BY <2>1, <2>2, OnSocketsKinds
    <3>2. Runs(x, s, {"pass"}) /\ Cleanups(x, s, "pass")  BY <2>1, PassesEverywhere
    <3> QED BY <3>1, <3>2 DEF Dying, Passing
  <2>5. ResultOf("crash") = CoreDumped  BY DEF ResultOf
  <2>4. Keeps(x)
    <3>1. CASE HasPackage(1)
      <4>1. /\ \A s \in Slice : Passing(x, s) \/ Dying(x, s, "crash")
            /\ \E s \in Slice : Dying(x, s, "crash")
        BY <2>3, <3>1 DEF HasPackage
      <4>2. ResultOf("crash") \in x.expect  BY <2>1, <2>5, <3>1 DEF OnSocket1
      <4> QED BY <4>1, <4>2 DEF Keeps, Deadly
    <3>2. CASE ~HasPackage(1)
      <4>1. \A s \in Slice : Passing(x, s)  BY <2>3, <3>2 DEF HasPackage
      <4>2. Passed \in x.expect  BY <2>1, <3>2 DEF OnSocket1
      <4> QED BY <4>1, <4>2, RangeAssumption DEF Keeps
    <3> QED BY <3>1, <3>2
  <2>6. PICK s \in Slice : TRUE  BY RangeAssumption
  <2> QED BY <2>1, <2>2, <2>4, <2>6, OnSocketsKinds, PassesEverywhere, OpenIsJustified
<1>5. ASSUME NEW x, x = [Plain EXCEPT !.run = [t \in Thread |-> IF package_id[SliceOf(t)] = 1
                                                                  THEN CrashRun(cause_sigsegv)[t] ELSE {Passes}],
                               !.expect = OnSocket1(CoreDumped)]
      PROVE  Justified(x)
  <2>1. /\ x.init = EachChild(Passes)
        /\ x.cleanup = EachChild(Passes)
        /\ x.run = [t \in Thread |-> IF package_id[SliceOf(t)] = 1
                                   THEN CrashRun(cause_sigsegv)[t] ELSE {Passes}]
        /\ x.expect = OnSocket1(CoreDumped)
        /\ x.quit \in ExitInfo /\ x.gate = "open" /\ x.preinit = "none" /\ ~x.group_skips /\ ~x.in_parent
    BY <1>5, QuitsAreInfo DEF Plain
  <2>2. cause_sigsegv \in RunOf("crash") /\ Passes \in RunOf("pass")  BY SelftestKinds
  <2> HIDE DEF Passes
  <2>3. \A s \in Slice : IF package_id[s] = 1 THEN Dying(x, s, "crash") ELSE Passing(x, s)
    <3> SUFFICES ASSUME NEW s \in Slice PROVE IF package_id[s] = 1 THEN Dying(x, s, "crash") ELSE Passing(x, s)
      OBVIOUS
    <3>1. \A t \in thread_range[s] : t \in Thread /\ SliceOf(t) = s  BY RangeAssumption, SliceOfThread
    <3>2. Inits(x, s, "pass") /\ Cleanups(x, s, "pass")  BY <2>1, PassesEverywhere
    <3>3. CASE package_id[s] = 1
      <4>1. \A t \in thread_range[s] : x.run[t] = CrashRun(cause_sigsegv)[t]  BY <2>1, <3>1, <3>3
      <4>2. SomeRuns(x, s, "crash")  BY <2>2, <4>1, CrashRunKinds DEF SomeRuns, RunOf
      <4>3. Runs(x, s, {"pass", "skip", "fail", "crash"})
        BY <2>2, <3>1, <4>1, CrashRunKinds DEF Runs, RunOf
      <4> QED BY <3>2, <3>3, <4>2, <4>3 DEF Dying
    <3>4. CASE package_id[s] # 1
      <4>1. \A t \in thread_range[s] : x.run[t] = {Passes}  BY <2>1, <3>1, <3>4
      <4>2. Runs(x, s, {"pass"})  BY <2>2, <4>1 DEF Runs, RunOf
      <4> QED BY <3>2, <3>4, <4>2 DEF Passing
    <3> QED BY <3>3, <3>4
  <2>5. ResultOf("crash") = CoreDumped  BY DEF ResultOf
  <2>4. Keeps(x)
    <3>1. CASE HasPackage(1)
      <4>1. /\ \A s \in Slice : Passing(x, s) \/ Dying(x, s, "crash")
            /\ \E s \in Slice : Dying(x, s, "crash")
        BY <2>3, <3>1 DEF HasPackage
      <4>2. ResultOf("crash") \in x.expect  BY <2>1, <2>5, <3>1 DEF OnSocket1
      <4> QED BY <4>1, <4>2 DEF Keeps, Deadly
    <3>2. CASE ~HasPackage(1)
      <4>1. \A s \in Slice : Passing(x, s)  BY <2>3, <3>2 DEF HasPackage
      <4>2. Passed \in x.expect  BY <2>1, <3>2 DEF OnSocket1
      <4> QED BY <4>1, <4>2, RangeAssumption DEF Keeps
    <3> QED BY <3>1, <3>2
  <2>6. PICK s \in Slice : TRUE  BY RangeAssumption
  <2>7. x.run \in [Thread -> SUBSET Behaviour]
    <3>1. CrashRun(cause_sigsegv) \in [Thread -> SUBSET Behaviour]  BY <2>2, <2>6, CrashRunKinds
    <3> QED BY <2>1, <2>2, <3>1 DEF RunOf
  <2> QED BY <2>1, <2>4, <2>6, <2>7, PassesEverywhere, OpenIsJustified
<1> QED BY <1>1, <1>2, <1>3, <1>4, <1>5, EntryHasTest DEF SocketTests

\* A crash in any function decides.
LEMMA CrashTestsKeep == \A e \in CrashTests : Justified(e.test)
<1>1. ASSUME NEW x, x = [Plain EXCEPT !.run = EachThread(selftest_cxxthrow_run), !.expect = {CoreDumped}]
      PROVE  Justified(x)
  <2>1. Uniform(x, "pass", "crash", "pass")
    BY <1>1, EachOf, SelftestKinds DEF Uniform, Plain
  <2> QED BY <1>1, <2>1, UniformIsJustified, QuitsAreInfo DEF UniformResult, Deadly, ResultOf, Plain
<1>2. ASSUME NEW x, x = [Plain EXCEPT !.run = EachThread(selftest_malloc_fail), !.expect = {CoreDumped}]
      PROVE  Justified(x)
  <2>1. Uniform(x, "pass", "crash", "pass")
    BY <1>2, EachOf, SelftestKinds DEF Uniform, Plain
  <2> QED BY <1>2, <2>1, UniformIsJustified, QuitsAreInfo DEF UniformResult, Deadly, ResultOf, Plain
<1>3. ASSUME NEW x, x = [Plain EXCEPT !.run = CrashRun(cause_sigsegv), !.expect = {CoreDumped}]
      PROVE  Justified(x)
  <2>1. /\ x.init = EachChild(Passes)
        /\ x.cleanup = EachChild(Passes)
        /\ x.run = CrashRun(cause_sigsegv)
        /\ x.expect = {CoreDumped}
        /\ x.quit \in ExitInfo /\ x.gate = "open" /\ x.preinit = "none" /\ ~x.group_skips /\ ~x.in_parent
    BY <1>3, QuitsAreInfo DEF Plain
  <2>2. cause_sigsegv \in RunOf("crash")  BY SelftestKinds
  <2>3. \A s \in Slice : Dying(x, s, "crash")
    BY <2>1, <2>2, CrashRunDies, PassesEverywhere DEF Dying
  <2>4. PICK s \in Slice : TRUE  BY RangeAssumption
  <2>5. ResultOf("crash") \in x.expect  BY <2>1 DEF ResultOf
  <2>6. Keeps(x)  BY <2>3, <2>4, <2>5 DEF Keeps, Deadly
  <2> QED BY <2>1, <2>2, <2>4, <2>6, CrashRunKinds, PassesEverywhere, OpenIsJustified
<1>4. ASSUME NEW x, x = [Plain EXCEPT !.init = EachChild(cause_sigsegv), !.expect = {CoreDumped}]
      PROVE  Justified(x)
  <2>1. Uniform(x, "crash", "pass", "pass")
    BY <1>4, EachOf, SelftestKinds DEF Uniform, Plain
  <2> QED BY <1>4, <2>1, UniformIsJustified, QuitsAreInfo DEF UniformResult, Deadly, Plain
<1>5. ASSUME NEW x, x = [Plain EXCEPT !.cleanup = EachChild(cause_sigsegv), !.expect = {CoreDumped}]
      PROVE  Justified(x)
  <2>1. Uniform(x, "pass", "pass", "crash")
    BY <1>5, EachOf, SelftestKinds DEF Uniform, Plain
  <2> QED BY <1>5, <2>1, UniformIsJustified, QuitsAreInfo DEF UniformResult, Deadly, Plain
<1> QED BY <1>1, <1>2, <1>3, <1>4, <1>5, EntryHasTest DEF CrashTests

\* A child that is killed or exits.
LEMMA DeadlyTestsKeep == \A e \in DeadlyTests : Justified(e.test)
<1>1. ASSUME NEW x, x = [Plain EXCEPT !.run = CrashRun(raise_sigkill), !.expect = {OutOfMemory}]
      PROVE  Justified(x)
  <2>1. /\ x.init = EachChild(Passes)
        /\ x.cleanup = EachChild(Passes)
        /\ x.run = CrashRun(raise_sigkill)
        /\ x.expect = {OutOfMemory}
        /\ x.quit \in ExitInfo /\ x.gate = "open" /\ x.preinit = "none" /\ ~x.group_skips /\ ~x.in_parent
    BY <1>1, QuitsAreInfo DEF Plain
  <2>2. raise_sigkill \in RunOf("sigkill")  BY SelftestKinds
  <2>3. \A s \in Slice : Dying(x, s, "sigkill")
    BY <2>1, <2>2, CrashRunDies, PassesEverywhere DEF Dying
  <2>4. PICK s \in Slice : TRUE  BY RangeAssumption
  <2>5. ResultOf("sigkill") \in x.expect  BY <2>1 DEF ResultOf
  <2>6. Keeps(x)  BY <2>3, <2>4, <2>5 DEF Keeps, Deadly
  <2> QED BY <2>1, <2>2, <2>4, <2>6, CrashRunKinds, PassesEverywhere, OpenIsJustified
<1>2. ASSUME NEW x, x = [Plain EXCEPT !.run = EachThread(selftest_oserror_run),
                               !.expect = {OperatingSystemError}]
      PROVE  Justified(x)
  <2>1. Uniform(x, "pass", "exit", "pass")
    BY <1>2, EachOf, SelftestKinds DEF Uniform, Plain
  <2> QED BY <1>2, <2>1, UniformIsJustified, QuitsAreInfo DEF UniformResult, Deadly, ResultOf, Plain
<1> QED BY <1>1, <1>2, EntryHasTest DEF DeadlyTests

\* A frozen thread is timed out.
LEMMA FreezeTestsKeep == \A e \in FreezeTests : Justified(e.test)
<1>r. UniformResult("pass", "freeze", "pass") = TimedOut  BY DEF UniformResult, ResultOf, Deadly
<1>1. ASSUME NEW x, x = Freezes
      PROVE  Justified(x)
  <2>1. Uniform(x, "pass", "freeze", "pass")
    BY <1>1, EachOf, SelftestKinds DEF Uniform, Plain, Freezes
  <2>2. /\ x.quit \in ExitInfo /\ x.gate = "open" /\ ~x.group_skips /\ x.preinit = "none"
        /\ ~x.in_parent /\ x.expect = {TimedOut}
    BY <1>1, QuitsAreInfo DEF Plain, Freezes
  <2> QED BY <1>r, <2>1, <2>2, UniformIsJustified DEF Deadly
<1>2. ASSUME NEW x, x = [Freezes EXCEPT !.quit = [code |-> "exited", status |-> 0]]
      PROVE  Justified(x)
  <2>1. Uniform(x, "pass", "freeze", "pass")
    BY <1>2, EachOf, SelftestKinds DEF Uniform, Plain, Freezes
  <2>2. /\ x.quit \in ExitInfo /\ x.gate = "open" /\ ~x.group_skips /\ x.preinit = "none"
        /\ ~x.in_parent /\ x.expect = {TimedOut}
    BY <1>2, QuitsAreInfo DEF Plain, Freezes
  <2> QED BY <1>r, <2>1, <2>2, UniformIsJustified DEF Deadly
<1>3. ASSUME NEW x, x = [Freezes EXCEPT !.quit = [code |-> "killed", status |-> SIGKILL]]
      PROVE  Justified(x)
  <2>1. Uniform(x, "pass", "freeze", "pass")
    BY <1>3, EachOf, SelftestKinds DEF Uniform, Plain, Freezes
  <2>2. /\ x.quit \in ExitInfo /\ x.gate = "open" /\ ~x.group_skips /\ x.preinit = "none"
        /\ ~x.in_parent /\ x.expect = {TimedOut}
    BY <1>3, QuitsAreInfo DEF Plain, Freezes
  <2> QED BY <1>r, <2>1, <2>2, UniformIsJustified DEF Deadly
<1>4. ASSUME NEW x, x = [Freezes EXCEPT !.run = [t \in Thread |-> selftest_50pct_freeze_fail_run],
                               !.expect = {Failed, TimedOut}]
      PROVE  Justified(x)
  <2>1. /\ x.init = EachChild(Passes)
        /\ x.cleanup = EachChild(Passes)
        /\ x.run = [t \in Thread |-> selftest_50pct_freeze_fail_run]
        /\ x.expect = {Failed, TimedOut}
        /\ x.quit \in ExitInfo /\ x.gate = "open" /\ x.preinit = "none" /\ ~x.group_skips /\ ~x.in_parent
    BY <1>4, QuitsAreInfo DEF Plain, Freezes
  <2>2. selftest_50pct_freeze_fail_run \subseteq RunOf("freeze") \cup RunOf("fail")
    <3>1. selftest_fail_run = Does("failure") /\ selftest_noreturn_run = Does("freeze")
      BY DEF selftest_fail_run, selftest_noreturn_run
    <3> QED BY <3>1, SelftestKinds DEF selftest_50pct_freeze_fail_run
  <2>3. x.run \in [Thread -> SUBSET Behaviour]  BY <2>1, <2>2 DEF RunOf
  <2>4. \A s \in Slice : Runs(x, s, {"fail", "freeze"})
    <3>1. \A s \in Slice : \A t \in thread_range[s] : t \in Thread  BY RangeAssumption
    <3>2. \A t \in Thread : x.run[t] \subseteq RunOf("freeze") \cup RunOf("fail")  BY <2>1, <2>2
    <3> QED BY <3>1, <3>2 DEF Runs, RunOf
  <2>5. \A s \in Slice : Inits(x, s, "pass") /\ Cleanups(x, s, "pass")  BY <2>1, PassesEverywhere
  <2>6. Keeps(x)  BY <2>1, <2>4, <2>5 DEF Keeps
  <2>7. PICK s \in Slice : TRUE  BY RangeAssumption
  <2> QED BY <2>1, <2>3, <2>6, <2>7, PassesEverywhere, OpenIsJustified
<1> QED BY <1>1, <1>2, <1>3, <1>4, EntryHasTest DEF FreezeTests

\* Every self test asks for what its functions come to.
LEMMA TableIsJustified == \A x \in {entry.test : entry \in SelfTests} : Justified(x)
BY PassTestsKeep, LogTestsKeep, SkipTestsKeep, PartlySkippingTestsKeep, CleanupSkipTestsKeep, RandomTestsKeep,
   SocketTestsKeep, InitFailTestsKeep, FailTestsKeep, ReportFailTestsKeep, CrashTestsKeep, DeadlyTestsKeep,
   FreezeTestsKeep, GatedTestsKeep DEF SelfTests

-----------------------------------------------------------------------------
(***************************************************************************)
(* What holds at every step of the self tests.                             *)
(***************************************************************************)
SInv ==
  /\ test \in {entry.test : entry \in SelfTests}
  /\ IInv /\ ScriptTypes /\ Story
  /\ SelftestsEndAsExpected /\ ThreadFailureIsSeen

LEMMA SelftestIsWellFormed ==
  ASSUME SInv
  PROVE  Justified(test) /\ WellFormed(test)
BY TableIsJustified DEF SInv, Justified

LEMMA InitSInv == SInit => SInv
<1> SUFFICES ASSUME SInit  PROVE SInv  OBVIOUS
<1>1. Passes \in Behaviour  BY SelftestKinds DEF MainOf
<1> HIDE DEF Passes
<1>2. IInv  BY InitIInv DEF SInit
<1>3. ScriptTypes  BY <1>1 DEF SInit, Init, ScriptTypes, Flag
<1>4. Started
  <2>1. \A s \in Slice : at[s] = "start"  BY DEF SInit, Init
  <2>2. \A t \in Thread : pc[t] = "idle" /\ logged[t] = 0  BY DEF SInit, Init
  <2> QED BY <2>1, <2>2 DEF Started, ThreadStory, SliceStory
<1>5. SelftestsEndAsExpected /\ ThreadFailureIsSeen
  BY DEF SInit, Init, SelftestsEndAsExpected, ThreadFailureIsSeen, Returned
<1> QED BY <1>2, <1>3, <1>4, <1>5 DEF SInv, Story, SInit

\* The result of a child that has come to its end is one.
LEMMA EndedByStory ==
  ASSUME IInv, ScriptTypes, WellFormed(test), Unstarted \/ Started, \A s \in Slice : at[s] = "ended"
  PROVE  Ended
<1> USE DEF TestResult, Skipped, Passed, Failed, CoreDumped, OperatingSystemError, OutOfMemory, TimedOut,
            Interrupted
<1>1. main \in [Slice -> Flag] /\ flag \in [Thread -> Flag] /\ thread_state \in [Thread -> ThreadState]
      /\ result \in [Slice -> TestResult \cup {Unset}]
  BY DEF IInv, ThreadTypes, ScriptTypes
<1>2. ASSUME NEW s \in Slice  PROVE result[s] \in TestResult
  <2>1. CASE Unstarted
    <3>1. CASE result[s] = Skipped  BY <3>1
    <3>2. CASE result[s] # Skipped
      <4>1. PICK r \in Slice : InParent /\ \E b \in InitFunction(r) : result[s] = ResultInParent(b)
        BY <2>1, <3>2 DEF Unstarted
      <4>2. result[s] \in {Failed, Skipped}  BY <4>1, InitInParentEnds
      <4> QED BY <4>2
    <3> QED BY <3>1, <3>2
  <2>2. CASE Started
    <3>1. EndsInInit(s) \/ EndsInRun(s) \/ EndsInCleanup(s)  BY <2>2 DEF Started, SliceStory
    <3>2. \A b : RunKind(b) \in Deadly => ResultOf(RunKind(b)) \in TestResult  BY DEF Deadly, ResultOf
    <3>3. \A b : MainKind(b) \in {"crash", "fail", "skip", "pass"}  BY DEF MainKind
    <3>4. \A k \in {"crash", "fail", "skip", "pass"} : LeftBy(s, k) => result[s] \in TestResult
      <4>1. LeftBy(s, "crash") => result[s] = CoreDumped  BY DEF LeftBy
      <4>2. LeftBy(s, "fail") => result[s] \in {Skipped, Failed}  BY DEF LeftBy
      <4>3. LeftBy(s, "skip") => result[s] = Skipped  BY DEF LeftBy
      <4>4. LeftBy(s, "pass") => result[s] = Passed  BY DEF LeftBy
      <4> QED BY <4>1, <4>2, <4>3, <4>4
    <3>5. CASE EndsInRun(s)  BY <3>2, <3>5 DEF EndsInRun
    <3>6. CASE EndsInInit(s) \/ EndsInCleanup(s)
      BY <3>3, <3>4, <3>6 DEF EndsInInit, EndsInCleanup
    <3> QED BY <3>1, <3>5, <3>6
  <2> QED BY <2>1, <2>2
<1> QED BY <1>1, <1>2 DEF Ended

\* A step of a child or one of its threads.
LEMMA ChildStepSInv ==
  ASSUME SInv, \/ SkipUnstarted \/ InitInParent
               \/ \E s \in Slice : SliceStep(s)
               \/ \E t \in Thread : ThreadStep(t)
  PROVE  SInv'
<1> USE DEF SInv
<1>0. Justified(test) /\ WellFormed(test)  BY SelftestIsWellFormed
<1>1. /\ \E s \in Slice : at[s] # "ended"
      /\ UNCHANGED <<test, once, printed, tests_left>>
      /\ ScriptTypes'
  BY <1>0, StepTypes
<1>2. outcome = "running" /\ outcome' = "running"  BY <1>1 DEF ScriptTypes, once
<1>3. Started  BY <1>1, <1>2 DEF Story, Unstarted
<1>4. IInv'
  <2>1. SNext  BY DEF SNext
  <2> QED BY <2>1, SNextIInv
<1>5. Unstarted' \/ Started'
  <2>1. CASE SkipUnstarted \/ InitInParent  BY <2>1, UnstartedStory
  <2>2. ASSUME NEW s \in Slice, SliceStep(s)  PROVE Started'
    BY <1>0, <1>3, <2>2, StartStory, InitStepStory, CleanupStepStory, TimeOutStory, JoinStory DEF SliceStep
  <2>3. ASSUME NEW t \in Thread, ThreadStep(t)  PROVE Started'
    BY <1>0, <1>3, <2>3, ThreadStepStory
  <2> QED BY <2>1, <2>2, <2>3
<1>6. SelftestsEndAsExpected' /\ ThreadFailureIsSeen'
  BY <1>2 DEF SelftestsEndAsExpected, ThreadFailureIsSeen, Returned
<1> QED BY <1>1, <1>4, <1>5, <1>6 DEF Story

\* The end of run_one_test_once().
LEMMA PrintSInv ==
  ASSUME SInv, PrintResult
  PROVE  SInv'
<1> USE DEF SInv
<1> DEFINE r == PrintedResult(result, main, flag, thread_state)
<1>0. Justified(test) /\ WellFormed(test)  BY SelftestIsWellFormed
<1>1. /\ PrintAndReturn /\ outcome = "running" /\ \A s \in Slice : at[s] = "ended"
      /\ printed' = r /\ verdict' = RunOnceResult(r, ignore_os_errors)
      /\ outcome' \in {"exited", "returned"}
      /\ UNCHANGED <<at, result, main, thread_state, pc, callbacks, test, behaviour, logged>>
  BY DEF PrintResult, PrintAndReturn, child, script
<1>2. Unstarted \/ Started  BY <1>1 DEF Story
<1>3. Ended  BY <1>0, <1>1, <1>2, EndedByStory
<1>4. r \in test.expect  BY <1>0, <1>1, <1>2, <1>3, UnstartedEnds, StartedEnds
<1>5. SelftestsEndAsExpected'  BY <1>1, <1>4 DEF SelftestsEndAsExpected
<1>6. ThreadFailureIsSeen'
  <2> SUFFICES ASSUME \A s \in Slice : result[s] \notin OsError,
                      NEW t \in Thread, pc[t] = "done", flag'[t] = "failed"
               PROVE  RunOnceResult(r, ignore_os_errors) \notin {Passed, Skipped}
    BY <1>1 DEF ThreadFailureIsSeen
  <2>1. thread_state[t] # "running"  BY DEF IInv, CallbackInv
  <2>2. flag[t] = "failed"  BY <1>1, <2>1, StuckShape DEF IInv
  <2>3. ~NobodyFailed  BY <2>2 DEF NobodyFailed
  <2> HIDE DEF r
  <2>4. PICK s \in Slice : r = IF Serious(result[s]) THEN result[s] ELSE Failed
    BY <1>3, <2>3, PrintedByWorst DEF r
  <2>5. r \notin OsError
    BY <2>4 DEF OsError, Failed, OperatingSystemError, TimedOut, OutOfMemory
  <2>6. r \notin {Passed, Skipped}
    BY <2>4 DEF Serious, Failed, Passed, Skipped
  <2> QED BY <2>5, <2>6 DEF RunOnceResult
<1>7. ScriptTypes'  BY <1>1 DEF ScriptTypes
<1>8. IInv'
  <2>1. SNext  BY DEF SNext
  <2> QED BY <2>1, SNextIInv
<1>9. Story'  BY <1>1 DEF Story
<1> QED BY <1>1, <1>5, <1>6, <1>7, <1>8, <1>9

LEMMA NextTestSInv ==
  ASSUME SInv, NextTest
  PROVE  SInv'
<1> USE DEF SInv
<1>1. Passes \in Behaviour  BY SelftestKinds DEF MainOf
<1> HIDE DEF Passes
<1>2. Started'
  <2>1. \A s \in Slice : at'[s] = "start"  BY DEF NextTest
  <2>2. \A t \in Thread : pc'[t] = "idle" /\ logged'[t] = 0  BY DEF NextTest
  <2> QED BY <2>1, <2>2, FreshStory
<1>3. ScriptTypes'  BY <1>1 DEF NextTest, ScriptTypes
<1>4. IInv'  BY NextTestIInv
<1>5. SelftestsEndAsExpected' /\ ThreadFailureIsSeen'
  BY DEF NextTest, SelftestsEndAsExpected, ThreadFailureIsSeen, Returned
<1> QED BY <1>2, <1>3, <1>4, <1>5 DEF NextTest, Story

LEMMA NextSInv == SInv /\ [SNext]_svars => SInv'
<1> SUFFICES ASSUME SInv, [SNext]_svars  PROVE SInv'  OBVIOUS
<1>1. CASE \/ SkipUnstarted \/ InitInParent
           \/ \E s \in Slice : SliceStep(s)
           \/ \E t \in Thread : ThreadStep(t)
  BY <1>1, ChildStepSInv
<1>2. CASE PrintResult  BY <1>2, PrintSInv
<1>3. CASE NextTest  BY <1>3, NextTestSInv
<1>4. CASE UNCHANGED svars \/ (Finished /\ UNCHANGED selftest)
  <2>1. UNCHANGED <<at, result, main, flag, thread_state, pc, callbacks, outcome, verdict,
                    test, behaviour, logged, printed, tests_left>>
    BY <1>4 DEF svars, vars, child, thread, once, selftest, script, Finished
  <2>2. IInv'  BY SNextIInv DEF SInv
  <2>3. ScriptTypes' /\ SelftestsEndAsExpected' /\ ThreadFailureIsSeen'
    BY <2>1 DEF SInv, ScriptTypes, SelftestsEndAsExpected, ThreadFailureIsSeen, Returned
  <2>4. Story'
    <3>1. Unstarted' <=> Unstarted  BY <2>1 DEF Unstarted, InitFunction, InParent
    <3>2. \A t \in Thread : ThreadStory(t)' <=> ThreadStory(t)  BY <2>1 DEF ThreadStory
    <3>3. \A s \in Slice : SliceStory(s)' <=> SliceStory(s)
      BY <2>1 DEF SliceStory, EndsInInit, EndsInRun, EndsInCleanup, InitHasPassed, InitFunction, LeftBy, InParent
    <3> QED BY <2>1, <3>1, <3>2, <3>3 DEF SInv, Story, Started
  <2> QED BY <2>1, <2>2, <2>3, <2>4 DEF SInv
<1> QED BY <1>1, <1>2, <1>3, <1>4 DEF SNext

\* src/bats/sanity-check: every self test of the table is printed with the result
\* the suite expects, whatever the order of its children and threads, on every
\* machine and after any other self test.
THEOREM SelftestsEnd == SSpec => []SelftestsEndAsExpected
<1>1. SInv => SelftestsEndAsExpected  BY DEF SInv
<1> QED BY <1>1, InitSInv, NextSInv, PTL DEF SSpec

\* A run of a self test in which some thread reported a failure does not pass and
\* is not skipped, unless there was an operating system error.
THEOREM SelftestFailuresDecide == SSpec => []ThreadFailureIsSeen
<1>1. SInv => ThreadFailureIsSeen  BY DEF SInv
<1> QED BY <1>1, InitSInv, NextSInv, PTL DEF SSpec
=============================================================================
