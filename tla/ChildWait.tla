----------------------------- MODULE ChildWait -----------------------------
(***************************************************************************)
(* The parent process of one test: run_one_test_children() forks one child *)
(* per slice and wait_for_children() (sandstone_run.cpp) polls their file  *)
(* descriptors and the crash-debugging socket until every child has been   *)
(* reaped, a termination signal arrives, or three deadlines have passed.   *)
(* The kernel's side (process state, wait status, process groups, EINTR)   *)
(* and the children's side (child_run(), child_crash_handler()) are        *)
(* modelled as far as the parent can observe them.                         *)
(***************************************************************************)
EXTENDS TestResults, FiniteSets

CONSTANTS
  Slice,       \* the slices of the test, one child each
  Outcomes,    \* the results the test itself may end with
  Killers,     \* signals children may be killed with from outside
  MaxSignals   \* bound on the termination signals the parent receives

ASSUME SliceAssumption == IsFiniteSet(Slice) /\ Slice # {}
ASSUME OutcomesAssumption == Outcomes \subseteq {Passed, Failed, Skipped}
ASSUME KillersAssumption == Killers \subseteq {SIGKILL, SIGQUIT, SIGSEGV}
ASSUME MaxSignalsAssumption == MaxSignals \in Nat

VARIABLES
  proc,          \* [Slice -> ProcState]: the child as the kernel sees it
  info,          \* [Slice -> ExitInfo]: its wait status, once proc is "exited"
  pend,          \* [Slice -> SUBSET Signal]: signals the parent got delivered to its group
  socket,        \* slices whose CrashContext is queued on server_debug_socket
  phase,         \* where run_one_test_children()/wait_for_children() is
  at,            \* "loop", "poll" or "scan" in wait_for_all_children()/single_wait()
  ready,         \* the pollfds with revents set still to be handled in this scan
  crashReady,    \* revents & POLLIN of the debug socket
  handles,       \* slices i with children.handles[i] != 0
  children_left,
  result,        \* children.results[i].result
  ended,         \* slices i whose children.results[i].endtime is set
  expired,       \* remaining <= 0 in the current wait_for_all_children()
  caughtSignal,  \* single_wait's mutable capture; 0 if none
  lastSignal,    \* signal_control: the first signal received ...
  sigCount,      \* ... and how many signals there were
  armed,         \* signals whose SA_RESETHAND handler is still installed
  eintr          \* a handler ran while the parent slept in poll()

kernel == <<proc, info, pend, socket>>
parent == <<phase, at, ready, crashReady, handles, children_left, result,
            ended, expired, caughtSignal>>
sigs   == <<lastSignal, sigCount, armed, eintr>>
vars   == <<kernel, parent, sigs>>

\* "starting": forked, but signals_init_child() has not called setsid() yet.
\* "crashed": in child_crash_handler(), its context sent, waiting for release.
\* "released": thread_debugged stored, about to die of its own signal.
\* A child in an uninterruptible sleep is one whose actions are never taken.
ProcState == {"unborn", "starting", "running", "crashed", "released",
              "exited"}
Waiting   == {"first", "second", "third"}
Over      == {"done", "interrupted", "dead"}
Phase     == {"spawn"} \cup Waiting \cup Over

NoInfo == [code |-> "none", status |-> 0]
-----------------------------------------------------------------------------
Init ==
  /\ proc = [i \in Slice |-> "unborn"]
  /\ info = [i \in Slice |-> NoInfo]
  /\ pend = [i \in Slice |-> {}]
  /\ socket = {}
  /\ phase = "spawn"
  /\ at = "loop"
  /\ ready = {}
  /\ crashReady = FALSE
  /\ handles = {}
  /\ children_left = 0
  /\ result = [i \in Slice |-> Unset]
  /\ ended = {}
  /\ expired = FALSE
  /\ caughtSignal = 0
  /\ lastSignal = 0
  /\ sigCount = 0
  /\ armed = {SIGINT, SIGTERM}
  /\ eintr = FALSE

-----------------------------------------------------------------------------
(***************************************************************************)
(* Forking: run_one_test_children(), call_forkfd(), spawn_child().         *)
(***************************************************************************)
SpawnChild(i) ==
  /\ phase = "spawn"
  /\ proc[i] = "unborn"
  /\ proc' = [proc EXCEPT ![i] = "starting"]
  /\ handles' = handles \cup {i}
  /\ UNCHANGED <<info, pend, socket, phase, at, ready, crashReady,
                 children_left, result, ended, expired, caughtSignal, sigs>>

\* fork() failed: perror() and exit(EX_OSERR), whatever was started before.
SpawnFails ==
  /\ phase = "spawn"
  /\ \E i \in Slice : proc[i] = "unborn"
  /\ phase' = "dead"
  /\ UNCHANGED <<kernel, at, ready, crashReady, handles, children_left,
                 result, ended, expired, caughtSignal, sigs>>

\* Entry of wait_for_children() and of its first wait_for_all_children().
StartWaiting ==
  /\ phase = "spawn"
  /\ handles = Slice
  /\ phase' = "first"
  /\ at' = "loop"
  /\ expired' = FALSE
  /\ children_left' = Cardinality(handles)
  /\ UNCHANGED <<kernel, ready, crashReady, handles, result, ended,
                 caughtSignal, sigs>>

-----------------------------------------------------------------------------
(***************************************************************************)
(* The children.                                                           *)
(***************************************************************************)
\* The model ends with the parent; what becomes of orphans is not its concern.
ChildStep == phase \notin Over /\ UNCHANGED <<parent, sigs>>

\* signals_init_child(): from here on kill(-pid) finds a process group, and
\* the termination signals have their default action.
Setsid(i) ==
  /\ proc[i] = "starting"
  /\ proc' = [proc EXCEPT ![i] = "running"]
  /\ UNCHANGED <<info, pend, socket>>
  /\ ChildStep

EndsWith(i, how) ==
  /\ proc' = [proc EXCEPT ![i] = "exited"]
  /\ info' = [info EXCEPT ![i] = how]

\* execv() failed in the child: _exit(EX_OSERR).
EX_OSERR == 71
FailToStart(i) ==
  /\ proc[i] = "starting"
  /\ EndsWith(i, [code |-> "exited", status |-> EX_OSERR])
  /\ UNCHANGED <<pend, socket>>
  /\ ChildStep

\* The test ran: _exit(test_result_to_exit_code(result)).  A signal already
\* sent does not stop a child that is inside _exit().
Exit(i, r) ==
  /\ proc[i] = "running"
  /\ EndsWith(i, [code |-> "exited", status |-> ExitCodeOf(r)])
  /\ UNCHANGED <<pend, socket>>
  /\ ChildStep

\* child_crash_handler() of the first crashing thread: send the context, then
\* wait for the parent.
Crash(i) ==
  /\ proc[i] = "running"
  /\ proc' = [proc EXCEPT ![i] = "crashed"]
  /\ socket' = socket \cup {i}
  /\ UNCHANGED <<info, pend>>
  /\ ChildStep

\* The released child restores SIG_DFL and runs into its signal again.
DieOfCrash(i) ==
  /\ proc[i] = "released"
  /\ EndsWith(i, [code |-> "dumped", status |-> SIGSEGV])
  /\ UNCHANGED <<pend, socket>>
  /\ ChildStep

\* A signal the parent sent takes effect.
DieOfSignal(i) ==
  /\ proc[i] \in {"running", "crashed", "released"}
  /\ \E s \in pend[i] : EndsWith(i, [code |-> "killed", status |-> s])
  /\ UNCHANGED <<pend, socket>>
  /\ ChildStep

\* Somebody else kills the child: the OOM killer (SIGKILL), an operator, or a
\* crash before debug_init_child() installed its handler.
KilledByOther(i, s) ==
  /\ proc[i] \in {"starting", "running", "crashed", "released"}
  /\ EndsWith(i, [code |-> "killed", status |-> s])
  /\ UNCHANGED <<pend, socket>>
  /\ ChildStep

-----------------------------------------------------------------------------
(***************************************************************************)
(* Signals sent to the parent (signals.cpp).                               *)
(***************************************************************************)
\* signal_handler(): the first signal is remembered, all are counted, and the
\* handler is reset.  Only a sleeping poll() is interrupted.
CatchSignal(s) ==
  /\ s \in armed
  /\ armed' = armed \ {s}
  /\ lastSignal' = IF sigCount = 0 THEN s ELSE lastSignal
  /\ sigCount' = sigCount + 1
  /\ eintr' = (eintr \/ (phase \in Waiting /\ at = "poll"))
  /\ UNCHANGED phase

\* With its handler reset, the same signal has its default action.
DieOfUncaught(s) ==
  /\ s \notin armed
  /\ sigCount' = sigCount + 1
  /\ phase' = "dead"
  /\ UNCHANGED <<lastSignal, armed, eintr>>

ReceiveSignal(s) ==
  /\ phase \notin Over
  /\ sigCount < MaxSignals
  /\ CatchSignal(s) \/ DieOfUncaught(s)
  /\ UNCHANGED <<kernel, at, ready, crashReady, handles, children_left,
                 result, ended, expired, caughtSignal>>

-----------------------------------------------------------------------------
(***************************************************************************)
(* wait_for_children().                                                    *)
(***************************************************************************)
\* kill_children(sig): kill(-child, sig) for each handle; the group exists only
\* between the child's setsid() and its end.
Kill(sig) ==
  pend' = [i \in Slice |->
             IF i \in handles /\ proc[i] \notin {"unborn", "starting", "exited"}
             THEN pend[i] \cup {sig} ELSE pend[i]]

\* The clock passes the deadline of the current wait_for_all_children().
DeadlinePasses ==
  /\ phase \in Waiting
  /\ ~expired
  /\ expired' = TRUE
  /\ UNCHANGED <<kernel, phase, at, ready, crashReady, handles,
                 children_left, result, ended, caughtSignal, sigs>>

\* for ( ; children_left && remaining > 0s; ...)
EnterPoll ==
  /\ phase \in Waiting /\ at = "loop"
  /\ children_left # 0 /\ ~expired
  /\ at' = "poll"
  /\ UNCHANGED <<kernel, phase, ready, crashReady, handles, children_left,
                 result, ended, expired, caughtSignal, sigs>>

\* Faulty: the pollfd of a reaped child is not disabled.
ExitedEver == {i \in Slice : proc[i] = "exited"}

Exited == {i \in handles : proc[i] = "exited"}

\* children.pollfds.back().revents & POLLIN
SomebodyCrashed == socket # {}

\* poll() > 0: all that is ready at this moment is reported, even if a signal
\* or the timeout woke it up.
PollReady ==
  /\ phase \in Waiting /\ at = "poll"
  /\ Exited # {} \/ SomebodyCrashed
  /\ at' = "scan"
  /\ ready' = Exited
  /\ crashReady' = SomebodyCrashed
  /\ eintr' = FALSE
  /\ UNCHANGED <<kernel, phase, handles, children_left, result, ended,
                 expired, caughtSignal, lastSignal, sigCount, armed>>

PollTimeout ==
  /\ phase \in Waiting /\ at = "poll"
  /\ expired
  /\ Exited = {} /\ ~SomebodyCrashed
  /\ at' = "loop"
  /\ eintr' = FALSE
  /\ UNCHANGED <<kernel, phase, ready, crashReady, handles, children_left,
                 result, ended, expired, caughtSignal, lastSignal, sigCount,
                 armed>>

\* Faulty: results that are known are kept.
InterruptUnfinished ==
  /\ phase' = "interrupted"
  /\ result' = [i \in Slice |-> IF i \in ended THEN result[i] ELSE Interrupted]
  /\ ended' = Slice

\* A non-zero return of single_wait(): every slice is Interrupted, the results
\* are printed and the parent ends with the signal.
Interrupt ==
  /\ phase' = "interrupted"
  /\ result' = [i \in Slice |-> Interrupted]
  /\ ended' = Slice

\* count == 1 && signal == SIGINT
FirstInterrupt == sigCount = 1 /\ lastSignal = SIGINT

\* poll() fails with EINTR: forward the signal; the first SIGINT re-arms the
\* handler and goes on waiting, everything else stops.
PollInterrupted ==
  /\ phase \in Waiting /\ at = "poll"
  /\ eintr
  /\ Kill(lastSignal)
  /\ eintr' = FALSE
  /\ at' = "loop"
  /\ IF FirstInterrupt
     THEN /\ armed' = armed \cup {SIGINT}
          /\ caughtSignal' = lastSignal
          /\ UNCHANGED <<phase, result, ended>>
     ELSE /\ Interrupt
          /\ UNCHANGED <<armed, caughtSignal>>
  /\ UNCHANGED <<proc, info, socket, ready, crashReady, handles,
                 children_left, expired, lastSignal, sigCount>>

\* debug_crashed_child(): drain the socket and release each sender whose pid is
\* still among the handles.
DebugCrashedChild ==
  /\ phase \in Waiting /\ at = "scan"
  /\ crashReady
  /\ socket' = {}
  /\ crashReady' = FALSE
  /\ proc' = [i \in Slice |->
                IF i \in socket \cap handles /\ proc[i] = "crashed"
                THEN "released" ELSE proc[i]]
  /\ UNCHANGED <<info, pend, phase, at, ready, handles, children_left, result,
                 ended, expired, caughtSignal, sigs>>

\* forkfd_wait4() of one ready child and merge_test_result().
Reap(i) ==
  /\ phase \in Waiting /\ at = "scan"
  /\ ~crashReady
  /\ i \in ready
  /\ ready' = ready \ {i}
  /\ handles' = handles \ {i}
  /\ result' = [result EXCEPT ![i] = MergeResult(@, ResultFromExit(info[i]))]
  /\ ended' = ended \cup {i}
  /\ children_left' = children_left - 1
  /\ UNCHANGED <<kernel, phase, at, crashReady, expired, caughtSignal, sigs>>

\* return caughtSignal
EndScan ==
  /\ phase \in Waiting /\ at = "scan"
  /\ ~crashReady
  /\ ready = {}
  /\ at' = "loop"
  /\ IF caughtSignal = 0 THEN UNCHANGED <<phase, result, ended>> ELSE Interrupt
  /\ UNCHANGED <<kernel, ready, crashReady, handles, children_left, expired,
                 caughtSignal, sigs>>

LoopIsOver == phase \in Waiting /\ at = "loop" /\ (children_left = 0 \/ expired)

AllReaped ==
  /\ LoopIsOver
  /\ children_left = 0
  /\ phase' = "done"
  /\ UNCHANGED <<kernel, at, ready, crashReady, handles, children_left,
                 result, ended, expired, caughtSignal, sigs>>

\* terminate_children(), after the first wait: the slices without an endtime
\* are TimedOut, and every handle gets SIGQUIT.
Terminate ==
  /\ phase = "first" /\ LoopIsOver
  /\ children_left # 0
  /\ result' = [i \in Slice |-> IF i \in ended THEN result[i] ELSE TimedOut]
  /\ Kill(SIGQUIT)
  /\ phase' = "second"
  /\ expired' = FALSE
  /\ UNCHANGED <<proc, info, socket, at, ready, crashReady, handles,
                 children_left, ended, caughtSignal, sigs>>

\* timeout_to_kill passed as well: SIGKILL.
KillHard ==
  /\ phase = "second" /\ LoopIsOver
  /\ children_left # 0
  /\ Kill(SIGKILL)
  /\ phase' = "third"
  /\ expired' = FALSE
  /\ UNCHANGED <<proc, info, socket, at, ready, crashReady, handles,
                 children_left, result, ended, caughtSignal, sigs>>

\* Faulty: keep waiting for a child that does not die.
NeverGiveUp ==
  /\ phase = "third" /\ LoopIsOver
  /\ children_left # 0
  /\ expired' = FALSE
  /\ UNCHANGED <<kernel, phase, at, ready, crashReady, handles, children_left,
                 result, ended, caughtSignal, sigs>>

\* "Child is hung and won't exit": its whole status is overwritten.
GiveUp ==
  /\ phase = "third" /\ LoopIsOver
  /\ children_left # 0
  /\ result' = [i \in Slice |-> IF i \in handles THEN TimedOut ELSE result[i]]
  /\ ended' = ended \ handles
  /\ phase' = "done"
  /\ UNCHANGED <<kernel, at, ready, crashReady, handles, children_left,
                 expired, caughtSignal, sigs>>

-----------------------------------------------------------------------------
Finished == phase \in Over /\ UNCHANGED vars

ChildNext(i) ==
  \/ Setsid(i)
  \/ FailToStart(i)
  \/ \E r \in Outcomes : Exit(i, r)
  \/ Crash(i)
  \/ DieOfCrash(i)
  \/ DieOfSignal(i)
  \/ \E s \in Killers : KilledByOther(i, s)

Spawn == (\E i \in Slice : SpawnChild(i)) \/ StartWaiting

Wait ==
  \/ EnterPoll \/ PollReady \/ PollTimeout \/ PollInterrupted
  \/ DebugCrashedChild \/ (\E i \in Slice : Reap(i)) \/ EndScan
  \/ AllReaped \/ Terminate \/ KillHard \/ GiveUp

Next ==
  \/ Spawn \/ SpawnFails
  \/ \E i \in Slice : ChildNext(i)
  \/ \E s \in {SIGINT, SIGTERM} : ReceiveSignal(s)
  \/ DeadlinePasses
  \/ Wait
  \/ Finished

\* The parent is scheduled and the clock advances; nothing is assumed of the
\* children, of the operator or of fork().
Fairness == WF_vars(Spawn) /\ WF_vars(Wait) /\ WF_vars(DeadlinePasses)

Spec == Init /\ [][Next]_vars /\ Fairness

-----------------------------------------------------------------------------
(***************************************************************************)
(* Properties.                                                             *)
(***************************************************************************)
\* The variables have their types.
TypeOK ==
  /\ proc \in [Slice -> ProcState]
  /\ info \in [Slice -> ExitInfo \cup {NoInfo}]
  /\ pend \in [Slice -> SUBSET Signal]
  /\ socket \subseteq Slice
  /\ phase \in Phase
  /\ at \in {"loop", "poll", "scan"}
  /\ ready \subseteq Slice
  /\ crashReady \in BOOLEAN
  /\ handles \subseteq Slice
  /\ children_left \in Int
  /\ result \in [Slice -> TestResult \cup {Unset}]
  /\ ended \subseteq Slice
  /\ expired \in BOOLEAN
  /\ caughtSignal \in {0, SIGINT}
  /\ lastSignal \in {0, SIGINT, SIGTERM}
  /\ sigCount \in Nat
  /\ armed \subseteq {SIGINT, SIGTERM}
  /\ eintr \in BOOLEAN

\* Every pid kill_children() may still use belongs to a child that has not been
\* reaped (a reaped pid may already be somebody else's), and children_left is
\* the number of those children, so that the loops stop neither early nor late.
HandlesAreUnreaped ==
  phase \in Waiting =>
    /\ children_left = Cardinality(handles)
    /\ handles = Slice \ ended

\* When wait_for_children() returns, a reaped child has exactly the result of
\* its wait status unless it was declared TimedOut before, a child that was
\* never reaped is TimedOut, and nobody is Interrupted or without a result.
FinalVerdicts ==
  phase = "done" =>
    \A i \in Slice :
      \/ result[i] = TimedOut
      \/ i \in ended /\ result[i] = ResultFromExit(info[i])

\* A child the parent itself had to stop is a timeout, never an OutOfMemory
\* (which is how a SIGKILL reads) nor whatever it still managed to exit with.
OurKillIsATimeout ==
  phase = "done" =>
    \A i \in Slice : pend[i] \cap {SIGQUIT, SIGKILL} # {} => result[i] = TimedOut

\* A crash context is never read after its sender was reaped: the sender would
\* be unknown and its dump would be attributed to no slice.
ContextsHaveASlice == phase \in Waiting => socket \subseteq handles

\* merge_test_result(), terminate_children() and the exits never replace a
\* result with a less severe one.
SeverityNeverDrops ==
  [][\A i \in Slice : result'[i] >= result[i]]_vars

\* wait_for_children() implements SliceVerdicts: in particular it completes only
\* with a verdict on every slice, judges each child by its own end, and declares
\* the overdue children TimedOut in one step.
Verdicts ==
  INSTANCE SliceVerdicts WITH
    fate    <- [i \in Slice |-> IF proc[i] = "exited"
                                 THEN ResultFromExit(info[i]) ELSE Unset],
    verdict <- result,
    outcome <- CASE phase = "done"        -> "complete"
                 [] phase = "interrupted" -> "interrupted"
                 [] phase = "dead"        -> "lost"
                 [] OTHER                 -> "open"

ImplementsVerdicts == Verdicts!ASpec

\* Whatever the children do, wait_for_children() comes to an end.
WaitTerminates == phase = "first" ~> phase \in Over
=============================================================================
