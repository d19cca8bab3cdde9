-------------------------- MODULE ChildWait_proofs --------------------------
(***************************************************************************)
(* Proofs about ChildWait, for every set of slices and number of signals.  *)
(***************************************************************************)
EXTENDS ChildWait, FiniteSetTheorems, TLAPS

\* Before wait_for_children() nothing has been judged, reaped or signalled.
SpawnInv ==
  phase = "spawn" =>
    /\ ended = {} /\ ready = {} /\ ~crashReady
    /\ \A i \in Slice : result[i] = Unset /\ pend[i] = {}
    /\ socket \subseteq handles
    /\ \A i \in Slice : proc[i] # "unborn" => i \in handles

\* A scan holds exited, unreaped children whose crash contexts have been read
\* once the debug socket has been drained.
ScanInv ==
  /\ crashReady => at = "scan"
  /\ phase \in Waiting =>
       /\ socket \subseteq handles
       /\ ready \subseteq handles
       /\ \A i \in ready : proc[i] = "exited"
       /\ at = "scan" /\ ~crashReady => ready \cap socket = {}

\* The wait status of a child that has ended is one of the kernel's.
ExitInv == \A i \in Slice : proc[i] = "exited" => info[i] \in ExitInfo

\* A reaped child is judged by its exit or timed out; an unreaped one has no
\* result in the first wait and is TimedOut afterwards.
VerdictInv ==
  phase \in Waiting =>
    \A i \in Slice :
      /\ i \in ended =>
           /\ proc[i] = "exited"
           /\ result[i] = ResultFromExit(info[i]) \/ (phase # "first" /\ result[i] = TimedOut)
      /\ i \notin ended => result[i] = (IF phase = "first" THEN Unset ELSE TimedOut)

\* Only terminate_children() and what follows send SIGQUIT and SIGKILL.
KillInv ==
  /\ phase = "first" => \A i \in Slice : pend[i] \cap {SIGQUIT, SIGKILL} = {}
  /\ phase \in {"second", "third"} =>
       \A i \in Slice : pend[i] \cap {SIGQUIT, SIGKILL} # {} => result[i] = TimedOut

\* An interrupted poll() has a signal to forward.
SignalInv ==
  phase \notin Over => (sigCount # 0 \/ eintr => lastSignal # 0)

IInv ==
  /\ TypeOK
  /\ SpawnInv
  /\ HandlesAreUnreaped
  /\ ScanInv
  /\ ExitInv
  /\ VerdictInv
  /\ KillInv
  /\ SignalInv
  /\ FinalVerdicts
  /\ OurKillIsATimeout
-----------------------------------------------------------------------------
(***************************************************************************)
(* Facts about the conversions of TestResults.                             *)
(***************************************************************************)
\* test_result_from_exit_code() covers every wait status, and no wait status
\* says Interrupted.
LEMMA ResultFromExitType ==
  \A e \in ExitInfo : ResultFromExit(e) \in Skipped..TimedOut
<1> TAKE e \in ExitInfo
<1> USE DEF Skipped, Passed, Failed, Killed, CoreDumped, OperatingSystemError,
            OutOfMemory, TimedOut
<1>1. CASE e.code = "exited"
  <2>1. FromExitStatus(e.status) \in Skipped..TimedOut  BY DEF FromExitStatus
  <2> QED BY <1>1, <2>1 DEF ResultFromExit
<1>2. CASE e.code # "exited"
  <2>1. FromSignal(e.code, e.status) \in Skipped..TimedOut  BY DEF FromSignal
  <2> QED BY <1>2, <2>1 DEF ResultFromExit
<1> QED BY <1>1, <1>2

\* Merging keeps the more severe of the two results.
LEMMA MergeIsMax ==
  ASSUME NEW a \in TestResult \cup {Unset}, NEW b \in TestResult
  PROVE  /\ MergeResult(a, b) \in TestResult
         /\ MergeResult(a, b) >= a /\ MergeResult(a, b) >= b
         /\ MergeResult(a, b) \in {a, b}
BY DEF MergeResult, TestResult, Unset, Skipped, Interrupted

-----------------------------------------------------------------------------
(***************************************************************************)
(* Type correctness.                                                       *)
(***************************************************************************)
\* Wait statuses written by the children's actions are wait statuses.
LEMMA EndsWithType ==
  ASSUME TypeOK, NEW i \in Slice, NEW how \in ExitInfo, EndsWith(i, how)
  PROVE  /\ proc' \in [Slice -> ProcState]
         /\ info' \in [Slice -> ExitInfo \cup {NoInfo}]
BY DEF TypeOK, EndsWith, ProcState

LEMMA KillType ==
  ASSUME TypeOK, NEW s \in Signal, Kill(s)
  PROVE  pend' \in [Slice -> SUBSET Signal]
BY DEF TypeOK, Kill

\* Every status a child can end with in the model is an ExitInfo.
LEMMA StatusTypes ==
  /\ [code |-> "exited", status |-> EX_OSERR] \in ExitInfo
  /\ \A r \in Outcomes : [code |-> "exited", status |-> ExitCodeOf(r)] \in ExitInfo
  /\ [code |-> "dumped", status |-> SIGSEGV] \in ExitInfo
  /\ \A s \in Signal : [code |-> "killed", status |-> s] \in ExitInfo
<1>1. SIGSEGV \in Signal  BY DEF Signal
<1>2. EX_OSERR \in 0..255  BY DEF EX_OSERR
<1>3. \A r \in {Passed, Failed, Skipped} : ExitCodeOf(r) \in 0..255
  BY DEF ExitCodeOf, Passed, Failed, Skipped
<1> QED BY <1>1, <1>2, <1>3, OutcomesAssumption DEF ExitInfo

LEMMA ChildTypes ==
  ASSUME TypeOK, NEW i \in Slice, ChildNext(i)
  PROVE  TypeOK'
<1> USE DEF ChildStep, parent, sigs
<1>1. CASE Setsid(i)  BY <1>1 DEF TypeOK, Setsid, ProcState
<1>2. CASE FailToStart(i)
  BY <1>2, EndsWithType, StatusTypes DEF TypeOK, FailToStart
<1>3. ASSUME NEW r \in Outcomes, Exit(i, r)  PROVE TypeOK'
  BY <1>3, EndsWithType, StatusTypes DEF TypeOK, Exit
<1>4. CASE Crash(i)  BY <1>4 DEF TypeOK, Crash, ProcState
<1>5. CASE DieOfCrash(i)
  BY <1>5, EndsWithType, StatusTypes DEF TypeOK, DieOfCrash
<1>6. CASE DieOfSignal(i)
  <2>1. PICK s \in pend[i] : EndsWith(i, [code |-> "killed", status |-> s])
    BY <1>6 DEF DieOfSignal
  <2>2. s \in Signal  BY <2>1 DEF TypeOK
  <2>3. [code |-> "killed", status |-> s] \in ExitInfo  BY <2>2, StatusTypes
  <2> QED BY <1>6, <2>1, <2>3, EndsWithType DEF TypeOK, DieOfSignal
<1>7. ASSUME NEW s \in Killers, KilledByOther(i, s)  PROVE TypeOK'
  <2>1. s \in Signal  BY KillersAssumption DEF Signal
  <2>2. [code |-> "killed", status |-> s] \in ExitInfo  BY <2>1, StatusTypes
  <2> QED BY <1>7, <2>2, EndsWithType DEF TypeOK, KilledByOther
<1> QED BY <1>1, <1>2, <1>3, <1>4, <1>5, <1>6, <1>7 DEF ChildNext

LEMMA SignalTypes ==
  ASSUME TypeOK, NEW s \in {SIGINT, SIGTERM}, ReceiveSignal(s)
  PROVE  TypeOK'
<1> USE DEF ReceiveSignal, kernel, Over, Phase
<1>1. CASE CatchSignal(s)
  <2>1. eintr' \in BOOLEAN  BY <1>1, Zenon DEF CatchSignal
  <2>2. /\ armed' \subseteq {SIGINT, SIGTERM}
        /\ lastSignal' \in {0, SIGINT, SIGTERM}
        /\ sigCount' \in Nat
        /\ UNCHANGED phase
    BY <1>1 DEF CatchSignal, TypeOK
  <2> QED BY <2>1, <2>2 DEF TypeOK
<1>2. CASE DieOfUncaught(s)  BY <1>2 DEF TypeOK, DieOfUncaught
<1> QED BY <1>1, <1>2

LEMMA WaitTypes ==
  ASSUME TypeOK, SignalInv, ExitInv, ScanInv, Wait
  PROVE  TypeOK'
<1> USE DEF kernel, sigs, Phase, Over, Waiting
<1>0. TimedOut \in TestResult /\ Interrupted \in TestResult
  BY DEF TimedOut, Interrupted, TestResult, Skipped
<1>1. CASE EnterPoll  BY <1>1 DEF TypeOK, EnterPoll
<1>2. CASE PollReady
  <2>1. crashReady' \in BOOLEAN  BY <1>2, Zenon DEF PollReady, SomebodyCrashed
  <2> QED BY <1>2, <2>1 DEF TypeOK, PollReady, Exited
<1>3. CASE PollTimeout  BY <1>3 DEF TypeOK, PollTimeout
<1>4. CASE PollInterrupted
  <2>1. lastSignal \in Signal
    BY <1>4 DEF PollInterrupted, SignalInv, TypeOK, Signal
  <2>2. pend' \in [Slice -> SUBSET Signal]
    BY <1>4, <2>1, KillType DEF PollInterrupted
  <2>3. result' \in [Slice -> TestResult \cup {Unset}] /\ ended' \subseteq Slice
    BY <1>4, <1>0 DEF PollInterrupted, Interrupt, TypeOK
  <2>4. phase' \in Phase /\ armed' \subseteq {SIGINT, SIGTERM}
        /\ caughtSignal' \in {0, SIGINT}
    BY <1>4 DEF PollInterrupted, FirstInterrupt, Interrupt, TypeOK
  <2>5. /\ UNCHANGED <<proc, info, socket, ready, crashReady, handles,
                       children_left, expired, lastSignal, sigCount>>
        /\ eintr' = FALSE /\ at' = "loop"
    BY <1>4 DEF PollInterrupted
  <2> QED BY <2>2, <2>3, <2>4, <2>5 DEF TypeOK
<1>5. CASE DebugCrashedChild  BY <1>5 DEF TypeOK, DebugCrashedChild, ProcState
<1>6. ASSUME NEW i \in Slice, Reap(i)  PROVE TypeOK'
  <2>1. ResultFromExit(info[i]) \in TestResult
    BY <1>6, ResultFromExitType DEF Reap, ScanInv, ExitInv, TestResult, TimedOut, Interrupted
  <2>2. result' \in [Slice -> TestResult \cup {Unset}]
    BY <1>6, <2>1, MergeIsMax DEF Reap, TypeOK
  <2> QED BY <1>6, <2>2 DEF Reap, TypeOK
<1>7. CASE EndScan  BY <1>7, <1>0 DEF TypeOK, EndScan, Interrupt
<1>8. CASE AllReaped  BY <1>8 DEF TypeOK, AllReaped, LoopIsOver
<1>9. CASE Terminate
  <2>1. pend' \in [Slice -> SUBSET Signal]
    BY <1>9, KillType DEF Terminate, Signal
  <2> QED BY <1>9, <2>1, <1>0 DEF TypeOK, Terminate, LoopIsOver
<1>10. CASE KillHard
  <2>1. pend' \in [Slice -> SUBSET Signal]
    BY <1>10, KillType DEF KillHard, Signal
  <2> QED BY <1>10, <2>1 DEF TypeOK, KillHard, LoopIsOver
<1>11. CASE GiveUp  BY <1>11, <1>0 DEF TypeOK, GiveUp, LoopIsOver
<1> QED BY <1>1, <1>2, <1>3, <1>4, <1>5, <1>6, <1>7, <1>8, <1>9, <1>10, <1>11
        DEF Wait

LEMMA NextTypes ==
  ASSUME TypeOK, SignalInv, ExitInv, ScanInv, [Next]_vars
  PROVE  TypeOK'
<1> USE DEF kernel, parent, sigs
<1>1. ASSUME NEW i \in Slice, SpawnChild(i)  PROVE TypeOK'
  BY <1>1 DEF TypeOK, SpawnChild, ProcState
<1>2. CASE StartWaiting
  <2>1. IsFiniteSet(handles)
    BY SliceAssumption, FS_Subset DEF TypeOK
  <2>2. Cardinality(handles) \in Int  BY <2>1, FS_CardinalityType
  <2> QED BY <1>2, <2>2 DEF TypeOK, StartWaiting, Phase, Waiting
<1>3. CASE SpawnFails  BY <1>3 DEF TypeOK, SpawnFails, Phase, Over
<1>4. CASE \E i \in Slice : ChildNext(i)  BY <1>4, ChildTypes
<1>5. CASE \E s \in {SIGINT, SIGTERM} : ReceiveSignal(s)  BY <1>5, SignalTypes
<1>6. CASE DeadlinePasses  BY <1>6 DEF TypeOK, DeadlinePasses
<1>7. CASE Wait  BY <1>7, WaitTypes
<1>8. CASE UNCHANGED vars  BY <1>8 DEF TypeOK, vars
<1> QED BY <1>1, <1>2, <1>3, <1>4, <1>5, <1>6, <1>7, <1>8
        DEF Next, Spawn, Finished

-----------------------------------------------------------------------------
(***************************************************************************)
(* The inductive invariant.                                                *)
(***************************************************************************)
LEMMA InitIInv == Init => IInv
<1> SUFFICES ASSUME Init  PROVE IInv  OBVIOUS
<1>1. TypeOK
  <2>1. /\ proc \in [Slice -> ProcState]
        /\ info \in [Slice -> ExitInfo \cup {NoInfo}]
        /\ pend \in [Slice -> SUBSET Signal]
        /\ result \in [Slice -> TestResult \cup {Unset}]
    BY DEF Init, ProcState
  <2>2. phase \in Phase  BY DEF Init, Phase
  <2>3. /\ socket \subseteq Slice /\ ready \subseteq Slice
        /\ handles \subseteq Slice /\ ended \subseteq Slice
        /\ at \in {"loop", "poll", "scan"}
        /\ crashReady \in BOOLEAN /\ expired \in BOOLEAN /\ eintr \in BOOLEAN
    BY DEF Init
  <2>4. /\ children_left \in Int
        /\ caughtSignal \in {0, SIGINT} /\ lastSignal \in {0, SIGINT, SIGTERM}
        /\ sigCount \in Nat /\ armed \subseteq {SIGINT, SIGTERM}
    BY DEF Init
  <2> QED BY <2>1, <2>2, <2>3, <2>4, Zenon DEF TypeOK
<1>2. SpawnInv /\ ScanInv /\ ExitInv /\ SignalInv
  BY DEF Init, SpawnInv, ScanInv, ExitInv, SignalInv, Waiting
<1>3. HandlesAreUnreaped /\ VerdictInv /\ KillInv
  BY DEF Init, HandlesAreUnreaped, VerdictInv, KillInv, Waiting
<1>4. FinalVerdicts /\ OurKillIsATimeout
  BY DEF Init, FinalVerdicts, OurKillIsATimeout
<1> QED BY <1>1, <1>2, <1>3, <1>4 DEF IInv

\* What any step of child i is to the parent: the child was alive, it is now in
\* another live state or has ended with a wait status, and it may have queued
\* its crash context.
LEMMA ChildStepShape ==
  ASSUME TypeOK, NEW i \in Slice, ChildNext(i)
  PROVE  /\ ChildStep /\ pend' = pend
         /\ proc[i] \notin {"unborn", "exited"}
         /\ proc'[i] # "unborn"
         /\ \A j \in Slice \ {i} : proc'[j] = proc[j] /\ info'[j] = info[j]
         /\ proc'[i] = "exited" => info'[i] \in ExitInfo
         /\ socket' \subseteq socket \cup {i}
<1>1. CASE Setsid(i)  BY <1>1 DEF TypeOK, Setsid
<1>2. CASE FailToStart(i)
  BY <1>2, StatusTypes DEF TypeOK, FailToStart, EndsWith
<1>3. ASSUME NEW r \in Outcomes, Exit(i, r)
      PROVE  EndsWith(i, [code |-> "exited", status |-> ExitCodeOf(r)])
             /\ ChildStep /\ pend' = pend /\ socket' = socket /\ proc[i] = "running"
  BY <1>3 DEF Exit
<1>4. CASE Crash(i)  BY <1>4 DEF TypeOK, Crash
<1>5. CASE DieOfCrash(i)
  BY <1>5, StatusTypes DEF TypeOK, DieOfCrash, EndsWith
<1>6. CASE DieOfSignal(i)
  <2>1. PICK s \in pend[i] : EndsWith(i, [code |-> "killed", status |-> s])
    BY <1>6 DEF DieOfSignal
  <2>2. s \in Signal  BY <2>1 DEF TypeOK
  <2>3. [code |-> "killed", status |-> s] \in ExitInfo  BY <2>2, StatusTypes
  <2> QED BY <1>6, <2>1, <2>3 DEF TypeOK, DieOfSignal, EndsWith
<1>7. ASSUME NEW s \in Killers, KilledByOther(i, s)
      PROVE  EndsWith(i, [code |-> "killed", status |-> s])
             /\ ChildStep /\ pend' = pend /\ socket' = socket
             /\ proc[i] \notin {"unborn", "exited"}
  BY <1>7 DEF KilledByOther
<1>8. \A s \in Killers : [code |-> "killed", status |-> s] \in ExitInfo
  BY StatusTypes, KillersAssumption DEF Signal
<1>9. ASSUME NEW r \in Outcomes, Exit(i, r)
      PROVE  /\ proc[i] \notin {"unborn", "exited"} /\ proc'[i] = "exited"
             /\ \A j \in Slice \ {i} : proc'[j] = proc[j] /\ info'[j] = info[j]
             /\ info'[i] \in ExitInfo
  BY <1>3, <1>9, StatusTypes DEF EndsWith, TypeOK
<1>10. ASSUME NEW s \in Killers, KilledByOther(i, s)
       PROVE  /\ proc'[i] = "exited"
              /\ \A j \in Slice \ {i} : proc'[j] = proc[j] /\ info'[j] = info[j]
              /\ info'[i] \in ExitInfo
  BY <1>7, <1>8, <1>10 DEF EndsWith, TypeOK
<1>11. CASE \E r \in Outcomes : Exit(i, r)  BY <1>11, <1>3, <1>9
<1>12. CASE \E s \in Killers : KilledByOther(i, s)  BY <1>12, <1>7, <1>10
<1> QED BY <1>1, <1>2, <1>4, <1>5, <1>6, <1>11, <1>12 DEF ChildNext

LEMMA ChildIInv ==
  ASSUME IInv, NEW i \in Slice, ChildNext(i)
  PROVE  IInv'
<1> USE DEF IInv
<1>0. UNCHANGED <<phase, at, ready, crashReady, handles, children_left, result,
                  ended, lastSignal, sigCount, eintr, pend>>
      /\ phase \notin Over
  BY ChildStepShape DEF ChildStep, parent, sigs
<1>1. TypeOK'  BY ChildTypes
<1>2. i \in handles /\ proc[i] # "exited" /\ i \notin ready
  BY ChildStepShape, <1>0
     DEF SpawnInv, HandlesAreUnreaped, VerdictInv, ScanInv, TypeOK, Phase
<1>3. SpawnInv'  BY <1>0, <1>2, ChildStepShape DEF SpawnInv
<1>4. HandlesAreUnreaped'  BY <1>0 DEF HandlesAreUnreaped
<1>5. ScanInv'  BY <1>0, <1>2, ChildStepShape DEF ScanInv, TypeOK
<1>6. ExitInv'  BY ChildStepShape DEF ExitInv
<1>7. VerdictInv'
  <2> SUFFICES ASSUME phase \in Waiting  PROVE VerdictInv'  BY <1>0 DEF VerdictInv
  <2>1. i \notin ended  BY <1>2 DEF VerdictInv
  <2> QED BY <1>0, <2>1, ChildStepShape DEF VerdictInv
<1>8. KillInv' /\ SignalInv' BY <1>0 DEF KillInv, SignalInv
<1>9. FinalVerdicts' /\ OurKillIsATimeout'
  BY <1>0 DEF FinalVerdicts, OurKillIsATimeout, Over
<1> QED BY <1>1, <1>3, <1>4, <1>5, <1>6, <1>7, <1>8, <1>9

LEMMA SpawnIInv ==
  ASSUME IInv, Spawn \/ SpawnFails
  PROVE  IInv'
<1> USE DEF IInv, kernel, parent, sigs
<1>0. TypeOK'  BY NextTypes DEF Next
<1>1. ASSUME NEW i \in Slice, SpawnChild(i)  PROVE IInv'
  <2>0. proc' = [proc EXCEPT ![i] = "starting"] /\ handles' = handles \cup {i}
        /\ phase = "spawn" /\ proc[i] = "unborn"
        /\ UNCHANGED <<info, pend, socket, phase, at, ready, crashReady,
                       children_left, result, ended, expired, caughtSignal,
                       lastSignal, sigCount, armed, eintr>>
    BY <1>1 DEF SpawnChild
  <2>1. SpawnInv'  BY <2>0 DEF SpawnInv, TypeOK
  <2>2. ExitInv'  BY <2>0 DEF ExitInv, TypeOK
  <2>3. HandlesAreUnreaped' /\ ScanInv' /\ VerdictInv' /\ KillInv'
        /\ SignalInv' /\ FinalVerdicts' /\ OurKillIsATimeout'
    BY <2>0 DEF HandlesAreUnreaped, ScanInv, VerdictInv, KillInv, SignalInv,
                FinalVerdicts, OurKillIsATimeout, Waiting
  <2> QED BY <1>0, <2>1, <2>2, <2>3
<1>2. CASE StartWaiting
  <2>0. phase = "spawn" /\ phase' = "first" /\ at' = "loop" /\ handles = Slice
        /\ children_left' = Cardinality(handles)
        /\ UNCHANGED <<proc, info, pend, socket, ready, crashReady, handles,
                       result, ended, lastSignal, sigCount, eintr>>
    BY <1>2 DEF StartWaiting
  <2>1. HandlesAreUnreaped'  BY <2>0 DEF HandlesAreUnreaped, SpawnInv
  <2>2. ~crashReady  BY <2>0 DEF SpawnInv
  <2>3. ScanInv' /\ VerdictInv' /\ KillInv'
    BY <2>0, <2>2 DEF ScanInv, VerdictInv, KillInv, SpawnInv
  <2> QED BY <1>0, <2>0, <2>1, <2>3
          DEF SpawnInv, ExitInv, SignalInv, FinalVerdicts, OurKillIsATimeout, Over
<1>3. CASE SpawnFails
  <2>0. phase = "spawn" /\ phase' = "dead"
        /\ UNCHANGED <<proc, info, at, crashReady>>
    BY <1>3 DEF SpawnFails
  <2> QED BY <1>0, <2>0
          DEF SpawnInv, HandlesAreUnreaped, ScanInv, ExitInv, VerdictInv, KillInv,
              SignalInv, FinalVerdicts, OurKillIsATimeout, Over, Waiting
<1> QED BY <1>1, <1>2, <1>3 DEF Spawn

LEMMA SignalIInv ==
  ASSUME IInv, NEW s \in {SIGINT, SIGTERM}, ReceiveSignal(s)
  PROVE  IInv'
<1> USE DEF IInv
<1>0. TypeOK'  BY SignalTypes
<1>1. /\ UNCHANGED <<proc, info, pend, socket, at, ready, crashReady, handles,
                     children_left, result, ended>>
      /\ phase \notin Over
      /\ phase' \in {phase, "dead"}
  BY DEF ReceiveSignal, CatchSignal, DieOfUncaught, kernel
<1>2. SpawnInv' /\ HandlesAreUnreaped' /\ ScanInv' /\ ExitInv'
  BY <1>1 DEF SpawnInv, HandlesAreUnreaped, ScanInv, ExitInv, Waiting
<1>3. VerdictInv' /\ KillInv' /\ FinalVerdicts' /\ OurKillIsATimeout'
  BY <1>1 DEF VerdictInv, KillInv, FinalVerdicts, OurKillIsATimeout, Waiting, Over
<1>4. SignalInv'
  <2>1. CASE CatchSignal(s)
    <3>1. s # 0  BY DEF SIGINT, SIGTERM
    <3>2. lastSignal' = IF sigCount = 0 THEN s ELSE lastSignal
      BY <2>1 DEF CatchSignal
    <3> QED BY <1>1, <3>1, <3>2 DEF SignalInv
  <2>2. CASE DieOfUncaught(s)  BY <2>2 DEF DieOfUncaught, SignalInv, Over
  <2> QED BY <2>1, <2>2 DEF ReceiveSignal
<1> QED BY <1>0, <1>2, <1>3, <1>4

\* What a forwarded or escalated kill does to the set of pending signals.
LEMMA KillShape ==
  ASSUME TypeOK, NEW s \in Signal, Kill(s)
  PROVE  /\ \A i \in handles : pend'[i] \subseteq pend[i] \cup {s}
         /\ \A i \in Slice \ handles : pend'[i] = pend[i]
BY DEF Kill, TypeOK

LEMMA PollIInv ==
  ASSUME IInv, EnterPoll \/ PollReady \/ PollTimeout \/ DeadlinePasses
  PROVE  IInv'
<1> USE DEF IInv
<1>0. TypeOK'  BY NextTypes DEF Next, Wait
<1>1. /\ UNCHANGED <<proc, info, pend, socket, phase, handles, children_left,
                     result, ended, lastSignal, sigCount>>
      /\ phase \in Waiting
      /\ eintr' => eintr
  BY DEF EnterPoll, PollReady, PollTimeout, DeadlinePasses, kernel, sigs
<1>2. ScanInv'
  <2>1. CASE EnterPoll
    BY <2>1, <1>1 DEF EnterPoll, ScanInv
  <2>2. CASE PollReady
    BY <2>2, <1>1 DEF PollReady, ScanInv, Exited, SomebodyCrashed
  <2>3. CASE PollTimeout
    BY <2>3, <1>1 DEF PollTimeout, ScanInv
  <2>4. CASE DeadlinePasses
    BY <2>4, <1>1 DEF DeadlinePasses, ScanInv
  <2> QED BY <2>1, <2>2, <2>3, <2>4
<1>3. SpawnInv' /\ HandlesAreUnreaped' /\ ExitInv' /\ VerdictInv' /\ KillInv'
  BY <1>1 DEF SpawnInv, HandlesAreUnreaped, ExitInv, VerdictInv, KillInv, Waiting
<1>4. SignalInv' /\ FinalVerdicts' /\ OurKillIsATimeout'
  BY <1>1 DEF SignalInv, FinalVerdicts, OurKillIsATimeout, Waiting
<1> QED BY <1>0, <1>2, <1>3, <1>4

\* Leaving wait_for_children() by a signal satisfies every part trivially: the
\* results are all Interrupted and nothing is waited for any more.
LEMMA InterruptIInv ==
  ASSUME IInv, TypeOK', ExitInv', crashReady' => at' = "scan", phase' = "interrupted"
  PROVE  IInv'
BY DEF IInv, SpawnInv, HandlesAreUnreaped, ScanInv, VerdictInv, KillInv, SignalInv,
       FinalVerdicts, OurKillIsATimeout, Waiting, Over

LEMMA PollInterruptedIInv ==
  ASSUME IInv, PollInterrupted
  PROVE  IInv'
<1> USE DEF IInv
<1>0. TypeOK'  BY NextTypes DEF Next, Wait
<1>1. /\ UNCHANGED <<proc, info, socket, ready, crashReady, handles,
                     children_left, lastSignal, sigCount>>
      /\ phase \in Waiting /\ at = "poll" /\ at' = "loop" /\ ~eintr'
      /\ lastSignal # 0 /\ Kill(lastSignal)
  BY DEF PollInterrupted, SignalInv, Waiting, Over
<1>2. ExitInv' /\ ~crashReady'  BY <1>1 DEF ExitInv, ScanInv
<1>3. CASE phase' = "interrupted"  BY <1>0, <1>2, <1>3, InterruptIInv
<1>4. CASE UNCHANGED <<phase, result, ended>>
  <2>1. lastSignal \in {SIGINT, SIGTERM}  BY <1>1 DEF TypeOK
  <2>2. \A i \in Slice : pend'[i] \cap {SIGQUIT, SIGKILL} = pend[i] \cap {SIGQUIT, SIGKILL}
    <3> TAKE i \in Slice
    <3>1. pend'[i] = pend[i] \/ pend'[i] = pend[i] \cup {lastSignal}
      BY <1>1 DEF Kill
    <3>2. lastSignal \notin {SIGQUIT, SIGKILL}
      BY <2>1 DEF SIGINT, SIGTERM, SIGQUIT, SIGKILL
    <3> QED BY <3>1, <3>2
  <2>3. KillInv'  BY <1>4, <2>2 DEF KillInv
  <2>4. ScanInv' /\ SpawnInv' /\ HandlesAreUnreaped' /\ VerdictInv'
    BY <1>1, <1>2, <1>4 DEF ScanInv, SpawnInv, HandlesAreUnreaped, VerdictInv, Waiting
  <2>5. SignalInv' /\ FinalVerdicts' /\ OurKillIsATimeout'
    BY <1>1, <1>4 DEF SignalInv, FinalVerdicts, OurKillIsATimeout, Waiting
  <2> QED BY <1>0, <1>2, <2>3, <2>4, <2>5
<1> QED BY <1>3, <1>4 DEF PollInterrupted, Interrupt

LEMMA ScanIInv ==
  ASSUME IInv, DebugCrashedChild \/ EndScan
  PROVE  IInv'
<1> USE DEF IInv
<1>0. TypeOK'  BY NextTypes DEF Next, Wait
<1>1. CASE DebugCrashedChild
  <2>1. /\ UNCHANGED <<info, pend, phase, at, ready, handles, children_left,
                       result, ended, lastSignal, sigCount, eintr>>
        /\ phase \in Waiting /\ socket' = {} /\ ~crashReady'
        /\ \A i \in Slice : proc'[i] = "exited" <=> proc[i] = "exited"
    BY <1>1 DEF DebugCrashedChild, sigs, TypeOK
  <2>2. SpawnInv' /\ HandlesAreUnreaped' /\ ScanInv' /\ ExitInv'
    BY <2>1 DEF SpawnInv, HandlesAreUnreaped, ScanInv, ExitInv, Waiting, TypeOK
  <2>3. VerdictInv' /\ KillInv' /\ SignalInv' /\ FinalVerdicts' /\ OurKillIsATimeout'
    BY <2>1 DEF VerdictInv, KillInv, SignalInv, FinalVerdicts, OurKillIsATimeout, Waiting
  <2> QED BY <1>0, <2>2, <2>3
<1>2. CASE EndScan
  <2>1. /\ UNCHANGED <<proc, info, pend, socket, ready, crashReady, handles,
                       children_left, lastSignal, sigCount, eintr>>
        /\ phase \in Waiting /\ ready = {} /\ ~crashReady /\ at' = "loop"
        /\ UNCHANGED <<phase, result, ended>> \/ phase' = "interrupted"
    BY <1>2 DEF EndScan, Interrupt, kernel, sigs
  <2>2. ExitInv'  BY <2>1 DEF ExitInv
  <2>3. CASE phase' = "interrupted"  BY <1>0, <2>1, <2>2, <2>3, InterruptIInv
  <2>4. CASE UNCHANGED <<phase, result, ended>>
    BY <1>0, <2>1, <2>2, <2>4
       DEF SpawnInv, HandlesAreUnreaped, ScanInv, VerdictInv, KillInv, SignalInv,
           FinalVerdicts, OurKillIsATimeout, Waiting
  <2> QED BY <2>1, <2>3, <2>4
<1> QED BY <1>1, <1>2

LEMMA ReapIInv ==
  ASSUME IInv, NEW i \in Slice, Reap(i)
  PROVE  IInv'
<1> USE DEF IInv
<1>0. TypeOK'  BY NextTypes DEF Next, Wait
<1>1. /\ UNCHANGED <<proc, info, pend, socket, phase, at, crashReady,
                     lastSignal, sigCount, eintr>>
      /\ phase \in Waiting /\ at = "scan" /\ ~crashReady /\ i \in ready
      /\ ready' = ready \ {i} /\ handles' = handles \ {i}
      /\ ended' = ended \cup {i} /\ children_left' = children_left - 1
      /\ result' = [result EXCEPT ![i] = MergeResult(result[i], ResultFromExit(info[i]))]
  BY DEF Reap, kernel, sigs
<1>2. i \in handles /\ proc[i] = "exited" /\ i \notin socket /\ i \notin ended
  BY <1>1 DEF ScanInv, HandlesAreUnreaped
<1>3. HandlesAreUnreaped'
  <2>1. IsFiniteSet(handles)  BY SliceAssumption, FS_Subset DEF TypeOK
  <2>2. Cardinality(handles \ {i}) = Cardinality(handles) - 1
    BY <1>2, <2>1, FS_RemoveElement
  <2> QED BY <1>1, <1>2, <2>2 DEF HandlesAreUnreaped
<1>4. ScanInv'  BY <1>1, <1>2 DEF ScanInv
<1>5. ResultFromExit(info[i]) \in Skipped..TimedOut
  BY <1>2, ResultFromExitType DEF ExitInv
<1>6. result'[i] = IF phase = "first" THEN ResultFromExit(info[i]) ELSE TimedOut
  <2>1. result[i] = IF phase = "first" THEN Unset ELSE TimedOut
    BY <1>1, <1>2 DEF VerdictInv
  <2>2. result'[i] = MergeResult(result[i], ResultFromExit(info[i]))
    BY <1>1 DEF TypeOK
  <2> QED BY <1>5, <2>1, <2>2 DEF MergeResult, Unset, TimedOut, Skipped
<1>7. \A j \in Slice \ {i} : result'[j] = result[j]  BY <1>1 DEF TypeOK
<1>8. VerdictInv'
  <2> SUFFICES ASSUME NEW j \in Slice
               PROVE  /\ j \in ended' =>
                           /\ proc[j] = "exited"
                           /\ \/ result'[j] = ResultFromExit(info[j])
                              \/ phase # "first" /\ result'[j] = TimedOut
                      /\ j \notin ended' =>
                           result'[j] = (IF phase = "first" THEN Unset ELSE TimedOut)
    BY <1>1 DEF VerdictInv
  <2>1. CASE j = i  BY <1>1, <1>2, <1>6, <2>1
  <2>2. CASE j # i  BY <1>1, <1>7, <2>2 DEF VerdictInv
  <2> QED BY <2>1, <2>2
<1>9. KillInv'  BY <1>1, <1>6, <1>7 DEF KillInv
<1>10. SpawnInv' /\ ExitInv' /\ SignalInv' /\ FinalVerdicts' /\ OurKillIsATimeout'
  BY <1>1 DEF SpawnInv, ExitInv, SignalInv, FinalVerdicts, OurKillIsATimeout, Waiting
<1> QED BY <1>0, <1>3, <1>4, <1>8, <1>9, <1>10

\* The three ways out of a wait_for_all_children() loop, and the final one.
LEMMA EscalateIInv ==
  ASSUME IInv, AllReaped \/ Terminate \/ KillHard \/ GiveUp
  PROVE  IInv'
<1> USE DEF IInv
<1>0. TypeOK'  BY NextTypes DEF Next, Wait
<1>1. /\ phase \in Waiting /\ at = "loop" /\ ~crashReady
      /\ UNCHANGED <<proc, info, socket, at, ready, crashReady, handles,
                     lastSignal, sigCount, eintr>>
  BY DEF AllReaped, Terminate, KillHard, GiveUp, LoopIsOver, kernel, sigs, ScanInv
<1>2. SpawnInv' /\ ExitInv'
  BY <1>1 DEF AllReaped, Terminate, KillHard, GiveUp, SpawnInv, ExitInv, Waiting
<1>3. CASE AllReaped
  <2>1. phase' = "done" /\ children_left = 0 /\ UNCHANGED <<pend, result, ended>>
    BY <1>3 DEF AllReaped, kernel
  <2>2. IsFiniteSet(handles)  BY SliceAssumption, FS_Subset DEF TypeOK
  <2>3. ended = Slice
    BY <1>1, <2>1, <2>2, FS_EmptySet DEF HandlesAreUnreaped, TypeOK
  <2>4. FinalVerdicts'
    BY <1>1, <2>1, <2>3 DEF VerdictInv, FinalVerdicts
  <2>5. OurKillIsATimeout'
    BY <1>1, <2>1 DEF KillInv, OurKillIsATimeout, Waiting
  <2> QED
    BY <1>0, <1>1, <1>2, <2>1, <2>4, <2>5
       DEF HandlesAreUnreaped, ScanInv, VerdictInv, KillInv, SignalInv, Waiting, Over
<1>4. CASE Terminate
  <2>1. /\ phase = "first" /\ phase' = "second"
        /\ UNCHANGED <<children_left, ended>> /\ Kill(SIGQUIT)
        /\ result' = [i \in Slice |-> IF i \in ended THEN result[i] ELSE TimedOut]
    BY <1>4 DEF Terminate
  <2>2. HandlesAreUnreaped' /\ ScanInv'
    BY <1>1, <2>1 DEF HandlesAreUnreaped, ScanInv, Waiting
  <2>3. VerdictInv'  BY <1>1, <2>1 DEF VerdictInv
  <2>4. \A i \in ended : pend'[i] = pend[i]
    BY <1>1, <2>1, KillShape DEF HandlesAreUnreaped, TypeOK, Signal
  <2>5. KillInv'  BY <2>1, <2>4 DEF KillInv
  <2> QED BY <1>0, <1>1, <1>2, <2>1, <2>2, <2>3, <2>5
          DEF SignalInv, FinalVerdicts, OurKillIsATimeout, Waiting, Over
<1>5. CASE KillHard
  <2>1. /\ phase = "second" /\ phase' = "third" /\ Kill(SIGKILL)
        /\ UNCHANGED <<children_left, result, ended>>
    BY <1>5 DEF KillHard
  <2>2. HandlesAreUnreaped' /\ ScanInv' /\ VerdictInv'
    BY <1>1, <2>1 DEF HandlesAreUnreaped, ScanInv, VerdictInv, Waiting
  <2>3. KillInv'
    <3>1. \A i \in handles : result[i] = TimedOut
      BY <1>1, <2>1 DEF VerdictInv, HandlesAreUnreaped, TypeOK
    <3>2. \A i \in Slice \ handles : pend'[i] = pend[i]
      BY <2>1, KillShape DEF Signal
    <3> QED BY <2>1, <3>1, <3>2 DEF KillInv
  <2> QED BY <1>0, <1>1, <1>2, <2>1, <2>2, <2>3
          DEF SignalInv, FinalVerdicts, OurKillIsATimeout, Waiting, Over
<1>6. CASE GiveUp
  <2>1. /\ phase = "third" /\ phase' = "done" /\ UNCHANGED pend
        /\ ended' = ended \ handles
        /\ result' = [i \in Slice |-> IF i \in handles THEN TimedOut ELSE result[i]]
    BY <1>6 DEF GiveUp, kernel
  <2>2. ended' = ended  BY <1>1, <2>1 DEF HandlesAreUnreaped
  <2>3. FinalVerdicts'
    BY <1>1, <2>1, <2>2 DEF VerdictInv, FinalVerdicts
  <2>4. OurKillIsATimeout'
    BY <1>1, <2>1 DEF KillInv, OurKillIsATimeout
  <2> QED
    BY <1>0, <1>1, <1>2, <2>1, <2>3, <2>4
       DEF HandlesAreUnreaped, ScanInv, VerdictInv, KillInv, SignalInv, Waiting, Over
<1> QED BY <1>3, <1>4, <1>5, <1>6

LEMMA NextIInv == IInv /\ [Next]_vars => IInv'
<1> SUFFICES ASSUME IInv, [Next]_vars  PROVE IInv'  OBVIOUS
<1>1. CASE Spawn \/ SpawnFails  BY <1>1, SpawnIInv
<1>2. CASE \E i \in Slice : ChildNext(i)  BY <1>2, ChildIInv
<1>3. CASE \E s \in {SIGINT, SIGTERM} : ReceiveSignal(s)  BY <1>3, SignalIInv
<1>4. CASE DeadlinePasses  BY <1>4, PollIInv
<1>5. CASE Wait
  BY <1>5, PollIInv, PollInterruptedIInv, ScanIInv, ReapIInv, EscalateIInv DEF Wait
<1>6. CASE UNCHANGED vars
  BY <1>6 DEF vars, kernel, parent, sigs, IInv, TypeOK, SpawnInv, HandlesAreUnreaped,
              ScanInv, ExitInv, VerdictInv, KillInv, SignalInv, FinalVerdicts,
              OurKillIsATimeout
<1> QED BY <1>1, <1>2, <1>3, <1>4, <1>5, <1>6 DEF Next, Finished

\* The invariant holds in every reachable state.
THEOREM Invariance == Spec => []IInv
BY InitIInv, NextIInv, PTL DEF Spec

-----------------------------------------------------------------------------
(***************************************************************************)
(* What the runs check, for every set of slices.                           *)
(***************************************************************************)
\* Every variable of wait_for_children() keeps its type.
THEOREM TypeCorrect == Spec => []TypeOK
<1>1. IInv => TypeOK  BY DEF IInv
<1> QED BY <1>1, Invariance, PTL

\* children_left counts the children kill_children() may signal, and those are
\* the ones not reaped yet.
THEOREM HandlesCorrect == Spec => []HandlesAreUnreaped
<1>1. IInv => HandlesAreUnreaped  BY DEF IInv
<1> QED BY <1>1, Invariance, PTL

\* When the parent stops waiting, every slice has the verdict its child earned.
THEOREM VerdictsCorrect == Spec => []FinalVerdicts
<1>1. IInv => FinalVerdicts  BY DEF IInv
<1> QED BY <1>1, Invariance, PTL

\* A child the parent had to kill is a timeout and nothing else.
THEOREM KillsAreTimeouts == Spec => []OurKillIsATimeout
<1>1. IInv => OurKillIsATimeout  BY DEF IInv
<1> QED BY <1>1, Invariance, PTL

\* debug_crashed_child() knows the sender of every context it reads.
THEOREM ContextsAttributed == Spec => []ContextsHaveASlice
<1>1. IInv => ContextsHaveASlice  BY DEF IInv, ScanInv, ContextsHaveASlice
<1> QED BY <1>1, Invariance, PTL

\* No step of the parent replaces a result by a less severe one.
THEOREM SeverityMonotone == Spec => SeverityNeverDrops
<1>1. IInv /\ [Next]_vars => [\A i \in Slice : result'[i] >= result[i]]_vars
  <2> SUFFICES ASSUME IInv, Next, NEW i \in Slice
               PROVE  result'[i] >= result[i]
    OBVIOUS
  <2> USE DEF IInv
  <2>1. result[i] \in TestResult \cup {Unset} /\ result'[i] \in TestResult \cup {Unset}
    BY NextTypes DEF TypeOK
  <2>2. CASE result' = result
    BY <2>1, <2>2 DEF TestResult, Unset, Skipped, Interrupted
  <2>3. CASE result' = [j \in Slice |-> Interrupted]
    BY <2>1, <2>3 DEF TestResult, Unset, Skipped, Interrupted
  <2>4. ASSUME NEW j \in Slice, Reap(j)  PROVE result'[i] >= result[i]
    <3>1. ResultFromExit(info[j]) \in TestResult
      BY <2>4, ResultFromExitType
         DEF Reap, ScanInv, ExitInv, TestResult, TimedOut, Interrupted
    <3>2. result' = [result EXCEPT ![j] = MergeResult(result[j], ResultFromExit(info[j]))]
      BY <2>4 DEF Reap
    <3> QED BY <2>1, <3>1, <3>2, MergeIsMax
            DEF TypeOK, TestResult, Unset, Skipped, Interrupted
  <2>5. CASE Terminate
    <3>1. i \notin ended => result[i] = Unset
      BY <2>5 DEF Terminate, VerdictInv, Waiting
    <3> QED BY <2>1, <2>5, <3>1
            DEF Terminate, TimedOut, TestResult, Unset, Skipped, Interrupted
  <2>6. CASE GiveUp
    <3>1. i \in handles => result[i] = TimedOut
      BY <2>6 DEF GiveUp, VerdictInv, HandlesAreUnreaped, Waiting
    <3> QED BY <2>1, <2>6, <3>1
            DEF GiveUp, TimedOut, TestResult, Unset, Skipped, Interrupted
  <2>7. ASSUME NEW j \in Slice, ChildNext(j)  PROVE result' = result
    BY <2>7, ChildStepShape DEF ChildStep, parent
  <2>8. result' = result \/ result' = [j \in Slice |-> Interrupted] \/ Terminate
        \/ GiveUp \/ \E j \in Slice : Reap(j)
    BY <2>7 DEF Next, Spawn, SpawnChild, StartWaiting, SpawnFails, ReceiveSignal,
           DeadlinePasses, Wait, EnterPoll, PollReady, PollTimeout, PollInterrupted,
           Interrupt, DebugCrashedChild, EndScan, AllReaped, KillHard, Finished, vars,
           parent
  <2> QED BY <2>2, <2>3, <2>4, <2>5, <2>6, <2>8
<1> QED BY <1>1, Invariance, PTL DEF Spec, SeverityNeverDrops

-----------------------------------------------------------------------------
(***************************************************************************)
(* Refinement of SliceVerdicts.                                            *)
(***************************************************************************)
Fate == [i \in Slice |-> IF proc[i] = "exited" THEN ResultFromExit(info[i]) ELSE Unset]
Outcome == CASE phase = "done"        -> "complete"
             [] phase = "interrupted" -> "interrupted"
             [] phase = "dead"        -> "lost"
             [] OTHER                 -> "open"

LEMMA ResultsAreSet ==
  \A e \in ExitInfo : ResultFromExit(e) # Unset /\ ResultFromExit(e) \in Verdicts!Fates
BY ResultFromExitType
   DEF Verdicts!Fates, Verdicts!TestResult, Verdicts!Interrupted, Verdicts!Skipped,
       Unset, Skipped, TimedOut

\* A step that changes neither results nor phase nor the ends of children is a
\* stuttering step of SliceVerdicts.
LEMMA Stutters ==
  ASSUME UNCHANGED <<result, phase>>,
         \A i \in Slice : proc'[i] = "exited" <=> proc[i] = "exited",
         info' = info
  PROVE  UNCHANGED Verdicts!avars
BY DEF Verdicts!avars

\* Every step of wait_for_children() is a step of SliceVerdicts or leaves it
\* unchanged.
LEMMA StepRefines ==
  ASSUME IInv, [Next]_vars
  PROVE  [Verdicts!ANext]_(Verdicts!avars)
<1> USE DEF IInv
<1> DEFINE Goal == [Verdicts!ANext]_(Verdicts!avars)
<1>1. ASSUME NEW i \in Slice, ChildNext(i)  PROVE Goal
  <2>1. UNCHANGED <<result, phase>>
    BY <1>1, ChildStepShape DEF ChildStep, parent
  <2>2. CASE proc'[i] # "exited"
    <3>1. info' = info
      BY <1>1, <2>2 DEF ChildNext, Setsid, FailToStart, Exit, Crash, DieOfCrash,
                        DieOfSignal, KilledByOther, EndsWith, TypeOK
    <3>2. \A j \in Slice : proc'[j] = "exited" <=> proc[j] = "exited"
      BY <1>1, <2>2, ChildStepShape
    <3> QED BY <2>1, <3>1, <3>2, Stutters
  <2>3. CASE proc'[i] = "exited"
    <3>1. proc[i] # "exited" /\ info'[i] \in ExitInfo
          /\ \A j \in Slice \ {i} : proc'[j] = proc[j] /\ info'[j] = info[j]
      BY <1>1, <2>3, ChildStepShape
    <3>2. Fate[i] = Unset  BY <3>1 DEF Fate
    <3>3. Fate' = [Fate EXCEPT ![i] = ResultFromExit(info'[i])]
      BY <2>3, <3>1 DEF Fate
    <3>4. ResultFromExit(info'[i]) \in Verdicts!Fates  BY <3>1, ResultsAreSet
    <3>5. Verdicts!End(i)
      BY <2>1, <3>2, <3>3, <3>4 DEF Verdicts!End, Verdicts!Unset, Unset, Fate
    <3> QED BY <3>5 DEF Verdicts!ANext
  <2> QED BY <2>2, <2>3
<1>2. CASE Spawn
  <2>1. UNCHANGED <<result, phase, info>>
        \/ (phase = "spawn" /\ phase' = "first" /\ UNCHANGED <<result, proc, info>>)
    BY <1>2 DEF Spawn, SpawnChild, StartWaiting, kernel
  <2>2. \A i \in Slice : proc'[i] = "exited" <=> proc[i] = "exited"
    BY <1>2 DEF Spawn, SpawnChild, StartWaiting, kernel, TypeOK
  <2> QED BY <2>1, <2>2 DEF Verdicts!avars
<1>3. CASE phase \notin Over /\ phase' = "dead" /\ UNCHANGED <<kernel, result>>
  <2>1. Verdicts!Lose  BY <1>3 DEF Verdicts!Lose, kernel, Over
  <2> QED BY <2>1 DEF Verdicts!ANext
<1>4. CASE UNCHANGED <<kernel, result, phase>>
  BY <1>4 DEF kernel, Verdicts!avars
<1>5. CASE phase \notin Over /\ Interrupt /\ UNCHANGED <<proc, info>>
  <2>1. Verdicts!InterruptAll
    BY <1>5 DEF Interrupt, Over, Verdicts!InterruptAll, Verdicts!Interrupted, Interrupted
  <2> QED BY <2>1 DEF Verdicts!ANext
<1>6. CASE UNCHANGED <<proc, info, result, phase>>
  BY <1>6 DEF Verdicts!avars
<1>7. CASE DebugCrashedChild
  <2>1. \A i \in Slice : proc'[i] = "exited" <=> proc[i] = "exited"
    BY <1>7 DEF DebugCrashedChild, TypeOK
  <2> QED BY <1>7, <2>1, Stutters DEF DebugCrashedChild
<1>8. ASSUME NEW i \in Slice, Reap(i)  PROVE Goal
  <2>1. /\ proc[i] = "exited" /\ info[i] \in ExitInfo
        /\ result[i] \in {Unset, TimedOut}
        /\ phase \in Waiting /\ UNCHANGED <<phase, proc, info>>
    BY <1>8 DEF Reap, ScanInv, ExitInv, VerdictInv, HandlesAreUnreaped, kernel
  <2>2. Fate[i] = ResultFromExit(info[i])  BY <2>1 DEF Fate
  <2>3. result' = [result EXCEPT ![i] = MergeResult(result[i], Fate[i])]
    BY <1>8, <2>2 DEF Reap
  <2>4. Fate[i] # Unset  BY <2>1, <2>2, ResultsAreSet
  <2>5. Verdicts!Judge(i)
    BY <2>1, <2>3, <2>4
       DEF Verdicts!Judge, Verdicts!MergeResult, MergeResult, Verdicts!Unset, Unset,
           Verdicts!TimedOut, TimedOut, Fate, Waiting
  <2> QED BY <2>5 DEF Verdicts!ANext
<1>9. \A i \in ended : phase \in Waiting => result[i] # Unset
  <2> SUFFICES ASSUME NEW i \in ended, phase \in Waiting  PROVE result[i] # Unset
    OBVIOUS
  <2>1. i \in Slice  BY DEF TypeOK
  <2>2. info[i] \in ExitInfo
        /\ (result[i] = ResultFromExit(info[i]) \/ result[i] = TimedOut)
    BY <2>1 DEF VerdictInv, ExitInv
  <2> QED BY <2>2, ResultsAreSet DEF TimedOut, Unset
<1>10. CASE AllReaped
  <2>1. phase \in Waiting /\ phase' = "done" /\ UNCHANGED <<proc, info, result>>
    BY <1>10 DEF AllReaped, LoopIsOver, kernel
  <2>2. IsFiniteSet(handles)  BY SliceAssumption, FS_Subset DEF TypeOK
  <2>3. ended = Slice
    BY <1>10, <2>1, <2>2, FS_EmptySet DEF AllReaped, HandlesAreUnreaped, TypeOK
  <2>4. Verdicts!Complete
    BY <1>9, <2>1, <2>3 DEF Verdicts!Complete, Verdicts!Unset, Unset, Waiting
  <2> QED BY <2>4 DEF Verdicts!ANext
<1>11. CASE Terminate
  <2>1. /\ phase = "first" /\ phase' = "second" /\ UNCHANGED <<proc, info, ended>>
        /\ result' = [i \in Slice |-> IF i \in ended THEN result[i] ELSE TimedOut]
    BY <1>11 DEF Terminate
  <2>2. PICK i \in Slice : i \notin ended
    <3>1. handles # {}
      BY <1>11, <2>1, FS_EmptySet DEF Terminate, HandlesAreUnreaped, Waiting
    <3> QED BY <2>1, <3>1 DEF HandlesAreUnreaped, Waiting
  <2>3. \A j \in Slice : result[j] = Unset <=> j \notin ended
    BY <1>9, <2>1 DEF VerdictInv, Waiting
  <2>4. result' = [j \in Slice |-> IF result[j] = Unset THEN TimedOut ELSE result[j]]
    BY <2>1, <2>3
  <2>5. Verdicts!DeclareOverdue
    BY <2>1, <2>2, <2>3, <2>4
       DEF Verdicts!DeclareOverdue, Verdicts!Unset, Unset, Verdicts!TimedOut, TimedOut
  <2> QED BY <2>5 DEF Verdicts!ANext
<1>12. CASE GiveUp
  <2>1. phase = "third" /\ phase' = "done" /\ UNCHANGED <<proc, info>>
        /\ result' = [i \in Slice |-> IF i \in handles THEN TimedOut ELSE result[i]]
    BY <1>12 DEF GiveUp, kernel
  <2>2. \A i \in handles : result[i] = TimedOut
    BY <2>1 DEF VerdictInv, HandlesAreUnreaped, TypeOK, Waiting
  <2>3. result' = result  BY <2>1, <2>2 DEF TypeOK
  <2>4. \A i \in Slice : result[i] # Unset
    BY <1>9, <2>1, <2>2 DEF HandlesAreUnreaped, Waiting, TimedOut, Unset
  <2>5. Verdicts!Complete
    BY <2>1, <2>3, <2>4 DEF Verdicts!Complete, Verdicts!Unset, Unset
  <2> QED BY <2>5 DEF Verdicts!ANext
<1>13. CASE KillHard
  BY <1>13 DEF KillHard, Verdicts!avars
<1>14. CASE SpawnFails \/ \E s \in {SIGINT, SIGTERM} : ReceiveSignal(s)
  BY <1>3, <1>4, <1>14 DEF SpawnFails, ReceiveSignal, CatchSignal, DieOfUncaught, Over
<1>15. CASE DeadlinePasses \/ EnterPoll \/ PollReady \/ PollTimeout
  BY <1>4, <1>15 DEF DeadlinePasses, EnterPoll, PollReady, PollTimeout
<1>16. CASE PollInterrupted \/ EndScan
  BY <1>5, <1>6, <1>16 DEF PollInterrupted, EndScan, kernel, Waiting, Over
<1>17. CASE UNCHANGED vars  BY <1>4, <1>17 DEF vars, parent
<1> QED BY <1>1, <1>2, <1>7, <1>8, <1>10, <1>11, <1>12, <1>13, <1>14, <1>15, <1>16,
           <1>17 DEF Next, Wait, Finished

\* wait_for_children() keeps the promise of SliceVerdicts.
THEOREM Refinement == Spec => ImplementsVerdicts
<1>1. Init => Verdicts!Init
  BY DEF Init, Verdicts!Init, Verdicts!Unset, Unset
<1>2. IInv /\ [Next]_vars => [Verdicts!ANext]_(Verdicts!avars)
  BY StepRefines
<1> QED BY <1>1, <1>2, Invariance, PTL DEF Spec, ImplementsVerdicts, Verdicts!ASpec
=============================================================================
