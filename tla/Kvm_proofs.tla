----------------------------- MODULE Kvm_proofs -----------------------------
(***************************************************************************)
(* Proofs about KVM tests: what kvm_generic_run() refers to is open, a     *)
(* sound host is left without a machine, and a test gets the verdict that  *)
(* its payload, handlers and memory deserve, for any tests, any number of  *)
(* runs, recyclings and retries.                                           *)
(***************************************************************************)
EXTENDS Kvm, TLAPS

-----------------------------------------------------------------------------
(***************************************************************************)
(* What a test deserves.                                                   *)
(***************************************************************************)
\* It succeeds on a sound host: its payload is there, fits and survives the reset,
\* ends every run with HLT and 0, and the check handler finds what the setup
\* handler prepared.
PassesByDesign(t) ==
  /\ t.payload > 0 /\ PayloadFits(t) /\ PayloadSurvives(t)
  /\ t.exits \subseteq {"hlt 0"}
  /\ t.check_handler => {"sregs", "ram"} \subseteq t.sets \/ t.thread = 0

\* It cannot succeed: there is no payload, or not all of it, or it never ends a
\* run with HLT and 0.
FailsByDesign(t) ==
  t.payload = 0 \/ ~PayloadSurvives(t) \/ "hlt 0" \notin t.exits

\* The tests are given the verdicts they deserve.
ExpectationsAreRight ==
  \A t \in Test : /\ t.expect = "pass" => PassesByDesign(t)
                  /\ t.expect = "fail" => FailsByDesign(t)

-----------------------------------------------------------------------------
(***************************************************************************)
(* The inductive invariant.                                                *)
(***************************************************************************)
InMachine == {"reset", "handler", "run", "exit", "eval"}

\* Without a payload there is no machine and no run.
PayloadInv ==
  test.payload = 0 => at \in {"group", "init", "loop", "cleanup", "end"} /\ count = 0

\* On a sound host all that is open is in ctx, and where a machine is about to be
\* made, or none is needed any more, nothing is.
ReleaseInv ==
  met = {} =>
    /\ live = Open(ctx)
    /\ at \in {"group", "init", "machine", "cleanup", "end"} => live = {}
    /\ at = "loop" /\ count = 0 => live = {}
    /\ at = "condition" => count > 0

\* Where the setup handler's work is needed it is there, but for a retry.
PreparedInv ==
  at \in {"run", "exit", "eval"} /\ met = {} => test.sets \subseteq prepared

RetryInv == retry => "cache bug" \in met

\* What a run may return.
ResultInv ==
  /\ result \in {"skip", "oserror"} => "fault" \in met
  /\ PassesByDesign(test) /\ met = {} => result # "failure"
  /\ at \in {"condition", "epilogue", "cleanup"} /\ result = "success"
       => "cache bug" \in met \/ (ran /\ ~FailsByDesign(test))

GroupInv ==
  /\ at # "group" => group \in {"runs", "skips"}
  /\ group = "skips" => at \in {"init", "end"}

VerdictInv ==
  at = "end" =>
    /\ group = "skips" => verdict = "skip"
    /\ verdict = "skip" => group = "skips" \/ "fault" \in met
    /\ verdict = "fail" => ~PassesByDesign(test) \/ met # {}
    /\ verdict = "pass" => "cache bug" \in met \/ (ran /\ ~FailsByDesign(test))

\* Runs are bounded: a run begins only below the bound.
CountInv == at \in {"group", "init", "loop", "machine"} \cup InMachine => count < MaxRuns

\* The types, by the parts of the state.
ProcessTypes ==
  /\ fork_mode \in {"no", "yes", "exec"} /\ group \in {"", "runs", "skips"}
  /\ kvm_fd \in {"closed", "open", "errno"} /\ test \in Test
  /\ tests_left \in 0..MaxTests

PlaceTypes ==
  at \in {"group", "init", "loop", "machine", "reset", "handler", "run", "exit",
          "eval", "condition", "epilogue", "cleanup", "end"}

MachineTypes ==
  /\ ctx \in [Part -> Nat] /\ live \subseteq Part \X Nat /\ made \in Nat
  /\ prepared \subseteq GuestState

LoopTypes == count \in 0..MaxRuns /\ retries \in 0..MaxRetries

FlagTypes == retry \in BOOLEAN /\ time_up \in BOOLEAN /\ ran \in BOOLEAN

OutcomeTypes ==
  /\ result \in {"success", "failure", "skip", "oserror"}
  /\ verdict \in {"", "pass", "fail", "skip"}
  /\ met \subseteq {"fault", "cache bug"}

Types ==
  /\ ProcessTypes /\ PlaceTypes /\ MachineTypes /\ LoopTypes /\ FlagTypes /\ OutcomeTypes

IInv ==
  /\ Types
  /\ CountInv
  /\ CtxIsLive
  /\ PayloadInv
  /\ ReleaseInv
  /\ PreparedInv
  /\ RetryInv
  /\ ResultInv
  /\ GroupInv
  /\ VerdictInv

-----------------------------------------------------------------------------

-----------------------------------------------------------------------------
(***************************************************************************)
(* The host's faults.                                                      *)
(***************************************************************************)
\* Each of them makes kvm_generic_run() return something else than success, and
\* concerns parts of a machine.
LEMMA FaultsReturn ==
  ASSUME NEW t, NEW f \in DOMAIN VmFaults(t)
  PROVE  /\ VmFaults(t)[f].ret \in {"skip", "failure", "oserror"}
         /\ VmFaults(t)[f].new \subseteq Part
         /\ VmFaults(t)[f].lost \subseteq Part
<1>1. f \in {"busy", "create", "size", "vcpu", "mmap", "cpuid", "sregs", "ram", "region", "set"}
  BY DEF VmFaults
<1>2. CASE f \in {"busy", "create", "size", "vcpu", "mmap"}
  BY <1>2 DEF VmFaults, Fault, Part
<1>3. CASE f \in {"cpuid", "sregs", "ram", "set"}
  BY <1>3 DEF VmFaults, Fault, Part
<1>4. CASE f = "region"
  BY <1>4 DEF VmFaults, Fault, Part
<1> QED
  BY <1>1, <1>2, <1>3, <1>4

\* The parts of a machine that was made, or made in part.
LEMMA MadeParts ==
  ASSUME MachineTypes, NEW new \in SUBSET Part, NEW kept
  PROVE  /\ Made(new, kept) \in [Part -> Nat]
         /\ \A p \in Part : Made(new, kept)[p] = IF p \in new THEN made + 1
                                               ELSE IF p \in kept THEN ctx[p] ELSE 0
  BY DEF Made, MachineTypes

\* What is open of a machine are parts of it.
LEMMA OpenParts ==
  ASSUME NEW c \in [Part -> Nat]
  PROVE  /\ Open(c) \subseteq Part \X Nat
         /\ \A p \in Part, n \in Nat : <<p, n>> \in Open(c) <=> (c[p] = n /\ n # 0)
  BY DEF Open

\* Nor is anything open of no machine.
LEMMA NothingOpen ==
  NoParts \in [Part -> Nat] /\ Open(NoParts) = {}
  BY DEF NoParts, Open

-----------------------------------------------------------------------------
(***************************************************************************)
(* One lemma per part of the invariant, one step per phase of the run.     *)
(***************************************************************************)
\* The types of the five parts of the state.
LEMMA ProcessTypesKept ==
  ASSUME IInv, [Next]_kvars
  PROVE  ProcessTypes'
<1>1. CASE group_kvm_init \/ kvm_log_skip \/ OpenFails \/ kvm_generic_init
  BY <1>1, BoundsAssumption DEF IInv, Types, ProcessTypes, group_kvm_init, kvm_log_skip,
     OpenFails, kvm_generic_init, Returns, FdOfTest, process, machine, loop, outcome
<1>2. CASE NoPayload \/ BeginRun
  BY <1>2, BoundsAssumption DEF IInv, Types, ProcessTypes, NoPayload, BeginRun,
     AtNewMachine, process, machine, loop, outcome
<1>3. CASE MakeMachine \/ MachineFails \/ PayloadTooLong \/ ReturnsEarly
  BY <1>3, BoundsAssumption DEF IInv, Types, ProcessTypes, MakeMachine, MachineFails,
     PayloadTooLong, ReturnsEarly, AtNewMachine, process, machine, loop, outcome
<1>4. CASE kvm_generic_reset_vcpu \/ SetupHandler
  BY <1>4, BoundsAssumption DEF IInv, Types, ProcessTypes, kvm_generic_reset_vcpu,
     SetupHandler, Fails, process, machine, loop, outcome
<1>5. CASE KVM_RUN \/ kvm_generic_workaround_kernel_cache_bug \/ ExitHandled \/
   ExitFails \/ ExitUnhandled
  BY <1>5, BoundsAssumption DEF IInv, Types, ProcessTypes, KVM_RUN,
     kvm_generic_workaround_kernel_cache_bug, ExitHandled, ExitFails, ExitUnhandled,
     Fails, process, machine, loop, outcome
<1>6. CASE Evaluate \/ LoopCondition
  BY <1>6, BoundsAssumption DEF IInv, Types, ProcessTypes, Evaluate, LoopCondition,
     test_time_condition, process, machine, loop, outcome
<1>7. CASE Epilogue \/ kvm_generic_cleanup \/ DeadlinePasses
  BY <1>7, BoundsAssumption DEF IInv, Types, ProcessTypes, Epilogue,
     kvm_generic_cleanup, DeadlinePasses, Returns, process, machine, loop, outcome
<1>8. CASE NextTest
  <2>1. tests_left' \in 0..MaxTests
    <3>1. tests_left > 0 /\ tests_left' = tests_left - 1 /\ tests_left \in 0..MaxTests
      BY <1>8 DEF NextTest, IInv, Types, ProcessTypes
    <3> QED
      BY <3>1, BoundsAssumption
  <2> QED
    BY <1>8, <2>1 DEF NextTest, IInv, Types, ProcessTypes, FdOfTest
<1>9. CASE UNCHANGED kvars
  BY <1>9 DEF IInv, Types, ProcessTypes, kvars, process, machine, loop, outcome
<1> QED
  BY <1>1, <1>2, <1>3, <1>4, <1>5, <1>6, <1>7, <1>8, <1>9 DEF Next, Run

LEMMA PlaceTypesKept ==
  ASSUME IInv, [Next]_kvars
  PROVE  PlaceTypes'
<1>1. CASE group_kvm_init \/ kvm_log_skip \/ OpenFails \/ kvm_generic_init
  BY <1>1 DEF IInv, Types, PlaceTypes, group_kvm_init, kvm_log_skip, OpenFails,
     kvm_generic_init, Returns, FdOfTest, process, machine, loop, outcome
<1>2. CASE NoPayload \/ BeginRun
  BY <1>2 DEF IInv, Types, PlaceTypes, NoPayload, BeginRun, AtNewMachine, process,
     machine, loop, outcome
<1>3. CASE MakeMachine \/ MachineFails \/ PayloadTooLong \/ ReturnsEarly
  BY <1>3 DEF IInv, Types, PlaceTypes, MakeMachine, MachineFails, PayloadTooLong,
     ReturnsEarly, AtNewMachine, process, machine, loop, outcome
<1>4. CASE kvm_generic_reset_vcpu \/ SetupHandler
  BY <1>4 DEF IInv, Types, PlaceTypes, kvm_generic_reset_vcpu, SetupHandler, Fails,
     process, machine, loop, outcome
<1>5. CASE KVM_RUN \/ kvm_generic_workaround_kernel_cache_bug \/ ExitHandled \/
   ExitFails \/ ExitUnhandled
  BY <1>5 DEF IInv, Types, PlaceTypes, KVM_RUN, kvm_generic_workaround_kernel_cache_bug,
     ExitHandled, ExitFails, ExitUnhandled, Fails, process, machine, loop, outcome
<1>6. CASE Evaluate \/ LoopCondition
  BY <1>6 DEF IInv, Types, PlaceTypes, Evaluate, LoopCondition, test_time_condition,
     process, machine, loop, outcome
<1>7. CASE Epilogue \/ kvm_generic_cleanup \/ DeadlinePasses
  BY <1>7 DEF IInv, Types, PlaceTypes, Epilogue, kvm_generic_cleanup, DeadlinePasses,
     Returns, process, machine, loop, outcome
<1>8. CASE NextTest
  BY <1>8 DEF IInv, Types, PlaceTypes, NextTest, FdOfTest, process, machine, loop,
     outcome
<1>9. CASE UNCHANGED kvars
  BY <1>9 DEF IInv, Types, PlaceTypes, kvars, process, machine, loop, outcome
<1> QED
  BY <1>1, <1>2, <1>3, <1>4, <1>5, <1>6, <1>7, <1>8, <1>9 DEF Next, Run

LEMMA MachineTypesKept ==
  ASSUME IInv, [Next]_kvars
  PROVE  MachineTypes'
<1>1. CASE group_kvm_init \/ kvm_log_skip \/ OpenFails \/ kvm_generic_init
  BY <1>1 DEF IInv, Types, MachineTypes, group_kvm_init, kvm_log_skip, OpenFails,
     kvm_generic_init, Returns, FdOfTest, process, machine, loop, outcome
<1>2. CASE NoPayload \/ BeginRun
  <2>1. CASE ctx' = ctx /\ live' = live
    BY <1>2, <2>1 DEF IInv, Types, MachineTypes, NoPayload, BeginRun, machine
  <2>2. CASE ctx' = NoParts /\ live' = live \ Open(ctx)
    BY <1>2, <2>2, NothingOpen DEF IInv, Types, MachineTypes, NoPayload, BeginRun, machine
  <2> QED
    BY <1>2, <2>1, <2>2 DEF NoPayload, BeginRun, machine
<1>3. CASE MakeMachine \/ MachineFails \/ PayloadTooLong \/ ReturnsEarly
  <2>1. CASE MakeMachine \/ PayloadTooLong
    <3>1. ctx' = Made(Part, {}) /\ live' = live \cup Open(ctx') /\ made' = made + 1
          /\ (prepared' = {} \/ prepared' = prepared)
      BY <2>1 DEF MakeMachine, PayloadTooLong
    <3>2. ctx' \in [Part -> Nat]
      BY <3>1, MadeParts DEF IInv, Types
    <3>3. Open(ctx') \subseteq Part \X Nat
      BY <3>2, OpenParts
    <3> QED
      BY <3>1, <3>2, <3>3 DEF IInv, Types, MachineTypes
  <2>2. CASE MachineFails
    <3>1. PICK f \in DOMAIN VmFaults(test) :
            /\ ctx' = Made(VmFaults(test)[f].new, VmFaults(test)[f].kept)
            /\ live' = live \cup {<<p, made + 1>> :
                                   p \in VmFaults(test)[f].new \cup VmFaults(test)[f].lost}
      BY <2>2 DEF MachineFails
    <3>2. VmFaults(test)[f].new \subseteq Part /\ VmFaults(test)[f].lost \subseteq Part
      BY FaultsReturn
    <3>3. ctx' \in [Part -> Nat]
      BY <3>1, <3>2, MadeParts DEF IInv, Types
    <3>4. live' \subseteq Part \X Nat
      BY <3>1, <3>2 DEF IInv, Types, MachineTypes
    <3> QED
      BY <2>2, <3>3, <3>4 DEF IInv, Types, MachineTypes, MachineFails
  <2>3. CASE ReturnsEarly
    BY <2>3 DEF IInv, Types, MachineTypes, ReturnsEarly, machine
  <2> QED
    BY <1>3, <2>1, <2>2, <2>3
<1>4. CASE kvm_generic_reset_vcpu \/ SetupHandler
  <2>1. ctx' = ctx /\ live' = live /\ made' = made
    BY <1>4 DEF kvm_generic_reset_vcpu, SetupHandler
  <2>2. prepared' \subseteq GuestState
    <3>1. test.sets \subseteq GuestState
      BY TestAssumption DEF IInv, Types, ProcessTypes, KvmTest
    <3>2. \/ prepared' = prepared
          \/ prepared' = prepared \cup test.sets
          \/ prepared' = prepared \ ({"regs"} \cup
                           (IF test.addr_mode = "prot64" THEN {"ram"} ELSE {}))
      BY <1>4 DEF kvm_generic_reset_vcpu, SetupHandler
    <3> QED
      BY <3>1, <3>2 DEF IInv, Types, MachineTypes
  <2> QED
    BY <2>1, <2>2 DEF IInv, Types, MachineTypes
<1>5. CASE KVM_RUN \/ kvm_generic_workaround_kernel_cache_bug \/ ExitHandled \/
   ExitFails \/ ExitUnhandled
  BY <1>5 DEF IInv, Types, MachineTypes, KVM_RUN,
     kvm_generic_workaround_kernel_cache_bug, ExitHandled, ExitFails, ExitUnhandled,
     Fails, process, machine, loop, outcome
<1>6. CASE Evaluate \/ LoopCondition
  BY <1>6 DEF IInv, Types, MachineTypes, Evaluate, LoopCondition, test_time_condition,
     process, machine, loop, outcome
<1>7. CASE Epilogue \/ kvm_generic_cleanup \/ DeadlinePasses
  <2>1. CASE Epilogue
    BY <2>1, NothingOpen DEF IInv, Types, MachineTypes, Epilogue
  <2>2. CASE kvm_generic_cleanup \/ DeadlinePasses
    BY <2>2 DEF IInv, Types, MachineTypes, kvm_generic_cleanup, DeadlinePasses, machine
  <2> QED
    BY <1>7, <2>1, <2>2
<1>8. CASE NextTest
  BY <1>8, NothingOpen DEF IInv, Types, MachineTypes, NextTest
<1>9. CASE UNCHANGED kvars
  BY <1>9 DEF IInv, Types, MachineTypes, kvars, process, machine, loop, outcome
<1> QED
  BY <1>1, <1>2, <1>3, <1>4, <1>5, <1>6, <1>7, <1>8, <1>9 DEF Next, Run

LEMMA LoopTypesKept ==
  ASSUME IInv, [Next]_kvars
  PROVE  LoopTypes'
<1>1. CASE group_kvm_init \/ kvm_log_skip \/ OpenFails \/ kvm_generic_init
  BY <1>1, BoundsAssumption DEF IInv, Types, LoopTypes, CountInv, InMachine,
     group_kvm_init, kvm_log_skip, OpenFails, kvm_generic_init, Returns, FdOfTest,
     process, machine, loop, outcome
<1>2. CASE NoPayload \/ BeginRun
  BY <1>2, BoundsAssumption DEF IInv, Types, LoopTypes, CountInv, InMachine, NoPayload,
     BeginRun, AtNewMachine, process, machine, loop, outcome
<1>3. CASE MakeMachine \/ MachineFails \/ PayloadTooLong \/ ReturnsEarly
  BY <1>3, BoundsAssumption DEF IInv, Types, LoopTypes, CountInv, InMachine,
     MakeMachine, MachineFails, PayloadTooLong, ReturnsEarly, AtNewMachine, process,
     machine, loop, outcome
<1>4. CASE kvm_generic_reset_vcpu \/ SetupHandler
  BY <1>4, BoundsAssumption DEF IInv, Types, LoopTypes, CountInv, InMachine,
     kvm_generic_reset_vcpu, SetupHandler, Fails, process, machine, loop, outcome
<1>5. CASE KVM_RUN \/ kvm_generic_workaround_kernel_cache_bug \/ ExitHandled \/
   ExitFails \/ ExitUnhandled
  <2>1. count' = count /\ (retries' = retries \/ (retries < MaxRetries /\ retries' = retries + 1))
    BY <1>5 DEF KVM_RUN, kvm_generic_workaround_kernel_cache_bug, ExitHandled, ExitFails,
       ExitUnhandled, loop
  <2> QED
    BY <2>1, BoundsAssumption DEF IInv, Types, LoopTypes
<1>6. CASE Evaluate \/ LoopCondition
  <2>1. retries' = retries /\ (count' = count \/ (at = "eval" /\ count' = count + 1))
    BY <1>6 DEF Evaluate, LoopCondition, loop
  <2>2. at = "eval" => count < MaxRuns
    BY DEF IInv, CountInv, InMachine
  <2> QED
    BY <2>1, <2>2, BoundsAssumption DEF IInv, Types, LoopTypes
<1>7. CASE Epilogue \/ kvm_generic_cleanup \/ DeadlinePasses
  BY <1>7, BoundsAssumption DEF IInv, Types, LoopTypes, CountInv, InMachine, Epilogue,
     kvm_generic_cleanup, DeadlinePasses, Returns, process, machine, loop, outcome
<1>8. CASE NextTest
  <2>1. count' = 0 /\ retries' = 0
    BY <1>8 DEF NextTest
  <2> QED
    BY <2>1, BoundsAssumption DEF LoopTypes
<1>9. CASE UNCHANGED kvars
  BY <1>9 DEF IInv, Types, LoopTypes, CountInv, InMachine, kvars, process, machine,
     loop, outcome
<1> QED
  BY <1>1, <1>2, <1>3, <1>4, <1>5, <1>6, <1>7, <1>8, <1>9 DEF Next, Run

LEMMA FlagTypesKept ==
  ASSUME IInv, [Next]_kvars
  PROVE  FlagTypes'
<1>1. CASE group_kvm_init \/ kvm_log_skip \/ OpenFails \/ kvm_generic_init
  BY <1>1 DEF IInv, Types, FlagTypes, group_kvm_init, kvm_log_skip, OpenFails,
     kvm_generic_init, Returns, FdOfTest, process, machine, loop, outcome
<1>2. CASE NoPayload \/ BeginRun
  BY <1>2 DEF IInv, Types, FlagTypes, NoPayload, BeginRun, AtNewMachine, process,
     machine, loop, outcome
<1>3. CASE MakeMachine \/ MachineFails \/ PayloadTooLong \/ ReturnsEarly
  BY <1>3 DEF IInv, Types, FlagTypes, MakeMachine, MachineFails, PayloadTooLong,
     ReturnsEarly, AtNewMachine, process, machine, loop, outcome
<1>4. CASE kvm_generic_reset_vcpu \/ SetupHandler
  BY <1>4 DEF IInv, Types, FlagTypes, kvm_generic_reset_vcpu, SetupHandler, Fails,
     process, machine, loop, outcome
<1>5. CASE KVM_RUN \/ kvm_generic_workaround_kernel_cache_bug \/ ExitHandled \/
   ExitFails \/ ExitUnhandled
  BY <1>5 DEF IInv, Types, FlagTypes, KVM_RUN, kvm_generic_workaround_kernel_cache_bug,
     ExitHandled, ExitFails, ExitUnhandled, Fails, process, machine, loop, outcome
<1>6. CASE Evaluate \/ LoopCondition
  BY <1>6 DEF IInv, Types, FlagTypes, Evaluate, LoopCondition, test_time_condition,
     process, machine, loop, outcome
<1>7. CASE Epilogue \/ kvm_generic_cleanup \/ DeadlinePasses
  BY <1>7 DEF IInv, Types, FlagTypes, Epilogue, kvm_generic_cleanup, DeadlinePasses,
     Returns, process, machine, loop, outcome
<1>8. CASE NextTest
  BY <1>8 DEF IInv, Types, FlagTypes, NextTest, FdOfTest, process, machine, loop,
     outcome
<1>9. CASE UNCHANGED kvars
  BY <1>9 DEF IInv, Types, FlagTypes, kvars, process, machine, loop, outcome
<1> QED
  BY <1>1, <1>2, <1>3, <1>4, <1>5, <1>6, <1>7, <1>8, <1>9 DEF Next, Run

LEMMA OutcomeTypesKept ==
  ASSUME IInv, [Next]_kvars
  PROVE  OutcomeTypes'
<1>1. CASE group_kvm_init \/ kvm_log_skip \/ OpenFails \/ kvm_generic_init
  BY <1>1 DEF IInv, Types, OutcomeTypes, group_kvm_init, kvm_log_skip, OpenFails,
     kvm_generic_init, Returns, FdOfTest, process, machine, loop, outcome
<1>2. CASE NoPayload \/ BeginRun
  BY <1>2 DEF IInv, Types, OutcomeTypes, NoPayload, BeginRun, AtNewMachine, process,
     machine, loop, outcome
<1>3. CASE MakeMachine \/ MachineFails \/ PayloadTooLong \/ ReturnsEarly
  <2>1. CASE MakeMachine \/ PayloadTooLong \/ ReturnsEarly
    BY <2>1 DEF IInv, Types, OutcomeTypes, MakeMachine, PayloadTooLong, ReturnsEarly, process,
       machine, loop, outcome
  <2>2. CASE MachineFails
    <3>1. PICK f \in DOMAIN VmFaults(test) : result' = VmFaults(test)[f].ret
      BY <2>2 DEF MachineFails
    <3>2. result' \in {"skip", "failure", "oserror"}
      BY <3>1, FaultsReturn
    <3> QED
      BY <2>2, <3>2 DEF IInv, Types, OutcomeTypes, MachineFails
  <2> QED
    BY <1>3, <2>1, <2>2
<1>4. CASE kvm_generic_reset_vcpu \/ SetupHandler
  BY <1>4 DEF IInv, Types, OutcomeTypes, kvm_generic_reset_vcpu, SetupHandler, Fails,
     process, machine, loop, outcome
<1>5. CASE KVM_RUN \/ kvm_generic_workaround_kernel_cache_bug \/ ExitHandled \/
   ExitFails \/ ExitUnhandled
  BY <1>5 DEF IInv, Types, OutcomeTypes, KVM_RUN,
     kvm_generic_workaround_kernel_cache_bug, ExitHandled, ExitFails, ExitUnhandled,
     Fails, process, machine, loop, outcome
<1>6. CASE Evaluate \/ LoopCondition
  BY <1>6 DEF IInv, Types, OutcomeTypes, Evaluate, LoopCondition, test_time_condition,
     process, machine, loop, outcome
<1>7. CASE Epilogue \/ kvm_generic_cleanup \/ DeadlinePasses
  <2>1. Verdict(result) \in {"pass", "fail", "skip"}
    BY DEF Verdict, IInv, Types, OutcomeTypes
  <2> QED
    BY <1>7, <2>1 DEF IInv, Types, OutcomeTypes, Epilogue, kvm_generic_cleanup, Returns,
       DeadlinePasses, outcome
<1>8. CASE NextTest
  BY <1>8 DEF IInv, Types, OutcomeTypes, NextTest, FdOfTest, process, machine, loop,
     outcome
<1>9. CASE UNCHANGED kvars
  BY <1>9 DEF IInv, Types, OutcomeTypes, kvars, process, machine, loop, outcome
<1> QED
  BY <1>1, <1>2, <1>3, <1>4, <1>5, <1>6, <1>7, <1>8, <1>9 DEF Next, Run

\* group_kvm_init()'s answer is final: when it skips, no test of the group starts.
LEMMA GroupKept ==
  ASSUME IInv, [Next]_kvars
  PROVE  GroupInv'
<1>1. CASE group_kvm_init \/ kvm_log_skip \/ OpenFails \/ kvm_generic_init
  BY <1>1 DEF IInv, Types, GroupInv, group_kvm_init, kvm_log_skip, OpenFails,
     kvm_generic_init, Returns, FdOfTest, process, machine, loop, outcome
<1>2. CASE NoPayload \/ BeginRun
  BY <1>2 DEF IInv, Types, GroupInv, NoPayload, BeginRun, AtNewMachine, process,
     machine, loop, outcome
<1>3. CASE MakeMachine \/ MachineFails \/ PayloadTooLong \/ ReturnsEarly
  BY <1>3 DEF IInv, Types, GroupInv, MakeMachine, MachineFails, PayloadTooLong,
     ReturnsEarly, AtNewMachine, process, machine, loop, outcome
<1>4. CASE kvm_generic_reset_vcpu \/ SetupHandler
  BY <1>4 DEF IInv, Types, GroupInv, kvm_generic_reset_vcpu, SetupHandler, Fails,
     process, machine, loop, outcome
<1>5. CASE KVM_RUN \/ kvm_generic_workaround_kernel_cache_bug \/ ExitHandled \/
   ExitFails \/ ExitUnhandled
  BY <1>5 DEF IInv, Types, GroupInv, KVM_RUN, kvm_generic_workaround_kernel_cache_bug,
     ExitHandled, ExitFails, ExitUnhandled, Fails, process, machine, loop, outcome
<1>6. CASE Evaluate \/ LoopCondition
  BY <1>6 DEF IInv, Types, GroupInv, Evaluate, LoopCondition, test_time_condition,
     process, machine, loop, outcome
<1>7. CASE Epilogue \/ kvm_generic_cleanup \/ DeadlinePasses
  BY <1>7 DEF IInv, Types, GroupInv, Epilogue, kvm_generic_cleanup, DeadlinePasses,
     Returns, process, machine, loop, outcome
<1>8. CASE NextTest
  BY <1>8 DEF IInv, Types, GroupInv, NextTest, FdOfTest, process, machine, loop, outcome
<1>9. CASE UNCHANGED kvars
  BY <1>9 DEF IInv, Types, GroupInv, kvars, process, machine, loop, outcome
<1> QED
  BY <1>1, <1>2, <1>3, <1>4, <1>5, <1>6, <1>7, <1>8, <1>9 DEF Next, Run

\* A run without a payload ends before its first machine.
LEMMA PayloadKept ==
  ASSUME IInv, [Next]_kvars
  PROVE  PayloadInv'
<1>1. CASE group_kvm_init \/ kvm_log_skip \/ OpenFails \/ kvm_generic_init
  BY <1>1, TestAssumption, BoundsAssumption DEF IInv, Types, PayloadInv, ProcessTypes,
     LoopTypes, group_kvm_init, kvm_log_skip, OpenFails, kvm_generic_init, Returns,
     FdOfTest, process, machine, loop, outcome
<1>2. CASE NoPayload \/ BeginRun
  <2>1. CASE NoPayload
    BY <1>2, <2>1 DEF IInv, PayloadInv, NoPayload, process, loop
  <2>2. CASE BeginRun
    <3>1. test' = test /\ test.payload > 0
      BY <2>2 DEF BeginRun, process
    <3> QED
      BY <3>1 DEF PayloadInv
  <2> QED
    BY <1>2, <2>1, <2>2
<1>3. CASE MakeMachine \/ MachineFails \/ PayloadTooLong \/ ReturnsEarly
  BY <1>3, TestAssumption, BoundsAssumption DEF IInv, Types, PayloadInv, ProcessTypes,
     LoopTypes, MakeMachine, MachineFails, PayloadTooLong, ReturnsEarly, AtNewMachine,
     process, machine, loop, outcome
<1>4. CASE kvm_generic_reset_vcpu \/ SetupHandler
  BY <1>4, TestAssumption, BoundsAssumption DEF IInv, Types, PayloadInv, ProcessTypes,
     LoopTypes, kvm_generic_reset_vcpu, SetupHandler, Fails, process, machine, loop,
     outcome
<1>5. CASE KVM_RUN \/ kvm_generic_workaround_kernel_cache_bug \/ ExitHandled \/
   ExitFails \/ ExitUnhandled
  BY <1>5, TestAssumption, BoundsAssumption DEF IInv, Types, PayloadInv, ProcessTypes,
     LoopTypes, KVM_RUN, kvm_generic_workaround_kernel_cache_bug, ExitHandled,
     ExitFails, ExitUnhandled, Fails, process, machine, loop, outcome
<1>6. CASE Evaluate \/ LoopCondition
  BY <1>6, TestAssumption, BoundsAssumption DEF IInv, Types, PayloadInv, ProcessTypes,
     LoopTypes, Evaluate, LoopCondition, test_time_condition, process, machine, loop,
     outcome
<1>7. CASE Epilogue \/ kvm_generic_cleanup \/ DeadlinePasses
  BY <1>7, TestAssumption, BoundsAssumption DEF IInv, Types, PayloadInv, ProcessTypes,
     LoopTypes, Epilogue, kvm_generic_cleanup, DeadlinePasses, Returns, process,
     machine, loop, outcome
<1>8. CASE NextTest
  BY <1>8, TestAssumption, BoundsAssumption DEF IInv, Types, PayloadInv, ProcessTypes,
     LoopTypes, NextTest, FdOfTest, process, machine, loop, outcome
<1>9. CASE UNCHANGED kvars
  BY <1>9 DEF IInv, Types, PayloadInv, ProcessTypes, LoopTypes, kvars, process, machine,
     loop, outcome
<1> QED
  BY <1>1, <1>2, <1>3, <1>4, <1>5, <1>6, <1>7, <1>8, <1>9 DEF Next, Run

\* A run begins below the bound only.
LEMMA CountKept ==
  ASSUME IInv, [Next]_kvars
  PROVE  CountInv'
<1>1. CASE group_kvm_init \/ kvm_log_skip \/ OpenFails \/ kvm_generic_init
  BY <1>1, BoundsAssumption DEF IInv, Types, CountInv, InMachine, LoopTypes,
     group_kvm_init, kvm_log_skip, OpenFails, kvm_generic_init, Returns, FdOfTest,
     process, machine, loop, outcome
<1>2. CASE NoPayload \/ BeginRun
  BY <1>2, BoundsAssumption DEF IInv, Types, CountInv, InMachine, LoopTypes, NoPayload,
     BeginRun, AtNewMachine, process, machine, loop, outcome
<1>3. CASE MakeMachine \/ MachineFails \/ PayloadTooLong \/ ReturnsEarly
  BY <1>3, BoundsAssumption DEF IInv, Types, CountInv, InMachine, LoopTypes,
     MakeMachine, MachineFails, PayloadTooLong, ReturnsEarly, AtNewMachine, process,
     machine, loop, outcome
<1>4. CASE kvm_generic_reset_vcpu \/ SetupHandler
  BY <1>4, BoundsAssumption DEF IInv, Types, CountInv, InMachine, LoopTypes,
     kvm_generic_reset_vcpu, SetupHandler, Fails, process, machine, loop, outcome
<1>5. CASE KVM_RUN \/ kvm_generic_workaround_kernel_cache_bug \/ ExitHandled \/
   ExitFails \/ ExitUnhandled
  BY <1>5, BoundsAssumption DEF IInv, Types, CountInv, InMachine, LoopTypes, KVM_RUN,
     kvm_generic_workaround_kernel_cache_bug, ExitHandled, ExitFails, ExitUnhandled,
     Fails, process, machine, loop, outcome
<1>6. CASE Evaluate \/ LoopCondition
  BY <1>6, BoundsAssumption DEF IInv, Types, CountInv, InMachine, LoopTypes, Evaluate,
     LoopCondition, test_time_condition, process, machine, loop, outcome
<1>7. CASE Epilogue \/ kvm_generic_cleanup \/ DeadlinePasses
  BY <1>7, BoundsAssumption DEF IInv, Types, CountInv, InMachine, LoopTypes, Epilogue,
     kvm_generic_cleanup, DeadlinePasses, Returns, process, machine, loop, outcome
<1>8. CASE NextTest
  <2>1. count' = 0
    BY <1>8 DEF NextTest
  <2> QED
    BY <2>1, BoundsAssumption DEF CountInv
<1>9. CASE UNCHANGED kvars
  BY <1>9 DEF IInv, Types, CountInv, InMachine, LoopTypes, kvars, process, machine,
     loop, outcome
<1> QED
  BY <1>1, <1>2, <1>3, <1>4, <1>5, <1>6, <1>7, <1>8, <1>9 DEF Next, Run

\* The setup handler has run since the last reset, but for a retry.
LEMMA PreparedKept ==
  ASSUME IInv, [Next]_kvars
  PROVE  PreparedInv'
<1>1. CASE group_kvm_init \/ kvm_log_skip \/ OpenFails \/ kvm_generic_init
  BY <1>1 DEF IInv, Types, PreparedInv, RetryInv, NeedsNoSetup, group_kvm_init,
     kvm_log_skip, OpenFails, kvm_generic_init, Returns, FdOfTest, process, machine,
     loop, outcome
<1>2. CASE NoPayload \/ BeginRun
  BY <1>2 DEF IInv, Types, PreparedInv, RetryInv, NeedsNoSetup, NoPayload, BeginRun,
     AtNewMachine, process, machine, loop, outcome
<1>3. CASE MakeMachine \/ MachineFails \/ PayloadTooLong \/ ReturnsEarly
  BY <1>3 DEF IInv, Types, PreparedInv, RetryInv, NeedsNoSetup, MakeMachine,
     MachineFails, PayloadTooLong, ReturnsEarly, AtNewMachine, process, machine, loop,
     outcome
<1>4. CASE kvm_generic_reset_vcpu \/ SetupHandler
  BY <1>4 DEF IInv, Types, PreparedInv, RetryInv, NeedsNoSetup, kvm_generic_reset_vcpu,
     SetupHandler, Fails, process, machine, loop, outcome
<1>5. CASE KVM_RUN \/ kvm_generic_workaround_kernel_cache_bug \/ ExitHandled \/
   ExitFails \/ ExitUnhandled
  BY <1>5 DEF IInv, Types, PreparedInv, RetryInv, NeedsNoSetup, KVM_RUN,
     kvm_generic_workaround_kernel_cache_bug, ExitHandled, ExitFails, ExitUnhandled,
     Fails, process, machine, loop, outcome
<1>6. CASE Evaluate \/ LoopCondition
  BY <1>6 DEF IInv, Types, PreparedInv, RetryInv, NeedsNoSetup, Evaluate, LoopCondition,
     test_time_condition, process, machine, loop, outcome
<1>7. CASE Epilogue \/ kvm_generic_cleanup \/ DeadlinePasses
  BY <1>7 DEF IInv, Types, PreparedInv, RetryInv, NeedsNoSetup, Epilogue,
     kvm_generic_cleanup, DeadlinePasses, Returns, process, machine, loop, outcome
<1>8. CASE NextTest
  BY <1>8 DEF IInv, Types, PreparedInv, RetryInv, NeedsNoSetup, NextTest, FdOfTest,
     process, machine, loop, outcome
<1>9. CASE UNCHANGED kvars
  BY <1>9 DEF IInv, Types, PreparedInv, RetryInv, NeedsNoSetup, kvars, process, machine,
     loop, outcome
<1> QED
  BY <1>1, <1>2, <1>3, <1>4, <1>5, <1>6, <1>7, <1>8, <1>9 DEF Next, Run

\* A retry is owed to KVM's cache bug.
LEMMA RetryKept ==
  ASSUME IInv, [Next]_kvars
  PROVE  RetryInv'
<1>1. CASE group_kvm_init \/ kvm_log_skip \/ OpenFails \/ kvm_generic_init
  BY <1>1 DEF IInv, Types, RetryInv, group_kvm_init, kvm_log_skip, OpenFails,
     kvm_generic_init, Returns, FdOfTest, process, machine, loop, outcome
<1>2. CASE NoPayload \/ BeginRun
  BY <1>2 DEF IInv, Types, RetryInv, NoPayload, BeginRun, AtNewMachine, process,
     machine, loop, outcome
<1>3. CASE MakeMachine \/ MachineFails \/ PayloadTooLong \/ ReturnsEarly
  BY <1>3 DEF IInv, Types, RetryInv, MakeMachine, MachineFails, PayloadTooLong,
     ReturnsEarly, AtNewMachine, process, machine, loop, outcome
<1>4. CASE kvm_generic_reset_vcpu \/ SetupHandler
  BY <1>4 DEF IInv, Types, RetryInv, kvm_generic_reset_vcpu, SetupHandler, Fails,
     process, machine, loop, outcome
<1>5. CASE KVM_RUN \/ kvm_generic_workaround_kernel_cache_bug \/ ExitHandled \/
   ExitFails \/ ExitUnhandled
  BY <1>5 DEF IInv, Types, RetryInv, KVM_RUN, kvm_generic_workaround_kernel_cache_bug,
     ExitHandled, ExitFails, ExitUnhandled, Fails, process, machine, loop, outcome
<1>6. CASE Evaluate \/ LoopCondition
  BY <1>6 DEF IInv, Types, RetryInv, Evaluate, LoopCondition, test_time_condition,
     process, machine, loop, outcome
<1>7. CASE Epilogue \/ kvm_generic_cleanup \/ DeadlinePasses
  BY <1>7 DEF IInv, Types, RetryInv, Epilogue, kvm_generic_cleanup, DeadlinePasses,
     Returns, process, machine, loop, outcome
<1>8. CASE NextTest
  BY <1>8 DEF IInv, Types, RetryInv, NextTest, FdOfTest, process, machine, loop, outcome
<1>9. CASE UNCHANGED kvars
  BY <1>9 DEF IInv, Types, RetryInv, kvars, process, machine, loop, outcome
<1> QED
  BY <1>1, <1>2, <1>3, <1>4, <1>5, <1>6, <1>7, <1>8, <1>9 DEF Next, Run

\* Whatever of a machine is made, kept or lost: what ctx has is live.
LEMMA CtxKept ==
  ASSUME IInv, [Next]_kvars
  PROVE  CtxIsLive'
<1>1. CASE group_kvm_init \/ kvm_log_skip \/ OpenFails \/ kvm_generic_init
  BY <1>1 DEF IInv, Types, CtxIsLive, Open, group_kvm_init, kvm_log_skip, OpenFails,
     kvm_generic_init, Returns, FdOfTest, process, machine, loop, outcome
<1>2. CASE NoPayload \/ BeginRun
  <2>1. (ctx' = ctx /\ live' = live) \/ ctx' = NoParts
    BY <1>2 DEF NoPayload, BeginRun, machine
  <2> QED
    BY <2>1, NothingOpen DEF IInv, CtxIsLive
<1>3. CASE MakeMachine \/ MachineFails \/ PayloadTooLong \/ ReturnsEarly
  <2>1. CASE MakeMachine \/ PayloadTooLong
    BY <2>1 DEF CtxIsLive, MakeMachine, PayloadTooLong
  <2>2. CASE MachineFails
    <3>1. PICK f \in DOMAIN VmFaults(test) :
            /\ ctx' = Made(VmFaults(test)[f].new, VmFaults(test)[f].kept)
            /\ live' = live \cup {<<p, made + 1>> :
                                   p \in VmFaults(test)[f].new \cup VmFaults(test)[f].lost}
      BY <2>2 DEF MachineFails
    <3>2. /\ \A p \in Part : ctx'[p] = IF p \in VmFaults(test)[f].new THEN made + 1
                                     ELSE IF p \in VmFaults(test)[f].kept THEN ctx[p] ELSE 0
      BY <3>1, FaultsReturn, MadeParts DEF IInv, Types
    <3>3. ASSUME NEW p \in Part, ctx'[p] # 0
          PROVE  <<p, ctx'[p]>> \in live'
      <4>1. CASE p \in VmFaults(test)[f].new
        BY <3>1, <3>2, <4>1
      <4>2. CASE ctx'[p] = ctx[p]
        <5>1. <<p, ctx[p]>> \in live
          BY <3>3, <4>2 DEF IInv, CtxIsLive, Open
        <5> QED
          BY <3>1, <4>2, <5>1
      <4> QED
        BY <3>2, <3>3, <4>1, <4>2
    <3> QED
      BY <3>3 DEF CtxIsLive, Open
  <2>3. CASE ReturnsEarly
    BY <2>3 DEF IInv, CtxIsLive, Open, ReturnsEarly, machine
  <2> QED
    BY <1>3, <2>1, <2>2, <2>3
<1>4. CASE kvm_generic_reset_vcpu \/ SetupHandler
  BY <1>4 DEF IInv, Types, CtxIsLive, Open, kvm_generic_reset_vcpu, SetupHandler, Fails,
     process, machine, loop, outcome
<1>5. CASE KVM_RUN \/ kvm_generic_workaround_kernel_cache_bug \/ ExitHandled \/
   ExitFails \/ ExitUnhandled
  BY <1>5 DEF IInv, Types, CtxIsLive, Open, KVM_RUN,
     kvm_generic_workaround_kernel_cache_bug, ExitHandled, ExitFails, ExitUnhandled,
     Fails, process, machine, loop, outcome
<1>6. CASE Evaluate \/ LoopCondition
  BY <1>6 DEF IInv, Types, CtxIsLive, Open, Evaluate, LoopCondition,
     test_time_condition, process, machine, loop, outcome
<1>7. CASE Epilogue \/ kvm_generic_cleanup \/ DeadlinePasses
  <2>1. CASE Epilogue
    BY <2>1, NothingOpen DEF CtxIsLive, Epilogue
  <2>2. CASE kvm_generic_cleanup \/ DeadlinePasses
    BY <2>2 DEF IInv, CtxIsLive, Open, kvm_generic_cleanup, DeadlinePasses, machine
  <2> QED
    BY <1>7, <2>1, <2>2
<1>8. CASE NextTest
  BY <1>8, NothingOpen DEF CtxIsLive, NextTest
<1>9. CASE UNCHANGED kvars
  BY <1>9 DEF IInv, Types, CtxIsLive, Open, kvars, process, machine, loop, outcome
<1> QED
  BY <1>1, <1>2, <1>3, <1>4, <1>5, <1>6, <1>7, <1>8, <1>9 DEF Next, Run

\* A sound host: a machine is made only where none is left.
LEMMA ReleaseKept ==
  ASSUME IInv, [Next]_kvars
  PROVE  ReleaseInv'
<1>1. CASE group_kvm_init \/ kvm_log_skip \/ OpenFails \/ kvm_generic_init
  BY <1>1 DEF IInv, Types, ReleaseInv, Open, group_kvm_init, kvm_log_skip, OpenFails,
     kvm_generic_init, Returns, FdOfTest, process, machine, loop, outcome
<1>2. CASE NoPayload \/ BeginRun
  <2> SUFFICES ASSUME met = {}
               PROVE  /\ live' = Open(ctx)'
                      /\ at' \in {"machine", "cleanup"} => live' = {}
    BY <1>2 DEF ReleaseInv, NoPayload, BeginRun, outcome
  <2>1. /\ live = Open(ctx) /\ at = "loop"
        /\ count = 0 => live = {}
    BY <1>2 DEF IInv, ReleaseInv, NoPayload, BeginRun
  <2>2. CASE NoPayload
    <3>1. test.payload = 0 /\ ctx' = ctx /\ live' = live
      BY <2>2 DEF NoPayload, machine
    <3> QED
      BY <2>1, <3>1 DEF IInv, PayloadInv, Open
  <2>3. CASE BeginRun
    <3>1. CASE AtNewMachine /\ count > 0
      <4>1. live' = live \ Open(ctx) /\ ctx' = NoParts
        BY <2>3, <3>1 DEF BeginRun
      <4> QED
        BY <2>1, <4>1, NothingOpen
    <3>2. CASE ~(AtNewMachine /\ count > 0)
      <4>1. live' = live /\ ctx' = ctx /\ (at' = "reset" \/ (at' = "machine" /\ count = 0))
        BY <2>3, <3>2 DEF BeginRun, IInv, Types, LoopTypes
      <4> QED
        BY <2>1, <4>1 DEF Open
    <3> QED
      BY <3>1, <3>2
  <2> QED
    BY <1>2, <2>2, <2>3
<1>3. CASE MakeMachine \/ MachineFails \/ PayloadTooLong \/ ReturnsEarly
  <2>1. CASE MakeMachine \/ PayloadTooLong
    <3>1. /\ at = "machine" /\ at' \in {"reset", "epilogue"} /\ met' = met
          /\ live' = live \cup Open(ctx)'
      BY <2>1 DEF MakeMachine, PayloadTooLong
    <3> QED
      BY <3>1 DEF IInv, ReleaseInv
  <2>2. CASE MachineFails \/ ReturnsEarly
    <3>1. met' # {}
      BY <2>2 DEF MachineFails, ReturnsEarly
    <3> QED
      BY <3>1 DEF ReleaseInv
  <2> QED
    BY <1>3, <2>1, <2>2
<1>4. CASE kvm_generic_reset_vcpu \/ SetupHandler
  BY <1>4 DEF IInv, Types, ReleaseInv, Open, kvm_generic_reset_vcpu, SetupHandler,
     Fails, process, machine, loop, outcome
<1>5. CASE KVM_RUN \/ kvm_generic_workaround_kernel_cache_bug \/ ExitHandled \/
   ExitFails \/ ExitUnhandled
  BY <1>5 DEF IInv, Types, ReleaseInv, Open, KVM_RUN,
     kvm_generic_workaround_kernel_cache_bug, ExitHandled, ExitFails, ExitUnhandled,
     Fails, process, machine, loop, outcome
<1>6. CASE Evaluate \/ LoopCondition
  <2>1. CASE Evaluate
    <3>1. count' > 0
      <4>1. count' = count + 1
        BY <2>1 DEF Evaluate
      <4>2. count \in Nat
        BY BoundsAssumption DEF IInv, Types, LoopTypes
      <4> QED
        BY <4>1, <4>2
    <3>2. /\ at' = "condition" /\ live' = live /\ ctx' = ctx
      <4>1. at' = "condition" /\ UNCHANGED machine
        BY <2>1 DEF Evaluate
      <4> QED
        BY <4>1 DEF machine
    <3>3. met' = met \/ met' = met \cup {"fault"}
      <4>1. \E e \in Exits : met' = IF result' = "oserror" THEN met \cup {"fault"} ELSE met
        BY <2>1 DEF Evaluate
      <4> QED
        BY <4>1
    <3>4. met' = {} => met = {}
      BY <3>3
    <3> QED
      BY <3>1, <3>2, <3>4 DEF IInv, ReleaseInv, Open
  <2>2. CASE LoopCondition
    BY <2>2 DEF IInv, Types, LoopTypes, ReleaseInv, Open, LoopCondition, machine, loop, outcome
  <2> QED
    BY <1>6, <2>1, <2>2
<1>7. CASE Epilogue \/ kvm_generic_cleanup \/ DeadlinePasses
  <2>1. CASE Epilogue
    BY <2>1, NothingOpen DEF IInv, ReleaseInv, Epilogue, outcome
  <2>2. CASE kvm_generic_cleanup \/ DeadlinePasses
    BY <2>2 DEF IInv, ReleaseInv, Open, kvm_generic_cleanup, Returns, DeadlinePasses, machine,
       loop, outcome
  <2> QED
    BY <1>7, <2>1, <2>2
<1>8. CASE NextTest
  BY <1>8, NothingOpen DEF ReleaseInv, NextTest
<1>9. CASE UNCHANGED kvars
  BY <1>9 DEF IInv, Types, ReleaseInv, Open, kvars, process, machine, loop, outcome
<1> QED
  BY <1>1, <1>2, <1>3, <1>4, <1>5, <1>6, <1>7, <1>8, <1>9 DEF Next, Run

\* What the steps of a run say of its result.
LEMMA ResultKept ==
  ASSUME IInv, [Next]_kvars
  PROVE  ResultInv'
<1>1. CASE group_kvm_init \/ kvm_log_skip \/ OpenFails \/ kvm_generic_init
  BY <1>1 DEF IInv, Types, ResultInv, group_kvm_init, kvm_log_skip, OpenFails,
     kvm_generic_init, Returns, FdOfTest, process, machine, loop, outcome
<1>2. CASE NoPayload \/ BeginRun
  <2>1. CASE NoPayload
    <3>1. ~PassesByDesign(test)
      BY <2>1 DEF NoPayload, PassesByDesign
    <3> QED
      BY <2>1, <3>1 DEF ResultInv, NoPayload, process
  <2>2. CASE BeginRun
    BY <2>2 DEF IInv, ResultInv, BeginRun, process, outcome
  <2> QED
    BY <1>2, <2>1, <2>2
<1>3. CASE MakeMachine \/ MachineFails \/ PayloadTooLong \/ ReturnsEarly
  <2>1. CASE MakeMachine
    BY <2>1 DEF ResultInv, MakeMachine
  <2>2. CASE MachineFails
    <3>1. PICK f \in DOMAIN VmFaults(test) : result' = VmFaults(test)[f].ret
      BY <2>2 DEF MachineFails
    <3>2. result' \in {"skip", "failure", "oserror"}
      BY <3>1, FaultsReturn
    <3>3. "fault" \in met'
      BY <2>2 DEF MachineFails
    <3> QED
      BY <3>2, <3>3 DEF ResultInv
  <2>3. CASE PayloadTooLong
    <3>1. ~PassesByDesign(test)
      BY <2>3 DEF PayloadTooLong, PassesByDesign
    <3> QED
      BY <2>3, <3>1 DEF ResultInv, PayloadTooLong, process
  <2>4. CASE ReturnsEarly
    <3>1. result' = "oserror" /\ "fault" \in met'
      BY <2>4 DEF ReturnsEarly
    <3> QED
      BY <3>1 DEF ResultInv
  <2> QED
    BY <1>3, <2>1, <2>2, <2>3, <2>4
<1>4. CASE kvm_generic_reset_vcpu \/ SetupHandler
  <2>1. CASE UNCHANGED outcome
    <3>1. test' = test /\ result' = result /\ met' = met
      BY <1>4, <2>1 DEF kvm_generic_reset_vcpu, SetupHandler, process, outcome
    <3>2. at' \in {"condition", "epilogue", "cleanup"} => result' # "success"
      BY <1>4 DEF kvm_generic_reset_vcpu, SetupHandler, Fails
    <3> QED
      BY <3>1, <3>2 DEF IInv, ResultInv
  <2>2. CASE result' \in {"failure", "oserror"} /\ "fault" \in met'
    BY <2>2 DEF ResultInv
  <2> QED
    BY <1>4, <2>1, <2>2 DEF kvm_generic_reset_vcpu, SetupHandler, Fails
<1>5. CASE KVM_RUN \/ kvm_generic_workaround_kernel_cache_bug \/ ExitHandled \/
   ExitFails \/ ExitUnhandled
  <2>1. CASE UNCHANGED outcome /\ at' \in {"run", "exit", "eval"}
    BY <1>5, <2>1 DEF IInv, ResultInv, KVM_RUN, kvm_generic_workaround_kernel_cache_bug,
       ExitHandled, ExitFails, ExitUnhandled, process, outcome
  <2>2. CASE result' = "failure" /\ "fault" \in met'
    BY <2>2 DEF ResultInv
  <2>3. CASE result' = "success" /\ "cache bug" \in met'
    BY <2>3 DEF ResultInv
  <2>4. CASE ExitFails
    <3>1. ~PassesByDesign(test)
      BY <2>4 DEF ExitFails, PassesByDesign, Exits
    <3> QED
      BY <2>4, <3>1 DEF IInv, ResultInv, ExitFails, Fails, process
  <2> QED
    BY <1>5, <2>1, <2>2, <2>3, <2>4 DEF KVM_RUN, kvm_generic_workaround_kernel_cache_bug,
       ExitHandled, ExitUnhandled, Fails
<1>6. CASE Evaluate \/ LoopCondition
  <2>1. CASE Evaluate
    <3>1. PICK e \in Exits :
            /\ ran' = (ran \/ e \in {"hlt 0", "hlt n"})
            /\ result' \in IF e # "hlt 0" THEN {"failure"}
                          ELSE IF ~test.check_handler THEN {"success"}
                          ELSE {IF CheckPasses THEN "success" ELSE "failure", "oserror"}
            /\ met' = IF result' = "oserror" THEN met \cup {"fault"} ELSE met
      BY <2>1 DEF Evaluate
    <3>2. test' = test /\ at = "eval"
      BY <2>1 DEF Evaluate, process
    <3>3. CASE result' = "oserror"
      BY <3>1, <3>3 DEF ResultInv
    <3>4. CASE result' = "failure"
      <4>1. met' = met /\ (e # "hlt 0" \/ (test.check_handler /\ ~CheckPasses))
        BY <3>1, <3>4
      <4>2. ASSUME PassesByDesign(test), met = {}
            PROVE  FALSE
        <5>1. e = "hlt 0"
          BY <4>2 DEF PassesByDesign, Exits
        <5>2. test.sets \subseteq prepared
          BY <3>2, <4>2 DEF IInv, PreparedInv
        <5> QED
          BY <4>1, <4>2, <5>1, <5>2 DEF PassesByDesign, CheckPasses
      <4> QED
        BY <3>2, <3>4, <4>1, <4>2 DEF ResultInv
    <3>5. CASE result' = "success"
      <4>1. e = "hlt 0" /\ ran'
        BY <3>1, <3>5
      <4>2. ~FailsByDesign(test)
        <5>1. test.payload # 0
          BY <3>2 DEF IInv, PayloadInv
        <5> QED
          BY <4>1, <5>1 DEF FailsByDesign, Exits
      <4> QED
        BY <3>2, <3>5, <4>1, <4>2 DEF ResultInv
    <3> QED
      BY <3>1, <3>3, <3>4, <3>5
  <2>2. CASE LoopCondition
    BY <2>2 DEF IInv, ResultInv, LoopCondition, process, outcome
  <2> QED
    BY <1>6, <2>1, <2>2
<1>7. CASE Epilogue \/ kvm_generic_cleanup \/ DeadlinePasses
  BY <1>7 DEF IInv, Types, ResultInv, Epilogue, kvm_generic_cleanup, DeadlinePasses,
     Returns, process, machine, loop, outcome
<1>8. CASE NextTest
  BY <1>8 DEF ResultInv, NextTest
<1>9. CASE UNCHANGED kvars
  BY <1>9 DEF IInv, Types, ResultInv, kvars, process, machine, loop, outcome
<1> QED
  BY <1>1, <1>2, <1>3, <1>4, <1>5, <1>6, <1>7, <1>8, <1>9 DEF Next, Run

\* And what becomes of the result.
LEMMA VerdictKept ==
  ASSUME IInv, [Next]_kvars
  PROVE  VerdictInv'
<1>1. CASE group_kvm_init \/ kvm_log_skip \/ OpenFails \/ kvm_generic_init
  <2>1. CASE group_kvm_init
    BY <2>1 DEF VerdictInv, group_kvm_init
  <2>2. CASE kvm_log_skip
    BY <2>2 DEF VerdictInv, kvm_log_skip, Returns, process
  <2>3. CASE OpenFails \/ kvm_generic_init
    <3>1. \/ at' # "end"
          \/ group' # "skips" /\ verdict' = "skip" /\ "fault" \in met'
      BY <2>3 DEF OpenFails, kvm_generic_init, Returns, process
    <3> QED
      BY <3>1 DEF VerdictInv
  <2> QED
    BY <1>1, <2>1, <2>2, <2>3
<1>2. CASE NoPayload \/ BeginRun
  BY <1>2 DEF IInv, Types, VerdictInv, NoPayload, BeginRun, AtNewMachine, process,
     machine, loop, outcome
<1>3. CASE MakeMachine \/ MachineFails \/ PayloadTooLong \/ ReturnsEarly
  BY <1>3 DEF IInv, Types, VerdictInv, MakeMachine, MachineFails, PayloadTooLong,
     ReturnsEarly, AtNewMachine, process, machine, loop, outcome
<1>4. CASE kvm_generic_reset_vcpu \/ SetupHandler
  BY <1>4 DEF IInv, Types, VerdictInv, kvm_generic_reset_vcpu, SetupHandler, Fails,
     process, machine, loop, outcome
<1>5. CASE KVM_RUN \/ kvm_generic_workaround_kernel_cache_bug \/ ExitHandled \/
   ExitFails \/ ExitUnhandled
  BY <1>5 DEF IInv, Types, VerdictInv, KVM_RUN, kvm_generic_workaround_kernel_cache_bug,
     ExitHandled, ExitFails, ExitUnhandled, Fails, process, machine, loop, outcome
<1>6. CASE Evaluate \/ LoopCondition
  BY <1>6 DEF IInv, Types, VerdictInv, Evaluate, LoopCondition, test_time_condition,
     process, machine, loop, outcome
<1>7. CASE Epilogue \/ kvm_generic_cleanup \/ DeadlinePasses
  <2>1. CASE Epilogue
    BY <2>1 DEF VerdictInv, Epilogue
  <2>2. CASE DeadlinePasses
    BY <2>2 DEF VerdictInv, DeadlinePasses
  <2>3. CASE kvm_generic_cleanup
    <3>1. /\ at = "cleanup" /\ verdict' = Verdict(result)
          /\ test' = test /\ met' = met /\ group' = group /\ ran' = ran
      BY <2>3 DEF kvm_generic_cleanup, Returns
    <3>2. group # "skips"
      BY <3>1 DEF IInv, GroupInv
    <3>3. CASE result = "success"
      <4>1. verdict' = "pass"
        BY <3>1, <3>3 DEF Verdict
      <4>2. "cache bug" \in met \/ (ran /\ ~FailsByDesign(test))
        BY <3>1, <3>3 DEF IInv, ResultInv
      <4> QED
        BY <3>1, <3>2, <4>1, <4>2 DEF VerdictInv
    <3>4. CASE result = "failure"
      <4>1. verdict' = "fail"
        BY <3>1, <3>4 DEF Verdict
      <4>2. ~PassesByDesign(test) \/ met # {}
        BY <3>4 DEF IInv, ResultInv
      <4> QED
        BY <3>1, <3>2, <4>1, <4>2 DEF VerdictInv
    <3>5. CASE result \in {"skip", "oserror"}
      <4>1. verdict' = "skip"
        BY <3>1, <3>5 DEF Verdict
      <4>2. "fault" \in met
        BY <3>5 DEF IInv, ResultInv
      <4> QED
        BY <3>1, <3>2, <4>1, <4>2 DEF VerdictInv
    <3> QED
      BY <3>3, <3>4, <3>5 DEF IInv, Types, OutcomeTypes
  <2> QED
    BY <1>7, <2>1, <2>2, <2>3
<1>8. CASE NextTest
  BY <1>8 DEF IInv, Types, VerdictInv, NextTest, FdOfTest, process, machine, loop,
     outcome
<1>9. CASE UNCHANGED kvars
  BY <1>9 DEF IInv, Types, VerdictInv, kvars, process, machine, loop, outcome
<1> QED
  BY <1>1, <1>2, <1>3, <1>4, <1>5, <1>6, <1>7, <1>8, <1>9 DEF Next, Run

-----------------------------------------------------------------------------
(***************************************************************************)
(* The theorems.                                                           *)
(***************************************************************************)
\* The first state.
LEMMA InitEstablishesInvariant ==
  ASSUME Init
  PROVE  IInv
<1>0. count = 0 /\ retries = 0 /\ tests_left = MaxTests
  BY DEF Init
<1>1. Types
  <2>1. ProcessTypes
    <3>1. tests_left \in 0..MaxTests
      BY <1>0, BoundsAssumption
    <3> QED
      BY <3>1 DEF Init, ProcessTypes
  <2>2. MachineTypes
    BY NothingOpen DEF Init, MachineTypes
  <2>3. PlaceTypes /\ FlagTypes /\ OutcomeTypes
    BY DEF Init, PlaceTypes, FlagTypes, OutcomeTypes
  <2>4. LoopTypes
    BY <1>0, BoundsAssumption DEF LoopTypes
  <2> QED
    BY <2>1, <2>2, <2>3, <2>4 DEF Types
<1>2. live = {} /\ Open(ctx) = {}
  BY NothingOpen DEF Init
<1>3. CtxIsLive /\ ReleaseInv
  BY <1>2 DEF Init, CtxIsLive, ReleaseInv
<1>4. PayloadInv /\ PreparedInv /\ GroupInv /\ VerdictInv
  BY DEF Init, PayloadInv, PreparedInv, GroupInv, VerdictInv
<1>5. RetryInv
  BY DEF Init, RetryInv
<1>6. CountInv
  BY <1>0, BoundsAssumption DEF CountInv
<1>7. ResultInv
  BY DEF Init, ResultInv
<1> QED
  BY <1>1, <1>3, <1>4, <1>5, <1>6, <1>7 DEF IInv

\* The inductive invariant holds in every state of a KVM test.
THEOREM Invariance == Spec => []IInv
<1>1. Init => IInv
  BY InitEstablishesInvariant
<1>2. IInv /\ [Next]_kvars => IInv'
  BY ProcessTypesKept, PlaceTypesKept, MachineTypesKept, LoopTypesKept, FlagTypesKept,
     OutcomeTypesKept, GroupKept, PayloadKept, CountKept, PreparedKept, RetryKept, CtxKept,
     ReleaseKept, ResultKept, VerdictKept DEF IInv, Types
<1> QED
  BY <1>1, <1>2, PTL DEF Spec

\* The variables of a KVM test keep their types and their bounds.
THEOREM TypeCorrect == Spec => []TypeOK
<1>1. IInv => TypeOK
  BY DEF IInv, Types, ProcessTypes, PlaceTypes, MachineTypes, LoopTypes, FlagTypes,
     OutcomeTypes, TypeOK
<1> QED
  BY <1>1, Invariance, PTL

\* What ctx refers to when kvm_generic_run() goes on, recycles the machine or runs
\* its epilogue is open, whichever step of making the machine failed before.
THEOREM CtxStaysLive == Spec => []CtxIsLive
<1>1. IInv => CtxIsLive
  BY DEF IInv
<1> QED
  BY <1>1, Invariance, PTL

\* After a test on a sound host no machine, CPU or memory of it is open, after
\* any number of recyclings.
THEOREM SoundHostsReleaseAll == Spec => []RunReleases
<1>1. IInv => RunReleases
  BY DEF IInv, ReleaseInv, RunReleases
<1> QED
  BY <1>1, Invariance, PTL

\* Tests whose expected verdicts are those they deserve get them, unless the host
\* is at fault; none is skipped without a reason, or passes without a run.
THEOREM VerdictsAreDeserved ==
  ASSUME ExpectationsAreRight
  PROVE  Spec => []SelftestVerdicts
<1>1. IInv => SelftestVerdicts
  BY DEF IInv, VerdictInv, SelftestVerdicts, ExpectationsAreRight, Types, ProcessTypes
<1> QED
  BY <1>1, Invariance, PTL

\* The KVM self tests are such tests: with them in the group, SelftestVerdicts holds.
THEOREM SelftestsDeserveTheirVerdicts ==
  \A t \in KvmSelftests : /\ t.expect = "pass" => PassesByDesign(t)
                          /\ t.expect = "fail" => FailsByDesign(t)
<1>1. PassesByDesign(kvm_long_64bit)
  BY DEF kvm_long_64bit, Config, PassesByDesign, PayloadFits, PayloadSurvives, ram_sz,
     kvm_prot64_check_ram_size, GUEST_PAGE_MAX_NUM, GUEST_PAGE_RESERVED, PAYLOAD_ADDR_PROT64,
     GUEST_MEM_PROT64_RESERVED
<1>2. PassesByDesign(kvm_real_16bit) /\ PassesByDesign(kvm_real_setup_check)
  BY DEF kvm_real_16bit, kvm_real_setup_check, Config, PassesByDesign, PayloadFits,
     PayloadSurvives
<1>3. FailsByDesign(kvm_prot_64bit_fail) /\ FailsByDesign(kvm_real_16bit_fail)
  BY DEF kvm_prot_64bit_fail, kvm_real_16bit_fail, Config, FailsByDesign
<1>4. /\ kvm_long_64bit.expect = "pass" /\ kvm_real_16bit.expect = "pass"
      /\ kvm_real_setup_check.expect = "pass"
      /\ kvm_prot_64bit_fail.expect = "fail" /\ kvm_real_16bit_fail.expect = "fail"
  BY DEF kvm_long_64bit, kvm_real_16bit, kvm_real_setup_check, kvm_prot_64bit_fail,
     kvm_real_16bit_fail, Config
<1> QED
  BY <1>1, <1>2, <1>3, <1>4 DEF KvmSelftests
=============================================================================
