-------------------------------- MODULE Kvm --------------------------------
(***************************************************************************)
(* KVM tests, sysdeps/linux/kvm.c: a test in the group @kvm gives a payload *)
(* and handlers, and kvm_generic_run() makes a virtual machine of one CPU,  *)
(* runs the payload in it over and over and makes a new machine after every *)
(* RecycleAfter runs.  The threads of a test share nothing but kvm_fd, which *)
(* no thread changes, so one thread is modelled; kvm_fd itself goes from    *)
(* one test to the next.  Any ioctl() and mmap() may fail.                  *)
(***************************************************************************)
EXTENDS Naturals

CONSTANTS
  Test,         \* the tests of the group, records of KvmTest
  RecycleAfter, \* the runs of one virtual machine; 127 in the code
  MaxRuns,      \* bound: payload runs of one kvm_generic_run()
  MaxRetries,   \* bound: times KVM's cache bug is met
  MaxTests      \* bound: tests run after the first

ASSUME BoundsAssumption ==
  /\ RecycleAfter \in Nat \ {0}
  /\ MaxRuns \in Nat \ {0} /\ MaxRetries \in Nat /\ MaxTests \in Nat

-----------------------------------------------------------------------------
(***************************************************************************)
(* Guest memory is counted in half pages of 1 MB.                           *)
(***************************************************************************)
DEFAULT_RAM_SIZE    == 2
GUEST_PAGE_MAX_NUM  == 512
GUEST_PAGE_RESERVED == 2
PAYLOAD_ADDR_PROT64 == 3
GUEST_MEM_PROT64_RESERVED == 2 * GUEST_PAGE_RESERVED

kvm_prot64_check_ram_size(size) ==
  LET pages == size \div 2
  IN  IF pages <= GUEST_PAGE_RESERVED \/ pages >= GUEST_PAGE_MAX_NUM
      THEN 2 * (GUEST_PAGE_RESERVED + 1)
      ELSE 2 * (pages + (size % 2))

ram_sz(t) == IF t.addr_mode = "prot64" THEN kvm_prot64_check_ram_size(t.ram_size)
             ELSE IF t.ram_size = 0 THEN DEFAULT_RAM_SIZE ELSE t.ram_size

PayloadFits(t)  == t.addr_mode = "prot64" => PAYLOAD_ADDR_PROT64 + t.payload <= ram_sz(t)

\* kvm_generic_reset_vcpu() zeroes everything above the reserved pages, and so
\* the part of the payload that lies there.
PayloadSurvives(t) ==
  t.addr_mode = "prot64" => PAYLOAD_ADDR_PROT64 + t.payload <= GUEST_MEM_PROT64_RESERVED

(***************************************************************************)
(* The state the setup handler of a test can give the guest, and how the   *)
(* guest ends a run: by HLT with 0 or another value in RAX, by an exit that *)
(* only a handler understands, or by any other exit.                        *)
(***************************************************************************)
GuestState == {"regs", "sregs", "ram"}
GuestExit  == {"hlt 0", "hlt n", "exit", "other"}

KvmTest == [addr_mode : {"real16", "prot64"}, ram_size : Nat, payload : Nat,
            sets : SUBSET GuestState,   \* by the setup handler; {}: none
            exit_handler : BOOLEAN, check_handler : BOOLEAN,
            exits : SUBSET GuestExit,   \* what the payload may end a run with
            once : BOOLEAN,             \* desired_duration is -1, or --quick
            thread : Nat,
            expect : {"pass", "fail", "any"}]

ASSUME TestAssumption == Test \subseteq KvmTest

(***************************************************************************)
(* The KVM self tests of selftest.cpp, with the memory they ask for.        *)
(***************************************************************************)
Config(mode, ram, expect, exits) ==
  [addr_mode |-> mode, ram_size |-> ram, payload |-> 1, sets |-> {}, exit_handler |-> FALSE,
   check_handler |-> FALSE, exits |-> exits, once |-> FALSE, thread |-> 0, expect |-> expect]

kvm_long_64bit     == Config("prot64", 8, "pass", {"hlt 0"})
kvm_real_16bit     == Config("real16", 2, "pass", {"hlt 0"})
\* Its setup handler sets DS and memory; here it runs as the second thread.
kvm_real_setup_check ==
  [kvm_real_16bit EXCEPT !.sets = {"sregs", "ram"}, !.check_handler = TRUE, !.thread = 1]
kvm_prot_64bit_fail == [Config("prot64", 6, "fail", {"hlt n"}) EXCEPT !.once = TRUE]
kvm_real_16bit_fail == [Config("real16", 2, "fail", {"hlt n"}) EXCEPT !.once = TRUE]

KvmSelftests == {kvm_long_64bit, kvm_real_16bit, kvm_real_setup_check,
                 kvm_prot_64bit_fail, kvm_real_16bit_fail}
-----------------------------------------------------------------------------
(***************************************************************************)
(* What of a virtual machine can be open or mapped, and the faults of       *)
(* making one: the new parts that ctx refers to, those it still has from    *)
(* before, the ones made and not referred to by anything, and what          *)
(* kvm_generic_run() returns.                                               *)
(***************************************************************************)
Part  == {"vm", "cpu", "runs", "ram"}
Fault(new, kept, lost, ret) == [new |-> new, kept |-> kept, lost |-> lost, ret |-> ret]

VmFaults(t) ==
  [busy   |-> Fault({}, Part \ {"vm"}, {}, "skip"),
   create |-> Fault({}, Part \ {"vm"}, {}, "failure"),
   \* run_sz becomes -1 and what runs pointed to can no longer be unmapped
   size   |-> Fault({"vm"}, {"ram"}, {}, "failure"),
   vcpu   |-> Fault({"vm"}, {"runs", "ram"}, {}, "failure"),
   mmap   |-> Fault({"vm"}, {"ram"}, {}, "failure"),
   cpuid  |-> Fault(Part \ {"ram"}, {"ram"}, {}, "failure"),
   sregs  |-> Fault(Part \ {"ram"}, {"ram"}, {}, "oserror"),
   ram    |-> Fault(Part \ {"ram"}, {}, {}, "failure"),
   region |-> IF t.addr_mode = "real16" THEN Fault(Part, {}, {}, "failure")
              ELSE Fault(Part \ {"ram"}, {}, {"ram"}, "failure"),
   set    |-> Fault(Part, {}, {}, "failure")]
-----------------------------------------------------------------------------
VARIABLES
  fork_mode,  \* "no", "yes" or "exec"
  group,      \* what group_kvm_init() told: "" before, then "runs" or "skips"
  kvm_fd,     \* in the process of the test: "closed", "open" or "errno"
  test,       \* the test that runs
  at,         \* where its process is
  ctx,        \* [Part -> Nat]: the machine a part belongs to; 0: none
  live,       \* the <<part, machine>> that are open or mapped
  made,       \* machines made by this kvm_generic_run()
  count,      \* payload runs finished
  retry,      \* the payload is to be run again without its setup handler
  prepared,   \* what of the setup handler's work the guest still has
  time_up,    \* the deadline of the test has passed
  result,     \* what kvm_generic_run() is about to return
  verdict,    \* the result of the test
  met,        \* of what the host can do wrong, what this test has met
  ran,        \* the payload has been run to its end, as it is
  retries, tests_left

machine == <<ctx, live, made, prepared>>
loop    == <<count, retry, retries>>
outcome == <<result, verdict, met, ran>>
process == <<fork_mode, group, kvm_fd, test, tests_left>>
kvars   == <<process, at, machine, loop, time_up, outcome>>

NoParts == [p \in Part |-> 0]
Open(c) == {<<p, c[p]>> : p \in {q \in Part : c[q] # 0}}

TypeOK ==
  /\ fork_mode \in {"no", "yes", "exec"} /\ group \in {"", "runs", "skips"}
  /\ kvm_fd \in {"closed", "open", "errno"} /\ test \in Test
  /\ at \in {"group", "init", "loop", "machine", "reset", "handler", "run", "exit",
             "eval", "condition", "epilogue", "cleanup", "end"}
  /\ ctx \in [Part -> Nat] /\ live \subseteq Part \X Nat /\ made \in Nat
  /\ count \in 0..MaxRuns /\ retry \in BOOLEAN /\ retries \in 0..MaxRetries
  /\ prepared \subseteq GuestState /\ time_up \in BOOLEAN
  /\ result \in {"success", "failure", "skip", "oserror"}
  /\ verdict \in {"", "pass", "fail", "skip"} /\ ran \in BOOLEAN
  /\ met \subseteq {"fault", "cache bug"} /\ tests_left \in 0..MaxTests

Init ==
  /\ fork_mode \in {"no", "yes", "exec"} /\ group = "" /\ kvm_fd = "closed"
  /\ test \in Test /\ at = "group" /\ tests_left = MaxTests
  /\ ctx = NoParts /\ live = {} /\ made = 0 /\ prepared = {}
  /\ count = 0 /\ retry = FALSE /\ retries = 0 /\ time_up = FALSE
  /\ result = "success" /\ verdict = "" /\ met = {} /\ ran = FALSE
-----------------------------------------------------------------------------
(***************************************************************************)
(* Before the tests: group_kvm_init(), called by preinit_tests().  Its      *)
(* failure is kept in kvm_fd and replaces the test_init() of every test of  *)
(* the group.  A child that was executed starts without it.                 *)
(***************************************************************************)
FdOfTest(inherited) == IF fork_mode = "exec" THEN "closed" ELSE inherited

group_kvm_init ==
  /\ at = "group" /\ at' = "init"
  /\ \/ kvm_fd' = FdOfTest("open") /\ group' = "runs"
     \/ kvm_fd' = "errno" /\ group' = "skips"
  /\ UNCHANGED <<fork_mode, test, tests_left, machine, loop, time_up, outcome>>

Returns(v) == verdict' = v /\ at' = "end"
Verdict(ret) == CASE ret = "success" -> "pass" [] ret = "failure" -> "fail" [] OTHER -> "skip"

kvm_log_skip ==
  /\ at = "init" /\ group = "skips"
  /\ Returns("skip")
  /\ UNCHANGED <<process, machine, loop, time_up, result, met, ran>>

OpenFails ==
  /\ at = "init" /\ group = "runs"
  /\ kvm_fd = "closed"
  /\ Returns("skip") /\ met' = met \cup {"fault"}
  /\ UNCHANGED <<process, machine, loop, time_up, result, ran>>

kvm_generic_init ==
  /\ at = "init" /\ group = "runs"
  /\ \/ kvm_fd' = "open" /\ at' = "loop" /\ UNCHANGED <<verdict, met>>
     \* KVM_GET_API_VERSION or KVM_CHECK_EXTENSION fails, or there is no
     \* KVM_CAP_USER_MEMORY: skipped
     \/ kvm_fd' = "closed" /\ Returns("skip") /\ met' = met \cup {"fault"}
     \* another version of the API: no errno to return, and 0 is success
     \/ kvm_fd' = "closed" /\ at' = "loop" /\ met' = met \cup {"fault"} /\ UNCHANGED verdict
  /\ UNCHANGED <<fork_mode, group, test, tests_left, machine, loop, time_up, result, ran>>
-----------------------------------------------------------------------------
(***************************************************************************)
(* kvm_generic_run().  Every RecycleAfter runs the machine is closed; a     *)
(* machine is made whenever the count says so, again too when the first     *)
(* run of a machine is to be repeated.                                      *)
(***************************************************************************)
AtNewMachine == count % RecycleAfter = 0

NoPayload ==
  /\ at = "loop" /\ test.payload = 0
  /\ result' = "failure" /\ at' = "cleanup"
  /\ UNCHANGED <<process, machine, loop, time_up, verdict, met, ran>>

\* Faulty: what was closed stays in ctx.
BeginRunKeeping ==
  /\ at = "loop" /\ test.payload > 0
  /\ at' = IF AtNewMachine THEN "machine" ELSE "reset"
  /\ live' = IF AtNewMachine /\ count > 0 THEN live \ Open(ctx) ELSE live
  /\ UNCHANGED <<process, ctx, made, prepared, loop, time_up, outcome>>

\* Faulty: a new machine without closing the old one.
BeginRunUnclosed ==
  /\ at = "loop" /\ test.payload > 0
  /\ at' = IF AtNewMachine THEN "machine" ELSE "reset"
  /\ UNCHANGED <<process, machine, loop, time_up, outcome>>

BeginRun ==
  /\ at = "loop" /\ test.payload > 0
  /\ at' = IF AtNewMachine THEN "machine" ELSE "reset"
  /\ IF AtNewMachine /\ count > 0
     THEN live' = live \ Open(ctx) /\ ctx' = NoParts
     ELSE UNCHANGED <<live, ctx>>
  /\ UNCHANGED <<process, made, prepared, loop, time_up, outcome>>

\* The parts that ctx has after a machine has been made, or made in part.
Made(new, kept) ==
  [p \in Part |-> IF p \in new THEN made + 1 ELSE IF p \in kept THEN ctx[p] ELSE 0]

MakeMachine ==
  /\ at = "machine" /\ kvm_fd = "open" /\ PayloadFits(test)
  /\ made' = made + 1
  /\ ctx' = Made(Part, {}) /\ live' = live \cup Open(ctx')
  /\ prepared' = {}
  /\ result' = "success" /\ at' = "reset"
  /\ UNCHANGED <<process, loop, time_up, verdict, met, ran>>

\* Without kvm_fd no machine is made; a payload that is too long is found last.
Breaks(f) == \/ kvm_fd = "open" /\ (PayloadFits(test) \/ f # "set")
             \/ kvm_fd # "open" /\ f = "create"

MachineFails ==
  /\ at = "machine"
  /\ \E f \in DOMAIN VmFaults(test) :
       LET fault == VmFaults(test)[f]
       IN  /\ Breaks(f)
           /\ ctx' = Made(fault.new, fault.kept)
           /\ live' = live \cup {<<p, made + 1>> : p \in fault.new \cup fault.lost}
           /\ result' = fault.ret
  /\ made' = made + 1 /\ met' = met \cup {"fault"} /\ at' = "epilogue"
  /\ UNCHANGED <<process, prepared, loop, time_up, verdict, ran>>

PayloadTooLong ==
  /\ at = "machine" /\ kvm_fd = "open" /\ ~PayloadFits(test)
  /\ made' = made + 1
  /\ ctx' = Made(Part, {}) /\ live' = live \cup Open(ctx')
  /\ result' = "failure" /\ at' = "epilogue"
  /\ UNCHANGED <<process, prepared, loop, time_up, verdict, met, ran>>

\* IOCTL_OR_RET in kvm_generic_run() itself returns past the epilogue.
ReturnsEarly ==
  /\ at \in {"reset", "eval"}
  /\ at = "reset" => AtNewMachine
  /\ result' = "oserror" /\ met' = met \cup {"fault"} /\ at' = "cleanup"
  /\ UNCHANGED <<process, machine, loop, time_up, verdict, ran>>

Fails(ret) ==
  /\ result' = ret /\ at' = "epilogue"
  /\ UNCHANGED <<verdict, ran>>

NeedsNoSetup == retry \/ test.sets = {}

kvm_generic_reset_vcpu ==
  /\ at = "reset"
  /\ \/ /\ at' = IF NeedsNoSetup THEN "run" ELSE "handler"
        /\ retry' = FALSE
        /\ prepared' = prepared \ ({"regs"} \cup
                         (IF test.addr_mode = "prot64" THEN {"ram"} ELSE {}))
        /\ UNCHANGED outcome
     \/ /\ Fails("failure") /\ met' = met \cup {"fault"}
        /\ UNCHANGED <<retry, prepared>>
  /\ UNCHANGED <<process, ctx, live, made, count, retries, time_up>>

SetupHandler ==
  /\ at = "handler"
  /\ \/ /\ prepared' = prepared \cup test.sets
        /\ at' = "run" /\ UNCHANGED outcome
     \/ /\ \E ret \in {"failure", "oserror"} : Fails(ret)
        /\ met' = met \cup {"fault"} /\ UNCHANGED prepared
  /\ UNCHANGED <<process, ctx, live, made, loop, time_up>>

\* KVM_RUN.  A payload that lost its end does anything but what it should.
Exits == IF PayloadSurvives(test) THEN test.exits ELSE {"other"}

KVM_RUN ==
  /\ at = "run"
  /\ \/ at' = "exit" /\ UNCHANGED outcome
     \/ Fails("failure") /\ met' = met \cup {"fault"}
  /\ UNCHANGED <<process, machine, loop, time_up>>

kvm_generic_workaround_kernel_cache_bug ==
  /\ at = "run" /\ retries < MaxRetries
  /\ retries' = retries + 1
  /\ result' = "success" /\ retry' = TRUE /\ at' = "condition"
  /\ met' = met \cup {"cache bug"}
  /\ UNCHANGED <<process, machine, count, time_up, verdict, ran>>

\* The exit handler: handled, and the guest goes on; failed; or for the framework.
ExitHandled ==
  /\ at = "exit" /\ test.exit_handler /\ "exit" \in Exits
  /\ at' = "run"
  /\ UNCHANGED <<process, machine, loop, time_up, outcome>>

ExitFails ==
  /\ at = "exit" /\ test.exit_handler /\ "exit" \in Exits
  /\ Fails("failure") /\ UNCHANGED met
  /\ UNCHANGED <<process, machine, loop, time_up>>

ExitUnhandled ==
  /\ at = "exit" /\ at' = "eval"
  /\ UNCHANGED <<process, machine, loop, time_up, outcome>>

(***************************************************************************)
(* The end of a run: HLT with RAX = 0 is a success, which the check handler *)
(* may still deny.  The check of the self test compares what the guest read *)
(* through DS with the thread's number; a new machine has 0 there.          *)
(***************************************************************************)
CheckPasses == {"sregs", "ram"} \subseteq prepared \/ test.thread = 0

\* Faulty: a guest that halts has passed, whatever it tells.
EvaluateAnyHlt ==
  /\ at = "eval"
  /\ count' = count + 1 /\ ran' = TRUE
  /\ result' \in IF test.check_handler THEN {"success", "failure", "oserror"} ELSE {"success"}
  /\ met' = IF result' = "oserror" THEN met \cup {"fault"} ELSE met
  /\ at' = "condition"
  /\ UNCHANGED <<process, machine, retry, retries, time_up, verdict>>

Evaluate ==
  /\ at = "eval"
  /\ count' = count + 1
  /\ \E e \in Exits :
       /\ ran' = (ran \/ e \in {"hlt 0", "hlt n"})
       /\ result' \in IF e # "hlt 0" THEN {"failure"}
                      ELSE IF ~test.check_handler THEN {"success"}
                      ELSE {IF CheckPasses THEN "success" ELSE "failure", "oserror"}
       /\ met' = IF result' = "oserror" THEN met \cup {"fault"} ELSE met
  /\ at' = "condition"
  /\ UNCHANGED <<process, machine, retry, retries, time_up, verdict>>

test_time_condition == ~test.once /\ ~time_up /\ count < MaxRuns

LoopCondition ==
  /\ at = "condition"
  /\ at' = IF result = "success" /\ test_time_condition THEN "loop" ELSE "epilogue"
  /\ UNCHANGED <<process, machine, loop, time_up, outcome>>

Epilogue ==
  /\ at = "epilogue" /\ at' = "cleanup"
  /\ live' = live \ Open(ctx) /\ ctx' = NoParts
  /\ UNCHANGED <<process, made, prepared, loop, time_up, outcome>>

kvm_generic_cleanup ==
  /\ at = "cleanup"
  /\ Returns(Verdict(result))
  /\ kvm_fd' = "closed"
  /\ UNCHANGED <<fork_mode, group, test, tests_left, machine, loop, time_up, result, met, ran>>

DeadlinePasses ==
  /\ at \notin {"group", "init", "end"} /\ ~time_up
  /\ time_up' = TRUE
  /\ UNCHANGED <<process, at, machine, loop, outcome>>

(***************************************************************************)
(* The next test.  A forked child has the parent's kvm_fd, an executed one  *)
(* none, and without children it is what the test before left.              *)
(***************************************************************************)
NextTest ==
  /\ at = "end" /\ tests_left > 0
  /\ tests_left' = tests_left - 1 /\ test' \in Test
  /\ kvm_fd' = IF group = "skips" THEN "errno"
               ELSE IF fork_mode = "yes" THEN "open" ELSE FdOfTest(kvm_fd)
  /\ at' = "init"
  /\ ctx' = NoParts /\ live' = {} /\ made' = 0 /\ prepared' = {}
  /\ count' = 0 /\ retry' = FALSE /\ retries' = 0 /\ time_up' = FALSE
  /\ result' = "success" /\ verdict' = "" /\ met' = {} /\ ran' = FALSE
  /\ UNCHANGED <<fork_mode, group>>

Run == \/ NoPayload \/ BeginRun \/ MakeMachine \/ MachineFails \/ PayloadTooLong \/ ReturnsEarly
       \/ kvm_generic_reset_vcpu \/ SetupHandler
       \/ KVM_RUN \/ kvm_generic_workaround_kernel_cache_bug
       \/ ExitHandled \/ ExitFails \/ ExitUnhandled
       \/ Evaluate \/ LoopCondition \/ Epilogue

Next ==
  \/ group_kvm_init \/ kvm_log_skip \/ OpenFails \/ kvm_generic_init
  \/ Run \/ kvm_generic_cleanup \/ DeadlinePasses \/ NextTest
  \/ at = "end" /\ tests_left = 0 /\ UNCHANGED kvars

Spec == Init /\ [][Next]_kvars
-----------------------------------------------------------------------------
(***************************************************************************)
(* kvm_generic_run() goes on using, and in the end closes, what ctx refers  *)
(* to: never something closed before (a file descriptor that another thread *)
(* may have been given since), whichever step of making or recycling a      *)
(* machine fails.                                                           *)
(***************************************************************************)
CtxIsLive == Open(ctx) \subseteq live

(***************************************************************************)
(* A test whose host did nothing wrong leaves no machine, CPU or memory     *)
(* open, however many machines its loop went through and whichever handler  *)
(* or check ended it.  (After IOCTL_OR_RET, a failed memory region of       *)
(* protected mode and KVM's cache bug in the first run it does leave some.)  *)
(***************************************************************************)
RunReleases == at \in {"cleanup", "end"} /\ met = {} => live = {}

(***************************************************************************)
(* What the bats suite expects of the KVM self tests, 29-kvm.bats, in every *)
(* fork mode and also when tests follow each other in one process: they     *)
(* skip, or pass or fail as their group says, unless the host is at fault;  *)
(* they skip only when there is no KVM to use, and pass only after a run of *)
(* their payload.  (With KVM's cache bug the run is not always repeated.)   *)
(***************************************************************************)
SelftestVerdicts ==
  at = "end" =>
    /\ test.expect = "pass" /\ verdict = "fail" => met # {}
    /\ test.expect = "fail" /\ verdict = "pass" => "cache bug" \in met
    /\ group = "skips" => verdict = "skip"
    /\ verdict = "skip" => group = "skips" \/ "fault" \in met
    /\ verdict = "pass" => ran \/ "cache bug" \in met
=============================================================================
