# A TLA+ model of OpenDCDiag's framework

OpenDCDiag (`src/framework/`, C++) finds defective processors: it runs a list of
tests, each of them in child processes with one thread per logical CPU, and
decides from what the threads report, and from how the children end, whether
the machine is sound. This directory models the control of that framework:
waiting for children, the handshake with a crashing child, the evaluation of one
run, the loop of runs and retries, the program around it (options, selection of
tests, the background scan service), how children are spawned, how the topology
of processors, GPUs and IDXD devices is found and divided among the children, the
rescheduling of threads over devices, the log, the virtual machines of the KVM tests,
the random engines and the frequencies that tests run under, the knobs given to
tests, the counters that two tests watch, and what the framework's self tests
promise.

Paths and lines below are of `src/framework/` unless they say otherwise;
`PROJECT.json` has the lines of every definition.

## 1. The system

| Component | State | Operations | Interacts with |
|---|---|---|---|
| **Program**, `sandstone.cpp` (`main`, `background_scan_*`), `sandstone_opts.cpp`, `sandstone_tests.cpp` | configuration; list of tests and the place in it; counts of tests run, failures, skips; deadline; timestamps of the last batch, in a file but filled anew at every start; exit code | parse, select, shuffle, next test, wait for a batch or for an idle machine, restart, exit | calls `run_one_test` |
| **Runs of one test**, `sandstone_run.cpp` (`run_one_test`) | fracture loop, `fail_count`, `iterations`, `PerThreadFailures` | fracture, retry, mark failing threads, analyse | calls `run_one_test_once`; reads the threads' marks in shared memory |
| **Parent of one run**, `sandstone_run.cpp` (`run_one_test_children`, `wait_for_children`) | `ChildrenList`: handles, pollfds, results; caught signal; deadlines | fork, poll, reap, debug a crash, forward a signal, time out, kill | children through wait status, debug socket, signals |
| **Child**, `sandstone_run.cpp` (`child_run`, `run_one_test_inner`, `thread_runner`) | marks and states of its threads in shared memory | `test_init`, threads, `test_cleanup`, exit code | parent, `logging.cpp` |
| **Marks and result**, `logging.cpp`, `test_data.h` | `fail_time`, callback-called flag per thread | `log_error`, `log_skip`, `report_fail`, end of thread; `AbstractLogger` | child writes, parent reads after the child's end |
| **Crash handling**, `sysdeps/unix/child_debug.cpp` | `in_crash_handler`, debug socket, `thread_state` of the main thread (futex) | handler in the crashing thread; receive, dump, release in the parent | child and parent |
| **Signals**, `sysdeps/unix/signals.cpp` | first signal and count, one-shot handlers | catch, re-arm, `setsid` in the child | poll loop |
| **Spawning**, `sandstone_run.cpp` (`call_forkfd`), `forkfd/` | one-time initialisation, table of children with lock-free entries, SIGCHLD handler, pipes; result of the probe | probe the kernel, fork with a descriptor, handler in any thread, wait, close | the kernel, the poll loop, whatever else forks |
| **Self tests**, `selftest.cpp`, `sandstone.cpp` (`preinit_tests`) | none | a table of tests that pass, skip, fail, crash, freeze | a run of a test; the bats suite states their results |
| **Topology**, `device/cpu/topology.cpp` | `device_info[]`, sorted; NUMA nodes; `Topology` | detect by CPUID, sysfs or mock, sort, `--deviceset`, `--cpus`, build, mask of failures | slicing, the report of failures |
| **Rescheduling**, `device/cpu/topology.cpp` | groups (`tid`, `next_cpu`, barrier), or a queue | `reschedule`, end of a thread, completion of a barrier phase | test threads of one child |
| **Slicing**, `device/cpu/slicing.cpp`, `build_topology` | `slice_plans` (three plans of device and thread ranges), `thread_count`, size of the shared memory | make the plans, count the threads, commit the memory, choose a plan for a test | topology, options; decides the children and what they write to |
| **Log**, `logging.cpp`, `logging.h`, `device/cpu/logging_cpu.cpp` | memory files per thread with counters and limits; log file; static state of the three loggers | `log_message`, `log_data`, mismatch reports, init and end of a test, truncate, close | children write memory files, the parent appends, prints and empties them |
| **KVM**, `sysdeps/linux/kvm.c` | `kvm_fd`, `ctx` of one virtual machine, count of runs | group init, test init, make or recycle a machine, run, cleanup | a test in a child, KVM |
| **Accelerators**, `device/gpu/`, `device/idxd/` | `device_info[]` of tiles or work queues, each with a processor; topologies; plans | detect, `--deviceset`, `--cpus`, slice, mask of failures, analysis | the same calls of `main()` as for processors |
| **Random engines**, `random.cpp` | the engine of each process's main thread, one per test thread | choose by `-s`, a file or chance; draw; seed a thread; print, advance | fork copies it, exec passes it in `argv`, reports print it |
| **Frequencies**, `device/cpu/frequency_manager.hpp` | levels, index, what was there before; files below `/sys` | set up, change per fracture, reset, restore | `run_one_test`, every way out of the program |
| **Event monitors**, `sysdeps/linux/interrupt_monitor.cpp`, `src/tests/common/mce_check/`, `src/tests/common/smi_count/` | cached mapping of the columns of `/proc/interrupts`; baselines of errors, thermal events and SMIs, in each process | take a baseline before the tests, compare, take a new one | `preinit_tests`, children of the two tests, the kernel's counters, CPU hotplug |
| **Knobs**, `test_knobs.cpp` | pairs of key and value in the order they were given | set from `-O`, read by a test, pass to an executed child | options; children started with exec |
| Crash dumps, other monitors, ports | | | see section 8 |

### What is hard, and what would make each part correct

* *Waiting.* Exits, crashes, three deadlines, two kinds of kills and the user's
  signals come in any order. Correct is: no pid is signalled after its reaping,
  nobody is reaped before its crash context has been read, every slice gets a
  verdict its own end or a deadline justifies, a verdict never becomes milder,
  and the wait ends whatever the children do.
* *Crash handshake.* Several threads of several children crash at once and
  meet the parent in a futex. Correct is: one context per child, no lost
  wake-up, nobody dies while it is looked at.
* *One run.* Failures and skips come from test functions' return values, log
  calls, crashes, dying children and marks left in shared memory by the
  previous run. Correct is: a failure is never hidden, nothing but a failure of
  this run makes it fail, a pass needs somebody who passed, the failure callback
  runs once in every failed thread.
* *Retries.* The number of retries depends on their results and on a total
  shared by all tests. Correct is: exactly the documented number, the printed
  counts are right, the blamed threads are those that failed, and no failure is
  lost on the way to the exit code.
* *Rescheduling.* Partners swap devices through a barrier, its completion runs
  without the mutex, and threads may end at any time. Correct is: the
  completion is alone, the barrier counts exactly those that are left, a pair
  keeps its two devices, and nobody waits forever. The queue is shared by all
  threads and outlives a test: correct is that each round hands out every device once.
* *Spawning.* The table is shared by callers, by a signal handler that runs in
  any thread and several times at once, and by children nobody asked for.
  Correct is: each entry is served by one worker, each descriptor gets the
  status of its own child, every end is reported although signals are not
  queued, and no probing child ever runs a second test.
* *Program.* Options override each other, lists are thinned out and shuffled, the
  clock decides about one more iteration, and the service has to keep to its
  limit, which every restart begins anew. Correct is: the last word wins, an iteration runs each
  selected test as often as it was selected, a timed run ends and the service
  does not.
* *Topology.* Ids come from three sources, repeat between packages and can be
  missing; everything afterwards compares neighbours of a sorted array. Correct
  is: what is built is the machine, what `--deviceset` leaves is what was asked
  for, and a failure is reported on the core that failed.
* *Slicing.* Five decisions (options, size of the sockets, groups, modules, the
  test's flag) and three rounded divisions give the ranges that children later
  index memory with. Correct is: every device is tested by exactly one child,
  no two children share a thread's data, threads have devices, the memory
  suffices for every test, modules stay whole and slices keep to their limit.

* *Log.* Records are counted and limited per thread, cut short by a death, appended
  to by the parent and emptied for the next test; what goes to the screen depends on
  verbosity and on the first failure. Correct is: whatever fits the limits is
  printed, once and under its own test and thread, the output is well nested, the
  screen tells every failure, and a mismatch report contains the byte that differs.
* *KVM.* Twelve steps make a machine and each may fail, at first or when it is
  recycled. Correct is: only live descriptors and memory are used, a run releases
  what it made, a test without KVM is skipped.
* *Accelerators.* `--deviceset` works in place on what earlier options left, plans
  pack tiles of unequal cards, reports walk a topology that may be another's. Correct
  is what it is for processors.
* *Environment of a run.* The seed and the frequency move on in three places and must
  not elsewhere. Correct is: retries repeat the failure, fractures differ, the
  report's seed gives the same numbers, the machine is left as it was found.
* *Event monitors.* Baselines are copied by fork, absent after exec and lost with a
  child; counters wrap, columns come and go with CPUs. Correct is: the CPUs that had
  errors since the baseline are blamed, no others, each once.
* *Knobs.* What one process keeps in order another one gets as arguments. Correct is:
  the last `-O` decides, and a test reads the same wherever it runs.

`PROJECT.json` lists the hazards line by line with the properties that cover
them.

## 2. Modules

| Module | Models |
|---|---|
| `TestResults` | `TestResult` and its order, wait statuses, exit codes of children, `merge_test_result()` |
| `SliceVerdicts` | abstract specification: what waiting for the children of a test promises |
| `ChildWait` | the parent, the kernel's view of the children, signals and deadlines |
| `ChildWait_proofs` | theorems about `ChildWait`, the refinement of `SliceVerdicts` among them |
| `CrashDebug` | the handler in the threads, the debug socket, the parent's side, the futex |
| `PrintResults` | marks of threads and the evaluation of one run, as operators |
| `TestAttempt` | the children and threads of one run, up to its result |
| `TestAttempt_proofs` | theorems about it |
| `TestRun` | the loop over tests, fractures, retries, analysis and exit code |
| `BarrierReschedule` | `BarrierDeviceScheduler` and the barrier |
| `Reschedule` | extends it: the choice of a scheduler, `QueueDeviceScheduler`, `RandomDeviceScheduler` and the tests that use them |
| `Selftests` | extends `TestAttempt`: the self tests as scripts for its threads, `preinit_tests()`, `test_init()` in the parent, one test after another |
| `ForkFd` | `call_forkfd()`, `forkfd()` and its SIGCHLD handler |
| `Knobs` | `TestKnobSingleton`, the arguments of an executed child, the typed reads, as operators |
| `Options` | extends it: `collect_args()` and `parse_args()`, as operators |
| `Program` | extends `Options`: `main()`, the selection of tests, the iterations, the knobs of each test, the background scan service |
| `Topology` | detection, sorting, `--deviceset`, `build_topology()`, localisation of failures |
| `Slicing` | plans of slices, ranges of threads, size of the shared memory, children of a test |
| `SlicingAndLogging_proofs` | theorems about it, and about `Logging`; the two share nothing |
| `Devices` | composition of `Topology` and `Slicing` |
| `Accelerator` | what the GPU and IDXD builds share: units, processors, `--deviceset` |
| `Gpu`, `Idxd` | extend it: detection, topology, plans, masks and analyses of each, as operators |
| `Accelerators` | the start of the program on such a machine, for either of them |
| `Builds` | one of the three builds: `Devices` or `Accelerators` |
| `Logging` | the log calls, memory files, the three loggers, log file and stdout |
| `Kvm` | `kvm.c` and its self tests |
| `RandomEngine` | engines, seeds, requests, as operators |
| `Frequencies` | the `FrequencyManager` over the files of the machine, as operators |
| `RunEnvironment` | extends `TestRun` with both: what each attempt runs under |
| `RunEnvironment_proofs` | theorems about it and about `TestRun` |
| `BarrierReschedule_proofs`, `ForkFd_proofs`, `Kvm_proofs` | theorems about those modules |
| `CrashDebugAndProgram_proofs` | theorems about `CrashDebug`, and about the background scan service of `Program`; the two share nothing |
| `EventMonitors` | `InterruptMonitor`, `mce_check` and `smi_count`, over the kernel's counters |
| `MC*` | constants for TLC |

The modules follow the layers of the program. `TestRun` takes a call of
`run_one_test_once()` as a choice of its result and of the threads it marks;
`TestAttempt` is that call, with the ends of its children as choices;
`ChildWait` is what produces those ends, with the children as choices;
`CrashDebug` refines the single step in which `ChildWait` sends and releases a
crash context, `ForkFd` the one in which it forks. `TestResults` is shared by the
first three. `Program` is the loop around `TestRun`, with a call of
`run_one_test()` as a choice of its result and its duration. `Devices` comes before
all of them in the program: it says which slices and threads there are, which the
others take as constants (every thread in exactly one slice). `Selftests` drives
`TestAttempt` with the scripts of the self tests. `RunEnvironment` is `TestRun` with
the engine and the frequencies beside it: each of its steps is one of `TestRun`, or
one that only the environment can take. `Logging` has the memory files that
`TestAttempt` reduces to marks, and `Kvm` is one test from its init to its cleanup.
`EventMonitors` is two tests from their pre-init through several runs; `MCMachineTests`
has it beside `Kvm`, as the tests of the framework that depend on the machine. `Knobs`
is the table that `Options` fills in and the tests that `Program` runs read. In
`Reschedule` a process has the barrier, the queue, random devices or no scheduler.

### How state and actions correspond to the code

**ChildWait.** `proc`, `info`, `pend` and `socket` are the kernel's (process
state, wait status, signals from the parent, queued contexts). `handles`,
`children_left`, `result` and `ended` are `ChildrenList`; `phase` is the place in
`wait_for_children()` (three calls of `wait_for_all_children()`), `at` the place
in its loop. `poll()` is split in entering it and coming back, so that exits,
crashes, signals and the deadline fall between the two; one return reports all
that is ready (`ready`, `crashReady`) and the scan handles the debug socket
first and then one descriptor per step. A signal interrupts `poll()` only while
the parent sleeps there; elsewhere it is only counted, as in the code.
`caughtSignal` is the lambda's capture that makes every later scan return it.
A child that hangs is one that takes no step. `Kill` reaches only children that
have called `setsid()`. Every action that interrupts the wait ends the model
in `interrupted`: the caller prints and ends the program with the signal.

**CrashDebug.** One action per atomic operation of the handler: the store of
`thread_failed`, the test-and-set, the send, the load of the loop, `futex_wait`
with its comparison by the kernel, and spurious wake-ups; and of the parent:
receive, store of `thread_debugged`, wake. The kill after a timeout can come
whenever the parent is back in its poll loop.

**TestAttempt.** `fail_time` is a three-valued flag (`clean`, `skipped`,
`failed`); stores of the thread's state and of its mark at the end of
`thread_runner()` are two steps because the child can die between them. Test
functions are choices of their return value and of the log calls they make; the
flags start with what an earlier run may have left there (`Stale`), and
`StartChild` resets those of its own child only. `PrintAndReturn` is
`logging_print_results()` and the end of `run_one_test_once()`.

**TestRun.** `log` is the sequence of the attempts of the current test;
`per_thread_failures` are the bits as sets, written as the code writes them, with
the thread's number, taken modulo their width (`Bit`): the code does not bound the
number (`sandstone_run.cpp:1693`), a shift by the width of the `__uint128_t` or more is
undefined, and what x86-64 and AArch64 compile it to takes the count modulo the width. The
inputs are the test's wish to fracture, the clock and the result of each attempt.

**BarrierReschedule.** `tid` and `next_cpu` are vectors whose memory outlives
`erase()`, because the code indexes them by the thread's original position.
Critical sections under `groups_mutex` are single steps; the arrival at the
barrier, the rotation (with the mutex) and the pinning (after the unlock) are
separate. `FinishDies` is `erase(end())`, which the standard leaves undefined:
either the size shrinks or the process dies. `RotateDies` is the same for the
`std::rotate()` of a `next_cpu` that the failures of all members have emptied
(`topology.cpp:161`, `219`): either nothing that is read changes or the process dies.

**ForkFd.** A thread has a frame of its own code (`call`) and one of the signal
handler that interrupts it (`handler`); each step is one atomic operation on the
table or one system call. `kernel` is the kind of kernel: one with working pidfds, one without, one that
rejects the flag, and the two that the probe looks for: poll() says at once that the
child has ended, and the C library's cached pid is wrong in the child.
Foreign children (a gdb started by the crash handler) are
reaped by who started them.

**Selftests.** `SelfTests` is the table of `selftest.cpp` (tests of the same effect share
an entry of `Entries`): for each test what `test_init`, each thread's `test_run` and `test_cleanup` log and how they end, and
`expect`, what `src/bats/sanity-check` accepts. The steps are those of `TestAttempt`
restricted to the script; `TimeOut` stands for `ChildWait`'s deadlines. `NextTest`
leaves the shared memory as it is.

**Options, Program.** A command line is a sequence of records. `collect_args()` is a
fold over it, `parse_args()` one record of the configuration, in the order of its
blocks. In `Program` one action is one block of `main()`; time passes in ticks
(`elapsed`) within running a test and waiting; `starts` is what the service's
property remembers, not part of the program.

**Topology.** A machine is the set of what its processors report: CPUID leaves,
sysfs files or the mock's fields, and what they really are (`real`). Detection fills
`device_info[]` one source after another as the code does, `SortDevices` is
`sort()` with its keys in order, `ApplyDeviceset` one option. `BuildTopology` are
the loops that compare neighbours; the mask of failures is computed with the loops
of `build_failure_mask()`.

**Logging.** A configuration (format, verbosity, limits, what the threads do) is
chosen at the start (`cfg`). A memory file (`log`) is a sequence of records of equal
length; a death cuts the last one. Lines of the output are their kind and
what they are about (test, thread, level), not their text; `file` and `stdout` are
two sequences, one of them the other's where the code has one descriptor. `Turn` lets
one child write at a time, which loses nothing: children write disjoint memory.

**Kvm.** `ctx` names for each part (descriptor or mapping) the machine it belongs to,
`live` what is really open; the twelve steps are the rows of one table, each of which
may fail. One thread is
enough, as each has its own `ctx`; `kvm_fd` goes from process to process as the fork
mode has it.

**Accelerators.** A unit is a tile, a card without tiles or a work queue, with the ids the
driver gave it. `GpuApplied` and `IdxdApplied` are one `--deviceset` option on what the
ones before left. `early` tells whether there are threads when the topology is
built: in the program there are none yet, in the unit tests there are.

**RunEnvironment.** An engine's state is its type, what it was seeded with, and how
many numbers it has drawn; a seed in the log is that state. `environment` holds the
options and the machine, `conditions` what each attempt in `log` ran under. `Setup`
is `random_init_global()` and the frequency manager's set-up in `main()`; the steps of
`TestRun` get a prefix `Env`.

**Devices.** After `build_topology()` the sequence of changes `Slicing` takes is
computed from `device_info[]`; the threads that fail are any set of them.

**Slicing.** `device_info[]` is sorted, so a topology is the sequence of what
changes between neighbours (`change`: nothing but the thread, the core, the module,
the group, the package), and a core, group or package is known by its first
device. The loops of `slice_plan_init_for_device()` are one action per range
pushed, with the cursor `begin` and the two ends of the nested loops; the loops of
`slice_plan_init_for_threads()` one action per slice. `IsCut` is the inner `while`
that moves the end of a slice to the end of a module, stated as what it finds.

**Reschedule.** With the barrier each step is one of `BarrierReschedule`. The queue's `reschedule_to_next_device()` is one step, since all of it is under
the queue's mutex; the order of a round is any permutation, pinning may fail. A child's
scheduler is a fresh copy; with `-fno-fork` the object stays from test to test.

**EventMonitors.** The static variables of the program (`main`) and of the children are
records, copied by fork. The kernel's counters and the CPUs online change between any two
steps. `start` and `last` remember the machine at the baseline and at the last check;
they are not part of the program.

**Knobs.** A key is a sequence of characters, because prefixes and the first dot decide
what a child gets; a value is a number or text of a kind. Reading is the conversion of
the text as `strtoull()` and `strtod()` make it, in integers of `Width` bits. `KnobsOf`
is what the process that runs a test has: the program's table, or what the arguments
made of it.

## 3. Runs

| Run | Bounds | Distinct states | Shows |
|---|---|---|---|
| `child_wait` | 2 children, 2 signals, SIGKILL from outside | 821,872 | the properties of waiting, the refinement of `SliceVerdicts`, termination |
| `crash_debug` | 2 children with 2 threads, 3 crashes | 31,392 | one context per child, no lost wake-up, nobody dies unexamined |
| `crash_race` | 1 child, 2 crashes | | *violated*: a second crash can undo the release of the first |
| `barrier` | 3 threads (a pair and a single), 3 calls each; with the queue or at random 2 tests and 5 calls | 62,789 | exclusive completion, devices of a pair, progress; rounds of the queue |
| `barrier_deadlock` | 3 threads, 1 call | | *violated*: a thread that ends before the groups exist is still waited for |
| `test_run` | 2 tests, 2 threads, 2 retries, totals -1, 0, 3, 5; 17 environments | 823,612 | retries, blame, exit code, termination; seeds and frequencies of attempts, the machine restored |
| `devices` | 11 machines, 9 lists of `--deviceset`, 2 of `--cpus`, 4 limits, 3 ratios; 9 machines with GPUs, 6 with IDXD devices | 37,706 | topology, selection, localisation and slicing, in the three builds |
| `logging` | 2 children of 1 thread, 8 configurations | 922,948 | nesting, nothing lost or doubled, what the screen shows, windows of mismatches |
| `machine_tests` | KVM: 2 tests in a row, 3 fork modes, a fault at any step; monitors: 9 machines, 2 events, 2 hotplugs, 2 runs, counters modulo 4 | 211,269 | live descriptors, releases, the KVM self tests' results; blame, thermal warnings, SMIs |
| `forkfd` | 2 threads, 3 children, 1 + 1 entries, 5 kernels | 308,030 | the table, the probe, no end is lost |
| `selftests` | 2 packages of 1 child of 2 threads, 3 tests in a row, dirty shared memory | 150,934 | the results of all self tests, and of `TestAttempt` the properties of one run |
| `program` | 6 tests, command lines of up to 3 options, delay of 6 ticks, batches of 2, 1 restart; lists of `-O`, 3 fork modes, 4 bits | 432,081 | options, selection, the batch limit, the end of timed runs, the service goes on, knobs |

`CHECK_DEADLOCK FALSE` is given to `crash_debug`, `crash_race`, `barrier`,
`barrier_deadlock` and `forkfd`: there threads end, and in the first four two threads can
wait forever (which is what the violated properties are about). The other models
have an explicit step in their final states, so that any other deadlock is
reported.

### Why the bounds are enough

* Two children: all of the code's decisions compare one child with "the
  others" (a reaped and an unreaped one, one that crashed and one that exited).
  One outcome that is a failure adds nothing to `child_wait`, because only the
  order of the results matters to the parent and `Killed` and `CoreDumped` are above all
  of them.
* Two signals are the least for a second Ctrl+C and for SIGINT after SIGTERM;
  a third one finds no handler in any new situation.
* Two threads per child are the least that can race for `in_crash_handler`;
  the second child keeps the parent busy meanwhile.
* A pair and a single thread exercise the full and the partial group, and
  the groups created by a thread of the other pair; three calls bring the
  rotation round and leave one more. `members_per_group` is 2 in the code.
* In `test_run` the retries (up to four) exceed the bits (`MaxRetestCount` = 4,
  numbered from the first failure), the total is hit within a test, between
  two tests, and not at all. The environments beyond the plain one go with
  one total and one kind of fatal result, the odd ones (a set-up that fails, files
  that are missing, a range below 100 MHz) with no retries. Three fractures of a test
  meet four levels of frequency and, on another machine, two.
* `devices`: the machines have up to eight processors in one or two packages,
  with and without threads, modules, NUMA nodes and two core types, ids in and
  out of order, found through CPUID, sysfs or the mock, and processors switched
  off. The lists of `--deviceset` add, remove and overlap. Sockets are too small
  below two CPUs on average (four in the code), the default slice has two cores
  (32), and the limits go from none over "full system" to one above the default.
  What these bounds leave open about slicing, the proofs close.
* `devices`, other builds: at most six units; cards with two tiles and without any over
  up to three NUMA nodes, with and without `FLAT` hierarchy; queues that are shared,
  dedicated, disabled. The default limit of units per slice is 2 instead of the
  code's, `MaxUnits` is 0 or 3. Failures of a unit are one of three patterns.
* `logging`: a configuration bounds the log calls (one or two), the runs of the test
  (one or two) and who logs; six verbosities and sinks of YAML, TAP, key-value and no
  output are there, with limits that are hit or 0. Records are equally long, a limit is a number of
  them; levels are E, W and I. Children die in two ways, in a record or between two.
  A child that was timed out before `init_per_thread_data()` does not run it later
  (section 5 says what happens if it does).
* `machine_tests`, KVM: the machine is recycled after 2 runs instead of 127, a test makes up to five
  runs and two retries. The second test finds what the first left in the process.
* `forkfd`: one thread forks while the other only takes signals, which is what
  the framework does (tests run in threads of the child). Three children are more
  than the two entries of the two arrays, so that the table fills up and is
  searched beyond the first array.
* `selftests`: two packages are what the tests "socket0" and "socket1" ask for;
  two threads per child tell "even" threads and "the second thread" apart. The
  first test starts with the marks of one that failed everywhere, the second and
  third with what the one before them really left.
* `program`: the batch limit of two tests per delay of six ticks, with a minimum
  delay of one, can be hit, missed and reached again by each of two processes, and a
  restart begins while tests of the process before are still younger than a batch. The
  command lines are all pairs of options that decide what is run, those of the
  others with their rivals, and a few triples.
* `machine_tests`, monitors: two events are two errors of one CPU, of two, or of two kinds; each
  kind occurs before, between and after the runs. The counters start next to their
  limit, so one event wraps them. The CPU that comes and goes is not tested and stands
  between two that are; two runs are the least for a baseline taken anew.
* `program`, knobs: two `-O` are the least that override each other or stand in another
  order than they are passed on. One test's ID begins with the other's; the integers are those
  at the edges of both types.
* `barrier`, queue: five calls of three threads end a round within a test, at its end, and after
  it in the next one, and begin the round after it.

### Fairness

* `ChildWait`: weak fairness of the parent and of the clock, none of the children,
  so the termination holds for children that hang.
* `CrashDebug`: crashed threads and the parent are scheduled. The timeout is not
  assumed, so the liveness is that of the handshake.
* `BarrierReschedule`, `Reschedule`: each thread runs while it can and ends its test
  (`test_time_condition()`).
* `TestRun`: calls return (which is `WaitTerminates` of `ChildWait`), and time
  passes.
* `ForkFd`: threads that are in a call or in a handler run, a pending signal is
  delivered to some thread that can take it, and a probing child answers. Nobody
  need call again, nor a child end.
* `Program`: weak fairness of its own steps. Signals, restarts and an idle
  machine need not come.

## 4. Properties

*Waiting.* `HandlesAreUnreaped`, `OurKillIsATimeout`, `ImplementsVerdicts`,
`WaitTerminates`. The subtle one is `OurKillIsATimeout`: the wait status of a
child killed with SIGKILL is that of a victim of the OOM killer; it stays a timeout
only because `terminate_children()` has recorded `TimedOut` before and
`merge_test_result()` keeps the more severe, so the order of the enumerators matters.

*Crash handshake.* `DebuggedBeforeDeath`, and `LoneCrashEndsChild`: without a second
crash in the same child, the handshake loses no wake-up.

*One run.* `ThreadFailureIsSeen`, checked on the self tests and proved for arbitrary
tests; `SelftestsEndAsExpected`.

*Retries.* `RetriesAreExact` gives the number of retries in closed form, from
their results and what was left of the total; `FailuresAreLocalised`,
`ExitCodeTells`, `RunTerminates`.

*Environment.* `AttemptsRepeatAndVary`: a retry runs at the seed and the frequencies of
the failure, the seed in its report gives the threads the same numbers in a new run
of the program, no two fractures of the whole run share a seed, and the first
fractures of a test run each at another frequency, the highest first.
`MachineIsRestored`: by whichever way the program ends, governors, driver, speeds and
uncore limits are those of before, if the machine was `Usable`: root, all the files with
room between their limits, packages numbered from 0, and governors that
`intel_pstate` starts with.

*Rescheduling.* `CompletionIsExclusive`, `PairKeepsItsDevices`,
`WaitersAreReleased`.

`RoundsAreFair`: however many threads of however many tests share a queue, no device was
handed out twice more often than another, nor before its turn.

*Event monitors.* `MonitorsTell`: `mce_check` blames exactly the CPUs that had errors
(as long as no CPU comes or goes), warns of thermal events when there were some, and
`smi_count` names the CPUs of the first slice that had SMIs. A child compares with the
program's baseline, the program itself with its last one.

*Knobs.* `KnobsReachTests`: a test reads each of its knobs, and those of no test, as the
last `-O` for it says, in the program, a forked child or an executed one, which has no
knob of another test. (Of those of no test, the ones with a dot do not reach the latter.)

*Spawning.* `PayloadsAreOwn`, `OneTestPerCall`, `EveryEndIsNotified`. The last one
holds because pids are not reused within a handler (`Reuse = FALSE`): with reuse, the
case of the FIXME at `forkfd.c:380`, it is violated.

*Program.* `LastOptionDecides`, `IterationRunsSelection`, `BatchLimit`,
`RunsGoOnAndEnd`. `BatchLimit` is about each process of the service, and about all of
them only as far as a batch for each goes: no process knows what the one before it
started (section 5).

*Topology.* `TopologyIsReal`, `DevicesetSelects`, `FailuresNameTheirCores`.

*Slicing.* `SlicesAreSound` is the conjunction of what makes the plans safe: every
device in one slice, threads of children disjoint and with devices, data of main
threads within the memory, modules whole. Its less obvious part is `MainDataFits`:
a plan by sockets is never longer than one by groups, nor that longer than the
heuristic's.

*Accelerators.* `UnitsAreTested` (the units left are those asked for, each once, with the
processor given to it, with the features and queues of their own device; every plan
gives each to one child, cards and NUMA nodes unsplit), `FailedUnitsAreNamed` (the mask
marks and the analysis names those that failed, as far as section 5 does not say
otherwise).

*Log.* `WellNested`, `MessagesArePrinted` (records within the limits reach the log
file under their test and thread, even if the child dies or the parent adds to them),
`StdoutTellsFailures`, `MismatchShowsOffset`.

*KVM.* `CtxIsLive` (no step uses or closes what is closed already), `RunReleases`,
`SelftestVerdicts` (the results the bats suite states, in each fork mode).

Some definitions named as properties are proved and not run: `TypeOK` of
`ChildWait`, `TestRun`, `Slicing` and `TestAttempt`; `FinalVerdicts`,
`SeverityNeverDrops` and `ContextsHaveASlice` of `ChildWait`; `FailureHasACause`,
`CallbackOfEveryFailure` and `FailuresStick` of `TestAttempt`; `BudgetIsKept` of
`TestRun`; the parts of `SlicesAreSound` and `SlicesAreBounded` of `Slicing`.

Each property of a passing run has a mutant in `PROJECT.json`: a definition
marked "Faulty" in the module that a plausible slip would produce and that
violates the property.

## 5. Where code and words disagree

With a run whose property is violated:

1. **Two crashes** (`crash_race`). The second crashing thread stores
   `thread_failed` (`child_debug.cpp:248`) before it finds out that it is the
   second; after the parent's `thread_debugged` this sends the first one back to
   sleep. The child is then ended only by the timeout.
2. **Early end** (`barrier_deadlock`). `finish_reschedule()` does nothing while
   there are no groups (`topology.cpp:206`), so a thread that ends first is
   counted by the barrier created afterwards.
Met without a run, by part. *Runs of a test*:

* The bit set by `mark_up_per_thread_fail()` is the thread's number, because a
  parameter hides the attempt's (`sandstone_run.cpp:1693`); so of up to 128 threads
  no two patterns are equal, and "failed exactly the same way"
  (`sandstone_run.cpp:1617`, `1630`) is never said of several threads; from 128 on the
  shift is undefined.
* The mask of failures and the analysis take a device's index for a thread's
  (`topology.cpp:2000`), which is another one's with `--thread-ratio`.
* "We print a message and wait for the test" (`sandstone_run.cpp:929`); but
  `caughtSignal` is returned by the first scan after Ctrl+C, and the parent stops
  waiting when the first child ends (`Scan` of `ChildWait`).
* With `--ignore-os-errors`, an operating system error of one child hides a failure
  reported in another (`sandstone_run.cpp:1596`; why `ThreadFailureIsSeen` speaks of
  what is printed).
* Threads that never started count as passed where `logging.cpp:1760` compares
  counts, so a run in which all that started skipped can pass.
* The environment's: with `no_fork`, `test_init()` draws from the parent's own engine,
  so retries run with other seeds than the failure and `fail: seed`
  (`logging.cpp:1861`) is not the seed of the header; `docs/writing_tests.md` and
  `fail_common` of the bats suite have them equal, which they are in the other modes.
  `-s LCG:0` and a malformed number give an engine that stays at 0; the AES state's
  reader writes past the state if the text is too long (its comment says "dirty").
* Frequencies: a range below 100 MHz gives no levels and a division by zero
  (`frequency_manager.hpp:272`), or, where that does not trap, a level beyond the
  vector. If a CPU lacks its files, the governors of those before it stay at
  "userspace", and the driver "passive", because restoring returns early; so does
  `exit()` in `write_file()`. The index moves on within the loop over sockets (each of
  two sees every other level) and the number of levels is the last socket's, also for
  a socket with fewer. Packages are counted and then numbered from 0, whatever
  `--deviceset` has left of them.

*Program and devices*:

* The comment at `device/cpu/slicing.cpp:23-25` says that a socket is sliced only if
  it has more than 32 cores or is hybrid, and by core type before NUMA nodes; the
  code always slices at group boundaries, and the sorting puts NUMA nodes first.
* `--1sec`, `--30sec`, `--2min` and `--5min` set `test_list_randomize` and
  `use_strict_runtime`, and `--service` sets `fatal_errors`, but the block of boolean
  flags (`sandstone_opts.cpp:862-878`) overwrites all three.
* A repeated `-T` keeps its first value (`emplace`), although the unit tests for
  options are named `last_option_takes_precedence`; `-q` wins over `-v` in any order.
* `-T` is "minimum run time", but an iteration only starts if the average of the
  earlier ones fits; `--strict-runtime` without `-T` ends after one test, and so does
  `--max-test-count 0`.
* `std::shuffle()` leaves out as many tests at the end as there are special tests,
  in lists without them too; the built-in list adds every test twice; `--disable`
  by group or pattern passes over tests that are not enabled by default.
* `pkg_failures` is walked by value and used as an index (`topology.cpp:1911`).
* "Don't run too many tests in a short period of time" (`sandstone.cpp:910`) does not hold
  over restarts. The timestamps are to be filled "on first run" only (841), but the
  constructor of `FileLayout` (836) zeroes `initialized` at every start, also in a file
  that was there: an atomic without an initialiser is 0 since C++20, and `meson.build`
  asks for gnu++23. No run of its own shows this; `BatchLimit` says what is left.
* A knob of no test that has a dot in its name is taken for a test's and not passed to
  an executed child (`test_knobs.cpp:83`).

*Accelerators*:

* `thread_count()` is 0 until `sandstone.cpp:987`, so in the program the GPU topology
  is empty at set-up, selection and planning: plans are always the whole plan,
  `--dump-cpu-info` prints nothing, and masks and analyses exist in the parent only if
  `commit_shmem()` has moved the memory (comment at `device/gpu/topology.cpp:591`).
* `FLAT` with cards of several tiles fails at detection although `topology_gpu.h:49`
  documents it. The mask lacks a ':' before a root whose first tile is not selected.
  "All tiles failed exactly the same way" is said although some passed, "only one GPU"
  although others have a bad tile; tiles of a card share their mixin.
* Where Sysman lists all devices of the other interface and then more (a second driver),
  `detect_devices()` fails but returns a set that is not empty, and `device_count` is 0
  (`device/gpu/topology.cpp:323`). A debug build aborts (`sandstone.cpp:328`); another writes
  `device_info[]` of shared memory made for none, and goes on without a device. Both are
  in `GpuDetect`, and one machine of the run is such; `UnitsAreTested` demands no units of it.
* `device_index` equals `gpu_number` without tiles according to `gpu_device.h:53`
  and an assertion at `logging_gpu.cpp:465`; not so for a card after one with tiles.
* The assertion at `device/idxd/topology.cpp:665` is inverted, so a debug build aborts.
  `has_opcode()` and `has_feature()` take a device's id for its index (391-399), which
  is beyond the vector after `--deviceset` or if ids have gaps.

*Event monitors*:

* "Set up for the next iteration (in case there's one)" (`mce_check.cpp:70`), but the new
  baseline is a variable of the child, so a second run reports the errors of the first.
  Only `-fno-fork` does what the comment says.
* "Read every CPU number to create the mapping" (`interrupt_monitor.cpp:50`), but the
  numbers go behind those of the header before, which stay; after a CPU went or came,
  columns are taken for other CPUs'.
* `smi_count.cpp:9` prints differences in the number of SMIs that occurred; the baseline
  is numbered by the program's devices and read by a slice's threads, so from the second
  slice on two CPUs' counts are compared.

*KVM*:

* "try again, resetting the CPU" (`kvm.c:804`), but `continue` reaches the loop's
  condition, which is false with `--quick`: success without a run.
* The workaround every 127 runs makes a new machine without the setup handler, and at
  0 leaks the old one; `IOCTL_OR_RET` in `kvm_generic_run()` returns past the epilogue.
* Another API version than 12 returns `-errno` with `errno` 0 and `kvm_fd` closed: the
  test fails instead of being skipped.
* A payload of more than 1 MB in protected mode passes the check of its size, but
  `reset_vcpu()` wipes its end.

*Log*:

* Of several main threads that skip in init for different reasons only the first is
  printed (comment at `logging.cpp:1641`).
* `logging_report_mismatched_data()` subtracts a total that may be beyond the limit
  (`logging.cpp:1350`), "we'll obey the max_logdata_per_thread limit" notwithstanding.
* `log_yaml()` with an empty map logs twice; the limit on messages drops 'E' there.
* In the key-value format the header of main threads comes twice in the file, always
  with number 0, and never on stdout; TAP at verbosity 0 neither prints nor truncates
  what a child wrote to stderr.
* A record appended after a cut one can be lost, and a child that runs
  `init_per_thread_data()` after the parent logged its timeout erases that message.
* `thread > sApp->thread_count` (`child_debug.cpp:1021`) lets one number too many pass.

## 6. Proofs

Checked by TLAPS, for every value of the constants that meets the `ASSUME`s of
the modules (finite, non-empty sets of slices; test outcomes among
Passed, Failed, Skipped; every thread belongs to exactly one slice; a ratio of threads that is
negative as a difference or at most one as a fraction).

**ChildWait_proofs.** `IInv` adds to the type invariant and to the three
invariants checked: `SpawnInv` (nothing is judged before waiting starts),
`ScanInv` (who is in `ready` has exited, is not reaped, and has no context in
the socket once that was drained: this is what makes `ContextsHaveASlice`
inductive), `ExitInv` (wait statuses), `VerdictInv` (in the first wait an
unreaped child has no result, afterwards it is `TimedOut`, which is what makes a
late SIGKILL harmless), `KillInv` (SIGQUIT and SIGKILL of the parent only reach
children whose result is `TimedOut`) and `SignalInv`. From it follow
`TypeCorrect`, `HandlesCorrect`, `VerdictsCorrect`, `KillsAreTimeouts`,
`ContextsAttributed` and `SeverityMonotone`; and `Refinement`, that every step of
`ChildWait` is a step of `SliceVerdicts` or a stutter under the mapping stated in
`ChildWait` (the fate of a slice is what its wait status says; its verdict is
`result`). The only arithmetic about sets is in the reaping step, where
`children_left` has to stay the cardinality of `handles`.

**TestAttempt_proofs.** `IInv` relates a thread's place to its child's stage
(`StageInv`: threads run only in the stage "threads", those of a child not yet
started are idle), its mark to its callback at every place (`CallbackInv`), and
results of children and the returned verdict to the marks they come from. From it
follow `TypeCorrect`, `CallbackCorrect`, `FailuresDecide` (a failure of any thread
that has started is in the printed result), `FailuresAreReal` (no failure without a
child or a thread that failed in this run) and, as an action property,
`FailuresStay`. They hold for test functions that do anything, the self tests
being some of them.

**TestAttempt_proofs**, about `Selftests`: what the bats suite asks for one machine is
shown for every number of packages, children and threads (`SelftestsEnd`). A test
function comes to one of a few *kinds*, by what it returns, the marks it logs and
the way it ends the child (`MainKind`, `RunKind`). The invariant `SInv` adds to `IInv` a
`Story`: either no child was started, or each child that has ended was ended by a
function of a certain kind, in `test_init()`, in a thread or in `test_cleanup()`, and
the story says what that function left in its result, its mark and the marks of its
threads. The lemma `StartedEnds` concludes from the stories of all children what the
parent prints: one way to die decides, else one failure, else whether anybody ran the
test to its end. `TableIsJustified` shows of every entry of the table that its
functions are of the kinds that lead to what it expects. Neither the marks of the test
before nor the order of children and threads occur in the argument. It needs
`NumbersAssumption`: the threads of a child are numbered from 0, so that the test
functions that act in "the second thread, or the only one" act in some thread of each
child. `SelftestFailuresDecide` is `FailuresDecide` for this specification, whose children
can also stay unstarted.

**RunEnvironment_proofs**, about `TestRun`. `IInv` adds `CountInv` (what the counts
of failures and skips, the last result and the place in the loop say of each other
and of `history`) and `LimitInv` (a limited total stays non-negative, so that it is
never taken for "no limit"). From it follow `TypeCorrect`, `BudgetKept` and
`ExitCodeCorrect`. `ResultInv` says what `log`, the bits of `per_thread_failures`
and the two counts of the report have to do with each other while a test is
retried: there is one attempt that failed first, everything behind it is a retry,
the total went down by one with each of them, and those threads have a bit set that
failed in one of the first `MaxRetestCount` attempts (which bit says nothing of the
attempt; `MarkUpType` shows that it is one of the entry's for any number of threads). From it follow `RetriesCounted` (the number of
retries in closed form) and `FailuresLocalised` (what the report and the topology
analysis are made of). Both are carried over to `RunEnvironment` as
`RetriesOfEveryRun` and `LocalisedInEveryRun`.

**RunEnvironment_proofs**, about `RunEnvironment`. Each step of the environment is a
step of `TestRun` (which keeps `IInv` and `ResultInv`), the set-up, or the end of the
program at once, after which the exit code is none that `TestRun` knows: hence `EInv`
has `IInv` only for runs that were not cut short. `ExitCodeOfEveryRun` is about the
specification that the run `test_run` checks, for every environment;
`BudgetOfEveryRun` holds of runs that were cut short too. Beside `IInv` there are
`EngineInv` (the parent's engine is one that a child makes again from its seed),
`SeedInv` (the seeds used are behind the engine, except that of a failure that may
still be retried) and `ConditionInv` (one condition per attempt; while there may be
retries, the machine and the engine are those of the first failure). From these
follow `RetriesAreRepetitions`, the part of `AttemptsRepeatAndVary` that
`docs/writing_tests.md` promises, and `FracturesUseFreshSeeds`. The first excepts, as the
property does, the seeds of a `test_init()` that draws in the parent itself (`InProcess`).
The second holds there too: `CallsFacts` shows that any sequence of calls of the random
functions moves the engine on, if at all, by induction on the number of calls. `FrequencyInv`
adds that the manager counts the attempts of the test and that the `k`-th of them, up to the
first failure, runs at the `k`-th level. That the levels are as many as the manager thinks,
begin with the highest and all differ is shown of `populate_frequency_levels()` for any
range: sorting permutes (`DescendingFacts`), the midpoints of levels `2 * gap` apart are new
levels `gap` apart (`MidpointFacts`), and four rounds of it leave room because no level is
counted without its 100 MHz (`PopulateFacts`). So follows `FrequenciesVaryAlways`, and with the
other two the whole property, `AttemptsRepeatAndVaryAlways`.
`MachineRestored` rests on `MachineInv`:
from the set-up to the end, whatever frequencies are in force, only the contents of
the files that are written differ from the machine that was found, and the manager
has saved what they were. Restoring writes that back, so what the levels in between
were does not matter. Of the machine it assumes `IsMachine` (every package has an
uncore range, every CPU a governor and a speed) and, as the property says,
`Usable`.

**SlicingAndLogging_proofs**, about `Slicing`: all of its properties. `PlanInv` says for each place of the
nested loops how far every plan has come (`Filled`: its ranges are in order and
cover exactly the devices below the cursor or the end of the enclosing loop), on
which boundary the cursor is, and by how many ranges the plans may differ in
length (`Lens`, from which `MainDataFits` follows). `CountingInv` does it for the
threads: the offset within a plan never passes the devices counted so far, which
bounds `thread_count` by `device_count`. `Bounded` needs that the size of a slice,
a quotient rounded up of a quotient rounded up, does not exceed the limit
(`SliceSizeBound`).

About `Logging`: `WindowHoldsDifference`. `WindowContains` is the arithmetic, for all sizes,
offsets and totals, those beyond the limit included. The rest says that nothing comes
between a mismatch and its data: `LogInv` has that every mismatch in a memory file is
followed by data whose window is right (`Windows`), which appending keeps (`AppendWindows`)
as long as what is appended is complete in itself. That is so of every call, of a child that
dies within one, of the parent's message for a thread that is stuck, and of the files
emptied after the run.

**BarrierReschedule_proofs.** `GroupInv` holds of each group by itself. `Counts` says
what `expected` and `pending` of the barrier are between its steps too, when a
thread runs the completion; `Sizes` that no member erases twice; `Exclusive` that
whoever runs `on_completion()` has all others waiting or gone; `OwnIds` that a vector
never holds the id of another group's thread. As long as nobody has left, the
entries are in the slots of their threads (`EntriesInPlace`), and what is in store
and what the threads are pinned to are permutations of the group's devices
(`StorePermuted`, `CpusPermuted`): the shift that `on_completion()` makes is only a
permutation if all the members have filled in theirs, which the barrier's count
guarantees. From it follow `CompletionAlone`, `CountsAreExact`, `PairsKeepTheirDevices`
and `TypeCorrect`, for any number of devices and of calls.
For `Reschedule`, which the run checks, `RInv` adds `QueueInv`: the queue is an order of
all devices with a place in it, and those before the place have been handed out once
more than the others; when it is shuffled all are equal, so a new order disturbs
nothing. From it follow `RoundsStayFair`, `CompletionAloneAlways` and
`PairsKeepTheirDevicesAlways`.

**CrashDebugAndProgram_proofs**, about `CrashDebug`: `SliceInv` of each child: one thread gets past
`in_crash_handler`; until its context is sent the child's state stays "failed"; the
parent knows of a child only after its context was sent, and gets it once; and until
the parent stores "debugged", nobody of the child leaves the loop. It follows
that none dies undebugged (`NoneDiesUndebugged`), however many threads crash at
once and however they overtake each other. It is the half that holds; the wake-up
that a second crash loses is a finding.

About `Program`: `ServiceInv` relates the timestamps to the history of starts that they
stand for. Every wait of a process follows a start of its own, so between the `j`-th
newest timestamp and now it has made at most `j` starts, or one more while the wait of
the last is still to come (`Unwaited`). Hence the timestamp is no older than the start
with that number (`StampsFollowStarts`). A wait ends with the oldest timestamp as old
as a batch takes (`Waits`), whatever its random part; so is then the start of that
number (`BatchIsOver`), and it stays so over tests that are skipped. A new process finds all
timestamps old and knows of no start; what those before it may have started within the
time of a batch is a batch each (`EarlierAreOver`). What `parse_cmdline()` makes of the
command line is left opaque: the invariant is about whichever lines ask for the service.
`NoMoreThanABatch` (the action property `BatchLimit`) follows for every size of a batch,
every delay and any number of restarts: fewer than a batch of the process's own, fewer
than a batch for each process of all.

**Kvm_proofs.** `IInv` says what is open at each place (`CtxIsLive`, `ReleaseInv`), that
a machine is prepared where the setup handler's work is needed (`PreparedInv`), what
a run may return (`ResultInv`) and what the verdict is then (`VerdictInv`).
`CtxStaysLive` and `SoundHostsReleaseAll` hold of any tests, runs and
recyclings. `VerdictsAreDeserved` assumes `ExpectationsAreRight`: a test expected to
pass has a payload that fits, survives the reset and ends with HLT and 0; a test
expected to fail lacks one of them. `SelftestsDeserveTheirVerdicts` shows that of the
table of self tests.

**ForkFd_proofs.** The table of children is free of locks, and the proof says why: who
has made an entry busy is alone with it, be it the caller that fills it or the
handler that empties it (`HolderInv`); an entry that is neither free nor busy belongs
to a child that nobody has reaped and whose pipe is empty (`EntryInv`); a child that
is forked and not let go yet is blocked and its caller's only (`BlockedInv`); the
children that are not reaped have different pids (`PidInv`), so that what a
handler reaps by number is the child of its entry, even if the kernel gives numbers
again; only the main thread probes for `CLONE_PIDFD`, one child at a time
(`ProbeInv`). From it follow `PayloadsOwn` (a descriptor tells of its own child, once)
and `OneTest` (a call starts one child that runs the test) for any number of
threads, children, entries and pids, with `Reuse` or without.
What `busyCount` is remains to be counted: it decides where callers look, not
whose an entry is.

Only model-checked:

* all liveness (`WaitTerminates`, `LoneCrashEndsChild`, `WaitersAreReleased`,
  `RunTerminates`, `EveryEndIsNotified`, `RunsGoOnAndEnd`): with `ENABLED` out of this
  prover's reach;
* most of `Topology`, `Devices`, `Accelerators` and `Gpu` (functions of their input, most of
  them folds, compared with a reference definition), and the other properties of the log,
  which are about what folds over all its lines yield;
* `LastOptionDecides` and `IterationRunsSelection`;
* `MonitorsTell` and `KnobsReachTests`: sums over counters, filters and searches in
  sequences.

## 7. Plan

Done: waiting and its refinement, one run, the run loop, the crash handshake, the
barrier, slicing; then spawning, the program with its options and its service, the
topology, the self tests; then the log, KVM, the accelerators, random engines and
frequencies; then the queue, the knobs and the event monitors, and the proofs about
the barrier, the queue, the handshake, KVM, spawning, retries, the machine's frequencies and seeds,
the table of self tests, the service's batches and the data logged for a mismatch. What
would come next:

1. **Rescheduling**: the failing device that stays in use (the hazard at
   `topology.cpp:215`); the groups kept from test to test in the no-fork mode.
2. **Composition** of `Selftests` and `ChildWait`: the ends of children as the
   parent produces them, instead of `TimeOut`.
3. **Proofs**: the `busyCount` of `ForkFd`.

## 8. Not modelled

* `TestAttempt`: tests run in the parent (`no_fork`, `in_parent`),
  `--ud-on-failure`, the `no_output` format (which skips the callback), the inner
  loop and its time limit.
* `Selftests`: tests that run wholly in the parent, the sequential test, the test that looks for the lowest CPU after rescheduling, SIGTRAP in debug
  builds, memory that cannot be mapped in the `cause_*` functions.
* `ChildWait`: SIGHUP and SIGPIPE (like SIGTERM), a `poll()` that fails
  otherwise, the orphans of a parent that dies.
* `ForkFd`: `spawnfd()`, `vforkfd()`, the destructor, compare-and-exchange that fails
  spuriously (the loops around it retry).
* `RunEnvironment`: the numbers an engine gives, the random part of the delay between
  tests (one more draw), a file that has the name of a seed, what the kernel does with
  a `userspace` governor under load.
* `Options`: `getopt_long()` itself (abbreviations, order of operands), builds with a
  restricted command line, "disable" for the temperature threshold, the debug
  format "none", options of Windows.
* `Program`: the exec mode's own `main()`, the monitors that other tests would be.
* `CrashDebug`: what is dumped, `debug_hung_child()`.
* `Topology`: tiles and die groups of CPUID leaf 0x1f (ignored by the code), caches,
  PPIN, microcode, temperatures, the old format of the mock (which leaves the NUMA
  node at -1), the analysis by package. The code does not fall back from leaf 0x1f
  to 0x0b, and takes neighbours in different modules with one `core_id` for one
  core; machines of that kind are not in the instances. `--deviceset` "odd", "even"
  and "type=" work only alone, and a first character that is not known is ignored.
* `Gpu`, `Idxd`: properties of GPUs and their temperatures, the state dumped for a GPU that
  failed, what Level Zero and the IDXD driver do themselves.
* `Logging`: the text of lines, escaping and indentation, timestamps, the header of the
  program, the progress bar, syslog, `--verbosity` below 0, builds without a log.
* `Kvm`: contents of tables and of the CPUID and XSAVE data.
* `BarrierReschedule`, `Reschedule`: several threads per device.
* `EventMonitors`: the last CPU of the header going offline (the code then writes beyond
  its vector), the split-lock detection. A test that skips itself is one that is
  not selected.
* `Knobs`: values that are not finite, the text of the log's knobs.
* Crash dumps, the monitor of temperature, the floating-point formats and
  data tables, the tests' own computations, Windows, Darwin and FreeBSD: sequential,
  I/O, numerical, or another platform.

## 9. Running

    tlc -workers 2 -config MCChildWait.cfg MCChildWait
    tlapm ChildWait_proofs.tla

and likewise for the other `MC*.cfg` (see `PROJECT.json` for the module of each)
and the other `*_proofs` modules.
