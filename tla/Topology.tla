------------------------------ MODULE Topology ------------------------------
(***************************************************************************)
(* How the framework finds out what its logical processors are: from       *)
(* CPUID, from the operating system or from a mock, with the NUMA nodes;   *)
(* how device_info[] is sorted, what --deviceset and --cpus leave of it,   *)
(* and how test failures are localised in it.                              *)
(***************************************************************************)
EXTENDS Integers, Sequences, FiniteSets
LOCAL INSTANCE SequencesExt
LOCAL INSTANCE FiniteSetsExt
LOCAL INSTANCE TLC

CONSTANTS
  Machines,     \* what a machine tells of its processors, and what they are
  Devicesets,   \* the --deviceset options of a command line, in order
  CpuLimits     \* values of --cpus

VARIABLES
  hardware,      \* the machine the program runs on
  deviceset,    \* --deviceset options
  applied,      \* how many of them have been applied
  max_cpus,     \* --cpus
  device_info,  \* what is known of each processor, in the order of the array
  nodes,        \* directories of /sys/devices/system/node not read yet
  stage         \* where the initialisation is

options  == <<deviceset, max_cpus>>
topology == <<hardware, options, applied, device_info, nodes, stage>>

core_type_unknown     == 0
core_type_performance == 1
core_type_efficiency  == 2
-----------------------------------------------------------------------------
\* Every ID is -1 until something is known about it.
Unknown(lp) ==
  [package_id |-> -1, numa_id |-> -1, native_core_type |-> core_type_unknown, die_id |-> -1,
   module_id |-> -1, core_id |-> -1, thread_id |-> -1, cpu_number |-> lp]

EnabledCpu(i) ==
  CHOOSE lp \in hardware.enabled : Cardinality({l \in hardware.enabled : l < lp}) = i - 1

\* detect_devices() and the beginning of detect(): one entry for each processor
\* the program may run on, by increasing number.
TopologyInit ==
  /\ hardware \in Machines
  /\ deviceset \in Devicesets
  /\ max_cpus \in CpuLimits
  /\ applied = 0
  /\ device_info = [i \in 1..Cardinality(hardware.enabled) |-> Unknown(EnabledCpu(i))]
  /\ nodes = hardware.nodes
  /\ stage = "detect"

-----------------------------------------------------------------------------
(***************************************************************************)
(* CPUID.  A level of leaf 0x1f or 0x0b names a domain and by how many     *)
(* bits the APIC ID has to be shifted to get the ID of the next one.       *)
(***************************************************************************)
Width(domain) ==
  FoldLeft(LAMBDA w, l : IF l.domain = domain THEN l.shift ELSE w, 0, hardware.levels)

\* "the package shift is implied by the largest shift"; tiles and groups of dies
\* count for it, but are no domains of their own.
PackageWidth == FoldLeft(LAMBDA w, l : IF l.shift > w THEN l.shift ELSE w, 0, hardware.levels)

\* setup_cpuid_detection(): is there information enough?
HasCpuid == Width("Logical") # 0 /\ Width("Core") # 0 /\ PackageWidth # 0

Extract(apicid, start, end) == (apicid % 2^end) \div 2^start

BitWidth(n) == CHOOSE w \in 0..n : 2^w > n /\ (w = 0 \/ 2^(w - 1) <= n)

\* Without a module domain a module is what shares an L2 cache.
ModuleStart(lp) ==
  IF Width("Module") # 0             THEN Width("Core")
  ELSE IF hardware.l2_sharing[lp] # 0 THEN BitWidth(hardware.l2_sharing[lp] - 1)
  ELSE Width("Logical")

DieStart == IF Width("Module") # 0 THEN Width("Module") ELSE Width("Core")

\* detect_topology_via_cpuid() and detect_hybrid_type_via_cpuid()
ViaCpuid(info) ==
  LET lp == info.cpu_number
      id == hardware.apicid[lp]
  IN [info EXCEPT !.package_id = id \div 2^PackageWidth,
                  !.thread_id = Extract(id, 0, Width("Logical")),
                  !.core_id = Extract(id, Width("Logical"), PackageWidth),
                  !.module_id = Extract(id, ModuleStart(lp), PackageWidth),
                  !.die_id = IF Width("Die") # 0 THEN Extract(id, DieStart, PackageWidth) ELSE -1,
                  !.native_core_type = hardware.hybrid[lp]]

-----------------------------------------------------------------------------
(***************************************************************************)
(* Linux.  -1 is a file that is missing or says so; what comes first is    *)
(* read even if a later file is missing.                                   *)
(***************************************************************************)
\* The position of a processor in topology/thread_siblings_list.
Sibling(lp, siblings) == (CHOOSE i \in DOMAIN siblings : siblings[i] = lp) - 1

\* detect_topology_via_os()
ViaOs(info) ==
  LET lp == info.cpu_number
      os == hardware.sysfs[lp]
      module == IF os.cluster_id < 0 THEN os.core_id ELSE os.cluster_id
  IN IF os.package_id < 0 THEN info
     ELSE IF os.core_id < 0 THEN [info EXCEPT !.package_id = os.package_id]
     ELSE [info EXCEPT !.package_id = os.package_id, !.core_id = os.core_id,
                       !.module_id = module, !.die_id = os.die_id,
                       !.thread_id = IF os.siblings = <<>> THEN -1 ELSE Sibling(lp, os.siblings)]

\* detect_via_os() after CPUID asks only for what is still missing.
DetectViaCpuid ==
  /\ stage = "detect" /\ hardware.mock = <<>> /\ HasCpuid
  /\ device_info' = [i \in DOMAIN device_info |-> ViaCpuid(device_info[i])]
  /\ stage' = "numa"
  /\ UNCHANGED <<hardware, options, applied, nodes>>

DetectViaOs ==
  /\ stage = "detect" /\ hardware.mock = <<>> /\ ~HasCpuid
  /\ device_info' = [i \in DOMAIN device_info |-> ViaOs(device_info[i])]
  /\ stage' = "numa"
  /\ UNCHANGED <<hardware, options, applied, nodes>>

-----------------------------------------------------------------------------
(***************************************************************************)
(* NUMA nodes: each has a list of ranges of processors.                    *)
(***************************************************************************)
\* The first entry, from "from" on, with a number that is not below start.
ScanForward(info, from, start) ==
  Min({i \in from..Len(info) : info[i].cpu_number >= start} \cup {Len(info) + 1})

\* The array index is tried as the processor's number first.
FindStart(info, from, start) ==
  IF start < Len(info) /\ info[start + 1].cpu_number = start THEN start + 1
  ELSE ScanForward(info, from, start)

\* Faulty: the last processor of a range is left out.
MarkRangeExclusive(id, acc, range) ==
  LET first == FindStart(acc.info, acc.cpu, range.start)
      InRange(i) == i >= first /\ acc.info[i].cpu_number < range.stop
  IN [info |-> [i \in DOMAIN acc.info |->
                  IF InRange(i) THEN [acc.info[i] EXCEPT !.numa_id = id] ELSE acc.info[i]],
      cpu  |-> first]

MarkRange(id, acc, range) ==
  IF acc.cpu > Len(acc.info) THEN acc ELSE
  LET first == FindStart(acc.info, acc.cpu, range.start)
      InRange(i) == i >= first /\ acc.info[i].cpu_number <= range.stop
      last == Max({i \in DOMAIN acc.info : InRange(i)} \cup {first - 1})
  IN [info |-> [i \in DOMAIN acc.info |->
                  IF InRange(i) THEN [acc.info[i] EXCEPT !.numa_id = id] ELSE acc.info[i]],
      cpu  |-> last + 1]

\* detect_numa(): one node, in whatever order the directory has them.
DetectNode ==
  /\ stage = "numa"
  /\ \E n \in nodes :
       /\ nodes' = nodes \ {n}
       /\ device_info' = FoldLeft(LAMBDA acc, range : MarkRange(n.id, acc, range),
                                  [info |-> device_info, cpu |-> 1], n.cpulist).info
  /\ UNCHANGED <<hardware, options, applied, stage>>

-----------------------------------------------------------------------------
\* create_mock_topology(): -1 is a field that is not given.  Debug builds only;
\* the suite of bats uses it.  There is no detection of nodes.
Mocked(entry, lp) ==
  [entry EXCEPT !.module_id = IF @ < 0 THEN entry.core_id ELSE @,
                !.numa_id = IF @ < 0 THEN entry.package_id ELSE @] @@ [cpu_number |-> lp]

CreateMock ==
  /\ stage = "detect" /\ hardware.mock # <<>>
  /\ LET count == Min({Len(hardware.mock), Len(device_info)})
     IN device_info' = [i \in 1..count |-> Mocked(hardware.mock[i], device_info[i].cpu_number)]
  /\ stage' = "sort"
  /\ UNCHANGED <<hardware, options, applied, nodes>>

-----------------------------------------------------------------------------
\* The fields from the most to the least significant, as the unsigned number the
\* comparison makes of them: -1 comes last.
SortKey(info) ==
  LET Unsigned16(id) == id % 2^16
  IN <<Unsigned16(info.package_id), Unsigned16(info.numa_id), info.native_core_type,
       Unsigned16(info.die_id), Unsigned16(info.module_id), Unsigned16(info.core_id),
       info.thread_id % 2^8, info.cpu_number>>

cpu_compare(a, b) ==
  \E k \in DOMAIN SortKey(a) :
    /\ SortKey(a)[k] < SortKey(b)[k]
    /\ \A j \in 1..(k - 1) : SortKey(a)[j] = SortKey(b)[j]

\* TopologyDetector::sort()
SortDevices ==
  /\ stage = "sort" \/ (stage = "numa" /\ nodes = {})
  /\ device_info' = SortSeq(device_info, cpu_compare)
  /\ stage' = "deviceset"
  /\ UNCHANGED <<hardware, options, applied, nodes>>

-----------------------------------------------------------------------------
(***************************************************************************)
(* --deviceset.  A parameter adds processors to an empty set, or ("!")     *)
(* removes them from the current one.  An argument is the number of a      *)
(* processor, a place such as p1c0 (-1 where nothing is asked), or, if it  *)
(* is the only one, odd, even or type=.                                    *)
(***************************************************************************)
Matches(arg, info) ==
  CASE arg.kind = "number" -> info.cpu_number = arg.number
    [] arg.kind = "place"  -> /\ arg.package \in {-1, info.package_id}
                              /\ arg.core \in {-1, info.core_id}
                              /\ arg.thread \in {-1, info.thread_id}
    [] arg.kind = "parity" -> info.cpu_number % 2 = arg.remainder
    [] arg.kind = "type"   -> info.native_core_type = arg.type

\* std::lower_bound() and insert()
InsertSorted(new, info) ==
  LET at == Min({i \in DOMAIN new : ~cpu_compare(new[i], info)} \cup {Len(new) + 1})
  IN SubSeq(new, 1, at - 1) \o <<info>> \o SubSeq(new, at, Len(new))

\* Faulty: a processor that two arguments name is added twice.
ApplyTwice(param, acc, info) ==
  IF param.remove
  THEN [new |-> SelectSeq(acc.new, LAMBDA i : i # info), set |-> acc.set \cup {info.cpu_number}]
  ELSE [new |-> InsertSorted(acc.new, info), set |-> acc.set \cup {info.cpu_number}]

\* apply_to_set()
ApplyToSet(param, acc, info) ==
  IF info.cpu_number \in acc.set THEN acc
  ELSE [new |-> IF param.remove THEN SelectSeq(acc.new, LAMBDA i : i # info)
                ELSE InsertSorted(acc.new, info),
        set |-> acc.set \cup {info.cpu_number}]

\* All processors that match one argument; only odd, even and type= may match none.
ApplyArg(param, acc, arg) ==
  FoldLeft(LAMBDA a, info : ApplyToSet(param, a, info), acc,
           SelectSeq(device_info, LAMBDA info : Matches(arg, info)))

Applied(param) ==
  FoldLeft(LAMBDA acc, arg : ApplyArg(param, acc, arg),
           [new |-> IF param.remove THEN device_info ELSE <<>>, set |-> {}], param.args)

\* exit(EX_USAGE)
UsageError(param) ==
  \/ \E arg \in Range(param.args) :
       /\ arg.kind \in {"number", "place"}
       /\ \A i \in DOMAIN device_info : ~Matches(arg, device_info[i])
  \/ Len(param.args) > 1 /\ \E arg \in Range(param.args) : arg.kind \in {"parity", "type"}
  \/ Applied(param).set = {}
  \/ Applied(param).new = <<>>

\* apply_deviceset_param() and update_topology()
ApplyDeviceset ==
  /\ stage = "deviceset" /\ applied < Len(deviceset)
  /\ LET param == deviceset[applied + 1]
     IN IF UsageError(param) THEN stage' = "usage" /\ UNCHANGED <<applied, device_info>>
        ELSE /\ device_info' = Applied(param).new
             /\ applied' = applied + 1
             /\ UNCHANGED stage
  /\ UNCHANGED <<hardware, options, nodes>>

\* --cpus: restrict_topology({0, n})
RestrictTopology ==
  /\ stage = "deviceset" /\ applied = Len(deviceset)
  /\ device_info' = SubSeq(device_info, 1, Min({max_cpus, Len(device_info)}))
  /\ stage' = "restricted"
  /\ UNCHANGED <<hardware, options, applied, nodes>>

TopologyStep ==
  \/ DetectViaCpuid \/ DetectViaOs \/ DetectNode \/ CreateMock
  \/ SortDevices \/ ApplyDeviceset \/ RestrictTopology

-----------------------------------------------------------------------------
(***************************************************************************)
(* What is made of device_info[]: build_topology(), the failure mask and   *)
(* the analysis of test failures.                                          *)
(***************************************************************************)
\* All IDs that are needed could be found.
IsValid ==
  \A i \in DOMAIN device_info :
    LET info == device_info[i]
    IN info.package_id >= 0 /\ info.core_id >= 0 /\ info.thread_id >= 0

\* What differs from the entry before, the most significant that does: 1 is the
\* core, 2 the module, 3 what makes a group, 4 the package.
Ids == <<{"core_id"}, {"module_id"}, {"numa_id", "die_id", "native_core_type"}, {"package_id"}>>
ChangeBetween(a, b) == Max({0} \cup {level \in DOMAIN Ids : \E id \in Ids[level] : a[id] # b[id]})

\* Faulty: packages do not end a core.
StartsNewCore(a, b) == a.core_id # b.core_id

\* populate_core_group() for the package.
StartsCore(a, b) == a.package_id # b.package_id \/ a.core_id # b.core_id

\* The entries that begin a core, and those that belong to it.
CoreStarts == {i \in DOMAIN device_info :
                 i = 1 \/ StartsCore(device_info[i - 1], device_info[i])}
ThreadsOfCore(c) == {i \in DOMAIN device_info : c <= i /\ \A j \in (c + 1)..i : j \notin CoreStarts}

\* The character of a core in build_failure_mask(): which of its threads failed,
\* "X" if that is all of them, "." if none.
FailureMask(has_failed) ==
  [c \in CoreStarts |-> {device_info[i].thread_id : i \in ThreadsOfCore(c) \cap has_failed}]

\* analyze_test_failures_for_topology(): what is said of a core.
CoreVerdict(pattern, c) ==
  LET patterns == {pattern[i - 1] : i \in ThreadsOfCore(c)}
  IN CASE patterns = {0} -> "passed"
       [] patterns # {0} /\ Cardinality(ThreadsOfCore(c)) = 1 -> "only thread"
       [] Cardinality(ThreadsOfCore(c)) > 1 /\ Cardinality(patterns) = 1 /\ 0 \notin patterns ->
            "all threads equally"
       [] Cardinality(patterns) > 1 /\ 0 \notin patterns -> "all threads"
       [] Cardinality(patterns) > 1 /\ 0 \in patterns    -> "some threads"
=============================================================================
