------------------------------ MODULE Slicing ------------------------------
(***************************************************************************)
(* How the devices of a machine are divided among the children of a test:  *)
(* build_topology() of the CPU build, the plans of slice_plan_init() and   *)
(* slice_plan_init_for_device(), the threads of each slice, the size of    *)
(* the shared memory, and the plan a test uses.  device_info[] is sorted,  *)
(* so all that matters of it is where something changes between neighbours.*)
(***************************************************************************)
EXTENDS Integers, Sequences, FiniteSets

CONSTANTS
  MaxDevices,               \* bound on device_count
  MinimumCpusPerSocket,
  DefaultMaxCoresPerSlice,
  MaxCores,                 \* values of --max-cores-per-slice
  ThreadRatios              \* values of --thread-ratio: deltas -N, fractions up to 1

ASSUME BoundAssumption == MaxDevices \in Nat \ {0}
ASSUME DefaultAssumption ==
  MinimumCpusPerSocket \in Nat /\ DefaultMaxCoresPerSlice \in Nat \ {0}
ASSUME OptionAssumption == MaxCores \subseteq Nat \cup {-1}
ASSUME RatioAssumption ==
  \A r \in ThreadRatios :
    \/ r \in [kind : {"delta"}, n : Int] /\ r.n < 0
    \/ r \in [kind : {"ratio"}, num : Nat, den : Nat \ {0}] /\ r.num <= r.den

\* What differs between device_info[d - 1] and device_info[d]: the thread only,
\* or also the core, the module, the group (die, NUMA node, core type), the
\* package.
Level == 0..4
Core    == 1
Module  == 2
Group   == 3
Package == 4

\* SlicePlans::Type
IsolateSockets   == 0
IsolateCoreGroup == 1
Heuristic        == 2
Type             == 0..2
FullSystem       == -1

VARIABLES
  device_count,
  change,               \* [1..device_count-1 -> Level]
  valid,                \* topology.isValid(): all ids could be detected
  max_cores_per_slice,
  ratio_type,
  plans,                \* [Type -> Seq(Ranges)]: the device ranges
  threads,              \* [Type -> Seq(Ranges)]: the thread ranges
  at,                   \* where the initialisation is
  begin,                \* first device in no slice of the plan being made
  pkg_end, end,         \* the ends of the package and of the group
  slice_size,
  type,                 \* the plan whose threads are being counted
  thread_offset,
  thread_count,         \* max_thread_count, then sApp->thread_count
  main_thread_count,    \* room for main thread data in shared memory
  children              \* the device and thread range of each child of a test

machine  == <<device_count, change, valid, ratio_type>>
cursor   == <<begin, pkg_end, end, slice_size>>
counting == <<threads, type, thread_offset, thread_count>>
vars     == <<machine, max_cores_per_slice, plans, at, cursor, counting,
              main_thread_count, children>>

\* DeviceRange, ThreadRange
Ranges  == [start : Nat, count : Nat]
Upto(r) == r.start + r.count

Span(a, b) == [start |-> a, count |-> b - a]
-----------------------------------------------------------------------------
\* No plan has been made.
PlanInit ==
  /\ max_cores_per_slice \in MaxCores
  /\ ratio_type \in ThreadRatios
  /\ plans = [t \in Type |-> <<>>]
  /\ threads = [t \in Type |-> <<>>]
  /\ at = "start"
  /\ begin = 0
  /\ pkg_end = 0
  /\ end = 0
  /\ slice_size = 1
  /\ type = IsolateSockets
  /\ thread_offset = 0
  /\ thread_count = 1
  /\ main_thread_count = 0
  /\ children = <<>>

Init ==
  /\ device_count \in 1..MaxDevices
  /\ change \in [1..(device_count - 1) -> Level]
  /\ valid \in BOOLEAN
  /\ PlanInit

\* build_topology(): where the cores, groups and packages begin.
Starts(level) == {0} \cup {d \in 1..(device_count - 1) : change[d] >= level}

\* e is the first boundary of this level after d.
IsNext(e, d, level) ==
  /\ e \in Starts(level) \cup {device_count}
  /\ e > d
  /\ \A f \in Starts(level) : f > d => e <= f

Cores(a, b) == Cardinality({d \in Starts(Core) : a <= d /\ d < b})

CeilDiv(a, b) == (a + b - 1) \div b
-----------------------------------------------------------------------------
\* push_to(): from the first to the last thread of some cores.
PushTo(t, a, b) == plans' = [plans EXCEPT ![t] = Append(@, Span(a, b))]

\* plans.fill()
PushToAll(a, b) == plans' = [t \in Type |-> Append(plans[t], Span(a, b))]

\* average_cpus_per_socket < MinimumCpusPerSocket
TooSmall == device_count \div Cardinality(Starts(Package)) < MinimumCpusPerSocket

\* One slice: --no-slicing or no forking (as -1), or neither a topology nor an
\* option.
UseFullSystem ==
  /\ at = "start"
  /\ max_cores_per_slice < 0 \/ (max_cores_per_slice = 0 /\ ~valid)
  /\ PushToAll(0, device_count)
  /\ at' = "threads"
  /\ UNCHANGED <<machine, max_cores_per_slice, cursor, counting,
                 main_thread_count, children>>

UseTopology ==
  /\ at = "start"
  /\ valid
  /\ max_cores_per_slice > 0 \/ (max_cores_per_slice = 0 /\ ~TooSmall)
  /\ max_cores_per_slice' =
       IF max_cores_per_slice = 0 THEN DefaultMaxCoresPerSlice ELSE max_cores_per_slice
  /\ at' = "package"
  /\ UNCHANGED <<machine, plans, cursor, counting, main_thread_count, children>>

\* "dumb plan": slices of devices, whatever they are.
UseDevices ==
  /\ at = "start"
  /\ IF valid THEN max_cores_per_slice = 0 /\ TooSmall ELSE max_cores_per_slice > 0
  /\ max_cores_per_slice' =
       IF valid THEN DefaultMaxCoresPerSlice ELSE max_cores_per_slice
  /\ slice_size' = CeilDiv(device_count, CeilDiv(device_count, max_cores_per_slice'))
  /\ at' = "devices"
  /\ UNCHANGED <<machine, plans, begin, pkg_end, end, counting,
                 main_thread_count, children>>

PushDevices ==
  /\ at = "devices"
  /\ LET e == IF begin < device_count - slice_size THEN begin + slice_size
              ELSE device_count
     IN /\ PushToAll(begin, e)
        /\ begin' = e
        /\ at' = IF e = device_count THEN "threads" ELSE "devices"
  /\ UNCHANGED <<machine, max_cores_per_slice, pkg_end, end, slice_size, counting,
                 main_thread_count, children>>

PushPackage ==
  /\ at = "package" /\ begin < device_count
  /\ \E e \in 1..device_count :
       /\ IsNext(e, begin, Package)
       /\ PushTo(IsolateSockets, begin, e)
       /\ pkg_end' = e
  /\ at' = "group"
  /\ UNCHANGED <<machine, max_cores_per_slice, begin, end, slice_size, counting,
                 main_thread_count, children>>

SliceSize(n) == CeilDiv(n, CeilDiv(n, max_cores_per_slice))

PushGroup ==
  /\ at = "group"
  /\ \E e \in 1..device_count :
       /\ IsNext(e, begin, Group)
       /\ PushTo(IsolateCoreGroup, begin, e)
       /\ end' = e
       /\ slice_size' = SliceSize(Cores(begin, e))
  /\ at' = "split"
  /\ UNCHANGED <<machine, max_cores_per_slice, begin, pkg_end, counting,
                 main_thread_count, children>>

\* e: slice_size cores on, or as many more as belong to the same module, or all
\* that are left.
IsCut(e) ==
  /\ e \in Starts(Module) \cup {end}
  /\ begin < e /\ e <= end
  /\ e = end \/ Cores(begin, e) >= slice_size
  /\ \A f \in Starts(Module) : begin < f /\ f < e => Cores(begin, f) < slice_size

PushSlice ==
  /\ at = "split"
  /\ \E e \in 1..device_count :
       /\ IsCut(e)
       /\ PushTo(Heuristic, begin, e)
       /\ begin' = e
       /\ at' = CASE e # end                  -> "split"
                  [] e = end /\ e # pkg_end   -> "group"
                  [] e = end /\ e = pkg_end   -> "package"
  /\ UNCHANGED <<machine, max_cores_per_slice, pkg_end, end, slice_size, counting,
                 main_thread_count, children>>

EndPlans ==
  /\ at = "package" /\ begin = device_count
  /\ at' = "threads"
  /\ UNCHANGED <<machine, max_cores_per_slice, plans, cursor, counting,
                 main_thread_count, children>>

-----------------------------------------------------------------------------
\* slice_plan_init_for_threads()

RawCount(n) == IF ratio_type.kind = "delta" THEN n + ratio_type.n
               ELSE (n * ratio_type.num) \div ratio_type.den

ThreadsFor(n) == IF RawCount(n) < 1 THEN 1 ELSE RawCount(n)

\* Faulty: the offset stays behind the threads.
AdvanceByOne(n) == 1

\* thread_offset += thread_range.thread_count
Advance(n) == ThreadsFor(n)

PushThreads ==
  /\ at = "threads"
  /\ Len(threads[type]) < Len(plans[type])
  /\ LET n == plans[type][Len(threads[type]) + 1].count
     IN /\ threads' = [threads EXCEPT ![type] =
                         Append(@, [start |-> thread_offset, count |-> ThreadsFor(n)])]
        /\ thread_offset' = thread_offset + Advance(n)
  /\ UNCHANGED <<machine, max_cores_per_slice, plans, at, cursor, type, thread_count,
                 main_thread_count, children>>

\* int thread_offset = 0, for each plan.
ResetOffset == 0

EndThreads ==
  /\ at = "threads"
  /\ Len(threads[type]) = Len(plans[type])
  /\ thread_count' = IF thread_offset > thread_count THEN thread_offset ELSE thread_count
  /\ thread_offset' = ResetOffset
  /\ IF type = Heuristic THEN at' = "commit" /\ UNCHANGED type
                         ELSE type' = type + 1 /\ UNCHANGED at
  /\ UNCHANGED <<machine, max_cores_per_slice, plans, cursor, threads,
                 main_thread_count, children>>

\* plans.end()[-1].size()
MostSlices == Len(plans[Heuristic])

CommitShmem ==
  /\ at = "commit"
  /\ main_thread_count' = MostSlices
  /\ at' = "ready"
  /\ UNCHANGED <<machine, max_cores_per_slice, plans, cursor, counting, children>>

\* slices_for_test(): the ranges of main_thread_data(i) and the number of
\* children, by the test's flags.
SlicesForTest(t) ==
  /\ at = "ready"
  /\ children' =
       IF t = FullSystem
       THEN <<[devices |-> Span(0, device_count), threads |-> Span(0, thread_count)]>>
       ELSE [i \in 1..Len(plans[t]) |-> [devices |-> plans[t][i], threads |-> threads[t][i]]]
  /\ UNCHANGED <<machine, max_cores_per_slice, plans, at, cursor, counting, main_thread_count>>

-----------------------------------------------------------------------------
Next ==
  \/ UseFullSystem \/ UseTopology \/ UseDevices \/ PushDevices
  \/ PushPackage \/ PushGroup \/ PushSlice \/ EndPlans
  \/ PushThreads \/ EndThreads \/ CommitShmem
  \/ \E t \in Type \cup {FullSystem} : SlicesForTest(t)

Spec == Init /\ [][Next]_vars

-----------------------------------------------------------------------------
(***************************************************************************)
(* Properties.                                                             *)
(***************************************************************************)
\* The variables have their types; in particular every thread range is sound.
TypeOK ==
  /\ device_count \in 1..MaxDevices
  /\ change \in [1..(device_count - 1) -> Level]
  /\ valid \in BOOLEAN
  /\ max_cores_per_slice \in Nat \cup {-1}
  /\ ratio_type \in ThreadRatios
  /\ plans \in [Type -> Seq(Ranges)]
  /\ threads \in [Type -> Seq(Ranges)]
  /\ at \in {"start", "devices", "package", "group", "split", "threads", "commit", "ready"}
  /\ begin \in 0..device_count
  /\ pkg_end \in 0..device_count
  /\ end \in 0..device_count
  /\ slice_size \in Nat
  /\ type \in Type
  /\ thread_offset \in Nat
  /\ thread_count \in Nat
  /\ main_thread_count \in Nat
  /\ children \in Seq([devices : Ranges, threads : Ranges])

Within(x, r) == r.start <= x /\ x < Upto(r)

\* Whatever the topology, the options and the test's flags, every device is
\* tested, and by one child only.
EveryDeviceOnce ==
  children # <<>> =>
    \A d \in 0..(device_count - 1) :
      \E i \in DOMAIN children :
        /\ Within(d, children[i].devices)
        /\ \A j \in DOMAIN children \ {i} : ~Within(d, children[j].devices)

\* Children do not share the data of a thread, all threads have theirs in the
\* shared memory, and every child has at least one.
ThreadsAreDisjoint ==
  \A i \in DOMAIN children :
    /\ children[i].threads.count >= 1
    /\ Upto(children[i].threads) <= thread_count
    /\ \A j \in DOMAIN children :
         i < j => Upto(children[i].threads) <= children[j].threads.start

\* Thread i of a child is pinned to device_info[i] of the child's own devices:
\* there are never more threads than devices, in the full system neither.
ThreadsHaveDevices ==
  \A i \in DOMAIN children : children[i].threads.count <= children[i].devices.count

\* commit_shmem(), "the most detailed plan is the last": main_thread_data(i)
\* exists for every child of every test.
MainDataFits == Len(children) <= main_thread_count

ByTopology == valid /\ at \notin {"start", "devices"} /\ pkg_end > 0

\* "we always keep the cores of a given module and threads of a core in the same
\* slice"
ModulesStayTogether ==
  ByTopology =>
    \A t \in Type : \A i \in DOMAIN plans[t] : plans[t][i].start \in Starts(Module)

\* A slice made by the heuristic has at most max_cores_per_slice cores; it has
\* more only because of its last module, without which it has fewer.
SlicesAreBounded ==
  ByTopology =>
    \A i \in DOMAIN plans[Heuristic] :
      LET r == plans[Heuristic][i]
      IN \/ Cores(r.start, Upto(r)) <= max_cores_per_slice
         \/ \A m \in Starts(Module) :
              r.start < m /\ m < Upto(r) => Cores(r.start, m) < max_cores_per_slice

\* Whatever the topology, the options and the flags of the test: the plans cover
\* the machine once, respect modules and --max-cores-per-slice, and the shared
\* memory has room for all their threads and children.
SlicesAreSound ==
  /\ EveryDeviceOnce
  /\ ThreadsAreDisjoint
  /\ ThreadsHaveDevices
  /\ MainDataFits
  /\ ModulesStayTogether
  /\ SlicesAreBounded
=============================================================================
