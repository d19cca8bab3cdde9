-------------------------------- MODULE Gpu --------------------------------
(***************************************************************************)
(* The GPU build, src/framework/device/gpu: the tiles of the cards that     *)
(* Level Zero finds, their topology of whole cards and NUMA nodes, the      *)
(* slices and the report of failures.  A machine is                         *)
(*   drivers : Seq of sequences of cards, a card being                      *)
(*             [bdf, gpu : BOOLEAN, tiles : Nat, numa_id, local : cpus]     *)
(*   flat    : ZE_FLAT_DEVICE_HIERARCHY makes a device of every tile        *)
(*   cpus    : the processors the program may run on                        *)
(*   mock    : entries of SANDSTONE_MOCK_TOPOLOGY, 0 if it is not set       *)
(*   early   : thread_count() is known before commit_shmem(), as it is in   *)
(*             the unit tests of the topology, but not in the program       *)
(***************************************************************************)
EXTENDS Accelerator
LOCAL INSTANCE SequencesExt
LOCAL INSTANCE FiniteSetsExt

\* What zeDeviceGet() lists, and zesDeviceGet(), which ignores the hierarchy.
SysmanList(cards) == [i \in DOMAIN cards |-> [card |-> cards[i], subdevices |-> cards[i].tiles]]
Flattened(cards)  ==
  FlattenSeq([i \in DOMAIN cards |->
                IF cards[i].tiles = 0 THEN <<[card |-> cards[i], subdevices |-> 0]>>
                ELSE [s \in 1..cards[i].tiles |-> [card |-> cards[i], subdevices |-> 0]]])

\* The loops of for_each_ze_device() and for_each_zes_device() over a driver.
Enumerated(devices) ==
  FlattenSeq([i \in DOMAIN devices |->
     LET d == devices[i]
         indices(s) == [card |-> d.card, device_index |-> i - 1, subdevice_index |-> s]
     IN  IF ~d.card.gpu THEN <<>>
         ELSE IF d.subdevices = 0 THEN <<indices(-1)>>
         ELSE [s \in 1..d.subdevices |-> indices(s - 1)]])

for_each_ze_device(m) ==
  IF m.drivers = <<>> THEN <<>>
  ELSE LET newest == Last(m.drivers)
       IN  Enumerated(IF m.flat THEN Flattened(newest) ELSE SysmanList(newest))

for_each_zes_device(m) ==
  FlattenSeq([d \in DOMAIN m.drivers |-> Enumerated(SysmanList(m.drivers[d]))])

\* MultiSliceGpu: the number of a device is its place in the enumeration.
MultiSliceGpus(devices) ==
  {<<n - 1, devices[n].device_index, devices[n].subdevice_index>> : n \in DOMAIN devices}

\* for_each_device_within_topo_internal(): what is called for a unit, if anything.
HandlesOf(devices, u) ==
  LET indices == <<u.gpu_number, u.device_index, u.subdevice_index>>
  IN  {devices[n].card : n \in {n \in DOMAIN devices :
         <<n - 1, devices[n].device_index, devices[n].subdevice_index>> = indices}}

\* With another set from Sysman there is a handle missing, and the program ends,
\* unless all handles were there when Sysman's list went on: the set returned then
\* is not empty, though device_count is still 0.
Matching(m) == MultiSliceGpus(for_each_ze_device(m)) = MultiSliceGpus(for_each_zes_device(m))
MoreInSysman(m) ==
  LET ze == for_each_ze_device(m) zes == for_each_zes_device(m)
  IN  /\ Len(zes) > Len(ze)
      /\ MultiSliceGpus(ze) = MultiSliceGpus(SubSeq(zes, 1, Len(ze)))

\* try_assign_local_cpu() for one device after the other; free: the CPUs left.
try_assign_local_cpu(free, card) ==
  Min(IF free \cap card.local # {} THEN free \cap card.local ELSE free)

CpusOf(devices) ==
  FoldLeft(LAMBDA cpus, d : Append(cpus,
             try_assign_local_cpu(accelerators.cpus \ ToSet(cpus), d.card)), <<>>, devices)

GpuUnit(n, d, cpu) ==
  [gpu_number |-> n - 1, device_index |-> d.device_index, subdevice_index |-> d.subdevice_index,
   bdf |-> d.card.bdf, numa_id |-> d.card.numa_id, cpu_number |-> cpu]

MockUnit(n) ==
  [gpu_number |-> 0, device_index |-> 0, subdevice_index |-> -1, bdf |-> n,
   numa_id |-> -1, cpu_number |-> 0]
-----------------------------------------------------------------------------
(***************************************************************************)
(* build_topology(): a device is a unit without subdevices, or the units of *)
(* one card that follow each other.                                         *)
(***************************************************************************)
StartsCard(us, i) ==
  \/ i = 1 \/ us[i].subdevice_index = -1 \/ us[i - 1].subdevice_index = -1
  \/ us[i].bdf # us[i - 1].bdf

GpuTopology(us) ==
  LET starts == Ascending({i \in DOMAIN us : StartsCard(us, i)})
  IN  [k \in DOMAIN starts |->
         [first |-> starts[k], last |-> IF k = Len(starts) THEN Len(us) ELSE starts[k + 1] - 1,
          root |-> us[starts[k]].subdevice_index # -1]]

\* It stops after thread_count() units, 0 where that is not known yet.
BuiltWith(us, n) == GpuTopology(SubSeq(us, 1, IF n > Len(us) THEN Len(us) ELSE n))
Count(us)        == IF accelerators.early THEN Len(us) ELSE counted

numa_domains == Firsts([i \in DOMAIN units |-> units[i].numa_id])
-----------------------------------------------------------------------------
GpuDetect ==
  /\ phase = "detect" /\ accelerators.mock = 0
  /\ LET devices == for_each_ze_device(accelerators)
         us == [n \in DOMAIN devices |-> GpuUnit(n, devices[n], CpusOf(devices)[n])]
         Detected(these) ==
           /\ units' = these
           /\ found' = BuiltWith(these, Count(these))
           /\ phase' = "set up"
           /\ UNCHANGED <<acc_options, next_set, counted, features, unit_plans>>
     IN  IF devices = <<>> \/ Cardinality(accelerators.cpus) < Len(devices) THEN Exits
         ELSE IF Matching(accelerators) THEN Detected(us)
         \* assert(device_count()) of a debug build; another goes on without a device
         ELSE Exits \/ (MoreInSysman(accelerators) /\ Detected(<<>>))

GpuMock ==
  /\ phase = "detect" /\ accelerators.mock > 0
  /\ units' = [n \in 1..accelerators.mock |-> MockUnit(n)]
  /\ phase' = "set up"
  /\ UNCHANGED <<acc_options, next_set, counted, found, features, unit_plans>>

(***************************************************************************)
(* apply_deviceset_param(): "N" or "gNcCPU"; anything that begins with      *)
(* another character is passed over.                                        *)
(***************************************************************************)
GpuArgument(st, remove, arg) ==
  LET i == SelectInSeq(st.old, LAMBDA u : u.gpu_number = arg.number)
  IN  IF st.error \/ arg.kind = "other" THEN st
      ELSE IF arg.kind = "malformed" \/ i = 0 THEN Refused(st)
      ELSE ApplyUnit(GiveCpu(st, i, arg.cpu), remove, i)

GpuApplied(option) ==
  FoldLeft(LAMBDA st, arg : GpuArgument(st, option.remove, arg), LoopStart(option), option.args)

GpuApplyDeviceset ==
  /\ phase = "set up" /\ next_set <= Len(unit_sets)
  /\ LET st == GpuApplied(unit_sets[next_set])
     IN  ApplyWith(st, {BuiltWith(st.new, Count(st.new))})
-----------------------------------------------------------------------------
(***************************************************************************)
(* slice_plan_init_for_device().                                            *)
(***************************************************************************)
Whole == <<[first |-> 1, last |-> Len(units)]>>

IsolateNuma ==
  FlattenSeq([k \in DOMAIN numa_domains |->
                Runs({i \in DOMAIN units : units[i].numa_id = numa_domains[k]})])

MaxDevicesPerSlice == IF max_per_slice > 0 THEN max_per_slice ELSE Max({1, DefaultMaxUnits})

\* Faulty: a card is added while there is room for one more tile.
GrowsByOne(slice, device) ==
  /\ device.first = slice.last + 1
  /\ slice.last - slice.first + 2 <= MaxDevicesPerSlice

Grows(slice, device) ==
  /\ device.first = slice.last + 1
  /\ device.last - slice.first + 1 <= MaxDevicesPerSlice

\* The slices of one bucket, the devices of a node.
Fill(bucket) ==
  FoldLeft(LAMBDA slices, d :
             IF slices # <<>> /\ Grows(Last(slices), d)
             THEN [slices EXCEPT ![Len(slices)].last = d.last]
             ELSE Append(slices, [first |-> d.first, last |-> d.last]),
           <<>>, bucket)

AtomicGroupsByNode ==
  FlattenSeq([k \in DOMAIN numa_domains |->
                Fill(SelectSeq(found, LAMBDA d : units[d.first].numa_id = numa_domains[k]))])

OrWhole(plan) == IF plan = <<>> \/ found = <<>> THEN Whole ELSE plan

GpuPlan ==
  /\ phase = "set up" /\ next_set > Len(unit_sets)
  /\ unit_plans' = [sockets |-> Whole, numa |-> OrWhole(IsolateNuma),
                    heuristic |-> OrWhole(AtomicGroupsByNode)]
  /\ phase' = "planned"
  /\ UNCHANGED <<acc_options, next_set, units, counted, found, features>>

\* restrict_topology() after commit_shmem(): only if the memory has moved.
GpuCommit == CommitUnits({found, GpuTopology(units)})

GpuStep == GpuDetect \/ GpuMock \/ GpuApplyDeviceset \/ GpuPlan \/ GpuCommit
-----------------------------------------------------------------------------
(***************************************************************************)
(* The report: build_failure_mask_for_topology() for the threads that       *)
(* failed, and analyze_test_failures_for_topology() for their patterns.     *)
(***************************************************************************)
\* Faulty: the tile's own number takes the place of the thread's.
FailedByNumber(i, failed) == units[i].gpu_number + 1 \in failed

\* thread_data(info.gpu())->has_failed()
HasFailedUnit(i, failed) == i \in failed

GpuMask(failed) ==
  LET mark(i) == IF HasFailedUnit(i, failed) THEN "X" ELSE "."
      marks(mask, i) == IF units[i].subdevice_index = 0 /\ mask # <<>>
                        THEN mask \o <<":", mark(i)>> ELSE Append(mask, mark(i))
      last == IF found = <<>> THEN 0 ELSE Last(found).last
  IN  IF \A i \in 1..last : ~HasFailedUnit(i, failed) THEN <<>>
      ELSE FoldLeft(marks, <<>>, [i \in 1..last |-> i])

PatternsOf(pattern, d) == [i \in 1..(d.last - d.first + 1) |-> pattern[d.first + i - 1]]

CardVerdicts(pattern) ==
  [k \in DOMAIN found |-> IF found[k].root THEN Verdict1(PatternsOf(pattern, found[k])) ELSE "none"]

\* Cards with one bad tile, or some, do not count.
GpuVerdict(pattern) ==
  LET ends   == SelectSeq(found, LAMBDA d : ~d.root)
      single == [k \in DOMAIN ends |-> pattern[ends[k].first]]
      roots  == {k \in DOMAIN found : found[k].root}
  IN  Sentence(Failing(single) + Cardinality({k \in roots :
                 CardVerdicts(pattern)[k] \in {"all the same way", "all at least once"}}),
               Equal(single) /\ \A k \in roots : Equal(PatternsOf(pattern, found[k])),
               \A k \in DOMAIN found : AllFail(PatternsOf(pattern, found[k])))
-----------------------------------------------------------------------------
(***************************************************************************)
(* Every plan gives each unit to exactly one child; where the topology is   *)
(* known (the unit tests: the program plans before it is) a slice stays in  *)
(* a NUMA node, a card is never split and a slice only exceeds the maximum  *)
(* when it is one card; and the plan that sizes the shared memory has the   *)
(* most slices.  (A part of UnitsAreTested.)                                *)
(***************************************************************************)
Slice(s) == s.first..s.last

GpuPlansAreSound ==
  build = "gpu" /\ phase = "planned" =>
    /\ \A p \in DOMAIN unit_plans :
         /\ \A i \in DOMAIN units :
              Cardinality({k \in DOMAIN unit_plans[p] : i \in Slice(unit_plans[p][k])}) = 1
         /\ \A k \in DOMAIN unit_plans[p] : Slice(unit_plans[p][k]) \subseteq DOMAIN units
         /\ Len(unit_plans[p]) <= Len(unit_plans.heuristic)
    /\ found # <<>> => \A p \in {"numa", "heuristic"} : \A k \in DOMAIN unit_plans[p] :
         \A i, j \in Slice(unit_plans[p][k]) : units[i].numa_id = units[j].numa_id
    /\ found # <<>> => \A k \in DOMAIN unit_plans.heuristic :
         LET slice == Slice(unit_plans.heuristic[k])
         IN  /\ \A i \in slice, j \in DOMAIN units : units[i].bdf = units[j].bdf => j \in slice
             /\ \/ Cardinality(slice) <= MaxDevicesPerSlice
                \/ \A i, j \in slice : units[i].bdf = units[j].bdf
=============================================================================
