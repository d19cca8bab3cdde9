---------------------------- MODULE Accelerators ---------------------------
(***************************************************************************)
(* The GPU and the IDXD build: from what the machine has to the units that  *)
(* are tested, and from failed threads to the report.                       *)
(***************************************************************************)
EXTENDS Gpu, Idxd
LOCAL INSTANCE SequencesExt

AcceleratorNext ==
  \/ build = "gpu"  /\ GpuStep
  \/ build = "idxd" /\ IdxdStep
  \/ AcceleratorEnds

AcceleratorSpec == AcceleratorInit /\ [][AcceleratorNext]_acc_vars
-----------------------------------------------------------------------------
UnitIds(us) == {UnitId(us[i]) : i \in DOMAIN us}

\* The units an argument names, of those there are.
NamesUnit(arg, id) ==
  CASE arg.kind = "unit"   -> id = IF build = "gpu" THEN arg.number ELSE <<arg.device, arg.wq>>
    [] arg.kind = "device" -> id[1] = arg.device /\ DeviceById(arg.device).type = arg.type
    [] OTHER -> FALSE

Chosen(ids, option) ==
  {id \in ids : (\E n \in DOMAIN option.args : NamesUnit(option.args[n], id)) # option.remove}

\* Everything there is, as it was found.
AllIds ==
  IF build = "gpu"
  THEN {n - 1 : n \in DOMAIN for_each_ze_device(accelerators)}
  ELSE UNION {{<<d.id, q.wq_id>> : q \in ToSet(d.wqs)} : d \in ToSet(accelerators.devices)}

ExpectedIds == FoldLeft(Chosen, AllIds, SubSeq(unit_sets, 1, next_set - 1))

GivesCpu == \E n \in DOMAIN unit_sets : \E k \in DOMAIN unit_sets[n].args :
              unit_sets[n].args[k].cpu # NoCpu

\* The card a test reaches with a unit's indices, in both interfaces.
HandlesAreOwn ==
  build = "gpu" => \A i \in DOMAIN units :
    \A devices \in {for_each_ze_device(accelerators), for_each_zes_device(accelerators)} :
      {card.bdf : card \in HandlesOf(devices, units[i])} = {units[i].bdf}

\* The queues a test is given can do what it asks for, and none is missing.
TargetsAreUsable ==
  build = "idxd" =>
    \A type \in {Whichever, "dsa", "iax"}, mode \in {Whichever, "shared", "dedicated"} :
      \A op \in {Whichever} \cup UNION {d.ops : d \in ToSet(accelerators.devices)} :
        LET targets == targetable_wqs(type, mode, op)
            Good(i) == LET q == Queue(units[i])
                           d == DeviceById(units[i].device_id)
                       IN  /\ q.enabled /\ q.user /\ mode \in {Whichever, q.mode}
                           /\ type \in {Whichever, d.type}
                           /\ op \in {Whichever} \cup d.ops
        IN  /\ found # <<>> => ToSet(targets) = {i \in DOMAIN units : Good(i)}
            /\ Len(targets) = Cardinality(ToSet(targets))
            /\ \A i \in ToSet(targets) : op \in OpsOf(units[i].dev_type) =>
                 /\ <<units[i].dev_type, op>> \in features
                 /\ (\A k \in DOMAIN found : found[k].id = k - 1) =>
                      has_feature(i, <<units[i].dev_type, op>>) = {TRUE}

(***************************************************************************)
(* After any --deviceset options exactly the units they leave are there,    *)
(* each once, a GPU's in the order of their numbers; each has a processor   *)
(* the program may use, and one of its own unless the user gave some; and   *)
(* tests find the hardware of each unit, or the queues that fit.  (Not with *)
(* mock GPUs, nor where Sysman lists more than the other interface and the  *)
(* program goes on without a device: see GpuDetect.)                        *)
(***************************************************************************)
UnitsAreSelected ==
  /\ phase \in {"set up", "planned", "committed"}
  /\ build = "gpu" => accelerators.mock = 0 /\ Matching(accelerators)
  => /\ UnitIds(units) = ExpectedIds /\ Len(units) = Cardinality(ExpectedIds)
     /\ build = "gpu" => \A i, j \in DOMAIN units : i < j => units[i].gpu_number < units[j].gpu_number
     /\ \A i \in DOMAIN units : units[i].cpu_number \in accelerators.cpus
     /\ ~GivesCpu => \A i, j \in DOMAIN units : i # j => units[i].cpu_number # units[j].cpu_number
     /\ HandlesAreOwn
     /\ TargetsAreUsable

\* Exactly the units that the --deviceset options leave are there
\* (gpu/topology.cpp:230), and every plan gives each to one child, cards and NUMA
\* nodes unsplit (gpu/build_topology.cpp:137).
UnitsAreTested == UnitsAreSelected /\ GpuPlansAreSound
-----------------------------------------------------------------------------
Mask(failed) == IF build = "gpu" THEN GpuMask(failed) ELSE IdxdMask(failed)
Marks(mask)  == SelectSeq(mask, LAMBDA c : c # ":")
InOrder      == IF build = "gpu" THEN [i \in DOMAIN units |-> i]
                ELSE FlattenSeq([k \in DOMAIN found |-> QueuesOf(found[k])])

MaskNames(failed) ==
  /\ Mask(failed) = <<>> <=> failed = {} \/ found = <<>>
  /\ Mask(failed) # <<>> =>
       /\ Len(Marks(Mask(failed))) = Len(units)
       /\ \A n \in DOMAIN units : Marks(Mask(failed))[n] = "X" <=> InOrder[n] \in failed

\* A sentence about units of which these are the patterns.
IsTrue(sentence, ps) ==
  /\ sentence = "only one" => Failing(ps) = 1
  /\ sentence = "all at least once" => AllFail(ps)
  /\ sentence = "some" => Failing(ps) > 1 /\ ~AllFail(ps)

Sentences(pattern) ==
  \A k \in DOMAIN found :
    IF build = "gpu"
    THEN IsTrue(CardVerdicts(pattern)[k], PatternsOf(pattern, found[k]))
    ELSE IsTrue(DeviceVerdicts(pattern)[k], PatternsOfDevice(pattern, found[k]))

Summary(pattern) ==
  /\ (IF build = "gpu" THEN GpuVerdict(pattern) ELSE IdxdVerdict(pattern)) = "all at least once"
       => found # <<>> /\ \A i \in DOMAIN units : pattern[i] # 0
  /\ build = "idxd" /\ IdxdVerdict(pattern) = "only one" =>
       \A i, j \in DOMAIN units : pattern[i] # 0 /\ pattern[j] # 0 =>
         units[i].device_id = units[j].device_id

(***************************************************************************)
(* When the topology is known, the mask of a failed test marks the units    *)
(* whose threads failed and no others, and what the analysis says of cards, *)
(* devices and all units is true: "only one", "at least once", "some".      *)
(* ("All ... failed exactly the same way" is not: units that passed do not  *)
(* count there.)                                                            *)
(***************************************************************************)
FailedUnitsAreNamed ==
  phase = "committed" =>
    \A pattern \in [DOMAIN units -> Patterns] :
      /\ MaskNames({i \in DOMAIN units : pattern[i] # 0})
      /\ Sentences(pattern)
      /\ Summary(pattern)
=============================================================================
