-------------------------------- MODULE Idxd -------------------------------
(***************************************************************************)
(* The IDXD build, src/framework/device/idxd: the work queues of DSA and    *)
(* IAX accelerators.  A machine is                                          *)
(*   devices : Seq([id, type, version : 1..3, ops, wqs : Seq(queue)]), a    *)
(*             queue being [wq_id, group_id, enabled, user, mode]           *)
(*   cpus    : the processors the program may run on                        *)
(*   fails   : accfg_new() may fail when the topology is built again        *)
(*   debug   : assertions are compiled in                                   *)
(***************************************************************************)
EXTENDS Accelerator
LOCAL INSTANCE SequencesExt
LOCAL INSTANCE FiniteSetsExt

\* Operations for which there is a feature, by family.
OpsOf(type) ==
  {"noop", "batch", "drain"} \cup
  (IF type = "dsa"
   THEN {"memmove", "fill", "compare", "compare_pat", "crc_gen", "copy_with_crc_gen", "dif_check",
         "dif_insert", "dif_strip", "dif_update", "cache_flush", "crc64"}
   ELSE {"dual_cast", "create_delta", "apply_delta", "scan", "extract", "select", "expand",
         "compress", "decompress"})

Version == <<"1", "2", "3">>

\* detect_features() of a device: bits of its family only.
FeaturesOf(d) ==
  {<<d.type, "device">>} \cup {<<d.type, Version[v]>> : v \in 1..d.version}
    \cup {<<d.type, op>> : op \in d.ops \cap OpsOf(d.type)}

feature_to_opcode(feature) == feature[2]

DeviceById(id) ==
  LET devices == accelerators.devices
  IN  devices[SelectInSeq(devices, LAMBDA d : d.id = id)]

Queue(u) ==
  LET wqs == DeviceById(u.device_id).wqs
  IN  wqs[SelectInSeq(wqs, LAMBDA q : q.wq_id = u.wq_id)]
-----------------------------------------------------------------------------
(***************************************************************************)
(* build_topology(): devices, and the groups of each, in the order in which *)
(* device_info[] first names them; a queue is a position there.             *)
(***************************************************************************)
IdxdTopology(us) ==
  LET ids == Firsts([i \in DOMAIN us |-> us[i].device_id])
      group(i) == Queue(us[i]).group_id
      of(id) == Ascending({i \in DOMAIN us : us[i].device_id = id})
      groups(id) == Firsts([n \in DOMAIN of(id) |-> group(of(id)[n])])
  IN  [k \in DOMAIN ids |->
         [id |-> ids[k],
          groups |-> [g \in DOMAIN groups(ids[k]) |->
                        [id |-> groups(ids[k])[g],
                         wqs |-> SelectSeq(of(ids[k]), LAMBDA i : group(i) = groups(ids[k])[g])]]]]

\* finalize_topology_links()
Path(u) == [device |-> u.device_id, group |-> Queue(u).group_id]

QueuesOf(d) == FlattenSeq([g \in DOMAIN d.groups |-> d.groups[g].wqs])

IdxdDetect ==
  /\ phase = "detect"
  /\ LET devices == accelerators.devices
         all == FlattenSeq([d \in DOMAIN devices |->
                  [q \in DOMAIN devices[d].wqs |-> <<devices[d], devices[d].wqs[q]>>]])
         cpus == Ascending(accelerators.cpus)
         us == [n \in DOMAIN all |->
                  [device_id |-> all[n][1].id, wq_id |-> all[n][2].wq_id,
                   dev_type |-> all[n][1].type, cpu_number |-> cpus[n]]]
     IN  IF all = <<>> \/ Len(cpus) < Len(all) THEN Exits
         ELSE /\ units' = us
              /\ found' = IdxdTopology(us)
              /\ features' = UNION {FeaturesOf(devices[d]) : d \in DOMAIN devices}
              /\ phase' = "set up"
              /\ UNCHANGED <<acc_options, next_set, counted, unit_plans>>

(***************************************************************************)
(* apply_deviceset_param(): "wqD.Q", "wqD.QcCPU", "dsaD" or "iaxD".  What   *)
(* is added keeps the order of the arguments.                               *)
(***************************************************************************)
ApplyDevice(st, remove, members) ==
  FoldLeft(LAMBDA s, i : ApplyUnit(s, remove, i), st, members)

IdxdArgument(st, remove, arg) ==
  LET i == SelectInSeq(st.old, LAMBDA u : UnitId(u) = <<arg.device, arg.wq>>)
      members == Ascending({n \in DOMAIN st.old : /\ st.old[n].dev_type = arg.type
                                                   /\ st.old[n].device_id = arg.device})
      after == ApplyDevice(st, remove, members)
  IN  IF st.error THEN st
      ELSE CASE arg.kind = "malformed" -> Refused(st)
             [] arg.kind = "unit"      -> IF i = 0 THEN Refused(st)
                                          ELSE ApplyUnit(GiveCpu(st, i, arg.cpu), remove, i)
             [] arg.kind = "device"    -> IF after.met = st.met THEN Refused(st) ELSE after

IdxdApplied(option) ==
  FoldLeft(LAMBDA st, arg : IdxdArgument(st, option.remove, arg), LoopStart(option), option.args)

IdxdApplyDeviceset ==
  /\ phase = "set up" /\ next_set <= Len(unit_sets)
  /\ LET st == IdxdApplied(unit_sets[next_set])
     IN  ApplyWith(st, {IdxdTopology(st.new)} \cup (IF accelerators.fails THEN {<<>>} ELSE {}))

\* Every plan is one slice.
IdxdPlan ==
  /\ phase = "set up" /\ next_set > Len(unit_sets)
  /\ unit_plans' = [p \in DOMAIN NoPlans |-> <<[first |-> 1, last |-> Len(units)]>>]
  /\ phase' = "planned"
  /\ UNCHANGED <<acc_options, next_set, units, counted, found, features>>

\* restrict_topology() does nothing.
IdxdCommit == CommitUnits({found})

IdxdStep == IdxdDetect \/ IdxdApplyDeviceset \/ IdxdPlan \/ IdxdCommit
-----------------------------------------------------------------------------
(***************************************************************************)
(* What tests ask: the queues they can submit work to, and what the device  *)
(* of a queue can do.  has_opcode() takes the device's number for its place *)
(* in the topology.                                                         *)
(***************************************************************************)
Whichever == "any"

Targetable(q) == q.enabled /\ q.user

targetable_wqs(type, mode, op) ==
  LET wanted(d) == /\ type \in {Whichever, DeviceById(d.id).type}
                   /\ op = Whichever \/ op \in DeviceById(d.id).ops
      of(d) == SelectSeq(QueuesOf(d), LAMBDA i : /\ Targetable(Queue(units[i]))
                                                 /\ mode \in {Whichever, Queue(units[i]).mode})
  IN  FlattenSeq([k \in DOMAIN found |-> IF wanted(found[k]) THEN of(found[k]) ELSE <<>>])

\* Outside of the array anything may be read.
has_feature(i, feature) ==
  LET place == Path(units[i]).device + 1
  IN  IF place \in DOMAIN found
      THEN {feature_to_opcode(feature) \in DeviceById(found[place].id).ops} ELSE BOOLEAN
-----------------------------------------------------------------------------
(***************************************************************************)
(* The report.                                                              *)
(***************************************************************************)
IdxdMask(failed) ==
  LET marks(d) == [n \in DOMAIN QueuesOf(d) |-> IF QueuesOf(d)[n] \in failed THEN "X" ELSE "."]
      mask == FoldLeft(LAMBDA m, d : IF m = <<>> THEN marks(d) ELSE m \o <<":">> \o marks(d),
                       <<>>, found)
  IN  IF Contains(mask, "X") THEN mask ELSE <<>>

PatternsOfDevice(pattern, d) == [n \in DOMAIN QueuesOf(d) |-> pattern[QueuesOf(d)[n]]]

DeviceVerdicts(pattern) ==
  [k \in DOMAIN found |-> Verdict1(PatternsOfDevice(pattern, found[k]))]

\* The first pattern of each device that failed.
DevicePatterns(pattern) ==
  SelectSeq([k \in DOMAIN found |->
               LET ps == PatternsOfDevice(pattern, found[k])
                   n == SelectInSeq(ps, LAMBDA p : p # 0)
               IN  IF n = 0 THEN 0 ELSE ps[n]], LAMBDA p : p # 0)

\* The assertion about the thread's number says the opposite of what is meant.
AssertionHolds(i) == i - 1 < 0 \/ i - 1 >= Len(units)

IdxdVerdict(pattern) ==
  LET ps == DevicePatterns(pattern)
  IN  IF accelerators.debug /\ \E i \in DOMAIN units : ~AssertionHolds(i) THEN "aborted"
      ELSE Sentence(Len(ps),
             Equal(ps) /\ \A k \in DOMAIN found : Equal(PatternsOfDevice(pattern, found[k])),
             \A k \in DOMAIN found : AllFail(PatternsOfDevice(pattern, found[k])))
=============================================================================
