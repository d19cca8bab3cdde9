---------------------------- MODULE Accelerator ----------------------------
(***************************************************************************)
(* What the GPU and the IDXD build of the program have in common: their     *)
(* devices ("units" here: the tiles of GPUs, or work queues) are found,     *)
(* given a CPU each, thinned out by --deviceset, divided among children and *)
(* tested by one thread each.  A build has one kind of device; Gpu and Idxd *)
(* have the steps of each.                                                  *)
(***************************************************************************)
EXTENDS Integers, FiniteSets, Sequences
LOCAL INSTANCE SequencesExt
LOCAL INSTANCE FiniteSetsExt

CONSTANTS
  GpuMachines, IdxdMachines,   \* what the builds may find
  UnitSets,                    \* [{"gpu", "idxd"} -> sets of --deviceset options]
  MaxUnits,                    \* values of --max-cores-per-slice
  DefaultMaxUnits,             \* SlicePlans::DefaultMaxCoresPerSlice
  Patterns                     \* bound: the failure patterns of a thread; 0: none

VARIABLES
  build,          \* "gpu" or "idxd"
  accelerators,   \* the machine
  unit_sets,      \* the --deviceset options
  max_per_slice,
  next_set,       \* the option that is applied next
  phase,          \* where the initialisation is
  units,          \* device_info[], without the entries after device_count
  counted,        \* thread_count()
  found,          \* cached_topology()
  features,       \* device_features
  unit_plans      \* the slices of each plan

acc_options == <<build, accelerators, unit_sets, max_per_slice>>
acc_vars    == <<acc_options, next_set, phase, units, counted, found, features, unit_plans>>

NoPlans == [plan \in {"sockets", "numa", "heuristic"} |-> <<>>]

AcceleratorInit ==
  /\ build \in {"gpu", "idxd"}
  /\ accelerators \in IF build = "gpu" THEN GpuMachines ELSE IdxdMachines
  /\ unit_sets \in UnitSets[build]
  /\ max_per_slice \in MaxUnits
  /\ phase = "detect" /\ units = <<>> /\ found = <<>> /\ features = {}
  /\ next_set = 1 /\ counted = 0 /\ unit_plans = NoPlans

Ascending(S) ==
  [k \in 1..Cardinality(S) |-> CHOOSE i \in S : Cardinality({j \in S : j < i}) = k - 1]

\* exit(EX_USAGE) and its like
Exits ==
  /\ phase' = "exit"
  /\ UNCHANGED <<acc_options, next_set, units, counted, found, features, unit_plans>>
-----------------------------------------------------------------------------
(***************************************************************************)
(* --deviceset: arguments name units, add or remove them, and may give a    *)
(* CPU.  The arguments of one option are applied to what the options before *)
(* have left.  A state of the loop is the list made so far, the units met   *)
(* already, device_info[] with the CPUs given, and whether an error ended it.*)
(***************************************************************************)
NoCpu == -1

Refused(st) == [st EXCEPT !.error = TRUE]

\* it->cpu_number = cpu_number
GiveCpu(st, i, cpu) ==
  IF cpu = NoCpu THEN st
  ELSE IF cpu \notin accelerators.cpus THEN Refused(st)
  ELSE [st EXCEPT !.old[i].cpu_number = cpu]

UnitId(u) == IF build = "gpu" THEN u.gpu_number ELSE <<u.device_id, u.wq_id>>

\* GPUs stay in the order of their numbers, queues come in that of the arguments.
Placed(list, u) ==
  IF build = "gpu"
  THEN InsertAt(list, 1 + Cardinality({i \in DOMAIN list : list[i].gpu_number < u.gpu_number}), u)
  ELSE Append(list, u)

AddUnit(st, u) == [st EXCEPT !.new = Placed(@, u), !.met = @ \cup {UnitId(u)}]

RemoveUnit(st, id) ==
  LET i == SelectInSeq(st.new, LAMBDA u : UnitId(u) = id)
  IN  IF i = 0 THEN st ELSE [st EXCEPT !.new = RemoveAt(@, i), !.met = @ \cup {id}]

\* apply_to_set()
ApplyUnit(st, remove, i) ==
  IF st.error \/ UnitId(st.old[i]) \in st.met THEN st
  ELSE IF remove THEN RemoveUnit(st, UnitId(st.old[i]))
  ELSE AddUnit(st, st.old[i])

LoopStart(option) ==
  [old |-> units, new |-> IF option.remove THEN units ELSE <<>>, met |-> {}, error |-> FALSE]

\* --deviceset matched nothing, or all of it was removed.
Useless(st) == st.met = {} \/ st.new = <<>>

\* One option: update_topology() when it is sound, with the topology given.
ApplyWith(st, topologies) ==
  /\ phase = "set up" /\ next_set <= Len(unit_sets)
  /\ IF st.error \/ Useless(st) THEN Exits
     ELSE /\ units' = st.new
          /\ found' \in topologies
          /\ next_set' = next_set + 1
          /\ UNCHANGED <<acc_options, phase, counted, features, unit_plans>>
-----------------------------------------------------------------------------
\* Threads of each slice: as many as devices, with the same numbers.
CommitUnits(topologies) ==
  /\ phase = "planned"
  /\ phase' = "committed"
  /\ counted' = Len(units)
  /\ found' \in topologies
  /\ UNCHANGED <<acc_options, next_set, units, features, unit_plans>>

AcceleratorEnds ==
  phase \in {"exit", "committed"} /\ UNCHANGED acc_vars
-----------------------------------------------------------------------------
\* The sentence about units of which these patterns are known, in this order.
Equal(ps) == \A i, j \in DOMAIN ps : ps[i] # 0 /\ ps[j] # 0 => ps[i] = ps[j]
AllFail(ps) == \A i \in DOMAIN ps : ps[i] # 0
Failing(ps) == Cardinality({i \in DOMAIN ps : ps[i] # 0})

Sentence(n, equal, once) ==
  CASE n = 0 -> "none" [] n = 1 -> "only one" [] OTHER ->
    IF equal THEN "all the same way" ELSE IF once THEN "all at least once" ELSE "some"

Verdict1(ps) == Sentence(Failing(ps), Equal(ps), AllFail(ps))

\* The ranges that the consecutive numbers of a set form, in order.
Runs(S) ==
  LET firsts == Ascending({i \in S : i - 1 \notin S})
      last(i) == Min({j \in S : j >= i /\ j + 1 \notin S})
  IN  [k \in DOMAIN firsts |-> [first |-> firsts[k], last |-> last(firsts[k])]]

\* The values of a sequence in the order of their first appearance.
Firsts(s) ==
  LET at == Ascending({i \in DOMAIN s : \A j \in 1..(i - 1) : s[j] # s[i]})
  IN  [k \in DOMAIN at |-> s[at[k]]]
=============================================================================
