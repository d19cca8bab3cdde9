------------------------------- MODULE Builds -------------------------------
(***************************************************************************)
(* The program is built for one kind of device: for processors (Devices),   *)
(* for GPUs or for IDXD work queues (Accelerators).                         *)
(***************************************************************************)
EXTENDS Devices, Accelerators

cpu_vars == <<topology, vars>>

\* The variables of the other builds have no meaning.
NoCpus ==
  /\ hardware = [enabled |-> {}] /\ deviceset = <<>> /\ max_cpus = 0
  /\ applied = 0 /\ device_info = <<>> /\ nodes = {} /\ stage = "none"
  /\ device_count = 0 /\ change = <<>> /\ valid = FALSE
  /\ max_cores_per_slice = 0 /\ ratio_type = [kind |-> "none"]
  /\ plans = [t \in Type |-> <<>>] /\ threads = [t \in Type |-> <<>>]
  /\ at = "none" /\ begin = 0 /\ pkg_end = 0 /\ end = 0 /\ slice_size = 0
  /\ type = IsolateSockets /\ thread_offset = 0 /\ thread_count = 0
  /\ main_thread_count = 0 /\ children = <<>>

NoAccelerators ==
  /\ build = "cpu" /\ accelerators = <<>> /\ unit_sets = <<>> /\ max_per_slice = 0
  /\ next_set = 1 /\ phase = "none" /\ units = <<>> /\ counted = 0 /\ found = <<>>
  /\ features = {} /\ unit_plans = NoPlans

BuildInit ==
  \/ DInit /\ NoAccelerators
  \/ AcceleratorInit /\ NoCpus

BuildNext ==
  \/ build = "cpu" /\ DNext /\ UNCHANGED acc_vars
  \/ AcceleratorNext /\ UNCHANGED cpu_vars

BuildSpec == BuildInit /\ [][BuildNext]_<<cpu_vars, acc_vars>>
=============================================================================
