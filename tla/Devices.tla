------------------------------ MODULE Devices ------------------------------
(***************************************************************************)
(* The devices of a run from the machine to the failure report: Topology   *)
(* finds out what the processors are, Slicing divides them among children  *)
(* and threads, and the failures of threads come back as the failures of   *)
(* processors.                                                             *)
(***************************************************************************)
EXTENDS Topology, Slicing

\* What the machine really is, besides what it tells of itself: the place of each
\* processor.
ASSUME PlaceAssumption ==
  \A m \in Machines : \A lp \in m.enabled :
    m.place[lp] \in [package : Nat, node : Nat, type : Nat, die : Nat,
                     module : Nat, core : Nat, thread : Nat]
-----------------------------------------------------------------------------
DInit ==
  /\ TopologyInit
  /\ device_count = 0 /\ change = <<>> /\ valid = FALSE
  /\ PlanInit

\* build_topology(), as far as the plans need it.
BuildTopology ==
  /\ stage = "restricted"
  /\ device_count' = Len(device_info)
  /\ change' = [d \in 1..(Len(device_info) - 1) |->
                  ChangeBetween(device_info[d], device_info[d + 1])]
  /\ valid' = IsValid
  /\ stage' = "built"
  /\ UNCHANGED <<hardware, options, applied, device_info, nodes, max_cores_per_slice,
                 ratio_type, plans, at, cursor, counting, main_thread_count, children>>

DNext ==
  \/ TopologyStep /\ UNCHANGED vars
  \/ BuildTopology
  \/ stage = "built" /\ Next /\ UNCHANGED topology
  \/ stage = "usage" /\ UNCHANGED <<topology, vars>>

DSpec == DInit /\ [][DNext]_<<topology, vars>>

-----------------------------------------------------------------------------
\* The device thread_runner() pins a test thread to.
DeviceOf(t) ==
  LET c == CHOOSE i \in DOMAIN children : Within(t, children[i].threads)
  IN children[c].devices.start + (t - children[c].threads.start) + 1

TestThreads == UNION {{t \in 0..(thread_count - 1) : Within(t, children[i].threads)} :
                        i \in DOMAIN children}

\* The report's view: a processor has failed if the thread with its index has.
HasFailedBy(failed) == {i \in 1..device_count : i - 1 \in failed}

\* mark_up_per_thread_fail()
PatternBy(failed) == [t \in 0..(device_count - 1) |-> IF t \in failed THEN 2^t ELSE 0]

-----------------------------------------------------------------------------
(***************************************************************************)
(* Properties.                                                             *)
(***************************************************************************)
Place(i) == hardware.place[device_info[i].cpu_number]

\* No boundary of this level lies between two positions.
Together(i, j, level) == \A d \in i..(j - 1) : change[d] < level

\* Whatever way the IDs were found, whatever --deviceset and --cpus left and in
\* whatever order the nodes were read: the packages, groups, modules and cores
\* that are cut out of device_info[] are those of the machine.
TopologyIsReal ==
  stage = "built" /\ valid =>
    \A j \in 1..device_count : \A i \in 1..(j - 1) :
      LET a == Place(i)
          b == Place(j)
          same_package == a.package = b.package
          same_group == same_package /\ a.node = b.node /\ a.die = b.die /\ a.type = b.type
      IN /\ Together(i, j, Package) <=> same_package
         /\ Together(i, j, Group)   <=> same_group
         /\ Together(i, j, Module)  <=> same_group /\ a.module = b.module
         /\ Together(i, j, Core)    <=> same_package /\ a.core = b.core

\* The processors an argument names, by what they are.
Named(arg) ==
  {lp \in hardware.enabled :
     LET p == hardware.place[lp]
     IN CASE arg.kind = "number" -> lp = arg.number
          [] arg.kind = "place"  -> /\ arg.package \in {-1, p.package}
                                    /\ arg.core \in {-1, p.core}
                                    /\ arg.thread \in {-1, p.thread}
          [] arg.kind = "parity" -> lp % 2 = arg.remainder
          [] arg.kind = "type"   -> p.type = arg.type}

NamedBy(param) == UNION {Named(param.args[k]) : k \in DOMAIN param.args}

\* A mock may know of fewer processors than there are.
Known ==
  IF hardware.mock = <<>> THEN hardware.enabled
  ELSE {lp \in hardware.enabled :
          Cardinality({l \in hardware.enabled : l < lp}) < Len(hardware.mock)}

\* The set options apply to one after the other.
Selected[k \in 0..Len(deviceset)] ==
  IF k = 0 THEN Known
  ELSE IF deviceset[k].remove THEN Selected[k - 1] \ NamedBy(deviceset[k])
       ELSE Selected[k - 1] \cap NamedBy(deviceset[k])

\* After any number of --deviceset options device_info[] has every processor that
\* they select, and no other, once.
DevicesetSelects ==
  stage = "deviceset" /\ IsValid =>
    /\ {device_info[i].cpu_number : i \in DOMAIN device_info} = Selected[applied]
    /\ Len(device_info) = Cardinality(Selected[applied])

\* Of these threads, the ones on processors of the same core as the i-th.
FailedInCore(failed, i) ==
  {t \in failed : /\ Place(DeviceOf(t)).package = Place(i).package
                  /\ Place(DeviceOf(t)).core = Place(i).core}

\* The mask has, for the core a processor belongs to, exactly the threads that
\* failed on it.
MaskIsRight(failed) ==
  \A i \in 1..device_count :
    \E c \in CoreStarts :
      /\ i \in ThreadsOfCore(c)
      /\ FailureMask(HasFailedBy(failed))[c] =
           {Place(DeviceOf(t)).thread : t \in FailedInCore(failed, i)}

\* The analysis names a core if and only if one of its threads failed, and tells
\* whether all did.
AnalysisIsRight(failed) ==
  \A c \in CoreStarts :
    LET verdict == CoreVerdict(PatternBy(failed), c)
        bad     == {DeviceOf(t) : t \in FailedInCore(failed, c)}
    IN /\ verdict = "passed" <=> bad = {}
       /\ verdict = "some threads" <=> bad # {} /\ bad # ThreadsOfCore(c)

\* As long as --thread-ratio does not take threads away: whichever one or two test
\* threads fail, in every plan a test can use, the failure mask and the analysis
\* blame the cores the threads ran on.
FailuresNameTheirCores ==
  valid /\ children # <<>> /\ (\A i \in DOMAIN children :
                                 children[i].threads.count = children[i].devices.count)
    => \A t, u \in TestThreads : MaskIsRight({t, u}) /\ AnalysisIsRight({t, u})
=============================================================================
