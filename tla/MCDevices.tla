----------------------------- MODULE MCDevices -----------------------------
(* Machines with up to eight processors: a server with two packages, one    *)
(* with two nodes in a package, one with dies, a hybrid, an ARM server, a   *)
(* virtual machine, a container without sysfs, and a mocked topology.       *)
(* Cards with and without tiles, alone or under a driver each, in nodes     *)
(* that alternate; accelerators with queues for users, for the kernel and   *)
(* disabled ones.                                                           *)
EXTENDS Builds, TLC

P(package, node, core_type, die, module, core, thread) ==
  [package |-> package, node |-> node, type |-> core_type, die |-> die,
   module |-> module, core |-> core, thread |-> thread]
Level1(domain, shift)  == [domain |-> domain, shift |-> shift]
Node(id, ranges)       == [id |-> id, cpulist |-> ranges]
R(a, b)                == [start |-> a, stop |-> b]
All(cpus, x)           == [c \in cpus |-> x]
Files(package, core, cluster, die, siblings) ==
  [package_id |-> package, core_id |-> core, cluster_id |-> cluster, die_id |-> die,
   siblings |-> siblings]
NoFiles == Files(-1, -1, -1, -1, <<>>)

Server ==   \* the processors of the second threads are numbered last
  LET cpus == 0..7
      pkg(c) == (c % 4) \div 2
      core(c) == c % 2
  IN [enabled |-> cpus, mock |-> <<>>, sysfs |-> All(cpus, NoFiles), hybrid |-> All(cpus, 0),
      levels |-> <<Level1("Logical", 1), Level1("Core", 2)>>,
      apicid |-> [c \in cpus |-> 4 * pkg(c) + 2 * core(c) + c \div 4],
      l2_sharing |-> All(cpus, 2),
      nodes |-> {Node(0, <<R(0, 1), R(4, 5)>>), Node(1, <<R(2, 3), R(6, 7)>>)},
      place |-> [c \in cpus |-> P(pkg(c), pkg(c), 0, 0, core(c), core(c), c \div 4)]]

TwoNodes == \* two cores share an L2 cache; numbers alternate between the nodes
  LET cpus == 0..3
      core == 0 :> 0 @@ 2 :> 1 @@ 1 :> 2 @@ 3 :> 3
  IN [enabled |-> cpus, mock |-> <<>>, sysfs |-> All(cpus, NoFiles), hybrid |-> All(cpus, 0),
      levels |-> <<Level1("Logical", 1), Level1("Core", 4)>>,
      apicid |-> [c \in cpus |-> 2 * core[c]],
      l2_sharing |-> All(cpus, 4),
      nodes |-> {Node(1, <<R(0, 0), R(2, 2)>>), Node(0, <<R(1, 1), R(3, 3)>>)},
      place |-> [c \in cpus |-> P(0, 1 - (c % 2), 0, 0, core[c] \div 2, core[c], 0)]]

Dies ==     \* CPUID knows of modules and dies
  LET cpus == 0..3
      apicid == 0 :> 0 @@ 1 :> 2 @@ 2 :> 8 @@ 3 :> 12
  IN [enabled |-> cpus, mock |-> <<>>, sysfs |-> All(cpus, NoFiles), hybrid |-> All(cpus, 0),
      levels |-> <<Level1("Logical", 1), Level1("Core", 2), Level1("Module", 3), Level1("Die", 4)>>,
      apicid |-> apicid, l2_sharing |-> All(cpus, 0), nodes |-> {Node(0, <<R(0, 3)>>)},
      place |-> [c \in cpus |-> P(0, 0, 0, apicid[c] \div 8, apicid[c] \div 4, apicid[c] \div 2, 0)]]

Hybrid ==   \* a core of two threads, a module of three small cores
  LET cpus == 0..4
      apicid == 0 :> 8 @@ 1 :> 10 @@ 2 :> 0 @@ 3 :> 1 @@ 4 :> 12
      kind == 0 :> 2 @@ 1 :> 2 @@ 2 :> 1 @@ 3 :> 1 @@ 4 :> 2
  IN [enabled |-> cpus, mock |-> <<>>, sysfs |-> All(cpus, NoFiles), hybrid |-> kind,
      levels |-> <<Level1("Logical", 1), Level1("Core", 5)>>,
      apicid |-> apicid, l2_sharing |-> [c \in cpus |-> IF kind[c] = 1 THEN 2 ELSE 8],
      nodes |-> {Node(0, <<R(0, 4)>>)},
      place |-> [c \in cpus |-> P(0, 0, kind[c], 0, IF kind[c] = 1 THEN 0 ELSE 1,
                                  apicid[c] \div 2, apicid[c] % 2)]]

Arm ==      \* no CPUID; the IDs are the firmware's
  LET cpus == 0..3
      cluster == 0 :> 10 @@ 1 :> 10 @@ 2 :> 12 @@ 3 :> 14
      pkg(c) == IF c < 2 THEN 3180 ELSE 36
  IN [enabled |-> cpus, mock |-> <<>>, hybrid |-> All(cpus, 0), levels |-> <<>>,
      apicid |-> All(cpus, 0), l2_sharing |-> All(cpus, 0),
      sysfs |-> [c \in cpus |-> Files(pkg(c), c % 2, cluster[c], -1, <<c>>)],
      nodes |-> {Node(1, <<R(0, 1)>>), Node(0, <<R(2, 3)>>)},
      place |-> [c \in cpus |-> P(pkg(c), IF c < 2 THEN 1 ELSE 0, 0, 0, cluster[c], c % 2, 0)]]

Virtual ==  \* CPUID without a shift for threads; neither clusters nor nodes
  LET cpus == 0..3
  IN [enabled |-> cpus, mock |-> <<>>, hybrid |-> All(cpus, 0),
      levels |-> <<Level1("Logical", 0), Level1("Core", 2)>>,
      apicid |-> [c \in cpus |-> c], l2_sharing |-> All(cpus, 0),
      sysfs |-> [c \in cpus |-> Files(0, c \div 2, -1, -1, <<2 * (c \div 2), 2 * (c \div 2) + 1>>)],
      nodes |-> {},
      place |-> [c \in cpus |-> P(0, 0, 0, 0, c \div 2, c \div 2, c % 2)]]

Flat ==     \* a virtual machine of five cores
  LET cpus == 0..4
  IN [enabled |-> cpus, mock |-> <<>>, hybrid |-> All(cpus, 0), levels |-> <<>>,
      apicid |-> All(cpus, 0), l2_sharing |-> All(cpus, 0),
      sysfs |-> [c \in cpus |-> Files(0, c, -1, 0, <<c>>)],
      nodes |-> {Node(0, <<R(0, 4)>>)},
      place |-> [c \in cpus |-> P(0, 0, 0, 0, c, c, 0)]]

\* A list for fewer processors than the machine has.
Entry(p, c, t) ==
  [package_id |-> p, numa_id |-> -1, native_core_type |-> 0, die_id |-> -1, module_id |-> -1,
   core_id |-> c, thread_id |-> t]
Mocked4 ==
  [Virtual EXCEPT !.enabled = 1..3 \cup {5, 7},
     !.mock = <<Entry(1, 0, 0), Entry(0, 1, 1), Entry(0, 0, 0), Entry(0, 1, 0)>>,
     !.place = 1 :> P(1, 1, 0, 0, 0, 0, 0) @@ 2 :> P(0, 0, 0, 0, 1, 1, 1)
               @@ 3 :> P(0, 0, 0, 0, 0, 0, 0) @@ 5 :> P(0, 0, 0, 0, 1, 1, 0)
               @@ 7 :> P(0, 0, 0, 0, 0, 0, 0)]

MCMachines ==
  {Server, [Server EXCEPT !.enabled = {1, 3, 4, 5, 7}], TwoNodes, Dies, Hybrid,
   Arm, [Arm EXCEPT !.enabled = 1..3], Virtual, Flat, [Arm EXCEPT !.sysfs = All(0..3, NoFiles)], Mocked4}

Number(n)      == [kind |-> "number", number |-> n]
At(p, c, t)    == [kind |-> "place", package |-> p, core |-> c, thread |-> t]
Parity(r)      == [kind |-> "parity", remainder |-> r]
OfType(t)      == [kind |-> "type", type |-> t]
Add(args)      == [remove |-> FALSE, args |-> args]
Remove(args)   == [remove |-> TRUE, args |-> args]

MCDevicesets ==
  {<<>>,
   <<Add(<<At(0, -1, -1)>>)>>,
   <<Add(<<At(-1, 1, -1), At(-1, 0, -1), Number(3)>>)>>,
   <<Add(<<At(-1, -1, 0)>>), Remove(<<Number(1)>>)>>,
   <<Add(<<Parity(1)>>)>>,
   <<Remove(<<Parity(0)>>)>>,
   <<Add(<<OfType(2)>>)>>,
   <<Remove(<<At(-1, 0, 0), Number(3)>>)>>,
   <<Add(<<Number(2), OfType(2)>>)>>}

MCCpuLimits    == {3, 8}
MCMaxCores     == {-1, 0, 1, 2}
MCThreadRatios == {[kind |-> "delta", n |-> -1], [kind |-> "ratio", num |-> 1, den |-> 2],
                   [kind |-> "ratio", num |-> 1, den |-> 1]}
-----------------------------------------------------------------------------
\* The other builds.
Card(bdf, tiles, node, local) ==
  [bdf |-> bdf, gpu |-> TRUE, tiles |-> tiles, numa_id |-> node, local |-> local]
Gpus(drivers) ==
  [drivers |-> drivers, flat |-> FALSE, cpus |-> 0..7, mock |-> 0, early |-> TRUE]
TwoTiles(bdf) == Card(bdf, 2, 0, 0..1)
Cards == Gpus(<<<<TwoTiles(1), Card(2, 0, 1, 4..5), TwoTiles(3)>>>>)
SmallCards == <<Card(1, 0, 0, 0..3), Card(2, 0, 1, {4}), Card(3, 0, 1, {4})>>
MCGpuMachines ==
  {Cards, [Cards EXCEPT !.early = FALSE], [Cards EXCEPT !.flat = TRUE],
   [Cards EXCEPT !.cpus = 0..3], Gpus(<<>>), Gpus(<<SmallCards, SmallCards>>),
   [Gpus(<<SmallCards>>) EXCEPT !.flat = TRUE],
   Gpus(<<<<[TwoTiles(7) EXCEPT !.gpu = FALSE]>>, Append(SmallCards, Card(4, 3, 1, {}))>>),
   [Gpus(<<>>) EXCEPT !.mock = 3]}

Wq(id, group, enabled, user, mode) ==
  [wq_id |-> id, group_id |-> group, enabled |-> enabled, user |-> user, mode |-> mode]
Dsa(id) == [id |-> id, type |-> "dsa", version |-> 2, ops |-> {"memmove", "crc_gen"},
            wqs |-> <<Wq(0, 0, TRUE, TRUE, "shared"), Wq(1, 1, TRUE, TRUE, "dedicated"),
                      Wq(2, 0, TRUE, FALSE, "shared")>>]
Iax(id) == [id |-> id, type |-> "iax", version |-> 1, ops |-> {"compress", "memmove"},
            wqs |-> <<Wq(0, 0, FALSE, TRUE, "shared"), Wq(4, 3, TRUE, TRUE, "dedicated")>>]
Accel(devices) == [devices |-> devices, cpus |-> 2..7, fails |-> FALSE, debug |-> FALSE]
MCIdxdMachines ==
  {Accel(<<Dsa(0), Iax(1)>>), [Accel(<<Dsa(0), Iax(1)>>) EXCEPT !.fails = TRUE],
   Accel(<<Iax(3), Dsa(0)>>), [Accel(<<Dsa(0)>>) EXCEPT !.debug = TRUE],
   [Accel(<<Dsa(0), Iax(1)>>) EXCEPT !.cpus = {0}], Accel(<<>>)}

Tile(n)         == [kind |-> "unit", number |-> n, cpu |-> NoCpu]
TileOn(n, cpu)  == [kind |-> "unit", number |-> n, cpu |-> cpu]
WqArg(d, q)     == [kind |-> "unit", device |-> d, wq |-> q, cpu |-> NoCpu]
WqOn(d, q, cpu) == [WqArg(d, q) EXCEPT !.cpu = cpu]
DeviceArg(t, d) == [kind |-> "device", type |-> t, device |-> d, wq |-> 0, cpu |-> NoCpu]
Other           == [kind |-> "other", device |-> 0, wq |-> 0, cpu |-> NoCpu]
Malformed       == [kind |-> "malformed", number |-> 0, device |-> 0, wq |-> 0, cpu |-> NoCpu]
Keep(args)      == [remove |-> FALSE, args |-> args]
Drop(args)      == [remove |-> TRUE, args |-> args]

MCUnitSets ==
  [gpu  |-> {<<>>, <<Keep(<<Tile(3), Tile(0), Tile(1)>>)>>,
             <<Keep(<<Tile(4), TileOn(4, 2), TileOn(2, 7)>>), Drop(<<Tile(2)>>)>>,
             <<Drop(<<Tile(1), Other, Tile(1)>>), Keep(<<Tile(2), Tile(0)>>)>>,
             <<Keep(<<TileOn(0, 9)>>)>>, <<Keep(<<Malformed>>)>>,
             <<Keep(<<Tile(1)>>), Drop(<<Tile(1)>>)>>},
   idxd |-> {<<>>, <<Keep(<<WqArg(0, 2), DeviceArg("dsa", 0)>>)>>,
             <<Keep(<<DeviceArg("dsa", 0), WqArg(0, 2)>>), Drop(<<WqOn(0, 2, 5)>>)>>,
             <<Drop(<<DeviceArg("dsa", 0)>>)>>, <<Keep(<<DeviceArg("iax", 0)>>)>>,
             <<Drop(<<WqArg(0, 0), WqArg(0, 1)>>)>>,
             <<Keep(<<WqOn(1, 4, 3), WqArg(0, 1), WqArg(1, 0)>>)>>, <<Keep(<<Malformed>>)>>}]
=============================================================================
