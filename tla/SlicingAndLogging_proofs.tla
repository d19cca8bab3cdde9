---------------------- MODULE SlicingAndLogging_proofs ----------------------
(***************************************************************************)
(* Proofs about Slicing, for every number of devices, every topology and   *)
(* all values of the options; and about Logging, for any calls of any      *)
(* threads and all sizes.                                                  *)
(***************************************************************************)
EXTENDS Slicing, Logging, FiniteSetTheorems, SequenceTheorems, TLAPS

\* The ranges of s are in order, disjoint and not empty, and end at c at most.
Disjoint(s, c) ==
  /\ \A i \in DOMAIN s : s[i].count >= 1 /\ Upto(s[i]) <= c
  /\ \A i, j \in DOMAIN s : i < j => Upto(s[i]) <= s[j].start

\* They contain all numbers below c.
Covers(s, c) == \A d \in 0..(c - 1) : \E i \in DOMAIN s : Within(d, s[i])

Filled(s, c) == Disjoint(s, c) /\ Covers(s, c)

\* No range of s starts within a module.
Uncut(s) == \A i \in DOMAIN s : s[i].start \in Starts(Module)

\* Every range of s would be small enough without its last module.
Bounded(s) ==
  \A i \in DOMAIN s : \A m \in Starts(Module) :
    s[i].start < m /\ m < Upto(s[i]) => Cores(s[i].start, m) < max_cores_per_slice

\* The plans are in order of their lengths, but for the ranges just pushed.
Lens(a, b) == Len(plans[IsolateSockets]) <= Len(plans[IsolateCoreGroup]) + a
              /\ Len(plans[IsolateCoreGroup]) <= Len(plans[Heuristic]) + b

\* How far each plan has come, and the boundary at which the cursor is.
StartInv ==
  at = "start" => /\ begin = 0 /\ pkg_end = 0
                  /\ \A t \in Type : plans[t] = <<>>
DevicesInv ==
  at = "devices" => /\ begin < device_count /\ slice_size >= 1 /\ pkg_end = 0
                    /\ \A t \in Type : Filled(plans[t], begin)
                    /\ Lens(0, 0)
PackageInv ==
  at = "package" => /\ begin \in Starts(Package) \cup {device_count}
                    /\ \A t \in Type : Filled(plans[t], begin) /\ Uncut(plans[t])
                    /\ Lens(0, 0)
GroupInv ==
  at = "group" => /\ begin \in Starts(Group) /\ begin < pkg_end
                  /\ pkg_end \in Starts(Package) \cup {device_count}
                  /\ Filled(plans[IsolateSockets], pkg_end)
                  /\ Filled(plans[IsolateCoreGroup], begin)
                  /\ Filled(plans[Heuristic], begin)
                  /\ \A t \in Type : Uncut(plans[t])
                  /\ Lens(1, 0)
SplitInv ==
  at = "split" => /\ begin \in Starts(Module) /\ begin < end /\ end <= pkg_end
                  /\ end \in Starts(Group) \cup {device_count}
                  /\ pkg_end \in Starts(Package) \cup {device_count}
                  /\ Filled(plans[IsolateSockets], pkg_end)
                  /\ Filled(plans[IsolateCoreGroup], end)
                  /\ Filled(plans[Heuristic], begin)
                  /\ \A t \in Type : Uncut(plans[t])
                  /\ Lens(0, 1)
PlannedInv ==
  at \in {"threads", "commit", "ready"} =>
    /\ \A t \in Type : Filled(plans[t], device_count)
    /\ pkg_end > 0 => \A t \in Type : Uncut(plans[t])
    /\ Lens(0, 0)

SizedInv ==
  /\ at \in {"package", "group", "split"} =>
       max_cores_per_slice >= 1 /\ Bounded(plans[Heuristic])
  /\ at = "split" => slice_size <= max_cores_per_slice
  /\ at \in {"threads", "commit", "ready"} /\ pkg_end > 0 => Bounded(plans[Heuristic])

Planning == {"start", "devices", "package", "group", "split"}

\* Threads are counted plan by plan, not more than there are devices so far.
ThreadRangesInv ==
  \A t \in Type :
    /\ Len(threads[t]) <= Len(plans[t])
    /\ \A i \in DOMAIN threads[t] : threads[t][i].count <= plans[t][i].count
CountingInv ==
  /\ at \in Planning => /\ \A t \in Type : threads[t] = <<>>
                        /\ type = IsolateSockets /\ thread_offset = 0
  /\ at = "threads" =>
       /\ \A t \in Type : t < type => /\ Len(threads[t]) = Len(plans[t])
                                      /\ Disjoint(threads[t], thread_count)
       /\ \A t \in Type : t > type => threads[t] = <<>>
       /\ Disjoint(threads[type], thread_offset)
       /\ thread_offset <= IF threads[type] = <<>> THEN 0
                           ELSE Upto(plans[type][Len(threads[type])])
  /\ at \in {"commit", "ready"} =>
       \A t \in Type : /\ Len(threads[t]) = Len(plans[t])
                       /\ Disjoint(threads[t], thread_count)
  /\ thread_count >= 1 /\ thread_count <= device_count

MainInv ==
  /\ at = "ready" => main_thread_count = Len(plans[Heuristic])
  /\ at # "ready" => children = <<>>

PlanInv == StartInv /\ DevicesInv /\ PackageInv /\ GroupInv /\ SplitInv /\ PlannedInv
           /\ SizedInv

ChildrenInv == EveryDeviceOnce /\ ThreadsAreDisjoint /\ ThreadsHaveDevices /\ MainDataFits

IInv == TypeOK /\ PlanInv /\ ThreadRangesInv /\ CountingInv /\ MainInv /\ ChildrenInv
-----------------------------------------------------------------------------
LEMMA CeilDivPositive ==
  ASSUME NEW a \in Nat \ {0}, NEW b \in Nat \ {0}
  PROVE  CeilDiv(a, b) \in Nat \ {0}
BY DEF CeilDiv

\* There is at least one thread for a slice and not more than its devices.
LEMMA ThreadsForBounds ==
  ASSUME ratio_type \in ThreadRatios, NEW n \in Nat \ {0}
  PROVE  ThreadsFor(n) \in Nat /\ ThreadsFor(n) >= 1 /\ ThreadsFor(n) <= n
<1>1. CASE ratio_type.kind = "delta"
  BY <1>1, RatioAssumption DEF ThreadsFor, RawCount
<1>2. CASE ratio_type.kind = "ratio"
  <2> DEFINE num == ratio_type.num  den == ratio_type.den  q == (n * num) \div den
  <2>1. num \in Nat /\ den \in Nat \ {0} /\ num <= den
    BY <1>2, RatioAssumption
  <2>2. n * num \in Nat /\ n * den \in Nat /\ n * num <= n * den
    BY <2>1
  <2>3. q \in Nat /\ q <= n
    BY <2>1, <2>2
  <2> QED  BY <1>2, <2>3 DEF ThreadsFor, RawCount
<1>3. ratio_type.kind \in {"delta", "ratio"}
  BY RatioAssumption
<1> QED  BY <1>1, <1>2, <1>3

\* Appending the next range.
LEMMA AppendDisjoint ==
  ASSUME NEW s \in Seq(Ranges), NEW c \in Nat, Disjoint(s, c),
         NEW r \in Ranges, r.start = c, r.count >= 1
  PROVE  Disjoint(Append(s, r), Upto(r))
<1> DEFINE n == Len(s) + 1  u == Append(s, r)
<1>1. /\ DOMAIN u = 1..n /\ u[n] = r
      /\ \A i \in 1..Len(s) : u[i] = s[i] /\ s[i] \in Ranges
      /\ DOMAIN s = 1..Len(s) /\ Len(s) \in Nat
  OBVIOUS
<1>2. \A i \in 1..n : i # n => i \in 1..Len(s)
  BY <1>1
<1>3. \A i \in DOMAIN u : u[i].count >= 1 /\ Upto(u[i]) <= Upto(r)
  BY <1>1, <1>2 DEF Disjoint, Upto, Ranges
<1>4. \A i, j \in DOMAIN u : i < j => Upto(u[i]) <= u[j].start
  BY <1>1, <1>2 DEF Disjoint, Upto, Ranges
<1> QED  BY <1>3, <1>4 DEF Disjoint

LEMMA AppendFilled ==
  ASSUME NEW s \in Seq(Ranges), NEW a \in Nat, NEW b \in Nat, a < b, Filled(s, a)
  PROVE  /\ Append(s, Span(a, b)) \in Seq(Ranges)
         /\ Filled(Append(s, Span(a, b)), b)
<1> DEFINE r == Span(a, b)  n == Len(s) + 1  u == Append(s, r)
<1>1. r \in Ranges /\ r.start = a /\ r.count >= 1 /\ Upto(r) = b
  BY DEF Span, Ranges, Upto
<1>2. Disjoint(u, b)
  BY <1>1, AppendDisjoint DEF Filled
<1>3. /\ DOMAIN u = 1..n /\ u[n] = r /\ n \in DOMAIN u
      /\ \A i \in DOMAIN s : i \in DOMAIN u /\ u[i] = s[i]
  BY <1>1
<1>4. Covers(u, b)
  <2> SUFFICES ASSUME NEW d \in 0..(b - 1)  PROVE \E i \in DOMAIN u : Within(d, u[i])
    BY DEF Covers
  <2>1. CASE d < a
    BY <2>1, <1>3 DEF Filled, Covers
  <2>2. CASE d >= a
    <3>1. Within(d, u[n])  BY <2>2, <1>1, <1>3 DEF Within
    <3> QED  BY <3>1, <1>3
  <2> QED  BY <2>1, <2>2
<1> QED  BY <1>1, <1>2, <1>4 DEF Filled

LEMMA AppendUncut ==
  ASSUME NEW s \in Seq(Ranges), NEW a \in Nat, NEW b \in Nat, a < b,
         Uncut(s), a \in Starts(Module)
  PROVE  Uncut(Append(s, Span(a, b)))
<1> DEFINE r == Span(a, b)  n == Len(s) + 1  u == Append(s, r)
<1>1. r \in Ranges /\ r.start = a
  BY DEF Span, Ranges
<1>2. DOMAIN u = 1..n /\ \A i \in 1..n : i # n => i \in DOMAIN s /\ u[i] = s[i]
  BY <1>1
<1>3. u[n].start = a
  BY <1>1
<1> QED  BY <1>2, <1>3 DEF Uncut

\* Packages begin groups, groups begin modules, modules begin cores.
LEMMA StartsNested ==
  ASSUME TypeOK
  PROVE  /\ Starts(Package) \subseteq Starts(Group)
         /\ Starts(Group) \subseteq Starts(Module)
         /\ Starts(Module) \subseteq Starts(Core)
         /\ Starts(Core) \subseteq 0..(device_count - 1)
<1>0. device_count \in Nat \ {0} /\ change \in [1..(device_count - 1) -> 0..4]
  BY BoundAssumption DEF TypeOK, Level
<1>1. device_count \in Nat \ {0} /\ \A d \in 1..(device_count - 1) : change[d] \in Int
  BY <1>0
<1>2. 0 \in 0..(device_count - 1) /\ 1..(device_count - 1) \subseteq 0..(device_count - 1)
  BY <1>1
<1>3. Starts(Package) \subseteq Starts(Group)
  BY <1>1 DEF Starts, Group, Package
<1>4. Starts(Group) \subseteq Starts(Module)
  BY <1>1 DEF Starts, Group, Module
<1>5. Starts(Module) \subseteq Starts(Core)
  BY <1>1 DEF Starts, Core, Module
<1>6. Starts(Core) \subseteq 0..(device_count - 1)
  BY <1>2 DEF Starts
<1> QED  BY <1>3, <1>4, <1>5, <1>6

\* A sequence that fills 0..n-1 covers each number once.
LEMMA FilledOnce ==
  ASSUME NEW s \in Seq(Ranges), NEW n \in Nat, Filled(s, n), NEW d \in 0..(n - 1)
  PROVE  \E i \in DOMAIN s : /\ Within(d, s[i])
                             /\ \A j \in DOMAIN s \ {i} : ~Within(d, s[j])
<1>1. PICK i \in DOMAIN s : Within(d, s[i])
  BY DEF Filled, Covers
<1>2. ASSUME NEW j \in DOMAIN s \ {i}  PROVE ~Within(d, s[j])
  <2>1. s[i] \in Ranges /\ s[j] \in Ranges /\ i \in Nat /\ j \in Nat
    OBVIOUS
  <2>2. Upto(s[i]) <= s[j].start \/ Upto(s[j]) <= s[i].start
    BY <2>1 DEF Filled, Disjoint
  <2> QED  BY <1>1, <2>1, <2>2 DEF Within, Upto, Ranges
<1> QED  BY <1>1, <1>2

\* A slice of the heuristic has no more cores than the option says.
LEMMA SliceSizeBound ==
  ASSUME NEW n \in Nat \ {0}, max_cores_per_slice \in Nat \ {0}
  PROVE  SliceSize(n) \in Nat \ {0} /\ SliceSize(n) <= max_cores_per_slice
<1> DEFINE m == max_cores_per_slice  k == CeilDiv(n, m)  q == (n + k - 1) \div k
<1>1. k \in Nat \ {0} /\ q \in Nat \ {0}
  BY CeilDivPositive DEF CeilDiv
<1>2. n <= k * m
  BY DEF CeilDiv
<1>3. k * q <= n + k - 1
  BY <1>1
<1>4. k * q < k * (m + 1)
  BY <1>1, <1>2, <1>3
<1>5. q <= m
  BY <1>1, <1>4
<1> QED  BY <1>1, <1>5 DEF SliceSize, CeilDiv

\* There is a core at the beginning of a group.
LEMMA CoresPositive ==
  ASSUME TypeOK, NEW a \in Starts(Core), NEW b \in Nat, a < b
  PROVE  Cores(a, b) \in Nat \ {0}
<1> DEFINE S == {d \in Starts(Core) : a <= d /\ d < b}
<1>1. a \in S /\ S \subseteq 0..(device_count - 1)
  BY StartsNested
<1>2. IsFiniteSet(S)
  <2>1. 0 \in Int /\ device_count - 1 \in Int
    BY DEF TypeOK
  <2> QED  BY <1>1, <2>1, FS_Interval, FS_Subset
<1>3. Cardinality(S) \in Nat /\ Cardinality(S) # 0
  BY <1>1, <1>2, FS_CardinalityType, FS_EmptySet
<1> QED  BY <1>3 DEF Cores
-----------------------------------------------------------------------------
\* The initial states satisfy the invariant.
LEMMA InitIInv == Init => IInv
<1> SUFFICES ASSUME Init  PROVE IInv
  OBVIOUS
<1> USE DEF Init, PlanInit
<1>1. TypeOK
  BY BoundAssumption, OptionAssumption
     DEF TypeOK, Type, IsolateSockets, IsolateCoreGroup, Heuristic
<1>2. PlanInv
  BY DEF PlanInv, StartInv, DevicesInv, PackageInv, GroupInv, SplitInv, PlannedInv, SizedInv
<1>3. ThreadRangesInv
  BY DEF ThreadRangesInv
<1>4. CountingInv
  BY BoundAssumption DEF CountingInv, Planning
<1>5. MainInv /\ ChildrenInv
  BY DEF MainInv, ChildrenInv, EveryDeviceOnce, ThreadsAreDisjoint, ThreadsHaveDevices,
         MainDataFits
<1> QED  BY <1>1, <1>2, <1>3, <1>4, <1>5 DEF IInv

\* As long as there are only plans, nothing is to be shown of the threads.
LEMMA PlanningStep ==
  ASSUME IInv, TypeOK', at \in Planning, at' \in Planning \cup {"threads"},
         UNCHANGED <<machine, counting, main_thread_count, children>>
  PROVE  ThreadRangesInv' /\ CountingInv' /\ MainInv' /\ ChildrenInv'
<1> USE DEF IInv, machine, counting
<1>1. /\ threads \in [Type -> Seq(Ranges)] /\ plans' \in [Type -> Seq(Ranges)]
      /\ \A t \in Type : threads[t] = <<>>
      /\ type = 0 /\ thread_offset = 0 /\ thread_count >= 1 /\ thread_count <= device_count
  BY DEF TypeOK, CountingInv, IsolateSockets
<1>2. ThreadRangesInv'
  BY <1>1 DEF ThreadRangesInv
<1>3. CountingInv'
  <2>1. Disjoint(threads[type], 0)
    BY <1>1 DEF Disjoint, Type
  <2>2. ~ \E t \in Type : t < type
    BY <1>1 DEF Type
  <2>3. threads[type] = <<>>
    BY <1>1 DEF Type
  <2> QED  BY <1>1, <2>1, <2>2, <2>3 DEF CountingInv, Planning, Disjoint, IsolateSockets
<1>4. MainInv' /\ ChildrenInv'
  <2>1. children = <<>>
    BY DEF MainInv, Planning
  <2>2. at' # "ready"
    BY DEF Planning
  <2> QED
    BY <2>1, <2>2 DEF MainInv, ChildrenInv, EveryDeviceOnce, ThreadsAreDisjoint,
                      ThreadsHaveDevices, MainDataFits
<1> QED  BY <1>2, <1>3, <1>4

\* What an action leaves alone of the topology keeps its boundaries.
LEMMA SameTopology ==
  ASSUME UNCHANGED machine
  PROVE  /\ Starts(Package)' = Starts(Package) /\ Starts(Group)' = Starts(Group)
         /\ Starts(Module)' = Starts(Module) /\ Starts(Core)' = Starts(Core)
BY DEF machine, Starts, Package, Group, Module, Core

LEMMA UseFullSystemStep ==
  ASSUME IInv, UseFullSystem
  PROVE  TypeOK' /\ PlanInv'
<1> USE DEF IInv, UseFullSystem, machine, cursor, counting
<1>1. /\ begin = 0 /\ pkg_end = 0 /\ plans \in [Type -> Seq(Ranges)]
      /\ device_count \in Nat \ {0} /\ \A t \in Type : plans[t] = <<>>
  BY BoundAssumption DEF TypeOK, PlanInv, StartInv
<1> DEFINE none == plans[IsolateSockets]
           one  == Append(none, Span(0, device_count))
<1>2. Filled(none, 0) /\ none \in Seq(Ranges)
  BY <1>1 DEF Filled, Disjoint, Covers, Type, IsolateSockets
<1>3. one \in Seq(Ranges) /\ Filled(one, device_count)
  <2> HIDE DEF none
  <2> QED  BY <1>1, <1>2, AppendFilled
<1>4. plans' = [t \in Type |-> one]
  BY <1>1 DEF PushToAll, Type, IsolateSockets
<1>5. TypeOK'
  BY <1>3, <1>4 DEF TypeOK
<1>6. PlannedInv'
  <2>1. \A t \in Type : plans'[t] = one
    BY <1>4
  <2>2. Lens(0, 0)'
    BY <1>3, <2>1 DEF Lens, Type, IsolateSockets, IsolateCoreGroup, Heuristic
  <2>3. pkg_end' = 0 /\ device_count' = device_count
    BY <1>1
  <2>4. \A t \in Type : Filled(plans[t], device_count)'
    BY <1>3, <2>1, <2>3
  <2> HIDE DEF one, IInv, UseFullSystem
  <2> QED  BY <2>2, <2>3, <2>4 DEF PlannedInv
<1> QED
  BY <1>1, <1>5, <1>6
     DEF PlanInv, StartInv, DevicesInv, PackageInv, GroupInv, SplitInv, SizedInv

LEMMA UseTopologyStep ==
  ASSUME IInv, UseTopology
  PROVE  TypeOK' /\ PlanInv'
<1> USE DEF IInv, UseTopology, machine, cursor, counting
<1>1. /\ begin = 0 /\ pkg_end = 0 /\ \A t \in Type : plans[t] = <<>>
      /\ max_cores_per_slice' \in Nat \ {0}
  BY DefaultAssumption DEF TypeOK, PlanInv, StartInv
<1>2. TypeOK'
  BY <1>1 DEF TypeOK
<1>3. PackageInv'
  <2>1. \A t \in Type : Filled(plans[t], begin)' /\ Uncut(plans[t])'
    BY <1>1 DEF Filled, Disjoint, Covers, Uncut
  <2>2. Lens(0, 0)'
    BY <1>1 DEF Lens, Type, IsolateSockets, IsolateCoreGroup, Heuristic
  <2>3. begin' \in Starts(Package)'
    BY <1>1 DEF Starts
  <2> QED  BY <2>1, <2>2, <2>3 DEF PackageInv
<1>4. SizedInv'
  BY <1>1 DEF SizedInv, Bounded, Type, Heuristic
<1> QED
  BY <1>2, <1>3, <1>4
     DEF PlanInv, StartInv, DevicesInv, GroupInv, SplitInv, PlannedInv

LEMMA UseDevicesStep ==
  ASSUME IInv, UseDevices
  PROVE  TypeOK' /\ PlanInv'
<1> USE DEF IInv, UseDevices, machine, cursor, counting
<1>1. /\ begin = 0 /\ pkg_end = 0 /\ device_count \in Nat \ {0}
      /\ \A t \in Type : plans[t] = <<>>
      /\ max_cores_per_slice' \in Nat \ {0}
  BY BoundAssumption, DefaultAssumption DEF TypeOK, PlanInv, StartInv
<1>2. slice_size' \in Nat \ {0}
  BY <1>1, CeilDivPositive
<1>3. TypeOK'
  BY <1>1, <1>2 DEF TypeOK
<1>4. DevicesInv'
  <2>1. \A t \in Type : Filled(plans[t], begin)'
    BY <1>1 DEF Filled, Disjoint, Covers
  <2>2. Lens(0, 0)'
    BY <1>1 DEF Lens, Type, IsolateSockets, IsolateCoreGroup, Heuristic
  <2> QED  BY <1>1, <1>2, <2>1, <2>2 DEF DevicesInv
<1> QED
  BY <1>3, <1>4 DEF PlanInv, StartInv, PackageInv, GroupInv, SplitInv, PlannedInv, SizedInv

LEMMA PushDevicesStep ==
  ASSUME IInv, PushDevices
  PROVE  TypeOK' /\ PlanInv'
<1> DEFINE e == IF begin < device_count - slice_size THEN begin + slice_size
                ELSE device_count
<1>1. /\ at = "devices" /\ PushToAll(begin, e) /\ begin' = e
      /\ at' = IF e = device_count THEN "threads" ELSE "devices"
      /\ UNCHANGED <<machine, max_cores_per_slice, pkg_end, end, slice_size, counting,
                     main_thread_count, children>>
  BY DEF PushDevices
<1>2. /\ begin \in Nat /\ device_count \in Nat /\ begin < device_count
      /\ slice_size \in Nat /\ slice_size >= 1 /\ pkg_end = 0
      /\ \A t \in Type : plans[t] \in Seq(Ranges) /\ Filled(plans[t], begin)
      /\ plans \in [Type -> Seq(Ranges)]
      /\ Lens(0, 0)
  BY <1>1, BoundAssumption DEF IInv, TypeOK, PlanInv, DevicesInv
<1>3. e \in Nat /\ begin < e /\ e <= device_count
  BY <1>2
<1> HIDE DEF e
<1>4. \A t \in Type : /\ plans'[t] = Append(plans[t], Span(begin, e))
                      /\ plans'[t] \in Seq(Ranges)
                      /\ Filled(plans'[t], e)
  BY <1>1, <1>2, <1>3, AppendFilled DEF PushToAll
<1>5. plans' \in [Type -> Seq(Ranges)]
  BY <1>1, <1>4 DEF PushToAll
<1>6. TypeOK'
  BY <1>1, <1>2, <1>3, <1>5 DEF IInv, TypeOK, machine, counting
<1>7. Lens(0, 0)'
  <2>1. \A t \in Type : Len(plans'[t]) = Len(plans[t]) + 1 /\ Len(plans[t]) \in Nat
    BY <1>2, <1>4
  <2> QED  BY <1>2, <2>1 DEF Lens, Type, IsolateSockets, IsolateCoreGroup, Heuristic
<1>8. /\ \A t \in Type : Filled(plans[t], begin)'
      /\ begin' = e /\ pkg_end' = 0 /\ slice_size' >= 1 /\ device_count' = device_count
  BY <1>1, <1>2, <1>4 DEF machine
<1>9. CASE e = device_count
  <2>1. at' = "threads" /\ \A t \in Type : Filled(plans[t], device_count)'
    BY <1>1, <1>8, <1>9
  <2> QED
    BY <1>6, <1>7, <1>8, <2>1
       DEF PlanInv, StartInv, DevicesInv, PackageInv, GroupInv, SplitInv, PlannedInv, SizedInv
<1>10. CASE e # device_count
  <2>1. at' = "devices" /\ begin' < device_count'
    BY <1>1, <1>2, <1>3, <1>8, <1>10
  <2> QED
    BY <1>6, <1>7, <1>8, <2>1
       DEF PlanInv, StartInv, DevicesInv, PackageInv, GroupInv, SplitInv, PlannedInv, SizedInv
<1> QED  BY <1>9, <1>10

\* Uncut and Bounded ask about the topology and the option only.
LEMMA SameModules ==
  ASSUME UNCHANGED machine
  PROVE  /\ \A t \in Type : Uncut(plans'[t]) => Uncut(plans[t])'
         /\ UNCHANGED max_cores_per_slice /\ Bounded(plans'[Heuristic])
              => Bounded(plans[Heuristic])'
<1>1. /\ Starts(Module)' = Starts(Module)
      /\ \A a, b : Cores(a, b)' = Cores(a, b)
  BY SameTopology DEF Cores
<1>2. \A t \in Type : Uncut(plans'[t]) => Uncut(plans[t])'
  BY <1>1 DEF Uncut
<1>3. UNCHANGED max_cores_per_slice /\ Bounded(plans'[Heuristic]) => Bounded(plans[Heuristic])'
  BY <1>1 DEF Bounded, Heuristic
<1> QED  BY <1>2, <1>3

LEMMA PushPackageStep ==
  ASSUME IInv, PushPackage
  PROVE  TypeOK' /\ PlanInv'
<1>1. PICK e \in 1..device_count :
        IsNext(e, begin, Package) /\ PushTo(IsolateSockets, begin, e) /\ pkg_end' = e
  BY DEF PushPackage
<1>2. /\ at = "package" /\ begin < device_count /\ at' = "group"
      /\ UNCHANGED <<machine, max_cores_per_slice, begin, end, slice_size, counting,
                     main_thread_count, children>>
  BY DEF PushPackage
<1>3. /\ TypeOK /\ plans \in [Type -> Seq(Ranges)]
      /\ \A t \in Type : Filled(plans[t], begin) /\ Uncut(plans[t])
      /\ Lens(0, 0) /\ Bounded(plans[Heuristic]) /\ max_cores_per_slice >= 1
      /\ begin \in Starts(Package) \cup {device_count}
  BY <1>2 DEF IInv, TypeOK, PlanInv, PackageInv, SizedInv
<1>4. begin \in Starts(Package) /\ device_count \in Nat /\ e \in Nat /\ e <= device_count
      /\ begin \in Nat
  BY <1>2, <1>3 DEF TypeOK
<1>5. begin \in Starts(Group) /\ begin \in Starts(Module)
      /\ e \in Starts(Package) \cup {device_count} /\ begin < e
  BY <1>1, <1>3, <1>4, StartsNested DEF IsNext
<1> DEFINE u == Append(plans[IsolateSockets], Span(begin, e))
<1>6. u \in Seq(Ranges) /\ Filled(u, e) /\ Uncut(u)
  BY <1>3, <1>4, <1>5, AppendFilled, AppendUncut DEF Type, IsolateSockets
<1>7. /\ plans' = [plans EXCEPT ![IsolateSockets] = u]
      /\ plans' \in [Type -> Seq(Ranges)]
      /\ plans'[IsolateSockets] = u
      /\ plans'[IsolateCoreGroup] = plans[IsolateCoreGroup]
      /\ plans'[Heuristic] = plans[Heuristic]
  BY <1>1, <1>3, <1>6 DEF PushTo, Type, IsolateSockets, IsolateCoreGroup, Heuristic
<1>8. TypeOK'
  BY <1>1, <1>2, <1>3, <1>4, <1>7 DEF TypeOK, machine, counting
<1>9. Lens(1, 0)'
  <2>1. Len(u) = Len(plans[IsolateSockets]) + 1
        /\ \A t \in Type : Len(plans[t]) \in Nat
    BY <1>3 DEF Type, IsolateSockets
  <2> QED  BY <1>3, <1>7, <2>1 DEF Lens, Type, IsolateSockets, IsolateCoreGroup, Heuristic
<1>10. \A t \in Type : Uncut(plans[t])'
  <2>1. \A t \in Type : Uncut(plans'[t])
    BY <1>3, <1>6, <1>7
  <2> QED  BY <1>2, <2>1, SameModules
<1>11. GroupInv'
  <2>1. Filled(plans[IsolateSockets], pkg_end)' /\ Filled(plans[IsolateCoreGroup], begin)'
        /\ Filled(plans[Heuristic], begin)'
    BY <1>1, <1>2, <1>3, <1>6, <1>7 DEF Type, IsolateSockets, IsolateCoreGroup, Heuristic
  <2>2. begin' \in Starts(Group)' /\ begin' < pkg_end'
        /\ pkg_end' \in Starts(Package)' \cup {device_count'}
    BY <1>1, <1>2, <1>5, SameTopology DEF machine
  <2> QED  BY <1>9, <1>10, <2>1, <2>2 DEF GroupInv
<1>12. SizedInv'
  BY <1>2, <1>3, <1>7, SameModules DEF SizedInv
<1> QED
  BY <1>2, <1>8, <1>11, <1>12
     DEF PlanInv, StartInv, DevicesInv, PackageInv, SplitInv, PlannedInv

LEMMA PushGroupStep ==
  ASSUME IInv, PushGroup
  PROVE  TypeOK' /\ PlanInv'
<1>1. PICK e \in 1..device_count :
        /\ IsNext(e, begin, Group) /\ PushTo(IsolateCoreGroup, begin, e) /\ end' = e
        /\ slice_size' = SliceSize(Cores(begin, e))
  BY DEF PushGroup
<1>2. /\ at = "group" /\ at' = "split"
      /\ UNCHANGED <<machine, max_cores_per_slice, begin, pkg_end, counting,
                     main_thread_count, children>>
  BY DEF PushGroup
<1>3. /\ TypeOK /\ plans \in [Type -> Seq(Ranges)]
      /\ begin \in Starts(Group) /\ begin < pkg_end
      /\ pkg_end \in Starts(Package) \cup {device_count}
      /\ Filled(plans[IsolateSockets], pkg_end)
      /\ Filled(plans[IsolateCoreGroup], begin)
      /\ Filled(plans[Heuristic], begin)
      /\ \A t \in Type : Uncut(plans[t])
      /\ Lens(1, 0) /\ Bounded(plans[Heuristic])
      /\ max_cores_per_slice \in Nat \ {0}
  BY <1>2 DEF IInv, TypeOK, PlanInv, GroupInv, SizedInv
<1>4. device_count \in Nat /\ e \in Nat /\ e <= device_count /\ begin \in Nat
      /\ pkg_end \in Nat
  BY <1>3 DEF TypeOK
<1>5. /\ begin \in Starts(Module) /\ begin \in Starts(Core)
      /\ e \in Starts(Group) \cup {device_count} /\ begin < e /\ e <= pkg_end
  BY <1>1, <1>3, <1>4, StartsNested DEF IsNext
<1> DEFINE u == Append(plans[IsolateCoreGroup], Span(begin, e))
<1>6. u \in Seq(Ranges) /\ Filled(u, e) /\ Uncut(u)
  BY <1>3, <1>4, <1>5, AppendFilled, AppendUncut DEF Type, IsolateCoreGroup
<1>7. /\ plans' = [plans EXCEPT ![IsolateCoreGroup] = u]
      /\ plans' \in [Type -> Seq(Ranges)]
      /\ plans'[IsolateSockets] = plans[IsolateSockets]
      /\ plans'[IsolateCoreGroup] = u
      /\ plans'[Heuristic] = plans[Heuristic]
  BY <1>1, <1>3, <1>6 DEF PushTo, Type, IsolateSockets, IsolateCoreGroup, Heuristic
<1>8. slice_size' \in Nat \ {0} /\ slice_size' <= max_cores_per_slice
  BY <1>1, <1>3, <1>4, <1>5, CoresPositive, SliceSizeBound
<1>9. TypeOK'
  BY <1>1, <1>2, <1>3, <1>4, <1>7, <1>8 DEF TypeOK, machine, counting
<1>10. Lens(0, 1)'
  <2>1. Len(u) = Len(plans[IsolateCoreGroup]) + 1
        /\ \A t \in Type : Len(plans[t]) \in Nat
    BY <1>3 DEF Type, IsolateCoreGroup
  <2> QED  BY <1>3, <1>7, <2>1 DEF Lens, Type, IsolateSockets, IsolateCoreGroup, Heuristic
<1>11. \A t \in Type : Uncut(plans[t])'
  <2>1. \A t \in Type : Uncut(plans'[t])
    BY <1>3, <1>6, <1>7
  <2> QED  BY <1>2, <2>1, SameModules
<1>12. SplitInv'
  <2>1. Filled(plans[IsolateSockets], pkg_end)' /\ Filled(plans[IsolateCoreGroup], end)'
        /\ Filled(plans[Heuristic], begin)'
    BY <1>1, <1>2, <1>3, <1>6, <1>7
  <2>2. begin' \in Starts(Module)' /\ begin' < end' /\ end' <= pkg_end'
        /\ end' \in Starts(Group)' \cup {device_count'}
        /\ pkg_end' \in Starts(Package)' \cup {device_count'}
    BY <1>1, <1>2, <1>3, <1>5, SameTopology DEF machine
  <2> QED  BY <1>10, <1>11, <2>1, <2>2 DEF SplitInv
<1>13. SizedInv'
  BY <1>2, <1>3, <1>7, <1>8, SameModules DEF SizedInv
<1> QED
  BY <1>2, <1>9, <1>12, <1>13
     DEF PlanInv, StartInv, DevicesInv, PackageInv, GroupInv, PlannedInv

\* A cut: all but the last module of the slice have fewer than slice_size cores.
LEMMA PushSliceStep ==
  ASSUME IInv, PushSlice
  PROVE  TypeOK' /\ PlanInv'
<1>1. PICK e \in 1..device_count :
        /\ IsCut(e) /\ PushTo(Heuristic, begin, e) /\ begin' = e
        /\ at' = CASE e # end                  -> "split"
                   [] e = end /\ e # pkg_end   -> "group"
                   [] e = end /\ e = pkg_end   -> "package"
  BY DEF PushSlice
<1>2. /\ at = "split"
      /\ UNCHANGED <<machine, max_cores_per_slice, pkg_end, end, slice_size, counting,
                     main_thread_count, children>>
  BY DEF PushSlice
<1>3. /\ TypeOK /\ plans \in [Type -> Seq(Ranges)]
      /\ begin \in Starts(Module) /\ begin < end /\ end <= pkg_end
      /\ end \in Starts(Group) \cup {device_count}
      /\ pkg_end \in Starts(Package) \cup {device_count}
      /\ Filled(plans[IsolateSockets], pkg_end)
      /\ Filled(plans[IsolateCoreGroup], end)
      /\ Filled(plans[Heuristic], begin)
      /\ \A t \in Type : Uncut(plans[t])
      /\ Lens(0, 1) /\ Bounded(plans[Heuristic])
      /\ max_cores_per_slice \in Nat \ {0} /\ slice_size <= max_cores_per_slice
  BY <1>2 DEF IInv, TypeOK, PlanInv, SplitInv, SizedInv
<1>4. device_count \in Nat /\ e \in Nat /\ e <= device_count /\ begin \in Nat
      /\ pkg_end \in Nat /\ end \in Nat /\ slice_size \in Nat
      /\ pkg_end <= device_count
  BY <1>3 DEF TypeOK
<1>5. begin < e /\ e <= end /\ e \in Starts(Module) \cup {end}
  BY <1>1 DEF IsCut
<1> DEFINE r == Span(begin, e)  u == Append(plans[Heuristic], r)
<1>6. u \in Seq(Ranges) /\ Filled(u, e) /\ Uncut(u)
  BY <1>3, <1>4, <1>5, AppendFilled, AppendUncut DEF Type, Heuristic
<1>7. /\ plans' = [plans EXCEPT ![Heuristic] = u]
      /\ plans' \in [Type -> Seq(Ranges)]
      /\ plans'[IsolateSockets] = plans[IsolateSockets]
      /\ plans'[IsolateCoreGroup] = plans[IsolateCoreGroup]
      /\ plans'[Heuristic] = u
  BY <1>1, <1>3, <1>6 DEF PushTo, Type, IsolateSockets, IsolateCoreGroup, Heuristic
<1>8. TypeOK'
  <2>1. at' \in {"split", "group", "package"}
    BY <1>1
  <2> QED  BY <1>1, <1>2, <1>3, <1>4, <1>7, <2>1 DEF TypeOK, machine, counting
<1>9. Lens(0, 0)'
  <2>1. Len(u) = Len(plans[Heuristic]) + 1 /\ \A t \in Type : Len(plans[t]) \in Nat
    BY <1>3 DEF Type, Heuristic
  <2> QED  BY <1>3, <1>7, <2>1 DEF Lens, Type, IsolateSockets, IsolateCoreGroup, Heuristic
<1>10. Lens(0, 1)' /\ Lens(1, 0)'
  <2>1. \A t \in Type : Len(plans'[t]) \in Nat
    BY <1>7
  <2> QED  BY <1>9, <2>1 DEF Lens, Type, IsolateSockets, IsolateCoreGroup, Heuristic
<1>11. \A t \in Type : Uncut(plans[t])'
  <2>1. \A t \in Type : Uncut(plans'[t])
    BY <1>3, <1>6, <1>7
  <2> QED  BY <1>2, <2>1, SameModules
<1>12. Bounded(plans[Heuristic])' /\ max_cores_per_slice' >= 1
       /\ slice_size' <= max_cores_per_slice'
  <2>1. Bounded(u)
    <3> DEFINE n == Len(plans[Heuristic]) + 1
    <3>1. /\ plans[Heuristic] \in Seq(Ranges) /\ r.start = begin /\ Upto(r) = e
          /\ r \in Ranges
      BY <1>3, <1>4, <1>5 DEF Span, Upto, Ranges, Type, Heuristic
    <3>2. DOMAIN u = 1..n /\ u[n] = r
          /\ \A i \in 1..n : i # n => i \in DOMAIN plans[Heuristic] /\ u[i] = plans[Heuristic][i]
      BY <3>1
    <3>3. ASSUME NEW m \in Starts(Module), begin < m, m < e
          PROVE  Cores(begin, m) < max_cores_per_slice
      <4>1. m \in Starts(Core) /\ begin \in Starts(Core) /\ m \in Nat
        BY <1>3, <1>4, StartsNested
      <4>2. Cores(begin, m) < slice_size /\ Cores(begin, m) \in Nat
        BY <1>1, <1>3, <3>3, <4>1, CoresPositive DEF IsCut
      <4> QED  BY <1>3, <1>4, <4>2
    <3>4. ASSUME NEW i \in DOMAIN u, NEW m \in Starts(Module), u[i].start < m, m < Upto(u[i])
          PROVE  Cores(u[i].start, m) < max_cores_per_slice
      <4>1. CASE i = n
        BY <3>1, <3>2, <3>3, <3>4, <4>1
      <4>2. CASE i # n
        <5>1. i \in DOMAIN plans[Heuristic] /\ u[i] = plans[Heuristic][i]
          BY <3>2, <4>2
        <5> QED  BY <1>3, <3>4, <5>1 DEF Bounded
      <4> QED  BY <4>1, <4>2
    <3> QED  BY <3>4 DEF Bounded
  <2> QED  BY <1>2, <1>3, <1>7, <2>1, SameModules
<1>13. /\ Starts(Module)' = Starts(Module) /\ Starts(Group)' = Starts(Group)
       /\ Starts(Package)' = Starts(Package) /\ device_count' = device_count
  BY <1>2, SameTopology DEF machine
<1>14. /\ Filled(plans[IsolateSockets], pkg_end)' /\ Filled(plans[IsolateCoreGroup], end)'
       /\ Filled(plans[Heuristic], begin)'
  BY <1>1, <1>2, <1>3, <1>6, <1>7
<1>15. CASE e # end
  <2>1. at' = "split" /\ SplitInv'
    BY <1>1, <1>2, <1>3, <1>4, <1>5, <1>10, <1>11, <1>13, <1>14, <1>15 DEF SplitInv
  <2> QED
    BY <1>8, <1>12, <2>1
       DEF PlanInv, StartInv, DevicesInv, PackageInv, GroupInv, PlannedInv, SizedInv
<1>16. CASE e = end /\ e # pkg_end
  <2>1. at' = "group" /\ begin' \in Starts(Group)' /\ begin' < pkg_end'
        /\ begin' = end'
    BY <1>1, <1>2, <1>3, <1>4, <1>13, <1>16
  <2>2. GroupInv'
    BY <1>2, <1>3, <1>10, <1>11, <1>13, <1>14, <2>1 DEF GroupInv
  <2> QED
    BY <1>8, <1>12, <2>1, <2>2
       DEF PlanInv, StartInv, DevicesInv, PackageInv, SplitInv, PlannedInv, SizedInv
<1>17. CASE e = end /\ e = pkg_end
  <2>1. at' = "package" /\ begin' = end' /\ begin' = pkg_end'
    BY <1>1, <1>2, <1>17
  <2>2. \A t \in Type : Filled(plans[t], begin)'
    BY <1>14, <2>1 DEF Type, IsolateSockets, IsolateCoreGroup, Heuristic
  <2>3. PackageInv'
    BY <1>2, <1>3, <1>9, <1>11, <1>13, <2>1, <2>2 DEF PackageInv
  <2> QED
    BY <1>8, <1>12, <2>1, <2>3
       DEF PlanInv, StartInv, DevicesInv, GroupInv, SplitInv, PlannedInv, SizedInv
<1> QED  BY <1>15, <1>16, <1>17

LEMMA EndPlansStep ==
  ASSUME IInv, EndPlans
  PROVE  TypeOK' /\ PlanInv'
<1>1. /\ at = "package" /\ begin = device_count /\ at' = "threads"
      /\ UNCHANGED <<machine, max_cores_per_slice, plans, cursor, counting,
                     main_thread_count, children>>
  BY DEF EndPlans
<1>2. TypeOK'
  BY <1>1 DEF IInv, TypeOK, machine, cursor, counting
<1>3. /\ \A t \in Type : Filled(plans[t], device_count) /\ Uncut(plans[t])
      /\ Lens(0, 0) /\ Bounded(plans[Heuristic])
  BY <1>1 DEF IInv, PlanInv, PackageInv, SizedInv
<1>4. /\ \A t \in Type : Filled(plans[t], device_count)' /\ Uncut(plans[t])'
      /\ Lens(0, 0)' /\ Bounded(plans[Heuristic])'
  BY <1>1, <1>3, SameModules DEF machine, Lens
<1> QED
  BY <1>1, <1>2, <1>4
     DEF PlanInv, StartInv, DevicesInv, PackageInv, GroupInv, SplitInv, PlannedInv, SizedInv
-----------------------------------------------------------------------------
\* The plans are made: an action that keeps them keeps what is known of them.
LEMMA PlansKept ==
  ASSUME IInv, at \in {"threads", "commit", "ready"},
         at' \in {"threads", "commit", "ready"},
         UNCHANGED <<machine, max_cores_per_slice, plans, cursor>>
  PROVE  PlanInv'
<1>1. /\ \A t \in Type : Filled(plans[t], device_count)
      /\ pkg_end > 0 => \A t \in Type : Uncut(plans[t])
      /\ Lens(0, 0)
      /\ pkg_end > 0 => Bounded(plans[Heuristic])
  BY DEF IInv, PlanInv, PlannedInv, SizedInv
<1>2. /\ \A t \in Type : Filled(plans[t], device_count)'
      /\ pkg_end' > 0 => \A t \in Type : Uncut(plans[t])'
      /\ Lens(0, 0)'
      /\ pkg_end' > 0 => Bounded(plans[Heuristic])'
  BY <1>1, SameModules DEF machine, cursor, Lens
<1> QED
  BY <1>2 DEF PlanInv, StartInv, DevicesInv, PackageInv, GroupInv, SplitInv, PlannedInv, SizedInv

\* Without children nothing is to be shown of them.
LEMMA NoChildren ==
  ASSUME children' = <<>>, main_thread_count' \in Nat
  PROVE  ChildrenInv'
BY DEF ChildrenInv, EveryDeviceOnce, ThreadsAreDisjoint, ThreadsHaveDevices, MainDataFits

LEMMA PushThreadsStep ==
  ASSUME IInv, PushThreads
  PROVE  IInv'
<1> DEFINE k == Len(threads[type]) + 1
           r == plans[type][k]
           x == [start |-> thread_offset, count |-> ThreadsFor(r.count)]
           u == Append(threads[type], x)
<1>1. /\ at = "threads" /\ k - 1 < Len(plans[type])
      /\ threads' = [threads EXCEPT ![type] = u]
      /\ thread_offset' = thread_offset + ThreadsFor(r.count)
      /\ UNCHANGED <<machine, max_cores_per_slice, plans, at, cursor, type, thread_count,
                     main_thread_count, children>>
  BY DEF PushThreads, Advance
<1>2. /\ TypeOK /\ plans \in [Type -> Seq(Ranges)] /\ threads \in [Type -> Seq(Ranges)]
      /\ type \in Type /\ thread_offset \in Nat /\ thread_count \in Nat
      /\ device_count \in Nat
  BY DEF IInv, TypeOK
<1>3. /\ Filled(plans[type], device_count)
      /\ Disjoint(threads[type], thread_offset)
      /\ thread_offset <= IF threads[type] = <<>> THEN 0
                          ELSE Upto(plans[type][Len(threads[type])])
      /\ Len(threads[type]) <= Len(plans[type])
      /\ \A i \in DOMAIN threads[type] : threads[type][i].count <= plans[type][i].count
  BY <1>1, <1>2 DEF IInv, PlanInv, PlannedInv, CountingInv, ThreadRangesInv
<1>4. /\ plans[type] \in Seq(Ranges) /\ threads[type] \in Seq(Ranges)
      /\ k \in DOMAIN plans[type] /\ k \in Nat \ {0}
      /\ r \in Ranges /\ r.count \in Nat \ {0} /\ r.start \in Nat
  <2>1. plans[type] \in Seq(Ranges) /\ threads[type] \in Seq(Ranges)
    BY <1>2
  <2>2. k \in DOMAIN plans[type] /\ k \in Nat \ {0}
    BY <1>1, <2>1
  <2>3. r \in Ranges /\ r.count >= 1
    BY <1>3, <2>1, <2>2 DEF Filled, Disjoint
  <2> QED  BY <2>1, <2>2, <2>3 DEF Ranges
<1>5. /\ ThreadsFor(r.count) \in Nat /\ ThreadsFor(r.count) >= 1
      /\ ThreadsFor(r.count) <= r.count
  BY <1>2, <1>4, ThreadsForBounds DEF TypeOK
<1>6. x \in Ranges /\ x.start = thread_offset /\ x.count = ThreadsFor(r.count)
      /\ Upto(x) = thread_offset + ThreadsFor(r.count)
  BY <1>2, <1>5 DEF Ranges, Upto
<1>7. u \in Seq(Ranges) /\ Disjoint(u, thread_offset')
  <2> HIDE DEF x
  <2> QED  BY <1>1, <1>2, <1>3, <1>4, <1>5, <1>6, AppendDisjoint
<1>8. Len(u) = k /\ \A i \in DOMAIN u : u[i].count <= plans[type][i].count
  <2> HIDE DEF x
  <2>1. DOMAIN u = 1..k /\ Len(u) = k /\ u[k] = x
        /\ \A i \in 1..k : i # k => i \in DOMAIN threads[type] /\ u[i] = threads[type][i]
    BY <1>4, <1>6
  <2> QED  BY <1>3, <1>5, <1>6, <2>1
<1>9. thread_offset' <= Upto(plans[type][k])
  <2>1. thread_offset <= r.start
    <3>1. CASE threads[type] = <<>>
      BY <1>2, <1>3, <1>4, <3>1
    <3>2. CASE threads[type] # <<>>
      <4>1. k - 1 \in DOMAIN plans[type] /\ k - 1 < k
        BY <1>1, <1>4, <3>2
      <4>2. Upto(plans[type][k - 1]) <= r.start
        BY <1>3, <1>4, <4>1 DEF Filled, Disjoint
      <4>3. Len(threads[type]) = k - 1
        BY <1>4
      <4>4. plans[type][k - 1] \in Ranges
        BY <1>4, <4>1
      <4>5. Upto(plans[type][k - 1]) \in Nat
        BY <4>4 DEF Upto, Ranges
      <4> QED  BY <1>2, <1>3, <1>4, <3>2, <4>2, <4>3, <4>5
    <3> QED  BY <3>1, <3>2
  <2> QED  BY <1>1, <1>2, <1>4, <1>5, <2>1 DEF Upto
<1> HIDE DEF u, x, r
<1>10. /\ threads' \in [Type -> Seq(Ranges)] /\ threads'[type] = u
       /\ \A t \in Type : t # type => threads'[t] = threads[t]
       /\ thread_offset' \in Nat
  BY <1>1, <1>2, <1>5, <1>7
<1>11. TypeOK'
  BY <1>1, <1>2, <1>10 DEF TypeOK, machine, cursor
<1>12. ThreadRangesInv'
  <2>1. ASSUME NEW t \in Type
        PROVE  /\ Len(threads'[t]) <= Len(plans[t])
               /\ \A i \in DOMAIN threads'[t] : threads'[t][i].count <= plans[t][i].count
    <3>1. CASE t = type
      <4>1. k <= Len(plans[type])
        BY <1>4
      <4> QED  BY <1>8, <1>10, <3>1, <4>1
    <3>2. CASE t # type
      BY <1>10, <3>2 DEF IInv, ThreadRangesInv
    <3> QED  BY <3>1, <3>2
  <2> QED  BY <1>1, <2>1 DEF ThreadRangesInv
<1>13. CountingInv'
  <2>0. /\ \A t \in Type : t < type \/ t > type => threads'[t] = threads[t]
        /\ \A t \in Type : t < type => /\ Len(threads[t]) = Len(plans[t])
                                       /\ Disjoint(threads[t], thread_count)
        /\ \A t \in Type : t > type => threads[t] = <<>>
    <3>1. \A t \in Type : t < type \/ t > type => t # type
      BY <1>2 DEF Type
    <3> QED  BY <1>1, <1>10, <3>1 DEF IInv, CountingInv
  <2>1. \A t \in Type : t < type => /\ Len(threads'[t]) = Len(plans[t])
                                    /\ Disjoint(threads'[t], thread_count)
    BY <2>0
  <2>2. \A t \in Type : t > type => threads'[t] = <<>>
    BY <2>0
  <2>3. threads'[type] # <<>> /\ Len(threads'[type]) = k
    BY <1>4, <1>7, <1>8, <1>10
  <2>4. thread_count >= 1 /\ thread_count <= device_count
    BY DEF IInv, CountingInv
  <2>5. \A t \in Type : Disjoint(threads[t], thread_count)' <=> Disjoint(threads'[t], thread_count)
    BY <1>1
  <2>6. Disjoint(threads[type], thread_offset)'
    BY <1>1, <1>7, <1>10
  <2> QED
    BY <1>1, <1>9, <1>10, <2>1, <2>2, <2>3, <2>4, <2>5, <2>6
       DEF CountingInv, Planning, machine
<1>14. MainInv' /\ ChildrenInv'
  <2>1. children = <<>> /\ main_thread_count \in Nat
    BY <1>1, <1>2 DEF IInv, MainInv, TypeOK
  <2> QED  BY <1>1, <2>1, NoChildren DEF MainInv
<1>15. PlanInv'
  BY <1>1, PlansKept
<1> QED  BY <1>11, <1>12, <1>13, <1>14, <1>15 DEF IInv

LEMMA EndThreadsStep ==
  ASSUME IInv, EndThreads
  PROVE  IInv'
<1>1. /\ at = "threads" /\ Len(threads[type]) = Len(plans[type])
      /\ thread_count' = IF thread_offset > thread_count THEN thread_offset ELSE thread_count
      /\ thread_offset' = 0
      /\ \/ type = Heuristic /\ at' = "commit" /\ type' = type
         \/ type # Heuristic /\ at' = "threads" /\ type' = type + 1
      /\ UNCHANGED <<machine, max_cores_per_slice, plans, cursor, threads,
                     main_thread_count, children>>
  BY DEF EndThreads, ResetOffset
<1>2. /\ TypeOK /\ plans \in [Type -> Seq(Ranges)] /\ threads \in [Type -> Seq(Ranges)]
      /\ type \in Type /\ thread_offset \in Nat /\ thread_count \in Nat
      /\ device_count \in Nat
  BY DEF IInv, TypeOK
<1>3. /\ Filled(plans[type], device_count)
      /\ Disjoint(threads[type], thread_offset)
      /\ thread_offset <= IF threads[type] = <<>> THEN 0
                          ELSE Upto(plans[type][Len(threads[type])])
      /\ thread_count >= 1 /\ thread_count <= device_count
      /\ \A t \in Type : t < type => /\ Len(threads[t]) = Len(plans[t])
                                     /\ Disjoint(threads[t], thread_count)
      /\ \A t \in Type : t > type => threads[t] = <<>>
  BY <1>1, <1>2 DEF IInv, PlanInv, PlannedInv, CountingInv
<1>4. thread_offset <= device_count
  <2>1. CASE threads[type] = <<>>
    BY <1>2, <1>3, <2>1
  <2>2. CASE threads[type] # <<>>
    <3>1. Len(plans[type]) \in DOMAIN plans[type]
      BY <1>1, <1>2, <2>2
    <3>2. Upto(plans[type][Len(plans[type])]) <= device_count
          /\ plans[type][Len(plans[type])] \in Ranges
      BY <1>2, <1>3, <3>1 DEF Filled, Disjoint
    <3>3. Upto(plans[type][Len(plans[type])]) \in Nat
      BY <3>2 DEF Upto, Ranges
    <3> QED  BY <1>1, <1>2, <1>3, <2>2, <3>2, <3>3
  <2> QED  BY <2>1, <2>2
<1>5. /\ thread_count' \in Nat /\ thread_count' >= 1 /\ thread_count' <= device_count
      /\ thread_count <= thread_count' /\ thread_offset <= thread_count'
  BY <1>1, <1>2, <1>3, <1>4
<1>6. \A t \in Type : t <= type => /\ Len(threads[t]) = Len(plans[t])
                                   /\ Disjoint(threads[t], thread_count')
  <2>1. ASSUME NEW s \in Seq(Ranges), NEW c \in Nat, c <= thread_count', Disjoint(s, c)
        PROVE  Disjoint(s, thread_count')
    <3>1. \A i \in DOMAIN s : s[i] \in Ranges
      OBVIOUS
    <3>2. \A i \in DOMAIN s : Upto(s[i]) \in Nat
      BY <3>1 DEF Upto, Ranges
    <3> QED  BY <1>5, <2>1, <3>2 DEF Disjoint
  <2>2. \A t \in Type : t <= type => t < type \/ t = type
    BY <1>2 DEF Type
  <2> QED  BY <1>1, <1>2, <1>3, <1>5, <2>1, <2>2
<1>7. type' \in Type
  BY <1>1, <1>2 DEF Type, Heuristic
<1>8. TypeOK'
  BY <1>1, <1>2, <1>5, <1>7 DEF TypeOK, machine, cursor
<1>9. ThreadRangesInv'
  BY <1>1 DEF IInv, ThreadRangesInv
<1>10. CountingInv'
  <2>1. /\ device_count' = device_count /\ plans' = plans /\ threads' = threads
    BY <1>1 DEF machine
  <2>2. \A t \in Type : Disjoint(threads[t], thread_count)' <=> Disjoint(threads[t], thread_count')
    BY <2>1
  <2>3. CASE type = Heuristic
    <3>1. at' = "commit" /\ \A t \in Type : t <= type
      BY <1>1, <1>2, <2>3 DEF Type, Heuristic
    <3> QED  BY <1>5, <1>6, <2>1, <2>2, <3>1 DEF CountingInv, Planning
  <2>4. CASE type # Heuristic
    <3>1. at' = "threads" /\ type' = type + 1
      BY <1>1, <2>4
    <3>2. /\ \A t \in Type : t < type' => t <= type
          /\ \A t \in Type : t > type' => t > type
          /\ type' > type
      BY <1>2, <3>1 DEF Type
    <3>3. threads'[type'] = <<>>
      BY <1>3, <1>7, <2>1, <3>2
    <3>4. Disjoint(threads[type], thread_offset)'
      BY <3>3 DEF Disjoint
    <3> QED
      BY <1>1, <1>3, <1>5, <1>6, <2>1, <2>2, <3>1, <3>2, <3>3, <3>4 DEF CountingInv, Planning
  <2> QED  BY <2>3, <2>4
<1>11. MainInv' /\ ChildrenInv'
  <2>1. children = <<>> /\ main_thread_count \in Nat
    BY <1>1, <1>2 DEF IInv, MainInv, TypeOK
  <2>2. at' # "ready"
    BY <1>1
  <2> QED  BY <1>1, <2>1, <2>2, NoChildren DEF MainInv
<1>12. PlanInv'
  BY <1>1, PlansKept
<1> QED  BY <1>8, <1>9, <1>10, <1>11, <1>12 DEF IInv

LEMMA CommitShmemStep ==
  ASSUME IInv, CommitShmem
  PROVE  IInv'
<1>1. /\ at = "commit" /\ at' = "ready" /\ main_thread_count' = Len(plans[Heuristic])
      /\ UNCHANGED <<machine, max_cores_per_slice, plans, cursor, counting, children>>
  BY DEF CommitShmem, MostSlices
<1>2. TypeOK /\ plans[Heuristic] \in Seq(Ranges) /\ children = <<>>
  BY <1>1 DEF IInv, TypeOK, MainInv, Type, Heuristic
<1>3. main_thread_count' \in Nat
  BY <1>1, <1>2
<1>4. TypeOK'
  BY <1>1, <1>2, <1>3 DEF TypeOK, machine, cursor, counting
<1>5. ThreadRangesInv' /\ CountingInv'
  BY <1>1 DEF IInv, ThreadRangesInv, CountingInv, Planning, machine, counting, Disjoint
<1>6. MainInv' /\ ChildrenInv'
  BY <1>1, <1>2, <1>3, NoChildren DEF MainInv
<1>7. PlanInv'
  BY <1>1, PlansKept
<1> QED  BY <1>4, <1>5, <1>6, <1>7 DEF IInv

LEMMA SlicesForTestStep ==
  ASSUME IInv, NEW t \in Type \cup {FullSystem}, SlicesForTest(t)
  PROVE  IInv'
<1>1. /\ at = "ready" /\ at' = "ready"
      /\ UNCHANGED <<machine, max_cores_per_slice, plans, at, cursor, counting,
                     main_thread_count>>
      /\ device_count' = device_count /\ thread_count' = thread_count
  BY DEF SlicesForTest, machine, counting
<1>2. /\ TypeOK /\ plans \in [Type -> Seq(Ranges)] /\ threads \in [Type -> Seq(Ranges)]
      /\ device_count \in Nat \ {0} /\ thread_count \in Nat
      /\ thread_count >= 1 /\ thread_count <= device_count
      /\ main_thread_count = Len(plans[Heuristic]) /\ Lens(0, 0)
  BY <1>1, BoundAssumption
     DEF IInv, TypeOK, CountingInv, MainInv, PlanInv, PlannedInv
<1>3. ASSUME t = FullSystem  PROVE TypeOK' /\ ChildrenInv'
  <2> DEFINE all == [devices |-> Span(0, device_count), threads |-> Span(0, thread_count)]
  <2>1. children' = <<all>>
    BY <1>3 DEF SlicesForTest
  <2>2. /\ all.devices \in Ranges /\ all.threads \in Ranges
        /\ all.devices.start = 0 /\ all.devices.count = device_count
        /\ all.threads.start = 0 /\ all.threads.count = thread_count
        /\ Upto(all.devices) = device_count /\ Upto(all.threads) = thread_count
        /\ all \in [devices : Ranges, threads : Ranges]
    BY <1>2 DEF Span, Ranges, Upto
  <2> HIDE DEF all
  <2>3. DOMAIN children' = {1} /\ children'[1] = all /\ Len(children') = 1
    BY <2>1
  <2>4. TypeOK'
    BY <1>1, <1>2, <2>1, <2>2 DEF TypeOK, machine, cursor, counting
  <2>5. EveryDeviceOnce'
    BY <1>1, <1>2, <2>2, <2>3 DEF EveryDeviceOnce, Within
  <2>6. ThreadsAreDisjoint'
    BY <1>1, <1>2, <2>2, <2>3 DEF ThreadsAreDisjoint
  <2>7. ThreadsHaveDevices'
    BY <1>1, <1>2, <2>2, <2>3 DEF ThreadsHaveDevices
  <2>8. MainDataFits'
    <3>1. Filled(plans[Heuristic], device_count) /\ plans[Heuristic] \in Seq(Ranges)
      BY <1>1, <1>2 DEF IInv, PlanInv, PlannedInv, Type, Heuristic
    <3>2. 0 \in 0..(device_count - 1)
      BY <1>2
    <3>3. DOMAIN plans[Heuristic] # {}
      BY <3>1, <3>2 DEF Filled, Covers
    <3>4. Len(plans[Heuristic]) >= 1
      BY <3>1, <3>3
    <3> QED  BY <1>1, <1>2, <2>3, <3>4 DEF MainDataFits
  <2> QED  BY <2>4, <2>5, <2>6, <2>7, <2>8 DEF ChildrenInv
<1>4. ASSUME t # FullSystem  PROVE TypeOK' /\ ChildrenInv'
  <2> DEFINE n == Len(plans[t])
  <2>1. /\ t \in Type
        /\ plans[t] \in Seq(Ranges) /\ threads[t] \in Seq(Ranges)
        /\ Len(threads[t]) = n /\ n \in Nat
        /\ DOMAIN plans[t] = 1..n /\ DOMAIN threads[t] = 1..n
        /\ Filled(plans[t], device_count) /\ Disjoint(threads[t], thread_count)
        /\ \A i \in 1..n : threads[t][i].count <= plans[t][i].count
    <3>1. t \in Type
      BY <1>4
    <3>2. /\ plans[t] \in Seq(Ranges) /\ threads[t] \in Seq(Ranges)
          /\ Filled(plans[t], device_count) /\ Disjoint(threads[t], thread_count)
          /\ Len(threads[t]) = n
          /\ \A i \in DOMAIN threads[t] : threads[t][i].count <= plans[t][i].count
      BY <1>1, <1>2, <3>1 DEF IInv, PlanInv, PlannedInv, CountingInv, ThreadRangesInv
    <3> QED  BY <3>1, <3>2
  <2>2. children' = [i \in 1..n |-> [devices |-> plans[t][i], threads |-> threads[t][i]]]
    BY <1>4 DEF SlicesForTest
  <2>3. /\ DOMAIN children' = 1..n
        /\ \A i \in 1..n : /\ children'[i].devices = plans[t][i]
                           /\ children'[i].threads = threads[t][i]
                           /\ children'[i] \in [devices : Ranges, threads : Ranges]
        /\ children' \in Seq([devices : Ranges, threads : Ranges])
        /\ Len(children') = n
    BY <2>1, <2>2
  <2>4. TypeOK'
    BY <1>1, <1>2, <2>3 DEF TypeOK, machine, cursor, counting
  <2>5. EveryDeviceOnce'
    <3>1. \A d \in 0..(device_count - 1) :
            \E i \in 1..n : /\ Within(d, plans[t][i])
                            /\ \A j \in 1..n \ {i} : ~Within(d, plans[t][j])
      BY <1>2, <2>1, FilledOnce
    <3> QED  BY <1>1, <2>3, <3>1 DEF EveryDeviceOnce, Within
  <2>6. ThreadsAreDisjoint'
    BY <1>1, <2>1, <2>3 DEF ThreadsAreDisjoint, Disjoint, Upto
  <2>7. ThreadsHaveDevices'
    BY <2>1, <2>3 DEF ThreadsHaveDevices
  <2>8. MainDataFits'
    <3>1. \A y \in Type : Len(plans[y]) \in Nat
      BY <1>2
    <3>2. n <= Len(plans[Heuristic])
      BY <1>2, <2>1, <3>1 DEF Lens, Type, IsolateSockets, IsolateCoreGroup, Heuristic
    <3> QED  BY <1>1, <1>2, <2>3, <3>2 DEF MainDataFits
  <2> QED  BY <2>4, <2>5, <2>6, <2>7, <2>8 DEF ChildrenInv
<1>5. ThreadRangesInv' /\ CountingInv' /\ MainInv'
  BY <1>1 DEF IInv, ThreadRangesInv, CountingInv, MainInv, Planning, machine, counting, Disjoint
<1>6. PlanInv'
  BY <1>1, PlansKept
<1> QED  BY <1>3, <1>4, <1>5, <1>6 DEF IInv

-----------------------------------------------------------------------------
LEMMA NextIInv == IInv /\ [Next]_vars => IInv'
<1> SUFFICES ASSUME IInv, [Next]_vars  PROVE IInv'
  OBVIOUS
<1>1. ASSUME TypeOK' /\ PlanInv', at \in Planning, at' \in Planning \cup {"threads"},
             UNCHANGED <<machine, counting, main_thread_count, children>>
      PROVE  IInv'
  BY <1>1, PlanningStep DEF IInv
<1>2. CASE UseFullSystem
  BY <1>1, <1>2, UseFullSystemStep DEF UseFullSystem, Planning
<1>3. CASE UseTopology
  BY <1>1, <1>3, UseTopologyStep DEF UseTopology, Planning
<1>4. CASE UseDevices
  BY <1>1, <1>4, UseDevicesStep DEF UseDevices, Planning
<1>5. CASE PushDevices
  BY <1>1, <1>5, PushDevicesStep DEF PushDevices, Planning
<1>6. CASE PushPackage
  BY <1>1, <1>6, PushPackageStep DEF PushPackage, Planning
<1>7. CASE PushGroup
  BY <1>1, <1>7, PushGroupStep DEF PushGroup, Planning
<1>8. CASE PushSlice
  <2>1. at \in Planning /\ at' \in Planning
    BY <1>8 DEF PushSlice, Planning
  <2>2. UNCHANGED <<machine, counting, main_thread_count, children>>
    BY <1>8 DEF PushSlice
  <2> QED  BY <1>1, <1>8, <2>1, <2>2, PushSliceStep
<1>9. CASE EndPlans
  BY <1>1, <1>9, EndPlansStep DEF EndPlans, Planning
<1>10. CASE PushThreads
  BY <1>10, PushThreadsStep
<1>11. CASE EndThreads
  BY <1>11, EndThreadsStep
<1>12. CASE CommitShmem
  BY <1>12, CommitShmemStep
<1>13. CASE \E t \in Type \cup {FullSystem} : SlicesForTest(t)
  BY <1>13, SlicesForTestStep
<1>14. CASE UNCHANGED vars
  <2> USE <1>14 DEF vars, machine, cursor, counting
  <2>1. TypeOK' /\ ThreadRangesInv' /\ CountingInv' /\ MainInv'
    BY DEF IInv, TypeOK, ThreadRangesInv, CountingInv, MainInv, Planning, Disjoint
  <2>2. ChildrenInv'
    BY DEF IInv, ChildrenInv, EveryDeviceOnce, ThreadsAreDisjoint, ThreadsHaveDevices,
           MainDataFits
  <2>3. PlanInv'
    BY SameTopology, SameModules
       DEF IInv, PlanInv, StartInv, DevicesInv, PackageInv, GroupInv, SplitInv, PlannedInv,
           SizedInv, Lens
  <2> QED  BY <2>1, <2>2, <2>3 DEF IInv
<1> QED
  BY <1>2, <1>3, <1>4, <1>5, <1>6, <1>7, <1>8, <1>9, <1>10, <1>11, <1>12, <1>13, <1>14
     DEF Next

\* The inductive invariant holds in every state.
THEOREM Invariance == Spec => []IInv
BY InitIInv, NextIInv, PTL DEF Spec

\* The variables of slice_plan_init_for_device(), slice_plan_init_for_threads()
\* and slices_for_test() have their types for any number of devices.
THEOREM TypeCorrect == Spec => []TypeOK
<1>1. IInv => TypeOK
  BY DEF IInv
<1> QED  BY <1>1, Invariance, PTL

\* No topology, --max-cores-per-slice, --thread-ratio or schedule flag of a test
\* makes a device untested or tested by two children at once.
THEOREM DevicesCovered == Spec => []EveryDeviceOnce
<1>1. IInv => EveryDeviceOnce
  BY DEF IInv, ChildrenInv
<1> QED  BY <1>1, Invariance, PTL

\* No two children use the data of the same thread, and no child's is outside of
\* the shared memory; all children have a thread.
THEOREM ThreadsSeparated == Spec => []ThreadsAreDisjoint
<1>1. IInv => ThreadsAreDisjoint
  BY DEF IInv, ChildrenInv
<1> QED  BY <1>1, Invariance, PTL

\* Every thread of a child has a device of the child's to run on.
THEOREM ThreadsPinned == Spec => []ThreadsHaveDevices
<1>1. IInv => ThreadsHaveDevices
  BY DEF IInv, ChildrenInv
<1> QED  BY <1>1, Invariance, PTL

\* commit_shmem() is right to size the shared memory for the last plan.
THEOREM MainDataSufficient == Spec => []MainDataFits
<1>1. IInv => MainDataFits
  BY DEF IInv, ChildrenInv
<1> QED  BY <1>1, Invariance, PTL

\* slice_plan_init_for_device() does not cut a module, in none of the plans.
THEOREM ModulesKept == Spec => []ModulesStayTogether
<1>1. IInv => ModulesStayTogether
  <2> SUFFICES ASSUME IInv, ByTopology  PROVE \A t \in Type : Uncut(plans[t])
    BY DEF ModulesStayTogether, Uncut
  <2>1. at \in {"package", "group", "split", "threads", "commit", "ready"} /\ pkg_end > 0
    BY DEF ByTopology, IInv, TypeOK
  <2> QED  BY <2>1 DEF IInv, PlanInv, PackageInv, GroupInv, SplitInv, PlannedInv
<1> QED  BY <1>1, Invariance, PTL

\* The slices of the heuristic keep to --max-cores-per-slice, but for the last
\* module of a slice.
THEOREM SlicesKeepBound == Spec => []SlicesAreBounded
<1>1. IInv => SlicesAreBounded
  <2> SUFFICES ASSUME IInv, ByTopology  PROVE Bounded(plans[Heuristic])
    BY DEF SlicesAreBounded, Bounded
  <2>1. at \in {"package", "group", "split", "threads", "commit", "ready"} /\ pkg_end > 0
    BY DEF ByTopology, IInv, TypeOK
  <2> QED  BY <2>1 DEF IInv, PlanInv, SizedInv
<1> QED  BY <1>1, Invariance, PTL

\* All that is promised of the plans, for any machine, option and flag.
THEOREM SlicesSound == Spec => []SlicesAreSound
<1> QED  BY DevicesCovered, ThreadsSeparated, ThreadsPinned, MainDataSufficient,
            ModulesKept, SlicesKeepBound, PTL DEF SlicesAreSound

-----------------------------------------------------------------------------
(***************************************************************************)
(* Logging: what the memory files hold of a mismatch.                      *)
(***************************************************************************)
RecordType == {"user", "skip", "yaml", "data", "mismatch", "context", "knob"}

LogRecord ==
  [type : RecordType, level : Int, owner : Int, run : Int, n : Int, start : Int, len : Int, cut : BOOLEAN]

\* A mismatch is followed by the data shown for it, which is where it should be.
Windows(l) ==
  \A i \in DOMAIN l :
    l[i].type = "mismatch" /\ l[i].start >= 0 =>
      /\ i + 1 \in DOMAIN l /\ l[i + 1].type = "data"
      /\ l[i + 1].start \in 0..(l[i].len - l[i + 1].len)
      /\ l[i + 1].len > 0 => l[i].start \in l[i + 1].start..(l[i + 1].start + l[i + 1].len - 1)

LogsKept == log \in [Owner -> Seq(LogRecord)] /\ \A o \in Owner : Windows(log[o])

LogTypes == cfg \in Config /\ run \in Nat /\ data_bytes_logged \in [Owner -> Nat]

LogInv == LogTypes /\ LogsKept

-----------------------------------------------------------------------------
\* Lists of records are put together without harm.
LEMMA AppendWindows ==
  ASSUME NEW l \in Seq(LogRecord), NEW m \in Seq(LogRecord), Windows(l), Windows(m)
  PROVE  l \o m \in Seq(LogRecord) /\ Windows(l \o m)
<1> DEFINE lm == l \o m
<1>1. lm \in Seq(LogRecord) /\ Len(lm) = Len(l) + Len(m)
  OBVIOUS
<1>2. \A i \in 1..Len(l) : lm[i] = l[i]
  OBVIOUS
<1>3. \A i \in 1..Len(m) : lm[Len(l) + i] = m[i]
  OBVIOUS
<1>4. DOMAIN l = 1..Len(l) /\ DOMAIN m = 1..Len(m) /\ DOMAIN lm = 1..Len(l) + Len(m)
  BY <1>1
<1>5. Len(l) \in Nat /\ Len(m) \in Nat
  OBVIOUS
<1> HIDE DEF lm
<1>6. ASSUME NEW i \in DOMAIN lm, lm[i].type = "mismatch" /\ lm[i].start >= 0
      PROVE  /\ i + 1 \in DOMAIN lm /\ lm[i + 1].type = "data"
             /\ lm[i + 1].start \in 0..(lm[i].len - lm[i + 1].len)
             /\ lm[i + 1].len > 0 =>
                  lm[i].start \in lm[i + 1].start..(lm[i + 1].start + lm[i + 1].len - 1)
  <2>1. CASE i <= Len(l)
    <3>1. i \in DOMAIN l /\ lm[i] = l[i]
      BY <2>1, <1>2, <1>4, <1>5
    <3>2. i + 1 \in DOMAIN l
      BY <3>1, <1>6 DEF Windows
    <3>3. i + 1 \in DOMAIN lm /\ lm[i + 1] = l[i + 1]
      BY <3>2, <1>2, <1>4, <1>5
    <3> QED
      BY <3>1, <3>3, <1>6 DEF Windows
  <2>2. CASE ~(i <= Len(l))
    <3> DEFINE j == i - Len(l)
    <3>1. j \in DOMAIN m /\ i = Len(l) + j
      BY <2>2, <1>4, <1>5
    <3>2. lm[i] = m[j]
      BY <3>1, <1>3, <1>4
    <3>3. j + 1 \in DOMAIN m
      BY <3>1, <3>2, <1>6 DEF Windows
    <3>4. i + 1 \in DOMAIN lm /\ i + 1 = Len(l) + (j + 1)
      BY <3>1, <3>3, <1>4, <1>5
    <3>5. lm[i + 1] = m[j + 1]
      BY <3>3, <3>4, <1>3, <1>4
    <3> HIDE DEF j
    <3> QED
      BY <3>1, <3>2, <3>4, <3>5, <1>6 DEF Windows
  <2> QED
    BY <2>1, <2>2
<1> QED
  BY <1>1, <1>6 DEF Windows, lm

\* A record of another type is harmless.
LEMMA PlainRecord ==
  ASSUME NEW r \in LogRecord, r.type # "mismatch" \/ r.start < 0
  PROVE  <<r>> \in Seq(LogRecord) /\ Windows(<<r>>)
<1> DEFINE l == <<r>>
<1>1. l \in Seq(LogRecord) /\ DOMAIN l = {1} /\ l[1] = r
  OBVIOUS
<1>2. r.start \in Int
  BY DEF LogRecord
<1> HIDE DEF l
<1>3. \A i \in DOMAIN l : ~(l[i].type = "mismatch" /\ l[i].start >= 0)
  BY <1>1, <1>2
<1>4. Windows(l)
  BY <1>3 DEF Windows
<1> QED
  BY <1>1, <1>4 DEF l

LEMMA PlainPair ==
  ASSUME NEW r \in LogRecord, NEW q \in LogRecord, r.type # "mismatch", q.type # "mismatch"
  PROVE  <<r, q>> \in Seq(LogRecord) /\ Windows(<<r, q>>)
<1> DEFINE l == <<r, q>>
<1>1. l \in Seq(LogRecord) /\ DOMAIN l = 1..2 /\ l[1] = r /\ l[2] = q
  OBVIOUS
<1> HIDE DEF l
<1>2. \A i \in DOMAIN l : l[i].type # "mismatch"
  BY <1>1
<1>3. Windows(l)
  BY <1>2 DEF Windows
<1> QED
  BY <1>1, <1>3 DEF l

\* A record before two others.
LEMMA OneAndTwo ==
  ASSUME NEW S, NEW a \in S, NEW b \in S, NEW c \in S
  PROVE  <<a>> \o <<b, c>> = <<a, b, c>> /\ <<a, b, c>> \in Seq(S)
<1>1. <<a>> \in Seq(S) /\ <<b, c>> \in Seq(S) /\ <<a, b, c>> \in Seq(S)
  OBVIOUS
<1>2. <<a>> \o <<b, c>> \in Seq(S) /\ Len(<<a>> \o <<b, c>>) = 3
  OBVIOUS
<1>3. Len(<<a, b, c>>) = 3
  OBVIOUS
<1>4. \A i \in 1..3 : (<<a>> \o <<b, c>>)[i] = <<a, b, c>>[i]
  <2>1. (<<a>> \o <<b, c>>)[1] = a
    OBVIOUS
  <2>2. (<<a>> \o <<b, c>>)[2] = b
    OBVIOUS
  <2>3. (<<a>> \o <<b, c>>)[3] = c
    OBVIOUS
  <2> QED
    BY <2>1, <2>2, <2>3
<1> QED
  BY <1>1, <1>2, <1>3, <1>4, SeqEqual

LEMMA NoRecord == <<>> \in Seq(LogRecord) /\ Windows(<<>>)
  BY DEF Windows

LEMMA OwnersAreInt == Slice \subseteq Nat /\ Thread \subseteq Nat /\ Owner \subseteq Int
<1>1. Cardinality(Slice) \in Nat /\ Cardinality(Thread) \in Nat
  BY FS_CardinalityType, OwnerAssumption
<1>2. ASSUME NEW n \in Nat PROVE 0..n - 1 \subseteq Nat
  OBVIOUS
<1>3. 0..Cardinality(Slice) - 1 \subseteq Nat /\ 0..Cardinality(Thread) - 1 \subseteq Nat
  BY <1>1, <1>2
<1>4. Slice \subseteq Nat /\ Thread \subseteq Nat
  BY <1>3, OwnerAssumption, Zenon
<1>5. ASSUME NEW s \in Slice PROVE Main(s) \in Int
  BY <1>4 DEF Main
<1>6. ASSUME NEW o \in Owner PROVE o \in Int
  <2>1. CASE o \in Thread
    BY <1>4, <2>1
  <2>2. CASE o \notin Thread
    <3>1. PICK s \in Slice : o = Main(s)
      BY <2>2 DEF Owner
    <3> QED
      BY <1>5, <3>1
  <2> QED
    BY <2>1, <2>2
<1> QED
  BY <1>4, <1>6

\* Record() makes records, and so do what is changed in them.
LEMMA RecordIsOne ==
  ASSUME LogInv, NEW o \in Owner, NEW kind \in RecordType, NEW level \in Int
  PROVE  Record(o, kind, level) \in LogRecord /\ Record(o, kind, level).type = kind
<1>1. log[o] \in Seq(LogRecord) /\ run \in Int
  BY DEF LogInv, LogsKept, LogTypes
<1>2. Len(log[o]) + 1 \in Int
  BY <1>1
<1>3. o \in Int
  BY OwnersAreInt
<1> QED
  BY <1>1, <1>2, <1>3 DEF Record, LogRecord

\* The part of the buffers that is shown.
LEMMA WindowContains ==
  ASSUME NEW size \in Nat, NEW offset \in 0..size - 1, NEW total \in Nat, LogTypes
  PROVE  LET len   == WindowLength(size, total)
             start == WindowStart(size, offset, len)
         IN  /\ len \in 0..size
             /\ start \in 0..size - len
             /\ len > 0 => offset \in start..start + len - 1
<1>1. cfg.max_logdata \in Nat
  BY SizeAssumption DEF LogTypes
<1> DEFINE len == WindowLength(size, total)
<1>2. len \in 0..size
  BY <1>1 DEF WindowLength
<1> HIDE DEF len
<1>3. WindowStart(size, offset, len) \in 0..size - len
  BY <1>2 DEF WindowStart
<1>4. len > 0 => offset \in WindowStart(size, offset, len)..WindowStart(size, offset, len) + len - 1
  BY <1>2 DEF WindowStart
<1> QED
  BY <1>2, <1>3, <1>4 DEF len

-----------------------------------------------------------------------------
\* What is appended, by the actions and by the parent.
LEMMA AppendedKept ==
  ASSUME LogInv, NEW o \in Owner, NEW records \in Seq(LogRecord), Windows(records),
         log' = [log EXCEPT ![o] = @ \o records]
  PROVE  LogsKept'
<1>1. log[o] \o records \in Seq(LogRecord) /\ Windows(log[o] \o records)
  BY AppendWindows DEF LogInv, LogsKept
<1>2. log' \in [Owner -> Seq(LogRecord)]
  BY <1>1 DEF LogInv, LogsKept
<1>3. ASSUME NEW q \in Owner PROVE Windows(log'[q])
  <2>1. CASE q = o
    <3>1. log'[q] = log[o] \o records
      BY <2>1 DEF LogInv, LogsKept
    <3> QED
      BY <3>1, <1>1
  <2>2. CASE q # o
    <3>1. log'[q] = log[q]
      BY <2>2 DEF LogInv, LogsKept
    <3> QED
      BY <3>1 DEF LogInv, LogsKept
  <2> QED
    BY <2>1, <2>2
<1> QED
  BY <1>2, <1>3 DEF LogsKept

LEMMA DroppedKept ==
  ASSUME LogInv, UNCHANGED log
  PROVE  LogsKept'
BY DEF LogInv, LogsKept

\* One record that is not a mismatch.
LEMMA PlainKept ==
  ASSUME LogInv, NEW o \in Owner, NEW r \in LogRecord, r.type # "mismatch",
         log' = [log EXCEPT ![o] = @ \o <<r>>]
  PROVE  LogsKept'
BY PlainRecord, AppendedKept

LEMMA OwnersOfSlices ==
  /\ \A s \in Slice : Main(s) \in Owner /\ thread_range[s] \subseteq Owner
  /\ \A o \in Owner : SliceOf(o) \in Slice
  /\ Thread \subseteq Owner
<1>1. Slice \subseteq Nat /\ Thread \subseteq Nat
  BY OwnersAreInt
<1>2. \A s \in Slice : Main(s) \in Owner /\ thread_range[s] \subseteq Owner
  BY OwnerAssumption DEF Owner
<1>3. ASSUME NEW o \in Owner PROVE SliceOf(o) \in Slice
  <2>1. CASE o < 0
    <3>1. PICK s \in Slice : o = Main(s)
      BY <1>1, <2>1 DEF Owner
    <3>2. -o - 1 = s
      BY <1>1, <3>1 DEF Main
    <3> QED
      BY <2>1, <3>2 DEF SliceOf
  <2>2. CASE ~(o < 0)
    <3>1. o \in Thread
      BY <1>1, <2>2 DEF Owner, Main
    <3>2. \E s \in Slice : o \in thread_range[s]
      BY <3>1, OwnerAssumption
    <3> QED
      BY <2>2, <3>2 DEF SliceOf
  <2> QED
    BY <2>1, <2>2
<1> QED
  BY <1>2, <1>3 DEF Owner

LEMMA LevelsAreInt == \A letter \in {"E", "W", "I"} : LevelOf[letter] \in Int
BY DEF LevelOf, Quiet

LEMMA PreformattedKept ==
  ASSUME LogInv, NEW o \in Owner, NEW letter \in {"E", "W", "I"}, Preformatted(o, letter)
  PROVE  LogsKept'
<1>1. CASE Dropped
  BY <1>1, DroppedKept DEF Dropped
<1>2. CASE Appended(o, <<Record(o, "user", LevelOf[letter])>>)
  <2>1. LevelOf[letter] \in Int /\ "user" \in RecordType
    BY LevelsAreInt DEF RecordType
  <2>2. Record(o, "user", LevelOf[letter]) \in LogRecord
        /\ Record(o, "user", LevelOf[letter]).type = "user"
    BY <2>1, RecordIsOne
  <2>3. log' = [log EXCEPT ![o] = @ \o <<Record(o, "user", LevelOf[letter])>>]
    BY <1>2 DEF Appended
  <2> QED
    BY <2>2, <2>3, PlainKept
<1> QED
  BY <1>1, <1>2 DEF Preformatted

\* Nothing, or a skip record.
LEMMA SkipKept ==
  ASSUME LogInv, NEW o \in Owner, Dropped \/ Appended(o, <<SkipRecord(o)>>)
  PROVE  LogsKept'
<1>1. SkipRecord(o) \in LogRecord /\ SkipRecord(o).type = "skip"
  BY RecordIsOne DEF SkipRecord, RecordType
<1> QED
  BY <1>1, DroppedKept, PlainKept DEF Dropped, Appended

-----------------------------------------------------------------------------
\* The calls.
LEMMA DataRecordIsOne ==
  ASSUME LogInv, NEW o \in Owner, NEW start \in Int, NEW len \in Int
  PROVE  LET data == DataRecord(o, start, len)
         IN  data \in LogRecord /\ data.type = "data" /\ data.start = start /\ data.len = len
<1>1. Record(o, "data", 2) \in LogRecord /\ Record(o, "data", 2).type = "data"
  BY RecordIsOne DEF RecordType
<1> QED
  BY <1>1 DEF DataRecord, LogRecord

LEMMA NumberedRecord ==
  ASSUME NEW r \in LogRecord, NEW n \in Int
  PROVE  LET q == [r EXCEPT !.n = @ + n]
         IN  q \in LogRecord /\ q.type = r.type /\ q.start = r.start /\ q.len = r.len
BY DEF LogRecord

LEMMA MismatchIsRecord ==
  ASSUME LogInv, NEW o \in Owner, NEW size \in Int, NEW offset \in Int
  PROVE  LET r == MismatchRecord(o, size, offset)
         IN  r \in LogRecord /\ r.type = "mismatch" /\ r.start = offset /\ r.len = size
<1>1. Record(o, "mismatch", Quiet) \in LogRecord /\ Record(o, "mismatch", Quiet).type = "mismatch"
  BY RecordIsOne DEF RecordType, Quiet
<1> QED
  BY <1>1 DEF MismatchRecord, LogRecord

\* The mismatch and the two records of data.
LEMMA MismatchKept ==
  ASSUME LogInv, NEW o \in Owner, NEW size \in Nat, NEW offset \in 0..size - 1
  PROVE  LET l == <<MismatchRecord(o, size, offset)>> \o ShownData(o, size, offset)
         IN  l \in Seq(LogRecord) /\ Windows(l)
<1> DEFINE m     == MismatchRecord(o, size, offset)
           len   == WindowLength(size, data_bytes_logged[o])
           start == WindowStart(size, offset, len)
           data  == DataRecord(o, start, len)
           a     == [data EXCEPT !.n = @ + 1]
           b     == [data EXCEPT !.n = @ + 2]
           l     == <<m, a, b>>
<1>1. data_bytes_logged[o] \in Nat /\ LogTypes
  BY DEF LogInv, LogTypes
<1>2. len \in 0..size /\ start \in 0..size - len /\ (len > 0 => offset \in start..start + len - 1)
  BY <1>1, WindowContains
<1>3. size \in Int /\ offset \in Int /\ offset >= 0
  OBVIOUS
<1>4. m \in LogRecord /\ m.type = "mismatch" /\ m.start = offset /\ m.len = size
  BY <1>3, MismatchIsRecord
<1>5. len \in Int /\ start \in Int
  BY <1>2
<1>6. /\ a \in LogRecord /\ a.type = "data" /\ a.start = start /\ a.len = len
      /\ b \in LogRecord /\ b.type = "data"
  <2>1. data \in LogRecord /\ data.type = "data" /\ data.start = start /\ data.len = len
    BY <1>5, DataRecordIsOne
  <2> HIDE DEF data, len, start
  <2>2. a \in LogRecord /\ a.type = data.type /\ a.start = data.start /\ a.len = data.len
    BY <2>1 DEF LogRecord
  <2>3. b \in LogRecord /\ b.type = data.type
    BY <2>1 DEF LogRecord
  <2> QED
    BY <2>1, <2>2, <2>3
<1>7. <<m>> \o ShownData(o, size, offset) = <<m>> \o <<a, b>>
  BY DEF ShownData
<1> HIDE DEF m, len, start, data, a, b
<1>8. <<m>> \o <<a, b>> = l /\ l \in Seq(LogRecord)
  BY <1>4, <1>6, OneAndTwo
<1>9. DOMAIN l = 1..3 /\ l[1] = m /\ l[2] = a /\ l[3] = b
  OBVIOUS
<1> HIDE DEF l
<1>10. ASSUME NEW i \in DOMAIN l, l[i].type = "mismatch" PROVE i = 1
  BY <1>6, <1>9, <1>10
<1>11. Windows(l)
  BY <1>2, <1>3, <1>4, <1>6, <1>9, <1>10 DEF Windows
<1> QED
  BY <1>7, <1>8, <1>11 DEF m

LEMMA LogMessageKept ==
  ASSUME LogInv, NEW o \in Owner, NEW letter \in {"E", "W", "I"},
         LogMessage(o, letter) \/ LogPlatformMessage(o, letter)
  PROVE  LogInv'
<1>1. Main(SliceOf(o)) \in Owner
  BY OwnersOfSlices
<1>2. LogsKept'
  BY <1>1, PreformattedKept DEF LogMessage, LogPlatformMessage
<1>3. LogTypes'
  BY DEF LogInv, LogTypes, LogMessage, LogPlatformMessage, Call, program
<1> QED
  BY <1>2, <1>3 DEF LogInv

LEMMA LogSkipKept ==
  ASSUME LogInv, NEW o \in Owner, LogSkip(o)
  PROVE  LogInv'
<1>1. LogsKept'
  BY SkipKept DEF LogSkip
<1>2. LogTypes'
  BY DEF LogInv, LogTypes, LogSkip, Call, program
<1> QED
  BY <1>1, <1>2 DEF LogInv

LEMMA LogYamlKept ==
  ASSUME LogInv, NEW o \in Owner, NEW letter \in {"E", "I"}, NEW values \in BOOLEAN, LogYaml(o, letter, values)
  PROVE  LogInv'
<1> DEFINE yaml  == Record(o, "yaml", LevelOf[letter])
           again == [yaml EXCEPT !.n = @ + 1]
<1>1. yaml \in LogRecord /\ yaml.type = "yaml"
  BY LevelsAreInt, RecordIsOne DEF RecordType
<1>3. again \in LogRecord /\ again.type = "yaml"
  BY <1>1, NumberedRecord
<1>4. Dropped \/ Appended(o, <<yaml>>) \/ Appended(o, <<yaml, again>>)
  BY DEF LogYaml
<1> HIDE DEF yaml, again
<1>6. <<yaml>> \in Seq(LogRecord) /\ Windows(<<yaml>>)
  BY <1>1, PlainRecord
<1>7. <<yaml, again>> \in Seq(LogRecord) /\ Windows(<<yaml, again>>)
  BY <1>1, <1>3, PlainPair
<1>8. LogsKept'
  BY <1>4, <1>6, <1>7, DroppedKept, AppendedKept DEF Dropped, Appended
<1>9. LogTypes'
  BY DEF LogInv, LogTypes, LogYaml, Call, program
<1> QED
  BY <1>8, <1>9 DEF LogInv

LEMMA LogDataKept ==
  ASSUME LogInv, NEW o \in Owner, NEW size \in DataSize, LogData(o, size)
  PROVE  LogInv'
<1>1. size \in Nat
  BY SizeAssumption
<1>2. DataRecord(o, 0, size) \in LogRecord /\ DataRecord(o, 0, size).type = "data"
  <2>1. size \in Int /\ 0 \in Int
    BY <1>1
  <2> QED
    BY <2>1, DataRecordIsOne
<1>3. Dropped \/ Appended(o, <<DataRecord(o, 0, size)>>)
  BY DEF LogData
<1>4. LogsKept'
  BY <1>2, <1>3, DroppedKept, PlainKept DEF Dropped, Appended
<1>5. data_bytes_logged' \in [Owner -> Nat]
  BY <1>1 DEF LogData, LogInv, LogTypes
<1>6. LogTypes'
  BY <1>5 DEF LogInv, LogTypes, LogData, Call, program
<1> QED
  BY <1>4, <1>6 DEF LogInv

LEMMA ReportKept ==
  ASSUME LogInv, NEW o \in Owner, NEW d \in Difference, ReportMismatchedData(o, d[1], d[2])
  PROVE  LogInv'
<1> DEFINE size   == d[1]
           offset == d[2]
<1>1. size \in Nat /\ offset \in -1..size - 1
  BY SizeAssumption
<1>2. \/ Dropped /\ UNCHANGED data_bytes_logged
      \/ offset < 0 /\ Appended(o, <<MismatchRecord(o, size, offset)>>) /\ UNCHANGED data_bytes_logged
      \/ /\ offset >= 0
         /\ data_bytes_logged' = [data_bytes_logged EXCEPT ![o] = @ + 2 * size]
         /\ Appended(o, <<MismatchRecord(o, size, offset)>> \o ShownData(o, size, offset))
  BY DEF ReportMismatchedData
<1>3. cfg' = cfg /\ run' = run
  BY DEF ReportMismatchedData, Call, program
<1> HIDE DEF size, offset
<1>4. CASE Dropped /\ UNCHANGED data_bytes_logged
  BY <1>3, <1>4, DroppedKept DEF Dropped, LogInv, LogTypes
<1>5. CASE offset < 0 /\ Appended(o, <<MismatchRecord(o, size, offset)>>) /\ UNCHANGED data_bytes_logged
  <2>1. size \in Int /\ offset \in Int
    BY <1>1
  <2> DEFINE r == MismatchRecord(o, size, offset)
  <2>2. r \in LogRecord /\ r.start = offset
    BY <2>1, MismatchIsRecord
  <2>3. log' = [log EXCEPT ![o] = @ \o <<r>>]
    BY <1>5 DEF Appended
  <2> HIDE DEF r
  <2>4. <<r>> \in Seq(LogRecord) /\ Windows(<<r>>)
    BY <1>5, <2>2, PlainRecord
  <2> QED
    BY <1>3, <1>5, <2>3, <2>4, AppendedKept DEF LogInv, LogTypes
<1>6. CASE /\ offset >= 0
           /\ data_bytes_logged' = [data_bytes_logged EXCEPT ![o] = @ + 2 * size]
           /\ Appended(o, <<MismatchRecord(o, size, offset)>> \o ShownData(o, size, offset))
  <2> DEFINE l == <<MismatchRecord(o, size, offset)>> \o ShownData(o, size, offset)
  <2>1. offset \in 0..size - 1
    BY <1>1, <1>6
  <2>2. l \in Seq(LogRecord) /\ Windows(l)
    BY <1>1, <2>1, MismatchKept
  <2>3. log' = [log EXCEPT ![o] = @ \o l]
    BY <1>6 DEF Appended
  <2> HIDE DEF l
  <2>4. LogsKept'
    BY <2>2, <2>3, AppendedKept
  <2>5. data_bytes_logged' \in [Owner -> Nat]
    BY <1>1, <1>6 DEF LogInv, LogTypes
  <2> QED
    BY <1>3, <2>4, <2>5 DEF LogInv, LogTypes
<1> QED
  BY <1>2, <1>4, <1>5, <1>6 DEF size, offset

LEMMA OtherCallsKept ==
  ASSUME LogInv, NEW o \in Owner, LogThreadContext(o) \/ MarkKnobUsed(o)
  PROVE  LogInv'
<1>1. /\ Record(o, "context", 1) \in LogRecord /\ Record(o, "context", 1).type = "context"
      /\ Record(o, "knob", 1) \in LogRecord /\ Record(o, "knob", 1).type = "knob"
  BY RecordIsOne DEF RecordType
<1>2. Dropped \/ Appended(o, <<Record(o, "context", 1)>>) \/ Appended(o, <<Record(o, "knob", 1)>>)
  BY DEF LogThreadContext, MarkKnobUsed
<1>3. LogsKept'
  BY <1>1, <1>2, DroppedKept, PlainKept DEF Dropped, Appended
<1>4. LogTypes'
  BY DEF LogInv, LogTypes, LogThreadContext, MarkKnobUsed, Call, program
<1> QED
  BY <1>3, <1>4 DEF LogInv

-----------------------------------------------------------------------------
\* The children, which also die within a call.
LEMMA CutRecord ==
  ASSUME LogInv, NEW o \in Owner
  PROVE  /\ Record(o, "user", Quiet) \in LogRecord /\ Record(o, "user", Quiet).type = "user"
         /\ Record(o, "user", 2) \in LogRecord /\ Record(o, "user", 2).type = "user"
         /\ Cut(Record(o, "user", 1)) \in LogRecord /\ Cut(Record(o, "user", 1)).type = "user"
<1>1. Quiet \in Int /\ "user" \in RecordType
  BY DEF Quiet, RecordType
<1>2. \A level \in Int :
        Record(o, "user", level) \in LogRecord /\ Record(o, "user", level).type = "user"
  BY <1>1, RecordIsOne
<1>3. ASSUME NEW r \in LogRecord PROVE Cut(r) \in LogRecord /\ Cut(r).type = r.type
  BY DEF Cut, LogRecord
<1> QED
  BY <1>1, <1>2, <1>3

LEMMA NothingElse ==
  ASSUME LogInv, LogsKept', UNCHANGED <<cfg, run, data_bytes_logged>>
  PROVE  LogInv'
BY DEF LogInv, LogTypes

LEMMA QuietStepsKept ==
  ASSUME LogInv, UNCHANGED <<cfg, run, log, data_bytes_logged>>
  PROVE  LogInv'
BY DEF LogInv, LogTypes, LogsKept

LEMMA StartChildKept ==
  ASSUME LogInv, NEW s \in Slice, StartChild(s)
  PROVE  LogInv'
<1>1. data_bytes_logged' \in [Owner -> Nat]
  BY DEF StartChild, LogInv, LogTypes
<1>2. LogTypes'
  BY <1>1 DEF StartChild, Elsewhere, program, LogInv, LogTypes
<1>3. LogsKept'
  BY DroppedKept DEF StartChild
<1> QED
  BY <1>2, <1>3 DEF LogInv

LEMMA EndsKept ==
  ASSUME LogInv, NEW s \in Slice, InitFails(s) \/ InitSkips(s) \/ Finishes(s)
  PROVE  LogInv'
<1>1. Main(s) \in Owner
  BY OwnersOfSlices
<1>2. LogsKept'
  <2>1. CASE InitFails(s)
    BY <1>1, <2>1, DroppedKept, PreformattedKept DEF InitFails, Dropped
  <2>2. CASE InitSkips(s)
    BY <1>1, <2>2, SkipKept DEF InitSkips
  <2>3. CASE Finishes(s)
    BY <1>1, <2>3, SkipKept, DroppedKept DEF Finishes
  <2> QED
    BY <2>1, <2>2, <2>3
<1>3. UNCHANGED <<cfg, run, data_bytes_logged>>
  BY DEF InitFails, InitSkips, Finishes, Elsewhere, program
<1> QED
  BY <1>2, <1>3, NothingElse

LEMMA DiesKept ==
  ASSUME LogInv, NEW s \in Slice, NEW r, Dies(s, r)
  PROVE  LogInv'
<1>1. CASE UNCHANGED log
  BY <1>1, DroppedKept, NothingElse DEF Dies, Elsewhere, program
<1>2. CASE \E o \in {Main(s)} \cup thread_range[s] : Appended(o, <<Cut(Record(o, "user", 1))>>)
  <2>1. PICK o \in Owner : Appended(o, <<Cut(Record(o, "user", 1))>>)
    BY <1>2, OwnersOfSlices
  <2>2. LogsKept'
    BY <2>1, CutRecord, PlainKept DEF Appended
  <2> QED
    BY <2>2, NothingElse DEF Dies, Elsewhere, program
<1> QED
  BY <1>1, <1>2 DEF Dies, Dropped

\* Two memory files at once: each of them gets one plain record or none.
LEMMA TwoAppended ==
  ASSUME LogInv, NEW o \in Owner, NEW p \in Owner, o # p,
         NEW l \in Seq(LogRecord), NEW m \in Seq(LogRecord), Windows(l), Windows(m),
         log' = [log EXCEPT ![o] = @ \o l, ![p] = @ \o m]
  PROVE  LogsKept'
<1>1. log[o] \o l \in Seq(LogRecord) /\ Windows(log[o] \o l)
  BY AppendWindows DEF LogInv, LogsKept
<1>2. log[p] \o m \in Seq(LogRecord) /\ Windows(log[p] \o m)
  BY AppendWindows DEF LogInv, LogsKept
<1>3. log' \in [Owner -> Seq(LogRecord)]
  BY <1>1, <1>2 DEF LogInv, LogsKept
<1>4. log'[o] = log[o] \o l /\ log'[p] = log[p] \o m
  BY DEF LogInv, LogsKept
<1>5. \A q \in Owner \ {o, p} : log'[q] = log[q]
  BY DEF LogInv, LogsKept
<1>6. ASSUME NEW q \in Owner PROVE Windows(log'[q])
  <2>1. CASE q = o
    BY <1>1, <1>4, <2>1
  <2>2. CASE q = p
    BY <1>2, <1>4, <2>2
  <2>3. CASE q \notin {o, p}
    <3>1. log'[q] = log[q]
      BY <1>5, <2>3
    <3> QED
      BY <3>1 DEF LogInv, LogsKept
  <2> QED
    BY <2>1, <2>2, <2>3
<1> QED
  BY <1>3, <1>6 DEF LogsKept

LEMMA MainIsNoThread ==
  \A s \in Slice : \A t \in Thread : Main(s) # t
<1>1. ASSUME NEW s \in Nat, NEW t \in Nat PROVE Main(s) # t
  BY DEF Main
<1> QED
  BY <1>1, OwnersAreInt

LEMMA CrashesKept ==
  ASSUME LogInv, NEW t \in Thread, Crashes(t)
  PROVE  LogInv'
<1> DEFINE main == Main(SliceOf(t))
           backtrace == IF Full(main) THEN <<>> ELSE <<Record(main, "user", 2)>>
           signal    == <<Record(t, "user", Quiet)>>
<1>1. t \in Owner /\ main \in Owner /\ main # t
  BY OwnersOfSlices, MainIsNoThread
<1>2. backtrace \in Seq(LogRecord) /\ Windows(backtrace)
  <2>1. Record(main, "user", 2) \in LogRecord /\ Record(main, "user", 2).type = "user"
    BY <1>1, CutRecord
  <2> QED
    BY <2>1, PlainRecord, NoRecord
<1>3. signal \in Seq(LogRecord) /\ Windows(signal)
  <2>1. Record(t, "user", Quiet) \in LogRecord /\ Record(t, "user", Quiet).type = "user"
    BY <1>1, CutRecord
  <2> QED
    BY <2>1, PlainRecord
<1>4. Dropped \/ log' = [log EXCEPT ![t] = @ \o signal, ![main] = @ \o backtrace]
  BY DEF Crashes
<1> HIDE DEF main, backtrace, signal
<1>5. LogsKept'
  BY <1>1, <1>2, <1>3, <1>4, TwoAppended, DroppedKept DEF Dropped
<1> QED
  BY <1>5, NothingElse DEF Crashes, Elsewhere, program

LEMMA TimesOutKept ==
  ASSUME LogInv, NEW s \in Slice, TimesOut(s)
  PROVE  LogInv'
<1> DEFINE main == IF NoOutput THEN <<>> ELSE <<Record(Main(s), "user", Quiet)>>
<1>1. Main(s) \in Owner /\ thread_range[s] \subseteq Owner /\ thread_range[s] \subseteq Thread
  BY OwnersOfSlices, OwnerAssumption
<1>2. main \in Seq(LogRecord) /\ Windows(main)
  BY <1>1, CutRecord, PlainRecord, NoRecord
<1>3. \/ Appended(Main(s), main)
      \/ \E t \in thread_range[s] :
           log' = [log EXCEPT ![Main(s)] = @ \o main, ![t] = @ \o <<Cut(Record(t, "user", 1))>>]
  BY DEF TimesOut
<1> HIDE DEF main
<1>4. LogsKept'
  <2>1. CASE Appended(Main(s), main)
    BY <1>1, <1>2, <2>1, AppendedKept DEF Appended
  <2>2. ASSUME NEW t \in thread_range[s],
               log' = [log EXCEPT ![Main(s)] = @ \o main, ![t] = @ \o <<Cut(Record(t, "user", 1))>>]
        PROVE  LogsKept'
    <3>1. t \in Owner /\ t # Main(s)
      BY <1>1, MainIsNoThread
    <3> DEFINE cut == <<Cut(Record(t, "user", 1))>>
    <3>2. cut \in Seq(LogRecord) /\ Windows(cut)
      BY <3>1, CutRecord, PlainRecord
    <3> HIDE DEF cut
    <3>3. log' = [log EXCEPT ![Main(s)] = @ \o main, ![t] = @ \o cut]
      BY <2>2 DEF cut
    <3> QED
      BY <1>1, <1>2, <3>1, <3>2, <3>3, TwoAppended
  <2> QED
    BY <1>3, <2>1, <2>2
<1> QED
  BY <1>4, NothingElse DEF TimesOut, Elsewhere, program

\* The parent: a message for the threads that are stuck, and the files emptied.
LEMMA PrintRunKept ==
  ASSUME LogInv, PrintRun
  PROVE  LogInv'
<1>1. ASSUME NEW o \in Owner, NEW stuck
      PROVE  /\ log[o] \o StuckMessage(stuck, o) \in Seq(LogRecord)
             /\ Windows(log[o] \o StuckMessage(stuck, o))
  <2>1. StuckMessage(stuck, o) \in Seq(LogRecord) /\ Windows(StuckMessage(stuck, o))
    BY CutRecord, PlainRecord, NoRecord DEF StuckMessage
  <2> QED
    BY <2>1, AppendWindows DEF LogInv, LogsKept
<1>2. \A o \in Owner : AllLogs[o] \in Seq(LogRecord) /\ Windows(AllLogs[o])
  BY <1>1 DEF AllLogs
<1>3. \A o \in Owner : \A c :
        Truncated(AllLogs[o], c) \in Seq(LogRecord) /\ Windows(Truncated(AllLogs[o], c))
  BY <1>2, NoRecord DEF Truncated
<1>4. log' = [o \in Owner |-> IF NoOutput THEN log[o] ELSE Truncated(AllLogs[o], AllCounts[o])]
  BY DEF PrintRun
<1>5. \A o \in Owner : log'[o] \in Seq(LogRecord) /\ Windows(log'[o])
  BY <1>3, <1>4 DEF LogInv, LogsKept
<1>6. LogsKept'
  BY <1>4, <1>5 DEF LogsKept
<1> QED
  BY <1>6, NothingElse DEF PrintRun

LEMMA StartRunKept ==
  ASSUME LogInv, StartRun
  PROVE  LogInv'
<1>1. LogsKept'
  BY DroppedKept DEF StartRun, memory
<1>2. LogTypes'
  BY DEF StartRun, memory, LogInv, LogTypes
<1> QED
  BY <1>1, <1>2 DEF LogInv

-----------------------------------------------------------------------------
LEMMA LogInvInitially == LogInit => LogInv
<1> SUFFICES ASSUME LogInit PROVE LogInv
  OBVIOUS
<1>1. LogTypes
  BY DEF LogInit, LogTypes
<1>2. LogsKept
  BY NoRecord DEF LogInit, LogsKept
<1> QED
  BY <1>1, <1>2 DEF LogInv

LEMMA LogInvStep == LogInv /\ [LogNext]_log_vars => LogInv'
<1> SUFFICES ASSUME LogInv, [LogNext]_log_vars PROVE LogInv'
  OBVIOUS
<1>1. CASE LogCall
  <2>1. PICK o \in Owner :
          \/ \E letter \in {"E", "W", "I"} : LogMessage(o, letter)
          \/ \E letter \in {"E", "W"} : LogPlatformMessage(o, letter)
          \/ LogSkip(o)
          \/ \E letter \in {"E", "I"} : LogYaml(o, letter, letter = "E")
          \/ \E size \in DataSize : LogData(o, size)
          \/ \E d \in Difference : ReportMismatchedData(o, d[1], d[2])
          \/ LogThreadContext(o)
          \/ MarkKnobUsed(o)
    BY <1>1, Zenon DEF LogCall
  <2>2. ASSUME NEW letter \in {"E", "I"}, LogYaml(o, letter, letter = "E") PROVE LogInv'
    <3>1. (letter = "E") \in BOOLEAN
      OBVIOUS
    <3> QED
      BY <2>2, <3>1, LogYamlKept
  <2> QED
    BY <2>1, <2>2, LogMessageKept, LogSkipKept, LogDataKept, ReportKept, OtherCallsKept
<1>2. CASE ChildStep
  <2>1. ASSUME NEW s \in Slice, InitPasses(s) PROVE LogInv'
    BY <2>1, QuietStepsKept DEF InitPasses, Elsewhere, memory, program
  <2>2. ASSUME NEW t \in Thread, NEW ret, EndThread(t, ret) PROVE LogInv'
    BY <2>2, QuietStepsKept DEF EndThread, Elsewhere, program
  <2> QED
    BY <1>2, <2>1, <2>2, StartChildKept, EndsKept, DiesKept, TimesOutKept, CrashesKept DEF ChildStep
<1>3. CASE WriteToStderr
  BY <1>3, QuietStepsKept DEF WriteToStderr, program
<1>4. CASE StartRun
  BY <1>4, StartRunKept
<1>5. CASE PrintRun
  BY <1>5, PrintRunKept
<1>6. CASE Close
  BY <1>6, QuietStepsKept DEF Close, memory
<1>7. CASE UNCHANGED log_vars
  BY <1>7, QuietStepsKept DEF log_vars, memory, program
<1> QED
  BY <1>1, <1>2, <1>3, <1>4, <1>5, <1>6, <1>7 DEF LogNext, Closed

LEMMA LogInvMeans == LogInv => MismatchShowsOffset
<1> SUFFICES ASSUME LogInv, NEW o \in Owner, NEW i \in DOMAIN log[o],
                    log[o][i].type = "mismatch", log[o][i].start >= 0
             PROVE  LET r == log[o][i]  data == log[o][i + 1] IN
                    /\ i + 1 \in DOMAIN log[o] /\ data.type = "data"
                    /\ data.start \in 0..(r.len - data.len)
                    /\ data.len > 0 => r.start \in data.start..(data.start + data.len - 1)
  BY DEF MismatchShowsOffset
<1>1. Windows(log[o])
  BY DEF LogInv, LogsKept
<1> QED
  BY <1>1 DEF Windows

\* The window of data that is shown for a mismatch contains the byte that differs and
\* lies within the buffer, for all sizes, offsets and limits and after any other calls
\* of any threads, children that die while they log, and repeated runs.
THEOREM WindowHoldsDifference == LogSpec => []MismatchShowsOffset
<1>1. LogInit => LogInv
  BY LogInvInitially
<1>2. LogInv /\ [LogNext]_log_vars => LogInv'
  BY LogInvStep
<1>3. LogInv => MismatchShowsOffset
  BY LogInvMeans
<1> QED
  BY <1>1, <1>2, <1>3, PTL DEF LogSpec
=============================================================================
