---------------------- MODULE BarrierReschedule_proofs ----------------------
(***************************************************************************)
(* Proofs about the barrier scheduler: its counts are exact, on_completion *)
(* runs while nobody else of the group can touch its vectors, and a pair   *)
(* that nobody has left keeps its devices, for any number of devices and   *)
(* of reschedule() calls; and the rounds of the queue, its alternative, are *)
(* fair.                                                                   *)
(***************************************************************************)
EXTENDS Reschedule, FiniteSetTheorems, TLAPS

-----------------------------------------------------------------------------
(***************************************************************************)
(* The inductive invariant.                                                *)
(***************************************************************************)
\* Still counted by the barrier for the next phase.
Subscribed(g) == {t \in Members(g) : pc[t] \notin {"done", "rotate_drop", "pin_drop"}}

\* Still to arrive in this phase.
Awaited(g) ==
  {t \in Members(g) : pc[t] \notin {"done", "wait", "rotate", "pin", "rotate_drop", "pin_drop"}}

\* Still with an entry in the vectors of the group.
Kept(g) ==
  {t \in Members(g) : pc[t] \notin {"done", "drop", "rotate_drop", "pin_drop"}}

\* The barrier's two counts, at every moment.
Counts(g) ==
  /\ expected[g] = Cardinality(Subscribed(g))
  /\ pending[g] = Cardinality(Awaited(g))

\* Every member erases at most one entry of each vector, next_cpu's only if
\* tid's is erased too.
Sizes(g) ==
  /\ tid[g].size = Cardinality(Kept(g))
  /\ tid[g].size <= next_cpu[g].size

\* The one that runs on_completion() is alone.
Exclusive(g) ==
  \A t \in Members(g) : InCompletion(t) =>
    \A u \in Members(g) \ {t} : pc[u] \in {"wait", "done"}

\* A group's vector holds ids of its own members only.
OwnIds(g) ==
  \A i \in Slot : tid[g].mem[i] \in {0} \cup {Tid(u) : u \in Members(g)}

\* Nobody of the group has ended or started to.
Complete(g) == \A u \in Members(g) : u \in Kept(g) /\ pc[u] # "left"

\* Thread u of group g has filled in its entry.
Filled(u, g) == tid[g].mem[thread_info_idx(u)] = Tid(u)

\* The device that group g has in store for thread u.
Store(u, g) == next_cpu[g].mem[thread_info_idx(u)]

\* A complete group has all its entries, in the slots of their threads; a
\* thread that has called reschedule() has filled in its own.
EntriesInPlace(g) ==
  /\ next_cpu[g].size = Cardinality(Members(g))
  /\ \A u \in Members(g) :
       /\ tid[g].mem[thread_info_idx(u)] \in {0, Tid(u)}
       /\ pc[u] # "run" => Filled(u, g)

\* The devices in store are a permutation of the group's; none has moved before
\* all the members have filled in theirs.
StorePermuted(g) ==
  /\ \A u \in Members(g) : Filled(u, g) => Store(u, g) \in Members(g)
  /\ \A u, v \in Members(g) :
       u # v /\ Filled(u, g) => IF Filled(v, g) THEN Store(u, g) # Store(v, g)
                                                ELSE Store(u, g) = u

\* So are those the threads are pinned to.
CpusPermuted(g) ==
  /\ \A u \in Members(g) : cpu[u] \in Members(g)
  /\ \A u, v \in Members(g) : u # v => cpu[u] # cpu[v]

GroupInv(g) ==
  /\ Counts(g)
  /\ Sizes(g)
  /\ Exclusive(g)
  /\ OwnIds(g)
  /\ Complete(g) => EntriesInPlace(g) /\ StorePermuted(g) /\ CpusPermuted(g)

IInv ==
  /\ TypeOK
  /\ \A g \in Group : GroupInv(g)

-----------------------------------------------------------------------------
(***************************************************************************)
(* Threads, groups and slots.                                              *)
(***************************************************************************)
\* A thread is the member of its group that its slot says.
LEMMA ThreadsOfGroups ==
  ASSUME NEW t \in Thread
  PROVE  /\ g_idx(t) \in Group
         /\ thread_info_idx(t) \in Slot
         /\ t = 2 * g_idx(t) + thread_info_idx(t)
         /\ t \in Members(g_idx(t))
  BY DeviceAssumption
     DEF Thread, Group, g_idx, thread_info_idx, Slot, Members, members_per_group

\* A group has the lower thread of a pair, and mostly the upper one too.
LEMMA MembersOfGroups ==
  ASSUME NEW g \in Group
  PROVE  /\ g \in Int
         /\ 2 * g \in Thread
         /\ Members(g) = IF 2 * g + 1 \in Thread THEN {2 * g, 2 * g + 1} ELSE {2 * g}
         /\ \A t \in Members(g) : t \in Thread /\ g_idx(t) = g
<1>1. PICK u \in Thread : g = u \div 2
  BY DEF Group, members_per_group
<1>2. g \in Int /\ 2 * g \in Thread
  BY <1>1, DeviceAssumption DEF Thread
<1>3. ASSUME NEW t \in Thread
      PROVE  (g_idx(t) = g) <=> t \in {2 * g, 2 * g + 1}
  BY <1>2, DeviceAssumption DEF Thread, g_idx, members_per_group
<1> QED
  BY <1>2, <1>3 DEF Members

\* The two slots of a pair, and the one of a thread without a partner.
LEMMA PairsHaveTwoSlots ==
  ASSUME NEW g \in Group
  PROVE  /\ thread_info_idx(2 * g) = 0
         /\ thread_info_idx(2 * g + 1) = 1
         /\ 2 * g + 1 \in Thread =>
              Members(g) = {2 * g, 2 * g + 1} /\ Cardinality(Members(g)) = 2
         /\ 2 * g + 1 \notin Thread =>
              Members(g) = {2 * g} /\ Cardinality(Members(g)) = 1
<1>1. thread_info_idx(2 * g) = 0 /\ thread_info_idx(2 * g + 1) = 1
  BY MembersOfGroups DEF thread_info_idx, members_per_group
<1>2. ASSUME 2 * g + 1 \in Thread
      PROVE  Members(g) = {2 * g, 2 * g + 1} /\ Cardinality(Members(g)) = 2
  <2>1. IsFiniteSet({2 * g}) /\ Cardinality({2 * g}) = 1
    BY FS_Singleton
  <2>2. 2 * g + 1 \notin {2 * g}
    BY MembersOfGroups
  <2>3. Cardinality({2 * g} \cup {2 * g + 1}) = 2
    BY <2>1, <2>2, FS_AddElement
  <2>4. Members(g) = {2 * g} \cup {2 * g + 1}
    BY <1>2, MembersOfGroups
  <2> QED
    BY <2>3, <2>4
<1>3. ASSUME 2 * g + 1 \notin Thread
      PROVE  Members(g) = {2 * g} /\ Cardinality(Members(g)) = 1
  <2>1. Members(g) = {2 * g}
    BY <1>3, MembersOfGroups
  <2> QED
    BY <2>1, FS_Singleton, Zenon
<1> QED
  BY <1>1, <1>2, <1>3

\* Two members of a group have different slots.
LEMMA SlotsDiffer ==
  ASSUME NEW g \in Group, NEW u \in Members(g), NEW v \in Members(g), u # v
  PROVE  thread_info_idx(u) # thread_info_idx(v)
  BY MembersOfGroups, ThreadsOfGroups

\* The slots of the members are the first ones.
LEMMA MembersFillSlots ==
  ASSUME NEW g \in Group
  PROVE  /\ Cardinality(Members(g)) \in 1..2
         /\ \A u \in Members(g) : thread_info_idx(u) \in 0..(Cardinality(Members(g)) - 1)
         /\ \A i \in 0..(Cardinality(Members(g)) - 1) :
              \E u \in Members(g) : thread_info_idx(u) = i
<1>1. CASE 2 * g + 1 \in Thread
  <2>1. Members(g) = {2 * g, 2 * g + 1} /\ Cardinality(Members(g)) = 2
    BY <1>1, PairsHaveTwoSlots
  <2>2. 0..(Cardinality(Members(g)) - 1) = {0, 1}
    BY <2>1
  <2>3. ASSUME NEW u \in Members(g)
        PROVE  thread_info_idx(u) \in 0..(Cardinality(Members(g)) - 1)
    <3>1. u = 2 * g \/ u = 2 * g + 1
      BY <2>1
    <3> QED
      BY <2>2, <3>1, PairsHaveTwoSlots
  <2>4. ASSUME NEW i \in 0..(Cardinality(Members(g)) - 1)
        PROVE  \E u \in Members(g) : thread_info_idx(u) = i
    <3>1. 2 * g \in Members(g) /\ 2 * g + 1 \in Members(g) /\ (i = 0 \/ i = 1)
      BY <2>1, <2>2
    <3> QED
      BY <3>1, PairsHaveTwoSlots
  <2>5. Cardinality(Members(g)) \in 1..2
    BY <2>1
  <2> QED
    BY <2>3, <2>4, <2>5, Zenon
<1>2. CASE 2 * g + 1 \notin Thread
  <2>1. Members(g) = {2 * g} /\ Cardinality(Members(g)) = 1
    BY <1>2, PairsHaveTwoSlots
  <2>2. 0..(Cardinality(Members(g)) - 1) = {0} /\ Cardinality(Members(g)) \in 1..2
    BY <2>1
  <2>3. \A u \in Members(g) : thread_info_idx(u) \in 0..(Cardinality(Members(g)) - 1)
    BY <2>1, <2>2, PairsHaveTwoSlots
  <2>4. \A i \in 0..(Cardinality(Members(g)) - 1) :
          \E u \in Members(g) : thread_info_idx(u) = i
    BY <2>1, <2>2, PairsHaveTwoSlots
  <2> QED
    BY <2>2, <2>3, <2>4
<1> QED
  BY <1>1, <1>2

\* What the counts of members can be.
LEMMA CountsOfMembers ==
  ASSUME NEW g \in Group, NEW S \in SUBSET Members(g)
  PROVE  /\ IsFiniteSet(S)
         /\ Cardinality(S) \in 0..2
         /\ \A t \in S : /\ Cardinality(S \ {t}) = Cardinality(S) - 1
                        /\ Cardinality(S) >= 1
                        /\ (Cardinality(S) = 1 <=> S = {t})
<1>1. IsFiniteSet(Members(g)) /\ Cardinality(Members(g)) \in 1..2
  <2>1. IsFiniteSet(Members(g))
    <3>0. IsFiniteSet({2 * g})
      BY FS_Singleton, Zenon
    <3>1. IsFiniteSet({2 * g} \cup {2 * g + 1})
      BY <3>0, FS_AddElement, Zenon
    <3>2. Members(g) = {2 * g} \/ Members(g) = {2 * g} \cup {2 * g + 1}
      BY MembersOfGroups
    <3> QED
      BY <3>0, <3>1, <3>2, Zenon
  <2> QED
    BY <2>1, MembersFillSlots
<1>2. IsFiniteSet(S) /\ Cardinality(S) \in 0..2
  BY <1>1, FS_Subset, FS_CardinalityType
<1>3. ASSUME NEW t \in S
      PROVE  /\ Cardinality(S \ {t}) = Cardinality(S) - 1
             /\ Cardinality(S) >= 1
             /\ (Cardinality(S) = 1 <=> S = {t})
  <2>1. Cardinality(S \ {t}) = Cardinality(S) - 1 /\ IsFiniteSet(S \ {t})
    BY <1>2, FS_RemoveElement
  <2>2. Cardinality(S \ {t}) \in Nat
    BY <2>1, FS_CardinalityType
  <2>3. Cardinality(S \ {t}) = 0 <=> S \ {t} = {}
    BY <2>1, FS_EmptySet
  <2> QED
    BY <1>2, <2>1, <2>2, <2>3
<1> QED
  BY <1>2, <1>3

\* Distinct members of a group on devices of the group: together they have them
\* all.
LEMMA PermutationsCover ==
  ASSUME NEW g \in Group, NEW d \in [Thread -> Device],
         \A u \in Members(g) : d[u] \in Members(g),
         \A u, v \in Members(g) : u # v => d[u] # d[v]
  PROVE  {d[u] : u \in Members(g)} = Members(g)
<1>1. CASE 2 * g + 1 \in Thread
  BY <1>1, MembersOfGroups
<1>2. CASE 2 * g + 1 \notin Thread
  BY <1>2, MembersOfGroups
<1> QED
  BY <1>1, <1>2

-----------------------------------------------------------------------------
(***************************************************************************)
(* The sets of members that the counts stand for.                          *)
(***************************************************************************)
\* One thread's step changes the sets of its own group only, and by itself.
LEMMA SetsAfterGoto ==
  ASSUME TypeOK, NEW t \in Thread, NEW l \in ThreadPc, Goto(t, l)
  PROVE  /\ \A u \in Thread : pc'[u] = IF u = t THEN l ELSE pc[u]
         /\ \A g \in Group \ {g_idx(t)} :
              /\ Subscribed(g)' = Subscribed(g)
              /\ Awaited(g)' = Awaited(g)
              /\ Kept(g)' = Kept(g)
         /\ Subscribed(g_idx(t))' =
              IF l \in {"done", "rotate_drop", "pin_drop"}
              THEN Subscribed(g_idx(t)) \ {t} ELSE Subscribed(g_idx(t)) \cup {t}
         /\ Awaited(g_idx(t))' =
              IF l \in {"done", "wait", "rotate", "pin", "rotate_drop", "pin_drop"}
              THEN Awaited(g_idx(t)) \ {t} ELSE Awaited(g_idx(t)) \cup {t}
         /\ Kept(g_idx(t))' =
              IF l \in {"done", "drop", "rotate_drop", "pin_drop"}
              THEN Kept(g_idx(t)) \ {t} ELSE Kept(g_idx(t)) \cup {t}
<1>1. \A u \in Thread : pc'[u] = IF u = t THEN l ELSE pc[u]
  BY DEF Goto, TypeOK
<1>2. \A g \in Group \ {g_idx(t)} : Members(g) \subseteq Thread \ {t}
  BY MembersOfGroups
<1>3. Members(g_idx(t)) \subseteq Thread /\ t \in Members(g_idx(t))
  BY ThreadsOfGroups, MembersOfGroups
<1>4. ASSUME NEW g \in Group \ {g_idx(t)}
      PROVE  Subscribed(g)' = Subscribed(g) /\ Awaited(g)' = Awaited(g) /\ Kept(g)' = Kept(g)
  BY <1>1, <1>2 DEF Subscribed, Awaited, Kept
<1>5. Subscribed(g_idx(t))' =
        IF l \in {"done", "rotate_drop", "pin_drop"}
        THEN Subscribed(g_idx(t)) \ {t} ELSE Subscribed(g_idx(t)) \cup {t}
  BY <1>1, <1>3 DEF Subscribed
<1>6. Awaited(g_idx(t))' =
        IF l \in {"done", "wait", "rotate", "pin", "rotate_drop", "pin_drop"}
        THEN Awaited(g_idx(t)) \ {t} ELSE Awaited(g_idx(t)) \cup {t}
  BY <1>1, <1>3 DEF Awaited
<1>7. Kept(g_idx(t))' =
        IF l \in {"done", "drop", "rotate_drop", "pin_drop"}
        THEN Kept(g_idx(t)) \ {t} ELSE Kept(g_idx(t)) \cup {t}
  BY <1>1, <1>3 DEF Kept
<1> QED
  BY <1>1, <1>4, <1>5, <1>6, <1>7

-----------------------------------------------------------------------------
(***************************************************************************)
(* The vectors' operations.                                                *)
(***************************************************************************)
LEMMA PutVector ==
  ASSUME NEW S, NEW v \in Vector(S), NEW i \in Slot, NEW x \in S
  PROVE  /\ Put(v, i, x) \in Vector(S)
         /\ Put(v, i, x).size = v.size
         /\ \A j \in Slot : Put(v, i, x).mem[j] = IF j = i THEN x ELSE v.mem[j]
  BY DEF Put, Vector

\* Erasing makes nothing up: what is in the vector was there before.
LEMMA EraseVector ==
  ASSUME NEW S, NEW v \in Vector(S), NEW i \in Slot
  PROVE  /\ v.size >= 1 => Erase(v, i) \in Vector(S) /\ Erase(v, i).size = v.size - 1
         /\ \A j \in Slot : \E k \in Slot : Erase(v, i).mem[j] = v.mem[k]
<1>0. Slot = {0, 1} /\ v.mem \in [Slot -> S] /\ v.size \in 0..2
  BY DEF Slot, Vector, members_per_group
<1>2. \A j \in Slot : \E k \in Slot : Erase(v, i).mem[j] = v.mem[k]
  <2> TAKE j \in Slot
  <2>1. CASE i <= j /\ j + 1 < v.size
    <3>1. j + 1 \in Slot
      BY <1>0, <2>1
    <3>2. Erase(v, i).mem[j] = v.mem[j + 1]
      BY <2>1 DEF Erase
    <3> QED
      BY <3>1, <3>2
  <2>2. CASE ~ (i <= j /\ j + 1 < v.size)
    BY <2>2 DEF Erase
  <2> QED
    BY <2>1, <2>2
<1>3. ASSUME v.size >= 1
      PROVE  Erase(v, i) \in Vector(S) /\ Erase(v, i).size = v.size - 1
  <2>1. Erase(v, i).size = v.size - 1 /\ v.size - 1 \in 0..2
    BY <1>0, <1>3 DEF Erase
  <2>2. \A j \in Slot : Erase(v, i).mem[j] \in S
    BY <1>0, <1>2
  <2>3. Erase(v, i).mem \in [Slot -> S]
    BY <2>2 DEF Erase
  <2> QED
    BY <2>1, <2>3 DEF Erase, Vector, members_per_group
<1> QED
  BY <1>2, <1>3

\* Rotating a pair swaps it, and anything shorter is left as it is.
LEMMA RotateVector ==
  ASSUME NEW S, NEW v \in Vector(S)
  PROVE  /\ Rotate(v) \in Vector(S)
         /\ Rotate(v).size = v.size
         /\ v.size = 1 => Rotate(v).mem[0] = v.mem[0]
         /\ v.size = 2 => Rotate(v).mem[0] = v.mem[1] /\ Rotate(v).mem[1] = v.mem[0]
<1>0. Slot = {0, 1} /\ v.mem \in [Slot -> S] /\ v.size \in 0..2
  BY DEF Slot, Vector, members_per_group
<1>4. /\ Rotate(v).size = v.size
      /\ \A j \in Slot : Rotate(v).mem[j] =
                         IF j < v.size THEN v.mem[(j + 1) % v.size] ELSE v.mem[j]
  BY <1>0 DEF Rotate, Vector
<1>5. /\ v.size = 1 => Rotate(v).mem[0] = v.mem[0] /\ Rotate(v).mem[1] = v.mem[1]
      /\ v.size = 2 => Rotate(v).mem[0] = v.mem[1] /\ Rotate(v).mem[1] = v.mem[0]
      /\ v.size = 0 => Rotate(v).mem[0] = v.mem[0] /\ Rotate(v).mem[1] = v.mem[1]
  BY <1>0, <1>4
<1>6. Rotate(v) \in Vector(S)
  <2>1. \A j \in Slot : Rotate(v).mem[j] \in S
    BY <1>0, <1>5
  <2>2. Rotate(v).mem \in [Slot -> S]
    BY <2>1 DEF Rotate, Vector
  <2> QED
    BY <1>0, <2>2 DEF Rotate, Vector
<1> QED
  BY <1>4, <1>5, <1>6

-----------------------------------------------------------------------------
(***************************************************************************)
(* A step of a thread and the other groups.                                *)
(***************************************************************************)
\* A group of which a step changes nothing keeps its part of the invariant.
LEMMA UntouchedGroups ==
  ASSUME NEW g \in Group, GroupInv(g),
         \A u \in Members(g) : pc'[u] = pc[u] /\ cpu'[u] = cpu[u],
         tid'[g] = tid[g], next_cpu'[g] = next_cpu[g],
         expected'[g] = expected[g], pending'[g] = pending[g]
  PROVE  GroupInv(g)'
<1>1. /\ Subscribed(g)' = Subscribed(g)
      /\ Awaited(g)' = Awaited(g)
      /\ Kept(g)' = Kept(g)
  BY DEF Subscribed, Awaited, Kept
<1>2. Counts(g)' /\ Sizes(g)'
  BY <1>1 DEF GroupInv, Counts, Sizes
<1>3. Exclusive(g)'
  BY DEF GroupInv, Exclusive, InCompletion
<1>4. OwnIds(g)'
  BY DEF GroupInv, OwnIds
<1>5. Complete(g)' => Complete(g)
  BY <1>1 DEF Complete
<1>6. EntriesInPlace(g) => EntriesInPlace(g)'
  BY DEF EntriesInPlace, Filled
<1>7. StorePermuted(g) => StorePermuted(g)'
  BY DEF StorePermuted, Filled, Store
<1>8. CpusPermuted(g) => CpusPermuted(g)'
  BY DEF CpusPermuted
<1> QED
  BY <1>2, <1>3, <1>4, <1>5, <1>6, <1>7, <1>8 DEF GroupInv

\* Of another group a thread's step changes nothing: on_completion() pins only
\* threads whose ids are in its own group's vector.
LEMMA OtherGroupsUntouched ==
  ASSUME IInv, NEW t \in Thread, Step(t), NEW g \in Group, g # g_idx(t)
  PROVE  GroupInv(g)'
<1>1. \A u \in Members(g) : u \in Thread /\ u # t /\ u \notin Members(g_idx(t))
  BY MembersOfGroups DEF Members
<1>2. g_idx(t) \in Group
  BY ThreadsOfGroups
<1>3. /\ tid'[g] = tid[g]
      /\ next_cpu'[g] = next_cpu[g]
      /\ expected'[g] = expected[g]
      /\ pending'[g] = pending[g]
  BY <1>2 DEF IInv, TypeOK, Step, Reschedule, Arrive, Finish, Leave, EraseMember,
     FinishDies, Drop, Unsubscribe, RotateCpus, RotateDies, PinMembers, NextPhase, groups, barrier
<1>4. \A u \in Members(g) : pc'[u] = pc[u]
  BY <1>1, MembersOfGroups
     DEF IInv, TypeOK, Step, Reschedule, Arrive, Finish, Leave, EraseMember,
     FinishDies, Drop, RotateCpus, RotateDies, PinMembers, Goto, groups
<1>5. ASSUME NEW u \in Members(g)
      PROVE  cpu'[u] = cpu[u]
  <2>1. CASE PinMembers(t)
    <3>1. SlotsOf(u, g_idx(t), t) = {}
      <4>1. tid[g_idx(t)].size \in 0..2
        BY <1>2 DEF IInv, TypeOK, Vector, members_per_group
      <4>2. \A i \in Slot :
              tid[g_idx(t)].mem[i] \in {0} \cup {Tid(w) : w \in Members(g_idx(t))}
        BY <1>2 DEF IInv, GroupInv, OwnIds
      <4>3. Tid(u) # 0 /\ \A w \in Members(g_idx(t)) : Tid(u) # Tid(w)
        BY <1>1, <1>2, MembersOfGroups, DeviceAssumption DEF Tid, Thread
      <4>4. \A i \in 0..(tid[g_idx(t)].size - 1) : i \in Slot
        BY <4>1 DEF Slot, members_per_group
      <4> QED
        BY <1>1, <4>2, <4>3, <4>4 DEF SlotsOf
    <3> QED
      BY <1>1, <2>1, <3>1 DEF PinMembers
  <2>2. CASE ~PinMembers(t)
    BY <2>2 DEF Step, Reschedule, Arrive, Finish, FinishDies, Drop, RotateCpus, RotateDies
  <2> QED
    BY <2>1, <2>2
<1> QED
  BY <1>3, <1>4, <1>5, UntouchedGroups DEF IInv

-----------------------------------------------------------------------------
(***************************************************************************)
(* What is known of the group of a thread that is not in on_completion().  *)
(***************************************************************************)
\* While a member is on its way to the barrier, or in the test, nobody of its
\* group runs on_completion(): the barrier still awaits that member.
LEMMA NobodyCompletes ==
  ASSUME IInv, NEW t \in Thread, pc[t] \in {"run", "arrive", "drop", "left"},
         NEW u \in Members(g_idx(t))
  PROVE  ~InCompletion(u)
<1>1. /\ g_idx(t) \in Group
      /\ t \in Members(g_idx(t))
  BY ThreadsOfGroups
<1>2. InCompletion(u) => u # t
  BY DEF InCompletion
<1> QED
  BY <1>1, <1>2 DEF IInv, GroupInv, Exclusive

\* The types of what belongs to one group.
LEMMA TypesOfGroup ==
  ASSUME TypeOK, NEW g \in Group
  PROVE  /\ tid[g] \in Vector({0} \cup {Tid(u) : u \in Thread})
         /\ next_cpu[g] \in Vector(Device)
         /\ expected[g] \in 0..2
         /\ pending[g] \in 0..2
         /\ Subscribed(g) \in SUBSET Members(g)
         /\ Awaited(g) \in SUBSET Members(g)
         /\ Kept(g) \in SUBSET Members(g)
  BY DEF TypeOK, members_per_group, Subscribed, Awaited, Kept

-----------------------------------------------------------------------------
(***************************************************************************)
(* The initial states.                                                     *)
(***************************************************************************)
LEMMA InitEstablishesInvariant ==
  ASSUME Init
  PROVE  IInv
<1>1. \A g \in Group : Zeroed(g) \in Vector({0}) /\ Zeroed(g).size = Cardinality(Members(g))
  BY MembersFillSlots DEF Zeroed, Vector, members_per_group
<1>2. \A g \in Group : \A i \in Slot : Zeroed(g).mem[i] = 0
  BY DEF Zeroed
<1>3. 0 \in Device
  BY DeviceAssumption DEF Device, Thread
<1>4. TypeOK
  <2>1. tid \in [Group -> Vector({0} \cup {Tid(t) : t \in Thread})]
    BY <1>1 DEF Init, Vector
  <2>2. next_cpu \in [Group -> Vector(Device)]
    BY <1>1, <1>3 DEF Init, Vector
  <2>3. expected \in [Group -> 0..2] /\ pending \in [Group -> 0..2]
    BY MembersFillSlots DEF Init
  <2>4. calls \in [Thread -> 0..MaxCalls]
    BY MaxCallsAssumption DEF Init
  <2>5. pc \in [Thread -> ThreadPc] /\ cpu \in [Thread -> Device]
    BY DEF Init, ThreadPc, Device
  <2> QED
    BY <2>1, <2>2, <2>3, <2>4, <2>5 DEF Init, TypeOK, members_per_group
<1>5. ASSUME NEW g \in Group
      PROVE  GroupInv(g)
  <2>0. \A u \in Members(g) : u \in Thread /\ pc[u] = "run" /\ cpu[u] = u
    BY MembersOfGroups DEF Init
  <2>1. Subscribed(g) = Members(g) /\ Awaited(g) = Members(g) /\ Kept(g) = Members(g)
    BY <2>0 DEF Subscribed, Awaited, Kept
  <2>2. Counts(g)
    BY <2>1 DEF Counts, Init
  <2>3. Sizes(g)
    BY <1>1, <2>1, MembersFillSlots DEF Sizes, Init
  <2>4. Exclusive(g)
    BY <2>0 DEF Exclusive, InCompletion
  <2>5. OwnIds(g)
    BY <1>2 DEF OwnIds, Init
  <2>6. EntriesInPlace(g)
    BY <1>1, <1>2, <2>0, ThreadsOfGroups, MembersOfGroups DEF EntriesInPlace, Init
  <2>7. \A u \in Members(g) : ~Filled(u, g)
    <3>1. \A u \in Members(g) : Tid(u) # 0
      BY <2>0, DeviceAssumption DEF Tid, Thread
    <3> QED
      BY <1>2, <2>0, <3>1, ThreadsOfGroups, MembersOfGroups DEF Filled, Init
  <2>8. StorePermuted(g)
    BY <2>7 DEF StorePermuted
  <2>9. CpusPermuted(g)
    BY <2>0 DEF CpusPermuted
  <2> QED
    BY <2>2, <2>3, <2>4, <2>5, <2>6, <2>8, <2>9 DEF GroupInv
<1> QED
  BY <1>4, <1>5 DEF IInv

-----------------------------------------------------------------------------
(***************************************************************************)
(* One lemma per action: what it makes of its thread's own group.          *)
(***************************************************************************)
LEMMA RescheduleKeeps ==
  ASSUME IInv, NEW t \in Thread, Reschedule(t)
  PROVE  TypeOK' /\ GroupInv(g_idx(t))'
<1> DEFINE g == g_idx(t)
           i == thread_info_idx(t)
<1>0. g \in Group /\ i \in Slot /\ t \in Members(g) /\ Tid(t) # 0
  BY ThreadsOfGroups, DeviceAssumption DEF Tid, Thread
<1>1. pc[t] = "run" /\ Goto(t, "arrive") /\ TypeOK /\ GroupInv(g)
  BY <1>0 DEF Reschedule, At, IInv
<1>2. /\ \A u \in Thread : pc'[u] = IF u = t THEN "arrive" ELSE pc[u]
      /\ Subscribed(g)' = Subscribed(g)
      /\ Awaited(g)' = Awaited(g)
      /\ Kept(g)' = Kept(g)
  <2>1. t \in Subscribed(g) /\ t \in Awaited(g) /\ t \in Kept(g)
    BY <1>0, <1>1 DEF Subscribed, Awaited, Kept
  <2> QED
    BY <1>1, <2>1, SetsAfterGoto DEF ThreadPc
<1>3. /\ tid[g] \in Vector({0} \cup {Tid(u) : u \in Thread})
      /\ next_cpu[g] \in Vector(Device)
  BY <1>0, <1>1, TypesOfGroup
<1>4. CASE tid[g].mem[i] = 0
  <2>1. /\ tid' = [tid EXCEPT ![g] = Put(@, i, Tid(t))]
        /\ next_cpu' = [next_cpu EXCEPT ![g] = Put(@, i, t)]
    BY <1>4 DEF Reschedule
  <2>2. /\ tid'[g] = Put(tid[g], i, Tid(t))
        /\ next_cpu'[g] = Put(next_cpu[g], i, t)
    BY <1>0, <1>1, <2>1 DEF TypeOK
  <2>3. /\ tid'[g] \in Vector({0} \cup {Tid(u) : u \in Thread})
        /\ tid'[g].size = tid[g].size
        /\ \A j \in Slot : tid'[g].mem[j] = IF j = i THEN Tid(t) ELSE tid[g].mem[j]
    BY <1>0, <1>3, <2>2, PutVector
  <2>4. /\ next_cpu'[g] \in Vector(Device)
        /\ next_cpu'[g].size = next_cpu[g].size
        /\ \A j \in Slot : next_cpu'[g].mem[j] = IF j = i THEN t ELSE next_cpu[g].mem[j]
    <3>1. t \in Device
      BY DEF Device
    <3> QED
      BY <1>0, <1>3, <2>2, <3>1, PutVector
  <2>5. TypeOK'
    <3>1. tid' \in [Group -> Vector({0} \cup {Tid(u) : u \in Thread})]
      BY <1>0, <1>1, <2>1, <2>3 DEF TypeOK
    <3>2. next_cpu' \in [Group -> Vector(Device)]
      BY <1>0, <1>1, <2>1, <2>4 DEF TypeOK
    <3> QED
      BY <1>1, <3>1, <3>2, MaxCallsAssumption
         DEF TypeOK, Reschedule, Goto, ThreadPc, barrier
  <2>6. Counts(g)' /\ Sizes(g)'
    BY <1>1, <1>2, <2>3, <2>4 DEF GroupInv, Counts, Sizes, Reschedule, barrier
  <2>7. Exclusive(g)'
    <3>1. \A u \in Members(g) : ~InCompletion(u)
      BY <1>1, NobodyCompletes
    <3>2. \A u \in Members(g) : ~InCompletion(u)'
      BY <1>2, <3>1, MembersOfGroups, <1>0 DEF InCompletion
    <3> QED
      BY <3>2 DEF Exclusive
  <2>8. OwnIds(g)'
    BY <1>0, <1>1, <2>3 DEF GroupInv, OwnIds
  <2>9. ASSUME Complete(g)'
        PROVE  EntriesInPlace(g)' /\ StorePermuted(g)' /\ CpusPermuted(g)'
    <3>1. Complete(g)
      BY <1>0, <1>1, <1>2, <2>9, MembersOfGroups DEF Complete
    <3>2. EntriesInPlace(g) /\ StorePermuted(g) /\ CpusPermuted(g)
      BY <1>1, <3>1 DEF GroupInv
    <3>3. \A u \in Members(g) : u \in Thread /\ thread_info_idx(u) \in Slot
                              /\ (u # t => thread_info_idx(u) # i)
      BY <1>0, MembersOfGroups, ThreadsOfGroups, SlotsDiffer
    <3>4. /\ ~Filled(t, g)
          /\ \A u \in Members(g) : Filled(u, g)' <=> (u = t \/ Filled(u, g))
      BY <1>0, <1>4, <2>3, <3>3 DEF Filled
    <3>5. \A u \in Members(g) : Store(u, g)' = IF u = t THEN t ELSE Store(u, g)
      BY <1>0, <2>4, <3>3 DEF Store
    <3>6. EntriesInPlace(g)'
      BY <1>0, <1>2, <2>3, <2>4, <3>2, <3>3, <3>4 DEF EntriesInPlace
    <3>7. StorePermuted(g)'
      BY <1>0, <3>2, <3>4, <3>5 DEF StorePermuted
    <3>8. CpusPermuted(g)'
      BY <3>2 DEF CpusPermuted, Reschedule
    <3> QED
      BY <3>6, <3>7, <3>8
  <2> QED
    BY <2>5, <2>6, <2>7, <2>8, <2>9 DEF GroupInv
<1>5. CASE tid[g].mem[i] # 0
  <2>1. UNCHANGED <<tid, next_cpu>>
    BY <1>5 DEF Reschedule
  <2>5. TypeOK'
    BY <1>1, <2>1, MaxCallsAssumption DEF TypeOK, Reschedule, Goto, ThreadPc, barrier
  <2>6. Counts(g)' /\ Sizes(g)'
    BY <1>1, <1>2, <2>1 DEF GroupInv, Counts, Sizes, Reschedule, barrier
  <2>7. Exclusive(g)'
    <3>1. \A u \in Members(g) : ~InCompletion(u)
      BY <1>1, NobodyCompletes
    <3>2. \A u \in Members(g) : ~InCompletion(u)'
      BY <1>2, <3>1, MembersOfGroups, <1>0 DEF InCompletion
    <3> QED
      BY <3>2 DEF Exclusive
  <2>8. OwnIds(g)'
    BY <1>0, <1>1, <2>1 DEF GroupInv, OwnIds
  <2>9. ASSUME Complete(g)'
        PROVE  EntriesInPlace(g)' /\ StorePermuted(g)' /\ CpusPermuted(g)'
    <3>1. Complete(g)
      BY <1>0, <1>1, <1>2, <2>9, MembersOfGroups DEF Complete
    <3>2. EntriesInPlace(g) /\ StorePermuted(g) /\ CpusPermuted(g)
      BY <1>1, <3>1 DEF GroupInv
    <3>3. Filled(t, g)
      BY <1>0, <1>5, <3>2 DEF EntriesInPlace, Filled
    <3>4. \A u \in Members(g) : /\ Filled(u, g)' <=> Filled(u, g)
                              /\ Store(u, g)' = Store(u, g)
      BY <2>1 DEF Filled, Store
    <3>5. EntriesInPlace(g)'
      BY <1>0, <1>2, <2>1, <3>2, <3>3, <3>4, MembersOfGroups DEF EntriesInPlace
    <3>6. StorePermuted(g)'
      BY <3>2, <3>4 DEF StorePermuted
    <3>7. CpusPermuted(g)'
      BY <3>2 DEF CpusPermuted, Reschedule
    <3> QED
      BY <3>5, <3>6, <3>7
  <2> QED
    BY <2>5, <2>6, <2>7, <2>8, <2>9 DEF GroupInv
<1> QED
  BY <1>4, <1>5

LEMMA ArriveKeeps ==
  ASSUME IInv, NEW t \in Thread, Arrive(t)
  PROVE  TypeOK' /\ GroupInv(g_idx(t))'
<1> DEFINE g == g_idx(t)
           l == IF LastToArrive(g) THEN "rotate" ELSE "wait"
<1>0. g \in Group /\ t \in Members(g)
  BY ThreadsOfGroups
<1>1. pc[t] = "arrive" /\ Goto(t, l) /\ TypeOK /\ GroupInv(g)
  BY <1>0 DEF Arrive, At, IInv
<1>2. /\ \A u \in Thread : pc'[u] = IF u = t THEN l ELSE pc[u]
      /\ Subscribed(g)' = Subscribed(g)
      /\ Awaited(g)' = Awaited(g) \ {t}
      /\ Kept(g)' = Kept(g)
      /\ t \in Awaited(g)
  <2>1. t \in Subscribed(g) /\ t \in Awaited(g) /\ t \in Kept(g)
    BY <1>0, <1>1 DEF Subscribed, Awaited, Kept
  <2> QED
    BY <1>1, <2>1, SetsAfterGoto DEF ThreadPc
<1>3. pending[g] \in 1..2 /\ pending'[g] = pending[g] - 1
  <2>1. pending[g] = Cardinality(Awaited(g)) /\ Awaited(g) \in SUBSET Members(g)
    BY <1>0, <1>1, TypesOfGroup DEF GroupInv, Counts
  <2>2. Cardinality(Awaited(g)) >= 1
    BY <1>0, <1>2, <2>1, CountsOfMembers
  <2> QED
    BY <1>0, <1>1, <2>1, <2>2 DEF Arrive, TypeOK, members_per_group
<1>4. TypeOK'
  <2>1. pending' \in [Group -> 0..2]
    BY <1>0, <1>1, <1>3 DEF Arrive, TypeOK, members_per_group
  <2> QED
    BY <1>1, <2>1 DEF TypeOK, Arrive, Goto, ThreadPc, groups, members_per_group
<1>5. Counts(g)' /\ Sizes(g)'
  <2>1. Cardinality(Awaited(g)') = Cardinality(Awaited(g)) - 1
    BY <1>0, <1>1, <1>2, TypesOfGroup, CountsOfMembers
  <2> QED
    BY <1>1, <1>2, <1>3, <2>1 DEF GroupInv, Counts, Sizes, Arrive, groups
<1>6. Exclusive(g)'
  <2>1. \A u \in Members(g) : u \in Thread /\ ~InCompletion(u)
    BY <1>0, <1>1, NobodyCompletes, MembersOfGroups
  <2>2. CASE LastToArrive(g)
    <3>1. Awaited(g) = {t}
      BY <1>0, <1>1, <1>2, <2>2, TypesOfGroup, CountsOfMembers
         DEF LastToArrive, GroupInv, Counts
    <3>2. \A u \in Members(g) \ {t} : pc'[u] \in {"wait", "done"}
      BY <1>2, <2>1, <3>1 DEF Awaited, InCompletion
    <3>3. \A u \in Members(g) \ {t} : ~InCompletion(u)'
      BY <3>2 DEF InCompletion
    <3> QED
      BY <3>2, <3>3 DEF Exclusive
  <2>3. CASE ~LastToArrive(g)
    <3>1. \A u \in Members(g) : ~InCompletion(u)'
      BY <1>2, <2>1, <2>3 DEF InCompletion
    <3> QED
      BY <3>1 DEF Exclusive
  <2> QED
    BY <2>2, <2>3
<1>7. OwnIds(g)'
  BY <1>1 DEF GroupInv, OwnIds, Arrive, groups
<1>8. ASSUME Complete(g)'
      PROVE  EntriesInPlace(g)' /\ StorePermuted(g)' /\ CpusPermuted(g)'
  <2>1. Complete(g)
    BY <1>0, <1>1, <1>2, <1>8, MembersOfGroups DEF Complete
  <2>2. EntriesInPlace(g) /\ StorePermuted(g) /\ CpusPermuted(g)
    BY <1>1, <2>1 DEF GroupInv
  <2>3. EntriesInPlace(g)'
    BY <1>0, <1>1, <1>2, <2>2, MembersOfGroups DEF EntriesInPlace, Filled, Arrive, groups
  <2>4. StorePermuted(g)'
    BY <2>2 DEF StorePermuted, Filled, Store, Arrive, groups
  <2>5. CpusPermuted(g)'
    BY <2>2 DEF CpusPermuted, Arrive
  <2> QED
    BY <2>3, <2>4, <2>5
<1> QED
  BY <1>4, <1>5, <1>6, <1>7, <1>8 DEF GroupInv

LEMMA FinishKeeps ==
  ASSUME IInv, NEW t \in Thread, Finish(t)
  PROVE  TypeOK' /\ GroupInv(g_idx(t))'
<1> DEFINE g == g_idx(t)
           i == thread_info_idx(t)
<1>0. g \in Group /\ i \in Slot /\ t \in Members(g)
  BY ThreadsOfGroups
<1>1. pc[t] = "run" /\ TypeOK /\ GroupInv(g)
  BY <1>0 DEF Finish, At, IInv
<1>2. t \in Subscribed(g) /\ t \in Awaited(g) /\ t \in Kept(g)
  BY <1>0, <1>1 DEF Subscribed, Awaited, Kept
<1>3. \A u \in Members(g) : u \in Thread /\ ~InCompletion(u)
  BY <1>0, <1>1, NobodyCompletes, MembersOfGroups
<1>4. failed' \subseteq Thread
  BY <1>1 DEF Finish, TypeOK
<1>5. CASE Leave(t)
  <2>1. /\ \A u \in Thread : pc'[u] = IF u = t THEN "left" ELSE pc[u]
        /\ Subscribed(g)' = Subscribed(g)
        /\ Awaited(g)' = Awaited(g)
        /\ Kept(g)' = Kept(g)
    BY <1>1, <1>2, <1>5, SetsAfterGoto DEF Leave, ThreadPc
  <2>2. TypeOK'
    BY <1>1, <1>4, <1>5 DEF TypeOK, Finish, Leave, Goto, ThreadPc, barrier, groups
  <2>3. Counts(g)' /\ Sizes(g)'
    BY <1>1, <1>5, <2>1 DEF GroupInv, Counts, Sizes, Finish, Leave, barrier, groups
  <2>4. Exclusive(g)'
    BY <1>3, <2>1 DEF Exclusive, InCompletion
  <2>5. OwnIds(g)'
    BY <1>1, <1>5 DEF GroupInv, OwnIds, Leave, groups
  <2>6. ~Complete(g)'
    BY <1>0, <2>1 DEF Complete
  <2> QED
    BY <2>2, <2>3, <2>4, <2>5, <2>6 DEF GroupInv
<1>6. CASE EraseMember(t)
  <2>1. /\ \A u \in Thread : pc'[u] = IF u = t THEN "drop" ELSE pc[u]
        /\ Subscribed(g)' = Subscribed(g)
        /\ Awaited(g)' = Awaited(g)
        /\ Kept(g)' = Kept(g) \ {t}
    <3>1. Goto(t, "drop") /\ "drop" \in ThreadPc
      BY <1>6 DEF EraseMember, ThreadPc
    <3> QED
      BY <1>1, <1>2, <3>1, SetsAfterGoto
  <2>2. /\ tid[g] \in Vector({0} \cup {Tid(u) : u \in Thread})
        /\ next_cpu[g] \in Vector(Device)
        /\ Kept(g) \in SUBSET Members(g)
    BY <1>0, <1>1, TypesOfGroup
  <2>3. /\ tid[g].size >= 1
        /\ Cardinality(Kept(g)') = tid[g].size - 1
        /\ tid[g].size <= next_cpu[g].size
    <3>1. Cardinality(Kept(g)) >= 1 /\ Cardinality(Kept(g) \ {t}) = Cardinality(Kept(g)) - 1
      BY <1>0, <1>2, <2>2, CountsOfMembers
    <3>2. tid[g].size = Cardinality(Kept(g)) /\ tid[g].size <= next_cpu[g].size
      BY <1>1 DEF GroupInv, Sizes
    <3> QED
      BY <2>1, <3>1, <3>2
  <2>4. tid'[g] = Erase(tid[g], i)
    BY <1>0, <1>1, <1>6 DEF TypeOK, EraseMember
  <2>5. /\ tid'[g] \in Vector({0} \cup {Tid(u) : u \in Thread})
        /\ tid'[g].size = tid[g].size - 1
        /\ \A j \in Slot : \E k \in Slot : tid'[g].mem[j] = tid[g].mem[k]
    <3>1. /\ Erase(tid[g], i) \in Vector({0} \cup {Tid(u) : u \in Thread})
          /\ Erase(tid[g], i).size = tid[g].size - 1
          /\ \A j \in Slot : \E k \in Slot : Erase(tid[g], i).mem[j] = tid[g].mem[k]
      BY <1>0, <2>2, <2>3, EraseVector
    <3> QED
      BY <2>4, <3>1
  <2>6. next_cpu'[g] = Erase(next_cpu[g], i) \/ next_cpu'[g] = next_cpu[g]
    BY <1>0, <1>1, <1>6 DEF TypeOK, EraseMember
  <2>7. /\ next_cpu'[g] \in Vector(Device)
        /\ next_cpu'[g].size \in {next_cpu[g].size, next_cpu[g].size - 1}
    <3>1. next_cpu[g].size >= 1
      BY <2>2, <2>3 DEF Vector, members_per_group
    <3> QED
      BY <1>0, <2>2, <2>6, <3>1, EraseVector
  <2>8. TypeOK'
    <3>1. tid' \in [Group -> Vector({0} \cup {Tid(u) : u \in Thread})]
      BY <1>0, <1>1, <1>6, <2>4, <2>5 DEF TypeOK, EraseMember
    <3>2. next_cpu' \in [Group -> Vector(Device)]
      BY <1>0, <1>1, <1>6, <2>7 DEF TypeOK, EraseMember
    <3> QED
      BY <1>1, <1>4, <1>6, <3>1, <3>2
         DEF TypeOK, Finish, EraseMember, Goto, ThreadPc, barrier
  <2>9. Counts(g)'
    BY <1>1, <2>1 DEF GroupInv, Counts, Finish, barrier
  <2>10. Sizes(g)'
    BY <2>2, <2>3, <2>5, <2>7 DEF Sizes, Vector, members_per_group
  <2>11. Exclusive(g)'
    BY <1>3, <2>1 DEF Exclusive, InCompletion
  <2>12. OwnIds(g)'
    BY <1>1, <2>5 DEF GroupInv, OwnIds
  <2>13. ~Complete(g)'
    BY <1>0, <2>1 DEF Complete
  <2> QED
    BY <2>8, <2>9, <2>10, <2>11, <2>12, <2>13 DEF GroupInv
<1> QED
  BY <1>5, <1>6 DEF Finish

LEMMA DropKeeps ==
  ASSUME IInv, NEW t \in Thread, Drop(t)
  PROVE  TypeOK' /\ GroupInv(g_idx(t))'
<1> DEFINE g == g_idx(t)
           l == IF LastToArrive(g) THEN "rotate_drop" ELSE "done"
<1>0. g \in Group /\ t \in Members(g)
  BY ThreadsOfGroups
<1>1. pc[t] = "drop" /\ Goto(t, l) /\ TypeOK /\ GroupInv(g)
  BY <1>0 DEF Drop, At, IInv
<1>2. /\ \A u \in Thread : pc'[u] = IF u = t THEN l ELSE pc[u]
      /\ Subscribed(g)' = Subscribed(g) \ {t}
      /\ Awaited(g)' = Awaited(g) \ {t}
      /\ Kept(g)' = Kept(g)
      /\ t \in Subscribed(g)
      /\ t \in Awaited(g)
      /\ t \notin Kept(g)
  <2>1. t \in Subscribed(g) /\ t \in Awaited(g) /\ t \notin Kept(g)
    BY <1>0, <1>1 DEF Subscribed, Awaited, Kept
  <2> QED
    BY <1>1, <2>1, SetsAfterGoto DEF ThreadPc
<1>3. /\ Subscribed(g) \in SUBSET Members(g)
      /\ Awaited(g) \in SUBSET Members(g)
      /\ expected[g] = Cardinality(Subscribed(g)) /\ expected[g] \in 0..2
      /\ pending[g] = Cardinality(Awaited(g)) /\ pending[g] \in 0..2
  BY <1>0, <1>1, TypesOfGroup DEF GroupInv, Counts
<1>4. /\ expected[g] >= 1 /\ Cardinality(Subscribed(g)') = expected[g] - 1
      /\ pending[g] >= 1 /\ Cardinality(Awaited(g)') = pending[g] - 1
  <2>1. /\ Cardinality(Subscribed(g)) >= 1
        /\ Cardinality(Subscribed(g) \ {t}) = Cardinality(Subscribed(g)) - 1
    BY <1>0, <1>2, <1>3, CountsOfMembers
  <2>2. /\ Cardinality(Awaited(g)) >= 1
        /\ Cardinality(Awaited(g) \ {t}) = Cardinality(Awaited(g)) - 1
    BY <1>0, <1>2, <1>3, CountsOfMembers
  <2> QED
    BY <1>2, <1>3, <2>1, <2>2
<1>5. /\ expected' = [expected EXCEPT ![g] = expected[g] - 1]
      /\ pending' = [pending EXCEPT ![g] = pending[g] - 1]
  BY <1>0, <1>1 DEF Drop, Unsubscribe
<1>6. TypeOK'
  <2>1. expected' \in [Group -> 0..2] /\ pending' \in [Group -> 0..2]
    BY <1>0, <1>1, <1>3, <1>4, <1>5 DEF TypeOK, members_per_group
  <2> QED
    BY <1>1, <2>1 DEF TypeOK, Drop, Goto, ThreadPc, groups, members_per_group
<1>7. Counts(g)' /\ Sizes(g)'
  <2>1. expected'[g] = expected[g] - 1 /\ pending'[g] = pending[g] - 1
    BY <1>0, <1>1, <1>5 DEF TypeOK
  <2>2. Counts(g)'
    BY <1>4, <2>1 DEF Counts
  <2>3. Sizes(g)'
    BY <1>1, <1>2 DEF GroupInv, Sizes, Drop, groups
  <2> QED
    BY <2>2, <2>3
<1>8. Exclusive(g)'
  <2>1. \A u \in Members(g) : u \in Thread /\ ~InCompletion(u)
    BY <1>0, <1>1, NobodyCompletes, MembersOfGroups
  <2>2. CASE LastToArrive(g)
    <3>1. Awaited(g) = {t}
      BY <1>0, <1>2, <1>3, <2>2, CountsOfMembers DEF LastToArrive
    <3>2. \A u \in Members(g) \ {t} : pc'[u] \in {"wait", "done"}
      BY <1>2, <2>1, <3>1 DEF Awaited, InCompletion
    <3>3. \A u \in Members(g) \ {t} : ~InCompletion(u)'
      BY <3>2 DEF InCompletion
    <3> QED
      BY <3>2, <3>3 DEF Exclusive
  <2>3. CASE ~LastToArrive(g)
    <3>1. \A u \in Members(g) : ~InCompletion(u)'
      BY <1>2, <2>1, <2>3 DEF InCompletion
    <3> QED
      BY <3>1 DEF Exclusive
  <2> QED
    BY <2>2, <2>3
<1>9. OwnIds(g)'
  BY <1>1 DEF GroupInv, OwnIds, Drop, groups
<1>10. ~Complete(g)'
  BY <1>0, <1>2 DEF Complete
<1> QED
  BY <1>6, <1>7, <1>8, <1>9, <1>10 DEF GroupInv

\* A complete group that rotates has been filled in by all its members.
LEMMA RotateCpusKeeps ==
  ASSUME IInv, NEW t \in Thread, RotateCpus(t)
  PROVE  TypeOK' /\ GroupInv(g_idx(t))'
<1> DEFINE g == g_idx(t)
           l == IF pc[t] = "rotate" THEN "pin" ELSE "pin_drop"
<1>0. g \in Group /\ t \in Members(g)
  BY ThreadsOfGroups
<1>1. pc[t] \in {"rotate", "rotate_drop"} /\ Goto(t, l) /\ TypeOK /\ GroupInv(g)
  BY <1>0 DEF RotateCpus, At, IInv
<1>2. /\ \A u \in Thread : pc'[u] = IF u = t THEN l ELSE pc[u]
      /\ Subscribed(g)' = Subscribed(g)
      /\ Awaited(g)' = Awaited(g)
      /\ Kept(g)' = Kept(g)
  <2>1. CASE pc[t] = "rotate"
    <3>1. t \in Subscribed(g) /\ t \notin Awaited(g) /\ t \in Kept(g)
      BY <1>0, <2>1 DEF Subscribed, Awaited, Kept
    <3> QED
      BY <1>1, <2>1, <3>1, SetsAfterGoto DEF ThreadPc
  <2>2. CASE pc[t] = "rotate_drop"
    <3>1. t \notin Subscribed(g) /\ t \notin Awaited(g) /\ t \notin Kept(g)
      BY <1>0, <2>2 DEF Subscribed, Awaited, Kept
    <3>2. Goto(t, "pin_drop") /\ l = "pin_drop"
      BY <1>1, <2>2
    <3> QED
      BY <1>1, <3>1, <3>2, SetsAfterGoto DEF ThreadPc
  <2> QED
    BY <1>1, <2>1, <2>2
<1>3. /\ next_cpu[g] \in Vector(Device)
      /\ next_cpu' = [next_cpu EXCEPT ![g] = Rotate(@)]
      /\ next_cpu'[g] = Rotate(next_cpu[g])
  BY <1>0, <1>1, TypesOfGroup DEF TypeOK, RotateCpus
<1>4. /\ next_cpu'[g] \in Vector(Device)
      /\ next_cpu'[g].size = next_cpu[g].size
      /\ next_cpu[g].size = 1 => next_cpu'[g].mem[0] = next_cpu[g].mem[0]
      /\ next_cpu[g].size = 2 => /\ next_cpu'[g].mem[0] = next_cpu[g].mem[1]
                                /\ next_cpu'[g].mem[1] = next_cpu[g].mem[0]
  BY <1>3, RotateVector
<1>5. TypeOK'
  <2>1. next_cpu' \in [Group -> Vector(Device)]
    BY <1>0, <1>1, <1>3, <1>4 DEF TypeOK
  <2> QED
    BY <1>1, <2>1 DEF TypeOK, RotateCpus, Goto, ThreadPc, barrier
<1>6. Counts(g)' /\ Sizes(g)'
  BY <1>1, <1>2, <1>4 DEF GroupInv, Counts, Sizes, RotateCpus, barrier
<1>7. \A u \in Members(g) : u \in Thread /\ (u # t => pc[u] \in {"wait", "done"})
  BY <1>0, <1>1, MembersOfGroups DEF GroupInv, Exclusive, InCompletion
<1>8. Exclusive(g)'
  <2>1. \A u \in Members(g) \ {t} : pc'[u] \in {"wait", "done"}
    BY <1>2, <1>7
  <2> QED
    BY <2>1 DEF Exclusive, InCompletion
<1>9. OwnIds(g)'
  BY <1>1 DEF GroupInv, OwnIds, RotateCpus
<1>10. ASSUME Complete(g)'
       PROVE  EntriesInPlace(g)' /\ StorePermuted(g)' /\ CpusPermuted(g)'
  <2>1. Complete(g)
    BY <1>0, <1>1, <1>2, <1>10, MembersOfGroups DEF Complete
  <2>2. EntriesInPlace(g) /\ StorePermuted(g) /\ CpusPermuted(g)
    BY <1>1, <2>1 DEF GroupInv
  <2>3. \A u \in Members(g) : Filled(u, g) /\ Filled(u, g)'
    BY <1>1, <1>7, <2>2 DEF EntriesInPlace, Filled, RotateCpus
  <2>4. EntriesInPlace(g)'
    BY <1>4, <2>2, <2>3 DEF EntriesInPlace, RotateCpus
  <2>5. \A u \in Members(g) : \E w \in Members(g) : Store(u, g)' = Store(w, g)
    <3>1. CASE 2 * g + 1 \in Thread
      <4>1. /\ Members(g) = {2 * g, 2 * g + 1}
            /\ next_cpu[g].size = 2
            /\ thread_info_idx(2 * g) = 0 /\ thread_info_idx(2 * g + 1) = 1
        BY <1>0, <2>2, <3>1, PairsHaveTwoSlots DEF EntriesInPlace
      <4> QED
        BY <1>4, <4>1 DEF Store
    <3>2. CASE 2 * g + 1 \notin Thread
      <4>1. /\ Members(g) = {2 * g}
            /\ next_cpu[g].size = 1
            /\ thread_info_idx(2 * g) = 0
        BY <1>0, <2>2, <3>2, PairsHaveTwoSlots DEF EntriesInPlace
      <4> QED
        BY <1>4, <4>1 DEF Store
    <3> QED
      BY <3>1, <3>2
  <2>6. ASSUME NEW u \in Members(g), NEW v \in Members(g), u # v
        PROVE  Store(u, g)' = Store(v, g) /\ Store(v, g)' = Store(u, g)
    <3>1. /\ Members(g) = {2 * g, 2 * g + 1}
          /\ next_cpu[g].size = 2
          /\ thread_info_idx(2 * g) = 0 /\ thread_info_idx(2 * g + 1) = 1
      BY <1>0, <2>2, <2>6, PairsHaveTwoSlots, MembersOfGroups DEF EntriesInPlace
    <3>2. (u = 2 * g /\ v = 2 * g + 1) \/ (v = 2 * g /\ u = 2 * g + 1)
      BY <2>6, <3>1
    <3> QED
      BY <1>4, <3>1, <3>2 DEF Store
  <2>7. StorePermuted(g)'
    <3>1. \A u \in Members(g) : Store(u, g)' \in Members(g)
      BY <2>2, <2>3, <2>5 DEF StorePermuted
    <3>2. \A u, v \in Members(g) : u # v => Store(u, g)' # Store(v, g)'
      BY <2>2, <2>3, <2>6 DEF StorePermuted
    <3> QED
      BY <2>3, <3>1, <3>2 DEF StorePermuted
  <2>8. CpusPermuted(g)'
    BY <2>2 DEF CpusPermuted, RotateCpus
  <2> QED
    BY <2>4, <2>7, <2>8
<1> QED
  BY <1>5, <1>6, <1>8, <1>9, <1>10 DEF GroupInv

\* The slot that pins a member of a complete group is the member's own.
LEMMA SlotsOfMembers ==
  ASSUME IInv, NEW t \in Thread, NEW g \in Group, g = g_idx(t), Complete(g),
         \A u \in Members(g) : Filled(u, g), NEW u \in Members(g)
  PROVE  SlotsOf(u, g, t) = {thread_info_idx(u)}
<1>1. /\ GroupInv(g) /\ EntriesInPlace(g) /\ TypeOK
      /\ u \in Thread
  BY MembersOfGroups DEF IInv, GroupInv
<1>2. tid[g].size = Cardinality(Members(g))
  <2>1. Kept(g) = Members(g)
    BY DEF Complete, Kept
  <2> QED
    BY <1>1, <2>1 DEF GroupInv, Sizes
<1>3. \A w \in Members(g) : /\ tid[g].mem[thread_info_idx(w)] = Tid(w)
                          /\ Tid(w) # 0
                          /\ (w # u => Tid(w) # Tid(u))
  BY <1>1, MembersOfGroups, DeviceAssumption DEF Filled, Tid, Thread
<1>4. ASSUME NEW i \in 0..(tid[g].size - 1)
      PROVE  (i \in SlotsOf(u, g, t)) <=> i = thread_info_idx(u)
  <2>1. PICK w \in Members(g) : thread_info_idx(w) = i
    BY <1>2, MembersFillSlots
  <2>2. (i \in SlotsOf(u, g, t)) <=> tid[g].mem[i] = Tid(u)
    BY <1>3, <2>1 DEF SlotsOf
  <2> QED
    BY <1>3, <2>1, <2>2
<1>5. thread_info_idx(u) \in 0..(tid[g].size - 1)
  BY <1>2, MembersFillSlots
<1> QED
  BY <1>4, <1>5 DEF SlotsOf

LEMMA PinMembersKeeps ==
  ASSUME IInv, NEW t \in Thread, PinMembers(t)
  PROVE  TypeOK' /\ GroupInv(g_idx(t))'
<1> DEFINE g == g_idx(t)
<1>0. g \in Group /\ t \in Members(g)
  BY ThreadsOfGroups
<1>1. pc[t] \in {"pin", "pin_drop"} /\ TypeOK /\ GroupInv(g)
  BY <1>0 DEF PinMembers, At, IInv
<1>2. \A u \in Members(g) : u \in Thread /\ (u # t => pc[u] \in {"wait", "done"})
  BY <1>0, <1>1, MembersOfGroups DEF GroupInv, Exclusive, InCompletion
<1>3. /\ \A u \in Thread \ Members(g) : pc'[u] = pc[u]
      /\ \A u \in Members(g) \ {t} : pc'[u] = IF pc[u] = "wait" THEN "run" ELSE "done"
      /\ pc'[t] = IF pc[t] = "pin" THEN "run" ELSE "done"
      /\ pc' \in [Thread -> ThreadPc]
  BY <1>0, <1>1, <1>2 DEF PinMembers, TypeOK, ThreadPc
<1>4. /\ Subscribed(g)' = Subscribed(g)
      /\ Awaited(g)' = Subscribed(g)
      /\ Kept(g)' = Kept(g)
  BY <1>0, <1>1, <1>2, <1>3 DEF Subscribed, Awaited, Kept
<1>5. pending' = [pending EXCEPT ![g] = expected[g]]
  BY DEF PinMembers, NextPhase
<1>6. cpu' \in [Thread -> Device]
  <2>1. ASSUME NEW u \in Thread, SlotsOf(u, g, t) # {}
        PROVE  next_cpu[g].mem[CHOOSE i \in SlotsOf(u, g, t) :
                                 \A j \in SlotsOf(u, g, t) : j <= i] \in Device
    <3>1. next_cpu[g] \in Vector(Device) /\ tid[g].size \in 0..2
      BY <1>0, <1>1 DEF TypeOK, Vector, members_per_group
    <3>2. SlotsOf(u, g, t) \subseteq {0, 1}
      BY <3>1 DEF SlotsOf
    <3>3. \E i \in SlotsOf(u, g, t) : \A j \in SlotsOf(u, g, t) : j <= i
      BY <2>1, <3>2
    <3>4. (CHOOSE i \in SlotsOf(u, g, t) : \A j \in SlotsOf(u, g, t) : j <= i) \in {0, 1}
      BY <3>2, <3>3
    <3>5. \A i \in {0, 1} : next_cpu[g].mem[i] \in Device
      BY <3>1 DEF Vector, Slot, members_per_group
    <3> QED
      BY <3>4, <3>5, Zenon
  <2> QED
    BY <1>1, <2>1 DEF PinMembers, TypeOK
<1>7. TypeOK'
  <2>1. pending' \in [Group -> 0..members_per_group]
    BY <1>0, <1>1, <1>5 DEF TypeOK
  <2> QED
    BY <1>1, <1>3, <1>6, <2>1 DEF TypeOK, PinMembers, groups
<1>8. Counts(g)' /\ Sizes(g)'
  BY <1>0, <1>1, <1>4, <1>5 DEF GroupInv, Counts, Sizes, PinMembers, groups, TypeOK
<1>9. Exclusive(g)'
  <2>1. \A u \in Members(g) : ~InCompletion(u)'
    BY <1>2, <1>3 DEF InCompletion
  <2> QED
    BY <2>1 DEF Exclusive
<1>10. OwnIds(g)'
  BY <1>1 DEF GroupInv, OwnIds, PinMembers, groups
<1>11. ASSUME Complete(g)'
       PROVE  EntriesInPlace(g)' /\ StorePermuted(g)' /\ CpusPermuted(g)'
  <2>1. Complete(g)
    BY <1>1, <1>2, <1>4, <1>11 DEF Complete
  <2>2. EntriesInPlace(g) /\ StorePermuted(g) /\ CpusPermuted(g)
    BY <1>1, <2>1 DEF GroupInv
  <2>3. \A u \in Members(g) : Filled(u, g) /\ Filled(u, g)' /\ Store(u, g)' = Store(u, g)
    BY <1>1, <1>2, <2>2 DEF EntriesInPlace, Filled, Store, PinMembers, groups
  <2>4. EntriesInPlace(g)'
    BY <2>2, <2>3 DEF EntriesInPlace, PinMembers, groups
  <2>5. StorePermuted(g)'
    BY <2>2, <2>3 DEF StorePermuted
  <2>6. ASSUME NEW u \in Members(g)
        PROVE  cpu'[u] = Store(u, g)
    <3>1. SlotsOf(u, g, t) = {thread_info_idx(u)}
      BY <1>0, <2>1, <2>3, SlotsOfMembers
    <3>2. (CHOOSE i \in SlotsOf(u, g, t) : \A j \in SlotsOf(u, g, t) : j <= i)
            = thread_info_idx(u)
      <4>1. thread_info_idx(u) \in Int
        BY <1>2, ThreadsOfGroups DEF Slot, members_per_group
      <4> QED
        BY <3>1, <4>1
    <3> QED
      BY <1>2, <3>1, <3>2 DEF PinMembers, Store
  <2>7. CpusPermuted(g)'
    BY <2>2, <2>3, <2>6 DEF CpusPermuted, StorePermuted
  <2> QED
    BY <2>4, <2>5, <2>7
<1> QED
  BY <1>7, <1>8, <1>9, <1>10, <1>11 DEF GroupInv

-----------------------------------------------------------------------------
(***************************************************************************)
(* The theorems.                                                           *)
(***************************************************************************)
\* Undefined behaviour that ends the process leaves everything else as it was.
LEMMA DyingKeeps ==
  ASSUME IInv, NEW t \in Thread, FinishDies(t) \/ RotateDies(t)
  PROVE  TypeOK' /\ GroupInv(g_idx(t))'
<1>1. g_idx(t) \in Group
  BY ThreadsOfGroups
<1>2. TypeOK'
  BY DEF IInv, TypeOK, FinishDies, RotateDies, groups, barrier
<1>3. GroupInv(g_idx(t))'
  BY <1>1, UntouchedGroups DEF IInv, FinishDies, RotateDies, groups, barrier
<1> QED
  BY <1>2, <1>3

LEMMA StepKeepsInvariant ==
  ASSUME IInv, [Next]_vars
  PROVE  IInv'
<1>1. ASSUME NEW t \in Thread, Step(t)
      PROVE  IInv'
  <2>1. TypeOK' /\ GroupInv(g_idx(t))'
    <3>1. CASE Reschedule(t)
      BY <3>1, RescheduleKeeps
    <3>2. CASE Arrive(t)
      BY <3>2, ArriveKeeps
    <3>3. CASE Finish(t)
      BY <3>3, FinishKeeps
    <3>4. CASE FinishDies(t) \/ RotateDies(t)
      BY <3>4, DyingKeeps
    <3>5. CASE Drop(t)
      BY <3>5, DropKeeps
    <3>6. CASE RotateCpus(t)
      BY <3>6, RotateCpusKeeps
    <3>7. CASE PinMembers(t)
      BY <3>7, PinMembersKeeps
    <3> QED
      BY <1>1, <3>1, <3>2, <3>3, <3>4, <3>5, <3>6, <3>7 DEF Step
  <2>2. ASSUME NEW g \in Group, g # g_idx(t)
        PROVE  GroupInv(g)'
    BY <1>1, <2>2, OtherGroupsUntouched
  <2> QED
    BY <2>1, <2>2 DEF IInv
<1>2. ASSUME UNCHANGED vars
      PROVE  IInv'
  <2>1. TypeOK'
    BY <1>2 DEF IInv, TypeOK, vars, groups, barrier
  <2>2. \A g \in Group : GroupInv(g)'
    BY <1>2, UntouchedGroups DEF IInv, vars, groups, barrier
  <2> QED
    BY <2>1, <2>2 DEF IInv
<1> QED
  BY <1>1, <1>2 DEF Next

\* The inductive invariant holds in every state of the barrier scheduler.
THEOREM Invariance == Spec => []IInv
<1>1. Init => IInv
  BY InitEstablishesInvariant
<1>2. IInv /\ [Next]_vars => IInv'
  BY StepKeepsInvariant
<1> QED
  BY <1>1, <1>2, PTL DEF Spec

\* The variables of the barrier scheduler keep their types: the counts of the
\* barrier and the sizes of the vectors never fall below zero, although every
\* member takes one off.
THEOREM TypeCorrect == Spec => []TypeOK
<1>1. IInv => TypeOK
  BY DEF IInv
<1> QED
  BY <1>1, Invariance, PTL

\* on_completion() walks the vectors of its group without a lock and alone: all
\* others of the group wait in the barrier or have ended.
THEOREM CompletionAlone == Spec => []CompletionIsExclusive
<1>1. IInv => CompletionIsExclusive
  BY ThreadsOfGroups, MembersOfGroups
     DEF IInv, GroupInv, Exclusive, CompletionIsExclusive, Ended
<1> QED
  BY <1>1, Invariance, PTL

\* Outside on_completion() the barrier's counts are those of the members that
\* have not unsubscribed, and of those that have not arrived.
THEOREM CountsAreExact == Spec => []CountIsExact
<1>1. ASSUME IInv, NEW g \in Group, \A t \in Members(g) : ~InCompletion(t)
      PROVE  /\ expected[g] = Cardinality({t \in Members(g) : pc[t] # "done"})
             /\ pending[g] = Cardinality({t \in Members(g) : pc[t] \notin {"done", "wait"}})
  <2>1. {t \in Members(g) : pc[t] # "done"} = Subscribed(g)
    BY <1>1 DEF Subscribed, InCompletion
  <2>2. {t \in Members(g) : pc[t] \notin {"done", "wait"}} = Awaited(g)
    BY <1>1 DEF Awaited, InCompletion
  <2> QED
    BY <1>1, <2>1, <2>2 DEF IInv, GroupInv, Counts
<1>2. IInv => CountIsExact
  BY <1>1 DEF CountIsExact
<1> QED
  BY <1>2, Invariance, PTL

\* A complete group's threads are pinned to a permutation of its devices.
LEMMA PairsOfInvariant ==
  ASSUME IInv
  PROVE  PairKeepsItsDevices
<1>1. ASSUME NEW g \in Group,
             \A t \in Members(g) : pc[t] \notin Ended \cup {"drop", "rotate_drop", "pin_drop"}
      PROVE  {cpu[t] : t \in Members(g)} = Members(g)
  <2>1. Complete(g)
    BY <1>1 DEF Complete, Kept, Ended
  <2>2. CpusPermuted(g) /\ cpu \in [Thread -> Device]
    BY <1>1, <2>1 DEF IInv, GroupInv, TypeOK
  <2> QED
    BY <2>2, PermutationsCover DEF CpusPermuted
<1> QED
  BY <1>1 DEF PairKeepsItsDevices

\* As long as nobody of a pair has ended, its two threads run on its two
\* devices, each on its own, whatever the other pairs do.
THEOREM PairsKeepTheirDevices == Spec => []PairKeepsItsDevices
<1>1. IInv => PairKeepsItsDevices
  BY PairsOfInvariant
<1> QED
  BY <1>1, Invariance, PTL

-----------------------------------------------------------------------------
(***************************************************************************)
(* The three schedulers: the barrier's own invariant holds where it is used, *)
(* without it threads stay on their devices until they are handed others.   *)
(***************************************************************************)
\* The queue is empty or an order of all devices, with a place in it; in an empty
\* one nothing has been handed out.
QueueInv ==
  /\ queue \in Seq(Device) /\ served \in [Device -> Nat] /\ q_idx \in Nat
  /\ IF queue = <<>> THEN q_idx = 0 /\ \A d, e \in Device : served[d] = served[e]
     ELSE q_idx < Len(queue) /\ Len(queue) = device_count
  /\ \A i, j \in DOMAIN queue : queue[i] = queue[j] => i = j
  /\ RoundsAreFair

\* Without the barrier there is nothing to wait for.
FreeInv == pc \in [Thread -> {"run", "done"}] /\ cpu = [t \in Thread |-> t]

RInv ==
  /\ QueueInv
  /\ IF device_scheduler = "barrier" THEN IInv ELSE FreeInv

\* Places in a sequence.
LEMMA PlacesOf ==
  ASSUME NEW S, NEW q \in Seq(S)
  PROVE  /\ Len(q) \in Nat /\ DOMAIN q = 1..Len(q)
         /\ \A i \in DOMAIN q : i \in Int /\ 1 <= i /\ i <= Len(q) /\ q[i] \in S
OBVIOUS

\* A shuffled queue is an order of all devices, those handed out equally often if
\* the round is over.
LEMMA ShuffledQueue ==
  ASSUME QueueInv, NEW q \in Shuffled
  PROVE  /\ q \in Seq(Device) /\ Len(q) = device_count /\ q_idx < Len(q)
         /\ \A i, j \in DOMAIN q : q[i] = q[j] => i = j
         /\ q_idx = 0 => \A i, j \in DOMAIN q : served[q[i]] = served[q[j]]
         /\ q_idx # 0 => q = queue
<1> USE DeviceAssumption
<1>1. CASE q_idx # 0
  BY <1>1 DEF Shuffled, QueueInv
<1>2. CASE q_idx = 0
  <2>1. /\ DOMAIN FilledQueue = 1..device_count
        /\ \A i \in 1..device_count : FilledQueue[i] \in Device
    <3>1. CASE queue = <<>>
      BY <3>1 DEF FilledQueue, Device, Thread
    <3>2. CASE queue # <<>>
      BY <3>2, PlacesOf DEF FilledQueue, QueueInv
    <3> QED
      BY <3>1, <3>2
  <2>2. \A i, j \in DOMAIN FilledQueue : FilledQueue[i] = FilledQueue[j] => i = j
    BY DEF FilledQueue, QueueInv, Device, Thread
  <2>3. \A i, j \in DOMAIN FilledQueue : served[FilledQueue[i]] = served[FilledQueue[j]]
    <3>1. CASE queue = <<>>
      BY <3>1, <2>1 DEF QueueInv
    <3>2. CASE queue # <<>>
      <4>1. FilledQueue = queue
        BY <3>2 DEF FilledQueue
      <4>2. ASSUME NEW i \in DOMAIN queue, NEW j \in DOMAIN queue
            PROVE  served[queue[i]] = served[queue[j]]
        <5>1. /\ i \in Int /\ 1 <= i /\ queue[i] \in Device
              /\ j \in Int /\ 1 <= j /\ queue[j] \in Device
          BY <4>2, PlacesOf DEF QueueInv
        <5>2. /\ served[queue[i]] - served[queue[j]]
                   = (IF i <= q_idx THEN 1 ELSE 0) - (IF j <= q_idx THEN 1 ELSE 0)
              /\ ~(i <= q_idx) /\ ~(j <= q_idx)
          BY <1>2, <4>2, <5>1 DEF QueueInv, RoundsAreFair
        <5>3. served[queue[i]] \in Nat /\ served[queue[j]] \in Nat
          BY <5>1 DEF QueueInv
        <5> QED
          BY <5>2, <5>3
      <4> QED
        BY <4>1, <4>2
    <3> QED
      BY <3>1, <3>2
  <2>4. PICK p \in [1..device_count -> 1..device_count] :
          /\ \A i, j \in 1..device_count : p[i] = p[j] => i = j
          /\ q = [i \in 1..device_count |-> FilledQueue[p[i]]]
    <3>1. q \in Orders
      BY <1>2 DEF Shuffled
    <3> QED
      BY <2>1, <3>1 DEF Orders
  <2>5. q \in Seq(Device) /\ Len(q) = device_count /\ DOMAIN q = 1..device_count
    <3>1. q \in [1..device_count -> Device]
      BY <2>1, <2>4
    <3> QED
      BY <3>1
  <2>6. \A i, j \in DOMAIN q : q[i] = q[j] => i = j
    BY <2>1, <2>2, <2>4, <2>5
  <2>7. \A i, j \in DOMAIN q : served[q[i]] = served[q[j]]
    BY <2>1, <2>3, <2>4, <2>5
  <2> QED
    BY <1>2, <2>5, <2>6, <2>7
<1> QED
  BY <1>1, <1>2

\* A turn hands out the device at q_idx, so the round goes on or is over.
LEMMA TurnKeepsQueue ==
  ASSUME QueueInv, NEW t \in Thread, RescheduleQueue(t)
  PROVE  QueueInv'
<1> USE DeviceAssumption
<1>1. PICK q \in Shuffled :
        /\ queue' = q
        /\ served' = [served EXCEPT ![q[q_idx + 1]] = @ + 1]
        /\ q_idx' = NextIndex(q)
  BY DEF RescheduleQueue
<1>2. /\ q \in Seq(Device) /\ Len(q) = device_count /\ q_idx \in Nat /\ q_idx < Len(q)
      /\ \A i, j \in DOMAIN q : q[i] = q[j] => i = j
      /\ q_idx = 0 => \A i, j \in DOMAIN q : served[q[i]] = served[q[j]]
      /\ q_idx # 0 => q = queue
      /\ served \in [Device -> Nat]
  BY ShuffledQueue DEF QueueInv
<1>3. q_idx + 1 \in DOMAIN q /\ q[q_idx + 1] \in Device /\ q # <<>>
  BY <1>2
<1>4. served' \in [Device -> Nat]
  BY <1>1, <1>2, <1>3
<1>5. q_idx' \in Nat /\ q_idx' < Len(q)
  BY <1>1, <1>2 DEF NextIndex
<1>6. ASSUME NEW i \in DOMAIN q, NEW j \in DOMAIN q
      PROVE  served'[q[i]] - served'[q[j]]
               = (IF i <= q_idx' THEN 1 ELSE 0) - (IF j <= q_idx' THEN 1 ELSE 0)
  <2> DEFINE One(k) == IF k = q_idx + 1 THEN 1 ELSE 0
             Had(k) == IF k <= q_idx THEN 1 ELSE 0
             Has(k) == IF k <= q_idx' THEN 1 ELSE 0
  <2>1. /\ i \in Int /\ 1 <= i /\ i <= Len(q) /\ q[i] \in Device /\ Len(q) \in Nat
        /\ j \in Int /\ 1 <= j /\ j <= Len(q) /\ q[j] \in Device
    BY <1>2, <1>6, PlacesOf
  <2>2. /\ served'[q[i]] = served[q[i]] + One(i)
        /\ served'[q[j]] = served[q[j]] + One(j)
    <3>1. (q[i] = q[q_idx + 1] <=> i = q_idx + 1) /\ (q[j] = q[q_idx + 1] <=> j = q_idx + 1)
      BY <1>2, <1>3, <1>6
    <3> QED
      BY <1>1, <1>2, <2>1, <3>1
  <2>3. served[q[i]] - served[q[j]] = Had(i) - Had(j)
    <3>1. CASE q_idx = 0
      <4>1. served[q[i]] = served[q[j]] /\ served[q[i]] \in Nat
        BY <1>2, <1>6, <2>1, <3>1
      <4>2. Had(i) = 0 /\ Had(j) = 0
        BY <2>1, <3>1
      <4> HIDE DEF Had
      <4> QED
        BY <4>1, <4>2
    <3>2. CASE q_idx # 0
      <4>1. \A k, l \in DOMAIN q :
              served[q[k]] - served[q[l]]
                = (IF k <= q_idx THEN 1 ELSE 0) - (IF l <= q_idx THEN 1 ELSE 0)
        <5>1. q = queue
          BY <1>2, <3>2
        <5>2. RoundsAreFair
          BY DEF QueueInv
        <5> QED
          BY <5>1, <5>2 DEF RoundsAreFair
      <4> QED
        BY <4>1, <1>6
    <3> QED
      BY <3>1, <3>2
  <2>4. served[q[i]] \in Nat /\ served[q[j]] \in Nat
    BY <1>2, <2>1
  <2>5. CASE q_idx + 1 = Len(q)
    <3>1. q_idx' = 0
      BY <1>1, <2>5 DEF NextIndex
    <3>2. Had(i) + One(i) = 1 /\ Had(j) + One(j) = 1 /\ Has(i) = 0 /\ Has(j) = 0
      BY <1>2, <2>1, <2>5, <3>1
    <3>3. Had(i) \in Int /\ Had(j) \in Int /\ One(i) \in Int /\ One(j) \in Int
      OBVIOUS
    <3> HIDE DEF Had, One, Has
    <3>4. served'[q[i]] - served'[q[j]] = Has(i) - Has(j)
      BY <2>2, <2>3, <2>4, <3>2, <3>3
    <3> QED
      BY <3>4 DEF Has
  <2>6. CASE q_idx + 1 # Len(q)
    <3>1. q_idx' = q_idx + 1
      BY <1>1, <2>6 DEF NextIndex
    <3>2. Has(i) = Had(i) + One(i) /\ Has(j) = Had(j) + One(j)
      BY <1>2, <2>1, <3>1
    <3>3. Had(i) \in Int /\ Had(j) \in Int /\ One(i) \in Int /\ One(j) \in Int
      OBVIOUS
    <3> HIDE DEF Had, One, Has
    <3>4. served'[q[i]] - served'[q[j]] = Has(i) - Has(j)
      BY <2>2, <2>3, <2>4, <3>2, <3>3
    <3> QED
      BY <3>4 DEF Has
  <2> QED
    BY <2>5, <2>6
<1>7. RoundsAreFair'
  BY <1>1, <1>6 DEF RoundsAreFair
<1> QED
  BY <1>1, <1>2, <1>3, <1>4, <1>5, <1>7 DEF QueueInv

\* A new test has an unused queue, or the one of the test before.
LEMMA NextTestKeepsQueue ==
  ASSUME QueueInv, NextTest
  PROVE  QueueInv'
<1>1. CASE in_one
  BY <1>1 DEF NextTest, QueueInv, RoundsAreFair, object
<1>2. CASE ~in_one
  <2>1. queue' = <<>> /\ q_idx' = 0 /\ served' = [d \in Device |-> 0]
    BY <1>2 DEF NextTest
  <2> QED
    BY <2>1 DEF QueueInv, RoundsAreFair
<1> QED
  BY <1>1, <1>2

LEMMA RStepKeepsInvariant ==
  ASSUME RInv, [RNext]_rvars
  PROVE  RInv'
<1>1. ASSUME NEW t \in Thread, BarrierStep(t)
      PROVE  RInv'
  <2>1. Next /\ device_scheduler = "barrier" /\ device_scheduler' = device_scheduler
    BY <1>1 DEF BarrierStep, Next, qvars
  <2>2. IInv'
    BY <2>1, StepKeepsInvariant DEF RInv
  <2>3. QueueInv'
    BY <1>1 DEF BarrierStep, RInv, QueueInv, RoundsAreFair, qvars, object
  <2> QED
    BY <2>1, <2>2, <2>3 DEF RInv
<1>2. ASSUME NEW t \in Thread, RescheduleQueue(t)
      PROVE  RInv'
  <2>1. QueueInv'
    BY <1>2, TurnKeepsQueue DEF RInv
  <2>2. device_scheduler = "queue" /\ UNCHANGED <<pc, cpu, device_scheduler>>
    BY <1>2 DEF RescheduleQueue, Turn, vars
  <2> QED
    BY <2>1, <2>2 DEF RInv, FreeInv
<1>3. ASSUME NEW t \in Thread, RescheduleRandom(t)
      PROVE  RInv'
  <2>1. QueueInv'
    BY <1>3 DEF RescheduleRandom, RInv, QueueInv, RoundsAreFair, object
  <2>2. device_scheduler = "random" /\ UNCHANGED <<pc, cpu, device_scheduler>>
    BY <1>3 DEF RescheduleRandom, Turn, vars
  <2> QED
    BY <2>1, <2>2 DEF RInv, FreeInv
<1>4. ASSUME NEW t \in Thread, EndThread(t)
      PROVE  RInv'
  <2>1. QueueInv'
    BY <1>4 DEF EndThread, RInv, QueueInv, RoundsAreFair, qvars, object
  <2>2. /\ device_scheduler # "barrier" /\ UNCHANGED <<cpu, device_scheduler>>
        /\ pc' = [pc EXCEPT ![t] = "done"]
    BY <1>4 DEF EndThread, Goto, qvars
  <2> QED
    BY <2>1, <2>2 DEF RInv, FreeInv
<1>5. ASSUME NextTest
      PROVE  RInv'
  <2>1. QueueInv'
    BY <1>5, NextTestKeepsQueue DEF RInv
  <2>2. /\ device_scheduler # "barrier" /\ UNCHANGED <<cpu, device_scheduler>>
        /\ pc' = [t \in Thread |-> "run"]
    BY <1>5 DEF NextTest
  <2> QED
    BY <2>1, <2>2 DEF RInv, FreeInv
<1>6. ASSUME UNCHANGED rvars
      PROVE  RInv'
  <2>1. QueueInv'
    BY <1>6 DEF RInv, QueueInv, RoundsAreFair, rvars, qvars, object
  <2>2. device_scheduler = "barrier" => IInv'
    BY <1>6, StepKeepsInvariant DEF RInv, rvars
  <2>3. device_scheduler # "barrier" => FreeInv'
    BY <1>6 DEF RInv, FreeInv, rvars, vars
  <2> QED
    BY <1>6, <2>1, <2>2, <2>3 DEF RInv, rvars, qvars
<1> QED
  BY <1>1, <1>2, <1>3, <1>4, <1>5, <1>6 DEF RNext

LEMMA RInitEstablishesInvariant ==
  ASSUME RInit
  PROVE  RInv
<1>1. QueueInv
  BY DEF RInit, QueueInv, RoundsAreFair
<1>2. IInv
  BY InitEstablishesInvariant DEF RInit
<1>3. FreeInv
  BY DEF RInit, Init, FreeInv
<1> QED
  BY <1>1, <1>2, <1>3 DEF RInv

\* The inductive invariant of the three schedulers.
THEOREM RInvariance == RSpec => []RInv
<1>1. RInit => RInv
  BY RInitEstablishesInvariant
<1>2. RInv /\ [RNext]_rvars => RInv'
  BY RStepKeepsInvariant
<1> QED
  BY <1>1, <1>2, PTL DEF RSpec

\* The queue's rounds are fair for any number of devices, threads, tests and calls
\* of reschedule(), whichever thread ends when and wherever a test leaves the round.
THEOREM RoundsStayFair == RSpec => []RoundsAreFair
<1>1. RInv => RoundsAreFair
  BY DEF RInv, QueueInv
<1> QED
  BY <1>1, RInvariance, PTL

\* Whichever scheduler --reschedule asks for: a completion is alone.
THEOREM CompletionAloneAlways == RSpec => []CompletionIsExclusive
<1>1. ASSUME RInv
      PROVE  CompletionIsExclusive
  <2>1. CASE device_scheduler = "barrier"
    BY <1>1, <2>1, ThreadsOfGroups, MembersOfGroups
       DEF RInv, IInv, GroupInv, Exclusive, CompletionIsExclusive, Ended
  <2>2. CASE device_scheduler # "barrier"
    BY <1>1, <2>2 DEF RInv, FreeInv, CompletionIsExclusive, InCompletion
  <2> QED
    BY <2>1, <2>2
<1> QED
  BY <1>1, RInvariance, PTL

\* Likewise for the devices of a pair, which are the threads' own until then.
THEOREM PairsKeepTheirDevicesAlways == RSpec => []PairKeepsItsDevices
<1>1. ASSUME RInv
      PROVE  PairKeepsItsDevices
  <2>1. CASE device_scheduler = "barrier"
    BY <1>1, <2>1, PairsOfInvariant DEF RInv
  <2>2. CASE device_scheduler # "barrier"
    <3>1. \A g \in Group : \A t \in Members(g) : cpu[t] = t
      BY <1>1, <2>2 DEF RInv, FreeInv, Members
    <3> QED
      BY <3>1 DEF PairKeepsItsDevices
  <2> QED
    BY <2>1, <2>2
<1> QED
  BY <1>1, RInvariance, PTL
=============================================================================
