------------------------- MODULE BarrierReschedule -------------------------
(***************************************************************************)
(* --reschedule=barrier: the BarrierDeviceScheduler of                     *)
(* device/cpu/topology.cpp.  The test threads are paired; a thread that    *)
(* calls reschedule() waits for its partner and the two swap devices.  A   *)
(* thread that ends (thread_runner's cleanup) leaves its pair through      *)
(* finish_reschedule().  One thread runs on each device, as the CPU build  *)
(* does by default.                                                        *)
(***************************************************************************)
EXTENDS Integers, FiniteSets

CONSTANTS
  device_count,  \* devices, and threads, of this child process
  MaxCalls       \* bound on the reschedule() calls of one thread

ASSUME DeviceAssumption == device_count \in Nat \ {0, 1}
ASSUME MaxCallsAssumption == MaxCalls \in Nat

members_per_group == 2

Thread == 0..(device_count - 1)
Device == Thread
Group  == {t \div members_per_group : t \in Thread}

g_idx(t)           == t \div members_per_group
thread_info_idx(t) == t % members_per_group
Members(g)         == {t \in Thread : g_idx(t) = g}

\* Thread ids as the kernel knows them; 0 is "not filled in yet" and, in
\* sched_setaffinity(), "the calling thread".
Tid(t) == t + 1
Slot   == 0..(members_per_group - 1)

VARIABLES
  pc,        \* [Thread -> ThreadPc]
  calls,     \* [Thread -> 0..MaxCalls]: reschedule() calls made
  failed,    \* threads with has_failed()
  cpu,       \* [Thread -> Device]: the device the thread is pinned to
  made,      \* groups is not empty
  tid,       \* [Group -> Vector of thread ids or 0]
  next_cpu,  \* [Group -> Vector of devices]
  expected,  \* [Group -> Nat]: the barrier's participants ...
  pending,   \* [Group -> Int]: ... and those still to arrive in this phase
  alive      \* the process survived its undefined behaviour so far

groups  == <<made, tid, next_cpu>>
barrier == <<expected, pending>>
vars    == <<pc, calls, failed, cpu, groups, barrier, alive>>

\* "run": in the test; "arrive": past the first critical section of
\* reschedule_to_next_device(); "wait": blocked in arrive_and_wait();
\* "drop": past that of finish_reschedule(); "rotate" and "pin": running
\* on_completion() for an arrival, "rotate_drop" and "pin_drop" for a drop;
\* "done": ended; "left": ended before there were any groups.
ThreadPc == {"run", "arrive", "wait", "drop", "rotate", "pin", "rotate_drop",
             "pin_drop", "done", "left"}
Ended == {"done", "left"}

\* A std::vector<int>: its memory outlives a shrinking of its size.
Vector(S) == [mem : [Slot -> S], size : 0..members_per_group]
-----------------------------------------------------------------------------
Zeroed(g) == [mem |-> [i \in Slot |-> 0], size |-> Cardinality(Members(g))]

Init ==
  /\ pc = [t \in Thread |-> "run"]
  /\ calls = [t \in Thread |-> 0]
  /\ failed = {}
  /\ cpu = [t \in Thread |-> t]
  /\ made = FALSE
  /\ tid = [g \in Group |-> Zeroed(g)]
  /\ next_cpu = [g \in Group |-> Zeroed(g)]
  /\ expected = [g \in Group |-> Cardinality(Members(g))]
  /\ pending = expected
  /\ alive = TRUE

\* v[i] = x, whether or not i < v.size()
Put(v, i, x) == [v EXCEPT !.mem[i] = x]

\* v.erase(v.begin() + i); past the end only the size changes.
Erase(v, i) ==
  [mem  |-> [j \in Slot |-> IF i <= j /\ j + 1 < v.size THEN v.mem[j + 1] ELSE v.mem[j]],
   size |-> v.size - 1]

\* Faulty: the first element is lost.
ShiftLeft(v) ==
  [v EXCEPT !.mem = [j \in Slot |-> IF j + 1 < v.size THEN v.mem[j + 1] ELSE v.mem[j]]]

\* std::rotate(v.begin(), v.begin() + 1, v.end()); if v is empty, nothing that is read
\* later changes, or the process dies (RotateDies).
Rotate(v) ==
  [v EXCEPT !.mem = [j \in Slot |-> IF j < v.size THEN v.mem[(j + 1) % v.size] ELSE v.mem[j]]]

Goto(t, l) == pc' = [pc EXCEPT ![t] = l]
At(t, l)   == alive /\ pc[t] = l
-----------------------------------------------------------------------------
\* reschedule_to_next_device() up to lock.unlock(): create the groups, fill in
\* what the group does not know of this thread.
Reschedule(t) ==
  /\ At(t, "run")
  /\ calls[t] < MaxCalls
  /\ calls' = [calls EXCEPT ![t] = @ + 1]
  /\ made' = TRUE
  /\ IF tid[g_idx(t)].mem[thread_info_idx(t)] = 0
     THEN /\ tid' = [tid EXCEPT ![g_idx(t)] = Put(@, thread_info_idx(t), Tid(t))]
          /\ next_cpu' = [next_cpu EXCEPT ![g_idx(t)] = Put(@, thread_info_idx(t), t)]
     ELSE UNCHANGED <<tid, next_cpu>>
  /\ Goto(t, "arrive")
  /\ UNCHANGED <<failed, cpu, barrier, alive>>

\* Faulty: one arrival too early.
AlmostLastToArrive(g) == pending[g] <= 2

\* The barrier's count reaches zero with this arrival.
LastToArrive(g) == pending[g] = 1

\* barrier->arrive_and_wait(): the last to arrive runs on_completion().
Arrive(t) ==
  /\ At(t, "arrive")
  /\ pending' = [pending EXCEPT ![g_idx(t)] = @ - 1]
  /\ Goto(t, IF LastToArrive(g_idx(t)) THEN "rotate" ELSE "wait")
  /\ UNCHANGED <<calls, failed, cpu, groups, expected, alive>>

\* The thread ends, failed or not, and its cleanup calls finish_reschedule();
\* without groups that returns at once.
Leave(t) ==
  /\ ~made
  /\ Goto(t, "left")
  /\ UNCHANGED groups

\* Otherwise the thread's entries are erased.
EraseMember(t) ==
  /\ made
  /\ tid' = [tid EXCEPT ![g_idx(t)] = Erase(@, thread_info_idx(t))]
  /\ next_cpu' = IF t \in failed'
                 THEN [next_cpu EXCEPT ![g_idx(t)] = Erase(@, thread_info_idx(t))]
                 ELSE next_cpu
  /\ Goto(t, "drop")
  /\ UNCHANGED made

ErasePastEnd(t) == made /\ thread_info_idx(t) >= tid[g_idx(t)].size

Finish(t) ==
  /\ At(t, "run")
  /\ failed' \in {failed, failed \cup {t}}
  /\ Leave(t) \/ EraseMember(t)
  /\ UNCHANGED <<calls, cpu, barrier, alive>>

\* erase(end()) is undefined: older library versions memmove() (size_t)-4 bytes.
FinishDies(t) ==
  /\ At(t, "run")
  /\ ErasePastEnd(t)
  /\ alive' = FALSE
  /\ UNCHANGED <<pc, calls, failed, cpu, groups, barrier>>

\* Faulty: arrives without leaving the barrier.
StaySubscribed(g) == UNCHANGED expected

\* One participant less from the next phase on.
Unsubscribe(g) == expected' = [expected EXCEPT ![g] = @ - 1]

\* barrier->arrive_and_drop()
Drop(t) ==
  /\ At(t, "drop")
  /\ Unsubscribe(g_idx(t))
  /\ pending' = [pending EXCEPT ![g_idx(t)] = @ - 1]
  /\ Goto(t, IF LastToArrive(g_idx(t)) THEN "rotate_drop" ELSE "done")
  /\ UNCHANGED <<calls, failed, cpu, groups, alive>>

-----------------------------------------------------------------------------
\* on_completion(), with groups_mutex locked.
RotateCpus(t) ==
  /\ At(t, "rotate") \/ At(t, "rotate_drop")
  /\ next_cpu' = [next_cpu EXCEPT ![g_idx(t)] = Rotate(@)]
  /\ Goto(t, IF pc[t] = "rotate" THEN "pin" ELSE "pin_drop")
  /\ UNCHANGED <<calls, failed, cpu, made, tid, barrier, alive>>

\* A group whose members have all failed and ended has an empty next_cpu, with begin() + 1
\* beyond end(): undefined, libstdc++ swaps the first word with the heap's before it.
RotateDies(t) ==
  /\ At(t, "rotate") \/ At(t, "rotate_drop")
  /\ next_cpu[g_idx(t)].size = 0
  /\ alive' = FALSE
  /\ UNCHANGED <<pc, calls, failed, cpu, groups, barrier>>

\* The slots i of group g for which on_completion() pins thread u, when run by t.
SlotsOf(u, g, t) ==
  {i \in 0..(tid[g].size - 1) : tid[g].mem[i] \in {Tid(u)} \cup (IF u = t THEN {0} ELSE {})}

\* The barrier's next phase.
NextPhase(g) == pending' = [pending EXCEPT ![g] = expected[g]]

\* Every known member is pinned, the last slot of a thread counts, and the
\* barrier starts its next phase: the waiting members continue.
PinMembers(t) ==
  LET g == g_idx(t)
      Last(S) == CHOOSE i \in S : \A j \in S : j <= i
  IN /\ At(t, "pin") \/ At(t, "pin_drop")
     /\ cpu' = [u \in Thread |->
                  IF SlotsOf(u, g, t) = {} THEN cpu[u]
                  ELSE next_cpu[g].mem[Last(SlotsOf(u, g, t))]]
     /\ NextPhase(g)
     /\ pc' = [u \in Thread |->
                 CASE u = t /\ pc[u] = "pin"              -> "run"
                   [] u = t /\ pc[u] = "pin_drop"         -> "done"
                   [] u \in Members(g) /\ pc[u] = "wait"  -> "run"
                   [] OTHER                               -> pc[u]]
     /\ UNCHANGED <<calls, failed, groups, expected, alive>>

-----------------------------------------------------------------------------
Step(t) ==
  \/ Reschedule(t) \/ Arrive(t) \/ Finish(t) \/ FinishDies(t) \/ Drop(t)
  \/ RotateCpus(t) \/ RotateDies(t) \/ PinMembers(t)

Next == \E t \in Thread : Step(t)

\* Every thread that can run does, and every test ends (test_time_condition()).
Fairness == \A t \in Thread : WF_vars(Step(t))

Spec == Init /\ [][Next]_vars /\ Fairness

-----------------------------------------------------------------------------
(***************************************************************************)
(* Properties.                                                             *)
(***************************************************************************)
\* The variables have their types.
TypeOK ==
  /\ pc \in [Thread -> ThreadPc]
  /\ calls \in [Thread -> 0..MaxCalls]
  /\ failed \subseteq Thread
  /\ cpu \in [Thread -> Device]
  /\ made \in BOOLEAN
  /\ tid \in [Group -> Vector({0} \cup {Tid(t) : t \in Thread})]
  /\ next_cpu \in [Group -> Vector(Device)]
  /\ expected \in [Group -> 0..members_per_group]
  /\ pending \in [Group -> 0..members_per_group]
  /\ alive \in BOOLEAN

InCompletion(t) == pc[t] \in {"rotate", "pin", "rotate_drop", "pin_drop"}

\* on_completion() walks tid and next_cpu after it has unlocked groups_mutex:
\* that is safe because meanwhile all others of the group are blocked in the
\* barrier or gone, so nobody fills in or erases an entry.
CompletionIsExclusive ==
  \A t \in Thread : InCompletion(t) =>
    \A u \in Members(g_idx(t)) \ {t} : pc[u] \in {"wait"} \cup Ended

\* The barrier releases a phase only with all its members: while one waits,
\* somebody who was counted has still to arrive, and the count is exact, the
\* members that left without being unsubscribed included.
CountIsExact ==
  \A g \in Group :
    (\A t \in Members(g) : ~InCompletion(t)) =>
      /\ expected[g] = Cardinality({t \in Members(g) : pc[t] # "done"})
      /\ pending[g] = Cardinality({t \in Members(g) : pc[t] \notin {"done", "wait"}})

\* As long as nobody of a pair has ended, the two run on the two devices of the
\* pair, each on its own.
PairKeepsItsDevices ==
  \A g \in Group :
    (\A t \in Members(g) : pc[t] \notin Ended \cup {"drop", "rotate_drop", "pin_drop"})
      => {cpu[t] : t \in Members(g)} = Members(g)

\* Nobody waits in the barrier for a partner that has been unsubscribed from it:
\* once every partner arrived or ended, the thread is released.
WaitersAreReleased ==
  \A t \in Thread :
    (pc[t] = "wait") ~> \/ pc[t] # "wait" \/ ~alive
                        \/ \E u \in Members(g_idx(t)) : pc[u] = "left"

\* finish_reschedule(), "this avoid partners deadlocks": a thread that waits for
\* its partner is released in the end, whenever the partner ended.
NoPartnerDeadlock == \A t \in Thread : (pc[t] = "wait") ~> (pc[t] # "wait" \/ ~alive)
=============================================================================
