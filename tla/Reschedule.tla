------------------------------ MODULE Reschedule ------------------------------
(***************************************************************************)
(* --reschedule: BarrierReschedule, or the queue, which is the default, or   *)
(* random devices.  The queue hands out the devices of its process in rounds, *)
(* each in a new order; it is made in the program and copied, still unused,   *)
(* to each child, or, with -fno-fork, goes on from test to test wherever the  *)
(* last one left it.                                                         *)
(***************************************************************************)
EXTENDS BarrierReschedule, Sequences

CONSTANTS
  MaxTurns,   \* bound: calls of reschedule() of the queue or at random, in all
  MaxTests    \* bound: tests run

ASSUME RescheduleAssumption == MaxTurns \in Nat /\ MaxTests \in Nat \ {0}

VARIABLES
  device_scheduler,  \* the kind of it, or "null"
  in_one,            \* -fno-fork
  queue, q_idx,      \* the queue's order and its place in it
  pinned,            \* [Thread -> Device]: cpu, under these two schedulers
  turns, tests,
  served             \* history: how often this queue has handed out each device

object == <<queue, q_idx>>
qvars  == <<device_scheduler, in_one, object, pinned, turns, tests, served>>
rvars  == <<vars, qvars>>

make_rescheduler(mode) ==
  CASE mode = "barrier"            -> "barrier"
    [] mode \in {"queue", "unset"} -> "queue"
    [] mode = "random"             -> "random"
    [] mode = "none"               -> "null"

RInit ==
  /\ Init
  /\ \E mode \in {"barrier", "queue", "unset", "random", "none"} :
       device_scheduler = make_rescheduler(mode)
  /\ in_one \in IF device_scheduler = "barrier" THEN {FALSE} ELSE BOOLEAN
  /\ queue = <<>> /\ q_idx = 0
  /\ pinned = cpu /\ turns = 0 /\ tests = 1
  /\ served = [d \in Device |-> 0]

\* shuffle_queue(): any order of the devices, which are filled in at first.
FilledQueue == IF queue = <<>> THEN [i \in 1..device_count |-> i - 1] ELSE queue
Orders   == {[i \in DOMAIN FilledQueue |-> FilledQueue[p[i]]] :
              p \in {p \in [DOMAIN FilledQueue -> DOMAIN FilledQueue] : \A i, j \in DOMAIN p : p[i] = p[j] => i = j}}
Shuffled == IF q_idx = 0 THEN Orders ELSE {queue}

\* Faulty: the round ends before the last one.
NextIndexEarly(q) == IF q_idx + 2 >= Len(q) THEN 0 ELSE q_idx + 1

NextIndex(q) == IF q_idx + 1 = Len(q) THEN 0 ELSE q_idx + 1

\* pin_to_next_cpu(): where pinning fails there is a warning and no more.
Pin(t, d) == pinned' \in {pinned, [pinned EXCEPT ![t] = d]}

Turn(t) ==
  /\ At(t, "run") /\ turns < MaxTurns
  /\ turns' = turns + 1
  /\ UNCHANGED <<vars, device_scheduler, in_one, tests>>

\* QueueDeviceScheduler::reschedule_to_next_device(), all of it locked.
RescheduleQueue(t) ==
  /\ device_scheduler = "queue" /\ Turn(t)
  /\ \E q \in Shuffled :
       /\ queue' = q
       /\ Pin(t, q[q_idx + 1])
       /\ served' = [served EXCEPT ![q[q_idx + 1]] = @ + 1]
       /\ q_idx' = NextIndex(q)

\* RandomDeviceScheduler::reschedule_to_next_device().
RescheduleRandom(t) ==
  /\ device_scheduler = "random" /\ Turn(t)
  /\ \E d \in Device : Pin(t, d)
  /\ UNCHANGED <<object, served>>

\* The thread ends; finish_reschedule() does nothing.
EndThread(t) ==
  /\ device_scheduler # "barrier" /\ At(t, "run")
  /\ Goto(t, "done")
  /\ UNCHANGED <<calls, failed, cpu, groups, barrier, alive, qvars>>

\* The next test, each thread on its own device.
NextTest ==
  /\ device_scheduler # "barrier" /\ tests < MaxTests
  /\ \A t \in Thread : pc[t] = "done"
  /\ tests' = tests + 1
  /\ pc' = [t \in Thread |-> "run"]
  /\ pinned' = cpu
  /\ IF in_one
     THEN UNCHANGED <<object, served>>
     ELSE queue' = <<>> /\ q_idx' = 0 /\ served' = [d \in Device |-> 0]
  /\ UNCHANGED <<calls, failed, cpu, groups, barrier, alive, device_scheduler, in_one, turns>>

BarrierStep(t) == device_scheduler = "barrier" /\ Step(t) /\ UNCHANGED qvars

RNext ==
  \/ \E t \in Thread : BarrierStep(t) \/ RescheduleQueue(t) \/ RescheduleRandom(t) \/ EndThread(t)
  \/ NextTest

RSpec == RInit /\ [][RNext]_rvars /\ \A t \in Thread : WF_rvars(BarrierStep(t))

-----------------------------------------------------------------------------
\* However many threads of however many tests have called reschedule() of one
\* queue (topology.cpp:226), the devices were handed out equally often, but for
\* the round that is not over: those before q_idx once more than the others.
RoundsAreFair ==
  \A i, j \in DOMAIN queue :
    served[queue[i]] - served[queue[j]] =
      (IF i <= q_idx THEN 1 ELSE 0) - (IF j <= q_idx THEN 1 ELSE 0)
=============================================================================
