----------------------------- MODULE CrashDebug -----------------------------
(***************************************************************************)
(* The crash-debugging handshake of sysdeps/unix/child_debug.cpp: the      *)
(* crashing threads of the children run child_crash_handler(), the parent  *)
(* runs debug_crashed_child() whenever poll() finds the debug socket       *)
(* readable, and the two sides meet in the main thread's thread_state word *)
(* in shared memory, a datagram socket and a futex.                        *)
(***************************************************************************)
EXTENDS Sequences, FiniteSets, Naturals

CONSTANTS Slice,      \* the child processes
          Thread,     \* the test threads of each child
          NoSlice,    \* the parent is handling no context
          MaxCrashes  \* bound on the threads that crash, over all children

ASSUME CrashAssumption ==
  /\ IsFiniteSet(Slice) /\ Slice # {}
  /\ IsFiniteSet(Thread) /\ Thread # {}
  /\ NoSlice \notin Slice
  /\ MaxCrashes \in Nat

VARIABLES
  pc,           \* [Slice -> [Thread -> HandlerPc]]
  thread_state, \* [Slice -> ...]: main_thread_data(slice)->thread_state
  in_handler,   \* [Slice -> BOOLEAN]: the child's static in_crash_handler
  socket,       \* the datagrams on the debug socket: slices, in order
  fate,         \* [Slice -> ...]: what the kernel knows of the child
  ppc,          \* the parent in debug_crashed_child()
  current       \* the slice whose context the parent is handling

child  == <<pc, in_handler>>
server == <<ppc, current>>
vars   == <<child, thread_state, socket, fate, server>>

\* Where a thread is in child_crash_handler(): "run" before the crash, "store",
\* "claim" and "send" before these steps, "check" at the load in the loop,
\* "wait" before futex_wait(), "asleep" in it, "parked" in the endless poll()
\* of the threads that lost the race, "restore" past the loop.
HandlerPc == {"run", "store", "claim", "send", "check", "wait", "asleep",
              "parked", "restore"}
-----------------------------------------------------------------------------
Init ==
  /\ pc = [s \in Slice |-> [t \in Thread |-> "run"]]
  /\ thread_state = [s \in Slice |-> "not_started"]
  /\ in_handler = [s \in Slice |-> FALSE]
  /\ socket = <<>>
  /\ fate = [s \in Slice |-> "alive"]
  /\ ppc = "poll"
  /\ current = NoSlice

Goto(s, t, l) == pc' = [pc EXCEPT ![s][t] = l]
At(s, t, l)   == fate[s] = "alive" /\ pc[s][t] = l

Crashing(s)   == {t \in Thread : pc[s][t] # "run"}
Crashes == Cardinality({st \in Slice \X Thread : pc[st[1]][st[2]] # "run"})

\* A fatal signal: entry of child_crash_handler(), logging_mark_thread_failed().
Crash(s, t) ==
  /\ At(s, t, "run")
  /\ Crashes < MaxCrashes
  /\ Goto(s, t, "store")
  /\ UNCHANGED <<in_handler, thread_state, socket, fate, server>>

\* thread_state.store(thread_failed)
StoreFailed(s, t) ==
  /\ At(s, t, "store")
  /\ thread_state' = [thread_state EXCEPT ![s] = "failed"]
  /\ Goto(s, t, "claim")
  /\ UNCHANGED <<in_handler, socket, fate, server>>

\* in_crash_handler.test_and_set(): the losers wait forever.
Claim(s, t) ==
  /\ At(s, t, "claim")
  /\ Goto(s, t, IF in_handler[s] THEN "parked" ELSE "send")
  /\ in_handler' = [in_handler EXCEPT ![s] = TRUE]
  /\ UNCHANGED <<thread_state, socket, fate, server>>

\* CrashContext::send()
Send(s, t) ==
  /\ At(s, t, "send")
  /\ socket' = Append(socket, s)
  /\ Goto(s, t, "check")
  /\ UNCHANGED <<in_handler, thread_state, fate, server>>

\* Faulty: no waiting for the parent.
CheckNothing(s, t) ==
  /\ At(s, t, "check")
  /\ Goto(s, t, "restore")
  /\ UNCHANGED <<in_handler, thread_state, socket, fate, server>>

\* while (thread_state.load() == thread_failed)
Check(s, t) ==
  /\ At(s, t, "check")
  /\ Goto(s, t, IF thread_state[s] = "failed" THEN "wait" ELSE "restore")
  /\ UNCHANGED <<in_handler, thread_state, socket, fate, server>>

\* Faulty: sleeps without comparing the word.
SleepAnyway(s, t) ==
  /\ At(s, t, "wait")
  /\ Goto(s, t, "asleep")
  /\ UNCHANGED <<in_handler, thread_state, socket, fate, server>>

\* futex_wait(&thread_state, thread_failed): sleeps only if the word still has
\* that value.
FutexWait(s, t) ==
  /\ At(s, t, "wait")
  /\ Goto(s, t, IF thread_state[s] = "failed" THEN "asleep" ELSE "check")
  /\ UNCHANGED <<in_handler, thread_state, socket, fate, server>>

\* futex_wait() may return without a wake-up; the loop checks again.
WakeSpuriously(s, t) ==
  /\ At(s, t, "asleep")
  /\ Goto(s, t, "check")
  /\ UNCHANGED <<in_handler, thread_state, socket, fate, server>>

\* signal(SIG_DFL), then raise() or the faulting instruction again: the whole
\* process dies.
Die(s, t) ==
  /\ At(s, t, "restore")
  /\ fate' = [fate EXCEPT ![s] = "crashed"]
  /\ UNCHANGED <<pc, in_handler, thread_state, socket, server>>

\* terminate_children() or kill_children() in wait_for_children().
KillHung(s) ==
  /\ ppc = "poll"
  /\ fate[s] = "alive"
  /\ fate' = [fate EXCEPT ![s] = "timed_out"]
  /\ UNCHANGED <<child, thread_state, socket, server>>

-----------------------------------------------------------------------------
\* CrashContext::receive() and find_slice_by_pid(); the dump and the backtrace
\* take their time.
Receive ==
  /\ ppc = "poll"
  /\ socket # <<>>
  /\ current' = Head(socket)
  /\ socket' = Tail(socket)
  /\ ppc' = "print"
  /\ UNCHANGED <<child, thread_state, fate>>

\* thread_state.store(thread_debugged)
StoreDebugged ==
  /\ ppc = "print"
  /\ thread_state' = [thread_state EXCEPT ![current] = "debugged"]
  /\ ppc' = "wake"
  /\ UNCHANGED <<child, socket, fate, current>>

\* futex_wake_all(&thread_state), back to the top of the receive loop.
WakeAll ==
  /\ ppc = "wake"
  /\ pc' = [pc EXCEPT ![current] =
              [t \in Thread |-> IF @[t] = "asleep" THEN "check" ELSE @[t]]]
  /\ ppc' = "poll"
  /\ current' = NoSlice
  /\ UNCHANGED <<in_handler, thread_state, socket, fate>>

-----------------------------------------------------------------------------
HandlerStep(s, t) ==
  \/ StoreFailed(s, t) \/ Claim(s, t) \/ Send(s, t)
  \/ Check(s, t) \/ FutexWait(s, t) \/ Die(s, t)

Server == Receive \/ StoreDebugged \/ WakeAll

Next ==
  \/ \E s \in Slice, t \in Thread : Crash(s, t) \/ HandlerStep(s, t) \/ WakeSpuriously(s, t)
  \/ \E s \in Slice : KillHung(s)
  \/ Server

\* Crashed threads and the parent are scheduled; nothing forces a crash, and
\* the deadline that would let the parent kill a hung child is not waited for.
Fairness ==
  /\ \A s \in Slice, t \in Thread : WF_vars(HandlerStep(s, t))
  /\ WF_vars(Server)

Spec == Init /\ [][Next]_vars /\ Fairness

-----------------------------------------------------------------------------
(***************************************************************************)
(* Properties.                                                             *)
(***************************************************************************)
\* The variables have their types.
TypeOK ==
  /\ pc \in [Slice -> [Thread -> HandlerPc]]
  /\ thread_state \in [Slice -> {"not_started", "failed", "debugged"}]
  /\ in_handler \in [Slice -> BOOLEAN]
  /\ socket \in Seq(Slice)
  /\ fate \in [Slice -> {"alive", "crashed", "timed_out"}]
  /\ ppc \in {"poll", "print", "wake"}
  /\ current \in Slice \cup {NoSlice}

\* A child is not allowed to die of its crash while the parent has not finished
\* looking at it: its context is neither queued nor being printed.
DebuggedBeforeDeath ==
  [][\A s \in Slice :
       fate[s] = "alive" /\ fate'[s] = "crashed"
         => /\ \A i \in DOMAIN socket : socket[i] # s
            /\ current = s => ppc # "print"]_vars

\* No wake-up is lost: as long as only one thread of a child crashes, the child
\* is released and dies of its own signal, or the parent kills it.
LoneCrashEndsChild ==
  \A s \in Slice, t \in Thread :
    (pc[s][t] # "run") ~> (fate[s] # "alive" \/ Crashing(s) # {t})

\* child_crash_handler(), "wait for the parent process to be done with us": a
\* crash ends the child without the help of the timeout.
CrashEndsChild ==
  \A s \in Slice : (Crashing(s) # {}) ~> (fate[s] # "alive")
=============================================================================
