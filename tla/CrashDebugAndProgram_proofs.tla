-------------------- MODULE CrashDebugAndProgram_proofs --------------------
(***************************************************************************)
(* Proofs about two modules that share no definition.  About CrashDebug:    *)
(* no child dies of its crash while the parent still has its context in     *)
(* the queue or on the screen, for any number of children and of threads    *)
(* that crash at once.  About Program: however long a batch is, a process   *)
(* of the background scan service starts no more tests within the time of a *)
(* batch than the batch has, and a restart gives one batch more.            *)
(***************************************************************************)
EXTENDS FiniteSetTheorems, SequenceTheorems, CrashDebug, Program, TLAPS

-----------------------------------------------------------------------------
(***************************************************************************)
(* CrashDebug: the inductive invariant.                                    *)
(***************************************************************************)
\* Thread t has won the race for in_crash_handler.
Holds(s, t) == pc[s][t] \in {"send", "check", "wait", "asleep", "restore"}

Queued(s) == \E i \in DOMAIN socket : socket[i] = s

\* The parent has not finished looking at the child.
Outstanding(s) == Queued(s) \/ (current = s /\ ppc = "print")

\* One thread of a child gets past in_crash_handler.
OneHolds(s) ==
  \A t \in Thread : Holds(s, t) => in_handler[s] /\ \A u \in Thread : Holds(s, u) => u = t

\* Until its context is sent, nothing takes the child's "failed" back.
FailedUntilSent(s) ==
  \A t \in Thread :
    \/ pc[s][t] = "claim" /\ ~in_handler[s]
    \/ pc[s][t] = "send"
    => thread_state[s] = "failed"

\* The parent knows of a child only after its context was sent.
SentBefore(s) ==
  ~in_handler[s] \/ (\E t \in Thread : pc[s][t] = "send") => ~Queued(s) /\ current # s

\* It is sent once: while the parent handles it there is no other.
SentOnce(s) ==
  /\ current = s => ~Queued(s)
  /\ \A i, j \in DOMAIN socket : socket[i] = s /\ socket[j] = s => i = j

\* And until the parent has stored "debugged" nobody of the child leaves the loop.
HeldBack(s) ==
  Outstanding(s) => /\ thread_state[s] = "failed"
                    /\ \A t \in Thread : pc[s][t] # "restore"

SliceInv(s) ==
  OneHolds(s) /\ FailedUntilSent(s) /\ SentBefore(s) /\ SentOnce(s) /\ HeldBack(s)

IInv ==
  /\ TypeOK
  /\ (ppc = "poll") <=> (current = NoSlice)
  /\ \A s \in Slice : SliceInv(s)

-----------------------------------------------------------------------------
(***************************************************************************)
(* Where the steps leave the threads and the socket.                       *)
(***************************************************************************)
LEMMA GotoMovesOne ==
  ASSUME TypeOK, NEW s \in Slice, NEW t \in Thread, NEW l \in HandlerPc, Goto(s, t, l)
  PROVE  /\ pc' \in [Slice -> [Thread -> HandlerPc]]
         /\ \A r \in Slice, u \in Thread :
              pc'[r][u] = IF r = s /\ u = t THEN l ELSE pc[r][u]
  BY DEF TypeOK, Goto

\* A step that leaves the socket and the parent alone and moves one thread,
\* neither over in_crash_handler nor out of the loop, keeps the invariant.
LEMMA MoveKeeps ==
  ASSUME IInv, NEW s \in Slice, NEW t \in Thread, NEW l \in HandlerPc, Goto(s, t, l),
         \/ pc[s][t] = "run" /\ l = "store"
         \/ pc[s][t] = "store" /\ l = "claim"
         \/ pc[s][t] \in {"check", "wait", "asleep"} /\ l \in {"check", "wait", "asleep"}
         \/ pc[s][t] = "check" /\ l = "restore" /\ thread_state[s] # "failed",
         \/ thread_state' = thread_state /\ l # "claim"
         \/ thread_state' = [thread_state EXCEPT ![s] = "failed"] /\ l = "claim",
         UNCHANGED <<in_handler, socket, fate, server>>
  PROVE  IInv'
<1>0. TypeOK /\ SliceInv(s) /\ \A r \in Slice : SliceInv(r)
  BY DEF IInv
<1>1. /\ pc' \in [Slice -> [Thread -> HandlerPc]]
      /\ \A r \in Slice, u \in Thread :
           pc'[r][u] = IF r = s /\ u = t THEN l ELSE pc[r][u]
  BY <1>0, GotoMovesOne
<1>2. /\ thread_state' \in [Slice -> {"not_started", "failed", "debugged"}]
      /\ \A r \in Slice : thread_state'[r] = thread_state[r] \/ thread_state'[r] = "failed"
      /\ l = "claim" => thread_state'[s] = "failed"
  BY <1>0 DEF TypeOK
<1>3. TypeOK'
  BY <1>0, <1>1, <1>2 DEF TypeOK, server
<1>4. ASSUME NEW r \in Slice
      PROVE  SliceInv(r)'
  <2>1. /\ Queued(r)' <=> Queued(r)
        /\ Outstanding(r)' <=> Outstanding(r)
    BY DEF Queued, Outstanding, server
  <2>2. \A u \in Thread : Holds(r, u)' <=> Holds(r, u)
    BY <1>1 DEF Holds
  <2>3. OneHolds(r)'
    BY <1>0, <2>2 DEF SliceInv, OneHolds
  <2>4. FailedUntilSent(r)'
    BY <1>0, <1>1, <1>2 DEF SliceInv, FailedUntilSent
  <2>5. SentBefore(r)'
    BY <1>0, <1>1, <2>1 DEF SliceInv, SentBefore, server
  <2>6. SentOnce(r)'
    BY <1>0, <2>1 DEF SliceInv, SentOnce, server
  <2>7. HeldBack(r)'
    BY <1>0, <1>1, <1>2, <2>1 DEF SliceInv, HeldBack
  <2> QED
    BY <2>3, <2>4, <2>5, <2>6, <2>7 DEF SliceInv
<1> QED
  BY <1>3, <1>4 DEF IInv, server

-----------------------------------------------------------------------------
(***************************************************************************)
(* One lemma per action that is more than a move.                          *)
(***************************************************************************)
LEMMA ClaimKeeps ==
  ASSUME IInv, NEW s \in Slice, NEW t \in Thread, Claim(s, t)
  PROVE  IInv'
<1> DEFINE l == IF in_handler[s] THEN "parked" ELSE "send"
<1>0. TypeOK /\ SliceInv(s) /\ \A r \in Slice : SliceInv(r)
  BY DEF IInv
<1>1. /\ pc[s][t] = "claim"
      /\ pc' \in [Slice -> [Thread -> HandlerPc]]
      /\ \A r \in Slice, u \in Thread :
           pc'[r][u] = IF r = s /\ u = t THEN l ELSE pc[r][u]
  <2>1. Goto(s, t, l) /\ l \in HandlerPc /\ pc[s][t] = "claim"
    BY DEF Claim, At, HandlerPc
  <2> HIDE DEF l
  <2> QED
    BY <1>0, <2>1, GotoMovesOne
<1>2. /\ in_handler' \in [Slice -> BOOLEAN]
      /\ \A r \in Slice : in_handler'[r] <=> (r = s \/ in_handler[r])
  BY <1>0 DEF Claim, TypeOK
<1>3. TypeOK'
  BY <1>0, <1>1, <1>2 DEF TypeOK, Claim, server
<1>4. ASSUME NEW r \in Slice
      PROVE  SliceInv(r)'
  <2>1. /\ Queued(r)' <=> Queued(r)
        /\ Outstanding(r)' <=> Outstanding(r)
    BY DEF Queued, Outstanding, Claim, server
  <2>2. \A u \in Thread :
          Holds(r, u)' <=> (Holds(r, u) \/ (r = s /\ u = t /\ ~in_handler[s]))
    BY <1>1 DEF Holds
  <2>3. OneHolds(r)'
    BY <1>0, <1>2, <2>2 DEF SliceInv, OneHolds
  <2>4. FailedUntilSent(r)'
    BY <1>0, <1>1, <1>2 DEF SliceInv, FailedUntilSent, Claim
  <2>5. SentBefore(r)'
    BY <1>0, <1>1, <1>2, <2>1 DEF SliceInv, SentBefore, Claim, server
  <2>6. SentOnce(r)'
    BY <1>0, <2>1 DEF SliceInv, SentOnce, Claim, server
  <2>7. HeldBack(r)'
    BY <1>0, <1>1, <2>1 DEF SliceInv, HeldBack, Claim
  <2> QED
    BY <2>3, <2>4, <2>5, <2>6, <2>7 DEF SliceInv
<1> QED
  BY <1>3, <1>4 DEF IInv, Claim, server

LEMMA SendKeeps ==
  ASSUME IInv, NEW s \in Slice, NEW t \in Thread, Send(s, t)
  PROVE  IInv'
<1>0. TypeOK /\ SliceInv(s) /\ \A r \in Slice : SliceInv(r)
  BY DEF IInv
<1>1. /\ pc[s][t] = "send"
      /\ pc' \in [Slice -> [Thread -> HandlerPc]]
      /\ \A r \in Slice, u \in Thread :
           pc'[r][u] = IF r = s /\ u = t THEN "check" ELSE pc[r][u]
  BY <1>0, GotoMovesOne DEF Send, At, HandlerPc
<1>2. /\ socket' \in Seq(Slice)
      /\ DOMAIN socket = 1..Len(socket) /\ Len(socket) \in Nat
      /\ DOMAIN socket' = 1..(Len(socket) + 1)
      /\ \A i \in DOMAIN socket : socket'[i] = socket[i]
      /\ socket'[Len(socket) + 1] = s
  BY <1>0 DEF Send, TypeOK
<1>3. /\ ~Queued(s) /\ current # s
      /\ thread_state[s] = "failed"
      /\ \A u \in Thread : Holds(s, u) => u = t
  BY <1>0, <1>1 DEF SliceInv, SentBefore, FailedUntilSent, OneHolds, Holds
<1>4. TypeOK'
  BY <1>0, <1>1, <1>2 DEF TypeOK, Send, server
<1>5. ASSUME NEW r \in Slice
      PROVE  SliceInv(r)'
  <2>1. Queued(r)' <=> (Queued(r) \/ r = s)
    BY <1>2 DEF Queued
  <2>2. Outstanding(r)' <=> (Outstanding(r) \/ r = s)
    BY <2>1 DEF Outstanding, Send, server
  <2>3. \A u \in Thread : Holds(r, u)' <=> Holds(r, u)
    BY <1>1 DEF Holds
  <2>4. OneHolds(r)'
    BY <1>0, <2>3 DEF SliceInv, OneHolds, Send
  <2>5. FailedUntilSent(r)'
    BY <1>0, <1>1 DEF SliceInv, FailedUntilSent, Send
  <2>6. SentBefore(r)'
    <3>1. in_handler[s] /\ \A u \in Thread : pc'[s][u] # "send"
      BY <1>0, <1>1, <1>3 DEF SliceInv, OneHolds, Holds
    <3> QED
      BY <1>0, <1>1, <2>1, <3>1 DEF SliceInv, SentBefore, Send, server
  <2>7. SentOnce(r)'
    <3>1. current' = r => ~Queued(r)'
      BY <1>0, <1>3, <2>1 DEF SliceInv, SentOnce, Send, server
    <3>2. ASSUME NEW i \in DOMAIN socket', NEW j \in DOMAIN socket',
                 socket'[i] = r, socket'[j] = r
          PROVE  i = j
      <4>1. CASE r = s
        <5>1. \A k \in DOMAIN socket : socket'[k] # s
          BY <1>2, <1>3 DEF Queued
        <5> QED
          BY <1>2, <3>2, <4>1, <5>1
      <4>2. CASE r # s
        <5>1. i \in DOMAIN socket /\ j \in DOMAIN socket
          BY <1>2, <3>2, <4>2
        <5> QED
          BY <1>0, <1>2, <3>2, <5>1 DEF SliceInv, SentOnce
      <4> QED
        BY <4>1, <4>2
    <3> QED
      BY <3>1, <3>2 DEF SentOnce
  <2>8. HeldBack(r)'
    <3>1. \A u \in Thread : pc'[s][u] # "restore"
      BY <1>1, <1>3 DEF Holds
    <3> QED
      BY <1>0, <1>1, <1>3, <2>2, <3>1 DEF SliceInv, HeldBack, Send
  <2> QED
    BY <2>4, <2>5, <2>6, <2>7, <2>8 DEF SliceInv
<1> QED
  BY <1>4, <1>5 DEF IInv, Send, server

LEMMA ReceiveKeeps ==
  ASSUME IInv, Receive
  PROVE  IInv'
<1>0. TypeOK /\ \A r \in Slice : SliceInv(r)
  BY DEF IInv
<1>1. /\ socket' \in Seq(Slice) /\ current' \in Slice
      /\ DOMAIN socket = 1..Len(socket) /\ Len(socket) \in Nat \ {0}
      /\ DOMAIN socket' = 1..(Len(socket) - 1)
      /\ \A i \in DOMAIN socket' : i + 1 \in DOMAIN socket /\ socket'[i] = socket[i + 1]
      /\ current' = socket[1]
  BY <1>0 DEF Receive, TypeOK
<1>2. /\ Queued(current')
      /\ \A i \in DOMAIN socket' : socket'[i] # current'
  <2>1. 1 \in DOMAIN socket
    BY <1>1
  <2>2. SentOnce(current')
    BY <1>0, <1>1 DEF SliceInv
  <2>3. ASSUME NEW i \in DOMAIN socket'
        PROVE  socket'[i] # current'
    BY <1>1, <2>1, <2>2 DEF SentOnce
  <2> QED
    BY <1>1, <2>1, <2>3 DEF Queued
<1>3. TypeOK'
  BY <1>0, <1>1 DEF TypeOK, Receive, child
<1>4. ASSUME NEW r \in Slice
      PROVE  SliceInv(r)'
  <2>1. Queued(r)' => Queued(r)
    BY <1>1 DEF Queued
  <2>2. Outstanding(r)' => Outstanding(r)
    BY <1>2, <2>1 DEF Outstanding
  <2>3. OneHolds(r)'
    BY <1>0 DEF SliceInv, OneHolds, Holds, Receive, child
  <2>4. FailedUntilSent(r)'
    BY <1>0 DEF SliceInv, FailedUntilSent, Receive, child
  <2>5. SentBefore(r)'
    BY <1>0, <1>2, <2>1 DEF SliceInv, SentBefore, Receive, child
  <2>6. SentOnce(r)'
    <3>1. current' = r => ~Queued(r)'
      BY <1>2 DEF Queued
    <3>2. ASSUME NEW i \in DOMAIN socket', NEW j \in DOMAIN socket',
                 socket'[i] = r, socket'[j] = r
          PROVE  i = j
      <4>1. i + 1 = j + 1
        BY <1>0, <1>1, <3>2 DEF SliceInv, SentOnce
      <4> QED
        BY <1>1, <4>1
    <3> QED
      BY <3>1, <3>2 DEF SentOnce
  <2>7. HeldBack(r)'
    BY <1>0, <2>2 DEF SliceInv, HeldBack, Receive, child
  <2> QED
    BY <2>3, <2>4, <2>5, <2>6, <2>7 DEF SliceInv
<1> QED
  BY <1>1, <1>3, <1>4, CrashAssumption DEF IInv, Receive

LEMMA StoreDebuggedKeeps ==
  ASSUME IInv, StoreDebugged
  PROVE  IInv'
<1>0. TypeOK /\ \A r \in Slice : SliceInv(r)
  BY DEF IInv
<1>1. current \in Slice /\ ppc = "print" /\ ppc' = "wake"
  BY DEF IInv, TypeOK, StoreDebugged
<1>2. /\ thread_state' \in [Slice -> {"not_started", "failed", "debugged"}]
      /\ \A r \in Slice \ {current} : thread_state'[r] = thread_state[r]
  BY <1>0, <1>1 DEF TypeOK, StoreDebugged
<1>3. TypeOK'
  BY <1>0, <1>2 DEF TypeOK, StoreDebugged, child
<1>4. ASSUME NEW r \in Slice
      PROVE  SliceInv(r)'
  <2>1. Queued(r)' <=> Queued(r)
    BY DEF Queued, StoreDebugged
  <2>2. Outstanding(r)' => Outstanding(r) /\ r # current
    BY <1>0, <1>1, <2>1 DEF Outstanding, SliceInv, SentOnce
  <2>3. OneHolds(r)'
    BY <1>0 DEF SliceInv, OneHolds, Holds, StoreDebugged, child
  <2>4. FailedUntilSent(r)'
    <3>1. CASE r = current
      BY <1>0, <3>1 DEF SliceInv, SentBefore, FailedUntilSent, StoreDebugged, child
    <3>2. CASE r # current
      BY <1>0, <1>2, <3>2 DEF SliceInv, FailedUntilSent, StoreDebugged, child
    <3> QED
      BY <3>1, <3>2
  <2>5. SentBefore(r)'
    BY <1>0, <2>1 DEF SliceInv, SentBefore, StoreDebugged, child
  <2>6. SentOnce(r)'
    BY <1>0, <2>1 DEF SliceInv, SentOnce, StoreDebugged
  <2>7. HeldBack(r)'
    BY <1>0, <1>2, <2>2 DEF SliceInv, HeldBack, StoreDebugged, child
  <2> QED
    BY <2>3, <2>4, <2>5, <2>6, <2>7 DEF SliceInv
<1> QED
  BY <1>1, <1>3, <1>4, CrashAssumption DEF IInv, StoreDebugged

LEMMA WakeAllKeeps ==
  ASSUME IInv, WakeAll
  PROVE  IInv'
<1>0. TypeOK /\ \A r \in Slice : SliceInv(r)
  BY DEF IInv
<1>1. current \in Slice /\ ppc = "wake" /\ ppc' = "poll" /\ current' = NoSlice
  BY DEF IInv, TypeOK, WakeAll
<1>2. /\ pc' \in [Slice -> [Thread -> HandlerPc]]
      /\ \A r \in Slice, u \in Thread :
           \/ pc'[r][u] = pc[r][u]
           \/ pc[r][u] = "asleep" /\ pc'[r][u] = "check"
  BY <1>0, <1>1 DEF TypeOK, WakeAll, HandlerPc
<1>3. TypeOK'
  BY <1>0, <1>1, <1>2 DEF TypeOK, WakeAll
<1>4. ASSUME NEW r \in Slice
      PROVE  SliceInv(r)'
  <2>1. Queued(r)' <=> Queued(r)
    BY DEF Queued, WakeAll
  <2>2. Outstanding(r)' => Outstanding(r)
    BY <1>1, <2>1 DEF Outstanding
  <2>3. \A u \in Thread : Holds(r, u)' <=> Holds(r, u)
    BY <1>2 DEF Holds
  <2>4. OneHolds(r)'
    BY <1>0, <2>3 DEF SliceInv, OneHolds, WakeAll
  <2>5. FailedUntilSent(r)'
    BY <1>0, <1>2 DEF SliceInv, FailedUntilSent, WakeAll
  <2>6. SentBefore(r)'
    BY <1>0, <1>1, <1>2, <2>1, CrashAssumption DEF SliceInv, SentBefore, WakeAll
  <2>7. SentOnce(r)'
    BY <1>0, <1>1, <2>1, CrashAssumption DEF SliceInv, SentOnce, WakeAll
  <2>8. HeldBack(r)'
    BY <1>0, <1>2, <2>2 DEF SliceInv, HeldBack, WakeAll
  <2> QED
    BY <2>4, <2>5, <2>6, <2>7, <2>8 DEF SliceInv
<1> QED
  BY <1>1, <1>3, <1>4 DEF IInv

\* Deaths and what else leaves the handshake alone.
LEMMA DeathKeeps ==
  ASSUME IInv, UNCHANGED <<child, thread_state, socket, server>>,
         fate' \in [Slice -> {"alive", "crashed", "timed_out"}]
  PROVE  IInv'
<1>1. TypeOK'
  BY DEF IInv, TypeOK, child, server
<1>2. ASSUME NEW r \in Slice
      PROVE  SliceInv(r)'
  <2>1. SliceInv(r)
    BY DEF IInv
  <2>2. (Queued(r)' <=> Queued(r)) /\ (Outstanding(r)' <=> Outstanding(r))
    BY DEF Queued, Outstanding, server
  <2> QED
    BY <2>1, <2>2 DEF SliceInv, OneHolds, Holds, FailedUntilSent, SentBefore, SentOnce,
       HeldBack, child, server
<1> QED
  BY <1>1, <1>2 DEF IInv, server

-----------------------------------------------------------------------------
(***************************************************************************)
(* The theorems.                                                           *)
(***************************************************************************)
LEMMA InitEstablishesInvariant ==
  ASSUME Init
  PROVE  IInv
<1>1. TypeOK
  BY DEF Init, TypeOK, HandlerPc
<1>2. ASSUME NEW s \in Slice
      PROVE  SliceInv(s)
  <2>1. ~Queued(s) /\ ~Outstanding(s) /\ current # s
    BY CrashAssumption DEF Init, Queued, Outstanding
  <2>2. \A t \in Thread : pc[s][t] = "run" /\ ~Holds(s, t)
    BY DEF Init, Holds
  <2>3. SentOnce(s)
    BY <2>1 DEF SentOnce, Init
  <2> QED
    BY <2>1, <2>2, <2>3 DEF SliceInv, OneHolds, FailedUntilSent, SentBefore, HeldBack
<1> QED
  BY <1>1, <1>2 DEF IInv, Init

LEMMA StepKeepsInvariant ==
  ASSUME IInv, [Next]_vars
  PROVE  IInv'
<1>1. ASSUME NEW s \in Slice, NEW t \in Thread,
             Crash(s, t) \/ StoreFailed(s, t) \/ Check(s, t) \/ FutexWait(s, t)
               \/ WakeSpuriously(s, t)
      PROVE  IInv'
  <2>1. CASE Crash(s, t)
    BY <2>1, MoveKeeps DEF Crash, At, HandlerPc
  <2>2. CASE StoreFailed(s, t)
    BY <2>2, MoveKeeps DEF StoreFailed, At, HandlerPc
  <2>3. CASE Check(s, t) /\ thread_state[s] = "failed"
    BY <2>3, MoveKeeps DEF Check, At, HandlerPc
  <2>4. CASE Check(s, t) /\ thread_state[s] # "failed"
    BY <2>4, MoveKeeps DEF Check, At, HandlerPc
  <2>5. CASE FutexWait(s, t) /\ thread_state[s] = "failed"
    BY <2>5, MoveKeeps DEF FutexWait, At, HandlerPc
  <2>6. CASE FutexWait(s, t) /\ thread_state[s] # "failed"
    BY <2>6, MoveKeeps DEF FutexWait, At, HandlerPc
  <2>7. CASE WakeSpuriously(s, t)
    BY <2>7, MoveKeeps DEF WakeSpuriously, At, HandlerPc
  <2> QED
    BY <1>1, <2>1, <2>2, <2>3, <2>4, <2>5, <2>6, <2>7
<1>2. ASSUME NEW s \in Slice, NEW t \in Thread, Die(s, t) \/ KillHung(s)
      PROVE  IInv'
  <2>1. fate' \in [Slice -> {"alive", "crashed", "timed_out"}]
    BY <1>2 DEF IInv, TypeOK, Die, KillHung
  <2> QED
    BY <1>2, <2>1, DeathKeeps DEF Die, KillHung, child
<1>3. CASE UNCHANGED vars
  <2>1. fate' \in [Slice -> {"alive", "crashed", "timed_out"}]
    BY <1>3 DEF IInv, TypeOK, vars
  <2> QED
    BY <1>3, <2>1, DeathKeeps DEF vars
<1>4. Thread # {}
  BY CrashAssumption
<1> QED
  BY <1>1, <1>2, <1>3, <1>4, ClaimKeeps, SendKeeps, ReceiveKeeps, StoreDebuggedKeeps,
     WakeAllKeeps DEF Next, HandlerStep, Server

\* The inductive invariant holds in every state of the handshake.
THEOREM Invariance == Spec => []IInv
<1>1. Init => IInv
  BY InitEstablishesInvariant
<1>2. IInv /\ [Next]_vars => IInv'
  BY StepKeepsInvariant
<1> QED
  BY <1>1, <1>2, PTL DEF Spec

\* The variables of the crash-debugging handshake keep their types.
THEOREM TypeCorrect == Spec => []TypeOK
<1>1. IInv => TypeOK
  BY DEF IInv
<1> QED
  BY <1>1, Invariance, PTL

\* A child that crashed dies of it only when its context is neither queued nor
\* being printed by debug_crashed_child(), whatever other threads and children
\* crash meanwhile.
THEOREM NoneDiesUndebugged == Spec => DebuggedBeforeDeath
<1>1. ASSUME IInv, [Next]_vars, NEW s \in Slice, fate[s] = "alive", fate'[s] = "crashed"
      PROVE  (\A i \in DOMAIN socket : socket[i] # s) /\ (current = s => ppc # "print")
  <2>1. \E t \in Thread : Die(s, t)
    <3>1. PICK r \in Slice, t \in Thread : Die(r, t)
      BY <1>1 DEF IInv, TypeOK, Next, vars, HandlerStep, Crash, StoreFailed, Claim, Send, Check,
         FutexWait, WakeSpuriously, KillHung, Server, Receive, StoreDebugged, WakeAll
    <3> QED
      BY <1>1, <3>1 DEF IInv, TypeOK, Die
  <2>2. ~Outstanding(s)
    BY <1>1, <2>1 DEF IInv, SliceInv, HeldBack, Die, At
  <2> QED
    BY <2>2 DEF Outstanding, Queued
<1>2. IInv /\ [Next]_vars
        => [\A s \in Slice :
              fate[s] = "alive" /\ fate'[s] = "crashed"
                => /\ \A i \in DOMAIN socket : socket[i] # s
                   /\ current = s => ppc # "print"]_vars
  BY <1>1
<1> QED
  BY <1>2, Invariance, PTL DEF Spec, DebuggedBeforeDeath

-----------------------------------------------------------------------------
(***************************************************************************)
(* Program: the background scan service.                                   *)
(***************************************************************************)
\* The command line asks for the service.
Service == parse_cmdline(cmdline).service_background_scan

Ages == 0..DelayBetweenTestBatch

ProgramTypeOK ==
  /\ restarts \in 0..MaxRestarts
  /\ timestamp \in Seq(Ages) /\ Len(timestamp) = BatchSize
  /\ starts \in Seq(Ages)
  /\ own \in 0..BatchSize + 1 /\ own <= Len(starts)

\* The configuration is that of the command line, whatever process runs; the
\* timestamps are filled before the process starts a test.
Configured ==
  /\ phase \notin {"start"} => cfg = parse_cmdline(cmdline)
  /\ phase \in {"start", "parsed"} => own = 0

\* The last start is the youngest.
InOrder == \A i, j \in DOMAIN starts : i < j => starts[i] <= starts[j]

\* A start of this process that its wait has not followed yet.
Unwaited ==
  IF lastTestResult # "Skipped" /\ phase \notin {"batch", "idle", "check", "run"} THEN 1 ELSE 0

\* Before every other start of the process there was a wait's timestamp.
StampsFollowStarts ==
  \A j \in 1..BatchSize : j + Unwaited <= own => timestamp[j] <= starts[j + Unwaited]

\* A start that may fall into the time of a batch, beyond those of a batch less one.
Extra == IF lastTestResult # "Skipped" /\ phase \notin {"idle", "check", "run"} THEN 1 ELSE 0

\* If the process has started as many tests, the one before was a batch's time ago.
BatchIsOver == BatchSize + Extra <= own => starts[BatchSize + Extra] = DelayBetweenTestBatch

\* The processes before this one have started a batch each in the time of a batch, at most.
Earlier == BatchSize * restarts

EarlierAreOver ==
  own <= BatchSize /\ own + Earlier + 1 <= Len(starts)
    => starts[own + Earlier + 1] = DelayBetweenTestBatch

\* Only after a test that was not skipped does the service wait; when it only waits to
\* be idle, the oldest timestamp is as old as a batch takes.
Waits ==
  /\ phase = "batch" => lastTestResult # "Skipped"
  /\ phase \in {"idle", "check"} => timestamp[BatchSize] = DelayBetweenTestBatch

ServiceInv ==
  /\ ProgramTypeOK
  /\ Configured
  /\ InOrder
  /\ Service => StampsFollowStarts /\ BatchIsOver /\ EarlierAreOver /\ Waits

-----------------------------------------------------------------------------
LEMMA Bounds ==
  /\ BatchSize \in Nat \ {0} /\ MaxRestarts \in Nat /\ MaxTestTime \in Nat
  /\ DelayBetweenTestBatch \in Nat /\ MinimumDelayBetweenTests \in Nat \ {0}
  BY ProgramAssumption

\* Where ages are added.
LEMMA AgeGrows ==
  ASSUME NEW a \in Ages, NEW d \in Nat
  PROVE  /\ Age(a, d) \in Ages
         /\ a <= Age(a, d)
         /\ \A b \in Ages : a <= b => Age(a, d) <= Age(b, d)
         /\ a + d >= DelayBetweenTestBatch => Age(a, d) = DelayBetweenTestBatch
  BY Bounds DEF Age, Least, Ages

\* Time passes for a sequence of ages.
LEMMA AgesGrow ==
  ASSUME NEW s \in Seq(Ages), NEW d \in Nat
  PROVE  LET t == [i \in DOMAIN s |-> Age(s[i], d)]
         IN  /\ t \in Seq(Ages) /\ Len(t) = Len(s) /\ DOMAIN t = DOMAIN s
             /\ \A i \in DOMAIN s : t[i] = Age(s[i], d)
<1>1. \A i \in 1..Len(s) : Age(s[i], d) \in Ages
  BY AgeGrows
<1>2. DOMAIN s = 1..Len(s)
  OBVIOUS
<1> QED
  BY <1>1, <1>2

\* A batch's time does not become less.
LEMMA OldStaysOld ==
  ASSUME NEW d \in Nat
  PROVE  /\ DelayBetweenTestBatch \in Ages
         /\ Age(DelayBetweenTestBatch, d) = DelayBetweenTestBatch
<1>1. DelayBetweenTestBatch \in Ages /\ DelayBetweenTestBatch + d >= DelayBetweenTestBatch
  BY Bounds DEF Ages
<1> QED
  BY <1>1, AgeGrows

\* The numbers of starts are natural numbers.
LEMMA Counted ==
  /\ Unwaited \in Nat /\ Extra \in Nat /\ Unwaited' \in Nat /\ Extra' \in Nat
  /\ restarts \in Nat => Earlier \in Nat
BY Bounds DEF Unwaited, Extra, Earlier

\* The starts before one that was a batch's time ago were as long ago.
LEMMA OlderIsOld ==
  ASSUME ProgramTypeOK, InOrder, NEW i \in DOMAIN starts, NEW j \in DOMAIN starts, i <= j,
         starts[i] = DelayBetweenTestBatch
  PROVE  starts[j] = DelayBetweenTestBatch
<1>1. starts[j] \in Ages
  BY DEF ProgramTypeOK
<1>2. CASE i = j
  BY <1>2
<1>3. CASE i < j
  BY <1>1, <1>3, Bounds DEF InOrder, Ages
<1> QED
  BY <1>2, <1>3, Bounds DEF ProgramTypeOK

\* A start that has its place among those of the process.
LEMMA OwnStarts ==
  ASSUME ProgramTypeOK, NEW i \in Nat \ {0}, i <= own
  PROVE  i \in DOMAIN starts /\ starts[i] \in Ages
BY Bounds DEF ProgramTypeOK

\* What holds of the starts after n others, holds of those after more.
LEMMA MoreUnwaited ==
  ASSUME ProgramTypeOK, InOrder, NEW n \in Nat, NEW m \in Nat, n <= m
  PROVE  /\ (\A j \in 1..BatchSize : j + n <= own => timestamp[j] <= starts[j + n])
              => \A j \in 1..BatchSize : j + m <= own => timestamp[j] <= starts[j + m]
         /\ (BatchSize + n <= own => starts[BatchSize + n] = DelayBetweenTestBatch)
              => (BatchSize + m <= own => starts[BatchSize + m] = DelayBetweenTestBatch)
<1>1. own \in Nat /\ BatchSize \in 1..BatchSize
  BY Bounds DEF ProgramTypeOK
<1>2. ASSUME NEW j \in 1..BatchSize, j + m <= own
      PROVE  /\ j + n <= own
             /\ j + n \in DOMAIN starts /\ j + m \in DOMAIN starts /\ j + n <= j + m
             /\ timestamp[j] \in Ages /\ starts[j + n] \in Ages /\ starts[j + m] \in Ages
             /\ starts[j + n] <= starts[j + m]
  <2>1. j + n <= own /\ j + n \in Nat \ {0} /\ j + m \in Nat \ {0} /\ j + n <= j + m
    BY <1>1, <1>2
  <2>2. /\ j + n \in DOMAIN starts /\ starts[j + n] \in Ages
        /\ j + m \in DOMAIN starts /\ starts[j + m] \in Ages
    BY <1>2, <2>1, OwnStarts
  <2>3. starts[j + n] <= starts[j + m]
    <3>1. CASE n = m
      BY <2>2, <3>1, Bounds DEF Ages
    <3>2. CASE n < m
      <4>1. j + n < j + m
        BY <3>2
      <4> QED
        BY <2>2, <4>1 DEF InOrder
    <3> QED
      BY <3>1, <3>2
  <2> QED
    BY <1>2, <2>1, <2>2, <2>3 DEF ProgramTypeOK
<1>3. (\A j \in 1..BatchSize : j + n <= own => timestamp[j] <= starts[j + n])
        => \A j \in 1..BatchSize : j + m <= own => timestamp[j] <= starts[j + m]
  BY <1>2, Bounds DEF Ages
<1>4. (BatchSize + n <= own => starts[BatchSize + n] = DelayBetweenTestBatch)
        => (BatchSize + m <= own => starts[BatchSize + m] = DelayBetweenTestBatch)
  BY <1>1, <1>2, OlderIsOld
<1> QED
  BY <1>3, <1>4

\* Steps of one process in which no time passes and no wait begins.
LEMMA TimesStay ==
  ASSUME ServiceInv, UNCHANGED <<cmdline, timestamp, starts, own, restarts>>, Configured',
         Service => Waits', Unwaited' >= Unwaited, Extra' >= Extra
  PROVE  ServiceInv'
<1> USE DEF ServiceInv
<1>1. ProgramTypeOK' /\ InOrder'
  BY DEF ProgramTypeOK, InOrder
<1>2. Unwaited \in Nat /\ Unwaited' \in Nat /\ Extra \in Nat /\ Extra' \in Nat
  BY Counted
<1>3. ASSUME Service PROVE StampsFollowStarts' /\ BatchIsOver'
  BY <1>2, <1>3, MoreUnwaited DEF StampsFollowStarts, BatchIsOver
<1>4. Service => EarlierAreOver'
  BY DEF EarlierAreOver, Earlier
<1> QED
  BY <1>1, <1>3, <1>4 DEF Service

\* Steps in which time passes, but no test is started: the ages keep their order.
LEMMA AgesStayInOrder ==
  ASSUME ServiceInv, NEW d \in Nat, Pass(d), starts' = AgeStarts(d), UNCHANGED <<own, restarts>>
  PROVE  ProgramTypeOK' /\ InOrder'
<1> USE DEF ServiceInv
<1>1. /\ timestamp' \in Seq(Ages) /\ Len(timestamp') = Len(timestamp)
      /\ starts' \in Seq(Ages) /\ DOMAIN starts' = DOMAIN starts /\ Len(starts') = Len(starts)
      /\ \A i \in DOMAIN starts : starts'[i] = Age(starts[i], d)
  <2>1. timestamp \in Seq(Ages) /\ starts \in Seq(Ages)
    BY DEF ProgramTypeOK
  <2> QED
    BY <2>1, AgesGrow DEF Pass, AgeStarts
<1>2. ASSUME NEW i \in DOMAIN starts, NEW j \in DOMAIN starts, i < j
      PROVE  starts'[i] <= starts'[j]
  <2>1. starts[i] \in Ages /\ starts[j] \in Ages /\ starts[i] <= starts[j]
    BY <1>2 DEF ProgramTypeOK, InOrder
  <2> QED
    BY <1>1, <1>2, <2>1, AgeGrows
<1> QED
  BY <1>1, <1>2 DEF ProgramTypeOK, InOrder

\* What remains of the invariant while time passes for the stamps and the starts alike.
LEMMA TimePasses ==
  ASSUME ServiceInv, Service, NEW d \in Nat, Pass(d), starts' = AgeStarts(d),
         UNCHANGED <<own, restarts>>, Unwaited' = Unwaited,
         Extra' = Extra \/ (Extra' = Unwaited /\ timestamp[BatchSize] + d >= DelayBetweenTestBatch)
  PROVE  StampsFollowStarts' /\ BatchIsOver' /\ EarlierAreOver'
<1> USE DEF ServiceInv
<1>1. /\ timestamp \in Seq(Ages) /\ starts \in Seq(Ages)
      /\ DOMAIN timestamp = 1..BatchSize
      /\ Len(starts') = Len(starts) /\ DOMAIN starts = 1..Len(starts)
      /\ \A i \in DOMAIN starts : starts[i] \in Ages /\ starts'[i] = Age(starts[i], d)
      /\ \A i \in 1..BatchSize : timestamp[i] \in Ages /\ timestamp'[i] = Age(timestamp[i], d)
  BY AgesGrow DEF ProgramTypeOK, Pass, AgeStarts
<1>2. own \in Nat /\ BatchSize \in 1..BatchSize /\ BatchSize \in Nat \ {0}
  BY Bounds DEF ProgramTypeOK
<1>3. StampsFollowStarts'
  <2> SUFFICES ASSUME NEW j \in 1..BatchSize, j + Unwaited <= own
               PROVE  timestamp'[j] <= starts'[j + Unwaited]
    BY DEF StampsFollowStarts
  <2>1. j + Unwaited \in Nat \ {0}
    BY <1>2, Counted
  <2>2. j + Unwaited \in DOMAIN starts /\ timestamp[j] <= starts[j + Unwaited]
    BY <2>1, OwnStarts DEF StampsFollowStarts
  <2> QED
    BY <1>1, <2>2, AgeGrows
<1>4. BatchIsOver'
  <2>1. CASE Extra' = Extra
    <3> SUFFICES ASSUME BatchSize + Extra <= own
                 PROVE  starts'[BatchSize + Extra] = DelayBetweenTestBatch
      BY <2>1 DEF BatchIsOver
    <3>1. starts[BatchSize + Extra] = DelayBetweenTestBatch
      BY DEF BatchIsOver
    <3>2. BatchSize + Extra \in DOMAIN starts
      BY <1>2, Counted, OwnStarts
    <3> QED
      BY <1>1, <3>1, <3>2, OldStaysOld
  <2>2. CASE Extra' = Unwaited /\ timestamp[BatchSize] + d >= DelayBetweenTestBatch
    <3> SUFFICES ASSUME BatchSize + Unwaited <= own
                 PROVE  starts'[BatchSize + Unwaited] = DelayBetweenTestBatch
      BY <2>2 DEF BatchIsOver
    <3>1. timestamp[BatchSize] <= starts[BatchSize + Unwaited]
      BY <1>2 DEF StampsFollowStarts
    <3>2. BatchSize + Unwaited \in DOMAIN starts
      BY <1>2, Counted, OwnStarts
    <3>3. timestamp[BatchSize] \in Ages /\ starts[BatchSize + Unwaited] \in Ages
      BY <1>1, <1>2, <3>2
    <3>4. Age(timestamp[BatchSize], d) = DelayBetweenTestBatch
      BY <2>2, <3>3, AgeGrows
    <3>5. /\ Age(starts[BatchSize + Unwaited], d) \in Ages
          /\ Age(timestamp[BatchSize], d) <= Age(starts[BatchSize + Unwaited], d)
      BY <3>1, <3>3, AgeGrows
    <3>6. Age(starts[BatchSize + Unwaited], d) = DelayBetweenTestBatch
      BY <3>4, <3>5, Bounds DEF Ages
    <3> QED
      BY <1>1, <3>2, <3>6
  <2> QED
    BY <2>1, <2>2
<1>5. EarlierAreOver'
  <2> DEFINE k == own + Earlier + 1
  <2> SUFFICES ASSUME own <= BatchSize, k <= Len(starts)
               PROVE  starts'[k] = DelayBetweenTestBatch
    BY <1>1 DEF EarlierAreOver, Earlier
  <2>1. starts[k] = DelayBetweenTestBatch
    BY DEF EarlierAreOver
  <2>2. k \in DOMAIN starts
    BY <1>1, <1>2, Counted, Bounds DEF ProgramTypeOK
  <2> HIDE DEF k
  <2> QED
    BY <1>1, <2>1, <2>2, OldStaysOld
<1> QED
  BY <1>3, <1>4, <1>5

LEMMA InitService == PInit => ServiceInv
<1> SUFFICES ASSUME PInit PROVE ServiceInv
  OBVIOUS
<1>1. /\ restarts = 0 /\ phase = "start" /\ starts = <<>> /\ own = 0
      /\ timestamp = [i \in 1..BatchSize |-> DelayBetweenTestBatch]
  BY DEF PInit, LongAgo
<1>2. ProgramTypeOK
  BY <1>1, Bounds DEF ProgramTypeOK, Ages
<1>3. DOMAIN starts = {} /\ Len(starts) = 0
  BY <1>1
<1>4. StampsFollowStarts /\ BatchIsOver /\ EarlierAreOver
  BY <1>1, <1>2, <1>3, Counted, Bounds DEF StampsFollowStarts, BatchIsOver, EarlierAreOver, ProgramTypeOK
<1> QED
  BY <1>1, <1>2, <1>3, <1>4 DEF ServiceInv, Configured, InOrder, Waits

-----------------------------------------------------------------------------
\* As many starts are kept as a batch has, and one more.
LEMMA KeptStarts == MaxStarts - 1 \in Nat /\ MaxStarts = MaxStarts - 1 + 1 /\ BatchSize + 1 <= MaxStarts
<1> DEFINE before == BatchSize * MaxRestarts
<1>1. BatchSize * (MaxRestarts + 1) = before + BatchSize
  BY Bounds
<1>2. before \in Nat
  BY Bounds
<1> HIDE DEF before
<1> QED
  BY <1>1, <1>2, Bounds DEF MaxStarts

\* What RunTest makes of the starts when the test is not skipped.
LEMMA StartIsNoted ==
  ASSUME ProgramTypeOK, NEW d \in Nat, NEW n \in Nat,
         starts' = SubSeq(<<Age(0, d)>> \o AgeStarts(d), 1, Least(Len(starts) + 1, n + 1))
  PROVE  /\ starts' \in Seq(Ages) /\ Len(starts') = Least(Len(starts) + 1, n + 1)
         /\ \A i \in DOMAIN starts' : i = 1 \/ i - 1 \in DOMAIN starts
         /\ \A i \in DOMAIN starts' :
              starts'[i] = IF i = 1 THEN Age(0, d) ELSE Age(starts[i - 1], d)
<1> DEFINE older == AgeStarts(d)
           all   == <<Age(0, d)>> \o older
           kept  == Least(Len(starts) + 1, n + 1)
<1>1. /\ starts \in Seq(Ages) /\ older \in Seq(Ages) /\ Len(older) = Len(starts)
      /\ \A i \in DOMAIN starts : older[i] = Age(starts[i], d)
  <2>1. starts \in Seq(Ages)
    BY DEF ProgramTypeOK
  <2> QED
    BY <2>1, AgesGrow DEF AgeStarts
<1>2. Age(0, d) \in Ages
  BY AgeGrows, Bounds DEF Ages
<1> HIDE DEF older
<1>3. /\ all \in Seq(Ages) /\ Len(all) = Len(starts) + 1
      /\ all[1] = Age(0, d)
      /\ \A i \in 2..Len(starts) + 1 : all[i] = older[i - 1]
  BY <1>1, <1>2
<1>4. kept \in 1..Len(all)
  BY <1>1, <1>3 DEF Least
<1> HIDE DEF all, kept
<1>5. starts' = SubSeq(all, 1, kept)
  BY DEF all, kept, older
<1>6. /\ starts' \in Seq(Ages) /\ Len(starts') = kept
      /\ \A i \in 1..kept : starts'[i] = all[i]
  <2>1. \A i \in 1..kept : all[i] \in Ages
    BY <1>3, <1>4
  <2>2. /\ SubSeq(all, 1, kept) \in Seq(Ages) /\ Len(SubSeq(all, 1, kept)) = kept
        /\ \A i \in 1..kept - 1 + 1 : SubSeq(all, 1, kept)[i] = all[1 + i - 1]
    BY <1>3, <1>4, <2>1, SubSeqProperties
  <2>3. \A i \in 1..kept : 1 + i - 1 = i /\ i \in 1..kept - 1 + 1
    BY <1>3, <1>4
  <2> QED
    BY <1>5, <2>2, <2>3
<1>7. DOMAIN starts' = 1..kept /\ DOMAIN starts = 1..Len(starts)
  BY <1>1, <1>6
<1>8. ASSUME NEW i \in 1..kept, i # 1
      PROVE  i - 1 \in DOMAIN starts /\ i \in 2..Len(starts) + 1
  BY <1>1, <1>3, <1>4, <1>7, <1>8
<1> QED
  BY <1>1, <1>3, <1>4, <1>6, <1>7, <1>8 DEF kept

\* A test that is not skipped is one more that no wait has followed yet.
LEMMA StartKeeps ==
  ASSUME ServiceInv, phase = "run", phase' \in {"end", "advance"},
         lastTestResult' # "Skipped", UNCHANGED <<cmdline, cfg, restarts>>,
         NEW d \in Nat, Pass(d), NoteStart(d)
  PROVE  ServiceInv'
<1> USE DEF ServiceInv
<1>1. /\ starts \in Seq(Ages) /\ timestamp \in Seq(Ages)
      /\ DOMAIN timestamp = 1..BatchSize
      /\ \A i \in DOMAIN starts : starts[i] \in Ages
      /\ own \in 0..BatchSize + 1 /\ own <= Len(starts) /\ Len(starts) \in Nat
      /\ BatchSize \in Nat \ {0} /\ Earlier \in Nat
  BY Counted, Bounds DEF ProgramTypeOK
<1>2. /\ starts' \in Seq(Ages) /\ Len(starts') = Least(Len(starts) + 1, MaxStarts)
      /\ \A i \in DOMAIN starts' : i = 1 \/ i - 1 \in DOMAIN starts
      /\ \A i \in DOMAIN starts' :
           starts'[i] = IF i = 1 THEN Age(0, d) ELSE Age(starts[i - 1], d)
  <2> DEFINE n == MaxStarts - 1
  <2>1. n \in Nat /\ MaxStarts = n + 1
    BY KeptStarts
  <2> HIDE DEF n
  <2>2. starts' = SubSeq(<<Age(0, d)>> \o AgeStarts(d), 1, Least(Len(starts) + 1, n + 1))
    BY <2>1 DEF NoteStart
  <2> QED
    BY <2>1, <2>2, StartIsNoted
<1>3. /\ timestamp' \in Seq(Ages) /\ Len(timestamp') = Len(timestamp)
      /\ \A i \in 1..BatchSize : timestamp[i] \in Ages /\ timestamp'[i] = Age(timestamp[i], d)
  <2>1. timestamp' = [i \in DOMAIN timestamp |-> Age(timestamp[i], d)]
    BY DEF Pass
  <2>2. timestamp' \in Seq(Ages) /\ Len(timestamp') = Len(timestamp)
    BY <1>1, <2>1, AgesGrow
  <2>3. ASSUME NEW i \in 1..BatchSize
        PROVE  timestamp[i] \in Ages /\ timestamp'[i] = Age(timestamp[i], d)
    <3>1. timestamp[i] \in Ages
      BY <1>1, ElementOfSeq DEF ProgramTypeOK
    <3> QED
      BY <1>1, <2>1, <3>1
  <2> QED
    BY <2>2, <2>3
<1>4. /\ own' = Least(own + 1, BatchSize + 1)
      /\ own' \in 0..BatchSize + 1 /\ own' <= own + 1 /\ own' <= Len(starts')
  <2>1. own' = Least(own + 1, BatchSize + 1)
    BY DEF NoteStart
  <2>2. MaxStarts \in Nat /\ BatchSize + 1 <= MaxStarts
    BY KeptStarts
  <2> QED
    BY <1>1, <1>2, <2>1, <2>2 DEF Least
<1>0. ProgramTypeOK'
  BY <1>2, <1>3, <1>4 DEF ProgramTypeOK
<1>5. InOrder'
  <2> SUFFICES ASSUME NEW i \in DOMAIN starts', NEW j \in DOMAIN starts', i < j
               PROVE  starts'[i] <= starts'[j]
    BY DEF InOrder
  <2>1. i \in Nat \ {0} /\ j \in Nat \ {0} /\ j # 1
    BY <1>2
  <2>2. j - 1 \in DOMAIN starts /\ starts'[j] = Age(starts[j - 1], d)
    BY <1>2, <2>1
  <2>3. CASE i = 1
    <3>1. 0 \in Ages /\ starts[j - 1] \in Ages /\ 0 <= starts[j - 1]
      BY <1>1, <2>2, Bounds DEF Ages
    <3>2. Age(0, d) <= Age(starts[j - 1], d)
      BY <3>1, AgeGrows
    <3>3. starts'[i] = Age(0, d)
      BY <1>2, <2>3
    <3> QED
      BY <2>2, <3>2, <3>3
  <2>4. CASE i # 1
    <3>1. i - 1 \in DOMAIN starts /\ starts'[i] = Age(starts[i - 1], d)
      BY <1>2, <2>4
    <3>2. starts[i - 1] <= starts[j - 1]
      BY <1>1, <2>1, <2>2, <3>1 DEF InOrder
    <3> QED
      BY <1>1, <2>2, <3>1, <3>2, AgeGrows
  <2> QED
    BY <2>3, <2>4
<1>6. Unwaited = 0 /\ Extra = 0 /\ Unwaited' = 1 /\ Extra' = 1
  BY DEF Unwaited, Extra
<1>7. ASSUME NEW k \in Nat \ {0}, k + 1 <= Len(starts')
      PROVE  k \in DOMAIN starts /\ starts'[k + 1] = Age(starts[k], d)
  <2> DEFINE i == k + 1
  <2>1. i \in DOMAIN starts' /\ i # 1 /\ i - 1 = k
    BY <1>2, <1>7
  <2> HIDE DEF i
  <2>2. k \in DOMAIN starts /\ starts'[i] = Age(starts[k], d)
    BY <1>2, <2>1
  <2> QED
    BY <2>2 DEF i
<1>8. Service => StampsFollowStarts'
  <2> SUFFICES ASSUME Service, NEW j \in 1..BatchSize, j + 1 <= own'
               PROVE  timestamp'[j] <= starts'[j + 1]
    BY <1>6 DEF StampsFollowStarts
  <2>1. j \in Nat \ {0} /\ j + 0 = j /\ j <= own /\ j + 1 <= Len(starts')
    BY <1>1, <1>2, <1>4
  <2>2. timestamp[j] <= starts[j]
    BY <1>6, <2>1 DEF StampsFollowStarts
  <2>3. starts[j] \in Ages /\ starts'[j + 1] = Age(starts[j], d)
    BY <1>1, <1>7, <2>1
  <2>4. timestamp[j] \in Ages /\ timestamp'[j] = Age(timestamp[j], d)
    BY <1>3
  <2>5. Age(timestamp[j], d) <= Age(starts[j], d)
    BY <2>2, <2>3, <2>4, AgeGrows
  <2> QED
    BY <2>3, <2>4, <2>5
<1>9. Service => BatchIsOver'
  <2> SUFFICES ASSUME Service, BatchSize + 1 <= own'
               PROVE  starts'[BatchSize + 1] = DelayBetweenTestBatch
    BY <1>6 DEF BatchIsOver
  <2>1. BatchSize + 0 = BatchSize /\ BatchSize <= own /\ BatchSize + 1 <= Len(starts')
    BY <1>1, <1>2, <1>4
  <2>2. starts[BatchSize] = DelayBetweenTestBatch
    BY <1>6, <2>1 DEF BatchIsOver
  <2> QED
    BY <1>1, <1>7, <2>1, <2>2, OldStaysOld
<1>10. Service => EarlierAreOver'
  <2> DEFINE k == own + Earlier + 1
  <2> SUFFICES ASSUME Service, own' <= BatchSize, own' + Earlier + 1 <= Len(starts')
               PROVE  starts'[own' + Earlier + 1] = DelayBetweenTestBatch
    BY DEF EarlierAreOver, Earlier
  <2>1. /\ k \in Nat \ {0} /\ own <= BatchSize
        /\ own' + Earlier + 1 = k + 1
    BY <1>1, <1>4 DEF Least
  <2> HIDE DEF k
  <2>2. k \in DOMAIN starts /\ starts'[k + 1] = Age(starts[k], d)
    BY <1>7, <2>1
  <2>3. starts[k] = DelayBetweenTestBatch
    BY <1>1, <2>1, <2>2 DEF EarlierAreOver, k
  <2> QED
    BY <2>1, <2>2, <2>3, OldStaysOld
<1> QED
  BY <1>0, <1>5, <1>8, <1>9, <1>10 DEF Configured, Service, Waits

LEMMA RunTestKeeps ==
  ASSUME ServiceInv, RunTest
  PROVE  ServiceInv'
<1>1. PICK r \in {"Skipped", "Passed", "Failed"}, d \in 1..MaxTestTime :
        /\ Pass(d)
        /\ IF r = "Skipped" THEN starts' = AgeStarts(d) /\ UNCHANGED own ELSE NoteStart(d)
        /\ lastTestResult' = r
        /\ phase' \in {"end", "advance"}
  BY DEF RunTest
<1>2. phase = "run" /\ UNCHANGED <<cmdline, cfg, restarts>> /\ d \in Nat
  BY <1>1, Bounds DEF RunTest, config
<1>3. CASE r # "Skipped"
  BY <1>1, <1>2, <1>3, StartKeeps
<1>4. CASE r = "Skipped"
  <2>1. ProgramTypeOK' /\ InOrder'
    BY <1>1, <1>2, <1>4, AgesStayInOrder
  <2>2. Unwaited' = Unwaited /\ Extra' = Extra
    BY <1>1, <1>2, <1>4 DEF Unwaited, Extra
  <2>3. Service => StampsFollowStarts' /\ BatchIsOver' /\ EarlierAreOver'
    BY <1>1, <1>2, <1>4, <2>2, TimePasses
  <2> QED
    BY <1>1, <1>2, <2>1, <2>3 DEF ServiceInv, Configured, Service, Waits
<1> QED
  BY <1>3, <1>4

\* wait_delay_between_tests() is not for the service.
LEMMA DelayKeeps ==
  ASSUME ServiceInv, Delay
  PROVE  ServiceInv'
<1>1. PICK d \in 0..1 : Pass(d) /\ starts' = AgeStarts(d)
  BY DEF Delay
<1>2. ProgramTypeOK' /\ InOrder'
  BY <1>1, AgesStayInOrder DEF Delay, LoopFrame
<1> QED
  BY <1>2 DEF Delay, LoopFrame, config, ServiceInv, Configured, Service

\* The wait's timestamp takes the place of the start it follows.
LEMMA BeginWaitKeeps ==
  ASSUME ServiceInv, BeginWait
  PROVE  ServiceInv'
<1> USE DEF ServiceInv
<1>1. /\ phase = "next" /\ lastTestResult # "Skipped" /\ Service
      /\ UNCHANGED <<cmdline, cfg, lastTestResult, restarts, starts, own>>
      /\ phase' = IF DelayBetweenTestBatch > timestamp'[BatchSize] THEN "batch" ELSE "idle"
  BY DEF BeginWait, LoopFrame, counts, config, Configured, Service
<1>2. /\ starts \in Seq(Ages) /\ timestamp \in Seq(Ages) /\ Len(timestamp) = BatchSize
      /\ own \in Nat
  BY Bounds DEF ProgramTypeOK
<1> DEFINE rest == SubSeq(timestamp, 1, Len(timestamp) - 1)
<1>3. /\ rest \in Seq(Ages) /\ Len(rest) = BatchSize - 1
      /\ \A i \in 1..BatchSize - 1 : rest[i] = timestamp[i]
  <2>1. \A i \in 1..BatchSize - 1 : timestamp[i] \in Ages /\ 1 + i - 1 = i
    BY <1>2, Bounds
  <2>2. /\ rest \in Seq(Ages) /\ Len(rest) = BatchSize - 1
        /\ \A i \in 1..BatchSize - 1 - 1 + 1 : rest[i] = timestamp[1 + i - 1]
    BY <1>2, <2>1, SubSeqProperties, Bounds
  <2>3. BatchSize - 1 - 1 + 1 = BatchSize - 1
    BY Bounds
  <2> QED
    BY <2>1, <2>2, <2>3
<1>4. timestamp' = <<0>> \o rest
  BY DEF BeginWait, MoveTimestamps
<1> HIDE DEF rest
<1>5. /\ timestamp' \in Seq(Ages) /\ Len(timestamp') = BatchSize
      /\ timestamp'[1] = 0
      /\ \A i \in 2..BatchSize : timestamp'[i] = timestamp[i - 1]
  BY <1>3, <1>4, Bounds DEF Ages
<1>6. ProgramTypeOK' /\ InOrder' /\ Configured'
  BY <1>1, <1>5 DEF ProgramTypeOK, InOrder, Configured
<1>7. Unwaited = 1 /\ Unwaited' = 0
  BY <1>1 DEF Unwaited
<1>8. ASSUME NEW j \in 1..BatchSize, j <= own
      PROVE  timestamp'[j] <= starts[j]
  <2>1. j \in DOMAIN starts /\ starts[j] \in Ages
    BY <1>8, OwnStarts
  <2>2. CASE j = 1
    BY <1>5, <2>1, <2>2, Bounds DEF Ages
  <2>3. CASE j # 1
    <3> DEFINE i == j - 1
    <3>1. i \in 1..BatchSize /\ i + 1 = j /\ j \in 2..BatchSize
      BY <2>3, Bounds
    <3>2. timestamp[i] <= starts[i + 1]
      BY <1>1, <1>7, <1>8, <3>1 DEF StampsFollowStarts
    <3> QED
      BY <1>5, <3>1, <3>2
  <2> QED
    BY <2>2, <2>3
<1>9. StampsFollowStarts' /\ EarlierAreOver'
  <2>1. \A j \in 1..BatchSize : j + 0 = j
    OBVIOUS
  <2> QED
    BY <1>1, <1>7, <1>8, <2>1 DEF StampsFollowStarts, EarlierAreOver, Earlier
<1>10. BatchIsOver' /\ Waits'
  <2>1. Extra = 1
    BY <1>1 DEF Extra
  <2>2. timestamp'[BatchSize] \in Ages /\ BatchSize \in 1..BatchSize /\ BatchSize + 0 = BatchSize
    BY <1>5, Bounds
  <2>3. CASE phase' = "batch"
    <3>1. Extra' = Extra
      BY <1>1, <2>1, <2>3 DEF Extra
    <3> QED
      BY <1>1, <2>3, <3>1 DEF BatchIsOver, Waits
  <2>4. CASE phase' = "idle"
    <3>1. timestamp'[BatchSize] = DelayBetweenTestBatch
      BY <1>1, <2>2, <2>4, Bounds DEF Ages
    <3>2. Extra' = 0
      BY <1>1, <2>4 DEF Extra
    <3>3. ASSUME BatchSize <= own
          PROVE  starts[BatchSize] = DelayBetweenTestBatch
      <4>1. timestamp'[BatchSize] <= starts[BatchSize]
        BY <1>8, <2>2, <3>3
      <4>2. starts[BatchSize] \in Ages
        BY <3>3, OwnStarts, Bounds
      <4> QED
        BY <3>1, <4>1, <4>2, Bounds DEF Ages
    <3> QED
      BY <1>1, <2>2, <2>4, <3>1, <3>2, <3>3 DEF BatchIsOver, Waits
  <2> QED
    BY <1>1, <2>3, <2>4
<1> QED
  BY <1>1, <1>6, <1>9, <1>10

\* After either wait the oldest timestamp is as old as a batch takes.
LEMMA WaitKeeps ==
  ASSUME ServiceInv, WaitForBatch \/ WaitForIdle
  PROVE  ServiceInv'
<1>1. /\ timestamp \in Seq(Ages)
      /\ BatchSize \in DOMAIN timestamp /\ timestamp[BatchSize] \in Ages
  BY Bounds DEF ServiceInv, ProgramTypeOK
<1>2. /\ phase \in {"batch", "idle"} /\ phase' = "check"
      /\ UNCHANGED <<cmdline, cfg, lastTestResult, restarts, own>>
  BY DEF WaitForBatch, WaitForIdle, DoWait, LoopFrame, config, counts
<1>3. \E d \in Nat : /\ Pass(d) /\ starts' = AgeStarts(d)
                     /\ phase = "batch" => timestamp[BatchSize] + d >= DelayBetweenTestBatch
  <2>1. CASE WaitForBatch
    <3> DEFINE base == DelayBetweenTestBatch - timestamp[BatchSize] + MinimumDelayBetweenTests
    <3>1. PICK d \in base - MinimumDelayBetweenTests .. base + MinimumDelayBetweenTests :
            Pass(d) /\ starts' = AgeStarts(d)
      BY <2>1 DEF WaitForBatch, DoWait
    <3>2. d \in Nat /\ timestamp[BatchSize] + d >= DelayBetweenTestBatch
      BY <1>1, <3>1, Bounds DEF Ages
    <3> QED
      BY <3>1, <3>2
  <2>2. CASE WaitForIdle
    <3> DEFINE v == MinimumDelayBetweenTests \div 10
    <3>1. PICK d \in MinimumDelayBetweenTests - v .. MinimumDelayBetweenTests + v :
            Pass(d) /\ starts' = AgeStarts(d)
      BY <2>2 DEF WaitForIdle, DoWait
    <3>2. v \in Nat /\ v <= MinimumDelayBetweenTests
      BY Bounds
    <3>3. d \in Nat
      BY <3>1, <3>2, Bounds
    <3> QED
      BY <2>2, <3>1, <3>3 DEF WaitForIdle
  <2> QED
    BY <2>1, <2>2
<1>4. PICK d \in Nat : /\ Pass(d) /\ starts' = AgeStarts(d)
                       /\ phase = "batch" => timestamp[BatchSize] + d >= DelayBetweenTestBatch
  BY <1>3
<1>5. ProgramTypeOK' /\ InOrder'
  <2>1. d \in Nat /\ Pass(d) /\ starts' = AgeStarts(d)
    BY <1>4
  <2>2. UNCHANGED <<own, restarts>>
    BY <1>2
  <2> QED
    BY <2>1, <2>2, AgesStayInOrder
<1>6. Unwaited = 0 /\ Unwaited' = 0 /\ Extra' = 0
  BY <1>1, <1>2 DEF Unwaited, Extra
<1>7. ASSUME Service
      PROVE  /\ StampsFollowStarts' /\ BatchIsOver' /\ EarlierAreOver'
             /\ timestamp'[BatchSize] = DelayBetweenTestBatch
  <2>1. timestamp[BatchSize] + d >= DelayBetweenTestBatch
    BY <1>1, <1>2, <1>4, <1>7, Bounds DEF ServiceInv, Waits, Ages
  <2>2. StampsFollowStarts' /\ BatchIsOver' /\ EarlierAreOver'
    BY <1>2, <1>4, <1>6, <1>7, <2>1, TimePasses
  <2>3. timestamp'[BatchSize] = Age(timestamp[BatchSize], d)
    BY <1>1, <1>4 DEF Pass
  <2> QED
    BY <1>1, <2>1, <2>2, <2>3, AgeGrows
<1> QED
  BY <1>2, <1>5, <1>7 DEF ServiceInv, Configured, Service, Waits

\* The other steps take no time.  The process that fills the timestamps has started no
\* test; a killed one has started a batch at most in the time of a batch.
LEMMA OtherStepsKeep ==
  ASSUME ServiceInv,
         \/ ParseCommandLine \/ SelectTests \/ get_first_test \/ get_next_test
         \/ NoWait \/ CheckLoad \/ Finish \/ WaitInterrupted \/ Restart \/ UNCHANGED pvars
  PROVE  ServiceInv'
<1> USE DEF ServiceInv
<1>1. /\ Unwaited \in Nat /\ Unwaited' \in Nat /\ Extra \in Nat /\ Extra' \in Nat
      /\ BatchSize \in Nat \ {0} /\ starts \in Seq(Ages) /\ own \in 0..BatchSize + 1
      /\ Earlier \in Nat
  BY Counted, Bounds DEF ProgramTypeOK
<1>2. CASE ParseCommandLine
  <2>1. UNCHANGED <<cmdline, timestamp, starts, own, restarts, lastTestResult>> /\ phase = "start"
        /\ phase' \in {"ended", "parsed"} /\ cfg' = parse_cmdline(cmdline)
    BY <1>2 DEF ParseCommandLine, Exit, config, counts, times
  <2>2. Unwaited' = Unwaited /\ Extra' = Extra
    BY <2>1 DEF Unwaited, Extra
  <2>3. Configured' /\ (Service => Waits')
    BY <2>1 DEF Configured, Waits
  <2> QED
    BY <1>1, <2>1, <2>2, <2>3, TimesStay DEF Unwaited, Extra
<1>3. ASSUME UNCHANGED <<cmdline, cfg, timestamp, starts, own, restarts, lastTestResult>>,
             phase # "start", phase' # "parsed",
             \/ phase' \in {"first", "next", "end", "ended", "undefined"}
             \/ phase = "next" /\ lastTestResult = "Skipped" /\ phase' = "run"
             \/ phase = "check" /\ phase' \in {"run", "idle"}
      PROVE  ServiceInv'
  <2>1. Unwaited' >= Unwaited /\ Extra' >= Extra
    BY <1>1, <1>3 DEF Unwaited, Extra
  <2>2. Configured' /\ (Service => Waits')
    BY <1>3 DEF Configured, Waits
  <2> QED
    BY <1>1, <1>3, <2>1, <2>2, TimesStay
<1>4. CASE SelectTests
  <2>1. /\ UNCHANGED <<cmdline, cfg, starts, own, restarts>> /\ own = 0
        /\ phase = "parsed" /\ phase' \in {"first", "ended"}
        /\ timestamp' = LongAgo \/ timestamp' = timestamp
    BY <1>4 DEF SelectTests, background_scan_init, Exit, config, counts, Configured
  <2>2. LongAgo \in Seq(Ages) /\ Len(LongAgo) = BatchSize
    BY Bounds DEF LongAgo, Ages
  <2>3. ProgramTypeOK' /\ InOrder' /\ Configured' /\ (Service => Waits')
    BY <2>1, <2>2 DEF ProgramTypeOK, InOrder, Configured, Waits
  <2>4. StampsFollowStarts' /\ BatchIsOver' /\ (Service => EarlierAreOver')
    <3>0. \A j \in 1..BatchSize \cup {BatchSize}, n \in Nat : ~(j + n <= 0)
      BY Bounds
    <3>1. \A j \in 1..BatchSize : ~(j + Unwaited' <= 0)
      BY <1>1, <3>0
    <3>2. ~(BatchSize + Extra' <= 0)
      BY <1>1, <3>0
    <3> QED
      BY <2>1, <3>1, <3>2 DEF StampsFollowStarts, BatchIsOver, EarlierAreOver, Earlier
  <2> QED
    BY <2>1, <2>3, <2>4 DEF Service
<1>5. CASE get_first_test
  BY <1>3, <1>5 DEF get_first_test, GetFirst, ShuffleNothing, config, counts, times
<1>6. CASE get_next_test
  BY <1>3, <1>6 DEF get_next_test, NextIteration, GetFirst, config, counts, times
<1>7. CASE NoWait
  BY <1>3, <1>7 DEF NoWait, LoopFrame, config, counts, times
<1>8. CASE CheckLoad
  BY <1>3, <1>8 DEF CheckLoad, LoopFrame, config, counts, times
<1>9. CASE Finish
  BY <1>3, <1>9 DEF Finish, Exit, config, counts, times
<1>10. CASE WaitInterrupted
  BY <1>3, <1>10 DEF WaitInterrupted, LoopFrame, config, counts, times
<1>11. CASE Restart
  <2>1. /\ UNCHANGED <<cmdline, timestamp, starts>> /\ own' = 0
        /\ phase' = "start" /\ lastTestResult' = "Skipped"
        /\ restarts' = restarts + 1 /\ restarts < MaxRestarts
    BY <1>11 DEF Restart, config
  <2>2. ProgramTypeOK' /\ InOrder' /\ Configured' /\ Waits'
    BY <2>1, Bounds DEF ProgramTypeOK, InOrder, Configured, Waits
  <2>3. StampsFollowStarts' /\ BatchIsOver'
    <3>0. \A j \in 1..BatchSize \cup {BatchSize}, n \in Nat : ~(j + n <= 0)
      BY Bounds
    <3>1. \A j \in 1..BatchSize : ~(j + Unwaited' <= 0)
      BY <1>1, <3>0
    <3>2. ~(BatchSize + Extra' <= 0)
      BY <1>1, <3>0
    <3> QED
      BY <2>1, <3>1, <3>2 DEF StampsFollowStarts, BatchIsOver
  <2>4. Earlier' = Earlier + BatchSize
    BY <2>1, Bounds DEF Earlier, ProgramTypeOK
  <2>5. ASSUME Service PROVE EarlierAreOver'
    <3> DEFINE k == Earlier + BatchSize + 1
    <3> SUFFICES ASSUME k <= Len(starts) PROVE starts[k] = DelayBetweenTestBatch
      BY <1>1, <2>1, <2>4 DEF EarlierAreOver
    <3>1. k \in DOMAIN starts
      BY <1>1
    <3>2. CASE own <= BatchSize
      <4> DEFINE i == own + Earlier + 1
      <4>1. i \in DOMAIN starts /\ i <= k /\ i <= Len(starts)
        BY <1>1, <3>1, <3>2
      <4>2. starts[i] = DelayBetweenTestBatch
        BY <2>5, <3>2, <4>1 DEF EarlierAreOver
      <4> HIDE DEF i, k
      <4> QED
        BY <3>1, <4>1, <4>2, OlderIsOld
    <3>3. CASE own > BatchSize
      <4> DEFINE i == BatchSize + Extra
      <4>0. Extra \in 0..1
        BY DEF Extra
      <4>1. i \in DOMAIN starts /\ i <= k /\ i <= own
        BY <1>1, <3>1, <3>3, <4>0
      <4>2. starts[i] = DelayBetweenTestBatch
        BY <2>5, <4>1 DEF BatchIsOver
      <4> HIDE DEF i, k
      <4> QED
        BY <3>1, <4>1, <4>2, OlderIsOld
    <3> QED
      BY <1>1, <3>2, <3>3
  <2> QED
    BY <2>1, <2>2, <2>3, <2>5 DEF Service
<1>12. CASE UNCHANGED pvars
  <2>1. UNCHANGED <<cmdline, cfg, phase, timestamp, starts, own, restarts, lastTestResult>>
    BY <1>12 DEF pvars, config, counts, times
  <2>2. Unwaited' = Unwaited /\ Extra' = Extra
    BY <2>1 DEF Unwaited, Extra
  <2>3. Configured' /\ (Service => Waits')
    BY <2>1 DEF Configured, Waits
  <2> QED
    BY <1>1, <2>1, <2>2, <2>3, TimesStay DEF Unwaited, Extra
<1> QED
  BY <1>2, <1>4, <1>5, <1>6, <1>7, <1>8, <1>9, <1>10, <1>11, <1>12

\* The service's invariant holds in every state of the program.
THEOREM ServiceInvariant == PSpec => []ServiceInv
<1>1. PInit => ServiceInv
  BY InitService
<1>2. ServiceInv /\ [PNext]_pvars => ServiceInv'
  <2> SUFFICES ASSUME ServiceInv, [PNext]_pvars PROVE ServiceInv'
    OBVIOUS
  <2>1. CASE Ended \/ UNCHANGED pvars
    BY <2>1, OtherStepsKeep DEF Ended
  <2>2. CASE RunTest
    BY <2>2, RunTestKeeps
  <2>3. CASE Delay
    BY <2>3, DelayKeeps
  <2>4. CASE BeginWait
    BY <2>4, BeginWaitKeeps
  <2>5. CASE WaitForBatch \/ WaitForIdle
    BY <2>5, WaitKeeps
  <2>6. CASE \/ ParseCommandLine \/ SelectTests \/ get_first_test \/ get_next_test
             \/ NoWait \/ CheckLoad \/ Finish \/ WaitInterrupted \/ Restart
    BY <2>6, OtherStepsKeep
  <2> QED
    BY <2>1, <2>2, <2>3, <2>4, <2>5, <2>6 DEF PNext, Step
<1> QED
  BY <1>1, <1>2, PTL DEF PSpec

\* Where there is an old start, there are fewer young ones than its place says.
LEMMA FewRecent ==
  ASSUME ServiceInv, NEW n \in 0..Len(starts), NEW k \in Nat \ {0},
         k <= n => starts[k] = DelayBetweenTestBatch
  PROVE  Cardinality(Recent(n)) < k
<1>1. starts \in Seq(Ages) /\ DOMAIN starts = 1..Len(starts) /\ k - 1 \in Nat
  BY DEF ServiceInv, ProgramTypeOK
<1>2. ASSUME NEW i \in Recent(n) PROVE i \in 1..k - 1
  <2>1. i \in 1..n /\ i \in DOMAIN starts /\ starts[i] < DelayBetweenTestBatch
    BY <1>1 DEF Recent
  <2>2. ASSUME k <= i PROVE FALSE
    <3>1. k <= n /\ k \in DOMAIN starts /\ starts[k] = DelayBetweenTestBatch
      BY <1>1, <2>1, <2>2
    <3>2. starts[i] = DelayBetweenTestBatch
      BY <2>1, <2>2, <3>1, OlderIsOld DEF ServiceInv
    <3> QED
      BY <2>1, <3>2, Bounds
  <2> QED
    BY <1>1, <2>1, <2>2
<1>3. IsFiniteSet(1..k - 1) /\ Cardinality(1..k - 1) = k - 1
  BY <1>1, FS_Interval
<1>4. Recent(n) \subseteq 1..k - 1
  BY <1>2
<1>5. Cardinality(Recent(n)) <= k - 1 /\ Cardinality(Recent(n)) \in Nat
  BY <1>3, <1>4, FS_Subset, FS_CardinalityType
<1> QED
  BY <1>1, <1>5

\* When a test of the service may start, the process has started fewer than a batch
\* within the time of a batch, and it and those before it fewer than a batch each.
LEMMA FewStarts ==
  ASSUME ServiceInv, phase = "run", Service
  PROVE  /\ Cardinality(Recent(own)) < BatchSize
         /\ Cardinality(Recent(Len(starts))) < BatchSize * (restarts + 1)
<1> DEFINE k == BatchSize + Earlier
<1>1. /\ own \in 0..Len(starts) /\ Len(starts) \in 0..Len(starts) /\ own <= BatchSize + 1
      /\ BatchSize \in Nat \ {0} /\ Earlier \in Nat /\ k \in Nat \ {0}
  BY Counted, Bounds DEF ServiceInv, ProgramTypeOK
<1>2. BatchSize * (restarts + 1) = k
  BY Bounds DEF ServiceInv, ProgramTypeOK, Earlier
<1>3. BatchSize <= own => starts[BatchSize] = DelayBetweenTestBatch
  <2>1. Extra = 0 /\ BatchSize + 0 = BatchSize
    BY <1>1 DEF Extra
  <2> QED
    BY <2>1 DEF ServiceInv, BatchIsOver
<1>4. ASSUME k <= Len(starts) PROVE starts[k] = DelayBetweenTestBatch
  <2>1. k \in DOMAIN starts
    BY <1>1, <1>4 DEF ServiceInv, ProgramTypeOK
  <2>2. CASE BatchSize <= own
    <3>1. BatchSize \in DOMAIN starts /\ BatchSize <= k
      BY <1>1, <2>2, OwnStarts DEF ServiceInv
    <3> QED
      BY <1>3, <2>1, <2>2, <3>1, OlderIsOld DEF ServiceInv
  <2>3. CASE own < BatchSize
    <3> DEFINE i == own + Earlier + 1
    <3>1. i \in DOMAIN starts /\ i <= k /\ i <= Len(starts)
      BY <1>1, <1>4, <2>3 DEF ServiceInv, ProgramTypeOK
    <3>2. starts[i] = DelayBetweenTestBatch
      BY <1>1, <2>3, <3>1 DEF ServiceInv, EarlierAreOver
    <3> HIDE DEF i, k
    <3> QED
      BY <2>1, <3>1, <3>2, OlderIsOld DEF ServiceInv
  <2> QED
    BY <1>1, <2>2, <2>3
<1>5. Cardinality(Recent(own)) < BatchSize
  BY <1>1, <1>3, FewRecent
<1> HIDE DEF k
<1>6. Cardinality(Recent(Len(starts))) < k
  BY <1>1, <1>4, FewRecent
<1> QED
  BY <1>2, <1>5, <1>6

\* background_scan_wait() keeps its promise for every size of a batch and every delay,
\* whatever was skipped in between, as far as one process goes: when a test of the
\* service starts, the process has started fewer than a batch within the time of a
\* batch.  Since background_scan_init() forgets what was run before, n restarts allow
\* n batches more, and the theorem says that they allow no more than that.
THEOREM NoMoreThanABatch == PSpec => BatchLimit
<1>1. ServiceInv /\ [PNext]_pvars
        => [cfg.ret = EXIT_SUCCESS /\ cfg'.ret = EXIT_SUCCESS /\ phase = "run"
            /\ lastTestResult' # "Skipped" /\ cfg.service_background_scan
              => /\ Cardinality(Recent(own)) < BatchSize
                 /\ Cardinality(Recent(Len(starts))) < BatchSize * (restarts + 1)]_pvars
  BY FewStarts DEF ServiceInv, Configured, Service
<1> QED
  BY <1>1, ServiceInvariant, PTL DEF PSpec, BatchLimit
=============================================================================
