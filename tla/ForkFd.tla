------------------------------- MODULE ForkFd -------------------------------
(***************************************************************************)
(* Starting children: call_forkfd() (sandstone_run.cpp), which probes the  *)
(* kernel's pidfds, and forkfd() (forkfd/forkfd.c, forkfd/forkfd_linux.c), *)
(* which falls back on a table of children and a SIGCHLD handler.          *)
(*                                                                         *)
(* The table is lock-free: callers take entries and the handler, which     *)
(* interrupts any thread of the process and also runs in several at once,  *)
(* gives them back.  Every atomic operation and system call of either is   *)
(* one step; a thread makes none of its own while the handler runs in it.  *)
(***************************************************************************)
EXTENDS Integers, Sequences, FiniteSets

CONSTANTS Threads,      \* the threads of the process
          Callers,      \* those that call forkfd()
          Main,         \* the one of them that runs tests
          Children,     \* 1 .. n, the processes that may be forked
          Pids,         \* the numbers the kernel gives them
          Reuse,        \* whether a number is given again after its reaping
          SmallArray, BigArray, BigArrays,  \* entries of the arrays, big arrays
          Kernels       \* the kinds of kernels considered

ASSUME ForkFdAssumption ==
    /\ Main \in Callers /\ Callers \subseteq Threads
    /\ IsFiniteSet(Children) /\ Children = 1 .. Cardinality(Children)
    /\ Pids \subseteq Nat \ {0} /\ Reuse \in BOOLEAN
    /\ SmallArray \in Nat \ {0} /\ BigArray \in Nat \ {0} /\ BigArrays \in Nat
    /\ Kernels \subseteq {"pidfd", "noPidfd", "rejected", "pollFails", "pidCached"}

VARIABLES
    \* the kernel's view
    kernel, proc, pid, sigchld,
    \* how each child was started, what its death pipe holds, and for whom it works
    kind, payloads, started,
    \* the table: entries, counts of busy entries per array, number of linked arrays
    entry, busyCount, linked,
    \* forkfd_initialization, forkfd_status; ffd_extra_flags; the probe's eventfds
    once, forkfd_status, ffd_extra_flags, efdpoll, efdpid,
    \* the frames of the threads: their own code and the handler
    call, handler,
    \* descriptors open in the process; whether it has given up
    open, exited

kernelVars == <<kernel, proc, pid, sigchld>>
childVars  == <<kind, payloads, started>>
tableVars  == <<entry, busyCount, linked>>
probeVars  == <<ffd_extra_flags, efdpoll, efdpid>>
initVars   == <<once, forkfd_status>>
vars == <<kernelVars, childVars, tableVars, probeVars, initVars,
          call, handler, open, exited>>

---------------------------------------------------------------------------
(* The table.  Entries are numbered in the order they are searched.        *)

Slots    == 1 .. SmallArray + BigArrays * BigArray
Arrays   == 0 .. BigArrays
Array(s) == IF s <= SmallArray THEN 0 ELSE 1 + (s - SmallArray - 1) \div BigArray
First(a) == IF a = 0 THEN 1 ELSE SmallArray + (a - 1) * BigArray + 1
Size(a)  == IF a = 0 THEN SmallArray ELSE BigArray

Free == 0       \* pid of a free entry
Busy == -1      \* pid of an entry somebody works on
Unused == [pid |-> Free, pipe |-> 0]

\* The entry after s of the arrays linked so far, 0 at their end.
After(s) == IF s + 1 \in Slots /\ Array(s + 1) <= linked THEN s + 1 ELSE 0

NoCall    == [pc |-> "idle", array |-> 0, slot |-> 0, child |-> 0, probe |-> FALSE]
NoHandler == [pc |-> "idle", pid |-> 0, slot |-> 0, loop |-> 1, payload |-> 0]

Forked    == {c \in Children : proc[c] # "none"}
NewChild  == Cardinality(Forked) + 1
Unreaped  == {c \in Forked : proc[c] # "reaped"}
FreePids  == IF Reuse THEN Pids \ {pid[c] : c \in Unreaped} ELSE {NewChild} \cap Pids
\* Faulty: whoever has ended, as with P_ALL.
AnyZombie(p) == {c \in Children : proc[c] = "zombie"}
Zombie(p) == {c \in Children : proc[c] = "zombie" /\ pid[c] = p}
Runs(t)   == handler[t].pc = "idle" /\ ~exited

Init ==
    /\ kernel \in Kernels
    /\ proc = [c \in Children |-> "none"] /\ pid = [c \in Children |-> 0]
    /\ sigchld = FALSE
    /\ kind = [c \in Children |-> "none"] /\ payloads = [c \in Children |-> <<>>]
    /\ started = {}
    /\ entry = [s \in Slots |-> Unused] /\ busyCount = [a \in Arrays |-> 0]
    /\ linked = 0
    /\ once = "never" /\ forkfd_status = 0
    /\ ffd_extra_flags = "unknown" /\ efdpoll = "" /\ efdpid = ""
    /\ call = [t \in Threads |-> NoCall]
    /\ handler = [t \in Threads |-> NoHandler]
    /\ open = {} /\ exited = FALSE

---------------------------------------------------------------------------
(* forkfd(): the system's way or the fallback.                              *)

Goto(t, pc) == call' = [call EXCEPT ![t].pc = pc]

\* forkfd() gives the descriptor of child c back to its caller.
GiveBack(t, c) ==
    /\ open' = open \cup {c}
    /\ call' = [call EXCEPT ![t] = IF @.probe THEN [@ EXCEPT !.pc = "poll", !.child = c]
                                   ELSE NoCall]

\* forkfd() fails: the probe tries again with fork(), call_forkfd() exits,
\* another caller has its error.
GiveUp(t) ==
    IF call[t].probe
    THEN /\ ffd_extra_flags' = "USE_FORK"
         /\ call' = [call EXCEPT ![t] = [NoCall EXCEPT !.pc = "once"]]
         /\ UNCHANGED exited
    ELSE /\ call' = [call EXCEPT ![t] = NoCall]
         /\ exited' = (exited \/ t = Main)
         /\ UNCHANGED ffd_extra_flags

\* Somebody calls: the main thread through call_forkfd().
Call(t) ==
    /\ Runs(t) /\ call[t].pc = "idle" /\ NewChild \in Children
    /\ \E f \in [pc : {"once", "system"}, probe : BOOLEAN] :
        /\ f.probe = (t = Main /\ ffd_extra_flags = "unknown")
        /\ (f.pc = "once") <=>
           (kernel = "noPidfd" \/ (t = Main /\ ffd_extra_flags = "USE_FORK"))
        /\ call' = [call EXCEPT ![t] = [NoCall EXCEPT !.pc = f.pc, !.probe = f.probe]]
    /\ UNCHANGED <<kernelVars, childVars, tableVars, probeVars, initVars, handler, open, exited>>

\* fork() and clone() make a child in state s; k says who waits for it how.
Born(c, p, s, k) ==
    /\ proc' = [proc EXCEPT ![c] = s] /\ pid' = [pid EXCEPT ![c] = p]
    /\ kind' = [kind EXCEPT ![c] = k]

\* clone() with CLONE_PIDFD: the child runs at once, or waits for the probe.
SystemForkfd(t) ==
    /\ Runs(t) /\ call[t].pc = "system" /\ kernel # "rejected"
    /\ NewChild \in Children
    /\ \E p \in FreePids :
        Born(NewChild, p, IF call[t].probe THEN "probing" ELSE "running", "pidfd")
    /\ started' = IF call[t].probe THEN started ELSE started \cup {NewChild}
    /\ GiveBack(t, NewChild)
    /\ UNCHANGED <<kernel, sigchld, payloads, tableVars, probeVars, initVars, handler, exited>>

\* The kernel refuses the flag, or a limit is reached.
SystemForkfdFails(t) ==
    /\ Runs(t) /\ call[t].pc = "system"
    /\ GiveUp(t)
    /\ UNCHANGED <<kernelVars, childVars, tableVars, efdpoll, efdpid, initVars, handler, open>>

\* pthread_once(): the first caller installs the handler, others wait for it.
InstallHandler(t) ==
    /\ Runs(t) /\ call[t].pc = "once" /\ once = "never"
    /\ once' = "installed" /\ Goto(t, "status")
    /\ UNCHANGED <<kernelVars, childVars, tableVars, probeVars, forkfd_status, handler, open, exited>>

SetStatus(t) ==
    /\ Runs(t) /\ call[t].pc = "status"
    /\ once' = "done" /\ forkfd_status' = 1 /\ Goto(t, "once")
    /\ UNCHANGED <<kernelVars, childVars, tableVars, probeVars, handler, open, exited>>

\* tryAllocateInSection(): count the entry before looking for it.
CountEntry(t) ==
    /\ Runs(t)
    /\ \/ call[t].pc = "once" /\ once = "done"
       \/ call[t].pc = "count"
    /\ LET a == call[t].array IN
        /\ busyCount' = [busyCount EXCEPT ![a] = @ + 1]
        /\ call' = [call EXCEPT ![t].pc = IF busyCount'[a] <= Size(a) THEN "scan" ELSE "undo",
                                ![t].slot = First(a)]
    /\ UNCHANGED <<kernelVars, childVars, entry, linked, probeVars, initVars, handler, open, exited>>

\* One compare-and-exchange of the search, from free to busy.
ScanEntry(t) ==
    /\ Runs(t) /\ call[t].pc = "scan"
    /\ LET s == call[t].slot IN
        IF entry[s].pid = Free
        THEN /\ entry' = [entry EXCEPT ![s].pid = Busy]
             /\ Goto(t, "fork")
        ELSE /\ call' = IF Array(s + 1) = Array(s) /\ s + 1 \in Slots
                        THEN [call EXCEPT ![t].slot = @ + 1]
                        ELSE [call EXCEPT ![t].pc = "undo"]
             /\ UNCHANGED entry
    /\ UNCHANGED <<kernelVars, childVars, busyCount, linked, probeVars, initVars, handler, open, exited>>

UndoCount(t) ==
    /\ Runs(t) /\ call[t].pc = "undo"
    /\ busyCount' = [busyCount EXCEPT ![call[t].array] = @ - 1]
    /\ Goto(t, "next")
    /\ UNCHANGED <<kernelVars, childVars, entry, linked, probeVars, initVars, handler, open, exited>>

\* allocateInfo() goes on to the next array, if there is one.
NextArray(t) ==
    /\ Runs(t) /\ call[t].pc = "next"
    /\ IF call[t].array < linked
       THEN call' = [call EXCEPT ![t].pc = "count", ![t].array = @ + 1]
       ELSE Goto(t, "link")
    /\ UNCHANGED <<kernelVars, childVars, tableVars, probeVars, initVars, handler, open, exited>>

\* It has allocated one and links it, or finds that another thread was faster.
LinkArray(t) ==
    /\ Runs(t) /\ call[t].pc = "link" /\ call[t].array < BigArrays
    /\ linked' = IF linked = call[t].array THEN linked + 1 ELSE linked
    /\ call' = [call EXCEPT ![t].pc = "count", ![t].array = @ + 1]
    /\ UNCHANGED <<kernelVars, childVars, entry, busyCount, probeVars, initVars, handler, open, exited>>

\* calloc() fails.
OutOfMemory(t) ==
    /\ Runs(t) /\ call[t].pc = "link"
    /\ GiveUp(t)
    /\ UNCHANGED <<kernelVars, childVars, tableVars, efdpoll, efdpid, initVars, handler, open>>

\* The pipes and the fork; the child waits in a read() for the all-clear.
ForkBlocked(t) ==
    /\ Runs(t) /\ call[t].pc = "fork" /\ NewChild \in Children
    /\ \E p \in FreePids : Born(NewChild, p, "blocked", "table")
    /\ call' = [call EXCEPT ![t].pc = "store", ![t].child = NewChild]
    /\ UNCHANGED <<kernel, sigchld, payloads, started, tableVars, probeVars, initVars,
                   handler, open, exited>>

\* deathPipe and, released with it, the pid.
StorePid(t) ==
    /\ Runs(t) /\ call[t].pc = "store"
    /\ entry' = [entry EXCEPT ![call[t].slot] =
                    [pid |-> pid[call[t].child], pipe |-> call[t].child]]
    /\ Goto(t, "release")
    /\ UNCHANGED <<kernelVars, childVars, busyCount, linked, probeVars, initVars,
                   handler, open, exited>>

ReleaseChild(t) ==
    /\ Runs(t) /\ call[t].pc = "release"
    /\ LET c == call[t].child IN
        /\ proc' = [proc EXCEPT ![c] = IF call[t].probe THEN "probing" ELSE "running"]
        /\ started' = IF call[t].probe THEN started ELSE started \cup {c}
        /\ GiveBack(t, c)
    /\ UNCHANGED <<kernel, pid, sigchld, kind, payloads, tableVars, probeVars, initVars,
                   handler, exited>>

\* A pipe, an eventfd or fork() fails: the entry is given back in two steps.
ForkFails(t) ==
    /\ Runs(t) /\ call[t].pc = "fork"
    /\ entry' = [entry EXCEPT ![call[t].slot] = Unused]
    /\ Goto(t, "uncount")
    /\ UNCHANGED <<kernelVars, childVars, busyCount, linked, probeVars, initVars,
                   handler, open, exited>>

UncountFailed(t) ==
    /\ Runs(t) /\ call[t].pc = "uncount"
    /\ busyCount' = [busyCount EXCEPT ![call[t].array] = @ - 1]
    /\ GiveUp(t)
    /\ UNCHANGED <<kernelVars, childVars, entry, linked, efdpoll, efdpid, initVars,
                   handler, open>>

Forkfd(t) ==
    \/ Call(t) \/ SystemForkfd(t) \/ SystemForkfdFails(t)
    \/ InstallHandler(t) \/ SetStatus(t)
    \/ CountEntry(t) \/ ScanEntry(t) \/ UndoCount(t) \/ NextArray(t)
    \/ LinkArray(t) \/ OutOfMemory(t)
    \/ ForkBlocked(t) \/ StorePid(t) \/ ReleaseChild(t)
    \/ ForkFails(t) \/ UncountFailed(t)

---------------------------------------------------------------------------
(* The probe of call_forkfd(): does poll() wait, does getpid() tell?        *)

\* poll() for a millisecond on the child's descriptor: the broken kernels say
\* that it has ended; else only an end can make it readable.
Poll(t) ==
    /\ Runs(t) /\ call[t].pc = "poll"
    /\ LET c == call[t].child
           ready == (kernel = "pollFails" /\ kind[c] = "pidfd") \/ proc[c] = "zombie" IN
        /\ efdpoll' = IF ready THEN "PollFails" ELSE "PollWorks"
        /\ Goto(t, IF ready THEN "discard" ELSE "readPid")
    /\ UNCHANGED <<kernelVars, childVars, tableVars, ffd_extra_flags, efdpid, initVars,
                   handler, open, exited>>

\* Faulty: the child goes on whatever it has found.
AnswerAndGoOn(c) ==
    /\ proc[c] = "probing" /\ efdpoll = "PollWorks" /\ efdpid = "" /\ ~exited
    /\ efdpid' = IF kernel # "pidCached" \/ kind[c] = "table"
                 THEN "PidProperlyUpdated" ELSE "PidIncorrectlyCached"
    /\ proc' = [proc EXCEPT ![c] = "running"]
    /\ started' = started \cup {c}
    /\ UNCHANGED <<kernel, pid, sigchld, kind, payloads, tableVars, ffd_extra_flags, efdpoll,
                   initVars, call, handler, open, exited>>

\* The child: leave, or say whether the pid is new and go on with the test.
AnswerProbe(c) ==
    /\ proc[c] = "probing" /\ efdpoll # "" /\ ~exited
    /\ LET good == kernel # "pidCached" \/ kind[c] = "table" IN
        IF efdpoll = "PollWorks" /\ efdpid = ""
        THEN /\ efdpid' = IF good THEN "PidProperlyUpdated" ELSE "PidIncorrectlyCached"
             /\ proc' = [proc EXCEPT ![c] = IF good THEN "running" ELSE @]
             /\ started' = IF good THEN started \cup {c} ELSE started
             /\ UNCHANGED sigchld
        ELSE /\ proc' = [proc EXCEPT ![c] = "zombie"]      \* _exit(127)
             /\ sigchld' = (sigchld \/ once # "never")
             /\ UNCHANGED <<efdpid, started>>
    /\ UNCHANGED <<kernel, pid, kind, payloads, tableVars, ffd_extra_flags, efdpoll,
                   initVars, call, handler, open, exited>>

ReadPid(t) ==
    /\ Runs(t) /\ call[t].pc = "readPid" /\ efdpid # ""
    /\ IF efdpid = "PidProperlyUpdated"
       THEN /\ ffd_extra_flags' = "none"
            /\ call' = [call EXCEPT ![t] = NoCall]
       ELSE /\ Goto(t, "discard") /\ UNCHANGED ffd_extra_flags
    /\ UNCHANGED <<kernelVars, childVars, tableVars, efdpoll, efdpid, initVars,
                   handler, open, exited>>

\* What forkfd_wait4() finds: a pidfd's child that ended, or a payload.
Ended(c) == IF kind[c] = "pidfd" THEN proc[c] = "zombie" ELSE payloads[c] # <<>>
Collect(c) ==
    /\ Ended(c) /\ open' = open \ {c}
    /\ proc' = IF kind[c] = "pidfd" THEN [proc EXCEPT ![c] = "reaped"] ELSE proc

\* The probe's child is waited for, and the call starts again with fork().
DiscardProbe(t) ==
    /\ Runs(t) /\ call[t].pc = "discard"
    /\ Collect(call[t].child)
    /\ ffd_extra_flags' = "USE_FORK"
    /\ call' = [call EXCEPT ![t] = [NoCall EXCEPT !.pc = "once"]]
    /\ UNCHANGED <<kernel, pid, sigchld, childVars, tableVars, efdpoll, efdpid, initVars,
                   handler, exited>>

\* The caller's own loop: forkfd_wait4() and forkfd_close() of what is readable.
WaitFd(t) ==
    /\ Runs(t) /\ call[t].pc = "idle"
    /\ \E c \in open \ {call[u].child : u \in Threads} : Collect(c)
    /\ UNCHANGED <<kernel, pid, sigchld, childVars, tableVars, probeVars, initVars,
                   call, handler, exited>>

\* A child started and waited for without forkfd(): the debugger's.
ForkForeign ==
    /\ Runs(Main) /\ call[Main].pc = "idle" /\ NewChild \in Children
    /\ \A c \in Children : kind[c] # "foreign"
    /\ \E p \in FreePids : Born(NewChild, p, "running", "foreign")
    /\ call' = [call EXCEPT ![Main] = [NoCall EXCEPT !.pc = "waitpid", !.child = NewChild]]
    /\ UNCHANGED <<kernel, sigchld, payloads, started, tableVars, probeVars, initVars,
                   handler, open, exited>>

WaitForeign ==
    /\ Runs(Main) /\ call[Main].pc = "waitpid"
    /\ LET c == call[Main].child IN
        /\ proc[c] = "zombie" /\ proc' = [proc EXCEPT ![c] = "reaped"]
    /\ call' = [call EXCEPT ![Main] = NoCall]
    /\ UNCHANGED <<kernel, pid, sigchld, childVars, tableVars, probeVars, initVars,
                   handler, open, exited>>

Exit(c) ==
    /\ proc[c] = "running" /\ ~exited
    /\ proc' = [proc EXCEPT ![c] = "zombie"]
    /\ sigchld' = (sigchld \/ once # "never")
    /\ UNCHANGED <<kernel, pid, childVars, tableVars, probeVars, initVars,
                   call, handler, open, exited>>

---------------------------------------------------------------------------
(* sigchld_handler() and reapChildProcesses() in thread t.                  *)

InHandler(t, pc) == handler[t].pc = pc /\ ~exited
otherVars == <<kernel, pid, kind, started, linked, probeVars, initVars, call, open, exited>>

\* A pending SIGCHLD is taken by any thread that is not handling one; with
\* forkfd_status still 0 the handler returns.
Deliver(t) ==
    /\ InHandler(t, "idle") /\ sigchld
    /\ sigchld' = FALSE
    /\ handler' = IF forkfd_status = 1 THEN [handler EXCEPT ![t].pc = "search"] ELSE handler
    /\ UNCHANGED <<proc, payloads, entry, busyCount, otherVars>>

\* search_next_child: waitid(P_ALL, WNOWAIT) names some child that has ended.
WaitidAll(t) ==
    /\ InHandler(t, "search")
    /\ \/ /\ \A c \in Children : proc[c] # "zombie"
          /\ handler' = [handler EXCEPT ![t] = NoHandler]
       \/ \E c \in Children :
          /\ proc[c] = "zombie"
          /\ handler' = [handler EXCEPT ![t] =
                            [NoHandler EXCEPT !.pc = "match", !.pid = pid[c], !.slot = 1]]
    /\ UNCHANGED <<proc, sigchld, payloads, entry, busyCount, otherVars>>

\* The frame once entry s is done with: the next one, in the first loop to find
\* the child and in the second to try each child; the handler's end.
NextEntry(f) ==
    IF After(f.slot) # 0
    THEN [f EXCEPT !.pc = IF f.loop = 1 THEN "match" ELSE "load", !.slot = After(f.slot)]
    ELSE IF f.loop = 1 THEN [f EXCEPT !.pc = "load", !.slot = 1, !.loop = 2]
                       ELSE NoHandler

\* The first loop's compare-and-exchange, from the child's pid to busy.
MatchEntry(t) ==
    /\ InHandler(t, "match")
    /\ LET s == handler[t].slot IN
        IF entry[s].pid = handler[t].pid
        THEN /\ entry' = [entry EXCEPT ![s].pid = Busy]
             /\ handler' = [handler EXCEPT ![t].pc = "reap"]
        ELSE /\ handler' = [handler EXCEPT ![t] = NextEntry(@)]
             /\ UNCHANGED entry
    /\ UNCHANGED <<proc, sigchld, payloads, busyCount, otherVars>>

\* The second loop: load the pid, ask whether it is ready, make it busy.
LoadEntry(t) ==
    /\ InHandler(t, "load")
    /\ LET p == entry[handler[t].slot].pid IN
        handler' = [handler EXCEPT ![t] = IF p \in {Free, Busy} THEN NextEntry(@)
                                          ELSE [@ EXCEPT !.pc = "ready", !.pid = p]]
    /\ UNCHANGED <<proc, sigchld, payloads, entry, busyCount, otherVars>>

IsChildReady(t) ==
    /\ InHandler(t, "ready")
    /\ handler' = [handler EXCEPT ![t] = IF Zombie(@.pid) = {} THEN NextEntry(@)
                                         ELSE [@ EXCEPT !.pc = "take"]]
    /\ UNCHANGED <<proc, sigchld, payloads, entry, busyCount, otherVars>>

TakeEntry(t) ==
    /\ InHandler(t, "take")
    /\ LET s == handler[t].slot IN
        IF entry[s].pid = handler[t].pid
        THEN /\ entry' = [entry EXCEPT ![s].pid = Busy]
             /\ handler' = [handler EXCEPT ![t].pc = "reap"]
        ELSE /\ handler' = [handler EXCEPT ![t] = NextEntry(@)]
             /\ UNCHANGED entry
    /\ UNCHANGED <<proc, sigchld, payloads, busyCount, otherVars>>

\* Faulty: one child per signal.
ResumeNot(f) == NoHandler

\* Where the loops go on after an entry was taken.
Resume(f) == IF f.loop = 1 THEN [NoHandler EXCEPT !.pc = "search"] ELSE NextEntry(f)

\* tryReaping(): when it fails the entry stays busy ("FIXME").
TryReaping(t) ==
    /\ InHandler(t, "reap")
    /\ LET z == Zombie(handler[t].pid) IN
        /\ proc' = [c \in Children |-> IF c \in z THEN "reaped" ELSE proc[c]]
        /\ handler' = [handler EXCEPT ![t] =
                IF z = {} THEN Resume(@)
                ELSE [@ EXCEPT !.pc = "notify", !.payload = CHOOSE c \in z : TRUE]]
    /\ UNCHANGED <<sigchld, payloads, entry, busyCount, otherVars>>

\* notifyAndFreeInfo(): write the payload; freeInfo(): free the pid, then count.
Notify(t) ==
    /\ InHandler(t, "notify")
    /\ LET f == handler[t] IN
        payloads' = [payloads EXCEPT ![entry[f.slot].pipe] = Append(@, f.payload)]
    /\ handler' = [handler EXCEPT ![t].pc = "free"]
    /\ UNCHANGED <<proc, sigchld, entry, busyCount, otherVars>>

FreeEntry(t) ==
    /\ InHandler(t, "free")
    /\ entry' = [entry EXCEPT ![handler[t].slot] = Unused]
    /\ handler' = [handler EXCEPT ![t].pc = "uncount"]
    /\ UNCHANGED <<proc, sigchld, payloads, busyCount, otherVars>>

Uncount(t) ==
    /\ InHandler(t, "uncount")
    /\ busyCount' = [busyCount EXCEPT ![Array(handler[t].slot)] = @ - 1]
    /\ handler' = [handler EXCEPT ![t] = Resume(@)]
    /\ UNCHANGED <<proc, sigchld, payloads, entry, otherVars>>

HandlerStep(t) ==
    \/ WaitidAll(t) \/ MatchEntry(t) \/ LoadEntry(t) \/ IsChildReady(t)
    \/ TakeEntry(t) \/ TryReaping(t) \/ Notify(t) \/ FreeEntry(t) \/ Uncount(t)

---------------------------------------------------------------------------

CallerStep(t) == Forkfd(t) \/ Poll(t) \/ ReadPid(t) \/ DiscardProbe(t) \/ WaitFd(t)

Next ==
    \/ \E t \in Callers : CallerStep(t)
    \/ \E t \in Threads : Deliver(t) \/ HandlerStep(t)
    \/ ForkForeign \/ WaitForeign
    \/ \E c \in Children : AnswerProbe(c) \/ Exit(c)

\* Threads run, and somebody takes a pending signal.  A caller need not call
\* again, nor a child end.
Fairness ==
    /\ \A t \in Threads : WF_vars(HandlerStep(t))
    /\ \A t \in Callers : WF_vars(CallerStep(t) /\ ~Call(t))
    /\ WF_vars(\E t \in Threads : Deliver(t))
    /\ \A c \in Children : WF_vars(AnswerProbe(c))

Spec == Init /\ [][Next]_vars /\ Fairness

---------------------------------------------------------------------------
(* Properties                                                              *)

\* The table and the processes have their types; busyCount >= 0 is freeInfo()'s assertion.
TypeOK ==
    /\ proc \in [Children -> {"none", "blocked", "probing", "running", "zombie", "reaped"}]
    /\ pid \in [Children -> Pids \cup {0}] /\ kind \in [Children -> {"none", "pidfd", "table", "foreign"}]
    /\ entry \in [Slots -> [pid : Pids \cup {Free, Busy}, pipe : Children \cup {0}]]
    /\ busyCount \in [Arrays -> Nat] /\ linked \in Arrays
    /\ payloads \in [Children -> Seq(Children)]
    /\ started \subseteq Children /\ open \subseteq Children

\* Nobody reaps what is not his: a child started with fork() or clone() outside the
\* table is only reaped by who waits for it, and a death pipe gets one payload, of
\* its own child (reapChildProcesses(), notifyAndFreeInfo()).
PayloadsAreOwn ==
    \A c \in Children :
        /\ payloads[c] \in {<<>>, <<c>>}
        /\ payloads[c] # <<>> => proc[c] = "reaped" /\ kind[c] = "table"

\* Every call_forkfd() that returned has started one child that runs the test, and
\* the discarded child of a failed probe never does.
OneTestPerCall ==
    \A c \in Children :
        /\ c \in open /\ (\A t \in Threads : call[t].child # c) => c \in started
        /\ (\E t \in Threads : call[t].pc = "discard" /\ call[t].child = c) => c \notin started

\* A child started by forkfd() that ends makes its descriptor readable, whatever
\* signals were merged and whoever else's children end.
EveryEndIsNotified ==
    \A c \in Children :
        (proc[c] = "zombie" /\ kind[c] = "table") ~> (payloads[c] # <<>> \/ exited)
=============================================================================
