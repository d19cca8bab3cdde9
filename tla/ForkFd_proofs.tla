-------------------------- MODULE ForkFd_proofs --------------------------
(***************************************************************************)
(* Proofs about forkfd(), for every number of threads, callers, children,  *)
(* pids and arrays, and whether the kernel gives a number again or not.    *)
(***************************************************************************)
EXTENDS ForkFd, FiniteSetTheorems, TLAPS

\* The steps of a caller and of a handler.
CallPc    == {"idle", "once", "status", "system", "count", "scan", "undo", "next", "link",
              "fork", "store", "release", "uncount", "poll", "readPid", "discard", "waitpid"}
HandlerPc == {"idle", "search", "match", "load", "ready", "take", "reap", "notify", "free",
              "uncount"}

CallFrame    == [pc : CallPc, array : Arrays, slot : Slots \cup {0}, child : Children \cup {0},
                 probe : BOOLEAN]
HandlerFrame == [pc : HandlerPc, pid : Pids \cup {Free, Busy}, slot : Slots \cup {0}, loop : {1, 2},
                 payload : Children \cup {0}]

State == {"none", "blocked", "probing", "running", "zombie", "reaped"}
Kind  == {"none", "pidfd", "table", "foreign"}
Entry == [pid : Pids \cup {Free, Busy}, pipe : Children \cup {0}]

\* TypeOK, without what the counts of busy entries are, and with the frames; a
\* frame that works at an entry has one.
Types ==
  /\ proc \in [Children -> State]
  /\ pid \in [Children -> Pids \cup {0}]
  /\ kind \in [Children -> Kind]
  /\ entry \in [Slots -> Entry]
  /\ linked \in Arrays
  /\ payloads \in [Children -> Seq(Children)]
  /\ started \subseteq Children
  /\ open \subseteq Children
  /\ call \in [Threads -> CallFrame]
  /\ handler \in [Threads -> HandlerFrame]
  /\ \A t \in Threads :
       /\ call[t].array <= linked
       /\ call[t].pc \in {"scan", "fork", "store"} => call[t].slot \in Slots
       /\ handler[t].pc \notin {"idle", "search"} => handler[t].slot \in Slots

\* Who has made an entry busy: a caller that has not stored its child yet, or a
\* handler on the way from its compare-and-exchange to freeInfo().
Fills(t)   == call[t].pc \in {"fork", "store"}
Empties(t) == handler[t].pc \in {"reap", "notify", "free"}

\* A busy entry that is worked at has one who works at it: to a caller it is
\* without a pipe, to a handler it has one.
FilledIsBusy == \A t \in Threads : Fills(t) => entry[call[t].slot] = [pid |-> Busy, pipe |-> 0]
EmptiedIsBusy ==
  \A t \in Threads : Empties(t) =>
    entry[handler[t].slot].pid = Busy /\ entry[handler[t].slot].pipe # 0
OneFills ==
  \A t, u \in Threads : Fills(t) /\ Fills(u) /\ call[t].slot = call[u].slot => t = u
OneEmpties ==
  \A t, u \in Threads : Empties(t) /\ Empties(u) /\ handler[t].slot = handler[u].slot => t = u
HolderInv == FilledIsBusy /\ EmptiedIsBusy /\ OneFills /\ OneEmpties

Alive(c) == proc[c] \notin {"none", "reaped"}

\* An entry is its child's own; nobody but who makes it busy reaps the child, and
\* its death pipe is empty until then.
Waits(c) == Alive(c) /\ payloads[c] = <<>>
EntryInv ==
  /\ \A s \in Slots : entry[s].pid # Busy => (entry[s].pipe = 0 <=> entry[s].pid = Free)
  /\ \A s \in Slots : entry[s].pipe # 0 =>
       kind[entry[s].pipe] = "table" /\ proc[entry[s].pipe] # "none"
  /\ \A r, s \in Slots : entry[r].pipe = entry[s].pipe /\ entry[s].pipe # 0 => r = s
  /\ \A s \in Slots : entry[s].pid \notin {Free, Busy} =>
       pid[entry[s].pipe] = entry[s].pid /\ Waits(entry[s].pipe)
  /\ \A t \in Threads : handler[t].pc = "reap" =>
       pid[entry[handler[t].slot].pipe] = handler[t].pid /\ Waits(entry[handler[t].slot].pipe)
  /\ \A t \in Threads : handler[t].pc = "notify" =>
       /\ handler[t].payload = entry[handler[t].slot].pipe
       /\ proc[handler[t].payload] = "reaped" /\ payloads[handler[t].payload] = <<>>

\* A child that is forked and not let go yet.
Blocks(t) == call[t].pc \in {"store", "release"}
BlockedInv ==
  /\ \A t \in Threads : Blocks(t) =>
       /\ call[t].child \in Children
       /\ proc[call[t].child] = "blocked" /\ kind[call[t].child] = "table"
       /\ payloads[call[t].child] = <<>>
  /\ \A t, u \in Threads : Blocks(t) /\ Blocks(u) /\ call[t].child = call[u].child => t = u
  /\ \A t \in Threads : call[t].pc = "store" =>
       \A s \in Slots : entry[s].pipe # call[t].child
  /\ \A t \in Threads : call[t].pc = "waitpid" =>
       call[t].child \in Children /\ kind[call[t].child] = "foreign"

\* The kernel's numbers: the children are forked in their order, and of two that
\* are not reaped each has its own.
PidInv ==
  /\ \E n \in 0 .. Cardinality(Children) : \A c \in Children : proc[c] # "none" <=> c <= n
  /\ \A c \in Children : proc[c] # "none" => pid[c] \in Pids
  /\ \A c, d \in Children : Alive(c) /\ Alive(d) /\ pid[c] = pid[d] => c = d
  /\ ~Reuse => \A c \in Children : proc[c] # "none" => pid[c] = c
  /\ \A t \in Threads :
       handler[t].pc \notin {"idle", "search"} => handler[t].pid \in Pids
  /\ \A c \in Children : proc[c] = "none" => payloads[c] = <<>> /\ kind[c] = "none" /\ c \notin started

\* The probe: one child, of the main thread; it is one of those that run the test
\* if and only if it says so.
Probes(t) == call[t].pc \in {"poll", "readPid", "discard"}

OnlyMainProbes ==
  \A t \in Threads : call[t].probe => t = Main /\ ffd_extra_flags = "unknown"
HasProbed ==
  \A t \in Threads : Probes(t) =>
    /\ call[t].probe
    /\ call[t].child \in Children
    /\ proc[call[t].child] \notin {"none", "blocked"}
IsProbed ==
  \A c \in Children : proc[c] = "probing" =>
    Probes(Main) /\ call[Main].child = c /\ c \notin started
AnswersCount ==
  \A t \in Threads :
    /\ call[t].pc = "poll" => efdpoll = "" /\ call[t].child \notin started
    /\ call[t].pc = "readPid" =>
         (efdpid = "PidProperlyUpdated" <=> call[t].child \in started)
    /\ call[t].pc = "discard" =>
         /\ efdpoll # "PollWorks" \/ efdpid # ""
         /\ call[t].child \notin started
NothingAsked ==
  /\ ffd_extra_flags = "unknown" /\ ~Probes(Main) => efdpoll = ""
  /\ efdpoll = "" => efdpid = ""
OpenRuns ==
  \A c \in open : c \in started \/ (\E t \in Threads : Probes(t) /\ call[t].child = c)
BlockedWaits == \A t \in Threads : Blocks(t) => call[t].child \notin started

ProbeInv ==
  /\ OnlyMainProbes /\ HasProbed /\ IsProbed /\ AnswersCount /\ NothingAsked
  /\ OpenRuns /\ BlockedWaits

IInv ==
  Types /\ HolderInv /\ EntryInv /\ BlockedInv /\ PidInv /\ ProbeInv /\ PayloadsAreOwn
---------------------------------------------------------------------------
(***************************************************************************)
(* Types.                                                                  *)
(***************************************************************************)
\* The first entry of an array, and the arrays.
LEMMA FirstSlot ==
  ASSUME NEW a \in Arrays
  PROVE  First(a) \in Slots
<1>1. BigArrays \in Nat /\ SmallArray \in Nat /\ BigArray \in Nat /\ SmallArray >= 1
      /\ BigArray >= 1 /\ a \in Int /\ 0 <= a /\ a <= BigArrays
  BY ForkFdAssumption DEF Arrays
<1>2. CASE a = 0
  <2>1. BigArrays * BigArray >= 0  BY <1>1
  <2>2. BigArrays * BigArray \in Int  BY <1>1
  <2> QED BY <1>1, <1>2, <2>1, <2>2 DEF First, Slots
<1>3. CASE a # 0
  <2> DEFINE b == a - 1
             r == BigArrays - b
  <2>1. b \in Nat /\ r \in Nat /\ r >= 1 /\ BigArrays = b + r  BY <1>1, <1>3
  <2>2. b * BigArray \in Nat /\ r * BigArray >= BigArray /\ r * BigArray \in Nat
    BY <1>1, <2>1
  <2>3. BigArrays * BigArray = b * BigArray + r * BigArray  BY <1>1, <2>1
  <2>4. First(a) = SmallArray + b * BigArray + 1  BY <1>3 DEF First
  <2> HIDE DEF b, r
  <2> QED BY <1>1, <2>2, <2>3, <2>4 DEF Slots
<1> QED BY <1>2, <1>3

\* A caller is given another frame.
LEMMA CallTypes ==
  ASSUME Types, NEW t \in Threads, NEW f \in CallFrame, f.array <= linked,
         f.pc \in {"scan", "fork", "store"} => f.slot \in Slots,
         NEW c, c = [call EXCEPT ![t] = f]
  PROVE  /\ c \in [Threads -> CallFrame]
         /\ \A u \in Threads :
              /\ c[u].array <= linked
              /\ c[u].pc \in {"scan", "fork", "store"} => c[u].slot \in Slots
<1>1. call \in [Threads -> CallFrame]  BY DEF Types
<1>2. \A u \in Threads : c[u] = IF u = t THEN f ELSE call[u]  BY <1>1
<1>3. c \in [Threads -> CallFrame]  BY <1>1
<1> QED BY <1>2, <1>3 DEF Types

\* A handler is given another frame.
LEMMA HandlerTypes ==
  ASSUME Types, NEW t \in Threads, NEW f \in HandlerFrame,
         f.pc \notin {"idle", "search"} => f.slot \in Slots,
         NEW h, h = [handler EXCEPT ![t] = f]
  PROVE  /\ h \in [Threads -> HandlerFrame]
         /\ \A u \in Threads : h[u].pc \notin {"idle", "search"} => h[u].slot \in Slots
<1>1. handler \in [Threads -> HandlerFrame]  BY DEF Types
<1>2. \A u \in Threads : h[u] = IF u = t THEN f ELSE handler[u]  BY <1>1
<1>3. h \in [Threads -> HandlerFrame]  BY <1>1
<1> QED BY <1>2, <1>3 DEF Types

LEMMA ChildNumbers ==
  /\ Cardinality(Children) \in Nat /\ Children = 1 .. Cardinality(Children)
  /\ \A c \in Children : c \in Nat /\ c # 0
<1>1. Cardinality(Children) \in Nat  BY ForkFdAssumption, FS_CardinalityType
<1> QED BY <1>1, ForkFdAssumption

LEMMA NoFrames ==
  /\ NoCall \in CallFrame /\ NoHandler \in HandlerFrame
  /\ NoCall.array = 0 /\ NoCall.pc = "idle" /\ NoHandler.pc = "idle"
BY ForkFdAssumption DEF NoCall, NoHandler, CallFrame, HandlerFrame, CallPc, HandlerPc, Arrays, Free

\* Types without the callers' frames, and without the handlers'.
DataTypes ==
  /\ proc \in [Children -> State] /\ pid \in [Children -> Pids \cup {0}]
  /\ kind \in [Children -> Kind] /\ entry \in [Slots -> Entry] /\ linked \in Arrays
  /\ payloads \in [Children -> Seq(Children)]
  /\ started \subseteq Children /\ open \subseteq Children

LEMMA CallerTypes ==
  ASSUME Types, DataTypes', linked <= linked', handler' = handler,
         NEW t \in Threads, NEW f \in CallFrame, f.array <= linked',
         f.pc \in {"scan", "fork", "store"} => f.slot \in Slots,
         call' = [call EXCEPT ![t] = f]
  PROVE  Types'
<1>1. linked \in Int /\ linked' \in Int  BY DEF Types, DataTypes, Arrays
<1>2. call \in [Threads -> CallFrame]  BY DEF Types
<1>3. \A u \in Threads : call'[u] = IF u = t THEN f ELSE call[u]  BY <1>2
<1>4. call' \in [Threads -> CallFrame]  BY <1>2
<1>5. \A u \in Threads : call[u].array <= linked /\ call[u].array \in Int
  BY <1>2 DEF Types, CallFrame, Arrays
<1>6. \A u \in Threads : call'[u].array <= linked'  BY <1>1, <1>3, <1>5
<1>7. \A u \in Threads : call'[u].pc \in {"scan", "fork", "store"} => call'[u].slot \in Slots
  BY <1>3 DEF Types
<1> QED BY <1>4, <1>6, <1>7 DEF Types, DataTypes

LEMMA SameCallTypes ==
  ASSUME Types, DataTypes', UNCHANGED <<linked, handler, call>>
  PROVE  Types'
BY DEF Types, DataTypes

LEMMA HandlersTypes ==
  ASSUME Types, DataTypes', UNCHANGED <<linked, call>>,
         NEW t \in Threads, NEW f \in HandlerFrame,
         f.pc \notin {"idle", "search"} => f.slot \in Slots,
         handler' = [handler EXCEPT ![t] = f]
  PROVE  Types'
BY HandlerTypes DEF Types, DataTypes

LEMMA DataKept ==
  ASSUME Types, UNCHANGED <<proc, pid, kind, entry, linked, payloads, started, open>>
  PROVE  DataTypes'
BY DEF Types, DataTypes

\* A caller's frame moves on.
LEMMA FrameMoves ==
  ASSUME Types, NEW t \in Threads, NEW p \in CallPc
  PROVE  /\ [call[t] EXCEPT !.pc = p] \in CallFrame
         /\ [call[t] EXCEPT !.pc = p].array <= linked
         /\ [call[t] EXCEPT !.pc = p].slot = call[t].slot
         /\ [call[t] EXCEPT !.pc = p].pc = p
         /\ [call EXCEPT ![t].pc = p] = [call EXCEPT ![t] = [call[t] EXCEPT !.pc = p]]
<1>1. call[t] \in CallFrame /\ call[t].array <= linked  BY DEF Types
<1> QED BY <1>1 DEF CallFrame

LEMMA GotoTypes ==
  ASSUME Types, NEW t \in Threads, NEW p, p \in CallPc \ {"scan", "fork", "store"} \/
           (p = "store" /\ call[t].pc = "fork") \/ (p = "fork" /\ call[t].pc = "scan"),
         Goto(t, p), linked' = linked, handler' = handler, DataTypes'
  PROVE  Types'
<1> PICK f : f = [call[t] EXCEPT !.pc = p]  OBVIOUS
<1>1. p \in CallPc  BY DEF CallPc
<1>2. /\ f \in CallFrame /\ f.array <= linked /\ f.slot = call[t].slot /\ f.pc = p
      /\ call' = [call EXCEPT ![t] = f]
  BY <1>1, FrameMoves DEF Goto
<1>3. p \in {"scan", "fork", "store"} => f.slot \in Slots
  <2>1. call[t].pc \in {"scan", "fork", "store"} => call[t].slot \in Slots
    BY Zenon DEF Types
  <2>2. p \in {"scan", "fork", "store"} => call[t].pc \in {"fork", "scan"}  OBVIOUS
  <2> QED BY <1>2, <2>1, <2>2
<1>4. linked \in Int  BY DEF Types, Arrays
<1>5. linked <= linked' /\ f.array <= linked' /\ f \in CallFrame  BY <1>2, <1>4
<1>6. f.pc \in {"scan", "fork", "store"} => f.slot \in Slots  BY <1>2, <1>3
<1>7. call' = [call EXCEPT ![t] = f]  BY <1>2
<1> HIDE DEF Goto
<1> QED BY <1>5, <1>6, <1>7, CallerTypes

\* What GiveUp() and GiveBack() do to the frame.
LEMMA GiveUpFrame ==
  ASSUME NEW t \in Threads, GiveUp(t), Types
  PROVE  \E f \in CallFrame :
           /\ call' = [call EXCEPT ![t] = f]
           /\ f.pc \in {"idle", "once"} /\ f.array = 0 /\ f.child = 0 /\ f.probe = FALSE
           /\ f.pc = "once" <=> call[t].probe
<1>1. NoCall \in CallFrame /\ NoCall.array = 0 /\ NoCall.pc = "idle"  BY NoFrames
<1>2. CASE call[t].probe
  <2> DEFINE f == [NoCall EXCEPT !.pc = "once"]
  <2>1. f \in CallFrame /\ f.array = 0 /\ f.pc = "once" /\ f.child = 0 /\ f.probe = FALSE
    BY <1>1 DEF CallFrame, NoCall, CallPc
  <2>2. call' = [call EXCEPT ![t] = f]  BY <1>2 DEF GiveUp
  <2> QED BY <1>2, <2>1, <2>2
<1>3. CASE ~call[t].probe
  <2>1. call' = [call EXCEPT ![t] = NoCall]  BY <1>3 DEF GiveUp
  <2>2. NoCall.child = 0 /\ NoCall.probe = FALSE  BY DEF NoCall
  <2>3. NoCall.pc # "once"  BY <1>1
  <2> QED BY <1>1, <1>3, <2>1, <2>2, <2>3
<1> QED BY <1>2, <1>3

LEMMA GiveBackFrame ==
  ASSUME NEW t \in Threads, NEW c \in Children, GiveBack(t, c), Types
  PROVE  \E f \in CallFrame :
           /\ call' = [call EXCEPT ![t] = f]
           /\ f.array <= linked
           /\ call[t].probe => f.pc = "poll" /\ f.child = c /\ f.probe = TRUE
           /\ ~call[t].probe => f = NoCall
<1>1. NoCall \in CallFrame /\ NoCall.array = 0 /\ NoCall.pc = "idle"  BY NoFrames
<1>2. call \in [Threads -> CallFrame] /\ linked \in Arrays  BY DEF Types
<1>3. CASE call[t].probe
  <2> DEFINE f == [call[t] EXCEPT !.pc = "poll", !.child = c]
  <2>1. /\ f \in CallFrame /\ f.array = call[t].array /\ f.pc = "poll" /\ f.child = c
    BY <1>2 DEF CallFrame, CallPc
  <2>2. f.probe = call[t].probe  BY <1>2 DEF CallFrame
  <2>3. f.probe = TRUE  BY <1>2, <1>3, <2>2 DEF CallFrame
  <2>4. f.array <= linked  BY <2>1 DEF Types
  <2>5. call' = [call EXCEPT ![t] = f]  BY <1>2, <1>3 DEF GiveBack
  <2> QED BY <1>3, <2>1, <2>3, <2>4, <2>5
<1>4. CASE ~call[t].probe
  <2>1. call' = [call EXCEPT ![t] = NoCall]  BY <1>2, <1>4 DEF GiveBack
  <2>2. NoCall.array <= linked  BY <1>1, <1>2 DEF Arrays
  <2> QED BY <1>1, <1>4, <2>1, <2>2
<1> QED BY <1>3, <1>4
---------------------------------------------------------------------------
(***************************************************************************)
(* What leaves the parts of the invariant alone.                           *)
(***************************************************************************)
LEMMA HolderKept ==
  ASSUME HolderInv, entry' = entry,
         \A u \in Threads : Fills(u)' => Fills(u) /\ call'[u].slot = call[u].slot,
         \A u \in Threads : Empties(u)' => Empties(u) /\ handler'[u].slot = handler[u].slot
  PROVE  HolderInv'
BY DEF HolderInv, FilledIsBusy, EmptiedIsBusy, OneFills, OneEmpties

\* What children that are forked keep: their kind and number, and a child of the
\* table its life.
ChildrenLive ==
  \A c \in Children : proc[c] # "none" =>
    /\ pid'[c] = pid[c] /\ kind'[c] = kind[c]
    /\ proc'[c] # "none"
    /\ kind[c] = "table" => /\ proc[c] # "reaped" => proc'[c] # "reaped"
                            /\ proc[c] = "reaped" => proc'[c] = "reaped"

LEMMA EntryKept ==
  ASSUME Types, EntryInv, entry' = entry, payloads' = payloads, ChildrenLive, HolderInv,
         \A u \in Threads : handler'[u].pc \in {"reap", "notify"} => handler'[u] = handler[u]
  PROVE  EntryInv'
<1>1. entry \in [Slots -> Entry]  BY DEF Types
<1>2. ASSUME NEW s \in Slots, entry[s].pipe # 0
      PROVE  /\ entry[s].pipe \in Children
             /\ kind'[entry[s].pipe] = "table" /\ proc'[entry[s].pipe] # "none"
             /\ Waits(entry[s].pipe) => Waits(entry[s].pipe)'
             /\ pid'[entry[s].pipe] = pid[entry[s].pipe]
             /\ proc[entry[s].pipe] = "reaped" => proc'[entry[s].pipe] = "reaped"
  <2>1. entry[s].pipe \in Children /\ kind[entry[s].pipe] = "table" /\ proc[entry[s].pipe] # "none"
    BY <1>1, <1>2 DEF Entry, EntryInv
  <2> QED BY <2>1 DEF ChildrenLive, Waits, Alive
<1>3. \A s \in Slots : entry[s].pid \notin {Free, Busy} => entry[s].pipe # 0
  BY DEF EntryInv
<1>4. ASSUME NEW u \in Threads, handler'[u].pc \in {"reap", "notify"}
      PROVE  handler'[u] = handler[u] /\ handler[u].slot \in Slots
             /\ entry[handler[u].slot].pipe # 0
  <2>1. handler'[u] = handler[u]  BY <1>4
  <2>2. handler[u].pc \in {"reap", "notify"}  BY <1>4, <2>1
  <2>3. handler[u].slot \in Slots  BY <2>2 DEF Types
  <2>4. entry[handler[u].slot].pipe # 0  BY <2>2 DEF HolderInv, EmptiedIsBusy, Empties
  <2> QED BY <2>1, <2>3, <2>4
<1>5. \A s \in Slots : entry'[s].pid # Busy => (entry'[s].pipe = 0 <=> entry'[s].pid = Free)
  BY DEF EntryInv
<1>6. \A s \in Slots : entry'[s].pipe # 0 =>
        kind'[entry'[s].pipe] = "table" /\ proc'[entry'[s].pipe] # "none"
  BY <1>2
<1>7. \A r, s \in Slots : entry'[r].pipe = entry'[s].pipe /\ entry'[s].pipe # 0 => r = s
  BY DEF EntryInv
<1>8. \A s \in Slots : entry'[s].pid \notin {Free, Busy} =>
        pid'[entry'[s].pipe] = entry'[s].pid /\ Waits(entry[s].pipe)'
  BY <1>2, <1>3 DEF EntryInv
<1>9. \A t \in Threads : handler'[t].pc = "reap" =>
        /\ pid'[entry'[handler'[t].slot].pipe] = handler'[t].pid
        /\ Waits(entry[handler[t].slot].pipe)'
  BY <1>2, <1>4 DEF EntryInv
<1>10. \A t \in Threads : handler'[t].pc = "notify" =>
        /\ handler'[t].payload = entry'[handler'[t].slot].pipe
        /\ proc'[handler'[t].payload] = "reaped" /\ payloads'[handler'[t].payload] = <<>>
  BY <1>2, <1>4 DEF EntryInv
<1> QED BY <1>5, <1>6, <1>7, <1>8, <1>9, <1>10 DEF EntryInv

LEMMA BlockedKept ==
  ASSUME BlockedInv, Types,
         \A u \in Threads : Blocks(u)' =>
           Blocks(u) /\ call'[u].child = call[u].child /\ (call'[u].pc = "store" => call[u].pc = "store"),
         \A u \in Threads : call'[u].pc = "waitpid" =>
           call[u].pc = "waitpid" /\ call'[u].child = call[u].child,
         \A u \in Threads : Blocks(u)' =>
           proc'[call[u].child] = proc[call[u].child] /\ kind'[call[u].child] = kind[call[u].child]
           /\ payloads'[call[u].child] = payloads[call[u].child],
         \A c \in Children : kind[c] = "foreign" => kind'[c] = "foreign",
         \A s \in Slots : entry'[s].pipe \in {entry[s].pipe, 0}
  PROVE  BlockedInv'
<1>1. ASSUME NEW u \in Threads, Blocks(u)'
      PROVE  /\ call'[u].child \in Children
             /\ proc'[call'[u].child] = "blocked" /\ kind'[call'[u].child] = "table"
             /\ payloads'[call'[u].child] = <<>>
  BY <1>1 DEF BlockedInv
<1>2. ASSUME NEW t \in Threads, NEW u \in Threads, Blocks(t)', Blocks(u)',
             call'[t].child = call'[u].child
      PROVE  t = u
  BY <1>2 DEF BlockedInv
<1>3. ASSUME NEW t \in Threads, call'[t].pc = "store", NEW s \in Slots
      PROVE  entry'[s].pipe # call'[t].child
  <2>1. Blocks(t)'  BY <1>3 DEF Blocks
  <2>2. call[t].pc = "store" /\ call'[t].child = call[t].child  BY <1>3, <2>1
  <2>3. call'[t].child \in Children  BY <1>1, <2>1
  <2>4. call'[t].child # 0  BY <2>3, ChildNumbers
  <2>5. entry[s].pipe # call[t].child  BY <2>2 DEF BlockedInv
  <2> QED BY <2>2, <2>4, <2>5
<1>4. ASSUME NEW t \in Threads, call'[t].pc = "waitpid"
      PROVE  call'[t].child \in Children /\ kind'[call'[t].child] = "foreign"
  BY <1>4 DEF BlockedInv
<1> QED BY <1>1, <1>2, <1>3, <1>4 DEF BlockedInv

LEMMA PidKept ==
  ASSUME PidInv, pid' = pid,
         \A c \in Children : proc'[c] = "none" <=> proc[c] = "none",
         \A c \in Children : Alive(c)' => Alive(c),
         \A u \in Threads : handler'[u].pc \notin {"idle", "search"} =>
           handler'[u].pid \in Pids,
         \A c \in Children : proc[c] = "none" => payloads'[c] = payloads[c] /\ kind'[c] = kind[c],
         \A c \in Children : proc[c] = "none" /\ c \in started' => c \in started
  PROVE  PidInv'
<1>1. PICK n \in 0 .. Cardinality(Children) : \A c \in Children : proc[c] # "none" <=> c <= n
  BY DEF PidInv
<1>2. \A c \in Children : proc'[c] # "none" <=> c <= n  BY <1>1
<1>3. \E k \in 0 .. Cardinality(Children) : \A c \in Children : proc'[c] # "none" <=> c <= k
  BY <1>2
<1>4. \A c \in Children : proc'[c] # "none" => pid'[c] \in Pids  BY DEF PidInv
<1>5. \A c, d \in Children : Alive(c)' /\ Alive(d)' /\ pid'[c] = pid'[d] => c = d
  BY DEF PidInv
<1>6. ~Reuse => \A c \in Children : proc'[c] # "none" => pid'[c] = c
  BY DEF PidInv
<1>7. \A c \in Children : proc'[c] = "none" => payloads'[c] = <<>> /\ kind'[c] = "none" /\ c \notin started'
  BY DEF PidInv
<1> QED BY <1>3, <1>4, <1>5, <1>6, <1>7 DEF PidInv

LEMMA OwnKept ==
  ASSUME PayloadsAreOwn, payloads' = payloads,
         \A c \in Children : proc[c] = "reaped" /\ kind[c] = "table" =>
           proc'[c] = "reaped" /\ kind'[c] = "table"
  PROVE  PayloadsAreOwn'
BY DEF PayloadsAreOwn

LEMMA ProbeKept ==
  ASSUME ProbeInv, Types, open' \subseteq open,
         UNCHANGED <<call, started, efdpoll, efdpid, ffd_extra_flags>>,
         \A c \in Children :
           \/ proc'[c] = proc[c]
           \/ proc[c] \notin {"none", "blocked"} /\ proc'[c] \in {"zombie", "reaped"}
  PROVE  ProbeInv'
<1>1. \A u \in Threads : Probes(u)' <=> Probes(u)  BY DEF Probes
<1>2. Probes(Main)' <=> Probes(Main)  BY DEF Probes
<1>3. \A u \in Threads : Blocks(u)' <=> Blocks(u)  BY DEF Blocks
<1>4. \A c \in Children : proc'[c] = "probing" => proc[c] = "probing"  OBVIOUS
<1>5. \A c \in Children : proc[c] \notin {"none", "blocked"} => proc'[c] \notin {"none", "blocked"}
  OBVIOUS
<1>6. /\ call' = call /\ open' \subseteq open /\ started' = started /\ efdpoll' = efdpoll
      /\ efdpid' = efdpid /\ ffd_extra_flags' = ffd_extra_flags
  OBVIOUS
<1>7. HasProbed'  BY <1>1, <1>5, <1>6 DEF ProbeInv, HasProbed
<1>8. IsProbed'  BY <1>2, <1>4, <1>6 DEF ProbeInv, IsProbed
<1>9. OpenRuns'  BY <1>1, <1>6 DEF ProbeInv, OpenRuns
<1>10. OnlyMainProbes' /\ AnswersCount'
  BY <1>6 DEF ProbeInv, OnlyMainProbes, AnswersCount
<1>11. NothingAsked'  BY <1>2, <1>6 DEF ProbeInv, NothingAsked
<1>12. BlockedWaits'  BY <1>3, <1>6 DEF ProbeInv, BlockedWaits
<1> QED BY <1>7, <1>8, <1>9, <1>10, <1>11, <1>12 DEF ProbeInv

\* A caller's frame moves that does not wait for a probe, before and after.
LEMMA ProbeMoves ==
  ASSUME ProbeInv, Types, NEW t \in Threads, NEW f \in CallFrame, call' = [call EXCEPT ![t] = f],
         ~Probes(t), f.pc \notin {"poll", "readPid", "discard"},
         f.pc \in {"store", "release"} => f.child \notin started,
         f.probe => t = Main /\ ffd_extra_flags' = "unknown",
         ffd_extra_flags' = ffd_extra_flags \/ (t = Main /\ ffd_extra_flags' # "unknown"),
         UNCHANGED <<open, started, efdpoll, efdpid>>,
         \A c \in Children : proc'[c] = "probing" => proc[c] = "probing",
         \A c \in Children : proc[c] \notin {"none", "blocked"} => proc'[c] \notin {"none", "blocked"}
  PROVE  ProbeInv'
<1>1. \A u \in Threads : call'[u] = IF u = t THEN f ELSE call[u]  BY DEF Types
<1>2. \A u \in Threads : Probes(u)' <=> Probes(u)  BY <1>1 DEF Probes
<1>3. \A u \in Threads : Probes(u) => u # t /\ call'[u] = call[u]  BY <1>1
<1>4. Main \in Threads  BY ForkFdAssumption
<1>5. OnlyMainProbes /\ HasProbed /\ IsProbed /\ AnswersCount /\ NothingAsked /\ OpenRuns
      /\ BlockedWaits
  BY DEF ProbeInv
<1>6. OnlyMainProbes'
  <2> SUFFICES ASSUME NEW u \in Threads, call'[u].probe
               PROVE  u = Main /\ ffd_extra_flags' = "unknown"
    BY DEF OnlyMainProbes
  <2>1. CASE u = t  BY <1>1, <2>1
  <2>2. CASE u # t
    <3>1. u = Main /\ ffd_extra_flags = "unknown"  BY <1>1, <1>5, <2>2 DEF OnlyMainProbes
    <3> QED BY <2>2, <3>1
  <2> QED BY <2>1, <2>2
<1>7. HasProbed'  BY <1>2, <1>3, <1>5 DEF HasProbed
<1>8. IsProbed'
  <2> SUFFICES ASSUME NEW c \in Children, proc'[c] = "probing"
               PROVE  Probes(Main)' /\ call'[Main].child = c /\ c \notin started'
    BY DEF IsProbed
  <2>1. Probes(Main) /\ call[Main].child = c /\ c \notin started  BY <1>5 DEF IsProbed
  <2> QED BY <1>2, <1>3, <1>4, <2>1
<1>9. OpenRuns'
  <2>1. \A u \in Threads : Probes(u) => Probes(u)' /\ call'[u].child = call[u].child
    BY <1>2, <1>3
  <2> QED BY <1>5, <2>1 DEF OpenRuns
<1>10. AnswersCount'
  <2>1. started' = started /\ efdpoll' = efdpoll /\ efdpid' = efdpid  OBVIOUS
  <2>2. \A u \in Threads :
         /\ call[u].pc = "poll" => efdpoll = "" /\ call[u].child \notin started
         /\ call[u].pc = "readPid" =>
              (efdpid = "PidProperlyUpdated" <=> call[u].child \in started)
         /\ call[u].pc = "discard" =>
              /\ efdpoll # "PollWorks" \/ efdpid # ""
              /\ call[u].child \notin started
    BY <1>5 DEF AnswersCount
  <2>3. ASSUME NEW u \in Threads, call'[u].pc \in {"poll", "readPid", "discard"}
        PROVE  call'[u].pc = call[u].pc /\ call'[u].child = call[u].child
    BY <1>1, <2>3
  <2>4. ASSUME NEW u \in Threads, call'[u].pc = "poll"
        PROVE  efdpoll' = "" /\ call'[u].child \notin started'
    BY <2>1, <2>2, <2>3, <2>4
  <2>5. ASSUME NEW u \in Threads, call'[u].pc = "readPid"
        PROVE  efdpid' = "PidProperlyUpdated" <=> call'[u].child \in started'
    BY <2>1, <2>2, <2>3, <2>5
  <2>6. ASSUME NEW u \in Threads, call'[u].pc = "discard"
        PROVE  /\ efdpoll' # "PollWorks" \/ efdpid' # ""
               /\ call'[u].child \notin started'
    BY <2>1, <2>2, <2>3, <2>6
  <2> QED BY <2>4, <2>5, <2>6 DEF AnswersCount
<1>11. NothingAsked'
  <2>1. ffd_extra_flags' = "unknown" => ffd_extra_flags = "unknown"  OBVIOUS
  <2> QED BY <1>2, <1>4, <1>5, <2>1 DEF NothingAsked
<1>12. BlockedWaits'
  <2> SUFFICES ASSUME NEW u \in Threads, Blocks(u)'  PROVE call'[u].child \notin started
    BY DEF BlockedWaits
  <2>1. CASE u = t  BY <1>1, <2>1 DEF Blocks
  <2>2. CASE u # t  BY <1>1, <1>5, <2>2 DEF BlockedWaits, Blocks
  <2> QED BY <2>1, <2>2
<1> QED BY <1>6, <1>7, <1>8, <1>9, <1>10, <1>11, <1>12 DEF ProbeInv

---------------------------------------------------------------------------
(***************************************************************************)
(* The caller's steps that touch neither a child nor an entry.             *)
(***************************************************************************)
QuietPc == {"idle", "once", "status", "system", "count", "scan", "undo", "next", "link", "uncount"}

LEMMA QuietCall ==
  ASSUME IInv, NEW t \in Threads, NEW f \in CallFrame, f.pc \in QuietPc,
         call' = [call EXCEPT ![t] = f],
         f.pc = "scan" => f.slot \in Slots, f.array <= linked', linked <= linked', linked' \in Arrays,
         ~Blocks(t), ~Probes(t),
         f.probe => t = Main /\ ffd_extra_flags' = "unknown",
         ffd_extra_flags' = ffd_extra_flags \/ (t = Main /\ ffd_extra_flags' # "unknown"),
         UNCHANGED <<proc, pid, kind, payloads, started, entry, handler, open, efdpoll, efdpid>>
  PROVE  IInv'
<1>1. Types /\ HolderInv /\ EntryInv /\ BlockedInv /\ PidInv /\ ProbeInv /\ PayloadsAreOwn
  BY DEF IInv
<1>2. \A u \in Threads : call'[u] = IF u = t THEN f ELSE call[u]  BY <1>1 DEF Types
<1>3. f.pc \notin {"fork", "store", "release", "poll", "readPid", "discard", "waitpid"}
  BY DEF QuietPc
<1>4. \A u \in Threads : Fills(u)' \/ Blocks(u)' \/ Probes(u)' \/ call'[u].pc = "waitpid" =>
        u # t /\ call'[u] = call[u]
  BY <1>2, <1>3 DEF Fills, Blocks, Probes
<1>5. Types'
  <2>1. DataTypes'  BY <1>1 DEF DataTypes, Types
  <2>2. f.pc \in {"scan", "fork", "store"} => f.slot \in Slots  BY <1>3
  <2> QED BY <1>1, <2>1, <2>2, CallerTypes
<1>6. HolderInv'
  <2>1. \A u \in Threads : Fills(u)' => Fills(u) /\ call'[u].slot = call[u].slot
    BY <1>4 DEF Fills
  <2>2. \A u \in Threads : Empties(u)' => Empties(u) /\ handler'[u].slot = handler[u].slot
    BY DEF Empties
  <2> QED BY <1>1, <2>1, <2>2, HolderKept
<1>7. EntryInv'
  <2>1. ChildrenLive  BY DEF ChildrenLive
  <2> QED BY <1>1, <2>1, EntryKept
<1>8. BlockedInv'
  <2>1. \A u \in Threads : Blocks(u)' =>
          Blocks(u) /\ call'[u].child = call[u].child /\ (call'[u].pc = "store" => call[u].pc = "store")
    BY <1>4 DEF Blocks
  <2>2. \A u \in Threads : call'[u].pc = "waitpid" =>
          call[u].pc = "waitpid" /\ call'[u].child = call[u].child
    BY <1>4
  <2> QED BY <1>1, <2>1, <2>2, BlockedKept
<1>9. PidInv'
  <2>1. \A u \in Threads : handler'[u].pc \notin {"idle", "search"} => handler'[u].pid \in Pids
    BY <1>1 DEF PidInv
  <2>2. \A c \in Children : Alive(c)' => Alive(c)  BY DEF Alive
  <2> QED BY <1>1, <2>1, <2>2, PidKept
<1>10. PayloadsAreOwn'  BY <1>1, OwnKept
<1>11. ProbeInv'  BY <1>1, <1>3, ProbeMoves
<1> QED BY <1>5, <1>6, <1>7, <1>8, <1>9, <1>10, <1>11 DEF IInv

\* Giving up, from a step that holds no entry.
LEMMA QuietGiveUp ==
  ASSUME IInv, NEW t \in Threads, GiveUp(t), call[t].pc \in QuietPc,
         UNCHANGED <<proc, pid, kind, payloads, started, entry, handler, open, efdpoll, efdpid,
                     linked>>
  PROVE  IInv'
<1>1. Types /\ ProbeInv  BY DEF IInv
<1>2. PICK f \in CallFrame :
        /\ call' = [call EXCEPT ![t] = f]
        /\ f.pc \in {"idle", "once"} /\ f.array = 0 /\ f.child = 0 /\ f.probe = FALSE
        /\ f.pc = "once" <=> call[t].probe
  BY <1>1, GiveUpFrame
<1>3. linked \in Arrays /\ linked \in Int /\ 0 <= linked  BY <1>1 DEF Types, Arrays
<1>4. ~Blocks(t) /\ ~Probes(t)  BY DEF Blocks, Probes, QuietPc
<1>5. call[t].probe => t = Main  BY <1>1 DEF ProbeInv, OnlyMainProbes
<1>6. ffd_extra_flags' = ffd_extra_flags \/ (t = Main /\ ffd_extra_flags' # "unknown")
  BY <1>5 DEF GiveUp
<1>7. f.pc \in QuietPc /\ f.pc # "scan"  BY <1>2 DEF QuietPc
<1>8. f.array <= linked' /\ linked <= linked' /\ linked' \in Arrays  BY <1>2, <1>3
<1>9. f.probe => t = Main /\ ffd_extra_flags' = "unknown"  BY <1>2
<1> QED BY <1>2, <1>4, <1>6, <1>7, <1>8, <1>9, QuietCall

\* Going on to a step that holds no entry, either.
LEMMA QuietFrame ==
  ASSUME IInv, NEW t \in Threads, NEW p, NEW a, NEW s, NEW f,
         f = [call[t] EXCEPT !.pc = p, !.array = a, !.slot = s],
         call' = [call EXCEPT ![t] = f],
         call[t].pc \in QuietPc, p \in QuietPc, a \in Arrays, s \in Slots \cup {0},
         a <= linked', linked <= linked', linked' \in Arrays, p = "scan" => s \in Slots,
         UNCHANGED <<proc, pid, kind, payloads, started, entry, handler, open, efdpoll, efdpid,
                     ffd_extra_flags>>
  PROVE  IInv'
<1>1. call[t] \in CallFrame /\ ProbeInv  BY DEF IInv, Types
<1>2. /\ f \in CallFrame /\ f.pc = p /\ f.array = a /\ f.slot = s
      /\ f.probe = call[t].probe
  BY <1>1 DEF CallFrame, QuietPc, CallPc
<1>3. f.probe => t = Main /\ ffd_extra_flags' = "unknown"
  BY <1>1, <1>2 DEF ProbeInv, OnlyMainProbes
<1>4. ~Blocks(t) /\ ~Probes(t)  BY DEF Blocks, Probes, QuietPc
<1> QED BY <1>2, <1>3, <1>4, QuietCall

LEMMA QuietGoto ==
  ASSUME IInv, NEW t \in Threads, NEW p \in QuietPc \ {"scan"}, Goto(t, p), call[t].pc \in QuietPc,
         UNCHANGED <<proc, pid, kind, payloads, started, entry, handler, open, efdpoll, efdpid,
                     ffd_extra_flags, linked>>
  PROVE  IInv'
<1>1. call[t] \in CallFrame /\ call \in [Threads -> CallFrame] /\ linked \in Arrays
      /\ call[t].array <= linked
  BY DEF IInv, Types
<1>2. [call[t] EXCEPT !.pc = p] = [call[t] EXCEPT !.pc = p, !.array = call[t].array, !.slot = call[t].slot]
  BY <1>1 DEF CallFrame
<1>3. call' = [call EXCEPT ![t] = [call[t] EXCEPT !.pc = p]]  BY <1>1 DEF Goto
<1>4. linked \in Int /\ call[t].array \in Arrays /\ call[t].slot \in Slots \cup {0}
  BY <1>1 DEF Arrays, CallFrame
<1>5. PICK a, s, f :
        /\ f = [call[t] EXCEPT !.pc = p, !.array = a, !.slot = s]
        /\ call' = [call EXCEPT ![t] = f]
        /\ a \in Arrays /\ s \in Slots \cup {0} /\ a <= linked
  BY <1>1, <1>2, <1>3, <1>4
<1>6. linked <= linked' /\ linked' \in Arrays /\ a <= linked'  BY <1>1, <1>4, <1>5
<1>7. p \in QuietPc /\ (p = "scan" => s \in Slots)  OBVIOUS
<1> QED BY <1>5, <1>6, <1>7, QuietFrame

LEMMA QuietSteps ==
  ASSUME IInv, NEW t \in Callers,
         \/ Call(t) \/ SystemForkfdFails(t) \/ InstallHandler(t) \/ SetStatus(t)
         \/ CountEntry(t) \/ (ScanEntry(t) /\ entry' = entry) \/ UndoCount(t) \/ NextArray(t)
         \/ LinkArray(t) \/ OutOfMemory(t) \/ UncountFailed(t)
  PROVE  IInv'
<1>1. /\ t \in Threads /\ Types /\ EntryInv /\ linked \in Arrays
      /\ linked \in Int /\ 0 <= linked /\ linked <= BigArrays /\ BigArrays \in Int
      /\ call[t] \in CallFrame /\ call[t].array <= linked /\ call \in [Threads -> CallFrame]
      /\ call[t].array \in Arrays /\ call[t].array \in Int /\ 0 <= call[t].array
      /\ call[t].slot \in Slots \cup {0}
  BY ForkFdAssumption DEF IInv, Types, CallFrame, Arrays
<1> USE DEF kernelVars, childVars, tableVars, probeVars, initVars
<1>2. CASE Call(t)
  <2>1. PICK g \in [pc : {"once", "system"}, probe : BOOLEAN] :
          /\ g.probe = (t = Main /\ ffd_extra_flags = "unknown")
          /\ call' = [call EXCEPT ![t] = [NoCall EXCEPT !.pc = g.pc, !.probe = g.probe]]
    BY <1>2 DEF Call
  <2> PICK f : f = [NoCall EXCEPT !.pc = g.pc, !.probe = g.probe]  OBVIOUS
  <2>2. f \in CallFrame /\ f.array = 0 /\ f.pc \in QuietPc /\ f.pc # "scan" /\ f.probe = g.probe
    <3>1. NoCall \in CallFrame /\ NoCall.array = 0  BY NoFrames
    <3>2. g.pc \in {"once", "system"} /\ g.probe \in BOOLEAN  BY <2>1
    <3> QED BY <3>1, <3>2 DEF CallFrame, CallPc, QuietPc
  <2>3. f.probe => t = Main /\ ffd_extra_flags = "unknown"  BY <2>1, <2>2
  <2>4. /\ ~Blocks(t) /\ ~Probes(t)
        /\ UNCHANGED <<proc, pid, kind, payloads, started, entry, handler, open, efdpoll, efdpid,
                       linked, ffd_extra_flags>>
    BY <1>2 DEF Call, Blocks, Probes
  <2>5. f.array <= linked' /\ linked <= linked' /\ linked' \in Arrays  BY <1>1, <2>2, <2>4
  <2>6. call' = [call EXCEPT ![t] = f]  BY <2>1
  <2>7. f.probe => t = Main /\ ffd_extra_flags' = "unknown"  BY <2>3, <2>4
  <2> QED BY <1>1, <2>2, <2>4, <2>5, <2>6, <2>7, QuietCall
<1>3. CASE SystemForkfdFails(t) \/ OutOfMemory(t) \/ UncountFailed(t)
  <2>1. /\ GiveUp(t) /\ call[t].pc \in QuietPc
        /\ UNCHANGED <<proc, pid, kind, payloads, started, entry, handler, open, efdpoll, efdpid,
                       linked>>
    BY <1>3 DEF SystemForkfdFails, OutOfMemory, UncountFailed, QuietPc
  <2> QED BY <1>1, <2>1, QuietGiveUp
<1>4. CASE InstallHandler(t) \/ SetStatus(t) \/ UndoCount(t)
  <2>1. PICK p : p \in {"status", "once", "next"} /\ Goto(t, p)
    BY <1>4 DEF InstallHandler, SetStatus, UndoCount
  <2>2. /\ call[t].pc \in QuietPc /\ p \in QuietPc \ {"scan"}
        /\ UNCHANGED <<proc, pid, kind, payloads, started, entry, handler, open, efdpoll, efdpid,
                       ffd_extra_flags, linked>>
    BY <1>4, <2>1 DEF InstallHandler, SetStatus, UndoCount, QuietPc
  <2> QED BY <1>1, <2>1, <2>2, QuietGoto
<1>5. CASE CountEntry(t)
  <2> PICK a : a = call[t].array  OBVIOUS
  <2>1. PICK p : /\ p \in {"scan", "undo"}
                 /\ call' = [call EXCEPT ![t].pc = p, ![t].slot = First(a)]
    BY <1>5 DEF CountEntry
  <2> PICK f : f = [call[t] EXCEPT !.pc = p, !.array = a, !.slot = First(a)]  OBVIOUS
  <2>2. call' = [call EXCEPT ![t] = f]
    <3>1. f = [call[t] EXCEPT !.pc = p, !.slot = First(a)]  BY <1>1 DEF CallFrame
    <3> QED BY <1>1, <2>1, <3>1
  <2>3. First(a) \in Slots  BY <1>1, FirstSlot
  <2>4. /\ call[t].pc \in QuietPc /\ p \in QuietPc
        /\ UNCHANGED <<proc, pid, kind, payloads, started, entry, handler, open, efdpoll, efdpid,
                       ffd_extra_flags, linked>>
    BY <1>5, <2>1 DEF CountEntry, QuietPc
  <2>5. a <= linked' /\ linked <= linked' /\ linked' \in Arrays  BY <1>1, <2>4
  <2>6. a \in Arrays /\ First(a) \in Slots \cup {0}  BY <1>1, <2>3
  <2> QED BY <1>1, <2>2, <2>3, <2>4, <2>5, <2>6, QuietFrame
<1>6. CASE ScanEntry(t) /\ entry' = entry
  <2> PICK a : a = call[t].array  OBVIOUS
  <2> PICK s : s = call[t].slot  OBVIOUS
  <2>1. s \in Slots /\ call[t].pc = "scan"  BY <1>1, <1>6 DEF ScanEntry, Types
  <2>2. entry[s].pid # Free
    <3>1. entry[s].pid = Free => entry' = [entry EXCEPT ![s].pid = Busy]
      BY <1>6 DEF ScanEntry
    <3>2. entry \in [Slots -> Entry]  BY <1>1 DEF Types
    <3>3. entry[s].pid = Free => entry'[s].pid = Busy  BY <2>1, <3>1, <3>2 DEF Entry
    <3> QED BY <1>6, <3>3 DEF Free, Busy
  <2>3. PICK p, r : /\ p \in {"scan", "undo"} /\ r \in Slots
                    /\ call' = [call EXCEPT ![t] = [call[t] EXCEPT !.pc = p, !.slot = r]]
    <3>1. CASE Array(s + 1) = Array(s) /\ s + 1 \in Slots
      <4>1. call' = [call EXCEPT ![t].slot = s + 1]  BY <1>1, <1>6, <2>2, <3>1 DEF ScanEntry
      <4>2. [call[t] EXCEPT !.pc = "scan", !.slot = s + 1] = [call[t] EXCEPT !.slot = s + 1]
        BY <1>1, <2>1 DEF CallFrame
      <4>3. call' = [call EXCEPT ![t] = [call[t] EXCEPT !.slot = s + 1]]  BY <1>1, <4>1
      <4> QED BY <3>1, <4>2, <4>3
    <3>2. CASE ~(Array(s + 1) = Array(s) /\ s + 1 \in Slots)
      <4>1. call' = [call EXCEPT ![t].pc = "undo"]  BY <1>1, <1>6, <2>2, <3>2 DEF ScanEntry
      <4>2. [call[t] EXCEPT !.pc = "undo", !.slot = s] = [call[t] EXCEPT !.pc = "undo"]
        BY <1>1, <2>1 DEF CallFrame
      <4>3. call' = [call EXCEPT ![t] = [call[t] EXCEPT !.pc = "undo"]]  BY <1>1, <4>1
      <4> QED BY <2>1, <4>2, <4>3
    <3> QED BY <3>1, <3>2
  <2> PICK f : f = [call[t] EXCEPT !.pc = p, !.array = a, !.slot = r]  OBVIOUS
  <2>4. f = [call[t] EXCEPT !.pc = p, !.slot = r]  BY <1>1 DEF CallFrame
  <2>5. /\ call[t].pc \in QuietPc /\ p \in QuietPc
        /\ UNCHANGED <<proc, pid, kind, payloads, started, entry, handler, open, efdpoll, efdpid,
                       ffd_extra_flags, linked>>
    BY <1>6, <2>1, <2>3 DEF ScanEntry, QuietPc
  <2>6. a <= linked' /\ linked <= linked' /\ linked' \in Arrays  BY <1>1, <2>5
  <2>7. call' = [call EXCEPT ![t] = f]  BY <2>3, <2>4
  <2>8. a \in Arrays /\ r \in Slots \cup {0} /\ (p = "scan" => r \in Slots)  BY <1>1, <2>3
  <2>9. t \in Threads  BY <1>1
  <2> QED BY <2>5, <2>6, <2>7, <2>8, <2>9, QuietFrame
<1>7. CASE NextArray(t) \/ LinkArray(t)
  <2> PICK a : a = call[t].array  OBVIOUS
  <2>1. /\ call[t].pc \in QuietPc
        /\ UNCHANGED <<proc, pid, kind, payloads, started, entry, handler, open, efdpoll, efdpid,
                       ffd_extra_flags>>
        /\ linked' \in {linked, linked + 1}
    BY <1>7 DEF NextArray, LinkArray, QuietPc
  <2>2. CASE Goto(t, "link") /\ linked' = linked
    <3>1. "link" \in QuietPc \ {"scan"}  BY DEF QuietPc
    <3> QED BY <1>1, <2>1, <2>2, <3>1, QuietGoto
  <2>3. CASE /\ call' = [call EXCEPT ![t].pc = "count", ![t].array = a + 1]
             /\ a + 1 <= linked' /\ linked' \in Arrays
    <3> PICK s : s = call[t].slot  OBVIOUS
    <3> PICK f : f = [call[t] EXCEPT !.pc = "count", !.array = a + 1, !.slot = s]  OBVIOUS
    <3>1. f = [call[t] EXCEPT !.pc = "count", !.array = a + 1]  BY <1>1 DEF CallFrame
    <3>2. call' = [call EXCEPT ![t] = f]  BY <1>1, <2>3, <3>1
    <3>3. a + 1 \in Arrays /\ linked <= linked'  BY <1>1, <2>1, <2>3 DEF Arrays
    <3>4. "count" \in QuietPc  BY DEF QuietPc
    <3>5. s \in Slots \cup {0} /\ t \in Threads  BY <1>1
    <3>6. a + 1 <= linked' /\ linked' \in Arrays  BY <2>3
    <3>7. "count" = "scan" => s \in Slots  OBVIOUS
    <3> PICK b : b = a + 1  OBVIOUS
    <3>8. f = [call[t] EXCEPT !.pc = "count", !.array = b, !.slot = s] /\ b \in Arrays /\ b <= linked'
      BY <3>3, <3>6
    <3> QED BY <2>1, <3>2, <3>3, <3>4, <3>5, <3>6, <3>7, <3>8, QuietFrame
  <2>4. CASE NextArray(t)
    <3>1. CASE a < linked
      <4>1. call' = [call EXCEPT ![t].pc = "count", ![t].array = a + 1] /\ linked' = linked
        BY <1>1, <2>4, <3>1 DEF NextArray
      <4>2. a + 1 <= linked' /\ linked' \in Arrays  BY <1>1, <3>1, <4>1
      <4> QED BY <2>3, <4>1, <4>2
    <3>2. CASE ~(a < linked)
      BY <2>2, <2>4, <3>2 DEF NextArray
    <3> QED BY <3>1, <3>2
  <2>5. CASE LinkArray(t)
    <3>1. /\ call' = [call EXCEPT ![t].pc = "count", ![t].array = a + 1] /\ a < BigArrays
          /\ linked' = IF linked = a THEN linked + 1 ELSE linked
      BY <1>1, <2>5 DEF LinkArray
    <3>2. a + 1 <= linked' /\ linked' \in Arrays  BY <1>1, <3>1 DEF Arrays
    <3> QED BY <2>3, <3>1, <3>2
  <2> QED BY <1>7, <2>4, <2>5
<1> QED BY <1>2, <1>3, <1>4, <1>5, <1>6, <1>7

---------------------------------------------------------------------------
(***************************************************************************)
(* The handler's steps that touch neither a child nor an entry.            *)
(***************************************************************************)
\* Frames of a handler that holds no entry.
QuietHandlerFrame ==
  {f \in HandlerFrame : /\ f.pc \notin {"reap", "notify", "free"}
                        /\ f.pc \notin {"idle", "search"} => f.slot \in Slots /\ f.pid \in Pids}

LEMMA QuietHandler ==
  ASSUME IInv, NEW t \in Threads, NEW f \in QuietHandlerFrame,
         handler' = [handler EXCEPT ![t] = f],
         UNCHANGED <<proc, payloads, entry, otherVars>>
  PROVE  IInv'
<1>1. Types /\ HolderInv /\ EntryInv /\ BlockedInv /\ PidInv /\ ProbeInv /\ PayloadsAreOwn
  BY DEF IInv
<1>2. UNCHANGED <<pid, kind, started, linked, efdpoll, efdpid, ffd_extra_flags, call, open>>
  BY DEF otherVars, probeVars
<1>3. /\ f \in HandlerFrame /\ f.pc \notin {"reap", "notify", "free"}
      /\ f.pc \notin {"idle", "search"} => f.slot \in Slots /\ f.pid \in Pids
  BY DEF QuietHandlerFrame
<1>4. \A u \in Threads : handler'[u] = IF u = t THEN f ELSE handler[u]  BY <1>1 DEF Types
<1>5. \A u \in Threads : handler'[u].pc \in {"reap", "notify", "free"} => handler'[u] = handler[u]
  BY <1>3, <1>4
<1>6. Types'
  <2>1. DataTypes'  BY <1>1, <1>2 DEF DataTypes, Types
  <2> QED BY <1>1, <1>2, <1>3, <2>1, HandlersTypes
<1>7. HolderInv'
  <2>1. \A u \in Threads : Fills(u)' => Fills(u) /\ call'[u].slot = call[u].slot
    BY <1>2 DEF Fills
  <2>2. \A u \in Threads : Empties(u)' => Empties(u) /\ handler'[u].slot = handler[u].slot
    BY <1>5 DEF Empties
  <2> QED BY <1>1, <2>1, <2>2, HolderKept
<1>8. EntryInv'
  <2>1. ChildrenLive  BY <1>2 DEF ChildrenLive
  <2> QED BY <1>1, <1>5, <2>1, EntryKept
<1>9. BlockedInv'
  <2>1. \A u \in Threads : Blocks(u)' =>
          Blocks(u) /\ call'[u].child = call[u].child /\ (call'[u].pc = "store" => call[u].pc = "store")
    BY <1>2 DEF Blocks
  <2> QED BY <1>1, <1>2, <2>1, BlockedKept
<1>10. PidInv'
  <2>1. \A u \in Threads : handler'[u].pc \notin {"idle", "search"} => handler'[u].pid \in Pids
    BY <1>1, <1>3, <1>4 DEF PidInv
  <2>2. \A c \in Children : Alive(c)' => Alive(c)  BY DEF Alive
  <2> QED BY <1>1, <1>2, <2>1, <2>2, PidKept
<1>11. PayloadsAreOwn'  BY <1>1, <1>2, OwnKept
<1>12. ProbeInv'  BY <1>1, <1>2, ProbeKept
<1> QED BY <1>6, <1>7, <1>8, <1>9, <1>10, <1>11, <1>12 DEF IInv

LEMMA FirstEntry == 1 \in Slots
<1>1. SmallArray >= 1 /\ SmallArray \in Int /\ BigArrays * BigArray >= 0 /\ BigArrays * BigArray \in Int
  BY ForkFdAssumption
<1> QED BY <1>1 DEF Slots

LEMMA NextEntryQuiet ==
  ASSUME NEW f \in HandlerFrame, f.slot \in Slots, f.pid \in Pids
  PROVE  NextEntry(f) \in QuietHandlerFrame
<1>1. NoHandler \in HandlerFrame /\ NoHandler.pc = "idle"  BY NoFrames
<1>2. CASE After(f.slot) # 0
  <2>1. After(f.slot) \in Slots  BY <1>2 DEF After
  <2> PICK p : p = IF f.loop = 1 THEN "match" ELSE "load"  OBVIOUS
  <2>2. NextEntry(f) = [f EXCEPT !.pc = p, !.slot = After(f.slot)]  BY <1>2 DEF NextEntry
  <2> QED BY <2>1, <2>2 DEF HandlerFrame, HandlerPc, QuietHandlerFrame
<1>3. CASE After(f.slot) = 0
  <2>1. CASE f.loop = 1
    <3>1. NextEntry(f) = [f EXCEPT !.pc = "load", !.slot = 1, !.loop = 2]
      BY <1>3, <2>1 DEF NextEntry
    <3> QED BY <3>1, FirstEntry DEF HandlerFrame, HandlerPc, QuietHandlerFrame
  <2>2. CASE f.loop # 1
    <3>1. NextEntry(f) = NoHandler  BY <1>3, <2>2 DEF NextEntry
    <3> QED BY <1>1, <3>1 DEF QuietHandlerFrame
  <2> QED BY <2>1, <2>2
<1> QED BY <1>2, <1>3

LEMMA ResumeQuiet ==
  ASSUME NEW f \in HandlerFrame, f.slot \in Slots, f.pid \in Pids
  PROVE  Resume(f) \in QuietHandlerFrame
<1>1. [NoHandler EXCEPT !.pc = "search"] \in QuietHandlerFrame
  BY NoFrames DEF HandlerFrame, HandlerPc, QuietHandlerFrame
<1> QED BY <1>1, NextEntryQuiet DEF Resume

LEMMA QuietHandlerSteps ==
  ASSUME IInv, NEW t \in Threads,
         \/ Deliver(t) \/ WaitidAll(t) \/ (MatchEntry(t) /\ entry' = entry) \/ LoadEntry(t)
         \/ IsChildReady(t) \/ (TakeEntry(t) /\ entry' = entry)
         \/ (TryReaping(t) /\ Zombie(handler[t].pid) = {}) \/ Uncount(t)
  PROVE  IInv'
<1> PICK f : f = handler[t]  OBVIOUS
<1>1. /\ Types /\ handler \in [Threads -> HandlerFrame] /\ entry \in [Slots -> Entry]
      /\ f \in HandlerFrame
      /\ f.pc \notin {"idle", "search"} => f.slot \in Slots /\ f.pid \in Pids
  BY DEF IInv, Types, PidInv
<1>2. ASSUME NEW g \in QuietHandlerFrame, handler' = [handler EXCEPT ![t] = g],
             UNCHANGED <<proc, payloads, entry, otherVars>>
      PROVE  IInv'
  BY <1>2, QuietHandler
<1>3. CASE Deliver(t)
  <2>1. UNCHANGED <<proc, payloads, entry, otherVars>> /\ f.pc = "idle"
    BY <1>3 DEF Deliver, InHandler
  <2>2. CASE handler' = handler
    <3>1. handler' = [handler EXCEPT ![t] = f]  BY <1>1, <2>2
    <3>2. f \in QuietHandlerFrame  BY <1>1, <2>1 DEF QuietHandlerFrame
    <3> QED BY <1>2, <2>1, <3>1, <3>2
  <2>3. CASE handler' = [handler EXCEPT ![t].pc = "search"]
    <3>1. [f EXCEPT !.pc = "search"] \in QuietHandlerFrame
      BY <1>1 DEF HandlerFrame, HandlerPc, QuietHandlerFrame
    <3>2. handler' = [handler EXCEPT ![t] = [f EXCEPT !.pc = "search"]]  BY <1>1, <2>3
    <3> QED BY <1>2, <2>1, <3>1, <3>2
  <2> QED BY <1>3, <2>2, <2>3 DEF Deliver
<1>4. CASE WaitidAll(t)
  <2>1. UNCHANGED <<proc, payloads, entry, otherVars>>  BY <1>4 DEF WaitidAll
  <2>2. CASE handler' = [handler EXCEPT ![t] = NoHandler]
    <3>1. NoHandler \in QuietHandlerFrame  BY NoFrames DEF QuietHandlerFrame
    <3> QED BY <1>2, <2>1, <2>2, <3>1
  <2>3. CASE handler' # [handler EXCEPT ![t] = NoHandler]
    <3>1. PICK c \in Children :
            /\ proc[c] = "zombie"
            /\ handler' = [handler EXCEPT ![t] =
                              [NoHandler EXCEPT !.pc = "match", !.pid = pid[c], !.slot = 1]]
      BY <1>4, <2>3 DEF WaitidAll
    <3>2. pid[c] \in Pids  BY <3>1 DEF IInv, PidInv
    <3>3. [NoHandler EXCEPT !.pc = "match", !.pid = pid[c], !.slot = 1] \in QuietHandlerFrame
      BY <3>2, NoFrames, FirstEntry DEF HandlerFrame, HandlerPc, QuietHandlerFrame
    <3> QED BY <1>2, <2>1, <3>1, <3>3
  <2> QED BY <2>2, <2>3
<1>5. CASE (MatchEntry(t) \/ TakeEntry(t)) /\ entry' = entry
  <2>1. UNCHANGED <<proc, payloads, entry, otherVars>> /\ f.pc \in {"match", "take"}
    BY <1>5 DEF MatchEntry, TakeEntry, InHandler
  <2>2. f.slot \in Slots /\ f.pid \in Pids  BY <1>1, <2>1
  <2>3. entry[f.slot].pid # f.pid
    <3>1. entry[f.slot].pid = f.pid => entry' = [entry EXCEPT ![f.slot].pid = Busy]
      BY <1>5 DEF MatchEntry, TakeEntry
    <3>2. entry[f.slot].pid = f.pid => entry'[f.slot].pid = Busy
      BY <1>1, <2>2, <3>1 DEF Entry
    <3>3. Busy \notin Pids  BY ForkFdAssumption DEF Busy
    <3> QED BY <1>5, <2>2, <3>2, <3>3
  <2>4. handler' = [handler EXCEPT ![t] = NextEntry(f)]
    BY <1>1, <1>5, <2>3 DEF MatchEntry, TakeEntry
  <2> QED BY <1>1, <1>2, <2>1, <2>2, <2>4, NextEntryQuiet
<1>6. CASE LoadEntry(t)
  <2>1. UNCHANGED <<proc, payloads, entry, otherVars>> /\ f.pc = "load"
    BY <1>6 DEF LoadEntry, InHandler
  <2>2. f.slot \in Slots /\ f.pid \in Pids  BY <1>1, <2>1
  <2> PICK p : p = entry[f.slot].pid  OBVIOUS
  <2>3. CASE p \in {Free, Busy}
    <3>1. handler' = [handler EXCEPT ![t] = NextEntry(f)]
      BY <1>1, <1>6, <2>3 DEF LoadEntry
    <3> QED BY <1>1, <1>2, <2>1, <2>2, <3>1, NextEntryQuiet
  <2>4. CASE p \notin {Free, Busy}
    <3>1. handler' = [handler EXCEPT ![t] = [f EXCEPT !.pc = "ready", !.pid = p]]
      BY <1>1, <1>6, <2>4 DEF LoadEntry
    <3>2. p \in Pids  BY <1>1, <2>2, <2>4 DEF Entry
    <3>3. [f EXCEPT !.pc = "ready", !.pid = p] \in QuietHandlerFrame
      BY <1>1, <2>2, <3>2 DEF HandlerFrame, HandlerPc, QuietHandlerFrame
    <3> QED BY <1>2, <2>1, <3>1, <3>3
  <2> QED BY <2>3, <2>4
<1>7. CASE IsChildReady(t)
  <2>1. UNCHANGED <<proc, payloads, entry, otherVars>> /\ f.pc = "ready"
    BY <1>7 DEF IsChildReady, InHandler
  <2>2. f.slot \in Slots /\ f.pid \in Pids  BY <1>1, <2>1
  <2>3. CASE Zombie(f.pid) = {}
    <3>1. handler' = [handler EXCEPT ![t] = NextEntry(f)]
      BY <1>1, <1>7, <2>3 DEF IsChildReady
    <3> QED BY <1>1, <1>2, <2>1, <2>2, <3>1, NextEntryQuiet
  <2>4. CASE Zombie(f.pid) # {}
    <3>1. handler' = [handler EXCEPT ![t] = [f EXCEPT !.pc = "take"]]
      BY <1>1, <1>7, <2>4 DEF IsChildReady
    <3>2. [f EXCEPT !.pc = "take"] \in QuietHandlerFrame
      BY <1>1, <2>2 DEF HandlerFrame, HandlerPc, QuietHandlerFrame
    <3> QED BY <1>2, <2>1, <3>1, <3>2
  <2> QED BY <2>3, <2>4
<1>8. CASE TryReaping(t) /\ Zombie(handler[t].pid) = {}
  <2>1. f.slot \in Slots /\ f.pid \in Pids  BY <1>1, <1>8 DEF TryReaping, InHandler
  <2>2. proc' = [c \in Children |-> proc[c]]
    BY <1>8 DEF TryReaping
  <2>3. proc' = proc  BY <1>1, <2>2 DEF Types
  <2>4. handler' = [handler EXCEPT ![t] = Resume(f)] /\ UNCHANGED <<payloads, entry, otherVars>>
    BY <1>1, <1>8 DEF TryReaping
  <2> QED BY <1>1, <1>2, <2>1, <2>3, <2>4, ResumeQuiet
<1>9. CASE Uncount(t)
  <2>1. f.slot \in Slots /\ f.pid \in Pids  BY <1>1, <1>9 DEF Uncount, InHandler
  <2>2. /\ handler' = [handler EXCEPT ![t] = Resume(f)]
        /\ UNCHANGED <<proc, payloads, entry, otherVars>>
    BY <1>1, <1>9 DEF Uncount
  <2> QED BY <1>1, <1>2, <2>1, <2>2, ResumeQuiet
<1> QED BY <1>3, <1>4, <1>5, <1>6, <1>7, <1>8, <1>9

---------------------------------------------------------------------------
(***************************************************************************)
(* Steps at an entry.                                                      *)
(***************************************************************************)
\* What e must be to be written to entry s, and the handlers then.
EntryFits(s, e) ==
  /\ e.pid # Busy => (e.pipe = 0 <=> e.pid = Free)
  /\ e.pipe # 0 /\ e.pipe # entry[s].pipe =>
       /\ kind[e.pipe] = "table" /\ proc[e.pipe] # "none"
       /\ \A r \in Slots : entry[r].pipe # e.pipe
  /\ e.pid \notin {Free, Busy} => pid[e.pipe] = e.pid /\ Waits(e.pipe)
HandlersFit(s, e) ==
  \A u \in Threads : handler'[u].pc \in {"reap", "notify"} =>
    \/ handler'[u] = handler[u] /\ handler[u].slot # s
    \/ /\ handler'[u].pc = "reap" /\ handler'[u].slot = s
       /\ pid[e.pipe] = handler'[u].pid /\ Waits(e.pipe)

LEMMA EntryWritten ==
  ASSUME Types, HolderInv, EntryInv, UNCHANGED <<proc, pid, kind, payloads>>,
         NEW s \in Slots, NEW e \in Entry, entry' = [entry EXCEPT ![s] = e],
         EntryFits(s, e), HandlersFit(s, e)
  PROVE  EntryInv'
<1> USE DEF EntryFits, HandlersFit
<1>1. entry \in [Slots -> Entry]  BY DEF Types
<1>2. \A r \in Slots : entry'[r] = IF r = s THEN e ELSE entry[r]  BY <1>1
<1>3. \A c : Waits(c)' <=> Waits(c)  BY DEF Waits, Alive
<1>4. \A r \in Slots : entry'[r].pid # Busy => (entry'[r].pipe = 0 <=> entry'[r].pid = Free)
  BY <1>2 DEF EntryInv
<1>5. \A r \in Slots : entry'[r].pipe # 0 =>
        kind'[entry'[r].pipe] = "table" /\ proc'[entry'[r].pipe] # "none"
  BY <1>2 DEF EntryInv
<1>6. \A q, r \in Slots : entry'[q].pipe = entry'[r].pipe /\ entry'[r].pipe # 0 => q = r
  <2> SUFFICES ASSUME NEW q \in Slots, NEW r \in Slots, entry'[q].pipe = entry'[r].pipe,
                      entry'[r].pipe # 0, q # r
               PROVE  FALSE
    OBVIOUS
  <2>1. \A x, y \in Slots : entry[x].pipe = entry[y].pipe /\ entry[y].pipe # 0 => x = y
    BY DEF EntryInv
  <2>2. CASE q # s /\ r # s  BY <1>2, <2>1, <2>2
  <2>3. CASE q = s  BY <1>2, <2>1, <2>3
  <2>4. CASE r = s  BY <1>2, <2>1, <2>4
  <2> QED BY <2>2, <2>3, <2>4
<1>7. \A r \in Slots : entry'[r].pid \notin {Free, Busy} =>
        pid'[entry'[r].pipe] = entry'[r].pid /\ Waits(entry'[r].pipe)
  BY <1>2 DEF EntryInv
<1>8. ASSUME NEW u \in Threads, handler'[u].pc = "reap"
      PROVE  /\ pid'[entry'[handler'[u].slot].pipe] = handler'[u].pid
             /\ Waits(entry'[handler'[u].slot].pipe)
  <2>1. CASE handler'[u] = handler[u] /\ handler[u].slot # s
    <3>1. handler[u].pc = "reap" /\ handler[u].slot \in Slots  BY <1>8, <2>1 DEF Types
    <3>2. entry'[handler[u].slot] = entry[handler[u].slot]  BY <1>2, <2>1, <3>1
    <3>3. pid[entry[handler[u].slot].pipe] = handler[u].pid /\ Waits(entry[handler[u].slot].pipe)
      BY <3>1 DEF EntryInv
    <3> QED BY <2>1, <3>2, <3>3
  <2>2. CASE handler'[u].slot = s /\ pid[e.pipe] = handler'[u].pid /\ Waits(e.pipe)
    BY <1>2, <2>2
  <2> QED BY <1>8, <2>1, <2>2
<1>9. ASSUME NEW u \in Threads, handler'[u].pc = "notify"
      PROVE  /\ handler'[u].payload = entry'[handler'[u].slot].pipe
             /\ proc'[handler'[u].payload] = "reaped" /\ payloads'[handler'[u].payload] = <<>>
  <2>1. handler'[u] = handler[u] /\ handler[u].slot # s  BY <1>9
  <2>2. handler[u].pc = "notify" /\ handler[u].slot \in Slots  BY <1>9, <2>1 DEF Types
  <2>3. entry'[handler[u].slot] = entry[handler[u].slot]  BY <1>2, <2>1, <2>2
  <2> QED BY <2>1, <2>2, <2>3 DEF EntryInv
<1>10. /\ \A r \in Slots : entry'[r].pid \notin {Free, Busy} =>
            pid'[entry'[r].pipe] = entry'[r].pid /\ Waits(entry[r].pipe)'
       /\ \A u \in Threads : handler'[u].pc = "reap" =>
            /\ pid'[entry'[handler'[u].slot].pipe] = handler'[u].pid
            /\ Waits(entry[handler[u].slot].pipe)'
  BY <1>3, <1>7, <1>8 DEF Waits, Alive
<1> QED BY <1>4, <1>5, <1>6, <1>9, <1>10 DEF EntryInv

\* A handler makes an entry busy.
LEMMA TakeStep ==
  ASSUME IInv, NEW t \in Threads, MatchEntry(t) \/ TakeEntry(t), entry' # entry
  PROVE  IInv'
<1> PICK f : f = handler[t]  OBVIOUS
<1> PICK s : s = f.slot  OBVIOUS
<1>1. /\ Types /\ HolderInv /\ EntryInv /\ BlockedInv /\ PidInv /\ ProbeInv /\ PayloadsAreOwn
      /\ handler \in [Threads -> HandlerFrame] /\ entry \in [Slots -> Entry] /\ f \in HandlerFrame
      /\ f.pc \notin {"idle", "search"} => s \in Slots /\ f.pid \in Pids
  BY DEF IInv, Types, PidInv
<1>2. /\ UNCHANGED <<proc, payloads, otherVars>> /\ f.pc \in {"match", "take"}
      /\ UNCHANGED <<pid, kind, started, linked, efdpoll, efdpid, ffd_extra_flags, call, open>>
  BY DEF MatchEntry, TakeEntry, InHandler, otherVars, probeVars
<1>3. s \in Slots /\ f.pid \in Pids  BY <1>1, <1>2
<1>4. entry[s].pid = f.pid /\ entry' = [entry EXCEPT ![s].pid = Busy]
      /\ handler' = [handler EXCEPT ![t] = [f EXCEPT !.pc = "reap"]]
  BY <1>1 DEF MatchEntry, TakeEntry
<1> PICK e : e = [pid |-> Busy, pipe |-> entry[s].pipe]  OBVIOUS
<1> PICK g : g = [f EXCEPT !.pc = "reap"]  OBVIOUS
<1>5. e \in Entry /\ entry' = [entry EXCEPT ![s] = e]
      /\ \A r \in Slots : entry'[r] = IF r = s THEN e ELSE entry[r]
  <2>1. entry[s] \in Entry  BY <1>1, <1>3
  <2>2. e = [entry[s] EXCEPT !.pid = Busy]  BY <2>1 DEF Entry
  <2>3. entry' = [entry EXCEPT ![s] = e]  BY <1>1, <1>3, <1>4, <2>2
  <2>4. e \in Entry  BY <2>1 DEF Entry
  <2> QED BY <1>1, <2>3, <2>4
<1>6. g \in HandlerFrame /\ g.pc = "reap" /\ g.slot = s /\ g.pid = f.pid
      /\ \A u \in Threads : handler'[u] = IF u = t THEN g ELSE handler[u]
  BY <1>1, <1>4 DEF HandlerFrame, HandlerPc
<1>7. f.pid \notin {Free, Busy} /\ entry[s].pipe # 0
      /\ pid[entry[s].pipe] = f.pid /\ Waits(entry[s].pipe)
  <2>1. f.pid \notin {Free, Busy}  BY <1>3, ForkFdAssumption DEF Free, Busy
  <2> QED BY <1>1, <1>3, <1>4, <2>1 DEF EntryInv
<1>8. \A u \in Threads : Empties(u) => handler[u].slot # s
  BY <1>1, <1>4, <1>7 DEF HolderInv, EmptiedIsBusy
<1>9. \A u \in Threads : Fills(u) => call[u].slot # s
  BY <1>1, <1>4, <1>7 DEF HolderInv, FilledIsBusy
<1>10. Types'
  <2>1. DataTypes'  BY <1>1, <1>2, <1>5 DEF DataTypes, Types
  <2>2. handler' = [handler EXCEPT ![t] = g]  BY <1>4
  <2> QED BY <1>1, <1>2, <1>3, <1>6, <2>1, <2>2, HandlersTypes
<1>11. HolderInv'
  <2>1. \A u \in Threads : Fills(u)' => Fills(u) /\ call'[u].slot = call[u].slot
          /\ call[u].slot \in Slots
    BY <1>1, <1>2 DEF Fills, Types
  <2>2. \A u \in Threads : Empties(u)' =>
          u = t \/ (Empties(u) /\ handler'[u] = handler[u] /\ handler[u].slot \in Slots)
    BY <1>1, <1>6 DEF Empties, Types
  <2>3. FilledIsBusy'
    <3>1. ASSUME NEW u \in Threads, Fills(u)'
          PROVE  entry'[call'[u].slot] = [pid |-> Busy, pipe |-> 0]
      <4>1. entry'[call[u].slot] = entry[call[u].slot]  BY <1>5, <1>9, <2>1, <3>1
      <4> QED BY <1>1, <2>1, <3>1, <4>1 DEF HolderInv, FilledIsBusy
    <3> QED BY <3>1 DEF FilledIsBusy
  <2>4. EmptiedIsBusy'
    <3>1. ASSUME NEW u \in Threads, Empties(u)'
          PROVE  entry'[handler'[u].slot].pid = Busy /\ entry'[handler'[u].slot].pipe # 0
      <4>1. CASE u = t
        <5>1. handler'[u].slot = s  BY <1>6, <4>1
        <5>2. entry'[s] = e  BY <1>3, <1>5
        <5>3. e.pid = Busy /\ e.pipe = entry[s].pipe  OBVIOUS
        <5>4. e.pipe # 0  BY <1>7, <5>3
        <5> QED BY <5>1, <5>2, <5>3, <5>4
      <4>2. CASE u # t
        <5>1. entry'[handler[u].slot] = entry[handler[u].slot]  BY <1>5, <1>8, <2>2, <3>1, <4>2
        <5> QED BY <1>1, <2>2, <3>1, <4>2, <5>1 DEF HolderInv, EmptiedIsBusy
      <4> QED BY <4>1, <4>2
    <3> QED BY <3>1 DEF EmptiedIsBusy
  <2>5. OneFills'
    <3>1. call' = call /\ OneFills  BY <1>1, <1>2 DEF HolderInv
    <3> QED BY <3>1 DEF OneFills, Fills
  <2>6. OneEmpties'
    <3>1. ASSUME NEW u \in Threads, NEW v \in Threads, Empties(u)', Empties(v)',
                 handler'[u].slot = handler'[v].slot, u # v
          PROVE  FALSE
      <4>1. handler'[t].slot = s  BY <1>6
      <4>2. CASE u = t  BY <1>8, <2>2, <3>1, <4>1, <4>2
      <4>3. CASE v = t  BY <1>8, <2>2, <3>1, <4>1, <4>3
      <4>4. CASE u # t /\ v # t
        <5>1. Empties(u) /\ Empties(v) /\ handler[u].slot = handler[v].slot  BY <2>2, <3>1, <4>4
        <5> QED BY <1>1, <3>1, <5>1 DEF HolderInv, OneEmpties
      <4> QED BY <4>2, <4>3, <4>4
    <3> QED BY <3>1 DEF OneEmpties
  <2> QED BY <2>3, <2>4, <2>5, <2>6 DEF HolderInv
<1>12. EntryInv'
  <2>1. ASSUME NEW u \in Threads, handler'[u].pc \in {"reap", "notify"}
        PROVE  \/ handler'[u] = handler[u] /\ handler[u].slot # s
               \/ /\ handler'[u].pc = "reap" /\ handler'[u].slot = s
                  /\ pid[e.pipe] = handler'[u].pid /\ Waits(e.pipe)
    <3>1. CASE u = t  BY <1>6, <1>7, <3>1
    <3>2. CASE u # t
      <4>1. handler'[u] = handler[u] /\ Empties(u)  BY <1>6, <2>1, <3>2 DEF Empties
      <4> QED BY <1>8, <4>1
    <3> QED BY <3>1, <3>2
  <2>2. e.pid = Busy /\ e.pipe = entry[s].pipe  OBVIOUS
  <2>3. UNCHANGED <<proc, pid, kind, payloads>>  BY <1>2
  <2>4. e.pid = Busy /\ e \in Entry /\ entry' = [entry EXCEPT ![s] = e]  BY <1>5
  <2>5. Types /\ HolderInv /\ EntryInv /\ s \in Slots  BY <1>1, <1>3
  <2>6. EntryFits(s, e)  BY <2>2, <2>4 DEF EntryFits
  <2>7. HandlersFit(s, e)  BY <2>1 DEF HandlersFit
  <2> QED BY <2>3, <2>4, <2>5, <2>6, <2>7, EntryWritten
<1>13. BlockedInv'
  <2>1. \A u \in Threads : Blocks(u)' =>
          Blocks(u) /\ call'[u].child = call[u].child /\ (call'[u].pc = "store" => call[u].pc = "store")
    BY <1>2 DEF Blocks
  <2>2. \A r \in Slots : entry'[r].pipe \in {entry[r].pipe, 0}  BY <1>5
  <2> QED BY <1>1, <1>2, <2>1, <2>2, BlockedKept
<1>14. PidInv'
  <2>1. \A u \in Threads : handler'[u].pc \notin {"idle", "search"} => handler'[u].pid \in Pids
    BY <1>1, <1>3, <1>6 DEF PidInv
  <2>2. \A c \in Children : Alive(c)' => Alive(c)  BY <1>2 DEF Alive
  <2> QED BY <1>1, <1>2, <2>1, <2>2, PidKept
<1>15. PayloadsAreOwn'  BY <1>1, <1>2, OwnKept
<1>16. ProbeInv'  BY <1>1, <1>2, ProbeKept
<1> QED BY <1>10, <1>11, <1>12, <1>13, <1>14, <1>15, <1>16 DEF IInv

\* Nobody works any more at the entry that is written.
LEMMA HolderLeaves ==
  ASSUME Types, HolderInv, NEW s \in Slots, NEW e \in Entry, entry' = [entry EXCEPT ![s] = e],
         \A u \in Threads : Fills(u)' =>
           Fills(u) /\ call'[u].slot = call[u].slot /\ call[u].slot # s,
         \A u \in Threads : Empties(u)' =>
           Empties(u) /\ handler'[u].slot = handler[u].slot /\ handler[u].slot # s
  PROVE  HolderInv'
<1>1. \A r \in Slots : r # s => entry'[r] = entry[r]  BY DEF Types
<1>2. \A u \in Threads : Fills(u) => call[u].slot \in Slots  BY DEF Types, Fills
<1>3. \A u \in Threads : Empties(u) => handler[u].slot \in Slots  BY DEF Types, Empties
<1>4. \A u \in Threads : Fills(u)' => entry'[call'[u].slot] = entry[call[u].slot]  BY <1>1, <1>2
<1>5. \A u \in Threads : Empties(u)' => entry'[handler'[u].slot] = entry[handler[u].slot]
  BY <1>1, <1>3
<1>6. FilledIsBusy'
  <2>1. FilledIsBusy  BY DEF HolderInv
  <2> QED BY <1>4, <2>1 DEF FilledIsBusy
<1>7. EmptiedIsBusy'
  <2>1. EmptiedIsBusy  BY DEF HolderInv
  <2> QED BY <1>5, <2>1 DEF EmptiedIsBusy
<1>8. OneFills'
  <2>1. OneFills  BY DEF HolderInv
  <2> QED BY <2>1 DEF OneFills
<1>9. OneEmpties'
  <2>1. OneEmpties  BY DEF HolderInv
  <2> QED BY <2>1 DEF OneEmpties
<1> QED BY <1>6, <1>7, <1>8, <1>9 DEF HolderInv

\* A handler gives an entry back.
LEMMA FreeStep ==
  ASSUME IInv, NEW t \in Threads, FreeEntry(t)
  PROVE  IInv'
<1>1. PICK f : f = handler[t]  OBVIOUS
<1>2. /\ Types /\ HolderInv /\ EntryInv /\ BlockedInv /\ PidInv /\ ProbeInv /\ PayloadsAreOwn
      /\ handler \in [Threads -> HandlerFrame] /\ entry \in [Slots -> Entry] /\ f \in HandlerFrame
      /\ f.pc \notin {"idle", "search"} => f.slot \in Slots /\ f.pid \in Pids
  BY <1>1 DEF IInv, Types, PidInv
<1>3. /\ UNCHANGED <<proc, payloads, otherVars>> /\ f.pc = "free"
      /\ entry' = [entry EXCEPT ![f.slot] = Unused]
      /\ handler' = [handler EXCEPT ![t].pc = "uncount"]
      /\ UNCHANGED <<pid, kind, started, linked, efdpoll, efdpid, ffd_extra_flags, call, open>>
  BY <1>1 DEF FreeEntry, InHandler, otherVars, probeVars
<1>4. PICK s : s = f.slot /\ s \in Slots /\ f.pid \in Pids  BY <1>2, <1>3
<1>5. PICK g : /\ g = [f EXCEPT !.pc = "uncount"] /\ g \in HandlerFrame /\ g.pc = "uncount"
               /\ g.slot = s /\ g.pid = f.pid
               /\ handler' = [handler EXCEPT ![t] = g]
               /\ \A u \in Threads : handler'[u] = IF u = t THEN g ELSE handler[u]
  BY <1>1, <1>2, <1>3, <1>4 DEF HandlerFrame, HandlerPc
<1>6. Unused \in Entry /\ Unused.pid = Free /\ Unused.pipe = 0  BY DEF Unused, Entry
<1>7. entry' = [entry EXCEPT ![s] = Unused]
      /\ \A r \in Slots : entry'[r] = IF r = s THEN Unused ELSE entry[r]
  BY <1>2, <1>3, <1>4
<1>8. Empties(t) /\ handler[t].slot = s  BY <1>1, <1>3, <1>4 DEF Empties
<1>9. entry[s].pipe # 0  BY <1>2, <1>8 DEF HolderInv, EmptiedIsBusy
<1>10. Types'
  <2>1. DataTypes'  BY <1>2, <1>3, <1>6, <1>7 DEF DataTypes, Types
  <2>2. linked' = linked /\ call' = call  BY <1>3
  <2> QED BY <1>2, <1>4, <1>5, <2>1, <2>2, HandlersTypes
<1>11. \A u \in Threads : Empties(u)' =>
         Empties(u) /\ handler'[u] = handler[u] /\ handler[u].slot # s
  <2>1. \A u \in Threads : Empties(u)' => u # t /\ handler'[u] = handler[u] /\ Empties(u)
    BY <1>5 DEF Empties
  <2>2. OneEmpties  BY <1>2 DEF HolderInv
  <2>3. \A u \in Threads : Empties(u) /\ u # t => handler[u].slot # s
    BY <1>8, <2>2 DEF OneEmpties
  <2> QED BY <2>1, <2>3
<1>12. HolderInv'
  <2>1. \A u \in Threads : Fills(u)' => Fills(u) /\ call'[u].slot = call[u].slot
    BY <1>3 DEF Fills
  <2>2. \A u \in Threads : Fills(u) => call[u].slot # s
    BY <1>2, <1>9 DEF HolderInv, FilledIsBusy
  <2>3. \A u \in Threads : Fills(u)' =>
          Fills(u) /\ call'[u].slot = call[u].slot /\ call[u].slot # s
    BY <2>1, <2>2
  <2>4. \A u \in Threads : Empties(u)' =>
          Empties(u) /\ handler'[u].slot = handler[u].slot /\ handler[u].slot # s
    BY <1>11
  <2> QED BY <1>2, <1>4, <1>6, <1>7, <2>3, <2>4, HolderLeaves
<1>13. EntryInv'
  <2>1. EntryFits(s, Unused)  BY <1>6 DEF EntryFits
  <2>2. HandlersFit(s, Unused)  BY <1>11 DEF HandlersFit, Empties
  <2>3. UNCHANGED <<proc, pid, kind, payloads>>  BY <1>3
  <2> QED BY <1>2, <1>4, <1>6, <1>7, <2>1, <2>2, <2>3, EntryWritten
<1>14. BlockedInv'
  <2>1. \A u \in Threads : Blocks(u)' =>
          Blocks(u) /\ call'[u].child = call[u].child /\ (call'[u].pc = "store" => call[u].pc = "store")
    BY <1>3 DEF Blocks
  <2>2. \A r \in Slots : entry'[r].pipe \in {entry[r].pipe, 0}  BY <1>6, <1>7
  <2> QED BY <1>2, <1>3, <2>1, <2>2, BlockedKept
<1>15. PidInv'
  <2>1. \A u \in Threads : handler'[u].pc \notin {"idle", "search"} => handler'[u].pid \in Pids
    BY <1>2, <1>4, <1>5 DEF PidInv
  <2>2. \A c \in Children : Alive(c)' => Alive(c)  BY <1>3 DEF Alive
  <2> QED BY <1>2, <1>3, <2>1, <2>2, PidKept
<1>16. PayloadsAreOwn'  BY <1>2, <1>3, OwnKept
<1>17. ProbeInv'  BY <1>2, <1>3, ProbeKept
<1> QED BY <1>10, <1>12, <1>13, <1>14, <1>15, <1>16, <1>17 DEF IInv

\* A handler reaps the child of the entry that it has made busy, and no other.
LEMMA ReapStep ==
  ASSUME IInv, NEW t \in Threads, TryReaping(t), Zombie(handler[t].pid) # {}
  PROVE  IInv'
<1>1. PICK f : f = handler[t]  OBVIOUS
<1>2. /\ Types /\ HolderInv /\ EntryInv /\ BlockedInv /\ PidInv /\ ProbeInv /\ PayloadsAreOwn
      /\ handler \in [Threads -> HandlerFrame] /\ entry \in [Slots -> Entry] /\ f \in HandlerFrame
      /\ f.pc \notin {"idle", "search"} => f.slot \in Slots /\ f.pid \in Pids
  BY <1>1 DEF IInv, Types, PidInv
<1>3. /\ UNCHANGED <<payloads, entry, otherVars>> /\ f.pc = "reap"
      /\ UNCHANGED <<pid, kind, started, linked, efdpoll, efdpid, ffd_extra_flags, call, open>>
  BY <1>1 DEF TryReaping, InHandler, otherVars, probeVars
<1>4. PICK s : s = f.slot /\ s \in Slots /\ f.pid \in Pids  BY <1>2, <1>3
<1>5. Empties(t) /\ handler[t].slot = s  BY <1>1, <1>3, <1>4 DEF Empties
<1>6. PICK c : c = entry[s].pipe  OBVIOUS
<1>7. /\ c # 0 /\ c \in Children /\ kind[c] = "table" /\ pid[c] = f.pid /\ Waits(c)
      /\ payloads[c] = <<>>
  <2>1. c # 0  BY <1>2, <1>5, <1>6 DEF HolderInv, EmptiedIsBusy
  <2>2. c \in Children  BY <1>2, <1>4, <1>6, <2>1 DEF Entry
  <2> QED BY <1>1, <1>2, <1>3, <1>4, <1>6, <2>1, <2>2 DEF EntryInv, Waits
<1>8. Zombie(f.pid) = {c}
  <2>1. ASSUME NEW d \in Zombie(f.pid)  PROVE d = c
    <3>1. d \in Children /\ Alive(d) /\ pid[d] = f.pid  BY DEF Zombie, Alive
    <3>2. Alive(c)  BY <1>7 DEF Waits
    <3> QED BY <1>2, <1>7, <3>1, <3>2 DEF PidInv
  <2> QED BY <1>1, <2>1
<1>9. proc[c] = "zombie"  BY <1>8 DEF Zombie
<1>10. proc' = [d \in Children |-> IF d \in {c} THEN "reaped" ELSE proc[d]]
  BY <1>1, <1>8 DEF TryReaping
<1>11. proc'[c] = "reaped" /\ \A d \in Children : d # c => proc'[d] = proc[d]
  BY <1>7, <1>10
<1>12. PICK z : z = Zombie(f.pid)  OBVIOUS
<1>13. z # {} /\ handler' = [handler EXCEPT ![t] =
         IF z = {} THEN Resume(@) ELSE [@ EXCEPT !.pc = "notify", !.payload = CHOOSE x \in z : TRUE]]
  BY <1>1, <1>8, <1>12 DEF TryReaping
<1>14. (CHOOSE x \in z : TRUE) = c  BY <1>8, <1>12
<1>15. PICK g : /\ g = [f EXCEPT !.pc = "notify", !.payload = c] /\ g \in HandlerFrame
                /\ g.pc = "notify" /\ g.slot = s /\ g.pid = f.pid /\ g.payload = c
                /\ handler' = [handler EXCEPT ![t] = g]
  <2>1. handler' = [handler EXCEPT ![t] = [f EXCEPT !.pc = "notify", !.payload = c]]
    BY <1>1, <1>2, <1>13, <1>14
  <2>2. [f EXCEPT !.pc = "notify", !.payload = c] \in HandlerFrame
    BY <1>2, <1>7 DEF HandlerFrame, HandlerPc
  <2> QED BY <1>2, <1>4, <2>1, <2>2 DEF HandlerFrame
<1>16. \A u \in Threads : handler'[u] = IF u = t THEN g ELSE handler[u]  BY <1>2, <1>15
<1>17. Types'
  <2>1. proc' \in [Children -> State]  BY <1>2, <1>10 DEF Types, State
  <2>2. DataTypes'  BY <1>2, <1>3, <2>1 DEF DataTypes, Types
  <2>3. linked' = linked /\ call' = call  BY <1>3
  <2> QED BY <1>2, <1>4, <1>15, <2>2, <2>3, HandlersTypes
<1>18. HolderInv'
  <2>1. \A u \in Threads : Fills(u)' => Fills(u) /\ call'[u].slot = call[u].slot
    BY <1>3 DEF Fills
  <2>2. \A u \in Threads : Empties(u)' => Empties(u) /\ handler'[u].slot = handler[u].slot
    BY <1>1, <1>4, <1>5, <1>15, <1>16 DEF Empties
  <2> QED BY <1>2, <1>3, <2>1, <2>2, HolderKept
<1>19. EntryInv'
  <2>1. entry' = entry /\ payloads' = payloads /\ pid' = pid /\ kind' = kind  BY <1>3
  <2>2. \A r \in Slots : r # s => entry[r].pipe # c
    BY <1>2, <1>4, <1>6, <1>7 DEF EntryInv
  <2>3. \A r \in Slots : entry[r].pipe # 0 => entry[r].pipe \in Children
    BY <1>2 DEF Entry
  <2>4. \A r \in Slots : entry[r].pid # Busy => (entry[r].pipe = 0 <=> entry[r].pid = Free)
    BY <1>2 DEF EntryInv
  <2>5. \A r \in Slots : entry[r].pipe # 0 =>
          kind[entry[r].pipe] = "table" /\ proc'[entry[r].pipe] # "none"
    <3> SUFFICES ASSUME NEW r \in Slots, entry[r].pipe # 0
                 PROVE  kind[entry[r].pipe] = "table" /\ proc'[entry[r].pipe] # "none"
      OBVIOUS
    <3>1. kind[entry[r].pipe] = "table" /\ proc[entry[r].pipe] # "none"  BY <1>2 DEF EntryInv
    <3> QED BY <1>11, <2>3, <3>1
  <2>6. \A q, r \in Slots : entry[q].pipe = entry[r].pipe /\ entry[r].pipe # 0 => q = r
    BY <1>2 DEF EntryInv
  <2>7. \A d \in Children : d # c /\ Waits(d) => Waits(d)'
    BY <1>11, <2>1 DEF Waits, Alive
  <2>8. entry[s].pid = Busy  BY <1>2, <1>5 DEF HolderInv, EmptiedIsBusy
  <2>9. \A r \in Slots : entry[r].pid \notin {Free, Busy} =>
          pid[entry[r].pipe] = entry[r].pid /\ Waits(entry[r].pipe)'
    <3> SUFFICES ASSUME NEW r \in Slots, entry[r].pid \notin {Free, Busy}
                 PROVE  pid[entry[r].pipe] = entry[r].pid /\ Waits(entry[r].pipe)'
      OBVIOUS
    <3>1. entry[r].pipe # c /\ entry[r].pipe \in Children  BY <2>2, <2>3, <2>4, <2>8
    <3>2. pid[entry[r].pipe] = entry[r].pid /\ Waits(entry[r].pipe)  BY <1>2 DEF EntryInv
    <3> QED BY <2>1, <2>7, <3>1, <3>2
  <2>10. ASSUME NEW u \in Threads, u # t, handler[u].pc \in {"reap", "notify"}
         PROVE  handler[u].slot \in Slots /\ handler[u].slot # s
                /\ entry[handler[u].slot].pipe # c /\ entry[handler[u].slot].pipe \in Children
    <3>1. Empties(u)  BY <2>10 DEF Empties
    <3>2. handler[u].slot # s  BY <1>2, <1>5, <2>10, <3>1 DEF HolderInv, OneEmpties
    <3>3. handler[u].slot \in Slots  BY <1>2, <2>10 DEF Types
    <3>4. entry[handler[u].slot].pipe # 0  BY <1>2, <3>1 DEF HolderInv, EmptiedIsBusy
    <3> QED BY <2>2, <2>3, <3>2, <3>3, <3>4
  <2>11. ASSUME NEW u \in Threads, handler'[u].pc = "reap"
         PROVE  /\ pid[entry[handler'[u].slot].pipe] = handler'[u].pid
                /\ Waits(entry[handler[u].slot].pipe)'
    <3>1. u # t /\ handler'[u] = handler[u]  BY <1>15, <1>16, <2>11
    <3>2. /\ pid[entry[handler[u].slot].pipe] = handler[u].pid
          /\ Waits(entry[handler[u].slot].pipe)
      BY <1>2, <2>11, <3>1 DEF EntryInv
    <3>3. Waits(entry[handler[u].slot].pipe)'  BY <2>1, <2>7, <2>10, <2>11, <3>1, <3>2
    <3> QED BY <3>1, <3>2, <3>3
  <2>12. ASSUME NEW u \in Threads, handler'[u].pc = "notify"
         PROVE  /\ handler'[u].payload = entry[handler'[u].slot].pipe
                /\ proc'[handler'[u].payload] = "reaped" /\ payloads[handler'[u].payload] = <<>>
    <3>1. CASE u = t
      <4>1. handler'[u] = g  BY <1>16, <3>1
      <4>2. handler'[u].payload = c /\ handler'[u].slot = s  BY <1>15, <4>1
      <4>3. proc'[c] = "reaped" /\ payloads[c] = <<>>  BY <1>7, <1>11
      <4> QED BY <1>6, <4>2, <4>3
    <3>2. CASE u # t
      <4>1. handler'[u] = handler[u] /\ handler[u].pc = "notify"  BY <1>16, <2>12, <3>2
      <4>2. /\ handler[u].payload = entry[handler[u].slot].pipe
            /\ proc[handler[u].payload] = "reaped" /\ payloads[handler[u].payload] = <<>>
        BY <1>2, <4>1 DEF EntryInv
      <4>3. handler[u].payload \in Children /\ handler[u].payload # c  BY <2>10, <3>2, <4>1, <4>2
      <4> QED BY <1>11, <4>1, <4>2, <4>3
    <3> QED BY <3>1, <3>2
  <2> QED BY <2>1, <2>4, <2>5, <2>6, <2>9, <2>11, <2>12 DEF EntryInv
<1>20. BlockedInv'
  <2>1. \A u \in Threads : Blocks(u)' =>
          Blocks(u) /\ call'[u].child = call[u].child /\ (call'[u].pc = "store" => call[u].pc = "store")
    BY <1>3 DEF Blocks
  <2>2. \A u \in Threads : Blocks(u)' =>
          proc'[call[u].child] = proc[call[u].child] /\ kind'[call[u].child] = kind[call[u].child]
          /\ payloads'[call[u].child] = payloads[call[u].child]
    <3> SUFFICES ASSUME NEW u \in Threads, Blocks(u)
                 PROVE  proc'[call[u].child] = proc[call[u].child]
      BY <1>3, <2>1
    <3>1. call[u].child \in Children /\ proc[call[u].child] = "blocked"  BY <1>2 DEF BlockedInv
    <3> QED BY <1>9, <1>11, <3>1
  <2> QED BY <1>2, <1>3, <2>1, <2>2, BlockedKept
<1>21. PidInv'
  <2>1. \A u \in Threads : handler'[u].pc \notin {"idle", "search"} => handler'[u].pid \in Pids
    BY <1>2, <1>4, <1>15, <1>16 DEF PidInv
  <2>2. \A d \in Children : Alive(d)' => Alive(d)  BY <1>11 DEF Alive
  <2>3. \A d \in Children : proc'[d] = "none" <=> proc[d] = "none"  BY <1>9, <1>11
  <2> QED BY <1>2, <1>3, <2>1, <2>2, <2>3, PidKept
<1>22. PayloadsAreOwn'
  <2>1. \A d \in Children : proc[d] = "reaped" /\ kind[d] = "table" =>
           proc'[d] = "reaped" /\ kind'[d] = "table"
    BY <1>3, <1>11
  <2> QED BY <1>2, <1>3, <2>1, OwnKept
<1>23. ProbeInv'
  <2>1. \A d \in Children : proc'[d] = proc[d] \/ (proc[d] = "zombie" /\ proc'[d] = "reaped")
    BY <1>9, <1>11
  <2> QED BY <1>2, <1>3, <2>1, ProbeKept
<1> QED BY <1>17, <1>18, <1>19, <1>20, <1>21, <1>22, <1>23 DEF IInv

\* The death pipe gets its child's payload.
LEMMA NotifyStep ==
  ASSUME IInv, NEW t \in Threads, Notify(t)
  PROVE  IInv'
<1>1. PICK f : f = handler[t]  OBVIOUS
<1>2. /\ Types /\ HolderInv /\ EntryInv /\ BlockedInv /\ PidInv /\ ProbeInv /\ PayloadsAreOwn
      /\ handler \in [Threads -> HandlerFrame] /\ entry \in [Slots -> Entry] /\ f \in HandlerFrame
      /\ f.pc \notin {"idle", "search"} => f.slot \in Slots /\ f.pid \in Pids
      /\ payloads \in [Children -> Seq(Children)]
  BY <1>1 DEF IInv, Types, PidInv
<1>3. /\ UNCHANGED <<proc, entry, otherVars>> /\ f.pc = "notify"
      /\ UNCHANGED <<pid, kind, started, linked, efdpoll, efdpid, ffd_extra_flags, call, open>>
  BY <1>1 DEF Notify, InHandler, otherVars, probeVars
<1>4. PICK s : s = f.slot /\ s \in Slots /\ f.pid \in Pids  BY <1>2, <1>3
<1>5. Empties(t) /\ handler[t].slot = s  BY <1>1, <1>3, <1>4 DEF Empties
<1>6. PICK c : c = entry[s].pipe  OBVIOUS
<1>7. c # 0 /\ c \in Children /\ kind[c] = "table"
  <2>1. c # 0  BY <1>2, <1>5, <1>6 DEF HolderInv, EmptiedIsBusy
  <2>2. c \in Children  BY <1>2, <1>4, <1>6, <2>1 DEF Entry
  <2> QED BY <1>2, <1>4, <1>6, <2>1, <2>2 DEF EntryInv
<1>8. f.payload = c /\ proc[c] = "reaped" /\ payloads[c] = <<>>
  BY <1>1, <1>2, <1>3, <1>4, <1>6 DEF EntryInv
<1>9. payloads' = [payloads EXCEPT ![c] = <<c>>]
  <2>1. payloads' = [payloads EXCEPT ![c] = Append(payloads[c], c)]
    BY <1>1, <1>2, <1>4, <1>6, <1>7, <1>8 DEF Notify
  <2>2. Append(payloads[c], c) = <<c>>  BY <1>7, <1>8
  <2> QED BY <2>1, <2>2
<1>10. \A d \in Children : payloads'[d] = IF d = c THEN <<c>> ELSE payloads[d]
  BY <1>2, <1>9
<1>11. PICK g : /\ g = [f EXCEPT !.pc = "free"] /\ g \in HandlerFrame
                /\ g.pc = "free" /\ g.slot = s /\ g.pid = f.pid
                /\ handler' = [handler EXCEPT ![t] = g]
  <2>1. handler' = [handler EXCEPT ![t] = [f EXCEPT !.pc = "free"]]
    BY <1>1, <1>2 DEF Notify
  <2> QED BY <1>2, <1>4, <2>1 DEF HandlerFrame, HandlerPc
<1>12. \A u \in Threads : handler'[u] = IF u = t THEN g ELSE handler[u]  BY <1>2, <1>11
<1>13. Types'
  <2>1. <<c>> \in Seq(Children)  BY <1>7
  <2>2. payloads' \in [Children -> Seq(Children)]  BY <1>2, <1>9, <2>1
  <2>3. DataTypes'  BY <1>2, <1>3, <2>2 DEF DataTypes, Types
  <2>4. linked' = linked /\ call' = call  BY <1>3
  <2> QED BY <1>2, <1>4, <1>11, <2>3, <2>4, HandlersTypes
<1>14. HolderInv'
  <2>1. \A u \in Threads : Fills(u)' => Fills(u) /\ call'[u].slot = call[u].slot
    BY <1>3 DEF Fills
  <2>2. \A u \in Threads : Empties(u)' => Empties(u) /\ handler'[u].slot = handler[u].slot
    BY <1>1, <1>4, <1>5, <1>11, <1>12 DEF Empties
  <2> QED BY <1>2, <1>3, <2>1, <2>2, HolderKept
<1>15. EntryInv'
  <2>1. entry' = entry /\ proc' = proc /\ pid' = pid /\ kind' = kind  BY <1>3
  <2>2. \A r \in Slots : r # s => entry[r].pipe # c
    BY <1>2, <1>4, <1>6, <1>7 DEF EntryInv
  <2>3. \A r \in Slots : entry[r].pipe # 0 => entry[r].pipe \in Children
    BY <1>2 DEF Entry
  <2>4. /\ \A r \in Slots : entry[r].pid # Busy => (entry[r].pipe = 0 <=> entry[r].pid = Free)
        /\ \A r \in Slots : entry[r].pipe # 0 =>
             kind[entry[r].pipe] = "table" /\ proc[entry[r].pipe] # "none"
        /\ \A q, r \in Slots : entry[q].pipe = entry[r].pipe /\ entry[r].pipe # 0 => q = r
    BY <1>2 DEF EntryInv
  <2>5. \A d \in Children : Waits(d) => Waits(d)'
    BY <1>8, <1>10, <2>1 DEF Waits, Alive
  <2>6. \A r \in Slots : entry[r].pid \notin {Free, Busy} =>
          pid[entry[r].pipe] = entry[r].pid /\ Waits(entry[r].pipe)'
    <3> SUFFICES ASSUME NEW r \in Slots, entry[r].pid \notin {Free, Busy}
                 PROVE  pid[entry[r].pipe] = entry[r].pid /\ Waits(entry[r].pipe)'
      OBVIOUS
    <3>1. entry[r].pipe \in Children  BY <2>3, <2>4
    <3>2. pid[entry[r].pipe] = entry[r].pid /\ Waits(entry[r].pipe)  BY <1>2 DEF EntryInv
    <3> QED BY <2>1, <2>5, <3>1, <3>2
  <2>7. ASSUME NEW u \in Threads, u # t, handler[u].pc \in {"reap", "notify"}
        PROVE  entry[handler[u].slot].pipe # c /\ entry[handler[u].slot].pipe \in Children
    <3>1. Empties(u)  BY <2>7 DEF Empties
    <3>2. handler[u].slot # s  BY <1>2, <1>5, <2>7, <3>1 DEF HolderInv, OneEmpties
    <3>3. handler[u].slot \in Slots  BY <1>2, <2>7 DEF Types
    <3>4. entry[handler[u].slot].pipe # 0  BY <1>2, <3>1 DEF HolderInv, EmptiedIsBusy
    <3> QED BY <2>2, <2>3, <3>2, <3>3, <3>4
  <2>8. ASSUME NEW u \in Threads, handler'[u].pc = "reap"
        PROVE  /\ pid[entry[handler'[u].slot].pipe] = handler'[u].pid
               /\ Waits(entry[handler[u].slot].pipe)'
    <3>1. u # t /\ handler'[u] = handler[u]  BY <1>11, <1>12, <2>8
    <3>2. /\ pid[entry[handler[u].slot].pipe] = handler[u].pid
          /\ Waits(entry[handler[u].slot].pipe)
      BY <1>2, <2>8, <3>1 DEF EntryInv
    <3>3. Waits(entry[handler[u].slot].pipe)'  BY <2>1, <2>5, <2>7, <2>8, <3>1, <3>2
    <3> QED BY <3>1, <3>2, <3>3
  <2>9. ASSUME NEW u \in Threads, handler'[u].pc = "notify"
        PROVE  /\ handler'[u].payload = entry[handler'[u].slot].pipe
               /\ proc[handler'[u].payload] = "reaped" /\ payloads'[handler'[u].payload] = <<>>
    <3>1. u # t /\ handler'[u] = handler[u]  BY <1>11, <1>12, <2>9
    <3>2. /\ handler[u].payload = entry[handler[u].slot].pipe
          /\ proc[handler[u].payload] = "reaped" /\ payloads[handler[u].payload] = <<>>
      BY <1>2, <2>9, <3>1 DEF EntryInv
    <3>3. handler[u].payload \in Children /\ handler[u].payload # c  BY <2>7, <2>9, <3>1, <3>2
    <3> QED BY <1>10, <3>1, <3>2, <3>3
  <2> QED BY <2>1, <2>4, <2>6, <2>8, <2>9 DEF EntryInv
<1>16. BlockedInv'
  <2>1. \A u \in Threads : Blocks(u)' =>
          Blocks(u) /\ call'[u].child = call[u].child /\ (call'[u].pc = "store" => call[u].pc = "store")
    BY <1>3 DEF Blocks
  <2>2. \A u \in Threads : Blocks(u)' =>
          proc'[call[u].child] = proc[call[u].child] /\ kind'[call[u].child] = kind[call[u].child]
          /\ payloads'[call[u].child] = payloads[call[u].child]
    <3> SUFFICES ASSUME NEW u \in Threads, Blocks(u)
                 PROVE  payloads'[call[u].child] = payloads[call[u].child]
      BY <1>3, <2>1
    <3>1. call[u].child \in Children /\ proc[call[u].child] = "blocked"  BY <1>2 DEF BlockedInv
    <3> QED BY <1>8, <1>10, <3>1
  <2> QED BY <1>2, <1>3, <2>1, <2>2, BlockedKept
<1>17. PidInv'
  <2>1. \A u \in Threads : handler'[u].pc \notin {"idle", "search"} => handler'[u].pid \in Pids
    BY <1>2, <1>4, <1>11, <1>12 DEF PidInv
  <2>2. \A d \in Children : Alive(d)' => Alive(d)  BY <1>3 DEF Alive
  <2>3. \A d \in Children : proc[d] = "none" => payloads'[d] = payloads[d]
    BY <1>8, <1>10
  <2> QED BY <1>2, <1>3, <2>1, <2>2, <2>3, PidKept
<1>18. PayloadsAreOwn'
  <2> SUFFICES ASSUME NEW d \in Children
               PROVE  /\ payloads'[d] \in {<<>>, <<d>>}
                      /\ payloads'[d] # <<>> => proc'[d] = "reaped" /\ kind'[d] = "table"
    BY DEF PayloadsAreOwn
  <2>1. CASE d = c  BY <1>3, <1>7, <1>8, <1>10, <2>1
  <2>2. CASE d # c  BY <1>2, <1>3, <1>10, <2>2 DEF PayloadsAreOwn
  <2> QED BY <2>1, <2>2
<1>19. ProbeInv'  BY <1>2, <1>3, ProbeKept
<1> QED BY <1>13, <1>14, <1>15, <1>16, <1>17, <1>18, <1>19 DEF IInv

---------------------------------------------------------------------------
(***************************************************************************)
(* The caller's steps at an entry.                                         *)
(***************************************************************************)
\* A caller that works at entry s moves and writes e there; the children stay.
LEMMA CallerWrites ==
  ASSUME IInv, NEW t \in Threads, call[t].pc \in {"scan", "fork", "store"},
         NEW p \in {"fork", "uncount", "release"}, Goto(t, p),
         p = "fork" => call[t].pc = "scan", p = "release" => call[t].pc = "store",
         NEW s, s = call[t].slot, NEW e \in Entry, entry' = [entry EXCEPT ![s] = e],
         EntryFits(s, e), HolderInv', e.pipe \in {entry[s].pipe, 0} \/ p = "release",
         p = "release" => e.pipe = call[t].child,
         \A u \in Threads : handler[u].pc \in {"reap", "notify"} => handler[u].slot # s,
         UNCHANGED <<proc, pid, kind, payloads, started, linked, open, handler, efdpoll, efdpid,
                     ffd_extra_flags>>
  PROVE  IInv'
<1>1. /\ Types /\ HolderInv /\ EntryInv /\ BlockedInv /\ PidInv /\ ProbeInv /\ PayloadsAreOwn
      /\ entry \in [Slots -> Entry] /\ s \in Slots
  BY DEF IInv, Types
<1>2. PICK f : /\ f = [call[t] EXCEPT !.pc = p] /\ f \in CallFrame /\ f.pc = p
               /\ f.slot = s /\ f.child = call[t].child /\ f.probe = call[t].probe
               /\ call' = [call EXCEPT ![t] = f]
               /\ \A u \in Threads : call'[u] = IF u = t THEN f ELSE call[u]
  BY <1>1 DEF Types, CallFrame, CallPc, Goto
<1>3. Types'
  <2>1. DataTypes'  BY <1>1 DEF DataTypes, Types
  <2>2. p \in CallPc \ {"scan", "fork", "store"} \/ (p = "fork" /\ call[t].pc = "scan")
    BY DEF CallPc
  <2> QED BY <1>1, <2>1, <2>2, GotoTypes
<1>4. EntryInv'
  <2>1. HandlersFit(s, e)  BY DEF HandlersFit
  <2> QED BY <1>1, <2>1, EntryWritten
<1>5. BlockedInv'
  <2>1. \A u \in Threads : Blocks(u)' =>
          Blocks(u) /\ call'[u].child = call[u].child /\ (call'[u].pc = "store" => call[u].pc = "store")
    BY <1>2 DEF Blocks
  <2>2. \A u \in Threads : call'[u].pc = "waitpid" =>
          call[u].pc = "waitpid" /\ call'[u].child = call[u].child
    BY <1>2
  <2>3. CASE p # "release"
    <3>1. \A r \in Slots : entry'[r].pipe \in {entry[r].pipe, 0}  BY <1>1, <2>3
    <3> QED BY <1>1, <2>1, <2>2, <3>1, BlockedKept
  <2>4. CASE p = "release"
    <3>1. Blocks(t)  BY <2>4 DEF Blocks
    <3>2. \A u \in Threads : call'[u].pc = "store" => u # t /\ call[u].pc = "store" /\ Blocks(u)
      BY <1>2, <2>4 DEF Blocks
    <3>3. \A u \in Threads : Blocks(u) /\ u # t => call[u].child # call[t].child
      BY <1>1, <3>1 DEF BlockedInv
    <3>4. \A u \in Threads : call'[u].pc = "store" =>
            \A r \in Slots : entry'[r].pipe # call'[u].child
      <4> SUFFICES ASSUME NEW u \in Threads, call'[u].pc = "store", NEW r \in Slots
                   PROVE  entry'[r].pipe # call'[u].child
        OBVIOUS
      <4>0. Blocks(u)'  BY DEF Blocks
      <4>1. call'[u].child = call[u].child /\ call[u].child # call[t].child
        BY <2>1, <3>2, <3>3, <4>0
      <4>2. entry[r].pipe # call[u].child  BY <1>1, <3>2 DEF BlockedInv
      <4>3. entry'[r] = IF r = s THEN e ELSE entry[r]  BY <1>1
      <4> QED BY <2>4, <4>1, <4>2, <4>3
    <3>5. \A u \in Threads : Blocks(u)' =>
           /\ call'[u].child \in Children
           /\ proc'[call'[u].child] = "blocked" /\ kind'[call'[u].child] = "table"
           /\ payloads'[call'[u].child] = <<>>
      BY <1>1, <2>1 DEF BlockedInv
    <3>6. \A u, v \in Threads : Blocks(u)' /\ Blocks(v)' /\ call'[u].child = call'[v].child => u = v
      BY <1>1, <2>1 DEF BlockedInv
    <3>7. \A u \in Threads : call'[u].pc = "waitpid" =>
            call'[u].child \in Children /\ kind'[call'[u].child] = "foreign"
      BY <1>1, <2>2 DEF BlockedInv
    <3> QED BY <3>4, <3>5, <3>6, <3>7 DEF BlockedInv
  <2> QED BY <2>3, <2>4
<1>6. PidInv'
  <2>1. \A u \in Threads : handler'[u].pc \notin {"idle", "search"} => handler'[u].pid \in Pids
    BY <1>1 DEF PidInv
  <2>2. \A c \in Children : Alive(c)' => Alive(c)  BY DEF Alive
  <2> QED BY <1>1, <2>1, <2>2, PidKept
<1>7. PayloadsAreOwn'  BY <1>1, OwnKept
<1>8. ProbeInv'
  <2>1. ~Probes(t)  BY DEF Probes
  <2>2. f.pc \in {"store", "release"} => f.child \notin started
    <3> SUFFICES ASSUME p = "release"  PROVE call[t].child \notin started
      BY <1>2
    <3>1. Blocks(t)  BY DEF Blocks
    <3> QED BY <1>1, <3>1 DEF ProbeInv, BlockedWaits
  <2>3. f.probe => t = Main /\ ffd_extra_flags' = "unknown"
    BY <1>1, <1>2 DEF ProbeInv, OnlyMainProbes
  <2>4. f.pc \notin {"poll", "readPid", "discard"}  BY <1>2
  <2> QED BY <1>1, <1>2, <2>1, <2>2, <2>3, <2>4, ProbeMoves
<1> QED BY <1>1, <1>3, <1>4, <1>5, <1>6, <1>7, <1>8 DEF IInv

\* A caller makes a free entry busy.
LEMMA ScanTakes ==
  ASSUME IInv, NEW t \in Threads, ScanEntry(t), entry' # entry
  PROVE  IInv'
<1>1. /\ Types /\ HolderInv /\ EntryInv /\ entry \in [Slots -> Entry]
  BY DEF IInv, Types
<1>2. call[t].pc = "scan"  BY DEF ScanEntry
<1>3. PICK s : s = call[t].slot /\ s \in Slots  BY <1>1, <1>2 DEF Types
<1>4. /\ entry[s].pid = Free /\ Goto(t, "fork") /\ entry' = [entry EXCEPT ![s].pid = Busy]
      /\ UNCHANGED <<proc, pid, kind, payloads, started, linked, open, handler, efdpoll, efdpid,
                     ffd_extra_flags>>
  BY <1>3 DEF ScanEntry, kernelVars, childVars, probeVars
<1>5. entry[s].pipe = 0  BY <1>1, <1>3, <1>4 DEF EntryInv, Free, Busy
<1>6. PICK e : /\ e = [pid |-> Busy, pipe |-> 0] /\ e \in Entry /\ e.pid = Busy /\ e.pipe = 0
               /\ entry' = [entry EXCEPT ![s] = e]
               /\ \A r \in Slots : entry'[r] = IF r = s THEN e ELSE entry[r]
  <2>1. entry[s] \in Entry /\ [pid |-> Busy, pipe |-> 0] \in Entry  BY <1>1, <1>3 DEF Entry
  <2>2. [entry[s] EXCEPT !.pid = Busy] = [pid |-> Busy, pipe |-> 0]  BY <1>5, <2>1 DEF Entry
  <2>3. entry' = [entry EXCEPT ![s] = [pid |-> Busy, pipe |-> 0]]  BY <1>1, <1>3, <1>4, <2>2
  <2> QED BY <1>1, <1>3, <2>1, <2>3
<1>7. entry[s].pid # Busy  BY <1>4 DEF Free, Busy
<1>8. \A u \in Threads : /\ Fills(u) => call[u].slot # s
                         /\ Empties(u) => handler[u].slot # s
  BY <1>1, <1>7 DEF HolderInv, FilledIsBusy, EmptiedIsBusy
<1>9. \A u \in Threads : call'[u] = IF u = t THEN [call[t] EXCEPT !.pc = "fork"] ELSE call[u]
  BY <1>1, <1>4 DEF Types, Goto
<1>10. call'[t].slot = s /\ call[t] \in CallFrame
  BY <1>1, <1>3, <1>9 DEF CallFrame, Types
<1>11. HolderInv'
  <2>1. \A u \in Threads : Fills(u)' => u = t \/ (Fills(u) /\ call'[u] = call[u])
    BY <1>9 DEF Fills
  <2>2. \A u \in Threads : Empties(u)' <=> Empties(u)  BY <1>4 DEF Empties
  <2>3. FilledIsBusy'
    <3> SUFFICES ASSUME NEW u \in Threads, Fills(u)'
                 PROVE  entry'[call'[u].slot] = [pid |-> Busy, pipe |-> 0]
      BY DEF FilledIsBusy
    <3>1. CASE u = t  BY <1>3, <1>6, <1>10, <3>1
    <3>2. CASE u # t
      <4>1. Fills(u) /\ call'[u] = call[u] /\ call[u].slot \in Slots /\ call[u].slot # s
        BY <1>1, <1>8, <2>1, <3>2 DEF Fills, Types
      <4>2. entry[call[u].slot] = [pid |-> Busy, pipe |-> 0]
        BY <1>1, <4>1 DEF HolderInv, FilledIsBusy
      <4> QED BY <1>6, <4>1, <4>2
    <3> QED BY <3>1, <3>2
  <2>4. EmptiedIsBusy'
    <3> SUFFICES ASSUME NEW u \in Threads, Empties(u)
                 PROVE  entry'[handler[u].slot].pid = Busy /\ entry'[handler[u].slot].pipe # 0
      BY <1>4, <2>2 DEF EmptiedIsBusy
    <3>1. handler[u].slot \in Slots /\ handler[u].slot # s
      BY <1>1, <1>8 DEF Empties, Types
    <3>2. entry[handler[u].slot].pid = Busy /\ entry[handler[u].slot].pipe # 0
      BY <1>1 DEF HolderInv, EmptiedIsBusy
    <3> QED BY <1>6, <3>1, <3>2
  <2>5. OneFills'
    <3> SUFFICES ASSUME NEW u \in Threads, NEW v \in Threads, Fills(u)', Fills(v)',
                        call'[u].slot = call'[v].slot
                 PROVE  u = v
      BY DEF OneFills
    <3>1. u # t => Fills(u) /\ call'[u].slot = call[u].slot /\ call[u].slot # s  BY <1>8, <2>1
    <3>2. v # t => Fills(v) /\ call'[v].slot = call[v].slot /\ call[v].slot # s  BY <1>8, <2>1
    <3>3. OneFills  BY <1>1 DEF HolderInv
    <3> QED BY <1>10, <3>1, <3>2, <3>3 DEF OneFills
  <2>6. OneEmpties'  BY <1>1, <1>4, <2>2 DEF HolderInv, OneEmpties
  <2> QED BY <2>3, <2>4, <2>5, <2>6 DEF HolderInv
<1>12. EntryFits(s, e)  BY <1>6 DEF EntryFits
<1>13. \A u \in Threads : handler[u].pc \in {"reap", "notify"} => handler[u].slot # s
  BY <1>8 DEF Empties
<1>14. e.pipe \in {entry[s].pipe, 0}  BY <1>6
<1> QED BY <1>2, <1>3, <1>4, <1>6, <1>11, <1>12, <1>13, <1>14, CallerWrites

\* At an entry that a caller fills nobody else works.
LEMMA FillerIsAlone ==
  ASSUME Types, HolderInv, NEW t \in Threads, Fills(t), NEW s, s = call[t].slot
  PROVE  /\ s \in Slots /\ entry[s].pipe = 0 /\ entry[s].pid = Busy
         /\ \A u \in Threads : u # t /\ Fills(u) => call[u].slot # s
         /\ \A u \in Threads : Empties(u) => handler[u].slot # s
<1>1. s \in Slots  BY DEF Types, Fills
<1>2. entry[s] = [pid |-> Busy, pipe |-> 0]  BY DEF HolderInv, FilledIsBusy
<1>3. \A u \in Threads : u # t /\ Fills(u) => call[u].slot # s  BY DEF HolderInv, OneFills
<1>4. \A u \in Threads : Empties(u) => handler[u].slot # s
  BY <1>2 DEF HolderInv, EmptiedIsBusy
<1> QED BY <1>1, <1>2, <1>3, <1>4

\* A failed fork gives the entry back.
LEMMA ForkFailsStep ==
  ASSUME IInv, NEW t \in Threads, ForkFails(t)
  PROVE  IInv'
<1>1. /\ Types /\ HolderInv /\ EntryInv /\ entry \in [Slots -> Entry]
  BY DEF IInv, Types
<1>2. call[t].pc = "fork" /\ Fills(t)  BY DEF ForkFails, Fills
<1>3. PICK s : s = call[t].slot /\ s \in Slots  BY <1>1, <1>2 DEF Types
<1>4. /\ Goto(t, "uncount") /\ entry' = [entry EXCEPT ![s] = Unused]
      /\ UNCHANGED <<proc, pid, kind, payloads, started, linked, open, handler, efdpoll, efdpid,
                     ffd_extra_flags>>
  BY <1>3 DEF ForkFails, kernelVars, childVars, probeVars
<1>5. /\ \A u \in Threads : u # t /\ Fills(u) => call[u].slot # s
      /\ \A u \in Threads : Empties(u) => handler[u].slot # s
  BY <1>1, <1>2, <1>3, FillerIsAlone
<1>6. \A u \in Threads : call'[u] = IF u = t THEN [call[t] EXCEPT !.pc = "uncount"] ELSE call[u]
  BY <1>1, <1>4 DEF Types, Goto
<1>7. call'[t].pc = "uncount"  BY <1>1, <1>6 DEF Types, CallFrame
<1>8. Unused \in Entry /\ Unused.pid = Free /\ Unused.pipe = 0  BY DEF Unused, Entry
<1>9. HolderInv'
  <2>1. \A u \in Threads : Fills(u)' =>
          Fills(u) /\ call'[u].slot = call[u].slot /\ call[u].slot # s
    BY <1>5, <1>6, <1>7 DEF Fills
  <2>2. \A u \in Threads : Empties(u)' =>
          Empties(u) /\ handler'[u].slot = handler[u].slot /\ handler[u].slot # s
    BY <1>4, <1>5 DEF Empties
  <2> QED BY <1>1, <1>3, <1>4, <1>8, <2>1, <2>2, HolderLeaves
<1>10. EntryFits(s, Unused)  BY <1>8 DEF EntryFits
<1>11. \A u \in Threads : handler[u].pc \in {"reap", "notify"} => handler[u].slot # s
  BY <1>5 DEF Empties
<1> QED BY <1>2, <1>3, <1>4, <1>8, <1>9, <1>10, <1>11, CallerWrites

\* The child is entered in the table.
LEMMA StorePidStep ==
  ASSUME IInv, NEW t \in Threads, StorePid(t)
  PROVE  IInv'
<1>1. /\ Types /\ HolderInv /\ EntryInv /\ BlockedInv /\ PidInv /\ entry \in [Slots -> Entry]
  BY DEF IInv, Types
<1>2. call[t].pc = "store" /\ Fills(t) /\ Blocks(t)  BY DEF StorePid, Fills, Blocks
<1>3. PICK s : s = call[t].slot /\ s \in Slots  BY <1>1, <1>2 DEF Types
<1>4. PICK c : c = call[t].child /\ c \in Children  BY <1>1, <1>2 DEF BlockedInv
<1>5. /\ proc[c] = "blocked" /\ kind[c] = "table" /\ payloads[c] = <<>>
      /\ \A r \in Slots : entry[r].pipe # c
  BY <1>1, <1>2, <1>4 DEF BlockedInv
<1>6. pid[c] \in Pids /\ pid[c] \notin {Free, Busy} /\ c # 0
  BY <1>1, <1>4, <1>5, ForkFdAssumption, ChildNumbers DEF PidInv, Free, Busy
<1>7. PICK e : /\ e = [pid |-> pid[c], pipe |-> c] /\ e \in Entry /\ e.pid = pid[c] /\ e.pipe = c
               /\ entry' = [entry EXCEPT ![s] = e]
  BY <1>3, <1>4, <1>6 DEF Entry, StorePid
<1>8. /\ Goto(t, "release")
      /\ UNCHANGED <<proc, pid, kind, payloads, started, linked, open, handler, efdpoll, efdpid,
                     ffd_extra_flags>>
  BY DEF StorePid, kernelVars, childVars, probeVars
<1>9. /\ \A u \in Threads : u # t /\ Fills(u) => call[u].slot # s
      /\ \A u \in Threads : Empties(u) => handler[u].slot # s
  BY <1>1, <1>2, <1>3, FillerIsAlone
<1>10. \A u \in Threads : call'[u] = IF u = t THEN [call[t] EXCEPT !.pc = "release"] ELSE call[u]
  BY <1>1, <1>8 DEF Types, Goto
<1>11. call'[t].pc = "release"  BY <1>1, <1>10 DEF Types, CallFrame
<1>12. HolderInv'
  <2>1. \A u \in Threads : Fills(u)' =>
          Fills(u) /\ call'[u].slot = call[u].slot /\ call[u].slot # s
    BY <1>9, <1>10, <1>11 DEF Fills
  <2>2. \A u \in Threads : Empties(u)' =>
          Empties(u) /\ handler'[u].slot = handler[u].slot /\ handler[u].slot # s
    BY <1>8, <1>9 DEF Empties
  <2> QED BY <1>1, <1>3, <1>7, <2>1, <2>2, HolderLeaves
<1>13. EntryFits(s, e)
  <2>1. Waits(c)  BY <1>5 DEF Waits, Alive
  <2> QED BY <1>5, <1>6, <1>7, <2>1 DEF EntryFits
<1>14. \A u \in Threads : handler[u].pc \in {"reap", "notify"} => handler[u].slot # s
  BY <1>9 DEF Empties
<1> QED BY <1>2, <1>3, <1>4, <1>7, <1>8, <1>12, <1>13, <1>14, CallerWrites

---------------------------------------------------------------------------
(***************************************************************************)
(* Children are born.                                                      *)
(***************************************************************************)
\* They are numbered in their order, so that the next one is none of them.
LEMMA NextNumber ==
  ASSUME Types, PidInv, NewChild \in Children
  PROVE  \E n \in 0 .. Cardinality(Children) :
           /\ \A c \in Children : proc[c] # "none" <=> c <= n
           /\ NewChild = n + 1 /\ n + 1 <= Cardinality(Children)
           /\ proc[NewChild] = "none"
<1>1. PICK n \in 0 .. Cardinality(Children) : \A c \in Children : proc[c] # "none" <=> c <= n
  BY DEF PidInv
<1>2. n \in Nat /\ n <= Cardinality(Children)  BY ChildNumbers
<1>3. Forked = 1 .. n  BY <1>1, <1>2, ChildNumbers DEF Forked
<1>4. Cardinality(1 .. n) = n  BY <1>2, FS_Interval
<1>5. NewChild = n + 1  BY <1>3, <1>4 DEF NewChild
<1>6. n + 1 <= Cardinality(Children)
  <2>1. n + 1 \in 1 .. Cardinality(Children)  BY <1>5, ChildNumbers
  <2> QED BY <1>2, <2>1, ChildNumbers
<1>7. ~(NewChild <= n)  BY <1>2, <1>5
<1>8. proc[NewChild] = "none"  BY <1>1, <1>7
<1> QED BY <1>1, <1>5, <1>6, <1>8

\* Its number is that of no child that is still there.
LEMMA NewPid ==
  ASSUME Types, PidInv, NewChild \in Children, NEW p \in FreePids
  PROVE  /\ p \in Pids
         /\ \A c \in Children : Alive(c) => pid[c] # p
         /\ ~Reuse => p = NewChild
<1>1. CASE Reuse
  <2>1. \A c \in Children : Alive(c) => c \in Unreaped  BY DEF Alive, Unreaped, Forked
  <2>2. p \in Pids /\ p \notin {pid[c] : c \in Unreaped}  BY <1>1 DEF FreePids
  <2> QED BY <1>1, <2>1, <2>2
<1>2. CASE ~Reuse
  <2>1. p = NewChild /\ p \in Pids  BY <1>2 DEF FreePids
  <2>2. proc[NewChild] = "none"  BY NextNumber
  <2>3. \A c \in Children : Alive(c) => c # NewChild /\ pid[c] = c
    BY <1>2, <2>2 DEF PidInv, Alive
  <2> QED BY <1>2, <2>1, <2>3
<1> QED BY <1>1, <1>2

LEMMA NewBorn ==
  ASSUME IInv, NewChild \in Children, NEW p \in FreePids,
         NEW s \in State \ {"none", "reaped"}, NEW k \in Kind \ {"none"}, Born(NewChild, p, s, k),
         started' \subseteq started \cup {NewChild},
         UNCHANGED <<entry, payloads, handler>>
  PROVE  /\ proc[NewChild] = "none" /\ NewChild \notin started /\ payloads[NewChild] = <<>>
         /\ proc'[NewChild] = s /\ kind'[NewChild] = k
         /\ \A c \in Children : c # NewChild => proc'[c] = proc[c] /\ kind'[c] = kind[c]
         /\ proc' \in [Children -> State] /\ pid' \in [Children -> Pids \cup {0}]
         /\ kind' \in [Children -> Kind]
         /\ \A r \in Slots : entry[r].pipe # NewChild
         /\ EntryInv' /\ PidInv' /\ PayloadsAreOwn'
<1>1. /\ Types /\ HolderInv /\ EntryInv /\ BlockedInv /\ PidInv /\ PayloadsAreOwn
      /\ proc \in [Children -> State] /\ pid \in [Children -> Pids \cup {0}]
      /\ kind \in [Children -> Kind] /\ entry \in [Slots -> Entry]
  BY DEF IInv, Types
<1>2. PICK n \in 0 .. Cardinality(Children) :
           /\ \A c \in Children : proc[c] # "none" <=> c <= n
           /\ NewChild = n + 1 /\ n + 1 <= Cardinality(Children)
           /\ proc[NewChild] = "none"
  BY <1>1, NextNumber
<1>3. PICK c : c = NewChild /\ c \in Children  OBVIOUS
<1>4. /\ p \in Pids /\ \A d \in Children : Alive(d) => pid[d] # p
      /\ ~Reuse => p = c
  BY <1>1, <1>3, NewPid
<1>5. /\ proc' = [proc EXCEPT ![c] = s] /\ pid' = [pid EXCEPT ![c] = p]
      /\ kind' = [kind EXCEPT ![c] = k]
  BY <1>3 DEF Born
<1>6. /\ proc' \in [Children -> State] /\ pid' \in [Children -> Pids \cup {0}]
      /\ kind' \in [Children -> Kind]
  BY <1>1, <1>3, <1>4, <1>5
<1>7. /\ proc'[c] = s /\ kind'[c] = k /\ pid'[c] = p
      /\ \A d \in Children : d # c => proc'[d] = proc[d] /\ kind'[d] = kind[d] /\ pid'[d] = pid[d]
  BY <1>1, <1>3, <1>5
<1>8. proc[c] = "none" /\ c \notin started /\ payloads[c] = <<>>
  BY <1>1, <1>2, <1>3 DEF PidInv
<1>9. EntryInv'
  <2>1. ChildrenLive  BY <1>7, <1>8 DEF ChildrenLive
  <2> QED BY <1>1, <2>1, EntryKept
<1>10. PidInv'
  <2>1. \A d \in Children : proc'[d] # "none" <=> d <= n + 1
    <3> SUFFICES ASSUME NEW d \in Children  PROVE proc'[d] # "none" <=> d <= n + 1
      OBVIOUS
    <3>1. d \in Nat /\ n \in Nat  BY ChildNumbers
    <3>2. CASE d = c  BY <1>2, <1>3, <1>7, <3>1, <3>2
    <3>3. CASE d # c
      <4>1. proc'[d] # "none" <=> d <= n  BY <1>2, <1>7, <3>3
      <4>2. d <= n + 1 <=> d <= n  BY <1>2, <1>3, <3>1, <3>3
      <4> QED BY <4>1, <4>2
    <3> QED BY <3>2, <3>3
  <2>2. n + 1 \in 0 .. Cardinality(Children)  BY <1>2, ChildNumbers
  <2>3. \A d \in Children : proc'[d] # "none" => pid'[d] \in Pids
    <3>1. \A d \in Children : proc[d] # "none" => pid[d] \in Pids  BY <1>1 DEF PidInv
    <3> QED BY <1>4, <1>7, <3>1
  <2>4. \A d, e \in Children : Alive(d)' /\ Alive(e)' /\ pid'[d] = pid'[e] => d = e
    <3>1. \A d \in Children : d # c /\ Alive(d)' => Alive(d)  BY <1>7 DEF Alive
    <3>2. \A d, e \in Children : Alive(d) /\ Alive(e) /\ pid[d] = pid[e] => d = e
      BY <1>1 DEF PidInv
    <3> QED BY <1>4, <1>7, <3>1, <3>2
  <2>5. ~Reuse => \A d \in Children : proc'[d] # "none" => pid'[d] = d
    <3>1. ~Reuse => \A d \in Children : proc[d] # "none" => pid[d] = d  BY <1>1 DEF PidInv
    <3> QED BY <1>4, <1>7, <3>1
  <2>6. \A u \in Threads : handler'[u].pc \notin {"idle", "search"} => handler'[u].pid \in Pids
    BY <1>1 DEF PidInv
  <2>7. \A d \in Children : proc'[d] = "none" =>
          payloads'[d] = <<>> /\ kind'[d] = "none" /\ d \notin started'
    <3>1. \A d \in Children : proc[d] = "none" =>
            payloads[d] = <<>> /\ kind[d] = "none" /\ d \notin started
      BY <1>1 DEF PidInv
    <3> QED BY <1>3, <1>7, <3>1
  <2> QED BY <2>1, <2>2, <2>3, <2>4, <2>5, <2>6, <2>7 DEF PidInv
<1>11. PayloadsAreOwn'
  <2>1. \A d \in Children : proc[d] = "reaped" /\ kind[d] = "table" =>
           proc'[d] = "reaped" /\ kind'[d] = "table"
    BY <1>7, <1>8
  <2> QED BY <1>1, <2>1, OwnKept
<1>12. \A r \in Slots : entry[r].pipe # c
  <2>1. c # 0  BY <1>3, ChildNumbers
  <2> QED BY <1>1, <1>8, <2>1 DEF EntryInv
<1> QED BY <1>3, <1>6, <1>7, <1>8, <1>9, <1>10, <1>11, <1>12

\* A caller that has forked keeps the number of the child in its frame.
LEMMA ForkedFrame ==
  ASSUME IInv, NEW t \in Threads, NewChild \in Children, NEW p \in FreePids,
         NEW f \in CallFrame, call' = [call EXCEPT ![t] = f], f.child = NewChild,
         \/ /\ f.pc = "store" /\ call[t].pc = "fork" /\ f.slot = call[t].slot
            /\ Born(NewChild, p, "blocked", "table")
         \/ /\ f.pc = "waitpid" /\ call[t].pc = "idle" /\ Born(NewChild, p, "running", "foreign"),
         f.array \in {0, call[t].array}, f.probe => call[t].probe,
         UNCHANGED <<payloads, started, entry, linked, handler, open, efdpoll, efdpid,
                     ffd_extra_flags>>
  PROVE  IInv'
<1>1. /\ Types /\ HolderInv /\ EntryInv /\ BlockedInv /\ PidInv /\ ProbeInv /\ PayloadsAreOwn
  BY DEF IInv
<1>2. PICK s \in {"blocked", "running"}, k \in {"table", "foreign"} :
        /\ Born(NewChild, p, s, k)
        /\ f.pc = "store" => s = "blocked" /\ k = "table"
        /\ f.pc = "waitpid" => s = "running" /\ k = "foreign"
  OBVIOUS
<1>3. s \in State \ {"none", "reaped"} /\ k \in Kind \ {"none"}  BY <1>2 DEF State, Kind
<1>4. PICK c : c = NewChild /\ c \in Children  OBVIOUS
<1>5. /\ proc[c] = "none" /\ c \notin started /\ payloads[c] = <<>>
      /\ proc'[c] = s /\ kind'[c] = k
      /\ \A d \in Children : d # c => proc'[d] = proc[d] /\ kind'[d] = kind[d]
      /\ proc' \in [Children -> State] /\ pid' \in [Children -> Pids \cup {0}]
      /\ kind' \in [Children -> Kind]
      /\ \A r \in Slots : entry[r].pipe # c
      /\ EntryInv' /\ PidInv' /\ PayloadsAreOwn'
  BY <1>2, <1>3, <1>4, NewBorn
<1>6. \A u \in Threads : call'[u] = IF u = t THEN f ELSE call[u]  BY <1>1 DEF Types
<1>7. f.pc \in {"store", "waitpid"}  OBVIOUS
<1>8. Types'
  <2>1. DataTypes'  BY <1>1, <1>5 DEF DataTypes, Types
  <2>2. f.array <= linked' /\ linked <= linked'
    <3>1. linked \in Nat /\ call[t].array <= linked
      BY <1>1, ForkFdAssumption DEF Types, Arrays
    <3> QED BY <3>1
  <2>3. f.pc \in {"scan", "fork", "store"} => f.slot \in Slots  BY <1>1, <1>7 DEF Types
  <2> QED BY <1>1, <2>1, <2>2, <2>3, CallerTypes
<1>9. HolderInv'
  <2>1. \A u \in Threads : Fills(u)' => Fills(u) /\ call'[u].slot = call[u].slot
    BY <1>6 DEF Fills
  <2>2. \A u \in Threads : Empties(u)' => Empties(u) /\ handler'[u].slot = handler[u].slot
    BY DEF Empties
  <2> QED BY <1>1, <2>1, <2>2, HolderKept
<1>10. \A u \in Threads : Blocks(u) => call[u].child \in Children /\ call[u].child # c
  BY <1>1, <1>5 DEF BlockedInv
<1>11. \A u \in Threads : Blocks(u)' =>
          \/ u = t /\ f.pc = "store" /\ call'[u].child = c
          \/ u # t /\ Blocks(u) /\ call'[u] = call[u]
  BY <1>4, <1>6 DEF Blocks
<1>12. BlockedInv'
  <2>1. ASSUME NEW u \in Threads, Blocks(u)'
        PROVE  /\ call'[u].child \in Children
               /\ proc'[call'[u].child] = "blocked" /\ kind'[call'[u].child] = "table"
               /\ payloads'[call'[u].child] = <<>>
    <3>1. CASE u = t  BY <1>2, <1>4, <1>5, <1>11, <2>1, <3>1
    <3>2. CASE u # t
      <4>1. Blocks(u) /\ call'[u] = call[u]  BY <1>11, <2>1, <3>2
      <4>2. /\ call[u].child \in Children /\ call[u].child # c
            /\ proc[call[u].child] = "blocked" /\ kind[call[u].child] = "table"
            /\ payloads[call[u].child] = <<>>
        BY <1>1, <1>10, <4>1 DEF BlockedInv
      <4> QED BY <1>5, <4>1, <4>2
    <3> QED BY <3>1, <3>2
  <2>2. ASSUME NEW u \in Threads, NEW v \in Threads, Blocks(u)', Blocks(v)',
               call'[u].child = call'[v].child
        PROVE  u = v
    <3>1. \A x, y \in Threads : Blocks(x) /\ Blocks(y) /\ call[x].child = call[y].child => x = y
      BY <1>1 DEF BlockedInv
    <3> QED BY <1>10, <1>11, <2>2, <3>1
  <2>3. ASSUME NEW u \in Threads, call'[u].pc = "store", NEW r \in Slots
        PROVE  entry'[r].pipe # call'[u].child
    <3>1. CASE u = t  BY <1>4, <1>5, <1>6, <3>1
    <3>2. CASE u # t  BY <1>1, <1>6, <2>3, <3>2 DEF BlockedInv
    <3> QED BY <3>1, <3>2
  <2>4. ASSUME NEW u \in Threads, call'[u].pc = "waitpid"
        PROVE  call'[u].child \in Children /\ kind'[call'[u].child] = "foreign"
    <3>1. CASE u = t  BY <1>2, <1>4, <1>5, <1>6, <2>4, <3>1
    <3>2. CASE u # t
      <4>1. call'[u] = call[u] /\ call[u].pc = "waitpid"  BY <1>6, <2>4, <3>2
      <4>2. call[u].child \in Children /\ kind[call[u].child] = "foreign"
        BY <1>1, <4>1 DEF BlockedInv
      <4>3. kind[c] = "none"  BY <1>1, <1>4, <1>5 DEF PidInv
      <4> QED BY <1>5, <4>1, <4>2, <4>3
    <3> QED BY <3>1, <3>2
  <2> QED BY <2>1, <2>2, <2>3, <2>4 DEF BlockedInv
<1>13. ProbeInv'
  <2>1. ~Probes(t)  BY DEF Probes
  <2>2. f.pc \notin {"poll", "readPid", "discard"}  BY <1>7
  <2>3. f.pc \in {"store", "release"} => f.child \notin started  BY <1>4, <1>5
  <2>4. f.probe => t = Main /\ ffd_extra_flags' = "unknown"
    BY <1>1 DEF ProbeInv, OnlyMainProbes
  <2>5. \A d \in Children : proc'[d] = "probing" => proc[d] = "probing"  BY <1>2, <1>5
  <2>6. \A d \in Children : proc[d] \notin {"none", "blocked"} =>
           proc'[d] \notin {"none", "blocked"}
    BY <1>5
  <2> QED BY <1>1, <2>1, <2>2, <2>3, <2>4, <2>5, <2>6, ProbeMoves
<1> QED BY <1>1, <1>5, <1>8, <1>9, <1>12, <1>13 DEF IInv

LEMMA ForkBlockedStep ==
  ASSUME IInv, NEW t \in Threads, ForkBlocked(t)
  PROVE  IInv'
<1>1. PICK p \in FreePids : Born(NewChild, p, "blocked", "table")  BY DEF ForkBlocked
<1>2. call' = [call EXCEPT ![t].pc = "store", ![t].child = NewChild]  BY DEF ForkBlocked
<1>6. /\ NewChild \in Children /\ call[t].pc = "fork"
      /\ UNCHANGED <<payloads, started, entry, linked, handler, open, efdpoll, efdpid,
                     ffd_extra_flags>>
  BY DEF ForkBlocked, tableVars, probeVars
<1>3. PICK c : c = NewChild /\ c \in Children  BY <1>6
<1>4. call \in [Threads -> CallFrame]  BY DEF IInv, Types
<1>5. PICK f : /\ f = [call[t] EXCEPT !.pc = "store", !.child = c] /\ f \in CallFrame
               /\ f.pc = "store" /\ f.child = c /\ f.slot = call[t].slot
               /\ f.array = call[t].array /\ f.probe = call[t].probe
               /\ call' = [call EXCEPT ![t] = f]
  <2>1. call[t] \in CallFrame  BY <1>4
  <2>2. [call[t] EXCEPT !.pc = "store", !.child = c] \in CallFrame
    BY <1>3, <2>1 DEF CallFrame, CallPc
  <2>3. call' = [call EXCEPT ![t] = [call[t] EXCEPT !.pc = "store", !.child = c]]
    BY <1>2, <1>3, <1>4
  <2> QED BY <2>1, <2>2, <2>3 DEF CallFrame
<1> QED BY <1>1, <1>3, <1>5, <1>6, ForkedFrame

LEMMA ForkForeignStep ==
  ASSUME IInv, ForkForeign
  PROVE  IInv'
<1>0. Main \in Threads  BY ForkFdAssumption
<1>1. PICK p \in FreePids : Born(NewChild, p, "running", "foreign")  BY DEF ForkForeign
<1>2. /\ NewChild \in Children /\ call[Main].pc = "idle"
      /\ call' = [call EXCEPT ![Main] = [NoCall EXCEPT !.pc = "waitpid", !.child = NewChild]]
      /\ UNCHANGED <<payloads, started, entry, linked, handler, open, efdpoll, efdpid,
                     ffd_extra_flags>>
  BY DEF ForkForeign, tableVars, probeVars
<1>3. PICK c : c = NewChild /\ c \in Children  BY <1>2
<1>4. PICK f : /\ f = [NoCall EXCEPT !.pc = "waitpid", !.child = c] /\ f \in CallFrame
               /\ f.pc = "waitpid" /\ f.child = c /\ f.array = 0 /\ f.probe = FALSE
               /\ call' = [call EXCEPT ![Main] = f]
  BY <1>2, <1>3, NoFrames DEF NoCall, CallFrame, CallPc
<1> QED BY <1>0, <1>1, <1>2, <1>3, <1>4, ForkedFrame

\* The descriptor of a child goes back to the caller, who may be asking it.
LEMMA ProbeGivesBack ==
  ASSUME ProbeInv, Types, NEW t \in Threads, NEW c \in Children, GiveBack(t, c),
         ~Probes(t), ~Blocks(t) \/ call[t].child = c,
         proc[c] \in {"none", "blocked"}, c \notin started,
         \A u \in Threads : u # t /\ Blocks(u) => call[u].child # c,
         started' = IF call[t].probe THEN started ELSE started \cup {c},
         proc' = [proc EXCEPT ![c] = IF call[t].probe THEN "probing" ELSE "running"],
         UNCHANGED <<efdpoll, efdpid, ffd_extra_flags>>
  PROVE  ProbeInv'
<1>1. OnlyMainProbes /\ HasProbed /\ IsProbed /\ AnswersCount /\ NothingAsked /\ OpenRuns
      /\ BlockedWaits /\ Main \in Threads
  BY ForkFdAssumption DEF ProbeInv
<1>2. PICK f \in CallFrame :
           /\ call' = [call EXCEPT ![t] = f]
           /\ f.array <= linked
           /\ call[t].probe => f.pc = "poll" /\ f.child = c /\ f.probe = TRUE
           /\ ~call[t].probe => f = NoCall
  BY GiveBackFrame
<1>3. NoCall.pc = "idle" /\ NoCall.probe = FALSE  BY DEF NoCall
<1>4. \A u \in Threads : call'[u] = IF u = t THEN f ELSE call[u]  BY <1>2 DEF Types
<1>5. /\ \A u \in Threads : u # t => (Probes(u)' <=> Probes(u)) /\ call'[u] = call[u]
      /\ Probes(t)' <=> call[t].probe
      /\ Probes(t)' => call'[t].pc = "poll" /\ call'[t].child = c /\ call'[t].probe
  <2>1. \A u \in Threads : u # t => (Probes(u)' <=> Probes(u)) /\ call'[u] = call[u]
    BY <1>4 DEF Probes
  <2>2. CASE call[t].probe  BY <1>2, <1>4, <2>1, <2>2 DEF Probes
  <2>3. CASE ~call[t].probe  BY <1>2, <1>3, <1>4, <2>1, <2>3 DEF Probes
  <2> QED BY <2>2, <2>3
<1>6. /\ proc'[c] = IF call[t].probe THEN "probing" ELSE "running"
      /\ \A d \in Children : d # c => proc'[d] = proc[d]
      /\ \A d \in Children : d # c => (d \in started' <=> d \in started)
      /\ c \in started' <=> ~call[t].probe
  BY DEF Types
<1>7. \A u \in Threads : Probes(u) =>
        u # t /\ call[u].child \in Children /\ call[u].child # c
  BY <1>1 DEF HasProbed
<1>8. call[t].probe => t = Main /\ ffd_extra_flags = "unknown" /\ efdpoll = "" /\ efdpid = ""
  BY <1>1 DEF OnlyMainProbes, NothingAsked
<1>9. OnlyMainProbes'
  <2> SUFFICES ASSUME NEW u \in Threads, call'[u].probe
               PROVE  u = Main /\ ffd_extra_flags' = "unknown"
    BY DEF OnlyMainProbes
  <2>1. CASE u = t
    <3>1. call[t].probe  BY <1>2, <1>3, <1>4, <2>1
    <3> QED BY <1>8, <2>1, <3>1
  <2>2. CASE u # t  BY <1>1, <1>5, <2>2 DEF OnlyMainProbes
  <2> QED BY <2>1, <2>2
<1>10. HasProbed'
  <2> SUFFICES ASSUME NEW u \in Threads, Probes(u)'
               PROVE  /\ call'[u].probe
                      /\ call'[u].child \in Children
                      /\ proc'[call'[u].child] \notin {"none", "blocked"}
    BY DEF HasProbed
  <2>1. CASE u = t
    <3>1. proc'[c] = "probing"  BY <1>5, <1>6, <2>1
    <3> QED BY <1>5, <2>1, <3>1
  <2>2. CASE u # t
    <3>1. Probes(u) /\ call'[u] = call[u]  BY <1>5, <2>2
    <3> QED BY <1>1, <1>6, <1>7, <3>1 DEF HasProbed
  <2> QED BY <2>1, <2>2
<1>11. IsProbed'
  <2> SUFFICES ASSUME NEW d \in Children, proc'[d] = "probing"
               PROVE  Probes(Main)' /\ call'[Main].child = d /\ d \notin started'
    BY DEF IsProbed
  <2>1. CASE d = c
    <3>1. call[t].probe  BY <1>6, <2>1
    <3> QED BY <1>5, <1>6, <1>8, <2>1, <3>1
  <2>2. CASE d # c
    <3>1. Probes(Main) /\ call[Main].child = d /\ d \notin started  BY <1>1, <1>6, <2>2 DEF IsProbed
    <3> QED BY <1>1, <1>5, <1>6, <1>7, <2>2, <3>1
  <2> QED BY <2>1, <2>2
<1>12. AnswersCount'
  <2> SUFFICES ASSUME NEW u \in Threads
               PROVE  /\ call'[u].pc = "poll" => efdpoll = "" /\ call'[u].child \notin started'
                      /\ call'[u].pc = "readPid" =>
                           (efdpid = "PidProperlyUpdated" <=> call'[u].child \in started')
                      /\ call'[u].pc = "discard" =>
                           /\ efdpoll # "PollWorks" \/ efdpid # ""
                           /\ call'[u].child \notin started'
    BY DEF AnswersCount
  <2>1. CASE u = t /\ call[t].probe
    <3>1. call'[u].pc = "poll" /\ call'[u].child = c  BY <1>5, <2>1
    <3> QED BY <1>6, <1>8, <2>1, <3>1
  <2>2. CASE u = t /\ ~call[t].probe
    <3>1. call'[u].pc = "idle"  BY <1>2, <1>3, <1>4, <2>2
    <3> QED BY <3>1
  <2>3. CASE u # t
    <3>1. call'[u] = call[u]  BY <1>5, <2>3
    <3>2. CASE Probes(u)
      <4>1. call[u].child \in started' <=> call[u].child \in started  BY <1>6, <1>7, <3>2
      <4> QED BY <1>1, <3>1, <4>1 DEF AnswersCount
    <3>3. CASE ~Probes(u)  BY <3>1, <3>3 DEF Probes
    <3> QED BY <3>2, <3>3
  <2> QED BY <2>1, <2>2, <2>3
<1>13. NothingAsked'
  <2>1. ~Probes(Main)' => ~Probes(Main)  BY <1>1, <1>5
  <2> QED BY <1>1, <2>1 DEF NothingAsked
<1>14. OpenRuns'
  <2> SUFFICES ASSUME NEW d \in open'
               PROVE  d \in started' \/ \E u \in Threads : Probes(u)' /\ call'[u].child = d
    BY DEF OpenRuns
  <2>1. open' = open \cup {c}  BY DEF GiveBack
  <2>2. CASE d = c /\ call[t].probe  BY <1>5, <2>2
  <2>3. CASE d = c /\ ~call[t].probe  BY <1>6, <2>3
  <2>4. CASE d # c
    <3>1. d \in open /\ d \in Children  BY <2>1, <2>4 DEF Types
    <3>2. CASE d \in started  BY <1>6, <2>4, <3>1, <3>2
    <3>3. CASE \E u \in Threads : Probes(u) /\ call[u].child = d
      <4>1. PICK u \in Threads : Probes(u) /\ call[u].child = d  BY <3>3
      <4>2. Probes(u)' /\ call'[u].child = d  BY <1>5, <1>7, <4>1
      <4> QED BY <4>2
    <3> QED BY <1>1, <3>1, <3>2, <3>3 DEF OpenRuns
  <2> QED BY <2>2, <2>3, <2>4
<1>15. BlockedWaits'
  <2> SUFFICES ASSUME NEW u \in Threads, Blocks(u)'  PROVE call'[u].child \notin started'
    BY DEF BlockedWaits
  <2>1. u # t
    <3>1. f.pc \notin {"store", "release"}  BY <1>2, <1>3
    <3> QED BY <1>4, <3>1 DEF Blocks
  <2>2. Blocks(u) /\ call'[u] = call[u] /\ call[u].child # c  BY <1>5, <2>1 DEF Blocks
  <2>3. call[u].child \notin started  BY <1>1, <2>2 DEF BlockedWaits
  <2> QED BY <2>2, <2>3
<1> QED BY <1>9, <1>10, <1>11, <1>12, <1>13, <1>14, <1>15 DEF ProbeInv

LEMMA GivesBack ==
  ASSUME IInv, NEW t \in Threads, NEW c \in Children, GiveBack(t, c),
         call[t].pc = "system" \/ (call[t].pc = "release" /\ call[t].child = c),
         proc[c] \in {"none", "blocked"}, c \notin started,
         \A u \in Threads : u # t /\ Blocks(u) => call[u].child # c,
         started' = IF call[t].probe THEN started ELSE started \cup {c},
         proc' = [proc EXCEPT ![c] = IF call[t].probe THEN "probing" ELSE "running"],
         pid' \in [Children -> Pids \cup {0}], kind' \in [Children -> Kind],
         \A d \in Children : d # c => kind'[d] = kind[d],
         kind[c] # "foreign",
         EntryInv', PidInv', PayloadsAreOwn',
         UNCHANGED <<entry, linked, handler, payloads, efdpoll, efdpid, ffd_extra_flags>>
  PROVE  IInv'
<1>1. /\ Types /\ HolderInv /\ EntryInv /\ BlockedInv /\ PidInv /\ ProbeInv /\ PayloadsAreOwn
  BY DEF IInv
<1>2. PICK f \in CallFrame :
           /\ call' = [call EXCEPT ![t] = f]
           /\ f.array <= linked
           /\ call[t].probe => f.pc = "poll" /\ f.child = c /\ f.probe = TRUE
           /\ ~call[t].probe => f = NoCall
  BY <1>1, GiveBackFrame
<1>3. f.pc \in {"poll", "idle"}  BY <1>2 DEF NoCall
<1>4. \A u \in Threads : call'[u] = IF u = t THEN f ELSE call[u]  BY <1>1, <1>2 DEF Types
<1>5. Types'
  <2>1. proc' \in [Children -> State]  BY <1>1 DEF Types, State
  <2>2. started' \subseteq Children /\ open' \subseteq Children  BY <1>1 DEF Types, GiveBack
  <2>3. DataTypes'  BY <1>1, <2>1, <2>2 DEF DataTypes, Types
  <2>4. f.array <= linked' /\ linked <= linked'
    <3>1. linked \in Nat  BY <1>1, ForkFdAssumption DEF Types, Arrays
    <3> QED BY <1>2, <3>1
  <2>5. f.pc \in {"scan", "fork", "store"} => f.slot \in Slots  BY <1>3
  <2> QED BY <1>1, <1>2, <2>3, <2>4, <2>5, CallerTypes
<1>6. \A u \in Threads : Fills(u)' \/ Blocks(u)' \/ call'[u].pc = "waitpid" =>
        u # t /\ call'[u] = call[u]
  BY <1>3, <1>4 DEF Fills, Blocks
<1>7. HolderInv'
  <2>1. \A u \in Threads : Fills(u)' => Fills(u) /\ call'[u].slot = call[u].slot
    BY <1>6 DEF Fills
  <2>2. \A u \in Threads : Empties(u)' => Empties(u) /\ handler'[u].slot = handler[u].slot
    BY DEF Empties
  <2> QED BY <1>1, <2>1, <2>2, HolderKept
<1>8. BlockedInv'
  <2>1. \A u \in Threads : Blocks(u)' =>
          Blocks(u) /\ call'[u].child = call[u].child /\ (call'[u].pc = "store" => call[u].pc = "store")
    BY <1>6 DEF Blocks
  <2>2. \A u \in Threads : call'[u].pc = "waitpid" =>
          call[u].pc = "waitpid" /\ call'[u].child = call[u].child
    BY <1>6
  <2>3. \A u \in Threads : Blocks(u)' =>
          proc'[call[u].child] = proc[call[u].child] /\ kind'[call[u].child] = kind[call[u].child]
          /\ payloads'[call[u].child] = payloads[call[u].child]
    <3> SUFFICES ASSUME NEW u \in Threads, Blocks(u)'
                 PROVE  /\ proc'[call[u].child] = proc[call[u].child]
                        /\ kind'[call[u].child] = kind[call[u].child]
      OBVIOUS
    <3>1. u # t /\ Blocks(u)  BY <1>6, <2>1
    <3>2. call[u].child \in Children /\ call[u].child # c  BY <1>1, <3>1 DEF BlockedInv
    <3>3. \A d \in Children : d # c => proc'[d] = proc[d]  BY <1>1 DEF Types
    <3> QED BY <3>2, <3>3
  <2>4. \A d \in Children : kind[d] = "foreign" => kind'[d] = "foreign"  OBVIOUS
  <2>5. \A r \in Slots : entry'[r].pipe \in {entry[r].pipe, 0}  OBVIOUS
  <2> QED BY <1>1, <2>1, <2>2, <2>3, <2>4, <2>5, BlockedKept
<1>9. ProbeInv'
  <2>1. ~Probes(t) /\ (~Blocks(t) \/ call[t].child = c)  BY DEF Probes, Blocks
  <2> QED BY <1>1, <2>1, ProbeGivesBack
<1> QED BY <1>5, <1>7, <1>8, <1>9 DEF IInv

LEMMA SystemForkfdStep ==
  ASSUME IInv, NEW t \in Threads, SystemForkfd(t)
  PROVE  IInv'
<1>1. /\ Types /\ BlockedInv /\ PidInv  BY DEF IInv
<1>2. PICK c : c = NewChild /\ c \in Children  BY DEF SystemForkfd
<1>3. PICK s : s = (IF call[t].probe THEN "probing" ELSE "running")  OBVIOUS
<1>4. PICK p \in FreePids : Born(c, p, s, "pidfd")  BY <1>2, <1>3 DEF SystemForkfd
<1>5. s \in State \ {"none", "reaped"} /\ "pidfd" \in Kind \ {"none"}  BY <1>3 DEF State, Kind
<1>6. /\ call[t].pc = "system" /\ GiveBack(t, c)
      /\ started' = IF call[t].probe THEN started ELSE started \cup {c}
      /\ UNCHANGED <<entry, linked, handler, payloads, efdpoll, efdpid, ffd_extra_flags>>
  BY <1>2 DEF SystemForkfd, tableVars, probeVars
<1>7. started' \subseteq started \cup {c}  BY <1>6
<1>8. /\ proc[c] = "none" /\ c \notin started
      /\ \A d \in Children : d # c => proc'[d] = proc[d] /\ kind'[d] = kind[d]
      /\ pid' \in [Children -> Pids \cup {0}] /\ kind' \in [Children -> Kind]
      /\ EntryInv' /\ PidInv' /\ PayloadsAreOwn'
  BY <1>2, <1>4, <1>5, <1>6, <1>7, NewBorn
<1>9. proc' = [proc EXCEPT ![c] = IF call[t].probe THEN "probing" ELSE "running"]
  BY <1>3, <1>4 DEF Born
<1>10. \A u \in Threads : u # t /\ Blocks(u) => call[u].child # c
  BY <1>1, <1>8 DEF BlockedInv
<1>11. kind[c] # "foreign"  BY <1>1, <1>2, <1>8 DEF PidInv
<1> QED BY <1>2, <1>6, <1>8, <1>9, <1>10, <1>11, GivesBack

LEMMA ReleaseChildStep ==
  ASSUME IInv, NEW t \in Threads, ReleaseChild(t)
  PROVE  IInv'
<1>1. /\ Types /\ HolderInv /\ EntryInv /\ BlockedInv /\ PidInv /\ ProbeInv /\ PayloadsAreOwn
  BY DEF IInv
<1>2. call[t].pc = "release" /\ Blocks(t)  BY DEF ReleaseChild, Blocks
<1>3. PICK c : c = call[t].child /\ c \in Children  BY <1>1, <1>2 DEF BlockedInv
<1>4. proc[c] = "blocked" /\ kind[c] = "table" /\ payloads[c] = <<>> /\ c \notin started
  BY <1>1, <1>2, <1>3 DEF BlockedInv, ProbeInv, BlockedWaits
<1>5. /\ GiveBack(t, c)
      /\ started' = IF call[t].probe THEN started ELSE started \cup {c}
      /\ UNCHANGED <<pid, kind, entry, linked, handler, payloads, efdpoll, efdpid, ffd_extra_flags>>
  BY <1>3 DEF ReleaseChild, tableVars, probeVars
<1>6. proc' = [proc EXCEPT ![c] = IF call[t].probe THEN "probing" ELSE "running"]
  BY <1>3 DEF ReleaseChild
<1>7. PICK s \in {"probing", "running"} :
        proc'[c] = s /\ \A d \in Children : d # c => proc'[d] = proc[d]
  BY <1>1, <1>3, <1>6 DEF Types
<1>8. \A u \in Threads : u # t /\ Blocks(u) => call[u].child # c
  BY <1>1, <1>2, <1>3 DEF BlockedInv
<1>9. EntryInv'
  <2>1. ChildrenLive  BY <1>4, <1>5, <1>7 DEF ChildrenLive
  <2>2. \A u \in Threads : handler'[u].pc \in {"reap", "notify"} => handler'[u] = handler[u]
    BY <1>5
  <2> QED BY <1>1, <1>5, <2>1, <2>2, EntryKept
<1>10. PidInv'
  <2>1. \A u \in Threads : handler'[u].pc \notin {"idle", "search"} => handler'[u].pid \in Pids
    BY <1>1, <1>5 DEF PidInv
  <2>2. \A d \in Children : Alive(d)' => Alive(d)  BY <1>4, <1>7 DEF Alive
  <2>3. \A d \in Children : proc'[d] = "none" <=> proc[d] = "none"  BY <1>4, <1>7
  <2>4. \A d \in Children : proc[d] = "none" /\ d \in started' => d \in started
    BY <1>4, <1>5
  <2> QED BY <1>1, <1>5, <2>1, <2>2, <2>3, <2>4, PidKept
<1>11. PayloadsAreOwn'
  <2>1. \A d \in Children : proc[d] = "reaped" /\ kind[d] = "table" =>
           proc'[d] = "reaped" /\ kind'[d] = "table"
    BY <1>4, <1>5, <1>7
  <2> QED BY <1>1, <1>5, <2>1, OwnKept
<1>12. pid' \in [Children -> Pids \cup {0}] /\ kind' \in [Children -> Kind]
  BY <1>1, <1>5 DEF Types
<1>13. /\ \A d \in Children : d # c => kind'[d] = kind[d]
       /\ kind[c] # "foreign" /\ proc[c] \in {"none", "blocked"}
       /\ call[t].pc = "release" /\ call[t].child = c
       /\ UNCHANGED <<entry, linked, handler, payloads, efdpoll, efdpid, ffd_extra_flags>>
  BY <1>2, <1>3, <1>4, <1>5
<1>14. /\ GiveBack(t, c) /\ c \notin started
       /\ started' = IF call[t].probe THEN started ELSE started \cup {c}
  BY <1>4, <1>5
<1> QED BY <1>3, <1>6, <1>8, <1>9, <1>10, <1>11, <1>12, <1>13, <1>14, GivesBack

---------------------------------------------------------------------------
(***************************************************************************)
(* Children run and end, and the probe.                                    *)
(***************************************************************************)
\* Children go on, end, or are reaped by those who wait for them outside of the
\* table, and a frame that has nothing to do with the table changes.
LEMMA ChildMoves ==
  ASSUME IInv, NEW t \in Threads, NEW f \in CallFrame, call' = [call EXCEPT ![t] = f],
         f = call[t] \/ (f.pc \in {"idle", "once", "poll", "readPid", "discard"} /\ f.array <= linked),
         proc' \in [Children -> State],
         \A c \in Children :
           \/ proc'[c] = proc[c]
           \/ proc[c] \in {"probing", "running"} /\ proc'[c] \in {"running", "zombie"}
           \/ proc[c] = "zombie" /\ proc'[c] = "reaped" /\ kind[c] # "table",
         started' \subseteq started \cup {c \in Children : proc[c] # "none"},
         open' \subseteq open,
         UNCHANGED <<pid, kind, payloads, entry, linked, handler>>,
         ProbeInv'
  PROVE  IInv'
<1>1. /\ Types /\ HolderInv /\ EntryInv /\ BlockedInv /\ PidInv /\ ProbeInv /\ PayloadsAreOwn
  BY DEF IInv
<1>2. \A u \in Threads : call'[u] = IF u = t THEN f ELSE call[u]  BY <1>1 DEF Types
<1>3. \A u \in Threads :
        Fills(u)' \/ Blocks(u)' \/ call'[u].pc = "waitpid" => call'[u] = call[u]
  BY <1>2 DEF Fills, Blocks
<1>4. Types'
  <2>1. started' \subseteq Children /\ open' \subseteq Children  BY <1>1 DEF Types
  <2>2. DataTypes'  BY <1>1, <2>1 DEF DataTypes, Types
  <2>3. f.array <= linked' /\ linked <= linked'
    <3>1. linked \in Nat /\ call[t].array <= linked
      BY <1>1, ForkFdAssumption DEF Types, Arrays
    <3> QED BY <3>1
  <2>4. f.pc \in {"scan", "fork", "store"} => f.slot \in Slots  BY <1>1 DEF Types
  <2> QED BY <1>1, <2>2, <2>3, <2>4, CallerTypes
<1>5. HolderInv'
  <2>1. \A u \in Threads : Fills(u)' => Fills(u) /\ call'[u].slot = call[u].slot
    BY <1>3 DEF Fills
  <2>2. \A u \in Threads : Empties(u)' => Empties(u) /\ handler'[u].slot = handler[u].slot
    BY DEF Empties
  <2> QED BY <1>1, <2>1, <2>2, HolderKept
<1>6. EntryInv'
  <2>1. ChildrenLive  BY DEF ChildrenLive
  <2> QED BY <1>1, <2>1, EntryKept
<1>7. BlockedInv'
  <2>1. \A u \in Threads : Blocks(u)' =>
          Blocks(u) /\ call'[u].child = call[u].child /\ (call'[u].pc = "store" => call[u].pc = "store")
    BY <1>3 DEF Blocks
  <2>2. \A u \in Threads : call'[u].pc = "waitpid" =>
          call[u].pc = "waitpid" /\ call'[u].child = call[u].child
    BY <1>3
  <2>3. \A u \in Threads : Blocks(u)' =>
          proc'[call[u].child] = proc[call[u].child] /\ kind'[call[u].child] = kind[call[u].child]
          /\ payloads'[call[u].child] = payloads[call[u].child]
    <3> SUFFICES ASSUME NEW u \in Threads, Blocks(u)'
                 PROVE  proc'[call[u].child] = proc[call[u].child]
      OBVIOUS
    <3>1. call[u].child \in Children /\ proc[call[u].child] = "blocked"
      BY <1>1, <2>1 DEF BlockedInv
    <3> QED BY <3>1
  <2> QED BY <1>1, <2>1, <2>2, <2>3, BlockedKept
<1>8. PidInv'
  <2>1. \A u \in Threads : handler'[u].pc \notin {"idle", "search"} => handler'[u].pid \in Pids
    BY <1>1 DEF PidInv
  <2>2. \A c \in Children : Alive(c)' => Alive(c)  BY DEF Alive
  <2>3. \A c \in Children : proc'[c] = "none" <=> proc[c] = "none"  OBVIOUS
  <2>4. \A c \in Children : proc[c] = "none" /\ c \in started' => c \in started  OBVIOUS
  <2> QED BY <1>1, <2>1, <2>2, <2>3, <2>4, PidKept
<1>9. PayloadsAreOwn'
  <2>1. \A c \in Children : proc[c] = "reaped" /\ kind[c] = "table" =>
           proc'[c] = "reaped" /\ kind'[c] = "table"
    OBVIOUS
  <2> QED BY <1>1, <2>1, OwnKept
<1> QED BY <1>4, <1>5, <1>6, <1>7, <1>8, <1>9 DEF IInv

\* The same while no frame changes.
LEMMA ChildAlone ==
  ASSUME IInv, call' = call, proc' \in [Children -> State],
         \A c \in Children :
           \/ proc'[c] = proc[c]
           \/ proc[c] \in {"probing", "running"} /\ proc'[c] \in {"running", "zombie"}
           \/ proc[c] = "zombie" /\ proc'[c] = "reaped" /\ kind[c] # "table",
         started' \subseteq started \cup {c \in Children : proc[c] # "none"},
         open' \subseteq open,
         UNCHANGED <<pid, kind, payloads, entry, linked, handler>>,
         ProbeInv'
  PROVE  IInv'
<1>1. Main \in Threads /\ call \in [Threads -> CallFrame]
  BY ForkFdAssumption DEF IInv, Types
<1>2. PICK f \in CallFrame : f = call[Main]  BY <1>1
<1>3. call' = [call EXCEPT ![Main] = f]  BY <1>1, <1>2
<1> QED BY <1>1, <1>2, <1>3, ChildMoves

LEMMA ExitStep ==
  ASSUME IInv, NEW c \in Children, Exit(c)
  PROVE  IInv'
<1>1. Types /\ ProbeInv  BY DEF IInv
<1>2. /\ proc[c] = "running" /\ proc' = [proc EXCEPT ![c] = "zombie"]
      /\ UNCHANGED <<pid, kind, payloads, started, entry, linked, call, handler, open, efdpoll,
                     efdpid, ffd_extra_flags>>
  BY DEF Exit, childVars, tableVars, probeVars
<1>3. proc' \in [Children -> State]  BY <1>1, <1>2 DEF Types, State
<1>4. \A d \in Children : proc'[d] = proc[d] \/ (proc[d] = "running" /\ proc'[d] = "zombie")
  BY <1>1, <1>2 DEF Types
<1>5. ProbeInv'  BY <1>1, <1>2, <1>4, ProbeKept
<1> QED BY <1>2, <1>3, <1>4, <1>5, ChildAlone

LEMMA WaitFdStep ==
  ASSUME IInv, NEW t \in Threads, WaitFd(t)
  PROVE  IInv'
<1>1. Types /\ ProbeInv  BY DEF IInv
<1>2. PICK c \in open : Collect(c)  BY DEF WaitFd
<1>3. c \in Children  BY <1>1 DEF Types
<1>4. UNCHANGED <<pid, kind, payloads, started, entry, linked, call, handler, efdpoll, efdpid,
                  ffd_extra_flags>>
  BY DEF WaitFd, childVars, tableVars, probeVars
<1>5. open' \subseteq open  BY <1>2 DEF Collect
<1>6. proc' \in [Children -> State]  BY <1>1, <1>2 DEF Types, State, Collect
<1>7. \A d \in Children :
        proc'[d] = proc[d] \/ (proc[d] = "zombie" /\ proc'[d] = "reaped" /\ kind[d] # "table")
  BY <1>1, <1>2, <1>3 DEF Types, Collect, Ended
<1>8. ProbeInv'  BY <1>1, <1>4, <1>5, <1>7, ProbeKept
<1> QED BY <1>4, <1>5, <1>6, <1>7, <1>8, ChildAlone

LEMMA WaitForeignStep ==
  ASSUME IInv, WaitForeign
  PROVE  IInv'
<1>1. Types /\ ProbeInv /\ BlockedInv /\ Main \in Threads  BY ForkFdAssumption DEF IInv
<1>2. call[Main].pc = "waitpid"  BY DEF WaitForeign
<1>3. PICK c : c = call[Main].child /\ c \in Children /\ kind[c] = "foreign"
  BY <1>1, <1>2 DEF BlockedInv
<1>4. /\ proc[c] = "zombie" /\ proc' = [proc EXCEPT ![c] = "reaped"]
      /\ call' = [call EXCEPT ![Main] = NoCall]
      /\ UNCHANGED <<pid, kind, payloads, started, entry, linked, handler, open, efdpoll, efdpid,
                     ffd_extra_flags>>
  BY <1>3 DEF WaitForeign, childVars, tableVars, probeVars
<1>5. proc' \in [Children -> State]  BY <1>1, <1>4 DEF Types, State
<1>6. \A d \in Children :
        proc'[d] = proc[d] \/ (proc[d] = "zombie" /\ proc'[d] = "reaped" /\ kind[d] # "table")
  BY <1>1, <1>3, <1>4 DEF Types
<1>7. PICK f \in CallFrame : f = NoCall /\ f.pc = "idle" /\ f.array = 0 /\ f.probe = FALSE
  BY NoFrames DEF NoCall
<1>8. f.array <= linked
  <2>1. linked \in Nat  BY <1>1, ForkFdAssumption DEF Types, Arrays
  <2> QED BY <1>7, <2>1
<1>9. ProbeInv'
  <2>1. ~Probes(Main)  BY <1>2 DEF Probes
  <2>2. \A d \in Children : proc'[d] = "probing" => proc[d] = "probing"  BY <1>6
  <2>3. \A d \in Children : proc[d] \notin {"none", "blocked"} =>
          proc'[d] \notin {"none", "blocked"}
    BY <1>6
  <2> QED BY <1>1, <1>4, <1>7, <2>1, <2>2, <2>3, ProbeMoves
<1> QED BY <1>1, <1>4, <1>5, <1>6, <1>7, <1>8, <1>9, ChildMoves

LEMMA OneProbes ==
  ASSUME ProbeInv, NEW t \in Threads, Probes(t)
  PROVE  /\ t = Main /\ ffd_extra_flags = "unknown"
         /\ call[t].child \in Children /\ proc[call[t].child] \notin {"none", "blocked"}
         /\ \A u \in Threads : Probes(u) \/ call[u].probe => u = t
BY ForkFdAssumption DEF ProbeInv, HasProbed, OnlyMainProbes

LEMMA AnswerProbeStep ==
  ASSUME IInv, NEW c \in Children, AnswerProbe(c)
  PROVE  IInv'
<1>1. /\ Types /\ ProbeInv /\ BlockedInv /\ Main \in Threads
      /\ OnlyMainProbes /\ HasProbed /\ IsProbed /\ AnswersCount /\ NothingAsked /\ OpenRuns
      /\ BlockedWaits
  BY ForkFdAssumption DEF IInv, ProbeInv
<1>2. /\ proc[c] = "probing" /\ efdpoll # ""
      /\ UNCHANGED <<pid, kind, payloads, entry, linked, call, handler, open, efdpoll,
                     ffd_extra_flags>>
  BY DEF AnswerProbe, tableVars
<1>3. Probes(Main) /\ call[Main].child = c /\ c \notin started  BY <1>1, <1>2 DEF IsProbed
<1>4. \A u \in Threads : Probes(u) => u = Main  BY <1>1, <1>3, OneProbes
<1>5. \A u \in Threads : (Probes(u)' <=> Probes(u)) /\ (Blocks(u)' <=> Blocks(u))
  BY <1>2 DEF Probes, Blocks
<1>6. CASE efdpoll = "PollWorks" /\ efdpid = ""
  <2>1. PICK good \in BOOLEAN :
          /\ efdpid' = IF good THEN "PidProperlyUpdated" ELSE "PidIncorrectlyCached"
          /\ proc' = [proc EXCEPT ![c] = IF good THEN "running" ELSE @]
          /\ started' = IF good THEN started \cup {c} ELSE started
    BY <1>6, Zenon DEF AnswerProbe
  <2>2. /\ proc'[c] = IF good THEN "running" ELSE "probing"
        /\ \A d \in Children : d # c => proc'[d] = proc[d]
    BY <1>1, <1>2, <2>1 DEF Types
  <2>3. proc' \in [Children -> State]  BY <1>1, <1>2, <2>1 DEF Types, State
  <2>4. \A d \in Children : proc'[d] = proc[d] \/ (proc[d] = "probing" /\ proc'[d] = "running")
    BY <1>2, <2>2
  <2>5. started' \subseteq started \cup {d \in Children : proc[d] # "none"}  BY <1>2, <2>1
  <2>6. call[Main].pc = "readPid"
    BY <1>1, <1>2, <1>3, <1>6 DEF AnswersCount, Probes
  <2>7. OnlyMainProbes'  BY <1>1, <1>2 DEF OnlyMainProbes
  <2>8. HasProbed'
    <3>1. \A d \in Children : proc[d] \notin {"none", "blocked"} =>
            proc'[d] \notin {"none", "blocked"}
      BY <2>4
    <3> QED BY <1>1, <1>2, <1>5, <3>1 DEF HasProbed
  <2>9. IsProbed'
    <3> SUFFICES ASSUME NEW d \in Children, proc'[d] = "probing"
                 PROVE  Probes(Main)' /\ call'[Main].child = d /\ d \notin started'
      BY DEF IsProbed
    <3>1. proc[d] = "probing"  BY <2>4
    <3>2. d = c  BY <1>1, <1>3, <3>1 DEF IsProbed
    <3>3. ~good  BY <2>2, <3>2
    <3> QED BY <1>1, <1>2, <1>3, <1>5, <2>1, <3>2, <3>3
  <2>10. AnswersCount'
    <3> SUFFICES ASSUME NEW u \in Threads, Probes(u)
                 PROVE  /\ call'[u].pc = "poll" => efdpoll' = "" /\ call'[u].child \notin started'
                        /\ call'[u].pc = "readPid" =>
                             (efdpid' = "PidProperlyUpdated" <=> call'[u].child \in started')
                        /\ call'[u].pc = "discard" =>
                             /\ efdpoll' # "PollWorks" \/ efdpid' # ""
                             /\ call'[u].child \notin started'
      BY <1>2 DEF AnswersCount, Probes
    <3>1. u = Main /\ call'[u].pc = "readPid" /\ call'[u].child = c  BY <1>2, <1>3, <1>4, <2>6
    <3>2. efdpid' = "PidProperlyUpdated" <=> c \in started'
      <4>1. CASE good  BY <2>1, <4>1
      <4>2. CASE ~good  BY <1>3, <2>1, <4>2
      <4> QED BY <4>1, <4>2
    <3> QED BY <3>1, <3>2
  <2>11. NothingAsked'  BY <1>1, <1>2, <1>3, <1>5 DEF NothingAsked
  <2>12. started \subseteq started'  BY <2>1
  <2>13. OpenRuns'  BY <1>1, <1>2, <1>5, <2>12 DEF OpenRuns
  <2>14. BlockedWaits'
    <3> SUFFICES ASSUME NEW u \in Threads, Blocks(u)  PROVE call[u].child \notin started'
      BY <1>2, <1>5 DEF BlockedWaits
    <3>1. call[u].child # c  BY <1>1, <1>2 DEF BlockedInv
    <3>2. call[u].child \notin started  BY <1>1 DEF BlockedWaits
    <3> QED BY <2>1, <3>1, <3>2
  <2>15. ProbeInv'  BY <2>7, <2>8, <2>9, <2>10, <2>11, <2>13, <2>14 DEF ProbeInv
  <2> QED BY <1>2, <2>3, <2>4, <2>5, <2>15, ChildAlone
<1>7. CASE ~(efdpoll = "PollWorks" /\ efdpid = "")
  <2>1. /\ proc' = [proc EXCEPT ![c] = "zombie"] /\ UNCHANGED <<efdpid, started>>
    BY <1>7, Zenon DEF AnswerProbe
  <2>2. proc' \in [Children -> State]  BY <1>1, <2>1 DEF Types, State
  <2>3. \A d \in Children : proc'[d] = proc[d] \/ (proc[d] = "probing" /\ proc'[d] = "zombie")
    BY <1>1, <1>2, <2>1 DEF Types
  <2>4. ProbeInv'  BY <1>1, <1>2, <2>1, <2>3, ProbeKept
  <2>5. started' \subseteq started \cup {d \in Children : proc[d] # "none"}  BY <2>1
  <2> QED BY <1>2, <2>2, <2>3, <2>4, <2>5, ChildAlone
<1> QED BY <1>6, <1>7

\* poll() and the eventfds answer the one who asks.
LEMMA AskerMoves ==
  ASSUME ProbeInv, Types, NEW t \in Threads, NEW p \in {"readPid", "discard"}, Goto(t, p), Probes(t),
         p = "readPid" => efdpid = "" /\ call[t].child \notin started,
         p = "discard" => call[t].child \notin started
                          /\ (efdpoll' # "PollWorks" \/ efdpid # ""),
         efdpoll' # "", UNCHANGED <<proc, open, started, efdpid, ffd_extra_flags>>
  PROVE  ProbeInv'
<1>1. /\ OnlyMainProbes /\ HasProbed /\ IsProbed /\ AnswersCount /\ NothingAsked /\ OpenRuns
      /\ BlockedWaits
  BY DEF ProbeInv
<1>2. PICK f : /\ f = [call[t] EXCEPT !.pc = p] /\ f \in CallFrame /\ f.pc = p
               /\ f.child = call[t].child /\ f.probe = call[t].probe
               /\ call' = [call EXCEPT ![t] = f]
               /\ \A u \in Threads : call'[u] = IF u = t THEN f ELSE call[u]
  BY DEF Types, CallFrame, CallPc, Goto
<1>3. \A u \in Threads : (Probes(u)' <=> Probes(u)) /\ call'[u].child = call[u].child
                         /\ call'[u].probe = call[u].probe
  BY <1>2 DEF Probes
<1>4. t = Main /\ \A u \in Threads : Probes(u) => u = t  BY OneProbes
<1>5. OnlyMainProbes'  BY <1>1, <1>3 DEF OnlyMainProbes
<1>6. HasProbed'  BY <1>1, <1>3 DEF HasProbed
<1>7. IsProbed'  BY <1>1, <1>3, <1>4 DEF IsProbed
<1>8. AnswersCount'
  <2> SUFFICES ASSUME NEW u \in Threads, Probes(u)
               PROVE  /\ call'[u].pc = "poll" => efdpoll' = "" /\ call'[u].child \notin started'
                      /\ call'[u].pc = "readPid" =>
                           (efdpid' = "PidProperlyUpdated" <=> call'[u].child \in started')
                      /\ call'[u].pc = "discard" =>
                           /\ efdpoll' # "PollWorks" \/ efdpid' # ""
                           /\ call'[u].child \notin started'
    BY <1>3 DEF AnswersCount, Probes
  <2>1. call'[u].pc = p /\ call'[u].child = call[t].child  BY <1>2, <1>4
  <2> QED BY <2>1
<1>9. NothingAsked'  BY <1>3, <1>4 DEF NothingAsked
<1>10. OpenRuns'  BY <1>1, <1>3 DEF OpenRuns
<1>11. BlockedWaits'
  <2>1. \A u \in Threads : Blocks(u)' => Blocks(u)  BY <1>2 DEF Blocks
  <2> QED BY <1>1, <1>3, <2>1 DEF BlockedWaits
<1> QED BY <1>5, <1>6, <1>7, <1>8, <1>9, <1>10, <1>11 DEF ProbeInv

LEMMA AskerStep ==
  ASSUME IInv, NEW t \in Threads, NEW p \in {"readPid", "discard"}, Goto(t, p), ProbeInv',
         UNCHANGED <<proc, pid, kind, payloads, started, entry, linked, handler, open>>
  PROVE  IInv'
<1>1. Types  BY DEF IInv
<1>2. PICK f : /\ f = [call[t] EXCEPT !.pc = p] /\ f \in CallFrame /\ f.pc = p
               /\ f.array = call[t].array
               /\ call' = [call EXCEPT ![t] = f]
  BY <1>1 DEF Types, CallFrame, CallPc, Goto
<1>3. f.array <= linked  BY <1>1, <1>2 DEF Types
<1>4. proc' \in [Children -> State]  BY <1>1 DEF Types
<1> QED BY <1>2, <1>3, <1>4, ChildMoves

LEMMA PollStep ==
  ASSUME IInv, NEW t \in Threads, Poll(t)
  PROVE  IInv'
<1>1. Types /\ ProbeInv  BY DEF IInv
<1>2. call[t].pc = "poll" /\ Probes(t)  BY DEF Poll, Probes
<1>3. UNCHANGED <<proc, pid, kind, payloads, started, entry, linked, handler, open, efdpid,
                  ffd_extra_flags>>
  BY DEF Poll, kernelVars, childVars, tableVars
<1>4. PICK ready \in BOOLEAN :
        /\ efdpoll' = IF ready THEN "PollFails" ELSE "PollWorks"
        /\ Goto(t, IF ready THEN "discard" ELSE "readPid")
  BY Zenon DEF Poll
<1>5. efdpoll = "" /\ efdpid = "" /\ call[t].child \notin started
  BY <1>1, <1>2 DEF ProbeInv, AnswersCount, NothingAsked
<1>6. PICK p \in {"readPid", "discard"} :
        /\ Goto(t, p) /\ efdpoll' # "" /\ (p = "discard" => efdpoll' # "PollWorks")
  <2>1. CASE ready  BY <1>4, <2>1
  <2>2. CASE ~ready  BY <1>4, <2>2
  <2> QED BY <2>1, <2>2
<1>7. ProbeInv'  BY <1>1, <1>2, <1>3, <1>5, <1>6, AskerMoves
<1> QED BY <1>3, <1>6, <1>7, AskerStep

\* The call returns, its child being one that runs the test; or it goes on.
LEMMA ReadPidStep ==
  ASSUME IInv, NEW t \in Threads, ReadPid(t)
  PROVE  IInv'
<1>1. Types /\ ProbeInv  BY DEF IInv
<1>2. call[t].pc = "readPid" /\ Probes(t) /\ efdpid # ""  BY DEF ReadPid, Probes
<1>3. UNCHANGED <<proc, pid, kind, payloads, started, entry, linked, handler, open, efdpoll, efdpid>>
  BY DEF ReadPid, kernelVars, childVars, tableVars
<1>4. /\ OnlyMainProbes /\ HasProbed /\ IsProbed /\ AnswersCount /\ NothingAsked /\ OpenRuns
      /\ BlockedWaits
  BY <1>1 DEF ProbeInv
<1>5. PICK c : c = call[t].child /\ c \in Children  BY <1>2, <1>4 DEF HasProbed
<1>6. efdpid = "PidProperlyUpdated" <=> c \in started  BY <1>2, <1>4, <1>5 DEF AnswersCount
<1>7. efdpoll # ""  BY <1>2, <1>4 DEF NothingAsked
<1>8. t = Main /\ \A u \in Threads : Probes(u) \/ call[u].probe => u = t
  BY <1>1, <1>2, OneProbes
<1>9. CASE efdpid = "PidProperlyUpdated"
  <2>1. ffd_extra_flags' = "none" /\ call' = [call EXCEPT ![t] = NoCall]
    BY <1>9, Zenon DEF ReadPid
  <2>2. PICK f \in CallFrame : f = NoCall /\ f.pc = "idle" /\ f.array = 0 /\ f.probe = FALSE
    BY NoFrames DEF NoCall
  <2>3. \A u \in Threads : call'[u] = IF u = t THEN f ELSE call[u]
    BY <1>1, <2>1, <2>2 DEF Types
  <2>4. \A u \in Threads : ~Probes(u)' /\ ~call'[u].probe /\ (Probes(u) => u = t)
    <3>1. ASSUME NEW u \in Threads  PROVE ~Probes(u)' /\ ~call'[u].probe
      <4>1. CASE u = t  BY <2>2, <2>3, <4>1 DEF Probes
      <4>2. CASE u # t
        <5>1. ~Probes(u) /\ ~call[u].probe  BY <1>8, <4>2
        <5> QED BY <2>3, <4>2, <5>1 DEF Probes
      <4> QED BY <4>1, <4>2
    <3> QED BY <1>8, <3>1
  <2>5. \A d \in Children : proc[d] # "probing"
    BY <1>4, <1>5, <1>6, <1>8, <1>9 DEF IsProbed
  <2>6. OnlyMainProbes' /\ HasProbed' /\ IsProbed'
    BY <1>3, <2>4, <2>5 DEF OnlyMainProbes, HasProbed, IsProbed
  <2>7. AnswersCount'  BY <2>4 DEF AnswersCount, Probes
  <2>8. NothingAsked'  BY <1>3, <1>7, <2>1 DEF NothingAsked
  <2>9. OpenRuns'
    <3>1. \A d \in open : d \in started
      BY <1>4, <1>5, <1>6, <1>9, <2>4 DEF OpenRuns
    <3> QED BY <1>3, <3>1 DEF OpenRuns
  <2>10. BlockedWaits'
    <3>1. \A u \in Threads : Blocks(u)' => Blocks(u) /\ call'[u] = call[u]
      BY <2>2, <2>3 DEF Blocks
    <3> QED BY <1>3, <1>4, <3>1 DEF BlockedWaits
  <2>11. ProbeInv'  BY <2>6, <2>7, <2>8, <2>9, <2>10 DEF ProbeInv
  <2>12. f.array <= linked
    <3>1. linked \in Nat  BY <1>1, ForkFdAssumption DEF Types, Arrays
    <3> QED BY <2>2, <3>1
  <2>13. proc' \in [Children -> State]  BY <1>1, <1>3 DEF Types
  <2> QED BY <1>3, <2>1, <2>2, <2>11, <2>12, <2>13, ChildMoves
<1>10. CASE efdpid # "PidProperlyUpdated"
  <2>1. Goto(t, "discard") /\ ffd_extra_flags' = ffd_extra_flags  BY <1>10, Zenon DEF ReadPid
  <2>2. call[t].child \notin started  BY <1>5, <1>6, <1>10
  <2>3. ProbeInv'  BY <1>1, <1>2, <1>3, <1>7, <2>1, <2>2, AskerMoves
  <2> QED BY <1>3, <2>1, <2>3, AskerStep
<1> QED BY <1>9, <1>10

\* The child of a probe that failed has ended; the call starts again.
LEMMA DiscardProbeStep ==
  ASSUME IInv, NEW t \in Threads, DiscardProbe(t)
  PROVE  IInv'
<1>1. Types /\ ProbeInv /\ PayloadsAreOwn  BY DEF IInv
<1>2. call[t].pc = "discard" /\ Probes(t)  BY DEF DiscardProbe, Probes
<1>3. UNCHANGED <<pid, kind, payloads, started, entry, linked, handler, efdpoll, efdpid>>
  BY DEF DiscardProbe, childVars, tableVars
<1>4. /\ OnlyMainProbes /\ HasProbed /\ IsProbed /\ AnswersCount /\ NothingAsked /\ OpenRuns
      /\ BlockedWaits
  BY <1>1 DEF ProbeInv
<1>5. PICK c : c = call[t].child /\ c \in Children  BY <1>2, <1>4 DEF HasProbed
<1>6. Collect(c)  BY <1>5 DEF DiscardProbe
<1>7. t = Main /\ \A u \in Threads : Probes(u) \/ call[u].probe => u = t
  BY <1>1, <1>2, OneProbes
<1>8. proc' \in [Children -> State]  BY <1>1, <1>6 DEF Types, State, Collect
<1>9. \A d \in Children :
        proc'[d] = proc[d] \/ (proc[d] = "zombie" /\ proc'[d] = "reaped" /\ kind[d] # "table")
  BY <1>1, <1>5, <1>6 DEF Types, Collect, Ended
<1>10. proc'[c] = "reaped"
  <2>1. CASE kind[c] = "pidfd"  BY <1>1, <1>5, <1>6, <2>1 DEF Types, Collect
  <2>2. CASE kind[c] # "pidfd"
    <3>1. payloads[c] # <<>> /\ proc' = proc  BY <1>6, <2>2 DEF Collect, Ended
    <3> QED BY <1>1, <1>5, <3>1 DEF PayloadsAreOwn
  <2> QED BY <2>1, <2>2
<1>11. open' = open \ {c}  BY <1>6 DEF Collect
<1>12. ffd_extra_flags' = "USE_FORK" /\ call' = [call EXCEPT ![t] = [NoCall EXCEPT !.pc = "once"]]
  BY DEF DiscardProbe
<1>13. PICK f \in CallFrame : /\ f.pc = "once" /\ f.array = 0 /\ f.probe = FALSE
                              /\ call' = [call EXCEPT ![t] = f]
  <2>1. [NoCall EXCEPT !.pc = "once"] \in CallFrame  BY NoFrames DEF CallFrame, CallPc
  <2> QED BY <1>12, <2>1 DEF NoCall
<1>14. \A u \in Threads : call'[u] = IF u = t THEN f ELSE call[u]  BY <1>1, <1>13 DEF Types
<1>15. \A u \in Threads : ~Probes(u)' /\ ~call'[u].probe
  <2> SUFFICES ASSUME NEW u \in Threads  PROVE ~Probes(u)' /\ ~call'[u].probe
    OBVIOUS
  <2>1. CASE u = t  BY <1>13, <1>14, <2>1 DEF Probes
  <2>2. CASE u # t
    <3>1. ~Probes(u) /\ ~call[u].probe  BY <1>7, <2>2
    <3> QED BY <1>14, <2>2, <3>1 DEF Probes
  <2> QED BY <2>1, <2>2
<1>16. ProbeInv'
  <2>1. \A d \in Children : proc'[d] # "probing"
    <3> SUFFICES ASSUME NEW d \in Children, proc'[d] = "probing"  PROVE FALSE
      OBVIOUS
    <3>1. proc[d] = "probing"  BY <1>9
    <3>2. d = c  BY <1>4, <1>5, <1>7, <3>1 DEF IsProbed
    <3> QED BY <1>10, <3>2
  <2>2. OnlyMainProbes' /\ HasProbed' /\ IsProbed'
    BY <1>15, <2>1 DEF OnlyMainProbes, HasProbed, IsProbed
  <2>3. AnswersCount'  BY <1>15 DEF AnswersCount, Probes
  <2>4. NothingAsked'  BY <1>3, <1>4, <1>12 DEF NothingAsked
  <2>5. OpenRuns'
    <3> SUFFICES ASSUME NEW d \in open'  PROVE d \in started
      BY <1>3 DEF OpenRuns
    <3>1. d \in open /\ d # c  BY <1>11
    <3> QED BY <1>4, <1>5, <1>7, <3>1 DEF OpenRuns
  <2>6. BlockedWaits'
    <3>1. \A u \in Threads : Blocks(u)' => Blocks(u) /\ call'[u] = call[u]
      BY <1>13, <1>14 DEF Blocks
    <3> QED BY <1>3, <1>4, <3>1 DEF BlockedWaits
  <2> QED BY <2>2, <2>3, <2>4, <2>5, <2>6 DEF ProbeInv
<1>17. f.array <= linked
  <2>1. linked \in Nat  BY <1>1, ForkFdAssumption DEF Types, Arrays
  <2> QED BY <1>13, <2>1
<1>18. open' \subseteq open  BY <1>11
<1> QED BY <1>3, <1>8, <1>9, <1>13, <1>16, <1>17, <1>18, ChildMoves

---------------------------------------------------------------------------
(***************************************************************************)
(* All steps.                                                              *)
(***************************************************************************)
LEMMA InitIInv == Init => IInv
<1> SUFFICES ASSUME Init  PROVE IInv
  OBVIOUS
<1>1. Main \in Threads  BY ForkFdAssumption
<1>2. /\ proc = [c \in Children |-> "none"] /\ pid = [c \in Children |-> 0]
      /\ kind = [c \in Children |-> "none"] /\ payloads = [c \in Children |-> <<>>]
      /\ started = {} /\ open = {} /\ entry = [s \in Slots |-> Unused] /\ linked = 0
      /\ efdpoll = "" /\ efdpid = ""
      /\ call = [t \in Threads |-> NoCall] /\ handler = [t \in Threads |-> NoHandler]
  BY DEF Init
<1>3. \A t \in Threads : /\ call[t].pc = "idle" /\ call[t].array = 0 /\ call[t].probe = FALSE
                         /\ handler[t].pc = "idle"
  BY <1>2 DEF NoCall, NoHandler
<1>4. \A s \in Slots : entry[s].pid = Free /\ entry[s].pipe = 0  BY <1>2 DEF Unused
<1>5. Types
  <2>1. Unused \in Entry  BY DEF Unused, Entry
  <2>2. 0 \in Arrays  BY ForkFdAssumption DEF Arrays
  <2>3. call \in [Threads -> CallFrame] /\ handler \in [Threads -> HandlerFrame]
    BY <1>2, NoFrames
  <2>4. \A t \in Threads :
          /\ call[t].array <= linked
          /\ call[t].pc \in {"scan", "fork", "store"} => call[t].slot \in Slots
          /\ handler[t].pc \notin {"idle", "search"} => handler[t].slot \in Slots
    <3>1. linked = 0  BY <1>2
    <3>2. \A t \in Threads : call[t].array <= linked  BY <1>3, <3>1
    <3> QED BY <1>3, <3>2
  <2>5. proc \in [Children -> State] /\ kind \in [Children -> Kind]
    <3>1. "none" \in State /\ "none" \in Kind  BY DEF State, Kind
    <3> QED BY <1>2, <3>1
  <2>6. pid \in [Children -> Pids \cup {0}] /\ payloads \in [Children -> Seq(Children)]
        /\ entry \in [Slots -> Entry]
    <3>1. <<>> \in Seq(Children)  OBVIOUS
    <3>2. 0 \in Pids \cup {0}  OBVIOUS
    <3> QED BY <1>2, <2>1, <3>1, <3>2
  <2> QED BY <1>2, <2>2, <2>3, <2>4, <2>5, <2>6 DEF Types
<1>6. HolderInv
  <2>1. \A t \in Threads : ~Fills(t) /\ ~Empties(t)  BY <1>3 DEF Fills, Empties
  <2> QED BY <2>1 DEF HolderInv, FilledIsBusy, EmptiedIsBusy, OneFills, OneEmpties
<1>7. EntryInv  BY <1>3, <1>4 DEF EntryInv
<1>8. BlockedInv  BY <1>3 DEF BlockedInv, Blocks
<1>9. PidInv
  <2>1. \A c \in Children : proc[c] # "none" <=> c <= 0
    <3>1. \A c \in Children : proc[c] = "none"  BY <1>2
    <3>2. \A c \in Children : ~(c <= 0)  BY ChildNumbers
    <3> QED BY <3>1, <3>2
  <2>2. 0 \in 0 .. Cardinality(Children)  BY ChildNumbers
  <2>3. \A c \in Children : proc[c] = "none" /\ payloads[c] = <<>> /\ kind[c] = "none"
                            /\ c \notin started
    BY <1>2
  <2> QED BY <1>3, <2>1, <2>2, <2>3 DEF PidInv, Alive
<1>10. ProbeInv
  <2>1. \A t \in Threads : ~Probes(t) /\ ~Blocks(t)  BY <1>3 DEF Probes, Blocks
  <2>2. \A c \in Children : proc[c] # "probing"  BY <1>2
  <2> QED BY <1>2, <1>3, <2>1, <2>2 DEF ProbeInv, OnlyMainProbes, HasProbed, IsProbed,
            AnswersCount, NothingAsked, OpenRuns, BlockedWaits, Probes
<1>11. PayloadsAreOwn  BY <1>2 DEF PayloadsAreOwn
<1> QED BY <1>5, <1>6, <1>7, <1>8, <1>9, <1>10, <1>11 DEF IInv

LEMMA HandlerSteps ==
  ASSUME IInv, NEW t \in Threads, Deliver(t) \/ HandlerStep(t)
  PROVE  IInv'
<1>1. CASE Deliver(t) \/ WaitidAll(t) \/ LoadEntry(t) \/ IsChildReady(t) \/ Uncount(t)
  BY <1>1, QuietHandlerSteps
<1>2. CASE MatchEntry(t) \/ TakeEntry(t)
  <2>1. CASE entry' = entry  BY <1>2, <2>1, QuietHandlerSteps
  <2>2. CASE entry' # entry  BY <1>2, <2>2, TakeStep
  <2> QED BY <2>1, <2>2
<1>3. CASE TryReaping(t)
  <2>1. CASE Zombie(handler[t].pid) = {}  BY <1>3, <2>1, QuietHandlerSteps
  <2>2. CASE Zombie(handler[t].pid) # {}  BY <1>3, <2>2, ReapStep
  <2> QED BY <2>1, <2>2
<1>4. CASE Notify(t)  BY <1>4, NotifyStep
<1>5. CASE FreeEntry(t)  BY <1>5, FreeStep
<1> QED BY <1>1, <1>2, <1>3, <1>4, <1>5 DEF HandlerStep

LEMMA CallerSteps ==
  ASSUME IInv, NEW t \in Callers, CallerStep(t)
  PROVE  IInv'
<1>0. t \in Threads  BY ForkFdAssumption
<1>1. CASE \/ Call(t) \/ SystemForkfdFails(t) \/ InstallHandler(t) \/ SetStatus(t)
           \/ CountEntry(t) \/ UndoCount(t) \/ NextArray(t) \/ LinkArray(t) \/ OutOfMemory(t)
           \/ UncountFailed(t)
  BY <1>1, QuietSteps
<1>2. CASE ScanEntry(t)
  <2>1. CASE entry' = entry  BY <1>2, <2>1, QuietSteps
  <2>2. CASE entry' # entry  BY <1>0, <1>2, <2>2, ScanTakes
  <2> QED BY <2>1, <2>2
<1>3. CASE SystemForkfd(t)  BY <1>0, <1>3, SystemForkfdStep
<1>4. CASE ForkBlocked(t)   BY <1>0, <1>4, ForkBlockedStep
<1>5. CASE StorePid(t)      BY <1>0, <1>5, StorePidStep
<1>6. CASE ReleaseChild(t)  BY <1>0, <1>6, ReleaseChildStep
<1>7. CASE ForkFails(t)     BY <1>0, <1>7, ForkFailsStep
<1>8. CASE Poll(t)          BY <1>0, <1>8, PollStep
<1>9. CASE ReadPid(t)       BY <1>0, <1>9, ReadPidStep
<1>10. CASE DiscardProbe(t) BY <1>0, <1>10, DiscardProbeStep
<1>11. CASE WaitFd(t)       BY <1>0, <1>11, WaitFdStep
<1> QED BY <1>1, <1>2, <1>3, <1>4, <1>5, <1>6, <1>7, <1>8, <1>9, <1>10, <1>11
       DEF CallerStep, Forkfd

LEMMA Stuttering == IInv /\ UNCHANGED vars => IInv'
<1> SUFFICES ASSUME IInv, UNCHANGED vars  PROVE IInv'
  OBVIOUS
<1>1. UNCHANGED <<proc, pid, kind, payloads, started, entry, linked, call, handler, open, efdpoll,
                  efdpid, ffd_extra_flags>>
  BY DEF vars, kernelVars, childVars, tableVars, probeVars
<1>2. Types /\ ProbeInv  BY DEF IInv
<1>3. ProbeInv'  BY <1>1, <1>2, ProbeKept
<1>4. proc' \in [Children -> State]  BY <1>1, <1>2 DEF Types
<1> QED BY <1>1, <1>3, <1>4, ChildAlone

LEMMA NextIInv == IInv /\ [Next]_vars => IInv'
<1> SUFFICES ASSUME IInv, [Next]_vars  PROVE IInv'
  OBVIOUS
<1>1. ASSUME NEW t \in Callers, CallerStep(t)  PROVE IInv'
  BY <1>1, CallerSteps
<1>2. ASSUME NEW t \in Threads, Deliver(t) \/ HandlerStep(t)  PROVE IInv'
  BY <1>2, HandlerSteps
<1>3. CASE ForkForeign  BY <1>3, ForkForeignStep
<1>4. CASE WaitForeign  BY <1>4, WaitForeignStep
<1>5. ASSUME NEW c \in Children, AnswerProbe(c) \/ Exit(c)  PROVE IInv'
  BY <1>5, AnswerProbeStep, ExitStep
<1>6. CASE UNCHANGED vars  BY <1>6, Stuttering
<1> QED BY <1>1, <1>2, <1>3, <1>4, <1>5, <1>6 DEF Next

---------------------------------------------------------------------------

\* The invariant on which the properties rest: who works at an entry, what the
\* entry says of its child, whose number the kernel has given, and who asks.
THEOREM Invariance == Spec => []IInv
<1>1. Init => IInv  BY InitIInv
<1>2. IInv /\ [Next]_vars => IInv'  BY NextIInv
<1> QED BY <1>1, <1>2, PTL DEF Spec

\* However many handlers interrupt however many callers, and whether or not a number
\* is given again: forkfd() only reaps children of its table, and a death pipe gets
\* one payload, of its own child (reapChildProcesses(), notifyAndFreeInfo()).
THEOREM PayloadsOwn == Spec => []PayloadsAreOwn
<1>1. IInv => PayloadsAreOwn  BY DEF IInv
<1> QED BY <1>1, Invariance, PTL

\* On every kernel, a call_forkfd() that has returned has a child that runs the test,
\* and the child of a probe that failed never does (the loop of call_forkfd()).
THEOREM OneTest == Spec => []OneTestPerCall
<1>1. ASSUME IInv  PROVE OneTestPerCall
  <2>1. OpenRuns /\ AnswersCount  BY <1>1 DEF IInv, ProbeInv
  <2>2. ASSUME NEW c \in Children, c \in open, \A t \in Threads : call[t].child # c
        PROVE  c \in started
    BY <2>1, <2>2 DEF OpenRuns
  <2>3. ASSUME NEW c \in Children, NEW t \in Threads, call[t].pc = "discard", call[t].child = c
        PROVE  c \notin started
    BY <2>1, <2>3 DEF AnswersCount
  <2> QED BY <2>2, <2>3 DEF OneTestPerCall
<1> QED BY <1>1, Invariance, PTL

=====
