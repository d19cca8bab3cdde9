---------------------------- MODULE MCMachineTests ----------------------------
(***************************************************************************)
(* The tests that come with the framework and use what the machine has       *)
(* beside its instructions: either those of KVM, the self tests and tests     *)
(* with memory and payloads at the limits; or the event monitors.            *)
(***************************************************************************)
EXTENDS Kvm, EventMonitors, TLC

\* Any guest with all handlers, and memory that is rounded up to 1 GB.
AnyGuest == [Config("prot64", 1023, "any", GuestExit) EXCEPT
               !.sets = GuestState, !.exit_handler = TRUE]
\* A payload of more than 1 MB fits, but its end is cleared: it cannot pass.
LongPayload == [Config("prot64", 4, "fail", {"hlt 0"}) EXCEPT !.payload = 2]
\* 1 GB is too much and becomes 6 MB: the payload does not fit.
TooLong     == [Config("prot64", 1024, "fail", {"hlt 0"}) EXCEPT !.payload = 4]
Nothing     == [Config("real16", 0, "fail", {"hlt 0"}) EXCEPT !.payload = 0]

Tests == KvmSelftests \cup {AnyGuest, LongPayload, TooLong, Nothing}

-----------------------------------------------------------------------------
(***************************************************************************)
(* Three CPUs of which one is not tested and may come and go, with counters  *)
(* about to wrap, in the three fork modes; a machine with EDAC and two memory *)
(* controllers; one without anything; and one with two slices.               *)
(***************************************************************************)
X86 ==
  [arch |-> "x86_64", cpus |-> <<0, 1, 2>>, movable |-> {1}, tested |-> <<0, 2>>, slices |-> <<{1, 2}>>,
   places |-> 0..2, counted |-> <<3, 0>> @@ (0 :> 1), smi |-> <<0, 1>> @@ (0 :> 0),
   interrupts |-> TRUE, msr |-> TRUE, fork_mode |-> "fork_each_test"]

\* CPU 1 comes online only after the start.
Late == [X86 EXCEPT !.cpus = <<0, 2>>, !.counted = <<0, 2>> @@ (0 :> 0)]

Edac ==
  [X86 EXCEPT !.arch = "aarch64", !.movable = {}, !.places = {"mc0", "mc1"},
              !.counted = [p \in {"mc0", "mc1"} |-> 1]]

Sliced == [X86 EXCEPT !.slices = <<{1}, {2}>>, !.movable = {}]

Executed(m) == [m EXCEPT !.fork_mode = "exec_each_test"]
InOne(m)    == [m EXCEPT !.fork_mode = "no_fork"]

MCMachines ==
  {X86, Late, Edac, Sliced, [X86 EXCEPT !.interrupts = FALSE], [X86 EXCEPT !.msr = FALSE, !.movable = {}]}
  \cup {Executed(X86), InOne(X86), InOne(Edac)}

-----------------------------------------------------------------------------
\* The variables of the tests that are not run have no meaning.
NoMonitors ==
  /\ host = [arch |-> "none"] /\ online = <<>> /\ mce = <<>> /\ smi = <<>> /\ thermal = 0
  /\ pc = "none" /\ tests = {} /\ main = Statics /\ children = <<>>
  /\ report = NoReport /\ hotplugs = 0 /\ runs = 0 /\ start = <<>> /\ last = <<>>

NoKvm ==
  /\ fork_mode = "none" /\ group = "" /\ kvm_fd = "closed" /\ test = Nothing /\ at = "none"
  /\ tests_left = 0 /\ ctx = NoParts /\ live = {} /\ made = 0 /\ prepared = {}
  /\ count = 0 /\ retry = FALSE /\ retries = 0 /\ time_up = FALSE
  /\ result = "success" /\ verdict = "" /\ met = {} /\ ran = FALSE

MCInit ==
  \/ Init /\ NoMonitors
  \/ MonitorInit /\ NoKvm

MCNext ==
  \/ at # "none" /\ Next /\ UNCHANGED mvars
  \/ pc # "none" /\ MonitorNext /\ UNCHANGED kvars

MCSpec == MCInit /\ [][MCNext]_<<kvars, mvars>>
=============================================================================
