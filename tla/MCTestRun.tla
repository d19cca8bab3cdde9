----------------------------- MODULE MCTestRun -----------------------------
(* Two tests share the total of retries; with retest_count = 2, there can   *)
(* be five attempts from the first failure on, one more than there are bits.*)
(* The environments other than the first are tried with one combination of  *)
(* the other options.                                                       *)
EXTENDS RunEnvironment, TLC

MCBudgets      == {-1, 0, 3, 5}
MCFatalOptions == {{}, {Failed}, {Skipped}}

\* Two CPUs in two packages; 800 MHz to 1.2 GHz gives four levels.
PlainMachine ==
  [cpus |-> 2, package |-> (0 :> 0 @@ 1 :> 1), governed |-> {0, 1}, range |-> <<800000, 1200000>>,
   root |-> TRUE, traps |-> TRUE, userspace |-> TRUE, uncore_tree |-> {0, 1},
   pstate |-> "active", governor |-> (0 :> "powersave" @@ 1 :> "powersave"),
   setspeed |-> (0 :> 0 @@ 1 :> 0), uncore |-> (0 :> <<800000, 1200000>> @@ 1 :> <<800000, 1200000>>)]

Plain == [budgets |-> MCBudgets, fatals |-> MCFatalOptions, fork_mode |-> "fork_each_test",
          seed |-> NoSeed, haveAes |-> FALSE, init |-> <<>>,
          vary_frequency_mode |-> FALSE, vary_uncore_frequency_mode |-> FALSE,
          machine |-> PlainMachine]
One   == [Plain EXCEPT !.budgets = {3}, !.fatals = {{}}]

Exec == [One EXCEPT !.haveAes = TRUE, !.fork_mode = "exec_each_test", !.init = <<"rand", "frandom">>,
           !.seed = StateSeed([engine |-> "AES", origin |-> "given", drawn |-> 0]),
           !.vary_frequency_mode = TRUE, !.vary_uncore_frequency_mode = TRUE]
\* An AArch64 machine, one CPU of which was under userspace.
InOne == [One EXCEPT !.fork_mode = "no_fork", !.init = <<"random_device">>,
           !.seed = FileSeed(TRUE), !.haveAes = FALSE, !.vary_frequency_mode = TRUE,
           !.machine = [PlainMachine EXCEPT !.traps = FALSE, !.pstate = "none", !.uncore_tree = {},
                          !.governor[1] = "userspace", !.setspeed[1] = 1000000,
                          !.range = <<800000, 1000000>>]]
\* The engine is stuck; the second package has fewer levels.
Zero == [One EXCEPT !.seed = StateSeed([engine |-> "LCG", origin |-> "zero", drawn |-> 0]),
           !.vary_uncore_frequency_mode = TRUE,
           !.machine.uncore[1] = <<800000, 900000>>]

\* Set-ups that fail or find less than they want.
Few  == [One EXCEPT !.budgets = {0}, !.haveAes = TRUE]
Vary == [Few EXCEPT !.vary_frequency_mode = TRUE]
Odd ==
  {[Few EXCEPT !.seed = s] :
     s \in {HelpSeed, UnknownSeed, FileSeed(FALSE), EngineSeed("Constant")}}
  \cup {[Few EXCEPT !.haveAes = FALSE, !.seed = EngineSeed("AES")],
        [Vary EXCEPT !.machine.range = <<>>],
        [Vary EXCEPT !.machine.governed = {0}],
        [Vary EXCEPT !.machine.userspace = FALSE],
        [Vary EXCEPT !.machine.root = FALSE],
        [Vary EXCEPT !.machine.range = <<800000, 850000>>],
        [Vary EXCEPT !.machine.range = <<800000, 850000>>, !.machine.traps = FALSE],
        [Few EXCEPT !.vary_uncore_frequency_mode = TRUE, !.machine.uncore_tree = {0}],
        [Few EXCEPT !.vary_uncore_frequency_mode = TRUE, !.machine.root = FALSE]}

MCEnvironments == {Plain, Exec, InOne, Zero} \cup Odd

\* memset_random() fills its buffer and nothing else; set_random_bits() sets as
\* many bits as it should, whatever it draws.
ASSUME \A n \in 0..40 : UNION Blocks(n) = 0..(n - 1)
ASSUME \A width \in 1..5, n \in 0..5 : \A picks \in [1..n -> 0..4] :
         Cardinality(set_random_bits(n, width, picks)) = IF n < width THEN n ELSE width
=============================================================================
