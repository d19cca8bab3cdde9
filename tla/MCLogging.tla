------------------------------ MODULE MCLogging ------------------------------
(***************************************************************************)
(* Two slices of one thread each.                                          *)
(***************************************************************************)
EXTENDS Logging

MCThreadRange == [s \in Slice |-> {s}]

MCDifference == {<<8, -1>>, <<8, 0>>, <<8, 3>>, <<8, 7>>}

With(format, verbosity, sink) ==
  [format |-> format, verbosity |-> verbosity, sink |-> sink, max_messages |-> 1,
   max_logdata |-> 5, fatal_skips |-> FALSE, log_test_knobs |-> TRUE, ignore_os_errors |-> TRUE,
   runs |-> 1, calls |-> 1, callers |-> Slice]

MCConfig ==
  {[With("yaml", 0, "default") EXCEPT !.runs = 2],
   [With("tap", 0, "named") EXCEPT !.runs = 2],
   [With("yaml", 0, "named") EXCEPT !.calls = 2, !.callers = {0}],
   [With("yaml", 1, "named") EXCEPT !.fatal_skips = TRUE, !.ignore_os_errors = FALSE],
   With("yaml", 3, "stdout"),
   [With("tap", 1, "default") EXCEPT !.max_messages = 0],
   With("key_value", 2, "named"),
   With("no_output", 0, "named")}
=============================================================================
