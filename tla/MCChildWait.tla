---------------------------- MODULE MCChildWait ----------------------------
(* Two children, so that one can exit, crash or hang while the              *)
(* parent handles the other, and two signals, the least for a second Ctrl+C.*)
EXTENDS ChildWait

MCOutcomes == {Passed, Skipped}
MCKillers  == {SIGKILL}
=============================================================================
