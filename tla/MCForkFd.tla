------------------------------- MODULE MCForkFd -------------------------------
(* Instances of ForkFd for TLC. *)
EXTENDS ForkFd

CONSTANTS main, other
MCThreads == {main, other}
MCCallers == {main}
MCKernels == {"pidfd", "noPidfd", "rejected", "pollFails", "pidCached"}
=============================================================================
