----------------------------- MODULE MCBarrier -----------------------------
(* A full pair and the partial group of an odd device, which can make the *)
(* groups before or after the pair needs them; three calls, so that the    *)
(* rotation comes round and a partner can be gone in any of them.  Rounds  *)
(* of the queue that end within a test, at its end and after it.           *)
EXTENDS Reschedule
=============================================================================
