---------------------------- MODULE MCSelftests ----------------------------
(* Two packages with one child of two threads each.                        *)
(* The test that ran before has failed in all threads.                     *)
EXTENDS Selftests, TLC

CONSTANTS s0, s1, t0, t1, u0, u1
MCSlice   == {s0, s1}
MCThread  == {t0, t1, u0, u1}
MCRange   == s0 :> {t0, t1} @@ s1 :> {u0, u1}
MCNumber  == t0 :> 0 @@ t1 :> 1 @@ u0 :> 0 @@ u1 :> 1
MCPackage == s0 :> 0 @@ s1 :> 1
MCStale   == {"failed"}
=============================================================================
