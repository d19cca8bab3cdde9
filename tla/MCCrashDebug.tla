---------------------------- MODULE MCCrashDebug ----------------------------
(* Two children with two threads each: two crashes in one child race for   *)
(* in_crash_handler while a crash in the other keeps the parent busy.      *)
EXTENDS CrashDebug
=============================================================================
