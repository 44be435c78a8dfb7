---------------------------- MODULE MCSleepLock ----------------------------
(***************************************************************************)
(* Three threads contend for one lock: one can hold it, one can be woken   *)
(* for it and one can take it ahead of the woken one.                      *)
(***************************************************************************)
EXTENDS SleepLock
=============================================================================
