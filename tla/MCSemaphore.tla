---------------------------- MODULE MCSemaphore ----------------------------
(***************************************************************************)
(* Four threads, any of which calls P or V; the count is two bits wide so  *)
(* that it can wrap.                                                       *)
(***************************************************************************)
EXTENDS Semaphore
=============================================================================
