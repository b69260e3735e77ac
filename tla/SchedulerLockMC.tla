--------------------------- MODULE SchedulerLockMC ---------------------------
(***************************************************************************)
(* SchedulerLock for TLC.                                                  *)
(***************************************************************************)
EXTENDS SchedulerLock

NoRetries == [j \in Jobs |-> 0]
=============================================================================
