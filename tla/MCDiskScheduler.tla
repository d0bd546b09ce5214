-------------------------- MODULE MCDiskScheduler --------------------------
(* Small instance of the disk scheduler. *)
EXTENDS DiskSchedulerProps
=============================================================================
