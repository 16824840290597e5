------------------------------ MODULE MCPasses ------------------------------
(* Instances of SchedulerPasses for TLC: those of Scheduler, with the history. *)
EXTENDS MCScheduler, SchedulerPasses
=============================================================================
