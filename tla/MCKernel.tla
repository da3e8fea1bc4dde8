------------------------------ MODULE MCKernel ------------------------------
(* Instances of Kernel for TLC.  Switches may land at every label.         *)
EXTENDS Kernel

(* A bound: once a switch has torn the tables, behaviours are followed as  *)
(* long as the last slot is free and no result was overwritten.            *)
SmallAfterTear == torn => openTasks[MaxTask] = FREE /\ clobbered = {}
=============================================================================
