------------------------- MODULE MCMachineCheckpoint -------------------------
(* Executors and collectors of one machine for TLC. *)
EXTENDS MachineCheckpoint
==============================================================================
