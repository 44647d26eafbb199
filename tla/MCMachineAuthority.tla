-------------------------- MODULE MCMachineAuthority --------------------------
(* The machine authority for TLC. *)
EXTENDS MachineAuthority
===============================================================================
