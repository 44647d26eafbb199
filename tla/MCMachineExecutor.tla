-------------------------- MODULE MCMachineExecutor --------------------------
(* Two executors of one machine for TLC. *)
EXTENDS MachineExecutor, TLC

CONSTANTS e1, e2, e3, u1, u2

SameUnits == (e1 :> u1) @@ (e2 :> u1)
TwoUnits  == (e1 :> u1) @@ (e2 :> u1) @@ (e3 :> u2)

==============================================================================
