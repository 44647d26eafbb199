-------------------------- MODULE MCMachineDelivery --------------------------
(* An outbox for TLC: one commit that emits two commands and one that emits
   one. *)
EXTENDS MachineDelivery

CONSTANTS c1, c2, x1, x2, x3

TwoCommits == [c \in {c1, c2} |-> IF c = c1 THEN <<x1, x2>> ELSE <<x3>>]
==============================================================================
