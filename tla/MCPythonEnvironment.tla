------------------------- MODULE MCPythonEnvironment -------------------------
(* One environment with two borrows for TLC. *)
EXTENDS PythonEnvironment, TLC

CONSTANTS p, e, b1, b2, h

Leased  == b1 :> e @@ b2 :> e
OwnedBy == b1 :> p @@ b2 :> p
OwnOf   == h :> {}
==============================================================================
