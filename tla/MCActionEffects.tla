--------------------------- MODULE MCActionEffects ---------------------------
(* Instances of ActionEffects for TLC. *)
EXTENDS ActionEffects

CONSTANTS a, b, x, c1, c2, q, w

Ids         == {a, b, x}
Rejected    == {x}
OneScope    == [i \in Id |-> "provider"]
Requests    == {q}
Marks       == {"acted", "proved"}
Completions == {w}
Nobody      == {}
Callers     == {c1, c2}
==============================================================================
