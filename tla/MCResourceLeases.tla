-------------------------- MODULE MCResourceLeases --------------------------
(* A dynamic scope s with two contenders and a shared resource k for TLC. *)
EXTENDS ResourceLeases, TLC

CONSTANTS p, s, k, s1, s2, k1, h1, h2

Leased  == s1 :> s @@ s2 :> s @@ k1 :> k
OwnedBy == s1 :> p @@ s2 :> p @@ k1 :> s
OwnOf   == h1 :> {} @@ h2 :> {k1}

(* The two contenders for s are alike. *)
Contenders == Permutations({s1, s2})
=============================================================================
