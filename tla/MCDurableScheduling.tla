------------------------ MODULE MCDurableScheduling ------------------------
(* Instances of DurableScheduling for TLC. *)
EXTENDS DurableScheduling, TLC

CONSTANTS p1, p2, t1, t2, t3

(* Two threads of one process, and a thread of another. *)
TwoAndOne == t1 :> p1 @@ t2 :> p1 @@ t3 :> p2
=============================================================================
